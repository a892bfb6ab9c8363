---------------------------- MODULE SumTheorems ----------------------------
(***************************************************************************)
(* Sums over finite sets, as MapThenSumSet computes them: what a sum does  *)
(* not depend on, and how it splits; and what is greatest in a finite set. *)
(* An induction over a finite set names the subsets it is true of.         *)
(***************************************************************************)
EXTENDS Integers, FiniteSets, FiniteSetsExt, FiniteSetTheorems, WellFoundedInduction, TLAPS

SumOver(f, S) == MapThenSumSet(LAMBDA x : f[x], S)

AnyOf(s) == CHOOSE x \in s : TRUE

\* What is added up, set by set.
Sums(iter, f, S) ==
    iter = [s \in SUBSET S |-> IF s = {} THEN 0 ELSE f[AnyOf(s)] + iter[s \ {AnyOf(s)}]]

TotalOf(f, S) == CHOOSE iter : Sums(iter, f, S)

LEMMA SumIsTotal == ASSUME NEW f, NEW S PROVE SumOver(f, S) = TotalOf(f, S)[S]
  BY DEF SumOver, MapThenSumSet, MapThenFoldSet, TotalOf, Sums, AnyOf

LEMMA SmallerSets ==
    ASSUME NEW S, IsFiniteSet(S)
    PROVE  \A s \in SUBSET S :
              /\ IsFiniteSet(s) /\ Cardinality(s) \in Nat
              /\ s # {} => AnyOf(s) \in s
              /\ \A e \in s : /\ s \ {e} \in SUBSET S
                              /\ Cardinality(s \ {e}) = Cardinality(s) - 1
                              /\ Cardinality(s \ {e}) < Cardinality(s)
  <1> SUFFICES ASSUME NEW s \in SUBSET S
               PROVE  /\ IsFiniteSet(s) /\ Cardinality(s) \in Nat
                      /\ s # {} => AnyOf(s) \in s
                      /\ \A e \in s : /\ s \ {e} \in SUBSET S
                                      /\ Cardinality(s \ {e}) = Cardinality(s) - 1
                                      /\ Cardinality(s \ {e}) < Cardinality(s)
    OBVIOUS
  <1>1. IsFiniteSet(s) /\ Cardinality(s) \in Nat
    BY FS_Subset, FS_CardinalityType
  <1>2. ASSUME s # {} PROVE AnyOf(s) \in s
    BY <1>2 DEF AnyOf
  <1>3. ASSUME NEW e \in s
        PROVE  /\ s \ {e} \in SUBSET S
               /\ Cardinality(s \ {e}) = Cardinality(s) - 1
               /\ Cardinality(s \ {e}) < Cardinality(s)
    <2>1. Cardinality(s \ {e}) = Cardinality(s) - 1
      BY <1>1, FS_RemoveElement
    <2> QED BY <1>1, <2>1
  <1> QED BY <1>1, <1>2, <1>3

\* What is true of a set once it is true of the smaller ones is true of all.
LEMMA BySize ==
    ASSUME NEW S, IsFiniteSet(S), NEW Good,
           \A s \in SUBSET S :
              (\A t \in SUBSET S : Cardinality(t) < Cardinality(s) => t \in Good) => s \in Good
    PROVE  \A s \in SUBSET S : s \in Good
  <1> DEFINE Bad == {Cardinality(s) : s \in {t \in SUBSET S : t \notin Good}}
  <1>1. Bad \subseteq Nat
    BY SmallerSets
  <1>2. Bad = {}
    <2> SUFFICES ASSUME Bad # {} PROVE FALSE
      OBVIOUS
    <2> HIDE DEF Bad
    <2>1. IsWellFoundedOn(OpToRel(<, Nat), Nat)
      BY NatLessThanWellFounded
    <2>2. PICK n \in Bad : \A k \in Bad : <<k, n>> \notin OpToRel(<, Nat)
      BY <1>1, <2>1, WFMin
    <2>3. n \in Nat /\ \A k \in Bad : ~(k < n)
      BY <1>1, <2>2 DEF OpToRel
    <2>4. PICK s \in SUBSET S : s \notin Good /\ n = Cardinality(s)
      BY <2>2 DEF Bad
    <2>5. ASSUME NEW t \in SUBSET S, Cardinality(t) < Cardinality(s) PROVE t \in Good
      <3>1. Cardinality(t) \notin Bad
        BY <2>3, <2>4, <2>5
      <3> QED BY <3>1 DEF Bad
    <2> QED BY <2>4, <2>5
  <1> QED BY <1>2

LEMMA SumsExist == ASSUME NEW S, IsFiniteSet(S), NEW f PROVE \E iter : Sums(iter, f, S)
  <1> DEFINE Small(n) == {s \in SUBSET S : Cardinality(s) <= n}
             Of(g, s) == IF s = {} THEN 0 ELSE f[AnyOf(s)] + g[s \ {AnyOf(s)}]
             Has(n) == \E g : g = [s \in Small(n) |-> Of(g, s)]
             Bad == {n \in Nat : ~Has(n)}
  <1>1. \A s \in SUBSET S :
          /\ Cardinality(s) \in Nat
          /\ s # {} => /\ s \ {AnyOf(s)} \in SUBSET S
                       /\ Cardinality(s \ {AnyOf(s)}) = Cardinality(s) - 1
          /\ Cardinality(s) = 0 => s = {}
    BY SmallerSets, FS_EmptySet
  <1>2. Bad = {}
    <2> SUFFICES ASSUME Bad # {} PROVE FALSE
      OBVIOUS
    <2>1. Bad \subseteq Nat
      OBVIOUS
    <2> HIDE DEF Bad
    <2>2. IsWellFoundedOn(OpToRel(<, Nat), Nat)
      BY NatLessThanWellFounded
    <2>3. PICK n \in Bad : \A k \in Bad : <<k, n>> \notin OpToRel(<, Nat)
      BY <2>1, <2>2, WFMin
    <2>4. n \in Nat /\ \A k \in Bad : ~(k < n)
      BY <2>1, <2>3 DEF OpToRel
    <2>5. ~Has(n)
      BY <2>3 DEF Bad
    <2>6. CASE n = 0
      <3> DEFINE g == [s \in Small(0) |-> 0]
      <3>1. ASSUME NEW s \in Small(0) PROVE s = {}
        <4>1. s \in SUBSET S /\ Cardinality(s) <= 0
          OBVIOUS
        <4>2. Cardinality(s) \in Nat /\ (Cardinality(s) = 0 => s = {})
          BY <1>1, <4>1
        <4> QED BY <4>1, <4>2
      <3>2. g = [s \in Small(0) |-> Of(g, s)]
        BY <3>1
      <3> HIDE DEF g, Of
      <3> QED BY <2>5, <2>6, <3>2
    <2>7. CASE n # 0
      <3> DEFINE m == n - 1
      <3>1. m \in Nat /\ m < n
        BY <2>4, <2>7
      <3>2. Has(m)
        BY <2>4, <3>1 DEF Bad
      <3>3. PICK g : g = [s \in Small(m) |-> Of(g, s)]
        BY <3>2
      <3> DEFINE h == [s \in Small(n) |-> Of(g, s)]
      <3>4. ASSUME NEW s \in Small(m) PROVE s \in Small(n) /\ g[s] = Of(g, s)
        <4>1. s \in SUBSET S /\ Cardinality(s) <= m /\ Cardinality(s) \in Nat
          BY <1>1
        <4>2. Cardinality(s) <= n
          BY <2>4, <3>1, <4>1
        <4>3. g[s] = Of(g, s)
          <5> HIDE DEF Of, Small
          <5> QED BY <3>3
        <4> QED BY <4>1, <4>2, <4>3
      <3>5. \A s \in Small(m) : h[s] = g[s]
        BY <3>4
      <3>6. \A s \in Small(n) : s # {} => s \ {AnyOf(s)} \in Small(m)
        BY <1>1, <2>4
      <3>7. ASSUME NEW s \in Small(n) PROVE Of(g, s) = Of(h, s)
        <4> HIDE DEF h, Small
        <4> QED BY <3>5, <3>6
      <3>8. h = [s \in Small(n) |-> Of(h, s)]
        <4> HIDE DEF Of
        <4> QED BY <3>7
      <3> HIDE DEF h, Of
      <3> QED BY <2>5, <3>8
    <2> QED BY <2>6, <2>7
  <1>3. Cardinality(S) \in Nat /\ \A s \in SUBSET S : Cardinality(s) <= Cardinality(S)
    BY FS_CardinalityType, FS_Subset
  <1>4. Has(Cardinality(S))
    <2> HIDE DEF Has
    <2> QED BY <1>2, <1>3
  <1>5. Small(Cardinality(S)) = SUBSET S
    BY <1>3
  <1>6. PICK g : g = [s \in SUBSET S |-> Of(g, s)]
    <2> HIDE DEF Of, Small
    <2> QED BY <1>4, <1>5
  <1>7. Sums(g, f, S)
    BY <1>6 DEF Sums
  <1> QED BY <1>7

LEMMA TotalSums == ASSUME NEW S, IsFiniteSet(S), NEW f PROVE Sums(TotalOf(f, S), f, S)
  BY SumsExist DEF TotalOf

\* An element may be taken out first.
LEMMA SumsRemove ==
    ASSUME NEW S, IsFiniteSet(S), NEW f, \A x \in S : f[x] \in Int, NEW iter, Sums(iter, f, S)
    PROVE  \A s \in SUBSET S :
              iter[s] \in Int /\ \A e \in s : iter[s] = f[e] + iter[s \ {e}]
  <1> DEFINE Good == {s \in SUBSET S :
                        iter[s] \in Int /\ \A e \in s : iter[s] = f[e] + iter[s \ {e}]}
  <1>1. ASSUME NEW s \in SUBSET S,
               \A t \in SUBSET S : Cardinality(t) < Cardinality(s) => t \in Good
        PROVE  s \in Good
    <2>1. ASSUME NEW e \in s PROVE s \ {e} \in Good /\ f[e] \in Int
      <3>1. s \ {e} \in SUBSET S /\ Cardinality(s \ {e}) < Cardinality(s)
        BY SmallerSets
      <3> HIDE DEF Good
      <3> QED BY <1>1, <3>1
    <2>2. CASE s = {}
      <3>1. iter[s] = 0
        BY <2>2 DEF Sums
      <3> QED BY <2>2, <3>1
    <2>3. CASE s # {}
      <3> DEFINE a == AnyOf(s)
      <3>1. a \in s
        BY <2>3, SmallerSets
      <3>2. iter[s] = f[a] + iter[s \ {a}]
        BY <2>3 DEF Sums
      <3> HIDE DEF a
      <3>3. f[a] \in Int /\ iter[s \ {a}] \in Int
        BY <2>1, <3>1
      <3>4. iter[s] \in Int
        BY <3>2, <3>3
      <3>5. ASSUME NEW e \in s PROVE iter[s] = f[e] + iter[s \ {e}]
        <4>1. CASE e = a
          BY <3>2, <4>1
        <4>2. CASE e # a
          <5> DEFINE t == (s \ {a}) \ {e}
          <5>1. t = (s \ {e}) \ {a} /\ e \in s \ {a} /\ a \in s \ {e}
            BY <3>1, <4>2
          <5>2. iter[s \ {a}] = f[e] + iter[t]
            BY <2>1, <3>1, <5>1
          <5>3. iter[s \ {e}] = f[a] + iter[t]
            BY <2>1, <5>1
          <5>4. t \in SUBSET S /\ Cardinality(t) < Cardinality(s)
            <6>1. s \ {a} \in SUBSET S /\ Cardinality(s \ {a}) < Cardinality(s)
              BY <3>1, SmallerSets
            <6>2. t \in SUBSET S /\ Cardinality(t) < Cardinality(s \ {a})
              BY <5>1, <6>1, SmallerSets
            <6>3. Cardinality(s) \in Nat /\ Cardinality(s \ {a}) \in Nat /\ Cardinality(t) \in Nat
              BY <6>1, <6>2, SmallerSets
            <6> QED BY <6>1, <6>2, <6>3
          <5>5. iter[t] \in Int /\ f[e] \in Int /\ f[a] \in Int
            BY <1>1, <2>1, <3>1, <5>4
          <5> HIDE DEF t
          <5> QED BY <3>2, <5>2, <5>3, <5>5
        <4> QED BY <4>1, <4>2
      <3> QED BY <3>4, <3>5
    <2> QED BY <2>2, <2>3
  <1> HIDE DEF Good
  <1>2. \A s \in SUBSET S : s \in Good
    BY <1>1, BySize
  <1> QED BY <1>2 DEF Good

\* A sum over a subset is the same sum.
LEMMA SumsAgree ==
    ASSUME NEW S, IsFiniteSet(S), NEW f, NEW i, Sums(i, f, S),
           NEW T \in SUBSET S, NEW g, \A x \in T : g[x] = f[x], NEW j, Sums(j, g, T)
    PROVE  \A s \in SUBSET T : j[s] = i[s]
  <1> DEFINE Good == {s \in SUBSET T : j[s] = i[s]}
  <1>1. IsFiniteSet(T)
    BY FS_Subset
  <1>2. ASSUME NEW s \in SUBSET T,
               \A t \in SUBSET T : Cardinality(t) < Cardinality(s) => t \in Good
        PROVE  s \in Good
    <2>1. /\ i[s] = IF s = {} THEN 0 ELSE f[AnyOf(s)] + i[s \ {AnyOf(s)}]
          /\ j[s] = IF s = {} THEN 0 ELSE g[AnyOf(s)] + j[s \ {AnyOf(s)}]
      BY DEF Sums
    <2>2. s # {} => AnyOf(s) \in s /\ s \ {AnyOf(s)} \in Good
      BY <1>1, <1>2, SmallerSets
    <2>3. s # {} => g[AnyOf(s)] = f[AnyOf(s)]
      BY <2>2
    <2> QED BY <2>1, <2>2, <2>3
  <1> HIDE DEF Good
  <1>3. \A s \in SUBSET T : s \in Good
    BY <1>1, <1>2, BySize
  <1> QED BY <1>3 DEF Good

-----------------------------------------------------------------------------
(***************************************************************************)
(* Sums.                                                                   *)
(***************************************************************************)
LEMMA SumOfNone == ASSUME NEW f PROVE SumOver(f, {}) = 0
  <1>1. Sums(TotalOf(f, {}), f, {})
    BY TotalSums, FS_EmptySet
  <1>2. TotalOf(f, {})[{}] = 0
    BY <1>1 DEF Sums
  <1> QED BY <1>2, SumIsTotal

\* A sum depends on the values added up.
LEMMA SumOfSame ==
    ASSUME NEW S, IsFiniteSet(S), NEW f, NEW T \in SUBSET S, NEW g, \A x \in T : g[x] = f[x]
    PROVE  SumOver(g, T) = TotalOf(f, S)[T]
  <1>1. Sums(TotalOf(f, S), f, S) /\ Sums(TotalOf(g, T), g, T)
    BY TotalSums, FS_Subset
  <1>2. TotalOf(g, T)[T] = TotalOf(f, S)[T]
    BY <1>1, SumsAgree
  <1> QED BY <1>2, SumIsTotal

LEMMA SumRemove ==
    ASSUME NEW S, IsFiniteSet(S), NEW f, \A x \in S : f[x] \in Int, NEW e \in S
    PROVE  /\ SumOver(f, S) \in Int /\ SumOver(f, S \ {e}) \in Int
           /\ SumOver(f, S) = f[e] + SumOver(f, S \ {e})
  <1> DEFINE all == TotalOf(f, S)
             rest == S \ {e}
  <1>1. Sums(all, f, S)
    BY TotalSums
  <1>2. SumOver(f, S) = all[S] /\ SumOver(f, rest) = all[rest]
    BY SumOfSame
  <1> HIDE DEF all
  <1>3. \A s \in SUBSET S : all[s] \in Int /\ \A x \in s : all[s] = f[x] + all[s \ {x}]
    BY <1>1, SumsRemove
  <1>4. S \in SUBSET S /\ rest \in SUBSET S
    OBVIOUS
  <1>5. all[S] \in Int /\ all[S] = f[e] + all[rest] /\ all[rest] \in Int
    BY <1>3, <1>4
  <1> QED BY <1>2, <1>5

LEMMA SumIsInt ==
    ASSUME NEW S, IsFiniteSet(S), NEW f, \A x \in S : f[x] \in Int
    PROVE  SumOver(f, S) \in Int
  <1>1. CASE S = {}
    BY <1>1, SumOfNone
  <1>2. CASE S # {}
    <2>1. PICK e \in S : TRUE
      BY <1>2
    <2> QED BY <2>1, SumRemove
  <1> QED BY <1>1, <1>2

LEMMA SumAdd ==
    ASSUME NEW S, IsFiniteSet(S), NEW f, \A x \in S : f[x] \in Int, NEW e, e \notin S,
           f[e] \in Int
    PROVE  SumOver(f, S \cup {e}) = f[e] + SumOver(f, S)
  <1> DEFINE T == S \cup {e}
  <1>1. IsFiniteSet(T) /\ T \ {e} = S /\ e \in T /\ \A x \in T : f[x] \in Int
    BY FS_AddElement
  <1> HIDE DEF T
  <1>2. SumOver(f, T) = f[e] + SumOver(f, T \ {e})
    BY <1>1, SumRemove
  <1> QED BY <1>1, <1>2 DEF T

\* The sum of two sets that share nothing.
LEMMA SumOfBoth ==
    ASSUME NEW A, IsFiniteSet(A), NEW B, IsFiniteSet(B), A \cap B = {}, NEW f,
           \A x \in A \cup B : f[x] \in Int
    PROVE  SumOver(f, A \cup B) = SumOver(f, A) + SumOver(f, B)
  <1> DEFINE Good == {s \in SUBSET B : SumOver(f, A \cup s) = SumOver(f, A) + SumOver(f, s)}
  <1>1. ASSUME NEW s \in SUBSET B,
               \A t \in SUBSET B : Cardinality(t) < Cardinality(s) => t \in Good
        PROVE  s \in Good
    <2>1. SumOver(f, A) \in Int
      BY SumIsInt
    <2>2. CASE s = {}
      <3>1. A \cup s = A /\ SumOver(f, s) = 0
        BY <2>2, SumOfNone
      <3> QED BY <2>1, <3>1
    <2>3. CASE s # {}
      <3>1. PICK e \in s : TRUE
        BY <2>3
      <3> DEFINE t == s \ {e}
      <3>2. t \in SUBSET B /\ Cardinality(t) < Cardinality(s)
        BY SmallerSets
      <3>3. IsFiniteSet(t) /\ IsFiniteSet(A \cup t)
        BY <3>2, FS_Subset, FS_Union
      <3>4. /\ t \cup {e} = s /\ (A \cup t) \cup {e} = A \cup s
            /\ e \notin t /\ e \notin A \cup t /\ f[e] \in Int
            /\ \A x \in A \cup t : f[x] \in Int
        OBVIOUS
      <3>5. SumOver(f, A \cup t) = SumOver(f, A) + SumOver(f, t)
        BY <1>1, <3>2
      <3> HIDE DEF t
      <3>6. SumOver(f, s) = f[e] + SumOver(f, t)
        BY <3>3, <3>4, SumAdd
      <3>7. SumOver(f, A \cup s) = f[e] + SumOver(f, A \cup t)
        BY <3>3, <3>4, SumAdd
      <3>8. SumOver(f, t) \in Int
        BY <3>3, <3>4, SumIsInt
      <3> QED BY <2>1, <3>4, <3>5, <3>6, <3>7, <3>8
    <2> QED BY <2>2, <2>3
  <1> HIDE DEF Good
  <1>2. B \in Good
    BY <1>1, BySize
  <1> QED BY <1>2 DEF Good

LEMMA SumIsNat ==
    ASSUME NEW S, IsFiniteSet(S), NEW f, \A x \in S : f[x] \in Nat
    PROVE  SumOver(f, S) \in Nat
  <1> DEFINE Good == {s \in SUBSET S : SumOver(f, s) \in Nat}
  <1>1. ASSUME NEW s \in SUBSET S,
               \A t \in SUBSET S : Cardinality(t) < Cardinality(s) => t \in Good
        PROVE  s \in Good
    <2>1. CASE s = {}
      BY <2>1, SumOfNone
    <2>2. CASE s # {}
      <3>1. PICK e \in s : TRUE
        BY <2>2
      <3>2. s \ {e} \in SUBSET S /\ Cardinality(s \ {e}) < Cardinality(s) /\ IsFiniteSet(s)
        BY SmallerSets
      <3>3. SumOver(f, s \ {e}) \in Nat
        BY <1>1, <3>2
      <3>4. \A x \in s : f[x] \in Int
        OBVIOUS
      <3>5. SumOver(f, s) = f[e] + SumOver(f, s \ {e})
        BY <3>2, <3>4, SumRemove
      <3> QED BY <3>3, <3>5
    <2> QED BY <2>1, <2>2
  <1> HIDE DEF Good
  <1>2. S \in Good
    BY <1>1, BySize
  <1> QED BY <1>2 DEF Good

\* Nothing adds up to nothing.
LEMMA SumOfZeros ==
    ASSUME NEW S, IsFiniteSet(S), NEW f, \A x \in S : f[x] = 0
    PROVE  SumOver(f, S) = 0
  <1> DEFINE Good == {s \in SUBSET S : SumOver(f, s) = 0}
  <1>1. ASSUME NEW s \in SUBSET S,
               \A t \in SUBSET S : Cardinality(t) < Cardinality(s) => t \in Good
        PROVE  s \in Good
    <2>1. CASE s = {}
      BY <2>1, SumOfNone
    <2>2. CASE s # {}
      <3>1. PICK e \in s : TRUE
        BY <2>2
      <3>2. IsFiniteSet(s) /\ \A x \in s : f[x] \in Int /\ f[x] = 0
        BY FS_Subset
      <3>3. s \ {e} \in SUBSET S /\ Cardinality(s \ {e}) < Cardinality(s)
        BY SmallerSets
      <3>4. SumOver(f, s \ {e}) = 0
        BY <1>1, <3>3
      <3>5. SumOver(f, s) = f[e] + SumOver(f, s \ {e})
        BY <3>2, SumRemove
      <3> QED BY <3>2, <3>4, <3>5
    <2> QED BY <2>1, <2>2
  <1> HIDE DEF Good
  <1>2. \A s \in SUBSET S : s \in Good
    BY <1>1, BySize
  <1> QED BY <1>2 DEF Good

\* What is left out is missing.
LEMMA SumOfPart ==
    ASSUME NEW S, IsFiniteSet(S), NEW f, \A x \in S : f[x] \in Nat, NEW T \in SUBSET S
    PROVE  SumOver(f, T) <= SumOver(f, S)
  <1> DEFINE U == S \ T
  <1>1. IsFiniteSet(T) /\ IsFiniteSet(U) /\ T \cap U = {} /\ T \cup U = S
    BY FS_Subset
  <1>2. SumOver(f, T) \in Nat /\ SumOver(f, U) \in Nat
    BY <1>1, SumIsNat
  <1>3. \A x \in T \cup U : f[x] \in Int
    OBVIOUS
  <1> HIDE DEF U
  <1>4. SumOver(f, T \cup U) = SumOver(f, T) + SumOver(f, U)
    BY <1>1, <1>3, SumOfBoth
  <1>5. SumOver(f, S) = SumOver(f, T) + SumOver(f, U)
    BY <1>1, <1>4
  <1> QED BY <1>2, <1>5

\* A set is made of its parts, and g is what each part adds up to.
AreParts(whole, I, parts, f, g) ==
    /\ \A i \in I : /\ IsFiniteSet(parts[i]) /\ \A x \in parts[i] : f[x] \in Int
                    /\ g[i] = SumOver(f, parts[i])
    /\ \A i \in I : \A j \in I : i # j => parts[i] \cap parts[j] = {}
    /\ whole = UNION {parts[i] : i \in I}

\* The sums of the parts of a set add up to its own.
LEMMA SumOfParts ==
    ASSUME NEW I, IsFiniteSet(I), NEW parts, NEW f, NEW g, NEW whole,
           AreParts(whole, I, parts, f, g)
    PROVE  IsFiniteSet(whole) /\ SumOver(g, I) = SumOver(f, whole)
  <1>0. /\ \A i \in I : /\ IsFiniteSet(parts[i]) /\ \A x \in parts[i] : f[x] \in Int
                        /\ g[i] = SumOver(f, parts[i])
        /\ \A i \in I : \A j \in I : i # j => parts[i] \cap parts[j] = {}
    BY DEF AreParts
  <1> DEFINE All(J) == UNION {parts[i] : i \in J}
             Good == {J \in SUBSET I : IsFiniteSet(All(J)) /\ SumOver(g, J) = SumOver(f, All(J))}
  <1>1. ASSUME NEW i \in I PROVE g[i] \in Int
    BY <1>0, SumIsInt
  <1>2. ASSUME NEW J \in SUBSET I,
               \A K \in SUBSET I : Cardinality(K) < Cardinality(J) => K \in Good
        PROVE  J \in Good
    <2>1. CASE J = {}
      <3>1. All(J) = {}
        BY <2>1
      <3> HIDE DEF All
      <3> QED BY <2>1, <3>1, SumOfNone, FS_EmptySet
    <2>2. CASE J # {}
      <3>1. PICK j \in J : TRUE
        BY <2>2
      <3> DEFINE K == J \ {j}
      <3>2. K \in SUBSET I /\ Cardinality(K) < Cardinality(J) /\ IsFiniteSet(J)
        BY SmallerSets
      <3>3. K \in Good
        BY <1>2, <3>2
      <3>4. SumOver(g, J) = g[j] + SumOver(g, K)
        BY <1>1, <3>2, SumRemove
      <3>5. All(J) = All(K) \cup parts[j] /\ All(K) \cap parts[j] = {}
        BY <1>0
      <3>6. \A x \in All(K) \cup parts[j] : f[x] \in Int
        BY <1>0
      <3>7. IsFiniteSet(All(K)) /\ SumOver(g, K) = SumOver(f, All(K)) /\ IsFiniteSet(parts[j])
        BY <1>0, <3>3
      <3> HIDE DEF All, K
      <3>8. IsFiniteSet(All(J))
        <4>1. IsFiniteSet(All(K) \cup parts[j])
          BY <3>7, FS_Union
        <4> QED BY <3>5, <4>1
      <3>9. SumOver(f, All(J)) = SumOver(f, All(K)) + SumOver(f, parts[j])
        BY <3>5, <3>6, <3>7, SumOfBoth
      <3>10. g[j] = SumOver(f, parts[j]) /\ g[j] \in Int /\ SumOver(f, All(K)) \in Int
        BY <1>0, <1>1, <3>6, <3>7, SumIsInt
      <3> QED BY <3>4, <3>7, <3>8, <3>9, <3>10
    <2> QED BY <2>1, <2>2
  <1> HIDE DEF Good
  <1>3. I \in Good
    BY <1>2, BySize
  <1> QED BY <1>3 DEF Good, AreParts

\* B is A under other names, and g is f under the names of A.
Renames(B, A, b, f, g) ==
    /\ \A x \in A : g[x] \in Int /\ g[x] = f[b[x]]
    /\ \A x \in A : \A y \in A : b[x] = b[y] => x = y
    /\ B = {b[x] : x \in A}

\* A sum goes by what is added up, not by the names of the places.
LEMMA SumRenamed ==
    ASSUME NEW A, IsFiniteSet(A), NEW b, NEW f, NEW g, NEW B, Renames(B, A, b, f, g)
    PROVE  SumOver(g, A) = SumOver(f, B)
  <1>0. /\ \A x \in A : g[x] \in Int /\ g[x] = f[b[x]]
        /\ \A x \in A : \A y \in A : b[x] = b[y] => x = y
        /\ B = {b[x] : x \in A}
    BY DEF Renames
  <1> DEFINE parts == [x \in A |-> {b[x]}]
  <1>1. ASSUME NEW x \in A
        PROVE  /\ IsFiniteSet(parts[x]) /\ \A y \in parts[x] : f[y] \in Int
               /\ g[x] = SumOver(f, parts[x])
    <2>1. parts[x] = {b[x]} /\ IsFiniteSet({b[x]}) /\ {b[x]} \ {b[x]} = {}
      BY FS_Singleton
    <2>0. g[x] \in Int /\ g[x] = f[b[x]]
      BY <1>0
    <2>2. SumOver(f, {b[x]}) = f[b[x]] + SumOver(f, {b[x]} \ {b[x]})
      BY <2>0, <2>1, SumRemove
    <2>3. SumOver(f, {}) = 0
      BY SumOfNone
    <2> QED BY <2>0, <2>1, <2>2, <2>3
  <1>2. \A x \in A : \A y \in A : x # y => parts[x] \cap parts[y] = {}
    BY <1>0
  <1>3. UNION {parts[x] : x \in A} = {b[x] : x \in A}
    OBVIOUS
  <1> HIDE DEF parts
  <1> DEFINE whole == UNION {parts[x] : x \in A}
  <1>4. IsFiniteSet(whole) /\ SumOver(g, A) = SumOver(f, whole)
    <2>1. AreParts(whole, A, parts, f, g)
      BY <1>1, <1>2 DEF AreParts
    <2> QED BY <2>1, SumOfParts
  <1> HIDE DEF whole
  <1>5. whole = {b[x] : x \in A}
    BY <1>3 DEF whole
  <1> QED BY <1>0, <1>4, <1>5

-----------------------------------------------------------------------------
\* A finite set has an element that is worth most.
LEMMA GreatestExists ==
    ASSUME NEW S, IsFiniteSet(S), S # {}, NEW f, \A x \in S : f[x] \in Nat
    PROVE  \E m \in S : \A x \in S : f[x] <= f[m]
  <1> DEFINE Good == {U \in SUBSET S : U # {} => \E m \in U : \A x \in U : f[x] <= f[m]}
  <1>1. ASSUME NEW U \in SUBSET S,
               \A V \in SUBSET S : Cardinality(V) < Cardinality(U) => V \in Good
        PROVE  U \in Good
    <2>1. CASE U = {}
      BY <2>1
    <2>2. CASE U # {}
      <3>1. PICK u \in U : TRUE
        BY <2>2
      <3> DEFINE V == U \ {u}
      <3>2. V \in Good
        <4>1. V \in SUBSET S /\ Cardinality(V) < Cardinality(U)
          BY <3>1, SmallerSets
        <4> HIDE DEF Good, V
        <4> QED BY <1>1, <4>1
      <3>3. \A x \in U : (x = u \/ x \in V) /\ f[x] \in Nat
        OBVIOUS
      <3>4. CASE V = {}
        BY <3>1, <3>3, <3>4
      <3>5. CASE V # {}
        <4>1. PICK m \in V : \A x \in V : f[x] <= f[m]
          BY <3>2, <3>5
        <4>2. CASE f[u] <= f[m]
          BY <3>3, <4>1, <4>2
        <4>3. CASE ~(f[u] <= f[m])
          <5>1. ASSUME NEW x \in U PROVE f[x] <= f[u]
            <6>1. f[x] \in Nat /\ f[u] \in Nat /\ f[m] \in Nat
              BY <3>3
            <6>2. x = u \/ f[x] <= f[m]
              BY <3>3, <4>1
            <6> QED BY <4>3, <6>1, <6>2
          <5> QED BY <5>1
        <4> QED BY <4>2, <4>3
      <3> QED BY <3>4, <3>5
    <2> QED BY <2>1, <2>2
  <1> HIDE DEF Good
  <1>2. S \in Good
    BY <1>1, BySize
  <1> QED BY <1>2 DEF Good
=============================================================================
