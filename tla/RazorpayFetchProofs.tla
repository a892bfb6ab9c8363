------------------------- MODULE RazorpayFetchProofs -------------------------
(***************************************************************************)
(* Proofs about RazorpayFetch: what a fetch may miss, and what it may get  *)
(* twice, for lists and pages of any length.                               *)
(***************************************************************************)
EXTENDS RazorpayFetch, SumTheorems

\* The item at place k of the history of c has been fetched.
Got(c, k) == \E n \in DOMAIN fetched[c] : fetched[c][n] = k

TypeOK ==
    /\ known \in [Names -> Nat]
    /\ begun \in [Names -> Nat]
    /\ fetched \in [Names -> Seq(Nat)]
    /\ at \in 1 .. 5
    /\ skip \in Nat
    /\ page \in Nat

InHistory ==
    \A c \in Names :
        /\ begun[c] <= known[c]
        /\ known[c] <= Len(History[c])

\* What was there when the fetch of this collection began is fetched or to come.
Underway ==
    /\ skip = Len(fetched[Here])
    /\ skip <= known[Here]
    /\ \A k \in 1 .. begun[Here] : Got(Here, k) \/ k <= known[Here] - skip

ToCome == \A n \in (at + 1) .. 5 : fetched[Collections[n]] = <<>>

Done(n) == \A k \in 1 .. begun[Collections[n]] : Got(Collections[n], k)

Behind ==
    /\ \A n \in 1 .. (at - 1) : Done(n)
    /\ status = "fetched" => Done(at) /\ at = 5

FetchInv ==
    /\ TypeOK
    /\ InHistory
    /\ status = "fetching" => Underway /\ ToCome
    /\ Behind

-----------------------------------------------------------------------------
LEMMA NamesFacts ==
    /\ DOMAIN Collections = 1 .. 5
    /\ \A n \in 1 .. 5 : Collections[n] \in Names
    /\ \A k, n \in 1 .. 5 : Collections[k] = Collections[n] => k = n
    /\ \A c \in Names : \E n \in 1 .. 5 : Collections[n] = c
  <1>1. Len(Collections) = 5 /\ DOMAIN Collections = 1 .. 5
    BY DEF Collections
  <1>2. \A n \in 1 .. 5 : Collections[n] \in Names
    BY <1>1 DEF Names
  <1>3. \A c \in Names : \E n \in 1 .. 5 : Collections[n] = c
    BY <1>1 DEF Names
  <1>4. /\ Collections[1] = "orders" /\ Collections[2] = "payments"
        /\ Collections[3] = "refunds" /\ Collections[4] = "settlements"
        /\ Collections[5] = "recon"
    BY DEF Collections
  <1>5. \A k, n \in 1 .. 5 : Collections[k] = Collections[n] => k = n
    BY <1>4
  <1> QED BY <1>1, <1>2, <1>3, <1>5

\* A page is what comes next, seen from the end of the list.
LEMMA PageFacts ==
    ASSUME TypeOK, skip <= known[Here]
    PROVE  /\ Page \in Seq(Nat)
           /\ Len(Page) <= PageSize
           /\ Len(Page) <= known[Here] - skip
           /\ Len(Page) < PageSize => Len(Page) = known[Here] - skip
           /\ \A k \in Nat : k <= known[Here] - skip /\ k > known[Here] - skip - Len(Page)
                => \E n \in DOMAIN Page : Page[n] = k
  <1>1. Here \in Names /\ known[Here] \in Nat /\ skip \in Nat
    BY NamesFacts DEF TypeOK, Here
  <1> DEFINE left == known[Here] - skip
             len == IF left < PageSize THEN left ELSE PageSize
  <1>2. left \in Nat /\ len \in Nat /\ PageSize \in Nat /\ len <= left
    BY <1>1, FetchAssumption
  <1>3. Page = [n \in 1 .. len |-> known[Here] + 1 - skip - n]
    BY DEF Page
  <1>4. Page \in Seq(Nat) /\ Len(Page) = len
    <2>1. \A n \in 1 .. len : known[Here] + 1 - skip - n \in Nat
      BY <1>1, <1>2
    <2> QED BY <1>2, <1>3, <2>1
  <1>5. ASSUME NEW k \in Nat, k <= left, k > left - len
        PROVE  \E n \in DOMAIN Page : Page[n] = k
    <2>1. known[Here] + 1 - skip - (left + 1 - k) = k
      <3>1. \A a, b, c \in Nat : a + 1 - b - (a - b + 1 - c) = c
        OBVIOUS
      <3> QED BY <1>1, <1>5, <3>1
    <2> HIDE DEF left
    <2>2. left + 1 - k \in 1 .. len
      BY <1>2, <1>5
    <2> QED BY <1>3, <2>1, <2>2
  <1> QED BY <1>1, <1>2, <1>4, <1>5

LEMMA ConcatHasBoth ==
    ASSUME NEW s \in Seq(Nat), NEW t \in Seq(Nat), NEW k
    PROVE  /\ (\E n \in DOMAIN s : s[n] = k) => \E n \in DOMAIN (s \o t) : (s \o t)[n] = k
           /\ (\E n \in DOMAIN t : t[n] = k) => \E n \in DOMAIN (s \o t) : (s \o t)[n] = k
  <1>1. /\ DOMAIN s = 1 .. Len(s) /\ DOMAIN t = 1 .. Len(t)
        /\ DOMAIN (s \o t) = 1 .. Len(s) + Len(t)
        /\ Len(s) \in Nat /\ Len(t) \in Nat
    OBVIOUS
  <1>2. ASSUME NEW n \in DOMAIN s PROVE n \in DOMAIN (s \o t) /\ (s \o t)[n] = s[n]
    BY <1>1
  <1>3. ASSUME NEW n \in DOMAIN t
        PROVE  Len(s) + n \in DOMAIN (s \o t) /\ (s \o t)[Len(s) + n] = t[n]
    BY <1>1
  <1> QED BY <1>2, <1>3

\* With the page read, what was there is fetched or after it.
LEMMA WithFacts ==
    ASSUME FetchInv, status = "fetching", NEW f, f = With(Page)
    PROVE  /\ f \in [Names -> Seq(Nat)]
           /\ Len(f[Here]) = skip + Len(Page)
           /\ \A k \in 1 .. begun[Here] :
                \/ \E n \in DOMAIN f[Here] : f[Here][n] = k
                \/ k <= known[Here] - (skip + Len(Page))
           /\ \A c \in Names \ {Here} : f[c] = fetched[c]
  <1>1. /\ TypeOK /\ Underway /\ Here \in Names /\ skip \in Nat
        /\ known[Here] \in Nat /\ begun[Here] \in Nat /\ fetched[Here] \in Seq(Nat)
    BY NamesFacts DEF FetchInv, TypeOK, Here
  <1>2. skip <= known[Here] /\ skip = Len(fetched[Here])
    BY <1>1 DEF Underway
  <1>3. /\ Page \in Seq(Nat)
        /\ \A k \in Nat : k <= known[Here] - skip /\ k > known[Here] - skip - Len(Page)
             => \E n \in DOMAIN Page : Page[n] = k
    BY <1>1, <1>2, PageFacts
  <1>4. f = [fetched EXCEPT ![Here] = fetched[Here] \o Page]
    BY DEF With
  <1>5. f[Here] = fetched[Here] \o Page /\ fetched[Here] \o Page \in Seq(Nat)
    BY <1>1, <1>3, <1>4 DEF TypeOK
  <1>6. f \in [Names -> Seq(Nat)] /\ \A c \in Names \ {Here} : f[c] = fetched[c]
    BY <1>1, <1>4, <1>5 DEF TypeOK
  <1>7. Len(f[Here]) = skip + Len(Page)
    BY <1>1, <1>2, <1>3, <1>5
  <1>8. ASSUME NEW k
        PROVE  /\ (\E n \in DOMAIN fetched[Here] : fetched[Here][n] = k)
                    => \E n \in DOMAIN f[Here] : f[Here][n] = k
               /\ (\E n \in DOMAIN Page : Page[n] = k)
                    => \E n \in DOMAIN f[Here] : f[Here][n] = k
    <2> DEFINE old == fetched[Here]
               new == Page
               both == f[Here]
    <2>1. old \in Seq(Nat) /\ new \in Seq(Nat) /\ both = old \o new
      BY <1>1, <1>3, <1>5
    <2> HIDE DEF old, new, both
    <2>2. /\ (\E n \in DOMAIN old : old[n] = k) => \E n \in DOMAIN both : both[n] = k
          /\ (\E n \in DOMAIN new : new[n] = k) => \E n \in DOMAIN both : both[n] = k
      BY <2>1, ConcatHasBoth
    <2> QED BY <2>2 DEF old, new, both
  <1>9. ASSUME NEW k \in 1 .. begun[Here], k > known[Here] - (skip + Len(Page))
        PROVE  \E n \in DOMAIN f[Here] : f[Here][n] = k
    <2>1. CASE Got(Here, k)
      <3>1. \E n \in DOMAIN fetched[Here] : fetched[Here][n] = k
        BY <2>1 DEF Got
      <3> QED BY <1>8, <3>1, Zenon
    <2>2. CASE ~Got(Here, k)
      <3>1. k <= known[Here] - skip
        BY <1>1, <2>2 DEF Underway
      <3>2. Len(Page) \in Nat /\ k \in Nat
        BY <1>1, <1>3
      <3>3. k > known[Here] - skip - Len(Page)
        BY <1>1, <1>9, <3>2
      <3>4. \E n \in DOMAIN Page : Page[n] = k
        BY <1>3, <3>1, <3>2, <3>3
      <3> QED BY <1>8, <3>4, Zenon
    <2> QED BY <2>1, <2>2
  <1>10. ASSUME NEW k \in 1 .. begun[Here]
        PROVE  \/ \E n \in DOMAIN f[Here] : f[Here][n] = k
               \/ k <= known[Here] - (skip + Len(Page))
    <2>1. Len(Page) \in Nat /\ k \in Nat
      BY <1>1, <1>3
    <2> QED BY <1>1, <1>9, <2>1
  <1> QED BY <1>6, <1>7, <1>10

LEMMA InitInv == Init => FetchInv
  <1> SUFFICES ASSUME Init PROVE FetchInv
    OBVIOUS
  <1>1. known \in [Names -> Nat] /\ begun = known /\ fetched = [c \in Names |-> <<>>]
    <2>1. PICK m : known \in [Names -> 0 .. m] /\ \A c \in Names : known[c] <= Len(History[c])
      BY DEF Init
    <2>2. \A c \in Names : Len(History[c]) \in Nat
      BY FetchAssumption
    <2>3. \A c \in Names : known[c] \in Nat
      BY <2>1, <2>2
    <2> QED BY <2>1, <2>3 DEF Init
  <1>2. TypeOK
    BY <1>1 DEF Init, TypeOK
  <1>3. InHistory
    BY <1>1 DEF Init, InHistory
  <1>4. Here \in Names /\ at = 1 /\ skip = 0 /\ status = "fetching"
    BY NamesFacts DEF Init, Here
  <1>5. Underway
    BY <1>1, <1>4 DEF Underway
  <1>6. ToCome /\ Behind
    BY <1>1, <1>4, NamesFacts DEF ToCome, Behind
  <1> QED BY <1>2, <1>3, <1>5, <1>6 DEF FetchInv

LEMMA ArriveInv == FetchInv /\ (\E c \in Names : Arrive(c)) => FetchInv'
  <1> SUFFICES ASSUME FetchInv, NEW c \in Names, Arrive(c) PROVE FetchInv'
    OBVIOUS
  <1>1. /\ known' = [known EXCEPT ![c] = @ + 1] /\ known[c] < Len(History[c])
        /\ at' = at /\ skip' = skip /\ page' = page /\ fetched' = fetched
        /\ begun' = begun /\ status' = status
    BY DEF Arrive
  <1>2. TypeOK'
    BY <1>1 DEF FetchInv, TypeOK
  <1>3. \A d \in Names : known'[d] >= known[d] /\ known'[d] <= Len(History[d])
    <2>1. \A d \in Names : known[d] \in Nat /\ known[d] <= Len(History[d]) /\ Len(History[d]) \in Nat
      BY FetchAssumption DEF FetchInv, InHistory, TypeOK
    <2> QED BY <1>1, <2>1 DEF FetchInv, TypeOK
  <1>4. InHistory'
    <2>1. \A d \in Names : begun[d] <= known[d] /\ begun[d] \in Nat /\ known[d] \in Nat /\ known'[d] \in Nat
      BY <1>2 DEF FetchInv, InHistory, TypeOK
    <2> QED BY <1>1, <1>3, <2>1 DEF InHistory
  <1>5. Underway => Underway'
    <2>1. Here' = Here /\ Here \in Names
      BY <1>1, NamesFacts DEF Here, FetchInv, TypeOK
    <2>2. /\ known[Here] \in Nat /\ known'[Here] \in Nat /\ skip \in Nat
          /\ known[Here] <= known'[Here] /\ begun[Here] \in Nat
      BY <1>2, <1>3, <2>1 DEF FetchInv, TypeOK
    <2> QED BY <1>1, <2>1, <2>2 DEF Underway, Got
  <1>6. ToCome => ToCome'
    BY <1>1 DEF ToCome
  <1>7. Behind'
    BY <1>1 DEF FetchInv, Behind, Done, Got
  <1> QED BY <1>1, <1>2, <1>4, <1>5, <1>6, <1>7 DEF FetchInv

LEMMA NextPageInv == FetchInv /\ NextPage => FetchInv'
  <1> SUFFICES ASSUME FetchInv, NextPage PROVE FetchInv'
    OBVIOUS
  <1>1. /\ status = "fetching" /\ fetched' = With(Page) /\ skip' = skip + Len(Page)
        /\ page' = page + 1 /\ known' = known /\ at' = at /\ begun' = begun /\ status' = status
    BY DEF NextPage, Skip
  <1>2. /\ TypeOK /\ Underway /\ ToCome /\ Here' = Here /\ Here \in Names
        /\ known[Here] \in Nat /\ skip \in Nat /\ skip <= known[Here]
    BY <1>1, NamesFacts DEF FetchInv, TypeOK, Here, Underway
  <1>3. Len(Page) \in Nat /\ Len(Page) <= known[Here] - skip
    BY <1>2, PageFacts
  <1>4. /\ fetched' \in [Names -> Seq(Nat)]
        /\ Len(fetched'[Here]) = skip + Len(Page)
        /\ \A k \in 1 .. begun[Here] :
             \/ \E n \in DOMAIN fetched'[Here] : fetched'[Here][n] = k
             \/ k <= known[Here] - (skip + Len(Page))
        /\ \A c \in Names \ {Here} : fetched'[c] = fetched[c]
    BY <1>1, WithFacts
  <1>5. TypeOK'
    BY <1>1, <1>2, <1>3, <1>4 DEF TypeOK
  <1>6. InHistory'
    BY <1>1 DEF FetchInv, InHistory
  <1>7. Underway'
    <2>1. skip' <= known[Here]
      BY <1>1, <1>2, <1>3
    <2> QED BY <1>1, <1>2, <1>4, <2>1 DEF Underway, Got
  <1>8. \A n \in 1 .. 5 : n # at => fetched'[Collections[n]] = fetched[Collections[n]]
    BY <1>2, <1>4, NamesFacts DEF TypeOK, Here
  <1>9. ToCome'
    <2>1. \A n \in (at + 1) .. 5 : n \in 1 .. 5 /\ n # at
      BY <1>2 DEF TypeOK
    <2>2. \A n \in (at + 1) .. 5 : fetched'[Collections[n]] = <<>>
      BY <1>2, <1>8, <2>1 DEF ToCome
    <2> QED BY <1>1, <2>2 DEF ToCome
  <1>10. Behind'
    <2>1. \A n \in 1 .. (at - 1) : n \in 1 .. 5 /\ n # at
      BY <1>2 DEF TypeOK
    <2> QED BY <1>1, <1>8, <2>1 DEF FetchInv, Behind, Done, Got
  <1> QED BY <1>5, <1>6, <1>7, <1>9, <1>10 DEF FetchInv

\* The last page of a collection leaves nothing out.
LEMMA LastPage ==
    ASSUME FetchInv, status = "fetching", Len(Page) < PageSize, NEW f, f = With(Page)
    PROVE  /\ f \in [Names -> Seq(Nat)]
           /\ \A k \in 1 .. begun[Here] : \E n \in DOMAIN f[Here] : f[Here][n] = k
           /\ \A n \in 1 .. 5 : n # at => f[Collections[n]] = fetched[Collections[n]]
  <1>1. /\ TypeOK /\ Underway /\ Here \in Names
        /\ known[Here] \in Nat /\ skip \in Nat /\ skip <= known[Here]
    BY NamesFacts DEF FetchInv, TypeOK, Here, Underway
  <1>2. Len(Page) = known[Here] - skip
    BY <1>1, PageFacts
  <1>3. known[Here] - (skip + Len(Page)) = 0
    BY <1>1, <1>2
  <1>4. /\ f \in [Names -> Seq(Nat)]
        /\ \A k \in 1 .. begun[Here] :
             \/ \E n \in DOMAIN f[Here] : f[Here][n] = k
             \/ k <= 0
        /\ \A c \in Names \ {Here} : f[c] = fetched[c]
    BY <1>3, WithFacts
  <1>5. \A k \in 1 .. begun[Here] : ~(k <= 0)
    OBVIOUS
  <1>6. \A n \in 1 .. 5 : n # at => f[Collections[n]] = fetched[Collections[n]]
    BY <1>1, <1>4, NamesFacts DEF TypeOK, Here
  <1> QED BY <1>4, <1>5, <1>6

LEMMA NextCollectionInv == FetchInv /\ NextCollection => FetchInv'
  <1> SUFFICES ASSUME FetchInv, NextCollection PROVE FetchInv'
    OBVIOUS
  <1>1. /\ status = "fetching" /\ Len(Page) < PageSize /\ fetched' = With(Page)
        /\ at < 5 /\ at' = at + 1 /\ skip' = 0 /\ page' = 1
        /\ begun' = [begun EXCEPT ![Collections[at + 1]] = known[Collections[at + 1]]]
        /\ known' = known /\ status' = status
    <2>1. Len(Collections) = 5
      BY DEF Collections
    <2> QED BY <2>1 DEF NextCollection
  <1>2. /\ TypeOK /\ ToCome /\ at \in 1 .. 4 /\ at + 1 \in 1 .. 5
        /\ Collections[at + 1] \in Names /\ Collections[at] \in Names
        /\ Here = Collections[at] /\ Here' = Collections[at + 1]
    <2>1. TypeOK /\ ToCome
      BY <1>1 DEF FetchInv
    <2>2. at \in 1 .. 4 /\ at \in 1 .. 5 /\ at + 1 \in 1 .. 5
      BY <1>1, <2>1 DEF TypeOK
    <2>3. Here = Collections[at] /\ Here' = Collections[at + 1]
      BY <1>1 DEF Here
    <2> QED BY <2>1, <2>2, <2>3, NamesFacts
  <1>3. /\ fetched' \in [Names -> Seq(Nat)]
        /\ \A k \in 1 .. begun[Here] : \E n \in DOMAIN fetched'[Here] : fetched'[Here][n] = k
        /\ \A n \in 1 .. 5 : n # at => fetched'[Collections[n]] = fetched[Collections[n]]
    BY <1>1, LastPage
  <1>4. \A n \in 1 .. 5 : n # at + 1 => begun'[Collections[n]] = begun[Collections[n]]
    BY <1>1, <1>2, NamesFacts DEF TypeOK
  <1>5. begun' \in [Names -> Nat] /\ begun'[Collections[at + 1]] = known[Collections[at + 1]]
    BY <1>1, <1>2 DEF TypeOK
  <1>6. TypeOK'
    BY <1>1, <1>2, <1>3, <1>5 DEF TypeOK
  <1>7. InHistory'
    <2>1. ASSUME NEW c \in Names PROVE begun'[c] <= known[c] /\ known[c] <= Len(History[c])
      <3>1. CASE c = Collections[at + 1]
        BY <1>2, <1>5, <3>1 DEF FetchInv, InHistory, TypeOK
      <3>2. CASE c # Collections[at + 1]
        BY <1>1, <3>2 DEF FetchInv, InHistory, TypeOK
      <3> QED BY <3>1, <3>2
    <2> QED BY <1>1, <2>1 DEF InHistory
  <1>8. Underway'
    <2>1. fetched'[Collections[at + 1]] = <<>>
      BY <1>2, <1>3 DEF ToCome
    <2>2. known[Collections[at + 1]] \in Nat
      BY <1>2 DEF TypeOK
    <2> QED BY <1>1, <1>2, <1>5, <2>1, <2>2 DEF Underway
  <1>9. ToCome'
    BY <1>1, <1>2, <1>3 DEF ToCome
  <1>10. Behind'
    <2>1. ASSUME NEW n \in 1 .. at PROVE Done(n)'
      <3>1. CASE n = at
        <4>1. begun'[Here] = begun[Here]
          BY <1>2, <1>4, NamesFacts
        <4> QED BY <1>2, <1>3, <3>1, <4>1 DEF Done, Got
      <3>2. CASE n # at
        <4>1. Done(n) /\ n \in 1 .. 5 /\ n # at + 1
          BY <1>2, <3>2 DEF FetchInv, Behind
        <4> QED BY <1>3, <1>4, <3>2, <4>1 DEF Done, Got
      <3> QED BY <3>1, <3>2
    <2>2. at' - 1 = at
      BY <1>1, <1>2
    <2> QED BY <1>1, <2>1, <2>2 DEF Behind
  <1> QED BY <1>6, <1>7, <1>8, <1>9, <1>10 DEF FetchInv

LEMMA MapInv == FetchInv /\ Map => FetchInv'
  <1> SUFFICES ASSUME FetchInv, Map PROVE FetchInv'
    OBVIOUS
  <1>1. /\ status = "fetching" /\ Len(Page) < PageSize /\ fetched' = With(Page)
        /\ at = 5 /\ at' = at /\ skip' = skip /\ page' = page
        /\ begun' = begun /\ known' = known
    <2>1. Len(Collections) = 5
      BY DEF Collections
    <2> QED BY <2>1 DEF Map
  <1>2. status' # "fetching"
    BY DEF Map, MappingEnds
  <1>3. TypeOK /\ Here = Collections[at]
    BY DEF FetchInv, Here
  <1>4. /\ fetched' \in [Names -> Seq(Nat)]
        /\ \A k \in 1 .. begun[Here] : \E n \in DOMAIN fetched'[Here] : fetched'[Here][n] = k
        /\ \A n \in 1 .. 5 : n # at => fetched'[Collections[n]] = fetched[Collections[n]]
    BY <1>1, LastPage
  <1>5. TypeOK' /\ InHistory'
    BY <1>1, <1>3, <1>4 DEF FetchInv, TypeOK, InHistory
  <1>6. Done(at)'
    BY <1>1, <1>3, <1>4 DEF Done, Got
  <1>7. \A n \in 1 .. (at - 1) : Done(n)'
    <2>1. \A n \in 1 .. (at - 1) : n \in 1 .. 5 /\ n # at
      BY <1>1
    <2> QED BY <1>1, <1>4, <2>1 DEF FetchInv, Behind, Done, Got
  <1>8. Behind'
    BY <1>1, <1>6, <1>7 DEF Behind
  <1> QED BY <1>2, <1>5, <1>8 DEF FetchInv

LEMMA RejectInv == FetchInv /\ (Reject \/ ResponseFails \/ UNCHANGED vars) => FetchInv'
  <1>1. ASSUME FetchInv, Reject \/ ResponseFails PROVE FetchInv'
    <2>1. /\ status' = "rejected" /\ known' = known /\ at' = at /\ skip' = skip /\ page' = page
          /\ fetched' = fetched /\ begun' = begun
      BY <1>1 DEF Reject, ResponseFails
    <2>2. TypeOK' /\ InHistory'
      BY <1>1, <2>1 DEF FetchInv, TypeOK, InHistory
    <2>3. Behind'
      BY <1>1, <2>1 DEF FetchInv, Behind, Done, Got
    <2> QED BY <2>1, <2>2, <2>3 DEF FetchInv
  <1>2. ASSUME FetchInv, UNCHANGED vars PROVE FetchInv'
    BY <1>2 DEF vars, FetchInv, TypeOK, InHistory, Underway, ToCome, Behind, Done, Got, Here
  <1> QED BY <1>1, <1>2

\* While a collection is fetched, each record that was there when its fetch began
\* is fetched or among those still to come.
THEOREM FetchInvariant == Spec => []FetchInv
  <1>1. FetchInv /\ [Next]_vars => FetchInv'
    BY ArriveInv, NextPageInv, NextCollectionInv, MapInv, RejectInv DEF Next
  <1> QED BY InitInv, <1>1, PTL DEF Spec

-----------------------------------------------------------------------------
\* The items are places of the history.
Places == \A c \in Names : \A n \in DOMAIN fetched[c] : fetched[c][n] \in 1 .. known[c]

LEMMA ReadPlaces ==
    ASSUME FetchInv, Places, status = "fetching", known' = known, fetched' = With(Page)
    PROVE  Places'
  <1>1. /\ TypeOK /\ Underway /\ Here \in Names /\ known[Here] \in Nat /\ skip \in Nat
        /\ skip <= known[Here] /\ fetched[Here] \in Seq(Nat)
    BY NamesFacts DEF FetchInv, TypeOK, Here, Underway
  <1>2. Page \in Seq(Nat)
    BY <1>1, PageFacts
  <1>3. \A n \in DOMAIN Page : Page[n] \in 1 .. known[Here]
    <2> DEFINE left == known[Here] - skip
               len == IF left < PageSize THEN left ELSE PageSize
    <2>1. Page = [n \in 1 .. len |-> known[Here] + 1 - skip - n]
      BY DEF Page
    <2>2. len \in Nat /\ len <= known[Here] - skip
      BY <1>1, FetchAssumption
    <2>3. ASSUME NEW n \in 1 .. len PROVE known[Here] + 1 - skip - n \in 1 .. known[Here]
      <3> HIDE DEF len
      <3> QED BY <1>1, <2>2
    <2> QED BY <2>1, <2>3
  <1>4. /\ fetched'[Here] = fetched[Here] \o Page
        /\ \A c \in Names \ {Here} : fetched'[c] = fetched[c]
    BY <1>1 DEF With, TypeOK
  <1>5. \A n \in DOMAIN fetched[Here] : fetched[Here][n] \in 1 .. known[Here]
    BY <1>1 DEF Places
  <1>6. \A n \in DOMAIN fetched'[Here] : fetched'[Here][n] \in 1 .. known[Here]
    <2> DEFINE old == fetched[Here]
               new == Page
               S == 1 .. known[Here]
    <2>1. old \in Seq(Nat) /\ new \in Seq(Nat) /\ fetched'[Here] = old \o new
      BY <1>1, <1>2, <1>4
    <2>2. (\A n \in DOMAIN old : old[n] \in S) /\ (\A n \in DOMAIN new : new[n] \in S)
      BY <1>3, <1>5
    <2> HIDE DEF old, new, S
    <2>3. old \in Seq(S) /\ new \in Seq(S)
      BY <2>1, <2>2
    <2>4. old \o new \in Seq(S)
      BY <2>3
    <2>5. \A n \in DOMAIN (old \o new) : (old \o new)[n] \in S
      BY <2>4
    <2>6. \A n \in DOMAIN fetched'[Here] : fetched'[Here][n] \in S
      BY <2>1, <2>5, Zenon
    <2> QED BY <2>6 DEF S
  <1>7. ASSUME NEW c \in Names PROVE \A n \in DOMAIN fetched'[c] : fetched'[c][n] \in 1 .. known[c]
    <2>1. CASE c = Here
      BY <1>6, <2>1
    <2>2. CASE c # Here
      BY <1>4, <2>2 DEF Places
    <2> QED BY <2>1, <2>2
  <1> QED BY <1>7 DEF Places

LEMMA PlacesInv == FetchInv /\ Places /\ [Next]_vars => Places'
  <1> SUFFICES ASSUME FetchInv, Places, [Next]_vars PROVE Places'
    OBVIOUS
  <1>1. CASE \E c \in Names : Arrive(c)
    <2>1. PICK c \in Names : Arrive(c)
      BY <1>1
    <2>2. fetched' = fetched /\ \A d \in Names : known[d] \in Nat /\ known'[d] \in Nat /\ known[d] <= known'[d]
      BY <2>1 DEF Arrive, FetchInv, TypeOK
    <2> QED BY <2>2 DEF Places
  <1>2. CASE NextPage \/ NextCollection \/ Map
    <2>1. status = "fetching" /\ known' = known /\ fetched' = With(Page)
      BY <1>2 DEF NextPage, NextCollection, Map
    <2> QED BY <2>1, ReadPlaces
  <1>3. CASE Reject \/ ResponseFails \/ UNCHANGED vars
    BY <1>3 DEF Reject, ResponseFails, vars, Places
  <1> QED BY <1>1, <1>2, <1>3 DEF Next

LEMMA PlacesHold == Spec => []Places
  <1>1. Init => Places
    BY DEF Init, Places
  <1> QED BY <1>1, PlacesInv, FetchInvariant, PTL DEF Spec

-----------------------------------------------------------------------------
(***************************************************************************)
(* The snapshot.                                                           *)
(***************************************************************************)
LEMMA ReceiptFacts ==
    ASSUME NEW orders, NEW o \in Range(orders),
           \A other \in Range(orders) : other.id = o.id => other = o
    PROVE  ReceiptOf(orders, o.id) = Receipt(o)
  <1> DEFINE of == {x \in Range(orders) : x.id = o.id}
  <1>1. of = {o}
    OBVIOUS
  <1>2. (CHOOSE x \in of : TRUE) = o
    BY <1>1
  <1> QED BY <1>1, <1>2 DEF ReceiptOf

LEMMA SettlementRowFacts ==
    ASSUME NEW items, NEW s \in Range(items["settlements"]),
           \A other \in Range(items["settlements"]) : other.id = s.id => other = s
    PROVE  /\ SettlementRow(items, s.id).settlement = s.id
           /\ SettlementRow(items, s.id).amount = s.amount
           /\ SettlementRow(items, s.id).utr = s.utr
  <1> DEFINE of == {x \in Range(items["settlements"]) : x.id = s.id}
  <1>1. of = {s}
    OBVIOUS
  <1>2. (CHOOSE x \in of : TRUE) = s /\ of # {}
    BY <1>1
  <1> QED BY <1>2 DEF SettlementRow

\* The row of a settlement that only recon rows name is named after it too.
LEMMA SettlementRowNamed ==
    ASSUME NEW items, NEW id PROVE SettlementRow(items, id).settlement = id
  <1> DEFINE of == {x \in Range(items["settlements"]) : x.id = id}
  <1>1. CASE of = {}
    BY <1>1 DEF SettlementRow
  <1>2. CASE of # {}
    BY <1>2 DEF SettlementRow
  <1> QED BY <1>1, <1>2

\* What is fetched is of the history, and what has been got is among it.
LEMMA ItemsFacts ==
    ASSUME FetchInv, status = "fetched", NEW c \in Names
    PROVE  Before(c) \subseteq Range(Items(fetched)[c])
  <1>1. PICK n \in 1 .. 5 : Collections[n] = c
    BY NamesFacts
  <1>2. Done(n)
    BY <1>1 DEF FetchInv, Behind
  <1>3. ASSUME NEW k \in 1 .. begun[c] PROVE History[c][k] \in Range(Items(fetched)[c])
    <2>1. PICK i \in DOMAIN fetched[c] : fetched[c][i] = k
      BY <1>1, <1>2 DEF Done, Got
    <2>2. Items(fetched)[c] = [m \in DOMAIN fetched[c] |-> History[c][fetched[c][m]]]
      BY DEF Items
    <2> QED BY <2>1, <2>2 DEF Range
  <1> QED BY <1>3 DEF Before

LEMMA ItemsAreRecords ==
    ASSUME FetchInv, Places, NEW c \in Names, NEW r \in Range(Items(fetched)[c])
    PROVE  \E k \in DOMAIN History[c] : r = History[c][k]
  <1>1. Items(fetched)[c] = [m \in DOMAIN fetched[c] |-> History[c][fetched[c][m]]]
    BY DEF Items
  <1>2. PICK m \in DOMAIN fetched[c] : r = History[c][fetched[c][m]]
    BY <1>1 DEF Range
  <1>3. known[c] \in Nat /\ known[c] <= Len(History[c]) /\ DOMAIN History[c] = 1 .. Len(History[c])
        /\ Len(History[c]) \in Nat
    BY FetchAssumption DEF FetchInv, TypeOK, InHistory
  <1>4. fetched[c][m] \in DOMAIN History[c]
    BY <1>3 DEF Places
  <1> QED BY <1>2, <1>4

\* Orders and settlements are known by their ids.
LEMMA KnownById ==
    ASSUME FetchInv, Places, status = "fetched", NEW c \in {"orders", "settlements"},
           NEW r \in Before(c)
    PROVE  /\ r \in Range(Items(fetched)[c])
           /\ \A other \in Range(Items(fetched)[c]) : other.id = r.id => other = r
  <1>1. c \in Names
    BY NamesFacts DEF Names, Collections
  <1>2. r \in Range(Items(fetched)[c])
    BY <1>1, ItemsFacts
  <1>3. ASSUME NEW other \in Range(Items(fetched)[c]), other.id = r.id PROVE other = r
    <2>1. PICK k \in DOMAIN History[c] : r = History[c][k]
      BY <1>1, <1>2, ItemsAreRecords
    <2>2. PICK n \in DOMAIN History[c] : other = History[c][n]
      BY <1>1, ItemsAreRecords
    <2> QED BY <1>3, <2>1, <2>2, FetchAssumption
  <1> QED BY <1>2, <1>3

LEMMA CompleteFromInv == FetchInv /\ Places => SnapshotComplete
  <1> SUFFICES ASSUME FetchInv, Places, status = "fetched" PROVE SnapshotComplete
    BY DEF SnapshotComplete
  <1> DEFINE items == Items(fetched)
             snapshot == Snapshot(items)
  <1>1. /\ "orders" \in Names /\ "payments" \in Names /\ "refunds" \in Names
        /\ "settlements" \in Names /\ "recon" \in Names
    BY NamesFacts DEF Names, Collections
  <1>2. ASSUME NEW o \in Before("orders")
        PROVE  \E row \in snapshot.orders : row.order = o.id /\ row.receipt = Receipt(o)
    <2>1. o \in Range(items["orders"])
      BY <1>1, ItemsFacts
    <2>2. [order |-> o.id, receipt |-> Receipt(o)] \in snapshot.orders
      BY <2>1 DEF Snapshot
    <2> QED BY <2>2
  <1>3. ASSUME NEW p \in Before("payments")
        PROVE  \E row \in snapshot.payments :
                 /\ row.payment = p.id /\ row.order = p.order
                 /\ \A o \in Before("orders") : o.id = p.order => row.receipt = Receipt(o)
    <2> DEFINE row == PaymentRow(items["orders"], p)
    <2>1. p \in Range(items["payments"])
      BY <1>1, ItemsFacts
    <2>2. row \in snapshot.payments
      BY <2>1 DEF Snapshot
    <2>3. /\ row.payment = p.id /\ row.order = p.order
          /\ row.receipt = ReceiptOf(items["orders"], p.order)
      BY DEF PaymentRow
    <2>4. ASSUME NEW o \in Before("orders"), o.id = p.order PROVE row.receipt = Receipt(o)
      <3>1. /\ o \in Range(items["orders"])
            /\ \A other \in Range(items["orders"]) : other.id = o.id => other = o
        BY KnownById
      <3> HIDE DEF items
      <3>2. ReceiptOf(items["orders"], o.id) = Receipt(o)
        BY <3>1, ReceiptFacts
      <3> QED BY <2>3, <2>4, <3>2
    <2> HIDE DEF row
    <2> QED BY <2>2, <2>3, <2>4
  <1>4. ASSUME NEW r \in Before("refunds")
        PROVE  [refund |-> r.id, payment |-> r.payment] \in snapshot.refunds
    <2>1. r \in Range(items["refunds"])
      BY <1>1, ItemsFacts
    <2> QED BY <2>1 DEF Snapshot
  <1>5. ASSUME NEW s \in Before("settlements")
        PROVE  \E row \in snapshot.settlements :
                 row.settlement = s.id /\ row.amount = s.amount /\ row.utr = s.utr
    <2>1. /\ s \in Range(items["settlements"])
          /\ \A other \in Range(items["settlements"]) : other.id = s.id => other = s
      BY KnownById
    <2> HIDE DEF items
    <2>2. SettlementRow(items, s.id) \in snapshot.settlements
      BY <2>1 DEF Snapshot, SettlementIds
    <2> QED BY <2>1, <2>2, SettlementRowFacts
  <1>6. ASSUME NEW r \in Before("recon")
        PROVE  /\ Range(Lines(r)) \subseteq snapshot.lines
               /\ \E row \in snapshot.settlements : row.settlement = r.settlement
    <2>1. r \in Range(items["recon"])
      BY <1>1, ItemsFacts
    <2> HIDE DEF items
    <2>2. Range(Lines(r)) \subseteq snapshot.lines
      BY <2>1 DEF Snapshot
    <2>3. SettlementRow(items, r.settlement) \in snapshot.settlements
      BY <2>1 DEF Snapshot, SettlementIds
    <2> QED BY <2>2, <2>3, SettlementRowNamed
  <1> HIDE DEF snapshot
  <1>7. snapshot = Snapshot(Items(fetched))
    BY DEF snapshot
  <1> QED BY <1>2, <1>3, <1>4, <1>5, <1>6, <1>7 DEF SnapshotComplete

\* A snapshot has what the provider had of each collection when its fetch began,
\* however long the lists and whatever arrives between two pages.
THEOREM SnapshotIsComplete == Spec => []SnapshotComplete
  <1> QED BY FetchInvariant, PlacesHold, CompleteFromInv, PTL

-----------------------------------------------------------------------------
(***************************************************************************)
(* What is fetched twice.                                                  *)
(***************************************************************************)
LEMMA RangeCardinality ==
    ASSUME NEW s \in Seq(Nat)
    PROVE  IsFiniteSet(Range(s)) /\ Cardinality(Range(s)) \in Nat
  <1>1. Len(s) \in Nat /\ s \in [1 .. Len(s) -> Range(s)]
    BY DEF Range
  <1>2. s \in Surjection(1 .. Len(s), Range(s))
    BY <1>1 DEF Surjection, Range
  <1>3. IsFiniteSet(1 .. Len(s))
    BY <1>1, FS_Interval
  <1> QED BY <1>2, <1>3, FS_Surjection, FS_CardinalityType

\* A sequence that has all of b places but the first known - Len repeats at most
\* known - b.
LEMMA RepeatsBound ==
    ASSUME NEW s \in Seq(Nat), NEW m \in Nat, NEW b \in Nat, b <= m, Len(s) <= m,
           \A k \in 1 .. b : (\E n \in DOMAIN s : s[n] = k) \/ k <= m - Len(s)
    PROVE  Len(s) - Cardinality(Range(s)) <= m - b
  <1>1. Len(s) \in Nat /\ IsFiniteSet(Range(s)) /\ Cardinality(Range(s)) \in Nat
    BY RangeCardinality
  <1>2. CASE b <= m - Len(s)
    BY <1>1, <1>2
  <1>3. CASE ~(b <= m - Len(s))
    <2> DEFINE low == m - Len(s) + 1
    <2>1. low \in Int /\ low <= b
      BY <1>1, <1>3
    <2>2. low .. b \subseteq Range(s)
      <3>1. ASSUME NEW k \in low .. b PROVE k \in Range(s)
        <4>1. k \in 1 .. b /\ ~(k <= m - Len(s))
          BY <1>1, <3>1
        <4> QED BY <4>1 DEF Range
      <3> QED BY <3>1
    <2>3. Cardinality(low .. b) = b - low + 1
      BY <2>1, FS_Interval
    <2>4. Cardinality(low .. b) <= Cardinality(Range(s))
      BY <1>1, <2>2, FS_Subset
    <2> QED BY <1>1, <2>1, <2>3, <2>4
  <1> QED BY <1>2, <1>3

\* A page that was read keeps to the bound.
LEMMA ReadRepeats ==
    ASSUME FetchInv, status = "fetching", NEW f, f = With(Page)
    PROVE  Len(f[Here]) - Cardinality(Range(f[Here])) <= known[Here] - begun[Here]
  <1>1. /\ TypeOK /\ Underway /\ Here \in Names /\ known[Here] \in Nat /\ skip \in Nat
        /\ skip <= known[Here] /\ begun[Here] \in Nat /\ begun[Here] <= known[Here]
    BY NamesFacts DEF FetchInv, TypeOK, InHistory, Here, Underway
  <1>2. Page \in Seq(Nat) /\ Len(Page) <= known[Here] - skip
    BY <1>1, PageFacts
  <1>3. /\ f \in [Names -> Seq(Nat)] /\ Len(f[Here]) = skip + Len(Page)
        /\ \A k \in 1 .. begun[Here] :
             \/ \E n \in DOMAIN f[Here] : f[Here][n] = k
             \/ k <= known[Here] - (skip + Len(Page))
    BY WithFacts
  <1> DEFINE s == f[Here]
             m == known[Here]
             b == begun[Here]
  <1>4. /\ s \in Seq(Nat) /\ m \in Nat /\ b \in Nat /\ b <= m /\ Len(s) <= m
        /\ \A k \in 1 .. b : (\E n \in DOMAIN s : s[n] = k) \/ k <= m - Len(s)
    <2>1. Len(Page) \in Nat /\ Len(s) <= m
      BY <1>1, <1>2, <1>3
    <2> QED BY <1>1, <1>3, <2>1
  <1> HIDE DEF s, m, b
  <1>5. Len(s) - Cardinality(Range(s)) <= m - b
    BY <1>4, RepeatsBound
  <1> QED BY <1>5 DEF s, m, b

LEMMA RepeatsInv == FetchInv /\ RepeatsAreShifts /\ [Next]_vars => RepeatsAreShifts'
  <1> SUFFICES ASSUME FetchInv, RepeatsAreShifts, [Next]_vars, NEW c \in Names
               PROVE  Len(fetched'[c]) - Cardinality(Range(fetched'[c])) <= known'[c] - begun'[c]
    BY DEF RepeatsAreShifts
  <1>1. /\ known[c] \in Nat /\ begun[c] \in Nat /\ fetched[c] \in Seq(Nat)
        /\ Len(fetched[c]) \in Nat /\ Cardinality(Range(fetched[c])) \in Nat
        /\ Len(fetched[c]) - Cardinality(Range(fetched[c])) <= known[c] - begun[c]
    <2>1. known[c] \in Nat /\ begun[c] \in Nat /\ fetched[c] \in Seq(Nat)
      BY DEF FetchInv, TypeOK
    <2> QED BY <2>1, RangeCardinality DEF RepeatsAreShifts
  <1>2. CASE \E d \in Names : Arrive(d)
    <2>1. known'[c] \in Nat /\ known[c] <= known'[c] /\ fetched' = fetched /\ begun' = begun
      BY <1>2 DEF Arrive, FetchInv, TypeOK
    <2> QED BY <1>1, <2>1
  <1>3. CASE NextPage \/ NextCollection \/ Map
    <2>1. status = "fetching" /\ known' = known /\ fetched' = With(Page)
      BY <1>3 DEF NextPage, NextCollection, Map
    <2>2. Here \in Names /\ TypeOK /\ Here = Collections[at]
      BY NamesFacts DEF FetchInv, TypeOK, Here
    <2>3. \A d \in Names \ {Here} : fetched'[d] = fetched[d]
      BY <2>1, WithFacts
    <2>4. ASSUME NextCollection
          PROVE  /\ at \in 1 .. 5 /\ at + 1 \in 1 .. 5
                 /\ begun' = [begun EXCEPT ![Collections[at + 1]] = known[Collections[at + 1]]]
      <3>1. Len(Collections) = 5
        BY DEF Collections
      <3> QED BY <2>2, <2>4, <3>1 DEF NextCollection, TypeOK
    <2>5. CASE c = Here
      <3>1. begun'[Here] = begun[Here]
        <4>1. CASE NextPage \/ Map
          BY <4>1 DEF NextPage, Map
        <4>2. CASE NextCollection
          <5>1. at \in 1 .. 5 /\ at + 1 \in 1 .. 5 /\ at + 1 # at
            BY <2>4, <4>2
          <5>2. Collections[at + 1] # Here
            BY <2>2, <5>1, NamesFacts
          <5> QED BY <2>2, <2>4, <4>2, <5>2 DEF TypeOK
        <4> QED BY <1>3, <4>1, <4>2
      <3> QED BY <2>1, <2>5, <3>1, ReadRepeats
    <2>6. CASE c # Here /\ (NextPage \/ Map)
      BY <1>1, <2>1, <2>3, <2>6 DEF NextPage, Map
    <2>7. CASE c # Here /\ NextCollection
      <3>1. begun'[c] = begun[c] \/ (begun'[c] = known[c] /\ c = Collections[at + 1])
        BY <2>2, <2>4, <2>7 DEF TypeOK
      <3>2. CASE begun'[c] = begun[c]
        BY <1>1, <2>1, <2>3, <2>7, <3>2
      <3>3. CASE begun'[c] = known[c] /\ c = Collections[at + 1]
        <4>1. fetched'[c] = <<>>
          BY <2>1, <2>3, <2>4, <2>7, <3>3 DEF FetchInv, ToCome
        <4>2. Range(fetched'[c]) = {} /\ Len(fetched'[c]) = 0
          BY <4>1 DEF Range
        <4>3. Cardinality(Range(fetched'[c])) = 0
          BY <4>2, FS_EmptySet
        <4> QED BY <1>1, <2>1, <3>3, <4>2, <4>3
      <3> QED BY <3>1, <3>2, <3>3
    <2> QED BY <1>3, <2>5, <2>6, <2>7
  <1>4. CASE Reject \/ ResponseFails \/ UNCHANGED vars
    BY <1>1, <1>4 DEF Reject, ResponseFails, vars
  <1> QED BY <1>2, <1>3, <1>4 DEF Next

\* At most as many items of a collection are fetched twice as records arrived
\* while it was fetched.
THEOREM RepeatsBounded == Spec => []RepeatsAreShifts
  <1>1. Init => RepeatsAreShifts
    <2> SUFFICES ASSUME Init, NEW c \in Names
                 PROVE  Len(fetched[c]) - Cardinality(Range(fetched[c])) <= known[c] - begun[c]
      BY DEF RepeatsAreShifts
    <2>1. FetchInv
      BY InitInv
    <2>2. fetched[c] = <<>> /\ begun = known /\ known[c] \in Nat
      BY <2>1 DEF Init, FetchInv, TypeOK
    <2>3. Range(fetched[c]) = {} /\ Len(fetched[c]) = 0
      BY <2>2 DEF Range
    <2>4. Cardinality(Range(fetched[c])) = 0
      BY <2>3, FS_EmptySet
    <2> QED BY <2>2, <2>3, <2>4
  <1> QED BY <1>1, RepeatsInv, FetchInvariant, PTL DEF Spec
-----------------------------------------------------------------------------
(***************************************************************************)
(* What a settlement holds back.  Without arrivals a fetch has each place  *)
(* of the history once, so that it adds up to what the history does.       *)
(***************************************************************************)
LEMMA HeldIsSum ==
    ASSUME NEW recon, NEW id, IsFiniteSet(DOMAIN recon), NEW f,
           \A n \in Held(recon, id) : f[n] = recon[n].amount
    PROVE  HeldIn(recon, id) = SumOver(f, Held(recon, id))
  <1> DEFINE S == Held(recon, id)
             Adds(iter) == iter = [s \in SUBSET S |->
                             IF s = {} THEN 0
                             ELSE recon[AnyOf(s)].amount + iter[s \ {AnyOf(s)}]]
             total == CHOOSE iter : Adds(iter)
  <1>1. HeldIn(recon, id) = total[S]
    BY DEF HeldIn, MapThenSumSet, MapThenFoldSet, AnyOf
  <1>2. IsFiniteSet(S)
    BY FS_Subset DEF Held
  <1> HIDE DEF S
  <1>3. \A s \in SUBSET S : s # {} => AnyOf(s) \in S
    BY DEF AnyOf
  <1>4. \A n \in S : f[n] = recon[n].amount
    BY DEF S
  <1>5. ASSUME NEW iter PROVE Adds(iter) <=> Sums(iter, f, S)
    BY <1>3, <1>4 DEF Sums
  <1>6. Sums(TotalOf(f, S), f, S)
    BY <1>2, TotalSums
  <1> HIDE DEF Adds
  <1>7. Adds(TotalOf(f, S))
    BY <1>5, <1>6
  <1>8. Adds(total)
    BY <1>7
  <1> HIDE DEF total
  <1>9. Sums(total, f, S)
    BY <1>5, <1>8
  <1>10. total[S] = TotalOf(f, S)[S]
    BY <1>2, <1>6, <1>9, SumsAgree
  <1>11. HeldIn(recon, id) = SumOver(f, S)
    BY <1>1, <1>10, SumIsTotal
  <1> QED BY <1>11 DEF S

LEMMA PlaceCount ==
    ASSUME NEW m \in Nat PROVE IsFiniteSet(1 .. m) /\ Cardinality(1 .. m) = m
  <1>1. /\ IsFiniteSet(1 .. m)
        /\ Cardinality(1 .. m) = IF 1 > m THEN 0 ELSE m - 1 + 1
    BY FS_Interval
  <1> QED BY <1>1

\* As many places as there are, and all of them: each is there once.
LEMMA EachPlaceOnce ==
    ASSUME NEW s \in Seq(Nat), NEW m \in Nat, \A n \in DOMAIN s : s[n] \in 1 .. m,
           \A k \in 1 .. m : \E n \in DOMAIN s : s[n] = k,
           Len(s) - Cardinality(Range(s)) <= 0
    PROVE  \A i \in DOMAIN s : \A j \in DOMAIN s : s[i] = s[j] => i = j
  <1>1. DOMAIN s = 1 .. Len(s) /\ Len(s) \in Nat
    OBVIOUS
  <1>2. Range(s) = 1 .. m
    BY DEF Range
  <1>3. s \in Surjection(1 .. Len(s), 1 .. m)
    BY <1>1 DEF Surjection
  <1>4. /\ IsFiniteSet(1 .. Len(s)) /\ Cardinality(1 .. Len(s)) = Len(s)
        /\ Cardinality(1 .. m) = m
    <2>1. IsFiniteSet(1 .. Len(s)) /\ Cardinality(1 .. Len(s)) = Len(s)
      BY <1>1, PlaceCount
    <2> QED BY <2>1, PlaceCount
  <1>5. /\ Cardinality(1 .. m) <= Cardinality(1 .. Len(s))
        /\ Cardinality(1 .. m) = Cardinality(1 .. Len(s)) <=> s \in Injection(1 .. Len(s), 1 .. m)
    BY <1>3, <1>4, FS_Surjection
  <1>6. Len(s) - m <= 0
    BY <1>2, <1>4
  <1>7. s \in Injection(1 .. Len(s), 1 .. m)
    BY <1>1, <1>4, <1>5, <1>6
  <1> QED BY <1>1, <1>7 DEF Injection, IsInjective

LEMMA HeldOnce ==
    ASSUME FetchInv, Places, RepeatsAreShifts, status = "fetched",
           known["recon"] = begun["recon"], NEW id
    PROVE  HeldIn(Items(fetched)["recon"], id)
             = HeldIn(SubSeq(History["recon"], 1, known["recon"]), id)
  <1> DEFINE s == fetched["recon"]
             m == known["recon"]
             records == History["recon"]
             items == Items(fetched)["recon"]
             rows == SubSeq(History["recon"], 1, known["recon"])
             worth == [k \in 1 .. m |-> records[k].amount]
             got == [n \in DOMAIN s |-> records[s[n]].amount]
             A == Held(items, id)
             B == Held(rows, id)
  <1>1. "recon" \in Names /\ Collections[5] = "recon"
    BY NamesFacts DEF Names, Collections
  <1>2. /\ s \in Seq(Nat) /\ m \in Nat /\ m <= Len(records)
        /\ \A n \in DOMAIN s : s[n] \in 1 .. m
    BY <1>1 DEF FetchInv, TypeOK, InHistory, Places
  <1>3. \A k \in 1 .. m : \E n \in DOMAIN s : s[n] = k
    <2>1. Done(5)
      BY DEF FetchInv, Behind
    <2> QED BY <1>1, <2>1 DEF Done, Got
  <1>4. Len(s) - Cardinality(Range(s)) <= 0
    <2>1. Len(s) - Cardinality(Range(s)) <= known["recon"] - begun["recon"]
      BY <1>1 DEF RepeatsAreShifts
    <2>2. known["recon"] - begun["recon"] = 0
      BY <1>2
    <2> QED BY <2>1, <2>2
  <1>5. /\ records \in Seq(Records("recon")) /\ Len(records) \in Nat
        /\ DOMAIN records = 1 .. Len(records)
        /\ \A k \in 1 .. m : records[k].amount \in Int
    <2>1. records \in Seq(Records("recon"))
      BY <1>1, FetchAssumption
    <2>2. Len(records) \in Nat /\ DOMAIN records = 1 .. Len(records)
      BY <2>1
    <2>3. ASSUME NEW k \in 1 .. m PROVE records[k].amount \in Int
      <3>1. k \in DOMAIN records
        BY <1>2, <2>2
      <3>2. records[k] \in Records("recon")
        BY <3>1 DEF Records
      <3> QED BY <3>2, FetchAssumption
    <2> QED BY <2>1, <2>2, <2>3
  <1>6. DOMAIN items = DOMAIN s /\ \A n \in DOMAIN s : items[n] = records[s[n]]
    BY <1>1 DEF Items
  <1>7. DOMAIN rows = 1 .. m /\ \A k \in 1 .. m : rows[k] = records[k]
    BY <1>2, <1>5
  <1>8. IsFiniteSet(DOMAIN s) /\ IsFiniteSet(1 .. m)
    <2>1. DOMAIN s = 1 .. Len(s) /\ Len(s) \in Nat
      BY <1>2
    <2> HIDE DEF s, m
    <2>2. IsFiniteSet(1 .. Len(s))
      BY <2>1, PlaceCount
    <2> QED BY <1>2, <2>1, <2>2, PlaceCount
  <1> HIDE DEF s, m, records, items, rows
  <1>9. \A i \in DOMAIN s : \A j \in DOMAIN s : s[i] = s[j] => i = j
    BY <1>2, <1>3, <1>4, EachPlaceOnce
  <1>10. A \subseteq DOMAIN s /\ B \subseteq 1 .. m
    BY <1>6, <1>7 DEF Held
  <1>11. B = {s[n] : n \in A}
    <2>1. ASSUME NEW n \in A PROVE s[n] \in B
      BY <1>2, <1>6, <1>7 DEF Held
    <2>2. ASSUME NEW k \in B PROVE \E n \in A : s[n] = k
      <3>1. PICK n \in DOMAIN s : s[n] = k
        BY <1>3, <1>10
      <3>2. n \in A
        BY <1>6, <1>7, <3>1 DEF Held
      <3> QED BY <3>1, <3>2
    <2> HIDE DEF A, B
    <2> QED BY <2>1, <2>2
  <1>12. HeldIn(items, id) = SumOver(got, A)
    <2>1. \A n \in A : got[n] = items[n].amount
      BY <1>6, <1>10
    <2> HIDE DEF got
    <2> QED BY <1>6, <1>8, <2>1, HeldIsSum
  <1>13. HeldIn(rows, id) = SumOver(worth, B)
    <2>1. \A k \in B : worth[k] = rows[k].amount
      BY <1>7, <1>10
    <2> HIDE DEF worth
    <2> QED BY <1>7, <1>8, <2>1, HeldIsSum
  <1>14. \A n \in A : got[n] \in Int /\ got[n] = worth[s[n]]
    BY <1>2, <1>5, <1>10
  <1>15. IsFiniteSet(A) /\ \A i \in A : \A j \in A : s[i] = s[j] => i = j
    BY <1>8, <1>9, <1>10, FS_Subset
  <1> HIDE DEF A, B, got, worth
  <1>16. Renames(B, A, s, worth, got)
    BY <1>11, <1>14, <1>15 DEF Renames
  <1>17. SumOver(got, A) = SumOver(worth, B)
    BY <1>15, <1>16, SumRenamed
  <1>18. HeldIn(items, id) = HeldIn(rows, id)
    BY <1>12, <1>13, <1>17
  <1> QED BY <1>18 DEF items, rows

LEMMA SettlementRowHolds ==
    ASSUME NEW items, NEW id
    PROVE  SettlementRow(items, id).held = HeldIn(items["recon"], id)
  <1> DEFINE of == {x \in Range(items["settlements"]) : x.id = id}
  <1>1. CASE of = {}
    BY <1>1 DEF SettlementRow
  <1>2. CASE of # {}
    BY <1>2 DEF SettlementRow
  <1> QED BY <1>1, <1>2

LEMMA NothingTwiceFromInv == FetchInv /\ Places /\ RepeatsAreShifts => NothingTwice
  <1> SUFFICES ASSUME FetchInv, Places, RepeatsAreShifts, status = "fetched",
                      known["recon"] = begun["recon"],
                      NEW row \in Snapshot(Items(fetched)).settlements
               PROVE  row.held = HeldIn(SubSeq(History["recon"], 1, known["recon"]), row.settlement)
    BY DEF NothingTwice
  <1> DEFINE items == Items(fetched)
  <1>1. PICK id \in SettlementIds(items) : row = SettlementRow(items, id)
    BY DEF Snapshot
  <1>2. HeldIn(items["recon"], id) = HeldIn(SubSeq(History["recon"], 1, known["recon"]), id)
    BY HeldOnce
  <1> HIDE DEF items
  <1>3. row.settlement = id /\ row.held = HeldIn(items["recon"], id)
    BY <1>1, SettlementRowNamed, SettlementRowHolds
  <1> QED BY <1>2, <1>3

\* Only what an arrival pushed to a later page is fetched twice, and where
\* nothing arrived a settlement holds back what the recon rows of the history
\* hold (_fetch_collection, _map_snapshot).
THEOREM NothingIsFetchedTwice == Spec => []NothingTwice
  <1> QED BY FetchInvariant, PlacesHold, RepeatsBounded, NothingTwiceFromInv, PTL
=============================================================================
