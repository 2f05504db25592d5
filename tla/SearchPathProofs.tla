-------------------------- MODULE SearchPathProofs --------------------------
(***************************************************************************)
(* For any number of searches, and any hotels: no search is ever left      *)
(* waiting for a process that has ended, whatever cascades of failures     *)
(* take the processes down; geo has no point twice; and a search that is   *)
(* answered shows what the services found for it.                          *)
(***************************************************************************)
EXTENDS SearchPath, TLAPS, FiniteSetTheorems

Phases == {"new"} \cup Waiting \cup Over

IInv == /\ up \subseteq Services
        /\ pc \in [Requests -> Phases]
        /\ NoneWaitsForTheDead

USE DEF Waiting, InSearch, InFrontend, Over, Phases

LEMMA InitIInv == Init => IInv
BY DEF Init, IInv, NoneWaitsForTheDead

\* What a search becomes when a process ends.
LEMMA FallsType ==
  ASSUME NEW s \in Services, NEW p \in Phases
  PROVE  /\ Falls(s, p) \in Phases
         /\ Falls(s, p) \in InSearch => p \in InSearch /\ s # "search"
         /\ Falls(s, p) \in {"geo", "rate", "check"} => Falls(s, p) = p
         /\ Falls(s, p) \in {"geo", "rate"} => s # p
         /\ Falls(s, p) = "check" => s # "reservation"
         /\ Falls(s, p) = "profile" => p = "profile"
BY DEF Falls, Services

\* Only a process that can end ends: profile is never taken down.
LEMMA DiesStep ==
  ASSUME IInv, NEW s \in Services \ {"profile"}, Dies(s)
  PROVE  IInv'
<1>1. up' \subseteq Services /\ up' = up \ {s}
  BY DEF IInv, Dies
<1>2. \A r \in Requests : pc'[r] = Falls(s, pc[r]) /\ pc[r] \in Phases
  BY DEF IInv, Dies
<1>3. pc' \in [Requests -> Phases]
  BY <1>2, FallsType DEF IInv, Dies
<1>4. NoneWaitsForTheDead'
  <2> SUFFICES ASSUME NEW r \in Requests
               PROVE  /\ pc'[r] \in InSearch => "search" \in up'
                      /\ pc'[r] \in {"geo", "rate", "profile"} => pc'[r] \in up'
                      /\ pc'[r] = "check" => "reservation" \in up'
    BY DEF NoneWaitsForTheDead
  <2> DEFINE p == pc[r]
             q == pc'[r]
  <2>1. /\ p \in InSearch => "search" \in up
        /\ p \in {"geo", "rate", "profile"} => p \in up
        /\ p = "check" => "reservation" \in up
    BY DEF IInv, NoneWaitsForTheDead
  <2>2. q = Falls(s, p) /\ p \in Phases
    BY <1>2
  <2>3. /\ q \in InSearch => p \in InSearch /\ s # "search"
        /\ q \in {"geo", "rate", "check"} => q = p
        /\ q \in {"geo", "rate"} => s # p
        /\ q = "check" => s # "reservation"
        /\ q = "profile" => p = "profile"
    BY <2>2, FallsType
  <2> HIDE DEF p, q
  <2>4. q \in InSearch => "search" \in up'
    BY <1>1, <2>1, <2>3
  <2>5. q \in {"geo", "rate", "profile"} => q \in up'
    BY <1>1, <2>1, <2>3
  <2>6. q = "check" => "reservation" \in up'
    BY <1>1, <2>1, <2>3
  <2> QED BY <2>4, <2>5, <2>6 DEF p, q
<1> QED BY <1>1, <1>3, <1>4 DEF IInv

\* A search that moves on to a process calls one that is there.
LEMMA GotoStep ==
  ASSUME IInv, NEW r \in Requests, NEW p \in Phases, Goto(r, p), up' = up,
         p \in InSearch => "search" \in up,
         p \in {"geo", "rate", "profile"} => p \in up,
         p = "check" => "reservation" \in up
  PROVE  IInv'
<1>1. pc' \in [Requests -> Phases]
  BY DEF IInv, Goto
<1>2. \A q \in Requests : pc'[q] = IF q = r THEN p ELSE pc[q]
  BY DEF IInv, Goto
<1>3. NoneWaitsForTheDead'
  BY <1>2 DEF IInv, NoneWaitsForTheDead
<1> QED BY <1>1, <1>3 DEF IInv

LEMMA HandleStep == ASSUME IInv, NEW r \in Requests, Handle(r) PROVE IInv'
<1>0. /\ pc[r] \in InSearch => "search" \in up
      /\ "failed" \in Phases /\ "500" \in Phases
  BY DEF IInv, NoneWaitsForTheDead
<1>1. CASE SearchHandler(r)
  BY <1>1, GotoStep DEF SearchHandler, process
<1>2. CASE CallGeo(r)
  BY <1>0, <1>2, GotoStep DEF CallGeo, process, At
<1>3. CASE CallRate(r)
  BY <1>0, <1>3, GotoStep DEF CallRate, process, At
<1>4. CASE Fatal(r)
  BY <1>4, DiesStep DEF Fatal, Services
<1>5. CASE Respond(r)
  BY <1>5, GotoStep DEF Respond, process
<1>6. CASE Check(r)
  BY <1>6, GotoStep DEF Check, process
<1>7. CASE Profile(r)
  BY <1>7, GotoStep DEF Profile, process
<1>8. CASE Answer(r)
  BY <1>8, GotoStep DEF Answer, process
<1>9. CASE GeoNearby(r)
  <2>1. CASE Goto(r, "nearby") /\ UNCHANGED process
    BY <1>0, <1>9, <2>1, GotoStep DEF GeoNearby, process, At
  <2>2. CASE Dies("geo")
    BY <2>2, DiesStep DEF Services
  <2> QED BY <1>9, <2>1, <2>2 DEF GeoNearby
<1>10. CASE GetRates(r)
  BY <1>0, <1>10, GotoStep DEF GetRates, Reply, process, At
<1>11. CASE DatabaseFails(r)
  BY <1>11, DiesStep DEF DatabaseFails, Services
<1>12. CASE CheckAvailability(r)
  BY <1>12, GotoStep DEF CheckAvailability, Reply, process
<1>13. CASE GetProfiles(r)
  BY <1>13, GotoStep DEF GetProfiles, Reply, process
<1> QED
  BY <1>1, <1>2, <1>3, <1>4, <1>5, <1>6, <1>7, <1>8, <1>9, <1>10, <1>11, <1>12, <1>13
  DEF Handle

LEMMA CancelStep == ASSUME IInv, NEW r \in Requests, Cancel(r) PROVE IInv'
<1>1. pc[r] \in InSearch => "search" \in up
  BY DEF IInv, NoneWaitsForTheDead
<1>2. CASE pc[r] \in {"search", "geo", "nearby", "rate"} /\ Goto(r, "failed")
  BY <1>1, <1>2, GotoStep DEF Cancel
<1>3. CASE Goto(r, "gone")
  BY <1>3, GotoStep DEF Cancel
<1> QED BY <1>2, <1>3 DEF Cancel

\* rate and reservation are the processes whose handlers outlive their callers.
OrphansInv == orphans \subseteq Readers

LEMMA OrphansStep == OrphansInv /\ [Next]_vars => OrphansInv'
BY DEF OrphansInv, Readers, Next, vars, process, StartGeo, Start, Orphan, Dies, Handle,
   Cancel, SearchAgain, Reply, At, SearchHandler, CallGeo, CallRate, Fatal, Respond, Check, Profile,
   Answer, GeoNearby, GetRates, DatabaseFails, CheckAvailability, GetProfiles

LEMMA NextStep == IInv /\ OrphansInv /\ [Next]_vars => IInv'
<1> SUFFICES ASSUME IInv, OrphansInv, [Next]_vars PROVE IInv'
  OBVIOUS
<1>1. CASE StartGeo
  BY <1>1 DEF IInv, NoneWaitsForTheDead, StartGeo, Services
<1>2. ASSUME NEW r \in Requests, SearchAgain(r) PROVE IInv'
  BY <1>2, GotoStep DEF SearchAgain, process
<1>3. ASSUME NEW s \in Services \ {"geo"}, Start(s) PROVE IInv'
  BY <1>3 DEF IInv, NoneWaitsForTheDead, Start
<1>4. ASSUME NEW s \in Readers, Orphan(s) PROVE IInv'
  <2>1. s \in Services \ {"profile"}
    BY DEF Readers, Services
  <2>2. CASE Dies(s)
    BY <2>1, <2>2, DiesStep
  <2>3. CASE UNCHANGED <<up, pc>>
    BY <2>3 DEF IInv, NoneWaitsForTheDead
  <2> QED BY <1>4, <2>2, <2>3 DEF Orphan
<1>5. CASE UNCHANGED vars
  BY <1>5 DEF IInv, NoneWaitsForTheDead, vars, process
<1> QED BY <1>1, <1>2, <1>3, <1>4, <1>5, HandleStep, CancelStep DEF Next

-----------------------------------------------------------------------------

\* Every search that waits, waits for a process that runs.
THEOREM CallersHear == Spec => []NoneWaitsForTheDead
<1>1. Init => IInv /\ OrphansInv
  BY InitIInv DEF Init, OrphansInv
<1>2. IInv => NoneWaitsForTheDead
  BY DEF IInv
<1> QED BY <1>1, <1>2, OrphansStep, NextStep, PTL DEF Spec

-----------------------------------------------------------------------------
(* What InOrder and Only return *)

Rank(I, i) == Cardinality({j \in I : j <= i})
Nth(I, k) == CHOOSE i \in I : Rank(I, i) = k

\* The members of a finite set of numbers are numbered in their order.
LEMMA RankOrders ==
  ASSUME NEW I \in SUBSET Int, IsFiniteSet(I)
  PROVE  /\ \A i \in I : Rank(I, i) \in 1..Cardinality(I)
         /\ \A i, j \in I : i < j => Rank(I, i) < Rank(I, j)
<1> DEFINE Upto(i) == {j \in I : j <= i}
<1>1. \A i \in I : /\ IsFiniteSet(Upto(i)) /\ i \in Upto(i)
                   /\ Cardinality(Upto(i)) \in Nat
                   /\ Cardinality(Upto(i)) <= Cardinality(I)
                   /\ Cardinality(Upto(i)) # 0
  <2> TAKE i \in I
  <2>1. Upto(i) \in SUBSET I /\ i \in Upto(i)
    OBVIOUS
  <2>2. IsFiniteSet(Upto(i)) /\ Cardinality(Upto(i)) <= Cardinality(I)
    BY <2>1, FS_Subset
  <2> QED BY <2>1, <2>2, FS_CardinalityType, FS_EmptySet
<1>2. Cardinality(I) \in Nat
  BY FS_CardinalityType
<1>3. ASSUME NEW i \in I, NEW j \in I, i < j
      PROVE  Rank(I, i) < Rank(I, j)
  <2>0. ~(j <= i) /\ j <= j /\ \A k \in I : k <= i => k <= j
    BY <1>3
  <2>1. Upto(i) \in SUBSET Upto(j) /\ j \in Upto(j) /\ j \notin Upto(i)
    BY <2>0
  <2>2. Cardinality(Upto(i)) <= Cardinality(Upto(j))
        /\ Cardinality(Upto(i)) # Cardinality(Upto(j))
    BY <1>1, <2>1, FS_Subset
  <2>3. Cardinality(Upto(i)) \in Nat /\ Cardinality(Upto(j)) \in Nat
    BY <1>1
  <2> HIDE DEF Upto
  <2>4. Cardinality(Upto(i)) < Cardinality(Upto(j))
    BY <2>2, <2>3
  <2> QED BY <2>4 DEF Upto, Rank
<1>4. ASSUME NEW i \in I PROVE Rank(I, i) \in 1..Cardinality(I)
  <2>1. Rank(I, i) = Cardinality(Upto(i))
    BY DEF Rank
  <2> HIDE DEF Upto
  <2> QED BY <1>1, <1>2, <2>1
<1> QED BY <1>3, <1>4

LEMMA NthInOrder ==
  ASSUME NEW I \in SUBSET Int, IsFiniteSet(I)
  PROVE  /\ \A k \in 1..Cardinality(I) : Nth(I, k) \in I /\ Rank(I, Nth(I, k)) = k
         /\ \A k, l \in 1..Cardinality(I) : k < l => Nth(I, k) < Nth(I, l)
         /\ \A i \in I : Nth(I, Rank(I, i)) = i
<1> DEFINE n == Cardinality(I)
           r == [i \in I |-> Rank(I, i)]
<1>1. n \in Nat /\ IsFiniteSet(1..n) /\ Cardinality(1..n) = n
  BY FS_CardinalityType, FS_Interval
<1>2. /\ \A i \in I : Rank(I, i) \in 1..n
      /\ \A i, j \in I : i < j => Rank(I, i) < Rank(I, j)
  BY RankOrders
<1>3. \A i, j \in I : Rank(I, i) = Rank(I, j) => i = j
  <2> TAKE i, j \in I
  <2>1. i \in Int /\ j \in Int /\ Rank(I, i) \in Int /\ Rank(I, j) \in Int
    BY <1>2
  <2>2. (i < j => Rank(I, i) < Rank(I, j)) /\ (j < i => Rank(I, j) < Rank(I, i))
    BY <1>2
  <2> QED BY <2>1, <2>2
<1>4. r \in Injection(I, 1..n)
  BY <1>2, <1>3 DEF Injection, IsInjective
<1>5. r \in Surjection(I, 1..n)
  <2> HIDE DEF r, n
  <2>1. Cardinality(I) = Cardinality(1..n)
    BY <1>1 DEF n
  <2> QED BY <1>1, <1>4, <2>1, FS_Injection
<1>6. \A k \in 1..n : \E i \in I : Rank(I, i) = k
  BY <1>5 DEF Surjection
<1>7. \A k \in 1..n : Nth(I, k) \in I /\ Rank(I, Nth(I, k)) = k
  BY <1>6 DEF Nth
<1>8. ASSUME NEW k \in 1..n, NEW l \in 1..n, k < l
      PROVE  Nth(I, k) < Nth(I, l)
  <2> DEFINE i == Nth(I, k)
             j == Nth(I, l)
  <2>1. i \in I /\ j \in I /\ Rank(I, i) = k /\ Rank(I, j) = l
    BY <1>7
  <2> HIDE DEF i, j
  <2>2. i \in Int /\ j \in Int /\ ~(i = j) /\ ~(j < i)
    BY <1>2, <1>8, <2>1
  <2>3. i < j
    BY <2>2
  <2> QED BY <2>3 DEF i, j
<1>9. ASSUME NEW i \in I PROVE Nth(I, Rank(I, i)) = i
  BY <1>2, <1>3, <1>7
<1> QED BY <1>7, <1>8, <1>9

\* The members of a finite set of places, in their order, each of them once.
LEMMA InOrderType ==
  ASSUME NEW n \in Nat, NEW K \in SUBSET (1..n)
  PROVE  /\ InOrder(K) \in Seq(K) /\ IsFiniteSet(K)
         /\ \A a, b \in DOMAIN InOrder(K) : a < b => InOrder(K)[a] < InOrder(K)[b]
         /\ \A a, b \in DOMAIN InOrder(K) : InOrder(K)[a] = InOrder(K)[b] => a = b
         /\ \A k \in K : \E a \in DOMAIN InOrder(K) : InOrder(K)[a] = k
<1> DEFINE c == Cardinality(K)
<1>1. K \in SUBSET Int /\ IsFiniteSet(K) /\ c \in Nat
  <2>1. 1 \in Int /\ n \in Int /\ K \in SUBSET Int
    OBVIOUS
  <2>2. IsFiniteSet(1..n)
    BY <2>1, FS_Interval
  <2>3. IsFiniteSet(K)
    BY <2>2, FS_Subset
  <2> QED BY <2>1, <2>3, FS_CardinalityType
<1>2. InOrder(K) = [a \in 1..c |-> Nth(K, a)]
  BY DEF InOrder, Nth, Rank
<1>3. /\ \A a \in 1..c : Nth(K, a) \in K /\ Rank(K, Nth(K, a)) = a
      /\ \A a, b \in 1..c : a < b => Nth(K, a) < Nth(K, b)
      /\ \A k \in K : Nth(K, Rank(K, k)) = k /\ Rank(K, k) \in 1..c
  BY <1>1, NthInOrder, RankOrders
<1> HIDE DEF c
<1>4. InOrder(K) \in Seq(K) /\ DOMAIN InOrder(K) = 1..c
  BY <1>1, <1>2, <1>3
<1>5. \A a \in 1..c : InOrder(K)[a] = Nth(K, a)
  BY <1>2
<1>6. \A a, b \in 1..c : InOrder(K)[a] = InOrder(K)[b] => a = b
  BY <1>3, <1>5
<1> QED BY <1>1, <1>3, <1>4, <1>5, <1>6

\* What Only keeps of a list of T are members of S, and none of them twice if the
\* list has none twice.
LEMMA OnlyKeeps ==
  ASSUME NEW T, NEW s \in Seq(T), NEW S
  PROVE  /\ Only(s, S) \in Seq(T)
         /\ \A n \in DOMAIN Only(s, S) : Only(s, S)[n] \in S
         /\ IsInjective(s) => IsInjective(Only(s, S))
<1> DEFINE K == {k \in DOMAIN s : s[k] \in S}
           o == InOrder(K)
<1>1. DOMAIN s = 1..Len(s) /\ Len(s) \in Nat /\ K \in SUBSET (1..Len(s))
  OBVIOUS
<1>2. /\ o \in Seq(K)
      /\ \A a, b \in DOMAIN o : o[a] = o[b] => a = b
  BY <1>1, InOrderType
<1>3. Only(s, S) = [n \in DOMAIN o |-> s[o[n]]]
  BY DEF Only
<1>4. \A k \in K : k \in DOMAIN s /\ s[k] \in S /\ s[k] \in T
  BY <1>1
<1> HIDE DEF K, o
<1>5. DOMAIN o = 1..Len(o) /\ Len(o) \in Nat /\ \A n \in DOMAIN o : o[n] \in K
  BY <1>2
<1>6. Only(s, S) \in Seq(T) /\ \A n \in DOMAIN Only(s, S) : Only(s, S)[n] \in S
  BY <1>3, <1>4, <1>5
<1>7. ASSUME IsInjective(s) PROVE IsInjective(Only(s, S))
  <2>1. \A j, k \in DOMAIN s : s[j] = s[k] => j = k
    BY <1>7 DEF IsInjective
  <2>2. \A a, b \in DOMAIN o : s[o[a]] = s[o[b]] => a = b
    BY <1>2, <1>4, <1>5, <2>1
  <2> QED BY <1>3, <2>2 DEF IsInjective
<1> QED BY <1>6, <1>7

-----------------------------------------------------------------------------
(* What a search carries at each place it reaches *)

\* Each hotel of the list l is there for the point of d that w has for it.
Carries(l, d, w) ==
  /\ w \in Seq(1..Draws) /\ DOMAIN w = DOMAIN l
  /\ \A n \in DOMAIN l : w[n] \in DOMAIN d /\ l[n] = d[w[n]]

\* Every point with a plan and in S is there but for those in x, at most once for
\* each plan.
Complete(d, w, x, S) ==
  \A k \in DOMAIN d :
    /\ Times(w, k) <= Plans[d[k]]
    /\ Plans[d[k]] > 0 /\ d[k] \in S /\ k \notin x => \E n \in DOMAIN w : w[n] = k

Stage(p, l, d, w, y, x) ==
  /\ p \in {"nearby", "rate"} =>
       l = d /\ w = [k \in DOMAIN d |-> k] /\ DOMAIN d = 1..Draws
  /\ p \in {"rated", "found", "check", "checked", "profile", "profiled", "200"} =>
       Carries(l, d, w) /\ Descending(l)
  /\ p \in {"rated", "found", "check", "checked", "profile"} => Complete(d, w, x, Hotels)
  /\ p \in {"checked", "profile", "profiled", "200"} => \A n \in DOMAIN w : w[n] \in y
  /\ p \in {"profiled", "200"} =>
       Complete(d, w, x, Profiled) /\ \A n \in DOMAIN l : l[n] \in Profiled

Lists == /\ orphans \subseteq Services
         /\ index \in Seq(Hotels) /\ IsInjective(index)
         /\ hotels \in [Requests -> Seq(Hotels)]
         /\ nearby \in [Requests -> Seq(Hotels)]
         /\ place \in [Requests -> Seq(1..Draws)]
         /\ roomy \in [Requests -> SUBSET (1..Draws)]
         /\ excused \in [Requests -> SUBSET (1..Draws)]

StageOf(r) == Stage(pc[r], hotels[r], nearby[r], place[r], roomy[r], excused[r])

Staged == \A r \in Requests : StageOf(r)

SearchInv == IInv /\ OrphansInv /\ Lists /\ Staged

LEMMA InitSearchInv == Init => SearchInv
<1> SUFFICES ASSUME Init PROVE SearchInv
  OBVIOUS
<1>1. IInv /\ OrphansInv
  BY InitIInv DEF Init, OrphansInv
<1>2. Lists
  <2>1. index = <<>> /\ index \in Seq(Hotels) /\ DOMAIN index = {}
    BY DEF Init
  <2>2. IsInjective(index)
    BY <2>1 DEF IsInjective
  <2> QED BY <2>1, <2>2 DEF Init, Lists
<1>3. Staged
  BY DEF Init, Staged, StageOf, Stage
<1> QED BY <1>1, <1>2, <1>3 DEF SearchInv

LEMMA SeqMembers ==
  ASSUME NEW T, NEW s \in Seq(T) PROVE \A k \in DOMAIN s : s[k] \in T
OBVIOUS

LEMMA ListOf ==
  ASSUME NEW T, NEW n \in Nat, NEW s \in [1..n -> T] PROVE s \in Seq(T)
OBVIOUS

\* The plans of a hotel are counted.
LEMMA PlansCount ==
  ASSUME NEW d \in Seq(Hotels) PROVE \A k \in DOMAIN d : Plans[d[k]] \in Nat
<1>1. \A k \in DOMAIN d : d[k] \in Hotels
  BY SeqMembers
<1>2. \A h \in Hotels : Plans[h] \in 0..MaxPlans
  BY ConstantsAssumption
<1> QED BY <1>1, <1>2

\* When only the members K of the list l are left: the others are in X, or not in
\* R.
Trims(l, d, w, x, S, K, X, R) ==
  /\ l \in Seq(Hotels) /\ d \in Seq(Hotels) /\ K \subseteq DOMAIN l
  /\ Carries(l, d, w) /\ Descending(l) /\ Complete(d, w, x, S)
  /\ x \subseteq X /\ \A k \in DOMAIN l \ K : w[k] \in X \/ l[k] \notin R

\* A reply that takes some members of a list in their order.
Chosen(s, K) == [n \in DOMAIN InOrder(K) |-> s[InOrder(K)[n]]]

LEMMA ChosenKeeps ==
  ASSUME NEW l, NEW d, NEW w, NEW x, NEW S, NEW K, NEW X, NEW R,
         Trims(l, d, w, x, S, K, X, R)
  PROVE  /\ Chosen(l, K) \in Seq(Hotels) /\ Carries(Chosen(l, K), d, Chosen(w, K))
         /\ Descending(Chosen(l, K)) /\ Complete(d, Chosen(w, K), X, S \cap R)
         /\ InOrder(K) \in Seq(K)
<1>0. /\ l \in Seq(Hotels) /\ d \in Seq(Hotels) /\ K \subseteq DOMAIN l
      /\ Carries(l, d, w) /\ Descending(l) /\ Complete(d, w, x, S)
      /\ x \subseteq X /\ \A k \in DOMAIN l \ K : w[k] \in X \/ l[k] \notin R
  BY DEF Trims
<1> DEFINE o == InOrder(K)
           l2 == Chosen(l, K)
           w2 == Chosen(w, K)
<1>1. DOMAIN l = 1..Len(l) /\ Len(l) \in Nat /\ K \in SUBSET (1..Len(l))
  BY <1>0
<1>2. /\ o \in Seq(K) /\ IsFiniteSet(K)
      /\ \A a, b \in DOMAIN o : a < b => o[a] < o[b]
      /\ \A a, b \in DOMAIN o : o[a] = o[b] => a = b
      /\ \A k \in K : \E a \in DOMAIN o : o[a] = k
  BY <1>1, InOrderType
<1>3. /\ l2 = [n \in DOMAIN o |-> l[o[n]]] /\ w2 = [n \in DOMAIN o |-> w[o[n]]]
  BY DEF Chosen
<1>4. /\ w \in Seq(1..Draws) /\ DOMAIN w = DOMAIN l
      /\ \A n \in DOMAIN l : w[n] \in DOMAIN d /\ l[n] = d[w[n]]
  BY <1>0 DEF Carries
<1> HIDE DEF o, l2, w2
<1>5. /\ DOMAIN o = 1..Len(o) /\ Len(o) \in Nat
      /\ \A n \in DOMAIN o : o[n] \in K /\ o[n] \in DOMAIN l
  <2>1. DOMAIN o = 1..Len(o) /\ Len(o) \in Nat
    BY <1>2
  <2> QED BY <1>0, <1>2, <2>1, SeqMembers
<1>6. \A k \in DOMAIN l : l[k] \in Hotels /\ w[k] \in 1..Draws
  <2>1. \A k \in DOMAIN l : l[k] \in Hotels
    BY <1>0, SeqMembers
  <2>2. \A k \in DOMAIN w : w[k] \in 1..Draws
    BY <1>4, SeqMembers
  <2> QED BY <1>4, <2>1, <2>2
<1>7. l2 \in Seq(Hotels) /\ w2 \in Seq(1..Draws) /\ DOMAIN l2 = DOMAIN o /\ DOMAIN w2 = DOMAIN o
  BY <1>3, <1>5, <1>6
<1>8. Carries(l2, d, w2)
  BY <1>3, <1>4, <1>5, <1>7 DEF Carries
<1>9. Descending(l2)
  BY <1>0, <1>2, <1>3, <1>5, <1>7 DEF Descending
<1>10. ASSUME NEW k \in DOMAIN d
       PROVE  Times(w2, k) <= Plans[d[k]]
  <2> DEFINE A == {n \in DOMAIN w2 : w2[n] = k}
             B == {n \in DOMAIN w : w[n] = k}
             f == [n \in A |-> o[n]]
  <2>1. f \in [A -> B] /\ \A a, b \in A : f[a] = f[b] => a = b
    BY <1>2, <1>3, <1>4, <1>5, <1>7
  <2>2. f \in Injection(A, B)
    BY <2>1 DEF Injection, IsInjective
  <2>3. B \in SUBSET (1..Len(l)) /\ IsFiniteSet(1..Len(l))
    <3>1. 1 \in Int /\ Len(l) \in Int
      BY <1>1
    <3>2. IsFiniteSet(1..Len(l))
      BY <3>1, FS_Interval
    <3> QED BY <1>1, <1>4, <3>2
  <2>4. IsFiniteSet(B)
    BY <2>3, FS_Subset
  <2> HIDE DEF A, B, f
  <2>5. Cardinality(A) <= Cardinality(B) /\ IsFiniteSet(A)
    BY <2>2, <2>4, FS_Injection
  <2>6. Cardinality(A) \in Nat /\ Cardinality(B) \in Nat
    BY <2>4, <2>5, FS_CardinalityType
  <2>7. Cardinality(B) <= Plans[d[k]] /\ Plans[d[k]] \in Nat
    BY <1>0, PlansCount DEF Complete, Times, B
  <2>8. Times(w2, k) = Cardinality(A)
    BY DEF Times, A
  <2> QED BY <2>5, <2>6, <2>7, <2>8
<1>11. ASSUME NEW k \in DOMAIN d, Plans[d[k]] > 0, d[k] \in S \cap R, k \notin X
       PROVE  \E n \in DOMAIN w2 : w2[n] = k
  <2>1. PICK m \in DOMAIN w : w[m] = k
    BY <1>0, <1>11 DEF Complete
  <2>2. m \in K
    BY <1>0, <1>4, <1>11, <2>1
  <2>3. PICK n \in DOMAIN o : o[n] = m
    BY <1>2, <2>2
  <2> QED BY <1>3, <1>7, <2>1, <2>3
<1>12. Complete(d, w2, X, S \cap R)
  BY <1>10, <1>11 DEF Complete
<1> QED BY <1>2, <1>7, <1>8, <1>9, <1>12 DEF l2, w2, o

LEMMA ChosenMembers ==
  ASSUME NEW s, NEW K, NEW T, InOrder(K) \in Seq(K), \A k \in K : s[k] \in T
  PROVE  \A n \in DOMAIN Chosen(s, K) : Chosen(s, K)[n] \in T
<1>1. \A n \in DOMAIN InOrder(K) : InOrder(K)[n] \in K
  BY SeqMembers
<1> QED BY <1>1 DEF Chosen

-----------------------------------------------------------------------------
(* The steps *)

\* Where a search carries nothing.
LEMMA NothingStaged ==
  ASSUME NEW p \in {"new", "500", "gone", "failed"}, NEW l, NEW d, NEW w, NEW y, NEW x
  PROVE  Stage(p, l, d, w, y, x)
BY DEF Stage

LEMMA DropLists ==
  ASSUME SearchInv, NEW S, Drop(S), index' = index, orphans' \subseteq Services
  PROVE  Lists'
<1>1. <<>> \in Seq(Hotels) /\ <<>> \in Seq(1..Draws)
  OBVIOUS
<1>2. Lists
  BY DEF SearchInv
<1>3. /\ hotels' \in [Requests -> Seq(Hotels)]
      /\ nearby' \in [Requests -> Seq(Hotels)]
      /\ place' \in [Requests -> Seq(1..Draws)]
  BY <1>1, <1>2 DEF Lists, Drop
<1>4. /\ roomy' \in [Requests -> SUBSET (1..Draws)]
      /\ excused' \in [Requests -> SUBSET (1..Draws)]
  BY <1>2 DEF Lists, Drop
<1> QED BY <1>2, <1>3, <1>4 DEF Lists

\* A search that is not dropped keeps what it carries.
LEMMA DropKeeps ==
  ASSUME SearchInv, NEW S, Drop(S), NEW r \in Requests \ S, pc'[r] = pc[r]
  PROVE  StageOf(r)'
<1>1. Stage(pc[r], hotels[r], nearby[r], place[r], roomy[r], excused[r])
  BY DEF SearchInv, Staged, StageOf
<1>2. /\ hotels'[r] = hotels[r] /\ nearby'[r] = nearby[r] /\ place'[r] = place[r]
      /\ roomy'[r] = roomy[r] /\ excused'[r] = excused[r]
  BY DEF Drop
<1>3. Stage(pc'[r], hotels'[r], nearby'[r], place'[r], roomy'[r], excused'[r])
  BY <1>1, <1>2
<1> QED BY <1>3 DEF StageOf

LEMMA DiesStaged ==
  ASSUME SearchInv, NEW s \in Services, Dies(s) PROVE Lists' /\ Staged'
<1> DEFINE fall == {r \in Requests : Falls(s, pc[r]) # pc[r]}
<1>1. /\ Drop(fall) /\ index' = index
      /\ \A r \in Requests : pc'[r] = Falls(s, pc[r])
  BY DEF Dies
<1>2. orphans' \subseteq Services
  BY DEF SearchInv, Lists, Dies, Services
<1>3. Lists'
  BY <1>1, <1>2, DropLists
<1>4. ASSUME NEW r \in Requests PROVE StageOf(r)'
  <2>1. CASE Falls(s, pc[r]) # pc[r]
    <3>1. pc'[r] \in {"500", "failed"}
      BY <1>1, <2>1 DEF Falls
    <3>2. Stage(pc'[r], hotels'[r], nearby'[r], place'[r], roomy'[r], excused'[r])
      BY <3>1, NothingStaged
    <3> QED BY <3>2 DEF StageOf
  <2>2. CASE Falls(s, pc[r]) = pc[r]
    <3>1. r \in Requests \ fall /\ pc'[r] = pc[r]
      BY <1>1, <2>2
    <3> HIDE DEF fall
    <3> QED BY <1>1, <3>1, DropKeeps
  <2> QED BY <2>1, <2>2
<1> QED BY <1>3, <1>4 DEF Staged

LEMMA DropStaged ==
  ASSUME SearchInv, NEW r \in Requests, NEW p \in {"new", "500", "gone", "failed"},
         Goto(r, p), Drop({r}), index' = index, orphans' \subseteq Services
  PROVE  Lists' /\ Staged'
<1>1. Lists'
  BY DropLists
<1>2. ASSUME NEW q \in Requests PROVE StageOf(q)'
  <2>1. CASE q = r
    <3>1. pc'[q] = p
      BY <2>1 DEF SearchInv, IInv, Goto
    <3>2. Stage(pc'[q], hotels'[q], nearby'[q], place'[q], roomy'[q], excused'[q])
      BY <3>1, NothingStaged
    <3> QED BY <3>2 DEF StageOf
  <2>2. CASE q # r
    <3>1. q \in Requests \ {r} /\ pc'[q] = pc[q]
      BY <2>2 DEF SearchInv, IInv, Goto
    <3> QED BY <3>1, DropKeeps
  <2> QED BY <2>1, <2>2
<1> QED BY <1>1, <1>2 DEF Staged

\* One search moves on, with lists and a history that fit where it is then.
LEMMA MovesStaged ==
  ASSUME SearchInv, NEW r \in Requests, NEW p, Goto(r, p), UNCHANGED process,
         NEW l \in Seq(Hotels), hotels' = [hotels EXCEPT ![r] = l],
         NEW d \in Seq(Hotels), nearby' = [nearby EXCEPT ![r] = d],
         NEW w \in Seq(1..Draws), place' = [place EXCEPT ![r] = w],
         NEW y \in SUBSET (1..Draws), roomy' = [roomy EXCEPT ![r] = y],
         NEW x \in SUBSET (1..Draws), excused' = [excused EXCEPT ![r] = x],
         Stage(p, l, d, w, y, x)
  PROVE  Lists' /\ Staged'
<1>0. Lists
  BY DEF SearchInv
<1>1. Lists'
  BY <1>0 DEF Lists, process
<1>2. ASSUME NEW q \in Requests PROVE StageOf(q)'
  <2>1. CASE q = r
    <3>1. pc'[q] = p /\ hotels'[q] = l /\ nearby'[q] = d
      BY <1>0, <2>1 DEF SearchInv, IInv, Lists, Goto
    <3>2. place'[q] = w /\ roomy'[q] = y /\ excused'[q] = x
      BY <1>0, <2>1 DEF Lists
    <3>3. Stage(pc'[q], hotels'[q], nearby'[q], place'[q], roomy'[q], excused'[q])
      BY <3>1, <3>2
    <3> QED BY <3>3 DEF StageOf
  <2>2. CASE q # r
    <3>1. pc'[q] = pc[q] /\ hotels'[q] = hotels[q] /\ nearby'[q] = nearby[q]
      BY <1>0, <2>2 DEF SearchInv, IInv, Lists, Goto
    <3>2. place'[q] = place[q] /\ roomy'[q] = roomy[q] /\ excused'[q] = excused[q]
      BY <1>0, <2>2 DEF Lists
    <3>3. Stage(pc[q], hotels[q], nearby[q], place[q], roomy[q], excused[q])
      BY DEF SearchInv, Staged, StageOf
    <3>4. Stage(pc'[q], hotels'[q], nearby'[q], place'[q], roomy'[q], excused'[q])
      BY <3>1, <3>2, <3>3
    <3> QED BY <3>4 DEF StageOf
  <2> QED BY <2>1, <2>2
<1> QED BY <1>1, <1>2 DEF Staged

\* ... and without a change of them.
LEMMA GoesStaged ==
  ASSUME SearchInv, NEW r \in Requests, NEW p, Goto(r, p),
         UNCHANGED <<process, hotels, history>>,
         Stage(p, hotels[r], nearby[r], place[r], roomy[r], excused[r])
  PROVE  Lists' /\ Staged'
<1>0. Lists
  BY DEF SearchInv
<1>1. /\ hotels[r] \in Seq(Hotels) /\ nearby[r] \in Seq(Hotels)
      /\ place[r] \in Seq(1..Draws)
      /\ roomy[r] \in SUBSET (1..Draws) /\ excused[r] \in SUBSET (1..Draws)
  BY <1>0 DEF Lists
<1>2. /\ hotels' = [hotels EXCEPT ![r] = hotels[r]]
      /\ nearby' = [nearby EXCEPT ![r] = nearby[r]]
      /\ place' = [place EXCEPT ![r] = place[r]]
      /\ roomy' = [roomy EXCEPT ![r] = roomy[r]]
      /\ excused' = [excused EXCEPT ![r] = excused[r]]
  BY <1>0 DEF Lists, history
<1> QED BY <1>1, <1>2, MovesStaged

\* geo answers with the points it drew.
LEMMA GeoNearbyStaged ==
  ASSUME SearchInv, NEW r \in Requests, GeoNearby(r)
  PROVE  Lists' /\ Staged'
<1>0. Lists
  BY DEF SearchInv
<1>1. PICK drawn \in [1..Draws -> 1..Bound] :
        IF \A k \in 1..Draws : drawn[k] <= Len(index)
          THEN LET found == [k \in 1..Draws |-> index[drawn[k]]] IN
               /\ Goto(r, "nearby")
               /\ hotels' = [hotels EXCEPT ![r] = found]
               /\ nearby' = [nearby EXCEPT ![r] = found]
               /\ place' = [place EXCEPT ![r] = [k \in 1..Draws |-> k]]
               /\ UNCHANGED <<process, roomy, excused>>
          ELSE Dies("geo")
  BY DEF GeoNearby
<1>2. CASE \A k \in 1..Draws : drawn[k] <= Len(index)
  <2> DEFINE found == [k \in 1..Draws |-> index[drawn[k]]]
             w == [k \in 1..Draws |-> k]
  <2>1. /\ Goto(r, "nearby") /\ UNCHANGED <<process, roomy, excused>>
        /\ hotels' = [hotels EXCEPT ![r] = found]
        /\ nearby' = [nearby EXCEPT ![r] = found]
        /\ place' = [place EXCEPT ![r] = w]
    BY <1>1, <1>2
  <2>2. \A k \in 1..Draws : drawn[k] \in 1..Bound /\ Bound \in Nat
    BY ConstantsAssumption
  <2>3. index \in Seq(Hotels) /\ Len(index) \in Nat
    BY <1>0 DEF Lists
  <2>4. \A k \in 1..Draws : index[drawn[k]] \in Hotels
    BY <1>2, <2>2, <2>3
  <2>5. found \in Seq(Hotels) /\ w \in Seq(1..Draws) /\ DOMAIN found = 1..Draws
    BY <2>4, ConstantsAssumption
  <2>6. w = [k \in DOMAIN found |-> k]
    BY <2>5
  <2> HIDE DEF found, w
  <2>7. Stage("nearby", found, found, w, roomy[r], excused[r])
    BY <2>5, <2>6 DEF Stage
  <2>8. /\ roomy' = [roomy EXCEPT ![r] = roomy[r]] /\ roomy[r] \in SUBSET (1..Draws)
        /\ excused' = [excused EXCEPT ![r] = excused[r]] /\ excused[r] \in SUBSET (1..Draws)
    BY <1>0, <2>1 DEF Lists
  <2>9. UNCHANGED process
    BY <2>1
  <2> QED BY <2>1, <2>5, <2>7, <2>8, <2>9, MovesStaged
<1>3. CASE ~ \A k \in 1..Draws : drawn[k] <= Len(index)
  BY <1>1, <1>3, DiesStaged DEF Services
<1> QED BY <1>2, <1>3

\* A reply to a list replaces it, and the places with it.
LEMMA ReplyStaged ==
  ASSUME SearchInv, NEW r \in Requests, NEW p, Goto(r, p),
         NEW n \in Nat, NEW kept \in [1..n -> DOMAIN hotels[r]],
         NEW out \in SUBSET DOMAIN hotels[r], Reply(r, kept, out),
         DOMAIN place[r] = DOMAIN hotels[r],
         NEW y \in SUBSET (1..Draws), roomy' = [roomy EXCEPT ![r] = y],
         NEW l, l = [m \in 1..n |-> hotels[r][kept[m]]],
         NEW w, w = [m \in 1..n |-> place[r][kept[m]]],
         NEW x, x = excused[r] \cup {place[r][k] : k \in out},
         Stage(p, l, nearby[r], w, y, x)
  PROVE  Lists' /\ Staged'
<1>0. Lists
  BY DEF SearchInv
<1>1. /\ hotels[r] \in Seq(Hotels) /\ nearby[r] \in Seq(Hotels)
      /\ place[r] \in Seq(1..Draws) /\ excused[r] \in SUBSET (1..Draws)
  BY <1>0 DEF Lists
<1>2. /\ \A k \in DOMAIN hotels[r] : hotels[r][k] \in Hotels
      /\ \A k \in DOMAIN place[r] : place[r][k] \in 1..Draws
  BY <1>1, SeqMembers
<1>3. \A m \in 1..n : kept[m] \in DOMAIN hotels[r]
  OBVIOUS
<1>4. l \in Seq(Hotels) /\ w \in Seq(1..Draws)
  BY <1>2, <1>3
<1>5. x \in SUBSET (1..Draws)
  BY <1>1, <1>2
<1>6. DOMAIN kept = 1..n
  OBVIOUS
<1>7. /\ hotels' = [hotels EXCEPT ![r] = l] /\ place' = [place EXCEPT ![r] = w]
      /\ excused' = [excused EXCEPT ![r] = x] /\ UNCHANGED <<process, nearby>>
  BY <1>0, <1>6 DEF Reply, Lists
<1>8. nearby' = [nearby EXCEPT ![r] = nearby[r]] /\ UNCHANGED process
  BY <1>0, <1>7 DEF Lists
<1> QED BY <1>1, <1>4, <1>5, <1>7, <1>8, MovesStaged

\* rate answers with the plans of the hotels that have one, in its order.
LEMMA GetRatesStaged ==
  ASSUME SearchInv, NEW r \in Requests, GetRates(r)
  PROVE  Lists' /\ Staged'
<1>0. Lists
  BY DEF SearchInv
<1>1. PICK unread \in SUBSET DOMAIN hotels[r] :
       \E n \in 0..MaxPlans * Len(hotels[r]) : \E kept \in [1..n -> DOMAIN hotels[r]] :
        /\ \A k \in DOMAIN hotels[r] :
             /\ Times(kept, k) <= Plans[hotels[r][k]]
             /\ Times(kept, k) = 0 <=> Plans[hotels[r][k]] = 0 \/ k \in unread
        /\ Reply(r, kept, unread)
        /\ Descending(hotels'[r])
  BY DEF GetRates
<1>a. PICK n \in 0..MaxPlans * Len(hotels[r]) : \E kept \in [1..n -> DOMAIN hotels[r]] :
        /\ \A k \in DOMAIN hotels[r] :
             /\ Times(kept, k) <= Plans[hotels[r][k]]
             /\ Times(kept, k) = 0 <=> Plans[hotels[r][k]] = 0 \/ k \in unread
        /\ Reply(r, kept, unread)
        /\ Descending(hotels'[r])
  BY <1>1
<1>b. PICK kept \in [1..n -> DOMAIN hotels[r]] :
        /\ \A k \in DOMAIN hotels[r] :
             /\ Times(kept, k) <= Plans[hotels[r][k]]
             /\ Times(kept, k) = 0 <=> Plans[hotels[r][k]] = 0 \/ k \in unread
        /\ Reply(r, kept, unread)
        /\ Descending(hotels'[r])
  BY <1>a
<1>2. Goto(r, "rated") /\ roomy' = roomy /\ pc[r] = "rate"
  BY DEF GetRates, At
<1> DEFINE d == nearby[r]
           l == [m \in 1..n |-> hotels[r][kept[m]]]
           w == [m \in 1..n |-> place[r][kept[m]]]
           x == excused[r] \cup {place[r][k] : k \in unread}
<1>3. Stage("rate", hotels[r], nearby[r], place[r], roomy[r], excused[r])
  BY <1>2 DEF SearchInv, Staged, StageOf
<1>4. /\ hotels[r] = d /\ place[r] = [k \in DOMAIN d |-> k] /\ DOMAIN d = 1..Draws
  BY <1>3 DEF Stage
<1>5. d \in Seq(Hotels) /\ n \in Nat
  BY <1>0 DEF Lists
<1>6. \A m \in 1..n : kept[m] \in DOMAIN d /\ kept[m] \in 1..Draws
  BY <1>4
<1>7. \A m \in 1..n : w[m] = kept[m]
  BY <1>4, <1>6
<1>8. w \in Seq(1..Draws) /\ DOMAIN w = 1..n /\ DOMAIN l = 1..n
  <2>1. kept \in [1..n -> 1..Draws]
    BY <1>4
  <2>2. kept \in Seq(1..Draws)
    BY <1>5, <2>1, ListOf
  <2>3. w = kept /\ DOMAIN w = 1..n /\ DOMAIN l = 1..n
    BY <1>7
  <2> QED BY <2>2, <2>3
<1>9. \A m \in 1..n : l[m] = d[w[m]] /\ w[m] \in DOMAIN d
  BY <1>4, <1>6, <1>7
<1>10. Carries(l, d, w)
  BY <1>8, <1>9 DEF Carries
<1>11. Descending(l)
  <2>1. hotels'[r] = l
    BY <1>0, <1>b DEF Reply, Lists
  <2>2. Descending(hotels'[r])
    BY <1>b
  <2> HIDE DEF l
  <2> QED BY <2>1, <2>2
<1>12. w = kept
  BY <1>7
<1>13. Complete(d, w, x, Hotels)
  <2> SUFFICES ASSUME NEW k \in DOMAIN d
               PROVE  /\ Times(w, k) <= Plans[d[k]]
                      /\ Plans[d[k]] > 0 /\ d[k] \in Hotels /\ k \notin x =>
                           \E m \in DOMAIN w : w[m] = k
    BY DEF Complete
  <2> HIDE DEF w
  <2>1. Times(w, k) = Times(kept, k)
    BY <1>12
  <2>2. /\ Times(kept, k) <= Plans[d[k]]
        /\ Times(kept, k) = 0 <=> Plans[d[k]] = 0 \/ k \in unread
    BY <1>b, <1>4
  <2>3. Times(w, k) <= Plans[d[k]]
    BY <2>1, <2>2
  <2>4. ASSUME Plans[d[k]] > 0, k \notin x
        PROVE  \E m \in DOMAIN w : w[m] = k
    <3>1. k \notin unread
      BY <1>4, <2>4
    <3>2. Plans[d[k]] # 0
      BY <1>5, <2>4, PlansCount
    <3>3. Cardinality({m \in DOMAIN w : w[m] = k}) # 0
      BY <2>1, <2>2, <3>1, <3>2 DEF Times
    <3>4. {m \in DOMAIN w : w[m] = k} # {}
      BY <3>3, FS_EmptySet
    <3> QED BY <3>4
  <2> QED BY <2>3, <2>4
<1>14. DOMAIN place[r] = DOMAIN hotels[r]
  BY <1>4
<1>15. roomy[r] \in SUBSET (1..Draws) /\ roomy' = [roomy EXCEPT ![r] = roomy[r]]
  BY <1>0, <1>2 DEF Lists
<1>16. Stage("rated", l, d, w, roomy[r], x)
  <2> HIDE DEF l, w, x
  <2> QED BY <1>10, <1>11, <1>13 DEF Stage
<1>17. /\ n \in Nat /\ kept \in [1..n -> DOMAIN hotels[r]]
       /\ unread \in SUBSET DOMAIN hotels[r] /\ Reply(r, kept, unread)
  BY <1>b, <1>5
<1>18. /\ l = [m \in 1..n |-> hotels[r][kept[m]]]
       /\ w = [m \in 1..n |-> place[r][kept[m]]]
       /\ x = excused[r] \cup {place[r][k] : k \in unread}
  OBVIOUS
<1> HIDE DEF l, w, x, d
<1>19. Stage("rated", l, nearby[r], w, roomy[r], x)
  BY <1>16 DEF d
<1> QED BY <1>2, <1>14, <1>15, <1>17, <1>18, <1>19, ReplyStaged

\* A reply that keeps some members of the list in their order.
LEMMA ChosenStaged ==
  ASSUME SearchInv, NEW r \in Requests, NEW p, Goto(r, p),
         NEW K \in SUBSET DOMAIN hotels[r], NEW out \in SUBSET DOMAIN hotels[r],
         Reply(r, InOrder(K), out), DOMAIN place[r] = DOMAIN hotels[r],
         NEW y \in SUBSET (1..Draws), roomy' = [roomy EXCEPT ![r] = y],
         NEW x, x = excused[r] \cup {place[r][k] : k \in out},
         Stage(p, Chosen(hotels[r], K), nearby[r], Chosen(place[r], K), y, x)
  PROVE  Lists' /\ Staged'
<1> DEFINE o == InOrder(K)
<1>1. hotels[r] \in Seq(Hotels)
  BY DEF SearchInv, Lists
<1>2. DOMAIN hotels[r] = 1..Len(hotels[r]) /\ Len(hotels[r]) \in Nat
  BY <1>1
<1>3. K \in SUBSET (1..Len(hotels[r]))
  BY <1>2
<1>4. o \in Seq(K)
  BY <1>2, <1>3, InOrderType
<1>5. Chosen(hotels[r], K) = [m \in DOMAIN o |-> hotels[r][o[m]]]
      /\ Chosen(place[r], K) = [m \in DOMAIN o |-> place[r][o[m]]]
  BY DEF Chosen
<1>6. Reply(r, o, out)
  OBVIOUS
<1> HIDE DEF o
<1>7. PICK n \in Nat : DOMAIN o = 1..n /\ o \in [1..n -> K]
  BY <1>4
<1>8. o \in [1..n -> DOMAIN hotels[r]]
  BY <1>7
<1>9. /\ Chosen(hotels[r], K) = [m \in 1..n |-> hotels[r][o[m]]]
      /\ Chosen(place[r], K) = [m \in 1..n |-> place[r][o[m]]]
  BY <1>5, <1>7
<1> QED BY <1>6, <1>8, <1>9, ReplyStaged

\* reservation answers with some of the hotels, and accounts for the others.
LEMMA CheckStaged ==
  ASSUME SearchInv, NEW r \in Requests, CheckAvailability(r)
  PROVE  Lists' /\ Staged'
<1>0. Lists
  BY DEF SearchInv
<1>1. PICK room \in SUBSET DOMAIN hotels[r] :
        /\ Reply(r, InOrder(room), DOMAIN hotels[r] \ room)
        /\ roomy' = [roomy EXCEPT ![r] = {place[r][k] : k \in room}]
  BY DEF CheckAvailability
<1> DEFINE l == hotels[r]
           d == nearby[r]
           w == place[r]
           out == DOMAIN l \ room
           y == {w[k] : k \in room}
           x == excused[r]
           X == x \cup {w[k] : k \in out}
<1>2. Goto(r, "checked") /\ pc[r] = "check"
  BY DEF CheckAvailability, At
<1>3. Stage("check", l, d, w, roomy[r], x)
  BY <1>2 DEF SearchInv, Staged, StageOf
<1>4. l \in Seq(Hotels) /\ d \in Seq(Hotels) /\ w \in Seq(1..Draws)
  BY <1>0 DEF Lists
<1>5. Carries(l, d, w) /\ Descending(l) /\ Complete(d, w, x, Hotels)
  BY <1>3 DEF Stage
<1>6. DOMAIN w = DOMAIN l
  BY <1>5 DEF Carries
<1>7. y \in SUBSET (1..Draws)
  BY <1>4, <1>6, SeqMembers
<1>8. Trims(l, d, w, x, Hotels, room, X, Hotels)
  BY <1>4, <1>5 DEF Trims
<1>10. room \in SUBSET DOMAIN l /\ out \in SUBSET DOMAIN l
  OBVIOUS
<1>11. \A k \in room : w[k] \in y
  OBVIOUS
<1>12. Reply(r, InOrder(room), out) /\ roomy' = [roomy EXCEPT ![r] = y]
  BY <1>1
<1>a. Hotels \cap Hotels = Hotels
  OBVIOUS
<1> SUFFICES Stage("checked", Chosen(l, room), d, Chosen(w, room), y, X)
  BY <1>2, <1>6, <1>7, <1>10, <1>12, ChosenStaged
<1> HIDE DEF l, d, w, out, y, x, X
<1>13. /\ Carries(Chosen(l, room), d, Chosen(w, room)) /\ Descending(Chosen(l, room))
       /\ Complete(d, Chosen(w, room), X, Hotels \cap Hotels)
       /\ InOrder(room) \in Seq(room)
  BY <1>8, ChosenKeeps
<1>14. \A n \in DOMAIN Chosen(w, room) : Chosen(w, room)[n] \in y
  BY <1>11, <1>13, ChosenMembers
<1>15. Complete(d, Chosen(w, room), X, Hotels)
  BY <1>13, <1>a
<1> QED BY <1>13, <1>14, <1>15 DEF Stage

\* profile answers with those that have a profile, and were read.
LEMMA ProfilesStaged ==
  ASSUME SearchInv, NEW r \in Requests, GetProfiles(r)
  PROVE  Lists' /\ Staged'
<1>0. Lists
  BY DEF SearchInv
<1>1. PICK unread \in SUBSET DOMAIN hotels[r] :
        Reply(r, InOrder({k \in DOMAIN hotels[r] \ unread : hotels[r][k] \in Profiled}),
              unread)
  BY DEF GetProfiles
<1> DEFINE l == hotels[r]
           d == nearby[r]
           w == place[r]
           K == {k \in DOMAIN l \ unread : l[k] \in Profiled}
           y == roomy[r]
           x == excused[r]
           X == x \cup {w[k] : k \in unread}
<1>2. Goto(r, "profiled") /\ pc[r] = "profile" /\ roomy' = roomy
  BY DEF GetProfiles, At
<1>3. Stage("profile", l, d, w, y, x)
  BY <1>2 DEF SearchInv, Staged, StageOf
<1>4. l \in Seq(Hotels) /\ d \in Seq(Hotels) /\ w \in Seq(1..Draws)
  BY <1>0 DEF Lists
<1>5. Carries(l, d, w) /\ Descending(l) /\ Complete(d, w, x, Hotels)
      /\ \A n \in DOMAIN w : w[n] \in y
  BY <1>3 DEF Stage
<1>6. DOMAIN w = DOMAIN l
  BY <1>5 DEF Carries
<1>7. y \in SUBSET (1..Draws) /\ roomy' = [roomy EXCEPT ![r] = y]
  BY <1>0, <1>2 DEF Lists
<1>8. Trims(l, d, w, x, Hotels, K, X, Profiled)
  BY <1>4, <1>5 DEF Trims
<1>10. K \in SUBSET DOMAIN l /\ unread \in SUBSET DOMAIN l
  OBVIOUS
<1>11. \A k \in K : l[k] \in Profiled
  OBVIOUS
<1>12. Reply(r, InOrder(K), unread)
  BY <1>1
<1>a. \A k \in DOMAIN d : d[k] \in Hotels
  BY <1>4, SeqMembers
<1> SUFFICES Stage("profiled", Chosen(l, K), d, Chosen(w, K), y, X)
  BY <1>2, <1>6, <1>7, <1>10, <1>12, ChosenStaged
<1> HIDE DEF l, d, w, K, y, x, X
<1>13. /\ Carries(Chosen(l, K), d, Chosen(w, K)) /\ Descending(Chosen(l, K))
       /\ Complete(d, Chosen(w, K), X, Hotels \cap Profiled)
       /\ InOrder(K) \in Seq(K)
  BY <1>8, ChosenKeeps
<1>14. /\ \A n \in DOMAIN Chosen(w, K) : Chosen(w, K)[n] \in y
       /\ \A n \in DOMAIN Chosen(l, K) : Chosen(l, K)[n] \in Profiled
  <2>1. \A k \in K : w[k] \in y
    BY <1>5, <1>6, <1>10
  <2> QED BY <1>11, <1>13, <2>1, ChosenMembers
<1>15. Complete(d, Chosen(w, K), X, Profiled)
  BY <1>13, <1>a DEF Complete
<1> QED BY <1>13, <1>14, <1>15 DEF Stage

\* A handler that only moves its search on, or fails it, or takes a process down.
LEMMA HandleStaged ==
  ASSUME SearchInv, NEW r \in Requests, Handle(r)
  PROVE  Lists' /\ Staged'
<1> DEFINE St(p) == Stage(p, hotels[r], nearby[r], place[r], roomy[r], excused[r])
<1>0. St(pc[r])
  BY DEF SearchInv, Staged, StageOf
<1>1. CASE SearchHandler(r) \/ CallGeo(r) \/ Respond(r) \/ Answer(r)
  <2>1. UNCHANGED <<process, hotels, history>>
    BY <1>1 DEF SearchHandler, CallGeo, Respond, Answer
  <2>2. PICK p : Goto(r, p) /\ St(p)
    <3>1. \A p \in {"400", "500", "search", "geo", "failed"} : St(p)
      BY DEF Stage
    <3>2. CASE SearchHandler(r) \/ CallGeo(r)
      BY <3>1, <3>2 DEF SearchHandler, CallGeo
    <3>3. CASE Respond(r)
      BY <1>0, <3>3 DEF Respond, At, Stage
    <3>4. CASE Answer(r)
      BY <1>0, <3>4 DEF Answer, At, Stage
    <3> QED BY <1>1, <3>2, <3>3, <3>4
  <2> QED BY <2>1, <2>2, GoesStaged
<1>2. CASE CallRate(r) \/ Check(r) \/ Profile(r)
  <2>1. UNCHANGED process
    BY <1>2 DEF CallRate, Check, Profile
  <2>2. CASE UNCHANGED <<hotels, history>>
    <3>1. PICK p : Goto(r, p) /\ St(p)
      <4>1. \A p \in {"failed", "500"} : St(p)
        BY DEF Stage
      <4>2. CASE CallRate(r)
        BY <1>0, <4>1, <4>2 DEF CallRate, At, Stage
      <4>3. CASE Check(r)
        BY <1>0, <4>1, <4>3 DEF Check, At, Stage
      <4>4. CASE Profile(r)
        BY <1>0, <4>1, <4>4 DEF Profile, At, Stage
      <4> QED BY <1>2, <4>2, <4>3, <4>4
    <3> QED BY <2>1, <2>2, <3>1, GoesStaged
  <2>3. CASE \E p \in {"failed", "500"} : Goto(r, p) /\ Drop({r})
    <3>1. index' = index /\ orphans' \subseteq Services
      BY <2>1 DEF process, SearchInv, Lists
    <3> QED BY <2>3, <3>1, DropStaged
  <2> QED BY <1>2, <2>2, <2>3 DEF CallRate, Check, Profile
<1>3. CASE Fatal(r) \/ DatabaseFails(r)
  <2>1. PICK s \in Services : Dies(s)
    BY <1>3 DEF Fatal, DatabaseFails, Services
  <2> QED BY <2>1, DiesStaged
<1> QED
  BY <1>1, <1>2, <1>3, GeoNearbyStaged, GetRatesStaged, CheckStaged, ProfilesStaged
  DEF Handle

LEMMA CancelStaged ==
  ASSUME SearchInv, NEW r \in Requests, Cancel(r) \/ SearchAgain(r)
  PROVE  Lists' /\ Staged'
<1>1. index' = index /\ orphans' \subseteq Services /\ Drop({r})
  BY DEF Cancel, SearchAgain, SearchInv, Lists, Services, process
<1>2. PICK p \in {"new", "failed", "gone"} : Goto(r, p)
  BY DEF Cancel, SearchAgain
<1> QED BY <1>1, <1>2, DropStaged

\* geo inserts what is missing, and nothing twice.
LEMMA StartGeoLists == ASSUME SearchInv, StartGeo PROVE Lists'
<1>1. PICK S : index' = index \o Only(Points, S \ Range(index))
  BY DEF StartGeo
<1> DEFINE new == Only(Points, S \ Range(index))
<1>2. index \in Seq(Hotels) /\ IsInjective(index)
  BY DEF SearchInv, Lists
<1>3. /\ new \in Seq(Hotels) /\ IsInjective(new)
      /\ \A k \in DOMAIN new : new[k] \in S \ Range(index)
  BY OnlyKeeps, ConstantsAssumption
<1> HIDE DEF new
<1>4. index' = index \o new /\ index' \in Seq(Hotels)
  BY <1>1, <1>2, <1>3 DEF new
<1>5. \A k \in DOMAIN index : index[k] \in Range(index)
  BY DEF Range
<1>6. ASSUME NEW i \in DOMAIN index', NEW j \in DOMAIN index', index'[i] = index'[j]
      PROVE  i = j
  <2> DEFINE n == Len(index)
  <2>1. /\ n \in Nat /\ Len(new) \in Nat /\ DOMAIN index = 1..n /\ DOMAIN new = 1..Len(new)
        /\ DOMAIN index' = 1..(n + Len(new))
        /\ \A k \in 1..(n + Len(new)) :
             index'[k] = IF k <= n THEN index[k] ELSE new[k - n]
    BY <1>2, <1>3, <1>4
  <2> HIDE DEF n
  <2>2. i \in Int /\ j \in Int /\ 1 <= i /\ 1 <= j
    BY <2>1
  <2>3. CASE i <= n /\ j <= n
    <3>1. i \in DOMAIN index /\ j \in DOMAIN index /\ index[i] = index[j]
      BY <1>6, <2>1, <2>2, <2>3
    <3> QED BY <1>2, <3>1 DEF IsInjective
  <2>4. CASE i > n /\ j > n
    <3>1. i - n \in DOMAIN new /\ j - n \in DOMAIN new /\ new[i - n] = new[j - n]
      BY <1>6, <2>1, <2>2, <2>4
    <3>2. i - n = j - n
      BY <1>3, <3>1 DEF IsInjective
    <3> QED BY <2>1, <2>2, <3>2
  <2>5. CASE i <= n /\ j > n
    <3>1. i \in DOMAIN index /\ j - n \in DOMAIN new /\ index[i] = new[j - n]
      BY <1>6, <2>1, <2>2, <2>5
    <3> QED BY <1>3, <1>5, <3>1
  <2>6. CASE i > n /\ j <= n
    <3>1. j \in DOMAIN index /\ i - n \in DOMAIN new /\ index[j] = new[i - n]
      BY <1>6, <2>1, <2>2, <2>6
    <3> QED BY <1>3, <1>5, <3>1
  <2> QED BY <2>1, <2>2, <2>3, <2>4, <2>5, <2>6
<1>7. IsInjective(index')
  BY <1>6 DEF IsInjective
<1> QED BY <1>4, <1>7 DEF SearchInv, Lists, StartGeo, history

LEMMA NextSearchInv == SearchInv /\ [Next]_vars => SearchInv'
<1> SUFFICES ASSUME SearchInv, [Next]_vars PROVE Lists' /\ Staged'
  BY NextStep, OrphansStep DEF SearchInv
<1>1. CASE StartGeo
  <2>1. Staged'
    BY <1>1 DEF SearchInv, Staged, StageOf, StartGeo, history
  <2> QED BY <1>1, <2>1, StartGeoLists
<1>2. CASE (\E s \in Services \ {"geo"} : Start(s)) \/ UNCHANGED vars
  <2>1. UNCHANGED <<index, orphans, pc, hotels, nearby, place, roomy, excused>>
    BY <1>2 DEF Start, vars, process, history
  <2> QED BY <2>1 DEF SearchInv, Lists, Staged, StageOf
<1>3. ASSUME NEW s \in Readers, Orphan(s) PROVE Lists' /\ Staged'
  <2>1. CASE Dies(s)
    BY <2>1, DiesStaged DEF Readers, Services
  <2>2. CASE orphans' = orphans \ {s} /\ UNCHANGED <<up, index, pc, hotels, history>>
    BY <2>2 DEF SearchInv, Lists, Staged, StageOf, history
  <2> QED BY <1>3, <2>1, <2>2 DEF Orphan
<1> QED BY <1>1, <1>2, <1>3, HandleStaged, CancelStaged DEF Next

LEMMA SearchInvHolds == Spec => []SearchInv
BY InitSearchInv, NextSearchInv, PTL DEF Spec

\* The variables have their types, and geo has no point twice however often it
\* starts and whatever inserts fail.
THEOREM TypeCorrect == Spec => []TypeOK
<1>1. SearchInv => TypeOK
  <2>1. IInv => pc \in [Requests -> {"new"} \cup Waiting \cup Over]
    BY DEF IInv
  <2> QED BY <2>1 DEF SearchInv, IInv, Lists, TypeOK
<1> QED BY <1>1, SearchInvHolds, PTL

\* A search that is answered shows points of its own, judged to have a room by its
\* own check and no more often than they have plans, by falling rate; and what it
\* does not show is accounted for.
THEOREM AnswersAreTrue == Spec => []ShowsWhatWasFound
<1>1. SearchInv => ShowsWhatWasFound
  <2> SUFFICES ASSUME SearchInv, NEW r \in Requests, pc[r] = "200"
      PROVE  /\ Descending(hotels[r])
             /\ \A n \in DOMAIN hotels[r] :
                  /\ hotels[r][n] = nearby[r][place[r][n]]
                  /\ hotels[r][n] \in Profiled
                  /\ place[r][n] \in roomy[r]
             /\ \A k \in DOMAIN nearby[r] :
                  /\ Times(place[r], k) <= Plans[nearby[r][k]]
                  /\ Plans[nearby[r][k]] > 0 /\ nearby[r][k] \in Profiled
                       /\ k \notin excused[r] =>
                     \E n \in DOMAIN hotels[r] : place[r][n] = k
    BY DEF ShowsWhatWasFound
  <2> DEFINE l == hotels[r]
             d == nearby[r]
             w == place[r]
             y == roomy[r]
             x == excused[r]
  <2>1. Stage("200", l, d, w, y, x)
    BY DEF SearchInv, Staged, StageOf
  <2> HIDE DEF l, d, w, y, x
  <2>2. /\ Carries(l, d, w) /\ Descending(l) /\ Complete(d, w, x, Profiled)
        /\ \A n \in DOMAIN w : w[n] \in y
        /\ \A n \in DOMAIN l : l[n] \in Profiled
    BY <2>1 DEF Stage
  <2>3. \A n \in DOMAIN l : l[n] = d[w[n]] /\ l[n] \in Profiled /\ w[n] \in y
    BY <2>2 DEF Carries
  <2>4. DOMAIN w = DOMAIN l
    BY <2>2 DEF Carries
  <2>5. \A k \in DOMAIN d :
          /\ Times(w, k) <= Plans[d[k]]
          /\ Plans[d[k]] > 0 /\ d[k] \in Profiled /\ k \notin x =>
               \E n \in DOMAIN l : w[n] = k
    BY <2>2, <2>4 DEF Complete
  <2> QED BY <2>2, <2>3, <2>5 DEF l, d, w, y, x
<1> QED BY <1>1, SearchInvHolds, PTL
=============================================================================
