-------------------------- MODULE RateCacheProofs --------------------------
(***************************************************************************)
(* For any hotels, lists and number of requests: the memcached entries of  *)
(* the rate service agree with its collection.                             *)
(*                                                                         *)
(* The handlers read the collection and fill the cache in two steps; the   *)
(* invariant says that the plans read are still all there when the Set     *)
(* happens, because only a restart adds some and it ends the handlers.     *)
(* What a handler has dealt with is at each moment what the collection has *)
(* for the places before the one it is at, and sorting moves each plan to  *)
(* one place, so that the service implements Lookup.                       *)
(***************************************************************************)
EXTENDS RateCache, TLAPS, FiniteSetTheorems

Handlers ==
  \A r \in Requests :
    /\ pc[r] \in Running => up
    /\ pc[r] = "fill" => read[r] = docs[Hotel(r)]

IInv == TypeOK /\ CacheIsStored /\ Handlers

\* The hotel a running handler is at is one of the list's.
LEMMA HotelType ==
  ASSUME TypeOK, NEW r \in Requests, pc[r] \in Running
  PROVE  Hotel(r) \in Ids /\ i[r] \in 1..Len(req[r]) /\ Len(req[r]) \in Nat
<1>1. req[r] \in Seq(Ids) /\ i[r] \in Nat
  BY ConstantsAssumption DEF TypeOK
<1>2. i[r] \in 1..Len(req[r])
  BY <1>1 DEF TypeOK
<1> QED BY <1>1, <1>2 DEF Hotel

LEMMA InitIInv == Init => IInv
<1> SUFFICES ASSUME Init PROVE IInv
  OBVIOUS
<1>1. ASSUME NEW r \in Requests PROVE i[r] <= Len(req[r]) /\ pc[r] \notin Running
  <2>1. req[r] \in Seq(Ids) /\ i[r] = 0 /\ pc[r] = "new"
    BY ConstantsAssumption DEF Init
  <2> QED BY <2>1 DEF Running
<1>2. /\ plans \in [Requests -> Seq(Ids)] /\ i \in [Requests -> Nat]
      /\ read \in [Requests -> Nat] /\ missed \in [Requests -> SUBSET Nat]
  BY DEF Init
<1>3. /\ up \in BOOLEAN /\ docs \in [Ids -> Nat] /\ cache \in [Ids -> Nat]
      /\ filled \in [Ids -> Nat]
      /\ req \in [Requests -> Calls]
      /\ pc \in [Requests -> {"new", "replied", "lost"} \cup Running]
  BY DEF Init
<1>4. TypeOK
  BY <1>1, <1>2, <1>3 DEF TypeOK
<1>5. CacheIsStored
  BY DEF Init, CacheIsStored
<1>6. Handlers
  BY <1>1 DEF Handlers, Init, Running
<1> QED BY <1>4, <1>5, <1>6 DEF IInv

\* sort.Sort returns plans of the same hotels.
LEMMA SortsType ==
  ASSUME NEW s \in Seq(Ids), NEW t \in Sorts(s) PROVE t \in Seq(Ids)
<1>1. DOMAIN s = 1..Len(s) /\ Len(s) \in Nat /\ t \in [DOMAIN s -> Ids]
  BY DEF Sorts
<1> QED BY <1>1

\* A step of the loop that adds n plans of the hotel, and keeps the cache right.
LEMMA ContinueStep ==
  ASSUME IInv, NEW r \in Requests, pc[r] \in Running, NEW n \in Nat,
         Continue(r, n), UNCHANGED <<up, docs, req>>, read' \in [Requests -> Nat],
         missed' \in [Requests -> SUBSET Nat],
         \A q \in Requests : q # r => read'[q] = read[q],
         cache' \in [Ids -> Nat], filled' \in [Ids -> Nat], CacheIsStored'
  PROVE  IInv'
<1>1. Hotel(r) \in Ids /\ i[r] \in 1..Len(req[r]) /\ Len(req[r]) \in Nat
  BY HotelType DEF IInv
<1>2. plans[r] \o [j \in 1..n |-> Hotel(r)] \in Seq(Ids)
  BY <1>1 DEF IInv, TypeOK
<1>3. plans' \in [Requests -> Seq(Ids)]
  BY <1>2, SortsType DEF Continue, IInv, TypeOK
<1>4. /\ pc' \in [Requests -> {"new", "replied", "lost"} \cup Running]
      /\ pc'[r] \in {"get", "replied"} /\ i' \in [Requests -> Nat]
      /\ \A q \in Requests : q # r => pc'[q] = pc[q] /\ i'[q] = i[q]
      /\ i'[r] \in 1..Len(req[r])
  <2>1. /\ pc \in [Requests -> {"new", "replied", "lost"} \cup Running]
        /\ i \in [Requests -> Nat]
    BY DEF IInv, TypeOK
  <2>2. CASE /\ i[r] < Len(req[r]) /\ pc' = [pc EXCEPT ![r] = "get"]
             /\ i' = [i EXCEPT ![r] = @ + 1]
    BY <1>1, <2>1, <2>2 DEF Running
  <2>3. CASE pc' = [pc EXCEPT ![r] = "replied"] /\ i' = i
    BY <1>1, <2>1, <2>3
  <2> QED BY <2>2, <2>3 DEF Continue
<1>5. TypeOK'
  <2>1. ASSUME NEW q \in Requests
        PROVE  i'[q] <= Len(req[q]) /\ (pc'[q] \in Running => i'[q] > 0)
    <3>1. CASE q = r
      BY <1>1, <1>4, <3>1
    <3>2. CASE q # r
      BY <1>4, <3>2 DEF IInv, TypeOK
    <3> QED BY <3>1, <3>2
  <2> QED BY <1>3, <1>4, <2>1 DEF IInv, TypeOK
<1>6. Handlers'
  <2>1. up
    BY DEF IInv, Handlers
  <2> QED BY <1>4, <2>1 DEF IInv, Handlers, Hotel
<1> QED BY <1>5, <1>6 DEF IInv

LEMMA BootStep == ASSUME IInv, Boot PROVE IInv'
<1>1. docs' \in [Ids -> Nat] /\ \A h \in Ids : docs'[h] \in {docs[h], docs[h] + 1}
                                /\ docs'[h] >= docs[h]
  <2>1. docs' \in [Ids -> 0..MaxCopies] /\ docs \in [Ids -> Nat]
    BY DEF IInv, TypeOK, Boot
  <2>2. \A h \in Ids : docs'[h] \in {docs[h], docs[h] + 1}
    BY <2>1 DEF Boot
  <2> QED BY ConstantsAssumption, <2>1, <2>2
<1>2. \A r \in Requests : pc[r] \notin Running
  BY DEF IInv, Handlers, Boot
<1>3. TypeOK'
  BY <1>1 DEF IInv, TypeOK, Boot, locals
<1>4. CacheIsStored'
  <2>1. cache' = cache /\ filled' = filled
        /\ docs \in [Ids -> Nat] /\ filled \in [Ids -> Nat]
    BY DEF IInv, TypeOK, Boot
  <2>2. \A h \in Ids : cache[h] \in {0, filled[h]} /\ filled[h] <= docs[h]
    BY DEF IInv, CacheIsStored
  <2> QED BY <1>1, <2>1, <2>2 DEF CacheIsStored
<1>5. Handlers'
  BY <1>2 DEF Handlers, Boot, Running
<1> QED BY <1>3, <1>4, <1>5 DEF IInv

LEMMA CrashStep == ASSUME IInv, Crash PROVE IInv'
<1>1. \A q \in Requests : pc'[q] \notin Running
  BY DEF IInv, TypeOK, Crash, Running
<1>2. TypeOK'
  BY <1>1 DEF IInv, TypeOK, Crash, locals
<1>3. CacheIsStored' /\ Handlers'
  BY <1>1 DEF IInv, CacheIsStored, Handlers, Crash, Running
<1> QED BY <1>2, <1>3 DEF IInv

LEMMA GetRatesStep == ASSUME IInv, NEW r \in Requests, GetRates(r) PROVE IInv'
<1>1. req[r] \in Seq(Ids) /\ Len(req[r]) \in Nat /\ (req[r] # <<>> => Len(req[r]) > 0)
  BY ConstantsAssumption DEF IInv, TypeOK
<1>2. /\ i'[r] \in {i[r], 1} /\ pc'[r] \in {"replied", "get"}
      /\ pc'[r] = "get" => i'[r] = 1 /\ req[r] # <<>>
      /\ pc'[r] # "get" => i'[r] = i[r]
      /\ \A q \in Requests : q # r => pc'[q] = pc[q] /\ i'[q] = i[q]
      /\ pc' \in [Requests -> {"new", "replied", "lost"} \cup Running]
      /\ i' \in [Requests -> Nat]
  <2>1. /\ pc \in [Requests -> {"new", "replied", "lost"} \cup Running]
        /\ i \in [Requests -> Nat]
    BY DEF IInv, TypeOK
  <2>2. CASE req[r] = <<>> /\ pc' = [pc EXCEPT ![r] = "replied"] /\ i' = i
    BY <2>1, <2>2
  <2>3. CASE /\ req[r] # <<>> /\ pc' = [pc EXCEPT ![r] = "get"]
             /\ i' = [i EXCEPT ![r] = 1]
    BY <2>1, <2>3 DEF Running
  <2> QED BY <2>2, <2>3 DEF GetRates
<1>3. \A q \in Requests : i'[q] <= Len(req[q]) /\ (pc'[q] \in Running => i'[q] > 0)
  <2> SUFFICES ASSUME NEW q \in Requests
               PROVE  i'[q] <= Len(req[q]) /\ (pc'[q] \in Running => i'[q] > 0)
    OBVIOUS
  <2>1. i[q] <= Len(req[q]) /\ (pc[q] \in Running => i[q] > 0)
    BY DEF IInv, TypeOK
  <2>2. CASE q = r
    BY <1>1, <1>2, <2>1, <2>2 DEF Running
  <2>3. CASE q # r
    BY <1>2, <2>1, <2>3
  <2> QED BY <2>2, <2>3
<1>4. TypeOK'
  BY <1>2, <1>3 DEF IInv, TypeOK, GetRates
<1>5. CacheIsStored' /\ Handlers'
  BY <1>2 DEF IInv, CacheIsStored, Handlers, GetRates, Hotel
<1> QED BY <1>4, <1>5 DEF IInv

LEMMA HandleStep == ASSUME IInv, NEW r \in Requests, Handle(r) PROVE IInv'
<1>0. /\ docs \in [Ids -> Nat] /\ cache \in [Ids -> Nat] /\ read \in [Requests -> Nat]
      /\ filled \in [Ids -> Nat]
      /\ missed \in [Requests -> SUBSET Nat]
      /\ pc[r] \in Running => Hotel(r) \in Ids
  BY HotelType DEF IInv, TypeOK
<1>1. CASE GetRates(r)
  BY <1>1, GetRatesStep
<1>2. CASE Hit(r)
  <2>1. pc[r] \in Running /\ cache[Hotel(r)] \in Nat
    BY <1>0, <1>2 DEF Hit, Running
  <2>2. CacheIsStored'
    BY <1>2 DEF Hit, IInv, CacheIsStored
  <2> QED BY <1>0, <1>2, <2>1, <2>2, ContinueStep DEF Hit
<1>3. CASE Miss(r)
  <2>1. TypeOK'
    BY <1>3 DEF IInv, TypeOK, Miss, Running, locals
  <2>2. CacheIsStored' /\ Handlers'
    BY <1>3 DEF IInv, TypeOK, CacheIsStored, Handlers, Miss, Running, locals, Hotel
  <2> QED BY <2>1, <2>2 DEF IInv
<1>4. CASE GetFails(r) \/ FindFails(r)
  BY <1>4, CrashStep DEF GetFails, FindFails
<1>5. CASE Find(r)
  <2>1. pc[r] \in Running /\ Hotel(r) \in Ids
    BY <1>0, <1>5 DEF Find, Running
  <2>2. PICK n \in Nat :
          /\ n \in {docs[Hotel(r)], 0} /\ read' = [read EXCEPT ![r] = n]
          /\ IF n = 0 THEN Continue(r, 0)
                      ELSE pc' = [pc EXCEPT ![r] = "fill"] /\ UNCHANGED <<i, plans>>
    <3>1. docs[Hotel(r)] \in Nat /\ 0 \in Nat
      BY <1>0, <2>1
    <3>2. PICK n \in {docs[Hotel(r)], 0} : read' = [read EXCEPT ![r] = n]
      BY <1>5 DEF Find
    <3>3. read'[r] = n
      BY <1>0, <3>2
    <3>4. IF read'[r] = 0 THEN Continue(r, 0)
          ELSE pc' = [pc EXCEPT ![r] = "fill"] /\ UNCHANGED <<i, plans>>
      BY <1>5 DEF Find
    <3> QED BY <3>1, <3>2, <3>3, <3>4
  <2>3. UNCHANGED <<up, docs, cache, filled, req>>
    BY <1>5 DEF Find
  <2>0. missed' \in [Requests -> SUBSET Nat]
    <3>1. missed \in [Requests -> SUBSET Nat] /\ i[r] \in Nat
      BY DEF IInv, TypeOK
    <3> QED BY <1>5, <3>1 DEF Find
  <2>6. CacheIsStored'
    BY <2>3 DEF IInv, CacheIsStored
  <2>4. CASE n = 0
    BY <1>0, <2>0, <2>1, <2>2, <2>3, <2>4, <2>6, ContinueStep
  <2>5. CASE n # 0
    <3>1. TypeOK'
      BY <2>0, <2>1, <2>2, <2>3, <2>5 DEF IInv, TypeOK, Running
    <3>3. up
      BY <2>1 DEF IInv, Handlers
    <3>4. read'[r] = docs[Hotel(r)] /\ \A q \in Requests : q # r => read'[q] = read[q]
      BY <1>0, <2>2, <2>5
    <3>5. Handlers'
      BY <2>2, <2>3, <2>5, <3>3, <3>4 DEF IInv, TypeOK, Handlers, Hotel
    <3> QED BY <2>6, <3>1, <3>5 DEF IInv
  <2> QED BY <2>4, <2>5
<1>6. CASE Fill(r)
  <2>1. pc[r] \in Running /\ Hotel(r) \in Ids /\ read[r] = docs[Hotel(r)] /\ read[r] \in Nat
    BY <1>0, <1>6 DEF Fill, Running, IInv, Handlers
  <2>2. CASE UNCHANGED <<cache, filled>>
    <3>1. CacheIsStored'
      BY <1>6, <2>2 DEF Fill, IInv, CacheIsStored
    <3> QED BY <1>0, <1>6, <2>1, <2>2, <3>1, ContinueStep DEF Fill
  <2>3. CASE /\ cache' = [cache EXCEPT ![Hotel(r)] = read[r]]
             /\ filled' = [filled EXCEPT ![Hotel(r)] = docs[Hotel(r)]]
    <3>1. cache' \in [Ids -> Nat] /\ filled' \in [Ids -> Nat]
      BY <1>0, <2>1, <2>3
    <3>2. ASSUME NEW h \in Ids PROVE cache'[h] \in {0, filled'[h]} /\ filled'[h] <= docs'[h]
      <4>1. docs' = docs
        BY <1>6 DEF Fill
      <4>2. cache[h] \in {0, filled[h]} /\ filled[h] <= docs[h] /\ docs[h] \in Nat
        BY <1>0 DEF IInv, CacheIsStored
      <4>3. CASE h = Hotel(r)
        BY <1>0, <2>1, <2>3, <4>1, <4>2, <4>3
      <4>4. CASE h # Hotel(r)
        BY <1>0, <2>1, <2>3, <4>1, <4>2, <4>4
      <4> QED BY <4>3, <4>4
    <3>3. CacheIsStored'
      BY <3>2 DEF CacheIsStored
    <3> QED BY <1>0, <1>6, <2>1, <3>1, <3>3, ContinueStep DEF Fill
  <2> QED BY <1>6, <2>2, <2>3 DEF Fill
<1> QED BY <1>1, <1>2, <1>3, <1>4, <1>5, <1>6 DEF Handle

LEMMA NextStep == IInv /\ [Next]_vars => IInv'
<1> SUFFICES ASSUME IInv, [Next]_vars PROVE IInv'
  OBVIOUS
<1>1. CASE Evict
  <2>1. TypeOK'
    BY <1>1 DEF IInv, TypeOK, Evict, locals
  <2>2. \A h \in Ids : \/ cache'[h] = cache[h] /\ filled'[h] = filled[h]
                       \/ cache'[h] = 0 /\ filled'[h] = 0
    BY <1>1 DEF IInv, TypeOK, Evict
  <2>3. CacheIsStored'
    BY <1>1, <2>2 DEF IInv, TypeOK, CacheIsStored, Evict
  <2>4. Handlers'
    BY <1>1 DEF IInv, Handlers, Evict, locals, Hotel
  <2> QED BY <2>1, <2>3, <2>4 DEF IInv
<1>2. CASE UNCHANGED vars
  BY <1>2 DEF IInv, TypeOK, CacheIsStored, Handlers, vars, locals, Hotel
<1> QED BY <1>1, <1>2, BootStep, HandleStep DEF Next

-----------------------------------------------------------------------------

\* The state of the service and of its handlers has its type.
THEOREM TypeCorrect == Spec => []TypeOK
BY InitIInv, NextStep, PTL DEF Spec, IInv

\* No interleaving of the handlers, eviction, lost Set, crash or restart leaves an
\* entry of memcached without a plan that was stored when it was set.
THEOREM CacheCorrect == Spec => []CacheIsStored
BY InitIInv, NextStep, PTL DEF Spec, IInv

-----------------------------------------------------------------------------
(* Implementing Lookup *)

\* The plans s are there for the first n places of the list: for each as many as
\* d has of its hotel or fewer, and one at least but for the places in m.
Placed(s, list, n, d, m) ==
  \E place \in [DOMAIN s -> 1..n] :
    /\ \A j \in DOMAIN s : s[j] = list[place[j]]
    /\ \A k \in 1..n :
         /\ Cardinality({j \in DOMAIN s : place[j] = k}) <= d[list[k]]
         /\ d[list[k]] > 0 /\ k \notin m => \E j \in DOMAIN s : place[j] = k

\* A running handler has dealt with the places before the one it is at.
Dealt ==
  /\ docs \in [Ids -> 0..MaxCopies]
  /\ \A r \in Requests :
       /\ pc[r] = "new" => plans[r] = <<>> /\ missed[r] = {}
       /\ pc[r] \in Running =>
            /\ missed[r] \subseteq 1..(i[r] - 1)
            /\ Placed(plans[r], req[r], i[r] - 1, docs, missed[r])

FullInv == IInv /\ Dealt

LEMMA PlacedNone == ASSUME NEW list, NEW d, NEW m PROVE Placed(<<>>, list, 0, d, m)
<1> DEFINE place == [j \in {} |-> 0]
<1>1. DOMAIN <<>> = {} /\ 1..0 = {}
  OBVIOUS
<1>2. place \in [DOMAIN <<>> -> 1..0]
  BY <1>1
<1> QED
  BY <1>1, <1>2 DEF Placed

\* Where the elements of a \o b come from.
LEMMA Joined ==
  ASSUME NEW a \in Seq(Ids), NEW b \in Seq(Ids)
  PROVE  /\ a \o b \in Seq(Ids) /\ Len(a \o b) = Len(a) + Len(b)
         /\ Len(a) \in Nat /\ Len(b) \in Nat
         /\ \A j \in 1..(Len(a) + Len(b)) :
              (a \o b)[j] = IF j <= Len(a) THEN a[j] ELSE b[j - Len(a)]
OBVIOUS

\* The next place, with c plans.
LEMMA PlacedMore ==
  ASSUME NEW s \in Seq(Ids), NEW list \in Seq(Ids), NEW n \in Nat, NEW d, NEW m, NEW M,
         Placed(s, list, n, d, m), m \subseteq M, list[n + 1] \in Ids,
         NEW c \in Nat, c <= d[list[n + 1]], d[list[n + 1]] \in Nat,
         d[list[n + 1]] > 0 /\ n + 1 \notin M => c > 0
  PROVE  Placed(s \o [j \in 1..c |-> list[n + 1]], list, n + 1, d, M)
<1>1. PICK place \in [DOMAIN s -> 1..n] :
        /\ \A j \in DOMAIN s : s[j] = list[place[j]]
        /\ \A k \in 1..n :
             /\ Cardinality({j \in DOMAIN s : place[j] = k}) <= d[list[k]]
             /\ d[list[k]] > 0 /\ k \notin m => \E j \in DOMAIN s : place[j] = k
  BY DEF Placed
<1> DEFINE new == [j \in 1..c |-> list[n + 1]]
           t == s \o new
           L == Len(s)
           next == [j \in 1..(L + c) |-> IF j <= L THEN place[j] ELSE n + 1]
<1>2. new \in Seq(Ids) /\ Len(new) = c /\ \A j \in 1..c : new[j] = list[n + 1]
  OBVIOUS
<1> HIDE DEF new
<1>3. /\ L \in Nat /\ DOMAIN s = 1..L /\ DOMAIN t = 1..(L + c)
      /\ \A j \in 1..(L + c) : t[j] = IF j <= L THEN s[j] ELSE list[n + 1]
  <2>1. /\ L \in Nat /\ DOMAIN s = 1..L /\ DOMAIN t = 1..(L + c)
        /\ \A j \in 1..(L + c) : t[j] = IF j <= L THEN s[j] ELSE new[j - L]
    <3>1. t \in Seq(Ids) /\ Len(t) = L + c /\ L \in Nat
      BY <1>2, Joined
    <3>2. DOMAIN t = 1..(L + c) /\ DOMAIN s = 1..L
      BY <3>1
    <3>3. \A j \in 1..(Len(s) + Len(new)) :
            (s \o new)[j] = IF j <= Len(s) THEN s[j] ELSE new[j - Len(s)]
      BY <1>2, Joined
    <3> QED
      BY <1>2, <3>1, <3>2, <3>3
  <2> HIDE DEF t, L
  <2>2. \A j \in 1..(L + c) : ~(j <= L) => j - L \in 1..c
    BY <2>1
  <2> QED
    BY <1>2, <2>1, <2>2
<1>4. \A j \in 1..L : place[j] \in 1..n /\ j \in 1..(L + c)
  BY <1>3
<1>5. \A j \in 1..(L + c) : ~(j <= L) => j \in (L + 1)..(L + c)
  BY <1>3
<1>6. /\ \A j \in 1..L : next[j] = place[j]
      /\ \A j \in (L + 1)..(L + c) : next[j] = n + 1 /\ j \in 1..(L + c)
  BY <1>3, <1>4
<1>7. next \in [DOMAIN t -> 1..(n + 1)]
  BY <1>3, <1>4
<1>8. \A j \in DOMAIN t : t[j] = list[next[j]]
  BY <1>1, <1>3
<1> HIDE DEF t, L, next
<1>9. ASSUME NEW k \in 1..(n + 1)
      PROVE  /\ Cardinality({j \in DOMAIN t : next[j] = k}) <= d[list[k]]
             /\ d[list[k]] > 0 /\ k \notin M => \E j \in DOMAIN t : next[j] = k
  <2>1. CASE k = n + 1
    <3>1. \A j \in 1..L : next[j] # n + 1
      BY <1>4, <1>6
    <3>2. {j \in DOMAIN t : next[j] = k} = (L + 1)..(L + c)
      BY <1>3, <1>5, <1>6, <2>1, <3>1
    <3>3. Cardinality((L + 1)..(L + c)) = c
      <4>1. L + 1 \in Int /\ L + c \in Int
        BY <1>3
      <4>2. Cardinality((L + 1)..(L + c)) = IF L + 1 > L + c THEN 0 ELSE (L + c) - (L + 1) + 1
        BY <4>1, FS_Interval
      <4> QED
        BY <1>3, <4>2
    <3>4. c > 0 => L + 1 \in (L + 1)..(L + c)
      BY <1>3
    <3> QED
      BY <1>3, <1>6, <2>1, <3>2, <3>3, <3>4
  <2>2. CASE k # n + 1
    <3>1. k \in 1..n
      BY <2>2
    <3>2. \A j \in DOMAIN t : next[j] = k <=> j \in 1..L /\ place[j] = k
      BY <1>3, <1>5, <1>6, <2>2
    <3>3. {j \in DOMAIN t : next[j] = k} = {j \in DOMAIN s : place[j] = k}
      BY <1>3, <1>4, <3>2
    <3> QED
      BY <1>1, <1>3, <1>4, <1>6, <3>1, <3>3
  <2> QED
    BY <2>1, <2>2
<1> QED
  BY <1>7, <1>8, <1>9 DEF Placed, t, new

\* What sort.Sort does to a list: each plan goes to one place.
LEMMA SortsMove ==
  ASSUME NEW s \in Seq(Ids), NEW t \in Sorts(s)
  PROVE  \E g \in Bijection(DOMAIN t, DOMAIN s) : \A j \in DOMAIN t : t[j] = s[g[j]]
<1>1. /\ t \in [DOMAIN s -> Ids] /\ DOMAIN s = 1..Len(s) /\ Len(s) \in Nat /\ DOMAIN t = DOMAIN s
      /\ \A h \in Ids : Cardinality(Occurrences(t, h)) = Cardinality(Occurrences(s, h))
  BY DEF Sorts
<1>2. IsFiniteSet(DOMAIN s)
  <2>0. 1 \in Int /\ Len(s) \in Int
    BY <1>1
  <2>1. IsFiniteSet(1..Len(s))
    BY <2>0, FS_Interval
  <2> QED
    BY <1>1, <2>1
<1> DEFINE b(h) == CHOOSE f : f \in Bijection(Occurrences(t, h), Occurrences(s, h))
           g == [j \in DOMAIN t |-> b(t[j])[j]]
<1>3. ASSUME NEW h \in Ids
      PROVE  b(h) \in Bijection(Occurrences(t, h), Occurrences(s, h))
  <2>1. Occurrences(t, h) \in SUBSET DOMAIN s /\ Occurrences(s, h) \in SUBSET DOMAIN s
    BY <1>1 DEF Occurrences
  <2>2. IsFiniteSet(Occurrences(t, h)) /\ IsFiniteSet(Occurrences(s, h))
    BY <1>2, <2>1, FS_Subset
  <2>3. ExistsBijection(Occurrences(t, h), Occurrences(s, h))
    BY <1>1, <2>2, FS_SameCardinalityBij
  <2> QED
    BY <2>3 DEF ExistsBijection
<1> HIDE DEF b
<1>4. ASSUME NEW h \in Ids
      PROVE  /\ \A j \in Occurrences(t, h) : b(h)[j] \in Occurrences(s, h)
             /\ \A j, l \in Occurrences(t, h) : b(h)[j] = b(h)[l] => j = l
             /\ \A x \in Occurrences(s, h) : \E j \in Occurrences(t, h) : b(h)[j] = x
  BY <1>3 DEF Bijection, Injection, Surjection, IsInjective
<1>5. \A j \in DOMAIN t : t[j] \in Ids /\ j \in Occurrences(t, t[j]) /\ g[j] = b(t[j])[j]
  BY <1>1 DEF Occurrences
<1> HIDE DEF g
<1>6. \A j \in DOMAIN t : g[j] \in Occurrences(s, t[j])
  BY <1>4, <1>5
<1>7. \A j \in DOMAIN t : g[j] \in DOMAIN s /\ s[g[j]] = t[j]
  BY <1>6 DEF Occurrences
<1>8. ASSUME NEW j \in DOMAIN t, NEW l \in DOMAIN t, g[j] = g[l] PROVE j = l
  <2>1. t[j] = t[l]
    BY <1>7, <1>8
  <2>2. l \in Occurrences(t, t[j]) /\ g[l] = b(t[j])[l]
    BY <1>5, <2>1
  <2> QED
    BY <1>4, <1>5, <1>8, <2>2
<1>9. ASSUME NEW x \in DOMAIN s PROVE \E j \in DOMAIN t : g[j] = x
  <2>1. s[x] \in Ids /\ x \in Occurrences(s, s[x])
    BY <1>1 DEF Occurrences
  <2>2. PICK j \in Occurrences(t, s[x]) : b(s[x])[j] = x
    BY <1>4, <2>1
  <2>3. j \in DOMAIN t /\ t[j] = s[x]
    BY <2>2 DEF Occurrences
  <2>4. g[j] = x
    BY <1>5, <2>2, <2>3
  <2> QED
    BY <2>3, <2>4
<1>10. g \in [DOMAIN t -> DOMAIN s]
  BY <1>7 DEF g
<1>11. g \in Bijection(DOMAIN t, DOMAIN s)
  BY <1>8, <1>9, <1>10 DEF Bijection, Injection, Surjection, IsInjective
<1> QED
  BY <1>7, <1>11

LEMMA PlacedSorted ==
  ASSUME NEW s \in Seq(Ids), NEW t \in Sorts(s), NEW list, NEW n \in Nat, NEW d, NEW m,
         Placed(s, list, n, d, m)
  PROVE  Placed(t, list, n, d, m)
<1>1. PICK place \in [DOMAIN s -> 1..n] :
        /\ \A j \in DOMAIN s : s[j] = list[place[j]]
        /\ \A k \in 1..n :
             /\ Cardinality({j \in DOMAIN s : place[j] = k}) <= d[list[k]]
             /\ d[list[k]] > 0 /\ k \notin m => \E j \in DOMAIN s : place[j] = k
  BY DEF Placed
<1>2. PICK g \in Bijection(DOMAIN t, DOMAIN s) : \A j \in DOMAIN t : t[j] = s[g[j]]
  BY SortsMove
<1>3. /\ \A j \in DOMAIN t : g[j] \in DOMAIN s
      /\ \A j, l \in DOMAIN t : g[j] = g[l] => j = l
      /\ \A x \in DOMAIN s : \E j \in DOMAIN t : g[j] = x
  BY DEF Bijection, Injection, Surjection, IsInjective
<1> DEFINE next == [j \in DOMAIN t |-> place[g[j]]]
<1>4. next \in [DOMAIN t -> 1..n] /\ \A j \in DOMAIN t : next[j] = place[g[j]]
  BY <1>3
<1>5. \A j \in DOMAIN t : t[j] = list[next[j]]
  BY <1>1, <1>2, <1>3
<1> HIDE DEF next
<1>6. ASSUME NEW k \in 1..n
      PROVE  /\ Cardinality({j \in DOMAIN t : next[j] = k}) <= d[list[k]]
             /\ d[list[k]] > 0 /\ k \notin m => \E j \in DOMAIN t : next[j] = k
  <2> DEFINE A == {j \in DOMAIN t : next[j] = k}
             B == {x \in DOMAIN s : place[x] = k}
             f == [j \in A |-> g[j]]
  <2>1. \A j \in A : g[j] \in B
    BY <1>3, <1>4
  <2>2. \A x \in B : \E j \in A : g[j] = x
    BY <1>3, <1>4
  <2>3. f \in [A -> B] /\ \A j \in A : f[j] = g[j]
    BY <2>1
  <2>4. \A j, l \in A : f[j] = f[l] => j = l
    BY <1>3, <2>3
  <2>5. f \in Bijection(A, B)
    <3>1. \A x \in B : \E j \in A : f[j] = x
      BY <2>2, <2>3
    <3> HIDE DEF A, B, f
    <3> QED
      BY <2>3, <2>4, <3>1 DEF Bijection, Injection, Surjection, IsInjective
  <2>6. IsFiniteSet(A)
    <3>1. DOMAIN t = 1..Len(s) /\ Len(s) \in Nat
      BY DEF Sorts
    <3>2. A \in SUBSET (1..Len(s)) /\ IsFiniteSet(1..Len(s))
      BY <3>1, FS_Interval
    <3> HIDE DEF A
    <3> QED
      BY <3>2, FS_Subset
  <2>7. Cardinality(B) = Cardinality(A)
    <3> HIDE DEF A, B, f
    <3>1. ExistsBijection(A, B)
      BY <2>5 DEF ExistsBijection
    <3> QED
      BY <2>6, <3>1, FS_Bijection
  <2>8. Cardinality(B) <= d[list[k]]
    BY <1>1
  <2>9. Cardinality(A) <= d[list[k]]
    <3> HIDE DEF A, B
    <3> QED
      BY <2>7, <2>8
  <2>10. ASSUME d[list[k]] > 0, k \notin m PROVE \E j \in DOMAIN t : next[j] = k
    <3>1. PICK x \in DOMAIN s : place[x] = k
      BY <1>1, <2>10
    <3>2. PICK j \in DOMAIN t : g[j] = x
      BY <1>3
    <3> QED
      BY <1>4, <3>1, <3>2
  <2> QED
    BY <2>9, <2>10
<1> QED
  BY <1>4, <1>5, <1>6 DEF Placed

LEMMA InitFull == Init => FullInv
<1> SUFFICES ASSUME Init PROVE Dealt
  BY InitIInv DEF FullInv
<1>1. docs \in [Ids -> 0..MaxCopies]
  BY ConstantsAssumption DEF Init
<1> QED
  BY <1>1 DEF Init, Dealt, Running

\* A step of the loop finds n plans of its place, or none for a reason.
FindsSome(r, n) ==
  /\ n \in Nat /\ n <= docs[Hotel(r)]
  /\ \/ missed' = missed /\ (docs[Hotel(r)] > 0 => n > 0)
     \/ missed' = [missed EXCEPT ![r] = @ \cup {i[r]}]

HighestFirst(s) ==
  \A a, b \in DOMAIN s : a < b => TotalRate[s[a]] >= TotalRate[s[b]]

LEMMA SortsOrder ==
  ASSUME NEW s \in Seq(Ids), NEW t \in Sorts(s)
  PROVE  HighestFirst(t)
<1>1. TotalRate \in [Ids -> Int] /\ t \in [DOMAIN s -> Ids]
  BY ConstantsAssumption DEF Sorts
<1>2. \A a, b \in DOMAIN t : a < b => ~(TotalRate[t[b]] > TotalRate[t[a]])
  BY DEF Sorts, Less
<1>3. \A a \in DOMAIN t : TotalRate[t[a]] \in Int
  BY <1>1
<1> QED
  BY <1>2, <1>3 DEF HighestFirst

LEMMA ContinueFinds ==
  ASSUME FullInv, NEW r \in Requests, pc[r] \in Running, NEW n,
         Continue(r, n), FindsSome(r, n)
  PROVE  /\ missed'[r] \subseteq 1..i[r] /\ \A q \in Requests \ {r} : missed'[q] = missed[q]
         /\ Placed(plans'[r], req[r], i[r], docs, missed'[r])
         /\ \A q \in Requests \ {r} : plans'[q] = plans[q]
         /\ i[r] < Len(req[r]) \/ HighestFirst(plans'[r])
<1>1. /\ req[r] \in Seq(Ids) /\ i[r] \in 1..Len(req[r]) /\ Len(req[r]) \in Nat
      /\ plans \in [Requests -> Seq(Ids)] /\ missed \in [Requests -> SUBSET Nat]
      /\ Hotel(r) \in Ids /\ docs[Hotel(r)] \in Nat
  BY HotelType, ConstantsAssumption DEF FullInv, IInv, TypeOK
<1>2. /\ missed[r] \subseteq 1..(i[r] - 1) /\ i[r] - 1 \in Nat
      /\ Placed(plans[r], req[r], i[r] - 1, docs, missed[r])
  BY <1>1 DEF FullInv, Dealt
<1>3. /\ missed'[r] \in {missed[r], missed[r] \cup {i[r]}}
      /\ \A q \in Requests \ {r} : missed'[q] = missed[q]
      /\ n \in Nat /\ n <= docs[Hotel(r)]
      /\ docs[Hotel(r)] > 0 /\ i[r] \notin missed'[r] => n > 0
  BY <1>1 DEF FindsSome
<1>4. missed'[r] \subseteq 1..i[r] /\ missed[r] \subseteq missed'[r]
  <2>1. 1..(i[r] - 1) \subseteq 1..i[r] /\ i[r] \in 1..i[r]
    BY <1>1
  <2> QED
    BY <1>2, <1>3, <2>1
<1> DEFINE all == plans[r] \o [j \in 1..n |-> Hotel(r)]
<1>5. Placed(all, req[r], i[r], docs, missed'[r])
  <2> DEFINE l == i[r] - 1
  <2>1. l \in Nat /\ l + 1 = i[r] /\ Hotel(r) = req[r][l + 1] /\ plans[r] \in Seq(Ids)
    BY <1>1 DEF Hotel
  <2> HIDE DEF l
  <2>2. Placed(plans[r], req[r], l, docs, missed[r])
    BY <1>2 DEF l
  <2>3. /\ req[r][l + 1] \in Ids /\ docs[req[r][l + 1]] \in Nat /\ n \in Nat
        /\ n <= docs[req[r][l + 1]]
        /\ docs[req[r][l + 1]] > 0 /\ l + 1 \notin missed'[r] => n > 0
    BY <1>1, <1>3, <2>1
  <2>4. req[r] \in Seq(Ids) /\ missed[r] \subseteq missed'[r]
    BY <1>1, <1>4
  <2>5. Placed(plans[r] \o [j \in 1..n |-> req[r][l + 1]], req[r], l + 1, docs, missed'[r])
    BY <2>1, <2>2, <2>3, <2>4, PlacedMore
  <2>6. [j \in 1..n |-> req[r][l + 1]] = [j \in 1..n |-> Hotel(r)]
    BY <2>1
  <2> QED
    BY <2>1, <2>5, <2>6
<1>6. all \in Seq(Ids)
  <2>1. [j \in 1..n |-> Hotel(r)] \in Seq(Ids)
    BY <1>1, <1>3
  <2> QED
    BY <1>1, <2>1
<1> HIDE DEF all
<1>7. CASE i[r] < Len(req[r]) /\ plans' = [plans EXCEPT ![r] = all]
  <2>1. plans'[r] = all /\ \A q \in Requests \ {r} : plans'[q] = plans[q]
    BY <1>1, <1>7
  <2> QED
    BY <1>3, <1>4, <1>5, <1>7, <2>1
<1>8. CASE \E sorted \in Sorts(all) : plans' = [plans EXCEPT ![r] = sorted]
  <2>1. PICK sorted \in Sorts(all) : plans' = [plans EXCEPT ![r] = sorted]
    BY <1>8
  <2>2. plans'[r] = sorted /\ \A q \in Requests \ {r} : plans'[q] = plans[q]
    BY <1>1, <2>1
  <2>3. HighestFirst(sorted)
    BY <1>6, SortsOrder
  <2>4. Placed(sorted, req[r], i[r], docs, missed'[r])
    <3>1. i[r] \in Nat
      BY <1>1
    <3> QED
      BY <1>5, <1>6, <3>1, PlacedSorted
  <2> QED
    BY <1>3, <1>4, <2>2, <2>3, <2>4
<1> QED
  BY <1>7, <1>8 DEF Continue, all

LEMMA ContinueDealt ==
  ASSUME FullInv, NEW r \in Requests, pc[r] \in Running, NEW n,
         Continue(r, n), FindsSome(r, n), UNCHANGED <<up, docs, req>>
  PROVE  Dealt'
<1>0. docs' \in [Ids -> 0..MaxCopies]
  BY DEF FullInv, Dealt
<1> SUFFICES ASSUME NEW q \in Requests
             PROVE  /\ pc'[q] = "new" => plans'[q] = <<>> /\ missed'[q] = {}
                    /\ pc'[q] \in Running =>
                         /\ missed'[q] \subseteq 1..(i'[q] - 1)
                         /\ Placed(plans'[q], req'[q], i'[q] - 1, docs', missed'[q])
  BY <1>0 DEF Dealt
<1>1. /\ missed'[r] \subseteq 1..i[r]
      /\ Placed(plans'[r], req[r], i[r], docs, missed'[r])
      /\ \A p \in Requests \ {r} : plans'[p] = plans[p] /\ missed'[p] = missed[p]
  BY ContinueFinds
<1>2. /\ pc \in [Requests -> {"new", "replied", "lost"} \cup Running]
      /\ i \in [Requests -> Nat]
  BY DEF FullInv, IInv, TypeOK
<1>3. /\ pc[q] = "new" => plans[q] = <<>> /\ missed[q] = {}
      /\ pc[q] \in Running =>
           /\ missed[q] \subseteq 1..(i[q] - 1)
           /\ Placed(plans[q], req[q], i[q] - 1, docs, missed[q])
  BY DEF FullInv, Dealt
<1>4. CASE q # r
  <2>1. pc'[q] = pc[q] /\ i'[q] = i[q] /\ plans'[q] = plans[q] /\ missed'[q] = missed[q]
    BY <1>1, <1>2, <1>4 DEF Continue
  <2> QED
    BY <1>3, <2>1
<1>5. CASE q = r
  <2>1. CASE pc'[r] = "get" /\ i'[r] = i[r] + 1
    <3>1. i'[r] - 1 = i[r]
      BY <1>2, <2>1
    <3> QED
      BY <1>1, <1>3, <1>5, <2>1, <3>1
  <2>2. CASE pc'[r] = "replied"
    BY <1>5, <2>2 DEF Running
  <2> QED
    BY <1>2, <2>1, <2>2 DEF Continue
<1> QED
  BY <1>4, <1>5

\* The place Find is at, and what it did there.
LEMMA FindFinds ==
  ASSUME FullInv, NEW r \in Requests, Find(r)
  PROVE  /\ pc[r] \in Running /\ UNCHANGED <<up, docs, cache, req>>
         /\ \/ pc' = [pc EXCEPT ![r] = "fill"] /\ UNCHANGED <<i, plans, missed>>
            \/ Continue(r, 0) /\ FindsSome(r, 0)
<1>1. pc[r] \in Running
  BY DEF Find, Running
<1>2. docs[Hotel(r)] \in Nat /\ read \in [Requests -> Nat]
  BY <1>1, HotelType DEF FullInv, IInv, TypeOK
<1>3. CASE read' = [read EXCEPT ![r] = docs[Hotel(r)]] /\ missed' = missed
  <2>1. read'[r] = docs[Hotel(r)]
    BY <1>2, <1>3
  <2> QED
    BY <1>1, <1>2, <1>3, <2>1 DEF Find, FindsSome
<1>4. CASE /\ read' = [read EXCEPT ![r] = 0]
           /\ missed' = [missed EXCEPT ![r] = @ \cup {i[r]}]
  <2>1. read'[r] = 0
    BY <1>2, <1>4
  <2> QED
    BY <1>1, <1>2, <1>4, <2>1 DEF Find, FindsSome
<1> QED
  BY <1>3, <1>4 DEF Find

LEMMA HitFinds ==
  ASSUME FullInv, NEW r \in Requests, Hit(r) \/ Fill(r)
  PROVE  /\ pc[r] \in Running /\ UNCHANGED <<up, docs, req>>
         /\ \E n \in Nat : Continue(r, n) /\ FindsSome(r, n)
<1>1. pc[r] \in Running
  BY DEF Hit, Fill, Running
<1>2. /\ Hotel(r) \in Ids /\ docs[Hotel(r)] \in Nat /\ cache[Hotel(r)] \in Nat
      /\ cache[Hotel(r)] <= docs[Hotel(r)]
  <2>1. Hotel(r) \in Ids
    BY <1>1, HotelType DEF FullInv, IInv
  <2>2. /\ docs[Hotel(r)] \in Nat /\ cache[Hotel(r)] \in Nat /\ filled[Hotel(r)] \in Nat
    BY <2>1 DEF FullInv, IInv, TypeOK
  <2>3. cache[Hotel(r)] \in {0, filled[Hotel(r)]} /\ filled[Hotel(r)] <= docs[Hotel(r)]
    BY <2>1 DEF FullInv, IInv, CacheIsStored
  <2> QED BY <2>1, <2>2, <2>3
<1>3. CASE Hit(r)
  BY <1>1, <1>2, <1>3 DEF Hit, FindsSome
<1>4. CASE Fill(r)
  <2>1. read[r] = docs[Hotel(r)]
    BY <1>4 DEF Fill, FullInv, IInv, Handlers
  <2> QED
    BY <1>1, <1>2, <1>4, <2>1 DEF Fill, FindsSome
<1> QED
  BY <1>3, <1>4

\* A step of one handler that only changes where it is.
LEMMA MoveDealt ==
  ASSUME FullInv, NEW r \in Requests, pc[r] \in Running, NEW p \in {"find", "fill"},
         pc' = [pc EXCEPT ![r] = p], UNCHANGED <<up, docs, req, i, plans, missed>>
  PROVE  Dealt'
BY DEF FullInv, IInv, TypeOK, Dealt, Running

LEMMA GetRatesDealt ==
  ASSUME FullInv, NEW r \in Requests, GetRates(r)
  PROVE  Dealt'
<1>1. /\ pc \in [Requests -> {"new", "replied", "lost"} \cup Running]
      /\ i \in [Requests -> Nat]
      /\ pc[r] = "new" /\ plans[r] = <<>> /\ missed[r] = {}
      /\ UNCHANGED <<up, docs, req, plans, missed>>
  BY DEF FullInv, IInv, TypeOK, Dealt, GetRates
<1>2. /\ \/ pc'[r] = "replied"
         \/ pc'[r] = "get" /\ i'[r] = 1
      /\ \A q \in Requests \ {r} : pc'[q] = pc[q] /\ i'[q] = i[q]
  BY <1>1 DEF GetRates
<1>3. Placed(<<>>, req[r], 0, docs, {})
  BY PlacedNone
<1>4. 1 - 1 = 0 /\ {} \subseteq 1..0
  OBVIOUS
<1> QED
  BY <1>1, <1>2, <1>3, <1>4 DEF FullInv, Dealt, Running

\* The steps that end every handler.
LEMMA RestartDealt == ASSUME FullInv, Boot \/ Crash PROVE Dealt'
<1>1. CASE Boot
  <2>1. \A q \in Requests : pc[q] \notin Running
    BY <1>1 DEF FullInv, IInv, Handlers, Boot
  <2>2. UNCHANGED <<pc, plans, missed>> /\ docs' \in [Ids -> 0..MaxCopies]
    BY <1>1 DEF Boot, locals
  <2> QED
    BY <2>1, <2>2 DEF FullInv, Dealt
<1>2. CASE Crash
  <2>1. \A q \in Requests : pc'[q] \notin Running /\ (pc'[q] = "new" => pc[q] = "new")
    BY <1>2 DEF Crash, Running, FullInv, IInv, TypeOK
  <2>2. UNCHANGED <<docs, plans, missed>>
    BY <1>2 DEF Crash, locals
  <2> QED
    BY <2>1, <2>2 DEF FullInv, Dealt
<1> QED
  BY <1>1, <1>2

LEMMA NextFull == FullInv /\ [Next]_vars => FullInv'
<1> SUFFICES ASSUME FullInv, [Next]_vars PROVE Dealt'
  BY NextStep DEF FullInv
<1>1. CASE Evict \/ UNCHANGED vars
  BY <1>1 DEF FullInv, Dealt, Evict, vars, locals
<1>2. ASSUME NEW r \in Requests, Handle(r) PROVE Dealt'
  <2>1. CASE Hit(r) \/ Fill(r)
    BY <2>1, HitFinds, ContinueDealt
  <2>2. CASE Find(r)
    BY <2>2, FindFinds, ContinueDealt, MoveDealt
  <2>3. CASE Miss(r)
    BY <2>3, MoveDealt DEF Miss, Running, locals
  <2>4. CASE GetFails(r) \/ FindFails(r)
    BY <2>4, RestartDealt DEF GetFails, FindFails
  <2> QED
    BY <1>2, <2>1, <2>2, <2>3, <2>4, GetRatesDealt DEF Handle
<1> QED
  BY <1>1, <1>2, RestartDealt DEF Next

-----------------------------------------------------------------------------

\* What is answered at once is what Lookup may answer.
LEMMA AnswerStep ==
  ASSUME FullInv, FullInv', NEW r \in Requests,
         pc[r] \in Running \/ (pc[r] = "new" /\ req[r] = <<>>),
         pc' = [pc EXCEPT ![r] = "replied"], UNCHANGED <<docs, req>>,
         \A q \in Requests \ {r} : plans'[q] = plans[q] /\ missed'[q] = missed[q],
         missed'[r] \subseteq DOMAIN req[r], HighestFirst(plans'[r]),
         Placed(plans'[r], req[r], Len(req[r]), docs, missed'[r])
  PROVE  AsIfUncached!Answer(r)
<1>1. /\ req[r] \in Seq(Ids) /\ DOMAIN req[r] = 1..Len(req[r])
      /\ pc \in [Requests -> {"new", "replied", "lost"} \cup Running]
      /\ plans'[r] \in Seq(Ids)
  BY ConstantsAssumption DEF FullInv, IInv, TypeOK
<1>2. /\ Answers'[r] = plans'[r] /\ Failed'[r] = missed'[r]
      /\ Status[r] \in {"open", "new"} /\ (Status[r] = "new" => req[r] = <<>>)
  BY <1>1 DEF Answers, Failed, Status, Running
<1>3. /\ Status' = [Status EXCEPT ![r] = "replied"]
      /\ Answers' = [Answers EXCEPT ![r] = Answers'[r]]
      /\ Failed' = [Failed EXCEPT ![r] = Failed'[r]]
  <2>1. pc'[r] = "replied" /\ \A q \in Requests \ {r} : pc'[q] = pc[q]
    BY <1>1
  <2>2. /\ Status'[r] = "replied" /\ \A q \in Requests \ {r} : Status'[q] = Status[q]
        /\ Status \in [Requests -> {"new", "replied", "lost", "open"}]
        /\ DOMAIN Status' = Requests /\ DOMAIN Status = Requests
    BY <1>1, <2>1 DEF Status, Running
  <2>3. \A q \in Requests \ {r} : Answers'[q] = Answers[q] /\ Failed'[q] = Failed[q]
    BY <2>1 DEF Answers, Failed
  <2>4. /\ Answers' = [q \in Requests |-> Answers'[q]] /\ DOMAIN Answers = Requests
        /\ Failed' = [q \in Requests |-> Failed'[q]] /\ DOMAIN Failed = Requests
        /\ Status' = [q \in Requests |-> Status'[q]]
    BY DEF Answers, Failed, Status
  <2> QED
    BY <2>2, <2>3, <2>4
<1>4. PICK place \in [DOMAIN plans'[r] -> 1..Len(req[r])] :
        /\ \A j \in DOMAIN plans'[r] : plans'[r][j] = req[r][place[j]]
        /\ \A k \in 1..Len(req[r]) :
             /\ Cardinality({j \in DOMAIN plans'[r] : place[j] = k}) <= docs[req[r][k]]
             /\ docs[req[r][k]] > 0 /\ k \notin missed'[r] =>
                  \E j \in DOMAIN plans'[r] : place[j] = k
  BY DEF Placed
<1>5. /\ place \in [DOMAIN Answers'[r] -> DOMAIN req[r]]
      /\ \A j \in DOMAIN place : Answers'[r][j] = req[r][place[j]]
      /\ DOMAIN place = DOMAIN plans'[r]
  BY <1>1, <1>2, <1>4
<1>6. ASSUME NEW k \in DOMAIN req[r]
      PROVE  LET found == {j \in DOMAIN place : place[j] = k} IN
             /\ Cardinality(found) <= docs[req[r][k]]
             /\ docs[req[r][k]] > 0 /\ k \notin Failed'[r] => found # {}
  <2> DEFINE found == {j \in DOMAIN place : place[j] = k}
  <2>1. found = {j \in DOMAIN plans'[r] : place[j] = k} /\ k \in 1..Len(req[r])
    BY <1>1, <1>5
  <2>2. Cardinality(found) <= docs[req[r][k]]
    BY <1>4, <2>1
  <2>3. docs[req[r][k]] > 0 /\ k \notin Failed'[r] => found # {}
    BY <1>2, <1>4, <2>1
  <2> QED
    BY <2>2, <2>3
<1>7. AsIfUncached!Descending(Answers'[r])
  BY <1>2 DEF AsIfUncached!Descending, HighestFirst
<1>8. Failed'[r] \subseteq DOMAIN req[r] /\ Answers'[r] \in Seq(Ids)
  BY <1>1, <1>2
<1>9. \A S : AsIfUncached!Cardinality(S) = Cardinality(S)
  BY Zenon DEF AsIfUncached!Cardinality, Cardinality
<1>10. \E p \in [DOMAIN Answers'[r] -> DOMAIN req[r]] :
         /\ \A j \in DOMAIN p : Answers'[r][j] = req[r][p[j]]
         /\ \A k \in DOMAIN req[r] :
              LET found == {j \in DOMAIN p : p[j] = k} IN
              /\ AsIfUncached!Cardinality(found) <= docs[req[r][k]]
              /\ docs[req[r][k]] > 0 /\ k \notin Failed'[r] => found # {}
         /\ AsIfUncached!Descending(Answers'[r])
  BY <1>5, <1>6, <1>7, <1>9
<1> QED
  BY <1>2, <1>3, <1>8, <1>10 DEF AsIfUncached!Answer

\* A step that clients see nothing of.
LEMMA UnseenStep ==
  ASSUME FullInv, UNCHANGED <<docs, req>>, NEW r \in Requests,
         pc[r] \in Running, pc'[r] \in Running,
         \A q \in Requests \ {r} :
           pc'[q] = pc[q] /\ plans'[q] = plans[q] /\ missed'[q] = missed[q]
  PROVE  UNCHANGED AsIfUncached!vars
<1>1. \A q \in Requests : /\ Status'[q] = Status[q] /\ Answers'[q] = Answers[q]
                          /\ Failed'[q] = Failed[q]
  BY DEF Status, Answers, Failed, Running
<1>2. Status' = Status /\ Answers' = Answers /\ Failed' = Failed
  <2>1. /\ Status = [q \in Requests |-> Status[q]] /\ Status' = [q \in Requests |-> Status'[q]]
        /\ Answers = [q \in Requests |-> Answers[q]] /\ Answers' = [q \in Requests |-> Answers'[q]]
        /\ Failed = [q \in Requests |-> Failed[q]] /\ Failed' = [q \in Requests |-> Failed'[q]]
    BY DEF Status, Answers, Failed
  <2> QED
    BY <1>1, <2>1
<1> QED
  BY <1>2 DEF AsIfUncached!vars

LEMMA ContinueLooks ==
  ASSUME FullInv, FullInv', NEW r \in Requests, pc[r] \in Running, NEW n,
         Continue(r, n), FindsSome(r, n), UNCHANGED <<up, docs, req>>
  PROVE  AsIfUncached!Answer(r) \/ UNCHANGED AsIfUncached!vars
<1>1. /\ missed'[r] \subseteq 1..i[r]
      /\ Placed(plans'[r], req[r], i[r], docs, missed'[r])
      /\ \A p \in Requests \ {r} : plans'[p] = plans[p] /\ missed'[p] = missed[p]
      /\ i[r] < Len(req[r]) \/ HighestFirst(plans'[r])
  BY ContinueFinds
<1>2. /\ pc \in [Requests -> {"new", "replied", "lost"} \cup Running]
      /\ i[r] \in 1..Len(req[r]) /\ req[r] \in Seq(Ids) /\ Len(req[r]) \in Nat
  BY HotelType, ConstantsAssumption DEF FullInv, IInv, TypeOK
<1>3. CASE i[r] < Len(req[r])
  BY <1>1, <1>2, <1>3, UnseenStep DEF Continue, Running
<1>4. CASE ~(i[r] < Len(req[r]))
  <2>1. i[r] = Len(req[r]) /\ pc' = [pc EXCEPT ![r] = "replied"]
    BY <1>2, <1>4 DEF Continue
  <2>2. /\ missed'[r] \subseteq DOMAIN req[r]
        /\ Placed(plans'[r], req[r], Len(req[r]), docs, missed'[r])
    BY <1>1, <1>2, <2>1
  <2> QED
    BY <1>1, <1>4, <2>1, <2>2, AnswerStep
<1> QED
  BY <1>3, <1>4

LEMMA InitLooks == Init => AsIfUncached!Init
<1> SUFFICES ASSUME Init PROVE AsIfUncached!Init
  OBVIOUS
<1>1. /\ Status = [r \in Requests |-> "new"]
      /\ Answers = [r \in Requests |-> <<>>] /\ Failed = [r \in Requests |-> {}]
  BY DEF Init, Status, Answers, Failed, Running
<1> QED
  BY <1>1 DEF Init, AsIfUncached!Init

LEMMA RestartLooks == ASSUME FullInv, Boot \/ Crash PROVE AsIfUncached!Restart
<1>1. docs \in [Ids -> 0..MaxCopies] /\ MaxCopies \in Nat
  BY ConstantsAssumption DEF FullInv, Dealt
<1>2. docs' \in [Ids -> 0..MaxCopies] /\ \A h \in Ids : docs'[h] >= docs[h]
  <2>1. CASE Boot
    <3>1. docs' \in [Ids -> 0..MaxCopies] /\ \A h \in Ids : docs[h] \in Nat
      BY <1>1, <2>1 DEF Boot
    <3>2. \A h \in Ids : docs'[h] = docs[h] \/ docs'[h] = docs[h] + 1
      BY <2>1, <3>1 DEF Boot
    <3> QED
      BY <3>1, <3>2
  <2>2. CASE Crash
    <3>1. docs' = docs /\ \A h \in Ids : docs[h] \in Nat
      BY <1>1, <2>2 DEF Crash
    <3> QED
      BY <1>1, <3>1
  <2> QED
    BY <2>1, <2>2
<1>3. \A q \in Requests : pc'[q] = IF pc[q] \in Running THEN "lost" ELSE pc[q]
  BY DEF Boot, Crash, FullInv, IInv, Handlers
<1>4. Status' = [q \in Requests |-> IF Status[q] = "open" THEN "lost" ELSE Status[q]]
  BY <1>3 DEF Status, Running, FullInv, IInv, TypeOK
<1>5. Answers' = Answers /\ Failed' = Failed
  <2>1. \A q \in Requests : (pc'[q] = "replied") <=> (pc[q] = "replied")
    BY <1>3 DEF Running
  <2>2. plans' = plans /\ missed' = missed
    BY DEF Boot, Crash, locals
  <2> QED
    BY <2>1, <2>2 DEF Answers, Failed
<1>6. req' = req
  BY DEF Boot, Crash
<1> QED
  BY <1>2, <1>4, <1>5, <1>6 DEF AsIfUncached!Restart

\* Every step is one of Lookup's, or nothing that a client could see.
LEMMA NextLooks ==
  ASSUME FullInv, FullInv', [Next]_vars
  PROVE  [AsIfUncached!Next]_AsIfUncached!vars
<1>1. CASE Boot \/ Crash
  BY <1>1, RestartLooks DEF AsIfUncached!Next
<1>2. CASE Evict \/ UNCHANGED vars
  <2>1. UNCHANGED <<docs, req, pc, plans, missed>>
    BY <1>2 DEF Evict, vars, locals
  <2>2. UNCHANGED AsIfUncached!vars
    BY <2>1 DEF AsIfUncached!vars, Status, Answers, Failed
  <2> QED
    BY <2>2
<1>3. ASSUME NEW r \in Requests, Handle(r)
      PROVE  \/ AsIfUncached!Open(r) \/ AsIfUncached!Answer(r) \/ AsIfUncached!Restart
             \/ UNCHANGED AsIfUncached!vars
  <2>0. pc \in [Requests -> {"new", "replied", "lost"} \cup Running]
    BY DEF FullInv, IInv, TypeOK
  <2>1. CASE Hit(r) \/ Fill(r)
    BY <2>1, HitFinds, ContinueLooks
  <2>2. CASE Find(r)
    <3>1. CASE pc' = [pc EXCEPT ![r] = "fill"] /\ UNCHANGED <<i, plans, missed>>
      BY <2>0, <2>2, <3>1, FindFinds, UnseenStep DEF Running
    <3>2. CASE Continue(r, 0) /\ FindsSome(r, 0)
      BY <2>2, <3>2, FindFinds, ContinueLooks
    <3> QED
      BY <2>2, <3>1, <3>2, FindFinds
  <2>3. CASE Miss(r)
    BY <2>0, <2>3, UnseenStep DEF Miss, Running, locals
  <2>4. CASE GetFails(r) \/ FindFails(r)
    BY <2>4, RestartLooks DEF GetFails, FindFails
  <2>5. CASE GetRates(r)
    <3>1. /\ pc[r] = "new" /\ UNCHANGED <<docs, req, plans, missed>>
          /\ plans[r] = <<>> /\ missed[r] = {}
      BY <2>5 DEF GetRates, FullInv, Dealt
    <3>2. CASE req[r] = <<>>
      <4>1. /\ pc' = [pc EXCEPT ![r] = "replied"] /\ Len(req[r]) = 0 /\ missed'[r] = {}
            /\ HighestFirst(plans'[r])
        BY <2>5, <3>1, <3>2 DEF GetRates, HighestFirst
      <4>2. Placed(plans'[r], req[r], Len(req[r]), docs, missed'[r])
        BY <3>1, <4>1, PlacedNone
      <4> QED
        BY <3>1, <3>2, <4>1, <4>2, AnswerStep
    <3>3. CASE req[r] # <<>>
      <4>1. pc' = [pc EXCEPT ![r] = "get"]
        BY <2>5, <3>3 DEF GetRates
      <4>2. Status[r] = "new" /\ Status' = [Status EXCEPT ![r] = "open"]
        BY <2>0, <3>1, <4>1 DEF Status, Running
      <4>3. Answers' = Answers /\ Failed' = Failed
        BY <2>0, <3>1, <4>1 DEF Answers, Failed
      <4> QED
        BY <3>1, <4>2, <4>3 DEF AsIfUncached!Open
    <3> QED
      BY <3>2, <3>3
  <2> QED
    BY <1>3, <2>1, <2>2, <2>3, <2>4, <2>5 DEF Handle
<1> QED
  BY <1>1, <1>2, <1>3 DEF Next, AsIfUncached!Next

\* The cache cannot be told from the answers: the service implements the one
\* without a cache, with any number of calls, failures, evictions and restarts,
\* whatever the order that sort.Sort leaves equal rates in.
THEOREM ImplementsLookup == Spec => LooksUncached
<1>1. Init => FullInv
  BY InitFull
<1>2. FullInv /\ FullInv' /\ [Next]_vars => [AsIfUncached!Next]_AsIfUncached!vars
  BY NextLooks
<1>3. Spec => []FullInv
  BY <1>1, NextFull, PTL DEF Spec
<1> QED
  BY <1>2, <1>3, InitLooks, PTL DEF Spec, LooksUncached, AsIfUncached!Spec
=============================================================================
