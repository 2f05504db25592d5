------------------------- MODULE ProfileCacheProofs -------------------------
(***************************************************************************)
(* For any hotels, lists and number of requests: what the profile service  *)
(* answers and caches is in its collection.                                *)
(*                                                                         *)
(* A handler that has found its document fills the cache two steps later;  *)
(* the invariant says that the document is still there.  What a handler    *)
(* has dealt with is at each moment what the collection has for the places *)
(* before the one it is at, so that the service implements Lookup, which   *)
(* reads everything when it answers.                                       *)
(***************************************************************************)
EXTENDS ProfileCache, TLAPS, FiniteSetTheorems

FoundIsStored == \A r \in Requests : pc[r] = "fill" => Id(r) \in stored

IInv == TypeOK /\ NothingInvented /\ FoundIsStored

\* The id a running handler is at is one of the list's.
LEMMA IdType ==
  ASSUME TypeOK, NEW r \in Requests, pc[r] \in Running
  PROVE  /\ Id(r) \in Ids
         /\ req[r] \in Seq(Ids) /\ i[r] \in 1..Len(req[r])
<1>1. req[r] \in Seq(Ids) /\ i[r] \in Nat
  BY ConstantsAssumption DEF TypeOK
<1>2. i[r] \in 1..Len(req[r])
  BY <1>1 DEF TypeOK
<1> QED BY <1>1, <1>2 DEF Id

LEMMA InitIInv == Init => IInv
<1> SUFFICES ASSUME Init PROVE IInv
  OBVIOUS
<1>1. TypeOK
  <2>1. ASSUME NEW r \in Requests PROVE i[r] <= Len(req[r]) /\ pc[r] \notin Running
    <3>1. req[r] \in Seq(Ids) /\ i[r] = 0 /\ pc[r] = "new"
      BY ConstantsAssumption DEF Init
    <3> QED BY <3>1 DEF Running
  <2>2. /\ hotels \in [Requests -> Seq(Ids)] /\ i \in [Requests -> Nat]
        /\ missed \in [Requests -> SUBSET Nat]
    BY DEF Init
  <2>3. /\ up \in BOOLEAN /\ stored \subseteq Ids /\ cached \subseteq Ids
        /\ req \in [Requests -> Calls]
        /\ pc \in [Requests -> {"new", "replied", "lost"} \cup Running]
    BY DEF Init
  <2> QED BY <2>1, <2>2, <2>3 DEF TypeOK
<1>2. NothingInvented /\ FoundIsStored
  BY DEF Init, NothingInvented, FoundIsStored
<1> QED BY <1>1, <1>2 DEF IInv

\* A step of the loop, with the profiles it found.
LEMMA ContinueStep ==
  ASSUME IInv, NEW r \in Requests, pc[r] \in Running, NEW found \in Seq(stored),
         Continue(r, found), UNCHANGED <<up, stored, req>>,
         cached' \subseteq stored, missed' \in [Requests -> SUBSET Nat]
  PROVE  IInv'
<1>1. /\ req[r] \in Seq(Ids) /\ i[r] \in 1..Len(req[r]) /\ Len(req[r]) \in Nat
      /\ Id(r) \in Ids
  BY IdType DEF IInv
<1>2. hotels[r] \in Seq(Ids) /\ stored \subseteq Ids /\ found \in Seq(Ids)
  BY DEF IInv, TypeOK
<1>3. hotels' = [hotels EXCEPT ![r] = hotels[r] \o found] /\ hotels \in [Requests -> Seq(Ids)]
  BY DEF Continue, IInv, TypeOK
<1>4. hotels[r] \o found \in Seq(Ids)
  BY <1>2
<1>5. \A k \in DOMAIN (hotels[r] \o found) : (hotels[r] \o found)[k] \in stored
  <2>1. hotels[r] \in Seq(stored)
    BY <1>2 DEF IInv, NothingInvented
  <2> QED BY <2>1
<1>6. /\ pc' \in [Requests -> {"new", "replied", "lost"} \cup Running]
      /\ pc'[r] \in {"get", "replied"} /\ i' \in [Requests -> Nat]
      /\ \A q \in Requests : q # r => pc'[q] = pc[q] /\ i'[q] = i[q]
      /\ i'[r] \in 1..Len(req[r])
  <2>1. /\ pc \in [Requests -> {"new", "replied", "lost"} \cup Running]
        /\ i \in [Requests -> Nat]
    BY DEF IInv, TypeOK
  <2>2. CASE /\ i[r] < Len(req[r]) /\ pc' = [pc EXCEPT ![r] = "get"]
             /\ i' = [i EXCEPT ![r] = @ + 1]
    BY <1>1, <2>1, <2>2 DEF Running
  <2>3. CASE pc' = [pc EXCEPT ![r] = "replied"] /\ i' = i
    BY <1>1, <2>1, <2>3
  <2> QED BY <2>2, <2>3 DEF Continue
<1>7. TypeOK'
  <2>1. hotels' \in [Requests -> Seq(Ids)]
    BY <1>3, <1>4
  <2>2. \A q \in Requests : i'[q] <= Len(req'[q]) /\ (pc'[q] \in Running => i'[q] > 0)
    <3> SUFFICES ASSUME NEW q \in Requests
                 PROVE  i'[q] <= Len(req[q]) /\ (pc'[q] \in Running => i'[q] > 0)
      OBVIOUS
    <3>1. CASE q = r
      BY <1>1, <1>6, <3>1
    <3>2. CASE q # r
      BY <1>6, <3>2 DEF IInv, TypeOK
    <3> QED BY <3>1, <3>2
  <2> QED BY <1>2, <1>6, <2>1, <2>2 DEF IInv, TypeOK
<1>8. NothingInvented'
  BY <1>3, <1>5 DEF IInv, NothingInvented
<1>9. FoundIsStored'
  BY <1>6 DEF IInv, FoundIsStored, Id
<1> QED BY <1>7, <1>8, <1>9 DEF IInv

LEMMA BootStep == ASSUME IInv, Boot PROVE IInv'
<1>1. stored' \subseteq Ids /\ stored \subseteq stored'
  BY DEF IInv, TypeOK, Boot
<1>2. TypeOK'
  BY <1>1 DEF IInv, TypeOK, Boot
<1>3. NothingInvented' /\ FoundIsStored'
  BY <1>1 DEF IInv, NothingInvented, FoundIsStored, Boot, Id
<1> QED BY <1>2, <1>3 DEF IInv

LEMMA KillStep == ASSUME IInv, Kill PROVE IInv'
<1>1. \A q \in Requests : pc'[q] \notin Running
  BY DEF IInv, TypeOK, Kill, Running
<1>2. TypeOK'
  BY <1>1 DEF IInv, TypeOK, Kill
<1>3. NothingInvented' /\ FoundIsStored'
  BY <1>1 DEF IInv, NothingInvented, FoundIsStored, Kill, Running
<1> QED BY <1>2, <1>3 DEF IInv

LEMMA GetProfilesStep == ASSUME IInv, NEW r \in Requests, GetProfiles(r) PROVE IInv'
<1>1. req[r] \in Seq(Ids) /\ Len(req[r]) \in Nat /\ (req[r] # <<>> => Len(req[r]) > 0)
  BY ConstantsAssumption DEF IInv, TypeOK
<1>2. /\ i'[r] \in {i[r], 1} /\ pc'[r] \in {"replied", "get"}
      /\ pc'[r] = "get" => i'[r] = 1 /\ req[r] # <<>>
      /\ pc'[r] # "get" => i'[r] = i[r]
      /\ \A q \in Requests : q # r => pc'[q] = pc[q] /\ i'[q] = i[q]
      /\ pc' \in [Requests -> {"new", "replied", "lost"} \cup Running]
      /\ i' \in [Requests -> Nat]
  <2>1. /\ pc \in [Requests -> {"new", "replied", "lost"} \cup Running]
        /\ i \in [Requests -> Nat]
    BY DEF IInv, TypeOK
  <2>2. CASE req[r] = <<>> /\ pc' = [pc EXCEPT ![r] = "replied"] /\ i' = i
    BY <2>1, <2>2
  <2>3. CASE /\ req[r] # <<>> /\ pc' = [pc EXCEPT ![r] = "get"]
             /\ i' = [i EXCEPT ![r] = 1]
    BY <2>1, <2>3 DEF Running
  <2> QED BY <2>2, <2>3 DEF GetProfiles
<1>3. \A q \in Requests : i'[q] <= Len(req[q]) /\ (pc'[q] \in Running => i'[q] > 0)
  BY <1>1, <1>2 DEF IInv, TypeOK, Running
<1>4. TypeOK'
  BY <1>2, <1>3 DEF IInv, TypeOK, GetProfiles
<1>5. NothingInvented' /\ FoundIsStored'
  BY <1>2 DEF IInv, NothingInvented, FoundIsStored, GetProfiles, Id
<1> QED BY <1>4, <1>5 DEF IInv

\* A handler that only moves on to its next call.
LEMMA GotoStep ==
  ASSUME IInv, NEW r \in Requests, pc[r] \in Running, NEW p \in {"find", "fill"},
         pc' = [pc EXCEPT ![r] = p], p = "fill" => Id(r) \in stored,
         UNCHANGED <<up, stored, cached, req, i, hotels, missed>>
  PROVE  IInv'
<1>1. TypeOK'
  BY DEF IInv, TypeOK, Running
<1>2. NothingInvented'
  BY DEF IInv, NothingInvented
<1>3. FoundIsStored'
  BY DEF IInv, TypeOK, FoundIsStored, Id
<1> QED BY <1>1, <1>2, <1>3 DEF IInv

LEMMA HandleStep == ASSUME IInv, NEW r \in Requests, Handle(r) PROVE IInv'
<1>0. cached \subseteq stored /\ missed \in [Requests -> SUBSET Nat]
  BY DEF IInv, TypeOK, NothingInvented
<1>1. CASE GetProfiles(r)
  BY <1>1, GetProfilesStep
<1>2. CASE Hit(r)
  <2>1. pc[r] \in Running /\ <<Id(r)>> \in Seq(stored)
    BY <1>0, <1>2 DEF Hit, Running
  <2> QED BY <1>0, <1>2, <2>1, ContinueStep DEF Hit
<1>3. CASE Miss(r)
  BY <1>3, GotoStep DEF Miss, Running
<1>4. CASE Find(r)
  <2>1. pc[r] \in Running /\ <<>> \in Seq(stored)
    BY <1>4 DEF Find, Running
  <2>2. CASE Id(r) \in stored /\ pc' = [pc EXCEPT ![r] = "fill"] /\ UNCHANGED <<i, hotels, missed>>
    BY <1>4, <2>1, <2>2, GotoStep DEF Find
  <2>3. CASE Continue(r, <<>>) /\ missed' \in [Requests -> SUBSET Nat]
    BY <1>0, <1>4, <2>1, <2>3, ContinueStep DEF Find
  <2>4. missed' \in [Requests -> SUBSET Nat]
    <3>1. i[r] \in Nat
      BY DEF IInv, TypeOK
    <3> QED BY <1>0, <1>4, <3>1 DEF Find
  <2> QED BY <1>4, <2>2, <2>3, <2>4 DEF Find
<1>5. CASE Fill(r)
  <2>1. pc[r] \in Running /\ Id(r) \in stored
    BY <1>5 DEF Fill, Running, IInv, FoundIsStored
  <2>2. <<Id(r)>> \in Seq(stored) /\ cached' \subseteq stored
    BY <1>0, <1>5, <2>1 DEF Fill
  <2> QED BY <1>0, <1>5, <2>1, <2>2, ContinueStep DEF Fill
<1> QED BY <1>1, <1>2, <1>3, <1>4, <1>5 DEF Handle

LEMMA NextStep == IInv /\ [Next]_vars => IInv'
<1> SUFFICES ASSUME IInv, [Next]_vars PROVE IInv'
  OBVIOUS
<1>1. CASE Evict
  BY <1>1 DEF IInv, TypeOK, NothingInvented, FoundIsStored, Evict, Id
<1>2. CASE UNCHANGED vars
  BY <1>2 DEF IInv, TypeOK, NothingInvented, FoundIsStored, vars, Id
<1> QED BY <1>1, <1>2, BootStep, KillStep, HandleStep DEF Next

-----------------------------------------------------------------------------

\* The state of the service and of its handlers has its type.
THEOREM TypeCorrect == Spec => []TypeOK
BY InitIInv, NextStep, PTL DEF Spec, IInv

\* Whatever fails, is evicted or restarted, nobody is shown a hotel that the
\* collection does not have.
THEOREM ShowsWhatIsStored == Spec => []NothingInvented
BY InitIInv, NextStep, PTL DEF Spec, IInv

-----------------------------------------------------------------------------
(* Implementing Lookup *)

\* The profiles s are those of the first n places of the list, in its order, of
\* the hotels in S but for the places in m.
Found(s, list, n, S, m) ==
  \E place \in [DOMAIN s -> 1..n] :
    /\ \A j, l \in DOMAIN s : j < l => place[j] < place[l]
    /\ \A j \in DOMAIN s : s[j] = list[place[j]] /\ s[j] \in S
    /\ \A k \in 1..n : list[k] \in S /\ k \notin m => \E j \in DOMAIN s : place[j] = k

\* A running handler has dealt with the places before the one it is at.
Dealt ==
  \A r \in Requests :
    /\ pc[r] = "new" => hotels[r] = <<>> /\ missed[r] = {}
    /\ pc[r] \in Running =>
         /\ up /\ missed[r] \subseteq 1..(i[r] - 1)
         /\ Found(hotels[r], req[r], i[r] - 1, stored, missed[r])

FullInv == IInv /\ Dealt

LEMMA FoundNone == ASSUME NEW list, NEW S, NEW m PROVE Found(<<>>, list, 0, S, m)
<1> DEFINE place == [j \in {} |-> 0]
<1>1. DOMAIN <<>> = {} /\ 1..0 = {}
  OBVIOUS
<1>2. place \in [DOMAIN <<>> -> 1..0]
  BY <1>1
<1> QED
  BY <1>1, <1>2 DEF Found

\* The next place, with its profile or without.
LEMMA FoundMore ==
  ASSUME NEW s \in Seq(Ids), NEW list \in Seq(Ids), NEW n \in Nat, NEW S, NEW m, NEW M,
         Found(s, list, n, S, m), m \subseteq M,
         NEW found,
         \/ found = <<list[n + 1]>> /\ list[n + 1] \in S
         \/ found = <<>> /\ (list[n + 1] \notin S \/ n + 1 \in M)
  PROVE  Found(s \o found, list, n + 1, S, M)
<1>1. PICK place \in [DOMAIN s -> 1..n] :
        /\ \A j, l \in DOMAIN s : j < l => place[j] < place[l]
        /\ \A j \in DOMAIN s : s[j] = list[place[j]] /\ s[j] \in S
        /\ \A k \in 1..n : list[k] \in S /\ k \notin m => \E j \in DOMAIN s : place[j] = k
  BY DEF Found
<1>2. DOMAIN s = 1..Len(s) /\ Len(s) \in Nat
  OBVIOUS
<1>3. \A j \in DOMAIN s : place[j] \in 1..n
  OBVIOUS
<1>4. CASE found = <<>> /\ (list[n + 1] \notin S \/ n + 1 \in M)
  <2>1. s \o found = s
    BY <1>4
  <2>2. place \in [DOMAIN s -> 1..(n + 1)]
    BY <1>3
  <2>3. \A k \in 1..(n + 1) :
          list[k] \in S /\ k \notin M => \E j \in DOMAIN s : place[j] = k
    <3> SUFFICES ASSUME NEW k \in 1..(n + 1), list[k] \in S, k \notin M
                 PROVE  \E j \in DOMAIN s : place[j] = k
      OBVIOUS
    <3>1. k # n + 1
      BY <1>4
    <3>2. k \in 1..n /\ k \notin m
      BY <3>1
    <3> QED
      BY <1>1, <3>2
  <2>4. Found(s, list, n + 1, S, M)
    BY <1>1, <2>2, <2>3 DEF Found
  <2> QED
    BY <2>1, <2>4
<1>5. CASE found = <<list[n + 1]>> /\ list[n + 1] \in S
  <2> DEFINE t == s \o found
             N == Len(s) + 1
             next == [j \in 1..N |-> IF j = N THEN n + 1 ELSE place[j]]
  <2>1. /\ DOMAIN t = 1..N /\ N \in DOMAIN t /\ t[N] = list[n + 1]
        /\ \A j \in DOMAIN s : t[j] = s[j]
    BY <1>2, <1>5
  <2>2. \A j \in 1..N : j = N \/ j \in DOMAIN s
    BY <1>2
  <2>3. next \in [DOMAIN t -> 1..(n + 1)]
    BY <1>3, <2>1, <2>2
  <2>4. next[N] = n + 1 /\ \A j \in DOMAIN s : j \in 1..N /\ next[j] = place[j]
    BY <1>2, <2>1
  <2> HIDE DEF t, N, next
  <2>5. \A j, l \in DOMAIN t : j < l => next[j] < next[l]
    <3> SUFFICES ASSUME NEW j \in DOMAIN t, NEW l \in DOMAIN t, j < l
                 PROVE  next[j] < next[l]
      OBVIOUS
    <3>1. j \in DOMAIN s
      BY <2>1, <2>2
    <3>2. CASE l = N
      BY <1>3, <2>4, <3>1, <3>2
    <3>3. CASE l \in DOMAIN s
      BY <1>1, <2>4, <3>1, <3>3
    <3> QED
      BY <2>1, <2>2, <3>2, <3>3
  <2>6. \A j \in DOMAIN t : t[j] = list[next[j]] /\ t[j] \in S
    BY <1>1, <1>5, <2>1, <2>2, <2>4
  <2>7. \A k \in 1..(n + 1) :
          list[k] \in S /\ k \notin M => \E j \in DOMAIN t : next[j] = k
    <3> SUFFICES ASSUME NEW k \in 1..(n + 1), list[k] \in S, k \notin M
                 PROVE  \E j \in DOMAIN t : next[j] = k
      OBVIOUS
    <3>1. CASE k = n + 1
      BY <2>1, <2>4, <3>1
    <3>2. CASE k # n + 1
      <4>1. k \in 1..n /\ k \notin m
        BY <3>2
      <4> QED
        BY <1>1, <2>1, <2>4, <4>1
    <3> QED
      BY <3>1, <3>2
  <2> QED
    BY <2>3, <2>5, <2>6, <2>7 DEF Found, t
<1> QED
  BY <1>4, <1>5

LEMMA InitFull == Init => FullInv
BY InitIInv DEF Init, FullInv, Dealt, Running

\* A step of the loop finds the profile of its place, or none for a reason.
FindsOne(r, found) ==
  \/ /\ found = <<Id(r)>> /\ Id(r) \in stored /\ missed' = missed
  \/ /\ found = <<>>
     /\ \/ Id(r) \notin stored /\ missed' = missed
        \/ missed' = [missed EXCEPT ![r] = @ \cup {i[r]}]

LEMMA ContinueFinds ==
  ASSUME FullInv, NEW r \in Requests, pc[r] \in Running, NEW found,
         Continue(r, found), FindsOne(r, found)
  PROVE  /\ missed'[r] \subseteq 1..i[r] /\ \A q \in Requests \ {r} : missed'[q] = missed[q]
         /\ Found(hotels'[r], req[r], i[r], stored, missed'[r])
         /\ \A q \in Requests \ {r} : hotels'[q] = hotels[q]
<1>1. /\ req[r] \in Seq(Ids) /\ i[r] \in 1..Len(req[r]) /\ Len(req[r]) \in Nat
      /\ hotels \in [Requests -> Seq(Ids)] /\ missed \in [Requests -> SUBSET Nat]
  BY IdType DEF FullInv, IInv, TypeOK
<1>2. /\ missed[r] \subseteq 1..(i[r] - 1) /\ i[r] - 1 \in Nat
      /\ Found(hotels[r], req[r], i[r] - 1, stored, missed[r])
  BY <1>1 DEF FullInv, Dealt
<1>3. /\ missed'[r] \in {missed[r], missed[r] \cup {i[r]}}
      /\ \A q \in Requests \ {r} : missed'[q] = missed[q]
      /\ \/ found = <<Id(r)>> /\ Id(r) \in stored
         \/ found = <<>> /\ (Id(r) \notin stored \/ i[r] \in missed'[r])
  BY <1>1 DEF FindsOne
<1>4. /\ hotels'[r] = hotels[r] \o found
      /\ \A q \in Requests \ {r} : hotels'[q] = hotels[q]
  BY <1>1 DEF Continue
<1>5. missed'[r] \subseteq 1..i[r] /\ missed[r] \subseteq missed'[r]
  <2>1. 1..(i[r] - 1) \subseteq 1..i[r] /\ i[r] \in 1..i[r]
    BY <1>1
  <2> QED
    BY <1>2, <1>3, <2>1
<1>6. Found(hotels[r] \o found, req[r], i[r], stored, missed'[r])
  <2> DEFINE n == i[r] - 1
  <2>1. n \in Nat /\ n + 1 = i[r] /\ Id(r) = req[r][n + 1] /\ hotels[r] \in Seq(Ids)
    BY <1>1 DEF Id
  <2> HIDE DEF n
  <2>2. Found(hotels[r], req[r], n, stored, missed[r])
    BY <1>2 DEF n
  <2>3. Found(hotels[r] \o found, req[r], n + 1, stored, missed'[r])
    BY <1>1, <1>3, <1>5, <2>1, <2>2, FoundMore
  <2> QED
    BY <2>1, <2>3
<1> QED
  BY <1>3, <1>4, <1>5, <1>6

LEMMA ContinueDealt ==
  ASSUME FullInv, NEW r \in Requests, pc[r] \in Running, NEW found,
         Continue(r, found), FindsOne(r, found), UNCHANGED <<up, stored, req>>
  PROVE  Dealt'
<1> SUFFICES ASSUME NEW q \in Requests
             PROVE  /\ pc'[q] = "new" => hotels'[q] = <<>> /\ missed'[q] = {}
                    /\ pc'[q] \in Running =>
                         /\ up' /\ missed'[q] \subseteq 1..(i'[q] - 1)
                         /\ Found(hotels'[q], req'[q], i'[q] - 1, stored', missed'[q])
  BY DEF Dealt
<1>1. /\ missed'[r] \subseteq 1..i[r]
      /\ Found(hotels'[r], req[r], i[r], stored, missed'[r])
      /\ \A p \in Requests \ {r} : hotels'[p] = hotels[p] /\ missed'[p] = missed[p]
  BY ContinueFinds
<1>2. /\ pc \in [Requests -> {"new", "replied", "lost"} \cup Running]
      /\ i \in [Requests -> Nat]
  BY DEF FullInv, IInv, TypeOK
<1>3. /\ pc[q] = "new" => hotels[q] = <<>> /\ missed[q] = {}
      /\ pc[q] \in Running =>
           /\ up /\ missed[q] \subseteq 1..(i[q] - 1)
           /\ Found(hotels[q], req[q], i[q] - 1, stored, missed[q])
      /\ up
  BY DEF FullInv, Dealt
<1>4. CASE q # r
  <2>1. pc'[q] = pc[q] /\ i'[q] = i[q] /\ hotels'[q] = hotels[q] /\ missed'[q] = missed[q]
    BY <1>1, <1>2, <1>4 DEF Continue
  <2> QED
    BY <1>3, <2>1
<1>5. CASE q = r
  <2>1. CASE pc'[r] = "get" /\ i'[r] = i[r] + 1
    <3>1. i'[r] - 1 = i[r]
      BY <1>2, <2>1
    <3> QED
      BY <1>1, <1>3, <1>5, <2>1, <3>1
  <2>2. CASE pc'[r] = "replied"
    BY <1>5, <2>2 DEF Running
  <2> QED
    BY <1>2, <2>1, <2>2 DEF Continue
<1> QED
  BY <1>4, <1>5

\* The place Find is at, and what it did there.
LEMMA FindFinds ==
  ASSUME FullInv, NEW r \in Requests, Find(r)
  PROVE  /\ pc[r] \in Running /\ UNCHANGED <<up, stored, cached, req>>
         /\ \/ pc' = [pc EXCEPT ![r] = "fill"] /\ UNCHANGED <<i, hotels, missed>>
            \/ Continue(r, <<>>) /\ FindsOne(r, <<>>)
BY DEF Find, Running, FindsOne

LEMMA HitFinds ==
  ASSUME FullInv, NEW r \in Requests, Hit(r) \/ Fill(r)
  PROVE  /\ pc[r] \in Running /\ UNCHANGED <<up, stored, req>>
         /\ Continue(r, <<Id(r)>>) /\ FindsOne(r, <<Id(r)>>)
<1>1. Id(r) \in stored
  BY DEF FullInv, IInv, NothingInvented, FoundIsStored, Hit, Fill
<1> QED
  BY <1>1 DEF Hit, Fill, Running, FindsOne

\* A step of one handler that only changes where it is.
LEMMA MoveDealt ==
  ASSUME FullInv, NEW r \in Requests, pc[r] \in Running, NEW p \in {"find", "fill"},
         pc' = [pc EXCEPT ![r] = p], UNCHANGED <<up, stored, req, i, hotels, missed>>
  PROVE  Dealt'
BY DEF FullInv, IInv, TypeOK, Dealt, Running

LEMMA GetProfilesDealt ==
  ASSUME FullInv, NEW r \in Requests, GetProfiles(r)
  PROVE  Dealt'
<1>1. /\ pc \in [Requests -> {"new", "replied", "lost"} \cup Running]
      /\ i \in [Requests -> Nat]
      /\ up /\ pc[r] = "new" /\ hotels[r] = <<>> /\ missed[r] = {}
      /\ UNCHANGED <<up, stored, req, hotels, missed>>
  BY DEF FullInv, IInv, TypeOK, Dealt, GetProfiles
<1>2. /\ \/ pc'[r] = "replied"
         \/ pc'[r] = "get" /\ i'[r] = 1
      /\ \A q \in Requests \ {r} : pc'[q] = pc[q] /\ i'[q] = i[q]
  BY <1>1 DEF GetProfiles
<1>3. Found(<<>>, req[r], 0, stored, {})
  BY FoundNone
<1>4. 1 - 1 = 0 /\ {} \subseteq 1..0
  OBVIOUS
<1> QED
  BY <1>1, <1>2, <1>3, <1>4 DEF FullInv, Dealt, Running

LEMMA NextFull == FullInv /\ [Next]_vars => FullInv'
<1> SUFFICES ASSUME FullInv, [Next]_vars PROVE Dealt'
  BY NextStep DEF FullInv
<1>1. CASE Boot
  <2>1. \A q \in Requests : pc[q] \notin Running
    BY <1>1 DEF FullInv, Dealt, Boot
  <2> QED
    BY <1>1, <2>1 DEF FullInv, Dealt, Boot
<1>2. CASE Kill
  <2>1. \A q \in Requests : pc'[q] \notin Running /\ (pc'[q] = "new" => pc[q] = "new")
    BY <1>2 DEF Kill, Running, FullInv, IInv, TypeOK
  <2> QED
    BY <1>2, <2>1 DEF FullInv, Dealt, Kill
<1>3. CASE Evict \/ UNCHANGED vars
  BY <1>3 DEF FullInv, Dealt, Evict, vars
<1>4. ASSUME NEW r \in Requests, Handle(r) PROVE Dealt'
  <2>1. CASE Hit(r) \/ Fill(r)
    BY <2>1, HitFinds, ContinueDealt
  <2>2. CASE Find(r)
    BY <2>2, FindFinds, ContinueDealt, MoveDealt
  <2>3. CASE Miss(r)
    BY <2>3, MoveDealt DEF Miss, Running
  <2> QED
    BY <1>4, <2>1, <2>2, <2>3, GetProfilesDealt DEF Handle
<1> QED
  BY <1>1, <1>2, <1>3, <1>4 DEF Next

-----------------------------------------------------------------------------

\* What is answered at once is what Lookup may answer.
LEMMA AnswerStep ==
  ASSUME FullInv, FullInv', NEW r \in Requests,
         pc[r] \in Running \/ (pc[r] = "new" /\ req[r] = <<>>),
         pc' = [pc EXCEPT ![r] = "replied"], UNCHANGED <<stored, req>>,
         \A q \in Requests \ {r} : hotels'[q] = hotels[q] /\ missed'[q] = missed[q],
         missed'[r] \subseteq DOMAIN req[r],
         Found(hotels'[r], req[r], Len(req[r]), stored, missed'[r])
  PROVE  AsIfUncached!Answer(r)
<1>1. /\ req[r] \in Seq(Ids) /\ DOMAIN req[r] = 1..Len(req[r])
      /\ pc \in [Requests -> {"new", "replied", "lost"} \cup Running]
      /\ hotels'[r] \in Seq(Ids)
  BY ConstantsAssumption DEF FullInv, IInv, TypeOK
<1>2. /\ Answers'[r] = hotels'[r] /\ Failed'[r] = missed'[r]
      /\ Status[r] \in {"open", "new"} /\ (Status[r] = "new" => req[r] = <<>>)
  BY <1>1 DEF Answers, Failed, Status, Running
<1>3. /\ Status' = [Status EXCEPT ![r] = "replied"]
      /\ Answers' = [Answers EXCEPT ![r] = Answers'[r]]
      /\ Failed' = [Failed EXCEPT ![r] = Failed'[r]]
  <2>1. pc'[r] = "replied" /\ \A q \in Requests \ {r} : pc'[q] = pc[q]
    BY <1>1
  <2>2. /\ Status'[r] = "replied" /\ \A q \in Requests \ {r} : Status'[q] = Status[q]
        /\ Status \in [Requests -> {"new", "replied", "lost", "open"}]
        /\ DOMAIN Status' = Requests /\ DOMAIN Status = Requests
    BY <1>1, <2>1 DEF Status, Running
  <2>3. \A q \in Requests \ {r} : Answers'[q] = Answers[q] /\ Failed'[q] = Failed[q]
    BY <2>1 DEF Answers, Failed
  <2>4. /\ Answers' = [q \in Requests |-> Answers'[q]] /\ DOMAIN Answers = Requests
        /\ Failed' = [q \in Requests |-> Failed'[q]] /\ DOMAIN Failed = Requests
        /\ Status' = [q \in Requests |-> Status'[q]]
    BY DEF Answers, Failed, Status
  <2> QED
    BY <2>2, <2>3, <2>4
<1>4. Docs' = Docs
  BY DEF Docs
<1>5. PICK place \in [DOMAIN hotels'[r] -> 1..Len(req[r])] :
        /\ \A j, l \in DOMAIN hotels'[r] : j < l => place[j] < place[l]
        /\ \A j \in DOMAIN hotels'[r] :
             hotels'[r][j] = req[r][place[j]] /\ hotels'[r][j] \in stored
        /\ \A k \in 1..Len(req[r]) : req[r][k] \in stored /\ k \notin missed'[r] =>
             \E j \in DOMAIN hotels'[r] : place[j] = k
  BY DEF Found
<1>6. /\ place \in [DOMAIN Answers'[r] -> DOMAIN req[r]]
      /\ \A j \in DOMAIN place : Answers'[r][j] = req[r][place[j]]
      /\ DOMAIN place = DOMAIN hotels'[r]
  BY <1>1, <1>2, <1>5
<1>7. ASSUME NEW k \in DOMAIN req[r]
      PROVE  LET found == {j \in DOMAIN place : place[j] = k} IN
             /\ Cardinality(found) <= Docs[req[r][k]]
             /\ Docs[req[r][k]] > 0 /\ k \notin Failed'[r] => found # {}
  <2> DEFINE found == {j \in DOMAIN place : place[j] = k}
  <2>1. req[r][k] \in Ids /\ k \in 1..Len(req[r])
    BY <1>1
  <2>2. Docs[req[r][k]] = IF req[r][k] \in stored THEN 1 ELSE 0
    BY <2>1 DEF Docs
  <2>3. \A j \in found : req[r][k] \in stored
    BY <1>5, <1>6
  <2>4. \A j, l \in found : j = l
    <3> SUFFICES ASSUME NEW j \in found, NEW l \in found PROVE j = l
      OBVIOUS
    <3>1. j \in Nat /\ l \in Nat /\ place[j] = k /\ place[l] = k /\ k \in Nat
      BY <1>1, <1>6, <2>1
    <3>2. ~(j < l) /\ ~(l < j)
      BY <1>5, <1>6, <3>1
    <3> QED
      BY <3>1, <3>2
  <2>5. found = {} \/ \E j : found = {j}
    BY <2>4
  <2>6. Cardinality(found) <= Docs[req[r][k]]
    <3> HIDE DEF found
    <3>1. CASE found = {}
      BY <2>2, <3>1, FS_EmptySet
    <3>2. CASE found # {}
      <4>1. Cardinality(found) = 1
        BY <2>5, <3>2, FS_Singleton
      <4> QED
        BY <2>2, <2>3, <3>2, <4>1
    <3> QED
      BY <3>1, <3>2
  <2>7. Docs[req[r][k]] > 0 /\ k \notin Failed'[r] => found # {}
    BY <1>2, <1>5, <1>6, <2>1, <2>2
  <2> QED
    BY <2>6, <2>7
<1>8. \A j, l \in DOMAIN place : j < l => place[j] <= place[l]
  BY <1>5, <1>6
<1>9. Failed'[r] \subseteq DOMAIN req[r] /\ Answers'[r] \in Seq(Ids)
  BY <1>1, <1>2
<1>10. \E p \in [DOMAIN Answers'[r] -> DOMAIN req[r]] :
         /\ \A j \in DOMAIN p : Answers'[r][j] = req[r][p[j]]
         /\ \A k \in DOMAIN req[r] :
              LET found == {j \in DOMAIN p : p[j] = k} IN
              /\ Cardinality(found) <= Docs[req[r][k]]
              /\ Docs[req[r][k]] > 0 /\ k \notin Failed'[r] => found # {}
         /\ \A j, l \in DOMAIN p : j < l => p[j] <= p[l]
  BY <1>6, <1>7, <1>8
<1>11. \A S : AsIfUncached!Cardinality(S) = Cardinality(S)
  BY Zenon DEF AsIfUncached!Cardinality, Cardinality
<1> QED
  BY <1>2, <1>3, <1>4, <1>9, <1>10, <1>11 DEF AsIfUncached!Answer

\* A step that clients see nothing of.
LEMMA UnseenStep ==
  ASSUME FullInv, UNCHANGED <<stored, req>>, NEW r \in Requests,
         pc[r] \in Running, pc'[r] \in Running,
         \A q \in Requests \ {r} :
           pc'[q] = pc[q] /\ hotels'[q] = hotels[q] /\ missed'[q] = missed[q]
  PROVE  UNCHANGED AsIfUncached!vars
<1>1. \A q \in Requests : /\ Status'[q] = Status[q] /\ Answers'[q] = Answers[q]
                          /\ Failed'[q] = Failed[q]
  BY DEF Status, Answers, Failed, Running
<1>2. Status' = Status /\ Answers' = Answers /\ Failed' = Failed
  <2>1. /\ Status = [q \in Requests |-> Status[q]] /\ Status' = [q \in Requests |-> Status'[q]]
        /\ Answers = [q \in Requests |-> Answers[q]] /\ Answers' = [q \in Requests |-> Answers'[q]]
        /\ Failed = [q \in Requests |-> Failed[q]] /\ Failed' = [q \in Requests |-> Failed'[q]]
    BY DEF Status, Answers, Failed
  <2> QED
    BY <1>1, <2>1
<1> QED
  BY <1>2 DEF AsIfUncached!vars, Docs

LEMMA ContinueLooks ==
  ASSUME FullInv, FullInv', NEW r \in Requests, pc[r] \in Running, NEW found,
         Continue(r, found), FindsOne(r, found), UNCHANGED <<up, stored, req>>
  PROVE  AsIfUncached!Answer(r) \/ UNCHANGED AsIfUncached!vars
<1>1. /\ missed'[r] \subseteq 1..i[r]
      /\ Found(hotels'[r], req[r], i[r], stored, missed'[r])
      /\ \A p \in Requests \ {r} : hotels'[p] = hotels[p] /\ missed'[p] = missed[p]
  BY ContinueFinds
<1>2. /\ pc \in [Requests -> {"new", "replied", "lost"} \cup Running]
      /\ i[r] \in 1..Len(req[r]) /\ req[r] \in Seq(Ids) /\ Len(req[r]) \in Nat
  BY IdType DEF FullInv, IInv, TypeOK
<1>3. CASE i[r] < Len(req[r])
  BY <1>1, <1>2, <1>3, UnseenStep DEF Continue, Running
<1>4. CASE ~(i[r] < Len(req[r]))
  <2>1. i[r] = Len(req[r]) /\ pc' = [pc EXCEPT ![r] = "replied"]
    BY <1>2, <1>4 DEF Continue
  <2>2. /\ missed'[r] \subseteq DOMAIN req[r]
        /\ Found(hotels'[r], req[r], Len(req[r]), stored, missed'[r])
    BY <1>1, <1>2, <2>1
  <2> QED
    BY <1>1, <2>1, <2>2, AnswerStep
<1> QED
  BY <1>3, <1>4

LEMMA InitLooks == Init => AsIfUncached!Init
<1> SUFFICES ASSUME Init PROVE AsIfUncached!Init
  OBVIOUS
<1>1. /\ Docs = [id \in Ids |-> 0] /\ Status = [r \in Requests |-> "new"]
      /\ Answers = [r \in Requests |-> <<>>] /\ Failed = [r \in Requests |-> {}]
  BY DEF Init, Docs, Status, Answers, Failed, Running
<1> QED
  BY <1>1 DEF Init, AsIfUncached!Init

\* Every step is one of Lookup's, or nothing that a client could see.
LEMMA NextLooks ==
  ASSUME FullInv, FullInv', [Next]_vars
  PROVE  [AsIfUncached!Next]_AsIfUncached!vars
<1>1. CASE Boot \/ Kill
  <2>1. Docs' \in {d \in [Ids -> 0..1] : \A id \in Ids : d[id] >= Docs[id]}
    <3>1. stored \subseteq stored' /\ stored' \subseteq Ids
      BY <1>1 DEF Boot, Kill, FullInv, IInv, TypeOK
    <3> QED
      BY <3>1 DEF Docs
  <2>2. \A q \in Requests : pc'[q] = IF pc[q] \in Running THEN "lost" ELSE pc[q]
    BY <1>1 DEF Boot, Kill, FullInv, Dealt
  <2>3. Status' = [q \in Requests |-> IF Status[q] = "open" THEN "lost" ELSE Status[q]]
    BY <2>2 DEF Status, Running, FullInv, IInv, TypeOK
  <2>4. Answers' = Answers /\ Failed' = Failed
    <3>1. \A q \in Requests : (pc'[q] = "replied") <=> (pc[q] = "replied")
      BY <2>2 DEF Running
    <3>2. hotels' = hotels /\ missed' = missed
      BY <1>1 DEF Boot, Kill
    <3> QED
      BY <3>1, <3>2 DEF Answers, Failed
  <2>5. req' = req
    BY <1>1 DEF Boot, Kill
  <2>6. AsIfUncached!Restart
    BY <2>1, <2>3, <2>4, <2>5 DEF AsIfUncached!Restart
  <2> QED
    BY <2>6 DEF AsIfUncached!Next
<1>2. CASE Evict \/ UNCHANGED vars
  <2>1. UNCHANGED <<stored, req, pc, hotels, missed>>
    BY <1>2 DEF Evict, vars
  <2>2. UNCHANGED AsIfUncached!vars
    BY <2>1 DEF AsIfUncached!vars, Docs, Status, Answers, Failed
  <2> QED
    BY <2>2
<1>3. ASSUME NEW r \in Requests, Handle(r)
      PROVE  \/ AsIfUncached!Open(r) \/ AsIfUncached!Answer(r)
             \/ UNCHANGED AsIfUncached!vars
  <2>0. pc \in [Requests -> {"new", "replied", "lost"} \cup Running]
    BY DEF FullInv, IInv, TypeOK
  <2>1. CASE Hit(r) \/ Fill(r)
    BY <2>1, HitFinds, ContinueLooks
  <2>2. CASE Find(r)
    <3>1. CASE pc' = [pc EXCEPT ![r] = "fill"] /\ UNCHANGED <<i, hotels, missed>>
      BY <2>0, <2>2, <3>1, FindFinds, UnseenStep DEF Running
    <3>2. CASE Continue(r, <<>>) /\ FindsOne(r, <<>>)
      BY <2>2, <3>2, FindFinds, ContinueLooks
    <3> QED
      BY <2>2, <3>1, <3>2, FindFinds
  <2>3. CASE Miss(r)
    BY <2>0, <2>3, UnseenStep DEF Miss, Running
  <2>4. CASE GetProfiles(r)
    <3>1. /\ pc[r] = "new" /\ UNCHANGED <<stored, req, hotels, missed>>
          /\ hotels[r] = <<>> /\ missed[r] = {}
      BY <2>4 DEF GetProfiles, FullInv, Dealt
    <3>2. CASE req[r] = <<>>
      <4>1. pc' = [pc EXCEPT ![r] = "replied"] /\ Len(req[r]) = 0 /\ missed'[r] = {}
        BY <2>4, <3>1, <3>2 DEF GetProfiles
      <4>2. Found(hotels'[r], req[r], Len(req[r]), stored, missed'[r])
        BY <3>1, <4>1, FoundNone
      <4> QED
        BY <3>1, <3>2, <4>1, <4>2, AnswerStep
    <3>3. CASE req[r] # <<>>
      <4>1. pc' = [pc EXCEPT ![r] = "get"]
        BY <2>4, <3>3 DEF GetProfiles
      <4>2. Status[r] = "new" /\ Status' = [Status EXCEPT ![r] = "open"]
        BY <2>0, <3>1, <4>1 DEF Status, Running
      <4>3. Docs' = Docs /\ Answers' = Answers /\ Failed' = Failed
        BY <2>0, <3>1, <4>1 DEF Docs, Answers, Failed
      <4> QED
        BY <3>1, <4>2, <4>3 DEF AsIfUncached!Open
    <3> QED
      BY <3>2, <3>3
  <2> QED
    BY <1>3, <2>1, <2>2, <2>3, <2>4 DEF Handle
<1> QED
  BY <1>1, <1>2, <1>3 DEF Next, AsIfUncached!Next

\* The cache cannot be told from the answers: the service implements the one
\* without a cache, with any number of calls, failures, evictions and restarts.
THEOREM ImplementsLookup == Spec => LooksUncached
<1>1. Init => FullInv
  BY InitFull
<1>2. FullInv /\ FullInv' /\ [Next]_vars => [AsIfUncached!Next]_AsIfUncached!vars
  BY NextLooks
<1>3. Spec => []FullInv
  BY <1>1, NextFull, PTL DEF Spec
<1> QED
  BY <1>2, <1>3, InitLooks, PTL DEF Spec, LooksUncached, AsIfUncached!Spec
=============================================================================
