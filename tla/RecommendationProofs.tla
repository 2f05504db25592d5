------------------------ MODULE RecommendationProofs ------------------------
(***************************************************************************)
(* For any hotels, values and number of requests: the recommendation       *)
(* service answers with exactly the best hotels it has loaded.             *)
(*                                                                         *)
(* The invariant says of each pass what it knows half-way: the first, that *)
(* no hotel seen beats best and that best is the value of a loaded hotel   *)
(* or what the loop started from; the second, that the reply is the best   *)
(* hotels among those seen.                                                *)
(***************************************************************************)
EXTENDS Recommendation, TLAPS

Values == Int \cup {NaN}

\* What the first pass knows after the hotels in seen.
BestSoFar(r) ==
  /\ seen[r] \subseteq hotels
  /\ ~Better(query[r], Unbeaten(query[r]), best[r])
  /\ \A g \in seen[r] : ~Better(query[r], Value(query[r], g), best[r])
  /\ \/ best[r] = Unbeaten(query[r])
     \/ \E g \in hotels : Same(Value(query[r], g), best[r])

\* What the second pass starts with, and what it has collected.
BestFound(r) ==
  /\ ~Better(query[r], Unbeaten(query[r]), best[r])
  /\ \A g \in hotels : ~Better(query[r], Value(query[r], g), best[r])
  /\ \/ best[r] = Unbeaten(query[r])
     \/ \E g \in hotels : Same(Value(query[r], g), best[r])

Collected(r) ==
  /\ seen[r] \subseteq hotels
  /\ res[r] = {h \in seen[r] : Same(Value(query[r], h), best[r])}

Passes ==
  \A r \in Requests :
    /\ pc[r] = "new" => seen[r] = {} /\ res[r] = {}
    /\ pc[r] \in Running => up /\ query[r].require # "other"
    /\ pc[r] = "best" => BestSoFar(r) /\ res[r] = {}
    /\ pc[r] = "collect" => BestFound(r) /\ Collected(r)

IInv == TypeOK /\ Passes

-----------------------------------------------------------------------------

\* The value of a hotel is a number or NaN, whatever the criterion.
LEMMA ValueType ==
  ASSUME NEW q \in Query, NEW h \in Ids
  PROVE  /\ Value(q, h) \in Values
         /\ Value(q, h) \in Int => Value(q, h) <= MaxFloat
         /\ q.require = "rate" => Value(q, h) = Rate[h] /\ Rate[h] \in Int
         /\ Unbeaten(q) \in Int
BY ConstantsAssumption DEF Value, Values, Query, Unbeaten

\* A hotel has the value the first pass found if and only if it is among the
\* best: the pass leaves a value that no hotel beats, and that some hotel has
\* or that no value is worse than.
LEMMA SameIsBest ==
  ASSUME NEW q \in Query, NEW S \in SUBSET Ids, NEW b \in Int,
         ~Better(q, Unbeaten(q), b),
         \A g \in S : ~Better(q, Value(q, g), b),
         b = Unbeaten(q) \/ \E g \in S : Same(Value(q, g), b)
  PROVE  {h \in S : Same(Value(q, h), b)} = Best(q, S)
<1> DEFINE V(h) == Value(q, h)
<1>1. /\ NaN \notin Int /\ MaxFloat \in Int
      /\ \A h \in S : /\ V(h) \in Int \cup {NaN}
                      /\ V(h) \in Int => V(h) <= MaxFloat
                      /\ q.require = "rate" => V(h) = Rate[h] /\ Rate[h] \in Int
  BY ConstantsAssumption, ValueType DEF Values
<1> HIDE DEF V
<1>2. \A g \in S : ~Better(q, V(g), b)
  BY DEF V
<1>3. b = Unbeaten(q) \/ \E g \in S : Same(V(g), b)
  BY DEF V
<1>4. CASE q.require = "rate"
  <2>1. b >= 0 /\ \A g \in S : V(g) <= b
    BY <1>1, <1>2, <1>4 DEF Better, Less, Unbeaten
  <2>2. b = 0 \/ \E g \in S : V(g) = b
    BY <1>3, <1>4 DEF Same, Unbeaten
  <2>3. \A h \in S : V(h) = b <=> V(h) >= 0 /\ \A g \in S : V(g) <= V(h)
    BY <1>1, <1>4, <2>1, <2>2
  <2>4. \A h \in S : Same(V(h), b) <=>
          V(h) # NaN /\ Rate[h] >= 0 /\ \A g \in S : Rate[g] <= Rate[h]
    BY <1>1, <1>4, <2>3 DEF Same
  <2> QED BY <1>4, <2>4 DEF Best, V
<1>5. CASE q.require # "rate"
  <2>1. b <= MaxFloat /\ \A g \in S : V(g) = NaN \/ b <= V(g)
    BY <1>1, <1>2, <1>5 DEF Better, Less, Unbeaten
  <2>2. b = MaxFloat \/ \E g \in S : V(g) = b /\ V(g) # NaN
    BY <1>3, <1>5 DEF Same, Unbeaten
  <2>3. \A h \in S : Same(V(h), b) <=>
          V(h) # NaN /\ \A g \in S : V(g) = NaN \/ V(h) <= V(g)
    BY <1>1, <2>1, <2>2 DEF Same
  <2> QED BY <1>5, <2>3 DEF Best, V
<1> QED BY <1>4, <1>5

-----------------------------------------------------------------------------

LEMMA InitIInv == Init => IInv
<1> SUFFICES ASSUME Init PROVE IInv
  OBVIOUS
<1>1. TypeOK
  <2>1. hotels \subseteq stored /\ stored \subseteq Ids /\ up \in BOOLEAN
    BY DEF Init
  <2>2. seen \in [Requests -> SUBSET Ids] /\ res \in [Requests -> SUBSET Ids]
    BY DEF Init
  <2>3. best \in [Requests -> Int] /\ query \in [Requests -> Query]
    BY DEF Init
  <2>4. pc \in [Requests -> {"new", "replied", "lost"} \cup Running]
    BY DEF Init
  <2> QED BY <2>1, <2>2, <2>3, <2>4 DEF TypeOK
<1>2. Passes
  BY DEF Init, Passes, Running
<1> QED BY <1>1, <1>2 DEF IInv

LEMMA StartStep == ASSUME IInv, Start PROVE IInv'
<1>1. TypeOK'
  BY DEF IInv, TypeOK, Start
<1>2. Passes'
  BY DEF IInv, Passes, Start, Running
<1> QED BY <1>1, <1>2 DEF IInv

LEMMA StopStep == ASSUME IInv, Stop PROVE IInv'
<1>1. TypeOK'
  BY DEF IInv, TypeOK, Stop
<1>2. \A r \in Requests : pc'[r] \notin Running /\ (pc'[r] = "new" => pc[r] = "new")
  BY DEF IInv, TypeOK, Stop, Running
<1>3. Passes'
  BY <1>2 DEF IInv, Passes, Stop, Running
<1> QED BY <1>1, <1>3 DEF IInv

\* A step of one handler leaves the passes of the others as they were.
LEMMA OthersUntouched ==
  ASSUME IInv, NEW r \in Requests, UNCHANGED <<up, hotels, query>>,
         NEW q \in Requests, q # r,
         pc'[q] = pc[q], seen'[q] = seen[q], best'[q] = best[q], res'[q] = res[q]
  PROVE  /\ (pc'[q] = "new" => seen'[q] = {} /\ res'[q] = {})
         /\ (pc'[q] \in Running => up' /\ query'[q].require # "other")
         /\ (pc'[q] = "best" => BestSoFar(q)' /\ res'[q] = {})
         /\ (pc'[q] = "collect" => BestFound(q)' /\ Collected(q)')
<1>1. /\ pc[q] = "new" => seen[q] = {} /\ res[q] = {}
      /\ pc[q] \in Running => up /\ query[q].require # "other"
      /\ pc[q] = "best" => BestSoFar(q) /\ res[q] = {}
      /\ pc[q] = "collect" => BestFound(q) /\ Collected(q)
  BY DEF IInv, Passes
<1>2. BestSoFar(q) => BestSoFar(q)'
  BY DEF BestSoFar, Value, Same, Better, Less, Unbeaten
<1>3. BestFound(q) => BestFound(q)'
  BY DEF BestFound, Value, Same, Better, Less, Unbeaten
<1>4. Collected(q) => Collected(q)'
  BY DEF Collected, Value, Same
<1> QED BY <1>1, <1>2, <1>3, <1>4

LEMMA GetStep ==
  ASSUME IInv, NEW r \in Requests, GetRecommendations(r) PROVE IInv'
<1>1. query[r] \in Query /\ up
  BY DEF IInv, TypeOK, GetRecommendations
<1>2. TypeOK'
  BY <1>1, ValueType, ConstantsAssumption
  DEF IInv, TypeOK, GetRecommendations, process, Running, Unbeaten
<1>3. seen[r] = {} /\ res[r] = {}
  BY DEF IInv, Passes, GetRecommendations
<1>4. /\ (pc'[r] = "new" => FALSE)
      /\ (pc'[r] \in Running => up' /\ query'[r].require # "other")
      /\ (pc'[r] = "best" => BestSoFar(r)' /\ res'[r] = {})
      /\ (pc'[r] = "collect" => FALSE)
  <2>1. pc'[r] \in {"replied", "best"} /\ (pc'[r] = "best" => query[r].require # "other")
    BY DEF IInv, TypeOK, GetRecommendations
  <2>2. best'[r] = Unbeaten(query[r])
    BY DEF IInv, TypeOK, GetRecommendations
  <2>3. ~Better(query[r], Unbeaten(query[r]), Unbeaten(query[r]))
    <3>1. Unbeaten(query[r]) \in Int
      BY ConstantsAssumption DEF Unbeaten
    <3>2. \A x \in Int : ~Better(query[r], x, x)
      BY DEF Better, Less
    <3> QED BY <3>1, <3>2
  <2>4. BestSoFar(r)'
    BY <1>3, <2>2, <2>3 DEF BestSoFar, GetRecommendations, process, Unbeaten, Better
  <2> QED BY <1>1, <1>3, <2>1, <2>4 DEF GetRecommendations, process, Running
<1>5. Passes'
  BY <1>4, OthersUntouched DEF IInv, TypeOK, Passes, GetRecommendations, process
<1> QED BY <1>2, <1>5 DEF IInv

LEMMA CompareStep == ASSUME IInv, NEW r \in Requests, Compare(r) PROVE IInv'
<1> DEFINE q == query[r]
<1>1. q \in Query /\ best[r] \in Int /\ up /\ q.require # "other"
  BY DEF IInv, TypeOK, Passes, Compare, Running
<1>2. PICK h \in Ids : Visit(r, h) /\ best' = [best EXCEPT ![r] =
                     IF Better(q, Value(q, h), @) THEN Value(q, h) ELSE @]
  BY DEF Compare
<1>3. Value(q, h) \in Values /\ Unbeaten(q) \in Int /\ NaN \notin Int
  BY <1>1, ValueType, ConstantsAssumption
<1>4. /\ h \in hotels /\ seen'[r] = seen[r] \cup {h}
      /\ best'[r] = IF Better(q, Value(q, h), best[r]) THEN Value(q, h) ELSE best[r]
      /\ UNCHANGED <<process, query, pc, res>>
  BY <1>2 DEF IInv, TypeOK, Visit, Compare
<1>5. best'[r] \in Int
  BY <1>1, <1>3, <1>4 DEF Better, Less, Values
<1>6. TypeOK'
  BY <1>2, <1>4, <1>5 DEF IInv, TypeOK, Visit, process
<1>7. BestSoFar(r) /\ res[r] = {}
  BY DEF IInv, Passes, Compare
<1>8. \A g \in seen[r] : Value(q, g) \in Values
  BY <1>1, ValueType DEF IInv, TypeOK
<1>9. ~Better(q, Unbeaten(q), best'[r])
  BY <1>1, <1>3, <1>4, <1>5, <1>7 DEF BestSoFar, Better, Less, Values
<1>10. \A g \in seen[r] \cup {h} : ~Better(q, Value(q, g), best'[r])
  BY <1>1, <1>3, <1>4, <1>5, <1>7, <1>8 DEF BestSoFar, Better, Less, Values
<1>11. best'[r] = Unbeaten(q) \/ \E g \in hotels : Same(Value(q, g), best'[r])
  <2>1. CASE Better(q, Value(q, h), best[r])
    <3>1. Same(Value(q, h), best'[r])
      BY <1>3, <1>4, <1>5, <2>1 DEF Same
    <3> QED BY <1>4, <3>1
  <2>2. CASE ~Better(q, Value(q, h), best[r])
    BY <1>4, <1>7, <2>2 DEF BestSoFar
  <2> QED BY <2>1, <2>2
<1>12. BestSoFar(r)'
  <2>1. query' = query /\ hotels' = hotels
    BY <1>4 DEF process
  <2>2. \A g : Value(query'[r], g) = Value(q, g)
    BY <2>1
  <2>3. seen'[r] \subseteq hotels
    BY <1>4, <1>7 DEF BestSoFar
  <2> QED
    BY <2>1, <2>2, <2>3, <1>4, <1>9, <1>10, <1>11
    DEF BestSoFar, Better, Unbeaten, Value
<1>13. Passes'
  <2>1. /\ pc'[r] = "best" /\ up' /\ query'[r].require # "other" /\ res'[r] = {}
    BY <1>1, <1>4, <1>7 DEF Compare, process
  <2>2. \A p \in Requests : p # r =>
           /\ pc'[p] = pc[p] /\ seen'[p] = seen[p] /\ best'[p] = best[p]
           /\ res'[p] = res[p]
    BY <1>2, <1>4 DEF IInv, TypeOK, Visit
  <2> QED BY <1>4, <1>12, <2>1, <2>2, OthersUntouched DEF Passes, process, Running
<1> QED BY <1>6, <1>13 DEF IInv

LEMMA EndPassStep == ASSUME IInv, NEW r \in Requests, EndPass(r) PROVE IInv'
<1>1. TypeOK'
  BY DEF IInv, TypeOK, EndPass, process, Running
<1>2. pc'[r] \in {"collect", "replied"} /\ (pc'[r] = "collect" => pc[r] = "best")
  BY DEF IInv, TypeOK, EndPass, Running
<1>3. seen[r] = hotels /\ seen'[r] = {} /\ UNCHANGED <<process, query, best, res>>
  BY DEF IInv, TypeOK, EndPass
<1>4. pc[r] = "best" => BestFound(r)' /\ Collected(r)'
  <2>1. pc[r] = "best" => BestSoFar(r) /\ res[r] = {}
    BY DEF IInv, Passes
  <2> QED
    BY <1>3, <2>1
    DEF BestSoFar, BestFound, Collected, process, Value, Same, Better, Less, Unbeaten
<1>5. Passes'
  <2>1. \A p \in Requests : p # r => pc'[p] = pc[p] /\ seen'[p] = seen[p]
    BY DEF IInv, TypeOK, EndPass
  <2>2. pc'[r] \in Running => up' /\ query'[r].require # "other"
    BY <1>2, <1>3 DEF IInv, Passes, EndPass, process, Running
  <2> QED BY <1>2, <1>3, <1>4, <2>1, <2>2, OthersUntouched DEF Passes, process
<1> QED BY <1>1, <1>5 DEF IInv

LEMMA CollectStep == ASSUME IInv, NEW r \in Requests, Collect(r) PROVE IInv'
<1> DEFINE q == query[r]
<1>1. PICK h \in Ids : Visit(r, h) /\ res' = [res EXCEPT ![r] =
                     IF Same(Value(q, h), best[r]) THEN @ \cup {h} ELSE @]
  BY DEF Collect
<1>2. /\ h \in hotels /\ seen'[r] = seen[r] \cup {h}
      /\ res'[r] = IF Same(Value(q, h), best[r]) THEN res[r] \cup {h} ELSE res[r]
      /\ UNCHANGED <<process, query, pc, best>>
  BY <1>1 DEF IInv, TypeOK, Visit, Collect
<1>3. TypeOK'
  BY <1>1, <1>2 DEF IInv, TypeOK, Visit, process
<1>4. BestFound(r) /\ Collected(r) /\ up /\ q.require # "other"
  BY DEF IInv, Passes, Collect, Running
<1>5. BestFound(r)'
  BY <1>2, <1>4 DEF BestFound, process, Value, Same, Better, Less, Unbeaten
<1>6. Collected(r)'
  <2>1. res'[r] = {g \in seen[r] \cup {h} : Same(Value(q, g), best[r])}
    BY <1>2, <1>4 DEF Collected
  <2>2. seen'[r] \subseteq hotels
    BY <1>2, <1>4 DEF Collected
  <2> QED BY <1>2, <2>1, <2>2 DEF Collected, process, Value, Same
<1>7. Passes'
  <2>1. \A p \in Requests : p # r =>
           /\ pc'[p] = pc[p] /\ seen'[p] = seen[p] /\ best'[p] = best[p]
           /\ res'[p] = res[p]
    BY <1>1, <1>2 DEF IInv, TypeOK, Visit
  <2> QED
    BY <1>2, <1>4, <1>5, <1>6, <2>1, OthersUntouched DEF Passes, process, Collect
<1> QED BY <1>3, <1>7 DEF IInv

LEMMA NextStep == IInv /\ [Next]_vars => IInv'
<1> SUFFICES ASSUME IInv, [Next]_vars PROVE IInv'
  OBVIOUS
<1>1. CASE UNCHANGED vars
  BY <1>1
  DEF IInv, TypeOK, Passes, BestSoFar, BestFound, Collected, vars, process, Value,
      Same, Better, Less, Unbeaten
<1>2. CASE Next
  BY <1>2, StartStep, StopStep, GetStep, CompareStep, EndPassStep, CollectStep
  DEF Next, Handle
<1> QED BY <1>1, <1>2

-----------------------------------------------------------------------------

\* The state of the service and of its handlers has its type.
THEOREM TypeCorrect == Spec => []TypeOK
<1>1. IInv => TypeOK
  BY DEF IInv
<1> QED BY <1>1, InitIInv, NextStep, PTL DEF Spec

\* GetRecommendations answers with exactly the best loaded hotels, for any
\* hotels and values and whatever the orders in which the loops run.
THEOREM Recommends == Spec => RepliesWithBest
<1> DEFINE Answer(r) ==
      pc[r] # "replied" /\ pc'[r] = "replied" =>
        res'[r] = IF query[r].require = "other" THEN {} ELSE Best(query[r], hotels)
<1>1. IInv /\ [Next]_vars => [\A r \in Requests : Answer(r)]_vars
  <2> SUFFICES ASSUME IInv, Next, NEW r \in Requests,
                      pc[r] # "replied", pc'[r] = "replied"
               PROVE  res'[r] = IF query[r].require = "other" THEN {}
                                ELSE Best(query[r], hotels)
    OBVIOUS
  <2>1. GetRecommendations(r) \/ EndPass(r)
    BY DEF IInv, TypeOK, Next, Handle, Start, Stop, GetRecommendations, Compare,
           Collect, EndPass, Visit, Running
  <2>2. CASE GetRecommendations(r)
    BY <2>2 DEF IInv, TypeOK, Passes, GetRecommendations
  <2>3. CASE EndPass(r)
    <3>1. pc[r] = "collect" /\ seen[r] = hotels /\ res' = res
      BY <2>3 DEF IInv, TypeOK, EndPass, Running
    <3>2. BestFound(r) /\ Collected(r) /\ query[r].require # "other"
      BY <3>1 DEF IInv, Passes, Running
    <3>3. {h \in hotels : Same(Value(query[r], h), best[r])} = Best(query[r], hotels)
      BY <3>2, SameIsBest DEF IInv, TypeOK, BestFound
    <3> QED BY <3>1, <3>2, <3>3 DEF Collected
  <2> QED BY <2>1, <2>2, <2>3
<1> QED BY <1>1, InitIInv, NextStep, PTL DEF Spec, RepliesWithBest
=============================================================================
