--------------------------- MODULE Recommendation ---------------------------
(***************************************************************************)
(* The recommendation service: the hotels it loads when it starts, and the *)
(* two passes GetRecommendations makes over them, one to find the best     *)
(* value and one to collect the hotels that have it.  Go's map iteration   *)
(* visits the hotels in any order, a different one in each pass, and the   *)
(* handlers of concurrent requests interleave.                             *)
(***************************************************************************)
EXTENDS Integers

CONSTANTS
  Requests,  \* the calls clients make
  Ids,       \* hotel ids
  Places,    \* where a caller may be
  Distance,  \* from a place to a hotel; NaN from coordinates that are no numbers
  Rate, Price,
  MaxFloat,  \* math.MaxFloat64
  NaN

Query == [require: {"dis", "rate", "price", "other"}, at: Places]

ASSUME ConstantsAssumption ==
  /\ MaxFloat \in Int /\ NaN \notin Int
  /\ Rate \in [Ids -> {x \in Int : x <= MaxFloat}]
  /\ Price \in [Ids -> {x \in Int : x <= MaxFloat}]
  /\ Distance \in [Places -> [Ids -> {x \in Int : x <= MaxFloat} \cup {NaN}]]

VARIABLES
  up,      \* the process serves
  stored,  \* the hotels in the collection "recommendation"
  hotels,  \* s.hotels
  query,   \* what each request asks; never changes
  pc,
  seen,    \* the hotels the current pass has visited
  best,    \* min or max
  res      \* res.HotelIds

process == <<up, stored, hotels>>
vars == <<process, query, pc, seen, best, res>>

-----------------------------------------------------------------------------
(* The three criteria *)

Value(q, h) == CASE q.require = "dis"  -> Distance[q.at][h]
                 [] q.require = "rate" -> Rate[h]
                 [] OTHER              -> Price[h]

\* (mutant) math.Min: NaN is less than any number.
LessNaN(x, y) == IF x = NaN THEN TRUE ELSE y # NaN /\ x < y

\* A comparison with NaN is false.
Less(x, y) == x # NaN /\ y # NaN /\ x < y

Same(x, y) == x # NaN /\ y # NaN /\ x = y

\* (mutant) The comparison for prices used for all.
BetterLess(q, x, y) == Less(x, y)

\* The best rate is the highest, the best distance and price the lowest.
Better(q, x, y) == IF q.require = "rate" THEN Less(y, x) ELSE Less(x, y)

Unbeaten(q) == IF q.require = "rate" THEN 0 ELSE MaxFloat

-----------------------------------------------------------------------------

Running == {"best", "collect"}

Init ==
  /\ up = FALSE /\ stored = {} /\ hotels = {}
  /\ query \in [Requests -> Query]
  /\ pc = [r \in Requests |-> "new"]
  /\ seen = [r \in Requests |-> {}]
  /\ best = [r \in Requests |-> 0]
  /\ res = [r \in Requests |-> {}]

\* InitializeDatabase adds hotels that are missing (module Startup has its
\* loop), then Run loads the collection; a Find or an All that fails leaves the
\* map empty, and the process serves all the same.
Start ==
  /\ ~up /\ up' = TRUE
  /\ stored' \in {S \in SUBSET Ids : stored \subseteq S}
  /\ hotels' \in {{}, stored'}
  /\ UNCHANGED <<query, pc, seen, best, res>>

\* The process ends, and the handlers in it.
Stop ==
  /\ up /\ up' = FALSE
  /\ hotels' = {}
  /\ pc' = [r \in Requests |-> IF pc[r] \in Running THEN "lost" ELSE pc[r]]
  /\ UNCHANGED <<stored, query, seen, best, res>>

\* The caller's require is read; an unknown one is answered with no hotels.
GetRecommendations(r) ==
  /\ up /\ pc[r] = "new"
  /\ pc' = [pc EXCEPT ![r] = IF query[r].require = "other" THEN "replied" ELSE "best"]
  /\ best' = [best EXCEPT ![r] = Unbeaten(query[r])]
  /\ UNCHANGED <<process, query, seen, res>>

Visit(r, h) ==
  /\ h \in hotels \ seen[r]
  /\ seen' = [seen EXCEPT ![r] = @ \cup {h}]
  /\ UNCHANGED <<process, query, pc>>

\* One round of the first loop.
Compare(r) ==
  /\ pc[r] = "best"
  /\ \E h \in Ids :
       /\ Visit(r, h)
       /\ best' = [best EXCEPT ![r] =
                     IF Better(query[r], Value(query[r], h), @)
                       THEN Value(query[r], h) ELSE @]
  /\ UNCHANGED res

EndPass(r) ==
  /\ pc[r] \in Running /\ seen[r] = hotels
  /\ pc' = [pc EXCEPT ![r] = IF @ = "best" THEN "collect" ELSE "replied"]
  /\ seen' = [seen EXCEPT ![r] = {}]
  /\ UNCHANGED <<process, query, best, res>>

\* (mutant) The second pass forgets to move on.
CollectAgain(r) ==
  /\ pc[r] = "collect"
  /\ \E h \in hotels \ seen[r] :
       res' = [res EXCEPT ![r] =
                 IF Same(Value(query[r], h), best[r]) THEN @ \cup {h} ELSE @]
  /\ UNCHANGED <<process, query, pc, seen, best>>

\* One round of the second loop.
Collect(r) ==
  /\ pc[r] = "collect"
  /\ \E h \in Ids :
       /\ Visit(r, h)
       /\ res' = [res EXCEPT ![r] =
                    IF Same(Value(query[r], h), best[r]) THEN @ \cup {h} ELSE @]
  /\ UNCHANGED best

Handle(r) == GetRecommendations(r) \/ Compare(r) \/ EndPass(r) \/ Collect(r)

Next == Start \/ Stop \/ \E r \in Requests : Handle(r)

Spec == Init /\ [][Next]_vars

\* restart: always, and a goroutine for every request.
FairSpec == Spec /\ WF_vars(Start) /\ \A r \in Requests : WF_vars(Handle(r))

-----------------------------------------------------------------------------
(* Properties *)

\* The variables have their types, and nothing is loaded that is not stored.
TypeOK ==
  /\ up \in BOOLEAN
  /\ stored \subseteq Ids
  /\ hotels \subseteq stored
  /\ query \in [Requests -> Query]
  /\ pc \in [Requests -> {"new", "replied", "lost"} \cup Running]
  /\ seen \in [Requests -> SUBSET Ids]
  /\ best \in [Requests -> Int]
  /\ res \in [Requests -> SUBSET Ids]

\* The hotels with the highest rate, or the lowest distance or price.  One whose
\* distance is not a number is not among them, nor one whose rate is below 0,
\* where the loop starts.
Best(q, S) ==
  {h \in S :
     /\ Value(q, h) # NaN
     /\ q.require = "rate" => Rate[h] >= 0 /\ \A g \in S : Rate[g] <= Rate[h]
     /\ q.require # "rate" =>
          \A g \in S : Value(q, g) = NaN \/ Value(q, h) <= Value(q, g)}

\* Whatever the orders of the two passes and of the handlers, GetRecommendations
\* answers with exactly the best of the hotels the process has loaded, all of
\* them, and with none when require is unknown.
RepliesWithBest ==
  [][\A r \in Requests : pc[r] # "replied" /\ pc'[r] = "replied" =>
       res'[r] = IF query[r].require = "other" THEN {} ELSE Best(query[r], hotels)]_vars

\* Every request that reached the service is answered, or lost with the process:
\* both loops visit every hotel and end.
EveryRequestEnds ==
  \A r \in Requests : pc[r] \in Running ~> pc[r] \in {"replied", "lost"}
=============================================================================
