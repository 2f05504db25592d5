----------------------------- MODULE RateCache -----------------------------
(***************************************************************************)
(* The rate service: GetRates, call by call, over the collection           *)
(* "inventory" and the memcached entries in front of it, and the restarts  *)
(* that InitializeDatabase adds plans in.                                  *)
(***************************************************************************)
EXTENDS Integers, Sequences, FiniteSets

CONSTANTS
  Requests,   \* the calls of search
  Ids,        \* hotel ids
  Calls,      \* the lists of ids a request may have
  TotalRate,  \* of a hotel's plan
  MaxCopies,  \* a bound: equal plans of one hotel
  Faults      \* "evict", "lostset", "memcError", "mongoError"

ASSUME ConstantsAssumption ==
  /\ Calls \subseteq Seq(Ids)
  /\ TotalRate \in [Ids -> Int]
  /\ MaxCopies \in Nat \ {0}

VARIABLES
  up,
  docs,   \* the plans of a hotel in the collection
  cache,  \* the plans in its memcached entry; 0: there is none
  filled, \* (history) those the collection held when the entry was set
  req,    \* the list of each request; never changes
  pc,
  i,      \* index in the list
  read,   \* the plans just read from the collection
  plans,  \* ratePlans, then the reply: the hotel of each plan
  missed  \* (history) the places in the list whose plans could not be read

locals == <<i, read, plans, missed>>
vars == <<up, docs, cache, filled, req, pc, locals>>

Running == {"get", "find", "fill"}
Hotel(r) == req[r][i[r]]

-----------------------------------------------------------------------------

Init ==
  /\ up = FALSE
  /\ docs = [h \in Ids |-> 0]
  /\ cache = [h \in Ids |-> 0]
  /\ filled = [h \in Ids |-> 0]
  /\ req \in [Requests -> Calls]
  /\ pc = [r \in Requests |-> "new"]
  /\ i = [r \in Requests |-> 0]
  /\ read = [r \in Requests |-> 0]
  /\ plans = [r \in Requests |-> <<>>]
  /\ missed = [r \in Requests |-> {}]

\* (mutant) The seeding runs beside the handlers.
BootBeside ==
  /\ up' = TRUE
  /\ docs' \in {d \in [Ids -> 0..MaxCopies] :
       \A h \in Ids :
         IF "mongoError" \in Faults THEN d[h] \in {docs[h], docs[h] + 1}
         ELSE d[h] = IF docs[h] = 0 THEN 1 ELSE docs[h]}
  /\ UNCHANGED <<cache, filled, req, pc, locals>>

\* InitializeDatabase (module Startup has its loop): an insert may fail, and a
\* hotel that could not be read gets a second plan.
Boot ==
  /\ ~up /\ up' = TRUE
  /\ docs' \in {d \in [Ids -> 0..MaxCopies] :
       \A h \in Ids :
         IF "mongoError" \in Faults THEN d[h] \in {docs[h], docs[h] + 1}
         ELSE d[h] = IF docs[h] = 0 THEN 1 ELSE docs[h]}
  /\ UNCHANGED <<cache, filled, req, pc, locals>>

\* log.Fatalf, or a panic, ends every handler.
Crash ==
  /\ up' = FALSE
  /\ pc' = [q \in Requests |-> IF pc[q] \in Running THEN "lost" ELSE pc[q]]
  /\ UNCHANGED <<docs, cache, filled, req, locals>>

\* Less is the other way round: the highest rate first.
Less(g, h) == TotalRate[g] > TotalRate[h]

Occurrences(s, h) == {k \in DOMAIN s : s[k] = h}

\* What sort.Sort, which is not stable, may make of s.
Sorts(s) ==
  {t \in [DOMAIN s -> Ids] :
     /\ \A h \in Ids : Cardinality(Occurrences(t, h)) = Cardinality(Occurrences(s, h))
     /\ \A k, l \in DOMAIN t : k < l => ~Less(t[l], t[k])}

\* (mutant) The loop runs once more.
ContinueBeyond(r, n) ==
  /\ pc' = [pc EXCEPT ![r] = IF i[r] <= Len(req[r]) THEN "get" ELSE "replied"]
  /\ i' = [i EXCEPT ![r] = @ + 1]
  /\ plans' = [plans EXCEPT ![r] = @ \o [j \in 1..n |-> Hotel(r)]]

\* (mutant) The plans are answered in the order they were found.
ContinueUnsorted(r, n) ==
  /\ plans' = [plans EXCEPT ![r] = @ \o [j \in 1..n |-> Hotel(r)]]
  /\ IF i[r] < Len(req[r])
       THEN pc' = [pc EXCEPT ![r] = "get"] /\ i' = [i EXCEPT ![r] = @ + 1]
       ELSE pc' = [pc EXCEPT ![r] = "replied"] /\ i' = i

\* The next hotel with the plans of this one added, or the reply.
Continue(r, n) ==
  LET all == plans[r] \o [j \in 1..n |-> Hotel(r)] IN
  IF i[r] < Len(req[r])
    THEN /\ pc' = [pc EXCEPT ![r] = "get"]
         /\ i' = [i EXCEPT ![r] = @ + 1]
         /\ plans' = [plans EXCEPT ![r] = all]
    ELSE /\ pc' = [pc EXCEPT ![r] = "replied"]
         /\ i' = i
         /\ \E sorted \in Sorts(all) : plans' = [plans EXCEPT ![r] = sorted]

\* A request without a hotel is answered at once.
GetRates(r) ==
  /\ up /\ pc[r] = "new"
  /\ IF req[r] = <<>>
       THEN pc' = [pc EXCEPT ![r] = "replied"] /\ i' = i
       ELSE pc' = [pc EXCEPT ![r] = "get"] /\ i' = [i EXCEPT ![r] = 1]
  /\ UNCHANGED <<up, docs, cache, filled, req, read, plans, missed>>

Hit(r) ==
  /\ pc[r] = "get" /\ cache[Hotel(r)] > 0
  /\ Continue(r, cache[Hotel(r)])
  /\ UNCHANGED <<up, docs, cache, filled, req, read, missed>>

Miss(r) ==
  /\ pc[r] = "get" /\ cache[Hotel(r)] = 0
  /\ pc' = [pc EXCEPT ![r] = "find"]
  /\ UNCHANGED <<up, docs, cache, filled, req, locals>>

\* Any other error of memcached ends the process.
GetFails(r) ==
  /\ pc[r] = "get" /\ "memcError" \in Faults
  /\ Crash

\* Find and cursor.All, whose error looks like a hotel without plans; such a
\* hotel is not cached.
Find(r) ==
  /\ pc[r] = "find"
  /\ \/ read' = [read EXCEPT ![r] = docs[Hotel(r)]] /\ missed' = missed
     \/ /\ "mongoError" \in Faults
        /\ read' = [read EXCEPT ![r] = 0]
        /\ missed' = [missed EXCEPT ![r] = @ \cup {i[r]}]
  /\ IF read'[r] = 0
       THEN Continue(r, 0)
       ELSE pc' = [pc EXCEPT ![r] = "fill"] /\ UNCHANGED <<i, plans>>
  /\ UNCHANGED <<up, docs, cache, filled, req>>

FindFails(r) ==
  /\ pc[r] = "find" /\ "mongoError" \in Faults
  /\ Crash

\* (mutant) The handler stays at the hotel it has filled.
FillStays(r) ==
  /\ pc[r] = "fill"
  /\ cache' = [cache EXCEPT ![Hotel(r)] = read[r]]
  /\ filled' = [filled EXCEPT ![Hotel(r)] = docs[Hotel(r)]]
  /\ pc' = [pc EXCEPT ![r] = "get"]
  /\ UNCHANGED <<up, docs, req, locals>>

\* The Set, whose error is ignored.
Fill(r) ==
  /\ pc[r] = "fill"
  /\ \/ /\ cache' = [cache EXCEPT ![Hotel(r)] = read[r]]
        /\ filled' = [filled EXCEPT ![Hotel(r)] = docs[Hotel(r)]]
     \/ "lostset" \in Faults /\ UNCHANGED <<cache, filled>>
  /\ Continue(r, read[r])
  /\ UNCHANGED <<up, docs, req, read, missed>>

\* memcached drops an entry.
Evict ==
  /\ "evict" \in Faults
  /\ \E h \in Ids : /\ cache[h] > 0 /\ cache' = [cache EXCEPT ![h] = 0]
                    /\ filled' = [filled EXCEPT ![h] = 0]
  /\ UNCHANGED <<up, docs, req, pc, locals>>

Handle(r) ==
  \/ GetRates(r) \/ Hit(r) \/ Miss(r) \/ GetFails(r)
  \/ Find(r) \/ FindFails(r) \/ Fill(r)

Next == Boot \/ Evict \/ \E r \in Requests : Handle(r)

Spec == Init /\ [][Next]_vars

FairSpec == Spec /\ \A r \in Requests : WF_vars(Handle(r))

-----------------------------------------------------------------------------
(* Properties *)

\* The variables have their types, and no index leaves its list.
TypeOK ==
  /\ up \in BOOLEAN
  /\ docs \in [Ids -> Nat]
  /\ cache \in [Ids -> Nat] /\ filled \in [Ids -> Nat]
  /\ req \in [Requests -> Calls]
  /\ pc \in [Requests -> {"new", "replied", "lost"} \cup Running]
  /\ i \in [Requests -> Nat]
  /\ \A r \in Requests : i[r] <= Len(req[r]) /\ (pc[r] \in Running => i[r] > 0)
  /\ read \in [Requests -> Nat]
  /\ plans \in [Requests -> Seq(Ids)]
  /\ missed \in [Requests -> SUBSET Nat]

\* An entry holds exactly the plans that the collection held when it was set,
\* although they were read some calls before: handlers of one hotel fill it in any
\* order, reads fail, and restarts store second plans, but none is stored between
\* the read of a handler and its Set, so that no fill, however late, restores old
\* plans.  An entry lacks a plan only when a restart has stored it since.
CacheIsStored ==
  \A h \in Ids : cache[h] \in {0, filled[h]} /\ filled[h] <= docs[h]

\* What a client gets to see.
Status == [r \in Requests |-> IF pc[r] \in Running THEN "open" ELSE pc[r]]
Answers == [r \in Requests |-> IF pc[r] = "replied" THEN plans[r] ELSE <<>>]
Failed == [r \in Requests |-> IF pc[r] = "replied" THEN missed[r] ELSE {}]

\* GetRates behaves like a service without a cache (module Lookup): its reply
\* has the plans of every hotel in the list, a hotel listed twice twice, the
\* highest rate first; only a read that fails may leave a hotel out, and only at
\* its own place.
AsIfUncached ==
  INSTANCE Lookup
    WITH ByRate <- TRUE, call <- req,
         status <- Status, answer <- Answers, failed <- Failed
LooksUncached == AsIfUncached!Spec

\* Every request that is being handled is answered, or lost with the process.
EveryCallEnds ==
  \A r \in Requests : pc[r] \in Running ~> pc[r] \in {"replied", "lost"}
=============================================================================
