---------------------------- MODULE ProfileCache ----------------------------
(***************************************************************************)
(* The profile service: GetProfiles, call by call, over the collection     *)
(* "hotels" and the memcached entries in front of it.  No failure of a     *)
(* call ends the process: every memcached error counts as a miss, and a    *)
(* hotel that cannot be read is left out.                                  *)
(***************************************************************************)
EXTENDS Integers, Sequences

CONSTANTS
  Requests,  \* the calls of the frontend
  Ids,       \* hotel ids
  Calls,     \* the lists of ids a request may have
  Faults     \* "evict", "lostset", "memcError", "mongoError"

ASSUME ConstantsAssumption == Calls \subseteq Seq(Ids)

VARIABLES
  up,
  stored,  \* the hotels in the collection
  cached,  \* the hotels in memcached
  req,     \* the list of each request; never changes
  pc,
  i,       \* index in the list
  hotels,  \* the profiles found so far, then the reply
  missed   \* (history) the places in the list whose profile could not be read

vars == <<up, stored, cached, req, pc, i, hotels, missed>>

Running == {"get", "find", "fill"}
Id(r) == req[r][i[r]]

-----------------------------------------------------------------------------

Init ==
  /\ up = FALSE
  /\ stored = {} /\ cached = {}
  /\ req \in [Requests -> Calls]
  /\ pc = [r \in Requests |-> "new"]
  /\ i = [r \in Requests |-> 0]
  /\ hotels = [r \in Requests |-> <<>>]
  /\ missed = [r \in Requests |-> {}]

\* InitializeDatabase (module Startup has its loop).
Boot ==
  /\ ~up /\ up' = TRUE
  /\ stored' \in IF "mongoError" \in Faults
                   THEN {S \in SUBSET Ids : stored \subseteq S} ELSE {Ids}
  /\ UNCHANGED <<cached, req, pc, i, hotels, missed>>

\* The container ends, and every handler in it.
Kill ==
  /\ up /\ up' = FALSE
  /\ pc' = [q \in Requests |-> IF pc[q] \in Running THEN "lost" ELSE pc[q]]
  /\ UNCHANGED <<stored, cached, req, i, hotels, missed>>

\* (mutant) The loop runs once more.
ContinueBeyond(r, found) ==
  /\ hotels' = [hotels EXCEPT ![r] = @ \o found]
  /\ pc' = [pc EXCEPT ![r] = IF i[r] <= Len(req[r]) THEN "get" ELSE "replied"]
  /\ i' = [i EXCEPT ![r] = @ + 1]

\* The next id of the list, with the profiles found for this one, or the reply.
Continue(r, found) ==
  /\ hotels' = [hotels EXCEPT ![r] = @ \o found]
  /\ IF i[r] < Len(req[r])
       THEN pc' = [pc EXCEPT ![r] = "get"] /\ i' = [i EXCEPT ![r] = @ + 1]
       ELSE pc' = [pc EXCEPT ![r] = "replied"] /\ i' = i

\* A request without a hotel is answered at once.
GetProfiles(r) ==
  /\ up /\ pc[r] = "new"
  /\ IF req[r] = <<>>
       THEN pc' = [pc EXCEPT ![r] = "replied"] /\ i' = i
       ELSE pc' = [pc EXCEPT ![r] = "get"] /\ i' = [i EXCEPT ![r] = 1]
  /\ UNCHANGED <<up, stored, cached, req, hotels, missed>>

Hit(r) ==
  /\ pc[r] = "get" /\ Id(r) \in cached
  /\ Continue(r, <<Id(r)>>)
  /\ UNCHANGED <<up, stored, cached, req, missed>>

Miss(r) ==
  /\ pc[r] = "get" /\ (Id(r) \notin cached \/ "memcError" \in Faults)
  /\ pc' = [pc EXCEPT ![r] = "find"]
  /\ UNCHANGED <<up, stored, cached, req, i, hotels, missed>>

\* (mutant) Whatever FindOne returns is answered and cached.
FindAny(r) ==
  /\ pc[r] = "find"
  /\ pc' = [pc EXCEPT ![r] = "fill"]
  /\ UNCHANGED <<up, stored, cached, req, i, hotels, missed>>

\* FindOne; an error, or no document, leaves the hotel out.
Find(r) ==
  /\ pc[r] = "find"
  /\ \/ /\ Id(r) \in stored
        /\ pc' = [pc EXCEPT ![r] = "fill"]
        /\ UNCHANGED <<i, hotels, missed>>
     \/ /\ \/ Id(r) \notin stored /\ missed' = missed
           \/ /\ "mongoError" \in Faults
              /\ missed' = [missed EXCEPT ![r] = @ \cup {i[r]}]
        /\ Continue(r, <<>>)
  /\ UNCHANGED <<up, stored, cached, req>>

\* (mutant) The handler looks at the same hotel again.
FillStays(r) ==
  /\ pc[r] = "fill"
  /\ cached' = cached \cup {Id(r)}
  /\ pc' = [pc EXCEPT ![r] = "get"]
  /\ UNCHANGED <<up, stored, req, i, hotels, missed>>

\* (mutant) The profile is cached and not answered.
FillOnly(r) ==
  /\ pc[r] = "fill"
  /\ cached' = cached \cup {Id(r)}
  /\ Continue(r, <<>>)
  /\ UNCHANGED <<up, stored, req, missed>>

\* The Set, whose error is ignored.
Fill(r) ==
  /\ pc[r] = "fill"
  /\ \/ cached' = cached \cup {Id(r)}
     \/ "lostset" \in Faults /\ cached' = cached
  /\ Continue(r, <<Id(r)>>)
  /\ UNCHANGED <<up, stored, req, missed>>

\* memcached drops an entry.
Evict ==
  /\ "evict" \in Faults
  /\ \E h \in cached : cached' = cached \ {h}
  /\ UNCHANGED <<up, stored, req, pc, i, hotels, missed>>

Handle(r) == GetProfiles(r) \/ Hit(r) \/ Miss(r) \/ Find(r) \/ Fill(r)

Next == Boot \/ Kill \/ Evict \/ \E r \in Requests : Handle(r)

Spec == Init /\ [][Next]_vars

FairSpec == Spec /\ \A r \in Requests : WF_vars(Handle(r))

-----------------------------------------------------------------------------
(* Properties *)

\* The variables have their types, and no index leaves its list.
TypeOK ==
  /\ up \in BOOLEAN
  /\ stored \subseteq Ids /\ cached \subseteq Ids
  /\ req \in [Requests -> Calls]
  /\ pc \in [Requests -> {"new", "replied", "lost"} \cup Running]
  /\ i \in [Requests -> Nat]
  /\ \A r \in Requests : i[r] <= Len(req[r]) /\ (pc[r] \in Running => i[r] > 0)
  /\ hotels \in [Requests -> Seq(Ids)]
  /\ missed \in [Requests -> SUBSET Nat]

\* Every profile that a client gets, and every one that memcached keeps for
\* later ones, is of a hotel in the collection, whichever failures, evictions
\* and restarts the handlers that put it there went through.
NothingInvented ==
  /\ cached \subseteq stored
  /\ \A r \in Requests : \A k \in DOMAIN hotels[r] : hotels[r][k] \in stored

\* What Lookup speaks of: a document for each hotel in the collection, ...
Docs == [id \in Ids |-> IF id \in stored THEN 1 ELSE 0]
Status == [r \in Requests |-> IF pc[r] \in Running THEN "open" ELSE pc[r]]

\* ... and what a client gets to see.
Answers == [r \in Requests |-> IF pc[r] = "replied" THEN hotels[r] ELSE <<>>]
Failed == [r \in Requests |-> IF pc[r] = "replied" THEN missed[r] ELSE {}]

\* GetProfiles behaves like a service without a cache (module Lookup): its reply
\* has the profile of every hotel in the list that has one, in the list's order;
\* only a read that fails may leave one out, and only at its own place.
AsIfUncached ==
  INSTANCE Lookup
    WITH ByRate <- FALSE, MaxCopies <- 1, TotalRate <- [id \in Ids |-> 0],
         call <- req, docs <- Docs, status <- Status, answer <- Answers, failed <- Failed
LooksUncached == AsIfUncached!Spec

\* Every request that is being handled is answered, or lost with the process.
EveryCallEnds ==
  \A r \in Requests : pc[r] \in Running ~> pc[r] \in {"replied", "lost"}
=============================================================================
