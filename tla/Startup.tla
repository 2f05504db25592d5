------------------------------ MODULE Startup ------------------------------
(***************************************************************************)
(* How a service fills its MongoDB collection and loads it, at every start *)
(* of its process.  All six InitializeDatabase run the same loop: read the *)
(* documents of hotel (or user) 1, 2, ..., and insert one when there is    *)
(* none.  They differ in what a failed call does to the loop, which is the *)
(* Policy of each.  Then geo, recommendation and user read the whole       *)
(* collection once, into the memory they serve from.                       *)
(***************************************************************************)
EXTENDS Integers

CONSTANTS
  Services,   \* those of Policy that are studied
  N,          \* the number of documents: 80 hotels, or 500 users
  MaxFaults   \* a bound: failed calls, missed deadlines and kills

\* What the loop does when a call fails.
\*   find    FindOne or Find: go on to the next item, or end the process
\*   all     cursor.All: go on, end, or take it for a collection without the item
\*   insert  InsertOne: log it and go on, or end the process
\*   keeps   is the error of the last item what InitializeDatabase returns?
\*   timed   is there one deadline for all the calls?
Geo == [find |-> "skip", all |-> "none", insert |-> "log",
        keeps |-> TRUE, timed |-> FALSE]
Profile == [find |-> "skip", all |-> "none", insert |-> "log",
            keeps |-> TRUE, timed |-> FALSE]
RecommendationHotels == [find |-> "skip", all |-> "none", insert |-> "log",
                         keeps |-> TRUE, timed |-> FALSE]
RatePlans == [find |-> "fatal", all |-> "insert", insert |-> "log",
              keeps |-> FALSE, timed |-> TRUE]
Users == [find |-> "fatal", all |-> "skip", insert |-> "fatal",
          keeps |-> FALSE, timed |-> FALSE]
RoomNumbers == [find |-> "fatal", all |-> "skip", insert |-> "log",
                keeps |-> FALSE, timed |-> FALSE]

Policy == [geo |-> Geo, profile |-> Profile, recommendation |-> RecommendationHotels,
           rate |-> RatePlans, user |-> Users, reservation |-> RoomNumbers]

Loaders == {"geo", "recommendation", "user"}

ASSUME ConstantsAssumption ==
  /\ Services \subseteq DOMAIN Policy
  /\ N \in Nat \ {0}
  /\ MaxFaults \in Nat

VARIABLES
  service,  \* which of the services this is; never changes
  phase,    \* of the process
  item,     \* the loop variable
  docs,     \* the documents of each item in the collection
  err,      \* the error of the item before
  late,     \* the deadline has passed
  loaded,   \* the items in memory
  skipped,  \* history: the items this start could not read or insert
  misread,  \* history: the items whose cursor.All ever failed
  faults    \* history: what has failed so far

history == <<skipped, misread, faults>>
vars == <<service, phase, item, docs, err, late, loaded, history>>

Items == 1..N
P == Policy[service]
Stored == {k \in Items : docs[k] > 0}

Fault == faults < MaxFaults /\ faults' = faults + 1

-----------------------------------------------------------------------------

Init ==
  /\ service \in Services
  /\ phase = "down"
  /\ item = 1 /\ err = FALSE /\ late = FALSE
  /\ docs = [k \in Items |-> 0]
  /\ loaded = {}
  /\ skipped = {} /\ misread = {} /\ faults = 0

\* (mutant) The deadline of the last start still counts.
BeginLate ==
  /\ phase = "down" /\ phase' = "read"
  /\ item' = 1 /\ err' = FALSE /\ late' = late
  /\ skipped' = {}
  /\ UNCHANGED <<service, docs, loaded, misread, faults>>

\* main, up to the loop.
Begin ==
  /\ phase = "down" /\ phase' = "read"
  /\ item' = 1 /\ err' = FALSE /\ late' = FALSE
  /\ skipped' = {}
  /\ UNCHANGED <<service, docs, loaded, misread, faults>>

\* log.Fatal, a panic, or the container's end: the memory is gone.
End ==
  /\ phase' = "down"
  /\ loaded' = {}
  /\ UNCHANGED <<service, item, docs, err, late, skipped, misread>>

Kill == phase # "down" /\ Fault /\ End

\* (mutant) No error outlives its item.
AdvanceForgetting(e) ==
  /\ err' = e
  /\ \/ item < N /\ item' = item + 1 /\ phase' = "read"
     \/ item = N /\ item' = item /\ phase' = "load"
  /\ UNCHANGED <<service, late, loaded>>

\* (mutant) The loop runs once more.
AdvanceBeyond(e) ==
  /\ err' = e
  /\ \/ item <= N /\ item' = item + 1 /\ phase' = "read"
     \/ item > N /\ item' = item /\ phase' = "load"
  /\ UNCHANGED <<service, late, loaded>>

\* The end of the loop body, with the error its last call set.  The last item's
\* error is returned, if err was not shadowed, and ends main.
Advance(e) ==
  /\ err' = e
  /\ \/ item < N /\ item' = item + 1 /\ phase' = "read"
     \/ item = N /\ item' = item /\ phase' = IF P.keeps /\ e THEN "down" ELSE "load"
  /\ UNCHANGED <<service, late, loaded>>

\* (mutant) The item is taken to be missing, whatever was read.
ReadNothing ==
  /\ phase = "read" /\ ~late
  /\ phase' = "insert"
  /\ UNCHANGED <<service, item, docs, err, late, loaded, history>>

\* The read succeeds and finds a document, or none.
Read ==
  /\ phase = "read" /\ ~late
  /\ \/ docs[item] > 0 /\ Advance(FALSE)
     \/ /\ docs[item] = 0 /\ phase' = "insert"
        /\ UNCHANGED <<service, item, err, late, loaded>>
  /\ UNCHANGED <<docs, history>>

\* FindOne or Find fails.  Past the deadline every call does.
FindFails ==
  /\ phase = "read"
  /\ IF late THEN UNCHANGED faults ELSE Fault
  /\ \/ /\ P.find = "skip" /\ Advance(TRUE)
        /\ skipped' = skipped \cup {item}
        /\ UNCHANGED <<docs, misread>>
     \/ P.find = "fatal" /\ End

\* cursor.All fails; what it should have read may be there or not.
AllFails ==
  /\ phase = "read" /\ ~late
  /\ Fault
  /\ misread' = misread \cup {item}
  /\ \/ P.all = "skip" /\ Advance(FALSE) /\ skipped' = skipped \cup {item}
     \/ /\ P.all = "insert" /\ phase' = "insert"
        /\ UNCHANGED <<service, item, err, late, loaded, skipped>>
  /\ UNCHANGED docs

Insert ==
  /\ phase = "insert" /\ ~late
  /\ docs' = [docs EXCEPT ![item] = @ + 1]
  /\ Advance(FALSE)
  /\ UNCHANGED history

\* InsertOne fails; the document may have been written all the same.
InsertFails ==
  /\ phase = "insert"
  /\ IF late THEN UNCHANGED <<faults, docs>>
             ELSE Fault /\ docs' \in {docs, [docs EXCEPT ![item] = @ + 1]}
  /\ UNCHANGED misread
  /\ \/ /\ P.insert = "log" /\ Advance(TRUE)
        /\ skipped' = skipped \cup {item}
     \/ /\ P.insert = "fatal"
        /\ phase' = "down" /\ loaded' = {}
        /\ UNCHANGED <<service, item, err, late, skipped>>

\* context.WithTimeout(..., 10*time.Second)
Deadline ==
  /\ P.timed /\ ~late /\ phase \in {"read", "insert"}
  /\ Fault
  /\ late' = TRUE
  /\ UNCHANGED <<service, phase, item, docs, err, loaded, skipped, misread>>

Serve(S) ==
  /\ phase = "load" /\ phase' = "serving"
  /\ loaded' = S
  /\ UNCHANGED <<service, item, docs, err, late, skipped, misread>>

\* The services that read their collection request by request.
ServeFromDatabase == service \notin Loaders /\ Serve({}) /\ UNCHANGED faults

\* (mutant) A failed Find or All is only logged.
NewGeoIndexLogs ==
  /\ service = "geo"
  /\ \/ Serve(Stored) /\ UNCHANGED faults
     \/ Serve({}) /\ Fault

\* geo: a failed Find or All ends the process.
NewGeoIndex ==
  /\ service = "geo"
  /\ \/ Serve(Stored) /\ UNCHANGED faults
     \/ phase = "load" /\ Fault /\ End

\* user: likewise.
loadUsers ==
  /\ service = "user"
  /\ \/ Serve(Stored) /\ UNCHANGED faults
     \/ phase = "load" /\ Fault /\ End

\* recommendation: the process serves without a hotel.
loadRecommendations ==
  /\ service = "recommendation"
  /\ \/ Serve(Stored) /\ UNCHANGED faults
     \/ Serve({}) /\ Fault

Step ==
  Read \/ FindFails \/ AllFails \/ Insert \/ InsertFails \/
  ServeFromDatabase \/ NewGeoIndex \/ loadUsers \/ loadRecommendations

Next == Begin \/ Step \/ Deadline \/ Kill

Spec == Init /\ [][Next]_vars

\* restart: always, and a process that is not stuck; only so many faults happen.
FairSpec == Spec /\ WF_vars(Begin) /\ WF_vars(Step)

-----------------------------------------------------------------------------
(* Properties *)

\* The variables have their types; a service that serves from its database has
\* loaded nothing.
TypeOK ==
  /\ service \in Services
  /\ phase \in {"down", "read", "insert", "load", "serving"}
  /\ item \in Items
  /\ docs \in [Items -> Nat]
  /\ err \in BOOLEAN /\ late \in BOOLEAN
  /\ loaded \subseteq Items
  /\ skipped \subseteq Items /\ misread \subseteq Items
  /\ faults \in 0..MaxFaults

\* InitializeDatabase runs again after every crash, in the middle of itself too,
\* and never stores an item twice; except that rate takes a failed cursor.All
\* for a hotel without plans, and gives it a second one.
NoDuplicates ==
  \A k \in Items : docs[k] > 1 => service = "rate" /\ k \in misread

\* A service that serves has a document for every item, but for those whose read
\* or insert failed in this very start.  Where the loop's last error is kept, the
\* last item is there; where a failed insert is fatal, only a failed read skips.
ServesAllButSkipped ==
  phase = "serving" =>
    /\ \A k \in Items : docs[k] > 0 \/ k \in skipped
    /\ P.keeps => docs[N] > 0 /\ N \notin skipped
    /\ P.insert = "fatal" => skipped \subseteq misread

\* What geo and user serve from is what the collection holds; recommendation may
\* serve with nothing at all, and say so nowhere.
MemoryIsStored ==
  phase = "serving" =>
    /\ service \in {"geo", "user"} => loaded = Stored
    /\ service = "recommendation" => loaded \in {{}, Stored}

\* When failures come to an end, every service ends up serving for good: no start
\* is in the way of the next one.
EventuallyServes == <>[](phase = "serving")
=============================================================================
