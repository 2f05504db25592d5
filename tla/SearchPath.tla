----------------------------- MODULE SearchPath -----------------------------
(***************************************************************************)
(* What happens to the searches of clients: SearchHandler of the frontend  *)
(* calls search, which calls geo and then rate, then it calls reservation  *)
(* and profile.  Several searches run at once; the processes they run in   *)
(* end together with every call in them, and are started again.            *)
(*                                                                         *)
(* rate and profile answer what modules RateCache and ProfileCache show    *)
(* they may answer (module Lookup): every hotel that has documents, but    *)
(* for a read that failed.  What reservation answers for a hotel depends   *)
(* on counts that are often outdated (module Reservation), so here it may  *)
(* go either way wherever rooms are scarce.                                *)
(***************************************************************************)
EXTENDS Integers, Sequences, FiniteSets, SequencesExt

CONSTANTS
  Requests,   \* the clients, each with one search at a time
  Points,     \* the hotels of geo, in the order InitializeDatabase inserts them
  Draws,      \* how many points geo draws: 5
  Bound,      \* ... from the first so many: 79 of 80
  Plans,      \* how many rate plans a hotel has; a failed read may add a second
  MaxPlans,   \* a bound on them
  TotalRate,  \* the rate of a hotel
  Profiled,   \* the hotels that have a profile
  Contested,  \* a bound: the hotels whose counts come near their capacity
  Nightless,  \* clients whose outDate is not after their inDate, or not a date
  Faults      \* "mongoError": databases fail, "cancel": clients go away

Hotels == Range(Points)
Services == {"geo", "rate", "search", "reservation", "profile"}
Readers == {"rate", "reservation"}  \* a call they make for a caller may end them

ASSUME ConstantsAssumption ==
  /\ Points \in Seq(Hotels) /\ IsInjective(Points)
  /\ Draws \in Nat /\ Bound \in 1..Len(Points)
  /\ MaxPlans \in Nat /\ Plans \in [Hotels -> 0..MaxPlans]
  /\ TotalRate \in [Hotels -> Int]

VARIABLES
  up,      \* the processes that serve
  index,   \* the points in geo's collection, which it loads when it starts
  orphans, \* the services with a handler whose caller has gone away
  pc,      \* where the search of a client is
  hotels,  \* the list it has reached there
  nearby,  \* (history) the points geo drew for it
  place,   \* (history) for which of them each hotel of the list is there
  roomy,   \* (history) the places that reservation judged to have a room
  excused  \* (history) those it judged full, or whose own read failed

process == <<up, index, orphans>>
history == <<nearby, place, roomy, excused>>
vars == <<process, pc, hotels, history>>

\* Searches that are in the process of search, which waits for geo or rate or
\* has just heard from them.
InSearch == {"search", "geo", "nearby", "rate", "rated", "failed"}
InFrontend == {"found", "checked", "profiled"}
Waiting == InSearch \cup InFrontend \cup {"check", "profile"}
Over == {"200", "400", "500", "gone"}

At(r, here) == pc[r] = here
Goto(r, there) == pc' = [pc EXCEPT ![r] = there]

DatabasesFail == "mongoError" \in Faults

\* The members of a finite set of numbers in their order, and what is left of a
\* list when only the members of S are kept: SelectSeq of the standard modules,
\* without recursion.
InOrder(K) ==
  [n \in 1..Cardinality(K) |->
     CHOOSE k \in K : Cardinality({j \in K : j <= k}) = n]
Only(s, S) ==
  LET kept == InOrder({k \in DOMAIN s : s[k] \in S}) IN
  [n \in DOMAIN kept |-> s[kept[n]]]

\* The searches in S come to nothing, and what they have reached is gone.
Drop(S) ==
  /\ hotels' = [r \in Requests |-> IF r \in S THEN <<>> ELSE hotels[r]]
  /\ nearby' = [r \in Requests |-> IF r \in S THEN <<>> ELSE nearby[r]]
  /\ place' = [r \in Requests |-> IF r \in S THEN <<>> ELSE place[r]]
  /\ roomy' = [r \in Requests |-> IF r \in S THEN {} ELSE roomy[r]]
  /\ excused' = [r \in Requests |-> IF r \in S THEN {} ELSE excused[r]]

-----------------------------------------------------------------------------
(* The processes *)

Init ==
  /\ up = {} /\ index = <<>> /\ orphans = {}
  /\ pc = [r \in Requests |-> "new"]
  /\ hotels = [r \in Requests |-> <<>>]
  /\ nearby = [r \in Requests |-> <<>>]
  /\ place = [r \in Requests |-> <<>>]
  /\ roomy = [r \in Requests |-> {}]
  /\ excused = [r \in Requests |-> {}]

\* (mutant) No point is looked up before it is inserted.
StartGeoAgain ==
  /\ "geo" \notin up /\ up' = up \cup {"geo"}
  /\ \E S \in IF DatabasesFail THEN SUBSET Hotels ELSE {Hotels} :
       index' = index \o Only(Points, S)
  /\ UNCHANGED <<orphans, pc, hotels, history>>

\* geo inserts the points that are missing and loads the collection; a failed
\* insert leaves a point out (module Startup).
StartGeo ==
  /\ "geo" \notin up /\ up' = up \cup {"geo"}
  /\ \E S \in IF DatabasesFail THEN SUBSET Hotels ELSE {Hotels} :
       index' = index \o Only(Points, S \ Range(index))
  /\ UNCHANGED <<orphans, pc, hotels, history>>

Start(s) ==
  /\ s \notin up /\ up' = up \cup {s}
  /\ UNCHANGED <<index, orphans, pc, hotels, history>>

\* A process ends: what waits for it hears an error.
Falls(s, p) ==
  CASE s = "search" /\ p \in InSearch    -> "500"
    [] s = "geo" /\ p = "geo"            -> "failed"
    [] s = "rate" /\ p = "rate"          -> "failed"
    [] s = "reservation" /\ p = "check"  -> "500"
    [] OTHER                             -> p

\* (mutant) What waits for the process does not notice.
DiesAlone(s) ==
  /\ up' = up \ {s}
  /\ orphans' = orphans \ {s}
  /\ UNCHANGED <<index, pc, hotels, history>>

\* ... and what it waits for works for nobody.
Dies(s) ==
  /\ up' = up \ {s}
  /\ pc' = [r \in Requests |-> Falls(s, pc[r])]
  /\ orphans' = (orphans \ {s}) \cup
       IF s = "search" /\ \E r \in Requests : At(r, "rate") THEN {"rate"} ELSE {}
  /\ Drop({r \in Requests : Falls(s, pc[r]) # pc[r]})
  /\ UNCHANGED index

-----------------------------------------------------------------------------
(* The frontend and search *)

\* A parameter is missing, or search is called; a process that is not there
\* fails the call at once.
SearchHandler(r) ==
  /\ At(r, "new")
  /\ \/ Goto(r, "400")
     \/ "search" \in up /\ Goto(r, "search")
     \/ "search" \notin up /\ Goto(r, "500")
  /\ UNCHANGED <<process, hotels, history>>

CallGeo(r) ==
  /\ At(r, "search")
  /\ Goto(r, IF "geo" \in up THEN "geo" ELSE "failed")
  /\ UNCHANGED <<process, hotels, history>>

CallRate(r) ==
  /\ At(r, "nearby")
  /\ \/ "rate" \in up /\ Goto(r, "rate") /\ UNCHANGED <<hotels, history>>
     \/ "rate" \notin up /\ Goto(r, "failed") /\ Drop({r})
  /\ UNCHANGED process

\* (mutant) An error of geo or rate is no reason to end: the call is made again.
TriesAgain(r) ==
  /\ At(r, "failed")
  /\ Goto(r, "search")
  /\ UNCHANGED <<process, hotels, history>>

\* log.Fatalf: an error of geo or rate ends the process.
Fatal(r) == At(r, "failed") /\ Dies("search")

\* The hotel of each rate plan, in the order of the plans.
Respond(r) ==
  /\ At(r, "rated")
  /\ Goto(r, "found")
  /\ UNCHANGED <<process, hotels, history>>

Check(r) ==
  /\ At(r, "found")
  /\ \/ "reservation" \in up /\ Goto(r, "check") /\ UNCHANGED <<hotels, history>>
     \/ "reservation" \notin up /\ Goto(r, "500") /\ Drop({r})
  /\ UNCHANGED process

Profile(r) ==
  /\ At(r, "checked")
  /\ \/ "profile" \in up /\ Goto(r, "profile") /\ UNCHANGED <<hotels, history>>
     \/ "profile" \notin up /\ Goto(r, "500") /\ Drop({r})
  /\ UNCHANGED process

\* geoJSONResponse: a feature for each profile.
Answer(r) ==
  /\ At(r, "profiled")
  /\ Goto(r, "200")
  /\ UNCHANGED <<process, hotels, history>>

-----------------------------------------------------------------------------
(* The services below *)


\* getNearbyPoints draws with repetition, and never looks at where the caller
\* is.  An index that is too short panics.
GeoNearby(r) ==
  /\ At(r, "geo") /\ "geo" \in up
  /\ \E drawn \in [1..Draws -> 1..Bound] :
       IF \A k \in 1..Draws : drawn[k] <= Len(index)
         THEN LET found == [k \in 1..Draws |-> index[drawn[k]]] IN
              /\ Goto(r, "nearby")
              /\ hotels' = [hotels EXCEPT ![r] = found]
              /\ nearby' = [nearby EXCEPT ![r] = found]
              /\ place' = [place EXCEPT ![r] = [k \in 1..Draws |-> k]]
              /\ UNCHANGED <<process, roomy, excused>>
         ELSE Dies("geo")

\* A reply to a list of hotels: the members of the list that are answered, and
\* the places whose members are left out for a reason of their own.
Reply(r, kept, out) ==
  /\ hotels' = [hotels EXCEPT ![r] = [n \in DOMAIN kept |-> hotels[r][kept[n]]]]
  /\ place' = [place EXCEPT ![r] = [n \in DOMAIN kept |-> place[r][kept[n]]]]
  /\ excused' = [excused EXCEPT ![r] = @ \cup {place[r][k] : k \in out}]
  /\ UNCHANGED <<process, nearby>>

Times(s, x) == Cardinality({k \in DOMAIN s : s[k] = x})
Descending(s) == \A k, l \in DOMAIN s : k < l => TotalRate[s[k]] >= TotalRate[s[l]]

\* GetRates: the hotel of each plan, the highest rate first.  A hotel whose
\* cursor.All fails seems to have none, and is left out; a memcached entry may
\* be from before a second plan.
GetRates(r) ==
  /\ At(r, "rate") /\ "rate" \in up
  /\ \E unread \in IF DatabasesFail THEN SUBSET DOMAIN hotels[r] ELSE {{}} :
     \E n \in 0..MaxPlans * Len(hotels[r]) : \E kept \in [1..n -> DOMAIN hotels[r]] :
       /\ \A k \in DOMAIN hotels[r] :
            /\ Times(kept, k) <= Plans[hotels[r][k]]
            /\ Times(kept, k) = 0 <=> Plans[hotels[r][k]] = 0 \/ k \in unread
       /\ Reply(r, kept, unread)
       /\ Descending(hotels'[r])
  /\ Goto(r, "rated")
  /\ UNCHANGED roomy

\* A failed Find or Get ends the process of rate, of reservation too.
DatabaseFails(r) ==
  /\ DatabasesFail
  /\ \/ At(r, "rate") /\ "rate" \in up /\ Dies("rate")
     \/ At(r, "check") /\ "reservation" \in up /\ Dies("reservation")

\* (mutant) profile is asked for what search found, not for what has a room.
ForgetsReply(r) ==
  /\ At(r, "check") /\ "reservation" \in up
  /\ \E room \in SUBSET DOMAIN hotels[r] :
       /\ \A k \in DOMAIN hotels[r] \ room :
            r \in Nightless \/ hotels[r][k] \in Contested \/ DatabasesFail
       /\ roomy' = [roomy EXCEPT ![r] = {place[r][k] : k \in room}]
       /\ excused' = [excused EXCEPT ![r] = @ \cup {place[r][k] : k \in DOMAIN hotels[r] \ room}]
  /\ Goto(r, "checked")
  /\ UNCHANGED <<process, hotels, nearby, place>>

\* CheckAvailability: the members of the list, each judged by itself, that are
\* found to have a room in every night of a stay that has nights.  Where rooms
\* are scarce that depends on what is cached and on who books meanwhile; a
\* failed FindOne of the capacity makes any hotel full.
CheckAvailability(r) ==
  /\ At(r, "check") /\ "reservation" \in up
  /\ \E room \in SUBSET DOMAIN hotels[r] :
       LET full == DOMAIN hotels[r] \ room IN
       /\ r \in Nightless => room = {}
       /\ r \notin Nightless =>
            \A k \in full : hotels[r][k] \in Contested \/ DatabasesFail
       /\ Reply(r, InOrder(room), full)
       /\ roomy' = [roomy EXCEPT ![r] = {place[r][k] : k \in room}]
  /\ Goto(r, "checked")

\* GetProfiles: those that have a profile, but for a FindOne that fails.
GetProfiles(r) ==
  /\ At(r, "profile") /\ "profile" \in up
  /\ \E unread \in IF DatabasesFail THEN SUBSET DOMAIN hotels[r] ELSE {{}} :
       Reply(r, InOrder({k \in DOMAIN hotels[r] \ unread : hotels[r][k] \in Profiled}),
             unread)
  /\ Goto(r, "profiled")
  /\ UNCHANGED roomy

-----------------------------------------------------------------------------
(* Clients that go away, and come again *)

\* The context of the search is cancelled, and with it the calls made for it:
\* the one search waits for, or makes next, fails.
Cancel(r) ==
  /\ "cancel" \in Faults
  /\ pc[r] \in Waiting \ {"failed"}
  /\ Goto(r, IF pc[r] \in {"search", "geo", "nearby", "rate"} THEN "failed" ELSE "gone")
  /\ orphans' = orphans \cup
       CASE At(r, "rate") -> {"rate"} [] At(r, "check") -> {"reservation"} [] OTHER -> {}
  /\ Drop({r})
  /\ UNCHANGED <<up, index>>

\* A handler whose context is cancelled: its next Find fails and ends the
\* process, or it makes none (all hotels were in memcached).
Orphan(s) ==
  /\ s \in orphans
  /\ \/ Dies(s)
     \/ orphans' = orphans \ {s} /\ UNCHANGED <<up, index, pc, hotels, history>>

\* The next search of a client.
SearchAgain(r) ==
  /\ pc[r] \in Over /\ Goto(r, "new")
  /\ Drop({r})
  /\ UNCHANGED process

-----------------------------------------------------------------------------

Handle(r) ==
  \/ SearchHandler(r) \/ CallGeo(r) \/ CallRate(r) \/ Fatal(r) \/ Respond(r)
  \/ Check(r) \/ Profile(r) \/ Answer(r)
  \/ GeoNearby(r) \/ GetRates(r) \/ DatabaseFails(r)
  \/ CheckAvailability(r) \/ GetProfiles(r)

Next ==
  \/ StartGeo
  \/ \E s \in Services \ {"geo"} : Start(s)
  \/ \E s \in Readers : Orphan(s)
  \/ \E r \in Requests : Handle(r) \/ Cancel(r) \/ SearchAgain(r)

Spec == Init /\ [][Next]_vars

\* restart: always; every handler runs on, and so does one nobody waits for.
FairSpec ==
  /\ Spec
  /\ WF_vars(StartGeo)
  /\ \A s \in Services \ {"geo"} : WF_vars(Start(s))
  /\ \A s \in Readers : WF_vars(Orphan(s))
  /\ \A r \in Requests : WF_vars(Handle(r))

-----------------------------------------------------------------------------
(* Properties *)

\* The variables have their types, and geo has no point twice.
TypeOK ==
  /\ up \subseteq Services /\ orphans \subseteq Services
  /\ index \in Seq(Hotels) /\ IsInjective(index)
  /\ pc \in [Requests -> {"new"} \cup Waiting \cup Over]
  /\ hotels \in [Requests -> Seq(Hotels)]
  /\ nearby \in [Requests -> Seq(Hotels)]
  /\ place \in [Requests -> Seq(1..Draws)]
  /\ roomy \in [Requests -> SUBSET (1..Draws)]
  /\ excused \in [Requests -> SUBSET (1..Draws)]

\* No search waits for a process that is gone: whichever process ends, and
\* however it drags others along, each caller above it hears of it.
NoneWaitsForTheDead ==
  \A r \in Requests :
    /\ pc[r] \in InSearch => "search" \in up
    /\ pc[r] \in {"geo", "rate", "profile"} => pc[r] \in up
    /\ pc[r] = "check" => "reservation" \in up

\* What a search is answered with, after five services and whatever other
\* searches, failed reads and restarts did meanwhile: each hotel shown is there
\* for a point that geo drew for this search, has a profile, and was judged to
\* have a room by this search's own check; a point is shown at most once for each
\* plan; one whose hotel has a plan and a profile is missing only when
\* reservation judged it full or its own read failed; and the order by rate that
\* rate gives them is still there at the end.
ShowsWhatWasFound ==
  \A r \in Requests : pc[r] = "200" =>
    /\ Descending(hotels[r])
    /\ \A n \in DOMAIN hotels[r] :
         /\ hotels[r][n] = nearby[r][place[r][n]]
         /\ hotels[r][n] \in Profiled
         /\ place[r][n] \in roomy[r]
    /\ \A k \in DOMAIN nearby[r] :
         /\ Times(place[r], k) <= Plans[nearby[r][k]]
         /\ Plans[nearby[r][k]] > 0 /\ nearby[r][k] \in Profiled /\ k \notin excused[r] =>
              \E n \in DOMAIN hotels[r] : place[r][n] = k

\* Every search is answered, fails, or is given up by its client.
EverySearchEnds == \A r \in Requests : pc[r] = "new" ~> pc[r] \in Over

SearchFails == \E r \in Requests : pc[r] # "500" /\ pc'[r] = "500"

\* A client goes away, a database call fails that its caller does not survive,
\* or a start of geo leaves points out.
Disturbance ==
  \/ \E r \in Requests : Cancel(r) \/ DatabaseFails(r)
  \/ "geo" \notin up /\ "geo" \in up' /\ Range(index') # Hotels

=============================================================================
