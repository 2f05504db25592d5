------------------------------ MODULE Frontend ------------------------------
(***************************************************************************)
(* The frontend, up to the replies its clients get from /user,             *)
(* /reservation and /recommendations (module SearchPath has /hotels).      *)
(* Guests call it, and call it again when a call failed.  It asks the user *)
(* service for their passwords, and the reservation service for rooms: the *)
(* latter is module BookingDesk, which Reservation implements.             *)
(***************************************************************************)
EXTENDS Integers, Sequences, FiniteSets

CONSTANTS
  Guests,      \* one user account each
  MaxTries,    \* a bound: the calls a guest makes
  Paths,       \* what they call, of AllPaths
  Forms,       \* the parameters guests send, see Form
  Hotels,
  LastDay,     \* the days are 1..LastDay
  Stock,       \* rooms of a hotel
  MaxInt, MaxInt32,                \* the largest of their type
  Missing, Malformed, Impossible   \* parameters that are no dates or no numbers

Dates == 1..LastDay \cup {Missing, Malformed, Impossible}
Form == [in: Dates, out: Dates, hotel: Hotels,
         complete: BOOLEAN,   \* whether the other parameters are there
         number: Int \cup {Missing, Malformed}]

AllPaths == {"/user", "/reservation", "/recommendations"}

ASSUME ConstantsAssumption ==
  /\ Forms \subseteq Form
  /\ MaxTries \in [Guests -> Nat] /\ LastDay \in Nat
  /\ Paths \subseteq AllPaths
  /\ MaxInt \in Nat /\ MaxInt32 \in 0..MaxInt
  /\ Missing \notin Int /\ Malformed \notin Int /\ Impossible \notin Int
  /\ Stock \in [Hotels -> Nat]

Services == {"user", "reservation"} \cup
            IF "/recommendations" \in Paths THEN {"recommendation", "profile"} ELSE {}
Tries == UNION {{g} \X (1..MaxTries[g]) : g \in Guests}

VARIABLES
  form,      \* what each guest asks for; never changes
  up,        \* the processes that serve
  stored,    \* the accounts in the collection "user"
  users,     \* s.users of the user service
  path,      \* what a try calls
  right,     \* whether it sends the guest's password
  pc,
  correct,   \* recResp.Correct
  message,   \* what the guest is told
  status, claimed, answer, unread,   \* of BookingDesk
  stays      \* history: the tries that claimed rooms

service == <<up, stored, users>>
handler == <<path, right, pc, correct, message>>
desk == <<status, claimed, answer, unread>>
vars == <<form, service, handler, desk, stays>>

-----------------------------------------------------------------------------
(* From the parameters of /reservation to a pb.Request *)

checkDataFormat(date) == date \notin {Missing, Malformed}

\* time.Parse returns year 1 with its error, which is dropped: night 0 stands for
\* all the nights from year 1 to the first day.
Day(date) == IF date = Impossible THEN 0 ELSE date
Nights == 0..(LastDay - 1)

\* (mutant) One room where there is no number.
AtoiOne(num) ==
  CASE num \in {Missing, Malformed} -> 1
    [] OTHER -> num

\* strconv.Atoi: 0 for what is no number, and the nearest int for what is too
\* large.  Its error is dropped.
Atoi(num) ==
  CASE num \in {Missing, Malformed} -> 0
    [] num \in Int /\ num > MaxInt -> MaxInt
    [] num \in Int /\ num < -MaxInt - 1 -> -MaxInt - 1
    [] OTHER -> num

\* int32(n) keeps the low bits.
int32(n) == ((n + MaxInt32 + 1) % (2 * (MaxInt32 + 1))) - MaxInt32 - 1

\* A form that is not well formed is never sent.
Request(f) ==
  [op |-> "make", hotels |-> <<f.hotel>>, rooms |-> int32(Atoi(f.number)),
   nights |-> IF checkDataFormat(f.in) /\ checkDataFormat(f.out)
                THEN {n \in Nights : Day(f.in) <= n /\ n < Day(f.out)} ELSE {}]

Guest(a) == a[1]
Requested == [a \in Tries |-> Request(form[Guest(a)])]

Desk == INSTANCE BookingDesk WITH
  Requests <- Tries, Calls <- {Request(f) : f \in Forms},
  Opening <- [k \in Hotels \X Nights |-> 0],
  call <- Requested

-----------------------------------------------------------------------------

Goto(a, there) == pc' = [pc EXCEPT ![a] = there]

\* The reply, and the end of the handler.
Reply(a, m) ==
  /\ Goto(a, "done")
  /\ message' = [message EXCEPT ![a] = m]

\* (mutant) A failed call ends the handler without a reply.
CallUntold(a, s) ==
  \/ s \in up /\ Goto(a, s) /\ UNCHANGED message
  \/ s \notin up /\ Goto(a, "done") /\ UNCHANGED message

\* A call to a service, which fails at once when its process is not there.
Call(a, s) ==
  \/ s \in up /\ Goto(a, s) /\ UNCHANGED message
  \/ s \notin up /\ Reply(a, "500")

Init ==
  /\ form \in [Guests -> Forms]
  /\ up = {} /\ stored = {} /\ users = {}
  /\ path = [a \in Tries |-> "none"]
  /\ right = [a \in Tries |-> FALSE]
  /\ pc = [a \in Tries |-> "idle"]
  /\ correct = [a \in Tries |-> FALSE]
  /\ message = [a \in Tries |-> "none"]
  /\ Desk!Init
  /\ stays = {}

\* A guest calls the frontend, and again until it is told that it has its rooms.
Send(a) ==
  /\ pc[a] = "idle"
  /\ a[2] > 1 => LET before == <<a[1], a[2] - 1>> IN
                 pc[before] = "done" /\ message[before] # "Reserve successfully!"
  /\ Goto(a, "sent")
  /\ \E p \in Paths, b \in BOOLEAN :
       path' = [path EXCEPT ![a] = p] /\ right' = [right EXCEPT ![a] = b]
  /\ UNCHANGED <<form, service, correct, message, desk, stays>>

\* The connection of the guest ends, or the frontend does: the call is cancelled,
\* and what a service does for it goes on.
GiveUp(a) ==
  /\ pc[a] \notin {"idle", "done"}
  /\ Reply(a, "gone")
  /\ UNCHANGED <<form, service, path, right, correct, desk, stays>>

-----------------------------------------------------------------------------
(* The processes *)

\* (mutant) An account may be missing from what is loaded.
StartUserPartly ==
  /\ "user" \notin up /\ up' = up \cup {"user"}
  /\ stored' \in {S \in SUBSET Guests : stored \subseteq S}
  /\ users' \in SUBSET stored'
  /\ UNCHANGED <<form, handler, desk, stays>>

\* InitializeDatabase inserts accounts that are missing; a failed read skips one
\* (module Startup).  Then they are loaded.
StartUser ==
  /\ "user" \notin up /\ up' = up \cup {"user"}
  /\ stored' \in {S \in SUBSET Guests : stored \subseteq S}
  /\ users' = stored'
  /\ UNCHANGED <<form, handler, desk, stays>>

Start(s) ==
  /\ s # "user" /\ s \notin up /\ up' = up \cup {s}
  /\ UNCHANGED <<form, stored, users, handler, desk, stays>>

\* (mutant) Nobody who waits for a process notices that it ends.
DieUnnoticed(s) ==
  /\ s \in up /\ up' = up \ {s}
  /\ UNCHANGED <<form, stored, users, handler, stays>>
  /\ IF s = "reservation" THEN Desk!Lose ELSE UNCHANGED desk

\* A process ends, and every call to it.
Die(s) ==
  /\ s \in up /\ up' = up \ {s}
  /\ pc' = [a \in Tries |-> IF pc[a] = s THEN "done" ELSE pc[a]]
  /\ message' = [a \in Tries |-> IF pc[a] = s THEN "500" ELSE message[a]]
  /\ UNCHANGED <<form, stored, users, path, right, correct, stays>>
  /\ IF s = "reservation" THEN Desk!Lose ELSE UNCHANGED desk

-----------------------------------------------------------------------------
(* The handlers *)

At(a, p, here) == path[a] = p /\ pc[a] = here
handled == <<form, service, path, right, correct, desk, stays>>

userHandler(a) ==
  /\ At(a, "/user", "sent")
  /\ IF form[Guest(a)].complete THEN Call(a, "user") ELSE Reply(a, "400")
  /\ UNCHANGED handled

recommendHandler(a) ==
  /\ At(a, "/recommendations", "sent")
  /\ IF form[Guest(a)].complete THEN Call(a, "recommendation") ELSE Reply(a, "400")
  /\ UNCHANGED handled

reservationHandler(a) ==
  /\ At(a, "/reservation", "sent")
  /\ LET f == form[Guest(a)] IN
     IF checkDataFormat(f.in) /\ checkDataFormat(f.out) /\ f.complete
       THEN Call(a, "user") ELSE Reply(a, "400")
  /\ UNCHANGED handled

\* The user service.
CheckUser(a) ==
  /\ pc[a] = "user" /\ "user" \in up
  /\ Goto(a, "checked")
  /\ correct' = [correct EXCEPT ![a] = Guest(a) \in users /\ right[a]]
  /\ UNCHANGED <<form, service, path, right, message, desk, stays>>

\* "Failed. Please check your username and password. "
LoginReply(a) ==
  /\ At(a, "/user", "checked")
  /\ Reply(a, IF correct[a] THEN "Login successfully!" ELSE "Check password")
  /\ UNCHANGED handled

\* Whatever CheckUser said.
CallReservation(a) ==
  /\ At(a, "/reservation", "checked")
  /\ Call(a, "reservation")
  /\ UNCHANGED <<form, service, path, right, correct, stays>>
  /\ IF "reservation" \in up
       THEN IF Requested[a].nights = {} THEN Desk!Trivial(a) ELSE Desk!Open(a)
       ELSE UNCHANGED desk

\* (mutant) An empty reply is taken for a booking.
ReservationReplyAlways(a) ==
  /\ pc[a] = "reservation" /\ status[a] = "done"
  /\ Reply(a, IF correct[a] THEN "Reserve successfully!" ELSE "Check password")
  /\ UNCHANGED handled

\* (mutant) A booking of a guest without the password is said not to be there.
ReservationReplyStrict(a) ==
  /\ pc[a] = "reservation" /\ status[a] = "done"
  /\ Reply(a, IF answer[a] = <<>> \/ ~correct[a]
                THEN "Already reserved" ELSE "Reserve successfully!")
  /\ UNCHANGED handled

\* "Failed. Already reserved. " takes the place of either other message.
ReservationReply(a) ==
  /\ pc[a] = "reservation" /\ status[a] = "done"
  /\ Reply(a, CASE answer[a] = <<>> -> "Already reserved"
                [] answer[a] # <<>> /\ correct[a] -> "Reserve successfully!"
                [] OTHER -> "Check password")
  /\ UNCHANGED handled

\* The reservation service works on the request, also when nobody waits for it.
Reserve(a) ==
  /\ "reservation" \in up
  /\ UNCHANGED <<form, service, handler>>
  /\ \/ Desk!Claim(a) /\ stays' = stays \cup {a}
     \/ Desk!Confirm(a) /\ UNCHANGED stays
     \/ \E S \in SUBSET {form[Guest(a)].hotel} : Desk!Refuse(a, S) /\ UNCHANGED stays

\* recommendHandler, when it has the hotels of GetRecommendations.
CallProfile(a) ==
  /\ pc[a] = "recommendation" /\ "recommendation" \in up
  /\ Call(a, "profile")
  /\ UNCHANGED handled

GetProfiles(a) ==
  /\ pc[a] = "profile" /\ "profile" \in up
  /\ Reply(a, "200")
  /\ UNCHANGED handled

Handle(a) ==
  \/ userHandler(a) \/ recommendHandler(a) \/ reservationHandler(a)
  \/ CheckUser(a) \/ LoginReply(a)
  \/ CallReservation(a) \/ ReservationReply(a) \/ Reserve(a)
  \/ CallProfile(a) \/ GetProfiles(a)

Next ==
  \/ StartUser
  \/ \E s \in Services : Start(s) \/ Die(s)
  \/ \E a \in Tries : Send(a) \/ GiveUp(a) \/ Handle(a)

Spec == Init /\ [][Next]_vars

\* restart: always, and a goroutine for each call in each process.
FairSpec ==
  /\ Spec
  /\ WF_vars(StartUser) /\ \A s \in Services : WF_vars(Start(s))
  /\ \A a \in Tries : WF_vars(Handle(a))

-----------------------------------------------------------------------------
(* Properties *)

Told == {"none", "200", "400", "500", "gone", "Login successfully!",
         "Check password", "Reserve successfully!", "Already reserved"}

\* The variables have their types, and a try has been replied to when it is done.
TypeOK ==
  /\ form \in [Guests -> Forms]
  /\ up \subseteq Services
  /\ stored \subseteq Guests /\ users \subseteq stored
  /\ path \in [Tries -> {"none"} \cup Paths]
  /\ right \in [Tries -> BOOLEAN]
  /\ pc \in [Tries -> {"idle", "sent", "checked", "done"} \cup Services]
  /\ correct \in [Tries -> BOOLEAN]
  /\ message \in [Tries -> Told]
  /\ status \in [Tries -> {"new", "open", "held", "done", "lost"}]
  /\ claimed \in [Hotels \X Nights -> Int]
  /\ answer \in [Tries -> Seq(Hotels)]
  /\ unread \in [Tries -> SUBSET Hotels]
  /\ stays \subseteq Tries
  /\ \A a \in Tries : pc[a] = "done" <=> message[a] # "none"

\* A night between the dates a guest gave.
AsksForANight(f) ==
  /\ {f.in, f.out} \cap {Missing, Malformed} = {}
  /\ f.out # Impossible
  /\ f.in = Impossible \/ f.in < f.out

\* A guest is told the truth about its rooms: "Reserve successfully!" only with
\* the right password, and with the rooms claimed if there is a night between the
\* dates; "Already reserved" and a 400 only when the try has claimed none and
\* never will.
RepliesAreTrue ==
  \A a \in Tries :
    /\ message[a] = "Reserve successfully!" =>
         /\ right[a]
         /\ AsksForANight(form[Guest(a)]) => a \in stays
    /\ message[a] \in {"Already reserved", "400"} =>
         a \notin stays /\ status[a] \in {"new", "done"}

\* What a try asks for: no rooms where there is no number, and the nights of a
\* hotel.
Asked(a) == LET x == form[Guest(a)].number IN IF x \in {Missing, Malformed} THEN 0 ELSE x
Covers(a, h, n) ==
  LET f == form[Guest(a)] IN
  f.hotel = h /\ (f.in = Impossible \/ f.in <= n) /\ n < f.out

\* The sum of Asked over a set of tries (a guest may ask for -1 rooms).
Units(S) == UNION {{a} \X (1..Asked(a)) : a \in S}
Debts(S) == UNION {{a} \X (1..(-Asked(a))) : a \in S}
AllAsked(S) == Cardinality(Units(S)) - Cardinality(Debts(S))

\* The rooms claimed for a night are those the calls asked for whose dates it is
\* between, in the first try or in a later one; a call without a number claims
\* none.  For numbers that fit an int32.
ClaimsAreAsked ==
  (\A a \in stays : Asked(a) \in -MaxInt32-1..MaxInt32) =>
    \A h \in Hotels, n \in Nights :
      claimed[<<h, n>>] = AllAsked({a \in stays : Covers(a, h, n)})

\* A guest that calls again may get its rooms twice: only after a 500, after
\* having gone away, or after having been told to check its password; then the
\* rooms of the call before may be claimed.
StaysAreExplained ==
  \A g \in Guests :
    Cardinality({a \in stays : Guest(a) = g}) <=
      1 + Cardinality({a \in Tries : /\ Guest(a) = g
                                     /\ message[a] \in {"500", "gone", "Check password"}})

\* A guest that has logged in is never again told to check that password, however
\* often the user service restarts and loads its accounts again.
LoginLasts ==
  \A a, b \in Tries :
    /\ Guest(a) = Guest(b) /\ a[2] < b[2]
    /\ message[a] = "Login successfully!" /\ right[b]
    => message[b] # "Check password"

\* Every call is replied to, or given up, whatever services end meanwhile.
EveryTryEnds == \A a \in Tries : pc[a] = "sent" ~> pc[a] = "done"

\* A guest that is told to check its password has claimed no rooms.
FailedLoginBooksNothing ==
  \A a \in Tries : message[a] = "Check password" => a \notin stays
=============================================================================
