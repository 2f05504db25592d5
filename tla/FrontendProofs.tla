--------------------------- MODULE FrontendProofs ---------------------------
(***************************************************************************)
(* What the frontend tells a guest about its rooms is true, for any number *)
(* of guests and tries, whatever services end and restart.  The invariant  *)
(* follows one try: where its handler is says how far the reservation      *)
(* service can be with it, and what the service has done with it says      *)
(* whether rooms were claimed.                                             *)
(***************************************************************************)
EXTENDS Frontend, TLAPS, FiniteSetTheorems

Types ==
  /\ form \in [Guests -> Forms]
  /\ right \in [Tries -> BOOLEAN] /\ correct \in [Tries -> BOOLEAN]
  /\ pc \in [Tries -> {"idle", "sent", "checked", "done", "user", "reservation",
                       "recommendation", "profile"}]
  /\ message \in [Tries -> Told]
  /\ status \in [Tries -> {"new", "open", "held", "done", "lost"}]
  /\ answer \in [Tries -> Seq(Hotels)]

NoNight(a) == Requested[a].nights = {}

\* Where the handler is, and where the request is in the reservation service.
Progress(a) ==
  /\ pc[a] \notin {"reservation", "done"} => status[a] = "new"
  /\ pc[a] = "reservation" => status[a] \in {"open", "held", "done"}
  /\ pc[a] = "idle" => correct[a] = FALSE
  /\ correct[a] = TRUE => right[a] = TRUE

\* What the service has done with it, and the rooms.
Booked(a) ==
  /\ status[a] \in {"new", "open"} => a \notin stays /\ answer[a] = <<>>
  /\ status[a] = "held" => a \in stays
  /\ status[a] = "done" /\ answer[a] = <<>> => a \notin stays
  /\ status[a] = "done" /\ answer[a] # <<>> /\ ~NoNight(a) => a \in stays

\* What the guest has been told.
Truth(a) ==
  /\ message[a] = "400" => pc[a] = "done" /\ status[a] = "new"
  /\ message[a] = "Already reserved" =>
       pc[a] = "done" /\ status[a] = "done" /\ answer[a] = <<>>
  /\ message[a] = "Reserve successfully!" =>
       /\ pc[a] = "done" /\ status[a] = "done" /\ answer[a] # <<>>
       /\ right[a] = TRUE

IInv == Types /\ \A a \in Tries : Progress(a) /\ Booked(a) /\ Truth(a)

-----------------------------------------------------------------------------
(* Requests *)

LEMMA TryOfGuest == \A a \in Tries : Guest(a) \in Guests
  BY DEF Tries, Guest

LEMMA HotelList ==
  ASSUME IInv, NEW a \in Tries
  PROVE  /\ <<form[Guest(a)].hotel>> \in Seq(Hotels)
         /\ <<form[Guest(a)].hotel>> # <<>>
<1>1. form[Guest(a)] \in Form
  BY TryOfGuest, ConstantsAssumption DEF IInv, Types
<1>2. form[Guest(a)].hotel \in Hotels
  BY <1>1 DEF Form
<1> QED BY <1>2

\* A form with a night between its dates makes a request for a night.
LEMMA NightAsked ==
  ASSUME NEW f \in Form, AsksForANight(f)
  PROVE  Request(f).nights # {}
<1> USE ConstantsAssumption
<1>1. f.in \in Dates /\ f.out \in 1..LastDay
  BY DEF Form, Dates, AsksForANight
<1>2. checkDataFormat(f.in) /\ checkDataFormat(f.out)
  BY DEF AsksForANight, checkDataFormat
<1>3. Day(f.out) = f.out
  BY <1>1 DEF Day
<1>4. Day(f.in) \in Nights /\ Day(f.in) < Day(f.out)
  <2>1. CASE f.in = Impossible
    BY <1>1, <1>3, <2>1 DEF Day, Nights
  <2>2. CASE f.in # Impossible
    <3>1. f.in \in 1..LastDay /\ f.in < f.out
      BY <1>1, <2>2 DEF Dates, AsksForANight
    <3> QED BY <1>1, <1>3, <3>1, <2>2 DEF Day, Nights
  <2> QED BY <2>1, <2>2
<1>5. Day(f.in) <= Day(f.in)
  BY <1>4 DEF Nights
<1>6. Request(f).nights = {n \in Nights : Day(f.in) <= n /\ n < Day(f.out)}
  BY <1>2 DEF Request
<1> QED BY <1>4, <1>5, <1>6



-----------------------------------------------------------------------------
(* Steps *)

Fine(a) == Progress(a) /\ Booked(a) /\ Truth(a)

\* What a step may change of a try.
Same(b) ==
  /\ pc'[b] = pc[b] /\ message'[b] = message[b]
  /\ correct'[b] = correct[b] /\ right'[b] = right[b]
  /\ status'[b] = status[b] /\ answer'[b] = answer[b]
  /\ b \in stays' <=> b \in stays

LEMMA SameIsFine ==
  ASSUME NEW b \in Tries, form' = form, Same(b), Fine(b)
  PROVE  Fine(b)'
<1>1. NoNight(b)' <=> NoNight(b)
  BY DEF NoNight, Requested
<1> QED BY <1>1 DEF Same, Fine, Progress, Booked, Truth

\* A step that changes one try only.
LEMMA OneTry ==
  ASSUME IInv, NEW a \in Tries, form' = form, Types', Fine(a)',
         \A b \in Tries \ {a} : Same(b)
  PROVE  IInv'
<1>1. \A b \in Tries : Fine(b)
  BY DEF IInv, Fine
<1>2. \A b \in Tries : Fine(b)'
  BY <1>1, SameIsFine
<1> QED BY <1>2 DEF IInv, Fine

\* A reply that is neither a refusal nor a success, of a handler that is not
\* waiting for the reservation service, or is told that it failed.
LEMMA PlainReply ==
  ASSUME IInv, NEW a \in Tries, NEW m \in Told, Reply(a, m),
         pc[a] # "idle", m \notin {"Already reserved", "Reserve successfully!"},
         m = "400" => pc[a] \notin {"reservation", "done"},
         UNCHANGED <<form, right, correct, desk, stays>>
  PROVE  IInv'
<1>1. Types'
  BY DEF IInv, Types, Reply, Goto, desk
<1>2. pc'[a] = "done" /\ message'[a] = m
  BY DEF IInv, Types, Reply, Goto
<1>3. \A b \in Tries \ {a} : Same(b)
  BY DEF IInv, Types, Reply, Goto, desk, Same
<1>4. Fine(a)'
  <2>1. NoNight(a)' <=> NoNight(a)
    BY DEF NoNight, Requested
  <2>2. Progress(a) /\ Booked(a) /\ status' = status /\ answer' = answer
    BY DEF IInv, desk
  <2> QED BY <1>2, <2>1, <2>2 DEF Fine, Progress, Booked, Truth
<1> QED BY <1>1, <1>3, <1>4, OneTry

\* A handler moves on without a reply and without the reservation service.
LEMMA PlainMove ==
  ASSUME IInv, NEW a \in Tries,
         NEW p \in {"sent", "checked", "user", "recommendation", "profile"},
         Goto(a, p), pc[a] \notin {"reservation", "done"},
         UNCHANGED <<form, message, desk, stays>>,
         correct' \in [Tries -> BOOLEAN], right' \in [Tries -> BOOLEAN],
         correct'[a] = TRUE => right'[a] = TRUE,
         \A b \in Tries \ {a} : correct'[b] = correct[b] /\ right'[b] = right[b]
  PROVE  IInv'
<1>1. Types'
  BY DEF IInv, Types, Goto, desk
<1>2. pc'[a] = p
  BY DEF IInv, Types, Goto
<1>3. \A b \in Tries \ {a} : Same(b)
  BY DEF IInv, Types, Goto, desk, Same
<1>4. Fine(a)'
  <2>1. NoNight(a)' <=> NoNight(a)
    BY DEF NoNight, Requested
  <2>2. /\ Progress(a) /\ Booked(a) /\ Truth(a)
        /\ status' = status /\ answer' = answer
    BY DEF IInv, desk
  <2> QED BY <1>2, <2>1, <2>2 DEF Fine, Progress, Booked, Truth
<1> QED BY <1>1, <1>3, <1>4, OneTry

\* A call to the user, recommendation or profile service.
LEMMA PlainCall ==
  ASSUME IInv, NEW a \in Tries, NEW s \in {"user", "recommendation", "profile"},
         Call(a, s), pc[a] \notin {"idle", "reservation", "done"},
         UNCHANGED <<form, right, correct, desk, stays>>
  PROVE  IInv'
<1>1. CASE Reply(a, "500")
  BY <1>1, PlainReply DEF Told
<1>2. CASE Goto(a, s) /\ UNCHANGED message
  <2>1. correct[a] = TRUE => right[a] = TRUE
    BY DEF IInv, Progress
  <2> QED BY <1>2, <2>1, PlainMove DEF IInv, Types
<1> QED BY <1>1, <1>2 DEF Call

LEMMA SendStep == ASSUME IInv, NEW a \in Tries, Send(a) PROVE IInv'
<1>1. PICK p \in Paths, b \in BOOLEAN : right' = [right EXCEPT ![a] = b]
  BY DEF Send
<1>2. correct[a] = FALSE
  BY DEF IInv, Progress, Send
<1> QED BY <1>1, <1>2, PlainMove DEF IInv, Types, Send

LEMMA GiveUpStep == ASSUME IInv, NEW a \in Tries, GiveUp(a) PROVE IInv'
  BY PlainReply DEF GiveUp, Told

LEMMA CheckUserStep == ASSUME IInv, NEW a \in Tries, CheckUser(a) PROVE IInv'
<1>1. /\ correct' \in [Tries -> BOOLEAN]
      /\ correct'[a] = TRUE => right[a] = TRUE
      /\ \A b \in Tries \ {a} : correct'[b] = correct[b]
  BY DEF IInv, Types, CheckUser
<1> QED BY <1>1, PlainMove DEF IInv, Types, CheckUser

LEMMA PlainStep ==
  ASSUME IInv, NEW a \in Tries,
         \/ userHandler(a) \/ recommendHandler(a) \/ reservationHandler(a)
         \/ LoginReply(a) \/ CallProfile(a) \/ GetProfiles(a)
  PROVE  IInv'
<1>0. {"400", "200", "Login successfully!", "Check password"} \subseteq Told
  BY DEF Told
<1>1. CASE userHandler(a)
  BY <1>0, <1>1, PlainCall, PlainReply DEF userHandler, At, handled
<1>2. CASE recommendHandler(a)
  BY <1>0, <1>2, PlainCall, PlainReply DEF recommendHandler, At, handled
<1>3. CASE reservationHandler(a)
  BY <1>0, <1>3, PlainCall, PlainReply DEF reservationHandler, At, handled
<1>4. CASE LoginReply(a)
  BY <1>0, <1>4, PlainReply DEF LoginReply, At, handled
<1>5. CASE CallProfile(a)
  BY <1>5, PlainCall DEF CallProfile, handled
<1>6. CASE GetProfiles(a)
  BY <1>0, <1>6, PlainReply DEF GetProfiles, handled
<1> QED BY <1>1, <1>2, <1>3, <1>4, <1>5, <1>6

LEMMA CallReservationStep ==
  ASSUME IInv, NEW a \in Tries, CallReservation(a)
  PROVE  IInv'
<1>0. /\ pc[a] = "checked" /\ status[a] = "new" /\ Fine(a)
      /\ UNCHANGED <<form, right, correct, stays>>
  BY DEF CallReservation, At, IInv, Progress, Fine
<1>1. CASE "reservation" \notin up
  <2>1. Reply(a, "500") /\ UNCHANGED desk
    BY <1>1 DEF CallReservation, Call
  <2> QED BY <1>0, <2>1, PlainReply DEF Told
<1>2. CASE "reservation" \in up
  <2>1. Goto(a, "reservation") /\ UNCHANGED message
    BY <1>2 DEF CallReservation, Call
  <2>2. IF NoNight(a)
          THEN /\ status' = [status EXCEPT ![a] = "done"]
               /\ answer' = [answer EXCEPT ![a] = <<form[Guest(a)].hotel>>]
          ELSE /\ status' = [status EXCEPT ![a] = "open"]
               /\ answer' = answer
    BY <1>2 DEF CallReservation, NoNight, Requested, Request, Desk!Trivial,
                Desk!Open, Desk!Move, Desk!Booking
  <2>3. /\ <<form[Guest(a)].hotel>> \in Seq(Hotels)
        /\ <<form[Guest(a)].hotel>> # <<>>
    BY HotelList
  <2>4. Types'
    <3>1. answer' \in [Tries -> Seq(Hotels)]
      <4>1. CASE NoNight(a)
        BY <2>2, <2>3, <4>1 DEF IInv, Types
      <4>2. CASE ~NoNight(a)
        BY <2>2, <4>2 DEF IInv, Types
      <4> QED BY <4>1, <4>2
    <3>2. status' \in [Tries -> {"new", "open", "held", "done", "lost"}]
      <4>1. CASE NoNight(a)
        BY <2>2, <4>1 DEF IInv, Types
      <4>2. CASE ~NoNight(a)
        BY <2>2, <4>2 DEF IInv, Types
      <4> QED BY <4>1, <4>2
    <3> QED BY <1>0, <2>1, <3>1, <3>2 DEF IInv, Types, Goto
  <2>5. \A b \in Tries \ {a} : Same(b)
    BY <1>0, <2>1, <2>2 DEF IInv, Types, Goto, Same
  <2>6. Fine(a)'
    <3>1. NoNight(a)' <=> NoNight(a)
      BY <1>0 DEF NoNight, Requested
    <3>2. pc'[a] = "reservation" /\ message'[a] = message[a]
      BY <2>1 DEF IInv, Types, Goto
    <3>3. \/ NoNight(a) /\ status'[a] = "done" /\ answer'[a] # <<>>
          \/ ~NoNight(a) /\ status'[a] = "open" /\ answer'[a] = answer[a]
      <4>1. CASE NoNight(a)
        BY <2>2, <2>3, <4>1 DEF IInv, Types
      <4>2. CASE ~NoNight(a)
        BY <2>2, <4>2 DEF IInv, Types
      <4> QED BY <4>1, <4>2
    <3> QED BY <1>0, <3>1, <3>2, <3>3 DEF Fine, Progress, Booked, Truth
  <2> QED BY <1>0, <2>4, <2>5, <2>6, OneTry
<1> QED BY <1>1, <1>2

LEMMA ReservationReplyStep ==
  ASSUME IInv, NEW a \in Tries, ReservationReply(a)
  PROVE  IInv'
<1>0. /\ pc[a] = "reservation" /\ status[a] = "done" /\ Fine(a)
      /\ UNCHANGED <<form, right, correct, desk, stays>>
  BY DEF ReservationReply, handled, IInv, Fine
<1>1. PICK m \in Told :
        /\ Reply(a, m)
        /\ \/ m = "Already reserved" /\ answer[a] = <<>>
           \/ m = "Reserve successfully!" /\ answer[a] # <<>> /\ correct[a] = TRUE
           \/ m = "Check password"
  <2>1. CASE answer[a] = <<>>
    BY <2>1 DEF ReservationReply, Told
  <2>2. CASE answer[a] # <<>> /\ correct[a] = TRUE
    BY <2>2 DEF ReservationReply, Told
  <2>3. CASE answer[a] # <<>> /\ correct[a] = FALSE
    BY <2>3 DEF ReservationReply, Told
  <2> QED BY <2>1, <2>2, <2>3 DEF IInv, Types
<1>2. Types'
  BY <1>0, <1>1 DEF IInv, Types, Reply, Goto, desk
<1>3. \A b \in Tries \ {a} : Same(b)
  BY <1>0, <1>1 DEF IInv, Types, Reply, Goto, desk, Same
<1>4. Fine(a)'
  <2>1. NoNight(a)' <=> NoNight(a)
    BY <1>0 DEF NoNight, Requested
  <2>2. /\ pc'[a] = "done" /\ message'[a] = m
        /\ status' = status /\ answer' = answer
    BY <1>0, <1>1 DEF IInv, Types, Reply, Goto, desk
  <2> QED BY <1>0, <1>1, <2>1, <2>2 DEF Fine, Progress, Booked, Truth
<1> QED BY <1>0, <1>2, <1>3, <1>4, OneTry

\* The reservation service works on a request that is with it, or was.
LEMMA ReserveStep == ASSUME IInv, NEW a \in Tries, Reserve(a) PROVE IInv'
<1>0. /\ UNCHANGED <<form, pc, message, right, correct>> /\ Fine(a)
      /\ status[a] \in {"open", "held"} => pc[a] \in {"reservation", "done"}
  BY DEF Reserve, handler, IInv, Progress, Fine
<1>1. PICK s \in {"held", "done"} :
        /\ status[a] \in {"open", "held"} /\ status' = [status EXCEPT ![a] = s]
        /\ \/ s = "held" /\ stays' = stays \cup {a} /\ answer' = answer
           \/ /\ s = "done" /\ status[a] = "held" /\ stays' = stays
              /\ answer' = [answer EXCEPT ![a] = <<form[Guest(a)].hotel>>]
           \/ s = "done" /\ status[a] = "open" /\ stays' = stays /\ answer' = answer
  <2>1. CASE Desk!Claim(a) /\ stays' = stays \cup {a}
    BY <2>1 DEF Desk!Claim, Desk!Move
  <2>2. CASE Desk!Confirm(a) /\ UNCHANGED stays
    BY <2>2 DEF Desk!Confirm, Desk!Move, Requested, Request
  <2>3. CASE \E S \in SUBSET {form[Guest(a)].hotel} : Desk!Refuse(a, S) /\ UNCHANGED stays
    BY <2>3 DEF Desk!Refuse, Desk!Move
  <2> QED BY <2>1, <2>2, <2>3 DEF Reserve
<1>2. /\ <<form[Guest(a)].hotel>> \in Seq(Hotels)
      /\ <<form[Guest(a)].hotel>> # <<>>
  BY HotelList
<1>3. Types'
  <2>1. status' \in [Tries -> {"new", "open", "held", "done", "lost"}]
    BY <1>1 DEF IInv, Types
  <2>2. answer' \in [Tries -> Seq(Hotels)]
    BY <1>1, <1>2 DEF IInv, Types
  <2> QED BY <1>0, <2>1, <2>2 DEF IInv, Types
<1>4. \A b \in Tries \ {a} : Same(b)
  BY <1>0, <1>1 DEF IInv, Types, Same
<1>5. Fine(a)'
  <2>1. NoNight(a)' <=> NoNight(a)
    BY <1>0 DEF NoNight, Requested
  <2>2. status'[a] = s
    BY <1>1 DEF IInv, Types
  <2>3. CASE s = "held"
    BY <1>0, <1>1, <2>1, <2>2, <2>3 DEF Fine, Progress, Booked, Truth
  <2>4. CASE s = "done" /\ status[a] = "held" /\ stays' = stays
    <3>1. answer' = [answer EXCEPT ![a] = <<form[Guest(a)].hotel>>]
      BY <1>1, <2>4
    <3>2. answer'[a] # <<>>
      BY <1>2, <3>1 DEF IInv, Types
    <3>3. a \in stays /\ a \in stays'
      BY <1>0, <2>4 DEF Fine, Booked
    <3>4. Progress(a)'
      BY <1>0, <2>2, <2>4 DEF Fine, Progress
    <3>5. Booked(a)'
      BY <2>2, <2>4, <3>2, <3>3 DEF Booked
    <3>6. Truth(a)'
      BY <1>0, <2>2, <2>4 DEF Fine, Truth
    <3> QED BY <3>4, <3>5, <3>6 DEF Fine
  <2>5. CASE s = "done" /\ status[a] = "open" /\ stays' = stays /\ answer' = answer
    BY <1>0, <1>1, <2>1, <2>2, <2>5 DEF Fine, Progress, Booked, Truth
  <2> QED BY <1>1, <2>3, <2>4, <2>5
<1> QED BY <1>0, <1>3, <1>4, <1>5, OneTry

\* What waits for a process that ends is told of it; the reservation service
\* forgets what it works on.
LEMMA DieStep == ASSUME IInv, NEW s \in Services, Die(s) PROVE IInv'
<1>1. s \in {"user", "reservation", "recommendation", "profile"}
  BY DEF Services
<1>2. UNCHANGED <<form, right, correct, stays>>
  BY DEF Die
<1>3. /\ pc' \in [Tries -> {"idle", "sent", "checked", "done", "user", "reservation",
                             "recommendation", "profile"}]
      /\ message' \in [Tries -> Told]
      /\ \A a \in Tries : IF pc[a] = s THEN pc'[a] = "done" /\ message'[a] = "500"
                                       ELSE pc'[a] = pc[a] /\ message'[a] = message[a]
  BY DEF Die, IInv, Types, Told
<1>4. /\ answer' = answer
      /\ status' \in [Tries -> {"new", "open", "held", "done", "lost"}]
      /\ \A a \in Tries : status'[a] = IF s = "reservation" /\ status[a] \in {"open", "held"}
                                         THEN "lost" ELSE status[a]
  <2>1. CASE s = "reservation"
    BY <2>1 DEF Die, Desk!Lose, IInv, Types
  <2>2. CASE s # "reservation"
    BY <2>2 DEF Die, desk, IInv, Types
  <2> QED BY <2>1, <2>2
<1>5. Types'
  BY <1>2, <1>3, <1>4 DEF IInv, Types
<1>6. ASSUME NEW a \in Tries PROVE Fine(a)'
  <2>1. NoNight(a)' <=> NoNight(a)
    BY <1>2 DEF NoNight, Requested
  <2>2. Fine(a)
    BY DEF IInv, Fine
  <2>3. CASE pc[a] = s
    <3>1. pc'[a] = "done" /\ message'[a] = "500"
      BY <1>3, <2>3
    <3> QED BY <1>2, <1>4, <2>1, <2>2, <3>1 DEF Fine, Progress, Booked, Truth
  <2>4. CASE pc[a] # s
    <3>1. pc'[a] = pc[a] /\ message'[a] = message[a]
      BY <1>3, <2>4
    <3>2. pc[a] = "reservation" => status'[a] = status[a]
      BY <1>4, <2>4
    <3>3. status[a] \in {"new", "done"} => status'[a] = status[a]
      BY <1>4
    <3> QED BY <1>2, <1>4, <2>1, <2>2, <3>1, <3>2, <3>3 DEF Fine, Progress, Booked, Truth
  <2> QED BY <2>3, <2>4
<1> QED BY <1>5, <1>6 DEF IInv, Fine

LEMMA InitIInv == Init => IInv
<1> SUFFICES ASSUME Init PROVE IInv
  OBVIOUS
<1>1. /\ status = [a \in Tries |-> "new"]
      /\ answer = [a \in Tries |-> <<>>]
  BY DEF Init, Desk!Init
<1>2. Types
  BY <1>1 DEF Init, Types, Told
<1> QED BY <1>1, <1>2 DEF Init, IInv, Progress, Booked, Truth

LEMMA NextIInv == IInv /\ [Next]_vars => IInv'
<1> SUFFICES ASSUME IInv, [Next]_vars PROVE IInv'
  OBVIOUS
<1>1. ASSUME UNCHANGED <<form, handler, desk, stays>> PROVE IInv'
  <2>1. Types'
    BY <1>1 DEF handler, desk, IInv, Types
  <2>2. \A a \in Tries : Same(a) /\ Fine(a)
    BY <1>1 DEF handler, desk, IInv, Fine, Same
  <2>3. \A a \in Tries : Fine(a)'
    BY <1>1, <2>2, SameIsFine
  <2> QED BY <2>1, <2>3 DEF IInv, Fine
<1>2. CASE StartUser
  BY <1>1, <1>2 DEF StartUser
<1>3. ASSUME NEW s \in Services, Start(s) PROVE IInv'
  BY <1>1, <1>3 DEF Start
<1>4. ASSUME NEW s \in Services, Die(s) PROVE IInv'
  BY <1>4, DieStep
<1>5. ASSUME NEW a \in Tries, Send(a) \/ GiveUp(a) PROVE IInv'
  BY <1>5, SendStep, GiveUpStep
<1>6. ASSUME NEW a \in Tries, Handle(a) PROVE IInv'
  BY <1>6, PlainStep, CheckUserStep, CallReservationStep, ReservationReplyStep,
     ReserveStep DEF Handle
<1>7. CASE UNCHANGED vars
  BY <1>1, <1>7 DEF vars
<1> QED BY <1>2, <1>3, <1>4, <1>5, <1>6, <1>7 DEF Next

\* What the guests are told about their rooms is true: success only with the
\* password and the rooms, a refusal only without any, now and later.
THEOREM ToldTheTruth == Spec => []RepliesAreTrue
<1>1. IInv => RepliesAreTrue
  <2> SUFFICES ASSUME IInv, NEW a \in Tries
               PROVE  /\ message[a] = "Reserve successfully!" =>
                           /\ right[a]
                           /\ AsksForANight(form[Guest(a)]) => a \in stays
                      /\ message[a] \in {"Already reserved", "400"} =>
                           a \notin stays /\ status[a] \in {"new", "done"}
    BY DEF RepliesAreTrue
  <2>1. AsksForANight(form[Guest(a)]) => ~NoNight(a)
    <3>1. form[Guest(a)] \in Form
      BY TryOfGuest, ConstantsAssumption DEF IInv, Types
    <3> QED BY <3>1, NightAsked DEF NoNight, Requested
  <2> QED BY <2>1 DEF IInv, Progress, Booked, Truth
<1> QED BY <1>1, InitIInv, NextIInv, PTL DEF Spec

-----------------------------------------------------------------------------
(* Types *)

\* What Types leaves out.
Rest ==
  /\ up \subseteq Services
  /\ stored \subseteq Guests /\ users \subseteq stored
  /\ path \in [Tries -> {"none"} \cup Paths]
  /\ \A a \in Tries : pc[a] \in {"idle", "sent", "checked", "done"} \cup Services
  /\ claimed \in [Hotels \X Nights -> Int]
  /\ stays \subseteq Tries
  /\ \A a \in Tries : pc[a] = "done" <=> message[a] # "none"

LEMMA RoomsAreInt ==
  ASSUME NEW f \in Forms
  PROVE  Request(f).rooms \in Int
<1>1. f.number \in Int \cup {Missing, Malformed} /\ MaxInt \in Nat /\ MaxInt32 \in Nat
  BY ConstantsAssumption DEF Form
<1>2. Atoi(f.number) \in Int
  BY <1>1 DEF Atoi
<1>3. \A n \in Int : int32(n) \in Int
  BY <1>1 DEF int32
<1> QED
  BY <1>2, <1>3 DEF Request

\* The steps of a handler, and what is left to show of them.
LEMMA RestOfStep ==
  ASSUME IInv, Rest, NEW a \in Tries, UNCHANGED <<up, stored, users>>,
         path' \in [Tries -> {"none"} \cup Paths],
         claimed' \in [Hotels \X Nights -> Int], stays' \subseteq Tries,
         pc'[a] \in {"idle", "sent", "checked", "done"} \cup Services,
         pc'[a] = "done" <=> message'[a] # "none",
         \A b \in Tries \ {a} : pc'[b] = pc[b] /\ message'[b] = message[b]
  PROVE  Rest'
BY DEF Rest, Services

LEMMA ReplyRest ==
  ASSUME IInv, Rest, NEW a \in Tries, NEW m, m # "none", Reply(a, m),
         UNCHANGED <<service, path, desk, stays>>
  PROVE  Rest'
<1>1. /\ pc'[a] = "done" /\ message'[a] = m
      /\ \A b \in Tries \ {a} : pc'[b] = pc[b] /\ message'[b] = message[b]
  BY DEF IInv, Types, Reply, Goto
<1> QED
  BY <1>1, RestOfStep DEF Rest, service, desk

LEMMA GotoRest ==
  ASSUME IInv, Rest, NEW a \in Tries, NEW p, Goto(a, p), UNCHANGED message,
         p \in {"sent", "checked"} \cup Services, pc[a] # "done",
         UNCHANGED service, path' \in [Tries -> {"none"} \cup Paths],
         claimed' = claimed, stays' = stays
  PROVE  Rest'
<1>1. /\ pc'[a] = p /\ p # "done"
      /\ \A b \in Tries \ {a} : pc'[b] = pc[b]
  BY DEF IInv, Types, Goto, Services
<1> QED
  BY <1>1, RestOfStep DEF Rest, service

LEMMA CallRest ==
  ASSUME IInv, Rest, NEW a \in Tries, NEW s \in Services, Call(a, s),
         pc[a] \notin {"idle", "done"}, UNCHANGED <<service, path, claimed, stays>>,
         UNCHANGED desk \/ s \in up
  PROVE  Rest'
<1>1. CASE Reply(a, "500") /\ s \notin up
  BY <1>1, ReplyRest DEF desk
<1>2. CASE Goto(a, s) /\ UNCHANGED message
  BY <1>2, GotoRest DEF Rest
<1> QED
  BY <1>1, <1>2 DEF Call

LEMMA HandleRest == ASSUME IInv, Rest, NEW a \in Tries, Handle(a) PROVE Rest'
<1>1. /\ "user" \in Services /\ "reservation" \in Services
      /\ \A b \in Tries : At(b, "/recommendations", "sent") => "recommendation" \in Services
      /\ "recommendation" \in Services => "profile" \in Services
  BY DEF Services, Rest, At
<1>2. CASE userHandler(a)
  BY <1>1, <1>2, CallRest, ReplyRest DEF userHandler, At, handled, desk
<1>3. CASE recommendHandler(a)
  BY <1>1, <1>3, CallRest, ReplyRest DEF recommendHandler, At, handled, desk
<1>4. CASE reservationHandler(a)
  BY <1>1, <1>4, CallRest, ReplyRest DEF reservationHandler, At, handled, desk
<1>5. CASE CheckUser(a)
  BY <1>5, GotoRest DEF CheckUser, Rest, desk
<1>6. CASE LoginReply(a)
  BY <1>6, ReplyRest DEF LoginReply, handled
<1>7. CASE CallReservation(a)
  <2>1. /\ pc[a] = "checked" /\ Call(a, "reservation")
        /\ UNCHANGED <<service, path, claimed, stays>>
        /\ UNCHANGED desk \/ "reservation" \in up
    BY <1>7 DEF CallReservation, At, desk, Desk!Trivial, Desk!Open
  <2> QED
    BY <1>1, <2>1, CallRest
<1>8. CASE ReservationReply(a)
  <2>1. PICK m \in Told \ {"none"} : Reply(a, m)
    <3>1. CASE answer[a] = <<>>
      BY <1>8, <3>1 DEF ReservationReply, Told
    <3>2. CASE answer[a] # <<>> /\ correct[a] = TRUE
      BY <1>8, <3>2 DEF ReservationReply, Told
    <3>3. CASE answer[a] # <<>> /\ correct[a] = FALSE
      BY <1>8, <3>3 DEF ReservationReply, Told
    <3> QED
      BY <3>1, <3>2, <3>3 DEF IInv, Types
  <2> QED
    BY <1>8, <2>1, ReplyRest DEF ReservationReply, handled
<1>9. CASE Reserve(a)
  <2>1. UNCHANGED <<service, path, pc, message>> /\ stays' \subseteq Tries
    BY <1>9 DEF Reserve, handler, Rest
  <2>2. claimed' \in [Hotels \X Nights -> Int]
    <3>1. Requested[a].rooms \in Int
      BY RoomsAreInt, TryOfGuest DEF IInv, Types, Requested
    <3>2. CASE Desk!Claim(a)
      <4>1. claimed' = [k \in Hotels \X Nights |->
                          IF k[1] = Requested[a].hotels[1] /\ k[2] \in Requested[a].nights
                            THEN claimed[k] + Requested[a].rooms
                            ELSE claimed[k]]
        BY <3>2 DEF Desk!Claim
      <4> QED
        BY <3>1, <4>1 DEF Rest
    <3>3. CASE claimed' = claimed
      BY <3>3 DEF Rest
    <3> QED
      BY <1>9, <3>2, <3>3 DEF Reserve, Desk!Confirm, Desk!Refuse
  <2> QED
    BY <2>1, <2>2, RestOfStep DEF Rest, service
<1>10. CASE CallProfile(a)
  <2>1. "profile" \in Services
    BY <1>1, <1>10 DEF CallProfile, Rest
  <2> QED
    BY <1>10, <2>1, CallRest DEF CallProfile, handled, desk
<1>11. CASE GetProfiles(a)
  BY <1>11, ReplyRest DEF GetProfiles, handled
<1> QED
  BY <1>2, <1>3, <1>4, <1>5, <1>6, <1>7, <1>8, <1>9, <1>10, <1>11 DEF Handle

LEMMA DieRest == ASSUME IInv, Rest, NEW s \in Services, Die(s) PROVE Rest'
<1>1. UNCHANGED <<stored, users, path, stays, claimed>> /\ up' \subseteq Services
  BY DEF Die, desk, Desk!Lose, Rest
<1>2. \A a \in Tries : IF pc[a] = s THEN pc'[a] = "done" /\ message'[a] = "500"
                                    ELSE pc'[a] = pc[a] /\ message'[a] = message[a]
  BY DEF Die, IInv, Types
<1> QED
  BY <1>1, <1>2 DEF Rest

LEMMA NextRest ==
  ASSUME IInv, Rest, [Next]_vars
  PROVE  Rest'
<1>1. CASE StartUser
  <2>1. UNCHANGED <<path, pc, message, claimed, stays>>
    BY <1>1 DEF StartUser, handler, desk
  <2>2. "user" \in Services
    BY DEF Services
  <2> QED
    BY <1>1, <2>1, <2>2 DEF StartUser, Rest
<1>2. ASSUME NEW s \in Services, Start(s) PROVE Rest'
  <2>1. UNCHANGED <<path, pc, message, claimed, stays>>
    BY <1>2 DEF Start, handler, desk
  <2> QED
    BY <1>2, <2>1 DEF Start, Rest
<1>3. ASSUME NEW s \in Services, Die(s) PROVE Rest'
  BY <1>3, DieRest
<1>4. ASSUME NEW a \in Tries, Send(a) PROVE Rest'
  <2>1. PICK p \in Paths : path' = [path EXCEPT ![a] = p]
    BY <1>4 DEF Send
  <2>2. path' \in [Tries -> {"none"} \cup Paths]
    BY <2>1 DEF Rest
  <2> QED
    BY <1>4, <2>2, GotoRest DEF Send, desk
<1>5. ASSUME NEW a \in Tries, GiveUp(a) PROVE Rest'
  BY <1>5, ReplyRest DEF GiveUp
<1>6. ASSUME NEW a \in Tries, Handle(a) PROVE Rest'
  BY <1>6, HandleRest
<1>7. CASE UNCHANGED vars
  BY <1>7 DEF vars, service, handler, desk, Rest
<1> QED
  BY <1>1, <1>2, <1>3, <1>4, <1>5, <1>6, <1>7 DEF Next

LEMMA InitRest == Init => Rest
BY DEF Init, Desk!Init, Rest, Services

LEMMA RestAlways == Spec => [](IInv /\ Rest)
<1>1. Init => IInv /\ Rest
  BY InitIInv, InitRest
<1>2. (IInv /\ Rest) /\ [Next]_vars => (IInv /\ Rest)'
  BY NextIInv, NextRest
<1> QED
  BY <1>1, <1>2, PTL DEF Spec

UnreadTyped == unread \in [Tries -> SUBSET Hotels]

LEMMA UnreadAlways == Spec => [](IInv /\ UnreadTyped)
<1>1. Init => IInv /\ UnreadTyped
  BY InitIInv DEF Init, Desk!Init, UnreadTyped
<1>2. (IInv /\ UnreadTyped) /\ [Next]_vars => (IInv /\ UnreadTyped)'
  <2> SUFFICES ASSUME IInv, UnreadTyped, [Next]_vars PROVE UnreadTyped'
    BY NextIInv
  <2>1. ASSUME NEW a \in Tries, Reserve(a) PROVE UnreadTyped'
    <3>1. \A S \in SUBSET {form[Guest(a)].hotel} : S \in SUBSET Hotels
      BY TryOfGuest, ConstantsAssumption DEF IInv, Types, Form
    <3>2. UNCHANGED unread \/ \E S \in SUBSET Hotels : unread' = [unread EXCEPT ![a] = S]
      BY <2>1, <3>1 DEF Reserve, Desk!Claim, Desk!Confirm, Desk!Refuse, Desk!Misses
    <3> QED
      BY <3>2 DEF UnreadTyped
  <2>2. ASSUME NEW a \in Tries, CallReservation(a) PROVE UnreadTyped'
    BY <2>2 DEF CallReservation, desk, Desk!Trivial, Desk!Open, UnreadTyped
  <2>3. ASSUME NEW s \in Services, Die(s) PROVE UnreadTyped'
    BY <2>3 DEF Die, desk, Desk!Lose, UnreadTyped
  <2>4. CASE UNCHANGED unread
    BY <2>4 DEF UnreadTyped
  <2>5. (\E a \in Tries : Reserve(a) \/ CallReservation(a)) \/ (\E s \in Services : Die(s))
        \/ UNCHANGED unread
    BY DEF Next, vars, desk, handled, StartUser, Start, Send, GiveUp, Handle, userHandler,
       recommendHandler, reservationHandler, CheckUser, LoginReply, ReservationReply,
       CallProfile, GetProfiles
  <2> QED
    BY <2>1, <2>2, <2>3, <2>4, <2>5
<1> QED
  BY <1>1, <1>2, PTL DEF Spec

\* The variables keep their types, whatever ends and restarts, and a try has been
\* replied to exactly when its handler is done with it.
THEOREM TypeCorrect == Spec => []TypeOK
<1>1. IInv /\ Rest /\ UnreadTyped => TypeOK
  <2> SUFFICES ASSUME IInv, Rest, UnreadTyped PROVE TypeOK
    OBVIOUS
  <2>1. pc \in [Tries -> {"idle", "sent", "checked", "done"} \cup Services]
    BY DEF IInv, Types, Rest
  <2> QED
    BY <2>1 DEF IInv, Types, Rest, UnreadTyped, TypeOK
<1> QED
  BY <1>1, RestAlways, UnreadAlways, PTL

-----------------------------------------------------------------------------
(* The tries of a guest, one after the other *)

Before(a, b) == Guest(a) = Guest(b) /\ a[2] < b[2]

\* A guest begins a try when the one before has ended, and not in success.
InOrder ==
  \A a, b \in Tries :
    Before(a, b) /\ pc[b] # "idle" =>
      pc[a] = "done" /\ message[a] # "Reserve successfully!"

\* Who passed the check of the password has an account, also in the service that
\* is started after it.
Known ==
  \A a \in Tries :
    correct[a] = TRUE \/ message[a] = "Login successfully!" => Guest(a) \in users

\* A later try with the password passes the check, once one has.
Lasting ==
  \A a, b \in Tries :
    Before(a, b) /\ message[a] = "Login successfully!" /\ right[b] = TRUE =>
      /\ pc[b] \in {"checked", "reservation"} => correct[b] = TRUE
      /\ message[b] # "Check password"

\* What is told to a try that never got to the reservation service.
Apart ==
  \A a \in Tries :
    /\ message[a] \in {"Login successfully!", "200"} => status[a] = "new"
    /\ pc[a] = "idle" => a \notin stays

GuestInv == IInv /\ Rest /\ InOrder /\ Known /\ Lasting /\ Apart

LEMMA TryFacts ==
  \A a \in Tries : /\ a = <<Guest(a), a[2]>> /\ Guest(a) \in Guests
                   /\ a[2] \in 1..MaxTries[Guest(a)] /\ MaxTries[Guest(a)] \in Nat
                   /\ a[2] \in Int
BY ConstantsAssumption DEF Tries, Guest

LEMMA OtherTry ==
  ASSUME NEW a \in Tries, NEW b \in Tries, Before(a, b)
  PROVE  a # b
BY TryFacts DEF Before

\* The try that Send looks at.
LEMMA TryBefore ==
  ASSUME NEW a \in Tries, NEW b \in Tries, Before(a, b)
  PROVE  /\ b[2] > 1 /\ <<b[1], b[2] - 1>> \in Tries
         /\ a = <<b[1], b[2] - 1>> \/ Before(a, <<b[1], b[2] - 1>>)
         /\ Before(<<b[1], b[2] - 1>>, b)
<1>1. /\ a = <<Guest(a), a[2]>> /\ b = <<Guest(b), b[2]>> /\ Guest(b) \in Guests
      /\ a[2] \in 1..MaxTries[Guest(b)] /\ b[2] \in 1..MaxTries[Guest(b)]
      /\ MaxTries[Guest(b)] \in Nat /\ a[2] < b[2] /\ Guest(a) = Guest(b)
      /\ Guest(b) = b[1]
  BY TryFacts DEF Before, Guest
<1>2. b[2] > 1 /\ b[2] - 1 \in 1..MaxTries[Guest(b)] /\ (a[2] = b[2] - 1 \/ a[2] < b[2] - 1)
  BY <1>1
<1>3. <<b[1], b[2] - 1>> \in Tries
  BY <1>1, <1>2 DEF Tries
<1>4. /\ Guest(<<b[1], b[2] - 1>>) = b[1] /\ <<b[1], b[2] - 1>>[2] = b[2] - 1
  BY DEF Guest
<1> QED
  BY <1>1, <1>2, <1>3, <1>4 DEF Before

LEMMA ReplyEffect ==
  ASSUME IInv, NEW a \in Tries, NEW m, Reply(a, m)
  PROVE  /\ pc'[a] = "done" /\ message'[a] = m
         /\ \A b \in Tries \ {a} : pc'[b] = pc[b] /\ message'[b] = message[b]
BY DEF IInv, Types, Reply, Goto

LEMMA GotoEffect ==
  ASSUME IInv, NEW a \in Tries, NEW p, Goto(a, p), UNCHANGED message
  PROVE  /\ pc'[a] = p /\ message'[a] = message[a]
         /\ \A b \in Tries \ {a} : pc'[b] = pc[b] /\ message'[b] = message[b]
BY DEF IInv, Types, Goto

LEMMA CallEffect ==
  ASSUME IInv, NEW a \in Tries, NEW s, Call(a, s)
  PROVE  /\ \/ pc'[a] = s /\ message'[a] = message[a]
            \/ pc'[a] = "done" /\ message'[a] = "500"
         /\ \A b \in Tries \ {a} : pc'[b] = pc[b] /\ message'[b] = message[b]
BY ReplyEffect, GotoEffect DEF Call

\* What a handler that takes a step tells the guest, and where it goes.
Advance(a) ==
  /\ pc[a] \notin {"idle", "done"} /\ pc'[a] # "idle"
  /\ pc'[a] = "checked" => CheckUser(a)
  /\ pc'[a] = "reservation" => pc[a] = "checked" /\ correct' = correct
  /\ pc'[a] # "done" => message'[a] = message[a]
  /\ message'[a] = "Login successfully!" =>
       pc[a] = "checked" /\ correct[a] = TRUE /\ correct' = correct
  /\ message'[a] = "Check password" =>
       pc[a] \in {"checked", "reservation"} /\ correct[a] = FALSE
  /\ message'[a] = "200" => pc[a] = "profile"

\* How a step may change what a try is told, and where its handler is.
LEMMA HandleAdvances ==
  ASSUME IInv, Rest, NEW a \in Tries, Handle(a) \/ GiveUp(a)
  PROVE  /\ Advance(a) \/ (pc'[a] = pc[a] /\ message'[a] = message[a])
         /\ \A b \in Tries \ {a} : pc'[b] = pc[b] /\ message'[b] = message[b]
         /\ right' = right
<1>1. pc[a] # "done" => message[a] = "none"
  BY DEF Rest
<1>2. CASE userHandler(a) \/ recommendHandler(a) \/ reservationHandler(a)
  <2>1. /\ pc[a] = "sent" /\ right' = right
        /\ \/ Reply(a, "400")
           \/ Call(a, "user") \/ Call(a, "recommendation")
    BY <1>2 DEF userHandler, recommendHandler, reservationHandler, At, handled
  <2> QED
    BY <1>1, <2>1, ReplyEffect, CallEffect DEF Advance
<1>3. CASE CheckUser(a)
  BY <1>1, <1>3, GotoEffect DEF CheckUser, Advance
<1>4. CASE LoginReply(a)
  <2>1. CASE correct[a] = TRUE
    <3>1. /\ Reply(a, "Login successfully!")
          /\ pc[a] = "checked" /\ correct' = correct /\ right' = right
      BY <1>4, <2>1 DEF LoginReply, At, handled
    <3> QED
      BY <2>1, <3>1, ReplyEffect DEF Advance
  <2>2. CASE correct[a] = FALSE
    BY <1>4, <2>2, ReplyEffect DEF LoginReply, At, handled, Advance
  <2> QED
    BY <2>1, <2>2 DEF IInv, Types
<1>5. CASE CallReservation(a)
  BY <1>1, <1>5, CallEffect DEF CallReservation, At, Advance
<1>6. CASE ReservationReply(a)
  <2>1. PICK m \in {"Already reserved", "Reserve successfully!", "Check password"} :
          Reply(a, m) /\ (m = "Check password" => correct[a] = FALSE)
    <3>1. CASE answer[a] = <<>>
      BY <1>6, <3>1 DEF ReservationReply
    <3>2. CASE answer[a] # <<>> /\ correct[a] = TRUE
      BY <1>6, <3>2 DEF ReservationReply
    <3>3. CASE answer[a] # <<>> /\ correct[a] = FALSE
      BY <1>6, <3>3 DEF ReservationReply
    <3> QED
      BY <3>1, <3>2, <3>3 DEF IInv, Types
  <2> QED
    BY <1>6, <2>1, ReplyEffect DEF ReservationReply, handled, Advance
<1>7. CASE Reserve(a)
  BY <1>7 DEF Reserve, handler
<1>8. CASE CallProfile(a)
  BY <1>1, <1>8, CallEffect DEF CallProfile, handled, Advance
<1>9. CASE GetProfiles(a)
  BY <1>9, ReplyEffect DEF GetProfiles, handled, Advance
<1>10. CASE GiveUp(a)
  BY <1>10, ReplyEffect DEF GiveUp, Advance
<1> QED
  BY <1>2, <1>3, <1>4, <1>5, <1>6, <1>7, <1>8, <1>9, <1>10 DEF Handle

LEMMA TryStep ==
  ASSUME IInv, Rest, [Next]_vars, NEW a \in Tries
  PROVE  \/ pc'[a] = pc[a] /\ message'[a] = message[a] /\ right'[a] = right[a]
         \/ Send(a) /\ pc'[a] = "sent" /\ message'[a] = message[a]
         \/ Advance(a) /\ right'[a] = right[a]
<1>1. CASE StartUser \/ UNCHANGED vars
  BY <1>1 DEF StartUser, vars, handler
<1>2. ASSUME NEW s \in Services, Start(s) \/ Die(s)
      PROVE  \/ pc'[a] = pc[a] /\ message'[a] = message[a] /\ right'[a] = right[a]
             \/ Advance(a) /\ right'[a] = right[a]
  <2>1. CASE Start(s)
    BY <2>1 DEF Start, handler
  <2>2. CASE Die(s)
    BY <2>2 DEF Die, IInv, Types, Services, Advance
  <2> QED
    BY <1>2, <2>1, <2>2
<1>3. ASSUME NEW b \in Tries, Send(b)
      PROVE  \/ pc'[a] = pc[a] /\ message'[a] = message[a] /\ right'[a] = right[a]
             \/ Send(a) /\ pc'[a] = "sent" /\ message'[a] = message[a]
  BY <1>3, GotoEffect DEF Send, IInv, Types
<1>4. ASSUME NEW b \in Tries, Handle(b) \/ GiveUp(b)
      PROVE  \/ pc'[a] = pc[a] /\ message'[a] = message[a] /\ right'[a] = right[a]
             \/ Advance(a) /\ right'[a] = right[a]
  BY <1>4, HandleAdvances
<1> QED
  BY <1>1, <1>2, <1>3, <1>4 DEF Next

LEMMA InOrderStep ==
  ASSUME GuestInv, [Next]_vars
  PROVE  InOrder'
<1> SUFFICES ASSUME NEW a \in Tries, NEW b \in Tries, Before(a, b), pc'[b] # "idle"
             PROVE  pc'[a] = "done" /\ message'[a] # "Reserve successfully!"
  BY DEF InOrder, Before, Guest
<1>1. IInv /\ Rest /\ InOrder
  BY DEF GuestInv
<1>2. pc[a] = "done" /\ message[a] # "Reserve successfully!"
  <2>1. CASE pc[b] # "idle"
    BY <1>1, <2>1 DEF InOrder
  <2>2. CASE pc[b] = "idle"
    <3>1. Send(b)
      BY <1>1, <2>2, TryStep DEF Advance
    <3>2. PICK c : c = <<b[1], b[2] - 1>>
      OBVIOUS
    <3>3. b[2] > 1 /\ c \in Tries /\ (a = c \/ Before(a, c))
      BY <3>2, TryBefore
    <3>4. pc[c] = "done" /\ message[c] # "Reserve successfully!"
      BY <3>1, <3>2, <3>3 DEF Send
    <3> QED
      BY <1>1, <3>3, <3>4 DEF InOrder
  <2> QED
    BY <2>1, <2>2
<1> QED
  BY <1>1, <1>2, TryStep DEF Advance, Send

LEMMA KnownStep ==
  ASSUME GuestInv, [Next]_vars
  PROVE  Known'
<1> SUFFICES ASSUME NEW a \in Tries,
                    correct'[a] = TRUE \/ message'[a] = "Login successfully!"
             PROVE  Guest(a) \in users'
  BY DEF Known, Guest
<1>1. IInv /\ Rest /\ Known
  BY DEF GuestInv
<1>2. users \subseteq users'
  BY <1>1 DEF Next, vars, service, handled, StartUser, Start, Die, Send, GiveUp, Handle,
     userHandler, recommendHandler, reservationHandler, CheckUser, LoginReply,
     CallReservation, ReservationReply, Reserve, CallProfile, GetProfiles, Rest
<1>3. correct'[a] = correct[a] \/ (CheckUser(a) /\ correct'[a] = (Guest(a) \in users /\ right[a]))
  <2>1. ASSUME NEW b \in Tries, CheckUser(b)
        PROVE  correct'[a] = correct[a] \/ (CheckUser(a) /\ correct'[a] = (Guest(a) \in users /\ right[a]))
    BY <1>1, <2>1 DEF CheckUser, IInv, Types
  <2>2. CASE correct' = correct
    BY <2>2
  <2>3. correct' = correct \/ \E b \in Tries : CheckUser(b)
    BY DEF Next, vars, handler, handled, StartUser, Start, Die, Send, GiveUp, Handle,
       userHandler, recommendHandler, reservationHandler, LoginReply,
       CallReservation, ReservationReply, Reserve, CallProfile, GetProfiles
  <2> QED
    BY <2>1, <2>2, <2>3
<1>4. message'[a] = message[a] \/ correct[a] = TRUE \/ message'[a] # "Login successfully!"
  BY <1>1, TryStep DEF Advance
<1> QED
  BY <1>1, <1>2, <1>3, <1>4 DEF Known

LEMMA LastingStep ==
  ASSUME GuestInv, [Next]_vars
  PROVE  Lasting'
<1> SUFFICES ASSUME NEW a \in Tries, NEW b \in Tries, Before(a, b),
                    message'[a] = "Login successfully!", right'[b] = TRUE
             PROVE  /\ pc'[b] \in {"checked", "reservation"} => correct'[b] = TRUE
                    /\ message'[b] # "Check password"
  BY DEF Lasting, Before, Guest
<1>1. IInv /\ Rest /\ InOrder /\ Known /\ Lasting /\ Types
  BY DEF GuestInv, IInv
<1>2. CASE message[a] = "Login successfully!"
  <2>1. Guest(b) \in users
    BY <1>1, <1>2 DEF Known, Before
  <2>2. CASE Send(b) /\ pc'[b] = "sent" /\ message'[b] = message[b]
    <3>1. message[b] = "none"
      BY <1>1, <2>2 DEF Send, Rest
    <3> QED
      BY <2>2, <3>1
  <2>3. CASE Advance(b) /\ right'[b] = right[b]
    <3>1. pc[b] \in {"checked", "reservation"} => correct[b] = TRUE
      BY <1>1, <1>2, <2>3 DEF Lasting
    <3>2. CheckUser(b) => correct'[b] = TRUE
      BY <1>1, <2>1, <2>3 DEF CheckUser, Types
    <3>3. message'[b] # "Check password"
      BY <3>1, <2>3 DEF Advance
    <3>4. CASE pc'[b] = "checked"
      BY <2>3, <3>2, <3>3, <3>4 DEF Advance
    <3>5. CASE pc'[b] = "reservation"
      BY <2>3, <3>1, <3>3, <3>5 DEF Advance
    <3> QED
      BY <3>3, <3>4, <3>5
  <2>4. CASE pc'[b] = pc[b] /\ message'[b] = message[b] /\ right'[b] = right[b]
    <3>1. /\ pc[b] \in {"checked", "reservation"} => correct[b] = TRUE
          /\ message[b] # "Check password"
      BY <1>1, <1>2, <2>4 DEF Lasting
    <3>2. CASE correct'[b] = correct[b]
      BY <2>4, <3>1, <3>2
    <3>3. CASE correct'[b] # correct[b]
      <4>1. CheckUser(b)
        BY <1>1, <3>3 DEF Next, vars, handler, handled, StartUser, Start, Die, Send,
           GiveUp, Handle, userHandler, recommendHandler, reservationHandler,
           CheckUser, LoginReply, CallReservation, ReservationReply, Reserve,
           CallProfile, GetProfiles, Types
      <4>2. pc[b] = "user" /\ pc'[b] = "checked"
        BY <1>1, <4>1 DEF CheckUser, Goto, Types
      <4> QED
        BY <2>4, <4>2
    <3> QED
      BY <3>2, <3>3
  <2> QED
    BY <1>1, <2>2, <2>3, <2>4, TryStep
<1>3. CASE message[a] # "Login successfully!"
  <2>1. pc[a] # "done"
    BY <1>1, <1>3, TryStep DEF Advance
  <2>2. pc[b] = "idle" /\ message[b] = "none"
    BY <1>1, <2>1 DEF InOrder, Rest
  <2>3. a # b
    BY OtherTry
  <2>4. ~Send(b)
    <3> SUFFICES ASSUME Send(b) PROVE FALSE
      OBVIOUS
    <3>1. message'[a] = message[a]
      BY <2>3 DEF Send
    <3> QED
      BY <1>3, <3>1
  <2>5. pc'[b] = pc[b] /\ message'[b] = message[b]
    BY <1>1, <2>2, <2>4, TryStep DEF Advance
  <2> QED
    BY <2>2, <2>5
<1> QED
  BY <1>2, <1>3

LEMMA ApartStep ==
  ASSUME GuestInv, [Next]_vars
  PROVE  Apart'
<1> SUFFICES ASSUME NEW a \in Tries
             PROVE  /\ message'[a] \in {"Login successfully!", "200"} => status'[a] = "new"
                    /\ pc'[a] = "idle" => a \notin stays'
  BY DEF Apart
<1>1. /\ IInv /\ Rest /\ Apart /\ IInv' /\ Types /\ Progress(a) /\ Progress(a)'
      /\ Booked(a)'
  BY NextIInv DEF GuestInv, IInv
<1>2. pc'[a] = "idle" => a \notin stays'
  BY <1>1 DEF Progress, Booked
<1>3. ASSUME message'[a] \in {"Login successfully!", "200"} PROVE status[a] = "new"
  <2>1. CASE message'[a] = message[a]
    BY <1>1, <1>3, <2>1 DEF Apart
  <2>2. CASE Advance(a)
    BY <1>1, <1>3, <2>2 DEF Advance, Progress
  <2> QED
    BY <1>1, <2>1, <2>2, TryStep
<1>4. ASSUME status[a] = "new", status'[a] # "new"
      PROVE  CallReservation(a) /\ pc'[a] # "done"
  <2>1. ASSUME NEW b \in Tries, CallReservation(b)
        PROVE  b = a /\ pc'[a] # "done"
    <3>1. \/ UNCHANGED status
          \/ Goto(b, "reservation") /\ (\E s : status' = [status EXCEPT ![b] = s])
      BY <2>1 DEF CallReservation, Call, desk, Desk!Trivial, Desk!Open, Desk!Move
    <3> QED
      BY <1>1, <1>4, <3>1 DEF Types, Goto
  <2>2. ASSUME NEW b \in Tries, Reserve(b)
        PROVE  FALSE
    <3>1. status[b] \in {"open", "held"} /\ (\E s : status' = [status EXCEPT ![b] = s])
      BY <2>2 DEF Reserve, Desk!Claim, Desk!Confirm, Desk!Refuse, Desk!Move
    <3> QED
      BY <1>1, <1>4, <3>1 DEF Types
  <2>3. ASSUME NEW s \in Services, Die(s) PROVE FALSE
    BY <1>1, <1>4, <2>3 DEF Die, Desk!Lose, desk, Types
  <2>4. ~UNCHANGED desk
    BY <1>4 DEF desk
  <2> QED
    BY <2>1, <2>2, <2>3, <2>4
    DEF Next, vars, handled, StartUser, Start, Send, GiveUp, Handle, userHandler,
        recommendHandler, reservationHandler, CheckUser, LoginReply,
        ReservationReply, CallProfile, GetProfiles
<1>5. Rest'
  BY <1>1, NextRest
<1> QED
  BY <1>1, <1>2, <1>3, <1>4, <1>5 DEF Rest

LEMMA GuestInvAlways == Spec => []GuestInv
<1>1. Init => GuestInv
  <2> SUFFICES ASSUME Init PROVE GuestInv
    OBVIOUS
  <2>1. IInv /\ Rest
    BY InitIInv, InitRest
  <2>2. InOrder /\ Known /\ Lasting /\ Apart
    BY DEF Init, InOrder, Known, Lasting, Apart
  <2> QED
    BY <2>1, <2>2 DEF GuestInv
<1>2. ASSUME GuestInv, [Next]_vars PROVE GuestInv'
  BY <1>2, NextIInv, NextRest, InOrderStep, KnownStep, LastingStep, ApartStep DEF GuestInv
<1> QED
  BY <1>1, <1>2, PTL DEF Spec

\* Once a guest has logged in, no later try with its password is told to check
\* that password, although the user service may restart any number of times and
\* load its accounts again.
THEOREM LoginsLast == Spec => []LoginLasts
<1>1. GuestInv => LoginLasts
  BY DEF GuestInv, Lasting, LoginLasts, Before, IInv, Types
<1> QED
  BY <1>1, GuestInvAlways, PTL

\* Of two tries of a guest that claimed rooms, the earlier one was not told so.
LEMMA UntoldBefore ==
  ASSUME GuestInv, NEW a \in stays, NEW b \in stays, Before(a, b)
  PROVE  message[a] \in {"500", "gone", "Check password"}
<1>1. a \in Tries /\ b \in Tries /\ Types /\ Truth(a) /\ Booked(a)
  BY DEF GuestInv, IInv, Rest
<1>2. pc[b] # "idle"
  BY <1>1 DEF GuestInv, Apart
<1>3. pc[a] = "done" /\ message[a] # "Reserve successfully!" /\ message[a] # "none"
  BY <1>1, <1>2 DEF GuestInv, InOrder, Rest
<1>4. message[a] \notin {"Login successfully!", "200", "400", "Already reserved"}
  BY <1>1 DEF GuestInv, Apart, Truth, Booked
<1> QED
  BY <1>1, <1>3, <1>4 DEF Types, Told

\* A guest gets its rooms again only after a try of which it was told nothing
\* about them: it failed with a 500, it went away, or it was told to check its
\* password.
THEOREM DoubleStaysExplained == Spec => []StaysAreExplained
<1>1. ASSUME GuestInv, NEW g \in Guests
      PROVE  Cardinality({a \in stays : Guest(a) = g}) <=
               1 + Cardinality({a \in Tries :
                                  /\ Guest(a) = g
                                  /\ message[a] \in {"500", "gone", "Check password"}})
  <2> DEFINE S == {a \in stays : Guest(a) = g}
             X == {a \in Tries : /\ Guest(a) = g
                                 /\ message[a] \in {"500", "gone", "Check password"}}
  <2>1. stays \subseteq Tries /\ MaxTries[g] \in Nat
    BY <1>1, ConstantsAssumption DEF GuestInv, Rest
  <2>2. IsFiniteSet(S) /\ IsFiniteSet(X)
    <3>1. IsFiniteSet({g} \X (1..MaxTries[g]))
      <4>1. IsFiniteSet({g})
        BY FS_Singleton
      <4>2. IsFiniteSet(1..MaxTries[g])
        BY <2>1, FS_Interval
      <4> QED
        BY <4>1, <4>2, FS_Product
    <3>2. \A a \in Tries : Guest(a) = g => a \in {g} \X (1..MaxTries[g])
      BY TryFacts
    <3> QED
      BY <2>1, <3>1, <3>2, FS_Subset
  <2>3. \A a, b \in S : a # b => a \in X \/ b \in X
    <3> SUFFICES ASSUME NEW a \in S, NEW b \in S, a # b PROVE a \in X \/ b \in X
      OBVIOUS
    <3>1. /\ a \in Tries /\ b \in Tries /\ a[2] \in Int /\ b[2] \in Int
          /\ Guest(a) = g /\ Guest(b) = g
          /\ a = <<Guest(a), a[2]>> /\ b = <<Guest(b), b[2]>>
      BY <2>1, TryFacts
    <3>2. a[2] # b[2]
      BY <3>1
    <3>3. Before(a, b) \/ Before(b, a)
      BY <3>1, <3>2 DEF Before
    <3> QED
      BY <1>1, <3>1, <3>3, UntoldBefore
  <2> HIDE DEF S, X
  <2>4. \E e : S \subseteq X \cup {e}
    <3>1. CASE S \subseteq X
      BY <3>1
    <3>2. CASE ~(S \subseteq X)
      <4>1. PICK e \in S : e \notin X
        BY <3>2
      <4> QED
        BY <2>3, <4>1
    <3> QED
      BY <3>1, <3>2
  <2>5. PICK e : S \subseteq X \cup {e}
    BY <2>4
  <2>6. /\ IsFiniteSet(X \cup {e}) /\ Cardinality(X) \in Nat
        /\ Cardinality(X \cup {e}) <= Cardinality(X) + 1
    <3>1. /\ IsFiniteSet(X \cup {e}) /\ Cardinality(X) \in Nat
          /\ Cardinality(X \cup {e}) = IF e \in X THEN Cardinality(X) ELSE Cardinality(X) + 1
      BY <2>2, FS_AddElement, FS_CardinalityType
    <3> QED
      BY <3>1
  <2>7. Cardinality(S) \in Nat /\ Cardinality(X \cup {e}) \in Nat
        /\ Cardinality(S) <= Cardinality(X \cup {e})
    BY <2>2, <2>5, <2>6, FS_Subset, FS_CardinalityType
  <2>8. Cardinality(S) <= 1 + Cardinality(X)
    BY <2>6, <2>7
  <2> QED
    BY <2>8 DEF S, X
<1>2. GuestInv => StaysAreExplained
  BY <1>1 DEF StaysAreExplained
<1> QED
  BY <1>2, GuestInvAlways, PTL


-----------------------------------------------------------------------------
(* The rooms that are claimed *)

\* A number of rooms that fits an int32 is sent as it is, and no number as 0.
LEMMA SmallMod ==
  ASSUME NEW x \in Nat, NEW m \in Nat, x < m
  PROVE  x % m = x
OBVIOUS

LEMMA RoomsSent ==
  ASSUME Types, NEW a \in Tries, Asked(a) \in -MaxInt32-1..MaxInt32
  PROVE  Requested[a].rooms = Asked(a)
<1> DEFINE x == form[Guest(a)].number
           y == Asked(a)
<1>1. /\ x \in Int \cup {Missing, Malformed}
      /\ MaxInt \in Nat /\ MaxInt32 \in Nat /\ MaxInt32 <= MaxInt
      /\ Missing \notin Int /\ Malformed \notin Int
  BY TryOfGuest, ConstantsAssumption DEF Types, Form
<1>2. y = IF x \in {Missing, Malformed} THEN 0 ELSE x
  BY DEF Asked
<1> HIDE DEF x, y
<1>3. y \in Int /\ -MaxInt32 - 1 <= y /\ y <= MaxInt32
  BY <1>1 DEF y
<1>4. Atoi(x) = y
  BY <1>1, <1>2, <1>3 DEF Atoi
<1>5. y + MaxInt32 + 1 \in Nat /\ 2 * (MaxInt32 + 1) \in Nat
      /\ y + MaxInt32 + 1 < 2 * (MaxInt32 + 1)
  BY <1>1, <1>3
<1>6. (y + MaxInt32 + 1) % (2 * (MaxInt32 + 1)) = y + MaxInt32 + 1
  BY <1>5, SmallMod
<1>7. int32(y) = y
  BY <1>1, <1>3, <1>6 DEF int32
<1>8. Requested[a].rooms = int32(Atoi(x))
  BY DEF Requested, Request, x
<1> QED
  BY <1>4, <1>7, <1>8 DEF y

\* The nights that are sent are those Covers speaks of.
LEMMA NightsSent ==
  ASSUME Types, NEW a \in Tries, ~NoNight(a), NEW h \in Hotels, NEW n \in Nights
  PROVE  Covers(a, h, n) <=> h = Requested[a].hotels[1] /\ n \in Requested[a].nights
<1> DEFINE f == form[Guest(a)]
           N == {m \in Nights : Day(f.in) <= m /\ m < Day(f.out)}
<1>1. f.in \in Dates /\ f.out \in Dates /\ LastDay \in Nat
  BY TryOfGuest, ConstantsAssumption DEF Types, Form
<1>2. /\ Requested[a].hotels = <<f.hotel>>
      /\ Requested[a].nights = IF checkDataFormat(f.in) /\ checkDataFormat(f.out) THEN N ELSE {}
  BY DEF Requested, Request
<1>3. Requested[a].nights = N /\ checkDataFormat(f.in) /\ checkDataFormat(f.out) /\ N # {}
  BY <1>2 DEF NoNight
<1>4. Covers(a, h, n) <=> f.hotel = h /\ (f.in = Impossible \/ f.in <= n) /\ n < f.out
  BY DEF Covers
<1> HIDE DEF f
<1>5. /\ f.in \in 1..LastDay \cup {Impossible} /\ f.out \in 1..LastDay \cup {Impossible}
      /\ Impossible \notin Int /\ n \in 0..(LastDay - 1)
  BY <1>1, <1>3, ConstantsAssumption DEF Dates, checkDataFormat, Nights
<1>6. PICK m \in Nights : m < Day(f.out)
  BY <1>3
<1>7. f.out # Impossible /\ Day(f.out) = f.out
  BY <1>1, <1>5, <1>6 DEF Day, Nights
<1>8. (f.in = Impossible \/ f.in <= n) <=> Day(f.in) <= n
  BY <1>1, <1>5 DEF Day
<1>9. n \in N <=> (f.in = Impossible \/ f.in <= n) /\ n < f.out
  BY <1>7, <1>8
<1> QED
  BY <1>2, <1>3, <1>4, <1>9

\* The sum of what is asked for grows by what a try asks for.
LEMMA AskedType == Types => \A a \in Tries : Asked(a) \in Int /\ -Asked(a) \in Int
<1> SUFFICES ASSUME Types, NEW a \in Tries PROVE Asked(a) \in Int
  OBVIOUS
<1>1. form[Guest(a)].number \in Int \cup {Missing, Malformed}
  BY TryOfGuest, ConstantsAssumption DEF Types, Form
<1> QED
  BY <1>1 DEF Asked

LEMMA PartSize ==
  ASSUME NEW x, NEW n \in Int
  PROVE  /\ IsFiniteSet({x} \X (1..n))
         /\ Cardinality({x} \X (1..n)) = IF n > 0 THEN n ELSE 0
<1>1. /\ IsFiniteSet(1..n)
      /\ Cardinality(1..n) = IF n > 0 THEN n ELSE 0
  BY FS_Interval
<1>2. IsFiniteSet({x}) /\ Cardinality({x}) = 1
  BY FS_Singleton
<1>3. Cardinality({x} \X (1..n)) = 1 * Cardinality(1..n) /\ IsFiniteSet({x} \X (1..n))
  BY <1>1, <1>2, FS_Product
<1> QED
  BY <1>1, <1>3

LEMMA UnitsFinite ==
  ASSUME Types, NEW S \in SUBSET Tries, IsFiniteSet(S)
  PROVE  IsFiniteSet(Units(S)) /\ IsFiniteSet(Debts(S))
<1> DEFINE f == [a \in S |-> {a} \X (1..Asked(a))]
           F == {{a} \X (1..Asked(a)) : a \in S}
           g == [a \in S |-> {a} \X (1..(-Asked(a)))]
           G == {{a} \X (1..(-Asked(a))) : a \in S}
<1>1. f \in Surjection(S, F) /\ g \in Surjection(S, G)
  BY DEF Surjection
<1>2. IsFiniteSet(F) /\ IsFiniteSet(G)
  BY <1>1, FS_Surjection
<1>3. ASSUME NEW a \in S
      PROVE  IsFiniteSet({a} \X (1..Asked(a))) /\ IsFiniteSet({a} \X (1..(-Asked(a))))
  BY AskedType, PartSize
<1>4. IsFiniteSet(UNION F) /\ IsFiniteSet(UNION G)
  <2>1. (\A T \in F : IsFiniteSet(T)) /\ (\A T \in G : IsFiniteSet(T))
    BY <1>3
  <2> HIDE DEF F, G
  <2> QED
    BY <1>2, <2>1, FS_UNION
<1> QED
  BY <1>4 DEF Units, Debts

LEMMA AskedAdds ==
  ASSUME Types, NEW S \in SUBSET Tries, IsFiniteSet(S), NEW a \in Tries, a \notin S
  PROVE  AllAsked(S \cup {a}) = AllAsked(S) + Asked(a)
<1> DEFINE U == {a} \X (1..Asked(a))
           D == {a} \X (1..(-Asked(a)))
<1>1. Asked(a) \in Int /\ -Asked(a) \in Int
  BY AskedType
<1>2. /\ IsFiniteSet(U) /\ Cardinality(U) = IF Asked(a) > 0 THEN Asked(a) ELSE 0
      /\ IsFiniteSet(D) /\ Cardinality(D) = IF -Asked(a) > 0 THEN -Asked(a) ELSE 0
  BY <1>1, PartSize
<1>3. IsFiniteSet(Units(S)) /\ IsFiniteSet(Debts(S))
  BY UnitsFinite
<1>4. Units(S \cup {a}) = Units(S) \cup U /\ Debts(S \cup {a}) = Debts(S) \cup D
  BY Zenon DEF Units, Debts
<1>5. Units(S) \cap U = {} /\ Debts(S) \cap D = {}
  BY DEF Units, Debts
<1> HIDE DEF U, D
<1>6. /\ Cardinality(Units(S)) \in Nat /\ Cardinality(U) \in Nat
      /\ Cardinality(Debts(S)) \in Nat /\ Cardinality(D) \in Nat
  BY <1>2, <1>3, FS_CardinalityType
<1>7. /\ Cardinality(Units(S) \cup U) = Cardinality(Units(S)) + Cardinality(U)
      /\ Cardinality(Debts(S) \cup D) = Cardinality(Debts(S)) + Cardinality(D)
  <2>1. /\ Cardinality(Units(S) \cup U)
             = Cardinality(Units(S)) + Cardinality(U) - Cardinality({})
        /\ Cardinality(Debts(S) \cup D)
             = Cardinality(Debts(S)) + Cardinality(D) - Cardinality({})
    BY <1>2, <1>3, <1>5, FS_Union
  <2> QED
    BY <1>6, <2>1, FS_EmptySet
<1>8. AllAsked(S \cup {a}) = (Cardinality(Units(S)) + Cardinality(U))
                               - (Cardinality(Debts(S)) + Cardinality(D))
  BY <1>4, <1>7 DEF AllAsked
<1>9. Cardinality(U) - Cardinality(D) = Asked(a)
  BY <1>1, <1>2
<1> QED
  BY <1>6, <1>8, <1>9 DEF AllAsked

\* The tries whose rooms a night is claimed for.
Staying(h, n) == {a \in stays : Covers(a, h, n)}

AllFit == \A a \in stays : Asked(a) \in -MaxInt32-1..MaxInt32

\* Only requests for a night are open, and the claims are what was asked for.
ClaimInv ==
  /\ IsFiniteSet(stays)
  /\ \A a \in Tries : status[a] = "open" => ~NoNight(a)
  /\ AllFit => \A h \in Hotels, n \in Nights :
                 claimed[<<h, n>>] = AllAsked(Staying(h, n))

\* What guests ask for stays what it is.
LEMMA AskedStays ==
  ASSUME form' = form
  PROVE  /\ \A a : Asked(a)' = Asked(a) /\ (NoNight(a)' <=> NoNight(a))
         /\ \A S : AllAsked(S)' = AllAsked(S)
         /\ \A a, h, n : Covers(a, h, n)' <=> Covers(a, h, n)
BY DEF Asked, AllAsked, Units, Debts, Covers, NoNight, Requested

LEMMA InitClaimInv == Init => ClaimInv
<1> SUFFICES ASSUME Init PROVE ClaimInv
  OBVIOUS
<1>1. stays = {} /\ \A k \in Hotels \X Nights : claimed[k] = 0
  BY DEF Init, Desk!Init
<1>2. \A a \in Tries : status[a] = "new"
  BY DEF Init, Desk!Init
<1>3. \A h, n : Staying(h, n) = {}
  BY <1>1 DEF Staying
<1>4. AllAsked({}) = 0
  <2>1. Units({}) = {} /\ Debts({}) = {}
    BY Zenon DEF Units, Debts
  <2> QED
    BY <2>1, FS_EmptySet DEF AllAsked
<1> QED
  BY <1>1, <1>2, <1>3, <1>4, FS_EmptySet DEF ClaimInv

\* A step that claims nothing.
LEMMA NoClaimStep ==
  ASSUME ClaimInv, UNCHANGED <<form, claimed, stays>>,
         \A a \in Tries : status'[a] = "open" => status[a] = "open" \/ ~NoNight(a)
  PROVE  ClaimInv'
<1>1. /\ \A a : Asked(a)' = Asked(a) /\ (NoNight(a)' <=> NoNight(a))
      /\ \A S : AllAsked(S)' = AllAsked(S)
      /\ \A a, h, n : Covers(a, h, n)' <=> Covers(a, h, n)
  BY AskedStays
<1>2. AllFit' <=> AllFit
  BY <1>1 DEF AllFit
<1>3. ASSUME NEW h, NEW n PROVE AllAsked(Staying(h, n))' = AllAsked(Staying(h, n))
  BY DEF Staying, AllAsked, Units, Debts, Asked, Covers
<1>4. IsFiniteSet(stays)' /\ \A a \in Tries : (status[a] = "open")' => ~NoNight(a)'
  BY <1>1 DEF ClaimInv
<1> QED
  BY <1>2, <1>3, <1>4 DEF ClaimInv

\* A try that claims its rooms.
LEMMA ClaimStep ==
  ASSUME IInv, Rest, ClaimInv, NEW a \in Tries, Desk!Claim(a), stays' = stays \cup {a},
         form' = form
  PROVE  ClaimInv'
<1>1. /\ status[a] = "open" /\ status' = [status EXCEPT ![a] = "held"]
      /\ claimed' = [k \in Hotels \X Nights |->
                       IF k[1] = Requested[a].hotels[1] /\ k[2] \in Requested[a].nights
                         THEN claimed[k] + Requested[a].rooms
                         ELSE claimed[k]]
  BY DEF Desk!Claim, Desk!Move
<1>2. /\ a \notin stays /\ ~NoNight(a) /\ stays \subseteq Tries /\ Types
      /\ claimed \in [Hotels \X Nights -> Int]
  BY <1>1 DEF IInv, Rest, Booked, ClaimInv
<1>3. /\ \A b : Asked(b)' = Asked(b) /\ (NoNight(b)' <=> NoNight(b))
      /\ \A S : AllAsked(S)' = AllAsked(S)
      /\ \A b, h, n : Covers(b, h, n)' <=> Covers(b, h, n)
  BY AskedStays
<1>4. IsFiniteSet(stays)
  BY DEF ClaimInv
<1>5. IsFiniteSet(stays')
  BY <1>4, FS_AddElement
<1>6. ASSUME NEW b \in Tries, status'[b] = "open" PROVE ~NoNight(b)'
  BY <1>1, <1>2, <1>3, <1>6 DEF ClaimInv, Types
<1>7. ASSUME AllFit', NEW h \in Hotels, NEW n \in Nights
      PROVE  claimed'[<<h, n>>] = AllAsked({b \in stays' : Covers(b, h, n)})
  <2> DEFINE S == {b \in stays : Covers(b, h, n)}
             k == <<h, n>>
  <2>1. AllFit /\ Asked(a) \in -MaxInt32-1..MaxInt32
    BY <1>3, <1>7 DEF AllFit
  <2>2. claimed[k] = AllAsked(S) /\ claimed[k] \in Int
    BY <1>2, <2>1 DEF ClaimInv, Staying
  <2>3. Covers(a, h, n) <=> h = Requested[a].hotels[1] /\ n \in Requested[a].nights
    BY <1>2, NightsSent
  <2>4. Requested[a].rooms = Asked(a)
    BY <1>2, <2>1, RoomsSent
  <2>5. IsFiniteSet(S) /\ S \in SUBSET Tries /\ a \notin S
    BY <1>2, <1>4, FS_Subset
  <2>6. CASE Covers(a, h, n)
    <3>1. {b \in stays' : Covers(b, h, n)} = S \cup {a}
      BY <2>6
    <3>2. claimed'[k] = claimed[k] + Asked(a)
      BY <1>1, <2>3, <2>4, <2>6
    <3> HIDE DEF S, k
    <3>3. AllAsked(S \cup {a}) = AllAsked(S) + Asked(a)
      BY <1>2, <2>5, AskedAdds
    <3> QED
      BY <2>2, <3>1, <3>2, <3>3 DEF k
  <2>7. CASE ~Covers(a, h, n)
    <3>1. {b \in stays' : Covers(b, h, n)} = S
      BY <2>7
    <3>2. claimed'[k] = claimed[k]
      BY <1>1, <2>3, <2>7
    <3> HIDE DEF S, k
    <3> QED
      BY <2>2, <3>1, <3>2 DEF k
  <2> QED
    BY <2>6, <2>7
<1>8. ASSUME NEW h, NEW n
      PROVE  AllAsked(Staying(h, n))' = AllAsked({b \in stays' : Covers(b, h, n)})
  BY <1>3 DEF Staying, AllAsked, Units, Debts, Asked
<1>9. ASSUME AllFit', NEW h \in Hotels, NEW n \in Nights
      PROVE  claimed'[<<h, n>>] = AllAsked(Staying(h, n))'
  <2>1. AllAsked(Staying(h, n))' = AllAsked({b \in stays' : Covers(b, h, n)})
    BY <1>8
  <2> QED
    BY <1>7, <1>9, <2>1
<1>10. /\ IsFiniteSet(stays)'
       /\ \A b \in Tries : (status[b] = "open")' => ~NoNight(b)'
  BY <1>5, <1>6
<1> QED
  BY <1>9, <1>10 DEF ClaimInv

LEMMA NextClaimInv ==
  ASSUME IInv, Rest, ClaimInv, [Next]_vars
  PROVE  ClaimInv'
<1>1. ASSUME UNCHANGED <<form, desk, stays>> PROVE ClaimInv'
  BY <1>1, NoClaimStep DEF desk
<1>2. CASE UNCHANGED vars
  BY <1>1, <1>2 DEF vars
<1>3. CASE StartUser
  BY <1>1, <1>3 DEF StartUser
<1>4. ASSUME NEW s \in Services, Start(s) PROVE ClaimInv'
  BY <1>1, <1>4 DEF Start
<1>5. ASSUME NEW s \in Services, Die(s) PROVE ClaimInv'
  <2>1. UNCHANGED <<form, stays>> /\ (Desk!Lose \/ UNCHANGED desk)
    BY <1>5 DEF Die
  <2>2. CASE Desk!Lose
    <3>1. \A a \in Tries : status'[a] = "open" => status[a] = "open"
      BY <2>2 DEF Desk!Lose
    <3> QED
      BY <2>1, <2>2, <3>1, NoClaimStep DEF Desk!Lose
  <2> QED
    BY <1>1, <2>1, <2>2
<1>6. ASSUME NEW a \in Tries, Send(a) \/ GiveUp(a) PROVE ClaimInv'
  BY <1>1, <1>6 DEF Send, GiveUp
<1>7. ASSUME NEW a \in Tries, Handle(a) PROVE ClaimInv'
  <2>1. CASE userHandler(a) \/ recommendHandler(a) \/ reservationHandler(a)
             \/ CheckUser(a) \/ LoginReply(a) \/ ReservationReply(a)
             \/ CallProfile(a) \/ GetProfiles(a)
    BY <1>1, <2>1 DEF userHandler, recommendHandler, reservationHandler, CheckUser,
       LoginReply, ReservationReply, CallProfile, GetProfiles, handled
  <2>2. CASE CallReservation(a)
    <3>1. UNCHANGED <<form, stays>>
      BY <2>2 DEF CallReservation
    <3>2. CASE Desk!Trivial(a)
      <4>1. \A b \in Tries : status'[b] = "open" => status[b] = "open"
        BY <3>2 DEF Desk!Trivial, Desk!Move, IInv, Types
      <4> QED
        BY <3>1, <3>2, <4>1, NoClaimStep DEF Desk!Trivial
    <3>3. CASE Desk!Open(a) /\ ~NoNight(a)
      <4>1. \A b \in Tries : status'[b] = "open" => status[b] = "open" \/ ~NoNight(b)
        BY <3>3 DEF Desk!Open, Desk!Move, IInv, Types
      <4> QED
        BY <3>1, <3>3, <4>1, NoClaimStep DEF Desk!Open
    <3> QED
      BY <1>1, <2>2, <3>1, <3>2, <3>3 DEF CallReservation, NoNight
  <2>3. CASE Reserve(a)
    <3>1. form' = form
      BY <2>3 DEF Reserve
    <3>2. CASE Desk!Claim(a) /\ stays' = stays \cup {a}
      BY <3>1, <3>2, ClaimStep
    <3>3. CASE status' = [status EXCEPT ![a] = "done"] /\ UNCHANGED <<claimed, stays>>
      <4>1. \A b \in Tries : status'[b] = "open" => status[b] = "open"
        BY <3>3 DEF IInv, Types
      <4> QED
        BY <3>1, <3>3, <4>1, NoClaimStep
    <3> QED
      BY <2>3, <3>2, <3>3 DEF Reserve, Desk!Confirm, Desk!Refuse, Desk!Move
  <2> QED
    BY <1>7, <2>1, <2>2, <2>3 DEF Handle
<1> QED
  BY <1>2, <1>3, <1>4, <1>5, <1>6, <1>7 DEF Next

\* The rooms claimed for a night are those that were asked for, by whichever tries
\* claimed any: each once, whatever the services and the guests did meanwhile.
THEOREM ClaimsAsAsked == Spec => []ClaimsAreAsked
<1>1. Init => ClaimInv
  BY InitClaimInv
<1>2. IInv /\ Rest /\ ClaimInv /\ [Next]_vars => ClaimInv'
  BY NextClaimInv
<1>3. ClaimInv => ClaimsAreAsked
  BY DEF ClaimInv, ClaimsAreAsked, AllFit, Staying
<1>4. Spec => [](IInv /\ Rest)
  BY RestAlways
<1> QED
  BY <1>1, <1>2, <1>3, <1>4, PTL DEF Spec
=============================================================================
