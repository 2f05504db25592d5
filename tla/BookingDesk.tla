---------------------------- MODULE BookingDesk ----------------------------
(***************************************************************************)
(* What the reservation service promises its clients, without databases,   *)
(* caches or steps inside a request.  The desk keeps one number per hotel  *)
(* and night, the rooms claimed so far.  It never turns a client away      *)
(* unless the claims leave too few rooms or it could not find out, for     *)
(* this very client, how many rooms the hotel has; it answers each request *)
(* once, and it may lose the requests it is working on, claims included.   *)
(*                                                                         *)
(* The desk may claim more rooms than there are: the service gives no      *)
(* promise about that (see NoOverbooking and OnlyBlindOversell in module   *)
(* Reservation).                                                           *)
(***************************************************************************)
EXTENDS Integers, Sequences

CONSTANTS
  Requests,
  Calls,     \* what a request may ask for, see Call
  Hotels,
  Nights,
  Stock,     \* rooms of a hotel
  Opening    \* the claims before the first request

Call == [op: {"make", "check"}, hotels: Seq(Hotels), nights: SUBSET Nights, rooms: Int]

VARIABLES
  call,      \* what each request asks for; never changes
  status,    \* "new", "open", "held" (claimed, not confirmed), "done", "lost"
  claimed,   \* rooms claimed, per hotel and night
  answer,    \* the hotels named in the reply
  unread     \* hotels missing there because their rooms could not be read

deskVars == <<call, status, claimed, answer, unread>>

Booking(r) == call[r].op = "make"
Names(s) == {s[i] : i \in DOMAIN s}

\* The claims leave too few rooms in one of the nights r asks for.
NoRoom(r, h) ==
  \E n \in call[r].nights : claimed[<<h, n>>] + call[r].rooms > Stock[h]

Init ==
  /\ call \in [Requests -> Calls]
  /\ status = [r \in Requests |-> "new"]
  /\ claimed = Opening
  /\ answer = [r \in Requests |-> <<>>]
  /\ unread = [r \in Requests |-> {}]

Move(r, from, to) ==
  /\ status[r] = from
  /\ status' = [status EXCEPT ![r] = to]

Open(r) ==
  /\ Move(r, "new", "open")
  /\ UNCHANGED <<call, claimed, answer, unread>>

\* A request for no night, or for no hotel, is answered at once.
Trivial(r) ==
  /\ call[r].nights = {} \/ call[r].hotels = <<>>
  /\ Move(r, "new", "done")
  /\ answer' = [answer EXCEPT ![r] = IF Booking(r) THEN <<call[r].hotels[1]>> ELSE <<>>]
  /\ UNCHANGED <<call, claimed, unread>>

\* A booking claims every night of its stay in the first hotel it names.
Claim(r) ==
  /\ Booking(r)
  /\ Move(r, "open", "held")
  /\ claimed' = [k \in Hotels \X Nights |->
                   IF k[1] = call[r].hotels[1] /\ k[2] \in call[r].nights
                     THEN claimed[k] + call[r].rooms
                     ELSE claimed[k]]
  /\ UNCHANGED <<call, answer, unread>>

Confirm(r) ==
  /\ Move(r, "held", "done")
  /\ answer' = [answer EXCEPT ![r] = <<call[r].hotels[1]>>]
  /\ UNCHANGED <<call, claimed, unread>>

Misses(r, S) == unread' = [unread EXCEPT ![r] = S]

\* S: the hotels that could not be read.
Refuse(r, S) ==
  /\ Booking(r)
  /\ Move(r, "open", "done")
  /\ NoRoom(r, call[r].hotels[1]) \/ call[r].hotels[1] \in S
  /\ Misses(r, S)
  /\ UNCHANGED <<call, claimed, answer>>

\* An availability check: every hotel asked about is in the reply, has no room, or
\* could not be read; and no other hotel is in the reply.
Answer(r, S) ==
  /\ ~Booking(r)
  /\ Move(r, "open", "done")
  /\ answer' = [answer EXCEPT ![r] = answer'[r]]
  /\ answer'[r] \in Seq(Names(call[r].hotels))
  /\ \A h \in Names(call[r].hotels) \ Names(answer'[r]) : NoRoom(r, h) \/ h \in S
  /\ Misses(r, S)
  /\ UNCHANGED <<call, claimed>>

\* A crash loses everything under way.
Lose ==
  /\ status' = [r \in Requests |->
                  IF status[r] \in {"open", "held"} THEN "lost" ELSE status[r]]
  /\ UNCHANGED <<call, claimed, answer, unread>>

Next ==
  \/ \E r \in Requests :
       \/ Open(r) \/ Trivial(r) \/ Claim(r) \/ Confirm(r)
       \/ \E S \in SUBSET Names(call[r].hotels) : Refuse(r, S) \/ Answer(r, S)
  \/ Lose

Spec == Init /\ [][Next]_deskVars
=============================================================================
