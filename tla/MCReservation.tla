--------------------------- MODULE MCReservation ---------------------------
(* Constants and workloads for the model checking of Reservation. *)
EXTENDS Reservation, TLC

CONSTANTS r1, r2, r3, h1, h2

Symmetry == Permutations(Requests)

Book(h, in, out, n) ==
  [op |-> "make", hotels |-> <<h>>, in |-> in, out |-> out, rooms |-> n]
Ask(hs, in, out, n) ==
  [op |-> "check", hotels |-> hs, in |-> in, out |-> out, rooms |-> n]

\* Two rooms in the hotel that has a number document, none in the other.
TwoRooms == h1 :> 2 @@ h2 :> 2

OneHotel == h1 :> 2

\* One hotel, two nights: bookings of one night and of both, and a check.
RaceCalls ==
  {Book(h1, 0, 1, 1), Book(h1, 0, 2, 1), Book(h1, 1, 2, 2), Ask(<<h1>>, 0, 2, 1)}

\* ... with stays of no night, days that do not exist, a hotel without a number
\* document, lists with two hotels, with one hotel twice and with none.
WideCalls ==
  RaceCalls \cup
    {Book(h1, 1, 1, 1), Book(h1, 9, 1, 0), Book(h2, 0, 1, 1),
     Ask(<<h1, h2>>, 0, 1, 1), Ask(<<h1, h1>>, 1, 2, 1), Ask(<<>>, 0, 1, 1),
     Ask(<<h1>>, 2, 1, 1)}

\* ... and a negative number of rooms.
AnyCalls == WideCalls \cup {Book(h1, 0, 2, -1), Ask(<<h2, h1>>, 0, 2, -1)}

=============================================================================
