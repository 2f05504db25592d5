----------------------------- MODULE MCFrontend -----------------------------
(* Constants, and the parameters that guests send, for the model checking of *)
(* Frontend. *)
EXTENDS Frontend

CONSTANTS g1, h1

OneRoom == [h \in Hotels |-> 1]

Ask(in, out, number, complete) ==
  [in |-> in, out |-> out, hotel |-> h1, complete |-> complete, number |-> number]

\* A stay that fits, one for two rooms, one that ends before it begins, dates that
\* are missing or impossible, what is no number, a number that int32 wraps and one
\* that Atoi cuts off; and a form without a hotel.
AllForms ==
  {Ask(1, 2, 1, TRUE), Ask(1, 2, 2, TRUE), Ask(2, 1, 1, TRUE), Ask(Impossible, 1, 1, TRUE),
   Ask(Missing, 2, 1, TRUE), Ask(1, Impossible, 1, TRUE), Ask(1, 2, Malformed, TRUE),
   Ask(1, 2, 5, TRUE), Ask(1, 2, 99, TRUE), Ask(1, 2, 1, FALSE)}

TwoTries == [g \in Guests |-> 2]

OneForm == {Ask(1, 2, 1, TRUE)}
=============================================================================
