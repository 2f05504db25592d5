---------------------------- MODULE MCSearchPath ----------------------------
(* Constants for the model checking of SearchPath. *)
EXTENDS SearchPath

CONSTANTS r1, r2, h1, h2

TwoPoints == <<h1, h2>>
OnePlan == [h \in Hotels |-> 1]
Rates == [h \in Hotels |-> IF h = h1 THEN 1 ELSE 2]

\* What is kept of a list is what SelectSeq keeps, here for all short lists.
ASSUME OnlyIsSelectSeq ==
  \A n \in 0..4 : \A s \in [1..n -> Hotels] : \A S \in SUBSET Hotels :
    Only(s, S) = SelectSeq(s, LAMBDA h : h \in S)
=============================================================================
