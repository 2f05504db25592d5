---------------------------- MODULE MCRateCache ----------------------------
(* Constants and workloads for the model checking of RateCache. *)
EXTENDS RateCache, TLC

CONSTANTS r1, r2, h1, h2, h3

\* Two hotels of the same rate, and a better one.
Totals == [h \in Ids |-> IF h = h3 THEN 2 ELSE 1]

\* Geo draws with repetition: lists with a hotel twice occur.
Lists == {<<h1, h3>>, <<h1, h2, h1>>, <<h3>>, <<>>}
=============================================================================
