-------------------------- MODULE MCRecommendation --------------------------
(* Constants for the model checking of Recommendation. *)
EXTENDS Recommendation, TLC

CONSTANTS r1, r2, h1, h2, h3, here, nowhere

\* Two hotels as near, two as expensive, one whose rate is below 0.
Near == here :> (h1 :> 2 @@ h2 :> 2 @@ h3 :> 1) @@ nowhere :> [h \in Ids |-> NaN]
Rates == h1 :> 3 @@ h2 :> 0 @@ h3 :> -1
Prices == h1 :> 3 @@ h2 :> 1 @@ h3 :> 3
=============================================================================
