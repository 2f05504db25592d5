--------------------------- MODULE MCProfileCache ---------------------------
(* Constants and workloads for the model checking of ProfileCache. *)
EXTENDS ProfileCache

CONSTANTS r1, r2, h1, h2

Lists == {<<h1, h2>>, <<h2, h1, h1>>, <<>>}
=============================================================================
