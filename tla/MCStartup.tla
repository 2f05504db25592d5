----------------------------- MODULE MCStartup -----------------------------
(* The six services for the model checking of Startup. *)
EXTENDS Startup

AllServices == DOMAIN Policy
=============================================================================
