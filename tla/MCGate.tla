------------------------------- MODULE MCGate -------------------------------
(* The gate alone. *)
EXTENDS Gate
=============================================================================
