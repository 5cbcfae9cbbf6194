------------------------------ MODULE MCMemory ------------------------------
(* The memory store alone. *)
EXTENDS Memory
=============================================================================
