---------------------------- MODULE MCLogTools ------------------------------
(* Instances of LogTools for TLC. *)
EXTENDS LogTools
=============================================================================
