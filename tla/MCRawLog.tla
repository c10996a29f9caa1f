------------------------------ MODULE MCRawLog ------------------------------
(* Instances of RawLog for TLC. *)
EXTENDS RawLog
=============================================================================
