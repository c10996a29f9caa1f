------------------------------ MODULE MCTaskDb ------------------------------
(* Small instances of TaskDb for TLC. *)
EXTENDS TaskDb
=============================================================================
