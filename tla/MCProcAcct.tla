----------------------------- MODULE MCProcAcct -----------------------------
(* Small instances of ProcAcct for TLC. *)
EXTENDS ProcAcctInv, TLC

MCInodes == 1 .. 6

\* Clients are interchangeable (used in runs without liveness properties).
Symmetry == Permutations(Clients)
=============================================================================
