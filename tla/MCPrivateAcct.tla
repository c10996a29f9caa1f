--------------------------- MODULE MCPrivateAcct ---------------------------
(* Small instances of PrivateAcct for TLC. *)
EXTENDS PrivateAcct

\* Signals that hit an atop while it samples and does not have the mutex.
MCSignalAt == (Sampling \ {"alone"}) \cup {"without"}

=============================================================================
