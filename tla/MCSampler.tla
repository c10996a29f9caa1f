----------------------------- MODULE MCSampler ------------------------------
(* Instances of Sampler for TLC. *)
EXTENDS Sampler

\* What the theorem on perf counters supposes holds of the CPUs of the run.
ASSUME MCSquares == SquaresTell
=============================================================================
