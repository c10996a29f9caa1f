----------------------------- MODULE EngineInv ------------------------------
(***************************************************************************)
(* The inductive invariant of the loop in engine(): what holds at each     *)
(* point of the loop, so that counters, tasks and GPU values of a sample   *)
(* belong together and SIGUSR2 is followed by one sample at most.          *)
(***************************************************************************)
EXTENDS Engine

\* Where no sample has been started, where one is taken, where one is shown.
Waiting == {"test", "await", "pausing", "paused", "go", "request", "photo"}
Taking  == {"response", "tasks"}
Points  == Waiting \cup Taking \cup {"wipe", "next", "end"}

EngineTypeOK ==
  /\ pc \in Points
  /\ sampcnt \in -1 .. MaxCnt /\ nsamples \in Nat
  /\ cursstat \in {"boot", "last"} /\ db \in BOOLEAN
  /\ nrgpus \in {0, 1}
  /\ final \in [sent : BOOLEAN, shown : 0 .. 2, reset : BOOLEAN]

\* The number of the sample is 0 as long as nothing is known from an earlier
\* one, and -1 only between a reset and the next round.
RoundInv ==
  /\ sampcnt = -1 => pc = "next"
  /\ pc \in Waiting => (sampcnt = 0 <=> cursstat = "boot") /\ (sampcnt = 0 <=> ~ db)
  /\ pc \in Taking  => /\ cursstat = "last"
                       /\ (sampcnt = 0 <=> presstat = "boot") /\ (sampcnt = 0 <=> ~ db)
  /\ pc = "wipe" => cursstat = "last" /\ db
  /\ pc = "next" => IF sampcnt = -1 THEN cursstat = "boot" /\ ~ db
                                    ELSE cursstat = "last" /\ db

\* A daemon that is connected has at most one request, that of this sample.
AskInv ==
  /\ gpu \in {"none", "now"}
  /\ nrgpus = 0 => askq = << >>
  /\ nrgpus # 0 =>
       IF pc \in {"photo", "response"}
       THEN \/ askq = <<"now">> /\ wire = << >>
            \/ askq = << >> /\ wire = <<"now">>
       ELSE askq = << >> /\ wire = << >>

\* After SIGUSR2 no round is begun, and the one that runs has not been shown.
StopInv ==
  /\ ~ final.sent => final.shown = 0 /\ ~ final.reset
  /\ final.sent /\ ~ final.reset =>
       /\ pc # "end" => nsamples <= sampcnt
       /\ final.shown <= 1
       /\ pc \notin {"test", "wipe", "next", "end"} => final.shown = 0

EngineInv == EngineTypeOK /\ RoundInv /\ AskInv /\ StopInv
=============================================================================
