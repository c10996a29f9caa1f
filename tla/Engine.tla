------------------------------- MODULE Engine -------------------------------
(***************************************************************************)
(* The main loop of atop, engine() of atop.c, with the signals that drive  *)
(* it and the GPU daemon that it asks once per sample.  A signal may come  *)
(* between any two steps.  What a sample holds is told by the moment its   *)
(* counters were read: "boot" for the zeroes of the start, else "last",    *)
(* the sample before.                                                      *)
(***************************************************************************)
EXTENDS Integers, Sequences

CONSTANTS
  Interval,    \* seconds between two samples, 0: samples are asked for
  Samples,     \* numbers of samples that may be asked for
  Forever,     \* 0xffffffff: the number when none is given, and -1 as an unsigned int
  MaxCnt,      \* bound: the number of a sample is not counted any further
  MaxSignals,  \* bound: SIGUSR1 and SIGUSR2 sent
  MaxWipes     \* bound: resets by the user

ASSUME EngineAssumption ==
  /\ Interval \in Nat /\ MaxCnt \in Nat \ {0} /\ MaxSignals \in Nat /\ MaxWipes \in Nat
  /\ Forever \in Nat /\ Forever > MaxCnt /\ Samples \subseteq (1 .. MaxCnt) \cup {Forever}

VARIABLES
  pc,          \* where the loop is
  sampcnt, nsamples, awaittrigger,
  cursstat, presstat,    \* the counters of the system: when they were read
  db,          \* the tasks and cgroups of the previous sample are known
  lastcmd,     \* what the user asked for at the last display
  nrgpus,      \* GPUs the daemon has told, 0 without a connection
  askq, wire,  \* the daemon: requests to be answered, answers not yet read
  gpu,         \* the sample that the GPU values in the current counters belong to
  owed,        \* history: a signal that no sample has followed yet
  final,       \* history of SIGUSR2: sent, samples shown since, reset since
  sent, wipes, \* counters: signals, resets
  timer        \* the timer is running

gpud  == <<nrgpus, askq, wire, gpu>>
hist  == <<owed, final, sent, wipes>>
evars == <<timer, pc, sampcnt, nsamples, awaittrigger, cursstat, presstat, db, lastcmd, gpud, hist>>

EngineInit ==
  /\ pc = "test" /\ sampcnt = 0 /\ nsamples \in Samples /\ awaittrigger = FALSE
  /\ cursstat = "boot" /\ presstat = "boot" /\ db = FALSE /\ lastcmd = "none"
  /\ nrgpus \in {0, 1} /\ askq = << >> /\ wire = << >> /\ gpu = "none"
  /\ owed = FALSE /\ sent = 0 /\ wipes = 0 /\ timer = (Interval > 0)
  /\ final = [sent |-> FALSE, shown |-> 0, reset |-> FALSE]
EngineOff ==
  /\ pc = "end" /\ sampcnt = 0 /\ nsamples = 1 /\ awaittrigger = FALSE
  /\ cursstat = "boot" /\ presstat = "boot" /\ db = FALSE /\ lastcmd = "none"
  /\ nrgpus = 0 /\ askq = << >> /\ wire = << >> /\ gpu = "none"
  /\ owed = FALSE /\ sent = 0 /\ wipes = 0 /\ timer = FALSE
  /\ final = [sent |-> FALSE, shown |-> 0, reset |-> FALSE]
-----------------------------------------------------------------------------
\* Signals.  pause() returns when a handler has run.

Wake == IF pc = "paused" THEN "go" ELSE pc
Handled == UNCHANGED <<wipes, sampcnt, cursstat, presstat, db, lastcmd, gpud>>

RearmNot == timer' = FALSE       \* Mutant: the timer is not started again
Rearm == timer' = (Interval > 0)
getalarm ==
  /\ timer /\ Rearm /\ pc # "end"
  /\ awaittrigger' = FALSE /\ pc' = Wake
  /\ UNCHANGED <<nsamples, owed, final, sent>> /\ Handled

getusr1 ==
  /\ pc # "end" /\ sent < MaxSignals
  /\ awaittrigger' = FALSE /\ pc' = Wake
  /\ owed' = TRUE /\ sent' = sent + 1
  /\ UNCHANGED <<timer, nsamples, final>> /\ Handled

\* Mutant: one sample more is allowed.
Stop2 == sampcnt + 2
\* The number of samples is unsigned.
Stop == IF sampcnt = -1 THEN Forever ELSE sampcnt
getusr2 ==
  /\ pc # "end" /\ sent < MaxSignals
  /\ awaittrigger' = FALSE /\ pc' = Wake
  /\ nsamples' = Stop
  /\ owed' = TRUE /\ sent' = sent + 1
  /\ final' = IF sampcnt = -1 THEN [sent |-> TRUE, shown |-> final.shown, reset |-> TRUE]
              ELSE [final EXCEPT !.sent = TRUE]
  /\ UNCHANGED timer /\ Handled
-----------------------------------------------------------------------------
\* The loop.

Test ==
  /\ pc = "test"
  /\ \/ sampcnt < nsamples /\ pc' = "await" /\ UNCHANGED owed
     \/ sampcnt >= nsamples /\ pc' = "end" /\ owed' = FALSE
  /\ UNCHANGED <<timer, sampcnt, nsamples, awaittrigger, cursstat, presstat, db, lastcmd, gpud, final, sent, wipes>>

\* atop -S ends when the next sample would come after midnight.
Midnight ==
  /\ pc = "await" /\ pc' = "end" /\ owed' = FALSE
  /\ UNCHANGED <<timer, sampcnt, nsamples, awaittrigger, cursstat, presstat, db, lastcmd, gpud, final, sent, wipes>>

\* The test of awaittrigger and the call of pause() are two steps.
Await ==
  /\ pc = "await"
  /\ pc' = IF sampcnt > 0 /\ awaittrigger THEN "pausing" ELSE "go"
  /\ UNCHANGED <<timer, sampcnt, nsamples, awaittrigger, cursstat, presstat, db, lastcmd, gpud, hist>>
Pause ==
  /\ pc = "pausing" /\ pc' = "paused"
  /\ UNCHANGED <<timer, sampcnt, nsamples, awaittrigger, cursstat, presstat, db, lastcmd, gpud, hist>>

\* A sample starts; the answers of the daemon age.
Go ==
  /\ pc = "go" /\ pc' = "request"
  /\ awaittrigger' = TRUE /\ owed' = FALSE
  /\ askq' = [i \in DOMAIN askq |-> "old"] /\ wire' = [i \in DOMAIN wire |-> "old"]
  /\ UNCHANGED <<timer, sampcnt, nsamples, cursstat, presstat, db, lastcmd, nrgpus, gpu, final, sent, wipes>>

\* gpud_statrequest(): a daemon that has gone is not asked again.
StatRequest ==
  /\ pc = "request" /\ pc' = "photo"
  /\ \/ nrgpus # 0 /\ askq' = Append(askq, "now") /\ UNCHANGED nrgpus
     \/ nrgpus' = 0 /\ askq' = << >>
  /\ UNCHANGED <<timer, sampcnt, nsamples, awaittrigger, cursstat, presstat, db, lastcmd, wire, gpu, hist>>

\* The structs of the previous and the current sample change roles, and the
\* new current one is filled: photosyst() starts with zeroes.
PhotoSyst ==
  /\ pc = "photo" /\ pc' = "response"
  /\ presstat' = cursstat /\ cursstat' = "last" /\ gpu' = "none"
  /\ UNCHANGED <<timer, sampcnt, nsamples, awaittrigger, db, lastcmd, nrgpus, askq, wire, hist>>

\* gpud_statresponse(): the answer, or an error, an end of the connection or a
\* silence of two seconds, after which the connection is closed.
GpuTimeoutKeep == UNCHANGED <<nrgpus, askq, wire, gpu>>   \* Mutant: the connection is kept
GpuTimeout == nrgpus' = 0 /\ askq' = << >> /\ wire' = << >> /\ UNCHANGED gpu
StatResponse ==
  /\ pc = "response" /\ pc' = "tasks"
  /\ \/ nrgpus = 0 /\ UNCHANGED gpud
     \/ nrgpus # 0 /\ wire # << >> /\ gpu' = Head(wire) /\ wire' = Tail(wire)
                   /\ UNCHANGED <<nrgpus, askq>>
     \/ nrgpus # 0 /\ GpuTimeout
  /\ UNCHANGED <<timer, sampcnt, nsamples, awaittrigger, cursstat, presstat, db, lastcmd, hist>>

\* The daemon answers in the order of the requests.
GpuDaemon ==
  /\ askq # << >> /\ pc # "end"
  /\ wire' = Append(wire, Head(askq)) /\ askq' = Tail(askq)
  /\ UNCHANGED <<timer, pc, sampcnt, nsamples, awaittrigger, cursstat, presstat, db, lastcmd, nrgpus, gpu, hist>>

\* The handlers show the sample; the tasks in it are the known ones from now on.
Show ==
  /\ pc = "tasks"
  /\ \E cmd \in {"none"} \cup (IF wipes < MaxWipes THEN {"reset"} ELSE {}) :
       lastcmd' = cmd /\ pc' = IF cmd = "reset" THEN "wipe" ELSE "next"
  /\ final' = IF final.sent /\ final.shown < 2 THEN [final EXCEPT !.shown = @ + 1] ELSE final
  /\ UNCHANGED <<timer, sampcnt, nsamples, awaittrigger, cursstat, presstat, gpud, owed, sent, wipes>>
  /\ db' = TRUE

\* A reset: everything starts again from the boot.
WipeDb == db' = FALSE
Wipe ==
  /\ pc = "wipe" /\ pc' = "next"
  /\ sampcnt' = -1 /\ cursstat' = "boot" /\ WipeDb
  /\ final' = [final EXCEPT !.reset = final.sent] /\ wipes' = wipes + 1
  /\ UNCHANGED <<timer, nsamples, awaittrigger, presstat, lastcmd, gpud, owed, sent>>

NextSample ==
  /\ pc = "next" /\ pc' = "test"
  /\ sampcnt' = IF sampcnt < MaxCnt THEN sampcnt + 1 ELSE sampcnt
  /\ UNCHANGED <<timer, nsamples, awaittrigger, cursstat, presstat, db, lastcmd, gpud, hist>>

EngineStep == \/ Test \/ Midnight \/ Await \/ Pause \/ Go \/ StatRequest \/ PhotoSyst
              \/ StatResponse \/ Show \/ Wipe \/ NextSample
EngineNext == EngineStep \/ getalarm \/ getusr1 \/ getusr2 \/ GpuDaemon
EngineSpec == EngineInit /\ [][EngineNext]_evars
\* The loop runs on, and with an interval the timer goes off.
EngineFair == WF_evars(EngineStep) /\ WF_evars(getalarm)
-----------------------------------------------------------------------------
\* The first sample, and the first after a reset, shows everything since the
\* boot, all others what has changed since the sample before: counters, tasks
\* and cgroups agree on that, whatever signals come (engine(), MRESET).
SinceBoot == pc = "tasks" => (sampcnt = 0 <=> presstat = "boot") /\ (sampcnt = 0 <=> ~ db)

\* The GPU values of a sample never answer the request of an earlier one: a
\* late answer is never taken for the next one (gpud_statresponse()).
GpuFresh == gpu # "old"

\* All parts of a sample are of its own interval.
OwnInterval == SinceBoot /\ GpuFresh

\* SIGUSR2 is followed by at most one sample, if the user does not reset at
\* the same time ("force stop after next sample", atop.c).
OneMore == (final.sent /\ ~ final.reset) => final.shown <= 1

\* With an interval no trigger is lost for good: a sample follows each, and
\* atop ends after SIGUSR2 (getalarm() starts the timer again).
Served == /\ owed ~> ~ owed
          /\ final.sent ~> (pc = "end" \/ final.reset)
=============================================================================
