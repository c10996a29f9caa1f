----------------------------- MODULE PhotoProc ------------------------------
(***************************************************************************)
(* photoproc() and counttasks() of photoproc.c with the loop of engine()   *)
(* around them: the list of the processes in /proc and of their threads,   *)
(* read file by file while processes and threads come and go.  The list    *)
(* has a size that is estimated first; a list that has become full may be  *)
(* cut off and is taken again.                                             *)
(***************************************************************************)
EXTENDS Integers, Sequences, FiniteSets, FiniteSetsExt, SequencesExt

CONSTANTS
  Procs,        \* process ids, numbers; /proc is read in their order
  MaxThreads,   \* bound: threads of a process
  MaxEvents     \* bound: processes and threads that come or go

ASSUME PhotoProcAssumption ==
  /\ Procs \subseteq Nat \ {0} /\ IsFiniteSet(Procs)
  /\ MaxThreads \in Nat \ {0} /\ MaxEvents \in Nat

VARIABLES
  nthr,     \* the threads of each process, 0 for none
  events,   \* counter: changes
  stayed,   \* history: the processes without a change since the list was begun
  ppc,      \* where the sample is
  curtlen,  \* the size of the list
  list,     \* the entries: process, thread (0: the process), number of threads
  at, thr   \* the process that is read, and its thread
pvars == <<nthr, events, stayed, ppc, curtlen, list, at, thr>>

Alive == {p \in Procs : nthr[p] > 0}
PhotoInit ==
  /\ nthr \in [Procs -> 0 .. MaxThreads] /\ Alive # {}
  /\ events = 0 /\ stayed = {} /\ ppc = "threads" /\ curtlen = 0 /\ list = << >> /\ at = 0 /\ thr = 0
PhotoOff ==
  /\ nthr = [p \in Procs |-> 0]
  /\ events = 0 /\ stayed = {} /\ ppc = "done" /\ curtlen = 0 /\ list = << >> /\ at = 0 /\ thr = 0
-----------------------------------------------------------------------------
\* The system: a process starts or ends, a thread starts or ends.
Change(p, n) ==
  /\ events < MaxEvents /\ ppc # "done" /\ n # nthr[p] /\ (nthr[p] = 0 => n = 1)
  /\ nthr' = [nthr EXCEPT ![p] = n] /\ events' = events + 1 /\ stayed' = stayed \ {p}
  /\ UNCHANGED <<ppc, curtlen, list, at, thr>>
ProcStart == \E p \in Procs : nthr[p] = 0 /\ Change(p, 1)
ProcEnd   == \E p \in Procs : nthr[p] > 0 /\ Change(p, 0)
Clone     == \E p \in Procs : nthr[p] \in 1 .. MaxThreads - 1 /\ Change(p, nthr[p] + 1)
ThreadEnd == \E p \in Procs : nthr[p] > 1 /\ Change(p, nthr[p] - 1)
-----------------------------------------------------------------------------
\* counttasks(): all threads, then all processes; fewer threads than processes
\* are corrected, and atop ends when there are too few.
TPTOLERANCE == 2
CountThreads ==
  /\ ppc = "threads" /\ ppc' = "procs"
  /\ curtlen' = MapThenSumSet(LAMBDA p : nthr[p], Alive)
  /\ UNCHANGED <<nthr, events, stayed, list, at, thr>>
CountProcs ==
  LET nrproc == Cardinality(Alive)
      nrthread == IF curtlen < nrproc THEN nrproc ELSE curtlen
  IN /\ ppc = "procs"
     /\ ppc' = IF nrproc - curtlen > TPTOLERANCE THEN "done" ELSE "scan"
     /\ curtlen' = nrproc + nrthread
     /\ list' = << >> /\ at' = 0 /\ thr' = 0 /\ stayed' = Alive
     /\ UNCHANGED <<nthr, events>>
-----------------------------------------------------------------------------
\* photoproc().
Room == Len(list) < curtlen
Entries(p, t, n) == [pid |-> p, tid |-> t, nthr |-> n]

\* The next process that there is, as far as there is place.
NextProc ==
  /\ ppc = "scan"
  /\ LET rest == {p \in Alive : p > at}
     IN IF rest # {} /\ Room
        THEN at' = Min(rest) /\ ppc' = "status"
        ELSE ppc' = "check" /\ UNCHANGED at
  /\ UNCHANGED <<nthr, events, stayed, curtlen, list, thr>>
\* Its status file tells the number of threads; a process that has gone leaves
\* no entry.
ReadProc ==
  /\ ppc = "status"
  /\ IF nthr[at] = 0 THEN ppc' = "scan" /\ UNCHANGED <<list, thr>>
     ELSE /\ list' = Append(list, Entries(at, 0, nthr[at]))
          /\ thr' = 0 /\ ppc' = IF nthr[at] > 1 THEN "task" ELSE "scan"
  /\ UNCHANGED <<nthr, events, stayed, curtlen, at>>
\* Its task directory; when it has gone the number of threads stays.
OpenTask ==
  /\ ppc = "task" /\ ppc' = IF nthr[at] = 0 THEN "scan" ELSE "thread"
  /\ UNCHANGED <<nthr, events, stayed, curtlen, list, at, thr>>
\* A thread, as far as there is place; at the end they have been counted.
ThreadRoom == Room
Head1(p) == CHOOSE i \in DOMAIN list : list[i].pid = p /\ list[i].tid = 0
Calibrate(n) == [list EXCEPT ![Head1(at)].nthr = n]
ReadThread ==
  /\ ppc = "thread"
  /\ IF thr < nthr[at] /\ ThreadRoom
     THEN /\ thr' = thr + 1 /\ list' = Append(list, Entries(at, thr + 1, 1))
          /\ UNCHANGED ppc
     ELSE /\ list' = Calibrate(Cardinality({i \in DOMAIN list : list[i].pid = at /\ list[i].tid > 0}))
          /\ ppc' = "scan" /\ UNCHANGED thr
  /\ UNCHANGED <<nthr, events, stayed, curtlen, at>>
\* The loop of engine(): a full list is taken again.
FullMore == Len(list) > curtlen         \* Mutant: a list that is just full is accepted
Full == Len(list) = curtlen
Check ==
  /\ ppc = "check" /\ ppc' = IF Full THEN "threads" ELSE "done"
  /\ UNCHANGED <<nthr, events, stayed, curtlen, list, at, thr>>

PhotoNext == \/ ProcStart \/ ProcEnd \/ Clone \/ ThreadEnd \/ CountThreads \/ CountProcs
             \/ NextProc \/ ReadProc \/ OpenTask \/ ReadThread \/ Check
-----------------------------------------------------------------------------
\* The list that the engine goes on with has every process that was there,
\* unchanged, all the time, with all of its threads directly behind it, and its
\* number of threads is the number of the entries behind it, unless the process
\* ended before they were looked for; the list has not outgrown its memory
\* (photoproc(), engine()).
Behind(i) == {j \in DOMAIN list : j > i /\ list[j].pid = list[i].pid}
Complete ==
  (ppc = "done" /\ list # << >>) =>
  /\ \A p \in stayed : \E i \in DOMAIN list : list[i] = Entries(p, 0, nthr[p])
  /\ \A i \in DOMAIN list : list[i].tid = 0 =>
       LET b == Behind(i)
       IN \/ list[i].nthr = 1 /\ b = {}
          \/ list[i].nthr = Cardinality(b) /\ b = i + 1 .. i + Cardinality(b)
          \/ b = {} /\ list[i].pid \notin stayed
  /\ Len(list) < curtlen
=============================================================================
