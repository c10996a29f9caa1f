------------------------------ MODULE GpuMerge ------------------------------
(***************************************************************************)
(* gpumergeproc() of gpucom.c: the statistics of processes on the GPUs are *)
(* given to the tasks of a sample, the present ones in the order of their  *)
(* process ids, and then to those that have exited.  What a process does   *)
(* on a GPU is told by the number of the GPU, so that a sum is a set.      *)
(***************************************************************************)
EXTENDS Integers, Sequences, FiniteSets, SequencesExt, FiniteSetsExt, Ranks

CONSTANTS Pids, Gpus,
  MaxEntries   \* bound: entries in an answer of the GPU daemon

ASSUME GpuMergeAssumption ==
  Pids \subseteq Nat \ {0} /\ IsFiniteSet(Pids) /\ MaxEntries \in Nat

VARIABLES
  answer,  \* the entries of the daemon: process id and GPU, in any order
  present, exited,  \* process ids of the tasks of the sample
  given    \* what each task has got: present and exited
gvars == <<answer, present, exited, given>>

\* The tasks in the order of their process ids.
Sorted(S) == [k \in 1 .. Cardinality(S) |-> Nth(S, k)]
None == [p \in Pids |-> {}]
GpuInit ==
  /\ answer \in BoundedSeq(Pids \X Gpus, MaxEntries) /\ IsInjective(answer)
  /\ present \in SUBSET Pids /\ exited \in SUBSET Pids
  /\ given = [present |-> None, exited |-> None]
GpuOff ==
  /\ answer = << >> /\ present = {} /\ exited = {}
  /\ given = [present |-> None, exited |-> None]
-----------------------------------------------------------------------------
\* gpustat_parse() and pidparse(): one entry per process and GPU.
Entry(e) == [pid |-> e[1], gpus |-> {e[2]}]
NoEntry == [pid |-> 0, gpus |-> {}]

\* qsort() with compgpupid(): by process id; the order of equal ones does not matter.
SortPid(s) ==
  LET Key(i) == s[i].pid * (Len(s) + 1) + i
      keys   == {Key(i) : i \in DOMAIN s}
  IN [k \in 1 .. Cardinality(keys) |-> s[CHOOSE i \in DOMAIN s : Key(i) = Nth(keys, k)]]

\* Entries of one process that follow each other are added up.
AccumulateNext(s) ==   \* Mutant: only two entries are added up
  LET acc[k \in 0 .. Len(s)] ==
        IF k = 0 THEN << >>
        ELSE LET a == acc[k - 1]
             IN IF a # << >> /\ a[Len(a)].pid = s[k].pid /\ Cardinality(a[Len(a)].gpus) < 2
                THEN [a EXCEPT ![Len(a)].gpus = @ \cup s[k].gpus]
                ELSE Append(a, s[k])
  IN acc[Len(s)]
Accumulate(s) ==
  LET acc[k \in 0 .. Len(s)] ==
        IF k = 0 THEN << >>
        ELSE LET a == acc[k - 1]
             IN IF a # << >> /\ a[Len(a)].pid = s[k].pid
                THEN [a EXCEPT ![Len(a)].gpus = @ \cup s[k].gpus]
                ELSE Append(a, s[k])
  IN acc[Len(s)]
GpuList(a) == Accumulate(SortPid([i \in DOMAIN a |-> Entry(a[i])]))

\* The present tasks: g is the entry looked at, taken entries are emptied.
\* The list is only synchronized after the comparison.
Resync(list, pid, g) ==
  LET ahead == {k \in g .. Len(list) : list[k].pid >= pid}
  IN IF ahead = {} THEN Len(list) + 1 ELSE Min(ahead)
MergePresent(list, tasks) ==
  LET st[t \in 0 .. Len(tasks)] ==
        IF t = 0 THEN [list |-> list, g |-> 1, given |-> None]
        ELSE LET s == st[t - 1]
                 pid == tasks[t]
                 hit == s.g <= Len(list) /\ s.list[s.g].pid = pid
                 g == IF hit THEN s.g + 1 ELSE s.g
             IN IF s.g > Len(list) THEN s
                ELSE [list  |-> IF hit THEN [s.list EXCEPT ![s.g] = NoEntry] ELSE s.list,
                      given |-> IF hit THEN [s.given EXCEPT ![pid] = s.list[s.g].gpus] ELSE s.given,
                      g     |-> Resync(list, pid, g)]
  IN st[Len(tasks)]
\* The entries that are left, moved together, are for the exited tasks.
Compact(list) == LET kept == {g \in DOMAIN list : list[g].pid # 0}
                 IN [k \in 1 .. Cardinality(kept) |-> list[Nth(kept, k)]]
MergeExited(left, gone) ==
  [p \in Pids |-> UNION {left[g].gpus : g \in {k \in DOMAIN left : left[k].pid = p /\ p \in gone}}]

GpuMergeProc ==
  /\ given.present = None /\ given.exited = None
  /\ LET m == MergePresent(GpuList(answer), Sorted(present))
     IN given' = [present |-> m.given, exited |-> MergeExited(Compact(m.list), exited)]
  /\ UNCHANGED <<answer, present, exited>>
-----------------------------------------------------------------------------
\* No task gets anything that another process has done, and none gets a part:
\* the sum over all GPUs or nothing.  A present task gets it when all the
\* processes with smaller ids on the GPUs are present too, an exited one when
\* its id is not in use again (gpumergeproc()).
Done(p) == {a[2] : a \in {answer[i] : i \in {k \in DOMAIN answer : answer[k][1] = p}}}
GpuGiven ==
  LET asked == {p \in Pids : Done(p) # {}}
  IN given # [present |-> None, exited |-> None] =>
     \A p \in Pids :
       /\ given.present[p] \in {{}, IF p \in present THEN Done(p) ELSE {}}
       /\ p \in present /\ (\A q \in asked : q < p => q \in present) => given.present[p] = Done(p)
       /\ given.exited[p] \in {{}, IF p \in exited THEN Done(p) ELSE {}}
       /\ p \in exited \ present => given.exited[p] = Done(p)
=============================================================================
