------------------------------- MODULE TaskDb -------------------------------
(***************************************************************************)
(* The database of the previous sample, procdbase.c, and deviattask() of   *)
(* deviate.c that compares a sample with it.  A task is a process, or the  *)
(* main thread of a process with several threads; its process id is used   *)
(* again by a later process.  Tasks consume something (CPU ticks, disk     *)
(* transfers, ...) of which every sample reports the difference.           *)
(***************************************************************************)
EXTENDS Integers, Sequences, FiniteSets, SequencesExt

CONSTANTS
  Pids,          \* process ids
  MaxGen,        \* bound: processes that get the same id, one after the other
  Gap,           \* seconds between the starts of two processes with the same id
  MaxUse,        \* bound: what a task consumes
  MaxAcctProcs   \* MAXACCTPROCS

ASSUME TaskDbAssumption ==
  /\ MaxGen \in Nat /\ MaxUse \in Nat
  /\ Gap \in Nat \ {0, 1}     \* the start times of two processes with one id can be told apart
  /\ MaxAcctProcs \in Nat \ {0}

Tasks == [pid : Pids, gen : 1 .. MaxGen, isproc : BOOLEAN]
Procs == {t \in Tasks : t.isproc}
None  == [pid |-> 0, gen |-> 0, isproc |-> FALSE]      \* the anchor of the residue list

Process(t) == [t EXCEPT !.isproc = TRUE]
Thread(t)  == [t EXCEPT !.isproc = FALSE]
Btime(t)   == t.gen * Gap

VARIABLES
  \* the system
  alive,     \* the tasks in /proc
  last,      \* per process id: its last process
  used,      \* what each task has consumed
  acct,      \* the accounting records: processes in the order of their end
  avail,     \* how many of them can be read
  \* the engine
  pc,        \* where it is
  todo,      \* the tasks of the sample that are still to be compared
  cnt,       \* the counters of the tasks in this sample
  rd, rdend, \* accounting records read, and to be read in this sample
  \* the database
  chain,     \* the entries of the hash table, newest first
  residue,   \* the tasks whose entry is in the residue list
  pr,        \* pdb_cleanresidue(): the next entry
  wiping,    \* the user has asked for a reset
  \* the deviations
  active,    \* the tasks present that are not marked as inactive
  nprocactive, \* how many processes among them
  reported,  \* history: the sum of the deviations reported for each task
  overlap,   \* history: tasks first seen while an earlier one with their id was in the database
  unmatched  \* history: processes whose accounting record and database entry missed each other

system == <<alive, last, used, acct, avail>>
sample == <<todo, cnt, rd, rdend>>
db     == <<chain, residue, pr, wiping>>
devs   == <<active, nprocactive, reported, overlap, unmatched>>
tvars  == <<system, pc, sample, db, devs>>

InDb(t) == \E i \in 1 .. Len(chain) : chain[i].task = t
Read(t) == \E i \in 1 .. rd : acct[i] = t

TaskDbTypeOK ==
  /\ alive \subseteq Tasks
  /\ last \in [Pids -> 0 .. MaxGen]
  /\ used \in [Tasks -> 0 .. MaxUse]
  /\ acct \in Seq(Procs) /\ avail \in 0 .. Len(acct)
  /\ pc \in {"wait", "acct", "present", "exited", "clean", "report"}
  /\ todo \subseteq Tasks /\ cnt \in [Tasks -> 0 .. MaxUse]
  /\ rd \in 0 .. avail /\ rdend \in 0 .. avail
  /\ chain \in Seq([task : Tasks, cnt : 0 .. MaxUse])
  /\ residue \in Seq(Tasks) /\ pr \in Tasks \cup {None} /\ wiping \in BOOLEAN
  /\ active \subseteq Tasks /\ nprocactive \in Nat
  /\ reported \in [Tasks -> 0 .. MaxUse + 1]
  /\ overlap \subseteq Tasks /\ unmatched \subseteq Procs

Init ==
  /\ alive = {} /\ last = [p \in Pids |-> 0]
  /\ used = [t \in Tasks |-> 0] /\ acct = <<>> /\ avail = 0
  /\ pc = "wait" /\ todo = {} /\ cnt = [t \in Tasks |-> 0] /\ rd = 0 /\ rdend = 0
  /\ chain = <<>> /\ residue = <<>> /\ pr = None /\ wiping = FALSE
  /\ active = {} /\ nprocactive = 0
  /\ reported = [t \in Tasks |-> 0] /\ overlap = {} /\ unmatched = {}

(***************************************************************************)
(* procdbase.c.                                                            *)
(***************************************************************************)
SameId(e, t) == e.task.pid = t.pid /\ e.task.isproc = t.isproc

\* Mutant of Matches: the start time is not looked at.
MatchesAnyTime(e, t) == SameId(e, t)

\* pdb_gettask(): start times may differ by one second.
Matches(e, t) == SameId(e, t) /\ Btime(e.task) - Btime(t) \in -1 .. 1

Position(t) == SelectInSeq(chain, LAMBDA e : Matches(e, t))
Unchained(s, t) == RemoveFirst(s, t)

\* pdb_deltask(), the residue list being r: the first entry with this id, whatever its start time.
DelTask(r, t) ==
  LET i == SelectInSeq(chain, LAMBDA e : SameId(e, t))
  IN  /\ chain' = RemoveAt(chain, i)
      /\ residue' = Unchained(r, chain[i].task)

\* pdb_makeresidue(): every entry is put in front of the ones before.
MakeResidue == Reverse([i \in 1 .. Len(chain) |-> chain[i].task])

NextIn(s, t) ==
  LET i == SelectInSeq(s, LAMBDA x : x = t)
  IN  IF i \in 1 .. Len(s) - 1 THEN s[i + 1] ELSE None

(***************************************************************************)
(* A sample.  First the tasks in /proc, then the accounting records.       *)
(***************************************************************************)
PhotoProc ==
  /\ pc = "wait"
  /\ todo' = alive
  /\ cnt' = [t \in Tasks |-> IF t \in alive THEN used[t] ELSE 0]
  /\ pc' = "acct"
  /\ UNCHANGED <<system, rd, rdend, db, devs>>

\* acctprocnt(), acctphotoproc() and acctrepos(), and the begin of deviattask().
AcctPhotoProc ==
  /\ pc = "acct"
  /\ rdend' = IF avail - rd > MaxAcctProcs THEN rd + MaxAcctProcs ELSE avail
  /\ residue' = MakeResidue
  /\ active' = {} /\ nprocactive' = 0
  /\ pc' = "present"
  /\ UNCHANGED <<system, todo, cnt, rd, chain, pr, wiping, reported, overlap, unmatched>>

Report(t, n) ==
  reported' = [reported EXCEPT ![t] = IF @ + n > MaxUse THEN MaxUse + 1 ELSE @ + n]

\* A task that is active makes its process active.
Activate(t) ==
  /\ active' = active \cup {t, Process(t)}
  /\ nprocactive' = IF t.isproc \/ Process(t) \notin active THEN nprocactive + 1 ELSE nprocactive

\* Mutant of Present: the new sample does not replace the one before.
PresentNoStore(t) ==
  /\ pc = "present" /\ t \in todo /\ (t.isproc \/ Process(t) \notin todo)
  /\ todo' = todo \ {t}
  /\ LET i == Position(t)
     IN  IF i > 0
         THEN /\ residue' = Unchained(residue, chain[i].task)
              /\ IF chain[i] = [task |-> t, cnt |-> cnt[t]]
                 THEN UNCHANGED <<chain, active, nprocactive, reported>>
                 ELSE /\ UNCHANGED chain
                      /\ Activate(t) /\ Report(t, cnt[t] - chain[i].cnt)
         ELSE /\ chain' = <<[task |-> t, cnt |-> cnt[t]]>> \o chain
              /\ Activate(t) /\ Report(t, cnt[t])
              /\ UNCHANGED residue
  /\ overlap' = IF Position(t) = 0 /\ \E j \in 1 .. Len(chain) : SameId(chain[j], t)
                THEN overlap \cup {t} ELSE overlap
  /\ unmatched' = IF Read(t) THEN unmatched \cup {t} ELSE unmatched     \* a zombie
  /\ UNCHANGED <<system, pc, cnt, rd, rdend, pr, wiping>>

\* The loop over the tasks present; a process comes before its thread.
Present(t) ==
  /\ pc = "present" /\ t \in todo /\ (t.isproc \/ Process(t) \notin todo)
  /\ todo' = todo \ {t}
  /\ LET i == Position(t)
     IN  IF i > 0
         THEN /\ residue' = Unchained(residue, chain[i].task)
              /\ IF chain[i] = [task |-> t, cnt |-> cnt[t]]
                 THEN UNCHANGED <<chain, active, nprocactive, reported>>
                 ELSE /\ chain' = [chain EXCEPT ![i] = [task |-> t, cnt |-> cnt[t]]]
                      /\ Activate(t) /\ Report(t, cnt[t] - chain[i].cnt)
         ELSE /\ chain' = <<[task |-> t, cnt |-> cnt[t]]>> \o chain
              /\ Activate(t) /\ Report(t, cnt[t])
              /\ UNCHANGED residue
  /\ overlap' = IF Position(t) = 0 /\ \E j \in 1 .. Len(chain) : SameId(chain[j], t)
                THEN overlap \cup {t} ELSE overlap
  /\ unmatched' = IF Read(t) THEN unmatched \cup {t} ELSE unmatched     \* a zombie
  /\ UNCHANGED <<system, pc, cnt, rd, rdend, pr, wiping>>

PresentDone ==
  /\ pc = "present" /\ todo = {}
  /\ pc' = "exited"
  /\ UNCHANGED <<system, sample, db, devs>>

\* The loop over the processes that exited: a counter that is smaller than before is no deviation.
\* pdb_gettask() takes the entry off the residue list before pdb_deltask() removes the first entry with
\* its id: when that is the one of a later process, the entry found stays in the hash table.
Exited ==
  /\ pc = "exited" /\ rd < rdend
  /\ rd' = rd + 1
  /\ LET t == acct[rd + 1]
         i == Position(t)
     IN  IF i > 0
         THEN /\ Report(t, IF used[t] > chain[i].cnt THEN used[t] - chain[i].cnt ELSE 0)
              /\ DelTask(Unchained(residue, chain[i].task), chain[i].task)
         ELSE Report(t, used[t]) /\ UNCHANGED <<chain, residue>>
  /\ UNCHANGED <<system, pc, todo, cnt, rdend, pr, wiping, active, nprocactive, overlap, unmatched>>

\* acctrepos() skips the records that were too many, and pdb_cleanresidue() starts.
ExitedDone ==
  /\ pc = "exited" /\ rd = rdend
  /\ rd' = avail
  /\ pr' = IF residue = <<>> THEN None ELSE Head(residue)
  /\ pc' = "clean"
  /\ UNCHANGED <<system, todo, cnt, rdend, chain, residue, wiping, devs>>

\* Mutant of Clean: the next entry is looked up after the deletion.
CleanNextLate ==
  /\ pc = "clean" /\ pr # None
  /\ pr' = pr
  /\ DelTask(residue, pr)
  /\ unmatched' = IF pr.isproc /\ ~Read(pr) /\ ~wiping THEN unmatched \cup {pr} ELSE unmatched
  /\ UNCHANGED <<system, pc, sample, wiping, active, nprocactive, reported, overlap>>

\* Mutant of Clean: the entries stay in the database.
CleanKeeps ==
  /\ pc = "clean" /\ pr # None
  /\ pr' = NextIn(residue, pr)
  /\ UNCHANGED <<chain, residue>>
  /\ unmatched' = IF pr.isproc /\ ~Read(pr) /\ ~wiping THEN unmatched \cup {pr} ELSE unmatched
  /\ UNCHANGED <<system, pc, sample, wiping, active, nprocactive, reported, overlap>>

\* One round of pdb_cleanresidue().
Clean ==
  /\ pc = "clean" /\ pr # None
  /\ pr' = NextIn(residue, pr)
  /\ DelTask(residue, pr)
  /\ unmatched' = IF pr.isproc /\ ~Read(pr) /\ ~wiping THEN unmatched \cup {pr} ELSE unmatched
  /\ UNCHANGED <<system, pc, sample, wiping, active, nprocactive, reported, overlap>>

CleanDone ==
  /\ pc = "clean" /\ pr = None
  /\ pc' = IF wiping THEN "wait" ELSE "report"
  /\ wiping' = FALSE
  /\ UNCHANGED <<system, sample, chain, residue, pr, devs>>

Shown ==
  /\ pc = "report"
  /\ pc' = "wait"
  /\ UNCHANGED <<system, sample, db, devs>>

\* The user asks for the counters since boot: the database is emptied.
Reset ==
  /\ pc = "report"
  /\ wiping' = TRUE /\ residue' = MakeResidue
  /\ pr' = IF chain = <<>> THEN None ELSE chain[Len(chain)].task
  /\ reported' = [t \in Tasks |-> 0]
  /\ pc' = "clean"
  /\ UNCHANGED <<system, sample, chain, active, nprocactive, overlap, unmatched>>

(***************************************************************************)
(* The system.  What it does while the engine compares makes no difference *)
(* to the comparison and is left to the time before.                       *)
(***************************************************************************)
Ended(t) == \E i \in 1 .. Len(acct) : acct[i] = t

\* A task appears in /proc: a process, or its main thread once there are several threads.
Starts(t) == alive' = alive \cup {t}

StartProcess(p) ==
  /\ last[p] < MaxGen /\ \A t \in alive : t.pid # p
  /\ last' = [last EXCEPT ![p] = @ + 1]
  /\ Starts([pid |-> p, gen |-> last[p] + 1, isproc |-> TRUE])
  /\ UNCHANGED <<used, acct, avail>>

StartThread(t) ==
  /\ t \in alive \cap Procs /\ ~Ended(t) /\ Thread(t) \notin alive
  /\ Starts(Thread(t))
  /\ UNCHANGED <<last, used, acct, avail>>

EndThread(t) ==
  /\ t \in alive /\ ~t.isproc
  /\ alive' = alive \ {t}
  /\ UNCHANGED <<last, used, acct, avail>>

Consume(t) ==
  /\ t \in alive /\ ~Ended(Process(t)) /\ used[t] < MaxUse
  /\ used' = [used EXCEPT ![t] = @ + 1]
  /\ UNCHANGED <<alive, last, acct, avail>>

\* A process that exits is recorded first, and can be seen in /proc until its parent waits for it.
EndProcess(t) ==
  /\ t \in alive \cap Procs /\ ~Ended(t)
  /\ acct' = Append(acct, t) /\ alive' = alive \ {Thread(t)}
  /\ UNCHANGED <<last, used, avail>>

Reap(t) ==
  /\ t \in alive \cap Procs /\ Ended(t)
  /\ alive' = alive \ {t}
  /\ UNCHANGED <<last, used, acct, avail>>

\* atopacctd passes a record on some time after the kernel has written it.
Deliver ==
  /\ avail < Len(acct) /\ avail' = avail + 1
  /\ UNCHANGED <<alive, last, used, acct>>

System ==
  /\ pc \in {"wait", "acct"}
  /\ \/ \E p \in Pids : StartProcess(p)
     \/ \E t \in Tasks : StartThread(t) \/ EndThread(t) \/ Consume(t) \/ EndProcess(t) \/ Reap(t)
     \/ Deliver
  /\ UNCHANGED <<pc, sample, db, devs>>

Engine ==
  \/ PhotoProc \/ AcctPhotoProc \/ (\E t \in Tasks : Present(t)) \/ PresentDone
  \/ Exited \/ ExitedDone \/ Clean \/ CleanDone \/ Shown

Next == Engine \/ Reset \/ System

Spec == Init /\ [][Next]_tvars

FairSpec == Spec /\ WF_tvars(Engine)

(***************************************************************************)
(* Properties.                                                             *)
(***************************************************************************)
\* What a process has consumed is reported at most once, unless an earlier process with its id
\* was still in the database, or its accounting record came after it was removed from the database, or it
\* is seen in /proc, as a zombie, after its record.
NoDouble == \A t \in Procs : t \in overlap \cup unmatched \/ reported[t] <= used[t]

\* The same without the exception for the same id: the start time is compared because "with longer
\* intervals, the same PID might be found more than once" (procdbase.c:86).
IdsTold == \A t \in Procs : t \in unmatched \/ reported[t] <= used[t]

\* All that a process has consumed is reported once its accounting record was read, also when a
\* process with the same id was started and found in /proc before.
AllCounted ==
  [][\A t \in Procs :
       (rd < rdend /\ rd' = rd + 1 /\ t = acct[rd']) => reported'[t] >= used[t]]_tvars

\* A task is in the database at most once per id when a sample is done: pdb_deltask() and the
\* walk along the residue list rely on it.
OncePerId ==
  pc \in {"wait", "acct", "report"} =>
    \A i, j \in 1 .. Len(chain) : SameId(chain[i], chain[j].task) => i = j

\* pdb_cleanresidue() does not go on with an entry that was removed before.
NoDangling == pc = "clean" /\ pr # None => InDb(pr)

\* deviattask() reserves as many places for active processes as it fills.
ActiveFits == pc = "exited" => nprocactive = Cardinality(active \cap Procs)

\* The database and the list of its residue are well formed in every step: what pdb_deltask(),
\* pdb_cleanresidue() and deviattask() rely on.
DbSound == TaskDbTypeOK /\ OncePerId /\ NoDangling /\ ActiveFits

\* A process that is gone is removed from the database, unless its id is used again.
Forgets ==
  \A t \in Procs : InDb(t) /\ t \notin alive ~> (~InDb(t) \/ \E u \in overlap : u.pid = t.pid)
=============================================================================
