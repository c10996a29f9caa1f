------------------------------ MODULE ProcAcct ------------------------------
(***************************************************************************)
(* Process accounting as a whole: the kernel, the atopacctd daemon and its *)
(* clients, which run concurrently and meet in the shadow directory and    *)
(* the public semaphore group only.                                        *)
(***************************************************************************)
EXTENDS Atopacctd, AcctClient

CONSTANTS
  MaxKills,    \* bound: how often the daemon is killed
  MayStop      \* the daemon may be told to stop

ASSUME ProcAcctAssumption == MaxKills \in Nat /\ MayStop \in BOOLEAN

VARIABLES
  kills,     \* number of kills of the daemon, for the bound
  leftover   \* history: shadow files from before a reset are still there

history == <<kills, leftover>>
vars == <<fs, ipc, kernel, dvars, cvars, history>>

TypeOK == /\ SharedTypeOK /\ DaemonTypeOK /\ ClientTypeOK
          /\ kills \in 0 .. MaxKills /\ leftover \in BOOLEAN

Init == SharedInit /\ DaemonInit /\ ClientInit /\ kills = 0 /\ leftover = FALSE

\* The inode on which gcshadows() holds its write lock.
WLocked == IF dpc = "held" THEN {dir[old]} ELSE {}

\* The collection before a start over with file 0 has stopped at a file that a
\* dying client has locked.
LeavesFiles == dpc = "zero" /\ \E s \in Seqs \ {0} : dir[s] # NoInode

KernelExit == Exit /\ UNCHANGED <<fs, ipc, dvars, cvars, history>>

Daemon == /\ DStep(LockedInodes, OpenInodes)
          /\ leftover' = (leftover \/ LeavesFiles)
          /\ UNCHANGED <<cvars, kills>>

DaemonStart == DStart /\ leftover' = FALSE /\ UNCHANGED <<cvars, kills>>

DaemonSigTerm == MayStop /\ DSigTerm /\ UNCHANGED <<cvars, history>>

DaemonKill == /\ kills < MaxKills
              /\ kills' = kills + 1
              /\ DKill
              /\ UNCHANGED <<cvars, leftover>>

Client(c) == CStep(c, WLocked) /\ UNCHANGED <<dvars, history>>

ClientStart(c) == CStart(c) /\ UNCHANGED <<dvars, history>>

ClientEnd(c) == (CQuit(c) \/ CKill(c)) /\ UNCHANGED <<dvars, history>>

Next == \/ KernelExit
        \/ Daemon \/ DaemonStart \/ DaemonSigTerm \/ DaemonKill
        \/ \E c \in Clients : Client(c) \/ ClientStart(c) \/ ClientEnd(c)

Spec == Init /\ [][Next]_vars

(***************************************************************************)
(* Safety.                                                                 *)
(***************************************************************************)
\* gcshadows() is about to remove the oldest file: its trial succeeded.
Condemned(s) == dpc \in {"held", "unlink"} /\ s = old

\* Client c is registered and has a lock on a shadow file that gcshadows() has
\* not already found unlocked.
ProtectedAt(c, s) ==
  /\ rdlock[c] /\ users[c] > 0
  /\ s >= old
  /\ dir[s] = fd[c]
  /\ ~Condemned(s)

Protected(c) == dpc \in Serving /\ \E s \in Seqs : ProtectedAt(c, s)

\* A lock on a shadow file is worth something: as long as the daemon serves and
\* the client keeps its registration, its file is not removed, neither while it
\* reads nor when it moves on to the next file (gcshadows(), switchshadow()).
ProtectedStays ==
  [][\A c \in Clients :
       Protected(c) /\ rdlock'[c] /\ users'[c] > 0 /\ dpc' \in Serving
         => Protected(c)']_vars

\* No write to a shadow file failed: a failing one counts as written and ends
\* the daemon.
Intact == ~(MayFail /\ cleanup)

\* From the file a client has locked up to the current one, every shadow file
\* exists; all but the last are full, and each continues where the previous one
\* ended. acctprocnt() counts on it, and switchshadow() has no way back.
NoGap ==
  \A c \in Clients, s \in Seqs :
    dpc \in Serving /\ Intact /\ ProtectedAt(c, s)
      => /\ \A k \in s .. cur : dir[k] # NoInode
         /\ \A k \in s .. cur - 1 :
              /\ size[dir[k]] = MaxShadowRec
              /\ base[dir[k + 1]] = base[dir[k]] + size[dir[k]]

\* While the daemon starts over with file 0, it has the lock and nobody is
\* registered: awaitprocterm() relies on the lock between its test of NUMCLIENTS
\* and the new file `current`.
ResetAlone == resetting /\ dpc # "down" => NoUsers /\ lock = "daemon"

\* acctphotoproc() always makes progress when the client's file is protected and
\* the file system did not fail: what acctprocnt() counted can be read, and the
\* next file is there when it is needed.  A file from before a reset may be taken
\* for the next one, and is truncated when its turn comes.
ReadsEnd ==
  \A c \in Clients :
    Protected(c) /\ Intact /\ ~leftover
      => /\ ~Spins(c)
         /\ cpc[c] = "swlock" /\ sw[c] = 0 => tmpfd[c] # NoInode

(***************************************************************************)
(* What the clients read is the log: AcctStream, with the position of a    *)
(* client in the log for its cursor. A client is in step with the files    *)
(* when curshadowseq names the file it has open and acctsize is the offset *)
(* of the file; it is out of step when its registration overlapped a       *)
(* rotation of the shadow files.                                           *)
(***************************************************************************)
Repositioning(c) == cpc[c] = "seek" \/ sw[c] > 0

Position(c) ==
  base[fd[c]] + IF Repositioning(c)
                THEN sw[c] * MaxShadowRec + asz[c]
                ELSE pos[c]

\* curshadowseq is incremented before the next file is opened.
FileSeq(c) == IF cpc[c] = "swlock" THEN seq[c] - 1 ELSE seq[c]

InStep(c) ==
  /\ Protected(c) /\ Intact /\ ~leftover
  /\ mode[c] = "sample"       \* the registration is complete
  /\ FileSeq(c) \in 0 .. cur
  /\ fd[c] = dir[FileSeq(c)]
  /\ ~Repositioning(c) => pos[c] = asz[c] /\ asz[c] <= size[fd[c]]
  /\ Position(c) <= nlogged

\* The number of records client c is about to read.
Quota(c) == IF cpc[c] \in {"photo", "read", "swopen", "swlock"} /\ sw[c] = 0
            THEN num[c] ELSE 0

Log == INSTANCE AcctStream WITH
  Readers  <- Clients,
  length   <- nlogged,
  cursor   <- [c \in Clients |-> IF InStep(c) THEN Position(c) ELSE -1],
  quota    <- [c \in Clients |-> IF InStep(c) THEN Quota(c) ELSE 0]

\* Clients that are in step read the log as AcctStream promises.
ImplementsStream == Log!Stream

\* acctrepos() has tried the file after the last one, which does not exist yet:
\* it skips up to the end of a full file that the daemon is about to replace.
Overskips(c) ==
  /\ cpc[c] = "swlock" /\ sw[c] > 0
  /\ tmpfd[c] = NoInode \/ seq[c] > cur

\* A client that is in step stays so from sample to sample, as long as its file
\* is protected and acctrepos() does not overskip: it neither loses records nor
\* gets any twice.
StaysInStep ==
  [][\A c \in Clients :
       InStep(c) /\ ~Overskips(c) /\ Protected(c)' /\ Intact' => InStep(c)']_vars

(***************************************************************************)
(* Liveness. The daemon and the clients that run get their turn; nobody    *)
(* has to exit, to start, to quit or to be killed.                         *)
(***************************************************************************)
FairSpec == /\ Spec
            /\ WF_vars(Daemon)
            /\ \A c \in Clients : WF_vars(Client(c))

\* A client in step eventually reads every record that is passed to the shadow
\* files: sampling on and on, it does not hang behind a rotation.
CatchesUp ==
  \A c \in Clients, n \in 1 .. MaxExits :
    InStep(c) /\ n <= nlogged
      ~> ~InStep(c) \/ (~Repositioning(c) /\ Position(c) >= n)

\* Whoever takes semaphore 1 gives it back: the daemon can always find out again
\* whether there are clients, and a client can register.
LockReleased ==
  \A p \in Clients \cup {"daemon"} : lock = p ~> lock # p

\* A signal ends the daemon, whatever it is doing with its files.
StopsOnSignal == cleanup ~> dpc = "down"

\* Semaphore and signal are never left unanswered.
Answers == LockReleased /\ StopsOnSignal
=============================================================================
