----------------------------- MODULE Atopacctd -----------------------------
(***************************************************************************)
(* The process accounting daemon, atopacctd.c: it copies the records that  *)
(* the kernel writes to the source file into shadow files of MaxShadowRec  *)
(* records each, as long as there are clients, and removes shadow files    *)
(* that no client has locked.                                              *)
(***************************************************************************)
EXTENDS PacctShared

CONSTANTS
  MaxBatch,    \* records one read() of the source file returns at most
  MaxOrig,     \* MAXORIGSZ in records: the source file is truncated here
  MayFail,     \* the file system may be full, and writes to it may fail
  MaxStarts    \* bound: how often the daemon is started

ASSUME DaemonAssumption ==
  /\ MaxBatch \in 1 .. MaxShadowRec
  /\ MaxOrig \in Nat \ {0}
  /\ MayFail \in BOOLEAN
  /\ MaxStarts \in Nat

VARIABLES
  dpc,        \* where the daemon is
  cur, old,   \* curshadow, oldshadow
  st,         \* stotsize in records
  busy,       \* shadowbusy
  buf,        \* records read from the source, still to be passed on
  asize,      \* atotsize in records
  cleanup,    \* cleanup_and_go is set
  resetting,  \* the last client disappeared: all shadow files are removed
  starts      \* number of starts, for the bound

dvars == <<dpc, cur, old, st, busy, buf, asize, cleanup, resetting, starts>>

Starting == {"rename", "mkshadow", "mkcurrent", "wrcurrent"}
Serving  == {"loop", "await", "reactivate", "truncate", "lock", "check", "write",
             "rotate", "wipe", "setcurrent", "rest", "gc", "held", "unlink", "zero"}
Stopping == {"stop", "rmshadow", "rmcurrent"}

DaemonTypeOK ==
  /\ dpc \in {"down"} \cup Starting \cup Serving \cup Stopping
  /\ cur \in Seqs
  /\ old \in 0 .. MaxSeq + 1
  /\ st \in Nat
  /\ buf \in Nat
  /\ asize \in Nat
  /\ busy \in BOOLEAN
  /\ cleanup \in BOOLEAN
  /\ resetting \in BOOLEAN
  /\ starts \in 0 .. MaxStarts

DaemonInit ==
  /\ dpc = "down"
  /\ cur = 0 /\ old = 0 /\ st = 0 /\ buf = 0 /\ asize = 0
  /\ busy = FALSE /\ cleanup = FALSE /\ resetting = FALSE
  /\ starts = 0

(***************************************************************************)
(* Start.                                                                  *)
(***************************************************************************)
\* A new public semaphore group replaces the one of an earlier daemon.
DStart ==
  /\ dpc = "down"
  /\ starts < MaxStarts
  /\ dpc' = "rename"
  /\ cur' = 0 /\ old' = 0 /\ st' = 0 /\ buf' = 0 /\ asize' = 0
  /\ busy' = FALSE /\ cleanup' = FALSE /\ resetting' = FALSE
  /\ starts' = starts + 1
  /\ semup' = TRUE
  /\ lock' = "free"
  /\ users' = [c \in Clients |-> 0]
  /\ UNCHANGED <<fs, kernel>>

\* The directory of a daemon that was killed gets another name.
DRename ==
  /\ dpc = "rename"
  /\ dpc' = "mkshadow"
  /\ olddir' = olddir \cup ({dir[s] : s \in Seqs} \ {NoInode})
  /\ dir' = [s \in Seqs |-> NoInode]
  /\ current' = NoCurrent
  /\ UNCHANGED <<size, base, nlogged, ipc, kernel, cur, old, st, busy, buf,
                 asize, cleanup, resetting, starts>>

DMkShadow(open) ==
  /\ dpc = "mkshadow"
  /\ dpc' = "mkcurrent"
  /\ Creat(0, open)
  /\ UNCHANGED <<olddir, current, nlogged, ipc, kernel, cur, old, st, busy, buf,
                 asize, cleanup, resetting, starts>>

DMkCurrent ==
  /\ dpc = "mkcurrent"
  /\ dpc' = "wrcurrent"
  /\ current' = EmptyCurrent
  /\ UNCHANGED <<dir, olddir, size, base, nlogged, ipc, kernel, cur, old, st,
                 busy, buf, asize, cleanup, resetting, starts>>

\* setcurrent() writes, and swonpacct() switches on accounting to an empty
\* source file.
DWrCurrent ==
  /\ dpc = "wrcurrent"
  /\ dpc' = "loop"
  /\ current' = cur
  /\ accton' = TRUE
  /\ unread' = 0
  /\ UNCHANGED <<dir, olddir, size, base, nlogged, ipc, nexits, cur, old, st,
                 busy, buf, asize, cleanup, resetting, starts>>

(***************************************************************************)
(* awaitprocterm().                                                        *)
(***************************************************************************)
DRead ==
  /\ dpc = "await"
  /\ LET n == IF unread < MaxBatch THEN unread ELSE MaxBatch IN
     /\ n > 0
     /\ buf' = n
     /\ unread' = unread - n
     /\ asize' = asize + n
     /\ dpc' = IF asize + n >= MaxOrig THEN "truncate" ELSE "lock"
  /\ UNCHANGED <<fs, ipc, accton, nexits, cur, old, st, busy, cleanup, resetting,
                 starts>>

\* No record after all retries.
DReadNothing ==
  /\ dpc = "await"
  /\ unread = 0
  /\ dpc' = "loop"
  /\ UNCHANGED <<fs, ipc, kernel, cur, old, st, busy, buf, asize, cleanup,
                 resetting, starts>>

\* No record for NORECINTERVAL seconds: truncate, and swonpacct() again; the
\* records it reads to see that accounting works are passed to nobody.
DNoRecords ==
  /\ dpc = "await"
  /\ unread = 0
  /\ dpc' = "reactivate"
  /\ UNCHANGED <<fs, ipc, kernel, cur, old, st, busy, buf, asize, cleanup,
                 resetting, starts>>

DReactivate ==
  /\ dpc = "reactivate"
  /\ dpc' = "loop"
  /\ unread' = 0
  /\ asize' = 1
  /\ UNCHANGED <<fs, ipc, accton, nexits, cur, old, st, busy, buf, cleanup,
                 resetting, starts>>

\* Records written since the read() are lost.
DTruncate ==
  /\ dpc = "truncate"
  /\ dpc' = "lock"
  /\ unread' = 0
  /\ asize' = 0
  /\ UNCHANGED <<fs, ipc, accton, nexits, cur, old, st, busy, buf, cleanup,
                 resetting, starts>>

\* Whoever holds the lock is taken for a client.
DLock ==
  /\ dpc = "lock"
  /\ IF lock = "free"
     THEN /\ lock' = "daemon"
          /\ dpc' = "check"
          /\ UNCHANGED busy
     ELSE /\ dpc' = "write"
          /\ busy' = TRUE
          /\ UNCHANGED lock
  /\ UNCHANGED <<fs, semup, users, kernel, cur, old, st, buf, asize, cleanup,
                 resetting, starts>>

\* Mutant of DCheck: the lock is released before the shadow files are removed.
DCheckEarlyUnlock ==
  /\ dpc = "check"
  /\ SemUnlock("daemon")
  /\ \/ ~NoUsers /\ busy' = TRUE /\ dpc' = "write" /\ UNCHANGED <<buf, resetting>>
     \/ NoUsers /\ ~busy /\ buf' = 0 /\ dpc' = "loop" /\ UNCHANGED <<busy, resetting>>
     \/ NoUsers /\ busy /\ buf' = 0 /\ resetting' = TRUE /\ dpc' = "gc" /\ UNCHANGED busy
  /\ UNCHANGED <<fs, semup, users, kernel, cur, old, st, asize, cleanup, starts>>

DCheck ==
  /\ dpc = "check"
  /\ \/ /\ ~NoUsers
        /\ SemUnlock("daemon")
        /\ busy' = TRUE
        /\ dpc' = "write"
        /\ UNCHANGED <<buf, resetting>>
     \/ /\ NoUsers /\ ~busy
        /\ SemUnlock("daemon")
        /\ buf' = 0
        /\ dpc' = "loop"
        /\ UNCHANGED <<busy, resetting>>
     \/ /\ NoUsers /\ busy      \* did last client just disappear?
        /\ buf' = 0
        /\ resetting' = TRUE
        /\ dpc' = "gc"
        /\ UNCHANGED <<lock, busy>>
  /\ UNCHANGED <<fs, semup, users, kernel, cur, old, st, asize, cleanup, starts>>

\* Mutant of Part: a shadow file is not kept to its maximum.
PartAll == buf

\* What fits of the records in the current shadow file.
Part == IF st + buf <= MaxShadowRec THEN buf ELSE MaxShadowRec - st

\* Mutant of Pass2Shadow: records that are skipped count as written.
Pass2ShadowSkipCounts(n, res) ==
  /\ res = n
  /\ \/ Append(cur, n) /\ UNCHANGED cleanup
     \/ MayFail /\ UNCHANGED <<fs, cleanup>>
     \/ MayFail /\ cleanup' = TRUE /\ UNCHANGED fs

\* pass2shadow(): the records are written; or skipped because the file system
\* is 95% full; or write() fails, which counts as written and ends the daemon.
\* The result is 0 for "skipped", else n.
Pass2Shadow(n, res) ==
  \/ res = n /\ Append(cur, n) /\ UNCHANGED cleanup
  \/ MayFail /\ res = 0 /\ UNCHANGED <<fs, cleanup>>
  \/ MayFail /\ res = n /\ cleanup' = TRUE /\ UNCHANGED fs

\* What does not fit is kept for the next file, and dropped when there is none.
DWrite ==
  /\ dpc = "write"
  /\ \E res \in {0, Part} :
       /\ Pass2Shadow(Part, res)
       /\ st' = st + res
       /\ IF st + res >= MaxShadowRec
          THEN dpc' = "rotate" /\ buf' = buf - Part
          ELSE dpc' = "loop" /\ buf' = 0
  /\ UNCHANGED <<ipc, kernel, cur, old, busy, asize, resetting, starts>>

DRotate(open) ==
  /\ dpc = "rotate"
  /\ cur < MaxSeq
  /\ dpc' = "wipe"
  /\ cur' = cur + 1
  /\ st' = 0
  /\ Creat(cur + 1, open)
  /\ UNCHANGED <<olddir, current, nlogged, ipc, kernel, old, busy, buf, asize,
                 cleanup, resetting, starts>>

\* setcurrent(): ftruncate(), then write().
DWipe ==
  /\ dpc = "wipe"
  /\ dpc' = "setcurrent"
  /\ current' = EmptyCurrent
  /\ UNCHANGED <<dir, olddir, size, base, nlogged, ipc, kernel, cur, old, st,
                 busy, buf, asize, cleanup, resetting, starts>>

DSetCurrent ==
  /\ dpc = "setcurrent"
  /\ current' = cur
  /\ IF resetting
     THEN /\ dpc' = "loop"
          /\ busy' = FALSE
          /\ resetting' = FALSE
          /\ SemUnlock("daemon")
     ELSE /\ dpc' = IF buf > 0 THEN "rest" ELSE "loop"
          /\ UNCHANGED <<busy, resetting, lock>>
  /\ UNCHANGED <<dir, olddir, size, base, nlogged, semup, users, kernel, cur, old,
                 st, buf, asize, cleanup, starts>>

\* The remaining part of the data.
DRest ==
  /\ dpc = "rest"
  /\ dpc' = "loop"
  /\ buf' = 0
  /\ \E res \in {0, buf} : Pass2Shadow(buf, res) /\ st' = st + res
  /\ UNCHANGED <<ipc, kernel, cur, old, busy, asize, resetting, starts>>

(***************************************************************************)
(* The main loop, and gcshadows(): the oldest file is opened and locked    *)
(* for a trial; the lock is gone with the close() that precedes unlink().  *)
(* locked is the set of inodes on which a client has a read lock.          *)
(***************************************************************************)
\* Mutant of DLoop: the signal is not looked at.
DLoopDeaf ==
  /\ dpc = "loop"
  /\ dpc' = "await"
  /\ UNCHANGED <<fs, ipc, kernel, cur, old, st, busy, buf, asize, cleanup,
                 resetting, starts>>

DLoop ==
  /\ dpc = "loop"
  /\ \/ cleanup /\ dpc' = "stop"
     \/ ~cleanup /\ dpc' = "await"
     \/ busy /\ dpc' = "gc"          \* GCINTERVAL seconds have passed
  /\ UNCHANGED <<fs, ipc, kernel, cur, old, st, busy, buf, asize, cleanup,
                 resetting, starts>>

GcLimit == IF resetting THEN cur + 1 ELSE cur

\* Mutant of DGcTry: a lock of a client is not noticed.
DGcTryBlind(locked) ==
  /\ dpc = "gc"
  /\ dpc' = IF old < GcLimit /\ dir[old] # NoInode
            THEN "held"
            ELSE IF resetting THEN "zero"
            ELSE IF cleanup THEN "stop" ELSE "await"
  /\ UNCHANGED <<fs, ipc, kernel, cur, old, st, busy, buf, asize, cleanup,
                 resetting, starts>>

DGcTry(locked) ==
  /\ dpc = "gc"
  /\ dpc' = IF old < GcLimit /\ dir[old] # NoInode /\ dir[old] \notin locked
            THEN "held"
            ELSE IF resetting THEN "zero"
            ELSE IF cleanup THEN "stop" ELSE "await"
  /\ UNCHANGED <<fs, ipc, kernel, cur, old, st, busy, buf, asize, cleanup,
                 resetting, starts>>

DGcClose ==
  /\ dpc = "held"
  /\ dpc' = "unlink"
  /\ UNCHANGED <<fs, ipc, kernel, cur, old, st, busy, buf, asize, cleanup,
                 resetting, starts>>

DGcUnlink ==
  /\ dpc = "unlink"
  /\ dpc' = "gc"
  /\ Unlink(old)
  /\ old' = old + 1
  /\ UNCHANGED <<ipc, kernel, cur, st, busy, buf, asize, cleanup, resetting, starts>>

\* All shadow files are removed: a new file with sequence number 0.
DZero(open) ==
  /\ dpc = "zero"
  /\ dpc' = "wipe"
  /\ old' = 0 /\ cur' = 0 /\ st' = 0
  /\ Creat(0, open)
  /\ UNCHANGED <<olddir, current, nlogged, ipc, kernel, busy, buf, asize, cleanup,
                 resetting, starts>>

(***************************************************************************)
(* Stop.                                                                   *)
(***************************************************************************)
DSigTerm ==
  /\ dpc \in Serving
  /\ ~cleanup
  /\ cleanup' = TRUE
  /\ UNCHANGED <<fs, ipc, kernel, dpc, cur, old, st, busy, buf, asize, resetting,
                 starts>>

DStop ==
  /\ dpc = "stop"
  /\ dpc' = "rmshadow"
  /\ accton' = FALSE
  /\ unread' = 0
  /\ UNCHANGED <<fs, ipc, nexits, cur, old, st, busy, buf, asize, cleanup,
                 resetting, starts>>

DRmShadow ==
  /\ dpc = "rmshadow"
  /\ IF old <= cur
     THEN Unlink(old) /\ old' = old + 1 /\ UNCHANGED dpc
     ELSE dpc' = "rmcurrent" /\ UNCHANGED <<fs, old>>
  /\ UNCHANGED <<ipc, kernel, cur, st, busy, buf, asize, cleanup, resetting, starts>>

DRmCurrent ==
  /\ dpc = "rmcurrent"
  /\ dpc' = "down"
  /\ current' = NoCurrent
  /\ UNCHANGED <<dir, olddir, size, base, nlogged, ipc, kernel, cur, old, st,
                 busy, buf, asize, cleanup, resetting, starts>>

\* The daemon is killed: SEM_UNDO releases the lock, the files stay.
DKill ==
  /\ dpc # "down"
  /\ dpc' = "down"
  /\ SemUnlock("daemon")
  /\ UNCHANGED <<fs, semup, users, kernel, cur, old, st, busy, buf, asize, cleanup,
                 resetting, starts>>

\* A step of a daemon that is neither killed nor told to stop.
DStep(locked, open) ==
  \/ DRename \/ DMkShadow(open) \/ DMkCurrent \/ DWrCurrent
  \/ DRead \/ DReadNothing \/ DNoRecords \/ DReactivate \/ DTruncate
  \/ DLock \/ DCheck \/ DWrite \/ DRotate(open) \/ DWipe \/ DSetCurrent \/ DRest
  \/ DLoop \/ DGcTry(locked) \/ DGcClose \/ DGcUnlink \/ DZero(open)
  \/ DStop \/ DRmShadow \/ DRmCurrent
=============================================================================
