----------------------------- MODULE AcctClient -----------------------------
(***************************************************************************)
(* A client of the process accounting daemon, acctproc.c: how atop         *)
(* registers with the daemon, counts the processes that exited since the   *)
(* previous sample and reads their records from the shadow files. Sizes    *)
(* and offsets are in records.                                             *)
(***************************************************************************)
EXTENDS PacctShared

CONSTANT MaxAcctProcs    \* MAXACCTPROCS: records read per sample at most

ASSUME ClientAssumption == MaxAcctProcs \in Nat \ {0}

VARIABLES        \* for each client c:
  cpc,           \* where it is
  mode,          \* who called atopacctd() or acctprocnt(), see below
  fd,            \* the inode acctfd refers to
  rdlock,        \* it has a read lock on that inode
  tmpfd,         \* the inode switchshadow() has opened
  seq,           \* curshadowseq
  asz,           \* acctsize
  pos,           \* the offset of acctfd
  csz,           \* statacc.st_size of acctphotoproc()
  num,           \* numrecs; then the processes still to be read in this sample
  over,          \* noverflow: processes to be skipped after that
  sw,            \* switches acctrepos() still has to do
  nseq,          \* newseq of acctprocnt()
  fill           \* the value of `filled' is 1

offsets == <<asz, pos>>
counts  == <<csz, num, over, sw, nseq, fill>>
files   == <<fd, rdlock, tmpfd>>
cvars   == <<cpc, mode, seq, files, offsets, counts>>

(***************************************************************************)
(* "first"  : atopacctd(1), called by acctswon()                           *)
(* "nested" : atopacctd(0), called by acctprocnt() out of atopacctd(1)     *)
(* "again"  : atopacctd(0), called by acctprocnt() in a sample             *)
(* "sample" : acctprocnt() in a sample                                     *)
(***************************************************************************)
Modes == {"first", "nested", "again", "sample"}

Registering == {"lock", "cur", "open", "vers", "rdlock", "unlock"}
Sampling    == {"run", "stat", "restat", "count", "statnew", "photo", "read",
                "swopen", "swlock", "repos", "seek"}
Ended       == {"closed", "dying", "gone", "aborted", "refused", "other", "wrapped"}

ControlTypeOK ==
  /\ cpc \in [Clients -> {"off", "stuck"} \cup Registering \cup Sampling \cup Ended]
  /\ mode \in [Clients -> Modes]

FilesTypeOK ==
  /\ fd \in [Clients -> Inodes \cup {NoInode}]
  /\ tmpfd \in [Clients -> Inodes \cup {NoInode}]
  /\ seq \in [Clients -> 0 .. MaxSeq + 1]
  /\ nseq \in [Clients -> Seqs]

FlagsTypeOK ==
  /\ rdlock \in [Clients -> BOOLEAN]
  /\ fill \in [Clients -> BOOLEAN]

CountsTypeOK ==
  /\ asz \in [Clients -> Int] /\ pos \in [Clients -> Int]
  /\ csz \in [Clients -> Int] /\ num \in [Clients -> Int]
  /\ over \in [Clients -> Int] /\ sw \in [Clients -> Int]

ClientTypeOK == ControlTypeOK /\ FilesTypeOK /\ FlagsTypeOK /\ CountsTypeOK

ClientInit ==
  /\ cpc = [c \in Clients |-> "off"]
  /\ mode = [c \in Clients |-> "first"]
  /\ fd = [c \in Clients |-> NoInode]
  /\ rdlock = [c \in Clients |-> FALSE]
  /\ tmpfd = [c \in Clients |-> NoInode]
  /\ seq = [c \in Clients |-> 0]
  /\ asz = [c \in Clients |-> 0] /\ pos = [c \in Clients |-> 0]
  /\ csz = [c \in Clients |-> 0] /\ num = [c \in Clients |-> 0]
  /\ over = [c \in Clients |-> 0] /\ sw = [c \in Clients |-> 0]
  /\ nseq = [c \in Clients |-> 0]
  /\ fill = [c \in Clients |-> FALSE]

OpenInodes   == {fd[c] : c \in Clients} \cup {tmpfd[c] : c \in Clients}
LockedInodes == {fd[c] : c \in {d \in Clients : rdlock[d]}}

Goto(c, p) == cpc' = [cpc EXCEPT ![c] = p]
Close(c)   == /\ fd' = [fd EXCEPT ![c] = NoInode]
              /\ rdlock' = [rdlock EXCEPT ![c] = FALSE]

(***************************************************************************)
(* atopacctd(): registration with the daemon.                              *)
(***************************************************************************)
\* The end of a call that failed: acctswon() tries another accounting
\* mechanism, a sample reports no exited process.
Failed(c) == IF mode[c] = "again" THEN "run" ELSE "other"

CStart(c) ==
  /\ cpc[c] = "off"
  /\ Goto(c, IF semup THEN "lock" ELSE "other")
  /\ UNCHANGED <<fs, ipc, kernel, mode, seq, files, offsets, counts>>

\* Mutant of CLock: semaphore 0 is not decremented.
CLockOnly(c) ==
  /\ cpc[c] = "lock"
  /\ lock = "free"
  /\ lock' = c
  /\ Goto(c, "cur")
  /\ UNCHANGED <<fs, semup, users, kernel, mode, seq, files, offsets, counts>>

\* semtimedop() with semreglock: both operations carry IPC_NOWAIT. A nested call
\* fails on the lock that the client itself has, and so does the outer one then.
CLock(c) ==
  /\ cpc[c] = "lock"
  /\ \/ /\ lock = "free" /\ NumUsers < SemTotal
        /\ lock' = c
        /\ users' = [users EXCEPT ![c] = @ + 1]
        /\ Goto(c, "cur")
     \/ /\ ~(lock = "free" /\ NumUsers < SemTotal)
        /\ SemRelease(c) /\ SemUnlock(c)
        /\ Goto(c, IF mode[c] = "first" THEN "refused" ELSE Failed(c))
  /\ UNCHANGED <<fs, semup, kernel, mode, seq, files, offsets, counts>>

\* fopen() and fscanf() of the file `current`. When it is empty, maxshadowrec
\* becomes 0: the client does not look at shadow files any more.
CReadCurrent(c) ==
  /\ cpc[c] = "cur"
  /\ \/ /\ current >= 0
        /\ seq' = [seq EXCEPT ![c] = current]
        /\ Goto(c, "open")
        /\ UNCHANGED <<lock, users>>
     \/ /\ current < 0
        /\ SemRelease(c) /\ SemUnlock(c)
        /\ Goto(c, IF current = EmptyCurrent /\ mode[c] = "again"
                   THEN "stuck" ELSE Failed(c))
        /\ UNCHANGED seq
  /\ UNCHANGED <<fs, semup, kernel, mode, files, offsets, counts>>

\* open() of the current shadow file; abort() when it does not exist.
COpen(c) ==
  /\ cpc[c] = "open"
  /\ fd' = [fd EXCEPT ![c] = dir[seq[c]]]
  /\ IF dir[seq[c]] # NoInode
     THEN /\ Goto(c, IF mode[c] = "first" THEN "vers" ELSE "rdlock")
          /\ UNCHANGED ipc
     ELSE /\ Goto(c, "aborted")
          /\ SemUndo(c)
  /\ UNCHANGED <<fs, kernel, mode, seq, rdlock, tmpfd, offsets, counts>>

\* acctvers() of atopacctd(1): once there is a record, acctprocnt() follows.
\* The client starts a child that exits and gives up after 40 trials.
CVers(c) ==
  /\ cpc[c] = "vers"
  /\ IF size[fd[c]] > 0
     THEN Goto(c, "stat") /\ UNCHANGED <<fd, rdlock, lock, users>>
     ELSE /\ Goto(c, "other")
          /\ Close(c) /\ SemRelease(c) /\ SemUnlock(c)
  /\ UNCHANGED <<fs, semup, kernel, mode, seq, tmpfd, offsets, counts>>

\* F_SETLK of a read lock fails while the daemon tries its write lock.
CRdLock(c, wlocked) ==
  /\ cpc[c] = "rdlock"
  /\ IF fd[c] \notin wlocked
     THEN /\ Goto(c, "unlock")
          /\ rdlock' = [rdlock EXCEPT ![c] = TRUE]
          /\ UNCHANGED <<fd, lock, users>>
     ELSE /\ Goto(c, Failed(c))
          /\ Close(c) /\ SemRelease(c) /\ SemUnlock(c)
  /\ UNCHANGED <<fs, semup, kernel, mode, seq, tmpfd, offsets, counts>>

CUnlock(c) ==
  /\ cpc[c] = "unlock"
  /\ SemUnlock(c)
  /\ Goto(c, IF mode[c] = "first" THEN "run" ELSE "restat")
  /\ mode' = [mode EXCEPT ![c] = IF @ = "nested" THEN "first" ELSE "sample"]
  /\ UNCHANGED <<fs, semup, users, kernel, seq, files, offsets, counts>>

(***************************************************************************)
(* acctprocnt(): the number of processes that exited since the previous    *)
(* sample. As atop has it in an unsigned long, a negative number is a huge *)
(* one: such a client is "wrapped".                                        *)
(***************************************************************************)
CSample(c) ==
  /\ cpc[c] = "run"
  /\ Goto(c, "stat")
  /\ mode' = [mode EXCEPT ![c] = "sample"]
  /\ UNCHANGED <<fs, ipc, kernel, seq, files, offsets, counts>>

\* The number n is the result: acctvers() positions there, a sample reads at
\* most MaxAcctProcs records and skips the others.
Counted(c, n) ==
  LET m == IF n > MaxAcctProcs THEN MaxAcctProcs ELSE n IN
  \/ /\ mode[c] = "first"
     /\ Goto(c, "rdlock")
     /\ num' = [num EXCEPT ![c] = 0]
     /\ asz' = [asz EXCEPT ![c] = n] /\ pos' = [pos EXCEPT ![c] = n]
     /\ UNCHANGED over
  \/ /\ mode[c] # "first"
     /\ Goto(c, IF n < 0 THEN "wrapped" ELSE IF n > 0 THEN "photo" ELSE "run")
     /\ num' = [num EXCEPT ![c] = m]
     /\ over' = [over EXCEPT ![c] = n - m]
     /\ UNCHANGED <<asz, pos>>

\* How many records were added to the current shadow file; when it is full,
\* there may be more files.
CountInFile(c) ==
  LET n == size[fd[c]] - asz[c] IN
  \/ size[fd[c]] < MaxShadowRec /\ Counted(c, n)
  \/ /\ size[fd[c]] >= MaxShadowRec
     /\ Goto(c, "count")
     /\ num' = [num EXCEPT ![c] = n]
     /\ UNCHANGED <<asz, pos, over>>

\* fstat(): when the file has been deleted, register again.
CStat(c) ==
  /\ cpc[c] = "stat"
  /\ \/ /\ fd[c] = NoInode \/ ~Linked(fd[c])
        /\ Close(c)
        /\ asz' = [asz EXCEPT ![c] = 0] /\ pos' = [pos EXCEPT ![c] = 0]
        /\ mode' = [mode EXCEPT ![c] = IF @ = "first" THEN "nested" ELSE "again"]
        /\ Goto(c, "lock")
        /\ UNCHANGED <<num, over>>
     \/ /\ fd[c] # NoInode /\ Linked(fd[c])
        /\ CountInFile(c)
        /\ UNCHANGED <<mode, fd, rdlock>>
  /\ UNCHANGED <<fs, ipc, kernel, seq, tmpfd, csz, sw, nseq, fill>>

CRestat(c) ==
  /\ cpc[c] = "restat"
  /\ CountInFile(c)
  /\ UNCHANGED <<fs, ipc, kernel, mode, seq, files, csz, sw, nseq, fill>>

\* The sequence number in the file `current`.
CCount(c) ==
  /\ cpc[c] = "count"
  /\ \/ /\ current < 0 \/ current = seq[c]
        /\ Counted(c, num[c])
        /\ UNCHANGED nseq
     \/ /\ current >= 0 /\ current # seq[c]
        /\ Goto(c, "statnew")
        /\ nseq' = [nseq EXCEPT ![c] = current]
        /\ UNCHANGED <<asz, pos, num, over>>
  /\ UNCHANGED <<fs, ipc, kernel, mode, seq, files, csz, sw, fill>>

\* Mutant of CStatNew: the comparison of the sequence numbers is reversed.
CStatNewReversed(c) ==
  /\ cpc[c] = "statnew"
  /\ LET new == dir[nseq[c]] IN
       Counted(c, IF new = NoInode THEN num[c]
                  ELSE IF nseq[c] < seq[c] THEN num[c] + size[new]
                  ELSE 0)
  /\ UNCHANGED <<fs, ipc, kernel, mode, seq, files, csz, sw, nseq, fill>>

\* stat() of the newest file; those in between are taken to be full.
CStatNew(c) ==
  /\ cpc[c] = "statnew"
  /\ LET new == dir[nseq[c]] IN
       Counted(c, IF new = NoInode THEN num[c]
                  ELSE IF nseq[c] > seq[c]
                  THEN num[c] + (nseq[c] - seq[c] - 1) * MaxShadowRec + size[new]
                  ELSE 0)
  /\ UNCHANGED <<fs, ipc, kernel, mode, seq, files, csz, sw, nseq, fill>>

(***************************************************************************)
(* acctphotoproc(): one record a step. read() beyond the end of the file   *)
(* leaves `filled' as it was, which has no defined value at first.         *)
(***************************************************************************)
CPhoto(c) ==
  /\ cpc[c] = "photo"
  /\ Goto(c, "read")
  /\ csz' = [csz EXCEPT ![c] = size[fd[c]]]
  /\ \E f \in BOOLEAN : fill' = [fill EXCEPT ![c] = f]
  /\ UNCHANGED <<fs, ipc, kernel, mode, seq, files, offsets, num, over, sw, nseq>>

CReadEnd(c) ==
  /\ cpc[c] = "read"
  /\ num[c] = 0
  /\ Goto(c, IF over[c] > 0 THEN "repos" ELSE "run")
  /\ csz' = [csz EXCEPT ![c] = 0]
  /\ fill' = [fill EXCEPT ![c] = FALSE]
  /\ UNCHANGED <<fs, ipc, kernel, mode, seq, files, offsets, num, over, sw, nseq>>

CReadSwitch(c) ==
  /\ cpc[c] = "read"
  /\ num[c] > 0
  /\ asz[c] >= csz[c]
  /\ Goto(c, "swopen")
  /\ UNCHANGED <<fs, ipc, kernel, mode, seq, files, offsets, counts>>

AtEof(c) == pos[c] >= size[fd[c]]

CReadRecord(c) ==
  /\ cpc[c] = "read"
  /\ num[c] > 0
  /\ asz[c] < csz[c]
  /\ ~AtEof(c) \/ fill[c]
  /\ num' = [num EXCEPT ![c] = @ - 1]
  /\ asz' = [asz EXCEPT ![c] = @ + 1]
  /\ pos' = [pos EXCEPT ![c] = IF AtEof(c) THEN @ ELSE @ + 1]
  /\ fill' = [fill EXCEPT ![c] = FALSE]
  /\ UNCHANGED <<fs, ipc, kernel, cpc, mode, seq, files, csz, over, sw, nseq>>

\* The loop of acctphotoproc() goes round without any effect.
Spins(c) ==
  /\ cpc[c] = "read"
  /\ num[c] > 0
  /\ asz[c] < csz[c]
  /\ AtEof(c) /\ ~fill[c]

(***************************************************************************)
(* switchshadow(): the previous file stays locked until the next one is.   *)
(* Called by acctphotoproc(), and by acctrepos() while sw[c] > 0.          *)
(***************************************************************************)
\* No file has a number beyond MaxSeq: the numbers tried there are not told apart.
NextSeq(c) == IF seq[c] \in Seqs THEN seq[c] + 1 ELSE seq[c]

CSwitchOpen(c) ==
  /\ cpc[c] = "swopen"
  /\ Goto(c, "swlock")
  /\ seq' = [seq EXCEPT ![c] = NextSeq(c)]
  /\ tmpfd' = [tmpfd EXCEPT ![c] = IF NextSeq(c) \in Seqs THEN dir[NextSeq(c)]
                                   ELSE NoInode]
  /\ UNCHANGED <<fs, ipc, kernel, mode, fd, rdlock, offsets, counts>>

\* Back in acctrepos(), or in acctphotoproc() with inode i open.
Switched(c, i) ==
  \/ /\ sw[c] > 0
     /\ Goto(c, "seek")
     /\ sw' = [sw EXCEPT ![c] = @ - 1]
     /\ UNCHANGED <<asz, csz>>
  \/ /\ sw[c] <= 0
     /\ Goto(c, "read")
     /\ asz' = [asz EXCEPT ![c] = 0]
     /\ csz' = [csz EXCEPT ![c] = size[i]]
     /\ UNCHANGED sw

CSwitchLock(c, wlocked) ==
  /\ cpc[c] = "swlock"
  /\ \/ /\ tmpfd[c] # NoInode /\ tmpfd[c] \notin wlocked
        /\ fd' = [fd EXCEPT ![c] = tmpfd[c]]
        /\ pos' = [pos EXCEPT ![c] = 0]
        /\ Switched(c, tmpfd[c])
     \/ /\ tmpfd[c] = NoInode \/ tmpfd[c] \in wlocked
        /\ Switched(c, fd[c])
        /\ UNCHANGED <<fd, pos>>
  /\ tmpfd' = [tmpfd EXCEPT ![c] = NoInode]
  /\ UNCHANGED <<fs, ipc, kernel, mode, seq, rdlock, num, over, nseq, fill>>

(***************************************************************************)
(* acctrepos(): skip the records that were not read.                       *)
(***************************************************************************)
\* Mutant of CRepos: the records already read are not taken into account.
CReposFromZero(c) ==
  /\ cpc[c] = "repos"
  /\ Goto(c, "seek")
  /\ sw' = [sw EXCEPT ![c] = over[c] \div MaxShadowRec]
  /\ asz' = [asz EXCEPT ![c] = over[c] % MaxShadowRec]
  /\ over' = [over EXCEPT ![c] = 0]
  /\ UNCHANGED <<fs, ipc, kernel, mode, seq, files, pos, csz, num, nseq, fill>>

\* Mutant of CRepos: acctsize becomes the offset beyond all files to switch to.
CReposNoModulo(c) ==
  /\ cpc[c] = "repos"
  /\ Goto(c, "seek")
  /\ sw' = [sw EXCEPT ![c] = (asz[c] + over[c]) \div MaxShadowRec]
  /\ asz' = [asz EXCEPT ![c] = asz[c] + over[c]]
  /\ over' = [over EXCEPT ![c] = 0]
  /\ UNCHANGED <<fs, ipc, kernel, mode, seq, files, pos, csz, num, nseq, fill>>

CRepos(c) ==
  /\ cpc[c] = "repos"
  /\ Goto(c, "seek")
  /\ sw' = [sw EXCEPT ![c] = (asz[c] + over[c]) \div MaxShadowRec]
  /\ asz' = [asz EXCEPT ![c] = (asz[c] + over[c]) % MaxShadowRec]
  /\ over' = [over EXCEPT ![c] = 0]
  /\ UNCHANGED <<fs, ipc, kernel, mode, seq, files, pos, csz, num, nseq, fill>>

CSeek(c) ==
  /\ cpc[c] = "seek"
  /\ \/ sw[c] > 0 /\ Goto(c, "swopen") /\ UNCHANGED pos
     \/ sw[c] <= 0 /\ Goto(c, "run") /\ pos' = [pos EXCEPT ![c] = asz[c]]
  /\ UNCHANGED <<fs, ipc, kernel, mode, seq, files, asz, counts>>

(***************************************************************************)
(* Termination. A client that quits closes the file first (acctswoff());   *)
(* of one that is killed the kernel undoes the semaphore operations before *)
(* it closes the files.                                                    *)
(***************************************************************************)
CQuit(c) ==
  /\ cpc[c] = "run"
  /\ Goto(c, "closed")
  /\ Close(c)
  /\ UNCHANGED <<fs, ipc, kernel, mode, seq, tmpfd, offsets, counts>>

CExit(c) ==
  /\ cpc[c] = "closed"
  /\ Goto(c, "gone")
  /\ SemUndo(c)
  /\ UNCHANGED <<fs, kernel, mode, seq, files, offsets, counts>>

CKill(c) ==
  /\ cpc[c] \notin Ended \cup {"off"}
  /\ Goto(c, "dying")
  /\ SemUndo(c)
  /\ UNCHANGED <<fs, kernel, mode, seq, files, offsets, counts>>

CFilesClosed(c) ==
  /\ cpc[c] = "dying"
  /\ Goto(c, "gone")
  /\ Close(c)
  /\ tmpfd' = [tmpfd EXCEPT ![c] = NoInode]
  /\ UNCHANGED <<fs, ipc, kernel, mode, seq, offsets, counts>>

\* A step of a client that is neither told to quit nor killed.
CStep(c, wlocked) ==
  \/ CLock(c) \/ CReadCurrent(c) \/ COpen(c) \/ CVers(c) \/ CRdLock(c, wlocked)
  \/ CUnlock(c) \/ CSample(c) \/ CStat(c) \/ CRestat(c) \/ CCount(c) \/ CStatNew(c)
  \/ CPhoto(c) \/ CReadEnd(c) \/ CReadSwitch(c) \/ CReadRecord(c)
  \/ CSwitchOpen(c) \/ CSwitchLock(c, wlocked) \/ CRepos(c) \/ CSeek(c)
  \/ CExit(c) \/ CFilesClosed(c)
=============================================================================
