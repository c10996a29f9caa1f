--------------------------- MODULE ProcAcct_proofs ---------------------------
(***************************************************************************)
(* IInv is an inductive invariant of ProcAcct, and so is AcctInv, which    *)
(* adds what the clients have counted and where they are in the files; the *)
(* safety properties follow from them, and so does that the clients read   *)
(* the log of AcctStream, for any number of clients, any size of the       *)
(* shadow files and any bounds.                                            *)
(***************************************************************************)
EXTENDS ProcAcctInv, TLAPS

USE SharedAssumption, DaemonAssumption, ClientAssumption, ProcAcctAssumption

(***************************************************************************)
(* Facts about the shared operators.                                       *)
(***************************************************************************)
\* creat() keeps the inode of an existing file, and gives a new file an inode
\* that nobody has open and that has no other path.
LEMMA CreatFacts ==
  ASSUME TypeOK, NEW n \in Seqs, Creat(n, OpenInodes)
  PROVE  \E i \in Inodes :
           /\ dir'  = [dir EXCEPT ![n] = i]
           /\ size' = [size EXCEPT ![i] = 0]
           /\ base' = [base EXCEPT ![i] = nlogged]
           /\ \/ dir[n] = i
              \/ /\ dir[n] = NoInode
                 /\ \A s \in Seqs : dir[s] # i
                 /\ \A c \in Clients : fd[c] # i /\ tmpfd[c] # i
<1>1. PICK i \in CreatInodes(n, OpenInodes) :
         /\ dir'  = [dir EXCEPT ![n] = i]
         /\ size' = [size EXCEPT ![i] = 0]
         /\ base' = [base EXCEPT ![i] = nlogged]
  BY DEF Creat
<1>2. CASE dir[n] # NoInode
  <2>1. i = dir[n]
    BY <1>1, <1>2 DEF CreatInodes
  <2> QED BY <1>1, <1>2, <2>1 DEF TypeOK, SharedTypeOK
<1>3. CASE dir[n] = NoInode
  <2>1. i \in FreshInodes(OpenInodes)
    BY <1>1, <1>3 DEF CreatInodes
  <2>2. /\ i \in Inodes
        /\ \A s \in Seqs : dir[s] # i
        /\ \A c \in Clients : fd[c] # i /\ tmpfd[c] # i
    BY <2>1 DEF FreshInodes, Linked, OpenInodes
  <2> QED BY <1>1, <1>3, <2>2
<1> QED BY <1>2, <1>3

\* The initial states satisfy the invariant.
LEMMA InitIInv == Init => IInv
<1> SUFFICES ASSUME Init PROVE IInv
  OBVIOUS
<1> USE DEF Init, SharedInit, DaemonInit, ClientInit
<1>1. TypeOK
  <2>1. SharedTypeOK
    <3>1. semup \in BOOLEAN /\ accton \in BOOLEAN
      OBVIOUS
    <3> QED BY <3>1 DEF SharedTypeOK, Seqs, NoCurrent
  <2>2. DaemonTypeOK
    <3>1. busy \in BOOLEAN /\ cleanup \in BOOLEAN /\ resetting \in BOOLEAN
      OBVIOUS
    <3> QED BY <3>1 DEF DaemonTypeOK, Seqs
  <2>3. ClientTypeOK
    <3>1. FlagsTypeOK
      BY DEF FlagsTypeOK
    <3> QED BY <3>1 DEF ClientTypeOK, ControlTypeOK, FilesTypeOK, CountsTypeOK, Seqs, Modes
  <2>4. leftover \in BOOLEAN
    OBVIOUS
  <2> QED BY <2>1, <2>2, <2>3, <2>4 DEF TypeOK
<1>2. SeqInv /\ SizeInv /\ DirInv /\ FilesInv /\ LockInv
  BY DEF SeqInv, SizeInv, DirInv, FilesInv, LockInv, HasFile, Serving, Starting, NoUsers
<1>3. FdInv /\ ClientSeqInv /\ NextFileInv
  BY DEF FdInv, ClientSeqInv, NextFileInv, WithFile, Unregistered, Up, Serving, Starting
<1> QED BY <1>1, <1>2, <1>3 DEF IInv

(***************************************************************************)
(* Type correctness.                                                       *)
(***************************************************************************)
\* Neither the daemon nor the kernel touches the variables of a client.
LEMMA ClientTypeFrame == ClientTypeOK /\ UNCHANGED cvars => ClientTypeOK'
  BY DEF ClientTypeOK, ControlTypeOK, FilesTypeOK, FlagsTypeOK, CountsTypeOK, cvars, files,
         offsets, counts

LEMMA DaemonSharedType == IInv /\ Daemon => SharedTypeOK'
<1> SUFFICES ASSUME TypeOK, SizeInv, DStep(LockedInodes, OpenInodes) PROVE SharedTypeOK'
  BY DEF Daemon, IInv
<1> USE DEF TypeOK, SharedTypeOK, DaemonTypeOK, fs, ipc, kernel
<1>1. CASE DRename
  <2>1. olddir' \in SUBSET Inodes
    BY <1>1 DEF DRename
  <2>2. dir' \in [Seqs -> Inodes \cup {NoInode}]
    BY <1>1 DEF DRename
  <2> QED BY <1>1, <2>1, <2>2 DEF DRename, NoCurrent
<1>2. CASE DMkShadow(OpenInodes)
  <2>1. 0 \in Seqs /\ Creat(0, OpenInodes)
    BY <1>2 DEF DMkShadow, Seqs
  <2>2. PICK i \in Inodes :
          /\ dir'  = [dir EXCEPT ![0] = i]
          /\ size' = [size EXCEPT ![i] = 0]
          /\ base' = [base EXCEPT ![i] = nlogged]
    BY <2>1, CreatFacts
  <2> QED BY <1>2, <2>1, <2>2 DEF DMkShadow
<1>3. CASE DMkCurrent
  BY <1>3 DEF DMkCurrent, NoCurrent, EmptyCurrent
<1>4. CASE DWrCurrent
  BY <1>4 DEF DWrCurrent, NoCurrent
<1>5. CASE DRead
  BY <1>5 DEF DRead, Seqs
<1>6. CASE DReadNothing
  BY <1>6 DEF DReadNothing
<1>7. CASE DNoRecords
  BY <1>7 DEF DNoRecords
<1>8. CASE DReactivate
  BY <1>8 DEF DReactivate
<1>9. CASE DTruncate
  BY <1>9 DEF DTruncate
<1>10. CASE DLock
  BY <1>10 DEF DLock
<1>11. CASE DCheck
  BY <1>11 DEF DCheck, SemUnlock
<1>12. CASE DWrite
  <2>1. PICK res \in {0, Part} : Pass2Shadow(Part, res)
    BY <1>12 DEF DWrite
  <2>2. Part \in Nat
    BY <1>12 DEF DWrite, Part, SizeInv
  <2>3. Append(cur, Part) \/ UNCHANGED fs
    BY <2>1 DEF Pass2Shadow
  <2> QED BY <1>12, <2>2, <2>3 DEF DWrite, Append
<1>13. CASE DRotate(OpenInodes)
  <2>1. cur + 1 \in Seqs /\ Creat(cur + 1, OpenInodes)
    BY <1>13 DEF DRotate, Seqs
  <2>2. PICK i \in Inodes :
          /\ dir'  = [dir EXCEPT ![cur + 1] = i]
          /\ size' = [size EXCEPT ![i] = 0]
          /\ base' = [base EXCEPT ![i] = nlogged]
    BY <2>1, CreatFacts
  <2> QED BY <1>13, <2>1, <2>2 DEF DRotate
<1>14. CASE DWipe
  BY <1>14 DEF DWipe, NoCurrent, EmptyCurrent
<1>15. CASE DSetCurrent
  BY <1>15 DEF DSetCurrent, SemUnlock
<1>16. CASE DRest
  <2>1. PICK res \in {0, buf} : Pass2Shadow(buf, res)
    BY <1>16 DEF DRest
  <2>2. buf \in Nat
    BY <1>16
  <2>3. Append(cur, buf) \/ UNCHANGED fs
    BY <2>1 DEF Pass2Shadow
  <2> QED BY <1>16, <2>2, <2>3 DEF DRest, Append
<1>17. CASE DLoop
  BY <1>17 DEF DLoop
<1>18. CASE DGcTry(LockedInodes)
  BY <1>18 DEF DGcTry
<1>19. CASE DGcClose
  BY <1>19 DEF DGcClose
<1>20. CASE DGcUnlink
  BY <1>20 DEF DGcUnlink, Unlink
<1>21. CASE DZero(OpenInodes)
  <2>1. 0 \in Seqs /\ Creat(0, OpenInodes)
    BY <1>21 DEF DZero, Seqs
  <2>2. PICK i \in Inodes :
          /\ dir'  = [dir EXCEPT ![0] = i]
          /\ size' = [size EXCEPT ![i] = 0]
          /\ base' = [base EXCEPT ![i] = nlogged]
    BY <2>1, CreatFacts
  <2> QED BY <1>21, <2>1, <2>2 DEF DZero
<1>22. CASE DStop
  BY <1>22 DEF DStop
<1>23. CASE DRmShadow
  BY <1>23 DEF DRmShadow, Unlink
<1>24. CASE DRmCurrent
  BY <1>24 DEF DRmCurrent, NoCurrent
<1> QED
  BY <1>1, <1>2, <1>3, <1>4, <1>5, <1>6, <1>7, <1>8, <1>9, <1>10, <1>11, <1>12, <1>13, <1>14, <1>15, <1>16, <1>17, <1>18, <1>19, <1>20, <1>21, <1>22, <1>23, <1>24 DEF DStep

LEMMA DaemonOwnType == IInv /\ Daemon => DaemonTypeOK'
<1> SUFFICES ASSUME TypeOK, SeqInv, SizeInv, DStep(LockedInodes, OpenInodes)
             PROVE  DaemonTypeOK'
  BY DEF Daemon, IInv
<1> USE DEF TypeOK, SharedTypeOK, DaemonTypeOK, Seqs, Starting, Serving, Stopping, kernel
<1>1. CASE DRename
  BY <1>1 DEF DRename
<1>2. CASE DMkShadow(OpenInodes)
  BY <1>2 DEF DMkShadow
<1>3. CASE DMkCurrent
  BY <1>3 DEF DMkCurrent
<1>4. CASE DWrCurrent
  BY <1>4 DEF DWrCurrent
<1>5. CASE DRead
  BY <1>5 DEF DRead
<1>6. CASE DReadNothing
  BY <1>6 DEF DReadNothing
<1>7. CASE DNoRecords
  BY <1>7 DEF DNoRecords
<1>8. CASE DReactivate
  BY <1>8 DEF DReactivate
<1>9. CASE DTruncate
  BY <1>9 DEF DTruncate
<1>10. CASE DLock
  BY <1>10 DEF DLock
<1>11. CASE DCheck
  <2>1. resetting' \in BOOLEAN /\ busy' \in BOOLEAN
    BY <1>11 DEF DCheck
  <2>2. dpc' \in {"write", "loop", "gc"} /\ buf' \in Nat
    BY <1>11 DEF DCheck
  <2> QED BY <1>11, <2>1, <2>2 DEF DCheck
<1>12. CASE DWrite
  <2>1. PICK res \in {0, Part} :
          /\ Pass2Shadow(Part, res)
          /\ st' = st + res
          /\ IF st + res >= MaxShadowRec
             THEN dpc' = "rotate" /\ buf' = buf - Part
             ELSE dpc' = "loop" /\ buf' = 0
    BY <1>12 DEF DWrite
  <2>2. Part \in 0 .. buf
    BY <1>12 DEF DWrite, Part, SizeInv
  <2>3. cleanup' \in BOOLEAN
    BY <2>1 DEF Pass2Shadow
  <2> QED BY <1>12, <2>1, <2>2, <2>3 DEF DWrite
<1>13. CASE DRotate(OpenInodes)
  BY <1>13 DEF DRotate
<1>14. CASE DWipe
  BY <1>14 DEF DWipe
<1>15. CASE DSetCurrent
  BY <1>15 DEF DSetCurrent
<1>16. CASE DRest
  <2>1. PICK res \in {0, buf} : Pass2Shadow(buf, res) /\ st' = st + res
    BY <1>16 DEF DRest
  <2>2. cleanup' \in BOOLEAN
    BY <2>1 DEF Pass2Shadow
  <2> QED BY <1>16, <2>1, <2>2 DEF DRest
<1>17. CASE DLoop
  BY <1>17 DEF DLoop
<1>18. CASE DGcTry(LockedInodes)
  BY <1>18 DEF DGcTry
<1>19. CASE DGcClose
  BY <1>19 DEF DGcClose
<1>20. CASE DGcUnlink
  BY <1>20 DEF DGcUnlink, SeqInv, GcLimit
<1>21. CASE DZero(OpenInodes)
  BY <1>21 DEF DZero
<1>22. CASE DStop
  BY <1>22 DEF DStop
<1>23. CASE DRmShadow
  BY <1>23 DEF DRmShadow
<1>24. CASE DRmCurrent
  BY <1>24 DEF DRmCurrent
<1> QED
  BY <1>1, <1>2, <1>3, <1>4, <1>5, <1>6, <1>7, <1>8, <1>9, <1>10, <1>11, <1>12, <1>13, <1>14, <1>15, <1>16, <1>17, <1>18, <1>19, <1>20, <1>21, <1>22, <1>23, <1>24 DEF DStep

LEMMA DaemonType == IInv /\ Daemon => TypeOK'
<1> SUFFICES ASSUME IInv, Daemon PROVE TypeOK'
  OBVIOUS
<1>1. leftover' \in BOOLEAN
  <2>1. leftover' = (leftover \/ LeavesFiles)
    BY DEF Daemon
  <2> HIDE DEF LeavesFiles
  <2> QED BY <2>1
<1> QED BY <1>1, DaemonSharedType, DaemonOwnType, ClientTypeFrame DEF IInv, TypeOK, Daemon

\* The kernel, the start and the end of the daemon.
LEMMA OtherType ==
  IInv /\ (KernelExit \/ DaemonStart \/ DaemonSigTerm \/ DaemonKill) => TypeOK'
<1> SUFFICES ASSUME TypeOK, KernelExit \/ DaemonStart \/ DaemonSigTerm \/ DaemonKill
             PROVE  TypeOK'
  BY DEF IInv
<1>0. ClientTypeOK'
  BY ClientTypeFrame DEF TypeOK, KernelExit, DaemonStart, DaemonSigTerm, DaemonKill
<1> USE DEF TypeOK, SharedTypeOK, DaemonTypeOK, Seqs, Starting, Serving, Stopping,
            fs, ipc, kernel, dvars, history
<1>1. CASE KernelExit
  BY <1>0, <1>1 DEF KernelExit, Exit
<1>2. CASE DaemonStart
  <2>1. busy' \in BOOLEAN /\ cleanup' \in BOOLEAN /\ resetting' \in BOOLEAN
    BY <1>2 DEF DaemonStart, DStart
  <2>3. kills' \in 0 .. MaxKills /\ DaemonTypeOK'
    BY <1>2, <2>1 DEF DaemonStart, DStart
  <2>4. leftover' \in BOOLEAN
    BY <1>2 DEF DaemonStart
  <2>2. SharedTypeOK'
    BY <1>2 DEF DaemonStart, DStart
  <2> QED BY <1>0, <2>2, <2>3, <2>4 DEF TypeOK
<1>3. CASE DaemonSigTerm
  BY <1>0, <1>3 DEF DaemonSigTerm, DSigTerm
<1>4. CASE DaemonKill
  BY <1>0, <1>4 DEF DaemonKill, DKill, SemUnlock
<1> QED BY <1>1, <1>2, <1>3, <1>4

\* A client does with the semaphores: nothing, register, or release.
LEMMA ClientSemaphores ==
  ASSUME NEW c \in Clients, Client(c) \/ ClientStart(c) \/ ClientEnd(c)
  PROVE  \/ lock' = lock /\ users' = users
         \/ lock = "free" /\ lock' = c /\ users' = [users EXCEPT ![c] = @ + 1]
         \/ SemUnlock(c) /\ users' = users
         \/ SemUnlock(c) /\ SemRelease(c)
         \/ SemUnlock(c) /\ users' = [users EXCEPT ![c] = 0]
<1> USE DEF ipc
<1>1. CASE CLock(c)
  BY <1>1 DEF CLock
<1>2. CASE CReadCurrent(c)
  BY <1>2 DEF CReadCurrent
<1>3. CASE COpen(c)
  BY <1>3 DEF COpen, SemUndo
<1>4. CASE CVers(c)
  BY <1>4 DEF CVers
<1>5. CASE CRdLock(c, WLocked)
  BY <1>5 DEF CRdLock
<1>6. CASE CUnlock(c)
  BY <1>6 DEF CUnlock
<1>7. CASE CSample(c)
  BY <1>7 DEF CSample
<1>8. CASE CStat(c)
  BY <1>8 DEF CStat
<1>9. CASE CRestat(c)
  BY <1>9 DEF CRestat
<1>10. CASE CCount(c)
  BY <1>10 DEF CCount
<1>11. CASE CStatNew(c)
  BY <1>11 DEF CStatNew
<1>12. CASE CPhoto(c)
  BY <1>12 DEF CPhoto
<1>13. CASE CReadEnd(c)
  BY <1>13 DEF CReadEnd
<1>14. CASE CReadSwitch(c)
  BY <1>14 DEF CReadSwitch
<1>15. CASE CReadRecord(c)
  BY <1>15 DEF CReadRecord
<1>16. CASE CSwitchOpen(c)
  BY <1>16 DEF CSwitchOpen
<1>17. CASE CSwitchLock(c, WLocked)
  BY <1>17 DEF CSwitchLock
<1>18. CASE CRepos(c)
  BY <1>18 DEF CRepos
<1>19. CASE CSeek(c)
  BY <1>19 DEF CSeek
<1>20. CASE CExit(c)
  BY <1>20 DEF CExit, SemUndo
<1>21. CASE CFilesClosed(c)
  BY <1>21 DEF CFilesClosed
<1>22. CASE CStart(c)
  BY <1>22 DEF CStart
<1>23. CASE CQuit(c)
  BY <1>23 DEF CQuit
<1>24. CASE CKill(c)
  BY <1>24 DEF CKill, SemUndo
<1> QED
  BY <1>1, <1>2, <1>3, <1>4, <1>5, <1>6, <1>7, <1>8, <1>9, <1>10, <1>11, <1>12, <1>13, <1>14, <1>15, <1>16, <1>17, <1>18, <1>19, <1>20, <1>21, <1>22, <1>23, <1>24 DEF Client, ClientStart, ClientEnd, CStep

LEMMA ClientSharedType ==
  ASSUME IInv, NEW c \in Clients, Client(c) \/ ClientStart(c) \/ ClientEnd(c)
  PROVE  SharedTypeOK' /\ DaemonTypeOK' /\ kills' \in 0 .. MaxKills /\ leftover' \in BOOLEAN
<1>0. UNCHANGED <<dvars, kills, leftover>>
  BY DEF Client, ClientStart, ClientEnd, history
<1>1. DaemonTypeOK' /\ kills' \in 0 .. MaxKills /\ leftover' \in BOOLEAN
  BY <1>0 DEF IInv, TypeOK, DaemonTypeOK, dvars
<1>2. UNCHANGED <<fs, kernel, semup>>
  BY DEF Client, ClientStart, ClientEnd, CStep, CQuit, CKill, CStart, CLock, CReadCurrent,
         COpen, CVers, CRdLock, CUnlock, CSample, CStat, CRestat, CCount, CStatNew, CPhoto,
         CReadEnd, CReadSwitch, CReadRecord, CSwitchOpen, CSwitchLock, CRepos, CSeek,
         CExit, CFilesClosed, SemUndo, ipc
<1>3. lock' \in Clients \cup {"daemon", "free"} /\ users' \in [Clients -> Nat]
  BY ClientSemaphores DEF IInv, TypeOK, SharedTypeOK, LockInv, SemUnlock, SemRelease
<1> QED BY <1>1, <1>2, <1>3 DEF IInv, TypeOK, SharedTypeOK, fs, kernel

LEMMA ClientControl ==
  ASSUME IInv, NEW c \in Clients, Client(c) \/ ClientStart(c) \/ ClientEnd(c)
  PROVE  ControlTypeOK'
<1> SUFFICES ASSUME ControlTypeOK
             PROVE  ControlTypeOK'
  BY DEF IInv, TypeOK, ClientTypeOK
<1> USE DEF ControlTypeOK, Modes, Registering, Sampling, Ended, Goto
<1>1. CASE CLock(c)
  BY <1>1 DEF CLock, Failed
<1>2. CASE CReadCurrent(c)
  BY <1>2 DEF CReadCurrent, Failed
<1>3. CASE COpen(c)
  BY <1>3 DEF COpen
<1>4. CASE CVers(c)
  BY <1>4 DEF CVers
<1>5. CASE CRdLock(c, WLocked)
  BY <1>5 DEF CRdLock, Failed
<1>6. CASE CUnlock(c)
  BY <1>6 DEF CUnlock
<1>7. CASE CSample(c)
  BY <1>7 DEF CSample
<1>8. CASE CStat(c)
  BY <1>8 DEF CStat, CountInFile, Counted
<1>9. CASE CRestat(c)
  BY <1>9 DEF CRestat, CountInFile, Counted
<1>10. CASE CCount(c)
  BY <1>10 DEF CCount, Counted
<1>11. CASE CStatNew(c)
  BY <1>11 DEF CStatNew, Counted
<1>12. CASE CPhoto(c)
  BY <1>12 DEF CPhoto
<1>13. CASE CReadEnd(c)
  BY <1>13 DEF CReadEnd
<1>14. CASE CReadSwitch(c)
  BY <1>14 DEF CReadSwitch
<1>15. CASE CReadRecord(c)
  BY <1>15 DEF CReadRecord
<1>16. CASE CSwitchOpen(c)
  BY <1>16 DEF CSwitchOpen
<1>17. CASE CSwitchLock(c, WLocked)
  BY <1>17 DEF CSwitchLock, Switched
<1>18. CASE CRepos(c)
  BY <1>18 DEF CRepos
<1>19. CASE CSeek(c)
  BY <1>19 DEF CSeek
<1>20. CASE CExit(c)
  BY <1>20 DEF CExit
<1>21. CASE CFilesClosed(c)
  BY <1>21 DEF CFilesClosed
<1>22. CASE CStart(c)
  BY <1>22 DEF CStart
<1>23. CASE CQuit(c)
  BY <1>23 DEF CQuit
<1>24. CASE CKill(c)
  BY <1>24 DEF CKill
<1> QED
  BY <1>1, <1>2, <1>3, <1>4, <1>5, <1>6, <1>7, <1>8, <1>9, <1>10, <1>11, <1>12, <1>13, <1>14, <1>15, <1>16, <1>17, <1>18, <1>19, <1>20, <1>21, <1>22, <1>23, <1>24 DEF Client, ClientStart, ClientEnd, CStep

LEMMA ClientFilesType ==
  ASSUME IInv, NEW c \in Clients, Client(c) \/ ClientStart(c) \/ ClientEnd(c)
  PROVE  FilesTypeOK'
<1> SUFFICES ASSUME SharedTypeOK, FilesTypeOK, FdInv
             PROVE  FilesTypeOK'
  BY DEF IInv, TypeOK, ClientTypeOK
<1> USE DEF FilesTypeOK, files, counts, Seqs
<1>1. CASE CLock(c)
  BY <1>1 DEF CLock
<1>2. CASE CReadCurrent(c)
  <2>1. current >= 0 => current \in Seqs
    BY DEF SharedTypeOK, NoCurrent, EmptyCurrent
  <2> QED BY <1>2, <2>1 DEF CReadCurrent
<1>3. CASE COpen(c)
  BY <1>3 DEF COpen, SharedTypeOK, FdInv, Seqs
<1>4. CASE CVers(c)
  BY <1>4 DEF CVers, Close
<1>5. CASE CRdLock(c, WLocked)
  BY <1>5 DEF CRdLock, Close
<1>6. CASE CUnlock(c)
  BY <1>6 DEF CUnlock
<1>7. CASE CSample(c)
  BY <1>7 DEF CSample
<1>8. CASE CStat(c)
  BY <1>8 DEF CStat, Close
<1>9. CASE CRestat(c)
  BY <1>9 DEF CRestat
<1>10. CASE CCount(c)
  <2>1. current >= 0 => current \in Seqs
    BY DEF SharedTypeOK, NoCurrent, EmptyCurrent
  <2> QED BY <1>10, <2>1 DEF CCount
<1>11. CASE CStatNew(c)
  BY <1>11 DEF CStatNew
<1>12. CASE CPhoto(c)
  BY <1>12 DEF CPhoto, counts
<1>13. CASE CReadEnd(c)
  BY <1>13 DEF CReadEnd
<1>14. CASE CReadSwitch(c)
  BY <1>14 DEF CReadSwitch, counts
<1>15. CASE CReadRecord(c)
  BY <1>15 DEF CReadRecord
<1>16. CASE CSwitchOpen(c)
  BY <1>16 DEF CSwitchOpen, NextSeq, SharedTypeOK
<1>17. CASE CSwitchLock(c, WLocked)
  BY <1>17 DEF CSwitchLock
<1>18. CASE CRepos(c)
  BY <1>18 DEF CRepos
<1>19. CASE CSeek(c)
  BY <1>19 DEF CSeek
<1>20. CASE CExit(c)
  BY <1>20 DEF CExit
<1>21. CASE CFilesClosed(c)
  BY <1>21 DEF CFilesClosed, Close
<1>22. CASE CStart(c)
  BY <1>22 DEF CStart
<1>23. CASE CQuit(c)
  BY <1>23 DEF CQuit, Close
<1>24. CASE CKill(c)
  BY <1>24 DEF CKill
<1> QED
  BY <1>1, <1>2, <1>3, <1>4, <1>5, <1>6, <1>7, <1>8, <1>9, <1>10, <1>11, <1>12, <1>13, <1>14, <1>15, <1>16, <1>17, <1>18, <1>19, <1>20, <1>21, <1>22, <1>23, <1>24 DEF Client, ClientStart, ClientEnd, CStep

LEMMA ClientFlags ==
  ASSUME IInv, NEW c \in Clients, Client(c) \/ ClientStart(c) \/ ClientEnd(c)
  PROVE  FlagsTypeOK'
<1> SUFFICES ASSUME FlagsTypeOK
             PROVE  FlagsTypeOK'
  BY DEF IInv, TypeOK, ClientTypeOK
<1> USE DEF FlagsTypeOK, files, counts
<1>1. CASE CLock(c)
  BY <1>1 DEF CLock
<1>2. CASE CReadCurrent(c)
  BY <1>2 DEF CReadCurrent
<1>3. CASE COpen(c)
  BY <1>3 DEF COpen
<1>4. CASE CVers(c)
  BY <1>4 DEF CVers, Close
<1>5. CASE CRdLock(c, WLocked)
  BY <1>5 DEF CRdLock, Close
<1>6. CASE CUnlock(c)
  BY <1>6 DEF CUnlock
<1>7. CASE CSample(c)
  BY <1>7 DEF CSample
<1>8. CASE CStat(c)
  BY <1>8 DEF CStat, Close
<1>9. CASE CRestat(c)
  BY <1>9 DEF CRestat
<1>10. CASE CCount(c)
  BY <1>10 DEF CCount
<1>11. CASE CStatNew(c)
  BY <1>11 DEF CStatNew
<1>12. CASE CPhoto(c)
  BY <1>12 DEF CPhoto
<1>13. CASE CReadEnd(c)
  BY <1>13 DEF CReadEnd
<1>14. CASE CReadSwitch(c)
  BY <1>14 DEF CReadSwitch
<1>15. CASE CReadRecord(c)
  BY <1>15 DEF CReadRecord
<1>16. CASE CSwitchOpen(c)
  BY <1>16 DEF CSwitchOpen
<1>17. CASE CSwitchLock(c, WLocked)
  BY <1>17 DEF CSwitchLock
<1>18. CASE CRepos(c)
  BY <1>18 DEF CRepos
<1>19. CASE CSeek(c)
  BY <1>19 DEF CSeek
<1>20. CASE CExit(c)
  BY <1>20 DEF CExit
<1>21. CASE CFilesClosed(c)
  BY <1>21 DEF CFilesClosed, Close
<1>22. CASE CStart(c)
  BY <1>22 DEF CStart
<1>23. CASE CQuit(c)
  BY <1>23 DEF CQuit, Close
<1>24. CASE CKill(c)
  BY <1>24 DEF CKill
<1> QED
  BY <1>1, <1>2, <1>3, <1>4, <1>5, <1>6, <1>7, <1>8, <1>9, <1>10, <1>11, <1>12, <1>13, <1>14, <1>15, <1>16, <1>17, <1>18, <1>19, <1>20, <1>21, <1>22, <1>23, <1>24 DEF Client, ClientStart, ClientEnd, CStep

LEMMA ClientCounts ==
  ASSUME IInv, NEW c \in Clients, Client(c) \/ ClientStart(c) \/ ClientEnd(c)
  PROVE  CountsTypeOK'
<1> SUFFICES ASSUME SharedTypeOK, CountsTypeOK, FilesTypeOK, FdInv
             PROVE  CountsTypeOK'
  BY DEF IInv, TypeOK, ClientTypeOK
<1> USE DEF CountsTypeOK, offsets, counts
<1>1. CASE CLock(c)
  BY <1>1 DEF CLock
<1>2. CASE CReadCurrent(c)
  BY <1>2 DEF CReadCurrent
<1>3. CASE COpen(c)
  BY <1>3 DEF COpen
<1>4. CASE CVers(c)
  BY <1>4 DEF CVers
<1>5. CASE CRdLock(c, WLocked)
  BY <1>5 DEF CRdLock
<1>6. CASE CUnlock(c)
  BY <1>6 DEF CUnlock
<1>7. CASE CSample(c)
  BY <1>7 DEF CSample
<1>8. CASE CStat(c)
  BY <1>8 DEF CStat, CountInFile, Counted, SharedTypeOK, FilesTypeOK
<1>9. CASE CRestat(c)
  BY <1>9 DEF CRestat, CountInFile, Counted, SharedTypeOK, FilesTypeOK, FdInv, WithFile
<1>10. CASE CCount(c)
  BY <1>10 DEF CCount, Counted
<1>11. CASE CStatNew(c)
  <2> DEFINE new == dir[nseq[c]]
             n == IF new = NoInode THEN num[c]
                  ELSE IF nseq[c] > seq[c]
                  THEN num[c] + (nseq[c] - seq[c] - 1) * MaxShadowRec + size[new]
                  ELSE 0
  <2>1. new # NoInode => size[new] \in Int
    BY DEF SharedTypeOK, FilesTypeOK, Seqs
  <2>2. /\ nseq[c] \in Int /\ seq[c] \in Int /\ num[c] \in Int
        /\ (nseq[c] - seq[c] - 1) * MaxShadowRec \in Int
    BY DEF FilesTypeOK, Seqs
  <2>3. n \in Int
    BY <2>1, <2>2
  <2>4. Counted(c, n)
    BY <1>11 DEF CStatNew
  <2> HIDE DEF n
  <2> QED BY <1>11, <2>3, <2>4 DEF CStatNew, Counted
<1>12. CASE CPhoto(c)
  BY <1>12 DEF CPhoto, SharedTypeOK, FilesTypeOK, FdInv, WithFile
<1>13. CASE CReadEnd(c)
  BY <1>13 DEF CReadEnd
<1>14. CASE CReadSwitch(c)
  BY <1>14 DEF CReadSwitch
<1>15. CASE CReadRecord(c)
  BY <1>15 DEF CReadRecord
<1>16. CASE CSwitchOpen(c)
  BY <1>16 DEF CSwitchOpen
<1>17. CASE CSwitchLock(c, WLocked)
  BY <1>17 DEF CSwitchLock, Switched, SharedTypeOK, FilesTypeOK, FdInv, WithFile
<1>18. CASE CRepos(c)
  BY <1>18 DEF CRepos
<1>19. CASE CSeek(c)
  BY <1>19 DEF CSeek
<1>20. CASE CExit(c)
  BY <1>20 DEF CExit
<1>21. CASE CFilesClosed(c)
  BY <1>21 DEF CFilesClosed
<1>22. CASE CStart(c)
  BY <1>22 DEF CStart
<1>23. CASE CQuit(c)
  BY <1>23 DEF CQuit
<1>24. CASE CKill(c)
  BY <1>24 DEF CKill
<1> QED
  BY <1>1, <1>2, <1>3, <1>4, <1>5, <1>6, <1>7, <1>8, <1>9, <1>10, <1>11, <1>12, <1>13, <1>14, <1>15, <1>16, <1>17, <1>18, <1>19, <1>20, <1>21, <1>22, <1>23, <1>24 DEF Client, ClientStart, ClientEnd, CStep

LEMMA ClientType ==
  ASSUME IInv, NEW c \in Clients, Client(c) \/ ClientStart(c) \/ ClientEnd(c)
  PROVE  TypeOK'
  BY ClientSharedType, ClientControl, ClientFilesType, ClientFlags, ClientCounts
     DEF TypeOK, ClientTypeOK

(***************************************************************************)
(* What the others leave alone.                                            *)
(***************************************************************************)
LEMMA ClientFrame ==
  ASSUME NEW c \in Clients, Client(c) \/ ClientStart(c) \/ ClientEnd(c)
  PROVE  UNCHANGED <<fs, kernel, semup, dvars, history>>
  BY DEF Client, ClientStart, ClientEnd, CStep, CQuit, CKill, CStart, CLock, CReadCurrent,
         COpen, CVers, CRdLock, CUnlock, CSample, CStat, CRestat, CCount, CStatNew, CPhoto,
         CReadEnd, CReadSwitch, CReadRecord, CSwitchOpen, CSwitchLock, CRepos, CSeek,
         CExit, CFilesClosed, SemUndo, ipc

LEMMA DaemonFrame ==
  Daemon \/ KernelExit \/ DaemonStart \/ DaemonSigTerm \/ DaemonKill => UNCHANGED cvars
  BY DEF Daemon, KernelExit, DaemonStart, DaemonSigTerm, DaemonKill

(***************************************************************************)
(* The sequence numbers of the daemon.                                      *)
(***************************************************************************)
LEMMA DaemonSeqNumbers == IInv /\ Daemon => SeqInv'
<1> SUFFICES ASSUME TypeOK, SeqInv, DStep(LockedInodes, OpenInodes)
             PROVE  SeqInv'
  BY DEF IInv, Daemon
<1> USE DEF TypeOK, SharedTypeOK, DaemonTypeOK, SeqInv, GcLimit, Seqs, Starting, Serving, Stopping, fs, ipc, kernel, dvars
<1>1. CASE DRename
  BY <1>1 DEF DRename
<1>2. CASE DMkShadow(OpenInodes)
  BY <1>2 DEF DMkShadow
<1>3. CASE DMkCurrent
  BY <1>3 DEF DMkCurrent
<1>4. CASE DWrCurrent
  BY <1>4 DEF DWrCurrent
<1>5. CASE DRead
  BY <1>5 DEF DRead
<1>6. CASE DReadNothing
  BY <1>6 DEF DReadNothing
<1>7. CASE DNoRecords
  BY <1>7 DEF DNoRecords
<1>8. CASE DReactivate
  BY <1>8 DEF DReactivate
<1>9. CASE DTruncate
  BY <1>9 DEF DTruncate
<1>10. CASE DLock
  BY <1>10 DEF DLock
<1>11. CASE DCheck
  BY <1>11 DEF DCheck
<1>12. CASE DWrite
  BY <1>12 DEF DWrite
<1>13. CASE DRotate(OpenInodes)
  BY <1>13 DEF DRotate
<1>14. CASE DWipe
  BY <1>14 DEF DWipe
<1>15. CASE DSetCurrent
  BY <1>15 DEF DSetCurrent
<1>16. CASE DRest
  BY <1>16 DEF DRest
<1>17. CASE DLoop
  BY <1>17 DEF DLoop
<1>18. CASE DGcTry(LockedInodes)
  BY <1>18 DEF DGcTry
<1>19. CASE DGcClose
  BY <1>19 DEF DGcClose
<1>20. CASE DGcUnlink
  BY <1>20 DEF DGcUnlink
<1>21. CASE DZero(OpenInodes)
  BY <1>21 DEF DZero
<1>22. CASE DStop
  BY <1>22 DEF DStop
<1>23. CASE DRmShadow
  BY <1>23 DEF DRmShadow
<1>24. CASE DRmCurrent
  BY <1>24 DEF DRmCurrent
<1> QED
  BY <1>1, <1>2, <1>3, <1>4, <1>5, <1>6, <1>7, <1>8, <1>9, <1>10, <1>11, <1>12, <1>13, <1>14, <1>15, <1>16, <1>17, <1>18, <1>19, <1>20, <1>21, <1>22, <1>23, <1>24 DEF DStep

LEMMA SeqNumbers == IInv /\ Next => SeqInv'
<1> SUFFICES ASSUME IInv, Next PROVE SeqInv'
  OBVIOUS
<1> USE DEF IInv, TypeOK, SharedTypeOK, DaemonTypeOK, SeqInv, GcLimit, Seqs, Starting, Serving, Stopping, fs, ipc, kernel, dvars
<1>1. CASE Daemon
  BY <1>1, DaemonSeqNumbers
<1>2. CASE KernelExit
  BY <1>2 DEF KernelExit, Exit
<1>3. CASE DaemonStart
  BY <1>3 DEF DaemonStart, DStart
<1>4. CASE DaemonSigTerm
  BY <1>4 DEF DaemonSigTerm, DSigTerm
<1>5. CASE DaemonKill
  BY <1>5 DEF DaemonKill, DKill
<1>6. ASSUME NEW c \in Clients, Client(c) \/ ClientStart(c) \/ ClientEnd(c)
      PROVE  SeqInv'
  BY <1>6, ClientFrame
<1> QED BY <1>1, <1>2, <1>3, <1>4, <1>5, <1>6 DEF Next

(***************************************************************************)
(* The size of the current shadow file and the records to be written.      *)
(***************************************************************************)
LEMMA DaemonSizes == IInv /\ Daemon => SizeInv'
<1> SUFFICES ASSUME TypeOK, SeqInv, SizeInv, DStep(LockedInodes, OpenInodes)
             PROVE  SizeInv'
  BY DEF IInv, Daemon
<1> USE DEF TypeOK, SharedTypeOK, DaemonTypeOK, SizeInv, Seqs, fs, ipc, kernel, dvars
<1>1. CASE DRename
  BY <1>1 DEF DRename
<1>2. CASE DMkShadow(OpenInodes)
  BY <1>2 DEF DMkShadow, SeqInv, Starting
<1>3. CASE DMkCurrent
  BY <1>3 DEF DMkCurrent, SeqInv, Starting
<1>4. CASE DWrCurrent
  BY <1>4 DEF DWrCurrent, SeqInv, Starting
<1>5. CASE DRead
  BY <1>5 DEF DRead
<1>6. CASE DReadNothing
  BY <1>6 DEF DReadNothing
<1>7. CASE DNoRecords
  BY <1>7 DEF DNoRecords
<1>8. CASE DReactivate
  BY <1>8 DEF DReactivate
<1>9. CASE DTruncate
  BY <1>9 DEF DTruncate
<1>10. CASE DLock
  BY <1>10 DEF DLock
<1>11. CASE DCheck
  BY <1>11 DEF DCheck, SeqInv, Serving
<1>12. CASE DWrite
  BY <1>12 DEF DWrite, Part
<1>13. CASE DRotate(OpenInodes)
  BY <1>13 DEF DRotate
<1>14. CASE DWipe
  BY <1>14 DEF DWipe
<1>15. CASE DSetCurrent
  BY <1>15 DEF DSetCurrent
<1>16. CASE DRest
  BY <1>16 DEF DRest
<1>17. CASE DLoop
  BY <1>17 DEF DLoop, SeqInv, Serving
<1>18. CASE DGcTry(LockedInodes)
  BY <1>18 DEF DGcTry
<1>19. CASE DGcClose
  BY <1>19 DEF DGcClose
<1>20. CASE DGcUnlink
  BY <1>20 DEF DGcUnlink
<1>21. CASE DZero(OpenInodes)
  BY <1>21 DEF DZero, SeqInv, Serving
<1>22. CASE DStop
  BY <1>22 DEF DStop
<1>23. CASE DRmShadow
  BY <1>23 DEF DRmShadow
<1>24. CASE DRmCurrent
  BY <1>24 DEF DRmCurrent
<1> QED
  BY <1>1, <1>2, <1>3, <1>4, <1>5, <1>6, <1>7, <1>8, <1>9, <1>10, <1>11, <1>12, <1>13, <1>14, <1>15, <1>16, <1>17, <1>18, <1>19, <1>20, <1>21, <1>22, <1>23, <1>24 DEF DStep

LEMMA Sizes == IInv /\ Next => SizeInv'
<1> SUFFICES ASSUME IInv, Next PROVE SizeInv'
  OBVIOUS
<1> USE DEF IInv, TypeOK, SharedTypeOK, DaemonTypeOK, SizeInv, Seqs, fs, ipc, kernel, dvars
<1>1. CASE Daemon
  BY <1>1, DaemonSizes
<1>2. CASE KernelExit
  BY <1>2 DEF KernelExit, Exit
<1>3. CASE DaemonStart
  BY <1>3 DEF DaemonStart, DStart
<1>4. CASE DaemonSigTerm
  BY <1>4 DEF DaemonSigTerm, DSigTerm
<1>5. CASE DaemonKill
  BY <1>5 DEF DaemonKill, DKill
<1>6. ASSUME NEW c \in Clients, Client(c) \/ ClientStart(c) \/ ClientEnd(c)
      PROVE  SizeInv'
  BY <1>6, ClientFrame
<1> QED BY <1>1, <1>2, <1>3, <1>4, <1>5, <1>6 DEF Next

(***************************************************************************)
(* Different paths are different inodes.                                   *)
(***************************************************************************)
LEMMA CreatPaths ==
  ASSUME TypeOK, DirInv, NEW n \in Seqs, Creat(n, OpenInodes)
  PROVE  DirInv'
<1>1. PICK i \in Inodes :
        /\ dir' = [dir EXCEPT ![n] = i]
        /\ dir[n] = i \/ (dir[n] = NoInode /\ \A s \in Seqs : dir[s] # i)
  BY CreatFacts
<1>2. \A s \in Seqs : dir'[s] = IF s = n THEN i ELSE dir[s]
  BY <1>1 DEF TypeOK, SharedTypeOK
<1>3. \A s \in Seqs : dir[s] = i => s = n
  BY <1>1 DEF DirInv
<1> QED BY <1>2, <1>3 DEF DirInv

LEMMA DaemonPaths == IInv /\ Daemon => DirInv'
<1> SUFFICES ASSUME TypeOK, SeqInv, DirInv, DStep(LockedInodes, OpenInodes)
             PROVE  DirInv'
  BY DEF IInv, Daemon
<1> USE DEF TypeOK, SharedTypeOK, DaemonTypeOK, DirInv, Seqs, fs, ipc, kernel, dvars
<1>1. CASE DRename
  BY <1>1 DEF DRename
<1>2. CASE DMkShadow(OpenInodes)
  <2>1. 0 \in Seqs /\ Creat(0, OpenInodes)
    BY <1>2 DEF DMkShadow
  <2> QED BY <2>1, CreatPaths
<1>3. CASE DMkCurrent
  BY <1>3 DEF DMkCurrent
<1>4. CASE DWrCurrent
  BY <1>4 DEF DWrCurrent
<1>5. CASE DRead
  BY <1>5 DEF DRead
<1>6. CASE DReadNothing
  BY <1>6 DEF DReadNothing
<1>7. CASE DNoRecords
  BY <1>7 DEF DNoRecords
<1>8. CASE DReactivate
  BY <1>8 DEF DReactivate
<1>9. CASE DTruncate
  BY <1>9 DEF DTruncate
<1>10. CASE DLock
  BY <1>10 DEF DLock
<1>11. CASE DCheck
  BY <1>11 DEF DCheck
<1>12. CASE DWrite
  BY <1>12 DEF DWrite, Pass2Shadow, Append
<1>13. CASE DRotate(OpenInodes)
  <2>1. cur + 1 \in Seqs /\ Creat(cur + 1, OpenInodes)
    BY <1>13 DEF DRotate
  <2> QED BY <2>1, CreatPaths
<1>14. CASE DWipe
  BY <1>14 DEF DWipe
<1>15. CASE DSetCurrent
  BY <1>15 DEF DSetCurrent
<1>16. CASE DRest
  BY <1>16 DEF DRest, Pass2Shadow, Append
<1>17. CASE DLoop
  BY <1>17 DEF DLoop
<1>18. CASE DGcTry(LockedInodes)
  BY <1>18 DEF DGcTry
<1>19. CASE DGcClose
  BY <1>19 DEF DGcClose
<1>20. CASE DGcUnlink
  BY <1>20 DEF DGcUnlink, Unlink, SeqInv, GcLimit
<1>21. CASE DZero(OpenInodes)
  <2>1. 0 \in Seqs /\ Creat(0, OpenInodes)
    BY <1>21 DEF DZero
  <2> QED BY <2>1, CreatPaths
<1>22. CASE DStop
  BY <1>22 DEF DStop
<1>23. CASE DRmShadow
  BY <1>23 DEF DRmShadow, Unlink
<1>24. CASE DRmCurrent
  BY <1>24 DEF DRmCurrent
<1> QED
  BY <1>1, <1>2, <1>3, <1>4, <1>5, <1>6, <1>7, <1>8, <1>9, <1>10, <1>11, <1>12, <1>13, <1>14, <1>15, <1>16, <1>17, <1>18, <1>19, <1>20, <1>21, <1>22, <1>23, <1>24 DEF DStep

LEMMA Paths == IInv /\ Next => DirInv'
<1> SUFFICES ASSUME IInv, Next PROVE DirInv'
  OBVIOUS
<1> USE DEF IInv, TypeOK, SharedTypeOK, DaemonTypeOK, DirInv, Seqs, fs, ipc, kernel, dvars
<1>1. CASE Daemon
  BY <1>1, DaemonPaths
<1>2. CASE KernelExit
  BY <1>2 DEF KernelExit, Exit
<1>3. CASE DaemonStart
  BY <1>3 DEF DaemonStart, DStart
<1>4. CASE DaemonSigTerm
  BY <1>4 DEF DaemonSigTerm, DSigTerm
<1>5. CASE DaemonKill
  BY <1>5 DEF DaemonKill, DKill
<1>6. ASSUME NEW c \in Clients, Client(c) \/ ClientStart(c) \/ ClientEnd(c)
      PROVE  DirInv'
  BY <1>6, ClientFrame
<1> QED BY <1>1, <1>2, <1>3, <1>4, <1>5, <1>6 DEF Next

(***************************************************************************)
(* The files from the oldest to the current one are there, full and         *)
(* contiguous.                                                             *)
(***************************************************************************)
LEMMA DaemonFiles == IInv /\ Daemon => FilesInv'
<1> SUFFICES ASSUME TypeOK, SeqInv, SizeInv, DirInv, FilesInv, DStep(LockedInodes, OpenInodes)
             PROVE  FilesInv'
  BY DEF IInv, Daemon
<1> USE DEF HasFile, Starting, Serving, Stopping, fs, ipc, kernel, dvars
<1>1. CASE DRename
  BY <1>1 DEF DRename, FilesInv, Intact
<1>2. CASE DMkShadow(OpenInodes)
  <2>1. 0 \in Seqs /\ Creat(0, OpenInodes)
    BY <1>2 DEF DMkShadow, TypeOK, DaemonTypeOK, Seqs
  <2>2. PICK i \in Inodes :
          /\ dir'  = [dir EXCEPT ![0] = i]
          /\ size' = [size EXCEPT ![i] = 0]
          /\ base' = [base EXCEPT ![i] = nlogged]
          /\ dir[0] = i \/ \A s \in Seqs : dir[s] # i
    BY <2>1, CreatFacts
  <2>3. \A k \in Seqs : k # 0 => dir'[k] = dir[k]
    BY <2>2 DEF TypeOK, SharedTypeOK
  <2>4. \A k \in Seqs : k # 0 /\ dir[k] # NoInode
                        => size'[dir[k]] = size[dir[k]] /\ base'[dir[k]] = base[dir[k]]
    BY <2>1, <2>2 DEF TypeOK, SharedTypeOK, DirInv
  <2>5. dir'[0] # NoInode /\ size'[dir'[0]] = 0 /\ base'[dir'[0]] = nlogged
    BY <2>1, <2>2 DEF TypeOK, SharedTypeOK
  <2>6. cur' = 0 /\ old' = 0 /\ st' = 0 /\ nlogged' = nlogged
    BY <1>2 DEF DMkShadow, SeqInv, Starting
  <2>7. nlogged \in Nat
    BY DEF TypeOK, SharedTypeOK
  <2> QED BY <2>5, <2>6, <2>7 DEF FilesInv
<1>3. CASE DMkCurrent
  BY <1>3 DEF DMkCurrent, FilesInv, Intact
<1>4. CASE DWrCurrent
  BY <1>4 DEF DWrCurrent, FilesInv, Intact
<1>5. CASE DRead
  BY <1>5 DEF DRead, FilesInv, Intact
<1>6. CASE DReadNothing
  BY <1>6 DEF DReadNothing, FilesInv, Intact
<1>7. CASE DNoRecords
  BY <1>7 DEF DNoRecords, FilesInv, Intact
<1>8. CASE DReactivate
  BY <1>8 DEF DReactivate, FilesInv, Intact
<1>9. CASE DTruncate
  BY <1>9 DEF DTruncate, FilesInv, Intact
<1>10. CASE DLock
  BY <1>10 DEF DLock, FilesInv, Intact
<1>11. CASE DCheck
  BY <1>11 DEF DCheck, FilesInv, Intact
<1>12. CASE DWrite
  <2>1. PICK res \in {0, Part} : Pass2Shadow(Part, res) /\ st' = st + res
    BY <1>12 DEF DWrite
  <2>2. Part \in Nat
    BY <1>12 DEF DWrite, TypeOK, DaemonTypeOK, Part, SizeInv
  <2>3. /\ cur' = cur /\ old' = old /\ UNCHANGED dir
        /\ cur \in Seqs /\ old \in Nat /\ old <= cur /\ HasFile
    BY <1>12, <2>1 DEF DWrite, Pass2Shadow, Append, fs, TypeOK, DaemonTypeOK, SeqInv, HasFile, Serving
  <2>4. CASE Append(cur, Part) /\ UNCHANGED cleanup /\ res = Part
    <3>1. \A k \in old .. cur - 1 :
            /\ k \in Seqs /\ dir[k] \in Inodes
            /\ size'[dir[k]] = size[dir[k]] /\ UNCHANGED base
      BY <2>3, <2>4 DEF Append, TypeOK, SharedTypeOK, DirInv, FilesInv, Seqs
    <3>2. size'[dir[cur]] = size[dir[cur]] + Part /\ nlogged' = nlogged + Part
      BY <2>3, <2>4 DEF Append, TypeOK, SharedTypeOK, FilesInv, Seqs
    <3>3. st \in Nat /\ size[dir[cur]] \in Nat /\ nlogged \in Nat /\ base[dir[cur]] \in Nat
      BY <2>3 DEF TypeOK, SharedTypeOK, DaemonTypeOK, FilesInv, Seqs
    <3>4. UNCHANGED base
      BY <2>4 DEF Append
    <3>5. /\ \A k \in old .. cur : dir[k] # NoInode
          /\ Intact =>
               /\ \A k \in old .. cur - 1 :
                    /\ size[dir[k]] = MaxShadowRec
                    /\ base[dir[k + 1]] = base[dir[k]] + size[dir[k]]
               /\ size[dir[cur]] = st /\ base[dir[cur]] + st = nlogged
      BY <2>3 DEF FilesInv
    <3>6. Intact' = Intact
      BY <2>4 DEF Intact
    <3>7. Intact => size'[dir[cur]] = st' /\ base'[dir[cur]] + st' = nlogged'
      BY <2>1, <2>2, <2>4, <3>2, <3>3, <3>4, <3>5
    <3> QED BY <2>3, <3>1, <3>4, <3>5, <3>6, <3>7 DEF FilesInv
  <2>5. CASE UNCHANGED <<fs, cleanup>> /\ res = 0
    BY <2>1, <2>3, <2>5 DEF FilesInv, Intact, fs, TypeOK, DaemonTypeOK
  <2>6. CASE MayFail /\ cleanup' = TRUE
    BY <2>3, <2>6 DEF FilesInv, Intact
  <2> QED BY <2>1, <2>4, <2>5, <2>6 DEF Pass2Shadow
<1>13. CASE DRotate(OpenInodes)
  <2>1. cur + 1 \in Seqs /\ Creat(cur + 1, OpenInodes)
    BY <1>13 DEF DRotate, TypeOK, DaemonTypeOK, Seqs
  <2>2. PICK i \in Inodes :
          /\ dir'  = [dir EXCEPT ![cur + 1] = i]
          /\ size' = [size EXCEPT ![i] = 0]
          /\ base' = [base EXCEPT ![i] = nlogged]
          /\ dir[cur + 1] = i \/ \A s \in Seqs : dir[s] # i
    BY <2>1, CreatFacts
  <2>3. \A k \in Seqs : k # cur + 1 => dir'[k] = dir[k]
    BY <2>2 DEF TypeOK, SharedTypeOK
  <2>4. \A k \in Seqs : k # cur + 1 /\ dir[k] # NoInode
                        => size'[dir[k]] = size[dir[k]] /\ base'[dir[k]] = base[dir[k]]
    BY <2>1, <2>2 DEF TypeOK, SharedTypeOK, DirInv
  <2>5. dir'[cur + 1] # NoInode /\ size'[dir'[cur + 1]] = 0 /\ base'[dir'[cur + 1]] = nlogged
    BY <2>1, <2>2 DEF TypeOK, SharedTypeOK
  <2>6. /\ cur' = cur + 1 /\ old' = old /\ st' = 0
        /\ cur \in Seqs /\ cur + 1 \in Seqs /\ old \in Nat /\ old <= cur
        /\ UNCHANGED <<nlogged, cleanup>>
        /\ HasFile /\ st = MaxShadowRec
    BY <1>13 DEF DRotate, TypeOK, DaemonTypeOK, SeqInv, SizeInv, HasFile, Serving, Seqs
  <2>7. \A k \in old .. cur : k \in Seqs /\ k # cur + 1 /\ dir'[k] = dir[k] /\ dir[k] # NoInode
    BY <2>3, <2>6 DEF FilesInv, Seqs
  <2>8. \A k \in old' .. cur' : dir'[k] # NoInode
    BY <2>5, <2>6, <2>7 DEF Seqs
  <2>9. ASSUME Intact
        PROVE  \A k \in old' .. cur' - 1 :
                 /\ size'[dir'[k]] = MaxShadowRec
                 /\ base'[dir'[k + 1]] = base'[dir'[k]] + size'[dir'[k]]
    <3> SUFFICES ASSUME NEW k \in old .. cur
                 PROVE  /\ size'[dir'[k]] = MaxShadowRec
                        /\ base'[dir'[k + 1]] = base'[dir'[k]] + size'[dir'[k]]
      BY <2>6 DEF Seqs
    <3>1. size'[dir'[k]] = size[dir[k]] /\ base'[dir'[k]] = base[dir[k]]
      BY <2>4, <2>7
    <3>2. CASE k = cur
      BY <2>5, <2>6, <2>9, <3>1, <3>2 DEF FilesInv
    <3>3. CASE k # cur
      <4>1. k \in old .. cur - 1 /\ k + 1 \in old .. cur
        BY <2>6, <3>3 DEF Seqs
      <4>2. base'[dir'[k + 1]] = base[dir[k + 1]]
        BY <2>4, <2>7, <4>1
      <4> QED BY <2>6, <2>9, <3>1, <4>1, <4>2 DEF FilesInv
    <3> QED BY <3>2, <3>3
  <2>10. size'[dir'[cur']] = st' /\ base'[dir'[cur']] + st' = nlogged'
    BY <2>5, <2>6 DEF TypeOK, SharedTypeOK
  <2> QED BY <2>6, <2>8, <2>9, <2>10 DEF FilesInv, Intact
<1>14. CASE DWipe
  BY <1>14 DEF DWipe, FilesInv, Intact
<1>15. CASE DSetCurrent
  BY <1>15 DEF DSetCurrent, FilesInv, Intact
<1>16. CASE DRest
  <2>1. PICK res \in {0, buf} : Pass2Shadow(buf, res) /\ st' = st + res
    BY <1>16 DEF DRest
  <2>2. buf \in Nat
    BY <1>16 DEF DRest, TypeOK, DaemonTypeOK
  <2>3. /\ cur' = cur /\ old' = old /\ UNCHANGED dir
        /\ cur \in Seqs /\ old \in Nat /\ old <= cur /\ HasFile
    BY <1>16, <2>1 DEF DRest, Pass2Shadow, Append, fs, TypeOK, DaemonTypeOK, SeqInv, HasFile, Serving
  <2>4. CASE Append(cur, buf) /\ UNCHANGED cleanup /\ res = buf
    <3>1. \A k \in old .. cur - 1 :
            /\ k \in Seqs /\ dir[k] \in Inodes
            /\ size'[dir[k]] = size[dir[k]] /\ UNCHANGED base
      BY <2>3, <2>4 DEF Append, TypeOK, SharedTypeOK, DirInv, FilesInv, Seqs
    <3>2. size'[dir[cur]] = size[dir[cur]] + buf /\ nlogged' = nlogged + buf
      BY <2>3, <2>4 DEF Append, TypeOK, SharedTypeOK, FilesInv, Seqs
    <3>3. st \in Nat /\ size[dir[cur]] \in Nat /\ nlogged \in Nat /\ base[dir[cur]] \in Nat
      BY <2>3 DEF TypeOK, SharedTypeOK, DaemonTypeOK, FilesInv, Seqs
    <3>4. UNCHANGED base
      BY <2>4 DEF Append
    <3>5. /\ \A k \in old .. cur : dir[k] # NoInode
          /\ Intact =>
               /\ \A k \in old .. cur - 1 :
                    /\ size[dir[k]] = MaxShadowRec
                    /\ base[dir[k + 1]] = base[dir[k]] + size[dir[k]]
               /\ size[dir[cur]] = st /\ base[dir[cur]] + st = nlogged
      BY <2>3 DEF FilesInv
    <3>6. Intact' = Intact
      BY <2>4 DEF Intact
    <3>7. Intact => size'[dir[cur]] = st' /\ base'[dir[cur]] + st' = nlogged'
      BY <2>1, <2>2, <2>4, <3>2, <3>3, <3>4, <3>5
    <3> QED BY <2>3, <3>1, <3>4, <3>5, <3>6, <3>7 DEF FilesInv
  <2>5. CASE UNCHANGED <<fs, cleanup>> /\ res = 0
    BY <2>1, <2>3, <2>5 DEF FilesInv, Intact, fs, TypeOK, DaemonTypeOK
  <2>6. CASE MayFail /\ cleanup' = TRUE
    BY <2>3, <2>6 DEF FilesInv, Intact
  <2> QED BY <2>1, <2>4, <2>5, <2>6 DEF Pass2Shadow
<1>17. CASE DLoop
  BY <1>17 DEF DLoop, FilesInv, Intact
<1>18. CASE DGcTry(LockedInodes)
  BY <1>18 DEF DGcTry, FilesInv, Intact
<1>19. CASE DGcClose
  BY <1>19 DEF DGcClose, FilesInv, Intact
<1>20. CASE DGcUnlink
  <2>1. /\ dir' = [dir EXCEPT ![old] = NoInode] /\ old' = old + 1
        /\ UNCHANGED <<size, base, nlogged, cur, st, cleanup>>
        /\ HasFile
    BY <1>20 DEF DGcUnlink, Unlink, HasFile, Serving
  <2>2. cur \in Seqs /\ old \in Nat /\ (resetting \/ old < cur) /\ old <= cur
    BY <1>20 DEF DGcUnlink, TypeOK, DaemonTypeOK, SeqInv, Serving, GcLimit, Seqs
  <2>3. \A k \in old + 1 .. cur : k \in Seqs /\ k \in old .. cur /\ dir'[k] = dir[k]
    BY <2>1, <2>2 DEF TypeOK, SharedTypeOK, Seqs
  <2>4. \A k \in old + 1 .. cur - 1 : k \in old .. cur - 1 /\ k + 1 \in old + 1 .. cur
                                     /\ k \in old + 1 .. cur
    BY <2>2 DEF Seqs
  <2>5. old' <= cur => cur \in old + 1 .. cur
    BY <2>1, <2>2 DEF Seqs
  <2> QED BY <2>1, <2>2, <2>3, <2>4, <2>5 DEF FilesInv, Intact
<1>21. CASE DZero(OpenInodes)
  <2>1. 0 \in Seqs /\ Creat(0, OpenInodes)
    BY <1>21 DEF DZero, TypeOK, DaemonTypeOK, Seqs
  <2>2. PICK i \in Inodes :
          /\ dir'  = [dir EXCEPT ![0] = i]
          /\ size' = [size EXCEPT ![i] = 0]
          /\ base' = [base EXCEPT ![i] = nlogged]
          /\ dir[0] = i \/ \A s \in Seqs : dir[s] # i
    BY <2>1, CreatFacts
  <2>3. \A k \in Seqs : k # 0 => dir'[k] = dir[k]
    BY <2>2 DEF TypeOK, SharedTypeOK
  <2>4. \A k \in Seqs : k # 0 /\ dir[k] # NoInode
                        => size'[dir[k]] = size[dir[k]] /\ base'[dir[k]] = base[dir[k]]
    BY <2>1, <2>2 DEF TypeOK, SharedTypeOK, DirInv
  <2>5. dir'[0] # NoInode /\ size'[dir'[0]] = 0 /\ base'[dir'[0]] = nlogged
    BY <2>1, <2>2 DEF TypeOK, SharedTypeOK
  <2>6. cur' = 0 /\ old' = 0 /\ st' = 0 /\ nlogged' = nlogged
    BY <1>21 DEF DZero
  <2>7. nlogged \in Nat
    BY DEF TypeOK, SharedTypeOK
  <2> QED BY <2>5, <2>6, <2>7 DEF FilesInv
<1>22. CASE DStop
  BY <1>22 DEF DStop, FilesInv, Intact
<1>23. CASE DRmShadow
  BY <1>23 DEF DRmShadow, FilesInv, Intact
<1>24. CASE DRmCurrent
  BY <1>24 DEF DRmCurrent, FilesInv, Intact
<1> QED
  BY <1>1, <1>2, <1>3, <1>4, <1>5, <1>6, <1>7, <1>8, <1>9, <1>10, <1>11, <1>12, <1>13, <1>14, <1>15, <1>16, <1>17, <1>18, <1>19, <1>20, <1>21, <1>22, <1>23, <1>24 DEF DStep

LEMMA Files == IInv /\ Next => FilesInv'
<1> SUFFICES ASSUME IInv, Next PROVE FilesInv'
  OBVIOUS
<1> USE DEF IInv, HasFile, Starting, Serving, Stopping, fs, ipc, kernel, dvars
<1>1. CASE Daemon
  BY <1>1, DaemonFiles
<1>2. CASE KernelExit
  BY <1>2 DEF KernelExit, Exit, FilesInv, Intact
<1>3. CASE DaemonStart
  BY <1>3 DEF DaemonStart, DStart, FilesInv
<1>4. CASE DaemonSigTerm
  BY <1>4 DEF DaemonSigTerm, DSigTerm, FilesInv, Intact
<1>5. CASE DaemonKill
  BY <1>5 DEF DaemonKill, DKill, FilesInv
<1>6. ASSUME NEW c \in Clients, Client(c) \/ ClientStart(c) \/ ClientEnd(c)
      PROVE  FilesInv'
  BY <1>6, ClientFrame DEF FilesInv, Intact
<1> QED BY <1>1, <1>2, <1>3, <1>4, <1>5, <1>6 DEF Next

(***************************************************************************)
(* The lock and the registrations.                                         *)
(***************************************************************************)
LEMMA DaemonSemaphores == IInv /\ Daemon => LockInv'
<1> SUFFICES ASSUME TypeOK, SeqInv, LockInv, DStep(LockedInodes, OpenInodes)
             PROVE  LockInv'
  BY DEF IInv, Daemon
<1> USE DEF TypeOK, SharedTypeOK, DaemonTypeOK, LockInv, NoUsers, Starting, Serving, Stopping, fs, ipc, kernel, dvars
<1>1. CASE DRename
  BY <1>1 DEF DRename
<1>2. CASE DMkShadow(OpenInodes)
  BY <1>2 DEF DMkShadow
<1>3. CASE DMkCurrent
  BY <1>3 DEF DMkCurrent
<1>4. CASE DWrCurrent
  BY <1>4 DEF DWrCurrent
<1>5. CASE DRead
  BY <1>5 DEF DRead
<1>6. CASE DReadNothing
  BY <1>6 DEF DReadNothing
<1>7. CASE DNoRecords
  BY <1>7 DEF DNoRecords
<1>8. CASE DReactivate
  BY <1>8 DEF DReactivate
<1>9. CASE DTruncate
  BY <1>9 DEF DTruncate
<1>10. CASE DLock
  BY <1>10 DEF DLock
<1>11. CASE DCheck
  BY <1>11 DEF DCheck, SemUnlock, SeqInv
<1>12. CASE DWrite
  BY <1>12 DEF DWrite
<1>13. CASE DRotate(OpenInodes)
  BY <1>13 DEF DRotate
<1>14. CASE DWipe
  BY <1>14 DEF DWipe
<1>15. CASE DSetCurrent
  BY <1>15 DEF DSetCurrent, SemUnlock
<1>16. CASE DRest
  BY <1>16 DEF DRest
<1>17. CASE DLoop
  BY <1>17 DEF DLoop, SeqInv
<1>18. CASE DGcTry(LockedInodes)
  BY <1>18 DEF DGcTry, SeqInv
<1>19. CASE DGcClose
  BY <1>19 DEF DGcClose
<1>20. CASE DGcUnlink
  BY <1>20 DEF DGcUnlink
<1>21. CASE DZero(OpenInodes)
  BY <1>21 DEF DZero
<1>22. CASE DStop
  BY <1>22 DEF DStop
<1>23. CASE DRmShadow
  BY <1>23 DEF DRmShadow
<1>24. CASE DRmCurrent
  BY <1>24 DEF DRmCurrent
<1> QED
  BY <1>1, <1>2, <1>3, <1>4, <1>5, <1>6, <1>7, <1>8, <1>9, <1>10, <1>11, <1>12, <1>13, <1>14, <1>15, <1>16, <1>17, <1>18, <1>19, <1>20, <1>21, <1>22, <1>23, <1>24 DEF DStep

LEMMA Semaphores == IInv /\ Next => LockInv'
<1> SUFFICES ASSUME IInv, Next PROVE LockInv'
  OBVIOUS
<1> USE DEF IInv, TypeOK, SharedTypeOK, DaemonTypeOK, LockInv, NoUsers, Starting, Serving, Stopping, fs, ipc, kernel, dvars
<1>1. CASE Daemon
  BY <1>1, DaemonSemaphores
<1>2. CASE KernelExit
  BY <1>2 DEF KernelExit, Exit
<1>3. CASE DaemonStart
  BY <1>3 DEF DaemonStart, DStart
<1>4. CASE DaemonSigTerm
  BY <1>4 DEF DaemonSigTerm, DSigTerm
<1>5. CASE DaemonKill
  BY <1>5 DEF DaemonKill, DKill, SemUnlock
<1>6. ASSUME NEW c \in Clients, Client(c) \/ ClientStart(c) \/ ClientEnd(c)
      PROVE  LockInv'
  <2>1. UNCHANGED dvars
    BY <1>6, ClientFrame
  <2>2. \A d \in Clients : users'[d] # users[d] => d = c
    BY <1>6, ClientSemaphores DEF SemRelease
  <2>3. \A d \in Clients : lock' = d => users'[d] > 0
    BY <1>6, ClientSemaphores DEF SemRelease, SemUnlock
  <2>4. lock = "daemon" => lock' = "daemon"
    BY <1>6, ClientSemaphores DEF SemUnlock
  <2>5. lock = "daemon" /\ NoUsers => NoUsers'
    BY <1>6, ClientSemaphores DEF SemRelease
  <2> QED BY <2>1, <2>3, <2>4, <2>5
<1> QED BY <1>1, <1>2, <1>3, <1>4, <1>5, <1>6 DEF Next

(***************************************************************************)
(* The files a client has open.                                            *)
(***************************************************************************)
LEMMA ClientFds ==
  ASSUME IInv, NEW c \in Clients, Client(c) \/ ClientStart(c) \/ ClientEnd(c)
  PROVE  FdInv'
<1> SUFFICES ASSUME TypeOK, FdInv PROVE FdInv'
  BY DEF IInv
<1> USE DEF TypeOK, SharedTypeOK, ClientTypeOK, ControlTypeOK, FilesTypeOK, FlagsTypeOK, FdInv, Unregistered, WithFile, Goto, files, counts, offsets
<1>1. CASE CLock(c)
  BY <1>1 DEF CLock, Failed
<1>2. CASE CReadCurrent(c)
  <2>1. current >= 0 => current \in Seqs
    BY DEF SharedTypeOK, NoCurrent, EmptyCurrent
  <2> QED BY <1>2, <2>1 DEF CReadCurrent, Failed
<1>3. CASE COpen(c)
  BY <1>3 DEF COpen, Seqs
<1>4. CASE CVers(c)
  BY <1>4 DEF CVers, Close
<1>5. CASE CRdLock(c, WLocked)
  BY <1>5 DEF CRdLock, Close, Failed
<1>6. CASE CUnlock(c)
  BY <1>6 DEF CUnlock
<1>7. CASE CSample(c)
  BY <1>7 DEF CSample
<1>8. CASE CStat(c)
  BY <1>8 DEF CStat, Close, CountInFile, Counted
<1>9. CASE CRestat(c)
  BY <1>9 DEF CRestat, CountInFile, Counted
<1>10. CASE CCount(c)
  BY <1>10 DEF CCount, Counted
<1>11. CASE CStatNew(c)
  BY <1>11 DEF CStatNew, Counted
<1>12. CASE CPhoto(c)
  BY <1>12 DEF CPhoto
<1>13. CASE CReadEnd(c)
  BY <1>13 DEF CReadEnd
<1>14. CASE CReadSwitch(c)
  BY <1>14 DEF CReadSwitch
<1>15. CASE CReadRecord(c)
  BY <1>15 DEF CReadRecord
<1>16. CASE CSwitchOpen(c)
  BY <1>16 DEF CSwitchOpen, NextSeq
<1>17. CASE CSwitchLock(c, WLocked)
  BY <1>17 DEF CSwitchLock, Switched
<1>18. CASE CRepos(c)
  BY <1>18 DEF CRepos
<1>19. CASE CSeek(c)
  BY <1>19 DEF CSeek
<1>20. CASE CExit(c)
  BY <1>20 DEF CExit
<1>21. CASE CFilesClosed(c)
  BY <1>21 DEF CFilesClosed, Close
<1>22. CASE CStart(c)
  BY <1>22 DEF CStart
<1>23. CASE CQuit(c)
  BY <1>23 DEF CQuit, Close
<1>24. CASE CKill(c)
  BY <1>24 DEF CKill
<1> QED
  BY <1>1, <1>2, <1>3, <1>4, <1>5, <1>6, <1>7, <1>8, <1>9, <1>10, <1>11, <1>12, <1>13, <1>14, <1>15, <1>16, <1>17, <1>18, <1>19, <1>20, <1>21, <1>22, <1>23, <1>24 DEF Client, ClientStart, ClientEnd, CStep

LEMMA OpenFiles == IInv /\ Next => FdInv'
<1> SUFFICES ASSUME IInv, Next PROVE FdInv'
  OBVIOUS
<1>1. CASE Daemon \/ KernelExit \/ DaemonStart \/ DaemonSigTerm \/ DaemonKill
  BY <1>1, DaemonFrame DEF IInv, FdInv, cvars, files
<1>2. ASSUME NEW c \in Clients, Client(c) \/ ClientStart(c) \/ ClientEnd(c)
      PROVE  FdInv'
  BY <1>2, ClientFds
<1> QED BY <1>1, <1>2 DEF Next

(***************************************************************************)
(* What the others can do with the paths of the shadow files: a path gets  *)
(* an inode that no client has open, or it is removed.                     *)
(***************************************************************************)
LEMMA PathSteps ==
  ASSUME IInv, Daemon \/ KernelExit \/ DaemonStart \/ DaemonSigTerm \/ DaemonKill, NEW s \in Seqs
  PROVE  \/ dir'[s] = dir[s]
         \/ /\ dir'[s] = NoInode
            /\ \/ dpc \in {"unlink", "rmshadow"} /\ s = old
               \/ dpc = "rename" /\ \A t \in Seqs : dir'[t] = NoInode
         \/ dir[s] = NoInode /\ \A c \in Clients : fd[c] # dir'[s] /\ tmpfd[c] # dir'[s]
<1> USE DEF IInv, TypeOK, SharedTypeOK, fs, Serving
<1>1. CASE UNCHANGED dir
  BY <1>1
<1>2. CASE dpc \in {"unlink", "rmshadow"} /\ dir' = [dir EXCEPT ![old] = NoInode]
  BY <1>2
<1>3. CASE dpc = "rename" /\ dir' = [t \in Seqs |-> NoInode]
  BY <1>3
<1>4. ASSUME NEW n \in Seqs, Creat(n, OpenInodes)
      PROVE  \/ dir'[s] = dir[s]
             \/ dir[s] = NoInode /\ \A c \in Clients : fd[c] # dir'[s] /\ tmpfd[c] # dir'[s]
  BY <1>4, CreatFacts
<1>5. CASE Daemon
  <2>1. \/ UNCHANGED dir
        \/ dpc = "rename" /\ dir' = [t \in Seqs |-> NoInode]
        \/ dpc \in {"unlink", "rmshadow"} /\ dir' = [dir EXCEPT ![old] = NoInode]
        \/ Creat(0, OpenInodes)
        \/ cur < MaxSeq /\ Creat(cur + 1, OpenInodes)
    BY <1>5 DEF Daemon, DStep, DRename, DMkShadow, DMkCurrent, DWrCurrent, DRead,
       DReadNothing, DNoRecords, DReactivate, DTruncate, DLock, DCheck, DWrite, Pass2Shadow,
       Append, DRotate, DWipe, DSetCurrent, DRest, DLoop, DGcTry, DGcClose, DGcUnlink, Unlink,
       DZero, DStop, DRmShadow, DRmCurrent
  <2>2. 0 \in Seqs /\ (cur < MaxSeq => cur + 1 \in Seqs)
    BY DEF DaemonTypeOK, Seqs
  <2> QED BY <1>1, <1>2, <1>3, <1>4, <2>1, <2>2
<1>6. CASE KernelExit \/ DaemonStart \/ DaemonSigTerm \/ DaemonKill
  BY <1>6 DEF KernelExit, DaemonStart, DStart, DaemonSigTerm, DSigTerm, DaemonKill, DKill
<1> QED BY <1>5, <1>6

(***************************************************************************)
(* curshadowseq and the number of the file that is open.                   *)
(***************************************************************************)
LEMMA ClientSeqs ==
  ASSUME IInv, NEW c \in Clients, Client(c) \/ ClientStart(c) \/ ClientEnd(c)
  PROVE  ClientSeqInv'
<1> SUFFICES ASSUME TypeOK, DirInv, FdInv, ClientSeqInv, UNCHANGED dir PROVE ClientSeqInv'
  BY ClientFrame DEF IInv, fs
<1> USE DEF TypeOK, SharedTypeOK, ClientTypeOK, ControlTypeOK, FilesTypeOK, FdInv, Unregistered, WithFile, ClientSeqInv, Goto, files, counts, offsets, Seqs
<1>1. CASE CLock(c)
  BY <1>1 DEF CLock, Failed
<1>2. CASE CReadCurrent(c)
  BY <1>2, ZenonT(60) DEF CReadCurrent, NoCurrent, EmptyCurrent, Failed
<1>3. CASE COpen(c)
  BY <1>3, SMTT(30) DEF COpen, DirInv
<1>4. CASE CVers(c)
  BY <1>4, SMTT(30) DEF CVers, Close
<1>5. CASE CRdLock(c, WLocked)
  BY <1>5, SMTT(30) DEF CRdLock, Close, Failed
<1>6. CASE CUnlock(c)
  BY <1>6, SMTT(30) DEF CUnlock
<1>7. CASE CSample(c)
  BY <1>7, SMTT(30) DEF CSample
<1>8. CASE CStat(c)
  BY <1>8, ZenonT(60) DEF CStat, Close, CountInFile, Counted
<1>9. CASE CRestat(c)
  BY <1>9, SMTT(30) DEF CRestat, CountInFile, Counted
<1>10. CASE CCount(c)
  BY <1>10, SMTT(30) DEF CCount, Counted
<1>11. CASE CStatNew(c)
  BY <1>11 DEF CStatNew, Counted
<1>12. CASE CPhoto(c)
  BY <1>12 DEF CPhoto
<1>13. CASE CReadEnd(c)
  BY <1>13 DEF CReadEnd
<1>14. CASE CReadSwitch(c)
  BY <1>14 DEF CReadSwitch
<1>15. CASE CReadRecord(c)
  BY <1>15 DEF CReadRecord
<1>16. CASE CSwitchOpen(c)
  BY <1>16 DEF CSwitchOpen, NextSeq, DirInv
<1>17. CASE CSwitchLock(c, WLocked)
  <2>1. /\ cpc[c] = "swlock" /\ cpc'[c] # "swlock" /\ UNCHANGED seq
        /\ fd'[c] \in {fd[c], tmpfd[c]} /\ tmpfd'[c] = NoInode
    BY <1>17 DEF CSwitchLock, Switched
  <2>2. \A b \in Clients \ {c} : cpc'[b] = cpc[b] /\ fd'[b] = fd[b] /\ tmpfd'[b] = tmpfd[b]
    BY <1>17 DEF CSwitchLock, Switched
  <2>3. fd'[c] = fd[c] \/ (tmpfd[c] # NoInode /\ fd'[c] = tmpfd[c])
    BY <1>17 DEF CSwitchLock
  <2>4. SUFFICES ASSUME NEW b \in Clients, NEW s \in 0 .. MaxSeq
                 PROVE  /\ fd'[b] # NoInode /\ dir[s] = fd'[b]
                             => s <= seq[b] /\ (cpc'[b] = "swlock" => s < seq[b])
                        /\ tmpfd'[b] # NoInode /\ dir[s] = tmpfd'[b] /\ cpc'[b] = "swlock"
                             => s = seq[b]
    BY <2>1
  <2>5. CASE b # c
    BY <2>2, <2>5, SMTT(30)
  <2>6. CASE b = c
    <3>1. seq[c] \in Int /\ s \in Int
      OBVIOUS
    <3> HIDE DEF TypeOK, SharedTypeOK, ClientTypeOK, ControlTypeOK, FilesTypeOK, FdInv
    <3> QED BY <2>1, <2>3, <2>6, <3>1
  <2> QED BY <2>5, <2>6
<1>18. CASE CRepos(c)
  BY <1>18 DEF CRepos
<1>19. CASE CSeek(c)
  BY <1>19 DEF CSeek
<1>20. CASE CExit(c)
  BY <1>20 DEF CExit
<1>21. CASE CFilesClosed(c)
  BY <1>21 DEF CFilesClosed, Close
<1>22. CASE CStart(c)
  BY <1>22 DEF CStart
<1>23. CASE CQuit(c)
  BY <1>23 DEF CQuit, Close
<1>24. CASE CKill(c)
  BY <1>24 DEF CKill
<1> QED
  BY <1>1, <1>2, <1>3, <1>4, <1>5, <1>6, <1>7, <1>8, <1>9, <1>10, <1>11, <1>12, <1>13, <1>14, <1>15, <1>16, <1>17, <1>18, <1>19, <1>20, <1>21, <1>22, <1>23, <1>24 DEF Client, ClientStart, ClientEnd, CStep

LEMMA Sequences == IInv /\ Next => ClientSeqInv'
<1> SUFFICES ASSUME IInv, Next PROVE ClientSeqInv'
  OBVIOUS
<1>1. CASE Daemon \/ KernelExit \/ DaemonStart \/ DaemonSigTerm \/ DaemonKill
  <2>1. UNCHANGED <<fd, tmpfd, seq, cpc>>
    BY <1>1, DaemonFrame DEF cvars, files
  <2>2. \A s \in Seqs : dir'[s] = dir[s] \/ dir'[s] = NoInode
                       \/ \A c \in Clients : fd[c] # dir'[s] /\ tmpfd[c] # dir'[s]
    BY <1>1, PathSteps
  <2> QED BY <2>1, <2>2 DEF IInv, ClientSeqInv
<1>2. ASSUME NEW c \in Clients, Client(c) \/ ClientStart(c) \/ ClientEnd(c)
      PROVE  ClientSeqInv'
  BY <1>2, ClientSeqs
<1> QED BY <1>1, <1>2 DEF Next

(***************************************************************************)
(* What the daemon does with the oldest file: it goes on to the next one   *)
(* after an unlink(), it tries the lock first, and it starts over only     *)
(* when nobody is registered.                                              *)
(***************************************************************************)
LEMMA OldestSteps ==
  ASSUME IInv, Daemon \/ KernelExit \/ DaemonStart \/ DaemonSigTerm \/ DaemonKill, Up'
  PROVE  \/ NoUsers'
         \/ dpc = "unlink" /\ dpc' = "gc" /\ old' = old + 1 /\ UNCHANGED users
         \/ /\ Up
            /\ UNCHANGED <<old, users>>
            /\ dpc \in {"held", "unlink"} => dpc' \in {"held", "unlink"}
            /\ dpc' \in {"held", "unlink"} =>
                 dpc \in {"held", "unlink"} \/ dir[old] \notin LockedInodes
<1> USE DEF Up, Starting, Serving, Stopping, fs, ipc, kernel, dvars
<1>1. CASE DRename
  BY <1>1 DEF DRename
<1>2. CASE DMkShadow(OpenInodes)
  BY <1>2 DEF DMkShadow
<1>3. CASE DMkCurrent
  BY <1>3 DEF DMkCurrent
<1>4. CASE DWrCurrent
  BY <1>4 DEF DWrCurrent
<1>5. CASE DRead
  BY <1>5 DEF DRead
<1>6. CASE DReadNothing
  BY <1>6 DEF DReadNothing
<1>7. CASE DNoRecords
  BY <1>7 DEF DNoRecords
<1>8. CASE DReactivate
  BY <1>8 DEF DReactivate
<1>9. CASE DTruncate
  BY <1>9 DEF DTruncate
<1>10. CASE DLock
  BY <1>10 DEF DLock
<1>11. CASE DCheck
  BY <1>11 DEF DCheck
<1>12. CASE DWrite
  BY <1>12 DEF DWrite
<1>13. CASE DRotate(OpenInodes)
  BY <1>13 DEF DRotate
<1>14. CASE DWipe
  BY <1>14 DEF DWipe
<1>15. CASE DSetCurrent
  BY <1>15 DEF DSetCurrent
<1>16. CASE DRest
  BY <1>16 DEF DRest
<1>17. CASE DLoop
  BY <1>17 DEF DLoop
<1>18. CASE DGcTry(LockedInodes)
  BY <1>18 DEF DGcTry
<1>19. CASE DGcClose
  BY <1>19 DEF DGcClose
<1>20. CASE DGcUnlink
  BY <1>20 DEF DGcUnlink
<1>21. CASE DZero(OpenInodes)
  BY <1>21 DEF DZero, IInv, SeqInv, LockInv, NoUsers
<1>22. CASE DStop
  BY <1>22 DEF DStop
<1>23. CASE DRmShadow
  BY <1>23 DEF DRmShadow
<1>24. CASE DRmCurrent
  BY <1>24 DEF DRmCurrent
<1>25. CASE KernelExit
  BY <1>25 DEF KernelExit, Exit
<1>26. CASE DaemonStart
  BY <1>26 DEF DaemonStart, DStart, NoUsers
<1>27. CASE DaemonSigTerm
  BY <1>27 DEF DaemonSigTerm, DSigTerm
<1>28. CASE DaemonKill
  BY <1>28 DEF DaemonKill, DKill
<1> QED
  BY <1>1, <1>2, <1>3, <1>4, <1>5, <1>6, <1>7, <1>8, <1>9, <1>10, <1>11, <1>12, <1>13, <1>14, <1>15, <1>16, <1>17, <1>18, <1>19, <1>20, <1>21, <1>22, <1>23, <1>24, <1>25, <1>26, <1>27, <1>28 DEF Daemon, DStep

\* What protects a file after a step of the daemon protected it before.
LEMMA ProtectedBefore ==
  ASSUME IInv, Daemon \/ KernelExit \/ DaemonStart \/ DaemonSigTerm \/ DaemonKill, Up',
         NEW c \in Clients, NEW s \in Seqs, ProtectedAt(c, s)'
  PROVE  Up /\ ProtectedAt(c, s) /\ s >= old'
<1>1. rdlock[c] /\ fd[c] # NoInode /\ dir'[s] = fd[c] /\ users'[c] > 0 /\ s >= old' /\ ~Condemned(s)'
  BY DaemonFrame DEF ProtectedAt, cvars, files, IInv, FdInv
<1>2. dir[s] = fd[c]
  BY <1>1, PathSteps
<1>3. old \in Int /\ s \in Int
  BY DEF IInv, TypeOK, DaemonTypeOK, Seqs
<1>4. ~NoUsers'
  BY <1>1 DEF NoUsers
<1>5. Up
  BY <1>4, OldestSteps DEF Up, Serving
<1>6. users[c] > 0
  BY <1>1, <1>4, OldestSteps
<1>7. s >= old /\ ~Condemned(s)
  BY <1>1, <1>3, <1>4, OldestSteps DEF Condemned
<1> QED BY <1>1, <1>2, <1>5, <1>6, <1>7 DEF ProtectedAt

(***************************************************************************)
(* The next file of a client stays while the previous one is locked.       *)
(***************************************************************************)
\* A step of a client is about this client.
LEMMA ClientLocal ==
  ASSUME IInv, NEW c \in Clients, Client(c) \/ ClientStart(c) \/ ClientEnd(c),
         NEW d \in Clients, d # c
  PROVE  /\ cpc'[d] = cpc[d] /\ seq'[d] = seq[d] /\ fd'[d] = fd[d]
         /\ rdlock'[d] = rdlock[d] /\ tmpfd'[d] = tmpfd[d] /\ users'[d] = users[d]
<1> USE DEF IInv, TypeOK, SharedTypeOK, ClientTypeOK, ControlTypeOK, FilesTypeOK, FlagsTypeOK
<1>1. users'[d] = users[d]
  BY ClientSemaphores DEF SemRelease
<1> SUFFICES /\ cpc'[d] = cpc[d] /\ seq'[d] = seq[d] /\ fd'[d] = fd[d]
             /\ rdlock'[d] = rdlock[d] /\ tmpfd'[d] = tmpfd[d]
  BY <1>1
<1> USE DEF Goto, files, counts
<1>2. CASE CLock(c)
  BY <1>2 DEF CLock
<1>3. CASE CReadCurrent(c)
  BY <1>3 DEF CReadCurrent
<1>4. CASE COpen(c)
  BY <1>4 DEF COpen
<1>5. CASE CVers(c)
  BY <1>5 DEF CVers, Close
<1>6. CASE CRdLock(c, WLocked)
  BY <1>6 DEF CRdLock, Close
<1>7. CASE CUnlock(c)
  BY <1>7 DEF CUnlock
<1>8. CASE CSample(c)
  BY <1>8 DEF CSample
<1>9. CASE CStat(c)
  BY <1>9 DEF CStat, Close, CountInFile, Counted
<1>10. CASE CRestat(c)
  BY <1>10 DEF CRestat, CountInFile, Counted
<1>11. CASE CCount(c)
  BY <1>11 DEF CCount, Counted
<1>12. CASE CStatNew(c)
  BY <1>12 DEF CStatNew, Counted
<1>13. CASE CPhoto(c)
  BY <1>13 DEF CPhoto
<1>14. CASE CReadEnd(c)
  BY <1>14 DEF CReadEnd
<1>15. CASE CReadSwitch(c)
  BY <1>15 DEF CReadSwitch
<1>16. CASE CReadRecord(c)
  BY <1>16 DEF CReadRecord
<1>17. CASE CSwitchOpen(c)
  BY <1>17 DEF CSwitchOpen
<1>18. CASE CSwitchLock(c, WLocked)
  BY <1>18 DEF CSwitchLock, Switched
<1>19. CASE CRepos(c)
  BY <1>19 DEF CRepos
<1>20. CASE CSeek(c)
  BY <1>20 DEF CSeek
<1>21. CASE CExit(c)
  BY <1>21 DEF CExit
<1>22. CASE CFilesClosed(c)
  BY <1>22 DEF CFilesClosed, Close
<1>23. CASE CStart(c)
  BY <1>23 DEF CStart
<1>24. CASE CQuit(c)
  BY <1>24 DEF CQuit, Close
<1>25. CASE CKill(c)
  BY <1>25 DEF CKill
<1> QED
  BY <1>2, <1>3, <1>4, <1>5, <1>6, <1>7, <1>8, <1>9, <1>10, <1>11, <1>12, <1>13, <1>14, <1>15, <1>16, <1>17, <1>18, <1>19, <1>20, <1>21, <1>22, <1>23, <1>24, <1>25 DEF Client, ClientStart, ClientEnd, CStep

\* Only CSwitchOpen leaves a client between open() and the lock of switchshadow().
LEMMA OwnNextFile ==
  ASSUME IInv, NEW c \in Clients, Client(c) \/ ClientStart(c) \/ ClientEnd(c),
         cpc'[c] = "swlock", tmpfd'[c] # NoInode
  PROVE  seq'[c] \in Seqs /\ dir[seq'[c]] = tmpfd'[c]
<1> USE DEF IInv, TypeOK, ClientTypeOK, ControlTypeOK, FilesTypeOK, Goto, files, counts
<1>1. CASE CLock(c)
  BY <1>1 DEF CLock, Failed
<1>2. CASE CReadCurrent(c)
  BY <1>2 DEF CReadCurrent, Failed
<1>3. CASE COpen(c)
  BY <1>3 DEF COpen
<1>4. CASE CVers(c)
  BY <1>4 DEF CVers, Close
<1>5. CASE CRdLock(c, WLocked)
  BY <1>5 DEF CRdLock, Close, Failed
<1>6. CASE CUnlock(c)
  BY <1>6 DEF CUnlock
<1>7. CASE CSample(c)
  BY <1>7 DEF CSample
<1>8. CASE CStat(c)
  BY <1>8 DEF CStat, Close, CountInFile, Counted
<1>9. CASE CRestat(c)
  BY <1>9 DEF CRestat, CountInFile, Counted
<1>10. CASE CCount(c)
  BY <1>10 DEF CCount, Counted
<1>11. CASE CStatNew(c)
  BY <1>11 DEF CStatNew, Counted
<1>12. CASE CPhoto(c)
  BY <1>12 DEF CPhoto
<1>13. CASE CReadEnd(c)
  BY <1>13 DEF CReadEnd
<1>14. CASE CReadSwitch(c)
  BY <1>14 DEF CReadSwitch
<1>15. CASE CReadRecord(c)
  BY <1>15 DEF CReadRecord
<1>16. CASE CSwitchOpen(c)
  BY <1>16 DEF CSwitchOpen, NextSeq
<1>17. CASE CSwitchLock(c, WLocked)
  BY <1>17 DEF CSwitchLock, Switched
<1>18. CASE CRepos(c)
  BY <1>18 DEF CRepos
<1>19. CASE CSeek(c)
  BY <1>19 DEF CSeek
<1>20. CASE CExit(c)
  BY <1>20 DEF CExit
<1>21. CASE CFilesClosed(c)
  BY <1>21 DEF CFilesClosed, Close
<1>22. CASE CStart(c)
  BY <1>22 DEF CStart
<1>23. CASE CQuit(c)
  BY <1>23 DEF CQuit, Close
<1>24. CASE CKill(c)
  BY <1>24 DEF CKill
<1> QED
  BY <1>1, <1>2, <1>3, <1>4, <1>5, <1>6, <1>7, <1>8, <1>9, <1>10, <1>11, <1>12, <1>13, <1>14, <1>15, <1>16, <1>17, <1>18, <1>19, <1>20, <1>21, <1>22, <1>23, <1>24 DEF Client, ClientStart, ClientEnd, CStep

LEMMA NextFiles == IInv /\ Next => NextFileInv'
<1> SUFFICES ASSUME IInv, Next,
                    NEW d \in Clients, NEW s \in Seqs,
                    Up', ProtectedAt(d, s)', cpc'[d] = "swlock", tmpfd'[d] # NoInode
             PROVE  seq'[d] \in Seqs /\ dir'[seq'[d]] = tmpfd'[d]
  BY DEF NextFileInv
<1>1. CASE Daemon \/ KernelExit \/ DaemonStart \/ DaemonSigTerm \/ DaemonKill
  <2>1. UNCHANGED <<fd, tmpfd, seq, cpc>>
    BY <1>1, DaemonFrame DEF cvars, files
  <2>2. Up /\ ProtectedAt(d, s) /\ s >= old'
    BY <1>1, ProtectedBefore
  <2>3. seq[d] \in Seqs /\ dir[seq[d]] = tmpfd[d]
    BY <2>1, <2>2 DEF IInv, NextFileInv
  <2>4. s < seq[d]
    BY <2>1, <2>2 DEF IInv, ClientSeqInv, ProtectedAt, FdInv
  <2>5. seq[d] # old /\ dpc # "rmshadow"
    BY <2>2, <2>3, <2>4 DEF ProtectedAt, Up, Starting, Serving, IInv, TypeOK, DaemonTypeOK, Seqs
  <2>6. dir'[s] # NoInode
    BY <2>1, <2>2 DEF ProtectedAt, IInv, FdInv
  <2> QED BY <1>1, <2>1, <2>2, <2>3, <2>5, <2>6, PathSteps DEF IInv
<1>2. ASSUME NEW c \in Clients, Client(c) \/ ClientStart(c) \/ ClientEnd(c)
      PROVE  seq'[d] \in Seqs /\ dir'[seq'[d]] = tmpfd'[d]
  <2>1. UNCHANGED <<dir, old, dpc>>
    BY <1>2, ClientFrame DEF fs, dvars
  <2>2. CASE d = c
    BY <1>2, <2>1, <2>2, OwnNextFile
  <2>3. CASE d # c
    BY <1>2, <2>1, <2>3, ClientLocal DEF IInv, NextFileInv, ProtectedAt, Condemned, Up
  <2> QED BY <2>2, <2>3
<1> QED BY <1>1, <1>2 DEF Next

(***************************************************************************)
(* The invariant.                                                          *)
(***************************************************************************)
LEMMA NextType == IInv /\ Next => TypeOK'
  BY DaemonType, OtherType, ClientType DEF Next

LEMMA StepIInv == IInv /\ [Next]_vars => IInv'
<1> SUFFICES ASSUME IInv, [Next]_vars PROVE IInv'
  OBVIOUS
<1>1. CASE Next
  BY <1>1, NextType, SeqNumbers, Sizes, Paths, Files, Semaphores, OpenFiles, Sequences,
     NextFiles DEF IInv
<1>2. CASE UNCHANGED vars
  <2> USE <1>2 DEF vars, fs, ipc, kernel, dvars, cvars, files, offsets, counts, history
  <2>1. TypeOK'
    BY DEF IInv, TypeOK, SharedTypeOK, DaemonTypeOK, ClientTypeOK, ControlTypeOK,
           FilesTypeOK, FlagsTypeOK, CountsTypeOK
  <2>2. SeqInv' /\ SizeInv' /\ DirInv'
    BY DEF IInv, SeqInv, SizeInv, DirInv, GcLimit
  <2>3. FilesInv' /\ LockInv'
    BY DEF IInv, FilesInv, LockInv, HasFile, Intact, NoUsers
  <2>4. FdInv' /\ ClientSeqInv'
    BY DEF IInv, FdInv, ClientSeqInv
  <2>5. NextFileInv'
    BY DEF IInv, NextFileInv, ProtectedAt, Condemned, Up
  <2> QED BY <2>1, <2>2, <2>3, <2>4, <2>5 DEF IInv
<1> QED BY <1>1, <1>2

\* The inductive invariant holds in every reachable state.
THEOREM Invariance == Spec => []IInv
  BY InitIInv, StepIInv, PTL DEF Spec

\* Type correctness of the daemon, its clients and what they share.
THEOREM TypeCorrect == Spec => []TypeOK
<1>1. IInv => TypeOK
  BY DEF IInv
<1> QED BY <1>1, Invariance, PTL

(***************************************************************************)
(* What follows.                                                           *)
(***************************************************************************)
\* When the daemon removes all shadow files and starts over with number 0, nobody
\* is registered and it has the lock.
THEOREM ResetIsAlone == Spec => []ResetAlone
<1>1. IInv => ResetAlone
  BY DEF IInv, LockInv, ResetAlone
<1> QED BY <1>1, Invariance, PTL

\* From the file a client has locked to the current one there is no gap: all are
\* there, full, and each continues the one before.
THEOREM NoGapAhead == Spec => []NoGap
<1>1. IInv => NoGap
  <2> SUFFICES ASSUME IInv, NEW c \in Clients, NEW s \in Seqs,
                      dpc \in Serving, Intact, ProtectedAt(c, s)
               PROVE  /\ \A k \in s .. cur : dir[k] # NoInode
                      /\ \A k \in s .. cur - 1 :
                           /\ size[dir[k]] = MaxShadowRec
                           /\ base[dir[k + 1]] = base[dir[k]] + size[dir[k]]
    BY DEF NoGap
  <2>1. old \in Nat /\ cur \in Nat /\ s \in Nat /\ s >= old
    BY DEF IInv, TypeOK, DaemonTypeOK, ProtectedAt, Seqs
  <2>2. /\ \A k \in s .. cur : k \in old .. cur
        /\ \A k \in s .. cur - 1 : k \in old .. cur - 1
    BY <2>1
  <2> QED BY <2>2 DEF IInv, FilesInv, HasFile
<1> QED BY <1>1, Invariance, PTL

\* A client's step keeps its file, or gives it up, or goes on to the next one.
LEMMA ClientFdSteps ==
  ASSUME IInv, NEW c \in Clients, Client(c) \/ ClientStart(c) \/ ClientEnd(c), rdlock'[c]
  PROVE  \/ fd'[c] = fd[c]
         \/ fd[c] = NoInode
         \/ cpc[c] = "swlock" /\ tmpfd[c] # NoInode /\ fd'[c] = tmpfd[c]
<1> USE DEF IInv, TypeOK, ClientTypeOK, FilesTypeOK, FlagsTypeOK, files
<1>1. CASE CLock(c)
  BY <1>1 DEF CLock
<1>2. CASE CReadCurrent(c)
  BY <1>2 DEF CReadCurrent
<1>3. CASE COpen(c)
  BY <1>3 DEF COpen, FdInv, Unregistered
<1>4. CASE CVers(c)
  BY <1>4 DEF CVers, Close
<1>5. CASE CRdLock(c, WLocked)
  BY <1>5 DEF CRdLock, Close
<1>6. CASE CUnlock(c)
  BY <1>6 DEF CUnlock
<1>7. CASE CSample(c)
  BY <1>7 DEF CSample
<1>8. CASE CStat(c)
  BY <1>8 DEF CStat, Close
<1>9. CASE CRestat(c)
  BY <1>9 DEF CRestat
<1>10. CASE CCount(c)
  BY <1>10 DEF CCount
<1>11. CASE CStatNew(c)
  BY <1>11 DEF CStatNew
<1>12. CASE CPhoto(c)
  BY <1>12 DEF CPhoto
<1>13. CASE CReadEnd(c)
  BY <1>13 DEF CReadEnd
<1>14. CASE CReadSwitch(c)
  BY <1>14 DEF CReadSwitch
<1>15. CASE CReadRecord(c)
  BY <1>15 DEF CReadRecord
<1>16. CASE CSwitchOpen(c)
  BY <1>16 DEF CSwitchOpen
<1>17. CASE CSwitchLock(c, WLocked)
  BY <1>17 DEF CSwitchLock
<1>18. CASE CRepos(c)
  BY <1>18 DEF CRepos
<1>19. CASE CSeek(c)
  BY <1>19 DEF CSeek
<1>20. CASE CExit(c)
  BY <1>20 DEF CExit
<1>21. CASE CFilesClosed(c)
  BY <1>21 DEF CFilesClosed, Close
<1>22. CASE CStart(c)
  BY <1>22 DEF CStart
<1>23. CASE CQuit(c)
  BY <1>23 DEF CQuit, Close
<1>24. CASE CKill(c)
  BY <1>24 DEF CKill
<1> QED
  BY <1>1, <1>2, <1>3, <1>4, <1>5, <1>6, <1>7, <1>8, <1>9, <1>10, <1>11, <1>12, <1>13, <1>14, <1>15, <1>16, <1>17, <1>18, <1>19, <1>20, <1>21, <1>22, <1>23, <1>24 DEF Client, ClientStart, ClientEnd, CStep

\* What protects a file before a step of the daemon protects it afterwards.
LEMMA DaemonKeepsProtection ==
  ASSUME IInv, Daemon \/ KernelExit \/ DaemonStart \/ DaemonSigTerm \/ DaemonKill,
         NEW c \in Clients, NEW s \in Seqs, ProtectedAt(c, s),
         dpc \in Serving, dpc' \in Serving, users'[c] > 0
  PROVE  ProtectedAt(c, s)'
<1>1. /\ UNCHANGED <<rdlock, fd>>
      /\ rdlock[c] /\ fd[c] # NoInode /\ dir[s] = fd[c] /\ s >= old /\ ~Condemned(s)
  BY DaemonFrame DEF ProtectedAt, cvars, files, IInv, FdInv
<1>2. old \in Int /\ s \in Int
  BY DEF IInv, TypeOK, DaemonTypeOK, Seqs
<1>3. dir'[s] = dir[s]
  BY <1>1, PathSteps DEF Condemned, Serving
<1>4. dir[s] \in LockedInodes
  BY <1>1 DEF LockedInodes
<1>5. ~NoUsers'
  BY DEF NoUsers
<1>6. s >= old' /\ ~Condemned(s)'
  BY <1>1, <1>2, <1>4, <1>5, OldestSteps DEF Condemned, Up
<1> QED BY <1>1, <1>3, <1>6 DEF ProtectedAt

\* So does a step of a client, unless the client moves on: then the next file is
\* protected.
LEMMA ClientKeepsProtection ==
  ASSUME IInv, NEW c \in Clients, Client(c) \/ ClientStart(c) \/ ClientEnd(c),
         NEW d \in Clients, NEW s \in Seqs, ProtectedAt(d, s),
         dpc \in Serving, rdlock'[d], users'[d] > 0
  PROVE  \E t \in Seqs : ProtectedAt(d, t)'
<1>1. UNCHANGED <<dir, old, dpc>>
  BY ClientFrame DEF fs, dvars
<1>2. fd[d] # NoInode
  BY DEF IInv, FdInv, ProtectedAt
<1>3. CASE fd'[d] = fd[d]
  BY <1>1, <1>3 DEF ProtectedAt, Condemned
<1>4. CASE d # c
  BY <1>3, <1>4, ClientLocal
<1>5. CASE d = c /\ cpc[c] = "swlock" /\ tmpfd[c] # NoInode /\ fd'[c] = tmpfd[c]
  <2>1. seq[d] \in Seqs /\ dir[seq[d]] = tmpfd[d]
    BY <1>5 DEF IInv, NextFileInv, Up
  <2>2. s < seq[d]
    BY <1>2, <1>5 DEF IInv, ClientSeqInv, ProtectedAt
  <2>3. seq[d] > old
    BY <2>1, <2>2 DEF IInv, TypeOK, DaemonTypeOK, ProtectedAt, Seqs
  <2>4. PICK t \in Seqs : t = seq[d]
    BY <2>1
  <2>5. t >= old' /\ ~Condemned(t)'
    BY <1>1, <2>3, <2>4 DEF Condemned, IInv, TypeOK, DaemonTypeOK, Seqs
  <2>6. dir'[t] = fd'[d]
    BY <1>1, <1>5, <2>1, <2>4
  <2> QED BY <2>5, <2>6 DEF ProtectedAt
<1> QED BY <1>2, <1>3, <1>4, <1>5, ClientFdSteps

\* A lock on a shadow file is worth something: gcshadows() and switchshadow()
\* never take away the file of a client that keeps its lock and its registration.
THEOREM LocksProtect == Spec => ProtectedStays
<1>1. ASSUME IInv, Next, NEW c \in Clients,
             Protected(c), rdlock'[c], users'[c] > 0, dpc' \in Serving
      PROVE  Protected(c)'
  <2>1. PICK s \in Seqs : ProtectedAt(c, s)
    BY <1>1 DEF Protected
  <2>2. CASE Daemon \/ KernelExit \/ DaemonStart \/ DaemonSigTerm \/ DaemonKill
    BY <1>1, <2>1, <2>2, DaemonKeepsProtection DEF Protected
  <2>3. ASSUME NEW d \in Clients, Client(d) \/ ClientStart(d) \/ ClientEnd(d)
        PROVE  Protected(c)'
    BY <1>1, <2>1, <2>3, ClientKeepsProtection DEF Protected
  <2> QED BY <1>1, <2>2, <2>3 DEF Next
<1>2. ASSUME UNCHANGED vars, NEW c \in Clients, Protected(c)
      PROVE  Protected(c)'
  BY <1>2 DEF Protected, ProtectedAt, Condemned, vars, fs, ipc, dvars, cvars, files
<1>3. IInv /\ [Next]_vars =>
        [\A c \in Clients :
           Protected(c) /\ rdlock'[c] /\ users'[c] > 0 /\ dpc' \in Serving
             => Protected(c)']_vars
  BY <1>1, <1>2
<1> QED BY <1>3, Invariance, PTL DEF Spec, ProtectedStays

(***************************************************************************)
(* The kinds of steps that the daemon and the kernel make, by what they do *)
(* to the shadow files.                                                    *)
(***************************************************************************)
Halts == ~Up' /\ UNCHANGED size

Begins == dpc' = "rename" /\ NoUsers' /\ UNCHANGED size

Renames ==
  /\ dpc = "rename" /\ dpc' = "mkshadow" /\ current' < 0
  /\ \A s \in Seqs : dir'[s] = NoInode
  /\ UNCHANGED <<size, users, leftover>> /\ (Intact' => Intact)

\* Neither files nor numbers change.
Idles ==
  /\ UNCHANGED <<dir, size, base, nlogged, cur, old, st, users, leftover>>
  /\ Intact' => Intact
  /\ Up /\ (HasFile <=> HasFile')
  /\ dpc' \in {"rename", "mkshadow"} => UNCHANGED <<dpc, current>>
  /\ dpc' \in {"mkcurrent", "wrcurrent"} => current' < 0 \/ UNCHANGED <<dpc, current>>

\* A file with number n and inode i is created.
Makes(n, i) ==
  /\ dir'  = [dir EXCEPT ![n] = i]
  /\ size' = [size EXCEPT ![i] = 0]
  /\ base' = [base EXCEPT ![i] = nlogged]
  /\ \/ dir[n] = i
     \/ /\ dir[n] = NoInode
        /\ \A s \in Seqs : dir[s] # i
        /\ \A c \in Clients : fd[c] # i /\ tmpfd[c] # i
  /\ UNCHANGED <<nlogged, users, cleanup>>
  /\ \/ /\ dpc = "mkshadow" /\ dpc' = "mkcurrent" /\ n = 0 /\ cur = 0 /\ old = 0 /\ st = 0
        /\ UNCHANGED <<cur, old, st, current, leftover>>
     \/ /\ dpc = "rotate" /\ dpc' = "wipe" /\ n = cur + 1 /\ cur' = cur + 1 /\ st' = 0
        /\ UNCHANGED <<old, leftover>>
     \/ /\ dpc = "zero" /\ dpc' = "wipe" /\ n = 0 /\ cur' = 0 /\ old' = 0 /\ st' = 0
        /\ NoUsers /\ leftover' = (leftover \/ LeavesFiles)

\* n records are written to the current file, are skipped, or are lost.
Writes(n) ==
  /\ dpc \in {"write", "rest"} /\ dpc' \in {"rotate", "loop"} /\ old <= cur
  /\ UNCHANGED <<dir, base, cur, old, users, leftover>>
  /\ st + n <= MaxShadowRec
  /\ \/ /\ size' = [size EXCEPT ![dir[cur]] = @ + n]
        /\ nlogged' = nlogged + n /\ st' = st + n /\ UNCHANGED cleanup
     \/ UNCHANGED <<size, nlogged, st, cleanup>>
     \/ UNCHANGED <<size, nlogged>> /\ st' = st + n /\ ~Intact'

Unlinks ==
  /\ dpc = "unlink" /\ dpc' = "gc" /\ old < GcLimit
  /\ dir' = [dir EXCEPT ![old] = NoInode] /\ old' = old + 1
  /\ UNCHANGED <<size, base, nlogged, cur, st, users, leftover, cleanup, resetting>>


AnyKind ==
  \/ Halts \/ Begins \/ Renames \/ Idles \/ Unlinks
  \/ \E n \in Seqs, i \in Inodes : Makes(n, i)
  \/ \E n \in Nat : Writes(n)

\* Every step of the daemon is of one of these kinds.
LEMMA DaemonKinds ==
  ASSUME IInv, Daemon
  PROVE  \/ Halts \/ Renames \/ Idles \/ Unlinks
         \/ \E n \in Seqs, i \in Inodes : Makes(n, i)
         \/ \E n \in Nat : Writes(n)
<1> USE DEF Starting, Serving, Stopping, fs, ipc, kernel
<1>0. /\ TypeOK /\ SeqInv /\ SizeInv /\ LockInv
      /\ leftover' = (leftover \/ LeavesFiles)
  BY DEF IInv, Daemon
<1>a. dpc # "zero" => UNCHANGED leftover
  <2>1. leftover \in BOOLEAN
    BY <1>0 DEF TypeOK
  <2> QED BY <1>0, <2>1 DEF LeavesFiles
<1>1. CASE DRename
  BY <1>1, <1>a DEF DRename, Renames, NoCurrent, Intact
<1>2. CASE DMkShadow(OpenInodes)
  <2>1. 0 \in Seqs /\ Creat(0, OpenInodes)
    BY <1>2, <1>0 DEF DMkShadow, TypeOK, DaemonTypeOK, Seqs
  <2>2. PICK i \in Inodes :
          /\ dir'  = [dir EXCEPT ![0] = i]
          /\ size' = [size EXCEPT ![i] = 0]
          /\ base' = [base EXCEPT ![i] = nlogged]
          /\ \/ dir[0] = i
             \/ /\ dir[0] = NoInode
                /\ \A s \in Seqs : dir[s] # i
                /\ \A c \in Clients : fd[c] # i /\ tmpfd[c] # i
    BY <2>1, <1>0, CreatFacts
  <2>3. Makes(0, i)
    BY <1>2, <1>0, <1>a, <2>2 DEF DMkShadow, Makes, SeqInv
  <2> QED BY <2>1, <2>3
<1>3. CASE DMkCurrent
  BY <1>3, <1>a DEF DMkCurrent, Idles, Up, HasFile, Intact, EmptyCurrent
<1>4. CASE DWrCurrent
  BY <1>4, <1>a DEF DWrCurrent, Idles, Up, HasFile, Intact, SemUnlock
<1>5. CASE DRead
  BY <1>5, <1>a DEF DRead, Idles, Up, HasFile, Intact, SemUnlock
<1>6. CASE DReadNothing
  BY <1>6, <1>a DEF DReadNothing, Idles, Up, HasFile, Intact, SemUnlock
<1>7. CASE DNoRecords
  BY <1>7, <1>a DEF DNoRecords, Idles, Up, HasFile, Intact, SemUnlock
<1>8. CASE DReactivate
  BY <1>8, <1>a DEF DReactivate, Idles, Up, HasFile, Intact, SemUnlock
<1>9. CASE DTruncate
  BY <1>9, <1>a DEF DTruncate, Idles, Up, HasFile, Intact, SemUnlock
<1>10. CASE DLock
  BY <1>10, <1>a DEF DLock, Idles, Up, HasFile, Intact, SemUnlock
<1>11. CASE DCheck
  BY <1>11, <1>a DEF DCheck, Idles, Up, HasFile, Intact, SemUnlock
<1>12. CASE DWrite
  <2>1. Part \in Nat /\ st + Part <= MaxShadowRec /\ st \in Nat
    BY <1>12, <1>0 DEF DWrite, TypeOK, DaemonTypeOK, SizeInv, Part
  <2>2. PICK res \in {0, Part} : Pass2Shadow(Part, res) /\ st' = st + res
    BY <1>12 DEF DWrite
  <2>3. /\ dpc \in {"write", "rest"} /\ dpc' \in {"rotate", "loop"} /\ old <= cur
        /\ UNCHANGED <<cur, old, users, leftover>>
    BY <1>12, <1>0, <1>a DEF DWrite, SeqInv
  <2>4. UNCHANGED <<dir, base>>
    BY <2>2 DEF Pass2Shadow, Append
  <2>5. \/ /\ size' = [size EXCEPT ![dir[cur]] = @ + Part]
           /\ nlogged' = nlogged + Part /\ st' = st + Part /\ UNCHANGED cleanup
        \/ UNCHANGED <<size, nlogged, st, cleanup>>
        \/ UNCHANGED <<size, nlogged>> /\ st' = st + Part /\ ~Intact'
    BY <2>1, <2>2 DEF Pass2Shadow, Append, Intact
  <2>6. Writes(Part)
    BY <2>1, <2>3, <2>4, <2>5 DEF Writes
  <2> QED BY <2>1, <2>6
<1>13. CASE DRotate(OpenInodes)
  <2>1. cur + 1 \in Seqs /\ Creat(cur + 1, OpenInodes)
    BY <1>13, <1>0 DEF DRotate, TypeOK, DaemonTypeOK, Seqs
  <2>2. PICK i \in Inodes :
          /\ dir'  = [dir EXCEPT ![cur + 1] = i]
          /\ size' = [size EXCEPT ![i] = 0]
          /\ base' = [base EXCEPT ![i] = nlogged]
          /\ \/ dir[cur + 1] = i
             \/ /\ dir[cur + 1] = NoInode
                /\ \A s \in Seqs : dir[s] # i
                /\ \A c \in Clients : fd[c] # i /\ tmpfd[c] # i
    BY <2>1, <1>0, CreatFacts
  <2>3. Makes(cur + 1, i)
    BY <1>13, <1>0, <1>a, <2>2 DEF DRotate, Makes
  <2> QED BY <2>1, <2>3
<1>14. CASE DWipe
  BY <1>14, <1>a DEF DWipe, Idles, Up, HasFile, Intact, SemUnlock
<1>15. CASE DSetCurrent
  BY <1>15, <1>a DEF DSetCurrent, Idles, Up, HasFile, Intact, SemUnlock
<1>16. CASE DRest
  <2>1. buf \in Nat /\ st + buf <= MaxShadowRec /\ st \in Nat
    BY <1>16, <1>0 DEF DRest, TypeOK, DaemonTypeOK, SizeInv
  <2>2. PICK res \in {0, buf} : Pass2Shadow(buf, res) /\ st' = st + res
    BY <1>16 DEF DRest
  <2>3. /\ dpc \in {"write", "rest"} /\ dpc' \in {"rotate", "loop"} /\ old <= cur
        /\ UNCHANGED <<cur, old, users, leftover>>
    BY <1>16, <1>0, <1>a DEF DRest, SeqInv
  <2>4. UNCHANGED <<dir, base>>
    BY <2>2 DEF Pass2Shadow, Append
  <2>5. \/ /\ size' = [size EXCEPT ![dir[cur]] = @ + buf]
           /\ nlogged' = nlogged + buf /\ st' = st + buf /\ UNCHANGED cleanup
        \/ UNCHANGED <<size, nlogged, st, cleanup>>
        \/ UNCHANGED <<size, nlogged>> /\ st' = st + buf /\ ~Intact'
    BY <2>1, <2>2 DEF Pass2Shadow, Append, Intact
  <2>6. Writes(buf)
    BY <2>1, <2>3, <2>4, <2>5 DEF Writes
  <2> QED BY <2>1, <2>6
<1>17. CASE DLoop
  <2>1. dpc' \in {"await", "gc", "held", "zero", "stop"}
    BY <1>17 DEF DLoop
  <2>2. CASE dpc' = "stop"
    BY <1>17, <2>2 DEF DLoop, Halts, Up
  <2> QED BY <1>17, <1>a, <2>1, <2>2 DEF DLoop, Idles, Up, HasFile, Intact
<1>18. CASE DGcTry(LockedInodes)
  <2>1. dpc' \in {"await", "gc", "held", "zero", "stop"}
    BY <1>18 DEF DGcTry
  <2>2. CASE dpc' = "stop"
    BY <1>18, <2>2 DEF DGcTry, Halts, Up
  <2> QED BY <1>18, <1>a, <2>1, <2>2 DEF DGcTry, Idles, Up, HasFile, Intact
<1>19. CASE DGcClose
  BY <1>19, <1>a DEF DGcClose, Idles, Up, HasFile, Intact, SemUnlock
<1>20. CASE DGcUnlink
  BY <1>20, <1>0, <1>a DEF DGcUnlink, Unlink, Unlinks, SeqInv
<1>21. CASE DZero(OpenInodes)
  <2>1. 0 \in Seqs /\ Creat(0, OpenInodes)
    BY <1>21, <1>0 DEF DZero, TypeOK, DaemonTypeOK, Seqs
  <2>2. PICK i \in Inodes :
          /\ dir'  = [dir EXCEPT ![0] = i]
          /\ size' = [size EXCEPT ![i] = 0]
          /\ base' = [base EXCEPT ![i] = nlogged]
          /\ \/ dir[0] = i
             \/ /\ dir[0] = NoInode
                /\ \A s \in Seqs : dir[s] # i
                /\ \A c \in Clients : fd[c] # i /\ tmpfd[c] # i
    BY <2>1, <1>0, CreatFacts
  <2>3. Makes(0, i)
    BY <1>21, <1>0, <1>a, <2>2 DEF DZero, Makes, SeqInv, LockInv
  <2> QED BY <2>1, <2>3
<1>22. CASE DStop
  BY <1>22 DEF DStop, Halts, Up, Unlink
<1>23. CASE DRmShadow
  BY <1>23 DEF DRmShadow, Halts, Up, Unlink
<1>24. CASE DRmCurrent
  BY <1>24 DEF DRmCurrent, Halts, Up, Unlink
<1> QED
  BY <1>1, <1>2, <1>3, <1>4, <1>5, <1>6, <1>7, <1>8, <1>9, <1>10, <1>11, <1>12, <1>13, <1>14, <1>15, <1>16, <1>17, <1>18, <1>19, <1>20, <1>21, <1>22, <1>23, <1>24 DEF DStep, Daemon

\* And so is every step that no client makes.
LEMMA Kinds ==
  ASSUME IInv, Daemon \/ KernelExit \/ DaemonStart \/ DaemonSigTerm \/ DaemonKill
  PROVE  AnyKind
<1> USE DEF AnyKind
<1>1. CASE Daemon
  BY <1>1, DaemonKinds
<1>2. CASE KernelExit
  <2>1. UNCHANGED <<fs, ipc, dvars, history>>
    BY <1>2 DEF KernelExit
  <2>2. CASE Up
    BY <2>1, <2>2 DEF Idles, fs, ipc, dvars, history, Up, HasFile, Intact
  <2>3. CASE ~Up
    BY <2>1, <2>3 DEF Halts, fs, dvars, Up
  <2> QED BY <2>2, <2>3
<1>3. CASE DaemonStart
  BY <1>3 DEF DaemonStart, DStart, Begins, NoUsers, fs
<1>4. CASE DaemonSigTerm
  BY <1>4 DEF DaemonSigTerm, DSigTerm, Idles, fs, ipc, history, Up, HasFile, Intact, Serving, Starting
<1>5. CASE DaemonKill
  BY <1>5 DEF DaemonKill, DKill, Halts, fs, Up, Serving, Starting
<1> QED BY <1>1, <1>2, <1>3, <1>4, <1>5

(***************************************************************************)
(* Room, places in the log, and the newest file.                           *)
(***************************************************************************)
FileTypesOK ==
  /\ cur \in Nat /\ old \in Nat /\ st \in Nat /\ nlogged \in Nat /\ MaxShadowRec \in Nat
  /\ cur \in Seqs /\ \A s \in Seqs : s \in Nat
  /\ size \in [Inodes -> Nat] /\ base \in [Inodes -> Nat]
  /\ dir \in [Seqs -> Inodes \cup {NoInode}]

\* The types that the following lemmas need.
LEMMA FileTypes == TypeOK => FileTypesOK
  BY DEF TypeOK, SharedTypeOK, DaemonTypeOK, Seqs, FileTypesOK

LEMMA FileTypesNext == TypeOK' => FileTypesOK'
  BY FileTypes, PTL

\* No file gets more than MaxShadowRec records.
LEMMA Rooms ==
  ASSUME IInv, TypeOK', RoomInv, AnyKind
  PROVE  RoomInv'
<1>0. /\ TypeOK /\ SeqInv /\ SizeInv /\ DirInv /\ FilesInv
      /\ FileTypesOK /\ FileTypesOK'
  BY FileTypes, FileTypesNext DEF IInv
<1> USE DEF RoomInv, FileTypesOK
<1>1. CASE Halts \/ Begins \/ Renames
  BY <1>1, <1>0 DEF Halts, Begins, Renames, HasFile, Up, Serving, Starting
<1>2. CASE Idles
  BY <1>2, <1>0 DEF Idles
<1>3. CASE Unlinks
  <2>1. old <= cur /\ (HasFile /\ old' <= cur' => old # cur)
    BY <1>3, <1>0 DEF Unlinks, GcLimit
  <2>2. HasFile
    BY <1>3 DEF Unlinks, HasFile, Serving
  <2>3. old <= cur /\ old # cur => dir'[cur'] = dir[cur]
    BY <1>3, <1>0 DEF Unlinks
  <2> QED BY <1>3, <1>0, <2>1, <2>2, <2>3 DEF Unlinks
<1>4. ASSUME NEW n \in Seqs, NEW i \in Inodes, Makes(n, i) PROVE RoomInv'
  <2>1. n = cur' /\ st' >= 0 /\ dir'[cur'] = i
    BY <1>4, <1>0 DEF Makes
  <2> QED BY <1>4, <1>0, <2>1 DEF Makes
<1>5. ASSUME NEW n \in Nat, Writes(n) PROVE RoomInv'
  <2>1. HasFile /\ size[dir[cur]] <= st /\ st + n <= MaxShadowRec /\ dir' = dir /\ cur' = cur
    BY <1>5, <1>0 DEF Writes, HasFile, Serving
  <2>2. dir[cur] \in Inodes
    BY <1>5, <1>0, <2>1 DEF Writes, FilesInv
  <2>3. CASE size' = [size EXCEPT ![dir[cur]] = @ + n] /\ st' = st + n
    BY <1>0, <2>1, <2>2, <2>3
  <2>4. CASE size' = size /\ st' \in {st, st + n}
    BY <1>0, <2>1, <2>2, <2>4
  <2> QED BY <1>5, <2>3, <2>4 DEF Writes
<1> QED BY <1>1, <1>2, <1>3, <1>4, <1>5 DEF AnyKind

\* Where the files begin in the log, and the records that follow.
LEMMA Places ==
  ASSUME IInv, TypeOK', BaseInv, AnyKind
  PROVE  BaseInv'
<1>0. /\ TypeOK /\ SeqInv /\ SizeInv /\ DirInv /\ FilesInv
      /\ FileTypesOK /\ FileTypesOK'
  BY FileTypes, FileTypesNext DEF IInv
<1> USE DEF BaseInv, From, FileTypesOK
<1>1. CASE Halts \/ Begins \/ Renames
  BY <1>1, <1>0 DEF Halts, Begins, Renames, HasFile, Up, Serving, Starting
<1>2. CASE Idles
  BY <1>2, <1>0 DEF Idles
<1>3. CASE Unlinks
  <2>1. HasFile /\ (Intact' => Intact)
    BY <1>3 DEF Unlinks, HasFile, Serving, Intact
  <2>2. \A k \in old' .. cur' : k \in old .. cur /\ dir'[k] = dir[k]
    BY <1>3, <1>0 DEF Unlinks, Seqs
  <2> QED BY <1>3, <1>0, <2>1, <2>2 DEF Unlinks
<1>4. ASSUME NEW n \in Seqs, NEW i \in Inodes, Makes(n, i) PROVE BaseInv'
  <2>1. n = cur' /\ dir'[cur'] = i /\ base'[i] = nlogged /\ nlogged' = nlogged /\ (Intact' => Intact)
    BY <1>4, <1>0 DEF Makes, Intact
  <2>2. CASE cur' = 0 /\ st' = 0
    BY <1>0, <2>1, <2>2, old' >= 0
  <2>3. CASE dpc = "rotate" /\ cur' = cur + 1 /\ st' = 0 /\ old' = old
    <3>1. HasFile /\ st = MaxShadowRec /\ old <= cur
      BY <1>0, <2>3 DEF HasFile, Serving, SizeInv, SeqInv
    <3>2. ASSUME NEW k \in old .. cur PROVE dir'[k] = dir[k] /\ base'[dir[k]] = base[dir[k]]
      <4>1. k \in Seqs /\ k # cur + 1 /\ dir[k] # NoInode
        BY <1>0, <3>1 DEF Seqs, FilesInv
      <4>2. dir[k] # i
        BY <1>4, <1>0, <4>1, <2>1, <2>3 DEF Makes, DirInv
      <4> QED BY <1>4, <1>0, <4>1, <4>2, <2>1, <2>3 DEF Makes
    <3>3. SUFFICES ASSUME HasFile', Intact', NEW k \in old' .. cur'
                   PROVE  base'[dir'[k]] + ((cur' - k) * MaxShadowRec + st') = nlogged'
      BY <1>0
    <3>4. CASE k = cur'
      BY <1>0, <2>1, <2>3, <3>4
    <3>5. CASE k # cur'
      <4>1. k \in old .. cur
        BY <1>0, <2>3, <3>5
      <4>2. base[dir[k]] + ((cur - k) * MaxShadowRec + st) = nlogged
        BY <2>1, <3>1, <3>3, <4>1
      <4>3. base[dir[k]] \in Nat
        BY <1>0, <3>1, <4>1 DEF FilesInv, Seqs
      <4> QED BY <1>0, <2>1, <2>3, <3>1, <3>2, <4>1, <4>2, <4>3
    <3> QED BY <3>4, <3>5
  <2> QED BY <1>4, <1>0, <2>2, <2>3 DEF Makes
<1>5. ASSUME NEW n \in Nat, Writes(n) PROVE BaseInv'
  <2>1. HasFile /\ (Intact' => Intact) /\ dir' = dir /\ cur' = cur /\ old' = old /\ base' = base
    BY <1>5, <1>0 DEF Writes, HasFile, Serving, Intact
  <2>2. \A k \in old .. cur : dir[k] # NoInode /\ base[dir[k]] \in Nat
    BY <1>0, <2>1 DEF FilesInv, Seqs
  <2>3. CASE nlogged' = nlogged + n /\ st' = st + n
    BY <1>0, <2>1, <2>2, <2>3
  <2>4. CASE nlogged' = nlogged /\ st' = st
    BY <1>0, <2>1, <2>2, <2>4
  <2> QED BY <1>5, <2>3, <2>4 DEF Writes
<1> QED BY <1>1, <1>2, <1>3, <1>4, <1>5 DEF AnyKind

\* When `current' appears, and which file is the last one.
LEMMA Newest ==
  ASSUME IInv, TypeOK', NewestInv, AnyKind
  PROVE  NewestInv'
<1>0. /\ TypeOK /\ SeqInv
      /\ FileTypesOK /\ FileTypesOK'
  BY FileTypes, FileTypesNext DEF IInv
<1> USE DEF NewestInv, FileTypesOK
<1>1. CASE Halts \/ Begins \/ Renames
  BY <1>1, <1>0 DEF Halts, Begins, Renames, HasFile, Up, Serving, Starting
<1>2. CASE Idles
  BY <1>2, <1>0 DEF Idles
<1>3. CASE Unlinks
  <2>1. HasFile /\ dpc' = "gc" /\ old \in Seqs
    BY <1>3, <1>0 DEF Unlinks, HasFile, Serving, GcLimit, IInv, TypeOK, DaemonTypeOK, Seqs
  <2> QED BY <1>3, <1>0, <2>1 DEF Unlinks
<1>4. ASSUME NEW n \in Seqs, NEW i \in Inodes, Makes(n, i) PROVE NewestInv'
  <2>1. CASE dpc = "mkshadow"
    BY <1>4, <1>0, <2>1 DEF Makes
  <2>2. CASE dpc = "rotate"
    <3>1. HasFile /\ old <= cur /\ dpc' = "wipe"
      BY <1>4, <1>0, <2>2 DEF Makes, HasFile, Serving, Starting, SeqInv
    <3> QED BY <1>4, <1>0, <2>2, <3>1 DEF Makes
  <2>3. CASE dpc = "zero"
    <3>1. n = 0 /\ cur' = 0 /\ old' = 0 /\ dpc' = "wipe" /\ leftover' = (leftover \/ LeavesFiles)
      BY <1>4, <1>0, <2>3 DEF Makes
    <3>2. ~leftover' => \A s \in Seqs : s # 0 => dir[s] = NoInode
      BY <3>1, <2>3 DEF LeavesFiles
    <3> HIDE DEF LeavesFiles
    <3> QED BY <1>4, <1>0, <2>3, <3>1, <3>2 DEF Makes
  <2> QED BY <1>4, <2>1, <2>2, <2>3 DEF Makes
<1>5. ASSUME NEW n \in Nat, Writes(n) PROVE NewestInv'
  BY <1>5, <1>0 DEF Writes, HasFile, Serving
<1> QED BY <1>1, <1>2, <1>3, <1>4, <1>5 DEF AnyKind

\* Who registers while the old directory is still there does not get any further.
LEMMA StaleNumbers ==
  ASSUME IInv, StaleInv, AnyKind, UNCHANGED cvars
  PROVE  StaleInv'
<1> USE DEF StaleInv, Stale, cvars, counts
<1>1. CASE Halts \/ Begins
  BY <1>1 DEF Halts, Begins, Up, Starting, NoUsers, IInv, TypeOK, SharedTypeOK
<1>2. CASE Renames \/ Unlinks
  BY <1>2 DEF Renames, Unlinks
<1>3. CASE Idles
  BY <1>3 DEF Idles
<1>4. ASSUME NEW n \in Seqs, NEW i \in Inodes, Makes(n, i) PROVE StaleInv'
  BY <1>4 DEF Makes
<1>5. ASSUME NEW n \in Nat, Writes(n) PROVE StaleInv'
  BY <1>5 DEF Writes
<1> QED BY <1>1, <1>2, <1>3, <1>4, <1>5 DEF AnyKind

(***************************************************************************)
(* A step that client c takes no part in keeps what it has counted: files  *)
(* only grow, and a file that is removed is a full one.                    *)
(***************************************************************************)
\* The variables of client c stay the same.
Still(c) ==
  /\ cpc'[c] = cpc[c] /\ mode'[c] = mode[c] /\ seq'[c] = seq[c] /\ nseq'[c] = nseq[c]
  /\ fd'[c] = fd[c] /\ tmpfd'[c] = tmpfd[c] /\ rdlock'[c] = rdlock[c]
  /\ asz'[c] = asz[c] /\ pos'[c] = pos[c] /\ csz'[c] = csz[c]
  /\ num'[c] = num[c] /\ over'[c] = over[c] /\ sw'[c] = sw[c] /\ fill'[c] = fill[c]

Grows(c) ==
  /\ \A i \in Inodes : i \in {fd[c], tmpfd[c]}
       => size[i] <= size'[i] /\ (Full(i) => Full(i)')
  /\ HasFile => HasFile' /\ cur <= cur' /\ \A k \in Nat : From(k) <= From(k)'
  /\ tmpfd[c] # NoInode /\ NextIsOpen(c) => NextIsOpen(c)'

\* Whatever the daemon and the kernel do, the files that a registered client counted on
\* are still there or were full, and have not become shorter.
LEMMA KindsGrow ==
  ASSUME IInv, TypeOK', RoomInv, RoomInv', NewestInv, AnyKind, UNCHANGED cvars, Sound',
         NEW c \in Clients, users'[c] > 0
  PROVE  Sound /\ users[c] > 0 /\ Grows(c)
<1>0. /\ TypeOK /\ SeqInv /\ SizeInv /\ DirInv /\ FilesInv /\ LockInv
      /\ FileTypesOK /\ FileTypesOK'
      /\ fd[c] \in Inodes \cup {NoInode} /\ tmpfd[c] \in Inodes \cup {NoInode}
      /\ seq[c] \in Nat /\ seq'[c] = seq[c] /\ tmpfd'[c] = tmpfd[c]
      /\ leftover \in BOOLEAN
  BY FileTypes, FileTypesNext DEF IInv, TypeOK, ClientTypeOK, FilesTypeOK, cvars, files
<1>a. ~NoUsers'
  BY DEF NoUsers
<1> USE DEF FileTypesOK, Sound, Full, NextIsOpen, Grows
<1>1. CASE Halts \/ Begins
  BY <1>1, <1>a DEF Halts, Begins
<1>2. CASE Renames
  <2>1. ~HasFile /\ Up
    BY <1>2 DEF Renames, HasFile, Up, Serving, Starting
  <2> QED BY <1>2, <1>0, <2>1 DEF Renames
<1>3. CASE Idles
  BY <1>3, <1>0 DEF Idles, From
<1>4. CASE Unlinks
  <2>1. HasFile /\ HasFile' /\ Up
    BY <1>4 DEF Unlinks, HasFile, Serving, Up
  <2>2. /\ dir' = [dir EXCEPT ![old] = NoInode] /\ Intact /\ ~leftover /\ users' = users
        /\ size' = size /\ cur' = cur /\ st' = st
    BY <1>4 DEF Unlinks, Intact
  <2>3. ~resetting
    BY <1>4, <1>0, <1>a, <2>2 DEF Unlinks, LockInv, NoUsers
  <2>4. old < cur
    BY <1>4, <2>3 DEF Unlinks, GcLimit
  <2>5. size[dir[old]] = MaxShadowRec
    BY <1>0, <2>1, <2>2, <2>4 DEF FilesInv
  <2>6. NextIsOpen(c) => NextIsOpen(c)'
    <3> SUFFICES ASSUME NextIsOpen(c) PROVE NextIsOpen(c)'
      OBVIOUS
    <3>1. seq[c] \in Seqs
      BY <1>0 DEF Seqs
    <3>2. CASE seq[c] = old
      BY <1>0, <2>1, <2>2, <2>4, <2>5, <3>2
    <3>3. CASE seq[c] # old
      BY <1>0, <2>1, <2>2, <3>1, <3>3
    <3> QED BY <3>2, <3>3
  <2> QED BY <1>0, <2>1, <2>2, <2>6 DEF From
<1>5. ASSUME NEW n \in Seqs, NEW i \in Inodes, Makes(n, i)
      PROVE  Sound /\ users[c] > 0 /\ Grows(c)
  <2>1. Up /\ Intact /\ users[c] > 0 /\ ~NoUsers
    BY <1>5, <1>a DEF Makes, Up, Serving, Starting, Intact, NoUsers
  <2>2. dpc # "zero" /\ leftover' = leftover
    BY <1>5, <2>1 DEF Makes
  <2>3. CASE dpc = "mkshadow"
    <3>1. ~HasFile /\ dir[n] = NoInode
      BY <2>3 DEF HasFile, Serving, NewestInv
    <3>2. fd[c] # i /\ tmpfd[c] # i
      BY <1>5, <3>1 DEF Makes
    <3> QED BY <1>5, <1>0, <2>1, <2>2, <3>1, <3>2 DEF Makes
  <2>4. CASE dpc = "rotate"
    <3>1. HasFile /\ HasFile' /\ st = MaxShadowRec /\ n = cur + 1 /\ cur' = cur + 1 /\ st' = 0
      BY <1>5, <1>0, <2>4 DEF Makes, HasFile, Serving, SizeInv
    <3>2. dir[n] = NoInode
      BY <1>0, <2>2, <3>1 DEF NewestInv
    <3>3. fd[c] # i /\ tmpfd[c] # i
      BY <1>5, <3>2 DEF Makes
    <3>4. \A k \in Nat : From(k) <= From(k)'
      BY <1>0, <3>1 DEF From
    <3>5. NextIsOpen(c) => NextIsOpen(c)'
      BY <1>5, <1>0, <3>1, <3>3 DEF Makes, Seqs
    <3> QED BY <1>5, <1>0, <2>1, <2>2, <3>1, <3>3, <3>4, <3>5 DEF Makes
  <2> QED BY <1>5, <2>2, <2>3, <2>4 DEF Makes
<1>6. ASSUME NEW n \in Nat, Writes(n) PROVE Sound /\ users[c] > 0 /\ Grows(c)
  <2>1. /\ HasFile /\ HasFile' /\ Up /\ Intact /\ ~leftover /\ users' = users
        /\ dir' = dir /\ cur' = cur
    BY <1>6 DEF Writes, HasFile, Serving, Up, Intact
  <2>2. \A j \in Inodes : size[j] <= size'[j]
    <3>1. CASE size' = [size EXCEPT ![dir[cur]] = @ + n]
      BY <1>0, <3>1
    <3>2. CASE size' = size
      BY <1>0, <3>2
    <3> QED BY <1>6, <3>1, <3>2 DEF Writes
  <2>3. \A j \in Inodes : Full(j) => Full(j)'
    BY <1>0, <2>2 DEF RoomInv
  <2>4. \A k \in Nat : From(k) <= From(k)'
    <3>1. st' \in {st, st + n}
      BY <1>6 DEF Writes
    <3>2. st \in Nat /\ st' \in Nat /\ n \in Nat /\ st <= st'
      BY <1>0, <3>1
    <3>3. \A k \in Nat : (cur - k) * MaxShadowRec \in Int
      BY <1>0
    <3> QED BY <2>1, <3>2, <3>3 DEF From
  <2>5. tmpfd[c] # NoInode /\ NextIsOpen(c) => NextIsOpen(c)'
    BY <1>0, <2>1, <2>3
  <2> QED BY <1>0, <2>1, <2>2, <2>3, <2>4, <2>5
<1> QED BY <1>1, <1>2, <1>3, <1>4, <1>5, <1>6 DEF AnyKind

\* What a client has counted stays available when the files have only grown.
LEMMA StillReads ==
  ASSUME TypeOK, FdInv, OffsetInv, NEW c \in Clients, Still(c), Grows(c), Reads(c),
         cur' \in Nat, st' \in Nat, size' \in [Inodes -> Nat], RoomInv'
  PROVE  Reads(c)'
<1>0. /\ fd[c] \in Inodes \cup {NoInode} /\ tmpfd[c] \in Inodes \cup {NoInode}
      /\ seq[c] \in Nat /\ MaxShadowRec \in Nat
      /\ asz[c] \in Int /\ csz[c] \in Int /\ num[c] \in Int /\ over[c] \in Int /\ sw[c] \in Int
  BY DEF TypeOK, ClientTypeOK, FilesTypeOK, CountsTypeOK
<1>1. /\ \A k \in Nat : From(k) \in Int /\ From(k)' \in Int
      /\ cur \in Nat /\ size \in [Inodes -> Nat]
  <2>1. FileTypesOK
    BY FileTypes
  <2>2. \A a, k \in Nat : (a - k) * MaxShadowRec \in Int
    BY <1>0
  <2> QED BY <2>1, <2>2 DEF From, FileTypesOK
<1> USE DEF Still
<1>2. fd[c] # NoInode => size[fd[c]] <= size'[fd[c]] /\ (Full(fd[c]) => Full(fd[c])')
  BY <1>0 DEF Grows, Full
<1>3. tmpfd[c] # NoInode /\ NextIsOpen(c) => NextIsOpen(c)'
  BY DEF Grows
<1>4. HasFile => HasFile' /\ cur <= cur' /\ From(seq[c]) <= From(seq[c])'
  BY <1>0 DEF Grows, From
<1>5. cpc[c] \in WithFile => fd[c] \in Inodes
  BY <1>0 DEF FdInv
<1>6. fd[c] \in Inodes => size[fd[c]] \in Nat /\ size'[fd[c]] \in Nat /\ size'[fd[c]] <= MaxShadowRec
  BY <1>1 DEF RoomInv
<1>7. Counts(c)'
  <2>1. cpc[c] \in {"count", "statnew"} => Full(fd[c])' /\ num'[c] = MaxShadowRec - asz'[c]
    BY <1>2, <1>5 DEF Reads, Counts, WithFile, Full
  <2>2. ASSUME cpc[c] \in WithFile, NEW n \in Int, Available(c, size[fd[c]], n)
        PROVE  Available(c, size[fd[c]], n)'
    BY <1>0, <1>1, <1>2, <1>4, <1>5, <1>6, <2>2 DEF Available, Full
  <2>3. ASSUME NEW n \in Int, Available(c, csz[c], n)
        PROVE  Available(c, csz[c], n)'
    BY <1>0, <1>1, <1>4, <2>3 DEF Available
  <2>4. Due(c)' = Due(c) /\ Due(c) \in Int
    BY <1>0 DEF Due
  <2>5. cpc[c] = "photo" => Available(c, size[fd[c]], Due(c))'
    BY <2>2, <2>4 DEF Reads, Counts, WithFile, Available
  <2>6. cpc[c] = "read" => csz'[c] <= size'[fd'[c]] /\ Available(c, csz[c], Due(c))'
    BY <1>0, <1>2, <1>5, <1>6, <2>3, <2>4 DEF Reads, Counts, WithFile, Available
  <2>7. cpc[c] = "repos" => Available(c, size[fd[c]], over[c])'
    BY <1>0, <2>2 DEF Reads, Counts, WithFile, Available
  <2> QED BY <2>1, <2>5, <2>6, <2>7 DEF Counts
<1>8. Switches(c)'
  <2>1. Due(c)' = Due(c) /\ Due(c) \in Int
    BY <1>0 DEF Due
  <2>2. SUFFICES ASSUME cpc[c] \in {"swopen", "swlock"}, sw[c] = 0
                 PROVE  Switches(c)'
    BY DEF Switches
  <2>3. /\ HasFile' /\ num'[c] > 0 /\ Full(fd[c])' /\ asz'[c] >= MaxShadowRec
    BY <1>2, <1>4, <1>5, <2>2 DEF Reads, Switches, WithFile, Full
  <2>4. cpc[c] = "swopen" => seq'[c] < cur' /\ MaxShadowRec + Due(c)' <= From(seq[c])'
    BY <1>0, <1>1, <1>4, <2>1, <2>2 DEF Reads, Switches
  <2>5. cpc[c] = "swlock" => Due(c)' <= From(seq[c])'
    BY <1>0, <1>1, <1>4, <2>1, <2>2 DEF Reads, Switches
  <2>6. cpc[c] = "swlock" => IF tmpfd'[c] = NoInode THEN seq'[c] < cur' ELSE NextIsOpen(c)'
    BY <1>0, <1>1, <1>3, <1>4, <2>2 DEF Reads, Switches
  <2> QED BY <2>3, <2>4, <2>5, <2>6 DEF Switches, From
<1>9. Skips(c)'
  <2>1. Skipped(c)' = Skipped(c) /\ Skipped(c) \in Int
    BY <1>0 DEF Skipped
  <2>2. SUFFICES ASSUME cpc[c] = "seek" \/ sw[c] > 0 PROVE Skips(c)'
    BY DEF Skips
  <2>3. /\ cpc[c] \in {"seek", "swopen", "swlock"} /\ Full(fd[c]) => Full(fd[c])'
        /\ cpc[c] \in {"seek", "swopen", "swlock"} /\ asz[c] <= size[fd[c]] => asz[c] <= size'[fd[c]]
    BY <1>0, <1>2, <1>5, <1>6 DEF WithFile
  <2>4. HasFile /\ Skipped(c) <= From(seq[c]) => HasFile' /\ Skipped(c)' <= From(seq[c])'
    BY <1>0, <1>1, <1>4, <2>1
  <2>5. HasFile /\ Skipped(c) - MaxShadowRec <= From(seq[c])
          => HasFile' /\ Skipped(c)' - MaxShadowRec <= From(seq[c])'
    BY <1>0, <1>1, <1>4, <2>1
  <2>6. cpc[c] \in {"seek", "swopen"} =>
          \/ sw[c] = 0 /\ asz[c] <= size'[fd[c]]
          \/ Full(fd[c])' /\ (Skipped(c)' <= MaxShadowRec \/ (HasFile' /\ Skipped(c)' <= From(seq[c])'))
    BY <2>1, <2>2, <2>3, <2>4 DEF Reads, Skips
  <2>7. cpc[c] = "swlock" =>
         \/ Full(fd[c])' /\ Skipped(c)' <= MaxShadowRec
         \/ /\ Full(fd[c])' /\ HasFile' /\ Skipped(c)' - MaxShadowRec <= From(seq[c])'
            /\ tmpfd[c] # NoInode => NextIsOpen(c)'
    BY <1>3, <2>1, <2>2, <2>3, <2>5 DEF Reads, Skips
  <2> QED BY <2>6, <2>7 DEF Skips, Full, From
<1>10. Within(c)'
  BY <1>0, <1>2, <1>6 DEF Reads, Within, Full
<1> QED BY <1>7, <1>8, <1>9, <1>10 DEF Reads

\* The other clients keep their numbers, too.
LEMMA ClientStill ==
  ASSUME IInv, NEW c \in Clients, Client(c) \/ ClientStart(c) \/ ClientEnd(c),
         NEW d \in Clients, d # c
  PROVE  Still(d) /\ users'[d] = users[d]
<1> SUFFICES /\ mode'[d] = mode[d] /\ nseq'[d] = nseq[d] /\ fill'[d] = fill[d]
             /\ asz'[d] = asz[d] /\ pos'[d] = pos[d] /\ csz'[d] = csz[d]
             /\ num'[d] = num[d] /\ over'[d] = over[d] /\ sw'[d] = sw[d]
  BY ClientLocal DEF Still
<1>0. /\ mode \in [Clients -> Modes] /\ nseq \in [Clients -> Seqs] /\ fill \in [Clients -> BOOLEAN]
      /\ asz \in [Clients -> Int] /\ pos \in [Clients -> Int] /\ csz \in [Clients -> Int]
      /\ num \in [Clients -> Int] /\ over \in [Clients -> Int] /\ sw \in [Clients -> Int]
  BY DEF IInv, TypeOK, ClientTypeOK, ControlTypeOK, FilesTypeOK, FlagsTypeOK, CountsTypeOK
<1> USE DEF offsets, counts
<1>1. CASE CStart(c)
  BY <1>1, <1>0 DEF CStart
<1>2. CASE CLock(c)
  BY <1>2, <1>0 DEF CLock
<1>3. CASE CReadCurrent(c)
  BY <1>3, <1>0 DEF CReadCurrent
<1>4. CASE COpen(c)
  BY <1>4, <1>0 DEF COpen
<1>5. CASE CVers(c)
  BY <1>5, <1>0 DEF CVers, Close
<1>6. CASE CRdLock(c, WLocked)
  BY <1>6, <1>0 DEF CRdLock, Close
<1>7. CASE CUnlock(c)
  BY <1>7, <1>0 DEF CUnlock
<1>8. CASE CSample(c)
  BY <1>8, <1>0 DEF CSample
<1>9. CASE CStat(c)
  BY <1>9, <1>0 DEF CStat, Close, CountInFile, Counted
<1>10. CASE CRestat(c)
  BY <1>10, <1>0 DEF CRestat, CountInFile, Counted
<1>11. CASE CCount(c)
  BY <1>11, <1>0 DEF CCount, Counted
<1>12. CASE CStatNew(c)
  BY <1>12, <1>0 DEF CStatNew, Counted
<1>13. CASE CPhoto(c)
  BY <1>13, <1>0 DEF CPhoto
<1>14. CASE CReadEnd(c)
  BY <1>14, <1>0 DEF CReadEnd
<1>15. CASE CReadSwitch(c)
  BY <1>15, <1>0 DEF CReadSwitch
<1>16. CASE CReadRecord(c)
  BY <1>16, <1>0 DEF CReadRecord
<1>17. CASE CSwitchOpen(c)
  BY <1>17, <1>0 DEF CSwitchOpen
<1>18. CASE CSwitchLock(c, WLocked)
  BY <1>18, <1>0 DEF CSwitchLock, Switched
<1>19. CASE CRepos(c)
  BY <1>19, <1>0 DEF CRepos
<1>20. CASE CSeek(c)
  BY <1>20, <1>0 DEF CSeek
<1>21. CASE CQuit(c)
  BY <1>21, <1>0 DEF CQuit, Close
<1>22. CASE CExit(c)
  BY <1>22, <1>0 DEF CExit
<1>23. CASE CKill(c)
  BY <1>23, <1>0 DEF CKill
<1>24. CASE CFilesClosed(c)
  BY <1>24, <1>0 DEF CFilesClosed, Close
<1> QED
  BY <1>1, <1>2, <1>3, <1>4, <1>5, <1>6, <1>7, <1>8, <1>9, <1>10, <1>11, <1>12, <1>13, <1>14, <1>15, <1>16, <1>17, <1>18, <1>19, <1>20, <1>21, <1>22, <1>23, <1>24 DEF Client, ClientStart, ClientEnd, CStep

(***************************************************************************)
(* Offsets and numbers of a client.                                        *)
(***************************************************************************)
LEMMA DivMod ==
  ASSUME NEW a \in Nat, NEW m \in Nat \ {0}
  PROVE  /\ a \div m \in Nat /\ a % m \in 0 .. m - 1
         /\ a = (a \div m) * m + (a % m)
<1>1. a \div m \in Int /\ a % m \in 0 .. m - 1
  OBVIOUS
<1>2. a = (a \div m) * m + (a % m)
  OBVIOUS
<1>3. a \div m >= 0
  OBVIOUS
<1> QED BY <1>1, <1>2, <1>3

\* What Counted(c, n) says of client c.
LEMMA CountedNumbers ==
  ASSUME TypeOK, NEW c \in Clients, NEW n \in Int, Counted(c, n)
  PROVE  \/ /\ mode[c] = "first" /\ cpc'[c] = "rdlock"
            /\ num'[c] = 0 /\ asz'[c] = n /\ pos'[c] = n /\ over'[c] = over[c]
         \/ /\ mode[c] # "first" /\ asz'[c] = asz[c] /\ pos'[c] = pos[c]
            /\ \/ n < 0 /\ cpc'[c] = "wrapped"
               \/ n > 0 /\ cpc'[c] = "photo"
               \/ n = 0 /\ cpc'[c] = "run"
            /\ over'[c] >= 0 /\ num'[c] \in Int /\ over'[c] \in Int
            /\ num'[c] + over'[c] = n /\ (n >= 0 => num'[c] >= 0)
<1>1. /\ cpc \in [Clients -> {"off", "stuck"} \cup Registering \cup Sampling \cup Ended]
      /\ asz \in [Clients -> Int] /\ pos \in [Clients -> Int]
      /\ num \in [Clients -> Int] /\ over \in [Clients -> Int]
      /\ MaxAcctProcs \in Nat
  BY DEF TypeOK, ClientTypeOK, ControlTypeOK, CountsTypeOK
<1> QED BY <1>1 DEF Counted, Goto

\* A client keeps its own offsets in range.
LEMMA OwnOffsets ==
  ASSUME IInv, OffsetInv, NEW c \in Clients, Client(c) \/ ClientStart(c) \/ ClientEnd(c)
  PROVE  Offsets(c)'
<1>0. /\ cpc \in [Clients -> {"off", "stuck"} \cup Registering \cup Sampling \cup Ended]
      /\ mode \in [Clients -> Modes] /\ nseq \in [Clients -> Seqs] /\ seq[c] \in Nat
      /\ asz \in [Clients -> Int] /\ pos \in [Clients -> Int] /\ csz \in [Clients -> Int]
      /\ num \in [Clients -> Int] /\ over \in [Clients -> Int] /\ sw \in [Clients -> Int]
  BY DEF IInv, TypeOK, ClientTypeOK, ControlTypeOK, FilesTypeOK, CountsTypeOK
<1>a. /\ MaxShadowRec \in Nat /\ MaxShadowRec > 0
      /\ size \in [Inodes -> Nat] /\ dir \in [Seqs -> Inodes \cup {NoInode}]
      /\ fd[c] \in Inodes \cup {NoInode}
      /\ cpc[c] \in WithFile => fd[c] \in Inodes
  BY DEF IInv, TypeOK, SharedTypeOK, ClientTypeOK, FilesTypeOK, FdInv
<1>b. Offsets(c) /\ TypeOK
  BY DEF OffsetInv, IInv
<1>c. ASSUME cpc[c] \in {"stat", "restat", "count", "statnew"}, NEW n \in Int, Counted(c, n),
             mode[c] = "first" => n >= 0, UNCHANGED <<mode, sw>>
      PROVE  Offsets(c)'
  BY <1>0, <1>a, <1>b, <1>c, CountedNumbers DEF Offsets, Registering, Ended
<1>d. ASSUME cpc[c] \in {"stat", "restat"}, fd[c] \in Inodes, CountInFile(c), UNCHANGED <<mode, sw>>
      PROVE  Offsets(c)'
  <2>1. size[fd[c]] \in Nat /\ size[fd[c]] - asz[c] \in Int
    BY <1>0, <1>a, <1>d
  <2>2. CASE Counted(c, size[fd[c]] - asz[c])
    BY <1>b, <1>c, <1>d, <2>1, <2>2 DEF Offsets
  <2>3. CASE ~Counted(c, size[fd[c]] - asz[c])
    BY <1>0, <1>a, <1>b, <1>d, <2>1, <2>3 DEF CountInFile, Offsets, Goto, Registering, Ended
  <2> QED BY <2>2, <2>3
<1> USE DEF Offsets, Goto, offsets, counts, Registering, Ended
<1>1. CASE CStart(c)
  BY <1>1, <1>0, <1>b DEF CStart
<1>2. CASE CLock(c)
  BY <1>2, <1>0, <1>b DEF CLock, Failed
<1>3. CASE CReadCurrent(c)
  BY <1>3, <1>0, <1>b DEF CReadCurrent, Failed
<1>4. CASE COpen(c)
  BY <1>4, <1>0, <1>b DEF COpen
<1>5. CASE CVers(c)
  BY <1>5, <1>0, <1>b DEF CVers, Close
<1>6. CASE CRdLock(c, WLocked)
  BY <1>6, <1>0, <1>b DEF CRdLock, Close, Failed
<1>7. CASE CUnlock(c)
  BY <1>7, <1>0, <1>b DEF CUnlock
<1>8. CASE CSample(c)
  BY <1>8, <1>0, <1>b DEF CSample
<1>9. CASE CStat(c)
  <2>1. CASE fd[c] # NoInode /\ CountInFile(c) /\ UNCHANGED mode
    BY <1>9, <1>a, <1>d, <2>1 DEF CStat
  <2>2. CASE ~(fd[c] # NoInode /\ CountInFile(c) /\ UNCHANGED mode)
    BY <1>9, <1>0, <1>b, <2>2 DEF CStat
  <2> QED BY <2>1, <2>2
<1>10. CASE CRestat(c)
  BY <1>10, <1>a, <1>d DEF CRestat, WithFile
<1>11. CASE CCount(c)
  <2>1. CASE Counted(c, num[c])
    BY <1>11, <1>0, <1>b, <1>c, <2>1 DEF CCount
  <2>2. CASE ~Counted(c, num[c])
    BY <1>11, <1>0, <1>b, <2>2 DEF CCount
  <2> QED BY <2>1, <2>2
<1>12. CASE CStatNew(c)
  <2> DEFINE new == dir[nseq[c]]
             between == (nseq[c] - seq[c] - 1) * MaxShadowRec
             n == IF new = NoInode THEN num[c]
                  ELSE IF nseq[c] > seq[c] THEN num[c] + between + size[new] ELSE 0
  <2>1. nseq[c] \in Seqs /\ nseq[c] \in Nat
    BY <1>0 DEF Seqs
  <2>2. new # NoInode => size[new] \in Nat
    BY <1>a, <2>1
  <2>3. between \in Int /\ (nseq[c] > seq[c] => between >= 0)
    BY <1>0, <1>a, <2>1
  <2> HIDE DEF new, between
  <2>4. n \in Int /\ (mode[c] = "first" => n >= 0)
    BY <1>12, <1>0, <1>b, <2>2, <2>3 DEF CStatNew
  <2>5. Counted(c, n)
    BY <1>12 DEF CStatNew, new, between
  <2> HIDE DEF n
  <2> QED BY <1>12, <1>c, <2>4, <2>5 DEF CStatNew
<1>13. CASE CPhoto(c)
  BY <1>13, <1>0, <1>b DEF CPhoto
<1>14. CASE CReadEnd(c)
  BY <1>14, <1>0, <1>b DEF CReadEnd
<1>15. CASE CReadSwitch(c)
  BY <1>15, <1>0, <1>b DEF CReadSwitch
<1>16. CASE CReadRecord(c)
  BY <1>16, <1>0, <1>b DEF CReadRecord
<1>17. CASE CSwitchOpen(c)
  BY <1>17, <1>0, <1>b DEF CSwitchOpen
<1>18. CASE CSwitchLock(c, WLocked)
  BY <1>18, <1>0, <1>b DEF CSwitchLock, Switched
<1>19. CASE CRepos(c)
  <2>0. asz[c] + over[c] \in Nat
    BY <1>0, <1>b
  <2>1. /\ (asz[c] + over[c]) \div MaxShadowRec >= 0
        /\ (asz[c] + over[c]) % MaxShadowRec \in 0 .. MaxShadowRec - 1
    BY <2>0, SharedAssumption, DivMod
  <2> QED BY <1>19, <1>0, <1>a, <1>b, <2>1 DEF CRepos
<1>20. CASE CSeek(c)
  BY <1>20, <1>0, <1>b DEF CSeek
<1>21. CASE CQuit(c)
  BY <1>21, <1>0, <1>b DEF CQuit, Close
<1>22. CASE CExit(c)
  BY <1>22, <1>0, <1>b DEF CExit
<1>23. CASE CKill(c)
  BY <1>23, <1>0, <1>b DEF CKill
<1>24. CASE CFilesClosed(c)
  BY <1>24, <1>0, <1>b DEF CFilesClosed, Close
<1> QED
  BY <1>1, <1>2, <1>3, <1>4, <1>5, <1>6, <1>7, <1>8, <1>9, <1>10, <1>11, <1>12, <1>13, <1>14, <1>15, <1>16, <1>17, <1>18, <1>19, <1>20, <1>21, <1>22, <1>23, <1>24 DEF Client, ClientStart, ClientEnd, CStep

\* So do all steps.
LEMMA NumbersOfClients ==
  ASSUME IInv, OffsetInv, Next PROVE OffsetInv'
<1>1. CASE Daemon \/ KernelExit \/ DaemonStart \/ DaemonSigTerm \/ DaemonKill
  BY <1>1, DaemonFrame DEF OffsetInv, Offsets, cvars, offsets, counts
<1>2. ASSUME NEW c \in Clients, Client(c) \/ ClientStart(c) \/ ClientEnd(c), NEW d \in Clients
      PROVE  Offsets(d)'
  <2>1. CASE d = c
    BY <1>2, <2>1, OwnOffsets
  <2>2. CASE d # c
    <3>1. Still(d) /\ Offsets(d)
      BY <1>2, <2>2, ClientStill DEF OffsetInv
    <3> QED BY <3>1 DEF Still, Offsets
  <2> QED BY <2>1, <2>2
<1> QED BY <1>1, <1>2 DEF Next, OffsetInv

(***************************************************************************)
(* What a client does to what it has counted.                              *)
(***************************************************************************)
LEMMA UsersBefore ==
  ASSUME IInv, NEW c \in Clients, Client(c) \/ ClientStart(c) \/ ClientEnd(c), users'[c] > 0
  PROVE  CLock(c) \/ users[c] > 0
<1>0. users \in [Clients -> Nat]
  BY DEF IInv, TypeOK, SharedTypeOK
<1> USE DEF SemRelease, SemUndo, ipc
<1>1. CASE CStart(c)
  BY <1>1, <1>0 DEF CStart
<1>2. CASE CLock(c)
  BY <1>2
<1>3. CASE CReadCurrent(c)
  BY <1>3, <1>0 DEF CReadCurrent
<1>4. CASE COpen(c)
  BY <1>4, <1>0 DEF COpen
<1>5. CASE CVers(c)
  BY <1>5, <1>0 DEF CVers, Close
<1>6. CASE CRdLock(c, WLocked)
  BY <1>6, <1>0 DEF CRdLock, Close
<1>7. CASE CUnlock(c)
  BY <1>7, <1>0 DEF CUnlock
<1>8. CASE CSample(c)
  BY <1>8, <1>0 DEF CSample
<1>9. CASE CStat(c)
  BY <1>9, <1>0 DEF CStat, Close, CountInFile, Counted
<1>10. CASE CRestat(c)
  BY <1>10, <1>0 DEF CRestat, CountInFile, Counted
<1>11. CASE CCount(c)
  BY <1>11, <1>0 DEF CCount, Counted
<1>12. CASE CStatNew(c)
  BY <1>12, <1>0 DEF CStatNew, Counted
<1>13. CASE CPhoto(c)
  BY <1>13, <1>0 DEF CPhoto
<1>14. CASE CReadEnd(c)
  BY <1>14, <1>0 DEF CReadEnd
<1>15. CASE CReadSwitch(c)
  BY <1>15, <1>0 DEF CReadSwitch
<1>16. CASE CReadRecord(c)
  BY <1>16, <1>0 DEF CReadRecord
<1>17. CASE CSwitchOpen(c)
  BY <1>17, <1>0 DEF CSwitchOpen
<1>18. CASE CSwitchLock(c, WLocked)
  BY <1>18, <1>0 DEF CSwitchLock, Switched
<1>19. CASE CRepos(c)
  BY <1>19, <1>0 DEF CRepos
<1>20. CASE CSeek(c)
  BY <1>20, <1>0 DEF CSeek
<1>21. CASE CQuit(c)
  BY <1>21, <1>0 DEF CQuit, Close
<1>22. CASE CExit(c)
  BY <1>22, <1>0 DEF CExit
<1>23. CASE CKill(c)
  BY <1>23, <1>0 DEF CKill
<1>24. CASE CFilesClosed(c)
  BY <1>24, <1>0 DEF CFilesClosed, Close
<1> QED
  BY <1>1, <1>2, <1>3, <1>4, <1>5, <1>6, <1>7, <1>8, <1>9, <1>10, <1>11, <1>12, <1>13, <1>14, <1>15, <1>16, <1>17, <1>18, <1>19, <1>20, <1>21, <1>22, <1>23, <1>24 DEF Client, ClientStart, ClientEnd, CStep

\* What a client counts is there, and stays there while it reads, switches and skips.
LEMMA OwnReads ==
  ASSUME IInv, ReadersInv, NEW c \in Clients, Client(c) \/ ClientStart(c) \/ ClientEnd(c),
         Sound, users'[c] > 0
  PROVE  Reads(c)'
<1>0. /\ cpc \in [Clients -> {"off", "stuck"} \cup Registering \cup Sampling \cup Ended]
      /\ mode \in [Clients -> Modes] /\ nseq \in [Clients -> Seqs]
      /\ seq \in [Clients -> 0 .. MaxSeq + 1] /\ seq[c] \in Nat /\ nseq[c] \in Nat
      /\ asz \in [Clients -> Int] /\ pos \in [Clients -> Int] /\ csz \in [Clients -> Int]
      /\ num \in [Clients -> Int] /\ over \in [Clients -> Int] /\ sw \in [Clients -> Int]
  BY DEF IInv, TypeOK, ClientTypeOK, ControlTypeOK, FilesTypeOK, CountsTypeOK, Seqs
<1>a. /\ MaxShadowRec \in Nat /\ MaxShadowRec > 0 /\ cur \in Nat /\ st \in Nat
      /\ fd \in [Clients -> Inodes \cup {NoInode}] /\ tmpfd \in [Clients -> Inodes \cup {NoInode}]
      /\ cpc[c] \in WithFile => fd[c] \in Inodes
      /\ cpc[c] \in Unregistered => fd[c] = NoInode
  BY DEF IInv, TypeOK, SharedTypeOK, DaemonTypeOK, ClientTypeOK, FilesTypeOK, FdInv, Seqs
<1>s. \A i \in Inodes : size[i] \in Nat /\ size[i] <= MaxShadowRec
  BY DEF IInv, TypeOK, SharedTypeOK, ReadersInv, RoomInv
<1>b. Offsets(c) /\ Offsets(c)'
  BY OwnOffsets DEF ReadersInv, OffsetInv
<1>f. /\ UNCHANGED <<size, dir, dpc, cur, st, current>>
      /\ HasFile' = HasFile /\ \A i \in Inodes : Full(i)' = Full(i)
  BY ClientFrame DEF fs, dvars, HasFile, Full
<1>w. ASSUME cpc'[c] \notin {"count", "statnew", "photo", "read", "repos", "swopen", "swlock", "seek"},
             cpc'[c] \in InFile /\ fd'[c] # NoInode => asz'[c] <= size'[fd'[c]] \/ Full(fd[c])'
      PROVE  Reads(c)'
  <2>1. Counts(c)'
    BY <1>w DEF Counts
  <2>2. sw'[c] > 0 => cpc'[c] \in Ended
    BY <1>b, <1>w DEF Offsets
  <2>3. Switches(c)' /\ Skips(c)'
    BY <1>b, <1>w, <2>2 DEF Switches, Skips, Ended
  <2>4. Within(c)'
    BY <1>w DEF Within, Full
  <2> QED BY <2>1, <2>3, <2>4 DEF Reads
<1>c. CASE CLock(c)
  <2>1. cpc'[c] \in {"cur", "refused", "run", "other"} /\ fd'[c] = NoInode
    BY <1>c, <1>0, <1>a DEF CLock, Goto, Failed, files, Unregistered
  <2> QED BY <2>1, <1>w
<1> SUFFICES ASSUME ~CLock(c) PROVE Reads(c)'
  BY <1>c
<1>r. users[c] > 0 /\ Reads(c)
  BY UsersBefore DEF ReadersInv, CountedInv
<1>d. ASSUME NEW n \in Int, Counted(c, n), cpc[c] \in {"stat", "restat", "count", "statnew"},
             fd[c] \in Inodes, UNCHANGED <<fd, sw, seq, mode>>,
             mode[c] = "first" /\ asz[c] = 0 => n <= size[fd[c]] \/ Full(fd[c]),
             n > 0 => Available(c, size[fd[c]], n)
      PROVE  Reads(c)'
  <2>1. fd'[c] = fd[c] /\ sw'[c] = 0 /\ seq'[c] = seq[c]
    BY <1>0, <1>b, <1>d DEF Offsets, Ended
  <2>2. asz[c] <= size[fd[c]] \/ Full(fd[c])
    BY <1>d, <1>r, <2>1, <1>a DEF Reads, Within, InFile, WithFile
  <2>3. CASE mode[c] = "first"
    <3>1. asz[c] = 0
      BY <1>b, <1>d, <2>3 DEF Offsets
    <3>2. cpc'[c] = "rdlock" /\ asz'[c] = n
      BY <1>d, <2>3, CountedNumbers DEF IInv
    <3>3. asz'[c] <= size'[fd'[c]] \/ Full(fd[c])'
      BY <1>d, <1>f, <2>1, <2>3, <3>1, <3>2 DEF Full
    <3> QED BY <1>w, <3>2, <3>3
  <2>4. CASE mode[c] # "first"
    <3>1. /\ asz'[c] = asz[c]
          /\ \/ cpc'[c] = "photo" /\ n > 0 /\ num'[c] + over'[c] = n
             \/ cpc'[c] \in {"run", "wrapped"}
      BY <1>d, <2>4, CountedNumbers DEF IInv
    <3>2. asz'[c] <= size'[fd'[c]] \/ Full(fd[c])'
      BY <1>f, <2>1, <2>2, <3>1 DEF Full
    <3>3. CASE cpc'[c] = "photo"
      <4>1. Available(c, size[fd[c]], Due(c))'
        BY <1>d, <1>f, <2>1, <3>1, <3>3 DEF Available, Due, From
      <4>2. Counts(c)'
        BY <3>3, <4>1 DEF Counts, Available
      <4> QED BY <2>1, <3>2, <3>3, <4>2 DEF Reads, Switches, Skips, Within, Full
    <3> QED BY <1>w, <3>1, <3>2, <3>3
  <2> QED BY <2>3, <2>4
<1>e. ASSUME CountInFile(c), cpc[c] \in {"stat", "restat"}, fd[c] \in Inodes,
             UNCHANGED <<fd, sw, seq, mode>>
      PROVE  Reads(c)'
  <2> DEFINE n == size[fd[c]] - asz[c]
  <2>1. n \in Int
    BY <1>0, <1>s, <1>e
  <2>2. CASE Counted(c, n)
    <3>1. mode[c] = "first" /\ asz[c] = 0 => n <= size[fd[c]]
      BY <1>s, <1>e
    <3>2. Available(c, size[fd[c]], n)
      BY <2>1 DEF Available
    <3> HIDE DEF n
    <3> QED BY <1>d, <1>e, <2>1, <2>2, <3>1, <3>2
  <2>3. CASE ~Counted(c, n)
    <3>1. /\ size[fd[c]] >= MaxShadowRec /\ cpc'[c] = "count" /\ num'[c] = size[fd[c]] - asz[c]
          /\ asz'[c] = asz[c]
      BY <1>0, <1>e, <2>3 DEF CountInFile, Goto
    <3>2. size[fd[c]] = MaxShadowRec
      BY <1>a, <1>s, <1>e, <3>1
    <3>3. fd'[c] = fd[c] /\ sw'[c] = 0
      BY <1>0, <1>b, <1>e DEF Offsets, Ended
    <3>4. Full(fd[c])'
      BY <1>f, <3>2, <3>3 DEF Full
    <3>5. Counts(c)'
      BY <3>1, <3>2, <3>4 DEF Counts
    <3> QED BY <3>1, <3>3, <3>4, <3>5 DEF Reads, Switches, Skips, Within, Full
  <2> QED BY <2>2, <2>3
<1>g. /\ cur \in Seqs /\ old \in Nat /\ st <= MaxShadowRec /\ ~resetting
      /\ HasFile => /\ old <= cur
                    /\ \A k \in old .. cur : dir[k] # NoInode
                    /\ \A k \in old .. cur - 1 : size[dir[k]] = MaxShadowRec
                    /\ size[dir[cur]] = st
  <2>1. TypeOK /\ SeqInv /\ SizeInv /\ LockInv /\ FilesInv
    BY DEF IInv
  <2>2. cur \in Seqs /\ old \in Nat /\ st <= MaxShadowRec
    BY <2>1 DEF TypeOK, DaemonTypeOK, SizeInv
  <2>3. ~resetting
    BY <1>r, <2>1 DEF LockInv, NoUsers, Sound, Up, Serving, Starting
  <2>4. HasFile => old <= cur
    BY <2>1, <2>3 DEF SeqInv, HasFile, Serving, Starting
  <2> QED BY <2>1, <2>2, <2>3, <2>4 DEF FilesInv, Sound
<1>n. \A s \in Seqs : HasFile /\ dir[s] # NoInode => s \in old .. cur
  BY <1>a, <1>g DEF ReadersInv, NewestInv, Sound, Seqs
<1>h. /\ \A k \in Nat : From(k) \in Int /\ From(k + 1) = From(k) - MaxShadowRec
      /\ From(cur) = st
  BY <1>a DEF From
<1>j. ASSUME HasFile, tmpfd[c] \in Inodes, NextIsOpen(c), ~Full(tmpfd[c])
      PROVE  seq[c] = cur /\ size[tmpfd[c]] = st
  <2>1. seq[c] <= cur /\ dir[seq[c]] = tmpfd[c]
    BY <1>j DEF NextIsOpen
  <2>2. seq[c] \in Seqs /\ dir[seq[c]] # NoInode
    BY <1>0, <1>a, <1>g, <1>j, <2>1, SharedAssumption DEF Seqs
  <2>3. seq[c] \in old .. cur
    BY <1>n, <1>j, <2>2
  <2>4. seq[c] = cur
    BY <1>a, <1>g, <1>j, <2>1, <2>3 DEF Full
  <2> QED BY <1>g, <1>j, <2>1, <2>4
<1>11. CASE CStart(c)
  BY <1>11, <1>0, <1>a, <1>b, <1>f, <1>r, <1>w DEF CStart, Goto, Close, Failed, Reads, Within, Full,
     InFile, WithFile, Unregistered, Ended, Offsets, offsets, counts, files
<1>12. CASE CLock(c)
  BY <1>12
<1>13. CASE CReadCurrent(c)
  BY <1>13, <1>0, <1>a, <1>b, <1>f, <1>r, <1>w DEF CReadCurrent, Goto, Close, Failed, Reads, Within, Full,
     InFile, WithFile, Unregistered, Ended, Offsets, offsets, counts, files
<1>14. CASE COpen(c)
  <2>1. asz'[c] = 0 /\ cpc'[c] \in {"vers", "rdlock", "aborted"} /\ fd'[c] \in Inodes \cup {NoInode}
    BY <1>14, <1>0, <1>a, <1>b DEF COpen, Goto, Offsets, offsets, IInv, TypeOK, SharedTypeOK, FdInv
  <2>2. fd'[c] # NoInode => asz'[c] <= size'[fd'[c]]
    BY <1>s, <1>f, <2>1
  <2> QED BY <1>w, <2>1, <2>2
<1>15. CASE CVers(c)
  BY <1>15, <1>0, <1>a, <1>b, <1>f, <1>r, <1>w DEF CVers, Goto, Close, Failed, Reads, Within, Full,
     InFile, WithFile, Unregistered, Ended, Offsets, offsets, counts, files
<1>16. CASE CRdLock(c, WLocked)
  BY <1>16, <1>0, <1>a, <1>b, <1>f, <1>r, <1>w DEF CRdLock, Goto, Close, Failed, Reads, Within, Full,
     InFile, WithFile, Unregistered, Ended, Offsets, offsets, counts, files
<1>17. CASE CUnlock(c)
  BY <1>17, <1>0, <1>a, <1>b, <1>f, <1>r, <1>w DEF CUnlock, Goto, Close, Failed, Reads, Within, Full,
     InFile, WithFile, Unregistered, Ended, Offsets, offsets, counts, files
<1>18. CASE CSample(c)
  BY <1>18, <1>0, <1>a, <1>b, <1>f, <1>r, <1>w DEF CSample, Goto, Close, Failed, Reads, Within, Full,
     InFile, WithFile, Unregistered, Ended, Offsets, offsets, counts, files
<1>19. CASE CStat(c)
  <2>1. CASE fd[c] # NoInode /\ CountInFile(c) /\ UNCHANGED <<mode, fd, rdlock>>
    BY <1>19, <1>a, <1>e, <2>1 DEF CStat
  <2>2. CASE ~(fd[c] # NoInode /\ CountInFile(c) /\ UNCHANGED <<mode, fd, rdlock>>)
    <3>1. cpc'[c] = "lock" /\ fd'[c] = NoInode
      BY <1>19, <1>0, <1>a, <2>2 DEF CStat, Goto, Close
    <3> QED BY <1>w, <3>1
  <2> QED BY <2>1, <2>2
<1>20. CASE CRestat(c)
  BY <1>20, <1>a, <1>e DEF CRestat, WithFile, files
<1>21. CASE CCount(c)
  <2>1. Full(fd[c]) /\ num[c] = MaxShadowRec - asz[c] /\ fd[c] \in Inodes /\ num[c] \in Int
    BY <1>21, <1>0, <1>a, <1>r DEF CCount, Reads, Counts, WithFile
  <2>2. CASE Counted(c, num[c])
    <3>1. Available(c, size[fd[c]], num[c])
      BY <1>0, <1>a, <2>1 DEF Available, Full
    <3> QED BY <1>21, <1>d, <2>1, <2>2, <3>1 DEF CCount, files
  <2>3. CASE ~Counted(c, num[c])
    <3>1. cpc'[c] = "statnew" /\ UNCHANGED <<fd, asz, num, sw>>
      BY <1>21, <1>0, <2>3 DEF CCount, Goto, files
    <3>2. Counts(c)'
      BY <1>f, <2>1, <3>1 DEF Counts, Full
    <3>3. sw[c] = 0
      BY <1>21, <1>0, <1>b DEF CCount, Offsets, Ended
    <3> QED BY <1>f, <2>1, <3>1, <3>2, <3>3 DEF Reads, Switches, Skips, Within, Full
  <2> QED BY <2>2, <2>3
<1>22. CASE CStatNew(c)
  <2> DEFINE new == dir[nseq[c]]
             between == (nseq[c] - seq[c] - 1) * MaxShadowRec
             n == IF new = NoInode THEN num[c]
                  ELSE IF nseq[c] > seq[c] THEN num[c] + between + size[new] ELSE 0
  <2>1. /\ Full(fd[c]) /\ num[c] = MaxShadowRec - asz[c] /\ fd[c] \in Inodes /\ num[c] \in Int
        /\ cpc[c] = "statnew" /\ nseq[c] \in Seqs /\ UNCHANGED <<fd, sw, seq, mode>>
    BY <1>22, <1>0, <1>a, <1>r DEF CStatNew, Reads, Counts, WithFile, files
  <2>2. Counted(c, n)
    BY <1>22 DEF CStatNew
  <2>3. new # NoInode => new \in Inodes /\ size[new] \in Nat /\ size[new] <= MaxShadowRec
    BY <1>s, <2>1 DEF IInv, TypeOK, SharedTypeOK
  <2>4. between \in Int
    BY <1>0, <1>a
  <2>5. ASSUME new # NoInode, nseq[c] > seq[c]
        PROVE  HasFile /\ seq[c] < cur /\ MaxShadowRec + between + size[new] <= From(seq[c])
    <3>1. HasFile
      <4>1. dpc # "rename"
        BY <1>0, <1>r, <2>1, <2>5 DEF ReadersInv, StaleInv, Stale
      <4>2. dpc # "mkshadow"
        BY <2>1, <2>5 DEF ReadersInv, NewestInv
      <4> QED BY <4>1, <4>2 DEF HasFile, Sound, Up, Serving, Starting
    <3>2. nseq[c] \in old .. cur
      BY <1>n, <2>1, <2>5, <3>1
    <3>3. (cur - nseq[c]) * MaxShadowRec + st >= size[new]
      <4>1. CASE nseq[c] = cur
        BY <1>a, <1>g, <3>1, <4>1
      <4>2. CASE nseq[c] < cur
        <5>1. (cur - nseq[c] - 1) * MaxShadowRec >= 0
          BY <1>0, <1>a, <4>2
        <5> HIDE DEF new
        <5> QED BY <1>0, <1>a, <2>3, <2>5, <5>1
      <4>3. nseq[c] = cur \/ nseq[c] < cur
        BY <1>0, <1>a, <1>g, <3>2
      <4> HIDE DEF new, between
      <4> QED BY <4>1, <4>2, <4>3
    <3>4. From(seq[c]) = MaxShadowRec + between + (cur - nseq[c]) * MaxShadowRec + st
      BY <1>0, <1>a DEF From
    <3>5. (cur - nseq[c]) * MaxShadowRec \in Int
      BY <1>0, <1>a
    <3> HIDE DEF new, between
    <3> QED BY <1>0, <1>a, <1>g, <2>3, <2>4, <2>5, <3>1, <3>2, <3>3, <3>4, <3>5
  <2>6. n \in Int
    <3> HIDE DEF new, between
    <3> QED BY <2>1, <2>3, <2>4
  <2>7. n > 0 => Available(c, size[fd[c]], n)
    <3>1. CASE n = num[c]
      BY <1>0, <1>a, <2>1, <3>1 DEF Available, Full
    <3>2. CASE new # NoInode /\ nseq[c] > seq[c]
      <4> HIDE DEF new, between
      <4>1. asz[c] + n = MaxShadowRec + between + size[new]
        BY <1>0, <1>a, <2>1, <2>3, <2>4, <3>2
      <4> QED BY <2>1, <2>5, <3>2, <4>1 DEF Available, Full
    <3>3. CASE n = 0
      BY <3>3
    <3> HIDE DEF new, between
    <3> QED BY <3>1, <3>2, <3>3
  <2> HIDE DEF n
  <2> QED BY <1>d, <2>1, <2>2, <2>6, <2>7
<1>23. CASE CPhoto(c)
  <2>1. /\ cpc'[c] = "read" /\ csz'[c] = size[fd[c]] /\ cpc[c] = "photo" /\ fd[c] \in Inodes /\ sw[c] = 0
        /\ UNCHANGED <<fd, asz, num, over, sw, seq>>
    BY <1>23, <1>0, <1>a, <1>b DEF CPhoto, Goto, files, offsets, WithFile, Offsets, Ended
  <2>2. Counts(c)'
    BY <1>f, <1>r, <1>s, <2>1 DEF Reads, Counts, Available, Due, From
  <2>3. Within(c)'
    BY <1>f, <1>r, <2>1 DEF Reads, Within, InFile, WithFile, Full
  <2> QED BY <2>1, <2>2, <2>3 DEF Reads, Switches, Skips
<1>24. CASE CReadEnd(c)
  <2>1. /\ cpc'[c] \in {"repos", "run"} /\ cpc[c] = "read" /\ fd[c] \in Inodes /\ sw[c] = 0 /\ num[c] = 0
        /\ UNCHANGED <<fd, asz, num, over, sw, seq>>
    BY <1>24, <1>0, <1>a, <1>b DEF CReadEnd, Goto, files, offsets, WithFile, Offsets, Ended
  <2>2. Available(c, csz[c], over[c]) /\ csz[c] <= size[fd[c]] /\ size[fd[c]] <= MaxShadowRec
    BY <1>0, <1>r, <1>s, <2>1 DEF Reads, Counts, Due
  <2>3. Available(c, size[fd[c]], over[c])
    BY <1>0, <1>a, <1>s, <2>1, <2>2 DEF Available
  <2>4. Counts(c)'
    BY <1>f, <2>1, <2>3 DEF Counts, Available, From
  <2>5. Within(c)'
    BY <1>f, <1>r, <2>1 DEF Reads, Within, InFile, WithFile, Full
  <2> QED BY <2>1, <2>4, <2>5 DEF Reads, Switches, Skips
<1>25. CASE CReadSwitch(c)
  <2>1. /\ cpc'[c] = "swopen" /\ cpc[c] = "read" /\ fd[c] \in Inodes /\ sw[c] = 0 /\ num[c] > 0
        /\ asz[c] >= csz[c] /\ UNCHANGED <<fd, asz, num, over, sw, seq>>
    BY <1>25, <1>0, <1>a, <1>b DEF CReadSwitch, Goto, files, offsets, counts, WithFile, Offsets, Ended
  <2>2. Available(c, csz[c], Due(c)) /\ csz[c] <= size[fd[c]] /\ size[fd[c]] <= MaxShadowRec
    BY <1>0, <1>r, <1>s, <2>1 DEF Reads, Counts
  <2>3. Due(c) > 0 /\ Due(c) \in Int
    BY <1>0, <1>b, <2>1 DEF Due, Offsets
  <2>4. /\ HasFile /\ csz[c] = MaxShadowRec /\ size[fd[c]] = MaxShadowRec /\ seq[c] < cur
        /\ asz[c] + Due(c) <= From(seq[c])
    BY <1>0, <1>a, <1>s, <2>1, <2>2, <2>3 DEF Available
  <2>5. From(seq[c]) \in Int
    BY <1>0, <1>a DEF From
  <2>6. MaxShadowRec + Due(c) <= From(seq[c])
    BY <1>0, <1>a, <2>1, <2>3, <2>4, <2>5
  <2>7. Switches(c)'
    BY <1>f, <2>1, <2>4, <2>6 DEF Switches, Due, From, Full
  <2>8. Within(c)'
    BY <1>f, <2>1, <2>4 DEF Within, Full
  <2> QED BY <2>1, <2>7, <2>8 DEF Reads, Counts, Skips
<1>26. CASE CReadRecord(c)
  <2>1. /\ cpc'[c] = "read" /\ cpc[c] = "read" /\ fd[c] \in Inodes /\ sw[c] = 0
        /\ asz[c] < csz[c] /\ UNCHANGED <<fd, csz, over, sw, seq>>
        /\ num'[c] = num[c] - 1 /\ asz'[c] = asz[c] + 1
    BY <1>26, <1>0, <1>a, <1>b DEF CReadRecord, Goto, files, WithFile, Offsets, Ended
  <2>2. Available(c, csz[c], Due(c)) /\ csz[c] <= size[fd[c]]
    BY <1>r, <2>1 DEF Reads, Counts
  <2>3. Due(c) \in Int /\ Due(c)' = Due(c) - 1 /\ From(seq[c]) \in Int
    BY <1>0, <1>a, <2>1 DEF Due, From
  <2>4. Available(c, csz[c], Due(c))'
    BY <1>0, <1>f, <2>1, <2>2, <2>3 DEF Available, From
  <2>5. Counts(c)'
    BY <1>f, <2>1, <2>2, <2>4 DEF Counts, Available
  <2>6. asz'[c] <= size'[fd'[c]]
    BY <1>0, <1>f, <1>s, <2>1, <2>2
  <2> QED BY <2>1, <2>5, <2>6 DEF Reads, Switches, Skips, Within
<1>27. CASE CSwitchOpen(c)
  <2>1. /\ cpc[c] = "swopen" /\ cpc'[c] = "swlock" /\ fd[c] \in Inodes
        /\ UNCHANGED <<fd, asz, num, over, sw>> /\ seq'[c] = NextSeq(c)
        /\ tmpfd'[c] = IF NextSeq(c) \in Seqs THEN dir[NextSeq(c)] ELSE NoInode
    BY <1>27, <1>0, <1>a DEF CSwitchOpen, Goto, files, offsets, counts, WithFile
  <2>2. \/ seq[c] \in Seqs /\ NextSeq(c) = seq[c] + 1
        \/ seq[c] \notin Seqs /\ NextSeq(c) = seq[c]
    BY DEF NextSeq
  <2>3. Switches(c)'
    <3> SUFFICES ASSUME sw[c] = 0 PROVE Switches(c)'
      BY <2>1 DEF Switches
    <3>1. /\ HasFile /\ num[c] > 0 /\ Full(fd[c]) /\ asz[c] >= MaxShadowRec
          /\ seq[c] < cur /\ MaxShadowRec + Due(c) <= From(seq[c]) /\ Due(c) \in Int
      BY <1>0, <1>r, <2>1 DEF Reads, Switches, Due
    <3>2. seq[c] + 1 \in Seqs /\ NextSeq(c) = seq[c] + 1
      BY <1>0, <1>a, <1>g, <2>2, <3>1, SharedAssumption DEF Seqs
    <3>3. Due(c) <= From(seq[c] + 1)
      BY <1>0, <1>a, <1>h, <3>1
    <3>4. dir[seq[c] + 1] = NoInode => seq[c] + 1 < cur
      BY <1>0, <1>a, <1>g, <3>1
    <3>5. seq[c] + 1 <= cur
      BY <1>0, <1>a, <3>1
    <3>6. NextIsOpen(c)'
      BY <1>f, <2>1, <3>1, <3>2, <3>5 DEF NextIsOpen
    <3>7. Due(c)' <= From(seq[c])'
      BY <1>f, <2>1, <3>2, <3>3 DEF Due, From
    <3>8. tmpfd'[c] = NoInode => seq'[c] < cur'
      BY <1>f, <2>1, <3>2, <3>4
    <3>9. HasFile' /\ num'[c] > 0 /\ Full(fd[c])' /\ asz'[c] >= MaxShadowRec
      BY <1>f, <2>1, <3>1 DEF Full
    <3> QED BY <2>1, <3>6, <3>7, <3>8, <3>9 DEF Switches
  <2>4. Skips(c)'
    <3> SUFFICES ASSUME sw[c] > 0 PROVE Skips(c)'
      BY <2>1 DEF Skips
    <3>1. /\ Full(fd[c])
          /\ Skipped(c) <= MaxShadowRec \/ (HasFile /\ Skipped(c) <= From(seq[c]))
      BY <1>0, <1>r, <2>1 DEF Reads, Skips
    <3>2. Skipped(c) \in Int /\ Skipped(c)' = Skipped(c) /\ Full(fd[c])'
      BY <1>0, <1>a, <1>f, <2>1, <3>1 DEF Skipped, Full
    <3>3. Skipped(c) <= From(seq[c]) => Skipped(c) - MaxShadowRec <= From(NextSeq(c))
      BY <1>0, <1>a, <1>h, <2>2, <3>2
    <3>4. HasFile /\ tmpfd'[c] # NoInode => NextIsOpen(c)'
      <4>1. HasFile /\ tmpfd'[c] # NoInode => NextSeq(c) \in Seqs /\ NextSeq(c) <= cur
        <5> SUFFICES ASSUME HasFile, tmpfd'[c] # NoInode
                     PROVE  NextSeq(c) \in Seqs /\ NextSeq(c) <= cur
          OBVIOUS
        <5>1. NextSeq(c) \in Seqs /\ dir[NextSeq(c)] # NoInode
          BY <2>1
        <5>2. NextSeq(c) \in old .. cur
          BY <1>n, <5>1
        <5> QED BY <5>1, <5>2
      <4> QED BY <1>f, <2>1, <4>1 DEF NextIsOpen
    <3>5. From(seq[c])' = From(NextSeq(c))
      BY <1>f, <2>1 DEF From
    <3> QED BY <1>f, <2>1, <3>1, <3>2, <3>3, <3>4, <3>5 DEF Skips
  <2>5. Within(c)'
    BY <1>f, <1>r, <2>1 DEF Reads, Within, InFile, WithFile, Full
  <2> QED BY <2>1, <2>3, <2>4, <2>5 DEF Reads, Counts
<1>28. CASE CSwitchLock(c, WLocked)
  <2>1. /\ cpc[c] = "swlock" /\ fd[c] \in Inodes /\ UNCHANGED <<seq, num, over>>
        /\ tmpfd[c] # NoInode => tmpfd[c] \in Inodes
    BY <1>28, <1>a DEF CSwitchLock, WithFile
  <2>2. PICK i \in Inodes :
          /\ fd'[c] = i /\ Switched(c, i)
          /\ \/ i = tmpfd[c]
             \/ i = fd[c] /\ (tmpfd[c] = NoInode \/ tmpfd[c] \in WLocked)
    BY <1>28, <1>a, <2>1 DEF CSwitchLock
  <2>3. CASE sw[c] > 0
    <3>1. cpc'[c] = "seek" /\ sw'[c] = sw[c] - 1 /\ asz'[c] = asz[c]
      BY <1>0, <2>2, <2>3 DEF Switched, Goto
    <3>2. Skipped(c) \in Int /\ Skipped(c)' = Skipped(c) - MaxShadowRec /\ From(seq[c]) \in Int
      <4>1. (sw[c] - 1) * MaxShadowRec = sw[c] * MaxShadowRec - MaxShadowRec
            /\ sw[c] * MaxShadowRec \in Int
        BY <1>0, <1>a
      <4>2. Skipped(c)' = (sw[c] - 1) * MaxShadowRec + asz[c]
        BY <3>1 DEF Skipped
      <4> QED BY <1>0, <1>a, <1>h, <4>1, <4>2 DEF Skipped
    <3>3. \/ Full(fd[c]) /\ Skipped(c) <= MaxShadowRec
          \/ /\ Full(fd[c]) /\ HasFile /\ Skipped(c) - MaxShadowRec <= From(seq[c])
             /\ tmpfd[c] # NoInode => NextIsOpen(c)
      BY <1>r, <2>1, <2>3 DEF Reads, Skips
    <3>4. \/ sw'[c] = 0 /\ asz'[c] <= size[i]
          \/ /\ Full(i)
             /\ Skipped(c)' <= MaxShadowRec \/ (HasFile /\ Skipped(c)' <= From(seq[c]))
      <4>1. CASE i = fd[c]
        BY <1>a, <3>2, <3>3, <4>1
      <4>2. CASE i = tmpfd[c] /\ Skipped(c) <= MaxShadowRec
        <5>1. sw[c] = 1 /\ asz[c] = 0
          <6>1. sw[c] # 1 => sw[c] * MaxShadowRec >= 2 * MaxShadowRec
            BY <1>0, <1>a, <2>3
          <6>2. sw[c] * MaxShadowRec \in Int /\ asz[c] >= 0
            BY <1>0, <1>a, <1>b DEF Offsets
          <6> QED BY <1>0, <1>a, <4>2, <6>1, <6>2 DEF Skipped
        <5> QED BY <1>s, <3>1, <5>1
      <4>3. CASE i = tmpfd[c] /\ HasFile /\ Skipped(c)' <= From(seq[c]) /\ NextIsOpen(c) /\ ~Full(i)
        <5>1. size[i] = st /\ From(seq[c]) = st
          BY <1>h, <1>j, <4>3
        <5>2. sw'[c] \in Nat /\ asz'[c] \in Nat /\ Skipped(c)' = sw'[c] * MaxShadowRec + asz'[c]
          BY <1>0, <1>b, <2>3, <3>1 DEF Offsets, Skipped
        <5>3. sw'[c] # 0 => sw'[c] * MaxShadowRec >= MaxShadowRec
          BY <1>a, <5>2
        <5>4. sw'[c] * MaxShadowRec \in Int
          BY <1>a, <5>2
        <5>5. sw'[c] # 0 => st = MaxShadowRec
          BY <1>a, <1>g, <4>3, <5>1, <5>2, <5>3, <5>4
        <5>6. sw'[c] = 0
          BY <4>3, <5>1, <5>5 DEF Full
        <5> QED BY <1>a, <4>3, <5>1, <5>2, <5>6
      <4>4. CASE i = tmpfd[c] /\ HasFile /\ Skipped(c)' <= From(seq[c]) /\ Full(i)
        BY <4>4
      <4> QED BY <2>2, <3>2, <3>3, <4>1, <4>2, <4>3, <4>4
    <3>5. Skips(c)'
      BY <1>f, <2>1, <2>2, <3>1, <3>4 DEF Skips, Full, From
    <3>6. Within(c)'
      BY <3>1 DEF Within, InFile
    <3> QED BY <3>1, <3>5, <3>6 DEF Reads, Counts, Switches
  <2>4. CASE sw[c] = 0
    <3>1. cpc'[c] = "read" /\ sw'[c] = 0 /\ asz'[c] = 0 /\ csz'[c] = size[i]
      BY <1>0, <2>2, <2>4 DEF Switched, Goto
    <3>2. /\ HasFile /\ Full(fd[c]) /\ Due(c) <= From(seq[c]) /\ Due(c) \in Int
          /\ IF tmpfd[c] = NoInode THEN seq[c] < cur ELSE NextIsOpen(c)
      BY <1>0, <1>r, <2>1, <2>4 DEF Reads, Switches, Due
    <3>3. \/ Due(c) <= size[i]
          \/ Full(i) /\ seq[c] < cur
      <4>1. CASE i = tmpfd[c] /\ ~Full(i)
        BY <1>h, <1>j, <3>2, <4>1
      <4>2. CASE i = tmpfd[c] /\ Full(i)
        <5>1. NextIsOpen(c) /\ seq[c] <= cur
          BY <3>2, <4>2 DEF NextIsOpen
        <5>2. CASE seq[c] = cur
          <6>1. dir[cur] = i
            BY <4>2, <5>1, <5>2, <1>a DEF NextIsOpen
          <6> QED BY <1>g, <1>h, <3>2, <5>2, <6>1
        <5>3. CASE seq[c] < cur
          BY <4>2, <5>3
        <5> QED BY <1>0, <1>a, <5>1, <5>2, <5>3
      <4>3. CASE i = fd[c] /\ tmpfd[c] = NoInode
        BY <3>2, <4>3
      <4>4. CASE i = fd[c] /\ tmpfd[c] # NoInode /\ tmpfd[c] \in WLocked
        <5>1. dpc = "held" /\ tmpfd[c] = dir[old]
          BY <4>4 DEF WLocked
        <5>2. old < cur
          BY <1>g, <5>1 DEF IInv, SeqInv, GcLimit, Serving
        <5>3. NextIsOpen(c) /\ seq[c] <= cur
          BY <3>2, <4>4 DEF NextIsOpen
        <5>4. seq[c] # cur
          <6>1. dir[cur] # tmpfd[c]
            BY <1>g, <4>4, <5>1, <5>2, <1>a DEF IInv, DirInv, Seqs
          <6> QED BY <1>a, <5>3, <6>1 DEF NextIsOpen
        <5> QED BY <1>0, <1>a, <3>2, <4>4, <5>3, <5>4
      <4> QED BY <2>2, <4>1, <4>2, <4>3, <4>4
    <3>4. Available(c, csz[c], Due(c))'
      <4>1. Due(c)' = Due(c) /\ From(seq[c])' = From(seq[c]) /\ csz'[c] = size[i] /\ seq'[c] = seq[c]
        BY <1>f, <2>1, <3>1 DEF Due, From
      <4>2. size[i] \in Nat /\ (Full(i) => size[i] = MaxShadowRec)
        BY <1>s DEF Full
      <4> QED BY <1>f, <1>h, <1>0, <3>1, <3>2, <3>3, <4>1, <4>2 DEF Available
    <3>5. Counts(c)'
      BY <1>f, <1>s, <2>2, <3>1, <3>4 DEF Counts, Available
    <3>6. Within(c)'
      BY <1>f, <1>s, <2>2, <3>1 DEF Within
    <3> QED BY <3>1, <3>5, <3>6 DEF Reads, Switches, Skips
  <2> QED BY <1>0, <1>b, <2>3, <2>4 DEF Offsets
<1>29. CASE CRepos(c)
  <2>1. /\ cpc[c] = "repos" /\ cpc'[c] = "seek" /\ fd[c] \in Inodes /\ UNCHANGED <<fd, seq>>
        /\ sw'[c] = (asz[c] + over[c]) \div MaxShadowRec
        /\ asz'[c] = (asz[c] + over[c]) % MaxShadowRec
    BY <1>29, <1>0, <1>a DEF CRepos, Goto, files, WithFile
  <2>2. asz[c] + over[c] \in Nat
    BY <1>0, <1>b DEF Offsets
  <2>3. /\ sw'[c] \in Nat /\ asz'[c] \in 0 .. MaxShadowRec - 1
        /\ sw'[c] * MaxShadowRec + asz'[c] = asz[c] + over[c]
    BY <2>1, <2>2, SharedAssumption, DivMod
  <2>4. \/ asz[c] + over[c] <= size[fd[c]]
        \/ HasFile /\ Full(fd[c]) /\ asz[c] + over[c] <= From(seq[c])
    BY <1>0, <1>r, <1>s, <2>1 DEF Reads, Counts, Available, Full
  <2>5. sw'[c] # 0 => sw'[c] * MaxShadowRec >= MaxShadowRec
    BY <1>a, <2>3
  <2>6. \/ sw'[c] = 0 /\ asz'[c] <= size[fd[c]]
        \/ /\ Full(fd[c])
           /\ Skipped(c)' <= MaxShadowRec \/ (HasFile /\ Skipped(c)' <= From(seq[c]))
    <3>1. Skipped(c)' = asz[c] + over[c] /\ asz[c] + over[c] \in Nat /\ From(seq[c]) \in Int
      BY <1>0, <1>h, <2>2, <2>3 DEF Skipped
    <3>2. CASE asz[c] + over[c] <= size[fd[c]] /\ sw'[c] = 0
      BY <1>a, <2>3, <3>2
    <3>3. CASE asz[c] + over[c] <= size[fd[c]] /\ sw'[c] # 0
      <4>1. asz[c] + over[c] >= MaxShadowRec
        <5> DEFINE p == sw'[c] * MaxShadowRec
        <5>1. p \in Int
          BY <1>a, <2>3
        <5>2. p + asz'[c] = asz[c] + over[c] /\ p >= MaxShadowRec
          BY <2>3, <2>5, <3>3
        <5> HIDE DEF p
        <5> QED BY <1>a, <2>2, <2>3, <5>1, <5>2
      <4> QED BY <1>a, <1>s, <2>1, <3>1, <3>3, <4>1 DEF Full
    <3>4. CASE HasFile /\ Full(fd[c]) /\ asz[c] + over[c] <= From(seq[c])
      BY <3>1, <3>4
    <3> QED BY <2>4, <3>2, <3>3, <3>4
  <2>7. Skips(c)'
    BY <1>f, <2>1, <2>6 DEF Skips, Full, From
  <2>8. Within(c)'
    BY <1>f, <2>1, <2>3, <2>6 DEF Within, Full
  <2> QED BY <2>1, <2>7, <2>8 DEF Reads, Counts, Switches
<1>30. CASE CSeek(c)
  <2>1. /\ cpc[c] = "seek" /\ fd[c] \in Inodes /\ UNCHANGED <<fd, seq, asz, sw>>
        /\ \/ sw[c] > 0 /\ cpc'[c] = "swopen"
           \/ sw[c] = 0 /\ cpc'[c] = "run"
    BY <1>30, <1>0, <1>a, <1>b DEF CSeek, Goto, files, counts, WithFile, Offsets
  <2>2. CASE cpc'[c] = "swopen"
    <3>1. Skips(c)'
      BY <1>f, <1>r, <2>1, <2>2 DEF Reads, Skips, Skipped, Full, From
    <3> QED BY <2>1, <2>2, <3>1 DEF Reads, Counts, Switches, Within
  <2>3. CASE cpc'[c] = "run"
    BY <1>f, <1>r, <1>w, <2>1, <2>3 DEF Reads, Skips, Full
  <2> QED BY <2>1, <2>2, <2>3
<1>31. CASE CQuit(c)
  BY <1>31, <1>0, <1>a, <1>b, <1>f, <1>r, <1>w DEF CQuit, Goto, Close, Failed, Reads, Within, Full,
     InFile, WithFile, Unregistered, Ended, Offsets, offsets, counts, files
<1>32. CASE CExit(c)
  BY <1>32, <1>0, <1>a, <1>b, <1>f, <1>r, <1>w DEF CExit, Goto, Close, Failed, Reads, Within, Full,
     InFile, WithFile, Unregistered, Ended, Offsets, offsets, counts, files
<1>33. CASE CKill(c)
  BY <1>33, <1>0, <1>a, <1>b, <1>f, <1>r, <1>w DEF CKill, Goto, Close, Failed, Reads, Within, Full,
     InFile, WithFile, Unregistered, Ended, Offsets, offsets, counts, files
<1>34. CASE CFilesClosed(c)
  BY <1>34, <1>0, <1>a, <1>b, <1>f, <1>r, <1>w DEF CFilesClosed, Goto, Close, Failed, Reads, Within, Full,
     InFile, WithFile, Unregistered, Ended, Offsets, offsets, counts, files
<1> QED
  BY <1>11, <1>12, <1>13, <1>14, <1>15, <1>16, <1>17, <1>18, <1>19, <1>20, <1>21, <1>22, <1>23, <1>24, <1>25, <1>26, <1>27, <1>28, <1>29, <1>30, <1>31, <1>32, <1>33, <1>34 DEF Client, ClientStart, ClientEnd, CStep

\* A client whose file is protected keeps its offset in step with acctsize, and finds
\* the next file.
LEMMA OwnInPlace ==
  ASSUME IInv, ReadersInv, NEW c \in Clients, Client(c) \/ ClientStart(c) \/ ClientEnd(c),
         Sound, NEW s \in Seqs, ProtectedAt(c, s)'
  PROVE  InPlace(c)'
<1>0. /\ cpc \in [Clients -> {"off", "stuck"} \cup Registering \cup Sampling \cup Ended]
      /\ rdlock \in [Clients -> BOOLEAN] /\ seq \in [Clients -> 0 .. MaxSeq + 1]
      /\ fd \in [Clients -> Inodes \cup {NoInode}] /\ tmpfd \in [Clients -> Inodes \cup {NoInode}]
      /\ asz \in [Clients -> Int] /\ pos \in [Clients -> Int] /\ sw \in [Clients -> Int]
      /\ cpc[c] \in Unregistered => fd[c] = NoInode
      /\ rdlock[c] => fd[c] # NoInode
      /\ cpc[c] \in WithFile => fd[c] \in Inodes
  BY DEF IInv, TypeOK, ClientTypeOK, ControlTypeOK, FlagsTypeOK, FilesTypeOK, CountsTypeOK, FdInv
<1>b. Offsets(c) /\ Offsets(c)'
  BY OwnOffsets DEF ReadersInv, OffsetInv
<1>f. UNCHANGED <<size, dir, dpc, cur, old>>
  BY ClientFrame DEF fs, dvars
<1>p. rdlock'[c] /\ users'[c] > 0 /\ s >= old /\ dir[s] = fd'[c] /\ ~Condemned(s)
  BY <1>f DEF ProtectedAt, Condemned
<1>c. CASE CLock(c)
  BY <1>c, <1>0, <1>p DEF CLock, Unregistered, files
<1>u. ~CLock(c) => users[c] > 0
  BY <1>p, UsersBefore
<1>q. ASSUME ~CLock(c), rdlock'[c] = rdlock[c], fd'[c] = fd[c]
      PROVE  InPlace(c) /\ ProtectedAt(c, s) /\ Reads(c)
  <2>1. ProtectedAt(c, s)
    BY <1>p, <1>q, <1>u DEF ProtectedAt
  <2> QED BY <2>1, <1>u, <1>q DEF ReadersInv, InPlaceInv, CountedInv
<1>d. ASSUME NEW n \in Int, Counted(c, n), cpc[c] \in {"stat", "restat", "count", "statnew"},
             UNCHANGED <<fd, rdlock>>, ~CLock(c)
      PROVE  InPlace(c)'
  <2>1. cpc'[c] # "swlock" /\ (asz'[c] = pos'[c] \/ (asz'[c] = asz[c] /\ pos'[c] = pos[c]))
    BY <1>d, CountedNumbers DEF IInv
  <2>2. InPlace(c) /\ fd[c] # NoInode
    BY <1>0, <1>d, <1>p, <1>q
  <2>3. sw[c] = 0
    BY <1>0, <1>b, <1>d DEF Offsets, Ended
  <2> QED BY <1>d, <2>1, <2>2, <2>3 DEF InPlace, InFile, WithFile
<1>e. ASSUME CountInFile(c), cpc[c] \in {"stat", "restat"}, UNCHANGED <<fd, rdlock, sw>>, ~CLock(c)
      PROVE  InPlace(c)'
  <2> DEFINE n == size[fd[c]] - asz[c]
  <2>1. fd[c] \in Inodes /\ InPlace(c)
    BY <1>0, <1>e, <1>p, <1>q
  <2>2. n \in Int
    BY <1>0, <2>1 DEF IInv, TypeOK, SharedTypeOK
  <2>3. CASE Counted(c, n)
    BY <1>d, <1>e, <2>2, <2>3
  <2>4. CASE ~Counted(c, n)
    BY <1>0, <1>e, <2>1, <2>4 DEF CountInFile, Goto, InPlace, InFile, WithFile
  <2> QED BY <2>3, <2>4
<1>11. CASE CStart(c)
  BY <1>11, <1>0, <1>b, <1>c, <1>p, <1>q DEF CStart, Goto, Close, Failed, InPlace,
     InFile, WithFile, Unregistered, Ended, Offsets, offsets, counts, files
<1>12. CASE CLock(c)
  BY <1>12, <1>c
<1>13. CASE CReadCurrent(c)
  BY <1>13, <1>0, <1>b, <1>c, <1>p, <1>q DEF CReadCurrent, Goto, Close, Failed, InPlace,
     InFile, WithFile, Unregistered, Ended, Offsets, offsets, counts, files
<1>14. CASE COpen(c)
  BY <1>14, <1>0, <1>b, <1>c, <1>p, <1>q DEF COpen, Goto, Close, Failed, InPlace,
     InFile, WithFile, Unregistered, Ended, Offsets, offsets, counts, files
<1>15. CASE CVers(c)
  BY <1>15, <1>0, <1>b, <1>c, <1>p, <1>q DEF CVers, Goto, Close, Failed, InPlace,
     InFile, WithFile, Unregistered, Ended, Offsets, offsets, counts, files
<1>16. CASE CRdLock(c, WLocked)
  BY <1>16, <1>0, <1>b, <1>c, <1>p, <1>q DEF CRdLock, Goto, Close, Failed, InPlace,
     InFile, WithFile, Unregistered, Ended, Offsets, offsets, counts, files
<1>17. CASE CUnlock(c)
  BY <1>17, <1>0, <1>b, <1>c, <1>p, <1>q DEF CUnlock, Goto, Close, Failed, InPlace,
     InFile, WithFile, Unregistered, Ended, Offsets, offsets, counts, files
<1>18. CASE CSample(c)
  BY <1>18, <1>0, <1>b, <1>c, <1>p, <1>q DEF CSample, Goto, Close, Failed, InPlace,
     InFile, WithFile, Unregistered, Ended, Offsets, offsets, counts, files
<1>19. CASE CStat(c)
  <2>1. CASE fd[c] # NoInode /\ CountInFile(c) /\ UNCHANGED <<mode, fd, rdlock>>
    BY <1>19, <1>c, <1>e, <2>1 DEF CStat
  <2>2. CASE ~(fd[c] # NoInode /\ CountInFile(c) /\ UNCHANGED <<mode, fd, rdlock>>)
    BY <1>19, <1>0, <1>p, <2>2 DEF CStat, Close
  <2> QED BY <2>1, <2>2
<1>20. CASE CRestat(c)
  BY <1>20, <1>c, <1>e DEF CRestat, files
<1>21. CASE CCount(c)
  <2>1. CASE Counted(c, num[c])
    <3>1. num[c] \in Int
      BY DEF IInv, TypeOK, ClientTypeOK, CountsTypeOK
    <3> QED BY <1>21, <1>c, <1>d, <2>1, <3>1 DEF CCount, files
  <2>2. CASE ~Counted(c, num[c])
    BY <1>21, <1>0, <1>c, <1>q, <2>2 DEF CCount, Goto, InPlace, InFile, WithFile, files
  <2> QED BY <2>1, <2>2
<1>22. CASE CStatNew(c)
  <2>1. PICK n : Counted(c, n)
    BY <1>22 DEF CStatNew
  <2>2. cpc[c] = "statnew" /\ UNCHANGED <<fd, rdlock, sw>>
    BY <1>22 DEF CStatNew, files
  <2>3. cpc'[c] # "swlock" /\ (asz'[c] = pos'[c] \/ (asz'[c] = asz[c] /\ pos'[c] = pos[c]))
    BY <1>0, <2>1 DEF Counted, Goto
  <2>4. CASE ~CLock(c)
    BY <1>q, <2>2, <2>3, <2>4 DEF InPlace, InFile, WithFile
  <2> QED BY <1>c, <2>4
<1>23. CASE CPhoto(c)
  BY <1>23, <1>0, <1>b, <1>c, <1>p, <1>q DEF CPhoto, Goto, Close, Failed, InPlace,
     InFile, WithFile, Unregistered, Ended, Offsets, offsets, counts, files
<1>24. CASE CReadEnd(c)
  BY <1>24, <1>0, <1>b, <1>c, <1>p, <1>q DEF CReadEnd, Goto, Close, Failed, InPlace,
     InFile, WithFile, Unregistered, Ended, Offsets, offsets, counts, files
<1>25. CASE CReadSwitch(c)
  BY <1>25, <1>0, <1>b, <1>c, <1>p, <1>q DEF CReadSwitch, Goto, Close, Failed, InPlace,
     InFile, WithFile, Unregistered, Ended, Offsets, offsets, counts, files
<1>26. CASE CReadRecord(c)
  <2>1. CASE ~CLock(c)
    <3>1. /\ cpc[c] = "read" /\ cpc'[c] = "read" /\ UNCHANGED <<fd, rdlock>> /\ asz[c] < csz[c]
          /\ asz'[c] = asz[c] + 1 /\ pos'[c] = IF AtEof(c) THEN pos[c] ELSE pos[c] + 1
      BY <1>26, <1>0 DEF CReadRecord, files
    <3>2. InPlace(c) /\ Reads(c) /\ sw[c] = 0
      BY <1>0, <1>b, <1>q, <2>1, <3>1 DEF Offsets, Ended
    <3>3. pos[c] = asz[c] /\ csz[c] <= size[fd[c]]
      BY <3>1, <3>2 DEF InPlace, InFile, WithFile, Reads, Counts
    <3>4. size[fd[c]] \in Int /\ csz[c] \in Int
      BY <1>0, <3>1 DEF IInv, TypeOK, SharedTypeOK, ClientTypeOK, CountsTypeOK, WithFile
    <3>5. ~AtEof(c)
      BY <1>0, <3>1, <3>3, <3>4 DEF AtEof
    <3> QED BY <3>1, <3>3, <3>5 DEF InPlace
  <2> QED BY <1>c, <2>1
<1>27. CASE CSwitchOpen(c)
  <2>1. CASE ~CLock(c) /\ sw[c] = 0
    <3>1. /\ cpc[c] = "swopen" /\ cpc'[c] = "swlock" /\ UNCHANGED <<fd, rdlock, asz, pos>>
          /\ tmpfd'[c] = IF NextSeq(c) \in Seqs THEN dir[NextSeq(c)] ELSE NoInode
      BY <1>27, <1>0 DEF CSwitchOpen, files, offsets, Goto
    <3>2. InPlace(c) /\ Reads(c) /\ ProtectedAt(c, s)
      BY <1>q, <2>1, <3>1
    <3>3. HasFile /\ seq[c] < cur
      BY <2>1, <3>1, <3>2 DEF Reads, Switches
    <3>4. s <= seq[c] /\ s >= old /\ s \in Int /\ seq[c] \in Nat /\ cur \in Seqs /\ old \in Nat
      BY <1>0, <3>1, <3>2 DEF IInv, ClientSeqInv, ProtectedAt, TypeOK, DaemonTypeOK, Seqs, WithFile
    <3>5. seq[c] + 1 \in old .. cur /\ seq[c] \in Seqs /\ NextSeq(c) = seq[c] + 1 /\ NextSeq(c) \in Seqs
      BY <3>3, <3>4, SharedAssumption DEF Seqs, NextSeq
    <3>6. dir[seq[c] + 1] # NoInode
      BY <3>3, <3>5 DEF IInv, FilesInv
    <3> QED BY <2>1, <3>1, <3>2, <3>5, <3>6 DEF InPlace, InFile, WithFile
  <2>2. CASE sw[c] # 0
    BY <1>27, <1>0, <2>2 DEF CSwitchOpen, InPlace, counts
  <2> QED BY <1>c, <2>1, <2>2
<1>28. CASE CSwitchLock(c, WLocked)
  <2>1. CASE ~CLock(c)
    <3>1. CASE tmpfd[c] # NoInode /\ tmpfd[c] \notin WLocked
      BY <1>28, <1>0, <1>b, <3>1 DEF CSwitchLock, Switched, Goto, InPlace, InFile, WithFile, Offsets
    <3>2. CASE tmpfd[c] = NoInode \/ tmpfd[c] \in WLocked
      <4>1. cpc[c] = "swlock" /\ Switched(c, fd[c]) /\ UNCHANGED <<fd, rdlock, pos>>
        BY <1>28, <3>2 DEF CSwitchLock
      <4>2. InPlace(c) /\ ProtectedAt(c, s)
        BY <1>q, <2>1, <4>1
      <4>3. CASE sw[c] > 0
        BY <1>0, <4>1, <4>3 DEF Switched, Goto, InPlace, InFile, WithFile
      <4>4. CASE sw[c] = 0
        <5>1. tmpfd[c] \in WLocked /\ tmpfd[c] # NoInode
          BY <3>2, <4>1, <4>2, <4>4 DEF InPlace
        <5>2. tmpfd[c] = dir[old] /\ old \in Seqs /\ old \in Nat
          BY <5>1 DEF WLocked, IInv, TypeOK, DaemonTypeOK, SeqInv, GcLimit, Serving, Seqs
        <5>3. seq[c] \in Seqs /\ dir[seq[c]] = tmpfd[c]
          BY <4>1, <4>2, <5>1 DEF IInv, NextFileInv, Sound
        <5>4. seq[c] = old
          BY <5>1, <5>2, <5>3 DEF IInv, DirInv
        <5>5. s < seq[c] /\ s >= old
          BY <1>0, <4>1, <4>2 DEF IInv, ClientSeqInv, ProtectedAt, WithFile
        <5>6. s \in Int
          BY DEF Seqs
        <5> QED BY <5>2, <5>4, <5>5, <5>6
      <4> QED BY <1>0, <1>b, <4>3, <4>4 DEF Offsets
    <3> QED BY <3>1, <3>2
  <2> QED BY <1>c, <2>1
<1>29. CASE CRepos(c)
  BY <1>29, <1>0, <1>b, <1>c, <1>p, <1>q DEF CRepos, Goto, Close, Failed, InPlace,
     InFile, WithFile, Unregistered, Ended, Offsets, offsets, counts, files
<1>30. CASE CSeek(c)
  BY <1>30, <1>0, <1>b, <1>c, <1>p, <1>q DEF CSeek, Goto, Close, Failed, InPlace,
     InFile, WithFile, Unregistered, Ended, Offsets, offsets, counts, files
<1>31. CASE CQuit(c)
  BY <1>31, <1>0, <1>b, <1>c, <1>p, <1>q DEF CQuit, Goto, Close, Failed, InPlace,
     InFile, WithFile, Unregistered, Ended, Offsets, offsets, counts, files
<1>32. CASE CExit(c)
  BY <1>32, <1>0, <1>b, <1>c, <1>p, <1>q DEF CExit, Goto, Close, Failed, InPlace,
     InFile, WithFile, Unregistered, Ended, Offsets, offsets, counts, files
<1>33. CASE CKill(c)
  BY <1>33, <1>0, <1>b, <1>c, <1>p, <1>q DEF CKill, Goto, Close, Failed, InPlace,
     InFile, WithFile, Unregistered, Ended, Offsets, offsets, counts, files
<1>34. CASE CFilesClosed(c)
  BY <1>34, <1>0, <1>b, <1>c, <1>p, <1>q DEF CFilesClosed, Goto, Close, Failed, InPlace,
     InFile, WithFile, Unregistered, Ended, Offsets, offsets, counts, files
<1> QED
  BY <1>11, <1>12, <1>13, <1>14, <1>15, <1>16, <1>17, <1>18, <1>19, <1>20, <1>21, <1>22, <1>23, <1>24, <1>25, <1>26, <1>27, <1>28, <1>29, <1>30, <1>31, <1>32, <1>33, <1>34 DEF Client, ClientStart, ClientEnd, CStep

\* What a client does before the old directory is renamed.
LEMMA OwnStale ==
  ASSUME IInv, StaleInv, NEW c \in Clients, Client(c) \/ ClientStart(c) \/ ClientEnd(c),
         dpc = "rename", users'[c] > 0
  PROVE  Stale(c)'
<1>0. /\ cpc \in [Clients -> {"off", "stuck"} \cup Registering \cup Sampling \cup Ended]
      /\ seq \in [Clients -> 0 .. MaxSeq + 1] /\ seq[c] \in Nat /\ nseq \in [Clients -> Seqs]
      /\ current \in Int /\ MaxSeq \in Nat
  BY DEF IInv, TypeOK, SharedTypeOK, ClientTypeOK, ControlTypeOK, FilesTypeOK, NoCurrent,
         EmptyCurrent, Seqs
<1>f. UNCHANGED current
  BY ClientFrame DEF fs
<1>r. users[c] > 0 => Stale(c)
  BY DEF StaleInv
<1>c. CASE CLock(c)
  <2>1. cpc[c] = "lock" /\ UNCHANGED <<seq, nseq>>
    BY <1>c DEF CLock, counts
  <2>2. CASE lock = "free" /\ NumUsers < SemTotal
    BY <1>c, <1>0, <2>1, <2>2 DEF CLock, Goto, Stale
  <2>3. CASE ~(lock = "free" /\ NumUsers < SemTotal)
    <3>1. users[c] > 0
      BY <1>c, <2>3 DEF CLock, SemRelease, IInv, TypeOK, SharedTypeOK
    <3> QED BY <1>c, <1>0, <1>f, <1>r, <2>1, <3>1 DEF CLock, Stale, Goto, Failed
  <2> QED BY <2>2, <2>3
<1>u. ~CLock(c) => Stale(c)
  BY UsersBefore, <1>r
<1> USE DEF Stale, Goto, Failed, offsets, counts, files, Registering, Sampling, Ended
<1>1. CASE CStart(c)
  BY <1>1, <1>0, <1>f, <1>u, <1>c DEF CStart
<1>2. CASE CLock(c)
  BY <1>2, <1>c
<1>3. CASE CReadCurrent(c)
  BY <1>3, <1>0, <1>f, <1>u, <1>c DEF CReadCurrent
<1>4. CASE COpen(c)
  BY <1>4, <1>0, <1>f, <1>u, <1>c DEF COpen
<1>5. CASE CVers(c)
  BY <1>5, <1>0, <1>f, <1>u, <1>c DEF CVers, Close
<1>6. CASE CRdLock(c, WLocked)
  BY <1>6, <1>0, <1>f, <1>u, <1>c DEF CRdLock, Close
<1>7. CASE CUnlock(c)
  BY <1>7, <1>0, <1>f, <1>u, <1>c DEF CUnlock
<1>8. CASE CSample(c)
  BY <1>8, <1>0, <1>f, <1>u, <1>c DEF CSample
<1>9. CASE CStat(c)
  BY <1>9, <1>0, <1>f, <1>u, <1>c DEF CStat, Close, CountInFile, Counted
<1>10. CASE CRestat(c)
  BY <1>10, <1>0, <1>f, <1>u, <1>c DEF CRestat, CountInFile, Counted
<1>11. CASE CCount(c)
  BY <1>11, <1>0, <1>f, <1>u, <1>c DEF CCount, Counted
<1>12. CASE CStatNew(c)
  BY <1>12, <1>0, <1>f, <1>u, <1>c DEF CStatNew, Counted
<1>13. CASE CPhoto(c)
  BY <1>13, <1>0, <1>f, <1>u, <1>c DEF CPhoto
<1>14. CASE CReadEnd(c)
  BY <1>14, <1>0, <1>f, <1>u, <1>c DEF CReadEnd
<1>15. CASE CReadSwitch(c)
  BY <1>15, <1>0, <1>f, <1>u, <1>c DEF CReadSwitch
<1>16. CASE CReadRecord(c)
  BY <1>16, <1>0, <1>f, <1>u, <1>c DEF CReadRecord
<1>17. CASE CSwitchOpen(c)
  BY <1>17, <1>0, <1>f, <1>u, <1>c DEF CSwitchOpen, NextSeq, Seqs
<1>18. CASE CSwitchLock(c, WLocked)
  BY <1>18, <1>0, <1>f, <1>u, <1>c DEF CSwitchLock, Switched
<1>19. CASE CRepos(c)
  BY <1>19, <1>0, <1>f, <1>u, <1>c DEF CRepos
<1>20. CASE CSeek(c)
  BY <1>20, <1>0, <1>f, <1>u, <1>c DEF CSeek
<1>21. CASE CQuit(c)
  BY <1>21, <1>0, <1>f, <1>u, <1>c DEF CQuit, Close
<1>22. CASE CExit(c)
  BY <1>22, <1>0, <1>f, <1>u, <1>c DEF CExit
<1>23. CASE CKill(c)
  BY <1>23 DEF CKill, SemUndo, IInv, TypeOK, SharedTypeOK
<1>24. CASE CFilesClosed(c)
  BY <1>24, <1>0, <1>f, <1>u, <1>c DEF CFilesClosed, Close
<1> QED
  BY <1>1, <1>2, <1>3, <1>4, <1>5, <1>6, <1>7, <1>8, <1>9, <1>10, <1>11, <1>12, <1>13, <1>14, <1>15, <1>16, <1>17, <1>18, <1>19, <1>20, <1>21, <1>22, <1>23, <1>24 DEF Client, ClientStart, ClientEnd, CStep

\* A client that is killed gives back what it took, and takes nothing afterwards.
LEMMA Killed == IInv /\ KilledInv /\ Next => KilledInv'
<1> SUFFICES ASSUME IInv, KilledInv, Next, NEW d \in Clients, cpc'[d] = "dying"
             PROVE  users'[d] = 0
  BY DEF KilledInv
<1>0. /\ users \in [Clients -> Nat]
      /\ cpc \in [Clients -> {"off", "stuck"} \cup Registering \cup Sampling \cup Ended]
  BY DEF IInv, TypeOK, SharedTypeOK, ClientTypeOK, ControlTypeOK
<1>1. CASE Daemon \/ KernelExit \/ DaemonStart \/ DaemonSigTerm \/ DaemonKill
  <2>1. UNCHANGED cpc
    BY <1>1, DaemonFrame DEF cvars
  <2>2. UNCHANGED users \/ users' = [c \in Clients |-> 0]
    BY <1>1 DEF Daemon, DStep, DRename, DMkShadow, DMkCurrent, DWrCurrent, DRead,
       DReadNothing, DNoRecords, DReactivate, DTruncate, DLock, DCheck, DWrite, DRotate, DWipe,
       DSetCurrent, DRest, DLoop, DGcTry, DGcClose, DGcUnlink, DZero, DStop, DRmShadow,
       DRmCurrent, KernelExit, DaemonStart, DStart, DaemonSigTerm, DSigTerm, DaemonKill, DKill, ipc
  <2> QED BY <2>1, <2>2 DEF KilledInv
<1>2. ASSUME NEW c \in Clients, Client(c) \/ ClientStart(c) \/ ClientEnd(c), d # c
      PROVE  users'[d] = 0
  BY <1>2, ClientLocal DEF KilledInv
<1>3. ASSUME NEW c \in Clients, Client(c) \/ ClientStart(c) \/ ClientEnd(c), c = d
      PROVE  CKill(c)
  <2> USE <1>0, <1>3 DEF Goto, Registering, Sampling, Ended
  <2>1. ~CLock(c)
    BY DEF CLock, Failed
  <2>2. ~CReadCurrent(c)
    BY DEF CReadCurrent, Failed
  <2>3. ~COpen(c)
    BY DEF COpen
  <2>4. ~CVers(c)
    BY DEF CVers
  <2>5. ~CRdLock(c, WLocked)
    BY DEF CRdLock, Failed
  <2>6. ~CUnlock(c)
    BY DEF CUnlock
  <2>7. ~CSample(c)
    BY DEF CSample
  <2>8. ~CStat(c)
    BY DEF CStat, CountInFile, Counted
  <2>9. ~CRestat(c)
    BY DEF CRestat, CountInFile, Counted
  <2>10. ~CCount(c)
    BY DEF CCount, Counted
  <2>11. ~CStatNew(c)
    BY DEF CStatNew, Counted
  <2>12. ~CPhoto(c)
    BY DEF CPhoto
  <2>13. ~CReadEnd(c)
    BY DEF CReadEnd
  <2>14. ~CReadSwitch(c)
    BY DEF CReadSwitch
  <2>15. ~CReadRecord(c)
    BY DEF CReadRecord
  <2>16. ~CSwitchOpen(c)
    BY DEF CSwitchOpen
  <2>17. ~CSwitchLock(c, WLocked)
    BY DEF CSwitchLock, Switched
  <2>18. ~CRepos(c)
    BY DEF CRepos
  <2>19. ~CSeek(c)
    BY DEF CSeek
  <2>20. ~CExit(c)
    BY DEF CExit
  <2>21. ~CFilesClosed(c)
    BY DEF CFilesClosed
  <2>22. ~CStart(c)
    BY DEF CStart
  <2>23. ~CQuit(c)
    BY DEF CQuit
  <2> QED BY <2>1, <2>2, <2>3, <2>4, <2>5, <2>6, <2>7, <2>8, <2>9, <2>10, <2>11, <2>12, <2>13, <2>14, <2>15, <2>16, <2>17, <2>18, <2>19, <2>20, <2>21, <2>22, <2>23 DEF Client, ClientStart, ClientEnd, CStep
<1> QED BY <1>0, <1>1, <1>2, <1>3 DEF Next, CKill, SemUndo

(***************************************************************************)
(* The inductive invariant of what the clients read.                       *)
(***************************************************************************)
LEMMA InitReaders == Init => ReadersInv
<1> SUFFICES ASSUME Init PROVE ReadersInv
  OBVIOUS
<1>1. /\ dpc = "down" /\ ~HasFile /\ ~Up
      /\ size = [i \in Inodes |-> 0]
  BY DEF Init, SharedInit, DaemonInit, HasFile, Up, Serving, Starting
<1>2. OffsetInv /\ KilledInv
  BY DEF Init, ClientInit, OffsetInv, Offsets, KilledInv
<1> QED BY <1>1, <1>2 DEF ReadersInv, RoomInv, BaseInv, NewestInv, StaleInv, CountedInv, InPlaceInv, Sound

\* The steps of the daemon and the kernel.
LEMMA OthersKeepReaders ==
  ASSUME IInv, IInv', ReadersInv,
         Daemon \/ KernelExit \/ DaemonStart \/ DaemonSigTerm \/ DaemonKill
  PROVE  ReadersInv'
<1>1. AnyKind /\ UNCHANGED cvars /\ TypeOK /\ TypeOK'
  BY Kinds, DaemonFrame DEF IInv
<1>2. RoomInv' /\ BaseInv' /\ NewestInv' /\ StaleInv'
  BY <1>1, Rooms, Places, Newest, StaleNumbers DEF ReadersInv
<1>3. OffsetInv' /\ KilledInv'
  BY NumbersOfClients, Killed DEF ReadersInv, Next
<1>4. ASSUME NEW c \in Clients PROVE Still(c)
  BY <1>1 DEF Still, cvars, files, offsets, counts
<1>5. cur' \in Nat /\ st' \in Nat /\ size' \in [Inodes -> Nat]
  BY <1>1, FileTypesNext DEF FileTypesOK
<1>6. CountedInv'
  <2> SUFFICES ASSUME Sound', NEW c \in Clients, users'[c] > 0 PROVE Reads(c)'
    BY DEF CountedInv
  <2>1. Sound /\ users[c] > 0 /\ Grows(c)
    BY <1>1, <1>2, KindsGrow DEF ReadersInv
  <2>2. Reads(c)
    BY <2>1 DEF ReadersInv, CountedInv
  <2> QED BY <1>1, <1>2, <1>4, <1>5, <2>1, <2>2, StillReads DEF IInv, ReadersInv
<1>7. InPlaceInv'
  <2> SUFFICES ASSUME Sound', NEW c \in Clients, NEW s \in Seqs, ProtectedAt(c, s)'
               PROVE  InPlace(c)'
    BY DEF InPlaceInv
  <2>1. Up' /\ users'[c] > 0
    BY DEF Sound, ProtectedAt
  <2>2. Sound /\ ProtectedAt(c, s)
    BY <1>1, <1>2, <2>1, KindsGrow, ProtectedBefore DEF ReadersInv
  <2>3. InPlace(c)
    BY <2>2 DEF ReadersInv, InPlaceInv
  <2> QED BY <1>4, <2>3 DEF Still, InPlace
<1> QED BY <1>2, <1>3, <1>6, <1>7 DEF ReadersInv

\* The steps of the clients.
LEMMA ClientKeepsReaders ==
  ASSUME IInv, IInv', ReadersInv,
         NEW c \in Clients, Client(c) \/ ClientStart(c) \/ ClientEnd(c)
  PROVE  ReadersInv'
<1>1. UNCHANGED <<fs, dvars, history>> /\ TypeOK /\ TypeOK'
  BY ClientFrame DEF IInv
<1>2. RoomInv' /\ BaseInv' /\ NewestInv'
  BY <1>1 DEF ReadersInv, RoomInv, BaseInv, NewestInv, fs, dvars, history, HasFile, Intact, From
<1>3. StaleInv'
  <2> SUFFICES ASSUME dpc = "rename", NEW d \in Clients, users'[d] > 0 PROVE Stale(d)'
    BY <1>1 DEF StaleInv, dvars
  <2>1. CASE d = c
    BY <2>1, OwnStale DEF ReadersInv
  <2>2. CASE d # c
    <3>1. Still(d) /\ users'[d] = users[d]
      BY <2>2, ClientStill
    <3>2. Stale(d)
      BY <3>1 DEF ReadersInv, StaleInv
    <3> QED BY <1>1, <3>1, <3>2 DEF Stale, Still, fs
  <2> QED BY <2>1, <2>2
<1>4. OffsetInv' /\ KilledInv'
  BY NumbersOfClients, Killed DEF ReadersInv, Next
<1>5. Sound' = Sound
  BY <1>1 DEF Sound, Up, Intact, dvars, history
<1>6. CountedInv'
  <2> SUFFICES ASSUME Sound, NEW d \in Clients, users'[d] > 0 PROVE Reads(d)'
    BY <1>5 DEF CountedInv
  <2>1. CASE d = c
    BY <2>1, OwnReads
  <2>2. CASE d # c
    <3>1. Still(d) /\ users'[d] = users[d]
      BY <2>2, ClientStill
    <3>2. Reads(d)
      BY <3>1 DEF ReadersInv, CountedInv
    <3>3. cur' \in Nat /\ st' \in Nat /\ size' \in [Inodes -> Nat]
      BY <1>1, FileTypesNext DEF FileTypesOK
    <3>4. Grows(d)
      <4>1. UNCHANGED <<size, dir, cur, st, dpc>> /\ seq'[d] = seq[d] /\ tmpfd'[d] = tmpfd[d]
        BY <1>1, <3>1 DEF fs, dvars, Still
      <4>2. \A k \in Nat : From(k) \in Int
        BY <1>1, FileTypes DEF FileTypesOK, From
      <4>3. size \in [Inodes -> Nat] /\ cur \in Nat
        BY <1>1, FileTypes DEF FileTypesOK
      <4>4. \A i \in Inodes : Full(i) => Full(i)'
        BY <4>1 DEF Full
      <4>5. \A k \in Nat : From(k)' = From(k)
        BY <4>1 DEF From
      <4>6. HasFile = HasFile'
        BY <4>1 DEF HasFile
      <4>7. NextIsOpen(d) => NextIsOpen(d)'
        BY <4>1 DEF NextIsOpen, Full, HasFile
      <4>8. \A k \in Nat : From(k) <= From(k)'
        BY <4>2, <4>5
      <4> QED BY <4>1, <4>3, <4>4, <4>6, <4>7, <4>8 DEF Grows
    <3> QED BY <1>1, <1>2, <3>1, <3>2, <3>3, <3>4, StillReads DEF IInv, ReadersInv
  <2> QED BY <2>1, <2>2
<1>7. InPlaceInv'
  <2> SUFFICES ASSUME Sound, NEW d \in Clients, NEW s \in Seqs, ProtectedAt(d, s)'
               PROVE  InPlace(d)'
    BY <1>5 DEF InPlaceInv
  <2>1. CASE d = c
    BY <2>1, OwnInPlace
  <2>2. CASE d # c
    <3>1. Still(d) /\ users'[d] = users[d]
      BY <2>2, ClientStill
    <3>2. ProtectedAt(d, s)
      BY <1>1, <3>1 DEF ProtectedAt, Condemned, Still, fs, dvars
    <3>3. InPlace(d)
      BY <3>2 DEF ReadersInv, InPlaceInv
    <3> QED BY <3>1, <3>3 DEF Still, InPlace
  <2> QED BY <2>1, <2>2
<1> QED BY <1>2, <1>3, <1>4, <1>6, <1>7 DEF ReadersInv

\* Nothing happens.
LEMMA StutterReaders == ReadersInv /\ UNCHANGED vars => ReadersInv'
<1> SUFFICES ASSUME ReadersInv, UNCHANGED vars PROVE ReadersInv'
  OBVIOUS
<1>1. UNCHANGED <<dir, current, size, base, nlogged, users, dpc, cur, old, st, cleanup, leftover,
                  cpc, mode, fd, rdlock, tmpfd, seq, asz, pos, csz, num, over, sw, nseq>>
  BY DEF vars, fs, ipc, dvars, cvars, files, offsets, counts, history
<1>2. (RoomInv /\ BaseInv /\ NewestInv /\ StaleInv)'
  BY <1>1 DEF ReadersInv, RoomInv, BaseInv, NewestInv, StaleInv, Stale, HasFile, Intact, From
<1>3. OffsetInv' /\ KilledInv'
  BY <1>1 DEF ReadersInv, OffsetInv, Offsets, KilledInv
<1>4. \A c \in Clients : Reads(c)' = Reads(c)
  BY <1>1 DEF Reads, Counts, Switches, Skips, Within, Available, Due, Full, From, HasFile,
     NextIsOpen, Skipped
<1>5. CountedInv'
  BY <1>1, <1>4 DEF ReadersInv, CountedInv, Sound, Up, Intact
<1>6. InPlaceInv'
  BY <1>1 DEF ReadersInv, InPlaceInv, InPlace, Sound, Up, Intact, ProtectedAt, Condemned
<1> QED BY <1>2, <1>3, <1>5, <1>6 DEF ReadersInv

\* The daemon and its clients keep the invariant of what is read.
THEOREM ReadersInvariance == Spec => []AcctInv
<1>1. Init => AcctInv
  BY InitIInv, InitReaders DEF AcctInv
<1>2. AcctInv /\ [Next]_vars => AcctInv'
  <2> SUFFICES ASSUME AcctInv, [Next]_vars PROVE AcctInv'
    OBVIOUS
  <2>1. IInv /\ IInv' /\ ReadersInv
    BY StepIInv DEF AcctInv
  <2>2. CASE UNCHANGED vars
    BY <2>1, <2>2, StutterReaders DEF AcctInv
  <2>3. CASE Daemon \/ KernelExit \/ DaemonStart \/ DaemonSigTerm \/ DaemonKill
    BY <2>1, <2>3, OthersKeepReaders DEF AcctInv
  <2>4. CASE \E c \in Clients : Client(c) \/ ClientStart(c) \/ ClientEnd(c)
    BY <2>1, <2>4, ClientKeepsReaders DEF AcctInv
  <2> QED BY <2>2, <2>3, <2>4 DEF Next
<1> QED BY <1>1, <1>2, PTL DEF Spec

\* acctphotoproc() makes progress: a client whose file is protected can read what
\* acctprocnt() counted, and switchshadow() finds the next file when it is needed.
THEOREM ReadsComeToAnEnd == Spec => []ReadsEnd
<1>1. AcctInv => ReadsEnd
  <2> SUFFICES ASSUME AcctInv, NEW c \in Clients, Protected(c), Intact, ~leftover
               PROVE  /\ ~Spins(c)
                      /\ cpc[c] = "swlock" /\ sw[c] = 0 => tmpfd[c] # NoInode
    BY DEF ReadsEnd
  <2>1. PICK s \in Seqs : ProtectedAt(c, s)
    BY DEF Protected
  <2>2. Sound /\ users[c] > 0
    BY <2>1 DEF Sound, Up, Protected, ProtectedAt
  <2>3. InPlace(c) /\ Reads(c) /\ Offsets(c)
    BY <2>1, <2>2 DEF AcctInv, ReadersInv, InPlaceInv, CountedInv, OffsetInv
  <2>4. ~Spins(c)
    <3> SUFFICES ASSUME Spins(c) PROVE FALSE
      OBVIOUS
    <3>1. cpc[c] = "read" /\ asz[c] < csz[c] /\ pos[c] >= size[fd[c]]
      BY DEF Spins, AtEof
    <3>2. sw[c] = 0
      BY <2>3, <3>1 DEF Offsets, Ended, AcctInv, IInv, TypeOK, ClientTypeOK, CountsTypeOK
    <3>3. pos[c] = asz[c] /\ csz[c] <= size[fd[c]]
      BY <2>3, <3>1, <3>2 DEF InPlace, InFile, WithFile, Reads, Counts
    <3>4. fd[c] \in Inodes /\ asz[c] \in Int /\ csz[c] \in Int
      BY <3>1 DEF AcctInv, IInv, TypeOK, ClientTypeOK, CountsTypeOK, FilesTypeOK, FdInv, WithFile
    <3>5. size[fd[c]] \in Int
      BY <3>4 DEF AcctInv, IInv, TypeOK, SharedTypeOK
    <3> QED BY <3>1, <3>3, <3>4, <3>5
  <2> QED BY <2>3, <2>4 DEF InPlace
<1> QED BY <1>1, ReadersInvariance, PTL

(***************************************************************************)
(* What the clients read is the log.                                       *)
(***************************************************************************)
\* What makes a client be in step, without its last conjunct, which follows.
AtPlace(c) ==
  /\ Protected(c) /\ Intact /\ ~leftover
  /\ mode[c] = "sample"
  /\ FileSeq(c) \in 0 .. cur
  /\ fd[c] = dir[FileSeq(c)]
  /\ ~Repositioning(c) => pos[c] = asz[c] /\ asz[c] <= size[fd[c]]

\* What the invariant says about such a client.
Placed(c) ==
  /\ Sound /\ users[c] > 0 /\ rdlock[c] /\ HasFile
  /\ fd[c] \in Inodes /\ FileSeq(c) \in old .. cur /\ fd[c] = dir[FileSeq(c)]
  /\ Reads(c) /\ Offsets(c) /\ InPlace(c)
  /\ base[fd[c]] + From(FileSeq(c)) = nlogged
  /\ size[fd[c]] <= From(FileSeq(c)) /\ size[fd[c]] <= MaxShadowRec

PlaceTypes(c) ==
  /\ cpc[c] \in {"off", "stuck"} \cup Registering \cup Sampling \cup Ended
  /\ fd[c] \in Inodes \cup {NoInode} /\ seq[c] \in Nat
  /\ asz[c] \in Int /\ pos[c] \in Int /\ num[c] \in Int /\ over[c] \in Int
  /\ csz[c] \in Int /\ sw[c] \in Int
  /\ nlogged \in Nat /\ size \in [Inodes -> Nat] /\ base \in [Inodes -> Nat]
  /\ cur \in Nat /\ old \in Nat /\ st \in Nat /\ cur \in Seqs
  /\ \A k \in Int : From(k) \in Int /\ From(k - 1) = From(k) + MaxShadowRec

\* The types of these.
LEMMA PlaceTyping ==
  ASSUME TypeOK, NEW c \in Clients
  PROVE  PlaceTypes(c)
<1>1. FileTypesOK
  BY FileTypes
<1>2. ASSUME NEW k \in Int PROVE From(k) \in Int /\ From(k - 1) = From(k) + MaxShadowRec
  BY <1>1 DEF From, FileTypesOK
<1>3. seq[c] \in Nat
  BY DEF TypeOK, ClientTypeOK, FilesTypeOK, Seqs
<1> QED BY <1>1, <1>2, <1>3 DEF PlaceTypes, FileTypesOK, TypeOK, SharedTypeOK, DaemonTypeOK,
           ClientTypeOK, ControlTypeOK, FilesTypeOK, CountsTypeOK

\* A client at its place has the file with its number open, and the log continues there.
LEMMA PlacedFacts ==
  ASSUME AcctInv, NEW c \in Clients, AtPlace(c)
  PROVE  Placed(c)
<1>1. PICK s \in Seqs : ProtectedAt(c, s)
  BY DEF AtPlace, Protected
<1>2. /\ dpc \in Serving /\ rdlock[c] /\ users[c] > 0 /\ s >= old /\ dir[s] = fd[c]
      /\ Sound /\ HasFile /\ Intact
  BY <1>1 DEF AtPlace, Protected, ProtectedAt, Sound, Up, HasFile
<1>3. PlaceTypes(c) /\ IInv /\ ReadersInv
  BY PlaceTyping DEF AcctInv, IInv
<1>4. fd[c] \in Inodes
  BY <1>2, <1>3 DEF IInv, FdInv, PlaceTypes
<1> DEFINE f == FileSeq(c)
<1>5. f \in 0 .. cur /\ f \in Seqs /\ fd[c] = dir[f]
  BY <1>3 DEF AtPlace, PlaceTypes, Seqs
<1>6. f = s
  BY <1>2, <1>4, <1>5 DEF AcctInv, IInv, DirInv
<1>7. f \in old .. cur
  BY <1>2, <1>3, <1>5, <1>6 DEF PlaceTypes
<1> HIDE DEF f
<1>8. base[dir[f]] + From(f) = nlogged
  BY <1>2, <1>3, <1>7 DEF ReadersInv, BaseInv
<1>9. size[fd[c]] <= MaxShadowRec
  BY <1>3, <1>4 DEF ReadersInv, RoomInv
<1>10. size[fd[c]] <= From(f)
  <2>1. CASE f = cur
    <3>1. size[fd[c]] <= st
      BY <1>2, <1>3, <1>5, <1>7, <2>1 DEF ReadersInv, RoomInv, PlaceTypes
    <3>2. From(f) = st
      BY <1>3, <2>1 DEF From, PlaceTypes
    <3> QED BY <3>1, <3>2
  <2>2. CASE f < cur
    <3>1. (cur - f) * MaxShadowRec >= MaxShadowRec
      <4>1. cur - f - 1 \in Nat /\ MaxShadowRec \in Nat
        BY <1>3, <1>5, <2>2 DEF PlaceTypes
      <4>2. (cur - f - 1) * MaxShadowRec \in Nat
        BY <4>1
      <4>3. (cur - f) * MaxShadowRec = (cur - f - 1) * MaxShadowRec + MaxShadowRec
        BY <1>3, <1>5 DEF PlaceTypes
      <4> QED BY <4>1, <4>2, <4>3
    <3>2. From(f) >= MaxShadowRec
      BY <1>3, <1>5, <3>1 DEF From, PlaceTypes
    <3> QED BY <1>3, <1>4, <1>9, <3>2, <1>5 DEF PlaceTypes
  <2> QED BY <1>3, <1>5, <2>1, <2>2 DEF PlaceTypes
<1>11. Reads(c) /\ Offsets(c) /\ InPlace(c)
  BY <1>1, <1>2, <1>3 DEF ReadersInv, CountedInv, OffsetInv, InPlaceInv
<1> QED BY <1>2, <1>4, <1>5, <1>7, <1>8, <1>9, <1>10, <1>11 DEF Placed, f

\* A client that is in step is in the log with all that it has been promised.
LEMMA InLog ==
  ASSUME AcctInv, NEW c \in Clients, AtPlace(c)
  PROVE  /\ InStep(c)
         /\ Position(c) \in Nat /\ Quota(c) \in Nat
         /\ Position(c) + Quota(c) <= nlogged
<1>1. Placed(c) /\ PlaceTypes(c)
  BY PlacedFacts, PlaceTyping DEF AcctInv, IInv
<1> DEFINE f == FileSeq(c)
           b == base[fd[c]]
           z == size[fd[c]]
<1>2. /\ b \in Nat /\ z \in Nat /\ f \in Int /\ From(f) \in Int
      /\ b + From(f) = nlogged /\ z <= From(f) /\ z <= MaxShadowRec
  BY <1>1 DEF Placed, PlaceTypes
<1>3. /\ asz[c] >= 0 /\ pos[c] >= 0 /\ over[c] >= 0 /\ sw[c] >= 0
      /\ Offsets(c) /\ Reads(c)
  BY <1>1 DEF Placed, Offsets
<1>4. CASE ~Repositioning(c)
  <2>1. pos[c] = asz[c] /\ asz[c] <= z /\ Position(c) = b + asz[c] /\ sw[c] = 0 /\ cpc[c] # "seek"
    BY <1>1, <1>3, <1>4 DEF AtPlace, Position, Repositioning, PlaceTypes
  <2>2. CASE cpc[c] \notin {"photo", "read", "swopen", "swlock"}
    <3>1. Quota(c) = 0
      BY <2>2 DEF Quota
    <3> QED BY <1>1, <1>2, <1>3, <2>1, <3>1 DEF PlaceTypes, AtPlace, InStep
  <2>3. CASE cpc[c] \in {"photo", "read", "swopen", "swlock"}
    <3>1. Quota(c) = num[c] /\ num[c] >= 0
      BY <1>3, <2>1, <2>3 DEF Quota, Offsets
    <3>2. asz[c] + num[c] <= From(f)
      <4>1. CASE cpc[c] \in {"photo", "read"}
        <5>1. Available(c, z, Due(c)) \/ (csz[c] <= z /\ Available(c, csz[c], Due(c)))
          BY <1>3, <4>1 DEF Reads, Counts
        <5>2. f = seq[c]
          BY <4>1 DEF FileSeq
        <5> QED BY <1>1, <1>2, <1>3, <5>1, <5>2 DEF Available, Due, PlaceTypes
      <4>2. CASE cpc[c] = "swopen"
        <5>1. Full(fd[c]) /\ asz[c] >= MaxShadowRec /\ MaxShadowRec + Due(c) <= From(seq[c])
          BY <1>3, <2>1, <4>2 DEF Reads, Switches
        <5>2. f = seq[c]
          BY <4>2 DEF FileSeq
        <5>3. asz[c] = MaxShadowRec
          <6>1. asz[c] \in Int /\ asz[c] <= z /\ z <= MaxShadowRec /\ z \in Nat
            BY <1>1, <1>2, <2>1 DEF PlaceTypes
          <6> QED BY <5>1, <6>1
        <5> QED BY <1>1, <1>2, <1>3, <5>1, <5>2, <5>3 DEF Due, PlaceTypes
      <4>3. CASE cpc[c] = "swlock"
        <5>1. Full(fd[c]) /\ asz[c] >= MaxShadowRec /\ Due(c) <= From(seq[c])
          BY <1>3, <2>1, <4>3 DEF Reads, Switches
        <5>2. f = seq[c] - 1
          BY <4>3 DEF FileSeq
        <5>3. asz[c] = MaxShadowRec
          <6>1. asz[c] \in Int /\ asz[c] <= z /\ z <= MaxShadowRec /\ z \in Nat
            BY <1>1, <1>2, <2>1 DEF PlaceTypes
          <6> QED BY <5>1, <6>1
        <5>4. From(f) = From(seq[c]) + MaxShadowRec /\ From(seq[c]) \in Int
          BY <1>1, <5>2 DEF PlaceTypes
        <5> QED BY <1>1, <1>2, <1>3, <5>1, <5>3, <5>4 DEF Due, PlaceTypes
      <4> QED BY <2>3, <4>1, <4>2, <4>3
    <3> QED BY <1>1, <1>2, <1>3, <2>1, <3>1, <3>2 DEF PlaceTypes, AtPlace, InStep
  <2> QED BY <2>2, <2>3
<1>5. CASE Repositioning(c)
  <2>1. Position(c) = b + Skipped(c) /\ Skipped(c) \in Nat
    <3>1. sw[c] \in Nat /\ asz[c] \in Nat /\ MaxShadowRec \in Nat
      BY <1>1, <1>3 DEF PlaceTypes
    <3>2. sw[c] * MaxShadowRec \in Nat
      BY <3>1
    <3> QED BY <1>5, <3>1, <3>2 DEF Position, Skipped
  <2>2. Quota(c) = 0
    BY <1>3, <1>5 DEF Quota, Repositioning
  <2>3. cpc[c] \in {"seek", "swopen", "swlock"}
    <3>1. cpc[c] = "seek" \/ sw[c] > 0
      BY <1>5 DEF Repositioning
    <3>2. cpc[c] \notin Ended \ {"wrapped"}
      <4>1. fd[c] # NoInode /\ rdlock[c] /\ users[c] > 0
        BY <1>1 DEF Placed
      <4>2. cpc[c] \notin Unregistered
        BY <4>1 DEF AcctInv, IInv, FdInv
      <4>3. cpc[c] # "dying"
        BY <1>1, <4>1 DEF AcctInv, ReadersInv, KilledInv, PlaceTypes
      <4> QED BY <4>2, <4>3 DEF Ended, Unregistered
    <3> QED BY <1>3, <3>1, <3>2 DEF Offsets
  <2>4. Skipped(c) <= From(f)
    <3>1. CASE cpc[c] \in {"seek", "swopen"}
      <4>1. f = seq[c]
        BY <3>1 DEF FileSeq
      <4>2. \/ sw[c] = 0 /\ asz[c] <= z
            \/ Full(fd[c]) /\ (Skipped(c) <= MaxShadowRec \/ Skipped(c) <= From(seq[c]))
        BY <1>3, <1>5, <3>1 DEF Reads, Skips, Repositioning
      <4>3. sw[c] = 0 => Skipped(c) = asz[c]
        BY <1>1 DEF Skipped, PlaceTypes
      <4> QED BY <1>1, <1>2, <2>1, <4>1, <4>2, <4>3 DEF Full, PlaceTypes
    <3>2. CASE cpc[c] = "swlock"
      <4>1. f = seq[c] - 1
        BY <3>2 DEF FileSeq
      <4>2. From(f) = From(seq[c]) + MaxShadowRec /\ From(seq[c]) \in Int
        BY <1>1, <4>1 DEF PlaceTypes
      <4>3. Full(fd[c]) /\ (Skipped(c) <= MaxShadowRec \/ Skipped(c) - MaxShadowRec <= From(seq[c]))
        BY <1>3, <1>5, <3>2 DEF Reads, Skips, Repositioning
      <4> QED BY <1>1, <1>2, <2>1, <4>2, <4>3 DEF Full, PlaceTypes
    <3> QED BY <2>3, <3>1, <3>2
  <2> QED BY <1>1, <1>2, <2>1, <2>2, <2>4 DEF PlaceTypes, AtPlace, InStep
<1> QED BY <1>4, <1>5

\* The converse.
LEMMA StepIsPlace ==
  ASSUME NEW c \in Clients, InStep(c)
  PROVE  AtPlace(c)
  BY DEF InStep, AtPlace

\* The daemon begins to serve when it has written `current'.
LEMMA BeginsToServe ==
  ASSUME Daemon \/ KernelExit \/ DaemonStart \/ DaemonSigTerm \/ DaemonKill, dpc' \in Serving
  PROVE  dpc \in Serving \cup {"wrcurrent"}
  BY DEF Daemon, DStep, DRename, DMkShadow, DMkCurrent, DWrCurrent, DRead,
     DReadNothing, DNoRecords, DReactivate, DTruncate, DLock, DCheck, DWrite, DRotate, DWipe,
     DSetCurrent, DRest, DLoop, DGcTry, DGcClose, DGcUnlink, DZero, DStop, DRmShadow, DRmCurrent,
     KernelExit, DaemonStart, DStart, DaemonSigTerm, DSigTerm, DaemonKill, DKill, dvars, Serving

\* A protected file that is neither the oldest nor about to be opened keeps its place.
LEMMA PlaceInLog ==
  ASSUME IInv, NEW c \in Clients, NEW f \in Seqs, AnyKind, fd[c] = dir[f], fd[c] \in Inodes,
         f <= cur, users[c] > 0, users'[c] > 0, dpc' \in Serving
  PROVE  /\ base'[fd[c]] = base[fd[c]]
         /\ f <= cur' /\ cur <= cur'
         /\ ~leftover => ~leftover'
<1>0. FileTypesOK /\ ~NoUsers /\ ~NoUsers' /\ f \in Int
  BY FileTypes DEF IInv, NoUsers, Seqs
<1>1. CASE Halts \/ Begins \/ Renames
  BY <1>0, <1>1 DEF Halts, Begins, Renames, Up, Serving
<1>2. CASE Idles
  BY <1>0, <1>2 DEF Idles, FileTypesOK
<1>3. CASE Unlinks
  BY <1>0, <1>3 DEF Unlinks, FileTypesOK
<1>4. ASSUME NEW n \in Nat, Writes(n) PROVE UNCHANGED <<base, cur, leftover>>
  BY <1>4 DEF Writes
<1>5. ASSUME NEW n \in Seqs, NEW i \in Inodes, Makes(n, i)
      PROVE  base'[fd[c]] = base[fd[c]] /\ cur' = cur + 1 /\ leftover' = leftover
  <2>1. n = cur + 1 /\ cur' = cur + 1 /\ leftover' = leftover
    BY <1>0, <1>5 DEF Makes, Serving
  <2>2. fd[c] # i
    BY <1>0, <1>5, <2>1 DEF Makes, IInv, DirInv, FileTypesOK
  <2> QED BY <1>0, <1>5, <2>1, <2>2 DEF Makes, FileTypesOK
<1> QED BY <1>0, <1>1, <1>2, <1>3, <1>4, <1>5 DEF AnyKind, FileTypesOK

\* Where a client is whose variables and file stay the same.
LEMMA SamePosition ==
  ASSUME NEW c \in Clients, Still(c), base'[fd[c]] = base[fd[c]]
  PROVE  Position(c)' = Position(c) /\ Quota(c)' = Quota(c)
  BY DEF Still, Position, Quota, Repositioning

\* No client gets in step by what the others do, but for the first ones of a daemon.
LEMMA OthersGain ==
  ASSUME AcctInv, AcctInv', NEW c \in Clients, AtPlace(c)', dpc # "wrcurrent",
         Daemon \/ KernelExit \/ DaemonStart \/ DaemonSigTerm \/ DaemonKill
  PROVE  AtPlace(c) /\ Position(c)' = Position(c) /\ Quota(c)' = Quota(c)
<1>0. /\ AnyKind /\ IInv /\ ReadersInv /\ RoomInv' /\ TypeOK'
      /\ UNCHANGED cvars /\ PlaceTypes(c) /\ PlaceTypes(c)'
  <2>1. TypeOK' => PlaceTypes(c)'
    BY PlaceTyping, PTL
  <2> QED BY <2>1, Kinds, DaemonFrame, PlaceTyping DEF AcctInv, IInv, ReadersInv
<1>1. PICK s \in Seqs : ProtectedAt(c, s)'
  BY DEF AtPlace, Protected
<1>2. dpc' \in Serving /\ Up' /\ Sound' /\ users'[c] > 0 /\ rdlock'[c]
  BY <1>1 DEF AtPlace, Protected, ProtectedAt, Sound, Up
<1>3. Sound /\ users[c] > 0 /\ Grows(c)
  BY <1>0, <1>2, KindsGrow DEF IInv, ReadersInv
<1>4. ProtectedAt(c, s) /\ dpc \in Serving
  BY <1>0, <1>1, <1>2, ProtectedBefore, BeginsToServe
<1>5. Protected(c) /\ HasFile
  BY <1>4 DEF Protected, HasFile
<1>6. Still(c)
  BY <1>0 DEF Still, cvars, files, offsets, counts
<1> DEFINE f == FileSeq(c)
<1>7. f' = f /\ Repositioning(c)' = Repositioning(c)
  BY <1>6 DEF Still, FileSeq, Repositioning
<1>8. rdlock[c] /\ fd[c] \in Inodes
  BY <1>0, <1>4 DEF ProtectedAt, IInv, FdInv, PlaceTypes
<1>9. f \in Seqs /\ f >= 0 /\ fd[c] = dir'[f]
  <2>1. cur' \in 0 .. MaxSeq
    BY <1>0 DEF PlaceTypes, Seqs
  <2>2. FileSeq(c)' \in 0 .. cur' /\ fd'[c] = dir'[FileSeq(c)']
    BY DEF AtPlace
  <2>3. FileSeq(c)' = f /\ fd'[c] = fd[c]
    BY <1>6, <1>7 DEF Still
  <2> HIDE DEF f
  <2> QED BY <2>1, <2>2, <2>3 DEF Seqs
<1>10. fd[c] = dir[f]
  BY <1>0, <1>8, <1>9, PathSteps
<1>11. f \in 0 .. cur
  <2>1. HasFile /\ ~leftover /\ f \in Seqs /\ dir[f] \in Inodes /\ f \in Int
    BY <1>3, <1>5, <1>8, <1>9, <1>10 DEF Sound, Seqs
  <2>2. fd[c] # NoInode
    BY <1>0, <1>8 DEF IInv, FdInv
  <2>3. NewestInv /\ cur \in Int
    BY <1>0 DEF ReadersInv, PlaceTypes
  <2>4. f <= cur
    BY <1>10, <2>1, <2>2, <2>3 DEF NewestInv
  <2> QED BY <1>9, <2>1, <2>3, <2>4
<1>12. ASSUME ~Repositioning(c) PROVE pos[c] = asz[c] /\ asz[c] <= size[fd[c]]
  <2>1. pos[c] = asz[c] /\ asz[c] <= size'[fd[c]]
    BY <1>6, <1>7, <1>12 DEF AtPlace, Still
  <2>2. Within(c) /\ Offsets(c)
    BY <1>0, <1>3 DEF ReadersInv, CountedInv, OffsetInv, Reads
  <2>3. cpc[c] # "seek" /\ sw[c] = 0
    <3>1. sw[c] \in Int /\ sw[c] >= 0
      BY <1>0, <2>2 DEF Offsets, PlaceTypes
    <3> QED BY <1>12, <3>1 DEF Repositioning
  <2>4. cpc[c] \notin Unregistered /\ cpc[c] # "dying"
    <3>1. FdInv /\ KilledInv /\ users[c] > 0 /\ rdlock[c]
      BY <1>0, <1>3, <1>8 DEF IInv, ReadersInv
    <3> QED BY <3>1 DEF FdInv, KilledInv
  <2>5. cpc[c] \in InFile
    BY <1>0, <2>3, <2>4 DEF PlaceTypes, InFile, WithFile, Unregistered, Registering, Sampling, Ended
  <2>6. asz[c] <= size[fd[c]] \/ Full(fd[c])
    BY <1>8, <2>2, <2>3, <2>5 DEF Within
  <2>7. size'[fd[c]] <= MaxShadowRec
    BY <1>0, <1>8 DEF RoomInv
  <2>8. asz[c] \in Int /\ size[fd[c]] \in Nat /\ size'[fd[c]] \in Nat
    BY <1>0, <1>8 DEF PlaceTypes
  <2> QED BY <2>1, <2>6, <2>7, <2>8 DEF Full
<1>13. mode[c] = "sample"
  BY <1>6 DEF AtPlace, Still
<1>14. AtPlace(c)
  BY <1>3, <1>5, <1>10, <1>11, <1>12, <1>13 DEF AtPlace, Sound
<1>15. base'[fd[c]] = base[fd[c]]
  BY <1>0, <1>2, <1>3, <1>8, <1>9, <1>10, <1>11, PlaceInLog
<1> QED BY <1>6, <1>14, <1>15, SamePosition

\* Nor does one get out of step whose file stays protected.
LEMMA OthersKeepPlace ==
  ASSUME AcctInv, AcctInv', NEW c \in Clients, AtPlace(c), Protected(c)', Intact',
         Daemon \/ KernelExit \/ DaemonStart \/ DaemonSigTerm \/ DaemonKill
  PROVE  AtPlace(c)'
<1>0. /\ AnyKind /\ IInv /\ ReadersInv /\ RoomInv' /\ TypeOK'
      /\ UNCHANGED cvars /\ PlaceTypes(c) /\ PlaceTypes(c)' /\ Placed(c)
  <2>1. TypeOK' => PlaceTypes(c)'
    BY PlaceTyping, PTL
  <2> QED BY <2>1, Kinds, DaemonFrame, PlaceTyping, PlacedFacts DEF AcctInv, IInv, ReadersInv
<1>1. PICK s \in Seqs : ProtectedAt(c, s)'
  BY DEF Protected
<1>2. dpc' \in Serving /\ Up' /\ users'[c] > 0 /\ dir'[s] = fd'[c]
  BY <1>1 DEF Protected, ProtectedAt, Up
<1>3. Still(c)
  BY <1>0 DEF Still, cvars, files, offsets, counts
<1> DEFINE f == FileSeq(c)
<1>4. f' = f /\ Repositioning(c)' = Repositioning(c)
  BY <1>3 DEF Still, FileSeq, Repositioning
<1>5. f \in Seqs /\ f \in 0 .. cur /\ fd[c] = dir[f] /\ fd[c] \in Inodes /\ users[c] > 0
  BY <1>0 DEF Placed, AtPlace, PlaceTypes, Seqs
<1>6. dir[s] = fd[c]
  BY <1>0, <1>1, <1>2, ProtectedBefore DEF ProtectedAt
<1>7. f = s
  BY <1>0, <1>5, <1>6 DEF IInv, DirInv, PlaceTypes
<1>8. f <= cur' /\ ~leftover'
  BY <1>0, <1>2, <1>5, PlaceInLog DEF AtPlace
<1>9. Sound'
  BY <1>2, <1>8 DEF Sound
<1>10. Grows(c)
  BY <1>0, <1>2, <1>9, KindsGrow DEF IInv, ReadersInv
<1>11. size[fd[c]] <= size'[fd[c]]
  BY <1>5, <1>10 DEF Grows
<1>12. size[fd[c]] \in Nat /\ size'[fd[c]] \in Nat /\ asz[c] \in Int
  BY <1>0, <1>5 DEF PlaceTypes
<1>13. f' \in 0 .. cur' /\ fd'[c] = dir'[f']
  BY <1>0, <1>2, <1>4, <1>5, <1>7, <1>8 DEF PlaceTypes
<1>14. ~Repositioning(c)' => pos'[c] = asz'[c] /\ asz'[c] <= size'[fd'[c]]
  BY <1>3, <1>4, <1>11, <1>12 DEF AtPlace, Still
<1> QED BY <1>3, <1>8, <1>13, <1>14 DEF AtPlace, Still

\* How a client moves in the log in one step: it counts, skips or takes a record.
Moves(c) ==
  \/ Position(c)' = Position(c) /\ (Quota(c)' = Quota(c) \/ Quota(c) = 0)
  \/ Quota(c) = 0 /\ Quota(c)' = 0 /\ Position(c) <= Position(c)'
  \/ Quota(c) > 0 /\ Quota(c)' = Quota(c) - 1 /\ Position(c)' = Position(c) + 1

\* It gives up its lock or its registration.
Lets(c) == ~rdlock'[c] \/ users'[c] = 0

\* It stays where it is, and begins to read at most.
Same(c) ==
  /\ fd'[c] = fd[c] /\ asz'[c] = asz[c] /\ pos'[c] = pos[c] /\ sw'[c] = sw[c]
  /\ mode'[c] = "sample"
  /\ FileSeq(c)' = FileSeq(c)
  /\ Repositioning(c)' <=> Repositioning(c)
  /\ Quota(c)' = Quota(c) \/ Quota(c) = 0

\* A step that leaves all that alone.
LEMMA SamePlace ==
  ASSUME NEW c \in Clients, UNCHANGED <<fs, dvars, history>>, AtPlace(c), Same(c)
  PROVE  Moves(c) /\ (Protected(c)' => AtPlace(c)')
<1>1. UNCHANGED <<dir, size, base, cur, cleanup, leftover>>
  BY DEF fs, dvars, history
<1>2. Position(c)' = Position(c)
  BY <1>1 DEF Same, Position
<1>3. Intact' /\ ~leftover'
  BY <1>1 DEF AtPlace, Intact
<1>4. Protected(c)' => AtPlace(c)'
  BY <1>1, <1>3 DEF Same, AtPlace
<1> QED BY <1>2, <1>4 DEF Same, Moves

\* The steps of the client itself.
LEMMA OwnMoves ==
  ASSUME AcctInv, AcctInv', NEW c \in Clients, Client(c) \/ ClientStart(c) \/ ClientEnd(c),
         AtPlace(c)
  PROVE  /\ AtPlace(c)' => Moves(c)
         /\ Protected(c)' /\ ~Overskips(c) => AtPlace(c)'
<1> DEFINE Result == /\ AtPlace(c)' => Moves(c)
                     /\ Protected(c)' /\ ~Overskips(c) => AtPlace(c)'
<1> SUFFICES Result
  OBVIOUS
<1>0. /\ cpc \in [Clients -> {"off", "stuck"} \cup Registering \cup Sampling \cup Ended]
      /\ mode \in [Clients -> Modes] /\ seq \in [Clients -> 0 .. MaxSeq + 1]
      /\ fd \in [Clients -> Inodes \cup {NoInode}] /\ tmpfd \in [Clients -> Inodes \cup {NoInode}]
      /\ rdlock \in [Clients -> BOOLEAN] /\ users \in [Clients -> Nat]
      /\ asz \in [Clients -> Int] /\ pos \in [Clients -> Int] /\ num \in [Clients -> Int]
      /\ sw \in [Clients -> Int]
  BY DEF AcctInv, IInv, TypeOK, SharedTypeOK, ClientTypeOK, ControlTypeOK, FilesTypeOK, FlagsTypeOK,
         CountsTypeOK
<1>p. Placed(c) /\ PlaceTypes(c) /\ IInv /\ ReadersInv
  BY PlacedFacts, PlaceTyping DEF AcctInv, IInv
<1>1. mode[c] = "sample" /\ fd[c] # NoInode /\ rdlock[c] /\ seq[c] \in Nat
  BY <1>0, <1>p DEF AtPlace, Placed, PlaceTypes
<1>2. cpc[c] \notin Unregistered \cup {"dying"}
  BY <1>1, <1>p DEF Placed, IInv, FdInv, ReadersInv, KilledInv, PlaceTypes, AcctInv, TypeOK,
     SharedTypeOK
<1>3. /\ sw[c] >= 0
      /\ cpc[c] \notin {"seek", "swopen", "swlock"} => sw[c] = 0
      /\ cpc[c] = "swopen" => seq[c] \in Seqs
  <2>1. Offsets(c)
    BY <1>p DEF Placed
  <2>2. cpc[c] = "swopen" => seq[c] \in Seqs
    BY <1>p DEF AtPlace, FileSeq, PlaceTypes, Seqs
  <2>3. cpc[c] \notin Ended \ {"wrapped"}
    BY <1>2 DEF Ended, Unregistered
  <2> QED BY <1>0, <2>1, <2>2, <2>3 DEF Offsets
<1>4. UNCHANGED <<fs, dvars, history>>
  BY ClientFrame
<1>5. UNCHANGED <<dir, size, base, cur, old, st, dpc, cleanup, leftover, nlogged>>
  BY <1>4 DEF fs, dvars, history
<1>6. ASSUME Lets(c) PROVE Result
  <2>1. ~Protected(c)'
    BY <1>6 DEF Lets, Protected, ProtectedAt
  <2> QED BY <2>1 DEF AtPlace
<1>7. ASSUME Same(c) PROVE Result
  BY <1>4, <1>7, SamePlace
<1> HIDE DEF Result
<1>11. CASE CVers(c)
  <2>1. Lets(c) \/ Same(c)
    BY <1>11, <1>0, <1>1, <1>2, <1>3 DEF CVers, Close, Goto, Lets, Same, FileSeq, Repositioning, Quota,
       offsets, counts, files
  <2> QED BY <2>1, <1>6, <1>7
<1>12. CASE CRdLock(c, WLocked)
  <2>1. Lets(c) \/ Same(c)
    BY <1>12, <1>0, <1>1, <1>2, <1>3 DEF CRdLock, Close, Failed, Goto, Lets, Same, FileSeq, Repositioning, Quota,
       offsets, counts, files
  <2> QED BY <2>1, <1>6, <1>7
<1>13. CASE CUnlock(c)
  <2>1. Lets(c) \/ Same(c)
    BY <1>13, <1>0, <1>1, <1>2, <1>3 DEF CUnlock, Goto, Lets, Same, FileSeq, Repositioning, Quota,
       offsets, counts, files
  <2> QED BY <2>1, <1>6, <1>7
<1>14. CASE CSample(c)
  <2>1. Lets(c) \/ Same(c)
    BY <1>14, <1>0, <1>1, <1>2, <1>3 DEF CSample, Goto, Lets, Same, FileSeq, Repositioning, Quota,
       offsets, counts, files
  <2> QED BY <2>1, <1>6, <1>7
<1>15. CASE CStat(c)
  <2>1. Lets(c) \/ Same(c)
    BY <1>15, <1>0, <1>1, <1>2, <1>3 DEF CStat, Close, CountInFile, Counted, Goto, Lets, Same, FileSeq, Repositioning, Quota,
       offsets, counts, files
  <2> QED BY <2>1, <1>6, <1>7
<1>16. CASE CRestat(c)
  <2>1. Lets(c) \/ Same(c)
    BY <1>16, <1>0, <1>1, <1>2, <1>3 DEF CRestat, CountInFile, Counted, Goto, Lets, Same, FileSeq, Repositioning, Quota,
       offsets, counts, files
  <2> QED BY <2>1, <1>6, <1>7
<1>17. CASE CCount(c)
  <2>1. Lets(c) \/ Same(c)
    BY <1>17, <1>0, <1>1, <1>2, <1>3 DEF CCount, Counted, Goto, Lets, Same, FileSeq, Repositioning, Quota,
       offsets, counts, files
  <2> QED BY <2>1, <1>6, <1>7
<1>18. CASE CStatNew(c)
  <2>1. Lets(c) \/ Same(c)
    BY <1>18, <1>0, <1>1, <1>2, <1>3 DEF CStatNew, Counted, Goto, Lets, Same, FileSeq, Repositioning, Quota,
       offsets, counts, files
  <2> QED BY <2>1, <1>6, <1>7
<1>19. CASE CPhoto(c)
  <2>1. Lets(c) \/ Same(c)
    BY <1>19, <1>0, <1>1, <1>2, <1>3 DEF CPhoto, Goto, Lets, Same, FileSeq, Repositioning, Quota,
       offsets, counts, files
  <2> QED BY <2>1, <1>6, <1>7
<1>20. CASE CReadEnd(c)
  <2>1. Lets(c) \/ Same(c)
    BY <1>20, <1>0, <1>1, <1>2, <1>3 DEF CReadEnd, Goto, Lets, Same, FileSeq, Repositioning, Quota,
       offsets, counts, files
  <2> QED BY <2>1, <1>6, <1>7
<1>21. CASE CReadSwitch(c)
  <2>1. Lets(c) \/ Same(c)
    BY <1>21, <1>0, <1>1, <1>2, <1>3 DEF CReadSwitch, Goto, Lets, Same, FileSeq, Repositioning, Quota,
       offsets, counts, files
  <2> QED BY <2>1, <1>6, <1>7
<1>22. CASE CSwitchOpen(c)
  <2>1. Lets(c) \/ Same(c)
    BY <1>22, <1>0, <1>1, <1>2, <1>3 DEF CSwitchOpen, NextSeq, Goto, Lets, Same, FileSeq, Repositioning, Quota,
       offsets, counts, files
  <2> QED BY <2>1, <1>6, <1>7
<1>23. CASE CQuit(c)
  <2>1. Lets(c) \/ Same(c)
    BY <1>23, <1>0, <1>1, <1>2, <1>3 DEF CQuit, Close, Goto, Lets, Same, FileSeq, Repositioning, Quota,
       offsets, counts, files
  <2> QED BY <2>1, <1>6, <1>7
<1>24. CASE CKill(c)
  <2>1. Lets(c) \/ Same(c)
    BY <1>24, <1>0, <1>1, <1>2, <1>3 DEF CKill, SemUndo, Goto, Lets, Same, FileSeq, Repositioning, Quota,
       offsets, counts, files
  <2> QED BY <2>1, <1>6, <1>7
<1>30. CASE CStart(c) \/ CLock(c) \/ CReadCurrent(c) \/ COpen(c) \/ CExit(c) \/ CFilesClosed(c)
  BY <1>30, <1>2 DEF CStart, CLock, CReadCurrent, COpen, CExit, CFilesClosed, Unregistered
<1> DEFINE b == base[fd[c]]
           f == FileSeq(c)
<1>31. /\ b \in Nat /\ f \in old .. cur /\ f \in Seqs /\ fd[c] = dir[f] /\ fd[c] \in Inodes
       /\ size[fd[c]] \in Nat /\ size[fd[c]] <= MaxShadowRec
       /\ ~leftover' /\ Intact' /\ Intact
       /\ Reads(c) /\ Offsets(c) /\ InPlace(c) /\ HasFile /\ users[c] > 0
  BY <1>5, <1>p DEF Placed, PlaceTypes, AtPlace, Intact, Seqs
<1>32. CASE CReadRecord(c)
  <2>1. /\ cpc[c] = "read" /\ num[c] > 0 /\ asz[c] < csz[c]
        /\ num' = [num EXCEPT ![c] = @ - 1] /\ asz' = [asz EXCEPT ![c] = @ + 1]
        /\ pos' = [pos EXCEPT ![c] = IF AtEof(c) THEN @ ELSE @ + 1]
        /\ UNCHANGED <<cpc, mode, seq, fd, sw>>
    BY <1>32 DEF CReadRecord, files
  <2>2. pos[c] = asz[c] /\ csz[c] <= size[fd[c]] /\ sw[c] = 0
    BY <1>3, <1>31, <2>1 DEF InPlace, InFile, WithFile, Reads, Counts
  <2>3. pos'[c] = pos[c] + 1 /\ asz'[c] = asz[c] + 1 /\ num'[c] = num[c] - 1 /\ asz'[c] <= size[fd[c]]
    BY <1>0, <1>p, <1>31, <2>1, <2>2 DEF AtEof, PlaceTypes
  <2>4. /\ Position(c) = b + pos[c] /\ Position(c)' = b + pos'[c]
        /\ Quota(c) = num[c] /\ Quota(c)' = num'[c] /\ f' = f
    BY <1>0, <1>5, <2>1, <2>2 DEF Position, Quota, Repositioning, FileSeq
  <2>5. Moves(c)
    BY <1>0, <1>31, <2>1, <2>3, <2>4 DEF Moves
  <2>6. Protected(c)' => AtPlace(c)'
    BY <1>0, <1>1, <1>5, <1>31, <2>1, <2>2, <2>3, <2>4 DEF AtPlace, FileSeq
  <2> QED BY <2>5, <2>6 DEF Result
<1>33. CASE CRepos(c)
  <2>1. /\ cpc[c] = "repos" /\ cpc'[c] = "seek"
        /\ sw' = [sw EXCEPT ![c] = (asz[c] + over[c]) \div MaxShadowRec]
        /\ asz' = [asz EXCEPT ![c] = (asz[c] + over[c]) % MaxShadowRec]
        /\ UNCHANGED <<mode, seq, fd, pos, num>>
    BY <1>0, <1>33 DEF CRepos, Goto, files
  <2>2. pos[c] = asz[c] /\ sw[c] = 0 /\ asz[c] \in Nat /\ over[c] \in Nat
    BY <1>3, <1>31, <1>p, <2>1 DEF InPlace, InFile, WithFile, Offsets, PlaceTypes
  <2>3. /\ sw'[c] = (asz[c] + over[c]) \div MaxShadowRec
        /\ asz'[c] = (asz[c] + over[c]) % MaxShadowRec
    BY <1>0, <2>1
  <2>4. sw'[c] * MaxShadowRec + asz'[c] = asz[c] + over[c] /\ sw'[c] \in Nat
    <3> DEFINE a == asz[c] + over[c]
    <3>1. a \in Nat
      BY <2>2
    <3>2. sw'[c] = a \div MaxShadowRec /\ asz'[c] = a % MaxShadowRec
      BY <2>3
    <3> HIDE DEF a
    <3>3. a \div MaxShadowRec \in Nat /\ a = (a \div MaxShadowRec) * MaxShadowRec + (a % MaxShadowRec)
      BY <3>1, DivMod
    <3>4. sw'[c] \in Nat /\ a = sw'[c] * MaxShadowRec + asz'[c]
      BY <3>2, <3>3
    <3> QED BY <3>4 DEF a
  <2>5. Position(c) = b + asz[c] /\ Position(c)' = b + (sw'[c] * MaxShadowRec + asz'[c])
    BY <1>5, <2>1, <2>2 DEF Position, Repositioning
  <2>6. Quota(c) = 0 /\ Quota(c)' = 0 /\ f' = f /\ Repositioning(c)'
    BY <2>1 DEF Quota, FileSeq, Repositioning
  <2>7. Moves(c)
    BY <1>31, <2>2, <2>4, <2>5, <2>6 DEF Moves
  <2>8. Protected(c)' => AtPlace(c)'
    BY <1>1, <1>5, <1>31, <2>1, <2>6 DEF AtPlace
  <2> QED BY <2>7, <2>8 DEF Result
<1>34. CASE CSeek(c)
  <2>1. cpc[c] = "seek" /\ UNCHANGED <<mode, seq, fd, asz, num, sw>>
    BY <1>34 DEF CSeek, files, counts
  <2>2. CASE sw[c] > 0
    <3>1. cpc'[c] = "swopen" /\ UNCHANGED pos
      BY <1>0, <1>3, <1>34, <2>2 DEF CSeek, Goto
    <3>2. Same(c)
      BY <1>1, <2>1, <2>2, <3>1 DEF Same, FileSeq, Repositioning, Quota
    <3> QED BY <1>7, <3>2
  <2>3. CASE sw[c] = 0
    <3>1. cpc'[c] = "run" /\ pos'[c] = asz[c]
      BY <1>0, <1>34, <2>3 DEF CSeek, Goto
    <3>2. asz[c] <= size[fd[c]]
      BY <1>31, <2>1, <2>3, <1>p DEF Reads, Skips, Full, Offsets, PlaceTypes
    <3>3. Position(c) = b + (0 * MaxShadowRec + asz[c]) /\ Position(c)' = b + asz[c]
      BY <1>5, <2>1, <2>3, <3>1 DEF Position, Repositioning
    <3>4. Position(c) = Position(c)'
      BY <1>p, <1>31, <3>3 DEF PlaceTypes
    <3>5. Quota(c) = 0 /\ f' = f
      BY <2>1, <3>1 DEF Quota, FileSeq
    <3>6. Protected(c)' => AtPlace(c)'
      BY <1>1, <1>5, <1>31, <2>1, <3>1, <3>2, <3>5 DEF AtPlace
    <3> QED BY <3>4, <3>5, <3>6 DEF Moves, Result
  <2> QED BY <1>0, <1>3, <2>2, <2>3
<1>35. CASE CSwitchLock(c, WLocked)
  <2>1. cpc[c] = "swlock" /\ UNCHANGED <<mode, seq, num>> /\ f = seq[c] - 1
    BY <1>35 DEF CSwitchLock, FileSeq
  <2>2. /\ sw[c] > 0 => cpc'[c] = "seek" /\ sw'[c] = sw[c] - 1 /\ asz'[c] = asz[c]
        /\ sw[c] = 0 => cpc'[c] = "read" /\ sw'[c] = 0 /\ asz'[c] = 0
    BY <1>0, <1>35 DEF CSwitchLock, Switched, Goto
  <2>3. FileSeq(c)' = seq[c]
    BY <1>0, <1>3, <2>1, <2>2 DEF FileSeq
  <2>4. \/ tmpfd[c] # NoInode /\ tmpfd[c] \notin WLocked /\ fd'[c] = tmpfd[c] /\ pos'[c] = 0
        \/ (tmpfd[c] = NoInode \/ tmpfd[c] \in WLocked) /\ fd'[c] = fd[c]
    BY <1>0, <1>35 DEF CSwitchLock
  <2>5. tmpfd[c] # NoInode => seq[c] \in Seqs /\ dir[seq[c]] = tmpfd[c]
    <3>1. PICK s \in Seqs : ProtectedAt(c, s)
      BY DEF AtPlace, Protected
    <3> QED BY <1>p, <2>1, <3>1 DEF Placed, Sound, IInv, NextFileInv
  <2>6. tmpfd[c] \notin WLocked
    <3> SUFFICES ASSUME tmpfd[c] \in WLocked PROVE FALSE
      OBVIOUS
    <3>1. dpc = "held" /\ tmpfd[c] = dir[old]
      BY DEF WLocked
    <3>2. old \in Seqs /\ dir[old] # NoInode
      BY <1>p, <1>31, <3>1 DEF PlaceTypes, IInv, SeqInv, FilesInv, Seqs, Serving, GcLimit
    <3>3. seq[c] = old
      BY <1>p, <2>5, <3>1, <3>2 DEF IInv, DirInv
    <3> QED BY <1>31, <2>1, <3>3, <1>p DEF PlaceTypes
  <2>7. CASE tmpfd[c] = NoInode
    <3>1. fd'[c] = fd[c]
      BY <2>4, <2>7
    <3>2. ~AtPlace(c)'
      <4> SUFFICES ASSUME AtPlace(c)' PROVE FALSE
        OBVIOUS
      <4>1. seq[c] \in 0 .. cur /\ dir[seq[c]] = fd[c]
        BY <1>5, <2>3, <3>1 DEF AtPlace
      <4>2. seq[c] \in Seqs
        BY <1>p, <4>1 DEF PlaceTypes, Seqs
      <4>3. seq[c] = f
        BY <1>p, <1>1, <1>31, <4>1, <4>2 DEF IInv, DirInv
      <4> QED BY <1>1, <2>1, <4>3
    <3>3. Overskips(c)
      <4>1. sw[c] # 0
        BY <1>31, <2>1, <2>7 DEF InPlace
      <4> QED BY <1>0, <1>3, <2>1, <2>7, <4>1 DEF Overskips
    <3> QED BY <3>2, <3>3 DEF Result
  <2>8. CASE tmpfd[c] # NoInode
    <3>1. fd'[c] = tmpfd[c] /\ pos'[c] = 0 /\ seq[c] \in Seqs /\ dir[seq[c]] = tmpfd[c]
      BY <2>4, <2>5, <2>6, <2>8
    <3>2. sw[c] = 0 => asz[c] = MaxShadowRec /\ pos[c] = MaxShadowRec /\ seq[c] <= cur
      <4> SUFFICES ASSUME sw[c] = 0 PROVE asz[c] = MaxShadowRec /\ pos[c] = MaxShadowRec /\ seq[c] <= cur
        OBVIOUS
      <4>1. Full(fd[c]) /\ asz[c] >= MaxShadowRec /\ seq[c] <= cur
        BY <1>31, <2>1, <2>8 DEF Reads, Switches, NextIsOpen
      <4>2. pos[c] = asz[c] /\ asz[c] <= size[fd[c]]
        BY <2>1 DEF AtPlace, Repositioning
      <4>3. asz[c] \in Int /\ size[fd[c]] \in Nat /\ size[fd[c]] = MaxShadowRec
        BY <1>0, <1>31, <4>1 DEF Full
      <4> QED BY <4>1, <4>2, <4>3
    <3>3. seq[c] <= cur => base[tmpfd[c]] = b + MaxShadowRec
      <4>1. f \in old .. cur - 1 \/ ~(seq[c] <= cur)
        BY <1>p, <1>1, <1>31, <2>1 DEF PlaceTypes
      <4>2. f + 1 = seq[c]
        BY <1>1, <2>1
      <4> HIDE DEF f
      <4>3. f \in old .. cur - 1 => size[dir[f]] = MaxShadowRec /\ base[dir[f + 1]] = base[dir[f]] + size[dir[f]]
        BY <1>p, <1>31 DEF IInv, FilesInv
      <4> QED BY <1>31, <3>1, <4>1, <4>2, <4>3
    <3>4. ASSUME seq[c] <= cur PROVE Moves(c)
      <4>1. CASE sw[c] > 0
        <5>1. /\ Position(c) = b + (sw[c] * MaxShadowRec + asz[c])
              /\ Position(c)' = base[tmpfd[c]] + (sw'[c] * MaxShadowRec + asz'[c])
              /\ Quota(c) = 0
          BY <1>5, <2>1, <2>2, <3>1, <4>1 DEF Position, Repositioning, Quota
        <5>2. sw[c] * MaxShadowRec = (sw[c] - 1) * MaxShadowRec + MaxShadowRec
          BY <1>p DEF PlaceTypes
        <5>3. (sw[c] - 1) * MaxShadowRec \in Int
          BY <1>p DEF PlaceTypes
        <5>4. Position(c)' = Position(c)
          BY <1>p, <1>31, <2>2, <3>3, <3>4, <4>1, <5>1, <5>2, <5>3 DEF PlaceTypes
        <5> QED BY <5>1, <5>4 DEF Moves
      <4>2. CASE sw[c] = 0
        <5>1. Position(c) = b + pos[c] /\ Position(c)' = base[tmpfd[c]] + pos'[c]
          BY <1>5, <2>1, <2>2, <3>1, <4>2 DEF Position, Repositioning
        <5>2. Position(c)' = Position(c)
          BY <1>31, <3>1, <3>2, <3>3, <3>4, <4>2, <5>1
        <5>3. Quota(c)' = Quota(c)
          BY <2>1, <2>2, <4>2 DEF Quota
        <5> QED BY <5>2, <5>3 DEF Moves
      <4> QED BY <1>0, <1>3, <4>1, <4>2
    <3>5. AtPlace(c)' => seq[c] <= cur
      BY <1>5, <2>3 DEF AtPlace
    <3>6. ~Overskips(c) => seq[c] <= cur
      BY <1>0, <1>1, <1>3, <1>p, <2>1, <3>2 DEF Overskips, PlaceTypes
    <3>7. ASSUME seq[c] <= cur, Protected(c)' PROVE AtPlace(c)'
      <4>1. ~Repositioning(c)' => pos'[c] = asz'[c] /\ asz'[c] <= size'[fd'[c]]
        <5>1. ~Repositioning(c)' => sw[c] = 0
          BY <1>0, <1>3, <2>2 DEF Repositioning
        <5>2. tmpfd[c] \in Inodes /\ size[tmpfd[c]] >= 0
          BY <1>0, <1>p, <2>8 DEF PlaceTypes
        <5> QED BY <1>5, <2>2, <3>1, <5>1, <5>2
      <4>2. FileSeq(c)' \in 0 .. cur' /\ fd'[c] = dir'[FileSeq(c)'] /\ mode'[c] = "sample"
        BY <1>1, <1>5, <2>1, <2>3, <3>1, <3>7
      <4> QED BY <1>31, <3>7, <4>1, <4>2 DEF AtPlace
    <3> QED BY <3>4, <3>5, <3>6, <3>7 DEF Result
  <2> QED BY <2>7, <2>8
<1> QED BY <1>11, <1>12, <1>13, <1>14, <1>15, <1>16, <1>17, <1>18, <1>19, <1>20, <1>21, <1>22, <1>23, <1>24, <1>30, <1>32, <1>33, <1>34, <1>35 DEF Client, ClientStart, ClientEnd, CStep

\* The other clients stay where they are.
LEMMA OtherPlaces ==
  ASSUME IInv, NEW c \in Clients, Client(c) \/ ClientStart(c) \/ ClientEnd(c),
         NEW d \in Clients, d # c
  PROVE  /\ AtPlace(d)' <=> AtPlace(d)
         /\ Position(d)' = Position(d) /\ Quota(d)' = Quota(d)
<1>1. Still(d) /\ users'[d] = users[d]
  BY ClientStill
<1>2. UNCHANGED <<dir, size, base, cur, old, dpc, cleanup, leftover>>
  BY ClientFrame DEF fs, dvars, history
<1>3. FileSeq(d)' = FileSeq(d) /\ (Repositioning(d)' <=> Repositioning(d))
  BY <1>1 DEF Still, FileSeq, Repositioning
<1>4. \A s \in Seqs : ProtectedAt(d, s)' <=> ProtectedAt(d, s)
  BY <1>1, <1>2 DEF Still, ProtectedAt, Condemned
<1>5. Protected(d)' <=> Protected(d)
  BY <1>2, <1>4 DEF Protected
<1>6. AtPlace(d)' <=> AtPlace(d)
  BY <1>1, <1>2, <1>3, <1>5 DEF AtPlace, Still, Intact
<1> QED BY <1>1, <1>2, <1>6, SamePosition

\* What a client in step has been promised is in the log.
Promised(c) ==
  Position(c) \in Nat /\ Quota(c) \in Nat /\ Position(c) + Quota(c) <= nlogged

LEMMA StepPlaces ==
  ASSUME AcctInv, NEW c \in Clients
  PROVE  (InStep(c) <=> AtPlace(c)) /\ (InStep(c) => Promised(c))
  BY InLog, StepIsPlace DEF Promised

\* The log grows only when a batch is passed to a shadow file; nobody loses it then.
LEMMA LogGrows ==
  ASSUME AcctInv, AcctInv', nlogged' # nlogged,
         Daemon \/ KernelExit \/ DaemonStart \/ DaemonSigTerm \/ DaemonKill
  PROVE  /\ nlogged' \in Nat /\ nlogged' > nlogged
         /\ dpc # "wrcurrent"
         /\ \A c \in Clients : AtPlace(c) => AtPlace(c)'
<1>1. dpc \in {"write", "rest"} /\ dpc' \in {"rotate", "loop"}
  BY DEF Daemon, DStep, DRename, DMkShadow, DMkCurrent, DWrCurrent, DRead,
     DReadNothing, DNoRecords, DReactivate, DTruncate, DLock, DCheck, DWrite, DRotate, DWipe,
     DSetCurrent, DRest, DLoop, DGcTry, DGcClose, DGcUnlink, DZero, DStop, DRmShadow, DRmCurrent,
     KernelExit, DaemonStart, DStart, DaemonSigTerm, DSigTerm, DaemonKill, DKill, fs, Unlink
<1>2. AnyKind /\ UNCHANGED cvars /\ nlogged \in Nat /\ nlogged' \in Nat
  BY Kinds, DaemonFrame DEF AcctInv, IInv, TypeOK, SharedTypeOK
<1>3. PICK n \in Nat : Writes(n)
  BY <1>1, <1>2 DEF AnyKind, Halts, Begins, Renames, Idles, Unlinks, Makes, Up, Serving
<1>4. nlogged' = nlogged + n /\ UNCHANGED <<dir, old, users, cleanup>>
  BY <1>3 DEF Writes
<1>5. ASSUME NEW c \in Clients, AtPlace(c) PROVE AtPlace(c)'
  <2>1. PICK s \in Seqs : ProtectedAt(c, s)
    BY <1>5 DEF AtPlace, Protected
  <2>2. UNCHANGED <<rdlock, fd>>
    BY <1>2 DEF cvars, files
  <2>3. ProtectedAt(c, s)'
    BY <1>1, <1>4, <2>1, <2>2 DEF ProtectedAt, Condemned
  <2>4. Protected(c)' /\ Intact'
    BY <1>1, <1>4, <1>5, <2>3 DEF Protected, Intact, AtPlace, Serving
  <2> QED BY <1>5, <2>4, OthersKeepPlace
<1> QED BY <1>1, <1>2, <1>4, <1>5

(***************************************************************************)
(* The steps of the log that the steps of the system implement.            *)
(***************************************************************************)
\* Some readers lose the log.
LEMMA Detaches ==
  ASSUME nlogged' = nlogged,
         \A c \in Clients : InStep(c)' => /\ InStep(c) /\ Position(c)' = Position(c)
                                          /\ Quota(c)' = Quota(c)
  PROVE  Log!StreamNext
<1> DEFINE R == {c \in Clients : ~InStep(c)'}
<1>1. R \in SUBSET Clients
  OBVIOUS
<1>2. [c \in Clients |-> IF InStep(c)' THEN Position(c)' ELSE -1]
        = [c \in Clients |-> IF c \in R THEN -1 ELSE [d \in Clients |-> IF InStep(d) THEN Position(d) ELSE -1][c]]
  OBVIOUS
<1>3. [c \in Clients |-> IF InStep(c)' THEN Quota(c)' ELSE 0]
        = [c \in Clients |-> IF c \in R THEN 0 ELSE [d \in Clients |-> IF InStep(d) THEN Quota(d) ELSE 0][c]]
  OBVIOUS
<1> HIDE DEF R
<1>4. Log!Detach
  BY <1>1, <1>2, <1>3 DEF Log!Detach, Log!Detached
<1> QED BY <1>4 DEF Log!StreamNext

\* Some readers find the log.
LEMMA Attaches ==
  ASSUME nlogged' = nlogged, nlogged \in Nat,
         \A c \in Clients : InStep(c)' =>
           \/ /\ ~InStep(c)
              /\ Position(c)' \in Nat /\ Quota(c)' \in Nat /\ Position(c)' + Quota(c)' <= nlogged
           \/ InStep(c) /\ Position(c)' = Position(c) /\ Quota(c)' = Quota(c),
         \A c \in Clients : InStep(c) => InStep(c)'
  PROVE  Log!StreamNext
<1> DEFINE R == {c \in Clients : InStep(c)' /\ ~InStep(c)}
           p == [c \in Clients |-> IF c \in R THEN Position(c)' ELSE 0]
           q == [c \in Clients |-> IF c \in R THEN Quota(c)' ELSE 0]
<1>1. R \in SUBSET Clients /\ p \in [Clients -> 0 .. nlogged] /\ q \in [Clients -> 0 .. nlogged]
  <2>1. \A c \in R : Position(c)' \in 0 .. nlogged /\ Quota(c)' \in 0 .. nlogged
    OBVIOUS
  <2> HIDE DEF R
  <2> QED BY <2>1 DEF R
<1>2. \A r \in R : ~Log!Attached(r) /\ p[r] + q[r] <= nlogged
  BY DEF Log!Attached, Log!Detached
<1>3. [c \in Clients |-> IF InStep(c)' THEN Position(c)' ELSE -1]
        = [c \in Clients |-> IF c \in R THEN p[c] ELSE [d \in Clients |-> IF InStep(d) THEN Position(d) ELSE -1][c]]
  OBVIOUS
<1>4. [c \in Clients |-> IF InStep(c)' THEN Quota(c)' ELSE 0]
        = [c \in Clients |-> IF c \in R THEN q[c] ELSE [d \in Clients |-> IF InStep(d) THEN Quota(d) ELSE 0][c]]
  OBVIOUS
<1> HIDE DEF R, p, q
<1>5. Log!Attach
  BY <1>1, <1>2, <1>3, <1>4, ZenonT(60) DEF Log!Attach
<1> QED BY <1>5 DEF Log!StreamNext

\* A client in step counts, skips or takes a record, or nothing happens in the log.
LEMMA ReaderMoves ==
  ASSUME nlogged' = nlogged, nlogged \in Nat, NEW c \in Clients,
         InStep(c), InStep(c)', Moves(c),
         Position(c) \in Nat, Quota(c) \in Nat, Position(c)' \in Nat, Quota(c)' \in Nat,
         Position(c)' + Quota(c)' <= nlogged,
         \A d \in Clients \ {c} :
           (InStep(d)' <=> InStep(d)) /\ Position(d)' = Position(d) /\ Quota(d)' = Quota(d)
  PROVE  Log!StreamNext \/ UNCHANGED Log!stream
<1> DEFINE cursor == [d \in Clients |-> IF InStep(d) THEN Position(d) ELSE -1]
           quota == [d \in Clients |-> IF InStep(d) THEN Quota(d) ELSE 0]
           cursorN == [d \in Clients |-> IF InStep(d)' THEN Position(d)' ELSE -1]
           quotaN == [d \in Clients |-> IF InStep(d)' THEN Quota(d)' ELSE 0]
<1>1. cursorN = [cursor EXCEPT ![c] = Position(c)']
  OBVIOUS
<1>2. quotaN = [quota EXCEPT ![c] = Quota(c)']
  OBVIOUS
<1>3. cursor[c] = Position(c) /\ quota[c] = Quota(c) /\ cursor[c] # -1
  OBVIOUS
<1>4. CASE Position(c)' = Position(c) /\ Quota(c)' = Quota(c)
  <2>1. cursorN = cursor /\ quotaN = quota
    BY <1>4
  <2> QED BY <2>1 DEF Log!stream
<1>5. CASE Position(c)' = Position(c) /\ Quota(c) = 0 /\ Quota(c)' # 0
  <2>1. Quota(c)' \in 1 .. nlogged - Position(c)
    BY <1>5
  <2>2. Log!Count(c)
    BY <1>1, <1>2, <1>3, <1>5, <2>1 DEF Log!Count, Log!Place, Log!Attached, Log!Detached
  <2> QED BY <2>2 DEF Log!StreamNext
<1>6. CASE Quota(c) = 0 /\ Quota(c)' = 0 /\ Position(c) <= Position(c)'
  <2>1. Position(c)' \in Position(c) .. nlogged
    BY <1>6
  <2>2. Log!Skip(c)
    BY <1>1, <1>2, <1>3, <1>6, <2>1 DEF Log!Skip, Log!Place, Log!Attached, Log!Detached
  <2> QED BY <2>2 DEF Log!StreamNext
<1>7. CASE Quota(c) > 0 /\ Quota(c)' = Quota(c) - 1 /\ Position(c)' = Position(c) + 1
  <2>1. Log!Take(c)
    BY <1>1, <1>2, <1>3, <1>7 DEF Log!Take, Log!Place, Log!Attached, Log!Detached
  <2> QED BY <2>1 DEF Log!StreamNext
<1> QED BY <1>4, <1>5, <1>6, <1>7 DEF Moves

\* Every step of the system is one of the log, or changes nothing there.
LEMMA StreamStep ==
  ASSUME AcctInv, AcctInv', [Next]_vars
  PROVE  Log!StreamNext \/ UNCHANGED Log!stream
<1>0. nlogged \in Nat
  BY DEF AcctInv, IInv, TypeOK, SharedTypeOK
<1>1. \A c \in Clients :
        /\ InStep(c) <=> AtPlace(c)
        /\ InStep(c)' <=> AtPlace(c)'
        /\ InStep(c) => Promised(c)
        /\ InStep(c)' => Promised(c)'
  <2> SUFFICES ASSUME NEW c \in Clients
               PROVE  /\ InStep(c) <=> AtPlace(c)
                      /\ InStep(c)' <=> AtPlace(c)'
                      /\ InStep(c) => Promised(c)
                      /\ InStep(c)' => Promised(c)'
    OBVIOUS
  <2>1. AcctInv' => (InStep(c)' <=> AtPlace(c)') /\ (InStep(c)' => Promised(c)')
    BY StepPlaces, PTL
  <2> QED BY <2>1, StepPlaces
<1>2. CASE Daemon \/ KernelExit \/ DaemonStart \/ DaemonSigTerm \/ DaemonKill
  <2>1. ASSUME dpc # "wrcurrent"
        PROVE  \A c \in Clients : InStep(c)' => /\ InStep(c) /\ Position(c)' = Position(c)
                                                /\ Quota(c)' = Quota(c)
    BY <1>1, <1>2, <2>1, OthersGain
  <2>2. CASE nlogged' # nlogged
    <3>1. /\ nlogged' \in Nat /\ nlogged' > nlogged /\ dpc # "wrcurrent"
          /\ \A c \in Clients : InStep(c) => InStep(c)'
      BY <1>1, <1>2, <2>2, LogGrows
    <3>2. [c \in Clients |-> IF InStep(c)' THEN Position(c)' ELSE -1]
            = [c \in Clients |-> IF InStep(c) THEN Position(c) ELSE -1]
      BY <2>1, <3>1
    <3>3. [c \in Clients |-> IF InStep(c)' THEN Quota(c)' ELSE 0]
            = [c \in Clients |-> IF InStep(c) THEN Quota(c) ELSE 0]
      BY <2>1, <3>1
    <3>4. Log!Grow
      BY <3>1, <3>2, <3>3 DEF Log!Grow
    <3> QED BY <3>4 DEF Log!StreamNext
  <2>3. CASE nlogged' = nlogged /\ dpc # "wrcurrent"
    BY <2>1, <2>3, Detaches
  <2>4. CASE nlogged' = nlogged /\ dpc = "wrcurrent"
    <3>1. \A c \in Clients : ~InStep(c)
      BY <2>4 DEF InStep, Protected, Serving
    <3> QED BY <1>0, <1>1, <2>4, <3>1, Attaches DEF Promised
  <2> QED BY <2>2, <2>3, <2>4
<1>3. ASSUME NEW c \in Clients, Client(c) \/ ClientStart(c) \/ ClientEnd(c)
      PROVE  Log!StreamNext \/ UNCHANGED Log!stream
  <2>1. nlogged' = nlogged
    BY <1>3, ClientFrame DEF fs
  <2>2. \A d \in Clients \ {c} :
          (InStep(d)' <=> InStep(d)) /\ Position(d)' = Position(d) /\ Quota(d)' = Quota(d)
    BY <1>1, <1>3, OtherPlaces DEF AcctInv
  <2>3. CASE ~InStep(c)'
    BY <2>1, <2>2, <2>3, Detaches
  <2>4. CASE ~InStep(c) /\ InStep(c)'
    BY <1>0, <1>1, <2>1, <2>2, <2>4, Attaches DEF Promised
  <2>5. CASE InStep(c) /\ InStep(c)'
    <3>1. Moves(c)
      BY <1>1, <1>3, <2>5, OwnMoves
    <3> QED BY <1>0, <1>1, <2>1, <2>2, <2>5, <3>1, ReaderMoves DEF Promised
  <2> QED BY <2>3, <2>4, <2>5
<1>4. CASE UNCHANGED vars
  <2>1. UNCHANGED <<dir, base, nlogged, users, dpc, cur, old, cleanup, leftover,
                    cpc, mode, fd, rdlock, seq, asz, pos, num, sw, size>>
    BY <1>4 DEF vars, fs, ipc, dvars, cvars, files, offsets, counts, history
  <2>2. \A c \in Clients : Position(c)' = Position(c) /\ Quota(c)' = Quota(c)
    BY <2>1 DEF Position, Quota, Repositioning
  <2>3. \A c \in Clients : Protected(c)' <=> Protected(c)
    BY <2>1 DEF Protected, ProtectedAt, Condemned
  <2>4. \A c \in Clients : InStep(c)' <=> InStep(c)
    BY <2>1, <2>2, <2>3 DEF InStep, Intact, FileSeq, Repositioning
  <2> QED BY <2>1, <2>2, <2>4, Detaches
<1> QED BY <1>2, <1>3, <1>4 DEF Next

\* Clients that are in step read the log as it is: what they are told is there can be
\* read, each record once and in order, whatever daemon and file system do.
THEOREM ReadersFollowTheLog == Spec => ImplementsStream
<1>1. Init => Log!StreamInit
  <2> SUFFICES ASSUME Init PROVE Log!StreamInit
    OBVIOUS
  <2>1. nlogged = 0 /\ \A c \in Clients : ~InStep(c)
    BY DEF Init, SharedInit, DaemonInit, InStep, Protected, Serving
  <2> QED BY <2>1 DEF Log!StreamInit, Log!Detached
<1>2. AcctInv /\ AcctInv' /\ [Next]_vars => [Log!StreamNext]_(Log!stream)
  BY StreamStep
<1> QED BY <1>1, <1>2, ReadersInvariance, PTL DEF Spec, ImplementsStream, Log!Stream

\* A client in step stays so as long as its file is protected and acctrepos() does not
\* skip beyond the last file.
THEOREM StepIsKept == Spec => StaysInStep
<1>1. AcctInv /\ AcctInv' /\ Next =>
        \A c \in Clients :
          InStep(c) /\ ~Overskips(c) /\ Protected(c)' /\ Intact' => InStep(c)'
  <2> SUFFICES ASSUME AcctInv, AcctInv', Next, NEW c \in Clients,
                      InStep(c), ~Overskips(c), Protected(c)', Intact'
               PROVE  InStep(c)'
    OBVIOUS
  <2>1. AcctInv' => (InStep(c)' <=> AtPlace(c)')
    BY StepPlaces, PTL
  <2>2. AtPlace(c)
    BY StepIsPlace
  <2>3. CASE Daemon \/ KernelExit \/ DaemonStart \/ DaemonSigTerm \/ DaemonKill
    BY <2>1, <2>2, <2>3, OthersKeepPlace
  <2>4. ASSUME NEW d \in Clients, Client(d) \/ ClientStart(d) \/ ClientEnd(d)
        PROVE  AtPlace(c)'
    <3>1. CASE d = c
      BY <2>2, <2>4, <3>1, OwnMoves
    <3>2. CASE d # c
      BY <2>2, <2>4, <3>2, OtherPlaces DEF AcctInv
    <3> QED BY <3>1, <3>2
  <2> QED BY <2>1, <2>3, <2>4 DEF Next
<1> QED BY <1>1, ReadersInvariance, PTL DEF Spec, StaysInStep
==============================================================================
