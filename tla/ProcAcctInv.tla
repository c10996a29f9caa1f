---------------------------- MODULE ProcAcctInv ----------------------------
(***************************************************************************)
(* The inductive invariant of ProcAcct behind its safety properties: TLC   *)
(* checks it on small instances, ProcAcct_proofs proves it.                *)
(***************************************************************************)
EXTENDS ProcAcct

\* The daemon has a current shadow file.
HasFile == dpc \in Serving \cup {"mkcurrent", "wrcurrent"}

\* It is starting or serving.
Up == dpc \in Serving \cup Starting

\* The sequence numbers of the oldest and the current shadow file; only when all
\* files are removed, the oldest may move past the current one.
SeqInv ==
  /\ dpc \in Starting => cur = 0 /\ old = 0 /\ st = 0
  /\ dpc \in Serving =>
       /\ old <= cur \/ (dpc \in {"gc", "zero"} /\ resetting /\ old = cur + 1)
       /\ dpc \in {"held", "unlink"} => old < GcLimit
  /\ dpc \in Starting \/ (dpc \in Serving /\ dpc \notin {"gc", "held", "unlink", "zero",
                                                         "wipe", "setcurrent"})
       => ~resetting
  /\ dpc = "zero" => resetting

\* stotsize and the records to be written.
SizeInv ==
  /\ buf <= MaxShadowRec
  /\ dpc \in {"rotate", "wipe", "setcurrent", "rest"} => buf < MaxShadowRec
  /\ st <= MaxShadowRec
  /\ dpc = "write" => st < MaxShadowRec
  /\ dpc = "rotate" => st = MaxShadowRec
  /\ dpc \in {"await", "reactivate", "truncate", "lock", "check", "loop"} => st < MaxShadowRec
  /\ dpc \in {"gc", "held", "unlink"} => st < MaxShadowRec
  /\ dpc \in {"wipe", "setcurrent", "rest"} => st = 0
  /\ dpc \in {"gc", "held", "unlink", "zero"} /\ resetting => buf = 0

\* Different paths are different inodes.
DirInv == \A s, t \in Seqs : dir[s] = dir[t] /\ dir[s] # NoInode => s = t

\* The files from the oldest to the current one.
FilesInv ==
  HasFile =>
    /\ \A k \in old .. cur : dir[k] # NoInode
    /\ Intact =>
         /\ \A k \in old .. cur - 1 :
              /\ size[dir[k]] = MaxShadowRec
              /\ base[dir[k + 1]] = base[dir[k]] + size[dir[k]]
         /\ old <= cur => size[dir[cur]] = st /\ base[dir[cur]] + st = nlogged

\* The semaphores.
LockInv ==
  /\ dpc = "check" => lock = "daemon"
  /\ dpc # "down" /\ resetting => NoUsers /\ lock = "daemon"
  /\ \A c \in Clients : lock = c => users[c] > 0

\* Where a client has which files open.
Unregistered == {"off", "lock", "cur", "open", "stuck", "refused", "other", "closed",
                 "gone", "aborted"}
WithFile     == {"vers", "rdlock", "unlock", "restat", "count", "statnew", "photo",
                 "read", "swopen", "swlock", "repos", "seek"}

FdInv ==
  \A c \in Clients :
    /\ cpc[c] \in Unregistered => fd[c] = NoInode
    /\ cpc[c] \in WithFile => fd[c] # NoInode
    /\ rdlock[c] => fd[c] # NoInode
    /\ tmpfd[c] # NoInode => cpc[c] \in {"swlock", "dying"}
    /\ cpc[c] = "open" => seq[c] \in Seqs

\* curshadowseq is not behind the file that is open, and ahead of it while the
\* next file is being opened; that file, if it is still there, has this number.
ClientSeqInv ==
  \A c \in Clients, s \in Seqs :
    /\ fd[c] # NoInode /\ dir[s] = fd[c]
         => /\ s <= seq[c]
            /\ cpc[c] = "swlock" => s < seq[c]
    /\ tmpfd[c] # NoInode /\ dir[s] = tmpfd[c] /\ cpc[c] = "swlock" => s = seq[c]

\* As long as the lock on the previous file protects it, the file that
\* switchshadow() has opened stays.
NextFileInv ==
  \A c \in Clients, s \in Seqs :
    Up /\ ProtectedAt(c, s) /\ cpc[c] = "swlock" /\ tmpfd[c] # NoInode
      => seq[c] \in Seqs /\ dir[seq[c]] = tmpfd[c]

IInv ==
  /\ TypeOK
  /\ SeqInv /\ SizeInv /\ DirInv /\ FilesInv
  /\ LockInv
  /\ FdInv /\ ClientSeqInv /\ NextFileInv
(***************************************************************************)
(* What the clients read: behind ReadsEnd and the refinement.              *)
(***************************************************************************)
\* The shadow files are those of the daemon that is up, and what it wrote is there.
Sound == Up /\ Intact /\ ~leftover

\* Records from the beginning of file k on.
From(k) == (cur - k) * MaxShadowRec + st

\* No file has more than MaxShadowRec records, the current one none that do not count.
RoomInv ==
  /\ \A i \in Inodes : size[i] <= MaxShadowRec
  /\ HasFile /\ old <= cur => size[dir[cur]] <= st

\* Where the files begin in the log.
BaseInv == HasFile /\ Intact => \A k \in old .. cur : base[dir[k]] + From(k) = nlogged

\* The file `current' appears when the first shadow file is there; without files from
\* before a reset the current one is the last.
NewestInv ==
  /\ dpc \in {"mkshadow", "mkcurrent", "wrcurrent"} => current < 0
  /\ dpc = "mkshadow" => \A s \in Seqs : dir[s] = NoInode
  /\ HasFile /\ ~leftover => \A s \in Seqs : dir[s] # NoInode => s <= cur
  /\ HasFile => \A s \in 0 .. old - 1 : dir[s] = NoInode

\* Who registers before the old directory is renamed sees the files of a daemon that
\* is gone; their number does not go up any more.
Stale(c) ==
  /\ cpc[c] # "off"
  /\ cpc[c] # "cur" => current <= seq[c]
  /\ cpc[c] = "statnew" => nseq[c] <= seq[c]

StaleInv == dpc = "rename" => \A c \in Clients : users[c] > 0 => Stale(c)

\* Where a client has its offset in the file that is open.
InFile == ({"run", "stat", "wrapped"} \cup WithFile) \ {"seek"}

\* Offsets before anything is read, and ranges.
Offsets(c) ==
  /\ asz[c] >= 0 /\ pos[c] >= 0 /\ over[c] >= 0 /\ sw[c] >= 0
  /\ cpc[c] \in {"photo", "read", "swopen", "swlock", "repos", "seek"} => num[c] >= 0
  /\ mode[c] = "first" /\ cpc[c] \in {"count", "statnew"} => num[c] >= 0
  /\ cpc[c] \in {"off", "lock", "cur", "open", "vers"} => asz[c] = 0 /\ pos[c] = 0
  /\ mode[c] = "first" /\ cpc[c] \in {"stat", "restat", "count", "statnew"} => asz[c] = 0
  /\ mode[c] = "nested" /\ cpc[c] \in Registering => asz[c] = 0
  /\ cpc[c] \in {"rdlock", "unlock"} => pos[c] = asz[c]
  /\ sw[c] > 0 => cpc[c] \in {"seek", "swopen", "swlock"} \cup (Ended \ {"wrapped"})
  /\ cpc[c] = "seek" \/ sw[c] > 0 => asz[c] < MaxShadowRec

OffsetInv == \A c \in Clients : Offsets(c)

\* n records behind acctsize are in the file, of which z are known, or in the next ones.
Available(c, z, n) ==
  \/ n <= z - asz[c]
  \/ HasFile /\ z = MaxShadowRec /\ seq[c] < cur /\ asz[c] + n <= From(seq[c])

\* Records that were counted and are still to be read or skipped.
Due(c) == num[c] + over[c]

Full(i) == size[i] = MaxShadowRec

\* acctprocnt() and acctphotoproc() of client c.
Counts(c) ==
  /\ cpc[c] \in {"count", "statnew"} => Full(fd[c]) /\ num[c] = MaxShadowRec - asz[c]
  /\ cpc[c] = "photo" => Available(c, size[fd[c]], Due(c))
  /\ cpc[c] = "read" => csz[c] <= size[fd[c]] /\ Available(c, csz[c], Due(c))
  /\ cpc[c] = "repos" => Available(c, size[fd[c]], over[c])

\* The file with number seq, which client c has open, or had as long as it was there.
NextIsOpen(c) ==
  HasFile /\ seq[c] <= cur /\ (dir[seq[c]] = tmpfd[c] \/ (seq[c] < cur /\ Full(tmpfd[c])))

\* switchshadow() called by acctphotoproc(): more has been counted than the file has.
Switches(c) ==
  cpc[c] \in {"swopen", "swlock"} /\ sw[c] = 0 =>
    /\ HasFile /\ num[c] > 0 /\ Full(fd[c]) /\ asz[c] >= MaxShadowRec
    /\ cpc[c] = "swopen" => seq[c] < cur /\ MaxShadowRec + Due(c) <= From(seq[c])
    /\ cpc[c] = "swlock" =>
         /\ Due(c) <= From(seq[c])
         /\ IF tmpfd[c] = NoInode THEN seq[c] < cur ELSE NextIsOpen(c)

\* switchshadow() called by acctrepos(): what is skipped has been counted.
Skipped(c) == sw[c] * MaxShadowRec + asz[c]
Skips(c) ==
  cpc[c] = "seek" \/ sw[c] > 0 =>
    /\ cpc[c] \in {"seek", "swopen"} =>
         \/ sw[c] = 0 /\ asz[c] <= size[fd[c]]
         \/ Full(fd[c]) /\ (Skipped(c) <= MaxShadowRec \/ (HasFile /\ Skipped(c) <= From(seq[c])))
    /\ cpc[c] = "swlock" =>
         \/ Full(fd[c]) /\ Skipped(c) <= MaxShadowRec
         \/ /\ Full(fd[c]) /\ HasFile /\ Skipped(c) - MaxShadowRec <= From(seq[c])
            /\ tmpfd[c] # NoInode => NextIsOpen(c)

\* acctsize is not beyond the end of the file, but for a registration that counted over
\* two files.
Within(c) ==
  cpc[c] \in InFile /\ sw[c] = 0 /\ fd[c] # NoInode
    => asz[c] <= size[fd[c]] \/ Full(fd[c])

Reads(c) == Counts(c) /\ Switches(c) /\ Skips(c) /\ Within(c)

CountedInv == Sound => \A c \in Clients : users[c] > 0 => Reads(c)

\* As long as its file is protected, the offset of a client is acctsize and the next
\* file that it needs is there.
InPlace(c) ==
  /\ cpc[c] \in InFile /\ sw[c] = 0 => pos[c] = asz[c]
  /\ cpc[c] = "swlock" /\ sw[c] = 0 => tmpfd[c] # NoInode

InPlaceInv == Sound => \A c \in Clients, s \in Seqs : ProtectedAt(c, s) => InPlace(c)

\* A client that was killed has given back what it took.
KilledInv == \A c \in Clients : cpc[c] = "dying" => users[c] = 0

ReadersInv ==
  /\ RoomInv /\ BaseInv /\ NewestInv /\ StaleInv
  /\ OffsetInv /\ CountedInv /\ InPlaceInv /\ KilledInv

AcctInv == IInv /\ ReadersInv
=============================================================================
