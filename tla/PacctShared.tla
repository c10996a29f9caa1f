---------------------------- MODULE PacctShared ----------------------------
(***************************************************************************)
(* What the atopacctd daemon and its clients (atop, atopsar) share: the    *)
(* directory pacct_shadow.d with the shadow files and the file `current`,  *)
(* the public semaphore group, and the accounting file the kernel writes.  *)
(* An operator of this module is one system call, as atopacctd.c and       *)
(* acctproc.c use it.                                                      *)
(*                                                                         *)
(* A record is identified by its position in the log of all records the    *)
(* daemon ever passed to a shadow file: record k of inode i is number      *)
(* base[i] + k of that log.                                                *)
(***************************************************************************)
EXTENDS Integers, FiniteSets, Functions

CONSTANTS
  Clients,        \* the processes that use the shadow files
  MaxShadowRec,   \* MAXSHADOWREC: records per shadow file
  SemTotal,       \* SEMTOTAL: initial value of semaphore 0
  Inodes,         \* inodes the file system has for shadow files
  NoInode,        \* no inode: a path that does not exist, a closed descriptor
  MaxSeq,         \* bound: the highest sequence number of a shadow file
  MaxExits        \* bound: the number of processes that exit

ASSUME SharedAssumption ==
  /\ {"daemon", "free"} \cap Clients = {}
  /\ MaxShadowRec \in Nat \ {0}
  /\ SemTotal \in Nat \ {0}
  /\ NoInode \notin Inodes
  /\ MaxSeq \in Nat
  /\ MaxExits \in Nat

Seqs == 0 .. MaxSeq
NoCurrent == -2        \* the file `current` does not exist
EmptyCurrent == -1     \* it exists and holds no sequence number

VARIABLES
  dir,       \* dir[s]: inode of the shadow file with sequence number s
  olddir,    \* inodes linked in a renamed directory pacct_shadow.d-old-<pid>
  current,   \* contents of the file `current`
  size,      \* size[i]: number of records in inode i
  base,      \* base[i]: number of records logged before the first one of i
  nlogged,   \* number of records the daemon passed to shadow files
  semup,     \* the public semaphore group exists
  lock,      \* holder of semaphore 1: a client, "daemon" or "free"
  users,     \* users[c]: how often c has decremented semaphore 0
  accton,    \* the kernel writes accounting records to the source file
  unread,    \* records in the source file behind the daemon's offset
  nexits     \* number of processes that exited, for the bound

fs     == <<dir, olddir, current, size, base, nlogged>>
ipc    == <<semup, lock, users>>
kernel == <<accton, unread, nexits>>

SharedTypeOK ==
  /\ dir \in [Seqs -> Inodes \cup {NoInode}]
  /\ olddir \in SUBSET Inodes
  /\ current \in {NoCurrent, EmptyCurrent} \cup Seqs
  /\ size \in [Inodes -> Nat]
  /\ base \in [Inodes -> Nat]
  /\ nlogged \in Nat
  /\ semup \in BOOLEAN
  /\ lock \in Clients \cup {"daemon", "free"}
  /\ users \in [Clients -> Nat]
  /\ accton \in BOOLEAN
  /\ unread \in Nat
  /\ nexits \in 0 .. MaxExits

SharedInit ==
  /\ dir = [s \in Seqs |-> NoInode]
  /\ olddir = {}
  /\ current = NoCurrent
  /\ size = [i \in Inodes |-> 0]
  /\ base = [i \in Inodes |-> 0]
  /\ nlogged = 0
  /\ semup = FALSE
  /\ lock = "free"
  /\ users = [c \in Clients |-> 0]
  /\ accton = FALSE
  /\ unread = 0
  /\ nexits = 0

(***************************************************************************)
(* File system calls.                                                      *)
(***************************************************************************)
\* st_nlink of inode i is not zero.
Linked(i) == i \in olddir \/ \E s \in Seqs : dir[s] = i

\* creat(): an existing file keeps its inode and is truncated, otherwise the
\* path gets an inode that is neither linked nor open.
FreshInodes(open) == {i \in Inodes : ~Linked(i) /\ i \notin open}

CreatInodes(s, open) ==
  IF dir[s] # NoInode
  THEN {dir[s]}
  ELSE {i \in FreshInodes(open) : i = CHOOSE j \in FreshInodes(open) : TRUE}

Creat(s, open) ==
  \E i \in CreatInodes(s, open) :
    /\ dir'  = [dir EXCEPT ![s] = i]
    /\ size' = [size EXCEPT ![i] = 0]
    /\ base' = [base EXCEPT ![i] = nlogged]

\* write() of n records at the end of shadow file s.
Append(s, n) ==
  /\ size' = [size EXCEPT ![dir[s]] = @ + n]
  /\ nlogged' = nlogged + n
  /\ UNCHANGED <<dir, olddir, current, base>>

Unlink(s) ==
  /\ dir' = [dir EXCEPT ![s] = NoInode]
  /\ UNCHANGED <<olddir, current, size, base, nlogged>>

(***************************************************************************)
(* Semaphore calls. SEM_UNDO gives back what an exiting process took.      *)
(* Operations on a group that was removed fail: after a restart of the     *)
(* daemon `lock' and `users' belong to the new group, hence the tests on   *)
(* lock = c.                                                               *)
(***************************************************************************)
NumUsers == SumFunction(users)
NoUsers  == \A c \in Clients : users[c] = 0

SemUnlock(p) == lock' = IF lock = p THEN "free" ELSE lock

SemRelease(c) ==
  users' = IF lock = c THEN [users EXCEPT ![c] = @ - 1] ELSE users

SemUndo(c) ==
  /\ SemUnlock(c)
  /\ users' = [users EXCEPT ![c] = 0]
  /\ UNCHANGED semup

(***************************************************************************)
(* The kernel: a process exits and its record is written to the source     *)
(* file. The netlink event that wakes the daemon is not kept apart from    *)
(* the record.                                                             *)
(***************************************************************************)
Exit ==
  /\ accton
  /\ nexits < MaxExits
  /\ nexits' = nexits + 1
  /\ unread' = unread + 1
  /\ UNCHANGED accton
=============================================================================
