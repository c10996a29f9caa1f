---------------------------- MODULE PrivateAcct ----------------------------
(***************************************************************************)
(* Private process accounting, acctproc.c: without atopacctd and without   *)
(* the psacct package the atops themselves switch on accounting to a file  *)
(* they share.  A semaphore group has a mutex and counts the users.  The   *)
(* first user creates the file, the last one removes it, and a user that   *)
(* is alone may truncate it.  Sizes and offsets are in records.            *)
(***************************************************************************)
EXTENDS Integers, FiniteSets

CONSTANTS
  Atops,         \* the atop processes
  NoAtop,        \* nobody
  MaxAcctProcs,  \* MAXACCTPROCS
  MaxFile,       \* ACCTMAXFILESZ in records
  SignalAt,      \* where a SIGTERM may hit an atop
  MayFail,       \* system calls may fail, the kernel may suspend accounting
  MaxStarts,     \* bound: atops started
  MaxExits,      \* bound: processes that exit
  MaxKills       \* bound: atops killed by SIGKILL

ASSUME PrivateAssumption ==
  /\ IsFiniteSet(Atops) /\ NoAtop \notin Atops
  /\ MaxAcctProcs \in Nat \ {0} /\ MaxFile \in Nat \ {0}
  /\ MayFail \in BOOLEAN
  /\ MaxStarts \in Nat /\ MaxExits \in Nat /\ MaxKills \in Nat

VARIABLES
  sem,      \* the semaphore group: "none", "raw" until SETALL, "up"
  holder,   \* who has decremented semaphore 0
  counted,  \* who has decremented semaphore 1
  accton,   \* the inode the kernel writes to, or Off
  dir,      \* ACCTDIR exists
  file,     \* the inode of ACCTFILE, or NoFile
  size,     \* records in each inode
  susp,     \* the kernel has suspended accounting (file system full)
  pc, fd, pos, asz,  \* per atop: where it is, acctfd, its offset, acctsize
  own, todo, over,   \* per atop: acctatop, records to read, noverflow
  starts, exits, kills,  \* counters, for the bounds
  spoiled   \* history: what went wrong, at the "start" or "stop" of an atop

shared == <<sem, holder, counted>>
disk   == <<accton, dir, file, size>>
local  == <<fd, pos, asz, own, todo, over>>
env    == <<susp, starts, exits, kills>>
pvars  == <<shared, disk, pc, local, env, spoiled>>

Off    == 0
NoFile == 0
Inodes == 1 .. Cardinality(Atops) + 2   \* inodes are used again

Starting == {"semget", "setall", "claim", "first", "mkdir", "creat", "accton", "open",
             "decre", "relse", "stat", "vers"}
Sampling == {"run", "read", "trial", "trialclaim", "alone", "repos"}
Restart  == {"toff", "trunc", "ton", "trelse"}
Ending   == {"offclaim", "offincre", "grown", "offacct", "remove", "offrelse", "exit"}
Engaged  == Sampling \cup Restart

PrivateTypeOK ==
  /\ sem \in {"none", "raw", "up"}
  /\ holder \in Atops \cup {NoAtop}
  /\ counted \subseteq Atops
  /\ accton \in Inodes \cup {Off}
  /\ file \in Inodes \cup {NoFile} /\ dir \in BOOLEAN
  /\ size \in [Inodes -> Nat]
  /\ pc \in [Atops -> {"off", "without"} \cup Starting \cup Engaged \cup Ending]
  /\ fd \in [Atops -> Inodes \cup {NoFile}]
  /\ pos \in [Atops -> Nat] /\ asz \in [Atops -> Nat]
  /\ own \in [Atops -> BOOLEAN]
  /\ todo \in [Atops -> 0 .. MaxAcctProcs] /\ over \in [Atops -> Nat]
  /\ susp \in BOOLEAN /\ spoiled \subseteq {"start", "stop"}
  /\ starts \in 0 .. MaxStarts /\ exits \in 0 .. MaxExits /\ kills \in 0 .. MaxKills

Init ==
  /\ sem = "none" /\ holder = NoAtop /\ counted = {}
  /\ accton = Off /\ dir = FALSE /\ file = NoFile
  /\ size = [i \in Inodes |-> 0]
  /\ susp = FALSE /\ spoiled = {}
  /\ pc = [p \in Atops |-> "off"]
  /\ fd = [p \in Atops |-> NoFile]
  /\ pos = [p \in Atops |-> 0] /\ asz = [p \in Atops |-> 0]
  /\ own = [p \in Atops |-> FALSE]
  /\ todo = [p \in Atops |-> 0] /\ over = [p \in Atops |-> 0]
  /\ starts = 0 /\ exits = 0 /\ kills = 0

At(p, l) == pc[p] = l
Goto(p, l) == pc' = [pc EXCEPT ![p] = l]
Claim(p) == sem = "up" /\ holder = NoAtop /\ holder' = p
Relse == holder' = NoAtop
Remove == dir' = FALSE /\ file' = NoFile     \* unlink() and rmdir()

\* A process that exits is recorded where accounting is on.
Recorded == IF accton \in Inodes /\ ~susp THEN [size EXCEPT ![accton] = @ + 1] ELSE size

\* An inode that nobody has open.
FreshInode == CHOOSE i \in Inodes : i # accton /\ \A q \in Atops : fd[q] # i

\* SEM_UNDO gives back what an atop that ends has taken.
Dies(p) ==
  /\ Goto(p, "off")
  /\ holder' = IF holder = p THEN NoAtop ELSE holder
  /\ counted' = counted \ {p}
  /\ fd' = [fd EXCEPT ![p] = NoFile]
  /\ pos' = [pos EXCEPT ![p] = 0] /\ asz' = [asz EXCEPT ![p] = 0]
  /\ own' = [own EXCEPT ![p] = FALSE]
  /\ todo' = [todo EXCEPT ![p] = 0] /\ over' = [over EXCEPT ![p] = 0]
  /\ UNCHANGED <<sem, disk>>

(***************************************************************************)
(* acctswon(): the semaphore group.  Its creator initialises it.           *)
(***************************************************************************)
SemGet(p) ==
  /\ At(p, "semget")
  /\ sem' = IF sem = "none" THEN "raw" ELSE sem
  /\ Goto(p, IF sem = "none" THEN "setall" ELSE "claim")
  /\ UNCHANGED <<holder, counted, disk, local, spoiled>>

SetAll(p) ==
  /\ At(p, "setall")
  /\ sem' = "up" /\ Goto(p, "claim")
  /\ UNCHANGED <<holder, counted, disk, local, spoiled>>

SwonClaim(p) ==
  /\ At(p, "claim") /\ Claim(p) /\ Goto(p, "first")
  /\ UNCHANGED <<sem, counted, disk, local, spoiled>>

First(p) ==
  /\ At(p, "first")
  /\ Goto(p, IF counted = {} THEN "mkdir" ELSE "open")
  /\ UNCHANGED <<shared, disk, local, spoiled>>

(***************************************************************************)
(* The first user creates the file; what is left of an atop that was       *)
(* killed goes first.                                                      *)
(***************************************************************************)
Mkdir(p) ==
  /\ At(p, "mkdir")
  /\ accton' = IF dir THEN Off ELSE accton
  /\ \/ dir' = TRUE /\ file' = NoFile /\ Goto(p, "creat") /\ UNCHANGED holder
     \/ MayFail /\ Remove /\ Relse /\ Goto(p, "without")
  /\ UNCHANGED <<sem, counted, size, local, spoiled>>

Creat(p) ==
  /\ At(p, "creat") /\ Goto(p, "accton")
  /\ file' = IF dir THEN FreshInode ELSE NoFile
  /\ size' = IF dir THEN [size EXCEPT ![FreshInode] = 0] ELSE size
  /\ UNCHANGED <<shared, accton, dir, local, spoiled>>

AcctOn(p) ==
  /\ At(p, "accton")
  /\ \/ file # NoFile /\ accton' = file /\ Goto(p, "open") /\ UNCHANGED <<holder, dir, file>>
     \/ (file = NoFile \/ MayFail) /\ Remove /\ Relse /\ Goto(p, "without") /\ UNCHANGED accton
  /\ UNCHANGED <<sem, counted, size, local, spoiled>>

\* A start that fails after accounting was switched on switches it off for all.
Fails(p) ==
  /\ accton' = Off /\ Remove /\ Goto(p, "without")
  /\ spoiled' = IF \E q \in Atops \ {p} : ~At(q, "off") THEN spoiled \cup {"start"} ELSE spoiled

\* Mutant of Open: the mutex is kept when the file cannot be opened.
OpenNoRelse(p) ==
  /\ At(p, "open")
  /\ \/ /\ file # NoFile /\ fd' = [fd EXCEPT ![p] = file] /\ Goto(p, "decre")
        /\ UNCHANGED <<holder, accton, dir, file, spoiled>>
     \/ (file = NoFile \/ MayFail) /\ Fails(p) /\ UNCHANGED holder /\ UNCHANGED fd
  /\ UNCHANGED <<sem, counted, size, pos, asz, own, todo, over>>

Open(p) ==
  /\ At(p, "open")
  /\ \/ /\ file # NoFile /\ fd' = [fd EXCEPT ![p] = file] /\ Goto(p, "decre")
        /\ UNCHANGED <<holder, accton, dir, file, spoiled>>
     \/ (file = NoFile \/ MayFail) /\ Fails(p) /\ Relse /\ UNCHANGED fd
  /\ UNCHANGED <<sem, counted, size, pos, asz, own, todo, over>>

Decre(p) ==
  /\ At(p, "decre")
  /\ counted' = counted \cup {p} /\ Goto(p, "relse")
  /\ UNCHANGED <<sem, holder, disk, local, spoiled>>

SwonRelse(p) ==
  /\ At(p, "relse")
  /\ Relse /\ Goto(p, "stat")
  /\ UNCHANGED <<sem, counted, disk, local, spoiled>>

\* An empty file gets a record from a child that exits at once.
Stat(p) ==
  /\ At(p, "stat")
  /\ own' = [own EXCEPT ![p] = TRUE]
  /\ size' = IF size[fd[p]] = 0 THEN Recorded ELSE size
  /\ Goto(p, "vers")
  /\ UNCHANGED <<shared, accton, dir, file, fd, pos, asz, todo, over, spoiled>>

\* acctvers() starts at the end of the file; without a record there is no accounting.
Vers(p) ==
  /\ At(p, "vers")
  /\ IF size[fd[p]] = 0
     THEN Fails(p) /\ fd' = [fd EXCEPT ![p] = NoFile] /\ UNCHANGED <<pos, asz>>
     ELSE /\ pos' = [pos EXCEPT ![p] = size[fd[p]]] /\ asz' = [asz EXCEPT ![p] = size[fd[p]]]
          /\ Goto(p, "run")
          /\ UNCHANGED <<fd, accton, dir, file, spoiled>>
  /\ UNCHANGED <<shared, size, own, todo, over>>

(***************************************************************************)
(* A sample: acctprocnt(), acctphotoproc(), acctrepos().                   *)
(***************************************************************************)

Count(p) ==
  /\ At(p, "run")
  /\ LET reset == asz[p] > size[fd[p]]
         new   == size[fd[p]] - (IF reset THEN 0 ELSE asz[p])
     IN  /\ pos' = IF reset THEN [pos EXCEPT ![p] = 0] ELSE pos
         /\ asz' = IF reset THEN [asz EXCEPT ![p] = 0] ELSE asz
         /\ new > 0
         /\ todo' = [todo EXCEPT ![p] = IF new > MaxAcctProcs THEN MaxAcctProcs ELSE new]
         /\ over' = [over EXCEPT ![p] = IF new > MaxAcctProcs THEN new - MaxAcctProcs ELSE 0]
  /\ Goto(p, "read")
  /\ UNCHANGED <<shared, disk, fd, own, spoiled>>

\* Only as long as the records are there: at the end of the file the loop never ends.
Read(p) ==
  /\ At(p, "read") /\ pos[p] + todo[p] <= size[fd[p]]
  /\ pos' = [pos EXCEPT ![p] = @ + todo[p]] /\ asz' = [asz EXCEPT ![p] = @ + todo[p]]
  /\ todo' = [todo EXCEPT ![p] = 0]
  /\ Goto(p, IF asz'[p] > MaxFile THEN "trial" ELSE "repos")
  /\ UNCHANGED <<shared, disk, fd, own, over, spoiled>>

Repos(p) ==
  /\ At(p, "repos")
  /\ pos' = [pos EXCEPT ![p] = @ + over[p]] /\ asz' = [asz EXCEPT ![p] = @ + over[p]]
  /\ over' = [over EXCEPT ![p] = 0]
  /\ Goto(p, "run")
  /\ UNCHANGED <<shared, disk, fd, own, todo, spoiled>>

(***************************************************************************)
(* acctrestarttrial(): truncate the file if nobody else uses it.           *)
(***************************************************************************)
Trial(p) ==
  /\ At(p, "trial")
  /\ Goto(p, IF own[p] /\ asz[p] = size[fd[p]] THEN "trialclaim" ELSE "repos")
  /\ UNCHANGED <<shared, disk, local, spoiled>>

TrialClaim(p) ==
  /\ At(p, "trialclaim") /\ Claim(p) /\ Goto(p, "alone")
  /\ UNCHANGED <<sem, counted, disk, local, spoiled>>

\* Mutant of Alone: another user does not count.
AloneOfTwo(p) ==
  /\ At(p, "alone")
  /\ IF Cardinality(counted) > 2
     THEN Relse /\ Goto(p, "repos")
     ELSE Goto(p, "toff") /\ UNCHANGED holder
  /\ UNCHANGED <<sem, counted, disk, local, spoiled>>

Alone(p) ==
  /\ At(p, "alone")
  /\ IF Cardinality(counted) > 1
     THEN Relse /\ Goto(p, "repos")
     ELSE Goto(p, "toff") /\ UNCHANGED holder
  /\ UNCHANGED <<sem, counted, disk, local, spoiled>>

TrialOff(p) ==
  /\ At(p, "toff")
  /\ accton' = Off /\ Goto(p, "trunc")
  /\ UNCHANGED <<shared, dir, file, size, local, spoiled>>

\* Mutant of Truncate: the offset in the file stays where it is.
TruncateNoSeek(p) ==
  /\ At(p, "trunc")
  /\ IF file = NoFile
     THEN UNCHANGED <<size, pos>>
     ELSE size' = [size EXCEPT ![file] = 0] /\ UNCHANGED pos
  /\ Goto(p, "ton")
  /\ UNCHANGED <<shared, accton, dir, file, fd, asz, own, todo, over, spoiled>>

Truncate(p) ==
  /\ At(p, "trunc")
  /\ IF file = NoFile
     THEN UNCHANGED <<size, pos>>
     ELSE size' = [size EXCEPT ![file] = 0] /\ pos' = [pos EXCEPT ![p] = 0]
  /\ Goto(p, "ton")
  /\ UNCHANGED <<shared, accton, dir, file, fd, asz, own, todo, over, spoiled>>

TrialOn(p) ==
  /\ At(p, "ton")
  /\ accton' = IF file = NoFile THEN accton ELSE file
  /\ asz' = [asz EXCEPT ![p] = 0]
  /\ Goto(p, "trelse")
  /\ UNCHANGED <<shared, dir, file, size, fd, pos, own, todo, over, spoiled>>

TrialRelse(p) ==
  /\ At(p, "trelse") /\ Relse /\ Goto(p, "repos")
  /\ UNCHANGED <<sem, counted, disk, local, spoiled>>

(***************************************************************************)
(* cleanstop() calls acctswoff(), from the engine or as signal handler,    *)
(* and exits.                                                              *)
(***************************************************************************)
Stop(p) ==
  /\ pc[p] \in SignalAt
  /\ Goto(p, IF fd[p] # NoFile /\ own[p] THEN "offclaim" ELSE "exit")
  /\ own' = IF fd[p] # NoFile THEN [own EXCEPT ![p] = FALSE] ELSE own
  /\ UNCHANGED <<shared, disk, fd, pos, asz, todo, over, spoiled>>

OffClaim(p) ==
  /\ At(p, "offclaim") /\ Claim(p) /\ Goto(p, "offincre")
  /\ UNCHANGED <<sem, counted, disk, local, spoiled>>

\* Mutant of OffIncre: the count is read before it is changed.
OffIncreLate(p) ==
  /\ At(p, "offincre")
  /\ counted' = counted \ {p}
  /\ Goto(p, IF counted = {} THEN "grown" ELSE "offrelse")
  /\ UNCHANGED <<sem, holder, disk, local, spoiled>>

OffIncre(p) ==
  /\ At(p, "offincre")
  /\ counted' = counted \ {p}
  /\ Goto(p, IF counted' = {} THEN "grown" ELSE "offrelse")
  /\ UNCHANGED <<sem, holder, disk, local, spoiled>>

\* Private accounting is still on if the exit of a child makes the file grow.
Grown(p) ==
  /\ At(p, "grown")
  /\ size' = Recorded
  /\ IF size'[fd[p]] > size[fd[p]]
     THEN Goto(p, "offacct") /\ UNCHANGED spoiled
     ELSE Goto(p, "offrelse") /\ spoiled' = spoiled \cup {"stop"}
  /\ UNCHANGED <<shared, accton, dir, file, local>>

OffAcct(p) ==
  /\ At(p, "offacct")
  /\ accton' = Off /\ Goto(p, "remove")
  /\ UNCHANGED <<shared, dir, file, size, local, spoiled>>

OffRemove(p) ==
  /\ At(p, "remove")
  /\ Remove /\ Goto(p, "offrelse")
  /\ UNCHANGED <<shared, accton, size, local, spoiled>>

OffRelse(p) ==
  /\ At(p, "offrelse")
  /\ Relse /\ Goto(p, "exit")
  /\ UNCHANGED <<sem, counted, disk, local, spoiled>>

Exit(p) == At(p, "exit") /\ Dies(p) /\ UNCHANGED spoiled

(***************************************************************************)
(* An atop, and what happens around it.                                    *)
(***************************************************************************)
AcctSwon(p) ==
  \/ SemGet(p) \/ SetAll(p) \/ SwonClaim(p) \/ First(p) \/ Mkdir(p) \/ Creat(p) \/ AcctOn(p)
  \/ Open(p) \/ Decre(p) \/ SwonRelse(p) \/ Stat(p) \/ Vers(p)

Sample(p) == Count(p) \/ Read(p) \/ Repos(p)

AcctRestartTrial(p) ==
  Trial(p) \/ TrialClaim(p) \/ Alone(p) \/ TrialOff(p) \/ Truncate(p) \/ TrialOn(p) \/ TrialRelse(p)

AcctSwoff(p) ==
  \/ OffClaim(p) \/ OffIncre(p) \/ Grown(p) \/ OffAcct(p) \/ OffRemove(p) \/ OffRelse(p) \/ Exit(p)

Step(p) == (AcctSwon(p) \/ Sample(p) \/ AcctRestartTrial(p) \/ AcctSwoff(p)) /\ UNCHANGED env

Start(p) ==
  /\ At(p, "off") /\ starts < MaxStarts
  /\ starts' = starts + 1 /\ Goto(p, "semget")
  /\ UNCHANGED <<shared, disk, local, susp, exits, kills, spoiled>>

Signal(p) == Stop(p) /\ UNCHANGED env

Kill(p) ==
  /\ ~At(p, "off") /\ kills < MaxKills
  /\ kills' = kills + 1 /\ Dies(p)
  /\ UNCHANGED <<susp, starts, exits, spoiled>>

KernelExit ==
  /\ exits < MaxExits
  /\ exits' = exits + 1 /\ size' = Recorded
  /\ UNCHANGED <<shared, accton, dir, file, pc, local, susp, starts, kills, spoiled>>

Suspend ==
  /\ MayFail /\ susp' = ~susp
  /\ UNCHANGED <<shared, disk, pc, local, starts, exits, kills, spoiled>>

Next ==
  \/ \E p \in Atops : Step(p) \/ Start(p) \/ Signal(p) \/ Kill(p)
  \/ KernelExit \/ Suspend

Spec == Init /\ [][Next]_pvars

FairSpec == Spec /\ \A p \in Atops : WF_pvars(Step(p))

(***************************************************************************)
(* Properties.                                                             *)
(***************************************************************************)
\* Every process that exits is recorded in the file that each user of private accounting reads,
\* unless it truncates the file just then, accounting is suspended, or a start
\* that failed has switched it off; and nobody truncates the file of another.
EveryExitSeen ==
  [][\A p \in Atops :
       (pc[p] \in Engaged /\ pc'[p] \in Engaged /\ "start" \notin spoiled') =>
         /\ size'[fd[p]] < size[fd[p]] => At(p, "trunc")
         /\ (exits' > exits /\ ~susp /\ pc[p] \notin Restart) =>
              size'[fd[p]] > size[fd[p]]]_pvars

\* acctphotoproc() has as many records to read as it was told to: at the end of the file its
\* loop would go on for ever.
NeverSpins ==
  \A p \in Atops : At(p, "read") /\ "start" \notin spoiled => pos[p] + todo[p] <= size[fd[p]]

\* What acctphotoproc() and acctrepos() go by, in every step.
PrivateSound == PrivateTypeOK /\ NeverSpins

\* After the last atop has stopped accounting is off and the file removed, unless one was killed
\* or the file did not grow when the last one left.
LastStops ==
  (\A p \in Atops : At(p, "off")) /\ kills = 0 /\ spoiled = {} =>
     accton = Off /\ ~dir

\* Whoever has the mutex gives it back.
MutexReleased == \A p \in Atops : holder = p ~> holder # p

\* An atop that is told to stop does so.
Stops == \A p \in Atops : pc[p] \in Ending ~> At(p, "off")

\* An atop that ends does so, and gives back the mutex before (acctswoff()); one that
\* truncates the file gives it back, too (acctrestarttrial()).
Responds == MutexReleased /\ Stops
=============================================================================
