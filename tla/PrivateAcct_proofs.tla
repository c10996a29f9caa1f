------------------------- MODULE PrivateAcct_proofs -------------------------
(***************************************************************************)
(* Private accounting for any number of atops, starts, signals and kills:  *)
(* nobody loses records to another, the sizes that acctphotoproc() and     *)
(* acctrepos() go by are right, and the last atop switches accounting off. *)
(***************************************************************************)
EXTENDS PrivateAcct, FiniteSetTheorems, TLAPS

USE PrivateAssumption

(***************************************************************************)
(* The inductive invariant.                                                *)
(***************************************************************************)
\* Where an atop has the mutex, is counted, uses the file, is the only one.
Holding == {"first", "mkdir", "creat", "accton", "open", "decre", "relse", "alone",
            "offincre", "grown", "offacct", "remove", "offrelse"} \cup Restart
Member  == {"relse", "stat", "vers", "offclaim", "offincre"} \cup Engaged
User    == {"decre", "relse", "stat", "vers"} \cup Engaged
Unopened == {"off", "without", "semget", "setall", "claim", "first", "mkdir", "creat",
             "accton", "open"}
Nobody  == {"mkdir", "creat", "accton", "grown", "offacct", "remove"}

\* A signal may leave an atop that has the mutex where it ends or waits for it.
MutexInv ==
  \A p \in Atops :
    /\ pc[p] \in Holding => holder = p
    /\ holder = p => pc[p] \in Holding \cup {"offclaim", "exit"}

\* The count says who uses the file, and nobody joins while the mutex is taken.
CountInv ==
  \A p \in Atops :
    /\ pc[p] \in Member => p \in counted
    /\ p \in counted => pc[p] \in Member \cup {"without", "exit"}
    /\ pc[p] \in Nobody => counted = {}
    /\ pc[p] \in Restart => counted = {p}

\* Who has the file open.
FdInv ==
  \A p \in Atops :
    /\ pc[p] \in User \cup {"offclaim", "offincre", "grown"} => fd[p] # NoFile
    /\ pc[p] \in Unopened => fd[p] = NoFile

\* For whom acctswoff() has something to do.
OwnInv ==
  \A p \in Atops :
    /\ pc[p] \in {"vers"} \cup Engaged => own[p] = TRUE
    /\ own[p] = TRUE => pc[p] \in {"vers", "without", "exit"} \cup Engaged
    /\ own[p] = TRUE /\ pc[p] \in {"without", "exit"} => fd[p] = NoFile

\* Accounting is on for the file in the directory, or off.
DiskInv ==
  /\ accton # Off => accton = file
  /\ file # NoFile => dir
  /\ \A p \in Atops : pc[p] \in {"creat", "accton", "remove"} => accton = Off

\* It is off with the file there only as long as the one who has the mutex is the only user.
OnInv ==
  /\ file # NoFile /\ accton # file => counted \subseteq {holder}
  /\ \A p \in Atops :
       pc[p] \in {"open", "decre", "relse", "alone", "trelse"} /\ file # NoFile => accton = file

\* Every user has the file open that is there now.
UserInv == "start" \notin spoiled => \A p \in Atops : pc[p] \in User => fd[p] = file

\* acctsize is the offset in the file, and what has been counted is there.
PlaceInv ==
  "start" \notin spoiled =>
    \A p \in Atops :
      /\ pc[p] \in Engaged \ {"ton"} => pos[p] = asz[p]
      /\ pc[p] = "ton" => pos[p] = 0
      /\ pc[p] = "read" => pos[p] + todo[p] <= size[fd[p]]

SharingInv == MutexInv /\ CountInv /\ FdInv /\ OwnInv /\ DiskInv /\ OnInv /\ UserInv
PrivateInv == PrivateTypeOK /\ SharingInv /\ PlaceInv

\* As long as nobody is killed and no start spoils it for others: what is
\* switched on and created has a user who will see to its end.
KeptSignals == SignalAt \subseteq Engaged \cup {"without"}
Keeper == {"creat", "accton", "open", "decre", "remove", "grown", "offacct"} \cup Member
KeptInv ==
  kills = 0 /\ spoiled = {} =>
    /\ dir \/ accton # Off => \E p \in Atops : pc[p] \in Keeper
    /\ \A p \in counted : pc[p] \notin Member => ~ dir /\ accton = Off

(***************************************************************************)
(* Facts about the operators.                                              *)
(***************************************************************************)
\* The parts of type correctness.
ControlType == /\ sem \in {"none", "raw", "up"} /\ holder \in Atops \cup {NoAtop}
               /\ counted \subseteq Atops
               /\ pc \in [Atops -> {"off", "without"} \cup Starting \cup Engaged \cup Ending]
FilesType == /\ accton \in Inodes \cup {Off} /\ file \in Inodes \cup {NoFile}
             /\ size \in [Inodes -> Nat] /\ fd \in [Atops -> Inodes \cup {NoFile}]
PlacesType == /\ pos \in [Atops -> Nat] /\ asz \in [Atops -> Nat]
              /\ todo \in [Atops -> 0 .. MaxAcctProcs] /\ over \in [Atops -> Nat]
FlagsType == dir \in BOOLEAN /\ own \in [Atops -> BOOLEAN]
HistoryType == susp \in BOOLEAN /\ spoiled \subseteq {"start", "stop"}
BoundsType == /\ starts \in 0 .. MaxStarts /\ exits \in 0 .. MaxExits /\ kills \in 0 .. MaxKills

\* What is recorded makes no file shorter.
LEMMA RecordedGrows ==
  ASSUME PrivateTypeOK
  PROVE  Recorded \in [Inodes -> Nat] /\ \A i \in Inodes : Recorded[i] >= size[i]
BY DEF PrivateTypeOK, Recorded

\* There is always an inode that nobody has open.
LEMMA FreshExists ==
  ASSUME PrivateTypeOK
  PROVE  FreshInode \in Inodes /\ FreshInode # accton /\ \A q \in Atops : fd[q] # FreshInode
<1> DEFINE open == {fd[q] : q \in Atops}
<1>1. IsFiniteSet(open) /\ Cardinality(open) <= Cardinality(Atops)
  <2>1. fd \in Surjection(Atops, open)
    BY DEF PrivateTypeOK, Surjection
  <2> QED BY <2>1, FS_Surjection
<1>2. /\ IsFiniteSet(open \cup {accton})
      /\ Cardinality(open \cup {accton}) <= Cardinality(open) + 1
      /\ Cardinality(open) \in Nat
  <2> HIDE DEF open
  <2>1. Cardinality(open) \in Nat
    BY <1>1, FS_CardinalityType
  <2>2. /\ IsFiniteSet(open \cup {accton})
        /\ Cardinality(open \cup {accton})
             = IF accton \in open THEN Cardinality(open) ELSE Cardinality(open) + 1
    BY <1>1, FS_AddElement
  <2> QED BY <2>1, <2>2
<1>3. Cardinality(Atops) \in Nat
  BY FS_CardinalityType
<1>4. Cardinality(Inodes) = Cardinality(Atops) + 2
  BY <1>3, FS_Interval DEF Inodes
<1>5. ~ (Inodes \subseteq open \cup {accton})
  <2> SUFFICES ASSUME Inodes \subseteq open \cup {accton} PROVE FALSE
    OBVIOUS
  <2>1. Cardinality(Inodes) <= Cardinality(open \cup {accton})
    BY <1>2, FS_Subset
  <2> HIDE DEF open
  <2> QED BY <1>1, <1>2, <1>3, <1>4, <2>1, FS_CardinalityType
<1>6. \E i \in Inodes : i # accton /\ \A q \in Atops : fd[q] # i
  BY <1>5
<1> QED BY <1>6 DEF FreshInode

\* Whoever finds no second user is the only one.
LEMMA OnlyOne ==
  ASSUME PrivateTypeOK, NEW p \in counted, ~ (Cardinality(counted) > 1)
  PROVE  counted = {p}
<1>1. IsFiniteSet(counted)
  BY FS_Subset DEF PrivateTypeOK
<1>2. Cardinality(counted) \in Nat /\ Cardinality(counted) # 0
  BY <1>1, FS_CardinalityType, FS_EmptySet
<1>3. Cardinality(counted) = 1
  BY <1>2
<1>4. PICK q : counted = {q}
  BY <1>1, <1>3, FS_Singleton
<1> QED BY <1>4


\* The program counters, the semaphores.
LEMMA ControlTypeKept ==
    ASSUME PrivateTypeOK, FdInv, Next
  PROVE  ControlType'
<1> USE DEF PrivateTypeOK, ControlType, Restart, Engaged, Sampling, Starting, Ending, At, Goto,
            Claim, Relse, shared, local, disk
<1>1. ASSUME NEW p \in Atops, AcctSwon(p), UNCHANGED env PROVE ControlType'
  BY <1>1 DEF AcctSwon, SemGet, SetAll, SwonClaim, First, Mkdir, Creat, AcctOn, Open, Decre,
              SwonRelse, Stat, Vers, Fails, Remove
<1>2. ASSUME NEW p \in Atops, Sample(p), UNCHANGED env PROVE ControlType'
  BY <1>2 DEF Sample, Count, Read, Repos
<1>3. ASSUME NEW p \in Atops, AcctRestartTrial(p), UNCHANGED env PROVE ControlType'
  BY <1>3 DEF AcctRestartTrial, Trial, TrialClaim, Alone, TrialOff, Truncate, TrialOn, TrialRelse
<1>4. ASSUME NEW p \in Atops, AcctSwoff(p), UNCHANGED env PROVE ControlType'
  BY <1>4 DEF AcctSwoff, OffClaim, OffIncre, Grown, OffAcct, OffRemove, OffRelse, Exit, Dies, Remove
<1>5. ASSUME NEW p \in Atops, Start(p) \/ Signal(p) \/ Kill(p) PROVE ControlType'
  BY <1>5 DEF Start, Signal, Stop, Kill, Dies
<1>6. CASE KernelExit \/ Suspend
  BY <1>6 DEF KernelExit, Suspend
<1> QED BY <1>1, <1>2, <1>3, <1>4, <1>5, <1>6 DEF Next, Step

\* The files and who has them open.
LEMMA FilesTypeKept ==
    ASSUME PrivateTypeOK, FdInv, Next
  PROVE  FilesType'
<1> USE DEF PrivateTypeOK, FilesType, At, Goto, Claim, Relse, shared, local, disk
<1>1. ASSUME NEW p \in Atops, AcctSwon(p), UNCHANGED env PROVE FilesType'
  BY <1>1, RecordedGrows, FreshExists DEF AcctSwon, SemGet, SetAll, SwonClaim, First, Mkdir,
      Creat, AcctOn, Open, Decre, SwonRelse, Stat, Vers, Fails, Remove
<1>2. ASSUME NEW p \in Atops, Sample(p), UNCHANGED env PROVE FilesType'
  BY <1>2 DEF Sample, Count, Read, Repos
<1>3. ASSUME NEW p \in Atops, AcctRestartTrial(p), UNCHANGED env PROVE FilesType'
  BY <1>3 DEF AcctRestartTrial, Trial, TrialClaim, Alone, TrialOff, Truncate, TrialOn, TrialRelse
<1>4. ASSUME NEW p \in Atops, AcctSwoff(p), UNCHANGED env PROVE FilesType'
  BY <1>4, RecordedGrows DEF AcctSwoff, OffClaim, OffIncre, Grown, OffAcct, OffRemove, OffRelse,
                             Exit, Dies, Remove
<1>5. ASSUME NEW p \in Atops, Start(p) \/ Signal(p) \/ Kill(p) PROVE FilesType'
  BY <1>5 DEF Start, Signal, Stop, Kill, Dies
<1>6. CASE KernelExit \/ Suspend
  BY <1>6, RecordedGrows DEF KernelExit, Suspend
<1> QED BY <1>1, <1>2, <1>3, <1>4, <1>5, <1>6 DEF Next, Step

\* Places in the file, numbers of records.
LEMMA PlacesTypeKept ==
    ASSUME PrivateTypeOK, FdInv, Next
  PROVE  PlacesType'
<1> USE DEF PrivateTypeOK, PlacesType, FdInv, Restart, Engaged, Sampling, User, At, Goto, Claim,
            Relse, shared, local, disk
<1>1. ASSUME NEW p \in Atops, AcctSwon(p), UNCHANGED env PROVE PlacesType'
  BY <1>1 DEF AcctSwon, SemGet, SetAll, SwonClaim, First, Mkdir, Creat, AcctOn, Open, Decre,
              SwonRelse, Stat, Vers, Fails, Remove
<1>2. ASSUME NEW p \in Atops, Sample(p), UNCHANGED env PROVE PlacesType'
  BY <1>2 DEF Sample, Count, Read, Repos
<1>3. ASSUME NEW p \in Atops, AcctRestartTrial(p), UNCHANGED env PROVE PlacesType'
  BY <1>3 DEF AcctRestartTrial, Trial, TrialClaim, Alone, TrialOff, Truncate, TrialOn, TrialRelse
<1>4. ASSUME NEW p \in Atops, AcctSwoff(p), UNCHANGED env PROVE PlacesType'
  BY <1>4 DEF AcctSwoff, OffClaim, OffIncre, Grown, OffAcct, OffRemove, OffRelse, Exit, Dies, Remove
<1>5. ASSUME NEW p \in Atops, Start(p) \/ Signal(p) \/ Kill(p) PROVE PlacesType'
  BY <1>5 DEF Start, Signal, Stop, Kill, Dies
<1>6. CASE KernelExit \/ Suspend
  BY <1>6 DEF KernelExit, Suspend
<1> QED BY <1>1, <1>2, <1>3, <1>4, <1>5, <1>6 DEF Next, Step

\* The directory is there or not; acctatop is set or not.
LEMMA FlagsTypeKept ==
    ASSUME PrivateTypeOK, FdInv, Next
  PROVE  FlagsType'
<1> USE DEF PrivateTypeOK, FlagsType, At, Goto, Claim, Relse, shared, local, disk
<1>1. ASSUME NEW p \in Atops, AcctSwon(p), UNCHANGED env PROVE FlagsType'
  BY <1>1 DEF AcctSwon, SemGet, SetAll, SwonClaim, First, Mkdir, Creat, AcctOn, Open, Decre,
              SwonRelse, Stat, Vers, Fails, Remove
<1>2. ASSUME NEW p \in Atops, Sample(p), UNCHANGED env PROVE FlagsType'
  BY <1>2 DEF Sample, Count, Read, Repos
<1>3. ASSUME NEW p \in Atops, AcctRestartTrial(p), UNCHANGED env PROVE FlagsType'
  BY <1>3 DEF AcctRestartTrial, Trial, TrialClaim, Alone, TrialOff, Truncate, TrialOn, TrialRelse
<1>4. ASSUME NEW p \in Atops, AcctSwoff(p), UNCHANGED env PROVE FlagsType'
  BY <1>4 DEF AcctSwoff, OffClaim, OffIncre, Grown, OffAcct, OffRemove, OffRelse, Exit, Dies, Remove
<1>5. ASSUME NEW p \in Atops, Start(p) \/ Signal(p) \/ Kill(p) PROVE FlagsType'
  BY <1>5 DEF Start, Signal, Stop, Kill, Dies
<1>6. CASE KernelExit \/ Suspend
  BY <1>6 DEF KernelExit, Suspend
<1> QED BY <1>1, <1>2, <1>3, <1>4, <1>5, <1>6 DEF Next, Step

\* What happens around the atops.
LEMMA HistoryTypeKept ==
    ASSUME PrivateTypeOK, FdInv, Next
  PROVE  HistoryType'
<1> USE DEF PrivateTypeOK, HistoryType, env, At, Goto, Claim, Relse, shared, local, disk
<1>1. ASSUME NEW p \in Atops, AcctSwon(p), UNCHANGED env PROVE HistoryType'
  BY <1>1 DEF AcctSwon, SemGet, SetAll, SwonClaim, First, Mkdir, Creat, AcctOn, Open, Decre,
              SwonRelse, Stat, Vers, Fails, Remove
<1>2. ASSUME NEW p \in Atops, Sample(p), UNCHANGED env PROVE HistoryType'
  BY <1>2 DEF Sample, Count, Read, Repos
<1>3. ASSUME NEW p \in Atops, AcctRestartTrial(p), UNCHANGED env PROVE HistoryType'
  BY <1>3 DEF AcctRestartTrial, Trial, TrialClaim, Alone, TrialOff, Truncate, TrialOn, TrialRelse
<1>4. ASSUME NEW p \in Atops, AcctSwoff(p), UNCHANGED env PROVE HistoryType'
  BY <1>4 DEF AcctSwoff, OffClaim, OffIncre, Grown, OffAcct, OffRemove, OffRelse, Exit, Dies, Remove
<1>5. ASSUME NEW p \in Atops, Start(p) \/ Signal(p) \/ Kill(p) PROVE HistoryType'
  BY <1>5 DEF Start, Signal, Stop, Kill, Dies
<1>6. CASE KernelExit \/ Suspend
  BY <1>6 DEF KernelExit, Suspend
<1> QED BY <1>1, <1>2, <1>3, <1>4, <1>5, <1>6 DEF Next, Step

\* The bounds are kept.
LEMMA BoundsTypeKept ==
    ASSUME PrivateTypeOK, FdInv, Next
  PROVE  BoundsType'
<1> USE DEF PrivateTypeOK, BoundsType, env, At, Goto, Claim, Relse, shared, local, disk
<1>1. ASSUME NEW p \in Atops, AcctSwon(p), UNCHANGED env PROVE BoundsType'
  BY <1>1 DEF AcctSwon, SemGet, SetAll, SwonClaim, First, Mkdir, Creat, AcctOn, Open, Decre,
              SwonRelse, Stat, Vers, Fails, Remove
<1>2. ASSUME NEW p \in Atops, Sample(p), UNCHANGED env PROVE BoundsType'
  BY <1>2 DEF Sample, Count, Read, Repos
<1>3. ASSUME NEW p \in Atops, AcctRestartTrial(p), UNCHANGED env PROVE BoundsType'
  BY <1>3 DEF AcctRestartTrial, Trial, TrialClaim, Alone, TrialOff, Truncate, TrialOn, TrialRelse
<1>4. ASSUME NEW p \in Atops, AcctSwoff(p), UNCHANGED env PROVE BoundsType'
  BY <1>4 DEF AcctSwoff, OffClaim, OffIncre, Grown, OffAcct, OffRemove, OffRelse, Exit, Dies, Remove
<1>5. ASSUME NEW p \in Atops, Start(p) \/ Signal(p) \/ Kill(p) PROVE BoundsType'
  BY <1>5 DEF Start, Signal, Stop, Kill, Dies
<1>6. CASE KernelExit \/ Suspend
  BY <1>6 DEF KernelExit, Suspend
<1> QED BY <1>1, <1>2, <1>3, <1>4, <1>5, <1>6 DEF Next, Step

\* The mutex is taken where it is free and given back by the one who has it.
LEMMA MutexKept ==
    ASSUME PrivateTypeOK, MutexInv, Next
  PROVE  MutexInv'
<1> USE DEF PrivateTypeOK, MutexInv, Holding, Restart, At, Goto, Claim, Relse, shared, local, disk
<1>1. ASSUME NEW p \in Atops, AcctSwon(p), UNCHANGED env PROVE MutexInv'
  BY <1>1 DEF AcctSwon, SemGet, SetAll, SwonClaim, First, Mkdir, Creat, AcctOn, Open, Decre,
              SwonRelse, Stat, Vers, Fails, Remove
<1>2. ASSUME NEW p \in Atops, Sample(p), UNCHANGED env PROVE MutexInv'
  BY <1>2 DEF Sample, Count, Read, Repos
<1>3. ASSUME NEW p \in Atops, AcctRestartTrial(p), UNCHANGED env PROVE MutexInv'
  BY <1>3 DEF AcctRestartTrial, Trial, TrialClaim, Alone, TrialOff, Truncate, TrialOn, TrialRelse
<1>4. ASSUME NEW p \in Atops, AcctSwoff(p), UNCHANGED env PROVE MutexInv'
  BY <1>4 DEF AcctSwoff, OffClaim, OffIncre, Grown, OffAcct, OffRemove, OffRelse, Exit, Dies, Remove
<1>5. ASSUME NEW p \in Atops, Start(p) \/ Signal(p) \/ Kill(p) PROVE MutexInv'
  BY <1>5 DEF Start, Signal, Stop, Kill, Dies
<1>6. CASE KernelExit \/ Suspend
  BY <1>6 DEF KernelExit, Suspend
<1> QED BY <1>1, <1>2, <1>3, <1>4, <1>5, <1>6 DEF Next, Step

\* Who registers has the mutex; whoever finds no other user truncates alone.
LEMMA CountKept ==
    ASSUME PrivateTypeOK, MutexInv, CountInv, FdInv, OwnInv, Next
  PROVE  CountInv'
<1> USE DEF PrivateTypeOK, MutexInv, CountInv, FdInv, OwnInv, Holding, Restart, Member, Nobody,
            Engaged, Sampling, Starting, User, At, Goto, Claim, Relse, shared, local, disk
<1>1. ASSUME NEW p \in Atops, AcctSwon(p), UNCHANGED env PROVE CountInv'
  BY <1>1 DEF AcctSwon, SemGet, SetAll, SwonClaim, First, Mkdir, Creat, AcctOn, Open, Decre,
              SwonRelse, Stat, Vers, Fails, Remove
<1>2. ASSUME NEW p \in Atops, Sample(p), UNCHANGED env PROVE CountInv'
  BY <1>2 DEF Sample, Count, Read, Repos
<1>3. ASSUME NEW p \in Atops, AcctRestartTrial(p), UNCHANGED env PROVE CountInv'
  BY <1>3, OnlyOne DEF AcctRestartTrial, Trial, TrialClaim, Alone, TrialOff, Truncate, TrialOn,
                       TrialRelse
<1>4. ASSUME NEW p \in Atops, AcctSwoff(p), UNCHANGED env PROVE CountInv'
  BY <1>4 DEF AcctSwoff, OffClaim, OffIncre, Grown, OffAcct, OffRemove, OffRelse, Exit, Dies, Remove
<1>5. ASSUME NEW p \in Atops, Start(p) \/ Signal(p) \/ Kill(p) PROVE CountInv'
  BY <1>5 DEF Start, Signal, Stop, Kill, Dies
<1>6. CASE KernelExit \/ Suspend
  BY <1>6 DEF KernelExit, Suspend
<1> QED BY <1>1, <1>2, <1>3, <1>4, <1>5, <1>6 DEF Next, Step

\* Only the start opens the file, and what follows has it open.
LEMMA FdKept ==
    ASSUME PrivateTypeOK, FdInv, Next
  PROVE  FdInv'
<1> USE DEF PrivateTypeOK, FdInv, Restart, Engaged, Sampling, Unopened, User, At, Goto, Claim,
            Relse, shared, local, disk
<1>1. ASSUME NEW p \in Atops, AcctSwon(p), UNCHANGED env PROVE FdInv'
  BY <1>1 DEF AcctSwon, SemGet, SetAll, SwonClaim, First, Mkdir, Creat, AcctOn, Open, Decre,
              SwonRelse, Stat, Vers, Fails, Remove
<1>2. ASSUME NEW p \in Atops, Sample(p), UNCHANGED env PROVE FdInv'
  BY <1>2 DEF Sample, Count, Read, Repos
<1>3. ASSUME NEW p \in Atops, AcctRestartTrial(p), UNCHANGED env PROVE FdInv'
  BY <1>3 DEF AcctRestartTrial, Trial, TrialClaim, Alone, TrialOff, Truncate, TrialOn, TrialRelse
<1>4. ASSUME NEW p \in Atops, AcctSwoff(p), UNCHANGED env PROVE FdInv'
  BY <1>4 DEF AcctSwoff, OffClaim, OffIncre, Grown, OffAcct, OffRemove, OffRelse, Exit, Dies, Remove
<1>5. ASSUME NEW p \in Atops, Start(p) \/ Signal(p) \/ Kill(p) PROVE FdInv'
  BY <1>5 DEF Start, Signal, Stop, Kill, Dies
<1>6. CASE KernelExit \/ Suspend
  BY <1>6 DEF KernelExit, Suspend
<1> QED BY <1>1, <1>2, <1>3, <1>4, <1>5, <1>6 DEF Next, Step

\* acctswoff() has something to do for a user and for an atop that ends its sampling.
LEMMA OwnKept ==
    ASSUME PrivateTypeOK, FdInv, OwnInv, Next
  PROVE  OwnInv'
<1> USE DEF PrivateTypeOK, FdInv, OwnInv, Restart, Engaged, Sampling, Unopened, User, At, Goto,
            Claim, Relse, shared, local, disk
<1>1. ASSUME NEW p \in Atops, AcctSwon(p), UNCHANGED env PROVE OwnInv'
  <2>1. CASE SemGet(p) \/ SetAll(p) \/ SwonClaim(p) \/ First(p) \/ Mkdir(p)
    BY <1>1, <2>1 DEF SemGet, SetAll, SwonClaim, First, Mkdir
  <2>2. CASE Creat(p) \/ AcctOn(p)
    BY <1>1, <2>2 DEF Creat, AcctOn, Remove
  <2>3. CASE Open(p) \/ Decre(p) \/ SwonRelse(p)
    BY <1>1, <2>3 DEF Open, Decre, SwonRelse, Fails, Remove
  <2>4. CASE Stat(p)
    BY <1>1, <2>4 DEF Stat, Fails, Remove
  <2>5. CASE Vers(p)
    BY <1>1, <2>5 DEF Vers, Fails, Remove
  <2> QED BY <1>1, <2>1, <2>2, <2>3, <2>4, <2>5 DEF AcctSwon
<1>2. ASSUME NEW p \in Atops, Sample(p), UNCHANGED env PROVE OwnInv'
  BY <1>2 DEF Sample, Count, Read, Repos
<1>3. ASSUME NEW p \in Atops, AcctRestartTrial(p), UNCHANGED env PROVE OwnInv'
  BY <1>3 DEF AcctRestartTrial, Trial, TrialClaim, Alone, TrialOff, Truncate, TrialOn, TrialRelse
<1>4. ASSUME NEW p \in Atops, AcctSwoff(p), UNCHANGED env PROVE OwnInv'
  BY <1>4 DEF AcctSwoff, OffClaim, OffIncre, Grown, OffAcct, OffRemove, OffRelse, Exit, Dies, Remove
<1>5. ASSUME NEW p \in Atops, Start(p) \/ Signal(p) \/ Kill(p) PROVE OwnInv'
  BY <1>5 DEF Start, Signal, Stop, Kill, Dies
<1>6. CASE KernelExit \/ Suspend
  BY <1>6 DEF KernelExit, Suspend
<1> QED BY <1>1, <1>2, <1>3, <1>4, <1>5, <1>6 DEF Next, Step

\* The file and the kernel are changed by the one who has the mutex, or a start that fails.
LEMMA DiskKept ==
    ASSUME PrivateTypeOK, MutexInv, DiskInv, Next
  PROVE  DiskInv'
<1> USE DEF PrivateTypeOK, MutexInv, DiskInv, Holding, Restart, NoFile, Off, At, Goto, Claim,
            Relse, shared, local, disk
<1>1. ASSUME NEW p \in Atops, AcctSwon(p), UNCHANGED env PROVE DiskInv'
  BY <1>1 DEF AcctSwon, SemGet, SetAll, SwonClaim, First, Mkdir, Creat, AcctOn, Open, Decre,
              SwonRelse, Stat, Vers, Fails, Remove
<1>2. ASSUME NEW p \in Atops, Sample(p), UNCHANGED env PROVE DiskInv'
  BY <1>2 DEF Sample, Count, Read, Repos
<1>3. ASSUME NEW p \in Atops, AcctRestartTrial(p), UNCHANGED env PROVE DiskInv'
  BY <1>3 DEF AcctRestartTrial, Trial, TrialClaim, Alone, TrialOff, Truncate, TrialOn, TrialRelse
<1>4. ASSUME NEW p \in Atops, AcctSwoff(p), UNCHANGED env PROVE DiskInv'
  BY <1>4 DEF AcctSwoff, OffClaim, OffIncre, Grown, OffAcct, OffRemove, OffRelse, Exit, Dies, Remove
<1>5. ASSUME NEW p \in Atops, Start(p) \/ Signal(p) \/ Kill(p) PROVE DiskInv'
  BY <1>5 DEF Start, Signal, Stop, Kill, Dies
<1>6. CASE KernelExit \/ Suspend
  BY <1>6 DEF KernelExit, Suspend
<1> QED BY <1>1, <1>2, <1>3, <1>4, <1>5, <1>6 DEF Next, Step

\* Who switches accounting off is alone until it is on again or the file removed.
LEMMA OnKept ==
    ASSUME PrivateTypeOK, MutexInv, CountInv, OnInv, DiskInv, Next
  PROVE  OnInv'
<1> USE DEF PrivateTypeOK, MutexInv, CountInv, OnInv, DiskInv, Holding, Restart, Engaged, Member,
            Nobody, Sampling, NoFile, Off, At, Goto, Claim, Relse, shared, local, disk
<1>1. ASSUME NEW p \in Atops, AcctSwon(p), UNCHANGED env PROVE OnInv'
  BY <1>1 DEF AcctSwon, SemGet, SetAll, SwonClaim, First, Mkdir, Creat, AcctOn, Open, Decre,
              SwonRelse, Stat, Vers, Fails, Remove
<1>2. ASSUME NEW p \in Atops, Sample(p), UNCHANGED env PROVE OnInv'
  BY <1>2 DEF Sample, Count, Read, Repos
<1>3. ASSUME NEW p \in Atops, AcctRestartTrial(p), UNCHANGED env PROVE OnInv'
  BY <1>3 DEF AcctRestartTrial, Trial, TrialClaim, Alone, TrialOff, Truncate, TrialOn, TrialRelse
<1>4. ASSUME NEW p \in Atops, AcctSwoff(p), UNCHANGED env PROVE OnInv'
  BY <1>4 DEF AcctSwoff, OffClaim, OffIncre, Grown, OffAcct, OffRemove, OffRelse, Exit, Dies, Remove
<1>5. ASSUME NEW p \in Atops, Start(p) \/ Signal(p) \/ Kill(p) PROVE OnInv'
  BY <1>5 DEF Start, Signal, Stop, Kill, Dies
<1>6. CASE KernelExit \/ Suspend
  BY <1>6 DEF KernelExit, Suspend
<1> QED BY <1>1, <1>2, <1>3, <1>4, <1>5, <1>6 DEF Next, Step

\* Nobody creates or removes the file of a user, except by a start that fails.
LEMMA UserKept ==
    ASSUME PrivateTypeOK, MutexInv, CountInv, UserInv, Next
  PROVE  UserInv'
<1> USE DEF PrivateTypeOK, MutexInv, CountInv, UserInv, Holding, Restart, Engaged, Member, Nobody,
            Sampling, User, NoFile, Off, At, Goto, Claim, Relse, shared, local, disk
<1>1. ASSUME NEW p \in Atops, AcctSwon(p), UNCHANGED env PROVE UserInv'
  BY <1>1 DEF AcctSwon, SemGet, SetAll, SwonClaim, First, Mkdir, Creat, AcctOn, Open, Decre,
              SwonRelse, Stat, Vers, Fails, Remove
<1>2. ASSUME NEW p \in Atops, Sample(p), UNCHANGED env PROVE UserInv'
  BY <1>2 DEF Sample, Count, Read, Repos
<1>3. ASSUME NEW p \in Atops, AcctRestartTrial(p), UNCHANGED env PROVE UserInv'
  BY <1>3 DEF AcctRestartTrial, Trial, TrialClaim, Alone, TrialOff, Truncate, TrialOn, TrialRelse
<1>4. ASSUME NEW p \in Atops, AcctSwoff(p), UNCHANGED env PROVE UserInv'
  BY <1>4 DEF AcctSwoff, OffClaim, OffIncre, Grown, OffAcct, OffRemove, OffRelse, Exit, Dies, Remove
<1>5. ASSUME NEW p \in Atops, Start(p) \/ Signal(p) \/ Kill(p) PROVE UserInv'
  BY <1>5 DEF Start, Signal, Stop, Kill, Dies
<1>6. CASE KernelExit \/ Suspend
  BY <1>6 DEF KernelExit, Suspend
<1> QED BY <1>1, <1>2, <1>3, <1>4, <1>5, <1>6 DEF Next, Step

\* What is counted from the size stays there until it is read.
LEMMA PlaceKept ==
    ASSUME PrivateTypeOK, MutexInv, CountInv, FdInv, UserInv, PlaceInv, Next
  PROVE  PlaceInv'
<1> USE DEF PrivateTypeOK, MutexInv, CountInv, FdInv, UserInv, PlaceInv, Holding, Restart,
            Engaged, Member, Nobody, Sampling, User, At, Goto, Claim, Relse, shared, local, disk
<1>1. ASSUME NEW p \in Atops, AcctSwon(p), UNCHANGED env PROVE PlaceInv'
  <2>1. CASE SemGet(p)
    BY <1>1, <2>1 DEF SemGet
  <2>2. CASE SetAll(p)
    BY <1>1, <2>2 DEF SetAll
  <2>3. CASE SwonClaim(p)
    BY <1>1, <2>3 DEF SwonClaim
  <2>4. CASE First(p)
    BY <1>1, <2>4 DEF First
  <2>5. CASE Mkdir(p)
    BY <1>1, <2>5 DEF Mkdir, Remove
  <2>6. CASE Creat(p)
    BY <1>1, <2>6 DEF Creat
  <2>7. CASE AcctOn(p)
    BY <1>1, <2>7 DEF AcctOn, Remove
  <2>8. CASE Open(p)
    BY <1>1, <2>8 DEF Open, Fails, Remove
  <2>9. CASE Decre(p)
    BY <1>1, <2>9 DEF Decre
  <2>10. CASE SwonRelse(p)
    BY <1>1, <2>10 DEF SwonRelse
  <2>11. CASE Stat(p)
    BY <1>1, <2>11, RecordedGrows DEF Stat
  <2>12. CASE Vers(p)
    BY <1>1, <2>12 DEF Vers, Fails, Remove
  <2> QED BY <1>1, <2>1, <2>2, <2>3, <2>4, <2>5, <2>6, <2>7, <2>8, <2>9, <2>10, <2>11, <2>12 DEF
      AcctSwon
<1>2. ASSUME NEW p \in Atops, Sample(p), UNCHANGED env PROVE PlaceInv'
  BY <1>2 DEF Sample, Count, Read, Repos
<1>3. ASSUME NEW p \in Atops, AcctRestartTrial(p), UNCHANGED env PROVE PlaceInv'
  BY <1>3 DEF AcctRestartTrial, Trial, TrialClaim, Alone, TrialOff, Truncate, TrialOn, TrialRelse
<1>4. ASSUME NEW p \in Atops, AcctSwoff(p), UNCHANGED env PROVE PlaceInv'
  BY <1>4 DEF AcctSwoff, OffClaim, OffIncre, Grown, OffAcct, OffRemove, OffRelse, Exit, Dies, Remove
<1>5. ASSUME NEW p \in Atops, Start(p) \/ Signal(p) \/ Kill(p) PROVE PlaceInv'
  BY <1>5 DEF Start, Signal, Stop, Kill, Dies
<1>6. CASE KernelExit \/ Suspend
  BY <1>6, RecordedGrows DEF KernelExit, Suspend
<1> QED BY <1>1, <1>2, <1>3, <1>4, <1>5, <1>6 DEF Next, Step

\* Whoever stops being the one who sees to the end leaves it to another user.
LEMMA KeptStays ==
    ASSUME KeptSignals, PrivateTypeOK, MutexInv, CountInv, OwnInv, FdInv, DiskInv, KeptInv, Next
  PROVE  KeptInv'
<1> USE DEF KeptSignals, PrivateTypeOK, MutexInv, CountInv, OwnInv, FdInv, DiskInv, KeptInv,
            Keeper, Off, NoFile, Holding, Restart, Engaged, Member, Nobody, Sampling, User, At,
            Goto, Claim, Relse, shared, local, disk, env
<1>1. ASSUME NEW p \in Atops, AcctSwon(p), UNCHANGED env PROVE KeptInv'
  <2>1. CASE SemGet(p)
    BY <1>1, <2>1 DEF SemGet
  <2>2. CASE SetAll(p)
    BY <1>1, <2>2 DEF SetAll
  <2>3. CASE SwonClaim(p)
    BY <1>1, <2>3 DEF SwonClaim
  <2>4. CASE First(p)
    BY <1>1, <2>4 DEF First
  <2>5. CASE Mkdir(p)
    BY <1>1, <2>5 DEF Mkdir, Remove
  <2>6. CASE Creat(p)
    BY <1>1, <2>6 DEF Creat
  <2>7. CASE AcctOn(p)
    BY <1>1, <2>7 DEF AcctOn, Remove
  <2>8. CASE Open(p)
    BY <1>1, <2>8 DEF Open, Fails, Remove
  <2>9. CASE Decre(p)
    BY <1>1, <2>9 DEF Decre
  <2>10. CASE SwonRelse(p)
    BY <1>1, <2>10 DEF SwonRelse
  <2>11. CASE Stat(p)
    BY <1>1, <2>11 DEF Stat
  <2>12. CASE Vers(p)
    BY <1>1, <2>12 DEF Vers, Fails, Remove
  <2> QED BY <1>1, <2>1, <2>2, <2>3, <2>4, <2>5, <2>6, <2>7, <2>8, <2>9, <2>10, <2>11, <2>12 DEF
      AcctSwon
<1>2. ASSUME NEW p \in Atops, Sample(p), UNCHANGED env PROVE KeptInv'
  BY <1>2 DEF Sample, Count, Read, Repos
<1>3. ASSUME NEW p \in Atops, AcctRestartTrial(p), UNCHANGED env PROVE KeptInv'
  <2>1. CASE Trial(p)
    BY <1>3, <2>1 DEF Trial
  <2>2. CASE TrialClaim(p)
    BY <1>3, <2>2 DEF TrialClaim
  <2>3. CASE Alone(p)
    BY <1>3, <2>3 DEF Alone
  <2>4. CASE TrialOff(p)
    BY <1>3, <2>4 DEF TrialOff
  <2>5. CASE Truncate(p)
    BY <1>3, <2>5 DEF Truncate
  <2>6. CASE TrialOn(p)
    BY <1>3, <2>6 DEF TrialOn
  <2>7. CASE TrialRelse(p)
    BY <1>3, <2>7 DEF TrialRelse
  <2> QED BY <1>3, <2>1, <2>2, <2>3, <2>4, <2>5, <2>6, <2>7 DEF AcctRestartTrial
<1>4. ASSUME NEW p \in Atops, AcctSwoff(p), UNCHANGED env PROVE KeptInv'
  <2>1. CASE OffClaim(p)
    BY <1>4, <2>1 DEF OffClaim
  <2>2. CASE OffIncre(p)
    BY <1>4, <2>2 DEF OffIncre
  <2>3. CASE Grown(p)
    BY <1>4, <2>3 DEF Grown
  <2>4. CASE OffAcct(p)
    BY <1>4, <2>4 DEF OffAcct
  <2>5. CASE OffRemove(p)
    BY <1>4, <2>5 DEF OffRemove, Remove
  <2>6. CASE OffRelse(p)
    BY <1>4, <2>6 DEF OffRelse
  <2>7. CASE Exit(p)
    BY <1>4, <2>7 DEF Exit, Dies
  <2> QED BY <1>4, <2>1, <2>2, <2>3, <2>4, <2>5, <2>6, <2>7 DEF AcctSwoff
<1>5. ASSUME NEW p \in Atops, Start(p) \/ Signal(p) \/ Kill(p) PROVE KeptInv'
  <2>1. CASE Start(p)
    BY <1>5, <2>1 DEF Start
  <2>2. CASE Signal(p)
    BY <1>5, <2>2 DEF Signal, Stop
  <2>3. CASE Kill(p)
    BY <1>5, <2>3 DEF Kill, Dies
  <2> QED BY <1>5, <2>1, <2>2, <2>3
<1>6. CASE KernelExit \/ Suspend
  BY <1>6 DEF KernelExit, Suspend
<1> QED BY <1>1, <1>2, <1>3, <1>4, <1>5, <1>6 DEF Next, Step

(***************************************************************************)
(* The invariant.                                                          *)
(***************************************************************************)
\* Type correctness in every step.
LEMMA TypeKept == ASSUME PrivateTypeOK, FdInv, Next PROVE PrivateTypeOK'
  BY ControlTypeKept, FilesTypeKept, PlacesTypeKept, FlagsTypeKept, HistoryTypeKept, BoundsTypeKept
     DEF PrivateTypeOK, ControlType, FilesType, PlacesType, FlagsType, HistoryType, BoundsType

\* The initial states satisfy the invariant.
LEMMA PrivateInitInv == Init => PrivateInv /\ KeptInv
<1> SUFFICES ASSUME Init PROVE PrivateInv /\ KeptInv
  OBVIOUS
<1> USE DEF Init
<1>1. PrivateTypeOK
  <2>1. Cardinality(Atops) \in Nat
    BY FS_CardinalityType
  <2>2. FilesType /\ PlacesType /\ ControlType
    BY DEF FilesType, PlacesType, ControlType
  <2>3. dir \in BOOLEAN /\ susp \in BOOLEAN /\ own \in [Atops -> BOOLEAN]
    OBVIOUS
  <2>4. BoundsType /\ spoiled \subseteq {"start", "stop"}
    BY DEF BoundsType
  <2> QED BY <2>2, <2>3, <2>4 DEF PrivateTypeOK, FilesType, PlacesType, ControlType, BoundsType
<1>2. MutexInv /\ CountInv /\ FdInv /\ OwnInv
  BY DEF MutexInv, CountInv, FdInv, OwnInv, Holding, Restart, Member, Nobody, User, Unopened,
         Engaged, Sampling
<1>3. DiskInv /\ OnInv /\ UserInv /\ PlaceInv
  BY DEF DiskInv, OnInv, UserInv, PlaceInv, User, Engaged, Sampling, Restart
<1>4. KeptInv
  BY DEF KeptInv
<1> QED BY <1>1, <1>2, <1>3, <1>4 DEF PrivateInv, SharingInv

\* Every step keeps the invariant.
LEMMA PrivateStep == PrivateInv /\ [Next]_pvars => PrivateInv'
<1> SUFFICES ASSUME PrivateInv, [Next]_pvars PROVE PrivateInv'
  OBVIOUS
<1> USE DEF PrivateInv, SharingInv
<1>1. CASE Next
  BY <1>1, TypeKept, MutexKept, CountKept, FdKept, OwnKept, DiskKept, OnKept, UserKept, PlaceKept
<1>2. CASE UNCHANGED pvars
  <2> USE <1>2 DEF pvars, shared, disk, local, env
  <2>1. PrivateTypeOK'
    BY DEF PrivateTypeOK
  <2>2. MutexInv' /\ CountInv' /\ FdInv' /\ OwnInv'
    BY DEF MutexInv, CountInv, FdInv, OwnInv
  <2>3. DiskInv' /\ OnInv' /\ UserInv' /\ PlaceInv'
    BY DEF DiskInv, OnInv, UserInv, PlaceInv
  <2> QED BY <2>1, <2>2, <2>3
<1> QED BY <1>1, <1>2

\* The invariant holds in every reachable state, wherever signals hit.
THEOREM PrivateInvariance == Spec => []PrivateInv
  BY PrivateInitInv, PrivateStep, PTL DEF Spec

\* acctphotoproc() has as many records to read as acctprocnt() has counted, for
\* any number of atops: its loop ends.
THEOREM PrivateCounts == Spec => []PrivateSound
<1>1. PrivateInv => PrivateSound
  BY DEF PrivateInv, SharingInv, PrivateSound, NeverSpins, PlaceInv, Engaged, Sampling, At
<1> QED BY <1>1, PrivateInvariance, PTL

(***************************************************************************)
(* No user loses records to another.                                       *)
(***************************************************************************)
\* As long as an atop uses the file and does not truncate it, accounting is on for it.
LEMMA OnForUser ==
  ASSUME PrivateInv, "start" \notin spoiled, NEW p \in Atops, pc[p] \in Engaged \ Restart
  PROVE  accton = fd[p] /\ fd[p] \in Inodes
<1> USE DEF PrivateInv, SharingInv
<1>1. fd[p] = file /\ file # NoFile /\ file \in Inodes /\ p \in counted
  BY DEF UserInv, FdInv, CountInv, User, Member, PrivateTypeOK
<1>2. CASE accton # file
  <2>1. holder = p
    BY <1>1, <1>2 DEF OnInv
  <2>2. pc[p] = "alone"
    BY <2>1 DEF MutexInv, Holding, Engaged, Sampling
  <2> QED BY <1>1, <1>2, <2>2 DEF OnInv
<1> QED BY <1>1, <1>2

\* What EveryExitSeen says of one step.
Seen(p) == (pc[p] \in Engaged /\ pc'[p] \in Engaged /\ "start" \notin spoiled') =>
         /\ size'[fd[p]] < size[fd[p]] => At(p, "trunc")
         /\ (exits' > exits /\ ~susp /\ pc[p] \notin Restart) =>
              size'[fd[p]] > size[fd[p]]
AllSeen == \A p \in Atops : Seen(p)

\* No step makes the file of a user shorter that does not truncate it itself, and
\* every exit makes it longer.
LEMMA ExitSeen == ASSUME PrivateInv, Next PROVE AllSeen
<1> USE DEF PrivateInv, SharingInv, AllSeen, Seen, PrivateTypeOK, MutexInv, CountInv, FdInv,
            DiskInv, OnInv, UserInv, Keeper, Holding, Restart, Engaged, Member, Nobody, Sampling,
            User, At, Goto, Claim, Relse, shared, local, disk, env
<1>1. ASSUME NEW p \in Atops, AcctSwon(p), UNCHANGED env PROVE AllSeen
  BY <1>1, RecordedGrows DEF AcctSwon, SemGet, SetAll, SwonClaim, First, Mkdir, Creat, AcctOn,
                             Open, Decre, SwonRelse, Stat, Vers, Fails, Remove
<1>2. ASSUME NEW p \in Atops, Sample(p), UNCHANGED env PROVE AllSeen
  BY <1>2 DEF Sample, Count, Read, Repos
<1>3. ASSUME NEW p \in Atops, AcctRestartTrial(p), UNCHANGED env PROVE AllSeen
  BY <1>3 DEF AcctRestartTrial, Trial, TrialClaim, Alone, TrialOff, Truncate, TrialOn, TrialRelse
<1>4. ASSUME NEW p \in Atops, AcctSwoff(p), UNCHANGED env PROVE AllSeen
  BY <1>4, RecordedGrows DEF AcctSwoff, OffClaim, OffIncre, Grown, OffAcct, OffRemove, OffRelse,
                             Exit, Dies, Remove
<1>5. ASSUME NEW p \in Atops, Start(p) \/ Signal(p) \/ Kill(p) PROVE AllSeen
  BY <1>5 DEF Start, Signal, Stop, Kill, Dies
<1>6. CASE KernelExit \/ Suspend
  <2>1. ASSUME NEW p \in Atops, pc[p] \in Engaged, "start" \notin spoiled, ~ susp,
               pc[p] \notin Restart
        PROVE  Recorded[fd[p]] > size[fd[p]]
    BY <2>1, OnForUser DEF Recorded
  <2>2. (size' = size /\ exits' = exits) \/ size' = Recorded
    BY <1>6 DEF KernelExit, Suspend
  <2>3. spoiled' = spoiled /\ pc' = pc /\ fd' = fd
    BY <1>6 DEF KernelExit, Suspend
  <2>4. \A p \in Atops : pc[p] \in Engaged => fd[p] \in Inodes
    BY DEF FdInv, User, PrivateTypeOK
  <2>5. \A i \in Inodes : Recorded[i] >= size[i] /\ Recorded[i] \in Nat /\ size[i] \in Nat
    BY RecordedGrows DEF PrivateTypeOK
  <2>6. exits \in Nat
    BY DEF PrivateTypeOK
  <2>7. ASSUME NEW p \in Atops, pc[p] \in Engaged, "start" \notin spoiled
        PROVE  /\ ~ (size'[fd[p]] < size[fd[p]])
               /\ exits' > exits /\ ~ susp /\ pc[p] \notin Restart => size'[fd[p]] > size[fd[p]]
    <3> HIDE DEF PrivateInv, SharingInv, Engaged, Restart
    <3>1. fd[p] \in Inodes
      BY <2>4, <2>7
    <3>2. CASE size' = size /\ exits' = exits
      BY <2>5, <2>6, <3>1, <3>2
    <3>3. CASE size' = Recorded
      BY <2>1, <2>5, <2>7, <3>1, <3>3
    <3> QED BY <2>2, <3>2, <3>3
  <2> HIDE DEF PrivateInv, SharingInv, Engaged, Restart
  <2> QED BY <2>3, <2>7
<1> QED BY <1>1, <1>2, <1>3, <1>4, <1>5, <1>6 DEF Next, Step

\* Every exit is recorded in the file of every user, and nobody truncates the
\* file of another (acctrestarttrial(), acctswon(), acctswoff()).
THEOREM EveryExitIsSeen == Spec => EveryExitSeen
<1>1. PrivateInv /\ [Next]_pvars => [AllSeen]_pvars
  BY ExitSeen
<1> QED BY <1>1, PrivateInvariance, PTL DEF Spec, EveryExitSeen, AllSeen, Seen

(***************************************************************************)
(* The last atop switches accounting off.                                  *)
(***************************************************************************)
\* It does if signals wait for the end of acctswon(): one that hits in between leaves
\* accounting on, see the README.
THEOREM LastTurnsOff == KeptSignals => (Spec => []LastStops)
<1> SUFFICES ASSUME KeptSignals PROVE Spec => []LastStops
  OBVIOUS
<1>1. PrivateInv /\ KeptInv /\ [Next]_pvars => KeptInv'
  <2> SUFFICES ASSUME PrivateInv, KeptInv, [Next]_pvars PROVE KeptInv'
    OBVIOUS
  <2>1. CASE Next
    BY <2>1, KeptStays DEF PrivateInv, SharingInv
  <2>2. CASE UNCHANGED pvars
    BY <2>2 DEF KeptInv, pvars, shared, disk, env
  <2> QED BY <2>1, <2>2
<1>2. PrivateInv /\ KeptInv => LastStops
  BY DEF LastStops, PrivateInv, SharingInv, KeptInv, Keeper, Member, Engaged, Sampling, Restart, At
<1> QED BY <1>1, <1>2, PrivateInitInv, PrivateInvariance, PTL DEF Spec
=============================================================================
