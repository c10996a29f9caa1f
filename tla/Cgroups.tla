------------------------------ MODULE Cgroups -------------------------------
(***************************************************************************)
(* The cgroups of a sample (cgroups.c): the walk through the directories   *)
(* of the cgroup file system, while directories and processes come, go and *)
(* move, and the search of the previous sample for every cgroup.           *)
(*                                                                         *)
(* A directory is its path, a sequence of names; a name is one character.  *)
(***************************************************************************)
EXTENDS Integers, Sequences, FiniteSets, SequencesExt, FiniteSetsExt

CONSTANTS
  Letters,       \* names of directories
  MaxLevels,     \* depth of the file system
  CgPids,        \* processes
  MaxCgEvents,   \* changes of the file system ...
  MaxWalks       \* ... while so many samples are taken

ASSUME CgroupsAssumption ==
  /\ Letters \subseteq Nat \ {0} /\ IsFiniteSet(CgPids)
  /\ MaxLevels \in Nat /\ MaxCgEvents \in Nat /\ MaxWalks \in Nat

VARIABLES
  dirs,      \* the directories (the root is << >>)
  where,     \* the directory of every process
  cgevents,  \* changes so far
  walks,     \* samples so far
  todo,      \* calls of walkcgroup() still to be made or finished, the next first
  cgcur,     \* the current chain: [path, parentseq, depth, hash, proclist, procsbelow]
  cgpre,     \* the previous chain
  cgdev,     \* the chain of deviations: for every current cgroup its place in
             \* the previous chain, 0 for none
  lost       \* directories that vanished before the walk came to them

cgvars == <<dirs, where, cgevents, walks, todo, cgcur, cgpre, cgdev, lost>>

Paths == UNION {[1 .. n -> Letters] : n \in 0 .. MaxLevels}
Up(p) == Front(p)
SubDirs(p) == {d \in dirs : d # << >> /\ Up(d) = p}
Idle == todo = << >>

CgInit ==
  /\ dirs \in {{<< >>}, {<< >>, <<1>>, <<2>>}, {<< >>, <<1>>, <<1, 2>>}}
  /\ where \in [CgPids -> dirs]
  /\ cgevents = 0 /\ walks = 0 /\ todo = << >>
  /\ cgcur = << >> /\ cgpre = << >> /\ cgdev = << >> /\ lost = {}
CgOff ==
  /\ dirs = {} /\ where = << >>
  /\ cgevents = 0 /\ walks = 0 /\ todo = << >>
  /\ cgcur = << >> /\ cgpre = << >> /\ cgdev = << >> /\ lost = {}

-----------------------------------------------------------------------------
(* The file system *)

CgEvent == cgevents < MaxCgEvents /\ cgevents' = cgevents + 1
Mkdir == \E p \in Paths \ dirs :
  /\ p # << >> /\ Up(p) \in dirs /\ CgEvent /\ dirs' = dirs \union {p}
  /\ UNCHANGED <<where, walks, todo, cgcur, cgpre, cgdev, lost>>
Rmdir == \E p \in dirs \ {<< >>} :
  /\ SubDirs(p) = {} /\ (\A pid \in CgPids : where[pid] # p) /\ CgEvent /\ dirs' = dirs \ {p}
  /\ UNCHANGED <<where, walks, todo, cgcur, cgpre, cgdev, lost>>
Move == \E pid \in CgPids, p \in dirs :
  /\ p # where[pid] /\ CgEvent /\ where' = [where EXCEPT ![pid] = p]
  /\ UNCHANGED <<dirs, walks, todo, cgcur, cgpre, cgdev, lost>>

-----------------------------------------------------------------------------
(* The walk *)

(* The characters of the path, without slashes, each times its place. *)
hashcalc(p) == SumFunction([i \in DOMAIN p |-> p[i] * i])

(* A sample: the current chain becomes the previous one. *)
photocgroup ==
  /\ Idle /\ walks < MaxWalks /\ walks' = walks + 1
  /\ cgpre' = cgcur /\ cgcur' = << >> /\ cgdev' = << >> /\ lost' = {}
  /\ todo' = << [call |-> "enter", path |-> << >>, parentseq |-> 0] >>
  /\ UNCHANGED <<dirs, where, cgevents>>

Enter(call) == todo # << >> /\ Head(todo).call = call

(* walkcgroup() when the directory has gone: -1 is added to the processes    *)
(* below its parent.                                                         *)
Vanished ==
  LET c == Head(todo) IN
  /\ Enter("enter") /\ c.path \notin dirs
  /\ cgcur' = [cgcur EXCEPT ![c.parentseq].procsbelow = @ - 1]
  /\ lost' = lost \union {c.path}
  /\ todo' = Tail(todo)
  /\ UNCHANGED <<dirs, where, cgevents, walks, cgpre, cgdev>>

(* The first part of walkcgroup(): a member of the chain, with the processes *)
(* that cgroup.procs shows, and the subdirectories to be walked, in the      *)
(* order in which readdir() has them.  The number of the member is its place *)
(* in the chain.                                                             *)
walkcgroup ==
  LET c == Head(todo)
      seq == Len(cgcur) + 1
  IN  /\ Enter("enter") /\ c.path \in dirs
      /\ cgcur' = Append(cgcur, [path |-> c.path, parentseq |-> c.parentseq,
           depth |-> Len(c.path), hash |-> hashcalc(c.path),
           proclist |-> {pid \in CgPids : where[pid] = c.path}, procsbelow |-> 0])
      /\ \E sub \in SetToSeqs(SubDirs(c.path)) :
           todo' = [i \in DOMAIN sub |-> [call |-> "enter", path |-> sub[i], parentseq |-> seq]]
                   \o <<[call |-> "leave", path |-> c.path, parentseq |-> seq]>> \o Tail(todo)
      /\ UNCHANGED <<dirs, where, cgevents, walks, cgpre, cgdev, lost>>

\* Mutant: the processes of the directory itself are not counted.
WithoutOwn ==
  LET seq == Head(todo).parentseq
      parent == cgcur[seq].parentseq
  IN  /\ Enter("leave")
      /\ cgcur' = IF parent = 0 THEN cgcur
                  ELSE [cgcur EXCEPT ![parent].procsbelow =
                          @ + Cardinality(cgcur[seq].proclist)]
      /\ todo' = Tail(todo)
      /\ UNCHANGED <<dirs, where, cgevents, walks, cgpre, cgdev, lost>>

(* Its end: the processes of the directory and of those below are returned   *)
(* to the call for the parent.                                               *)
Return ==
  LET seq == Head(todo).parentseq
      parent == cgcur[seq].parentseq
  IN  /\ Enter("leave")
      /\ cgcur' = IF parent = 0 THEN cgcur
                  ELSE [cgcur EXCEPT ![parent].procsbelow =
                          @ + cgcur[seq].procsbelow + Cardinality(cgcur[seq].proclist)]
      /\ todo' = Tail(todo)
      /\ UNCHANGED <<dirs, where, cgevents, walks, cgpre, cgdev, lost>>

-----------------------------------------------------------------------------
(* The deviations *)

(* hashadd() puts a cgroup in front of those with the same hash, hashfind() *)
(* takes the first.                                                         *)
hashfind(h) == Max({0} \union {i \in DOMAIN cgpre : cgpre[i].hash = h})

(* The chains are walked side by side as long as the hashes agree; from the *)
(* first that does not, the previous one is searched.                       *)
InSync(i) == \A j \in 1 .. i : j \in DOMAIN cgpre /\ cgcur[j].hash = cgpre[j].hash
\* Mutant: the chains are walked on side by side as long as the depths agree.
SideBySide == [i \in DOMAIN cgcur |->
  IF i \in DOMAIN cgpre /\ (InSync(i) \/ cgcur[i].depth = cgpre[i].depth) THEN i
  ELSE hashfind(cgcur[i].hash)]
cgcalcdeviate == [i \in DOMAIN cgcur |-> IF InSync(i) THEN i ELSE hashfind(cgcur[i].hash)]

deviatcgroup ==
  /\ Idle /\ cgcur # << >> /\ cgdev = << >>
  /\ cgdev' = cgcalcdeviate
  /\ UNCHANGED <<dirs, where, cgevents, walks, todo, cgcur, cgpre, lost>>

(* A reset by the user, between two samples. *)
cgwipecur ==
  /\ Idle /\ cgdev # << >> /\ walks < MaxWalks
  /\ cgcur' = << >>
  /\ UNCHANGED <<dirs, where, cgevents, walks, todo, cgpre, cgdev, lost>>

CgNext ==
  \/ Mkdir \/ Rmdir \/ Move
  \/ (photocgroup /\ (walks = 0 \/ cgdev # << >>))
  \/ Vanished \/ walkcgroup \/ Return \/ deviatcgroup \/ cgwipecur

-----------------------------------------------------------------------------
(* Properties *)

Walked == Idle /\ cgcur # << >>
Below(i) == {j \in DOMAIN cgcur : Len(cgcur[j].path) > Len(cgcur[i].path)
                                  /\ IsPrefix(cgcur[i].path, cgcur[j].path)}
Listed(S) == SumFunction([j \in S |-> Cardinality(cgcur[j].proclist)])

(* After the first change of the tree too, a cgroup is compared with its own *)
(* counters of the previous sample, and with none if it had none: unless two *)
(* paths have the same hash (cgroups.c:721-767).                             *)
SameHash == \E p, q \in {c.path : c \in Range(cgcur) \union Range(cgpre)} :
              p # q /\ hashcalc(p) = hashcalc(q)
OwnCounters ==
  cgcur # << >> /\ cgdev # << >> /\ ~SameHash =>
    \A i \in DOMAIN cgcur :
      IF cgdev[i] = 0 THEN \A c \in Range(cgpre) : c.path # cgcur[i].path
      ELSE cgpre[cgdev[i]].path = cgcur[i].path

(* The number of processes below a cgroup is that of the members of the      *)
(* chain below it, whatever moves in the meantime, when no directory goes    *)
(* between the listing of its parent and the visit.                          *)
BelowAddsUp ==
  Walked /\ lost = {} => \A i \in DOMAIN cgcur : cgcur[i].procsbelow = Listed(Below(i))

(* cgroupfilter() when unused cgroups are not wanted. *)
Used(c) == c.proclist # {} \/ c.procsbelow # 0

(* "skip this level and lower levels if no processes are assigned at all"    *)
(* (cgroups.c:1352-1353): a cgroup that is left out has no process, nor has  *)
(* one below it.                                                             *)
SkipsEmpty ==
  Walked => \A i \in DOMAIN cgcur :
    ~Used(cgcur[i]) => Listed(Below(i) \union {i}) = 0
=============================================================================
