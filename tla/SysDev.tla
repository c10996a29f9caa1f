------------------------------- MODULE SysDev -------------------------------
(***************************************************************************)
(* The counters of devices that come and go: network interfaces, disks,    *)
(* NFS mounts and CPUs.  photosyst() lists what the kernel has now,        *)
(* deviatsyst() subtracts the previous list from it, and has to find for   *)
(* each device its own earlier counters in a list that may have others, in *)
(* other places.                                                           *)
(*                                                                         *)
(* One table is followed per behaviour.  All counters of a device are one  *)
(* counter here.  A device carries an identity that the program does not   *)
(* see: a name may be used again by another device.                        *)
(***************************************************************************)
EXTENDS SysFlow, Ranks, Sequences, SequencesExt, FiniteSets

CONSTANTS
  Tables,     \* the tables followed: "intf", "dsk", "nfs", "cpu", or "flow" for SysFlow
  Names,      \* names of devices, numbers: the order of the hash table
  Types,      \* types an interface may have: "v"irtual, "e"thernet, "?"
  Cpus, Node, \* CPU numbers, and those of one NUMA node
  MAXENT,     \* places in a table, the last one for the terminator
  DevInterval,   \* seconds between two samples
  MaxCount,   \* bound: value of a counter
  MaxChanges, \* bound: devices added, removed, switched on or off
  MaxSamples  \* bound: samples

ASSUME SysDevAssumption ==
  /\ Tables \subseteq {"intf", "dsk", "nfs", "cpu", "flow"}
  /\ Names \subseteq Nat /\ IsFiniteSet(Names)
  /\ Cpus \subseteq Nat /\ IsFiniteSet(Cpus) /\ 0 \in Cpus /\ Node \subseteq Cpus
  /\ Types \subseteq {"v", "e", "?"}
  /\ MAXENT \in Nat \ {0, 1} /\ DevInterval \in Nat \ {0}
  /\ MaxCount \in Nat /\ MaxChanges \in Nat /\ MaxSamples \in Nat

VARIABLES
  tbl,      \* the table followed
  ktype,    \* the type of the interface with a name
  kern,     \* the devices of the kernel, in its order
  clock,    \* seconds since the previous sample
  changes,  \* counter: changes of the configuration, also identities given
  nsample,  \* counter: samples taken
  ifhash,   \* what atop knows of the interfaces: type, "i" for invalid
  pre, cur, dev,  \* previous sample, current sample and the deviations
  seen,     \* history: the counters of a CPU when it was last seen online
  numa,     \* the NUMA node: sum over CPUs, previous sum, deviation
  perf      \* the perf counters that are open

dvars == <<tbl, ktype, kern, clock, changes, nsample, ifhash, pre, cur, dev, seen, numa, perf>>
devvars == <<dvars, fvars>>

NoPerf == [alloced |-> 0, onliners |-> 0, nrcpu |-> 0, fds |-> {}, read |-> {}]
Device(n, id) == [name |-> n, id |-> id, val |-> 0, age |-> 0, on |-> TRUE]
NoDevice == Device(-1, 0)

DevInit ==
  /\ tbl \in Tables
  /\ ktype \in [Names -> IF tbl = "intf" THEN Types ELSE {"v"}]
  /\ kern = IF tbl = "cpu"
            THEN [i \in 1 .. Cardinality(Cpus) |-> Device(Nth(Cpus, i), i)]
            ELSE IF tbl = "flow" THEN << >>
            ELSE [i \in 1 .. Cardinality(Names) |-> Device(Nth(Names, i), i)]
  /\ clock = 0 /\ changes = 0 /\ nsample = 0
  /\ ifhash = << >>
  /\ pre = << >> /\ cur = << >> /\ dev = << >>
  /\ seen = [c \in Cpus |-> 0] /\ perf = NoPerf
  /\ numa = [cur |-> 0, pre |-> 0, dev |-> 0, grown |-> 0, same |-> FALSE]
  /\ IF tbl = "flow" THEN FlowInit ELSE FlowOff
DevOff ==
  /\ tbl = "off" /\ ktype = << >> /\ kern = << >>
  /\ clock = 0 /\ changes = 0 /\ nsample = 0
  /\ ifhash = << >>
  /\ pre = << >> /\ cur = << >> /\ dev = << >>
  /\ seen = << >> /\ perf = NoPerf
  /\ numa = [cur |-> 0, pre |-> 0, dev |-> 0, grown |-> 0, same |-> FALSE]
  /\ FlowOff
-----------------------------------------------------------------------------
\* The system.

Plug ==
  /\ tbl # "cpu" /\ changes < MaxChanges
  /\ \E n \in Names \ {kern[i].name : i \in DOMAIN kern} :
       kern' = Append(kern, Device(n, Cardinality(Names) + changes + 1))
  /\ changes' = changes + 1
  /\ UNCHANGED <<tbl, ktype, clock, nsample, ifhash, pre, cur, dev, seen, numa, perf>>

Unplug ==
  /\ tbl # "cpu" /\ changes < MaxChanges
  /\ \E i \in DOMAIN kern : kern' = RemoveAt(kern, i)
  /\ changes' = changes + 1
  /\ UNCHANGED <<tbl, ktype, clock, nsample, ifhash, pre, cur, dev, seen, numa, perf>>

Hotplug ==
  /\ tbl = "cpu" /\ changes < MaxChanges
  /\ \E i \in DOMAIN kern :
       /\ kern[i].name # 0
       /\ kern' = [kern EXCEPT ![i].on = ~ @]
  /\ changes' = changes + 1
  /\ UNCHANGED <<tbl, ktype, clock, nsample, ifhash, pre, cur, dev, seen, numa, perf>>

Work ==
  /\ \E i \in DOMAIN kern :
       /\ kern[i].on /\ kern[i].val < MaxCount
       /\ kern' = [kern EXCEPT ![i].val = @ + 1]
  /\ UNCHANGED <<tbl, ktype, clock, changes, nsample, ifhash, pre, cur, dev, seen, numa, perf>>

\* The age of a mount matters, in seconds.
Tick ==
  /\ tbl = "nfs" /\ clock < DevInterval
  /\ clock' = clock + 1
  /\ kern' = [i \in DOMAIN kern |-> [kern[i] EXCEPT !.age = @ + 1]]
  /\ UNCHANGED <<tbl, ktype, changes, nsample, ifhash, pre, cur, dev, seen, numa, perf>>
-----------------------------------------------------------------------------
\* The properties of interfaces.

\* One pass over the hash table that takes the surplus interfaces away, the
\* virtual ones first: n interfaces and phys physical ones are left.
Physical(tab) == {x \in DOMAIN tab : tab[x] # "v"}
Invalidate(tab) ==
  LET pass[k \in 0 .. Cardinality(DOMAIN tab)] ==
        IF k = 0 THEN [tab |-> tab, n |-> Cardinality(DOMAIN tab),
                       phys |-> Cardinality(Physical(tab))]
        ELSE LET s == pass[k - 1]
                 x == Nth(DOMAIN tab, k)
             IN IF s.n < MAXENT THEN s
                ELSE IF s.tab[x] = "e"
                THEN IF s.phys >= MAXENT
                     THEN [tab |-> [s.tab EXCEPT ![x] = "i"], n |-> s.n - 1, phys |-> s.phys - 1]
                     ELSE s
                ELSE [tab |-> [s.tab EXCEPT ![x] = "i"], n |-> s.n - 1, phys |-> s.phys]
  IN pass[Cardinality(DOMAIN tab)].tab

\* initifprop(), once a minute: all the interfaces there are.
InitIfprop(due) ==
  IF due \/ ifhash = << >>
  THEN Invalidate([n \in {kern[i].name : i \in DOMAIN kern} |-> ktype[n]])
  ELSE ifhash

\* getifprop(): an interface that is known and not invalidated.
Valid(tab, n) == n \in DOMAIN tab /\ tab[n] # "i"
-----------------------------------------------------------------------------
\* photosyst(): the list of the devices of the kernel, as far as there is place.

FirstOf(S) ==
  [k \in 1 .. (IF Cardinality(S) < MAXENT - 1 THEN Cardinality(S) ELSE MAXENT - 1) |->
     kern[Nth(S, k)]]

ValidIn(tab) == {i \in DOMAIN kern : Valid(tab, kern[i].name)}
PhotoIntf(tab) == FirstOf(ValidIn(tab))
PhotoDsk  == FirstOf({i \in DOMAIN kern : kern[i].val # 0})
PhotoNfs  == FirstOf(DOMAIN kern)
Online    == {kern[i].name : i \in {k \in DOMAIN kern : kern[k].on}}
MaxOf(S)  == CHOOSE m \in S : \A n \in S : n <= m
\* Every CPU has its place, the places above the last one online are not looked at.
PhotoCpu ==
  LET maxcpu == MaxOf(Online) + 1
      At(c) == CHOOSE i \in DOMAIN kern : kern[i].name = c
  IN [i \in 1 .. maxcpu |-> IF i - 1 \in Online THEN kern[At(i - 1)]
                            ELSE [NoDevice EXCEPT !.on = FALSE]]
-----------------------------------------------------------------------------
\* getperfevents(): descriptors for the CPUs online, opened again when the CPUs differ.

Squares(S) == LET sum[c \in 0 .. MaxOf(Cpus)] ==
                    (IF c \in S THEN c * c ELSE 0) + (IF c = 0 THEN 0 ELSE sum[c - 1])
              IN sum[MaxOf(Cpus)]
Onliners == Squares(Online)

PerfChanged == \/ perf.alloced # MaxOf(Online) + 1
               \/ perf.onliners # Onliners
               \/ perf.nrcpu # Cardinality(Online)

\* None of them can be opened (usable is FALSE): there will never be any.
GetPerfEvents(usable) ==
  IF perf.alloced = -1 THEN perf
  ELSE IF PerfChanged
  THEN IF usable
       THEN [alloced |-> MaxOf(Online) + 1, onliners |-> Onliners,
             nrcpu |-> Cardinality(Online), fds |-> Online, read |-> {}]
       ELSE [NoPerf EXCEPT !.alloced = -1]
  ELSE [perf EXCEPT !.read = Online]
-----------------------------------------------------------------------------
\* deviatsyst().

NameAt(s, j) == IF j \in DOMAIN s THEN s[j].name ELSE -1
\* The first place from j on with this name, behind the end if there is none.
Find(s, n, j) ==
  LET hits == {k \in j .. Len(s) : s[k].name = n}
  IN IF hits = {} THEN Len(s) + 1 ELSE CHOOSE k \in hits : \A l \in hits : k <= l

StepIntf(p, n, j) ==
  LET k == IF NameAt(p, j) = n THEN j ELSE Find(p, n, 1)
  IN IF k > Len(p) THEN [at |-> 0, j |-> 2] ELSE [at |-> k, j |-> k + 1]

\* Mutant: a disk that is not found leaves the search at the end.
StepDskNoRestore(p, n, j) ==
  LET k == IF NameAt(p, j) = n THEN j ELSE Find(p, n, j + 1)
  IN [at |-> IF k > Len(p) THEN 0 ELSE k, j |-> k + 1]
StepDsk(p, n, j) ==
  LET k == IF NameAt(p, j) = n THEN j ELSE Find(p, n, j + 1)
  IN IF k > Len(p) THEN [at |-> 0, j |-> j] ELSE [at |-> k, j |-> k + 1]

StepNfs(p, n, j) ==
  LET k == IF NameAt(p, j) = n THEN j ELSE Find(p, n, 1)
  IN [at |-> IF k > Len(p) THEN 0 ELSE k, j |-> k + 1]

\* Which place of p belongs to each place of c, 0 for none; j is the place
\* the loop looks at first.
Step(p, n, j) == CASE tbl = "intf" -> StepIntf(p, n, j)
                   [] tbl = "dsk"  -> StepDsk(p, n, j)
                   [] OTHER        -> StepNfs(p, n, j)
Places(c, p) ==
  LET walk[i \in 0 .. Len(c)] ==
        IF i = 0 THEN [at |-> 0, j |-> 1] ELSE Step(p, c[i].name, walk[i - 1].j)
  IN [i \in 1 .. Len(c) |-> walk[i].at]

Diff(c, p, at) == [i \in DOMAIN c |->
  [c[i] EXCEPT !.val = subcount(@, IF at[i] = 0 THEN 0 ELSE p[at[i]].val)]]

\* The first sample of interfaces: all names, no counters.
FirstIntf(c, p) == IF p = << >> THEN [i \in DOMAIN c |-> [c[i] EXCEPT !.val = 0]] ELSE p
DevIntf(c, p) == LET q == FirstIntf(c, p)
                 IN Diff(c, q, Places(c, q))
DevDsk(c, p)  == Diff(c, p, Places(c, p))
\* A mount younger than the interval has nothing in common with the earlier one.
Young(d) == d.age <= DevInterval
DevNfs(c, p) ==
  LET at == Places(c, p)
  IN Diff(c, p, [i \in DOMAIN c |-> IF Young(c[i]) THEN 0 ELSE at[i]])

\* Mutant: the places behind the last CPU online are forgotten.
KeepCpuShort(c, p) ==
  [i \in DOMAIN c |-> IF c[i].on \/ i > Len(p) THEN c[i] ELSE [p[i] EXCEPT !.on = FALSE]]
\* A CPU that is offline keeps its counters, in the sample too.
KeepCpu(c, p) ==
  [i \in 1 .. (IF Len(c) < Len(p) THEN Len(p) ELSE Len(c)) |->
     IF i <= Len(c) /\ c[i].on THEN c[i]
     ELSE [(IF i <= Len(p) THEN p[i] ELSE NoDevice) EXCEPT !.on = FALSE]]
DevCpu(c, p) ==
  [i \in DOMAIN c |->
     IF c[i].on THEN [c[i] EXCEPT !.val = subcount(@, IF i <= Len(p) THEN p[i].val ELSE 0)]
     ELSE c[i]]

\* What photosyst() adds up for a NUMA node, on being the CPUs online: its cpumap has the CPUs of the
\* node that are online, and the test is (online && word >> i) & 1, so that every CPU up to the highest
\* one in the word passes it, of whatever node.
BitsPerWord == 64
Summed(on) ==
  {c \in on : \E m \in on \cap Node : m >= c /\ m \div BitsPerWord = c \div BitsPerWord}

\* The node is the sum of these CPUs, subtracted like a counter.
Grown == [c \in Online |-> (CHOOSE d \in Range(kern) : d.name = c).val - seen[c]]
SumOver(S, f) == FoldSet(LAMBDA c, t : f[c] + t, 0, S)
NumaCpu == LET sum == SumOver(Summed(Online), [c \in Online |-> seen[c] + Grown[c]])
           IN [cur |-> sum, pre |-> numa.cur, dev |-> subcount(sum, numa.cur),
               grown |-> SumOver(Summed(Online), Grown),
               same |-> Online = {i - 1 : i \in {k \in DOMAIN cur : cur[k].on}}]
-----------------------------------------------------------------------------
\* A sample: the two structs change roles, the kernel is read, the deviations follow.

Took(c, d) == /\ pre' = cur /\ cur' = c /\ dev' = d
              /\ nsample' = nsample + 1 /\ clock' = 0
              /\ UNCHANGED <<tbl, ktype, kern, changes>>
Due == nsample < MaxSamples

SampleIntf(due) ==
  /\ Due /\ tbl = "intf"
  /\ ifhash' = InitIfprop(due)
  /\ LET c == PhotoIntf(ifhash') IN Took(c, DevIntf(c, cur))
  /\ UNCHANGED <<seen, numa, perf>>

SampleDsk ==
  /\ Due /\ tbl = "dsk"
  /\ Took(PhotoDsk, DevDsk(PhotoDsk, cur))
  /\ UNCHANGED <<ifhash, seen, numa, perf>>

SampleNfs ==
  /\ Due /\ tbl = "nfs" /\ clock = DevInterval
  /\ Took(PhotoNfs, DevNfs(PhotoNfs, cur))
  /\ UNCHANGED <<ifhash, seen, numa, perf>>

SampleCpu(usable) ==
  /\ Due /\ tbl = "cpu"
  /\ LET c == KeepCpu(PhotoCpu, cur) IN Took(c, DevCpu(c, cur))
  /\ perf' = GetPerfEvents(usable) /\ numa' = NumaCpu
  /\ seen' = [c \in Cpus |-> IF c \in Online
                              THEN (CHOOSE d \in Range(kern) : d.name = c).val ELSE seen[c]]
  /\ UNCHANGED ifhash

Sample == \/ \E due \in BOOLEAN : SampleIntf(due)
          \/ SampleDsk \/ SampleNfs
          \/ \E usable \in BOOLEAN : SampleCpu(usable)
System == Plug \/ Unplug \/ Hotplug \/ Work \/ Tick

DevNext == \/ tbl # "flow" /\ (System \/ Sample) /\ UNCHANGED fvars
           \/ tbl = "flow" /\ FlowNext /\ UNCHANGED dvars
-----------------------------------------------------------------------------
\* Every device gets its own counters: one that was in the previous sample
\* what it has done since, one whose name is new all of its count, and one
\* that has taken over a name never more than its count.  A mount made in
\* the second of the previous sample is young and gets all of its count
\* (deviatsyst(), the loops over interfaces, disks and mounts).
Attributed ==
  (nsample > 0 /\ tbl # "cpu") =>
  \A i \in DOMAIN dev :
    LET own  == {j \in DOMAIN pre : pre[j].id = cur[i].id}
        same == {j \in DOMAIN pre : pre[j].name = cur[i].name}
        all  == cur[i].val
    IN /\ dev[i].name = cur[i].name /\ dev[i].val \in 0 .. all
       /\ same = {} => dev[i].val = all
       /\ own # {} => \/ dev[i].val = all - pre[CHOOSE j \in own : TRUE].val
                      \/ tbl = "nfs" /\ cur[i].age = DevInterval /\ dev[i].val = all
       /\ tbl = "nfs" /\ own = {} => dev[i].val = all

\* A CPU that has been switched off gets, when it is back, what it has done
\* since it was seen online for the last time, not what it has done since the
\* boot (deviatsyst() keeps the counters of CPUs that are offline, also of
\* those behind the last one online).  As long as the same CPUs are online the
\* deviation of a NUMA node is what the CPUs that are summed for it have done: all
\* that are online up to the highest one of the node, not only its own.
CpuContinues ==
  [][\A usable \in BOOLEAN : SampleCpu(usable) =>
       /\ \A i \in DOMAIN dev' : dev'[i].on => dev'[i].val = cur'[i].val - seen[i - 1]
       /\ numa'.same => numa'.dev = numa'.grown]_devvars

\* Interfaces that exceed the table are taken away among the virtual ones: as
\* long as all others fit, each of them is listed, and the table never
\* overflows (initifprop(), photosyst()).
PhysicalKept ==
  /\ Cardinality(ValidIn(ifhash)) < MAXENT
  /\ Cardinality(Physical(ifhash) \ {n \in DOMAIN ifhash : ktype[n] = "v"}) < MAXENT =>
       \A n \in DOMAIN ifhash : ktype[n] = "e" => ifhash[n] = "e"

\* No two sets of CPUs with CPU 0 have the same number of CPUs, the same last
\* one and the same sum of squares: so it is with the CPUs 0 to 7.
SquaresTell ==
  \A S, T \in SUBSET Cpus :
    (/\ 0 \in S /\ 0 \in T /\ MaxOf(S) = MaxOf(T)
     /\ Cardinality(S) = Cardinality(T) /\ Squares(S) = Squares(T)) => S = T

\* Perf counters are read from descriptors that have been opened for that CPU
\* (getperfevents() looks at the sum of the squares of the CPU numbers).
PerfOwn == perf.read \subseteq perf.fds

\* What a sample says of a device is of that device: its counters, its place in
\* the table, its descriptor (deviatsyst(), initifprop(), getperfevents()).
DevicesRight == Attributed /\ PhysicalKept /\ PerfOwn
=============================================================================
