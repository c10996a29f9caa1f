---------------------------- MODULE LogFormats ----------------------------
(***************************************************************************)
(* The structures of a raw log in every version of atop since 2.0, as      *)
(* atopconvert compiles them from prev/: the record of system counters     *)
(* (sstat, in fourteen sub-structures), of a task (tstat, in six) and of a *)
(* cgroup (cstat, in five).  Version 2.n is the number n.                  *)
(*                                                                         *)
(* A structure is a head, followed for a table by the entries of its array *)
(* (and by the room that the array leaves before the next one).  Each is a *)
(* sequence of runs <<name, size>>: neighbours that no version separates   *)
(* are one run of size 1; a run that comes, goes or moves has its size in  *)
(* the unit of its structure (an int, or a count_t where all members are). *)
(* Reserved members are the runs "future".  A member that is only renamed  *)
(* (envid, container, tothugepage, zswtotpool, sample) keeps the new name. *)
(***************************************************************************)
EXTENDS Integers, Sequences, SequencesExt, TLC

CONSTANT Entries        \* entries in use in every array

ASSUME EntriesAssumption == Entries \in 1 .. 4

Versions == 0 .. 13
Newest == 13

Single(runs) == [head |-> runs, entry |-> << >>, room |-> 0]
Table(head, entry) == [head |-> head, entry |-> entry, room |-> 0]
One(name) == << <<name, 1>> >>
Future(n) == << <<"future", n>> >>

-----------------------------------------------------------------------------
(* struct memstat, mempernuma, cpupernuma *)

MemBase == One("pages") \o One("limits")
Mem200 == [smem |-> Single(MemBase)]
Mem201 == [smem |-> Single(MemBase \o One("huge") \o One("balloon") \o Future(8))]
Mem202(m) == m
Mem203(m) == m
Mem204(m) == m
Mem205(m) == m
Mem206 == [smem |-> Single(MemBase \o One("huge") \o One("balloon") \o
                           << <<"zfs", 2>> >> \o Future(6))]
Mem207Tail == << <<"zfs", 2>>, <<"ksm", 4>>, <<"oomkills", 1>>, <<"compact", 3>> >>
Mem207 == [smem |-> Single(MemBase \o One("huge") \o One("balloon") \o Mem207Tail \o
                           Future(9)),
           smnum |-> Table(One("nrnuma"), << <<"frag", 1>>, <<"pad", 1>>, <<"numamem", 1>> >>),
           scnum |-> Table(One("nrnuma"), One("numacpu"))]
Mem208Base == One("pages") \o << <<"socks", 2>> >> \o One("limits") \o One("huge") \o
              One("balloon") \o Mem207Tail \o << <<"pageio", 3>> >>
Mem208 == [smem |-> Single(Mem208Base \o Future(4)),
           smnum |-> Table(One("nrnuma"), << <<"numanr", 1>>, <<"frag", 1>>, <<"numamem", 1>> >>),
           scnum |-> Table(One("nrnuma"), << <<"numanr", 2>>, <<"numacpu", 1>> >>)]
Mem209(m) == m
Mem210(m) == [m EXCEPT
             !.smem = Single(Mem208Base \o << <<"zswio", 2>>, <<"available", 5>> >> \o Future(4)),
             !.smnum.entry = @ \o << <<"freehp", 2>> >>]
Mem211(m) == [m EXCEPT !.smem.head = Front(@) \o Future(5),
                         !.smnum.entry = @ \o Future(4),
                         !.scnum.entry = @ \o Future(4)]
Mem212(m) == m
Mem213(m) == [m EXCEPT !.smem.head = Front(@) \o << <<"lowwatermark", 1>> >> \o Future(4)]

-----------------------------------------------------------------------------
(* struct netstat, cpustat (entry 0 is `all'), dskstat, intfstat *)

NetWrong(icmp, tcp) ==
  One("ipv4") \o One("icmpv4In") \o icmp \o One("icmpv4") \o One("udpv4") \o
  One("v6") \o One("tcp") \o tcp
PerCpu(extra, future) == One("cpunr") \o One("chfuture") \o One("times") \o extra \o Future(future)
CpuHead == One("nrcpu") \o One("nrcpuHigh") \o One("sums")
Instr == << <<"instr", 2>>, <<"cycle", 2>> >>
PerIntf20 == One("name") \o One("counts") \o << <<"speed", 2>>, <<"duplex", 2>> >> \o Future(8)
IntfHead == One("nrintf") \o One("pad")

Dev200 == [scpu |-> Table(CpuHead, PerCpu(<< >>, 2)),
           snet |-> Single(NetWrong(<< >>, << >>)),
           sintf |-> Table(IntfHead, PerIntf20),
           sdsk |-> [Table(One("ndsk"), One("io") \o Future(8)) EXCEPT !.room = 1]]
Dev201(m) == [m EXCEPT !.scpu.entry = PerCpu(<< >>, 8), !.sdsk.room = 2]
Dev202(m) == [m EXCEPT !.sintf.entry =
             One("name") \o One("counts") \o << <<"type", 2>>, <<"speed", 2>>,
             <<"speedp", 2>>, <<"duplex", 2>> >> \o Future(8)]
Dev203(m) == m
Dev204(m) == [m EXCEPT !.scpu.entry = PerCpu(Instr, 4)]
Dev205(m) == m
Dev206(m) == m
Dev207(m) == [m EXCEPT !.scpu.entry = PerCpu(Instr, 12),
                         !.sdsk.entry = One("io") \o << <<"ndisc", 2>>, <<"ndsect", 2>> >> \o Future(4)]
Dev208(m) == [m EXCEPT !.snet = Single(NetWrong(<< <<"icmpv4Csum", 2>> >>, << >>)),
                         !.sdsk.entry = Front(@) \o << <<"inflight", 2>> >> \o Future(6)]
Dev209(m) == m
Dev210(m) == [m EXCEPT !.snet.head = @ \o << <<"tcpCsum", 2>> >>]
Dev211(m) == m
Dev212(m) == m
Dev213(m) == [m EXCEPT !.scpu = Table(One("nrcpu") \o One("maxcpu") \o One("sums"),
             One("cpunr") \o One("online") \o One("times") \o Instr \o Future(12))]

-----------------------------------------------------------------------------
(* struct nfsstat, contstat and pressure *)

Nfs202 == [snfs |-> Single(One("nfs")), scfs |-> Single(One("cfs"))]
Nfs203(m) == m
Nfs204(m) == m @@ [spsi |-> Single(One("psi"))]
Nfs205(m) == m
Nfs206(m) == m
Nfs207(m) == m
Nfs208(m) == m
Nfs209(m) == m
Nfs210(m) == m
Nfs211(m) == m
Nfs212(m) == m
Nfs213(m) == m

(* struct wwwstat, gpustat, ifbstat, llcstat.  The headers of 2.4 to 2.6    *)
(* take the length of a port's name, MAXIBNAME, from the current            *)
(* photosyst.h: 20 bytes, where 2.7 to 2.12 have 12.                        *)
IbName(n) == << <<"ibname", n>> >>
Unit200 == [swww |-> Single(One("www"))]
Unit201(m) == m
Unit202(m) == m
Unit203(m) == m
Unit204(m) == m @@ [sgpu |-> Table(One("nrgpus"), One("gpu")),
                       sifb |-> Table(One("nrports"), IbName(5) \o One("port"))]
Unit205(m) == m
Unit206(m) == m
Unit207(m) == [m EXCEPT !.sifb.entry = IbName(3) \o One("port")]
Unit208(m) == m @@ [sllc |-> Table(One("nrllcs"), One("llc"))]
Unit209(m) == m
Unit210(m) == m
Unit211(m) == [m EXCEPT !.sifb.entry = @ \o Future(8)]
Unit212(m) == m
Unit213(m) == [m EXCEPT !.sifb.entry = IbName(5) \o One("port") \o Future(8)]

-----------------------------------------------------------------------------
(* struct tstat: gen, cpu, dsk, mem, net, gpu *)

Gen(runs) == Single(One("ids") \o runs)
TaskCpu(runs, future) == Single(One("sched") \o runs \o Future(future))
TaskMem(runs, future) == Single(One("faults") \o << <<"pmem", 1>> >> \o One("sizes") \o
                                runs \o Future(future))
Vpid == One("ctid") \o One("vpid")
Wchan == << <<"wchan", 4>>, <<"rundelay", 2>> >>
CgCpu == << <<"cgcpu", 3>> >> \o Future(3)

Task200 == [tgen |-> Gen(Future(4)),
            tcpu |-> TaskCpu(Future(4), 8),
            tdsk |-> Single(One("dsk")),
            tmem |-> Single(One("faults") \o One("sizes")),
            tnet |-> Single(One("net"))]
Task201(m) == [m EXCEPT !.tgen = Gen(One("ctid") \o Future(4)), !.tmem = TaskMem(<< >>, 4)]
Task202(m) == [m EXCEPT !.tgen = Gen(Vpid \o Future(5))]
Task203(m) == [m EXCEPT !.tgen = Gen(Vpid \o One("inactive") \o << <<"utsname", 4>> >>)]
Task204(m) == m @@
  [tgpu |-> Single(One("state") \o One("bfuture") \o One("list") \o
                   << <<"busy", 2>>, <<"timems", 2>> >> \o One("gpumem") \o One("samples"))]
Task205(m) == m
Task206(m) == [m EXCEPT !.tcpu = TaskCpu(Future(4) \o Wchan, 2), !.tmem = TaskMem(One("vlock"), 3)]
Task207(m) == m
Task208(m) == [m EXCEPT
              !.tgen.head = @ \o << <<"cgpath", 16>> >>,
              !.tcpu = TaskCpu(CgCpu \o Wchan \o << <<"blkdelay", 2>> >>, 6),
              !.tmem = TaskMem(One("vlock") \o << <<"cgmem", 4>> >>, 3)]
Task209(m) == m
Task210(m) == [m EXCEPT
              !.tgen = Gen(One("nthridle") \o Vpid \o One("inactive") \o
                           << <<"utsname", 4>>, <<"cgpath", 16>> >>),
              !.tcpu = TaskCpu(CgCpu \o Wchan \o << <<"blkdelay", 2>>, <<"csw", 4>> >>, 6)]
Gen211(uts) == Gen(One("nthridle") \o Vpid \o One("inactive") \o << <<"utsname", uts>> >> \o
                   One("cgroupix") \o Future(4))
Task211(m) == [m EXCEPT
              !.tgen = Gen211(4),
              !.tcpu = TaskCpu(Future(6) \o Wchan \o << <<"blkdelay", 2>>, <<"csw", 4>> >>, 6),
              !.tmem = TaskMem(One("vlock"), 7),
              !.tgpu.head = @ \o Future(6)]
Task212(m) == m
Task213(m) == [m EXCEPT
              !.tgen = Gen211(10),
              !.tmem = TaskMem(One("vlock") \o << <<"oom", 2>> >>, 5),
              !.tgpu = Single(One("state") \o One("type") \o One("list") \o
                              << <<"busycum", 4>> >> \o One("gpumem") \o One("samples") \o Future(6))]

(* struct cstat: gen, conf, cpu, mem, dsk *)
Cgroup211 == [cggen |-> Single(One("cggen")), cgconf |-> Single(One("cgconf")),
              cgcpu |-> Single(One("cgcpu")), cgmem |-> Single(One("cgmem")),
              cgdsk |-> Single(One("cgdsk"))]
Cgroup212(m) == m
Cgroup213(m) == m

-----------------------------------------------------------------------------
(* The structures of a version: each family, from that of the version before. *)

Mem[v \in Versions] ==
  LET m == Mem[v - 1] IN
  CASE v = 0 -> Mem200 [] v = 1 -> Mem201 [] v = 2 -> Mem202(m) [] v = 3 -> Mem203(m)
    [] v = 4 -> Mem204(m) [] v = 5 -> Mem205(m) [] v = 6 -> Mem206 [] v = 7 -> Mem207
    [] v = 8 -> Mem208 [] v = 9 -> Mem209(m) [] v = 10 -> Mem210(m)
    [] v = 11 -> Mem211(m) [] v = 12 -> Mem212(m) [] v = 13 -> Mem213(m)
Dev[v \in Versions] ==
  LET m == Dev[v - 1] IN
  CASE v = 0 -> Dev200 [] v = 1 -> Dev201(m) [] v = 2 -> Dev202(m)
    [] v = 3 -> Dev203(m) [] v = 4 -> Dev204(m) [] v = 5 -> Dev205(m)
    [] v = 6 -> Dev206(m) [] v = 7 -> Dev207(m) [] v = 8 -> Dev208(m)
    [] v = 9 -> Dev209(m) [] v = 10 -> Dev210(m) [] v = 11 -> Dev211(m)
    [] v = 12 -> Dev212(m) [] v = 13 -> Dev213(m)
Unit[v \in Versions] ==
  LET m == Unit[v - 1] IN
  CASE v = 0 -> Unit200 [] v = 1 -> Unit201(m) [] v = 2 -> Unit202(m)
    [] v = 3 -> Unit203(m) [] v = 4 -> Unit204(m) [] v = 5 -> Unit205(m)
    [] v = 6 -> Unit206(m) [] v = 7 -> Unit207(m) [] v = 8 -> Unit208(m)
    [] v = 9 -> Unit209(m) [] v = 10 -> Unit210(m) [] v = 11 -> Unit211(m)
    [] v = 12 -> Unit212(m) [] v = 13 -> Unit213(m)
Task[v \in Versions] ==
  LET m == Task[v - 1] IN
  CASE v = 0 -> Task200 [] v = 1 -> Task201(m) [] v = 2 -> Task202(m)
    [] v = 3 -> Task203(m) [] v = 4 -> Task204(m) [] v = 5 -> Task205(m)
    [] v = 6 -> Task206(m) [] v = 7 -> Task207(m) [] v = 8 -> Task208(m)
    [] v = 9 -> Task209(m) [] v = 10 -> Task210(m) [] v = 11 -> Task211(m)
    [] v = 12 -> Task212(m) [] v = 13 -> Task213(m)
Nfs[v \in Versions] ==
  LET m == Nfs[v - 1] IN
  CASE v < 2 -> << >> [] v = 2 -> Nfs202 [] v = 3 -> Nfs203(m) [] v = 4 -> Nfs204(m)
    [] v = 5 -> Nfs205(m) [] v = 6 -> Nfs206(m) [] v = 7 -> Nfs207(m)
    [] v = 8 -> Nfs208(m) [] v = 9 -> Nfs209(m) [] v = 10 -> Nfs210(m)
    [] v = 11 -> Nfs211(m) [] v = 12 -> Nfs212(m) [] v = 13 -> Nfs213(m)
Cgroup[v \in Versions] ==
  LET m == Cgroup[v - 1] IN
  CASE v < 11 -> << >> [] v = 11 -> Cgroup211 [] v = 12 -> Cgroup212(m)
    [] v = 13 -> Cgroup213(m)
Layout == [v \in Versions |-> Mem[v] @@ Dev[v] @@ Unit[v] @@ Task[v] @@ Nfs[v] @@ Cgroup[v]]

(* The words of a run, of a sequence of runs and of a structure: a word is   *)
(* named by its member, the entry it is in (0: the head) and its number.     *)
Words(runs, e) ==
  FlattenSeq([i \in DOMAIN runs |-> [k \in 1 .. runs[i][2] |-> <<runs[i][1], e, k>>]])
Slots(l) ==
  FlattenSeq(<<Words(l.head, 0)>> \o
    IF l.entry = << >> THEN << >>
    ELSE [e \in 1 .. Entries |->
            Words(l.entry, e) \o [k \in 1 .. l.room |-> <<"future", e, k>>]])
Struct(l) == [slots |-> Slots(l), head |-> Len(Words(l.head, 0)),
              entry |-> Len(Words(l.entry, 1)), room |-> l.room]
StructOf == [v \in Versions |-> [p \in DOMAIN Layout[v] |-> Struct(Layout[v][p])]]
SlotsOf == [v \in Versions |-> [p \in DOMAIN StructOf[v] |-> StructOf[v][p].slots]]

Has(v, p) == p \in DOMAIN Layout[v]
Members(v, p) == {s[1] : s \in Range(SlotsOf[v][p])}
Reserved == {"future", "bfuture", "chfuture", "pad", "nrcpuHigh"}
=============================================================================
