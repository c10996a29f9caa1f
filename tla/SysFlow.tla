------------------------------ MODULE SysFlow ------------------------------
(***************************************************************************)
(* The counters that the system has once: from the file that photosyst()   *)
(* reads to the value that deviatsyst() leaves for a sample.               *)
(*                                                                         *)
(* One section of the statistics is followed per behaviour.  A section     *)
(* has at most one counter c, one gauge g and one counter o that old       *)
(* kernels do not have; the fields of a section that are read and treated  *)
(* alike are one.  A file may be missing in any sample: the program has no *)
(* descriptor left, a module is unloaded, a setting is changed.            *)
(***************************************************************************)
EXTENDS Integers

CONSTANTS
  Sections,    \* the sections followed
  MaxValue,    \* bound: value of a counter or gauge
  MaxFlow,     \* bound: samples
  MaxResets    \* bound: counters that start again from zero

ASSUME SysFlowAssumption ==
  /\ Sections \subseteq {"load", "sock", "nummem", "frag", "mem", "balloon", "zfs", "vm", "snmp",
                         "snmp6", "nfsd", "nfs", "psi", "llc", "freq", "low", "huge", "ib", "ksm"}
  /\ MaxValue \in Nat /\ MaxFlow \in Nat /\ MaxResets \in Nat

VARIABLES
  sec,         \* the section followed
  kernel,      \* its values in the kernel
  there,       \* the files of the section can be read
  memo,        \* what photosyst() has remembered of the section: static variables
  fpre, fcur, fdev,  \* the previous sample, the current one, the deviations
  had,         \* history: the section was there for the previous and the current
               \* sample, has been reset in between, and has grown by this much
  resets, nflow      \* counters

fvars == <<sec, kernel, there, memo, fpre, fcur, fdev, had, resets, nflow>>

Once == {"low", "huge", "ib", "ksm"}   \* sections with static variables
Nothing == [c |-> 0, g |-> 0, o |-> 0]
Unset == -2                            \* a static variable that has not been set
Off == -1

FlowInit ==
  /\ sec \in Sections
  /\ kernel \in [c : {0}, g : 0 .. MaxValue, o : {0}]
  /\ there \in BOOLEAN
  /\ memo = Unset
  /\ fpre = Nothing /\ fcur = Nothing /\ fdev = Nothing
  /\ had = [now |-> FALSE, before |-> FALSE, reset |-> FALSE, was |-> 0, grown |-> 0]
  /\ resets = 0 /\ nflow = 0
\* Another part of the statistics is followed.
FlowOff ==
  /\ sec = "none" /\ kernel = Nothing /\ there = FALSE /\ memo = Unset
  /\ fpre = Nothing /\ fcur = Nothing /\ fdev = Nothing
  /\ had = [now |-> FALSE, before |-> FALSE, reset |-> FALSE, was |-> 0, grown |-> 0]
  /\ resets = 0 /\ nflow = 0

Grow == /\ kernel.c < MaxValue
        /\ \E d \in {0, 1} : kernel' = [kernel EXCEPT !.c = @ + 1, !.o = @ + d]
        /\ UNCHANGED <<sec, there, memo, fpre, fcur, fdev, had, resets, nflow>>
Gauge == /\ \E g \in 0 .. MaxValue : kernel' = [kernel EXCEPT !.g = g]
         /\ UNCHANGED <<sec, there, memo, fpre, fcur, fdev, had, resets, nflow>>
Zero == /\ resets < MaxResets
        /\ kernel' = [kernel EXCEPT !.c = 0, !.o = 0]
        /\ resets' = resets + 1 /\ had' = [had EXCEPT !.reset = TRUE]
        /\ UNCHANGED <<sec, there, memo, fpre, fcur, fdev, nflow>>
Appear == /\ there' = ~ there
          /\ UNCHANGED <<sec, kernel, memo, fpre, fcur, fdev, had, resets, nflow>>
-----------------------------------------------------------------------------
\* photosyst(), section by section: what a sample holds of kernel values k.

\* Load average, socket memory, shared memory, memory per node, fragmentation:
\* values that are copied, and stay zero when they cannot be read.
Loadavg(k)  == IF there THEN [Nothing EXCEPT !.g = k.g] ELSE Nothing
Sockstat(k) == IF there THEN [Nothing EXCEPT !.g = k.g] ELSE Nothing
NumaMem(k)  == IF there THEN [Nothing EXCEPT !.g = k.g] ELSE Nothing
Frag(k)     == IF there THEN [Nothing EXCEPT !.g = k.g] ELSE Nothing
\* Memory that is not told is -1: everybody who shows it has to know.
Meminfo(k)  == [Nothing EXCEPT !.g = IF there THEN k.g ELSE -1]
Balloon(k)  == [Nothing EXCEPT !.g = IF there THEN k.g ELSE -1]
Zfs(k)      == [Nothing EXCEPT !.g = IF there THEN k.g ELSE -1]
\* Paging: counters, of which the OOM kills are -1 for a kernel that does not count them.
Vmstat(k)   == IF there THEN [Nothing EXCEPT !.c = k.c, !.o = k.o] ELSE [Nothing EXCEPT !.o = -1]
\* The protocol counters, with some values among them that are no counters.
Snmp(k)     == IF there THEN [Nothing EXCEPT !.c = k.c, !.g = k.g] ELSE Nothing
Snmp6(k)    == IF there THEN [Nothing EXCEPT !.c = k.c] ELSE Nothing
NfsServer(k) == IF there THEN [Nothing EXCEPT !.c = k.c] ELSE Nothing
NfsClient(k) == IF there THEN [Nothing EXCEPT !.c = k.c] ELSE Nothing
\* Pressure: averages and a total; without the directory it is not present.
Psi(k)      == IF there THEN [Nothing EXCEPT !.c = k.c, !.g = k.g] ELSE Nothing
Llc(k)      == IF there THEN [Nothing EXCEPT !.c = k.c, !.g = k.g] ELSE Nothing
\* The frequency of a CPU: clock ticks per frequency when the governor counts
\* them (o: the ticks), else the frequency now.
Freq(k)     == IF there THEN [Nothing EXCEPT !.c = k.c, !.o = k.c] ELSE [Nothing EXCEPT !.c = k.g]

\* The sum of the low watermarks is read until it is not zero, and then kept.
LowWater(k) == [Nothing EXCEPT !.g = IF memo > 0 THEN memo ELSE IF there THEN k.g ELSE 0]
LowWaterMemo(k) == IF memo > 0 THEN memo ELSE IF there THEN k.g ELSE 0
\* The directory of the large huge pages is looked for once.
HugeMemo == IF memo = Unset THEN IF there THEN 1 ELSE Off ELSE memo
Huge(k)  == IF HugeMemo = 1 /\ there THEN [Nothing EXCEPT !.g = k.g] ELSE Nothing
\* Controllers are looked for once; without the path never again.
IbMemo == IF memo = Unset THEN IF there THEN 1 ELSE Off ELSE memo
Ib(k)  == IF IbMemo = 1 /\ there THEN [Nothing EXCEPT !.c = k.c] ELSE Nothing
\* Merged pages: -1 when the merging is not on, and then it is not looked at again.
KsmMemo == IF memo = Off THEN Off ELSE IF there THEN 1 ELSE Off
Ksm(k) == IF memo = Off THEN Nothing ELSE [Nothing EXCEPT !.g = IF there THEN k.g ELSE -1]

PhotoMemo(k) == CASE sec = "low"  -> LowWaterMemo(k) [] sec = "huge" -> HugeMemo
                  [] sec = "ib"   -> IbMemo          [] sec = "ksm"  -> KsmMemo
                  [] OTHER -> memo
Photo(k) ==
  CASE sec = "load" -> Loadavg(k)   [] sec = "sock" -> Sockstat(k) [] sec = "nummem" -> NumaMem(k)
    [] sec = "frag" -> Frag(k)      [] sec = "mem"  -> Meminfo(k)  [] sec = "balloon" -> Balloon(k)
    [] sec = "zfs"  -> Zfs(k)       [] sec = "vm"   -> Vmstat(k)   [] sec = "snmp" -> Snmp(k)
    [] sec = "snmp6" -> Snmp6(k)    [] sec = "nfsd" -> NfsServer(k) [] sec = "nfs" -> NfsClient(k)
    [] sec = "psi"  -> Psi(k)       [] sec = "llc"  -> Llc(k)      [] sec = "freq" -> Freq(k)
    [] sec = "low"  -> LowWater(k)  [] sec = "huge" -> Huge(k)     [] sec = "ib"   -> Ib(k)
    [] sec = "ksm"  -> Ksm(k)
-----------------------------------------------------------------------------
\* deviatsyst(), by the way it treats a section.

subcount(new, old) == IF new = -1 THEN -1 ELSE IF new >= old THEN new - old ELSE new

\* Values that are what they are.
DevGauges(n)    == [Nothing EXCEPT !.g = n.g]
\* Counters of memory, and the OOM kills.
\* Mutant: memory counters are subtracted like the tables.
DevVmstatPlain(n, p) == [Nothing EXCEPT !.c = n.c - p.c, !.o = n.o - p.o]
DevVmstat(n, p) == [Nothing EXCEPT !.c = subcount(n.c, p.c),
                                   !.o = IF n.o = -1 THEN -1 ELSE subcount(n.o, p.o)]
\* The NFS counters.
DevNfsCount(n, p) == [Nothing EXCEPT !.c = subcount(n.c, p.c)]
\* Tables of counters that are subtracted as a whole; what is no counter is
\* put right afterwards.
DevTables(n, p) == [n EXCEPT !.c = n.c - p.c]
DevPsi(n, p)    == IF there THEN [n EXCEPT !.c = n.c - p.c] ELSE n
DevIb(n, p)     == [n EXCEPT !.c = n.c - p.c]
DevLlc(n, p)    == [n EXCEPT !.c = n.c - p.c]
\* A frequency is subtracted when it is a number of clock ticks.
DevFreq(n, p)   == IF n.o = 0 THEN n
                   ELSE [n EXCEPT !.c = subcount(n.c, p.c), !.o = subcount(n.o, p.o)]

DevFlow(n, p) ==
  CASE sec = "vm" -> DevVmstat(n, p) [] sec \in {"nfsd", "nfs"} -> DevNfsCount(n, p)
    [] sec \in {"snmp", "snmp6"} -> DevTables(n, p) [] sec = "psi" -> DevPsi(n, p)
    [] sec = "ib" -> DevIb(n, p) [] sec = "llc" -> DevLlc(n, p) [] sec = "freq" -> DevFreq(n, p)
    [] OTHER -> DevGauges(n)
-----------------------------------------------------------------------------
FlowSample ==
  /\ nflow < MaxFlow
  /\ nflow' = nflow + 1
  /\ fpre' = fcur /\ fcur' = Photo(kernel) /\ fdev' = DevFlow(Photo(kernel), fcur)
  /\ memo' = PhotoMemo(kernel)
  /\ had' = [now |-> there, before |-> had.now /\ ~ had.reset, reset |-> FALSE,
              was |-> kernel.c, grown |-> kernel.c - had.was]
  /\ UNCHANGED <<sec, kernel, there, resets>>

\* A counter that could be read in both samples and has not started again
\* gives its growth, whatever has been missing before, and a value that is no
\* counter stays what it is.  The memory and NFS counters never give a
\* negative number, not after a reset or a sample without the file either
\* (photosyst(), deviatsyst(), subcount()).
FlowRight ==
  /\ (nflow > 0 /\ had.now /\ had.before /\ memo # Off /\ fcur.c # 0) => fdev.c = had.grown
  /\ (nflow > 0 /\ sec \in {"vm", "nfsd", "nfs"}) => fdev.c >= 0 /\ fdev.o >= -1
  /\ (nflow > 0 /\ sec \in {"snmp", "psi", "llc", "mem"} /\ had.now) => fdev.g = fcur.g

FlowNext == Grow \/ Gauge \/ Zero \/ Appear \/ FlowSample
=============================================================================
