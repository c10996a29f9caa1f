------------------------------ MODULE Convert ------------------------------
(***************************************************************************)
(* atopconvert: reads a raw log of an earlier version and writes it in the *)
(* layout of a later one, sample by sample; each sample goes through all   *)
(* versions in between, one conversion function per sub-structure and      *)
(* version (table convs).                                                  *)
(*                                                                         *)
(* A structure in memory is the sequence of its words.  A word that a      *)
(* version measured is its own name <<member, entry, number>>, so that     *)
(* where a value is found after the conversion tells whose value it is.    *)
(***************************************************************************)
EXTENDS LogFormats, FiniteSets

CONSTANTS NSamples      \* samples in the log
ASSUME NSamplesAssumption == NSamples \in Nat

VARIABLES
  log,       \* the input file: version, whole (last sample not cut off), cgroups (CGROUPV2)
  target,    \* the version asked for with -t
  phase,     \* what the program is doing; "exit" with the status in code
  code,
  nr,        \* the sample being handled
  at, step,  \* version the sample is in; the sub-structures already converted to the next
  cur, nxt,  \* the sample in version at, and as far as it is in version at + 1
  cgflag,    \* RRCGRSTAT of the sample
  out        \* what has been written: <<sample, chunk>>, sample 0 the header or a copy

cvars == <<log, target, phase, code, nr, at, step, cur, nxt, cgflag, out>>

Zero == << >>
Mark(x) == <<x>>
Junk == <<"junk">>

-----------------------------------------------------------------------------
(* Ways of copying a structure from its form in one version to that in the    *)
(* next (records of StructOf).                                                *)

(* justcopy(): byte by byte, the rest zero; nothing when the old size is 0. *)
justcopy(to, o) == [i \in 1 .. Len(to.slots) |-> IF i <= Len(o) THEN o[i] ELSE Zero]

(* Entry by entry, each byte by byte. *)
EntryLen(x) == x.entry + x.room
entrycopy(to, from, o) ==
  LET ent(i) == (i - to.head - 1) \div EntryLen(to)
      off(i) == (i - to.head - 1) % EntryLen(to)
  IN  [i \in 1 .. Len(to.slots) |->
         IF i <= to.head THEN o[i]
         ELSE IF off(i) < from.entry THEN o[to.head + ent(i) * EntryLen(from) + off(i) + 1]
         ELSE Zero]

(* Member by member, what is new or reserved stays zero. *)
membercopy(to, from, o) ==
  [i \in 1 .. Len(to.slots) |->
     LET s == to.slots[i]
         at0 == {j \in 1 .. Len(o) : from.slots[j] = s}
     IN  IF s[1] \in Reserved \/ at0 = {} THEN Zero ELSE o[CHOOSE j \in at0 : TRUE]]

(* Assignments after a copy. *)
Assign(to, w, names, val) ==
  [i \in DOMAIN w |-> IF to.slots[i][1] \in names THEN val ELSE w[i]]
(* member a of every entry := member b of the same entry of the old structure *)
Take(to, from, w, a, o, b) ==
  [i \in DOMAIN w |->
     LET s == to.slots[i]
     IN  IF s[1] # a THEN w[i]
         ELSE o[CHOOSE j \in DOMAIN o : from.slots[j] = <<b, s[2], s[3]>>]]
(* member a of every entry := the number of the entry *)
Number(to, w, a) ==
  [i \in DOMAIN w |-> LET s == to.slots[i]
                      IN  IF s[1] = a THEN <<"index", s[2], s[3]>> ELSE w[i]]

-----------------------------------------------------------------------------
(* The conversion functions: o is the old structure. *)

scpu_to_21(to, from, o) == entrycopy(to, from, o)
ArraysAsOne(to, from, o) == justcopy(to, o)
sdsk_to_21(to, from, o) == entrycopy(to, from, o)
sint_to_22(to, from, o) ==
  Assign(to,
    Take(to, from, membercopy(to, from, o), "speedp", o, "speed"), {"type"}, Mark("?"))
scpu_to_27(to, from, o) == entrycopy(to, from, o)
smem_to_27(to, from, o) == Assign(to, justcopy(to, o), {"oomkills"}, Mark("-1"))
sdsk_to_27(to, from, o) == Assign(to, justcopy(to, o), {"ndisc"}, Mark("-1"))
smem_to_28(to, from, o) == membercopy(to, from, o)
snet_to_28(to, from, o) == membercopy(to, from, o)
sdsk_to_28(to, from, o) == entrycopy(to, from, o)
smnu_to_28(to, from, o) == Number(to, membercopy(to, from, o), "numanr")
scnu_to_28(to, from, o) == Number(to, membercopy(to, from, o), "numanr")
sllc_to_210(to, from, o) == membercopy(to, from, o)
smnu_to_211(to, from, o) == Number(to, membercopy(to, from, o), "numanr")
scnu_to_211(to, from, o) == Number(to, membercopy(to, from, o), "numanr")
percpu_to_213(to, w) == Assign(to, w, {"online"}, Mark("1"))
scpu_to_213(to, from, o) ==
  percpu_to_213(to, Take(to, from, membercopy(to, from, o), "maxcpu", o, "nrcpu"))
smem_to_213(to, from, o) == Assign(to, justcopy(to, o), {"lowwatermark"}, Zero)
sifb_to_213(to, from, o) == membercopy(to, from, o)

tgen_to_21(to, from, o) == membercopy(to, from, o)
tmem_to_21(to, from, o) == membercopy(to, from, o)
tgen_to_22(to, from, o) == membercopy(to, from, o)
NotZeroed(to, from, o) == justcopy(to, o)
tcpu_to_26(to, from, o) == Assign(to, justcopy(to, o), {"wchan", "rundelay"}, Zero)
tmem_to_26(to, from, o) == Assign(to, justcopy(to, o), {"vlock"}, Zero)
tcpu_to_28(to, from, o) == membercopy(to, from, o)
tmem_to_28(to, from, o) == Assign(to, justcopy(to, o), {"cgmem", "future"}, Zero)
tgen_to_210(to, from, o) == membercopy(to, from, o)
tgen_to_211(to, from, o) ==
  Assign(to, Assign(to, justcopy(to, o), {"future"}, Zero),
         {"cgroupix"}, Mark("-1"))
tcpu_to_211(to, from, o) == justcopy(to, [i \in DOMAIN o |->
                    IF to.slots[i][1] = "future" /\ from.slots[i][1] # "future"
                    THEN Zero ELSE o[i]])
tmem_to_211(to, from, o) == Assign(to, justcopy(to, o), {"future"}, Zero)
tmem_to_213(to, from, o) == Assign(to, justcopy(to, o), {"oom"}, Zero)
(* The percentage becomes a sum: it is multiplied by the number of samples. *)
tgpu_to_213(to, from, o) ==
  LET busy == SelectInSeq(from.slots, LAMBDA s : s[1] = "busy")
      w == Assign(to, membercopy(to, from, o), {"type"}, Mark("U"))
      first == SelectInSeq(to.slots, LAMBDA s : s[1] = "busycum")
  IN  [i \in DOMAIN w |->
         IF i \in {first, first + 2} /\ o[busy + (i - first) \div 2] # Zero
         THEN <<"cumulated", o[busy + (i - first) \div 2]>> ELSE w[i]]

-----------------------------------------------------------------------------
(* Table convs: for every version the sub-structures that are not just      *)
(* copied from the version before.  "new" has no conversion and stays zero; *)
(* "unsized" moreover stands in the table with size 0, so that the justcopy *)
(* of the next version copies nothing of it.                                *)

convs_20 == << >>
convs_21 == [scpu |-> "scpu_to_21", sdsk |-> "sdsk_to_21", tgen |-> "tgen_to_21",
             tmem |-> "tmem_to_21"]
convs_22 == [sintf |-> "sint_to_22", snfs |-> "new", scfs |-> "new", tgen |-> "tgen_to_22"]
convs_23 == << >>
convs_24 == [spsi |-> "unsized", sgpu |-> "unsized", sifb |-> "unsized"]
convs_25 == << >>
convs_26 == [tcpu |-> "tcpu_to_26", tmem |-> "tmem_to_26"]
convs_27 == [scpu |-> "scpu_to_27", smem |-> "smem_to_27", sdsk |-> "sdsk_to_27",
             smnum |-> "unsized", scnum |-> "unsized"]
convs_28 == [smem |-> "smem_to_28", snet |-> "snet_to_28", sdsk |-> "sdsk_to_28",
             smnum |-> "smnu_to_28", scnum |-> "scnu_to_28", sllc |-> "unsized",
             tcpu |-> "tcpu_to_28", tmem |-> "tmem_to_28"]
convs_29 == << >>
convs_210 == [sllc |-> "sllc_to_210", tgen |-> "tgen_to_210"]
convs_211 == [smnum |-> "smnu_to_211", scnum |-> "scnu_to_211", tgen |-> "tgen_to_211",
              tcpu |-> "tcpu_to_211", tmem |-> "tmem_to_211"]
convs_212 == << >>
convs_213 == [scpu |-> "scpu_to_213", smem |-> "smem_to_213", sifb |-> "sifb_to_213",
              tmem |-> "tmem_to_213", tgpu |-> "tgpu_to_213"]
convs == <<convs_20, convs_21, convs_22, convs_23, convs_24, convs_25, convs_26, convs_27,
           convs_28, convs_29, convs_210, convs_211, convs_212, convs_213>>

Structconv(v, p) == IF p \in DOMAIN convs[v + 1] THEN convs[v + 1][p]
                    ELSE IF Has(v - 1, p) THEN "justcopy" ELSE "new"
Sized(v, p) == p \notin DOMAIN convs[v + 1] \/ convs[v + 1][p] # "unsized"

Empty(to) == [i \in 1 .. Len(to.slots) |-> Zero]
ConvertedBy(f, to, from, sized, o) ==
  CASE f \in {"new", "unsized"} -> Empty(to)
    [] f = "justcopy" ->
         IF sized THEN justcopy(to, o) ELSE Empty(to)
    [] f = "scpu_to_21" -> scpu_to_21(to, from, o)    [] f = "sdsk_to_21" -> sdsk_to_21(to, from, o)
    [] f = "sint_to_22" -> sint_to_22(to, from, o)    [] f = "scpu_to_27" -> scpu_to_27(to, from, o)
    [] f = "smem_to_27" -> smem_to_27(to, from, o)    [] f = "sdsk_to_27" -> sdsk_to_27(to, from, o)
    [] f = "smem_to_28" -> smem_to_28(to, from, o)    [] f = "snet_to_28" -> snet_to_28(to, from, o)
    [] f = "sdsk_to_28" -> sdsk_to_28(to, from, o)    [] f = "smnu_to_28" -> smnu_to_28(to, from, o)
    [] f = "scnu_to_28" -> scnu_to_28(to, from, o)    [] f = "sllc_to_210" -> sllc_to_210(to, from, o)
    [] f = "smnu_to_211" -> smnu_to_211(to, from, o)  [] f = "scnu_to_211" -> scnu_to_211(to, from, o)
    [] f = "scpu_to_213" -> scpu_to_213(to, from, o)  [] f = "smem_to_213" -> smem_to_213(to, from, o)
    [] f = "sifb_to_213" -> sifb_to_213(to, from, o)  [] f = "tgen_to_21" -> tgen_to_21(to, from, o)
    [] f = "tmem_to_21" -> tmem_to_21(to, from, o)    [] f = "tgen_to_22" -> tgen_to_22(to, from, o)
    [] f = "tcpu_to_26" -> tcpu_to_26(to, from, o)    [] f = "tmem_to_26" -> tmem_to_26(to, from, o)
    [] f = "tcpu_to_28" -> tcpu_to_28(to, from, o)    [] f = "tmem_to_28" -> tmem_to_28(to, from, o)
    [] f = "tgen_to_210" -> tgen_to_210(to, from, o)  [] f = "tgen_to_211" -> tgen_to_211(to, from, o)
    [] f = "tcpu_to_211" -> tcpu_to_211(to, from, o)  [] f = "tmem_to_211" -> tmem_to_211(to, from, o)
    [] f = "tmem_to_213" -> tmem_to_213(to, from, o)  [] f = "tgpu_to_213" -> tgpu_to_213(to, from, o)
Converted(v, p, o) ==
  ConvertedBy(Structconv(v, p), StructOf[v][p], StructOf[v - 1][p], Sized(v - 1, p), o)

-----------------------------------------------------------------------------
(* The files *)

SysOrder == <<"scpu", "smem", "snet", "sintf", "sdsk", "snfs", "scfs", "spsi", "sgpu",
              "sifb", "smnum", "scnum", "swww">>
TaskOrder == <<"tgen", "tcpu", "tdsk", "tmem", "tnet", "tgpu">>
CgOrder == <<"cggen", "cgconf", "cgcpu", "cgmem", "cgdsk">>

(* Lengths in the header of the file: that of atop 2.n, and the one compiled *)
(* into atopconvert.  Ports had names of 12 bytes until 2.12.                *)
Sstatlen(v) == {<<p, Len(SlotsOf[v][p])>> : p \in DOMAIN Layout[v]}
LogSstatlen(v) ==
  {<<p, IF p = "sifb" /\ v \in 4 .. 6 THEN Len(SlotsOf[7][p]) ELSE Len(SlotsOf[v][p])>> :
     p \in DOMAIN Layout[v]}

(* The number of a NUMA node is its index (photosyst.c:1110). *)
Value(s) == IF s[1] = "numanr" THEN <<"index", s[2], s[3]>> ELSE s

(* A sample as atop 2.v wrote it.  Up to 2.5 the reserved members of a task  *)
(* are not zeroed.                                                           *)
Logged(v) ==
  [p \in DOMAIN Layout[v] |->
     [i \in 1 .. Len(SlotsOf[v][p]) |->
        IF SlotsOf[v][p][i][1] \notin Reserved THEN Value(SlotsOf[v][p][i])
        ELSE IF p \in {"tcpu", "tmem"} /\ v <= 5 THEN Junk ELSE Zero]]
Blank(v) == [p \in DOMAIN Layout[v] |-> [i \in 1 .. Len(SlotsOf[v][p]) |-> Zero]]

cgroupsv2 == log.version >= 11 /\ log.cgroups
Order(v) == SelectSeq(SysOrder \o TaskOrder \o IF cgroupsv2 THEN CgOrder ELSE << >>,
                      LAMBDA p : Has(v, p))
Chunks == <<"record", "sstat", "tstat">> \o IF cgroupsv2 THEN <<"cstat", "pidlist">> ELSE << >>

ConvertInit ==
  /\ log \in [version : Versions, whole : BOOLEAN, cgroups : BOOLEAN]
  /\ log.cgroups => log.version >= 10
  /\ target \in Versions
  /\ phase = "main" /\ code = 0 /\ nr = 0
  /\ at = log.version /\ step = 0 /\ cur = << >> /\ nxt = << >>
  /\ cgflag = FALSE /\ out = << >>

ConvertOff ==
  /\ log = [version |-> Newest, whole |-> TRUE, cgroups |-> FALSE] /\ target = Newest
  /\ phase = "off" /\ code = 0 /\ nr = 0
  /\ at = Newest /\ step = 0 /\ cur = << >> /\ nxt = << >>
  /\ cgflag = FALSE /\ out = << >>

Exit(status) == phase' = "exit" /\ code' = status

(* main() up to the header of the output file.  No output file: the version  *)
(* is shown and that is all.                                                 *)
OnlyVersion ==
  /\ phase = "main" /\ target = Newest
  /\ IF LogSstatlen(log.version) = Sstatlen(log.version) THEN Exit(0) ELSE Exit(11)
  /\ UNCHANGED <<log, target, nr, at, step, cur, nxt, cgflag, out>>
Refuse ==
  /\ phase = "main"
  /\ log.version > target \/ LogSstatlen(log.version) # Sstatlen(log.version)
  /\ Exit(11)
  /\ UNCHANGED <<log, target, nr, at, step, cur, nxt, cgflag, out>>
WriteHeader ==
  /\ phase = "main" /\ log.version <= target
  /\ LogSstatlen(log.version) = Sstatlen(log.version)
  /\ \/ /\ out' = << <<0, "header">> >>
        /\ phase' = IF log.version < target THEN "read" ELSE "copy"
        /\ UNCHANGED code
     \/ out' = << <<0, "part of header">> >> /\ Exit(10)
  /\ UNCHANGED <<log, target, nr, at, step, cur, nxt, cgflag>>
copy_file ==
  /\ phase = "copy"
  /\ \/ out' = << <<0, "copy">> >> /\ Exit(0)
     \/ out' = << <<0, "part of copy">> >> /\ Exit(42)
  /\ UNCHANGED <<log, target, nr, at, step, cur, nxt, cgflag>>

(* A sample is read, unless the file ends: within the record that precedes   *)
(* it the loop just ends, within the data the program exits.                 *)
ReadSample ==
  /\ phase = "read" /\ nr < NSamples /\ (nr + 1 < NSamples \/ log.whole)
  /\ phase' = "convert" /\ nr' = nr + 1
  /\ at' = log.version /\ step' = 0
  /\ cur' = Logged(log.version) /\ nxt' = Blank(log.version + 1)
  /\ cgflag' = log.cgroups
  /\ UNCHANGED <<log, target, code, out>>
EndOfLog ==
  /\ phase = "read"
  /\ \/ nr = NSamples /\ Exit(0)
     \/ nr + 1 = NSamples /\ ~log.whole /\ (Exit(0) \/ Exit(7))
  /\ UNCHANGED <<log, target, nr, at, step, cur, nxt, cgflag, out>>

(* do_sconvert(), do_tconvert(), do_cconvert() of the next sub-structure.    *)
(* snet_to_28() fills a structure of the current version, a counter longer   *)
(* than that of 2.8: its last assignment falls on the beginning of intf.     *)
ConvertNext ==
  LET v == at + 1
      p == Order(v)[step + 1]
      done == IF Has(at, p) THEN [nxt EXCEPT ![p] = Converted(v, p, cur[p])] ELSE nxt
  IN  /\ phase = "convert" /\ at < target /\ step < Len(Order(v))
      /\ nxt' = IF v = 8 /\ p = "snet"
                THEN [done EXCEPT !.sintf = [i \in DOMAIN @ |-> IF i <= 2 THEN Zero ELSE @[i]]]
                ELSE done
      /\ step' = step + 1
      /\ UNCHANGED <<log, target, phase, code, nr, at, cur, cgflag, out>>

(* The end of the loop body: the cgroup data of 2.10 is given up. *)
NextVersion ==
  /\ phase = "convert" /\ at < target /\ step = Len(Order(at + 1))
  /\ at' = at + 1 /\ step' = 0
  /\ cur' = nxt /\ nxt' = IF at + 1 < target THEN Blank(at + 2) ELSE << >>
  /\ cgflag' = (cgflag /\ at # 10)
  /\ phase' = IF at + 1 = target THEN "write" ELSE "convert"
  /\ UNCHANGED <<log, target, code, nr, out>>

OneChunkBack ==
  /\ phase = "write" /\ step < Len(Chunks)
  /\ \/ /\ out' = Append(out, <<nr, Chunks[step + 1]>>)
        /\ step' = step + 1
        /\ phase' = IF step + 1 = Len(Chunks) THEN "read" ELSE "write"
        /\ UNCHANGED code
     \/ /\ out' = IF step = 0 THEN out ELSE Front(out)
        /\ Exit(9) /\ UNCHANGED step
  /\ UNCHANGED <<log, target, nr, at, cur, nxt, cgflag>>

(* writesamp(): five writes; one that fails takes the file back to the size  *)
(* it had before the first.                                                  *)
writesamp ==
  /\ phase = "write" /\ step < Len(Chunks)
  /\ \/ /\ out' = Append(out, <<nr, Chunks[step + 1]>>)
        /\ step' = step + 1
        /\ phase' = IF step + 1 = Len(Chunks) THEN "read" ELSE "write"
        /\ UNCHANGED code
     \/ /\ out' = SubSeq(out, 1, Len(out) - step)
        /\ Exit(9) /\ UNCHANGED step
  /\ UNCHANGED <<log, target, nr, at, cur, nxt, cgflag>>

ConvertStep == OnlyVersion \/ Refuse \/ WriteHeader \/ copy_file \/ ReadSample \/ EndOfLog
               \/ ConvertNext \/ NextVersion \/ writesamp

-----------------------------------------------------------------------------
(* Properties *)

(* What is known to be lost: do_sconvert() is not called for llc; the table  *)
(* copies the NUMA nodes of 2.9 and the InfiniBand ports of 2.10 as they     *)
(* are although their entries have grown; gen of 2.12 likewise, whose        *)
(* utsname has grown in front of cgroupix.                                   *)
KnownLoss(p, s) ==
  \/ p = "sllc"
  \/ p = "smnum" /\ log.version <= 9 /\ target >= 10 /\ (s[2] > 1 \/ s[1] = "freehp")
  \/ p = "sifb" /\ log.version <= 10 /\ target >= 11 /\ s[2] > 1
  \/ p = "tgen" /\ target = 13 /\ (s[1] = "cgroupix" \/ (s[1] = "utsname" /\ s[3] > 4))

Ready == phase = "write"
Measured(p, s) ==
  /\ p \in Range(CgOrder) => cgroupsv2
  /\ \A v \in log.version .. target : Has(v, p) /\ s[1] \in Members(v, p)

(* A value that the version of the log has and that no version up to the     *)
(* target drops is in its own member, of its own entry, when the sample is   *)
(* written (atopconvert.c:160-173).                                          *)
Kept ==
  Ready => \A p \in DOMAIN cur : \A i \in DOMAIN cur[p] :
    LET s == SlotsOf[target][p][i] IN
    Measured(p, s) /\ s[1] \notin Reserved /\ ~KnownLoss(p, s)
      /\ s \in Range(SlotsOf[log.version][p]) => cur[p][i] = Value(s)

(* A member that the log did not have is zero or says that it is not known:  *)
(* it never takes the bytes of something else, of a reserved member that was *)
(* not zeroed or of another entry (atopconvert.c:536, 552).                  *)
NotInvented ==
  Ready => \A p \in DOMAIN cur : \A i \in DOMAIN cur[p] :
    LET s == SlotsOf[target][p][i]
        w == cur[p][i]
    IN  (IF Has(log.version, p) THEN s \notin Range(SlotsOf[log.version][p]) ELSE TRUE)
          /\ s[1] \notin Reserved /\ ~KnownLoss(p, s) =>
        \/ w \in {Zero, Mark("?"), Mark("-1"), Mark("1"), Mark("U"), <<"index", s[2], s[3]>>}
        \/ w = <<"speed", s[2], s[3]>> /\ s[1] = "speedp"
        \/ w = <<"nrcpu", s[2], s[3]>> /\ s[1] = "maxcpu"
        \/ w[1] = "cumulated" /\ s[1] = "busycum"

(* The comment on the table (atopconvert.c:169-173): what has not been       *)
(* changed from one version to the next is copied to its proper location.    *)
Unchanged(p) ==
  /\ p \in Range(CgOrder) => cgroupsv2
  /\ \A v \in log.version .. target : Has(v, p) /\ Layout[v][p] = Layout[log.version][p]
ProperLocation ==
  Ready => \A p \in DOMAIN cur : Unchanged(p) =>
    \A i \in DOMAIN cur[p] : SlotsOf[target][p][i][1] \in Reserved
                             \/ cur[p][i] = Value(SlotsOf[target][p][i])

(* A converted sample announces cgroup data exactly when it carries it: the  *)
(* reader of 2.11 and later goes by the flag of the record (rawlog.c:848).   *)
Announced == Ready /\ target >= 11 => (cgflag <=> cgroupsv2)

(* The converted sample says what the log said, and says which it says.      *)
Faithful == Kept /\ Announced

(* Whatever write fails, the output file holds its header and whole samples, *)
(* in the order of the log (atopconvert.c:2392).                             *)
WholeSamples ==
  phase \in {"read", "exit"} /\ code \notin {10, 42} /\ out # << >> /\ out[1] = <<0, "header">> =>
    \E n \in 0 .. nr :
      Tail(out) = FlattenSeq([k \in 1 .. n |-> [j \in DOMAIN Chunks |-> <<k, Chunks[j]>>]])
=============================================================================
