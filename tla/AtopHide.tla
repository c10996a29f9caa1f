------------------------------ MODULE AtopHide ------------------------------
(***************************************************************************)
(* atophide: copies the samples of a raw log between a begin and an end    *)
(* time and, with -a, replaces the names in them by stand-ins.             *)
(*                                                                         *)
(* A sample carries one item with a name: a logical volume, an NFS mount   *)
(* or a task, the latter in one of the states that matter here.            *)
(***************************************************************************)
EXTENDS Integers, Sequences, FiniteSets, SequencesExt

CONSTANTS
  Originals,   \* names in the log
  Standard,    \* those that allowedcoms recognizes as commands
  Times,       \* time stamps of samples
  MaxHide,     \* samples in the log
  FakeLimit,   \* stand-ins that fit the room for their name (100000) ...
  Radix        \* ... and the base in which their number is written (10)

ASSUME AtopHideAssumption ==
  /\ Standard \subseteq Originals /\ Times \subseteq Nat \ {0}
  /\ MaxHide \in Nat /\ FakeLimit \in Nat \ {0} /\ Radix \in Nat \ {0}

VARIABLES
  hlog,      \* the log: good (header), cut (within the data of its last sample)
  opts,      \* -a, -b and -e (0: not given); whether in and out are the same
  hphase,    \* what the program is doing; "exit" with the status in hcode
  hcode,
  samples,   \* the samples read so far: [time, item]
  hchunk,    \* chunks of the sample already written
  standins,  \* for every kind of name the originals in the order of their stand-ins
  writecnt,  \* "Samples written"
  hout       \* the output file: [nr, chunk, item, short], nr 0 the header

hvars == <<hlog, opts, hphase, hcode, samples, hchunk, standins, writecnt, hout>>

HideChunks == <<"record", "sstat", "pstat", "cstat", "istat">>
States == {"user", "zombie", "exited", "kernel"}
Items == [kind : {"lvm", "nfs"}, name : Originals, state : {"-"}]
         \union [kind : {"cmd"}, name : Originals, state : States]
AnItem == [kind |-> "cmd", name |-> CHOOSE o \in Standard : TRUE, state |-> "kernel"]

(* The names matter with -a only, the times without. *)
HideInit ==
  /\ hlog \in [good : BOOLEAN, cut : BOOLEAN]
  /\ opts \in [anon : BOOLEAN, begin : Times \union {0}, end : Times \union {0}, same : BOOLEAN]
  /\ opts.anon => opts.begin = 0 /\ opts.end = 0
  /\ hphase = "start" /\ hcode = 0 /\ samples = << >> /\ hchunk = 0
  /\ standins = [k \in {"lvm", "nfs", "cmd"} |-> << >>]
  /\ writecnt = 0 /\ hout = << >>
HideOff ==
  /\ hlog = [good |-> TRUE, cut |-> FALSE]
  /\ opts = [anon |-> FALSE, begin |-> 0, end |-> 0, same |-> FALSE]
  /\ hphase = "off" /\ hcode = 0 /\ samples = << >> /\ hchunk = 0
  /\ standins = [k \in {"lvm", "nfs", "cmd"} |-> << >>]
  /\ writecnt = 0 /\ hout = << >>

HideExit(status) == hphase' = "exit" /\ hcode' = status
Nr == Len(samples)
Written(chunk, item, short) == [nr |-> Nr, chunk |-> chunk, item |-> item, short |-> short]
HeaderOut == [nr |-> 0, chunk |-> "header", item |-> AnItem, short |-> FALSE]

HideStart ==
  /\ hphase = "start"
  /\ IF ~hlog.good THEN HideExit(3)
     ELSE IF opts.same THEN HideExit(12)
     ELSE hphase' = "record" /\ UNCHANGED hcode
  /\ UNCHANGED <<hlog, opts, samples, hchunk, standins, writecnt, hout>>

HideEnd ==
  /\ hphase = "record"
  /\ HideExit(0)
  /\ UNCHANGED <<hlog, opts, samples, hchunk, standins, writecnt, hout>>

Stamps == IF opts.anon THEN {CHOOSE t \in Times : TRUE} ELSE Times

(* The record of the next sample is read: time is its time. *)
NextRecord(time) ==
  /\ hphase = "record" /\ Nr < MaxHide
  /\ \E item \in IF opts.anon THEN Items ELSE {AnItem} :
       samples' = Append(samples, [time |-> time, item |-> item])

Skip ==
  /\ \E t \in Stamps : NextRecord(t) /\ opts.begin # 0 /\ opts.begin > t
  /\ UNCHANGED <<hlog, opts, hphase, hcode, hchunk, standins, writecnt, hout>>

TooEarly ==
  /\ \E t \in Stamps : /\ NextRecord(t) /\ ~(opts.begin # 0 /\ opts.begin > t)
                      /\ opts.end # 0 /\ opts.end <= t
  /\ HideExit(0)
  /\ UNCHANGED <<hlog, opts, hchunk, standins, writecnt, hout>>

(* The first sample after the end time ends the program. *)
Beyond ==
  /\ \E t \in Stamps : /\ NextRecord(t) /\ ~(opts.begin # 0 /\ opts.begin > t)
                      /\ opts.end # 0 /\ opts.end < t
  /\ HideExit(0)
  /\ UNCHANGED <<hlog, opts, hchunk, standins, writecnt, hout>>

(* A sample is selected.  It counts as written before it has been read; the *)
(* first one creates the output file.                                       *)
Select ==
  /\ \E t \in Stamps : /\ NextRecord(t) /\ ~(opts.begin # 0 /\ opts.begin > t)
                      /\ ~(opts.end # 0 /\ opts.end < t)
  /\ writecnt' = writecnt + 1
  /\ IF writecnt > 0 THEN hphase' = "data" /\ UNCHANGED <<hcode, hout>>
     ELSE \/ hphase' = "data" /\ hout' = <<HeaderOut>> /\ UNCHANGED hcode
          \/ HideExit(4) /\ UNCHANGED hout
          \/ HideExit(10) /\ hout' = <<[HeaderOut EXCEPT !.short = TRUE]>>
  /\ UNCHANGED <<hlog, opts, hchunk, standins>>

(* findstandin(): the stand-in of a name is the number at which it is found  *)
(* or added.  A number that needs more digits than there is room for loses   *)
(* its last ones.                                                            *)
Fake(n) == IF n < FakeLimit THEN n ELSE n \div Radix
NoSearch(kind, name) ==
  [known |-> Append(standins[kind], name), fake |-> Fake(Len(standins[kind]))]
findstandin(kind, name) ==
  IF \E i \in DOMAIN standins[kind] : standins[kind][i] = name
  THEN [known |-> standins[kind],
        fake |-> Fake((CHOOSE i \in DOMAIN standins[kind] : standins[kind][i] = name) - 1)]
  ELSE [known |-> Append(standins[kind], name), fake |-> Fake(Len(standins[kind]))]

(* A task without memory that has not exited passes for a kernel process: so *)
(* does a zombie.                                                            *)
Preserved(item) ==
  item.kind = "cmd" /\ (item.state \in {"zombie", "kernel"} \/ item.name \in Standard)

Fakes(item) == [item EXCEPT !.name = <<item.kind, findstandin(item.kind, item.name).fake>>]
anonymize(item) ==
  /\ standins' = IF opts.anon /\ ~Preserved(item)
                 THEN [standins EXCEPT ![item.kind] = findstandin(item.kind, item.name).known]
                 ELSE standins
  /\ samples' = [samples EXCEPT ![Nr] = [time |-> @.time, item |-> @.item,
                   shown |-> IF opts.anon /\ ~Preserved(item) THEN Fakes(item) ELSE item]]

(* The data of the sample: when the file ends within it, the program does too *)
HideData ==
  /\ hphase = "data"
  /\ \/ /\ hphase' = "write" /\ hchunk' = 0 /\ anonymize(samples[Nr].item)
        /\ UNCHANGED hcode
     \/ Nr = MaxHide /\ hlog.cut
        /\ (HideExit(7) \/ HideExit(9)) /\ UNCHANGED <<samples, standins, hchunk>>
  /\ UNCHANGED <<hlog, opts, writecnt, hout>>

(* Bound: one short write, and not with -a. *)
ShortOnce(short) == short => ~opts.anon /\ \A i \in DOMAIN hout : ~hout[i].short

(* writesamp(): a write that fails ends the program; one that is short does  *)
(* not.                                                                      *)
HideWrite ==
  LET c == HideChunks[hchunk + 1]
      item == samples[Nr].shown
  IN  /\ hphase = "write"
      /\ \/ /\ \E short \in BOOLEAN : ShortOnce(short) /\ hout' = Append(hout, Written(c, item, short))
            /\ hchunk' = hchunk + 1
            /\ hphase' = IF hchunk + 1 = Len(HideChunks) THEN "record" ELSE "write"
            /\ UNCHANGED hcode
         \/ HideExit(7) /\ UNCHANGED <<hchunk, hout>>
      /\ UNCHANGED <<hlog, opts, samples, standins, writecnt>>

HideNext == HideStart \/ HideEnd \/ Skip \/ Beyond \/ Select \/ HideData \/ HideWrite
-----------------------------------------------------------------------------
(* Properties *)

InWindow(s) == (opts.begin = 0 \/ opts.begin <= s.time) /\ (opts.end = 0 \/ s.time <= opts.end)
Selected == {i \in DOMAIN samples : InWindow(samples[i])}
Before(i) == Cardinality({k \in Selected : k < i})

(* When the program succeeds, the output holds every sample it has read from *)
(* the begin time to the end time, both included, five chunks each, in their *)
(* order, and no other; there is an output file only if there is such a      *)
(* sample, and "Samples written" is their number (atophide.c:251-278).  It   *)
(* stops reading at the first sample after the end time.  A chunk may be     *)
(* short: nobody looks.                                                      *)
CutOut ==
  hphase = "exit" /\ hcode = 0 =>
    /\ writecnt = Cardinality(Selected)
    /\ hout = << >> <=> Selected = {}
    /\ hout # << >> => Len(hout) = 1 + Cardinality(Selected) * Len(HideChunks)
    /\ \A i \in 2 .. Len(hout) :
         /\ hout[i].nr \in Selected
         /\ Before(hout[i].nr) = (i - 2) \div Len(HideChunks)
         /\ hout[i].chunk = HideChunks[1 + ((i - 2) % Len(HideChunks))]

Shown == {i \in DOMAIN samples : opts.anon /\ \E o \in Range(hout) : o.nr = i}
Names(i) == [old |-> samples[i].item, new |-> samples[i].shown]
Private(item) == item.kind = "cmd" => item.state # "kernel" /\ item.name \notin Standard

(* With -a the output has a stand-in for every name, and no original, except *)
(* those of standard commands and of kernel processes, which it keeps        *)
(* (man/atophide.1).  Zombies are left aside, see PlaceHolders.              *)
Hidden ==
  \A i \in Shown : LET n == Names(i) IN n.old.state # "zombie" =>
    IF Private(n.old) THEN n.new.name \notin Originals ELSE n.new = n.old

(* A name has the same stand-in wherever it comes in the log, and two names  *)
(* never have the same: what a command did can be followed from sample to    *)
(* sample.  Only while the numbers fit their five digits (atophide.c:473).   *)
OneStandin ==
  \A i, j \in Shown : LET m == Names(i)
                         n == Names(j) IN
    /\ m.new # m.old /\ n.new # n.old /\ m.old.kind = n.old.kind
    /\ Len(standins[m.old.kind]) <= FakeLimit
    => (m.new.name = n.new.name <=> m.old.name = n.old.name)

(* What -a promises: nothing private is left, and what belongs together can  *)
(* still be followed (man/atophide.1, findstandin()).                        *)
Anonymous == Hidden /\ OneStandin

(* The manual page: "Command names will be replaced by place holders, except *)
(* the names of the standard commands and the names of kernel processes."    *)
PlaceHolders ==
  \A i \in Shown : Private(Names(i).old) => Names(i).new.name \notin Originals
=============================================================================
