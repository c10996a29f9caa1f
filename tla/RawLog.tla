------------------------------- MODULE RawLog -------------------------------
(***************************************************************************)
(* The raw log: one atop appends a sample at a time (rawwrite()), another  *)
(* reads the file at the same time and lets the user step back and forth   *)
(* (rawread()).  In twin mode both are the halves of one program and       *)
(* inotify tells the reader that there is more to read.                    *)
(*                                                                         *)
(* The file is a sequence of parts: the file header, and for each sample   *)
(* the parts of its record header and of its compressed data, which        *)
(* appear one by one as writev() is not atomic.  Offsets count parts, the  *)
(* number of a sample is also its time.                                    *)
(***************************************************************************)
EXTENDS Integers, Sequences, FiniteSetsExt

CONSTANTS
  HeadLen,     \* parts of a record header
  DataLen,     \* parts of the compressed data
  Modes,       \* TRUE: twin mode, FALSE: a reader and a writer on their own
  EndTimes,    \* values of the flag -e, 0 for none
  MayFail,     \* writes may fail, as on a full file system
  MaxSamples,  \* bound: samples taken
  MaxStarts,   \* bound: writers started, one after the other
  MaxKills     \* bound: writers killed

ASSUME RawAssumption ==
  /\ HeadLen \in Nat \ {0} /\ DataLen \in Nat \ {0}
  /\ Modes \subseteq BOOLEAN /\ EndTimes \subseteq Nat /\ MayFail \in BOOLEAN
  /\ MaxSamples \in Nat /\ MaxStarts \in Nat \ {0} /\ MaxKills \in Nat

VARIABLES
  twin,      \* twin mode
  file,      \* the parts of the file; empty also if there is no file
  \* the writer
  wpc,       \* where it is
  start,     \* size of the file before the sample that is written now
  taken,     \* samples taken so far
  starts, kills, \* counters: writers started, killed
  fails,     \* history: a "write" or a "rollback" that failed, a rollback that has "cut" off what was read
  \* inotify
  watched,   \* the reader has set its watch
  event,     \* an event can be read; events that are alike are merged into one
  \* the reader
  rpc,       \* where it is
  why,       \* why it has ended
  rpos,      \* its offset in the file
  rec,       \* the sample of the record header read, also cursortime
  off, offcur,   \* offlist, the offsets of the records seen, and the place of the next one
  begin, endtime, \* begintime and endtime
  paused,    \* pause mode
  shown,     \* the sample on the screen, 0 for none
  ask        \* history: the last command and what there was to be read then

writer == <<start, taken, starts, kills, fails>>
reader == <<why, rpos, rec, off, offcur, begin, endtime, paused, shown, ask>>
rvars  == <<twin, file, wpc, writer, watched, event, rpc, reader>>

SampleLen == HeadLen + DataLen
Far == MaxSamples + 1        \* 0x7fffffff

Header  == [s |-> 0, p |-> 1]
Part(s, k) == [s |-> s, p |-> k]
Size == Len(file)

\* The samples that are complete in the file.
WholeAt(o) ==
  o + SampleLen <= Size /\ \A k \in 1 .. SampleLen : file[o + k] = Part(file[o + 1].s, k)
Samples == {file[o + 1].s : o \in {i \in 1 .. Size : WholeAt(i)}}
\* The file has nothing behind its last complete sample.
Even == Size = 0 \/ (Size - 1) % SampleLen = 0

RawTypeOK ==
  /\ twin \in Modes
  /\ file \in Seq([s : 0 .. MaxSamples, p : 1 .. SampleLen])
  /\ wpc \in {"off", "open", "idle", "write", "short"}
  /\ start \in Nat /\ taken \in 0 .. MaxSamples
  /\ starts \in 0 .. MaxStarts /\ kills \in 0 .. MaxKills /\ fails \subseteq {"write", "rollback", "cut"}
  /\ watched \in BOOLEAN /\ event \in BOOLEAN
  /\ rpc \in {"none", "fork", "first", "header", "rec", "wait", "take", "show", "end"}
  /\ why \in {"", "quit", "endtime", "empty", "torn", "incomplete", "short"}
  /\ rpos \in Nat /\ rec \in 0 .. MaxSamples
  /\ off \in [0 .. MaxSamples + 1 -> Nat] /\ offcur \in 0 .. MaxSamples + 1
  /\ begin \in 0 .. Far /\ endtime \in EndTimes /\ paused \in BOOLEAN
  /\ shown \in 0 .. MaxSamples
  /\ ask \in [cmd : {"start", "next", "prev", "reset", "branch"}, from : 0 .. MaxSamples,
              seen : SUBSET (1 .. MaxSamples), time : 0 .. Far]

Init ==
  /\ twin \in Modes
  /\ file = <<>>
  /\ wpc = (IF twin THEN "open" ELSE "off")
  /\ start = 0 /\ taken = 0 /\ kills = 0 /\ fails = {}
  /\ starts = (IF twin THEN 1 ELSE 0)
  /\ watched = FALSE /\ event = FALSE
  /\ rpc = (IF twin THEN "fork" ELSE "none") /\ why = ""
  /\ rpos = 0 /\ rec = 0
  /\ off = [i \in 0 .. MaxSamples + 1 |-> 0] /\ offcur = 0
  /\ begin \in IF twin THEN {0} ELSE 0 .. MaxSamples
  /\ endtime \in EndTimes
  /\ paused = FALSE /\ shown = 0
  /\ ask = [cmd |-> "start", from |-> 0, seen |-> {}, time |-> begin]

Modified == event' = watched

(***************************************************************************)
(* The writer: rawwopen() and rawwrite().                                  *)
(***************************************************************************)

\* An existing file is scanned up to its end, which must be that of a sample.
Open ==
  /\ wpc = "open"
  /\ \/ Size > 0 /\ wpc' = (IF Even THEN "idle" ELSE "off") /\ UNCHANGED <<file, event>>
     \/ Size = 0 /\ file' = <<Header>> /\ Modified /\ wpc' = "idle"
  /\ UNCHANGED writer

\* The next sample: fstat() and the begin of writev().
RawWrite ==
  /\ wpc = "idle" /\ taken < MaxSamples
  /\ taken' = taken + 1 /\ start' = Size
  /\ wpc' = "write"
  /\ UNCHANGED <<file, event, starts, kills, fails>>

Writev ==
  /\ wpc = "write"
  /\ file' = Append(file, Part(taken, Size - start + 1))
  /\ IF Size + 1 = start + SampleLen
     THEN wpc' = "idle" /\ Modified
     ELSE UNCHANGED <<wpc, event>>
  /\ UNCHANGED writer

\* writev() writes less than it should, or nothing at all: the -1 that it returns
\* then is compared as an unsigned number and not noticed.
WritevFails ==
  /\ wpc = "write" /\ MayFail
  /\ fails' = fails \cup {"write"}
  /\ IF Size = start
     THEN wpc' = "idle" /\ UNCHANGED event
     ELSE wpc' = "short" /\ Modified
  /\ UNCHANGED <<file, start, taken, starts, kills>>

\* Mutant of RollBack: back to the size after the record header.
RollBackLess ==
  /\ wpc = "short"
  /\ \/ /\ file' = SubSeq(file, 1, start + 1) /\ Modified
        /\ fails' = IF rpos > start THEN fails \cup {"cut"} ELSE fails
     \/ fails' = fails \cup {"rollback"} /\ UNCHANGED <<file, event>>
  /\ wpc' = "off"
  /\ UNCHANGED <<start, taken, starts, kills>>

\* The file gets its size from before, if ftruncate() succeeds; the writer ends.
RollBack ==
  /\ wpc = "short"
  /\ \/ /\ file' = SubSeq(file, 1, start) /\ Modified
        /\ fails' = IF rpos > start THEN fails \cup {"cut"} ELSE fails
     \/ fails' = fails \cup {"rollback"} /\ UNCHANGED <<file, event>>
  /\ wpc' = "off"
  /\ UNCHANGED <<start, taken, starts, kills>>

\* Only in between samples, or the signal is seen as a kill.
WriterEnds ==
  /\ wpc = "idle" /\ wpc' = "off"
  /\ UNCHANGED <<file, event, writer>>

WriterKill ==
  /\ wpc # "off" /\ kills < MaxKills
  /\ kills' = kills + 1 /\ wpc' = "off"
  /\ UNCHANGED <<file, event, start, taken, starts, fails>>

WriterStart ==
  /\ wpc = "off" /\ ~twin /\ starts < MaxStarts
  /\ starts' = starts + 1 /\ wpc' = "open"
  /\ UNCHANGED <<file, event, start, taken, kills, fails>>

WriterStep == Open \/ RawWrite \/ Writev \/ RollBack

Writer ==
  /\ WriterStep \/ WritevFails \/ WriterEnds \/ WriterKill \/ WriterStart
  /\ UNCHANGED <<twin, watched, rpc, reader>>

(***************************************************************************)
(* The reader starts: twinprepare() and the begin of rawread().            *)
(***************************************************************************)
Watch ==
  /\ rpc = "fork"
  /\ watched' = TRUE /\ rpc' = "first"
  /\ UNCHANGED <<file, wpc, event, reader>>

AwaitFirst ==
  /\ rpc = "first" /\ event
  /\ event' = FALSE /\ rpc' = "header"
  /\ UNCHANGED <<file, wpc, watched, reader>>

ReaderStart ==
  /\ rpc = "none" /\ rpc' = "header"
  /\ UNCHANGED <<file, wpc, watched, event, reader>>

\* exit(), in twin mode with twinclean(): the lower half gets a SIGTERM.
Ends(reason) ==
  /\ rpc' = "end" /\ why' = reason
  /\ wpc' = IF twin THEN "off" ELSE wpc

ReadHeader ==
  /\ rpc = "header"
  /\ IF Size = 0
     THEN Ends("empty") /\ UNCHANGED <<rpos, off, offcur, ask>>
     ELSE /\ rpos' = 1 /\ off' = [off EXCEPT ![0] = 1] /\ offcur' = 1
          /\ ask' = [ask EXCEPT !.seen = Samples]
          /\ rpc' = "rec" /\ UNCHANGED <<wpc, why>>
  /\ UNCHANGED <<file, watched, event, rec, begin, endtime, paused, shown>>

(***************************************************************************)
(* getrawrec(): the record header, then a wait until all of the sample is  *)
(* there.                                                                  *)
(***************************************************************************)
GetRawRec ==
  /\ rpc = "rec" /\ Size >= rpos + HeadLen
  /\ rpos' = rpos + HeadLen /\ rec' = file[rpos + 1].s
  /\ rpc' = "wait"
  /\ UNCHANGED <<file, wpc, watched, event, why, off, offcur, begin, endtime, paused, shown, ask>>

\* Mutant of AtEnd: the last record is not shown again.
AtEndStays ==
  /\ rpc = "rec" /\ Size <= rpos
  /\ begin' = 0
  /\ UNCHANGED <<offcur, rpos>>
  /\ UNCHANGED <<file, wpc, watched, event, rpc, why, rec, off, endtime, paused, shown, ask>>

\* End of the file: back to the last record that was read.
AtEnd ==
  /\ rpc = "rec" /\ Size <= rpos
  /\ begin' = 0
  /\ offcur' = (IF offcur >= 1 THEN offcur - 1 ELSE offcur)
  /\ rpos' = off[offcur']
  /\ UNCHANGED <<file, wpc, watched, event, rpc, why, rec, off, endtime, paused, shown, ask>>

\* "inconsistent raw file!"
Torn ==
  /\ rpc = "rec" /\ rpos < Size /\ Size < rpos + HeadLen
  /\ Ends("torn")
  /\ UNCHANGED <<file, watched, event, rpos, rec, off, offcur, begin, endtime, paused, shown, ask>>

\* Mutant of Complete: no wait for the data.
CompleteOrNot ==
  /\ rpc = "wait"
  /\ rpc' = "take"
  /\ UNCHANGED <<file, wpc, watched, event, reader>>

Complete ==
  /\ rpc = "wait" /\ Size - rpos >= DataLen
  /\ rpc' = "take"
  /\ UNCHANGED <<file, wpc, watched, event, reader>>

\* After two seconds, also when the writer is still at work.
GiveUp ==
  /\ rpc = "wait" /\ Size - rpos < DataLen
  /\ Ends("incomplete")
  /\ UNCHANGED <<file, watched, event, rpos, rec, off, offcur, begin, endtime, paused, shown, ask>>

(***************************************************************************)
(* The loop in rawread(): remember the offset, skip what is before the     *)
(* time to begin with, show the rest.                                      *)
(***************************************************************************)
Registered ==
  /\ off' = [off EXCEPT ![offcur] = rpos - HeadLen]
  /\ offcur' = offcur + 1

\* Mutant of Take: the data of a sample that is skipped is not.
TakeNoSkip ==
  /\ rpc = "take"
  /\ Registered
  /\ \/ /\ begin > rec /\ UNCHANGED rpos /\ rpc' = "rec"
        /\ UNCHANGED <<wpc, why, begin, shown>>
     \/ /\ begin <= rec /\ endtime # 0 /\ endtime < rec
        /\ begin' = 0 /\ Ends("endtime") /\ UNCHANGED <<rpos, shown>>
     \/ /\ begin <= rec /\ (endtime = 0 \/ endtime >= rec)
        /\ begin' = 0
        /\ IF Size < rpos + DataLen
           THEN Ends("short") /\ UNCHANGED <<rpos, shown>>
           ELSE /\ rpos' = rpos + DataLen /\ shown' = rec /\ rpc' = "show"
                /\ UNCHANGED <<wpc, why>>
  /\ UNCHANGED <<file, watched, event, rec, endtime, paused, ask>>

Take ==
  /\ rpc = "take"
  /\ Registered
  /\ \/ /\ begin > rec /\ rpos' = rpos + DataLen /\ rpc' = "rec"
        /\ UNCHANGED <<wpc, why, begin, shown>>
     \/ /\ begin <= rec /\ endtime # 0 /\ endtime < rec
        /\ begin' = 0 /\ Ends("endtime") /\ UNCHANGED <<rpos, shown>>
     \/ /\ begin <= rec /\ (endtime = 0 \/ endtime >= rec)
        /\ begin' = 0
        /\ IF Size < rpos + DataLen
           THEN Ends("short") /\ UNCHANGED <<rpos, shown>>
           ELSE /\ rpos' = rpos + DataLen /\ shown' = rec /\ rpc' = "show"
                /\ UNCHANGED <<wpc, why>>
  /\ UNCHANGED <<file, watched, event, rec, endtime, paused, ask>>

(***************************************************************************)
(* What the user may ask for when a sample is shown.  All but the next     *)
(* sample pauses a live measurement.                                       *)
(***************************************************************************)
Ask(cmd, time) ==
  /\ rpc = "show" /\ rpc' = "rec"
  /\ ask' = [cmd |-> cmd, from |-> shown, seen |-> Samples, time |-> time]

Pauses == paused' = (paused \/ twin)

Rewind == rpos' = off[0] /\ offcur' = 1

\* MSAMPNEXT
NextSample ==
  /\ Ask("next", 0)
  /\ UNCHANGED <<event, rpos, offcur, begin, paused>>

\* Mutant of Prev: one place back instead of two.
PrevOne ==
  /\ Ask("prev", 0) /\ Pauses
  /\ offcur' = IF offcur >= 1 THEN offcur - 1 ELSE 0
  /\ rpos' = off[offcur']
  /\ UNCHANGED <<event, begin>>

\* MSAMPPREV
Prev ==
  /\ Ask("prev", 0) /\ Pauses
  /\ offcur' = IF offcur >= 2 THEN offcur - 2 ELSE 0
  /\ rpos' = off[offcur']
  /\ UNCHANGED <<event, begin>>

\* MRESET
Reset ==
  /\ Ask("reset", 0) /\ paused' = twin
  /\ Rewind
  /\ UNCHANGED <<event, begin>>

\* MSAMPBRANCH to a time, and MEND, a branch to a time that never comes.
Branch(time) ==
  /\ Ask("branch", time) /\ Pauses
  /\ begin' = time
  /\ IF time < rec THEN Rewind ELSE UNCHANGED <<rpos, offcur>>
  /\ UNCHANGED event

\* The end of a pause is a branch to the end.
Resume ==
  /\ twin /\ paused
  /\ Ask("branch", Far) /\ paused' = FALSE
  /\ begin' = Far
  /\ UNCHANGED <<event, rpos, offcur>>

Pause ==
  /\ rpc = "show" /\ twin /\ ~paused
  /\ paused' = TRUE
  /\ UNCHANGED <<rpc, event, rpos, offcur, begin, ask>>

Command ==
  /\ NextSample \/ Prev \/ Reset \/ (\E t \in 1 .. Far : Branch(t)) \/ Resume \/ Pause
  /\ UNCHANGED <<file, wpc, watched, why, rec, off, endtime, shown>>

Quit ==
  /\ rpc = "show" /\ Ends("quit")
  /\ UNCHANGED <<file, watched, event, rpos, rec, off, offcur, begin, endtime, paused, shown, ask>>

\* The event that a sample has been written, in a live measurement: as if the user asks for the next one.
Triggered ==
  /\ twin /\ ~paused /\ event
  /\ Ask("next", 0) /\ event' = FALSE
  /\ UNCHANGED <<file, wpc, watched, why, rpos, rec, off, offcur, begin, endtime, paused, shown>>

ReaderStep ==
  \/ Watch \/ AwaitFirst \/ ReadHeader \/ GetRawRec \/ AtEnd \/ Torn \/ Complete \/ GiveUp \/ Take
  \/ Triggered

Reader == (ReaderStep \/ ReaderStart \/ Command \/ Quit) /\ UNCHANGED <<twin, writer>>

Next == Writer \/ Reader

Spec == Init /\ [][Next]_rvars

FairSpec ==
  /\ Spec
  /\ WF_rvars(WriterStep /\ UNCHANGED <<twin, watched, rpc, reader>>)
  /\ WF_rvars(ReaderStep /\ UNCHANGED <<twin, writer>>)

(***************************************************************************)
(* Properties.                                                             *)
(***************************************************************************)
\* The file has complete samples in ascending order, and nothing is ever written behind one
\* that is incomplete.
LogWhole ==
  \A i \in 1 .. Size :
    /\ i = 1 <=> file[i] = Header
    /\ i > 1 => /\ file[i].p = ((i - 2) % SampleLen) + 1
                /\ i < Size => \/ file[i + 1].s = file[i].s /\ file[i].p < SampleLen
                               \/ file[i + 1].s > file[i].s /\ file[i].p = SampleLen

\* A write that fails leaves the file as it was: the next writer can append, unless
\* a writer was killed or the rollback failed, too.
RolledBack == wpc \in {"off", "idle"} /\ kills = 0 /\ "rollback" \notin fails /\ ~(twin /\ why # "") => Even

\* What is shown is a complete sample, and the place of its record is the last one in the list of
\* offsets; unless the record header was rolled back, and replaced by another, before its data was read.
ShownWhole ==
  rpc = "show" /\ "cut" \notin fails =>
    /\ rpos > SampleLen /\ WholeAt(rpos - SampleLen) /\ file[rpos].s = shown
    /\ offcur >= 1 /\ off[offcur - 1] = rpos - SampleLen

\* The list of offsets goes from the first record to the current one, ascending; only the first
\* record can be in it twice.
OffsetsInOrder ==
  offcur >= 1 =>
    /\ off[0] = 1
    /\ \A i \in 1 .. offcur - 1 :
         /\ off[i] % SampleLen = 1 % SampleLen
         /\ off[i] = off[i - 1] + SampleLen \/ (i = 1 /\ off[i] = off[0])

\* The file and the reader's list of its records are well formed, whatever fails and whoever is
\* killed: the next writer can append (rawwopen()), and a step back finds a record (rawread()).
LogSound == RawTypeOK /\ LogWhole /\ RolledBack /\ OffsetsInOrder

\* A command shows the sample it asks for: of those that were complete when it was given,
\* or of later ones where there is none; with the same exception.
Navigates ==
  rpc = "show" /\ "cut" \notin fails =>
    LET from == ask.from
        Later   == {s \in ask.seen : s > from}
        Earlier == {s \in ask.seen : s < from}
        From(t) == {s \in ask.seen : s >= t /\ (t < from \/ s > from)}
    IN  CASE ask.cmd = "next"  -> IF Later # {} THEN shown = Min(Later) ELSE shown \in Samples \ Earlier
          [] ask.cmd = "prev"  -> shown = IF Earlier # {} THEN Max(Earlier) ELSE from
          [] ask.cmd = "reset" -> shown = Min(ask.seen)
          [] OTHER -> IF From(ask.time) # {} THEN shown = Min(From(ask.time))
                      ELSE shown \in Samples /\ \A s \in ask.seen : shown >= s

\* The sample that the reader is about to read, or waits for, is being written just now.
AtWork == wpc \in {"write", "short"} /\ start = IF rpc = "wait" THEN rpos - HeadLen ELSE rpos

\* Why a reader ends.  It gives up on a sample that is not there as a whole, be it for its record header,
\* at which it does not wait (rawlog.c:975), or for its data, for which it does (rawlog.c:1040), only when
\* just this sample is being written, when a writer was killed, or when a write failed and could not be
\* rolled back before the reader had read from it: from wherever it has stepped to it finds the samples that
\* were written before.  A sample that it found complete has all its data when it reads them; and
\* in twin mode there is a file header when it is told to read.
EndsForCause ==
  [][why' # why =>
       /\ why' \in {"torn", "incomplete"} => AtWork \/ kills > 0 \/ fails \intersect {"rollback", "cut"} # {}
       /\ why' # "short"
       /\ why' = "empty" => ~twin]_rvars

\* A command is answered, by a sample or by the end of the reader.
Answered == rpc \in {"rec", "wait", "take"} /\ shown # 0 ~> rpc \in {"show", "end"}
=============================================================================
