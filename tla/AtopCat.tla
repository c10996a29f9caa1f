------------------------------ MODULE AtopCat -------------------------------
(***************************************************************************)
(* atopcat: concatenates raw logs.  The header of the first file is that   *)
(* of the result; of every file all samples follow as they are, five       *)
(* chunks each, until the file ends or its last sample is not complete.    *)
(*                                                                         *)
(* read() and write() return -1 when they fail.  For a header and for a    *)
(* record that is compared with the unsigned sizeof, and not noticed.      *)
(***************************************************************************)
EXTENDS Integers, FiniteSets, Sequences, SequencesExt

CONSTANTS
  CatVersions,   \* versions of atop that the files may come from
  MaxCatSamples, \* complete samples that can be read of a file
  MaxFiles       \* files on the command line

ASSUME AtopCatAssumption == MaxCatSamples \in Nat /\ MaxFiles \in Nat \ {0}

VARIABLES
  files,     \* the files: start (of the file), version, cgroups, samples, tail
  dryrun,    \* option -d
  catphase,  \* what the program is doing; "exit" with the status in catcode
  catcode,
  file, rec, \* the file and its sample being read
  chunk,     \* chunks of the sample already written
  catout,    \* what is given to write(): <<file, sample, chunk>>, sample 0 a header
  lost       \* those of them that were not written, or not completely

catvars == <<files, dryrun, catphase, catcode, file, rec, chunk, catout, lost>>

CatChunks == <<"record", "sstat", "pstat", "cstat", "istat">>

(* A file that is not there, too short for a header, without the magic      *)
(* number or of which nothing can be read, like a directory.  What follows  *)
(* the complete samples is the end, a sample that is cut off in its record  *)
(* or after, or one of which the record or a chunk cannot be read.          *)
RawFiles ==
  [start : {"good", "missing", "short", "alien", "unreadable"}, version : CatVersions,
   cgroups : BOOLEAN, samples : 0 .. MaxCatSamples,
   tail : {"none", "record", "data", "badrecord", "baddata"}]
Plain(f) == f.start = "good" \/ (f.samples = 0 /\ f.tail = "none" /\ ~f.cgroups)

CatInit ==
  /\ files \in UNION {[1 .. n -> {f \in RawFiles : Plain(f)}] : n \in 1 .. MaxFiles}
  /\ dryrun \in BOOLEAN
  /\ catphase = "open" /\ catcode = 0 /\ file = 0 /\ rec = 0 /\ chunk = 0
  /\ catout = << >> /\ lost = {}
CatOff ==
  /\ files = << >> /\ dryrun = TRUE
  /\ catphase = "off" /\ catcode = 0 /\ file = 0 /\ rec = 0 /\ chunk = 0
  /\ catout = << >> /\ lost = {}

CatExit(status) == catphase' = "exit" /\ catcode' = status
This == files[file]

(* A header that cannot be read is not noticed: what is checked is the one  *)
(* of the file before, or before the first whatever the memory holds, which *)
(* does not have the magic number.                                          *)
Alien(n) == files[n].start = "alien" \/ (n = 1 /\ files[n].start = "unreadable")

CatOpen ==
  /\ catphase = "open"
  /\ UNCHANGED <<files, dryrun, rec, chunk, catout, lost>>
  /\ IF file = Len(files) THEN CatExit(0) /\ UNCHANGED file
     ELSE LET f == files[file + 1] IN
          /\ file' = file + 1
          /\ CASE f.start = "missing" -> CatExit(2)
               [] f.start = "short" -> CatExit(3)
               [] Alien(file + 1) -> CatExit(4)
               [] OTHER -> catphase' = "header" /\ UNCHANGED catcode

AnyVersion ==
  /\ catphase = "header" /\ file > 1
  /\ catphase' = "read" /\ rec' = 0
  /\ UNCHANGED <<files, dryrun, catcode, file, chunk, catout, lost>>

(* The first file tells what the others must be. *)
AsFirst(f) == f.start = "unreadable" \/ (f.version = files[1].version /\ f.cgroups = files[1].cgroups)
SameAsFirst ==
  /\ catphase = "header" /\ file > 1
  /\ IF ~AsFirst(This)
     THEN CatExit(5) /\ UNCHANGED rec
     ELSE catphase' = "read" /\ rec' = 0 /\ UNCHANGED catcode
  /\ UNCHANGED <<files, dryrun, file, chunk, catout, lost>>

(* A piece is written, or it is not or not completely. *)
Give(piece) == catout' = Append(catout, piece)
Loses(piece) == lost' = lost \union {piece}

(* The header is written; a write that fails is not noticed, one that is     *)
(* short ends the program.                                                   *)
FirstHeader ==
  /\ catphase = "header" /\ file = 1
  /\ UNCHANGED <<files, dryrun, file, chunk>>
  /\ IF dryrun
     THEN catphase' = "read" /\ rec' = 0 /\ UNCHANGED <<catcode, catout, lost>>
     ELSE /\ Give(<<1, 0, "header">>)
          /\ \/ catphase' = "read" /\ rec' = 0 /\ UNCHANGED <<catcode, lost>>
             \/ catphase' = "read" /\ rec' = 0 /\ UNCHANGED catcode /\ Loses(<<1, 0, "header">>)
             \/ CatExit(10) /\ Loses(<<1, 0, "header">>) /\ UNCHANGED rec

WriteWhatIsThere ==
  /\ catphase = "read"
  /\ \/ /\ rec < This.samples + (IF This.tail = "data" THEN 1 ELSE 0)
        /\ rec' = rec + 1 /\ chunk' = 0
        /\ catphase' = IF dryrun THEN "read" ELSE "write"
     \/ /\ rec = This.samples + (IF This.tail = "data" THEN 1 ELSE 0)
        /\ catphase' = "open" /\ UNCHANGED <<rec, chunk>>
  /\ UNCHANGED <<files, dryrun, catcode, file, catout, lost>>

(* A record and its four chunks are read before any of them is written.     *)
(* What is short ends the file, and so does a record that cannot be read; a *)
(* chunk that cannot be read ends the program.                              *)
CatRead ==
  /\ catphase = "read"
  /\ \/ /\ rec < This.samples
        /\ rec' = rec + 1 /\ chunk' = 0
        /\ catphase' = IF dryrun THEN "read" ELSE "write"
        /\ UNCHANGED catcode
     \/ /\ rec = This.samples
        /\ IF This.tail = "baddata" THEN CatExit(8) ELSE catphase' = "open" /\ UNCHANGED catcode
        /\ UNCHANGED <<rec, chunk>>
  /\ UNCHANGED <<files, dryrun, file, catout, lost>>

(* The next piece of the sample.  A write that is short ends the program and *)
(* leaves the sample as it is, and so does one that fails unless it is that  *)
(* of the record: the chunks follow without it.                              *)
CatWrite ==
  LET piece == <<file, rec, CatChunks[chunk + 1]>>
  IN  /\ catphase = "write"
      /\ Give(piece)
      /\ \/ /\ (UNCHANGED lost \/ (CatChunks[chunk + 1] = "record" /\ Loses(piece)))
            /\ chunk' = chunk + 1
            /\ catphase' = IF chunk + 1 = Len(CatChunks) THEN "read" ELSE "write"
            /\ UNCHANGED catcode
         \/ Loses(piece) /\ CatExit(11) /\ UNCHANGED chunk
      /\ UNCHANGED <<files, dryrun, file, rec>>

CatNext == CatOpen \/ FirstHeader \/ SameAsFirst \/ CatRead \/ CatWrite

-----------------------------------------------------------------------------
(* The files that are taken: up to the first that cannot be merged.  Of one  *)
(* that cannot be read nothing is taken, and the next one follows.           *)
Fits(i) == /\ files[i].start \in {"good", "unreadable"} /\ ~Alien(i)
           /\ AsFirst(files[i])
Taken == {n \in DOMAIN files : \A i \in 1 .. n : Fits(i)}
Concatenation ==
  IF Taken = {} THEN << >>
  ELSE << <<1, 0, "header">> >> \o FlattenSeq([i \in 1 .. Cardinality(Taken) |->
         FlattenSeq([r \in 1 .. files[i].samples |->
           [c \in DOMAIN CatChunks |-> <<i, r, CatChunks[c]>>]])])

(* Only a header or a record is missing from the result without the program  *)
(* saying so (atopcat.c:146, 328); another piece that is missing is the last *)
(* one, and ends the program.                                                *)
Unnoticed == {x \in lost : x[3] \in {"header", "record"}}
LostNoticed == lost \ Unnoticed # {} => catphase = "exit" /\ catcode = 11
               /\ lost \ Unnoticed = {Last(catout)}

(* What is written is the first header, the samples that are complete and    *)
(* can be read of the files that fit it, and nothing else, in their order:   *)
(* all of them when the program succeeds or meets a file that does not fit,  *)
(* and never a piece of a sample that was cut off (atopcat.c:231-320; "stops *)
(* after the last consistent sample", man/atopcat.1).  Nothing is missing    *)
(* but a header or a record whose write failed unnoticed, and the piece at   *)
(* which a write ends the program.                                           *)
Concatenates ==
  /\ IsPrefix(catout, Concatenation)
  /\ catphase = "exit" /\ catcode \in {0, 2, 3, 4, 5} /\ ~dryrun => catout = Concatenation
  /\ dryrun => catout = << >>
  /\ LostNoticed
=============================================================================
