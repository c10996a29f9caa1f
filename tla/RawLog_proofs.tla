--------------------------- MODULE RawLog_proofs ---------------------------
(***************************************************************************)
(* The raw log for any length of the samples, any number of them, of       *)
(* writers and of kills, in and out of twin mode: the file stays well      *)
(* formed, only complete samples are shown, each command shows the sample  *)
(* it asks for, and the reader never gives up on a writer that is alive.   *)
(***************************************************************************)
EXTENDS RawLog, SequenceTheorems, TLAPS

(***************************************************************************)
(* The inductive invariant.                                                *)
(***************************************************************************)
\* The offset of a record, counted from the end of the file header.
Boundary(o) == o >= 1 /\ (o - 1) % SampleLen = 0

\* The parts of a sample are those of the sample at its first part, later samples have greater numbers.
FileInv ==
  /\ LogWhole
  /\ Size <= 1 + taken * SampleLen
  /\ \A i \in 2 .. Size :
       file[i].s \in 1 .. taken /\ i - file[i].p >= 1 /\ file[i - file[i].p + 1].s = file[i].s
  /\ \A i, j \in 1 .. Size :
       i < j => \/ file[i].s < file[j].s
                \/ file[i].s = file[j].s /\ file[j].p - file[i].p = j - i

\* The sample that is written begins where the last one ends.
WriterInv ==
  /\ wpc = "idle" => Size > 0 /\ Even
  /\ wpc \in {"write", "short"} =>
       /\ Boundary(start) /\ start <= Size /\ Size < start + SampleLen
       /\ taken > 0 /\ start + SampleLen <= 1 + taken * SampleLen
       /\ \A i \in 1 .. Size : IF i <= start THEN file[i].s < taken ELSE file[i].s = taken
  /\ wpc = "short" => "write" \in fails
  /\ wpc \in {"off", "open", "idle"} /\ kills = 0 /\ "rollback" \notin fails /\ ~ (twin /\ why # "") => Even

Reading == rpc \in {"rec", "wait", "take"}
\* The record that is read or will be read next.
Here == IF rpc \in {"wait", "take"} THEN rpos - HeadLen ELSE rpos

\* The first c places of the list l are those of records one behind the other, only the first can be
\* there twice; and o is the next.
InOrder(l, c) ==
  /\ c > 0 => l[0] = 1
  /\ \A i \in 0 .. MaxSamples + 1 : i < c =>
       /\ Boundary(l[i]) /\ l[i] >= 1 + (i - 1) * SampleLen
       /\ i > 0 => l[i] = l[i - 1] + SampleLen \/ (i = 1 /\ l[i] = 1)
IsNext(o, l, c) ==
  /\ Boundary(o)
  /\ c = 0 => o = 1
  /\ c > 0 => o = l[c - 1] + SampleLen \/ (c = 1 /\ o = 1)

\* The record that is read has its place behind those in the list, which has room for it.
ListInv ==
  /\ InOrder(off, offcur)
  /\ Reading \/ rpc = "show" => off[0] = 1 /\ Size > 0
  /\ Reading => IsNext(Here, off, offcur)
  /\ rpc \in {"wait", "take"} => Here + SampleLen <= 1 + MaxSamples * SampleLen
  /\ rpc = "show" => offcur > 0 /\ rpos = off[offcur - 1] + SampleLen /\ Boundary(rpos)
  /\ why # "" <=> rpc = "end"

\* What has been read is in the file, unless it was rolled back.
ReadInv ==
  "cut" \notin fails =>
    /\ rpc \in {"rec", "wait", "take", "show"} => rpos <= Size
    /\ rpc \in {"wait", "take"} => file[Here + 1].s = rec
    /\ rpc = "take" => rpos + DataLen <= Size
    /\ rpc = "show" => file[rpos].s = shown /\ rec = shown /\ begin = 0

\* The samples that were complete at the last command are the first ones.
SeenInv ==
  "cut" \notin fails =>
    /\ ask.seen \subseteq Samples
    /\ \A s \in ask.seen, r \in Samples : r <= s => r \in ask.seen

Later   == {s \in ask.seen : s > ask.from}
Earlier == {s \in ask.seen : s < ask.from}
Wanted  == {s \in ask.seen : s >= ask.time /\ (ask.time < ask.from \/ s > ask.from)}

\* The record that is read next is the one asked for, or in front of it.
NextInv ==
  begin = 0 /\ \/ Here > SampleLen /\ WholeAt(Here - SampleLen) /\ file[Here].s = ask.from
               \/ WholeAt(Here) /\ file[Here + 1].s = ask.from /\ Later = {}
PrevInv ==
  /\ begin = 0 /\ WholeAt(Here) /\ ask.from \in ask.seen
  /\ \/ Here = 1 /\ file[Here + 1].s = ask.from
     \/ WholeAt(Here + SampleLen) /\ file[Here + SampleLen + 1].s = ask.from
ResetInv == begin = 0 /\ Here = 1 /\ ask.seen # {}
BranchInv ==
  \/ /\ begin = ask.time
     /\ \A i \in 2 .. Size : i <= Here => file[i].s \notin Wanted
     /\ ask.time >= ask.from =>
          \/ Here = 1 /\ ask.from = 0
          \/ Here > 1 /\ file[Here].s >= ask.from
  \/ begin = 0 /\ Wanted = {} /\ WholeAt(Here) /\ \A s \in ask.seen : s <= file[Here + 1].s
  \/ begin = 0 /\ ask.seen = {} /\ Here = 1

AskInv ==
  "cut" \notin fails =>
    /\ rpc \in {"none", "fork", "first", "header"} =>
         ask.cmd = "start" /\ ask.from = 0 /\ ask.seen = {} /\ begin = ask.time
    /\ Reading =>
         CASE ask.cmd = "next"  -> NextInv
           [] ask.cmd = "prev"  -> PrevInv
           [] ask.cmd = "reset" -> ResetInv
           [] OTHER -> BranchInv

RawInv ==
  RawTypeOK /\ FileInv /\ WriterInv /\ ListInv /\ ReadInv /\ SeenInv /\ AskInv /\ Navigates

(***************************************************************************)
(* Numbers: multiples and remainders.                                      *)
(***************************************************************************)
\* A product and the next one.
LEMMA NatProduct ==
  ASSUME NEW a \in Nat, NEW b \in Nat
  PROVE  a * b \in Nat /\ (a + 1) * b = a * b + b
BY Z3

\* A product grows with its factor.
LEMMA Monotone ==
  ASSUME NEW a \in Nat, NEW b \in Nat, NEW c \in Nat, a <= b
  PROVE  a * c <= b * c
BY Z3

\* A multiple has no remainder.
LEMMA ModMult ==
  ASSUME NEW k \in Nat, NEW m \in Nat \ {0}
  PROVE  (k * m) % m = 0
BY Z3

\* An offset smaller than the modulus is the remainder.
LEMMA ModOffset ==
  ASSUME NEW a \in Nat, NEW m \in Nat \ {0}, NEW k \in 0 .. m - 1, a % m = 0
  PROVE  (a + k) % m = k
BY Z3

\* What has no remainder is a multiple.
LEMMA Multiple ==
  ASSUME NEW a \in Nat, NEW m \in Nat \ {0}, a % m = 0
  PROVE  \E q \in Nat : a = q * m
BY Z3

\* The next multiple.
LEMMA ModMore == ASSUME  NEW a \in Nat, NEW m \in Nat \ {0}, a % m = 0
  PROVE (a + m) % m = 0
<1>1. PICK q \in Nat : a = q * m
  BY Multiple
<1>2. a + m = (q + 1) * m
  BY <1>1, Z3
<1>3. ((q + 1) * m) % m = 0
  BY ModMult, Z3
<1> QED BY <1>2, <1>3

\* Two multiples are one modulus apart or more.
LEMMA ModGap ==
  ASSUME NEW a \in Nat, NEW b \in Nat,  NEW m \in Nat \ {0}, a < b, a % m = 0, b % m = 0
  PROVE  a + m <= b
<1>1. SUFFICES ASSUME b < a + m PROVE FALSE
  OBVIOUS
<1>2. b - a \in 0 .. m-1 /\ a + (b - a) = b
  BY <1>1
<1>3. (a + (b-a)) % m = b - a
  BY <1>2, ModOffset
<1> QED BY <1>2, <1>3, Z3

\* The multiple before this one, and the last offset in front of it.
LEMMA ModLast ==
  ASSUME NEW a \in Nat, NEW m \in Nat \ {0}, a % m = 0, a > 0
  PROVE  a >= m /\ (a - m) % m = 0 /\ (a - 1) % m = m - 1
<1>1. PICK q \in Nat : a = q * m
  BY Multiple
<1>2. q >= 1
  BY <1>1, Z3
<1>3. PICK r \in Nat : q = r + 1
  BY <1>2, q - 1 \in Nat
<1>4. a - m = r * m
  BY <1>1, <1>3, Z3
<1>5. a - m \in Nat
  <2>1. 0 % m = 0
    BY Z3
  <2>2. 0 + m <= a
    BY <2>1, ModGap, Z3
  <2> QED BY <2>2
<1>6. (a - m) % m = 0
  <2>1. (r * m) % m = 0
    BY ModMult
  <2> QED BY <1>4, <2>1
<1>7. a - 1 = (a - m) + (m - 1)
  OBVIOUS
<1>8. (a - 1) % m = m - 1
  <2>1. \A b \in Nat, k \in 0 .. m - 1 : b % m = 0 => (b + k) % m = k
    BY ModOffset
  <2>2. m - 1 \in 0 .. m - 1
    OBVIOUS
  <2>3. ((a - m) + (m - 1)) % m = m - 1
    BY <1>5, <1>6, <2>1, <2>2, Zenon
  <2> QED BY <1>7, <2>3
<1> QED BY <1>5, <1>6, <1>8

USE RawAssumption

(***************************************************************************)
(* Parts, records and samples.                                             *)
(***************************************************************************)
\* The lengths of a sample and of its record header.
LEMMA LenType == SampleLen \in Nat \ {0} /\ SampleLen >= 2 /\ HeadLen < SampleLen /\ SampleLen = HeadLen + DataLen
                  /\ 1 <= HeadLen
BY DEF SampleLen

\* The file as a function of the places of its parts.
LEMMA FileType ==
  ASSUME RawTypeOK
  PROVE  Size \in Nat /\ file \in [1 .. Size -> [s : 0 .. MaxSamples, p : 1 .. SampleLen]]
BY LenProperties DEF RawTypeOK, Size

\* The record behind a record.
LEMMA NextBoundary ==
  ASSUME NEW o \in Nat, Boundary(o)
  PROVE  Boundary(o + SampleLen)
<1>1. o - 1 \in Nat
  BY DEF Boundary
<1>2. \A a \in Nat, m \in Nat \ {0} : a % m = 0 => (a + m) % m = 0
  BY ModMore
<1>3. ((o - 1) + SampleLen) % SampleLen = 0
  BY <1>1, <1>2, LenType, Zenon DEF Boundary
<1>4. (o - 1) + SampleLen = (o + SampleLen) - 1
  BY LenType
<1> QED BY <1>3, <1>4, LenType DEF Boundary

\* Records are one sample apart or more.
LEMMA GapBoundary ==
  ASSUME NEW o \in Nat, NEW b \in Nat, Boundary(o), Boundary(b), o < b
  PROVE  o + SampleLen <= b
<1>1. o - 1 \in Nat /\ b - 1 \in Nat /\ o - 1 < b - 1
  BY DEF Boundary
<1>2. \A x, y \in Nat, m \in Nat \ {0} : x < y /\ x % m = 0 /\ y % m = 0 => x + m <= y
  BY ModGap
<1>3. (o - 1) + SampleLen <= b - 1
  BY <1>1, <1>2, LenType, Zenon DEF Boundary
<1> QED BY <1>3, LenType

\* The record in front of a record.
LEMMA LastBoundary ==
  ASSUME NEW o \in Nat, Boundary(o), o > 1
  PROVE  o - SampleLen >= 1 /\ Boundary(o - SampleLen) /\ (o - 2) % SampleLen = SampleLen - 1
<1>1. o - 1 \in Nat /\ o - 1 > 0
  BY DEF Boundary
<1>2. \A a \in Nat, m \in Nat \ {0} :
        a % m = 0 /\ a > 0 => a >= m /\ (a - m) % m = 0 /\ (a - 1) % m = m - 1
  BY ModLast
<1>3. o - 1 >= SampleLen /\ ((o - 1) - SampleLen) % SampleLen = 0 /\ ((o - 1) - 1) % SampleLen = SampleLen - 1
  BY <1>1, <1>2, LenType, Zenon DEF Boundary
<1>4. (o - 1) - SampleLen = (o - SampleLen) - 1 /\ (o - 1) - 1 = o - 2
  BY LenType
<1> QED BY <1>3, <1>4, LenType DEF Boundary

\* The remainder of an offset tells the part of the sample.
LEMMA InSample ==
  ASSUME NEW o \in Nat, Boundary(o), NEW k \in 0 .. SampleLen - 1
  PROVE  (o - 1 + k) % SampleLen = k
<1>1. o - 1 \in Nat
  BY DEF Boundary
<1>2. \A a \in Nat, m \in Nat \ {0} : \A j \in 0 .. m - 1 : a % m = 0 => (a + j) % m = j
  BY ModOffset
<1> QED BY <1>1, <1>2, LenType, Zenon DEF Boundary

\* The first record.
LEMMA FirstBoundary == Boundary(1) /\ 1 % SampleLen = 1
<1>1. 0 % SampleLen = 0
  BY LenType, Z3
<1>2. Boundary(1)
  BY <1>1 DEF Boundary
<1>3. (1 - 1 + 1) % SampleLen = 1
  BY <1>2, LenType, InSample
<1> QED BY <1>2, <1>3

\* The k-th part of the sample at o.
LEMMA PartAt ==
  ASSUME RawTypeOK, FileInv, NEW o \in Nat, Boundary(o), NEW k \in 1 .. SampleLen, o + k <= Size
  PROVE  file[o + k] = Part(file[o + 1].s, k)
<1>t. SampleLen \in Nat \ {0} /\ SampleLen >= 2 /\ HeadLen < SampleLen
      /\ SampleLen = HeadLen + DataLen /\ 1 <= HeadLen
  BY LenType
<1> USE <1>t
<1>1. o + k \in 2 .. Size /\ Size \in Nat /\ file[o + k] \in [s : 0 .. MaxSamples, p : 1 .. SampleLen]
  <2>1. o >= 1
    BY DEF Boundary
  <2>2. Size \in Nat /\ file \in [1 .. Size -> [s : 0 .. MaxSamples, p : 1 .. SampleLen]]
    BY FileType
  <2> QED BY <2>1, <2>2
<1>2. file[o + k].p = (((o + k) - 2) % SampleLen) + 1
  BY <1>1 DEF FileInv, LogWhole
<1>3. (o - 1 + (k - 1)) % SampleLen = k - 1
  BY InSample
<1>4. (o + k) - 2 = o - 1 + (k - 1)
  OBVIOUS
<1>5. file[o + k].p = k
  BY <1>2, <1>3, <1>4
<1>6. (o + k) - k + 1 = o + 1
  OBVIOUS
<1>7. file[o + k].s = file[o + 1].s
  BY <1>1, <1>5, <1>6 DEF FileInv
<1> QED BY <1>1, <1>5, <1>7 DEF Part

\* The sample at a record's offset is complete when the file is long enough.
LEMMA Whole ==
  ASSUME RawTypeOK, FileInv, NEW o \in Nat, Boundary(o), o + SampleLen <= Size
  PROVE  WholeAt(o)
<1>1. Size \in Nat
  BY FileType
<1> QED BY <1>1, PartAt, LenType DEF WholeAt

\* A complete sample is at a record's offset.
LEMMA WholeBoundary ==
  ASSUME RawTypeOK, FileInv, NEW o \in Nat, o >= 1, WholeAt(o)
  PROVE  Boundary(o)
<1>1. Size \in Nat /\ o + 1 \in 2 .. Size
  BY LenType, FileType DEF WholeAt
<1>2. file[o + 1] = Part(file[o + 1].s, 1)
  BY LenType DEF WholeAt
<1>3. file[o + 1].p = 1
  BY <1>2 DEF Part
<1>4. file[o + 1].p = ((o + 1 - 2) % SampleLen) + 1
  BY <1>1 DEF FileInv, LogWhole
<1>5. o + 1 - 2 = o - 1
  OBVIOUS
<1>6. (o - 1) % SampleLen \in Int
  BY LenType, Z3
<1>7. (o - 1) % SampleLen = 0
  BY <1>3, <1>4, <1>5, <1>6
<1> QED BY <1>7 DEF Boundary

\* Later records have greater numbers.
LEMMA Ascending ==
  ASSUME RawTypeOK, FileInv, NEW o \in Nat, NEW b \in Nat, Boundary(o), Boundary(b), o < b, b < Size
  PROVE  file[o + 1].s < file[b + 1].s
<1>1. Size \in Nat /\ o >= 1 /\ o + 1 \in 1 .. Size /\ b + 1 \in 1 .. Size
  BY LenType, FileType DEF Boundary
<1>2. file[o + 1].p = 1 /\ file[b + 1].p = 1
  <2>1. file[o + 1] = Part(file[o + 1].s, 1) /\ file[b + 1] = Part(file[b + 1].s, 1)
    BY <1>1, PartAt, LenType
  <2> QED BY <2>1 DEF Part
<1> QED BY <1>1, <1>2 DEF FileInv

(***************************************************************************)
(* The writer.                                                             *)
(***************************************************************************)
\* writev() appends the next part (Writev).
LEMMA Appended ==
  ASSUME RawTypeOK, WriterInv, Writev
  PROVE  /\ Size' = Size + 1
         /\ \A i \in 1 .. Size : file'[i] = file[i]
         /\ file'[Size + 1] = [s |-> taken, p |-> Size - start + 1]
         /\ file' \in Seq([s : 0 .. MaxSamples, p : 1 .. SampleLen])
<1> DEFINE e == [s |-> taken, p |-> Size - start + 1]
<1>1. start \in Nat /\ taken \in 0 .. MaxSamples /\ start <= Size /\ Size < start + SampleLen
  BY DEF RawTypeOK, WriterInv, Writev
<1>2. e \in [s : 0 .. MaxSamples, p : 1 .. SampleLen]
  BY <1>1, FileType, LenType
<1>3. file' = Append(file, e)
  BY DEF Writev, Part
<1> HIDE DEF e
<1>4. file \in Seq([s : 0 .. MaxSamples, p : 1 .. SampleLen])
  BY DEF RawTypeOK
<1>5. Append(file, e)[Len(file) + 1] = e /\ Len(Append(file, e)) = Len(file) + 1
  BY <1>2, <1>4, AppendProperties
<1>6. \A i \in 1 .. Len(file) : Append(file, e)[i] = file[i]
  BY <1>2, <1>4, AppendProperties
<1>7. Append(file, e) \in Seq([s : 0 .. MaxSamples, p : 1 .. SampleLen])
  BY <1>2, <1>4, AppendProperties
<1> QED BY <1>3, <1>5, <1>6, <1>7 DEF Size, e

\* ftruncate() keeps the parts in front (RollBack).
LEMMA Shortened ==
  ASSUME RawTypeOK, NEW n \in 1 .. Size, file' = SubSeq(file, 1, n)
  PROVE  /\ Size' = n
         /\ \A i \in 1 .. n : file'[i] = file[i]
         /\ file' \in Seq([s : 0 .. MaxSamples, p : 1 .. SampleLen])
<1>1. \A i \in 1 .. n : file[i] \in [s : 0 .. MaxSamples, p : 1 .. SampleLen]
  BY FileType
<1>2. n \in Int /\ 1 <= n
  BY FileType
<1>3. SubSeq(file, 1, n) \in Seq([s : 0 .. MaxSamples, p : 1 .. SampleLen])
  BY <1>1, <1>2, SubSeqProperties
<1>4. Len(SubSeq(file, 1, n)) = n - 1 + 1
  BY <1>1, <1>2, SubSeqProperties
<1>5. \A i \in 1 .. n - 1 + 1 : SubSeq(file, 1, n)[i] = file[1 + i - 1]
  BY <1>1, <1>2, SubSeqProperties
<1> QED BY <1>2, <1>3, <1>4, <1>5 DEF Size

\* What is left of the file is what was there.
LEMMA FileShortened ==
  ASSUME RawTypeOK, FileInv, NEW n \in 1 .. Size, Size' = n, \A i \in 1 .. n : file'[i] = file[i],
         n <= 1 + taken' * SampleLen, taken' = taken
  PROVE  FileInv'
<1>t. /\ Size \in Nat /\ file \in [1 .. Size -> [s : 0 .. MaxSamples, p : 1 .. SampleLen]]
      /\ SampleLen \in Nat \ {0} /\ SampleLen >= 2 /\ HeadLen < SampleLen
      /\ SampleLen = HeadLen + DataLen /\ 1 <= HeadLen
  BY FileType, LenType
<1> USE <1>t
<1>1. LogWhole'
  <2> SUFFICES ASSUME NEW i \in 1 .. n
               PROVE  /\ i = 1 <=> file'[i] = Header
                      /\ i > 1 => /\ file'[i].p = ((i - 2) % SampleLen) + 1
                                  /\ i < n => \/ /\ file'[i + 1].s = file'[i].s
                                                /\ file'[i].p < SampleLen
                                             \/ /\ file'[i + 1].s > file'[i].s
                                                /\ file'[i].p = SampleLen
    BY DEF LogWhole
  <2>1. i \in 1 .. Size /\ file'[i] = file[i] /\ (i < n => i < Size /\ file'[i + 1] = file[i + 1])
    OBVIOUS
  <2> QED BY <2>1 DEF FileInv, LogWhole
<1>2. \A i \in 2 .. Size' : file'[i].s \in 1 .. taken' /\ i - file'[i].p >= 1
  <2> TAKE i \in 2 .. Size'
  <2>1. i \in 2 .. Size /\ file'[i] = file[i]
    OBVIOUS
  <2>2. file[i].s \in 1 .. taken /\ i - file[i].p >= 1
    BY <2>1 DEF FileInv
  <2> QED BY <2>1, <2>2
<1>3. \A i \in 2 .. Size' : file'[i - file'[i].p + 1].s = file'[i].s
  <2> TAKE i \in 2 .. Size'
  <2>1. i \in 2 .. Size /\ file'[i] = file[i] /\ file[i].p \in 1 .. SampleLen /\ i - file[i].p >= 1
    BY DEF FileInv
  <2>2. i - file[i].p + 1 \in 1 .. n
    BY <2>1, SMTT(30)
  <2> QED BY <2>1, <2>2 DEF FileInv
<1>4. \A i, j \in 1 .. Size' :
        i < j => \/ file'[i].s < file'[j].s
                 \/ file'[i].s = file'[j].s /\ file'[j].p - file'[i].p = j - i
  <2> TAKE i, j \in 1 .. Size'
  <2> HAVE i < j
  <2>1. i \in 1 .. Size /\ j \in 1 .. Size /\ file'[i] = file[i] /\ file'[j] = file[j]
    OBVIOUS
  <2>2. \/ file[i].s < file[j].s
        \/ file[i].s = file[j].s /\ file[j].p - file[i].p = j - i
    BY <2>1 DEF FileInv
  <2> QED BY <2>1, <2>2
<1> QED BY <1>1, <1>2, <1>3, <1>4 DEF FileInv

\* writev() keeps the file well formed: the next part of the sample that is written is the one
\* that belongs there.
LEMMA FileAppended ==
  ASSUME RawTypeOK, FileInv, WriterInv, Writev
  PROVE  FileInv'
<1>t. /\ Size \in Nat /\ file \in [1 .. Size -> [s : 0 .. MaxSamples, p : 1 .. SampleLen]]
      /\ SampleLen \in Nat \ {0} /\ SampleLen >= 2 /\ HeadLen < SampleLen
      /\ SampleLen = HeadLen + DataLen /\ 1 <= HeadLen
  BY FileType, LenType
<1> USE <1>t
<1> DEFINE k == Size - start
<1>1. /\ start \in Nat /\ start >= 1 /\ taken \in 1 .. MaxSamples /\ taken' = taken
      /\ k \in 0 .. SampleLen - 1 /\ Size = start + k /\ Boundary(start)
      /\ start + SampleLen <= 1 + taken * SampleLen
      /\ \A i \in 1 .. Size : IF i <= start THEN file[i].s < taken ELSE file[i].s = taken
  <2>1. /\ Boundary(start) /\ start <= Size /\ Size < start + SampleLen /\ taken > 0
        /\ start + SampleLen <= 1 + taken * SampleLen
        /\ \A i \in 1 .. Size : IF i <= start THEN file[i].s < taken ELSE file[i].s = taken
    BY DEF WriterInv, Writev
  <2>2. start \in Nat /\ taken \in 0 .. MaxSamples /\ taken' = taken
    BY DEF RawTypeOK, Writev, writer
  <2>3. start >= 1
    BY <2>1 DEF Boundary
  <2>4. k \in 0 .. SampleLen - 1 /\ Size = start + k
    BY <2>1, <2>2
  <2> HIDE DEF k
  <2> QED BY <2>1, <2>2, <2>3, <2>4
<1>2. /\ Size' = Size + 1
      /\ \A i \in 1 .. Size : file'[i] = file[i]
      /\ file'[Size + 1].s = taken /\ file'[Size + 1].p = k + 1
  BY Appended
<1> HIDE DEF k
<1>3. (Size - 1) % SampleLen = k /\ Size - 1 \in Nat
  <2>1. (start - 1 + k) % SampleLen = k
    BY <1>1, InSample
  <2>2. start - 1 + k = Size - 1 /\ Size - 1 \in Nat
    BY <1>1
  <2> QED BY <2>1, <2>2
<1>4. \A i \in 1 .. Size : i > start => file[i].p = i - start
  <2> TAKE i \in 1 .. Size
  <2> HAVE i > start
  <2>1. i - start \in 1 .. SampleLen /\ start + (i - start) = i
    BY <1>1
  <2>2. file[start + (i - start)] = Part(file[start + 1].s, i - start)
    BY <1>1, <2>1, PartAt
  <2> QED BY <2>1, <2>2 DEF Part
<1>5. start > 1 => file[start].p = SampleLen
  <2> HAVE start > 1
  <2>1. (start - 2) % SampleLen = SampleLen - 1
    BY <1>1, LastBoundary
  <2>2. file[start].p = ((start - 2) % SampleLen) + 1
    BY <1>1 DEF FileInv, LogWhole
  <2> QED BY <2>1, <2>2
<1>6. LogWhole'
  <2> SUFFICES ASSUME NEW i \in 1 .. Size'
               PROVE  /\ i = 1 <=> file'[i] = Header
                      /\ i > 1 => /\ file'[i].p = ((i - 2) % SampleLen) + 1
                                  /\ i < Size' => \/ /\ file'[i + 1].s = file'[i].s
                                                     /\ file'[i].p < SampleLen
                                                  \/ /\ file'[i + 1].s > file'[i].s
                                                     /\ file'[i].p = SampleLen
    BY DEF LogWhole
  <2>1. CASE i = Size + 1
    <3>1. Size + 1 - 2 = Size - 1
      OBVIOUS
    <3>2. i # 1 /\ file'[i] # Header
      BY <1>1, <1>2, <1>3, <2>1 DEF Header
    <3> QED BY <1>1, <1>2, <1>3, <2>1, <3>1, <3>2, SMTT(30)
  <2>2. CASE i \in 1 .. Size /\ i # Size
    <3>1. i + 1 \in 1 .. Size /\ i < Size /\ file'[i] = file[i] /\ file'[i + 1] = file[i + 1]
      BY <1>2, <2>2
    <3> QED BY <2>2, <3>1 DEF FileInv, LogWhole
  <2>3. CASE i = Size
    <3>1. i \in 1 .. Size /\ file'[i] = file[i]
      BY <1>2, <1>3, <2>3
    <3>2. CASE Size = start
      <4>1. i > 1 => file[i].s < taken /\ file[i].p = SampleLen
        <5>1. i <= start /\ i \in 1 .. Size
          BY <1>1, <2>3, <3>1, <3>2
        <5>2. file[i].s < taken
          BY <1>1, <5>1
        <5> QED BY <1>1, <1>5, <2>3, <3>2, <5>2
      <4> QED BY <1>1, <1>2, <2>3, <3>1, <4>1, ZenonT(60) DEF FileInv, LogWhole
    <3>3. CASE Size > start
      <4>1. file[i].s = taken /\ file[i].p = k /\ k < SampleLen
        BY <1>1, <1>4, <2>3, <3>1, <3>3
      <4> QED BY <1>1, <1>2, <2>3, <3>1, <4>1, SMTT(30) DEF FileInv, LogWhole
    <3> QED BY <1>1, <3>2, <3>3
  <2> QED BY <1>2, <1>3, <2>1, <2>2, <2>3
<1>7. Size' <= 1 + taken' * SampleLen
  <2> DEFINE a == taken * SampleLen
  <2>1. a \in Nat /\ Size \in Nat /\ start \in Nat /\ SampleLen \in Nat
    BY <1>1
  <2>2. Size < start + SampleLen /\ start + SampleLen <= 1 + a
    BY <1>1
  <2>3. Size' = Size + 1 /\ taken' * SampleLen = a
    BY <1>1, <1>2
  <2> HIDE DEF a
  <2>4. Size + 1 <= 1 + a
    BY <2>1, <2>2
  <2> QED BY <2>3, <2>4
<1>8. \A i \in 2 .. Size' : file'[i].s \in 1 .. taken' /\ i - file'[i].p >= 1
  <2> TAKE i \in 2 .. Size'
  <2>1. CASE i \in 2 .. Size
    <3>1. file[i].s \in 1 .. taken /\ i - file[i].p >= 1
      BY <2>1 DEF FileInv
    <3>2. file'[i] = file[i]
      BY <1>2, <2>1
    <3> QED BY <1>1, <3>1, <3>2
  <2>2. CASE i = Size + 1
    BY <1>1, <1>2, <2>2, SMTT(30)
  <2> QED BY <1>2, <2>1, <2>2
<1>9. \A i \in 2 .. Size' : file'[i - file'[i].p + 1].s = file'[i].s
  <2> TAKE i \in 2 .. Size'
  <2>1. CASE i \in 2 .. Size
    <3>1. file'[i] = file[i] /\ file[i].p \in 1 .. SampleLen
      BY <1>2, <2>1
    <3>3. i - file[i].p >= 1 /\ file[i - file[i].p + 1].s = file[i].s
      BY <2>1 DEF FileInv
    <3>2. i - file[i].p + 1 \in 1 .. Size
      BY <2>1, <3>1, <3>3, SMTT(30)
    <3> QED BY <1>2, <3>1, <3>2, <3>3
  <2>2. CASE i = Size + 1
    <3>1. i - file'[i].p + 1 = start + 1
      BY <1>1, <1>2, <2>2, SMTT(30)
    <3>2. file'[start + 1].s = taken
      <4>1. CASE k = 0
        BY <1>1, <1>2, <4>1
      <4>2. CASE k > 0
        <5>1. start + 1 \in 1 .. Size /\ ~ (start + 1 <= start)
          BY <1>1, <4>2
        <5> QED BY <1>1, <1>2, <5>1
      <4> QED BY <1>1, <4>1, <4>2
    <3> QED BY <1>2, <2>2, <3>1, <3>2
  <2> QED BY <1>2, <2>1, <2>2
<1>10. \A i, j \in 1 .. Size' :
        i < j => \/ file'[i].s < file'[j].s
                 \/ file'[i].s = file'[j].s /\ file'[j].p - file'[i].p = j - i
  <2> TAKE i, j \in 1 .. Size'
  <2> HAVE i < j
  <2>1. CASE j \in 1 .. Size
    <3>1. i \in 1 .. Size /\ file'[i] = file[i] /\ file'[j] = file[j]
      BY <1>2, <2>1
    <3>2. \/ file[i].s < file[j].s
          \/ file[i].s = file[j].s /\ file[j].p - file[i].p = j - i
      BY <2>1, <3>1 DEF FileInv
    <3> QED BY <3>1, <3>2
  <2>2. CASE j = Size + 1
    <3>1. i \in 1 .. Size /\ file'[i] = file[i]
      BY <1>2, <2>2
    <3>2. CASE i <= start
      <4>1. file[i].s < taken
        BY <1>1, <3>1, <3>2
      <4> QED BY <1>2, <2>2, <3>1, <4>1
    <3>3. CASE i > start
      <4>1. file[i].s = taken /\ file[i].p = i - start
        BY <1>1, <1>4, <3>1, <3>3
      <4>2. file'[j].p - file'[i].p = j - i
        BY <1>1, <1>2, <2>2, <3>1, <4>1
      <4> QED BY <1>2, <2>2, <3>1, <4>1, <4>2
    <3>4. i <= start \/ i > start
      BY <1>1, <3>1
    <3> QED BY <3>2, <3>3, <3>4
  <2>3. j \in 1 .. Size \/ j = Size + 1
    BY <1>2, SMTT(30)
  <2> QED BY <2>1, <2>2, <2>3
<1> QED BY <1>6, <1>7, <1>8, <1>9, <1>10 DEF FileInv

\* The types of the numbers.
LEMMA StateType ==
  ASSUME RawTypeOK
  PROVE  /\ taken \in Nat /\ taken <= MaxSamples /\ start \in Nat
         /\ rpos \in Nat /\ offcur \in Nat /\ offcur <= MaxSamples + 1 /\ MaxSamples \in Nat
         /\ rec \in Nat /\ begin \in Nat /\ taken * SampleLen \in Nat
         /\ off \in [0 .. MaxSamples + 1 -> Nat]
<1>1. /\ taken \in 0 .. MaxSamples /\ start \in Nat /\ rpos \in Nat
      /\ offcur \in 0 .. MaxSamples + 1 /\ rec \in 0 .. MaxSamples /\ begin \in 0 .. Far
      /\ off \in [0 .. MaxSamples + 1 -> Nat]
  BY DEF RawTypeOK
<1>2. MaxSamples \in Nat
  OBVIOUS
<1>3. taken \in Nat
  BY <1>1, <1>2
<1>4. taken * SampleLen \in Nat
  BY <1>3, LenType, NatProduct
<1> QED BY <1>1, <1>2, <1>3, <1>4 DEF Far

\* A step that leaves the file alone.
LEMMA FileSame ==
  ASSUME RawTypeOK, FileInv, file' = file, taken' = taken
  PROVE  FileInv' /\ file' \in Seq([s : 0 .. MaxSamples, p : 1 .. SampleLen])
<1>1. file \in Seq([s : 0 .. MaxSamples, p : 1 .. SampleLen])
  BY DEF RawTypeOK
<1> QED BY <1>1 DEF FileInv, LogWhole, Size

\* The first part of a new file.
LEMMA FileCreated ==
  ASSUME RawTypeOK, file' = <<Header>>, taken' = taken
  PROVE  FileInv' /\ Size' = 1 /\ file' \in Seq([s : 0 .. MaxSamples, p : 1 .. SampleLen])
<1>t. SampleLen \in Nat \ {0} /\ SampleLen >= 2 /\ HeadLen < SampleLen
      /\ SampleLen = HeadLen + DataLen /\ 1 <= HeadLen
  BY LenType
<1> USE <1>t
<1>1. Size' = 1 /\ file'[1] = Header /\ Header \in [s : 0 .. MaxSamples, p : 1 .. SampleLen]
  BY DEF Size, Header
<1>2. file' \in Seq([s : 0 .. MaxSamples, p : 1 .. SampleLen])
  BY <1>1
<1>3. LogWhole'
  BY <1>1 DEF LogWhole
<1>4. taken' * SampleLen \in Nat
  BY StateType
<1> QED BY <1>1, <1>2, <1>3, <1>4 DEF FileInv

\* Every step of the writer keeps the file well formed.
LEMMA FileKept ==
  ASSUME RawTypeOK, FileInv, WriterInv, Writer
  PROVE  FileInv' /\ file' \in Seq([s : 0 .. MaxSamples, p : 1 .. SampleLen])
<1> USE DEF writer
<1>1. CASE Open
  <2>1. CASE file' = <<Header>>
    BY <1>1, <2>1, FileCreated DEF Open
  <2>2. CASE file' = file
    BY <1>1, <2>2, FileSame DEF Open
  <2> QED BY <1>1, <2>1, <2>2 DEF Open
<1>2. CASE RawWrite
  <2>1. taken' = taken + 1 /\ file' = file /\ taken \in Nat
    BY <1>2, StateType DEF RawWrite
  <2>2. /\ (taken + 1) * SampleLen = taken * SampleLen + SampleLen
        /\ taken * SampleLen \in Nat
    BY <2>1, LenType, NatProduct
  <2>3. Size' <= 1 + taken' * SampleLen
    BY <2>1, <2>2, LenType, FileType DEF FileInv, Size
  <2>4. \A i \in 2 .. Size : file[i].s \in 1 .. taken => file[i].s \in 1 .. taken'
    BY <2>1
  <2> QED BY <2>1, <2>3, <2>4, ZenonT(60) DEF RawTypeOK, FileInv, LogWhole, Size
<1>3. CASE Writev
  BY <1>3, FileAppended, Appended
<1>4. CASE RollBack
  <2>1. CASE file' = SubSeq(file, 1, start)
    <3>1. start \in 1 .. Size /\ taken' = taken
      BY <1>4, FileType, StateType DEF RollBack, WriterInv, Boundary
    <3>2. taken * SampleLen \in Nat /\ Size <= 1 + taken * SampleLen
      BY StateType DEF FileInv
    <3>3. start <= 1 + taken' * SampleLen
      BY <3>1, <3>2, FileType
    <3>4. /\ Size' = start /\ \A i \in 1 .. start : file'[i] = file[i]
          /\ file' \in Seq([s : 0 .. MaxSamples, p : 1 .. SampleLen])
      BY <2>1, <3>1, Shortened
    <3> QED BY <3>1, <3>3, <3>4, FileShortened
  <2>2. CASE file' = file
    BY <1>4, <2>2, FileSame DEF RollBack
  <2> QED BY <1>4, <2>1, <2>2 DEF RollBack
<1>5. CASE WritevFails \/ WriterEnds \/ WriterKill \/ WriterStart
  BY <1>5, FileSame DEF WritevFails, WriterEnds, WriterKill, WriterStart
<1> QED BY <1>1, <1>2, <1>3, <1>4, <1>5 DEF Writer, WriterStep

\* Every step of the writer keeps it at the end of the last sample, as long as nothing fails.
LEMMA WriterKept ==
  ASSUME RawTypeOK, FileInv, WriterInv, Writer
  PROVE  WriterInv'
<1>t. /\ SampleLen \in Nat \ {0} /\ Size \in Nat /\ taken \in Nat /\ start \in Nat
      /\ taken * SampleLen \in Nat
  BY LenType, FileType, StateType
<1> USE <1>t DEF writer, reader
<1>0. twin' = twin /\ why' = why
  BY DEF Writer
<1>1. CASE Open
  <2>1. CASE file' = <<Header>> /\ wpc' = "idle"
    <3>1. Size' = 1 /\ Even'
      BY <2>1, FirstBoundary DEF Even, Size, Boundary
    <3>2. wpc' = "idle" /\ Size' > 0
      BY <2>1, <3>1
    <3> QED BY <3>1, <3>2 DEF WriterInv
  <2>2. CASE file' = file /\ wpc' = (IF Even THEN "idle" ELSE "off") /\ Size > 0
    <3>1. Size' = Size /\ Even' = Even /\ wpc = "open"
      BY <1>1, <2>2 DEF Size, Even, Open
    <3>2. fails' = fails /\ kills' = kills
      BY <1>1 DEF Open
    <3> QED BY <1>0, <2>2, <3>1, <3>2 DEF WriterInv
  <2> QED BY <1>1, <2>1, <2>2 DEF Open
<1>2. CASE RawWrite
  <2>1. /\ taken' = taken + 1 /\ file' = file /\ start' = Size /\ wpc' = "write" /\ wpc = "idle"
        /\ Size' = Size
    BY <1>2 DEF RawWrite, Size
  <2>2. Boundary(Size) /\ Size > 0
    <3>1. Size > 0 /\ Even
      BY <2>1 DEF WriterInv
    <3> QED BY <3>1 DEF Even, Boundary
  <2>3. (taken + 1) * SampleLen = taken * SampleLen + SampleLen /\ Size <= 1 + taken * SampleLen
    BY NatProduct DEF FileInv
  <2>4. start' + SampleLen <= 1 + taken' * SampleLen
    <3>1. Size + SampleLen <= 1 + (taken + 1) * SampleLen
      BY <2>3
    <3> QED BY <2>1, <3>1
  <2>5. Boundary(start)'
    BY <2>1, <2>2 DEF Boundary
  <2>6. \A i \in 1 .. Size : file[i].s < taken + 1
    <3> TAKE i \in 1 .. Size
    <3>1. i = 1 => file[i].s = 0
      BY DEF FileInv, LogWhole, Header
    <3>2. i > 1 => file[i].s \in 1 .. taken
      BY DEF FileInv
    <3>3. i = 1 \/ i > 1
      OBVIOUS
    <3> QED BY <3>1, <3>2, <3>3
  <2>7. \A i \in 1 .. Size' : IF i <= start' THEN file'[i].s < taken' ELSE file'[i].s = taken'
    BY <2>1, <2>6
  <2>8. start' <= Size' /\ Size' < start' + SampleLen /\ taken' > 0
    BY <2>1
  <2> QED BY <2>1, <2>4, <2>5, <2>7, <2>8 DEF WriterInv
<1>3. CASE Writev
  <2>1. /\ Boundary(start) /\ start <= Size /\ Size < start + SampleLen /\ taken > 0
        /\ start + SampleLen <= 1 + taken * SampleLen
        /\ \A i \in 1 .. Size : IF i <= start THEN file[i].s < taken ELSE file[i].s = taken
    BY <1>3 DEF WriterInv, Writev
  <2>2. /\ Size' = Size + 1 /\ file'[Size + 1].s = taken
        /\ \A i \in 1 .. Size : file'[i] = file[i]
    BY <1>3, Appended
  <2>3. start' = start /\ taken' = taken /\ fails' = fails /\ kills' = kills
    BY <1>3 DEF Writev
  <2>4. CASE Size + 1 = start + SampleLen
    <3>1. wpc' = "idle"
      BY <1>3, <2>4 DEF Writev
    <3>2. Boundary(start + SampleLen)
      BY <2>1, NextBoundary
    <3>3. Size' > 0 /\ Even'
      BY <2>2, <2>4, <3>2 DEF Even, Boundary
    <3> QED BY <3>1, <3>3 DEF WriterInv
  <2>5. CASE Size + 1 # start + SampleLen
    <3>1. wpc' = "write"
      BY <1>3, <2>5 DEF Writev
    <3>2. Size' < start' + SampleLen /\ start' <= Size'
      BY <2>1, <2>2, <2>3, <2>5
    <3>3. \A i \in 1 .. Size' : IF i <= start' THEN file'[i].s < taken' ELSE file'[i].s = taken'
      <4> TAKE i \in 1 .. Size'
      <4>1. CASE i \in 1 .. Size
        BY <2>1, <2>2, <2>3, <4>1
      <4>2. CASE i = Size + 1
        BY <2>1, <2>2, <2>3, <4>2
      <4> QED BY <2>2, <4>1, <4>2
    <3>4. Boundary(start)'
      BY <2>1, <2>3 DEF Boundary
    <3> QED BY <2>1, <2>3, <3>1, <3>2, <3>3, <3>4 DEF WriterInv
  <2> QED BY <2>4, <2>5
<1>4. CASE WritevFails
  <2>1. /\ file' = file /\ Size' = Size /\ start' = start /\ taken' = taken /\ wpc = "write"
        /\ fails' = fails \cup {"write"}
    BY <1>4 DEF WritevFails, Size
  <2>2. CASE Size = start
    <3>1. wpc' = "idle" /\ Boundary(start)
      BY <1>4, <2>1, <2>2 DEF WritevFails, WriterInv
    <3>2. Size' > 0 /\ Even'
      BY <2>1, <2>2, <3>1 DEF Even, Boundary
    <3> QED BY <3>1, <3>2 DEF WriterInv
  <2>3. CASE Size # start
    <3>1. wpc' = "short"
      BY <1>4, <2>3 DEF WritevFails
    <3>2. Boundary(start)' <=> Boundary(start)
      BY <2>1 DEF Boundary
    <3> QED BY <2>1, <3>1, <3>2 DEF WriterInv
  <2> QED BY <2>2, <2>3
<1>5. CASE RollBack
  <2>1. wpc = "short" /\ wpc' = "off" /\ Boundary(start) /\ start \in 1 .. Size
    BY <1>5 DEF RollBack, WriterInv, Boundary
  <2>2. CASE file' = SubSeq(file, 1, start)
    <3>1. Size' = start
      BY <2>1, <2>2, Shortened
    <3>2. Even'
      BY <2>1, <3>1 DEF Even, Boundary
    <3> QED BY <2>1, <3>2 DEF WriterInv
  <2>3. CASE fails' = fails \cup {"rollback"}
    BY <2>1, <2>3 DEF WriterInv
  <2> QED BY <1>5, <2>2, <2>3 DEF RollBack
<1>6. CASE WriterEnds
  <2>1. wpc = "idle" /\ wpc' = "off" /\ file' = file /\ Size' = Size
    BY <1>6 DEF WriterEnds, Size
  <2>2. Even' = Even
    BY <2>1 DEF Even
  <2> QED BY <2>1, <2>2 DEF WriterInv
<1>7. CASE WriterKill
  <2>1. wpc' = "off" /\ kills' = kills + 1 /\ kills \in Nat
    <3>1. kills \in 0 .. MaxKills
      BY DEF RawTypeOK
    <3> QED BY <1>7, <3>1 DEF WriterKill
  <2>2. kills' # 0
    BY <2>1
  <2> QED BY <2>1, <2>2 DEF WriterInv
<1>8. CASE WriterStart
  <2>1. /\ wpc = "off" /\ wpc' = "open" /\ file' = file /\ Size' = Size
        /\ kills' = kills /\ fails' = fails
    BY <1>8 DEF WriterStart, Size
  <2>2. Even' = Even
    BY <2>1 DEF Even
  <2> QED BY <1>0, <2>1, <2>2 DEF WriterInv
<1> QED BY <1>1, <1>2, <1>3, <1>4, <1>5, <1>6, <1>7, <1>8 DEF Writer, WriterStep

(***************************************************************************)
(* What the writer and the reader leave of each other's state.             *)
(***************************************************************************)
\* The file in steps of the reader, and when the reader ends in twin mode.
LEMMA WriterSame ==
  ASSUME RawTypeOK, FileInv, WriterInv, ListInv, Reader
  PROVE  FileInv' /\ WriterInv' /\ file' = file
<1> USE DEF ReaderStep, Command, Ask, Ends, Registered, Pauses, Rewind, reader, writer
<1>1. file' = file /\ taken' = taken /\ start' = start /\ fails' = fails /\ kills' = kills /\ twin' = twin
  BY DEF Reader, Watch, AwaitFirst, ReadHeader, GetRawRec, AtEnd, Torn, Complete, GiveUp, Take,
         Triggered, ReaderStart, NextSample, Prev, Reset, Branch, Resume, Pause, Quit
<1>2. (wpc' = wpc /\ why' = why) \/ (why' # "" /\ wpc' = IF twin THEN "off" ELSE wpc)
  BY DEF Reader, Watch, AwaitFirst, ReadHeader, GetRawRec, AtEnd, Torn, Complete, GiveUp, Take,
         Triggered, ReaderStart, NextSample, Prev, Reset, Branch, Resume, Pause, Quit
<1>3. FileInv'
  BY <1>1, FileSame
<1>4. Size' = Size /\ Even' = Even /\ Boundary(start)' = Boundary(start)
  BY <1>1 DEF Size, Even, Boundary
<1>5. WriterInv'
  BY <1>1, <1>2, <1>4 DEF WriterInv
<1> QED BY <1>1, <1>3, <1>5

\* What a step of the writer leaves of the file.
LEMMA WriterExtends ==
  ASSUME RawTypeOK, FileInv, WriterInv, Writer
  PROVE  /\ Size' \in Nat /\ (Size > 0 => Size' > 0)
         /\ fails \subseteq fails'
         /\ \A i \in 1 .. Size : i <= Size' => file'[i] = file[i]
         /\ "cut" \notin fails' /\ rpos <= Size => rpos <= Size'
         /\ \A o \in Nat : Boundary(o) /\ o + SampleLen <= Size => o + SampleLen <= Size'
         /\ twin' = twin /\ rpc' = rpc /\ UNCHANGED reader
<1>t. /\ SampleLen \in Nat \ {0} /\ Size \in Nat /\ taken \in Nat /\ start \in Nat /\ rpos \in Nat
  BY LenType, FileType, StateType
<1> USE <1>t DEF writer
<1>0. twin' = twin /\ rpc' = rpc /\ UNCHANGED reader
  BY DEF Writer
<1>1. CASE file' = file
  <2>1. Size' = Size
    BY <1>1 DEF Size
  <2>2. fails \subseteq fails'
    BY <1>1 DEF Writer, WriterStep, Open, RawWrite, Writev, RollBack, WritevFails, WriterEnds,
                WriterKill, WriterStart
  <2> QED BY <1>0, <1>1, <2>1, <2>2
<1>2. CASE Open /\ file' = <<Header>> /\ Size = 0
  <2>1. Size' = 1 /\ fails' = fails
    BY <1>2 DEF Size, Open
  <2> QED BY <1>0, <1>2, <2>1
<1>3. CASE Writev
  <2>1. Size' = Size + 1 /\ \A i \in 1 .. Size : file'[i] = file[i]
    BY <1>3, Appended
  <2>2. fails' = fails
    BY <1>3 DEF Writev
  <2> QED BY <1>0, <2>1, <2>2
<1>4. CASE /\ RollBack /\ file' = SubSeq(file, 1, start)
           /\ fails' = IF rpos > start THEN fails \cup {"cut"} ELSE fails
  <2>1. Boundary(start) /\ start \in 1 .. Size /\ Size < start + SampleLen
    BY <1>4 DEF RollBack, WriterInv, Boundary
  <2>2. Size' = start /\ \A i \in 1 .. start : file'[i] = file[i]
    BY <1>4, <2>1, Shortened
  <2>3. fails \subseteq fails' /\ (rpos > start => "cut" \in fails')
    BY <1>4
  <2>4. \A o \in Nat : Boundary(o) /\ o + SampleLen <= Size => o + SampleLen <= Size'
    <3> TAKE o \in Nat
    <3> HAVE Boundary(o) /\ o + SampleLen <= Size
    <3>1. o < start
      BY <2>1
    <3> QED BY <2>1, <2>2, <3>1, GapBoundary
  <2> QED BY <1>0, <2>1, <2>2, <2>3, <2>4
<1>5. \/ file' = file \/ (Open /\ file' = <<Header>> /\ Size = 0) \/ Writev
      \/ /\ RollBack /\ file' = SubSeq(file, 1, start)
         /\ fails' = IF rpos > start THEN fails \cup {"cut"} ELSE fails
  BY DEF Writer, WriterStep, Open, RawWrite, Writev, RollBack, WritevFails, WriterEnds,
         WriterKill, WriterStart
<1> QED BY <1>1, <1>2, <1>3, <1>4, <1>5

\* The samples that are complete stay so.
LEMMA WholeStays ==
  ASSUME RawTypeOK, FileInv, WriterInv, Writer, NEW o \in Nat, o >= 1, WholeAt(o)
  PROVE  /\ WholeAt(o)' /\ o + SampleLen <= Size
         /\ \A k \in 1 .. SampleLen : file'[o + k] = file[o + k]
<1>t. SampleLen \in Nat \ {0} /\ Size \in Nat /\ Size' \in Nat
  BY LenType, FileType, WriterExtends
<1> USE <1>t
<1>1. o + SampleLen <= Size /\ \A k \in 1 .. SampleLen : file[o + k] = Part(file[o + 1].s, k)
  BY DEF WholeAt
<1>2. o + SampleLen <= Size'
  BY <1>1, WholeBoundary, WriterExtends
<1>3. \A k \in 1 .. SampleLen : file'[o + k] = file[o + k]
  <2> TAKE k \in 1 .. SampleLen
  <2>1. o + k \in 1 .. Size /\ o + k <= Size'
    BY <1>1, <1>2
  <2> QED BY <2>1, WriterExtends
<1>4. 1 \in 1 .. SampleLen
  OBVIOUS
<1>5. file'[o + 1] = file[o + 1]
  BY <1>3, <1>4
<1>6. \A k \in 1 .. SampleLen : file'[o + k] = Part(file'[o + 1].s, k)
  BY <1>1, <1>3, <1>5
<1> QED BY <1>1, <1>2, <1>3, <1>6 DEF WholeAt, Part

\* The samples are those that are complete somewhere in the file.
LEMMA SampleOf ==
  ASSUME RawTypeOK, NEW s
  PROVE  s \in Samples <=> \E o \in Nat : o >= 1 /\ WholeAt(o) /\ file[o + 1].s = s
<1>t. SampleLen \in Nat \ {0} /\ Size \in Nat
  BY LenType, FileType
<1> QED BY <1>t DEF Samples, WholeAt

\* New samples come behind the ones that are there.
LEMMA SamplesGrow ==
  ASSUME RawTypeOK, FileInv, WriterInv, Writer
  PROVE  /\ Samples \subseteq Samples'
         /\ \A r \in Samples', s \in Samples : r <= s => r \in Samples
<1>t. /\ SampleLen \in Nat \ {0} /\ Size \in Nat /\ Size' \in Nat /\ taken \in Nat /\ start \in Nat
  BY LenType, FileType, StateType, WriterExtends
<1> USE <1>t
<1>1. Samples \subseteq Samples'
  <2> SUFFICES ASSUME NEW s \in Samples PROVE s \in Samples'
    OBVIOUS
  <2>1. PICK o \in Nat : o >= 1 /\ WholeAt(o) /\ file[o + 1].s = s
    BY SampleOf
  <2>2. WholeAt(o)' /\ 1 \in 1 .. SampleLen /\ \A k \in 1 .. SampleLen : file'[o + k] = file[o + k]
    BY <2>1, WholeStays
  <2>3. file'[o + 1].s = s
    BY <2>1, <2>2
  <2>4. o \in 1 .. Size'
    BY <2>1, <2>2 DEF WholeAt
  <2> QED BY <2>2, <2>3, <2>4 DEF Samples
<1>2. ASSUME NEW r \in Samples', NEW s \in Samples, r <= s
      PROVE  r \in Samples
  <2>1. PICK o \in 1 .. Size' : WholeAt(o)' /\ file'[o + 1].s = r
    BY DEF Samples
  <2>2. o + SampleLen <= Size' /\ \A k \in 1 .. SampleLen : file'[o + k] = Part(file'[o + 1].s, k)
    BY <2>1 DEF WholeAt, Part
  <2>3. CASE o + SampleLen <= Size
    <3>1. \A k \in 1 .. SampleLen : o + k \in 1 .. Size /\ o + k <= Size'
      BY <2>2, <2>3
    <3>2. \A k \in 1 .. SampleLen : file'[o + k] = file[o + k]
      BY <3>1, WriterExtends
    <3>3. 1 \in 1 .. SampleLen
      OBVIOUS
    <3>4. file'[o + 1] = file[o + 1]
      BY <3>2, <3>3
    <3>5. \A k \in 1 .. SampleLen : file[o + k] = Part(file[o + 1].s, k)
      BY <2>2, <3>2, <3>4
    <3>6. WholeAt(o) /\ file[o + 1].s = r
      BY <2>1, <2>3, <3>4, <3>5 DEF WholeAt
    <3> QED BY <3>6, SampleOf
  <2>4. CASE o + SampleLen > Size
    <3>1. Writev
      <4>1. CASE file' = file
        <5>1. Size' = Size
          BY <4>1 DEF Size
        <5> QED BY <2>2, <2>4, <5>1
      <4>2. CASE Open /\ file' = <<Header>>
        <5>1. Size' = 1
          BY <4>2 DEF Size
        <5> QED BY <2>2, <5>1
      <4>3. CASE RollBack /\ file' = SubSeq(file, 1, start)
        <5>1. start \in 1 .. Size
          BY <4>3 DEF RollBack, WriterInv, Boundary
        <5>2. Size' = start
          BY <4>3, <5>1, Shortened
        <5> QED BY <2>2, <2>4, <5>1, <5>2
      <4> QED BY <4>1, <4>2, <4>3
              DEF Writer, WriterStep, Open, RawWrite, Writev, RollBack, WritevFails, WriterEnds,
                  WriterKill, WriterStart
    <3>2. Size' = Size + 1 /\ file'[Size + 1].s = taken
      BY <3>1, Appended
    <3>3. o + SampleLen = Size + 1
      BY <2>2, <2>4, <3>2
    <3>4. r = taken
      <4>1. file'[o + SampleLen] = Part(r, SampleLen)
        BY <2>1, <2>2
      <4> QED BY <3>2, <3>3, <4>1 DEF Part
    <3>5. /\ Boundary(start) /\ Size < start + SampleLen
          /\ \A i \in 1 .. Size : IF i <= start THEN file[i].s < taken ELSE file[i].s = taken
      BY <3>1 DEF Writev, WriterInv
    <3>6. PICK b \in Nat : b >= 1 /\ WholeAt(b) /\ file[b + 1].s = s
      BY SampleOf
    <3>7. b + SampleLen <= Size /\ Boundary(b)
      BY <3>6, WholeBoundary DEF WholeAt
    <3>8. b + SampleLen <= start
      BY <3>5, <3>7, GapBoundary
    <3>9. b + 1 \in 1 .. Size /\ b + 1 <= start
      BY <3>7, <3>8
    <3>10. s < taken /\ s \in Nat
      BY <3>5, <3>6, <3>9, FileType
    <3> QED BY <1>2, <3>4, <3>10
  <2> QED BY <2>2, <2>3, <2>4
<1> QED BY <1>1, <1>2

\* The record that is read is at a record's offset.
LEMMA HereType ==
  ASSUME RawTypeOK, ListInv, Reading
  PROVE  /\ Boundary(Here) /\ Here \in Nat /\ Here >= 1 /\ Here <= rpos
         /\ Here = IF rpc \in {"wait", "take"} THEN rpos - HeadLen ELSE rpos
<1>1. Boundary(Here)
  BY DEF ListInv, IsNext
<1>2. Here >= 1
  BY <1>1 DEF Boundary
<1>3. rpos \in Nat /\ HeadLen \in Nat
  BY StateType, LenType
<1>4. Here \in Int /\ Here <= rpos /\ Here = IF rpc \in {"wait", "take"} THEN rpos - HeadLen ELSE rpos
  BY <1>3 DEF Here
<1> QED BY <1>1, <1>2, <1>3, <1>4

\* The reader's view of the file in steps of the writer.
LEMMA ReaderSame ==
  ASSUME RawInv, Writer
  PROVE  ListInv' /\ ReadInv' /\ SeenInv' /\ AskInv' /\ Navigates'
<1>t. /\ SampleLen \in Nat \ {0} /\ Size \in Nat /\ Size' \in Nat /\ rpos \in Nat
      /\ HeadLen < SampleLen /\ SampleLen = HeadLen + DataLen /\ HeadLen \in Nat /\ HeadLen >= 1
  BY LenType, FileType, StateType, WriterExtends DEF RawInv
<1>i. RawTypeOK /\ FileInv /\ WriterInv /\ ListInv /\ ReadInv /\ SeenInv /\ AskInv /\ Navigates
  BY DEF RawInv
<1> USE <1>t
<1>1. /\ Size > 0 => Size' > 0
      /\ fails \subseteq fails'
      /\ \A i \in 1 .. Size : i <= Size' => file'[i] = file[i]
      /\ "cut" \notin fails' /\ rpos <= Size => rpos <= Size'
      /\ \A o \in Nat : Boundary(o) /\ o + SampleLen <= Size => o + SampleLen <= Size'
  BY <1>i, WriterExtends
<1>2. rpc' = rpc /\ why' = why /\ rpos' = rpos /\ rec' = rec /\ off' = off /\ offcur' = offcur
      /\ begin' = begin /\ endtime' = endtime /\ shown' = shown /\ ask' = ask
  BY <1>i, WriterExtends DEF reader
<1>3. Here' = Here /\ Reading' = Reading /\ Boundary(Here)' = Boundary(Here) /\ Boundary(rpos)' = Boundary(rpos)
      /\ InOrder(off, offcur)' = InOrder(off, offcur) /\ IsNext(Here, off, offcur)' = IsNext(Here, off, offcur)
  BY <1>2 DEF Here, Reading, Boundary, InOrder, IsNext
<1>4. ListInv'
  BY <1>i, <1>1, <1>2, <1>3 DEF ListInv
<1> SUFFICES ASSUME "cut" \notin fails' PROVE ReadInv' /\ SeenInv' /\ AskInv' /\ Navigates'
  BY <1>4 DEF ReadInv, SeenInv, AskInv, Navigates
<1>5. "cut" \notin fails
  BY <1>1
<1>6. Reading \/ rpc = "show" => rpos <= Size /\ rpos <= Size'
  BY <1>i, <1>1, <1>5 DEF ReadInv, Reading
<1>7. ReadInv'
  <2>1. rpc = "take" => rpos + DataLen <= Size'
    <3> HAVE rpc = "take"
    <3>1. Boundary(Here) /\ Here + SampleLen = rpos + DataLen /\ Here \in Nat /\ rpos + DataLen <= Size
      BY <1>i, <1>5, HereType DEF ReadInv, Reading
    <3> QED BY <1>1, <3>1
  <2>2. rpc \in {"wait", "take"} => file'[Here + 1] = file[Here + 1]
    <3> HAVE rpc \in {"wait", "take"}
    <3>1. Here + 1 <= rpos /\ Here >= 1 /\ Here \in Nat
      BY <1>i, HereType DEF Reading
    <3>2. rpos <= Size /\ rpos <= Size'
      BY <1>6 DEF Reading
    <3>3. Here + 1 \in 1 .. Size /\ Here + 1 <= Size'
      BY <3>1, <3>2
    <3> QED BY <1>1, <3>3
  <2>3. rpc = "show" => file'[rpos] = file[rpos]
    <3> HAVE rpc = "show"
    <3>1. rpos >= 1
      BY <1>i DEF ListInv, Boundary
    <3>2. rpos \in 1 .. Size /\ rpos <= Size'
      BY <1>6, <3>1
    <3> QED BY <1>1, <3>2
  <2> QED BY <1>i, <1>2, <1>3, <1>5, <1>6, <2>1, <2>2, <2>3 DEF ReadInv, Reading
<1>8. Samples \subseteq Samples' /\ \A r \in Samples', s \in Samples : r <= s => r \in Samples
  BY <1>i, SamplesGrow
<1>9. SeenInv'
  BY <1>i, <1>2, <1>5, <1>8 DEF SeenInv
<1>10. Navigates'
  BY <1>i, <1>2, <1>5, <1>8 DEF Navigates
<1>11. AskInv'
  <2>1. Later' = Later /\ Earlier' = Earlier /\ Wanted' = Wanted
    BY <1>2 DEF Later, Earlier, Wanted
  <2>2. \A o \in Nat : o >= 1 /\ WholeAt(o) =>
          WholeAt(o)' /\ file'[o + 1] = file[o + 1] /\ file'[o + SampleLen] = file[o + SampleLen]
    <3> TAKE o \in Nat
    <3> HAVE o >= 1 /\ WholeAt(o)
    <3>1. 1 \in 1 .. SampleLen /\ SampleLen \in 1 .. SampleLen
      OBVIOUS
    <3> QED BY <1>i, <3>1, WholeStays
  <2> SUFFICES ASSUME Reading
               PROVE  CASE ask.cmd = "next"  -> NextInv'
                        [] ask.cmd = "prev"  -> PrevInv'
                        [] ask.cmd = "reset" -> ResetInv'
                        [] OTHER -> BranchInv'
    BY <1>i, <1>2, <1>3, <1>5 DEF AskInv
  <2>3. Here >= 1 /\ Here \in Nat /\ Here <= rpos
    BY <1>i, HereType
  <2>4. NextInv => NextInv'
    <3> HAVE NextInv
    <3>1. CASE Here > SampleLen /\ WholeAt(Here - SampleLen) /\ file[Here].s = ask.from
      <4>1. Here - SampleLen \in Nat /\ Here - SampleLen >= 1 /\ (Here - SampleLen) + SampleLen = Here
        BY <2>3, <3>1
      <4>2. WholeAt(Here - SampleLen)' /\ file'[Here] = file[Here]
        BY <2>2, <3>1, <4>1, <1>3
      <4> QED BY <1>2, <1>3, <3>1, <4>2 DEF NextInv
    <3>2. CASE WholeAt(Here) /\ file[Here + 1].s = ask.from /\ Later = {}
      BY <1>2, <1>3, <2>1, <2>2, <2>3, <3>2 DEF NextInv
    <3> QED BY <3>1, <3>2 DEF NextInv
  <2>5. PrevInv => PrevInv'
    BY <1>2, <1>3, <2>2, <2>3 DEF PrevInv
  <2>6. ResetInv => ResetInv'
    BY <1>2, <1>3 DEF ResetInv
  <2>7. BranchInv => BranchInv'
    BY <1>1, <1>2, <1>3, <1>6, <2>1, <2>2, <2>3 DEF BranchInv
  <2> QED BY <1>i, <1>5, <2>4, <2>5, <2>6, <2>7 DEF AskInv
<1> QED BY <1>7, <1>9, <1>10, <1>11

(***************************************************************************)
(* The reader's list of offsets.                                           *)
(***************************************************************************)
\* The offset behind the last sample that can be taken.
LEMMA LastPlace == Boundary(1 + MaxSamples * SampleLen) /\ 1 + MaxSamples * SampleLen \in Nat
<1>1. MaxSamples \in Nat /\ SampleLen \in Nat \ {0}
  BY LenType
<1>2. MaxSamples * SampleLen \in Nat
  BY <1>1, NatProduct
<1>3. (MaxSamples * SampleLen) % SampleLen = 0
  BY <1>1, ModMult
<1>4. (1 + MaxSamples * SampleLen) - 1 = MaxSamples * SampleLen
  BY <1>2
<1> QED BY <1>2, <1>3, <1>4 DEF Boundary

\* Take puts the record in the list, which has room for it.
LEMMA ListGrows ==
  ASSUME RawTypeOK, ListInv, rpc = "take", Registered
  PROVE  /\ InOrder(off', offcur') /\ off' \in [0 .. MaxSamples + 1 -> Nat]
         /\ off'[0] = 1 /\ offcur' = offcur + 1 /\ offcur <= MaxSamples /\ off'[offcur' - 1] = Here
<1>t. /\ SampleLen \in Nat \ {0} /\ offcur \in Nat /\ MaxSamples \in Nat /\ offcur <= MaxSamples + 1
      /\ off \in [0 .. MaxSamples + 1 -> Nat]
  BY LenType, StateType
<1> USE <1>t
<1>1. Boundary(Here) /\ Here \in Nat /\ Here = rpos - HeadLen /\ Here >= 1
  BY HereType DEF Reading
<1>2. /\ Here + SampleLen <= 1 + MaxSamples * SampleLen /\ off[0] = 1
      /\ offcur = 0 => Here = 1
      /\ offcur > 0 => Here = off[offcur - 1] + SampleLen \/ (offcur = 1 /\ Here = 1)
      /\ \A i \in 0 .. MaxSamples + 1 : i < offcur =>
           /\ Boundary(off[i]) /\ off[i] >= 1 + (i - 1) * SampleLen
           /\ i > 0 => off[i] = off[i - 1] + SampleLen \/ (i = 1 /\ off[i] = 1)
  BY DEF ListInv, Reading, InOrder, IsNext
<1>3. off' = [off EXCEPT ![offcur] = Here] /\ offcur' = offcur + 1
  BY <1>1 DEF Registered
<1>4. Here >= 1 + (offcur - 1) * SampleLen
  <2>1. CASE offcur = 0
    BY <1>1, <2>1
  <2>2. CASE offcur > 0
    <3>1. PICK c \in Nat : c = offcur - 1
      BY <2>2
    <3>2. CASE Here = off[c] + SampleLen
      <4>1. off[c] >= 1 + (c - 1) * SampleLen /\ off[c] \in Nat
        BY <1>2, <2>2, <3>1
      <4>2. (c - 1) * SampleLen + SampleLen = c * SampleLen
        BY <3>1, Z3
      <4>3. (c - 1) * SampleLen \in Int /\ c * SampleLen \in Int
        OBVIOUS
      <4> QED BY <3>1, <3>2, <4>1, <4>2, <4>3
    <3>3. CASE offcur = 1 /\ Here = 1
      BY <3>3
    <3> QED BY <1>2, <2>2, <3>1, <3>2, <3>3
  <2> QED BY <2>1, <2>2
<1>5. offcur <= MaxSamples
  <2> SUFFICES ASSUME offcur = MaxSamples + 1 PROVE FALSE
    OBVIOUS
  <2>1. (offcur - 1) * SampleLen = MaxSamples * SampleLen
    OBVIOUS
  <2>2. MaxSamples * SampleLen \in Nat
    BY NatProduct
  <2> QED BY <1>1, <1>2, <1>4, <2>1, <2>2
<1>6. /\ off'[offcur] = Here /\ \A i \in 0 .. MaxSamples + 1 : i # offcur => off'[i] = off[i]
      /\ off' \in [0 .. MaxSamples + 1 -> Nat]
  BY <1>1, <1>3
<1>7. off'[0] = 1
  BY <1>2, <1>6
<1>8. ASSUME NEW i \in 0 .. MaxSamples + 1, i < offcur'
      PROVE  /\ Boundary(off'[i]) /\ off'[i] >= 1 + (i - 1) * SampleLen
             /\ i > 0 => off'[i] = off'[i - 1] + SampleLen \/ (i = 1 /\ off'[i] = 1)
  <2>1. i > 0 => i - 1 \in 0 .. MaxSamples + 1 /\ i - 1 # offcur /\ off'[i - 1] = off[i - 1]
    BY <1>3, <1>6, <1>8
  <2>2. CASE i = offcur
    BY <1>1, <1>2, <1>4, <1>6, <2>1, <2>2
  <2>3. CASE i # offcur
    <3>1. i < offcur /\ off'[i] = off[i]
      BY <1>3, <1>6, <1>8, <2>3
    <3>2. /\ Boundary(off[i]) /\ off[i] >= 1 + (i - 1) * SampleLen
          /\ i > 0 => off[i] = off[i - 1] + SampleLen \/ (i = 1 /\ off[i] = 1)
      BY <1>2, <3>1
    <3> QED BY <2>1, <3>1, <3>2
  <2> QED BY <2>2, <2>3
<1>9. InOrder(off', offcur')
  BY <1>7, <1>8 DEF InOrder
<1> QED BY <1>3, <1>5, <1>6, <1>7, <1>9

\* A step back to a record of the list.
LEMMA PlaceBack ==
  ASSUME NEW l \in [0 .. MaxSamples + 1 -> Nat], NEW c \in 0 .. MaxSamples + 1, InOrder(l, c), l[0] = 1,
         NEW d \in Nat, d < c \/ d = 0
  PROVE  InOrder(l, d) /\ IsNext(l[d], l, d) /\ l[d] \in Nat /\ d \in 0 .. MaxSamples + 1
<1>1. d \in 0 .. MaxSamples + 1
  OBVIOUS
<1>2. InOrder(l, d)
  BY <1>1 DEF InOrder
<1>3. Boundary(l[d])
  BY <1>1, FirstBoundary DEF InOrder
<1>4. d > 0 => l[d] = l[d - 1] + SampleLen \/ (d = 1 /\ l[d] = 1)
  BY <1>1 DEF InOrder
<1> QED BY <1>1, <1>2, <1>3, <1>4 DEF IsNext

\* The parts of ListInv, in the next state.
LEMMA ListFrom ==
  ASSUME InOrder(off', offcur'),
         Reading' \/ rpc' = "show" => off'[0] = 1 /\ Size' > 0,
         Reading' => IsNext(Here', off', offcur'),
         rpc' \in {"wait", "take"} => Here' + SampleLen <= 1 + MaxSamples * SampleLen,
         rpc' = "show" => offcur' > 0 /\ rpos' = off'[offcur' - 1] + SampleLen /\ Boundary(rpos'),
         why' # "" <=> rpc' = "end"
  PROVE  ListInv'
<1>1. InOrder(off, offcur)' = InOrder(off', offcur')
  BY Zenon DEF InOrder, Boundary
<1>2. IsNext(Here, off, offcur)' = IsNext(Here', off', offcur')
  BY Zenon DEF IsNext, Boundary
<1>3. Boundary(rpos)' = Boundary(rpos')
  BY Zenon DEF Boundary
<1> QED BY <1>1, <1>2, <1>3 DEF ListInv

\* Every step of the reader keeps the list of offsets in order: Take adds the record behind the
\* last one, AtEnd and Prev go back in the list, Reset and Branch to its begin.
LEMMA ListKept ==
  ASSUME RawTypeOK, FileInv, WriterInv, ListInv, Reader
  PROVE  /\ ListInv' /\ off' \in [0 .. MaxSamples + 1 -> Nat]
         /\ offcur' \in 0 .. MaxSamples + 1 /\ rpos' \in Nat
<1>t. /\ SampleLen \in Nat \ {0} /\ offcur \in 0 .. MaxSamples + 1 /\ MaxSamples \in Nat
      /\ off \in [0 .. MaxSamples + 1 -> Nat] /\ Size \in Nat /\ rpos \in Nat
      /\ HeadLen \in Nat \ {0} /\ DataLen \in Nat \ {0} /\ SampleLen = HeadLen + DataLen
  BY LenType, StateType, FileType, SMTT(30)
<1> USE <1>t DEF reader
<1>0. Size' = Size
  BY WriterSame DEF Size
<1>w. /\ why # "" <=> rpc = "end"
      /\ InOrder(off, offcur)
      /\ Reading \/ rpc = "show" => off[0] = 1 /\ Size > 0
      /\ Reading => IsNext(Here, off, offcur)
      /\ rpc \in {"wait", "take"} => Here + SampleLen <= 1 + MaxSamples * SampleLen
      /\ rpc = "show" => offcur > 0 /\ rpos = off[offcur - 1] + SampleLen /\ Boundary(rpos)
  BY DEF ListInv
<1>1. CASE Watch \/ AwaitFirst \/ ReaderStart
  <2>1. /\ rpc' \in {"first", "header"} /\ off' = off /\ offcur' = offcur /\ rpos' = rpos
        /\ why' = why /\ rpc # "end"
    BY <1>1 DEF Watch, AwaitFirst, ReaderStart
  <2>2. ~ Reading'
    BY <2>1 DEF Reading
  <2> QED BY <1>w, <2>1, <2>2, ListFrom
<1>2. ASSUME NEW reason \in {"quit", "endtime", "empty", "torn", "incomplete", "short"},
             Ends(reason), InOrder(off', offcur')
      PROVE  ListInv'
  <2>1. rpc' = "end" /\ why' # ""
    BY <1>2 DEF Ends
  <2>2. ~ Reading'
    BY <2>1 DEF Reading
  <2> QED BY <1>2, <2>1, <2>2, ListFrom
<1>3. CASE ReadHeader
  <2>1. CASE Size = 0
    <3>1. off' = off /\ offcur' = offcur /\ rpos' = rpos /\ Ends("empty")
      BY <1>3, <2>1 DEF ReadHeader
    <3> QED BY <1>2, <1>w, <3>1
  <2>2. CASE Size # 0
    <3>1. /\ rpos' = 1 /\ off' = [off EXCEPT ![0] = 1] /\ offcur' = 1 /\ rpc' = "rec"
          /\ why' = why /\ rpc = "header"
      BY <1>3, <2>2 DEF ReadHeader
    <3>2. off'[0] = 1
      BY <3>1
    <3>3. InOrder(off', offcur')
      BY <3>1, <3>2, FirstBoundary DEF InOrder
    <3>4. Reading' /\ Here' = 1 /\ IsNext(Here', off', offcur')
      BY <3>1, FirstBoundary DEF Reading, Here, IsNext
    <3>5. Size' > 0
      BY <1>0, <2>2
    <3>7. why' = "" /\ rpc' = "rec"
      BY <1>w, <3>1
    <3>6. ListInv'
      BY <3>2, <3>3, <3>4, <3>5, <3>7, ListFrom
    <3> QED BY <3>1, <3>6
  <2> QED BY <2>1, <2>2, <1>3 DEF ReadHeader
<1>4. CASE GetRawRec
  <2>1. /\ rpc = "rec" /\ Size >= rpos + HeadLen /\ rpos' = rpos + HeadLen /\ rpc' = "wait"
        /\ off' = off /\ offcur' = offcur /\ why' = why
    BY <1>4 DEF GetRawRec
  <2>2. Reading /\ Reading' /\ Here = rpos /\ Here' = rpos
    BY <2>1 DEF Reading, Here
  <2>3. Boundary(rpos)
    BY <2>2, HereType
  <2>4. /\ Size <= 1 + taken * SampleLen /\ taken * SampleLen <= MaxSamples * SampleLen
        /\ taken * SampleLen \in Nat /\ MaxSamples * SampleLen \in Nat
    BY StateType, Monotone, NatProduct DEF FileInv
  <2>5. rpos < 1 + MaxSamples * SampleLen
    BY <2>1, <2>4
  <2>6. rpos + SampleLen <= 1 + MaxSamples * SampleLen
    BY <2>3, <2>5, LastPlace, GapBoundary
  <2>7. InOrder(off', offcur') /\ IsNext(Here', off', offcur')
    BY <1>w, <2>1, <2>2
  <2>8. Here' + SampleLen <= 1 + MaxSamples * SampleLen
    BY <2>2, <2>6
  <2>9. off'[0] = 1 /\ Size' > 0 /\ (why' # "" <=> rpc' = "end") /\ rpc' # "show"
    BY <1>0, <1>w, <2>1, <2>2
  <2>10. ListInv'
    BY <2>7, <2>8, <2>9, ListFrom, Zenon
  <2> QED BY <2>1, <2>10
<1>5. ASSUME Reading \/ rpc = "show", NEW d \in Nat, d < offcur \/ d = 0,
             offcur' = d, rpos' = off[d], off' = off, rpc' = "rec", why' = why
      PROVE  ListInv' /\ offcur' \in 0 .. MaxSamples + 1 /\ rpos' \in Nat
  <2>1. InOrder(off, d) /\ IsNext(off[d], off, d) /\ off[d] \in Nat /\ d \in 0 .. MaxSamples + 1
    BY <1>5, <1>w, PlaceBack
  <2>2. Reading' /\ Here' = off[d] /\ rpc # "end"
    BY <1>5 DEF Reading, Here
  <2> QED BY <1>0, <1>5, <1>w, <2>1, <2>2, ListFrom
<1>6. CASE AtEnd
  <2>1. /\ rpc = "rec" /\ offcur' = (IF offcur >= 1 THEN offcur - 1 ELSE offcur)
        /\ rpos' = off[offcur'] /\ off' = off /\ rpc' = rpc /\ why' = why
    BY <1>6 DEF AtEnd
  <2>2. PICK d \in Nat : offcur' = d /\ (d < offcur \/ d = 0)
    BY <2>1, SMTT(30)
  <2> QED BY <1>5, <2>1, <2>2 DEF Reading
<1>7. CASE Torn \/ GiveUp \/ Quit
  <2>1. off' = off /\ offcur' = offcur /\ rpos' = rpos
    BY <1>7 DEF Torn, GiveUp, Quit
  <2> QED BY <1>2, <1>7, <1>w, <2>1 DEF Torn, GiveUp, Quit
<1>8. CASE Complete
  <2>1. /\ rpc = "wait" /\ rpc' = "take" /\ rpos' = rpos /\ off' = off /\ offcur' = offcur
        /\ why' = why
    BY <1>8 DEF Complete
  <2>2. Reading /\ Reading' /\ Here' = Here
    BY <2>1 DEF Reading, Here
  <2> QED BY <1>0, <1>w, <2>1, <2>2, ListFrom
<1>9. CASE Take
  <2>1. rpc = "take" /\ Registered
    BY <1>9 DEF Take
  <2>2. /\ InOrder(off', offcur') /\ off' \in [0 .. MaxSamples + 1 -> Nat]
        /\ off'[0] = 1 /\ offcur' = offcur + 1 /\ offcur <= MaxSamples /\ off'[offcur' - 1] = Here
    BY <2>1, ListGrows
  <2>3. Boundary(Here) /\ Here \in Nat /\ Here = rpos - HeadLen /\ Size > 0
    BY <1>w, <2>1, HereType DEF Reading
  <2>4. Boundary(Here + SampleLen) /\ rpos + DataLen = Here + SampleLen
    BY <2>3, NextBoundary
  <2>5. \/ \E reason \in {"endtime", "short"} : Ends(reason) /\ rpos' = rpos
        \/ rpc' \in {"rec", "show"} /\ rpos' = rpos + DataLen /\ why' = why
    BY <1>9 DEF Take
  <2>6. CASE \E reason \in {"endtime", "short"} : Ends(reason) /\ rpos' = rpos
    BY <1>2, <2>2, <2>6
  <2>7. CASE rpc' \in {"rec", "show"} /\ rpos' = rpos + DataLen /\ why' = why
    <3>1. Here' = Here + SampleLen /\ rpos' = Here + SampleLen
      BY <2>4, <2>7 DEF Here
    <3>2. IsNext(Here', off', offcur')
      BY <2>2, <2>4, <3>1 DEF IsNext
    <3>3. rpos' \in Nat
      BY <2>7
    <3>4. off'[0] = 1 /\ Size' > 0 /\ (why' # "" <=> rpc' = "end")
      BY <1>0, <1>w, <2>1, <2>2, <2>3, <2>7
    <3>5. offcur' > 0 /\ rpos' = off'[offcur' - 1] + SampleLen /\ Boundary(rpos')
      BY <2>2, <2>4, <3>1
    <3>6. ListInv'
      BY <2>2, <2>7, <3>2, <3>4, <3>5, ListFrom
    <3> QED BY <2>2, <3>3, <3>6
  <2> QED BY <2>2, <2>5, <2>6, <2>7
<1>10. ASSUME rpc = "show", rpc' = "rec", rpos' = rpos, off' = off, offcur' = offcur, why' = why
       PROVE  ListInv'
  <2>1. Reading' /\ Here' = rpos
    BY <1>10 DEF Reading, Here
  <2>2. IsNext(rpos, off, offcur)
    <3>1. offcur > 0 /\ rpos = off[offcur - 1] + SampleLen /\ Boundary(rpos)
      BY <1>10, <1>w
    <3> QED BY <3>1 DEF IsNext
  <2>3. IsNext(Here', off', offcur') /\ InOrder(off', offcur')
    BY <1>10, <1>w, <2>1, <2>2
  <2>4. off'[0] = 1 /\ Size' > 0 /\ (why' # "" <=> rpc' = "end")
    BY <1>0, <1>10, <1>w
  <2> QED BY <1>10, <2>3, <2>4, ListFrom
<1>11. ASSUME NextSample \/ Prev \/ Reset \/ (\E t \in 1 .. Far : Branch(t)) \/ Resume,
              off' = off, why' = why
       PROVE  ListInv' /\ offcur' \in 0 .. MaxSamples + 1 /\ rpos' \in Nat
  <2>1. rpc = "show" /\ rpc' = "rec"
    BY <1>11 DEF NextSample, Prev, Reset, Branch, Resume, Ask
  <2>2. CASE rpos' = rpos /\ offcur' = offcur
    BY <1>10, <1>11, <2>1, <2>2
  <2>3. CASE rpos' = off[0] /\ offcur' = 1
    <3>1. off[0] = 1 /\ Size > 0
      BY <1>w, <2>1
    <3>2. InOrder(off, 1) /\ IsNext(1, off, 1)
      BY <3>1, FirstBoundary DEF InOrder, IsNext
    <3>3. Reading' /\ Here' = 1
      BY <2>1, <2>3, <3>1 DEF Reading, Here
    <3>4. IsNext(Here', off', offcur') /\ InOrder(off', offcur') /\ off'[0] = 1
      BY <1>11, <2>3, <3>1, <3>2, <3>3
    <3>5. Size' > 0 /\ (why' # "" <=> rpc' = "end")
      BY <1>0, <1>11, <1>w, <2>1, <3>1
    <3>6. ListInv'
      BY <2>1, <3>4, <3>5, ListFrom
    <3> QED BY <2>3, <3>1, <3>6
  <2>4. CASE /\ offcur' = (IF offcur >= 2 THEN offcur - 2 ELSE 0)
             /\ rpos' = off[offcur']
    <3>1. PICK d \in Nat : offcur' = d /\ (d < offcur \/ d = 0)
      BY <2>4
    <3> QED BY <1>5, <1>11, <2>1, <2>4, <3>1
  <2> QED BY <1>11, <2>2, <2>3, <2>4 DEF NextSample, Prev, Reset, Branch, Resume, Rewind
<1>12. CASE Pause /\ Command
  <2>1. /\ rpc = "show" /\ rpc' = rpc /\ rpos' = rpos /\ off' = off /\ offcur' = offcur
        /\ why' = why
    BY <1>12 DEF Pause, Command
  <2>2. ~ Reading'
    BY <2>1 DEF Reading
  <2> QED BY <1>0, <1>w, <2>1, <2>2, ListFrom
<1>13. CASE Triggered
  <2>1. /\ rpc = "show" /\ rpc' = "rec" /\ rpos' = rpos /\ off' = off /\ offcur' = offcur
        /\ why' = why
    BY <1>13 DEF Triggered, Ask
  <2> QED BY <1>10, <2>1
<1>14. CASE Command
  <2>1. off' = off /\ why' = why
    BY <1>14 DEF Command
  <2> QED BY <1>11, <1>12, <1>14, <2>1 DEF Command
<1> QED BY <1>1, <1>3, <1>4, <1>6, <1>7, <1>8, <1>9, <1>13, <1>14 DEF Reader, ReaderStep

(***************************************************************************)
(* What the reader finds.                                                  *)
(***************************************************************************)
\* The place of a sample, and its order.
LEMMA PlaceOf ==
  ASSUME RawTypeOK, FileInv, NEW s \in Samples
  PROVE  /\ \E o \in Nat : o >= 1 /\ Boundary(o) /\ o + SampleLen <= Size /\ WholeAt(o) /\ file[o + 1].s = s
         /\ s \in Nat /\ s >= 1
<1>1. PICK o \in Nat : o >= 1 /\ WholeAt(o) /\ file[o + 1].s = s
  BY SampleOf
<1>2. Boundary(o) /\ o + SampleLen <= Size
  BY <1>1, WholeBoundary DEF WholeAt
<1>3. o + 1 \in 2 .. Size /\ taken \in Nat
  BY <1>1, <1>2, LenType, FileType, StateType
<1>4. file[o + 1].s \in 1 .. taken
  BY <1>3 DEF FileInv
<1> QED BY <1>1, <1>2, <1>3, <1>4

\* A complete sample is in the file.
LEMMA InFile ==
  ASSUME RawTypeOK, NEW o \in Nat, o >= 1, WholeAt(o)
  PROVE  file[o + 1].s \in Samples /\ o + SampleLen <= Size
BY SampleOf DEF WholeAt

\* The order of the samples is that of their places.
LEMMA PlacesOrdered ==
  ASSUME RawTypeOK, FileInv, NEW o \in Nat, NEW b \in Nat, Boundary(o), Boundary(b), o < Size, b < Size
  PROVE  /\ file[o + 1].s \in Nat /\ file[b + 1].s \in Nat
         /\ file[o + 1].s <= file[b + 1].s <=> o <= b
<1>1. Size \in Nat /\ o + 1 \in 1 .. Size /\ b + 1 \in 1 .. Size
  BY FileType
<1>2. file[o + 1].s \in Nat /\ file[b + 1].s \in Nat
  BY <1>1, FileType
<1>3. CASE o < b
  BY <1>2, <1>3, Ascending
<1>4. CASE b < o
  BY <1>2, <1>4, Ascending
<1>5. CASE o = b
  BY <1>2, <1>5
<1> QED BY <1>3, <1>4, <1>5

\* The last part of a sample is of the sample.
LEMMA LastPart ==
  ASSUME RawTypeOK, FileInv, NEW o \in Nat, Boundary(o), o + SampleLen <= Size
  PROVE  file[o + SampleLen].s = file[o + 1].s
<1>1. SampleLen \in 1 .. SampleLen
  BY LenType
<1>2. file[o + SampleLen] = Part(file[o + 1].s, SampleLen)
  BY <1>1, PartAt
<1> QED BY <1>2 DEF Part

\* The sample that is shown is the last one of the list.
LEMMA ShowFacts ==
  ASSUME RawInv, rpc = "show", "cut" \notin fails
  PROVE  /\ off[offcur - 1] \in Nat /\ off[offcur - 1] >= 1 /\ Boundary(off[offcur - 1])
         /\ rpos = off[offcur - 1] + SampleLen /\ rpos <= Size /\ offcur > 0
         /\ WholeAt(off[offcur - 1]) /\ file[off[offcur - 1] + 1].s = shown /\ file[rpos].s = shown
         /\ rec = shown /\ begin = 0 /\ shown \in Samples
<1>t. RawTypeOK /\ FileInv /\ ListInv /\ ReadInv
  BY DEF RawInv
<1>1. /\ off \in [0 .. MaxSamples + 1 -> Nat] /\ offcur \in Nat /\ offcur <= MaxSamples + 1
      /\ MaxSamples \in Nat
  BY <1>t, StateType
<1>2. offcur > 0 /\ rpos = off[offcur - 1] + SampleLen /\ InOrder(off, offcur)
  BY <1>t DEF ListInv
<1>3. PICK o \in Nat : o = off[offcur - 1]
  BY <1>1, <1>2
<1>4. Boundary(o)
  BY <1>1, <1>2, <1>3 DEF InOrder
<1>5. o >= 1
  BY <1>4 DEF Boundary
<1>6. rpos <= Size /\ file[rpos].s = shown /\ rec = shown /\ begin = 0
  BY <1>t DEF ReadInv
<1>7. WholeAt(o)
  BY <1>t, <1>2, <1>3, <1>4, <1>6, Whole
<1>8. file[o + 1].s = shown
  BY <1>t, <1>2, <1>3, <1>4, <1>6, LastPart
<1>9. shown \in Samples
  BY <1>t, <1>5, <1>7, <1>8, InFile
<1> QED BY <1>2, <1>3, <1>4, <1>5, <1>6, <1>7, <1>8, <1>9

\* What depends on the file alone.
LEMMA FileFixed ==
  ASSUME file' = file
  PROVE  Size' = Size /\ Samples' = Samples /\ \A o : WholeAt(o)' = WholeAt(o)
BY DEF Size, Samples, WholeAt, Part

\* A step back is one to an earlier record.
LEMMA BackIsEarlier ==
  ASSUME RawTypeOK, ListInv, rpc = "rec" \/ rpc = "show", NEW d \in Nat, d < offcur \/ d = 0
  PROVE  off[d] \in Nat /\ off[d] >= 1 /\ off[0] = 1
<1>1. /\ offcur \in Nat /\ offcur <= MaxSamples + 1 /\ MaxSamples \in Nat
      /\ off \in [0 .. MaxSamples + 1 -> Nat]
  BY StateType
<1>2. off[0] = 1 /\ InOrder(off, offcur)
  BY DEF ListInv, Reading
<1>3. d < offcur => Boundary(off[d])
  BY <1>1, <1>2 DEF InOrder
<1> QED BY <1>1, <1>2, <1>3 DEF Boundary

\* At the end of the file the reader steps back by one record, or stays at the first.
LEMMA AtEndBack ==
  ASSUME RawTypeOK, ListInv, AtEnd
  PROVE  /\ (rpos' = 1 /\ rpos = 1) \/ rpos' = rpos - SampleLen
         /\ rpos' \in Nat /\ rpos' >= 1
         /\ rpc = "rec" /\ rpc' = "rec" /\ begin' = 0 /\ Size <= rpos /\ Here = rpos /\ Here' = rpos'
         /\ rec' = rec /\ shown' = shown /\ ask' = ask
<1>t. SampleLen \in Nat \ {0} /\ offcur \in Nat /\ rpos \in Nat
  BY LenType, StateType
<1> USE <1>t
<1>1. /\ rpc = "rec" /\ offcur' = (IF offcur >= 1 THEN offcur - 1 ELSE offcur)
      /\ rpos' = off[offcur'] /\ rpc' = "rec" /\ begin' = 0 /\ Size <= rpos
      /\ rec' = rec /\ shown' = shown /\ ask' = ask
  BY DEF AtEnd
<1>2. Here = rpos /\ Here' = rpos' /\ Reading
  BY <1>1 DEF Here, Reading
<1>3. /\ offcur = 0 => rpos = 1
      /\ offcur > 0 => rpos = off[offcur - 1] + SampleLen \/ (offcur = 1 /\ rpos = 1)
      /\ off[0] = 1
  BY <1>2 DEF ListInv, IsNext
<1>4. off[offcur'] \in Nat /\ off[offcur'] >= 1
  <2>1. PICK d \in Nat : d = offcur' /\ (d < offcur \/ d = 0)
    BY <1>1
  <2> QED BY <1>1, <2>1, BackIsEarlier
<1>5. (rpos' = 1 /\ rpos = 1) \/ rpos' = rpos - SampleLen
  <2>1. CASE offcur = 0
    BY <1>1, <1>3, <2>1
  <2>2. CASE offcur > 0 /\ rpos = off[offcur - 1] + SampleLen
    BY <1>1, <1>4, <2>2
  <2>3. CASE offcur = 1 /\ rpos = 1
    BY <1>1, <1>3, <2>3
  <2> QED BY <1>3, <2>1, <2>2, <2>3
<1> QED BY <1>1, <1>2, <1>4, <1>5

\* Prev goes to the record in front of the last one shown, or to the first one.
LEMMA PrevBack ==
  ASSUME RawTypeOK, ListInv, Prev, rpc = "show"
  PROVE  \/ rpos' = 1 /\ rpos = 1 + SampleLen
         \/ /\ rpos' \in Nat /\ rpos' >= 1 /\ Boundary(rpos') /\ rpos' + SampleLen = off[offcur - 1]
            /\ rpos = rpos' + SampleLen + SampleLen
<1>t. /\ SampleLen \in Nat \ {0} /\ offcur \in Nat /\ rpos \in Nat /\ offcur <= MaxSamples + 1
      /\ off \in [0 .. MaxSamples + 1 -> Nat] /\ MaxSamples \in Nat
  BY LenType, StateType
<1> USE <1>t
<1>1. offcur > 0 /\ rpos = off[offcur - 1] + SampleLen /\ InOrder(off, offcur) /\ off[0] = 1
  BY DEF ListInv
<1>2. rpos' = off[offcur'] /\ offcur' = IF offcur >= 2 THEN offcur - 2 ELSE 0
  BY DEF Prev
<1>3. CASE offcur = 1
  BY <1>1, <1>2, <1>3
<1>4. CASE offcur > 1
  <2>1. PICK c \in 1 .. MaxSamples : c = offcur - 1
    BY <1>4
  <2>2. off[c] = off[c - 1] + SampleLen \/ (c = 1 /\ off[c] = 1)
    BY <1>1, <2>1 DEF InOrder
  <2>3. rpos' = off[c - 1] /\ off[c - 1] \in Nat /\ Boundary(off[c - 1])
    BY <1>1, <1>2, <1>4, <2>1 DEF InOrder
  <2>4. off[c - 1] >= 1
    BY <2>3 DEF Boundary
  <2>5. CASE off[c] = off[c - 1] + SampleLen
    BY <1>1, <2>1, <2>3, <2>4, <2>5
  <2>6. CASE c = 1 /\ off[c] = 1
    BY <1>1, <2>1, <2>3, <2>6
  <2> QED BY <2>2, <2>5, <2>6
<1> QED BY <1>1, <1>3, <1>4

\* Every step of the reader keeps what it has read in agreement with the file.
LEMMA ReadKept ==
  ASSUME RawInv, Reader
  PROVE  ReadInv'
<1>t. /\ SampleLen \in Nat \ {0} /\ HeadLen \in Nat \ {0} /\ DataLen \in Nat \ {0}
      /\ SampleLen = HeadLen + DataLen /\ rpos \in Nat /\ Size \in Nat
  BY LenType, StateType, FileType DEF RawInv
<1>i. RawTypeOK /\ FileInv /\ WriterInv /\ ListInv /\ ReadInv
  BY DEF RawInv
<1>0. file' = file /\ Size' = Size /\ fails' = fails
  BY <1>i, WriterSame, FileFixed DEF Reader, writer
<1> USE <1>t
<1> SUFFICES ASSUME "cut" \notin fails
             PROVE  /\ rpc' \in {"rec", "wait", "take", "show"} => rpos' <= Size
                    /\ rpc' \in {"wait", "take"} => file[Here' + 1].s = rec'
                    /\ rpc' = "take" => rpos' + DataLen <= Size
                    /\ rpc' = "show" => file[rpos'].s = shown' /\ rec' = shown' /\ begin' = 0
  BY <1>0 DEF ReadInv
<1>r. /\ rpc \in {"rec", "wait", "take", "show"} => rpos <= Size
      /\ rpc \in {"wait", "take"} => file[Here + 1].s = rec
      /\ rpc = "take" => rpos + DataLen <= Size
      /\ rpc = "show" => file[rpos].s = shown /\ rec = shown /\ begin = 0
  BY <1>i DEF ReadInv
<1>1. CASE Watch \/ AwaitFirst \/ ReaderStart
  BY <1>1 DEF Watch, AwaitFirst, ReaderStart
<1>2. CASE Torn \/ GiveUp \/ Quit
  BY <1>2 DEF Torn, GiveUp, Quit, Ends
<1>3. CASE ReadHeader
  BY <1>3 DEF ReadHeader, Ends
<1>4. CASE GetRawRec
  <2>1. /\ rpc = "rec" /\ Size >= rpos + HeadLen /\ rpos' = rpos + HeadLen /\ rpc' = "wait"
        /\ rec' = file[rpos + 1].s
    BY <1>4 DEF GetRawRec
  <2>2. Here' = rpos
    BY <2>1 DEF Here
  <2> QED BY <2>1, <2>2
<1>5. CASE AtEnd
  BY <1>5, <1>i, <1>r, AtEndBack
<1>6. CASE Complete
  <2>1. rpc = "wait" /\ rpc' = "take" /\ rpos' = rpos /\ rec' = rec /\ Size - rpos >= DataLen
    BY <1>6 DEF Complete, reader
  <2>2. Here' = Here
    BY <2>1 DEF Here
  <2> QED BY <1>r, <2>1, <2>2
<1>7. CASE Take
  <2>1. rpc = "take"
    BY <1>7 DEF Take
  <2>2. Boundary(Here) /\ Here \in Nat /\ Here = rpos - HeadLen
    BY <1>i, <2>1, HereType DEF Reading
  <2>3. file[Here + SampleLen].s = rec /\ Here + SampleLen <= Size /\ rpos + DataLen = Here + SampleLen
    BY <1>i, <1>r, <2>1, <2>2, LastPart
  <2>4. \/ rpc' = "end"
        \/ rpc' = "rec" /\ rpos' = rpos + DataLen
        \/ rpc' = "show" /\ rpos' = rpos + DataLen /\ shown' = rec /\ rec' = rec /\ begin' = 0
    BY <1>7 DEF Take, Ends
  <2> QED BY <2>3, <2>4
<1>9. CASE NextSample \/ Triggered \/ Resume
  <2>1. rpc = "show" /\ rpc' = "rec" /\ rpos' = rpos
    BY <1>9 DEF NextSample, Triggered, Resume, Ask
  <2> QED BY <1>r, <2>1
<1>10. CASE Prev
  <2>1. rpc = "show" /\ rpc' = "rec"
    BY <1>10 DEF Prev, Ask
  <2>2. rpos' <= rpos
    BY <1>10, <1>i, <2>1, PrevBack
  <2>3. rpos' \in Nat
    BY <1>i, ListKept
  <2> QED BY <1>r, <2>1, <2>2, <2>3
<1>11. ASSUME Reset \/ \E t \in 1 .. Far : Branch(t)
       PROVE  rpc = "show" /\ rpc' = "rec" /\ rpos' <= Size
  <2>1. rpc = "show" /\ rpc' = "rec" /\ (rpos' = rpos \/ rpos' = off[0])
    BY <1>11 DEF Reset, Branch, Ask, Rewind
  <2>2. off[0] = 1 /\ Size > 0
    BY <1>i, <2>1 DEF ListInv
  <2> QED BY <1>r, <2>1, <2>2
<1>12. CASE Pause /\ Command
  BY <1>r, <1>12 DEF Pause, Command
<1> QED BY <1>1, <1>2, <1>3, <1>4, <1>5, <1>6, <1>7, <1>9, <1>10, <1>11, <1>12 DEF Reader, ReaderStep, Command

(***************************************************************************)
(* The reader's last command.                                              *)
(***************************************************************************)
\* The list of what was there at the last command.
LEMMA SeenKept ==
  ASSUME RawInv, Reader
  PROVE  SeenInv'
<1>0. file' = file /\ Samples' = Samples /\ fails' = fails
  BY WriterSame, FileFixed DEF RawInv, Reader, writer
<1>1. ask'.seen = ask.seen \/ ask'.seen = Samples
  <2>0. ask \in [cmd : {"start", "next", "prev", "reset", "branch"}, from : 0 .. MaxSamples,
                 seen : SUBSET (1 .. MaxSamples), time : 0 .. Far]
    BY DEF RawInv, RawTypeOK
  <2>1. ask' = ask \/ (\E c, t : Ask(c, t)) \/ ask' = [ask EXCEPT !.seen = Samples]
    BY DEF Reader, ReaderStep, Command, Watch, AwaitFirst, ReadHeader, GetRawRec, AtEnd, Torn,
           Complete, GiveUp, Take, Triggered, ReaderStart, NextSample, Prev, Reset, Branch, Resume,
           Pause, Quit, reader
  <2> QED BY <2>0, <2>1 DEF Ask
<1> QED BY <1>0, <1>1 DEF SeenInv, RawInv

\* What NextSample, Prev, Reset, Branch and Resume ask for.
LEMMA AskedFor ==
  ASSUME RawInv, "cut" \notin fails, NEW cmd, NEW time, Ask(cmd, time), file' = file,
         rec' = rec, shown' = shown
  PROVE  /\ Reading' /\ Here' = rpos' /\ ask'.cmd = cmd /\ ask'.from = shown /\ ask'.seen = Samples
         /\ ask'.time = time /\ Later' = {s \in Samples : s > shown}
         /\ Wanted' = {s \in Samples : s >= time /\ (time < shown \/ s > shown)}
BY DEF Ask, Reading, Here, Later, Wanted

\* The next sample: the last record shown is in front of the reader's offset.
LEMMA NextKept ==
  ASSUME RawInv, "cut" \notin fails, rpc = "show", Ask("next", 0), file' = file,
         rpos' = rpos, begin' = begin, rec' = rec, shown' = shown
  PROVE  NextInv'
<1>t. SampleLen \in Nat \ {0}
  BY LenType
<1>1. Here' = rpos /\ ask'.from = shown
  BY AskedFor
<1>2. /\ begin' = 0 /\ rpos - SampleLen = off[offcur - 1] /\ rpos > SampleLen
      /\ WholeAt(off[offcur - 1]) /\ file[rpos].s = shown
  BY <1>t, ShowFacts
<1>3. WholeAt(Here - SampleLen)'
  <2>1. (Here - SampleLen)' = off[offcur - 1]
    BY <1>1, <1>2
  <2> QED BY <1>2, <2>1 DEF WholeAt, Size, Part
<1> QED BY <1>1, <1>2, <1>3 DEF NextInv

\* The previous sample: the last record shown is behind the reader's offset, or the first.
LEMMA PrevKept ==
  ASSUME RawInv, "cut" \notin fails, rpc = "show", Prev, file' = file, off' = off,
         rec' = rec, shown' = shown
  PROVE  PrevInv'
<1>t. SampleLen \in Nat \ {0} /\ Size \in Nat /\ RawTypeOK /\ FileInv /\ ListInv
  BY LenType, FileType DEF RawInv
<1>q. PICK q : q = off[offcur - 1]
  OBVIOUS
<1>1. /\ q \in Nat /\ q >= 1 /\ Boundary(q) /\ rpos = q + SampleLen /\ rpos <= Size
      /\ WholeAt(q) /\ file[q + 1].s = shown /\ begin = 0 /\ shown \in Samples
  BY <1>q, ShowFacts
<1>2. Here' = rpos' /\ ask'.from = shown /\ ask'.seen = Samples /\ begin' = begin
  BY AskedFor DEF Prev
<1>3. PICK o : o = rpos'
  OBVIOUS
<1>4. \/ o = 1 /\ q = 1
      \/ o \in Nat /\ o >= 1 /\ Boundary(o) /\ o + SampleLen = q
  BY <1>t, <1>q, <1>1, <1>3, PrevBack
<1>5. CASE o = 1 /\ q = 1
  <2>1. Here' = q
    BY <1>2, <1>3, <1>5
  <2>2. WholeAt(Here)'
    BY <1>1, <2>1 DEF WholeAt, Size, Part
  <2> QED BY <1>1, <1>2, <1>5, <2>1, <2>2 DEF PrevInv
<1>6. CASE o \in Nat /\ o >= 1 /\ Boundary(o) /\ o + SampleLen = q
  <2>1. WholeAt(o)
    BY <1>t, <1>1, <1>6, Whole
  <2>2. Here' = o /\ (Here + SampleLen)' = q
    BY <1>2, <1>3, <1>6
  <2>3. WholeAt(Here)' /\ WholeAt(Here + SampleLen)'
    BY <1>1, <2>1, <2>2 DEF WholeAt, Size, Part
  <2>4. (file[Here + SampleLen + 1])'.s = shown
    BY <1>1, <2>2
  <2> QED BY <1>1, <1>2, <2>3, <2>4 DEF PrevInv
<1> QED BY <1>4, <1>5, <1>6

\* The first sample.
LEMMA ResetKept ==
  ASSUME RawInv, "cut" \notin fails, rpc = "show", Reset, file' = file, off' = off,
         rec' = rec, shown' = shown
  PROVE  ResetInv'
<1>1. begin = 0 /\ shown \in Samples
  BY ShowFacts
<1>2. Here' = rpos' /\ ask'.seen = Samples
  BY AskedFor DEF Reset
<1>3. rpos' = 1 /\ begin' = begin
  BY DEF Reset, Rewind, RawInv, ListInv
<1> QED BY <1>1, <1>2, <1>3 DEF ResetInv

\* A branch: nothing that is wanted is in front of the reader's offset.
LEMMA BranchKept ==
  ASSUME RawInv, "cut" \notin fails, rpc = "show", NEW time \in 0 .. Far, Ask("branch", time),
         begin' = time, file' = file, rec' = rec, shown' = shown,
         rpos' = (IF time < rec THEN 1 ELSE rpos) \/ (rpos' = rpos /\ time >= rec)
  PROVE  BranchInv'
<1>t. /\ SampleLen \in Nat \ {0} /\ Size \in Nat /\ time \in Int /\ RawTypeOK /\ FileInv
      /\ rpos \in Nat
  BY LenType, FileType, StateType DEF RawInv, Far
<1>0. Size' = Size
  BY FileFixed
<1>1. /\ Here' = rpos' /\ ask'.from = shown /\ ask'.seen = Samples /\ ask'.time = time
      /\ Wanted' = {s \in Samples : s >= time /\ (time < shown \/ s > shown)}
  BY AskedFor
<1>2. /\ rpos > 1 /\ file[rpos].s = shown /\ rec = shown /\ rpos <= Size /\ shown \in Samples
  BY <1>t, ShowFacts
<1>3. shown \in Nat
  BY <1>t, <1>2, PlaceOf
<1>4. CASE time < rec
  <2>1. rpos' = 1
    BY <1>2, <1>3, <1>4, <1>t
  <2>2. ~ (ask'.time >= ask'.from)
    BY <1>1, <1>2, <1>3, <1>4, <1>t
  <2>3. \A i \in 2 .. Size' : ~ (i <= Here')
    BY <1>0, <1>1, <1>t, <2>1
  <2> QED BY <1>1, <2>2, <2>3 DEF BranchInv
<1>5. CASE time >= rec
  <2>1. Here' = rpos
    BY <1>1, <1>2, <1>3, <1>5, <1>t
  <2>2. \A i \in 2 .. Size' : i <= Here' => file'[i].s \notin Wanted'
    <3> SUFFICES ASSUME NEW i \in 2 .. Size, i <= rpos, file[i].s \in Wanted' PROVE FALSE
      BY <1>0, <2>1
    <3>1. file[i].s > shown
      BY <1>1, <1>2, <1>3, <1>5, <1>t
    <3>2. i \in 1 .. Size /\ rpos \in 1 .. Size /\ file[i].s \in Nat
      BY <1>2, <1>t, FileType
    <3>3. i < rpos => file[i].s <= file[rpos].s
      BY <1>t, <3>2 DEF FileInv
    <3> QED BY <1>2, <1>3, <1>t, <3>1, <3>2, <3>3
  <2>3. Here' > 1 /\ file'[Here'].s >= ask'.from
    BY <1>1, <1>2, <1>3, <2>1
  <2> QED BY <1>1, <2>2, <2>3 DEF BranchInv
<1> QED BY <1>2, <1>3, <1>4, <1>5, <1>t

\* The types of the last command.
LEMMA AskType ==
  ASSUME RawTypeOK
  PROVE  /\ ask.from \in Nat /\ ask.time \in Nat /\ ask.seen \subseteq Nat
         /\ ask.cmd \in {"start", "next", "prev", "reset", "branch"}
<1>1. ask \in [cmd : {"start", "next", "prev", "reset", "branch"}, from : 0 .. MaxSamples,
              seen : SUBSET (1 .. MaxSamples), time : 0 .. MaxSamples + 1]
  BY DEF RawTypeOK, Far
<1> QED BY <1>1

\* The step back at the end of the file is one to its last sample.
LEMMA AtEndFacts ==
  ASSUME RawInv, "cut" \notin fails, AtEnd, Reader
  PROVE  /\ begin' = 0 /\ ask' = ask /\ Here = Size /\ ~ WholeAt(Here) /\ rpc' = "rec"
         /\ Here = 1 => Samples = {} /\ Here' = 1
         /\ Here > 1 =>
              /\ Here > SampleLen /\ Here' = Here - SampleLen
              /\ WholeAt(Here - SampleLen) /\ file[Here - SampleLen + 1].s = file[Here].s
              /\ \A s \in Samples : s <= file[Here - SampleLen + 1].s
<1>t. /\ RawTypeOK /\ FileInv /\ ListInv /\ ReadInv /\ WriterInv
      /\ SampleLen \in Nat \ {0} /\ Size \in Nat /\ rpos \in Nat
  BY LenType, FileType, StateType DEF RawInv
<1> USE <1>t
<1>1. /\ (rpos' = 1 /\ rpos = 1) \/ rpos' = rpos - SampleLen
      /\ rpos' \in Nat /\ rpos' >= 1
      /\ rpc = "rec" /\ rpc' = "rec" /\ begin' = 0 /\ Size <= rpos /\ Here = rpos /\ Here' = rpos'
      /\ ask' = ask
  BY AtEndBack
<1>2. Here = Size /\ rpos = Size
  BY <1>1 DEF ReadInv
<1>3. ~ WholeAt(Here)
  BY <1>1, <1>2 DEF WholeAt
<1>4. ASSUME Here = 1 PROVE Samples = {} /\ Here' = 1
  <2>1. Here' = 1
    BY <1>1, <1>4
  <2>2. ASSUME NEW s \in Samples PROVE FALSE
    <3>1. PICK o \in Nat : o >= 1 /\ o + SampleLen <= Size
      BY <2>2, PlaceOf
    <3> QED BY <1>2, <1>4, <3>1
  <2> QED BY <2>1, <2>2
<1>5. ASSUME Here > 1
      PROVE  /\ Here > SampleLen /\ Here' = Here - SampleLen
             /\ WholeAt(Here - SampleLen) /\ file[Here - SampleLen + 1].s = file[Here].s
             /\ \A s \in Samples : s <= file[Here - SampleLen + 1].s
  <2>1. PICK b \in Nat : b = rpos - SampleLen /\ b >= 1 /\ Here' = b
    BY <1>1, <1>5
  <2>2. Boundary(b)
    <3>1. ListInv'
      BY ListKept
    <3>2. Boundary(Here)'
      BY <1>1, <3>1 DEF ListInv, Reading, IsNext
    <3> QED BY <2>1, <3>2 DEF Boundary
  <2>3. b + SampleLen = Size
    BY <1>2, <2>1
  <2>4. WholeAt(b) /\ file[b + 1].s = file[Size].s
    BY <2>2, <2>3, Whole, LastPart
  <2>5. ASSUME NEW s \in Samples PROVE s <= file[b + 1].s
    <3>1. PICK o \in Nat : o >= 1 /\ Boundary(o) /\ o + SampleLen <= Size /\ file[o + 1].s = s
      BY PlaceOf
    <3>2. o <= b /\ o < Size /\ b < Size
      BY <2>3, <3>1
    <3> QED BY <2>2, <3>1, <3>2, PlacesOrdered
  <2>6. b = Here - SampleLen /\ Here > SampleLen
    BY <1>2, <2>1
  <2> QED BY <1>2, <2>1, <2>4, <2>5, <2>6
<1> QED BY <1>1, <1>2, <1>3, <1>4, <1>5

\* The step back at the end of the file: the last sample is shown again, as there is nothing
\* that was asked for.
LEMMA AtEndKept ==
  ASSUME RawInv, "cut" \notin fails, AtEnd, Reader, file' = file
  PROVE  /\ NextInv => NextInv'
         /\ ~ PrevInv /\ ~ ResetInv
         /\ BranchInv => BranchInv'
<1>t. /\ RawTypeOK /\ FileInv /\ ListInv /\ SeenInv /\ SampleLen \in Nat \ {0} /\ Size \in Nat
      /\ ask.from \in Nat /\ ask.time \in Nat /\ ask.seen \subseteq Samples
  BY LenType, FileType, AskType DEF RawInv, SeenInv
<1> USE <1>t
<1>1. /\ begin' = 0 /\ ask' = ask /\ Here = Size /\ ~ WholeAt(Here) /\ rpc' = "rec"
      /\ Here = 1 => Samples = {} /\ Here' = 1
      /\ Here > 1 =>
           /\ Here > SampleLen /\ Here' = Here - SampleLen
           /\ WholeAt(Here - SampleLen) /\ file[Here - SampleLen + 1].s = file[Here].s
           /\ \A s \in Samples : s <= file[Here - SampleLen + 1].s
  BY AtEndFacts
<1>2. Later' = Later /\ Wanted' = Wanted
  BY <1>1 DEF Later, Wanted
<1>3. Here > 1 => WholeAt(Here)' /\ file'[Here' + 1] = file[Here - SampleLen + 1]
  <2> HAVE Here > 1
  <2> PICK b : b = Here - SampleLen
    OBVIOUS
  <2>1. Here' = b /\ WholeAt(b)
    BY <1>1
  <2>2. WholeAt(Here)'
    BY <2>1 DEF WholeAt, Size, Part
  <2> QED BY <2>1, <2>2
<1>4. ~ PrevInv
  BY <1>1 DEF PrevInv
<1>5. ~ ResetInv
  BY <1>1 DEF ResetInv
<1>6. NextInv => NextInv'
  <2>1. SUFFICES ASSUME Here > SampleLen, file[Here].s = ask.from PROVE NextInv'
    BY <1>1 DEF NextInv
  <2>2. Here > 1
    BY <1>1, <2>1
  <2>3. Later = {}
    <3> SUFFICES ASSUME NEW s \in ask.seen, s > ask.from PROVE FALSE
      BY DEF Later
    <3>1. s <= ask.from
      BY <1>1, <2>1, <2>2
    <3>2. s \in Nat
      BY PlaceOf
    <3> QED BY <3>1, <3>2
  <2> QED BY <1>1, <1>2, <1>3, <2>1, <2>2, <2>3 DEF NextInv
<1>7. BranchInv => BranchInv'
  <2> HAVE BranchInv
  <2>1. CASE Here = 1
    BY <1>1, <2>1 DEF BranchInv
  <2>2. CASE Here > 1
    <3>1. Wanted = {}
      <4>1. CASE \A i \in 2 .. Size : i <= Here => file[i].s \notin Wanted
        <5> SUFFICES ASSUME NEW s \in Wanted PROVE FALSE
          OBVIOUS
        <5>1. s \in Samples
          BY DEF Wanted
        <5>2. PICK o \in Nat : o >= 1 /\ o + SampleLen <= Size /\ file[o + 1].s = s
          BY <5>1, PlaceOf
        <5>3. o + 1 \in 2 .. Size /\ o + 1 <= Here
          BY <1>1, <5>2
        <5> QED BY <4>1, <5>2, <5>3
      <4> QED BY <1>1, <2>2, <4>1 DEF BranchInv
    <3>2. \A s \in ask'.seen : s <= file'[Here' + 1].s
      BY <1>1, <1>3, <2>2
    <3> QED BY <1>1, <1>2, <1>3, <2>2, <3>1, <3>2 DEF BranchInv
  <2>3. Here >= 1 /\ Here \in Nat
    BY <1>1, HereType DEF AtEnd, Reading
  <2> QED BY <2>1, <2>2, <2>3
<1> QED BY <1>4, <1>5, <1>6, <1>7

\* A sample that is skipped (begintime) is not one that was asked for.
LEMMA TakeKept ==
  ASSUME RawInv, "cut" \notin fails, Take, Reader, rpc' = "rec", file' = file
  PROVE  /\ ~ NextInv /\ ~ PrevInv /\ ~ ResetInv
         /\ BranchInv => BranchInv'
<1>t. /\ RawTypeOK /\ FileInv /\ ListInv /\ ReadInv /\ SampleLen \in Nat \ {0} /\ Size \in Nat /\ rpos \in Nat
      /\ rec \in Nat /\ begin \in Nat /\ HeadLen \in Nat /\ DataLen \in Nat /\ SampleLen = HeadLen + DataLen
      /\ ask.from \in Nat /\ ask.time \in Nat
  BY LenType, FileType, StateType, AskType DEF RawInv
<1> USE <1>t
<1>1. rpc = "take" /\ begin > rec /\ rpos' = rpos + DataLen /\ begin' = begin /\ ask' = ask
  BY DEF Take, Ends
<1>2. Boundary(Here) /\ Here \in Nat /\ Here >= 1 /\ Here = rpos - HeadLen /\ Here' = Here + SampleLen
  BY <1>1, HereType DEF Reading, Here
<1>3. file[Here + 1].s = rec /\ Here + SampleLen <= Size
  BY <1>1, <1>2 DEF ReadInv
<1>4. ~ NextInv /\ ~ PrevInv /\ ~ ResetInv
  BY <1>1 DEF NextInv, PrevInv, ResetInv
<1>5. Wanted' = Wanted /\ Size' = Size
  BY <1>1 DEF Wanted, Size
<1>6. BranchInv => BranchInv'
  <2>1. SUFFICES ASSUME begin = ask.time,
                        \A i \in 2 .. Size : i <= Here => file[i].s \notin Wanted,
                        ask.time >= ask.from =>
                          \/ Here = 1 /\ ask.from = 0
                          \/ Here > 1 /\ file[Here].s >= ask.from
                 PROVE  BranchInv'
    BY <1>1 DEF BranchInv
  <2>2. ASSUME NEW i \in 2 .. Size, i <= Here + SampleLen PROVE file[i].s \notin Wanted
    <3>1. CASE i <= Here
      BY <2>1, <3>1
    <3>2. CASE i > Here
      <4>1. PICK k \in 1 .. SampleLen : i = Here + k
        <5>1. i - Here \in 1 .. SampleLen /\ i = Here + (i - Here)
          BY <1>2, <2>2, <3>2
        <5> QED BY <5>1
      <4>2. file[i].s = rec
        <5>1. file[Here + k] = Part(file[Here + 1].s, k)
          BY <1>2, <4>1, PartAt
        <5> QED BY <1>3, <4>1, <5>1 DEF Part
      <4> QED BY <1>1, <2>1, <4>2 DEF Wanted
    <3> QED BY <1>2, <3>1, <3>2
  <2>3. file[Here + SampleLen].s = rec
    BY <1>2, <1>3, LastPart
  <2>4. ask.time >= ask.from => rec >= ask.from
    <3>1. SUFFICES ASSUME Here > 1, file[Here].s >= ask.from PROVE rec >= ask.from
      BY <2>1
    <3>2. Here \in 1 .. Size /\ Here + 1 \in 1 .. Size /\ Here < Here + 1
      BY <1>2, <1>3
    <3>3. file[Here].s <= file[Here + 1].s /\ file[Here].s \in Nat
      <4>1. file[Here].s \in Nat /\ file[Here + 1].s \in Nat
        BY <3>2, FileType
      <4> QED BY <3>2, <4>1 DEF FileInv
    <3> QED BY <1>3, <3>1, <3>3
  <2>5. /\ \A i \in 2 .. Size' : i <= Here' => file'[i].s \notin Wanted'
        /\ Here' > 1 /\ file'[Here'].s = rec
    BY <1>2, <1>5, <2>2, <2>3
  <2> QED BY <1>1, <2>1, <2>4, <2>5 DEF BranchInv
<1> QED BY <1>4, <1>6

\* The least element.
LEMMA MinIs ==
  ASSUME NEW S, S \subseteq Int, NEW m \in S, \A s \in S : m <= s
  PROVE  Min(S) = m
<1> DEFINE M(x) == x \in S /\ \A y \in S : x <= y
<1>1. ASSUME NEW x, M(x) PROVE x = m
  <2>1. x \in Int /\ m \in Int /\ x <= m /\ m <= x
    BY <1>1
  <2> QED BY <2>1
<1>3. M(m)
  OBVIOUS
<1>2. Min(S) = CHOOSE x : M(x)
  BY DEF Min
<1> HIDE DEF M
<1> QED BY <1>1, <1>2, <1>3

\* The greatest element.
LEMMA MaxIs ==
  ASSUME NEW S, S \subseteq Int, NEW m \in S, \A s \in S : m >= s
  PROVE  Max(S) = m
<1> DEFINE M(x) == x \in S /\ \A y \in S : x >= y
<1>1. ASSUME NEW x, M(x) PROVE x = m
  <2>1. x \in Int /\ m \in Int /\ x <= m /\ m <= x
    BY <1>1
  <2> QED BY <2>1
<1>3. M(m)
  OBVIOUS
<1>2. Max(S) = CHOOSE x : M(x)
  BY DEF Max
<1> HIDE DEF M
<1> QED BY <1>1, <1>2, <1>3

\* Every step of the reader keeps it at the record asked for, or in front of it.
LEMMA AskKept ==
  ASSUME RawInv, Reader
  PROVE  AskInv'
<1>t. RawTypeOK /\ FileInv /\ WriterInv /\ ListInv /\ AskInv /\ rec \in Nat /\ rpos \in Nat
  BY StateType DEF RawInv
<1> USE <1>t
<1>0. file' = file /\ fails' = fails
  BY WriterSame DEF Reader, writer
<1> SUFFICES ASSUME "cut" \notin fails
             PROVE  /\ rpc' \in {"none", "fork", "first", "header"} =>
                         /\ ask'.cmd = "start" /\ ask'.from = 0 /\ ask'.seen = {}
                         /\ begin' = ask'.time
                    /\ Reading' =>
                         CASE ask'.cmd = "next"  -> NextInv'
                           [] ask'.cmd = "prev"  -> PrevInv'
                           [] ask'.cmd = "reset" -> ResetInv'
                           [] OTHER -> BranchInv'
  BY <1>0 DEF AskInv
<1>a. /\ rpc \in {"none", "fork", "first", "header"} =>
           ask.cmd = "start" /\ ask.from = 0 /\ ask.seen = {} /\ begin = ask.time
      /\ Reading =>
           CASE ask.cmd = "next"  -> NextInv
             [] ask.cmd = "prev"  -> PrevInv
             [] ask.cmd = "reset" -> ResetInv
             [] OTHER -> BranchInv
  BY DEF AskInv
<1>1. CASE Watch \/ AwaitFirst \/ ReaderStart
  BY <1>1, <1>a DEF Watch, AwaitFirst, ReaderStart, reader, Reading
<1>2. CASE rpc' \in {"end", "show"}
  BY <1>2 DEF Reading
<1>3. CASE ReadHeader /\ rpc' # "end"
  <2>1. /\ rpc = "header" /\ rpc' = "rec" /\ rpos' = 1 /\ begin' = begin
        /\ ask' = [ask EXCEPT !.seen = Samples]
    BY <1>3 DEF ReadHeader, Ends
  <2>2. ask \in [cmd : {"start", "next", "prev", "reset", "branch"}, from : 0 .. MaxSamples,
                 seen : SUBSET (1 .. MaxSamples), time : 0 .. Far]
    BY DEF RawTypeOK
  <2>3. ask'.cmd = "start" /\ ask'.from = 0 /\ ask'.time = ask.time /\ begin = ask.time /\ Here' = 1
    BY <1>a, <2>1, <2>2 DEF Here
  <2>4. BranchInv'
    BY <2>1, <2>3 DEF BranchInv
  <2> QED BY <2>1, <2>3, <2>4
<1>4. CASE GetRawRec \/ Complete
  <2>1. Reading /\ rpc' \in {"wait", "take"} /\ ask' = ask /\ begin' = begin
    BY <1>4 DEF GetRawRec, Complete, Reading, reader
  <2>2. Here' = Here
    <3>1. HeadLen \in Nat
      BY LenType
    <3>2. CASE GetRawRec
      BY <3>1, <3>2 DEF GetRawRec, Here
    <3>3. CASE Complete
      BY <3>3 DEF Complete, Here, reader
    <3> QED BY <1>4, <3>2, <3>3
  <2>3. /\ NextInv => NextInv'
        /\ PrevInv => PrevInv'
        /\ ResetInv => ResetInv'
        /\ BranchInv => BranchInv'
    <3>1. /\ WholeAt(Here)' = WholeAt(Here) /\ WholeAt(Here - SampleLen)' = WholeAt(Here - SampleLen)
          /\ WholeAt(Here + SampleLen)' = WholeAt(Here + SampleLen) /\ Size' = Size
      BY <1>0, <2>2 DEF WholeAt, Size, Part
    <3>2. Later' = Later /\ Wanted' = Wanted
      BY <2>1 DEF Later, Wanted
    <3> QED BY <1>0, <2>1, <2>2, <3>1, <3>2 DEF NextInv, PrevInv, ResetInv, BranchInv
  <2> QED BY <1>a, <2>1, <2>3
<1>5. CASE AtEnd
  <2>1. /\ NextInv => NextInv'
        /\ ~ PrevInv /\ ~ ResetInv
        /\ BranchInv => BranchInv'
    BY <1>0, <1>5, AtEndKept
  <2>2. ask' = ask /\ rpc = "rec" /\ rpc' = "rec"
    BY <1>5 DEF AtEnd
  <2> QED BY <1>a, <2>1, <2>2 DEF Reading
<1>6. CASE Take /\ rpc' = "rec"
  <2>1. /\ ~ NextInv /\ ~ PrevInv /\ ~ ResetInv
        /\ BranchInv => BranchInv'
    BY <1>0, <1>6, TakeKept
  <2>2. ask' = ask /\ rpc = "take"
    BY <1>6 DEF Take
  <2> QED BY <1>6, <1>a, <2>1, <2>2 DEF Reading
<1>7. CASE (NextSample /\ Command) \/ Triggered
  <2>1. /\ Ask("next", 0) /\ rpc = "show" /\ rpos' = rpos /\ begin' = begin /\ rec' = rec
        /\ shown' = shown
    BY <1>7 DEF NextSample, Triggered, Command, Ask
  <2>2. NextInv' /\ ask'.cmd = "next" /\ Reading'
    BY <1>0, <2>1, NextKept, AskedFor
  <2> QED BY <2>2 DEF Reading
<1>8. CASE Prev /\ Command
  <2>1. rpc = "show" /\ Ask("prev", 0) /\ off' = off /\ rec' = rec /\ shown' = shown
    BY <1>8 DEF Prev, Command, Ask
  <2>2. PrevInv' /\ ask'.cmd = "prev" /\ Reading'
    BY <1>0, <1>8, <2>1, PrevKept, AskedFor
  <2> QED BY <2>2 DEF Reading
<1>9. CASE Reset /\ Command
  <2>1. rpc = "show" /\ Ask("reset", 0) /\ off' = off /\ rec' = rec /\ shown' = shown
    BY <1>9 DEF Reset, Command, Ask
  <2>2. ResetInv' /\ ask'.cmd = "reset" /\ Reading'
    BY <1>0, <1>9, <2>1, ResetKept, AskedFor
  <2> QED BY <2>2 DEF Reading
<1>10. CASE ((\E t \in 1 .. Far : Branch(t)) \/ Resume) /\ Command
  <2>1. rpc = "show" /\ rec' = rec /\ shown' = shown /\ off[0] = 1
    BY <1>10 DEF Branch, Resume, Command, Ask, ListInv
  <2>2. PICK time \in 0 .. Far :
           /\ Ask("branch", time) /\ begin' = time
           /\ rpos' = (IF time < rec THEN 1 ELSE rpos) \/ (rpos' = rpos /\ time >= rec)
    <3>1. CASE \E t \in 1 .. Far : Branch(t)
      BY <2>1, <3>1 DEF Branch, Rewind
    <3>2. CASE Resume
      <4>0. rec \in 0 .. MaxSamples
        BY DEF RawTypeOK
      <4>1. Far \in 0 .. Far /\ rec <= Far
        BY <4>0 DEF Far
      <4> QED BY <3>2, <4>1 DEF Resume
    <3> QED BY <1>10, <3>1, <3>2
  <2>3. BranchInv' /\ ask'.cmd = "branch" /\ Reading'
    BY <1>0, <2>1, <2>2, BranchKept, AskedFor
  <2> QED BY <2>3 DEF Reading
<1> QED
  BY <1>1, <1>2, <1>3, <1>4, <1>5, <1>6, <1>7, <1>8, <1>9, <1>10
  DEF Reader, ReaderStep, Command, Torn, GiveUp, Quit, Ends, Take, Pause

(***************************************************************************)
(* The sample that is shown.                                               *)
(***************************************************************************)
\* The sample that comes on the screen.
LEMMA TakenIsShown ==
  ASSUME RawInv, "cut" \notin fails, Take, Reader, rpc' = "show"
  PROVE  /\ Reading /\ shown' = rec /\ ask' = ask /\ begin <= rec
         /\ WholeAt(Here) /\ file[Here + 1].s = rec /\ rec \in Samples
         /\ \A s \in ask.seen : s \in Samples /\ s \in Nat
         /\ \A s \in ask.seen : rec <= s => rec \in ask.seen
         /\ \A s \in Samples :
              \E o \in Nat : o >= 1 /\ WholeAt(o) /\ file[o + 1].s = s /\ (s <= rec <=> o <= Here)
<1>t. /\ RawTypeOK /\ FileInv /\ ListInv /\ ReadInv /\ SeenInv /\ SampleLen \in Nat \ {0}
      /\ SampleLen = HeadLen + DataLen
      /\ Size \in Nat /\ rpos \in Nat /\ rec \in Nat /\ HeadLen \in Nat /\ DataLen \in Nat
  BY LenType, FileType, StateType DEF RawInv
<1> USE <1>t
<1>1. rpc = "take" /\ Reading /\ begin <= rec /\ shown' = rec /\ ask' = ask
  BY DEF Take, Ends, Reading
<1>2. Boundary(Here) /\ Here \in Nat /\ Here >= 1 /\ Here = rpos - HeadLen
  BY <1>1, HereType
<1>3. file[Here + 1].s = rec /\ Here + SampleLen <= Size
  BY <1>1, <1>2 DEF ReadInv
<1>4. WholeAt(Here) /\ rec \in Samples
  BY <1>2, <1>3, Whole, InFile
<1>5. /\ \A s \in ask.seen : s \in Samples /\ s \in Nat
      /\ \A s \in ask.seen : rec <= s => rec \in ask.seen
  BY <1>4, PlaceOf DEF SeenInv
<1>6. ASSUME NEW s \in Samples
      PROVE  \E o \in Nat : o >= 1 /\ WholeAt(o) /\ file[o + 1].s = s /\ (s <= rec <=> o <= Here)
  <2>1. PICK o \in Nat : o >= 1 /\ Boundary(o) /\ o + SampleLen <= Size /\ WholeAt(o) /\ file[o + 1].s = s
    BY PlaceOf
  <2>2. o < Size /\ Here < Size
    BY <1>2, <1>3, <2>1
  <2>3. s <= rec <=> o <= Here
    BY <1>2, <1>3, <2>1, <2>2, PlacesOrdered
  <2> QED BY <2>1, <2>3
<1> QED BY <1>1, <1>3, <1>4, <1>5, <1>6

\* The places of two samples.
LEMMA PlacesApart ==
  ASSUME RawTypeOK, FileInv, NEW o \in Nat, NEW b \in Nat, o >= 1, b >= 1, WholeAt(o), WholeAt(b)
  PROVE  /\ file[o + 1].s \in Nat /\ file[b + 1].s \in Nat
         /\ file[o + 1].s <= file[b + 1].s <=> o <= b
         /\ o < b => o + SampleLen <= b
         /\ file[o + SampleLen].s = file[o + 1].s
<1>1. Boundary(o) /\ Boundary(b)
  BY WholeBoundary
<1>2. o + SampleLen <= Size /\ b + SampleLen <= Size /\ SampleLen \in Nat \ {0} /\ Size \in Nat
  BY LenType, FileType DEF WholeAt
<1>3. o < Size /\ b < Size
  BY <1>2
<1>4. o < b => o + SampleLen <= b
  BY <1>1, GapBoundary
<1> QED BY <1>1, <1>2, <1>3, <1>4, PlacesOrdered, LastPart

\* The sample that is shown after MSAMPNEXT.
LEMMA NextShown ==
  ASSUME RawInv, "cut" \notin fails, Take, Reader, rpc' = "show", NextInv
  PROVE  IF Later # {} THEN shown' = Min(Later) ELSE shown' \in Samples /\ ~ shown' < ask.from
<1>t. RawTypeOK /\ FileInv /\ ListInv /\ SampleLen \in Nat \ {0} /\ rec \in Nat /\ ask.from \in Nat
  BY LenType, StateType, AskType DEF RawInv
<1> USE <1>t
<1>1. /\ Reading /\ shown' = rec
      /\ WholeAt(Here) /\ file[Here + 1].s = rec /\ rec \in Samples
      /\ \A s \in ask.seen : s \in Samples /\ s \in Nat
      /\ \A s \in ask.seen : rec <= s => rec \in ask.seen
  BY TakenIsShown
<1>2. Here \in Nat /\ Here >= 1
  BY <1>1, HereType
<1>3. CASE Here > SampleLen /\ WholeAt(Here - SampleLen) /\ file[Here].s = ask.from
  <2>1. PICK b \in Nat : b >= 1 /\ b + SampleLen = Here /\ WholeAt(b)
    <3>1. Here - SampleLen \in Nat /\ Here - SampleLen >= 1 /\ (Here - SampleLen) + SampleLen = Here
      BY <1>2, <1>3
    <3> QED BY <1>3, <3>1
  <2>2. file[b + 1].s = ask.from /\ ask.from < rec
    <3>1. /\ file[b + 1].s <= file[b + 1].s <=> b <= b
          /\ file[b + SampleLen].s = file[b + 1].s
      BY <2>1, PlacesApart
    <3>2. file[Here + 1].s <= file[b + 1].s <=> Here <= b
      BY <1>1, <1>2, <2>1, PlacesApart
    <3> QED BY <1>1, <1>2, <1>3, <2>1, <3>1, <3>2
  <2>3. ASSUME NEW s \in Later PROVE rec <= s
    <3>1. s \in Samples /\ s \in Nat /\ s > ask.from
      BY <1>1 DEF Later
    <3>2. PICK o \in Nat : o >= 1 /\ WholeAt(o) /\ file[o + 1].s = s
      BY <3>1, PlaceOf
    <3>3. ~ o <= b /\ (b < o => b + SampleLen <= o)
      BY <2>1, <2>2, <3>1, <3>2, PlacesApart
    <3>4. Here <= o
      BY <2>1, <3>3
    <3> QED BY <1>1, <1>2, <3>2, <3>4, PlacesApart
  <2>4. CASE Later # {}
    <3>1. rec \in Later
      BY <1>1, <2>2, <2>3, <2>4 DEF Later
    <3>2. Later \subseteq Int
      BY <1>1 DEF Later
    <3> QED BY <1>1, <2>3, <2>4, <3>1, <3>2, MinIs
  <2>5. CASE Later = {}
    BY <1>1, <2>2, <2>5
  <2> QED BY <2>4, <2>5
<1>4. CASE WholeAt(Here) /\ file[Here + 1].s = ask.from /\ Later = {}
  BY <1>1, <1>4
<1> QED BY <1>3, <1>4 DEF NextInv

\* The sample that is shown after MSAMPPREV.
LEMMA PrevShown ==
  ASSUME RawInv, "cut" \notin fails, Take, Reader, rpc' = "show", PrevInv
  PROVE  shown' = IF Earlier # {} THEN Max(Earlier) ELSE ask.from
<1>t. RawTypeOK /\ FileInv /\ ListInv /\ SampleLen \in Nat \ {0} /\ rec \in Nat /\ ask.from \in Nat
  BY LenType, StateType, AskType DEF RawInv
<1> USE <1>t
<1>1. /\ Reading /\ shown' = rec
      /\ WholeAt(Here) /\ file[Here + 1].s = rec /\ rec \in Samples
      /\ \A s \in ask.seen : s \in Samples /\ s \in Nat
  BY TakenIsShown
<1>2. Here \in Nat /\ Here >= 1
  BY <1>1, HereType
<1>3. CASE Here = 1 /\ file[Here + 1].s = ask.from
  <2>1. ASSUME NEW s \in Earlier PROVE FALSE
    <3>1. s \in Samples /\ s \in Nat /\ s < ask.from
      BY <1>1 DEF Earlier
    <3>2. PICK o \in Nat : o >= 1 /\ WholeAt(o) /\ file[o + 1].s = s
      BY <3>1, PlaceOf
    <3>3. file[Here + 1].s <= file[o + 1].s <=> Here <= o
      BY <1>1, <1>2, <3>2, PlacesApart
    <3> QED BY <1>3, <3>1, <3>2, <3>3
  <2> QED BY <1>1, <1>3, <2>1
<1>4. CASE WholeAt(Here + SampleLen) /\ file[Here + SampleLen + 1].s = ask.from
  <2>1. PICK b \in Nat : b >= 1 /\ b = Here + SampleLen /\ WholeAt(b) /\ file[b + 1].s = ask.from
    BY <1>2, <1>4
  <2>2. rec < ask.from
    <3>1. file[b + 1].s <= file[Here + 1].s <=> b <= Here
      BY <1>1, <1>2, <2>1, PlacesApart
    <3> QED BY <1>1, <1>2, <2>1, <3>1
  <2>3. rec \in Earlier
    <3>1. ask.from \in ask.seen
      BY DEF PrevInv
    <3>2. \A s \in ask.seen : rec <= s => rec \in ask.seen
      BY TakenIsShown
    <3> QED BY <2>2, <3>1, <3>2 DEF Earlier
  <2>4. ASSUME NEW s \in Earlier PROVE rec >= s
    <3>1. s \in Samples /\ s \in Nat /\ s < ask.from
      BY <1>1 DEF Earlier
    <3>2. PICK o \in Nat : o >= 1 /\ WholeAt(o) /\ file[o + 1].s = s
      BY <3>1, PlaceOf
    <3>3. ~ b <= o
      BY <2>1, <3>1, <3>2, PlacesApart
    <3>4. Here < o => Here + SampleLen <= o
      BY <1>1, <1>2, <3>2, PlacesApart
    <3>5. o <= Here
      BY <1>2, <2>1, <3>3, <3>4
    <3> QED BY <1>1, <1>2, <3>2, <3>5, PlacesApart
  <2>5. Earlier \subseteq Int
    BY <1>1 DEF Earlier
  <2> QED BY <1>1, <2>3, <2>4, <2>5, MaxIs
<1> QED BY <1>3, <1>4 DEF PrevInv

\* The sample that is shown after MRESET.
LEMMA ResetShown ==
  ASSUME RawInv, "cut" \notin fails, Take, Reader, rpc' = "show", ResetInv
  PROVE  shown' = Min(ask.seen)
<1>t. RawTypeOK /\ FileInv /\ rec \in Nat
  BY StateType DEF RawInv
<1> USE <1>t
<1>1. /\ shown' = rec /\ WholeAt(Here) /\ file[Here + 1].s = rec
      /\ \A s \in ask.seen : s \in Samples /\ s \in Nat
      /\ \A s \in ask.seen : rec <= s => rec \in ask.seen
  BY TakenIsShown
<1>2. Here = 1 /\ ask.seen # {}
  BY DEF ResetInv
<1>3. ASSUME NEW s \in ask.seen PROVE rec <= s
  <2>1. PICK o \in Nat : o >= 1 /\ WholeAt(o) /\ file[o + 1].s = s
    BY <1>1, PlaceOf
  <2>2. file[Here + 1].s <= file[o + 1].s <=> Here <= o
    BY <1>1, <1>2, <2>1, PlacesApart
  <2> QED BY <1>1, <1>2, <2>1, <2>2
<1>4. rec \in ask.seen /\ ask.seen \subseteq Int
  BY <1>1, <1>2, <1>3
<1> QED BY <1>1, <1>3, <1>4, MinIs

\* The sample that is shown after MSAMPBRANCH, MEND, the end of a pause, or at the start.
LEMMA BranchShown ==
  ASSUME RawInv, "cut" \notin fails, Take, Reader, rpc' = "show", BranchInv
  PROVE  IF Wanted # {} THEN shown' = Min(Wanted)
         ELSE shown' \in Samples /\ \A s \in ask.seen : shown' >= s
<1>t. /\ RawTypeOK /\ FileInv /\ ListInv /\ SampleLen \in Nat \ {0} /\ rec \in Nat
      /\ ask.from \in Nat /\ ask.time \in Nat /\ Size \in Nat
  BY LenType, StateType, AskType, FileType DEF RawInv
<1> USE <1>t
<1>1. /\ Reading /\ shown' = rec /\ begin <= rec
      /\ WholeAt(Here) /\ file[Here + 1].s = rec /\ rec \in Samples
      /\ \A s \in ask.seen : s \in Samples /\ s \in Nat
      /\ \A s \in ask.seen : rec <= s => rec \in ask.seen
  BY TakenIsShown
<1>2. Here \in Nat /\ Here >= 1 /\ Boundary(Here)
  BY <1>1, HereType
<1>3. ASSUME begin = ask.time,
             \A i \in 2 .. Size : i <= Here => file[i].s \notin Wanted,
             ask.time >= ask.from =>
               \/ Here = 1 /\ ask.from = 0
               \/ Here > 1 /\ file[Here].s >= ask.from
      PROVE  IF Wanted # {} THEN rec = Min(Wanted) ELSE \A s \in ask.seen : rec >= s
  <2>1. rec >= ask.time /\ (ask.time < ask.from \/ rec > ask.from)
    <3>1. CASE Here = 1 /\ ask.from = 0
      <4>1. rec >= 1
        BY <1>1, PlaceOf
      <4> QED BY <1>1, <1>3, <3>1, <4>1
    <3>2. CASE Here > 1 /\ file[Here].s >= ask.from
      <4>1. PICK b \in Nat : b >= 1 /\ Boundary(b) /\ b + SampleLen = Here
        <5>1. Here - SampleLen >= 1 /\ Boundary(Here - SampleLen)
          BY <1>2, <3>2, LastBoundary
        <5> QED BY <1>2, <5>1
      <4>2. WholeAt(b)
        <5>1. Here <= Size
          BY <1>1, <1>2 DEF WholeAt
        <5> QED BY <4>1, <5>1, Whole
      <4>3. file[b + 1].s = file[Here].s
        <5>1. file[b + SampleLen].s = file[b + 1].s
          BY <4>1, <4>2, PlacesApart
        <5> QED BY <4>1, <5>1
      <4>4. file[b + 1].s \in Nat /\ (file[Here + 1].s <= file[b + 1].s <=> Here <= b)
        BY <1>1, <1>2, <4>1, <4>2, PlacesApart
      <4>5. rec > ask.from
        BY <1>1, <1>2, <3>2, <4>1, <4>3, <4>4
      <4> QED BY <1>1, <1>3, <4>5
    <3> QED BY <1>1, <1>3, <3>1, <3>2
  <2>2. ASSUME NEW s \in Wanted PROVE rec <= s
    <3>1. s \in Samples /\ s \in Nat
      BY <1>1 DEF Wanted
    <3>2. PICK o \in Nat : o >= 1 /\ WholeAt(o) /\ file[o + 1].s = s
      BY <3>1, PlaceOf
    <3>3. CASE o < Here
      <4>1. o + 1 \in 2 .. Size /\ o + 1 <= Here
        BY <1>2, <3>2, <3>3 DEF WholeAt
      <4> QED BY <1>3, <3>2, <4>1
    <3>4. CASE Here <= o
      BY <1>1, <1>2, <3>2, <3>4, PlacesApart
    <3> QED BY <1>2, <3>3, <3>4
  <2>3. CASE Wanted # {}
    <3>1. PICK s \in Wanted : rec <= s
      BY <2>2, <2>3
    <3>2. rec \in Wanted
      BY <1>1, <2>1, <3>1 DEF Wanted
    <3>3. Wanted \subseteq Int
      BY <1>1 DEF Wanted
    <3> QED BY <2>2, <2>3, <3>2, <3>3, MinIs
  <2>4. CASE Wanted = {}
    <3> SUFFICES ASSUME NEW s \in ask.seen, ~ rec >= s PROVE FALSE
      BY <2>4
    <3>1. s \in Nat /\ rec <= s
      BY <1>1
    <3>2. rec \in Wanted
      BY <1>1, <2>1, <3>1 DEF Wanted
    <3> QED BY <2>4, <3>2
  <2> QED BY <2>3, <2>4
<1>4. CASE Wanted = {} /\ \A s \in ask.seen : s <= file[Here + 1].s
  <2>1. \A s \in ask.seen : rec >= s
    BY <1>1, <1>4
  <2> QED BY <1>1, <1>4, <2>1
<1>5. CASE ask.seen = {}
  <2>1. Wanted = {}
    BY <1>5 DEF Wanted
  <2> QED BY <1>1, <1>5, <2>1
<1> QED BY <1>1, <1>3, <1>4, <1>5 DEF BranchInv

\* A sample that comes on the screen is the one that was asked for.
LEMMA NavigatesKept ==
  ASSUME RawInv, Reader
  PROVE  Navigates'
<1>t. RawTypeOK /\ FileInv /\ WriterInv /\ ListInv /\ AskInv /\ Navigates
  BY DEF RawInv
<1> USE <1>t
<1>0. file' = file /\ fails' = fails /\ Samples' = Samples
  BY WriterSame, FileFixed DEF Reader, writer
<1>1. SUFFICES ASSUME rpc' = "show", "cut" \notin fails PROVE Navigates'
  BY <1>0 DEF Navigates
<1>2. CASE Take
  <2>1. ask' = ask /\ Reading
    BY <1>1, <1>2, TakenIsShown
  <2>2. CASE ask.cmd = "next" 
    <3>1. NextInv
      BY <1>1, <2>1, <2>2 DEF AskInv
    <3>2. IF Later # {} THEN shown' = Min(Later) ELSE shown' \in Samples /\ ~ shown' < ask.from
      BY <1>1, <1>2, <3>1, NextShown
    <3> QED BY <1>0, <2>1, <2>2, <3>2 DEF Navigates, Later
  <2>3. CASE ask.cmd = "prev"
    <3>1. PrevInv
      BY <1>1, <2>1, <2>3 DEF AskInv
    <3>2. shown' = IF Earlier # {} THEN Max(Earlier) ELSE ask.from
      BY <1>1, <1>2, <3>1, PrevShown
    <3> QED BY <2>1, <2>3, <3>2 DEF Navigates, Earlier
  <2>4. CASE ask.cmd = "reset"
    <3>1. ResetInv
      BY <1>1, <2>1, <2>4 DEF AskInv
    <3>2. shown' = Min(ask.seen)
      BY <1>1, <1>2, <3>1, ResetShown
    <3> QED BY <2>1, <2>4, <3>2 DEF Navigates
  <2>5. CASE ask.cmd \notin {"next", "prev", "reset"}
    <3>1. BranchInv
      BY <1>1, <2>1, <2>5 DEF AskInv
    <3>2. IF Wanted # {} THEN shown' = Min(Wanted)
          ELSE shown' \in Samples /\ \A s \in ask.seen : shown' >= s
      BY <1>1, <1>2, <3>1, BranchShown
    <3> QED BY <1>0, <2>1, <2>5, <3>2 DEF Navigates, Wanted
  <2> QED BY <2>2, <2>3, <2>4, <2>5
<1>3. CASE Pause /\ Command
  <2>1. rpc = "show" /\ ask' = ask /\ shown' = shown
    BY <1>3 DEF Pause, Command
  <2> QED BY <1>0, <1>1, <2>1 DEF Navigates
<1> QED
  BY <1>1, <1>2, <1>3
  DEF Reader, ReaderStep, ReaderStart, Command, Watch, AwaitFirst, ReadHeader, GetRawRec, AtEnd, Torn,
      Complete, GiveUp, Triggered, NextSample, Prev, Reset, Branch, Resume, Quit, Ask, Ends

(***************************************************************************)
(* The types.                                                              *)
(***************************************************************************)
WriterType ==
  /\ twin \in Modes
  /\ wpc \in {"off", "open", "idle", "write", "short"}
  /\ start \in Nat /\ taken \in 0 .. MaxSamples
  /\ starts \in 0 .. MaxStarts /\ kills \in 0 .. MaxKills /\ fails \subseteq {"write", "rollback", "cut"}
FileTypeOK == file \in Seq([s : 0 .. MaxSamples, p : 1 .. SampleLen])
ReaderType ==
  /\ watched \in BOOLEAN /\ event \in BOOLEAN
  /\ rpc \in {"none", "fork", "first", "header", "rec", "wait", "take", "show", "end"}
  /\ why \in {"", "quit", "endtime", "empty", "torn", "incomplete", "short"}
  /\ rec \in 0 .. MaxSamples
  /\ begin \in 0 .. Far /\ endtime \in EndTimes /\ paused \in BOOLEAN
  /\ shown \in 0 .. MaxSamples
ListType == rpos \in Nat /\ off \in [0 .. MaxSamples + 1 -> Nat] /\ offcur \in 0 .. MaxSamples + 1
AskTypeOK ==
  ask \in [cmd : {"start", "next", "prev", "reset", "branch"}, from : 0 .. MaxSamples,
           seen : SUBSET (1 .. MaxSamples), time : 0 .. Far]

\* The type invariant, in parts.
LEMMA Types == RawTypeOK <=> WriterType /\ FileTypeOK /\ ReaderType /\ ListType /\ AskTypeOK
BY Zenon DEF RawTypeOK, WriterType, FileTypeOK, ReaderType, ListType, AskTypeOK

\* The same in the next state.
LEMMA TypesNext == RawTypeOK' <=> WriterType' /\ FileTypeOK' /\ ReaderType' /\ ListType' /\ AskTypeOK'
BY Zenon DEF RawTypeOK, WriterType, FileTypeOK, ReaderType, ListType, AskTypeOK

\* Every step of the writer keeps the types.
LEMMA WriterTypes ==
  ASSUME RawTypeOK, FileInv, WriterInv, Writer
  PROVE  RawTypeOK'
<1>t. /\ WriterType /\ FileTypeOK /\ ReaderType /\ ListType /\ AskTypeOK
      /\ MaxSamples \in Nat /\ MaxStarts \in Nat /\ MaxKills \in Nat /\ Size \in Nat
  BY Types, FileType
<1>1. twin' = twin /\ watched' = watched /\ rpc' = rpc /\ UNCHANGED reader
  BY DEF Writer
<1>2. FileTypeOK'
  BY FileKept DEF FileTypeOK, SampleLen
<1>3. ListType' /\ AskTypeOK'
  BY <1>t, <1>1 DEF ListType, AskTypeOK, reader
<1>4. event' \in BOOLEAN
  BY <1>t DEF ReaderType, Writer, WriterStep, Open, RawWrite, Writev, WritevFails, RollBack, WriterEnds,
              WriterKill, WriterStart, Modified
<1>5. ReaderType'
  BY <1>t, <1>1, <1>4 DEF ReaderType, reader
<1>6. WriterType'
  <2>1. twin' \in Modes
    BY <1>t, <1>1 DEF WriterType
  <2>2. wpc' \in {"off", "open", "idle", "write", "short"}
    BY <1>t DEF WriterType, Writer, WriterStep, Open, RawWrite, Writev, WritevFails, RollBack,
                WriterEnds, WriterKill, WriterStart
  <2>3. start' \in Nat /\ taken' \in 0 .. MaxSamples
    BY <1>t DEF WriterType, Writer, WriterStep, Open, RawWrite, Writev, WritevFails, RollBack,
                WriterEnds, WriterKill, WriterStart, writer
  <2>4. starts' \in 0 .. MaxStarts /\ kills' \in 0 .. MaxKills
    BY <1>t DEF WriterType, Writer, WriterStep, Open, RawWrite, Writev, WritevFails, RollBack,
                WriterEnds, WriterKill, WriterStart, writer
  <2>5. fails' \subseteq {"write", "rollback", "cut"}
    BY <1>t DEF WriterType, Writer, WriterStep, Open, RawWrite, Writev, WritevFails, RollBack,
                WriterEnds, WriterKill, WriterStart, writer
  <2> QED BY <2>1, <2>2, <2>3, <2>4, <2>5 DEF WriterType
<1> QED BY <1>2, <1>3, <1>5, <1>6, TypesNext

\* Every step of the reader keeps the types.
LEMMA ReaderTypes ==
  ASSUME RawTypeOK, FileInv, WriterInv, ListInv, Reader
  PROVE  RawTypeOK'
<1>t. /\ WriterType /\ FileTypeOK /\ ReaderType /\ ListType /\ AskTypeOK
      /\ MaxSamples \in Nat /\ Size \in Nat /\ SampleLen \in Nat \ {0} /\ HeadLen \in Nat \ {0}
  BY Types, FileType, LenType
<1>1. file' = file /\ twin' = twin /\ UNCHANGED writer
  BY WriterSame DEF Reader
<1>2. FileTypeOK'
  BY <1>t, <1>1 DEF FileTypeOK
<1>3. ListType'
  BY ListKept DEF ListType
<1>4. WriterType'
  <2>1. wpc' = wpc \/ wpc' = "off"
    BY DEF Reader, ReaderStep, ReaderStart, Command, Watch, AwaitFirst, ReadHeader, GetRawRec, AtEnd,
           Torn, Complete, GiveUp, Take, Triggered, Quit, Ends
  <2> QED BY <1>t, <1>1, <2>1 DEF WriterType, writer
<1>5. Samples \in SUBSET (1 .. MaxSamples)
  <2> SUFFICES ASSUME NEW s \in Samples PROVE s \in 1 .. MaxSamples
    OBVIOUS
  <2>1. PICK o \in Nat : o >= 1 /\ o + SampleLen <= Size /\ file[o + 1].s = s
    BY PlaceOf
  <2>2. s >= 1 /\ o + 1 \in 1 .. Size
    BY <1>t, <2>1, PlaceOf
  <2>3. file[o + 1].s \in 0 .. MaxSamples
    BY <2>2, FileType
  <2> QED BY <1>t, <2>1, <2>2, <2>3
<1>6. AskTypeOK'
  <2>1. \/ ask' = ask
        \/ \E c \in {"next", "prev", "reset", "branch"}, t \in 0 .. Far : Ask(c, t)
        \/ ask' = [ask EXCEPT !.seen = Samples]
    <3>1. Far \in Nat /\ Far \in 0 .. Far /\ 0 \in 0 .. Far
      BY <1>t DEF Far
    <3>2. \A t : t \in 1 .. Far => t \in 0 .. Far
      BY <3>1
    <3> QED
      BY <3>1, <3>2
      DEF Reader, ReaderStep, ReaderStart, Command, Watch, AwaitFirst, ReadHeader, GetRawRec, AtEnd,
          Torn, Complete, GiveUp, Take, Triggered, Quit, NextSample, Prev, Reset, Branch, Resume,
          Pause, reader
  <2>2. ASSUME NEW c \in {"next", "prev", "reset", "branch"}, NEW t \in 0 .. Far, Ask(c, t)
        PROVE  AskTypeOK'
    <3>1. ask' = [cmd |-> c, from |-> shown, seen |-> Samples, time |-> t]
      BY <2>2 DEF Ask
    <3>2. shown \in 0 .. MaxSamples
      BY <1>t DEF ReaderType
    <3> QED BY <1>5, <3>1, <3>2 DEF AskTypeOK, Far
  <2>3. CASE ask' = [ask EXCEPT !.seen = Samples]
    BY <1>t, <1>5, <2>3 DEF AskTypeOK, Far
  <2>4. CASE ask' = ask
    BY <1>t, <2>4 DEF AskTypeOK, Far
  <2> QED BY <2>1, <2>2, <2>3, <2>4
<1>7. /\ rec' \in 0 .. MaxSamples
      /\ shown' \in 0 .. MaxSamples
  <2>1. rec' = rec \/ (GetRawRec /\ rec' = file[rpos + 1].s)
    BY DEF Reader, ReaderStep, ReaderStart, Command, Watch, AwaitFirst, ReadHeader, GetRawRec, AtEnd,
           Torn, Complete, GiveUp, Take, Triggered, Quit, reader
  <2>2. GetRawRec => file[rpos + 1].s \in 0 .. MaxSamples
    <3> HAVE GetRawRec
    <3>1. Size >= rpos + HeadLen /\ rpos \in Nat
      BY <1>t DEF GetRawRec, ListType
    <3>2. rpos + 1 \in 1 .. Size
      BY <1>t, <3>1
    <3> QED BY <3>2, FileType
  <2>3. shown' = shown \/ shown' = rec
    BY DEF Reader, ReaderStep, ReaderStart, Command, Watch, AwaitFirst, ReadHeader, GetRawRec, AtEnd,
           Torn, Complete, GiveUp, Take, Triggered, Quit, reader
  <2> QED BY <1>t, <2>1, <2>2, <2>3 DEF ReaderType
<1>8. begin' \in 0 .. Far
  <2>1. Far \in Nat
    BY <1>t DEF Far
  <2>2. begin' = begin \/ begin' \in 0 .. Far
    BY <2>1
    DEF Reader, ReaderStep, ReaderStart, Command, Watch, AwaitFirst, ReadHeader, GetRawRec, AtEnd,
        Torn, Complete, GiveUp, Take, Triggered, Quit, NextSample, Prev, Reset, Branch, Resume,
        Pause, reader
  <2> QED BY <1>t, <2>2 DEF ReaderType
<1>9. watched' \in BOOLEAN /\ event' \in BOOLEAN
  BY <1>t
  DEF ReaderType, Reader, ReaderStep, ReaderStart, Command, Watch, AwaitFirst, ReadHeader, GetRawRec,
      AtEnd, Torn, Complete, GiveUp, Take, Triggered, Quit, NextSample, Prev, Reset, Branch, Resume, Pause
<1>10. paused' \in BOOLEAN /\ endtime' \in EndTimes
  <2>1. twin \in BOOLEAN
    BY <1>t DEF WriterType
  <2> QED
    BY <1>t, <2>1
    DEF ReaderType, Reader, ReaderStep, ReaderStart, Command, Watch, AwaitFirst, ReadHeader, GetRawRec,
        AtEnd, Torn, Complete, GiveUp, Take, Triggered, Quit, NextSample, Prev, Reset, Branch, Resume,
        Pause, Pauses, reader
<1>11. /\ rpc' \in {"none", "fork", "first", "header", "rec", "wait", "take", "show", "end"}
       /\ why' \in {"", "quit", "endtime", "empty", "torn", "incomplete", "short"}
  BY <1>t
  DEF ReaderType, Reader, ReaderStep, ReaderStart, Command, Watch, AwaitFirst, ReadHeader, GetRawRec,
      AtEnd, Torn, Complete, GiveUp, Take, Triggered, Quit, NextSample, Prev, Reset, Branch, Resume,
      Pause, Ends, Ask, reader
<1>12. ReaderType'
  BY <1>7, <1>8, <1>9, <1>10, <1>11 DEF ReaderType
<1> QED BY <1>2, <1>3, <1>4, <1>6, <1>12, TypesNext

(***************************************************************************)
(* The theorems.                                                           *)
(***************************************************************************)
\* The inductive invariant holds in the beginning.
LEMMA RawInit ==
  ASSUME Init
  PROVE  RawInv
<1>t. MaxSamples \in Nat /\ MaxStarts \in Nat \ {0} /\ MaxKills \in Nat /\ SampleLen \in Nat \ {0}
  BY LenType
<1>i. start = 0 /\ taken = 0 /\ kills = 0 /\ rpos = 0 /\ rec = 0 /\ offcur = 0 /\ shown = 0
  BY Zenon DEF Init
<1>m. twin \in Modes /\ endtime \in EndTimes
  BY Zenon DEF Init
<1>e. fails = {} /\ why = ""
  BY Zenon DEF Init
<1>f. file = <<>>
  BY Zenon DEF Init
<1>o. off = [i \in 0 .. MaxSamples + 1 |-> 0]
  BY Zenon DEF Init
<1>q. ask = [cmd |-> "start", from |-> 0, seen |-> {}, time |-> begin]
  BY Zenon DEF Init
<1>j. /\ wpc \in {"open", "off"} /\ starts \in {0, 1} /\ rpc \in {"fork", "none"}
      /\ begin \in {0} \cup 0 .. MaxSamples
  BY Zenon DEF Init
<1>k. watched \in BOOLEAN /\ event \in BOOLEAN /\ paused \in BOOLEAN
  BY Zenon DEF Init
<1>1. Size = 0 /\ ~ (0 >= 1) /\ Samples = {}
  BY <1>f DEF Size, Samples
<1>b. begin \in 0 .. Far
  BY <1>t, <1>j DEF Far
<1>2. RawTypeOK
  <2>1. FileTypeOK
    BY <1>f DEF FileTypeOK
  <2>2. rec \in 0 .. MaxSamples /\ shown \in 0 .. MaxSamples
    BY <1>t, <1>i
  <2>3. ReaderType
    BY <1>b, <1>e, <1>j, <1>k, <1>m, <2>2, Zenon DEF ReaderType
  <2>4. ListType
    BY <1>t, <1>i, <1>o DEF ListType
  <2>5. starts \in 0 .. MaxStarts
    BY <1>t, <1>j
  <2>6. start \in Nat /\ taken \in 0 .. MaxSamples /\ kills \in 0 .. MaxKills
    BY <1>t, <1>i
  <2>8. fails \subseteq {"write", "rollback", "cut"}
    BY <1>e, Zenon
  <2>9. WriterType
    BY <1>j, <1>m, <2>5, <2>6, <2>8, Zenon DEF WriterType
  <2>7. AskTypeOK
    BY <1>t, <1>b, <1>q DEF AskTypeOK
  <2> QED BY <2>1, <2>3, <2>4, <2>7, <2>9, Types
<1>3. FileInv
  <2>1. taken * SampleLen \in Nat
    BY <1>t, <1>i, NatProduct
  <2> QED BY <1>1, <2>1 DEF FileInv, LogWhole
<1>4. WriterInv
  BY <1>1, <1>j DEF WriterInv, Even
<1>5. ~ Reading /\ rpc # "show"
  BY <1>j DEF Reading
<1>6. ListInv
  <2>1. InOrder(off, offcur)
    BY <1>i DEF InOrder
  <2>2. why = "" /\ rpc # "end" /\ rpc \notin {"wait", "take"}
    BY <1>e, <1>j
  <2> QED BY <1>5, <2>1, <2>2 DEF ListInv
<1>7. ReadInv /\ SeenInv
  BY <1>i, <1>j, <1>q DEF ReadInv, SeenInv
<1>8. AskInv
  BY <1>5, <1>q DEF AskInv
<1>9. Navigates
  BY <1>5 DEF Navigates
<1> QED BY <1>2, <1>3, <1>4, <1>6, <1>7, <1>8, <1>9 DEF RawInv

\* Every step keeps the inductive invariant.
LEMMA RawStep ==
  ASSUME RawInv, [Next]_rvars
  PROVE  RawInv'
<1>i. RawTypeOK /\ FileInv /\ WriterInv /\ ListInv
  BY DEF RawInv
<1>1. CASE Writer
  BY <1>1, <1>i, WriterTypes, FileKept, WriterKept, ReaderSame DEF RawInv
<1>2. CASE Reader
  BY <1>2, <1>i, ReaderTypes, WriterSame, ListKept, ReadKept, SeenKept, AskKept, NavigatesKept DEF RawInv
<1>3. CASE UNCHANGED rvars
  <2>0. /\ twin' = twin /\ file' = file /\ wpc' = wpc /\ UNCHANGED writer /\ watched' = watched
        /\ event' = event /\ rpc' = rpc /\ UNCHANGED reader
    BY <1>3, Zenon DEF rvars
  <2>1. RawTypeOK'
    BY <1>i, <2>0, Types, TypesNext
    DEF WriterType, FileTypeOK, ReaderType, ListType, AskTypeOK, writer, reader
  <2>2. /\ Size' = Size /\ Samples' = Samples
        /\ FileInv' /\ WriterInv'
    BY <1>i, <2>0, FileFixed, ZenonT(60) DEF FileInv, LogWhole, Even, WriterInv, Boundary, writer, reader
  <2>3. ListInv'
    BY <1>i, <2>0, <2>2 DEF ListInv, InOrder, IsNext, Reading, Here, Boundary, reader
  <2>4. ReadInv' /\ SeenInv'
    BY <2>0, <2>2 DEF RawInv, ReadInv, SeenInv, Reading, Here, reader, writer
  <2>5. /\ WholeAt(Here)' = WholeAt(Here) /\ WholeAt(Here - SampleLen)' = WholeAt(Here - SampleLen)
        /\ WholeAt(Here + SampleLen)' = WholeAt(Here + SampleLen) /\ Here' = Here /\ Reading' = Reading
        /\ Later' = Later /\ Wanted' = Wanted
    BY <2>0 DEF WholeAt, Size, Part, Here, Reading, Later, Wanted, reader
  <2>6. NextInv' = NextInv /\ PrevInv' = PrevInv /\ ResetInv' = ResetInv /\ BranchInv' = BranchInv
    BY <2>0, <2>2, <2>5 DEF NextInv, PrevInv, ResetInv, BranchInv, reader
  <2>7. AskInv'
    BY <2>0, <2>5, <2>6 DEF RawInv, AskInv, reader, writer
  <2>8. Navigates'
    BY <2>0, <2>2 DEF RawInv, Navigates, reader, writer
  <2> QED BY <2>1, <2>2, <2>3, <2>4, <2>7, <2>8 DEF RawInv
<1> QED BY <1>1, <1>2, <1>3 DEF Next

\* The inductive invariant holds always.
THEOREM RawInvariance == Spec => []RawInv
<1>1. Init => RawInv
  BY RawInit
<1>2. RawInv /\ [Next]_rvars => RawInv'
  BY RawStep
<1> QED BY <1>1, <1>2, PTL DEF Spec

\* The list of offsets is in order.
LEMMA ListInOrder ==
  ASSUME RawTypeOK, ListInv
  PROVE  OffsetsInOrder
<1>1. /\ off \in [0 .. MaxSamples + 1 -> Nat] /\ offcur \in Nat /\ offcur <= MaxSamples + 1
      /\ MaxSamples \in Nat /\ InOrder(off, offcur) /\ SampleLen \in Nat \ {0} /\ SampleLen >= 2
  BY StateType, LenType DEF ListInv
<1>2. ASSUME offcur >= 1, NEW i \in 1 .. offcur - 1
      PROVE  /\ off[i] % SampleLen = 1 % SampleLen
             /\ off[i] = off[i - 1] + SampleLen \/ (i = 1 /\ off[i] = off[0])
  <2>1. i \in 0 .. MaxSamples + 1 /\ i < offcur /\ i > 0
    BY <1>1, <1>2
  <2>2. Boundary(off[i]) /\ (off[i] = off[i - 1] + SampleLen \/ (i = 1 /\ off[i] = 1)) /\ off[0] = 1
    BY <1>1, <2>1 DEF InOrder
  <2>3. PICK o \in Nat : o = off[i]
    BY <1>1, <2>1
  <2>4. (o - 1 + 1) % SampleLen = 1 /\ o - 1 + 1 = o
    <3>1. 1 \in 0 .. SampleLen - 1
      BY <1>1
    <3> QED BY <2>2, <2>3, <3>1, InSample
  <2>5. off[i] % SampleLen = 1
    BY <2>3, <2>4
  <2> QED BY <2>2, <2>5, FirstBoundary
<1> QED BY <1>1, <1>2 DEF OffsetsInOrder, InOrder

\* The raw log and the list of its records are well formed whatever writes fail, whoever is killed
\* and whenever the reader comes: rawwrite() never writes behind a torn sample, its rollback leaves
\* the file as it was, and rawread() never has an offset in offlist that is not a record's.
THEOREM LogIsSound == Spec => []LogSound
<1>1. RawInv => LogSound
  BY ListInOrder DEF RawInv, FileInv, WriterInv, LogSound, RolledBack
<1> QED BY <1>1, RawInvariance, PTL

\* What rawread() shows is a complete sample of the file, however slowly it is written, and its
\* offset is the last one of offlist.
THEOREM ShownIsWhole == Spec => []ShownWhole
<1>1. RawInv => ShownWhole
  <2> SUFFICES ASSUME RawInv, rpc = "show", "cut" \notin fails
               PROVE  /\ rpos > SampleLen /\ WholeAt(rpos - SampleLen) /\ file[rpos].s = shown
                      /\ offcur >= 1 /\ off[offcur - 1] = rpos - SampleLen
    BY DEF ShownWhole
  <2>1. PICK o \in Nat : o = off[offcur - 1] /\ o >= 1 /\ rpos = o + SampleLen /\ WholeAt(o)
                         /\ file[rpos].s = shown /\ offcur > 0
    BY ShowFacts
  <2>2. SampleLen \in Nat /\ offcur \in Nat
    BY LenType, StateType DEF RawInv
  <2>3. rpos - SampleLen = o
    BY <2>1, <2>2
  <2> QED BY <2>1, <2>2, <2>3
<1> QED BY <1>1, RawInvariance, PTL

\* Every command in rawread() shows the sample it asks for, out of all that were complete when it
\* was given: the next, the previous, the first, the first from a time on.
THEOREM NavigatesRight == Spec => []Navigates
<1>1. RawInv => Navigates
  BY DEF RawInv
<1> QED BY <1>1, RawInvariance, PTL

\* More of what the reader relies on: a sample that was found complete stays in the file, and in twin
\* mode the first event comes when the file has its header.
CauseInv ==
  /\ rpc = "take" => rpos + DataLen <= Size
  /\ event => Size > 0
  /\ twin => rpc # "none" /\ (rpc = "header" => Size > 0)

\* The writer keeps it: it never takes back a sample that is complete.
LEMMA CauseWriter ==
  ASSUME RawInv, CauseInv, Writer
  PROVE  CauseInv'
<1>t. /\ RawTypeOK /\ FileInv /\ WriterInv /\ ListInv /\ SampleLen \in Nat \ {0}
      /\ SampleLen = HeadLen + DataLen /\ HeadLen \in Nat /\ DataLen \in Nat /\ HeadLen >= 1
      /\ Size \in Nat /\ rpos \in Nat
  BY LenType, FileType, StateType DEF RawInv
<1> USE <1>t
<1>1. /\ Size > 0 => Size' > 0
      /\ \A o \in Nat : Boundary(o) /\ o + SampleLen <= Size => o + SampleLen <= Size'
      /\ twin' = twin /\ rpc' = rpc /\ rpos' = rpos
  BY WriterExtends DEF reader
<1>2. rpc = "take" => rpos + DataLen <= Size'
  <2> HAVE rpc = "take"
  <2>1. Boundary(Here) /\ Here \in Nat /\ Here + SampleLen = rpos + DataLen
    BY HereType DEF Reading
  <2>2. rpos + DataLen <= Size
    BY DEF CauseInv
  <2> QED BY <1>1, <2>1, <2>2
<1>3. event' = event \/ Size' > 0
  <2>1. CASE Open
    <3>1. event' = event \/ file' = <<Header>>
      BY <2>1 DEF Open
    <3> QED BY <3>1, FileCreated DEF Size
  <2>2. CASE Writev
    <3>1. Size' = Size + 1
      BY <2>2, Appended
    <3> QED BY <3>1
  <2>3. CASE WritevFails
    <3>1. event' = event \/ (wpc = "write" /\ Size # start /\ file' = file)
      BY <2>3 DEF WritevFails
    <3>2. wpc = "write" => start >= 1 /\ start <= Size /\ start \in Nat
      BY StateType DEF WriterInv, Boundary
    <3> QED BY <3>1, <3>2 DEF Size
  <2>4. CASE RollBack
    <3>1. start \in Nat /\ start >= 1 /\ start <= Size
      BY <2>4, StateType DEF RollBack, WriterInv, Boundary
    <3> QED BY <1>1, <3>1
  <2> QED
    BY <2>1, <2>2, <2>3, <2>4
    DEF Writer, WriterStep, RawWrite, WriterEnds, WriterKill, WriterStart
<1> QED BY <1>1, <1>2, <1>3 DEF CauseInv

\* So does the reader: it waits until a sample is complete.
LEMMA CauseReader ==
  ASSUME RawInv, CauseInv, Reader
  PROVE  CauseInv'
<1>t. /\ Size \in Nat /\ rpos \in Nat /\ DataLen \in Nat /\ file' = file /\ twin' = twin /\ Size' = Size
  BY FileType, StateType, WriterSame DEF RawInv, Reader, Size
<1> USE <1>t
<1>1. rpc' = "take" => rpos' + DataLen <= Size
  <2> HAVE rpc' = "take"
  <2>1. CASE Complete
    <3>1. rpos' = rpos /\ Size - rpos >= DataLen
      BY <2>1 DEF Complete, reader
    <3> QED BY <3>1
  <2>2. CASE Pause /\ Command
    <3>1. rpc = "show" /\ rpc' = rpc
      BY <2>2 DEF Pause
    <3> QED BY <3>1
  <2>3. Complete \/ (Pause /\ Command)
    BY DEF Reader, ReaderStep, ReaderStart, Command, Watch, AwaitFirst, ReadHeader, GetRawRec, AtEnd,
           Torn, GiveUp, Take, Triggered, NextSample, Prev, Reset, Branch, Resume, Quit, Ask, Ends
  <2> QED BY <2>1, <2>2, <2>3
<1>2. event' => event
  BY DEF Reader, ReaderStep, ReaderStart, Command, Watch, AwaitFirst, ReadHeader, GetRawRec, AtEnd,
         Torn, Complete, GiveUp, Take, Triggered, NextSample, Prev, Reset, Branch, Resume, Pause, Quit
<1>3. twin => rpc' # "none" /\ (rpc' = "header" => Size > 0)
  <2> HAVE twin
  <2>1. ~ ReaderStart
    BY DEF CauseInv, ReaderStart
  <2>2. CASE AwaitFirst
    BY <2>2 DEF AwaitFirst, CauseInv
  <2>3. CASE rpc' = rpc
    BY <2>3 DEF CauseInv
  <2>4. CASE ~ AwaitFirst /\ rpc' # rpc
    BY <2>1, <2>4
    DEF Reader, ReaderStep, Command, Watch, ReadHeader, GetRawRec, AtEnd, Torn, Complete, GiveUp, Take,
        Triggered, NextSample, Prev, Reset, Branch, Resume, Pause, Quit, Ask, Ends
  <2> QED BY <2>2, <2>3, <2>4
<1> QED BY <1>1, <1>2, <1>3 DEF CauseInv

\* A sample that is begun but not complete is the one that is being written, as long as nothing fails.
LEMMA AtWorkOnIt ==
  ASSUME RawInv, Reading, rpc # "take", Here < Size, Size < Here + SampleLen,
         kills = 0, "rollback" \notin fails
  PROVE  AtWork
<1>t. /\ RawTypeOK /\ WriterInv /\ ListInv /\ SampleLen \in Nat \ {0} /\ Size \in Nat /\ start \in Nat
  BY LenType, FileType, StateType DEF RawInv
<1>1. Boundary(Here) /\ Here \in Nat /\ Here = IF rpc = "wait" THEN rpos - HeadLen ELSE rpos
  BY <1>t, HereType DEF Reading
<1>2. why = ""
  BY <1>t DEF ListInv, Reading
<1>3. ~ Even
  <2> SUFFICES ASSUME Even PROVE FALSE
    OBVIOUS
  <2>1. Boundary(Size)
    BY <1>t, <1>1 DEF Even, Boundary
  <2> QED BY <1>t, <1>1, <2>1, GapBoundary
<1>4. wpc \in {"write", "short"}
  <2>1. wpc \in {"off", "open", "idle", "write", "short"}
    BY <1>t DEF RawTypeOK
  <2> QED BY <1>t, <1>2, <1>3, <2>1 DEF WriterInv
<1>5. Boundary(start) /\ start <= Size /\ Size < start + SampleLen
  BY <1>t, <1>4 DEF WriterInv
<1>6. ~ (start < Here)
  BY <1>t, <1>1, <1>5, GapBoundary
<1>7. ~ (Here < start)
  BY <1>t, <1>1, <1>5, GapBoundary
<1>8. start = Here
  BY <1>t, <1>1, <1>6, <1>7
<1> QED BY <1>1, <1>4, <1>8 DEF AtWork

\* The causes for which a reader ends: rawread() and getrawrec() never stumble over a sample that was
\* written before, nor read beyond the end of one that was found complete; what they end for is the
\* sample that is being written just now, or what a killed writer or a failed rollback has left.
THEOREM EndsOnlyForCause == Spec => EndsForCause
<1> DEFINE A == why' # why =>
             /\ why' \in {"torn", "incomplete"} =>
                  AtWork \/ kills > 0 \/ fails \intersect {"rollback", "cut"} # {}
             /\ why' # "short"
             /\ why' = "empty" => ~twin
<1>1. Init => CauseInv
  <2> SUFFICES ASSUME Init PROVE CauseInv
    OBVIOUS
  <2>1. rpc = (IF twin THEN "fork" ELSE "none") /\ event = FALSE
    BY Zenon DEF Init
  <2> QED BY <2>1 DEF CauseInv
<1>2. RawInv /\ CauseInv /\ [Next]_rvars => CauseInv'
  <2>1. CauseInv /\ UNCHANGED rvars => CauseInv'
    BY DEF CauseInv, rvars, reader, Size
  <2> QED BY <2>1, CauseWriter, CauseReader DEF Next
<1>3. ASSUME RawInv, CauseInv, Next PROVE A
  <2> SUFFICES ASSUME why' # why PROVE A
    OBVIOUS
  <2>t. /\ RawTypeOK /\ ListInv /\ ReadInv /\ Size \in Nat /\ rpos \in Nat /\ SampleLen = HeadLen + DataLen
        /\ HeadLen \in Nat \ {0} /\ DataLen \in Nat \ {0} /\ kills \in Nat
    BY <1>3, LenType, FileType, StateType, Types DEF RawInv, WriterType
  <2>1. Reader
    BY <1>3 DEF Next, Writer, reader
  <2>2. CASE Torn \/ GiveUp
    <3>1. why' \in {"torn", "incomplete"}
      BY <2>2 DEF Torn, GiveUp, Ends
    <3> SUFFICES ASSUME kills = 0, "rollback" \notin fails, "cut" \notin fails PROVE AtWork
      BY <2>t, <3>1
    <3>2. Reading /\ rpc # "take" /\ Here < Size /\ Size < Here + SampleLen
      <4>1. CASE Torn
        BY <2>t, <4>1 DEF Torn, Reading, Here
      <4>2. CASE GiveUp
        <5>1. rpc = "wait" /\ Size - rpos < DataLen
          BY <4>2 DEF GiveUp
        <5>2. rpos <= Size
          BY <2>t, <5>1 DEF ReadInv
        <5> QED BY <2>t, <5>1, <5>2 DEF Reading, Here
      <4> QED BY <2>2, <4>1, <4>2
    <3> QED BY <1>3, <3>2, AtWorkOnIt
  <2>3. CASE Take
    <3>1. rpos + DataLen <= Size
      BY <1>3, <2>3 DEF Take, CauseInv
    <3> QED BY <2>t, <2>3, <3>1 DEF Take, Ends
  <2>4. CASE ReadHeader
    BY <1>3, <2>4 DEF ReadHeader, Ends, CauseInv
  <2>5. CASE Quit
    BY <2>5 DEF Quit, Ends
  <2>6. Torn \/ GiveUp \/ Take \/ ReadHeader \/ Quit
    BY <2>1
    DEF Reader, ReaderStep, ReaderStart, Command, Watch, AwaitFirst, GetRawRec, AtEnd, Complete,
        Triggered, NextSample, Prev, Reset, Branch, Resume, Pause, reader
  <2> QED BY <2>2, <2>3, <2>4, <2>5, <2>6
<1>4. A \/ ~ UNCHANGED rvars
  BY DEF rvars, reader
<1>5. RawInv /\ CauseInv /\ [Next]_rvars => [A]_rvars
  BY <1>3
<1>6. [A]_rvars => [why' # why =>
             /\ why' \in {"torn", "incomplete"} =>
                  AtWork \/ kills > 0 \/ fails \intersect {"rollback", "cut"} # {}
             /\ why' # "short"
             /\ why' = "empty" => ~twin]_rvars
  OBVIOUS
<1> HIDE DEF A
<1> QED BY <1>1, <1>2, <1>5, <1>6, RawInvariance, PTL DEF Spec, EndsForCause
=============================================================================
