------------------------- MODULE LogTools_proofs ---------------------------
(***************************************************************************)
(* Proofs about the programs that make one raw log of others.              *)
(***************************************************************************)
EXTENDS LogTools, TLAPS, FiniteSetTheorems, SequenceTheorems, WellFoundedInduction
-----------------------------------------------------------------------------
(***************************************************************************)
(* atophide: the names and their stand-ins.                                *)
(***************************************************************************)
Kinds == {"lvm", "nfs", "cmd"}
IsSequence(s) == s \in Seq(Range(s))

\* The sample i as it is written: its item, or the item with a stand-in, which
\* is the place of the name among those that have one.
Treated(i) ==
  LET old == samples[i].item
      known == standins[old.kind]
  IN  IF opts.anon /\ ~Preserved(old)
      THEN \E p \in 1 .. Len(known) :
             known[p] = old.name /\ samples[i].shown = [old EXCEPT !.name = <<old.kind, Fake(p - 1)>>]
      ELSE samples[i].shown = old

\* The inductive invariant: a name is given one stand-in, and what has been
\* written had been treated.
OnceEach(known) == \A p, q \in 1 .. Len(known) : known[p] = known[q] => p = q
StandinsInv ==
  /\ standins \in [Kinds -> Seq(Originals)]
  /\ \A k \in Kinds : OnceEach(standins[k])
SamplesInv ==
  /\ IsSequence(samples) /\ IsSequence(hout)
  /\ opts.anon => \A i \in DOMAIN samples : samples[i].item \in Items
  /\ hphase \in {"data", "write"} => samples # << >>
WrittenInv ==
  /\ hphase = "write" => Treated(Nr)
  /\ \A o \in Range(hout) : o.nr # 0 => o.nr \in DOMAIN samples /\ Treated(o.nr)
HideInv == StandinsInv /\ SamplesInv /\ WrittenInv

LEMMA AppendSequence ==
  ASSUME NEW s, NEW x, IsSequence(s)
  PROVE  /\ IsSequence(Append(s, x))
         /\ Len(Append(s, x)) = Len(s) + 1 /\ Len(s) \in Nat /\ DOMAIN s = 1 .. Len(s)
         /\ \A i \in 1 .. Len(s) : Append(s, x)[i] = s[i]
         /\ Append(s, x)[Len(s) + 1] = x
         /\ Range(Append(s, x)) = Range(s) \cup {x}
<1> DEFINE t == Append(s, x)
           S == Range(s) \cup {x}
<1>1. s \in Seq(S) /\ x \in S /\ DOMAIN s = 1 .. Len(s) /\ Len(s) \in Nat
  <2>1. s \in Seq(Range(s))
    BY DEF IsSequence
  <2> QED BY <2>1
<1>2. t \in Seq(S) /\ Len(t) = Len(s) + 1 /\ DOMAIN t = 1 .. Len(s) + 1
      /\ (\A i \in 1 .. Len(s) : t[i] = s[i]) /\ t[Len(s) + 1] = x
  BY <1>1
<1>3. Range(t) = S
  BY <1>1, <1>2 DEF Range
<1> QED BY <1>1, <1>2, <1>3 DEF IsSequence

LEMMA SequenceOfRange == ASSUME NEW S, NEW t \in Seq(S) PROVE IsSequence(t)
<1>1. t = [i \in 1 .. Len(t) |-> t[i]] /\ Len(t) \in Nat /\ DOMAIN t = 1 .. Len(t)
  OBVIOUS
<1>2. \A i \in 1 .. Len(t) : t[i] \in Range(t)
  BY <1>1 DEF Range
<1>3. [i \in 1 .. Len(t) |-> t[i]] \in Seq(Range(t))
  BY <1>1, <1>2
<1> QED BY <1>1, <1>3 DEF IsSequence

LEMMA ReplaceSequence ==
  ASSUME NEW s, NEW x, IsSequence(s), s # << >>
  PROVE  LET t == [s EXCEPT ![Len(s)] = x] IN
         /\ IsSequence(t)
         /\ Len(t) = Len(s) /\ Len(s) \in Nat \ {0} /\ DOMAIN t = 1 .. Len(s) /\ DOMAIN s = 1 .. Len(s)
         /\ \A i \in 1 .. Len(s) : t[i] = IF i = Len(s) THEN x ELSE s[i]
<1> DEFINE t == [s EXCEPT ![Len(s)] = x]
           S == Range(s) \cup {x}
<1>1. s \in Seq(S) /\ x \in S /\ DOMAIN s = 1 .. Len(s) /\ Len(s) \in Nat \ {0}
  <2>1. s \in Seq(Range(s))
    BY DEF IsSequence
  <2> QED BY <2>1
<1>2. t \in Seq(S) /\ Len(t) = Len(s) /\ DOMAIN t = 1 .. Len(s)
      /\ (\A i \in 1 .. Len(s) : t[i] = IF i = Len(s) THEN x ELSE s[i])
  BY <1>1
<1> HIDE DEF t
<1>3. IsSequence(t)
  BY <1>2, SequenceOfRange
<1> QED BY <1>1, <1>2, <1>3 DEF t

\* findstandin(): the names keep their stand-ins, and this one has one.
LEMMA Finds ==
  ASSUME StandinsInv, NEW item \in Items
  PROVE  LET f == findstandin(item.kind, item.name)
             known == standins[item.kind]
         IN  /\ f.known \in Seq(Originals) /\ OnceEach(f.known)
             /\ Len(known) <= Len(f.known)
             /\ \A p \in 1 .. Len(known) : f.known[p] = known[p]
             /\ \E p \in 1 .. Len(f.known) : f.known[p] = item.name /\ f.fake = Fake(p - 1)
<1> DEFINE k == item.kind
           n == item.name
           known == standins[k]
           f == findstandin(k, n)
<1>1. k \in Kinds /\ n \in Originals
  BY DEF Items, Kinds
<1>2. known \in Seq(Originals) /\ OnceEach(known)
  BY <1>1 DEF StandinsInv
<1>3. DOMAIN known = 1 .. Len(known) /\ Len(known) \in Nat
  BY <1>2
<1>4. CASE \E i \in DOMAIN known : known[i] = n
  <2> DEFINE c == CHOOSE i \in DOMAIN known : known[i] = n
  <2>1. c \in DOMAIN known /\ known[c] = n
    BY <1>4
  <2>2. f.known = known /\ f.fake = Fake(c - 1)
    BY <1>4 DEF findstandin
  <2>3. \E p \in 1 .. Len(f.known) : f.known[p] = n /\ f.fake = Fake(p - 1)
    <3> HIDE DEF c, f, known, n
    <3> QED BY <1>3, <2>1, <2>2
  <2>4. /\ f.known \in Seq(Originals) /\ OnceEach(f.known) /\ Len(known) <= Len(f.known)
        /\ \A p \in 1 .. Len(known) : f.known[p] = known[p]
    <3> HIDE DEF f, known
    <3> QED BY <1>2, <1>3, <2>2
  <2> HIDE DEF c, f, known, n, k
  <2> QED BY <2>3, <2>4 DEF f, known, n, k
<1>5. CASE ~ \E i \in DOMAIN known : known[i] = n
  <2>1. f.known = Append(known, n) /\ f.fake = Fake(Len(known))
    BY <1>5 DEF findstandin
  <2> DEFINE l == Len(known) + 1
  <2>2. /\ f.known \in Seq(Originals) /\ Len(f.known) = l
        /\ \A p \in 1 .. Len(known) : f.known[p] = known[p]
        /\ f.known[l] = n /\ l - 1 = Len(known) /\ l \in 1 .. l
    <3> HIDE DEF f, known, k, n
    <3> QED BY <1>1, <1>2, <1>3, <2>1
  <2>3. OnceEach(f.known)
    <3> HIDE DEF f, known, k, n
    <3> QED BY <1>2, <1>3, <1>5, <2>2 DEF OnceEach
  <2> HIDE DEF f, known, k, n, l
  <2>4. \E p \in 1 .. Len(f.known) : f.known[p] = n /\ f.fake = Fake(p - 1)
    BY <2>1, <2>2
  <2>5. Len(known) <= Len(f.known)
    BY <1>3, <2>2 DEF l
  <2> QED BY <2>2, <2>3, <2>4, <2>5 DEF f, known, k, n
<1> QED BY <1>4, <1>5

LEMMA HideInitInv == HideInit \/ HideOff => HideInv
<1> SUFFICES ASSUME HideInit \/ HideOff PROVE HideInv
  OBVIOUS
<1>1. samples = << >> /\ hout = << >> /\ standins = [k \in Kinds |-> << >>] /\ hphase \in {"start", "off"}
  BY DEF HideInit, HideOff, Kinds
<1>2. IsSequence(<< >>) /\ DOMAIN << >> = {} /\ Range(<< >>) = {}
  BY DEF IsSequence, Range
<1>3. StandinsInv
  BY <1>1 DEF StandinsInv, OnceEach
<1>4. SamplesInv
  BY <1>1, <1>2 DEF SamplesInv
<1>5. WrittenInv
  BY <1>1, <1>2 DEF WrittenInv
<1> QED BY <1>3, <1>4, <1>5 DEF HideInv

\* What has been treated stays so while nothing that matters changes.
LEMMA StaysTreated ==
  ASSUME NEW i, UNCHANGED <<opts, standins>>, samples'[i] = samples[i]
  PROVE  Treated(i)' <=> Treated(i)
<1>1. opts' = opts /\ standins' = standins
  OBVIOUS
<1> QED BY <1>1 DEF Treated, Preserved, Fake

\* A record that is read changes nothing that is there.
LEMMA ReadsRecord ==
  ASSUME HideInv, NEW t \in Stamps, NextRecord(t), UNCHANGED <<opts, standins>>,
         hphase' \in {"record", "exit", "data"},
         IsSequence(hout'), \A o \in Range(hout') : o.nr = 0 \/ o \in Range(hout)
  PROVE  HideInv'
<1>1. PICK item \in IF opts.anon THEN Items ELSE {AnItem} :
        samples' = Append(samples, [time |-> t, item |-> item])
  BY DEF NextRecord
<1> DEFINE r == [time |-> t, item |-> item]
<1>2. /\ IsSequence(samples') /\ Len(samples') = Len(samples) + 1 /\ Len(samples) \in Nat
      /\ DOMAIN samples = 1 .. Len(samples)
      /\ \A i \in 1 .. Len(samples) : samples'[i] = samples[i]
      /\ samples'[Len(samples) + 1] = r
  BY <1>1, AppendSequence DEF HideInv, SamplesInv
<1>3. DOMAIN samples' = 1 .. Len(samples) + 1 /\ samples' # << >>
  BY <1>2 DEF IsSequence
<1>4. StandinsInv'
  BY DEF HideInv, StandinsInv
<1>5. SamplesInv'
  <2>1. ASSUME opts'.anon PROVE \A i \in DOMAIN samples' : samples'[i].item \in Items
    <3>1. opts.anon /\ item \in Items
      BY <1>1, <2>1
    <3>2. r.item = item
      OBVIOUS
    <3> QED BY <1>2, <1>3, <3>1, <3>2 DEF HideInv, SamplesInv
  <2> QED BY <1>2, <1>3, <2>1 DEF SamplesInv
<1>6. WrittenInv'
  <2>1. \A o \in Range(hout') : o.nr # 0 => o.nr \in DOMAIN samples' /\ Treated(o.nr)'
    <3> SUFFICES ASSUME NEW o \in Range(hout'), o.nr # 0
                 PROVE  o.nr \in DOMAIN samples' /\ Treated(o.nr)'
      OBVIOUS
    <3>1. o.nr \in DOMAIN samples /\ Treated(o.nr)
      BY DEF HideInv, WrittenInv
    <3>2. samples'[o.nr] = samples[o.nr] /\ o.nr \in DOMAIN samples'
      BY <1>2, <1>3, <3>1
    <3> QED BY <3>1, <3>2, StaysTreated
  <2> QED BY <2>1 DEF WrittenInv
<1> QED BY <1>4, <1>5, <1>6 DEF HideInv

LEMMA HideNextInv == HideInv /\ HideNext => HideInv'
<1> SUFFICES ASSUME HideInv, HideNext PROVE HideInv'
  OBVIOUS
<1>s. IsSequence(hout) /\ IsSequence(samples)
  BY DEF HideInv, SamplesInv
<1>1. CASE HideStart \/ HideEnd
  <2>1. UNCHANGED <<opts, samples, standins, hout>> /\ hphase' \in {"exit", "record"}
    BY <1>1 DEF HideStart, HideEnd, HideExit
  <2>2. StandinsInv' /\ SamplesInv'
    BY <2>1 DEF HideInv, StandinsInv, SamplesInv
  <2>3. WrittenInv'
    BY <2>1, StaysTreated DEF HideInv, WrittenInv
  <2> QED BY <2>2, <2>3 DEF HideInv
<1>2. CASE Skip
  BY <1>2, <1>s, ReadsRecord DEF Skip, NextRecord
<1>3. CASE Beyond
  BY <1>3, <1>s, ReadsRecord DEF Beyond, HideExit
<1>4. CASE Select
  <2>1. \E t \in Stamps : NextRecord(t)
    BY <1>4 DEF Select
  <2>2. UNCHANGED <<opts, standins>> /\ hphase' \in {"exit", "data"}
    BY <1>4 DEF Select, HideExit
  <2>3. hout' = hout \/ \E o : o.nr = 0 /\ hout' = <<o>>
    BY <1>4 DEF Select, HeaderOut
  <2>4. IsSequence(hout') /\ \A o \in Range(hout') : o.nr = 0 \/ o \in Range(hout)
    <3>1. ASSUME NEW o, o.nr = 0, hout' = <<o>>
          PROVE  IsSequence(hout') /\ \A x \in Range(hout') : x.nr = 0
      <4>1. Range(<<o>>) = {o} /\ <<o>> \in Seq({o})
        BY DEF Range
      <4> QED BY <3>1, <4>1 DEF IsSequence
    <3> QED BY <1>s, <2>3, <3>1
  <2> QED BY <2>1, <2>2, <2>4, ReadsRecord
<1>5. CASE HideData
  <2>1. CASE hphase' = "write" /\ anonymize(samples[Nr].item)
    <3> DEFINE item == samples[Nr].item
               given == opts.anon /\ ~Preserved(item)
               x == [time |-> samples[Nr].time, item |-> item,
                     shown |-> IF given THEN Fakes(item) ELSE item]
    <3>1. samples' = [samples EXCEPT ![Nr] = x]
          /\ standins' = IF given
               THEN [standins EXCEPT ![item.kind] = findstandin(item.kind, item.name).known]
               ELSE standins
      BY <2>1 DEF anonymize
    <3>2. samples # << >> /\ hout' = hout /\ opts' = opts
      BY <1>5 DEF HideData, HideInv, SamplesInv
    <3>3. /\ IsSequence(samples') /\ Len(samples') = Nr /\ Nr \in Nat \ {0} /\ Nr' = Nr
          /\ DOMAIN samples' = 1 .. Nr /\ DOMAIN samples = 1 .. Nr
          /\ \A i \in 1 .. Nr : samples'[i] = IF i = Nr THEN x ELSE samples[i]
      <4> HIDE DEF x
      <4> QED BY <1>s, <3>1, <3>2, ReplaceSequence DEF Nr
    <3>4. \A i \in 1 .. Nr : samples'[i].item = samples[i].item
      BY <3>3
    <3>5. Nr \in DOMAIN samples' /\ samples'[Nr] = x /\ samples'[Nr].item = item
          /\ samples'[Nr].shown = IF given THEN Fakes(item) ELSE item
      BY <3>3
    <3>6. CASE ~ given
      <4>1. standins' = standins
        BY <3>1, <3>6
      <4>2. \A i : i = Nr => Treated(i)'
        <5>1. samples'[Nr].shown = item
          BY <3>5, <3>6
        <5>2. opts'.anon = opts.anon /\ samples'[Nr].item = item
          BY <3>2, <3>5
        <5> HIDE DEF x
        <5>3. ~ (opts'.anon /\ ~ Preserved(samples'[Nr].item))
          BY <3>6, <5>2 DEF Preserved
        <5> QED BY <5>1, <5>2, <5>3 DEF Treated, Preserved
      <4>3. \A i \in 1 .. Nr : Treated(i) => Treated(i)'
        <5> SUFFICES ASSUME NEW i \in 1 .. Nr, Treated(i), i # Nr PROVE Treated(i)'
          BY <4>2
        <5> HIDE DEF x
        <5>1. samples'[i] = samples[i]
          BY <3>3
        <5> QED BY <3>2, <4>1, <5>1, StaysTreated
      <4>4. StandinsInv'
        BY <4>1 DEF HideInv, StandinsInv
      <4>5. SamplesInv'
        BY <1>s, <3>2, <3>3, <3>4 DEF HideInv, SamplesInv
      <4>6. WrittenInv'
        BY <3>2, <3>3, <4>2, <4>3 DEF HideInv, WrittenInv, Nr
      <4> QED BY <4>4, <4>5, <4>6 DEF HideInv
    <3>7. CASE given
      <4> DEFINE k == item.kind
                 f == findstandin(k, item.name)
      <4>1. item \in Items
        BY <3>3, <3>7 DEF HideInv, SamplesInv
      <4>2. k \in Kinds
        BY <4>1 DEF Items, Kinds
      <4>3. /\ f.known \in Seq(Originals) /\ OnceEach(f.known)
            /\ Len(standins[k]) <= Len(f.known)
            /\ \A p \in 1 .. Len(standins[k]) : f.known[p] = standins[k][p]
            /\ \E p \in 1 .. Len(f.known) : f.known[p] = item.name /\ f.fake = Fake(p - 1)
        BY <4>1, Finds DEF HideInv
      <4>4. standins' = [standins EXCEPT ![k] = f.known]
        BY <3>1, <3>7
      <4>5. samples'[Nr].shown = [item EXCEPT !.name = <<k, f.fake>>]
        BY <3>5, <3>7 DEF Fakes
      <4> HIDE DEF x
      <4> HIDE DEF f
      <4>6. standins \in [Kinds -> Seq(Originals)] /\ \A j \in Kinds : OnceEach(standins[j])
        BY DEF HideInv, StandinsInv
      <4>7. StandinsInv'
        BY <4>2, <4>3, <4>4, <4>6 DEF StandinsInv
      <4>8. standins'[k] = f.known /\ \A j \in Kinds : j # k => standins'[j] = standins[j]
        BY <4>2, <4>4, <4>6
      <4>9. \A i : i = Nr => Treated(i)'
        <5>1. PICK p \in 1 .. Len(f.known) : f.known[p] = item.name /\ f.fake = Fake(p - 1)
          BY <4>3
        <5>2. samples'[Nr].shown = [item EXCEPT !.name = <<k, Fake(p - 1)>>]
          BY <4>5, <5>1
        <5>3. opts'.anon /\ samples'[Nr].item = item
          BY <3>2, <3>5, <3>7
        <5>4. ~ Preserved(samples'[Nr].item) /\ p \in 1 .. Len(standins'[k])
              /\ standins'[k][p] = item.name
          BY <3>7, <4>8, <5>1, <5>3
        <5> HIDE DEF x
        <5> QED BY <5>2, <5>3, <5>4 DEF Treated, Preserved, Fake
      <4>10. \A i \in 1 .. Nr : Treated(i) => Treated(i)'
        <5> SUFFICES ASSUME NEW i \in 1 .. Nr, Treated(i), i # Nr PROVE Treated(i)'
          BY <4>9
        <5> DEFINE old == samples[i].item
        <5>1. samples'[i] = samples[i] /\ old \in Items
          BY <3>3, <3>7 DEF HideInv, SamplesInv
        <5>2. old.kind \in Kinds
          BY <5>1 DEF Items, Kinds
        <5>3. CASE ~ Preserved(old)
          <6>1. PICK p \in 1 .. Len(standins[old.kind]) :
                   /\ standins[old.kind][p] = old.name
                   /\ samples[i].shown = [old EXCEPT !.name = <<old.kind, Fake(p - 1)>>]
            BY <3>7, <5>3 DEF Treated
          <6>2. p \in 1 .. Len(standins'[old.kind]) /\ standins'[old.kind][p] = old.name
            <7>1. CASE old.kind # k
              BY <4>8, <5>2, <6>1, <7>1
            <7>2. CASE old.kind = k
              <8>1. Len(standins[k]) \in Nat /\ Len(f.known) \in Nat
                BY <4>2, <4>3, <4>6
              <8> QED BY <4>3, <4>8, <6>1, <7>2, <8>1
            <7> QED BY <7>1, <7>2
          <6> QED BY <3>2, <3>7, <5>1, <5>3, <6>1, <6>2 DEF Treated, Preserved, Fake
        <5>4. CASE Preserved(old)
          BY <3>2, <5>1, <5>4 DEF Treated, Preserved
        <5> QED BY <5>3, <5>4
      <4>11. SamplesInv'
        BY <1>s, <3>2, <3>3, <3>4 DEF HideInv, SamplesInv
      <4>12. WrittenInv'
        BY <3>2, <3>3, <4>9, <4>10 DEF HideInv, WrittenInv, Nr
      <4> QED BY <4>7, <4>11, <4>12 DEF HideInv
    <3> QED BY <3>6, <3>7
  <2>2. CASE hphase' = "exit" /\ UNCHANGED <<samples, standins>>
    <3>1. UNCHANGED <<opts, samples, standins, hout>>
      BY <1>5, <2>2 DEF HideData
    <3>2. StandinsInv' /\ SamplesInv'
      BY <2>2, <3>1 DEF HideInv, StandinsInv, SamplesInv
    <3>3. WrittenInv'
      BY <2>2, <3>1, StaysTreated DEF HideInv, WrittenInv
    <3> QED BY <3>2, <3>3 DEF HideInv
  <2> QED BY <1>5, <2>1, <2>2 DEF HideData, HideExit
<1>6. CASE HideWrite
  <2>1. UNCHANGED <<opts, samples, standins>> /\ samples # << >> /\ Treated(Nr)
    BY <1>6 DEF HideWrite, HideInv, SamplesInv, WrittenInv
  <2>2. hphase' \in {"record", "write", "exit"}
    BY <1>6 DEF HideWrite, HideExit
  <2>3. hout' = hout \/ \E o : o.nr = Nr /\ hout' = Append(hout, o)
    <3>1. ASSUME NEW c, NEW item, NEW short PROVE Written(c, item, short).nr = Nr
      BY DEF Written
    <3> QED BY <1>6, <3>1 DEF HideWrite
  <2>4. IsSequence(hout') /\ \A o \in Range(hout') : o.nr = Nr \/ o \in Range(hout)
    <3>1. ASSUME NEW o, o.nr = Nr, hout' = Append(hout, o)
          PROVE  IsSequence(hout') /\ Range(hout') = Range(hout) \cup {o}
      BY <1>s, <3>1, AppendSequence
    <3> QED BY <1>s, <2>3, <3>1
  <2>5. Nr \in DOMAIN samples
    <3>1. samples \in Seq(Range(samples))
      BY <1>s DEF IsSequence
    <3> QED BY <2>1, <3>1 DEF Nr
  <2>6. StandinsInv'
    BY <2>1 DEF HideInv, StandinsInv
  <2>7. SamplesInv'
    BY <2>1, <2>4 DEF HideInv, SamplesInv
  <2>8. WrittenInv'
    <3>1. \A i : Treated(i)' <=> Treated(i)
      BY <2>1, StaysTreated
    <3>2. Nr' = Nr
      BY <2>1 DEF Nr
    <3>3. \A o \in Range(hout') : o.nr # 0 => o.nr \in DOMAIN samples' /\ Treated(o.nr)
      BY <2>1, <2>4, <2>5 DEF HideInv, WrittenInv
    <3> QED BY <2>1, <3>1, <3>2, <3>3 DEF WrittenInv
  <2> QED BY <2>6, <2>7, <2>8 DEF HideInv
<1> QED BY <1>1, <1>2, <1>3, <1>4, <1>5, <1>6 DEF HideNext

\* A behaviour of the three programs keeps it.
THEOREM StandinsInvariance == Spec => []HideInv
<1>1. Init => HideInv
  BY HideInitInv DEF Init
<1>2. HideInv /\ [Next]_vars => HideInv'
  <2> SUFFICES ASSUME HideInv, [Next]_vars PROVE HideInv'
    OBVIOUS
  <2>1. CASE UNCHANGED hvars
    <3>1. UNCHANGED <<opts, samples, standins, hout, hphase>>
      BY <2>1 DEF hvars
    <3>2. StandinsInv' /\ SamplesInv'
      BY <3>1 DEF HideInv, StandinsInv, SamplesInv
    <3>3. WrittenInv'
      BY <3>1, StaysTreated DEF HideInv, WrittenInv, Nr
    <3> QED BY <3>2, <3>3 DEF HideInv
  <2>2. CASE HideNext
    BY <2>2, HideNextInv
  <2> QED BY <2>1, <2>2 DEF Next, vars
<1> QED BY <1>1, <1>2, PTL DEF Spec

\* The stand-ins are not names of the log.
NewNames == \A k \in Kinds, n \in Nat : <<k, n>> \notin Originals

LEMMA FakeIsNat == ASSUME NEW n \in Nat PROVE Fake(n) \in Nat /\ (n < FakeLimit => Fake(n) = n)
<1>1. Radix \in Nat \ {0} /\ FakeLimit \in Nat
  BY AtopHideAssumption
<1>2. n \div Radix \in Nat
  BY <1>1, SMT
<1> QED BY <1>1, <1>2 DEF Fake

\* The sample i has been written: its name is its own, or a stand-in by its place.
LEMMA HowShown ==
  ASSUME HideInv, NEW i \in Shown
  PROVE  LET n == Names(i) IN
         /\ n.old \in Items /\ n.old.kind \in Kinds
         /\ Preserved(n.old) => n.new = n.old
         /\ ~ Preserved(n.old) =>
              \E p \in 1 .. Len(standins[n.old.kind]) :
                 /\ standins[n.old.kind][p] = n.old.name
                 /\ n.new.name = <<n.old.kind, Fake(p - 1)>>
<1> DEFINE old == samples[i].item
<1>1. i \in DOMAIN samples /\ opts.anon /\ \E o \in Range(hout) : o.nr = i
  BY DEF Shown
<1>2. i \in Nat \ {0}
  <2>1. samples \in Seq(Range(samples))
    BY DEF HideInv, SamplesInv, IsSequence
  <2> QED BY <1>1, <2>1
<1>3. Treated(i)
  BY <1>1, <1>2 DEF HideInv, WrittenInv
<1>4. Names(i).old = old /\ Names(i).new = samples[i].shown
  BY DEF Names
<1>5. old \in Items
  BY <1>1 DEF HideInv, SamplesInv
<1>6. old.kind \in Kinds
  BY <1>5 DEF Items, Kinds
<1>7. \A x : [old EXCEPT !.name = x].name = x
  BY <1>5 DEF Items
<1> HIDE DEF old
<1>8. Preserved(old) => samples[i].shown = old
  BY <1>3 DEF Treated, old
<1>9. ~ Preserved(old) =>
        \E p \in 1 .. Len(standins[old.kind]) :
           standins[old.kind][p] = old.name /\ samples[i].shown.name = <<old.kind, Fake(p - 1)>>
  <2> SUFFICES ASSUME ~ Preserved(old)
               PROVE  \E p \in 1 .. Len(standins[old.kind]) :
                        standins[old.kind][p] = old.name
                        /\ samples[i].shown.name = <<old.kind, Fake(p - 1)>>
    OBVIOUS
  <2>1. PICK p \in 1 .. Len(standins[old.kind]) :
          standins[old.kind][p] = old.name
          /\ samples[i].shown = [old EXCEPT !.name = <<old.kind, Fake(p - 1)>>]
    BY <1>1, <1>3 DEF Treated, old
  <2>2. samples[i].shown.name = <<old.kind, Fake(p - 1)>>
    BY <1>7, <2>1, Zenon
  <2> QED BY <2>1, <2>2
<1> QED BY <1>4, <1>5, <1>6, <1>8, <1>9

\* With -a no private name is left in the output, the names of standard
\* commands and of kernel processes are, and a name can be followed by its
\* stand-in: anonymize() and findstandin() of atophide.c.
THEOREM NamesAreReplaced == ASSUME NewNames PROVE Spec => []Anonymous
<1>1. HideInv => Anonymous
  <2> SUFFICES ASSUME HideInv PROVE Anonymous
    OBVIOUS
  <2>1. Hidden
    <3> SUFFICES ASSUME NEW i \in Shown, Names(i).old.state # "zombie"
                 PROVE  IF Private(Names(i).old) THEN Names(i).new.name \notin Originals
                        ELSE Names(i).new = Names(i).old
      BY Zenon DEF Hidden
    <3> DEFINE old == Names(i).old
               new == Names(i).new
    <3>1. /\ old \in Items /\ old.kind \in Kinds
          /\ Preserved(old) => new = old
          /\ ~ Preserved(old) => \E p \in 1 .. Len(standins[old.kind]) :
                                    standins[old.kind][p] = old.name
                                    /\ new.name = <<old.kind, Fake(p - 1)>>
      BY HowShown
    <3> HIDE DEF old, new
    <3>2. ASSUME ~ Preserved(old) PROVE new.name \notin Originals
      <4>1. PICK p \in 1 .. Len(standins[old.kind]) : new.name = <<old.kind, Fake(p - 1)>>
        BY <3>1, <3>2
      <4>2. p - 1 \in Nat
        BY <4>1
      <4>3. Fake(p - 1) \in Nat
        BY <4>2, FakeIsNat
      <4> QED BY <3>1, <4>1, <4>3 DEF NewNames
    <3>3. Private(old) <=> ~ Preserved(old)
      BY DEF Private, Preserved, old
    <3> QED BY <3>1, <3>2, <3>3 DEF old, new
  <2>2. OneStandin
    <3> SUFFICES ASSUME NEW i \in Shown, NEW j \in Shown,
                        Names(i).new # Names(i).old, Names(j).new # Names(j).old,
                        Names(i).old.kind = Names(j).old.kind,
                        Len(standins[Names(i).old.kind]) <= FakeLimit
                 PROVE  Names(i).new.name = Names(j).new.name
                        <=> Names(i).old.name = Names(j).old.name
      BY Zenon DEF OneStandin
    <3> DEFINE k == Names(i).old.kind
               known == standins[k]
    <3>1. PICK p \in 1 .. Len(known) : known[p] = Names(i).old.name
                                       /\ Names(i).new.name = <<k, Fake(p - 1)>>
      BY HowShown
    <3>2. PICK q \in 1 .. Len(known) : known[q] = Names(j).old.name
                                       /\ Names(j).new.name = <<k, Fake(q - 1)>>
      BY HowShown
    <3>3. known \in Seq(Originals) /\ OnceEach(known)
      BY HowShown DEF HideInv, StandinsInv
    <3> HIDE DEF k, known
    <3>4. Len(known) \in Nat /\ Len(known) <= FakeLimit /\ FakeLimit \in Nat
      BY <3>3, AtopHideAssumption DEF k, known
    <3>5. p - 1 \in Nat /\ q - 1 \in Nat /\ p - 1 < FakeLimit /\ q - 1 < FakeLimit
      BY <3>4
    <3>6. Fake(p - 1) = p - 1 /\ Fake(q - 1) = q - 1
      BY <3>5, FakeIsNat
    <3>7. known[p] = known[q] <=> p = q
      BY <3>3 DEF OnceEach
    <3> QED BY <3>1, <3>2, <3>6, <3>7
  <2> QED BY <2>1, <2>2 DEF Anonymous
<1> QED BY <1>1, StandinsInvariance, PTL

-----------------------------------------------------------------------------
(***************************************************************************)
(* atophide: the samples that are written.                                 *)
(***************************************************************************)
\* What stands at the place i of the output: the chunks of the samples in the
\* window, one sample after the other.
ChunksInOrder ==
  \A i \in 2 .. Len(hout) :
    /\ hout[i].nr \in Selected
    /\ Before(hout[i].nr) = (i - 2) \div Len(HideChunks)
    /\ hout[i].chunk = HideChunks[1 + ((i - 2) % Len(HideChunks))]

\* How far the output is: the sample that has just been selected counts as
\* written, its chunks follow one by one.
LengthSoFar ==
  CASE hphase = "data" -> 1 + (writecnt - 1) * Len(HideChunks)
    [] hphase = "write" -> 1 + (writecnt - 1) * Len(HideChunks) + hchunk
    [] OTHER -> IF writecnt = 0 THEN 0 ELSE 1 + writecnt * Len(HideChunks)
WindowInv ==
  /\ opts.begin \in Nat /\ opts.end \in Nat
  /\ opts.anon => opts.begin = 0 /\ opts.end = 0
CutInv ==
  /\ WindowInv /\ ChunksInOrder
  /\ writecnt \in Nat
  /\ hphase \in {"start", "off", "record", "data", "write", "exit"}
  /\ hphase \in {"start", "off"} => samples = << >> /\ hout = << >> /\ writecnt = 0
  /\ hphase \in {"data", "write"} =>
       Nr \in Selected /\ writecnt # 0 /\ Before(Nr) = writecnt - 1
  /\ hphase = "write" => hchunk \in 0 .. Len(HideChunks) - 1
  /\ hphase # "exit" \/ hcode = 0 =>
       writecnt = Cardinality(Selected) /\ Len(hout) = LengthSoFar

LEMMA FiveChunks == Len(HideChunks) = 5
BY DEF HideChunks

LEMMA CutInitInv == HideInit \/ HideOff => CutInv
<1> SUFFICES ASSUME HideInit \/ HideOff PROVE CutInv
  OBVIOUS
<1>1. samples = << >> /\ hout = << >> /\ writecnt = 0 /\ hphase \in {"start", "off"}
  BY DEF HideInit, HideOff
<1>2. Selected = {} /\ Cardinality(Selected) = 0
  <2>1. Selected = {}
    BY <1>1 DEF Selected
  <2> QED BY <2>1, FS_EmptySet
<1>3. WindowInv
  <2>1. CASE HideInit
    <3>1. opts.begin \in Times \union {0} /\ opts.end \in Times \union {0}
          /\ (opts.anon => opts.begin = 0 /\ opts.end = 0)
      BY <2>1 DEF HideInit
    <3>2. \A t \in Times : t \in Nat
      BY AtopHideAssumption
    <3> QED BY <3>1, <3>2 DEF WindowInv
  <2>2. CASE HideOff
    BY <2>2 DEF HideOff, WindowInv
  <2> QED BY <2>1, <2>2
<1>4. Len(hout) = 0 /\ LengthSoFar = 0
  BY <1>1 DEF LengthSoFar
<1> QED BY <1>1, <1>2, <1>3, <1>4 DEF CutInv, ChunksInOrder

\* Whether a sample is in the window depends on nothing but its time.
LEMMA SelectedStays ==
  ASSUME opts' = opts, DOMAIN samples' = DOMAIN samples,
         \A i \in DOMAIN samples : samples'[i].time = samples[i].time
  PROVE  Selected' = Selected /\ \A i : Before(i)' = Before(i)
<1>1. Selected' = Selected
  BY DEF Selected, InWindow
<1> QED BY <1>1 DEF Before

LEMMA SetGrows ==
  ASSUME NEW n \in Nat, NEW S \in SUBSET (1 .. n), NEW T \in SUBSET (1 .. n + 1),
         \A i \in 1 .. n : i \in T <=> i \in S
  PROVE  /\ T = IF n + 1 \in T THEN S \cup {n + 1} ELSE S
         /\ {k \in T : k < n + 1} = S
<1>1. \A x : x \in 1 .. n + 1 <=> x \in 1 .. n \/ x = n + 1
  OBVIOUS
<1>2. \A x : x \in T <=> x \in S \/ (x = n + 1 /\ n + 1 \in T)
  <2> TAKE x
  <2>1. CASE x \in 1 .. n
    BY <2>1
  <2>2. CASE ~ (x \in 1 .. n)
    BY <1>1, <2>2
  <2> QED BY <2>1, <2>2
<1>3. \A x \in T : x < n + 1 <=> x \in S
  BY <1>2
<1> QED BY <1>2, <1>3

\* A sample that is read is in the window or not; the others stay as they are.
LEMMA SelectsOne ==
  ASSUME IsSequence(samples), WindowInv, opts' = opts, NEW t \in Stamps, NextRecord(t)
  PROVE  /\ Nr \in Nat /\ Nr' = Nr + 1 /\ Selected \subseteq 1 .. Nr
         /\ IF (opts.begin # 0 /\ opts.begin > t) \/ (opts.end # 0 /\ opts.end < t)
            THEN Selected' = Selected /\ Cardinality(Selected') = Cardinality(Selected)
            ELSE Selected' = Selected \cup {Nr + 1}
                 /\ Cardinality(Selected') = Cardinality(Selected) + 1
         /\ \A i \in Selected : i \in Selected' /\ Before(i)' = Before(i)
         /\ \A i \in Selected' : i = Nr + 1 => Before(i)' = Cardinality(Selected)
<1>1. PICK item : samples' = Append(samples, [time |-> t, item |-> item])
  BY DEF NextRecord
<1> DEFINE r == [time |-> t, item |-> item]
           in == ~ ((opts.begin # 0 /\ opts.begin > t) \/ (opts.end # 0 /\ opts.end < t))
<1>2. /\ IsSequence(samples') /\ Nr' = Nr + 1 /\ Nr \in Nat
      /\ DOMAIN samples = 1 .. Nr
      /\ \A i \in 1 .. Nr : samples'[i] = samples[i]
      /\ samples'[Nr + 1] = r
  BY <1>1, AppendSequence DEF Nr
<1>3. DOMAIN samples' = 1 .. Nr + 1
  <2>1. samples' \in Seq(Range(samples'))
    BY <1>2 DEF IsSequence
  <2> QED BY <1>2, <2>1 DEF Nr
<1>4. InWindow(r) <=> in
  <2>1. r.time = t
    OBVIOUS
  <2>2. CASE opts.anon
    BY <2>2 DEF WindowInv, InWindow
  <2>3. CASE ~ opts.anon
    <3>1. t \in Nat
      BY <2>3, AtopHideAssumption DEF Stamps
    <3> QED BY <2>1, <3>1 DEF WindowInv, InWindow
  <2> QED BY <2>2, <2>3 DEF InWindow
<1>5. \A i \in 1 .. Nr + 1 : i \in Selected' <=> IF i = Nr + 1 THEN in ELSE i \in Selected
  <2> SUFFICES ASSUME NEW i \in 1 .. Nr + 1
               PROVE  i \in Selected' <=> IF i = Nr + 1 THEN in ELSE i \in Selected
    OBVIOUS
  <2>1. i \in Selected' <=> InWindow(samples'[i])
    BY <1>3 DEF Selected, InWindow
  <2>2. CASE i = Nr + 1
    BY <1>2, <1>4, <2>1, <2>2
  <2>3. CASE i # Nr + 1
    BY <1>2, <2>1, <2>3 DEF Selected
  <2> QED BY <2>2, <2>3
<1>6. Selected \subseteq 1 .. Nr /\ Selected' \subseteq 1 .. Nr + 1
  BY <1>2, <1>3 DEF Selected
<1>7. IsFiniteSet(Selected)
  <2>1. IsFiniteSet(1 .. Nr)
    BY <1>2, FS_Interval
  <2> QED BY <1>6, <2>1, FS_Subset
<1>8. ~ (Nr + 1 \in Selected)
  BY <1>2, <1>6
<1> HIDE DEF in, r
<1>c. /\ Selected' = IF Nr + 1 \in Selected' THEN Selected \cup {Nr + 1} ELSE Selected
      /\ {k \in Selected' : k < Nr + 1} = Selected
  <2> DEFINE S == Selected
             T == Selected'
             n == Nr
  <2>1. n \in Nat /\ S \in SUBSET (1 .. n) /\ T \in SUBSET (1 .. n + 1)
        /\ \A i \in 1 .. n : i \in T <=> i \in S
    BY <1>2, <1>5, <1>6
  <2> HIDE DEF S, T, n
  <2>2. /\ T = IF n + 1 \in T THEN S \cup {n + 1} ELSE S
        /\ {k \in T : k < n + 1} = S
    BY <2>1, SetGrows
  <2> QED BY <2>2 DEF S, T, n
<1>d. Nr + 1 \in Selected' <=> in
  BY <1>2, <1>5
<1>9. IF in THEN Selected' = Selected \cup {Nr + 1} ELSE Selected' = Selected
  BY <1>c, <1>d, Zenon
<1>10. IF in THEN Cardinality(Selected') = Cardinality(Selected) + 1
       ELSE Cardinality(Selected') = Cardinality(Selected)
  BY <1>7, <1>8, <1>9, FS_AddElement
<1>11. ASSUME NEW i \in Selected PROVE i \in Selected' /\ Before(i)' = Before(i)
  <2>1. i \in Selected' /\ i \in 1 .. Nr
    BY <1>6, <1>9
  <2>2. {k \in Selected' : k < i} = {k \in Selected : k < i}
    BY <1>2, <1>9, <2>1
  <2> QED BY <2>1, <2>2 DEF Before
<1>12. ASSUME NEW i \in Selected', i = Nr + 1 PROVE Before(i)' = Cardinality(Selected)
  BY <1>c, <1>12 DEF Before
<1> QED BY <1>2, <1>6, <1>9, <1>10, <1>11, <1>12 DEF in

LEMMA NextChunk ==
  ASSUME NEW w \in Nat \ {0}, NEW h \in 0 .. 4, NEW l, l = 1 + (w - 1) * 5 + h
  PROVE  /\ l \in Nat
         /\ (l + 1 - 2) \div 5 = w - 1 /\ (l + 1 - 2) % 5 = h
         /\ l + 1 = 1 + (w - 1) * 5 + (h + 1)
         /\ h + 1 = 5 => l + 1 = 1 + w * 5
OBVIOUS

LEMMA KeepsChunks ==
  ASSUME ChunksInOrder, \A i \in Selected : i \in Selected' /\ Before(i)' = Before(i),
         hout' = hout \/ \E x : hout' = <<x>>
  PROVE  ChunksInOrder'
<1>1. CASE hout' = hout
  BY <1>1 DEF ChunksInOrder
<1>2. CASE \E x : hout' = <<x>>
  <2>1. Len(hout') = 1
    BY <1>2
  <2> QED BY <2>1 DEF ChunksInOrder
<1> QED BY <1>1, <1>2

\* The record of a sample that is not selected.
LEMMA PassesBy ==
  ASSUME HideInv, CutInv, hphase = "record", NEW t \in Stamps, NextRecord(t),
         (opts.begin # 0 /\ opts.begin > t) \/ (opts.end # 0 /\ opts.end < t),
         UNCHANGED <<opts, hout, writecnt>>, hphase' = "record" \/ hphase' = "exit"
  PROVE  CutInv'
<1>1. /\ Selected' = Selected /\ Cardinality(Selected') = Cardinality(Selected)
      /\ \A i \in Selected : i \in Selected' /\ Before(i)' = Before(i)
  BY SelectsOne DEF HideInv, SamplesInv, CutInv
<1>2. ChunksInOrder'
  BY <1>1, KeepsChunks DEF CutInv
<1>3. WindowInv'
  BY DEF CutInv, WindowInv
<1>4. LengthSoFar' = LengthSoFar
  BY DEF LengthSoFar
<1> QED BY <1>1, <1>2, <1>3, <1>4 DEF CutInv

LEMMA CutNextInv == HideInv /\ HideInv' /\ CutInv /\ HideNext => CutInv'
<1> SUFFICES ASSUME HideInv, HideInv', CutInv, HideNext PROVE CutInv'
  OBVIOUS
<1>o. opts' = opts
  BY DEF HideNext, HideStart, HideEnd, Skip, Beyond, Select, HideData, HideWrite
<1>w. WindowInv'
  BY <1>o DEF CutInv, WindowInv
<1>s. IsSequence(samples) /\ IsSequence(hout) /\ writecnt \in Nat
  BY DEF HideInv, SamplesInv, CutInv
<1>1. CASE HideStart \/ HideEnd
  <2>1. /\ UNCHANGED <<samples, hout, writecnt>>
        /\ \/ hphase = "start" /\ hphase' = "record"
           \/ hphase = "start" /\ hphase' = "exit" /\ hcode' # 0
           \/ hphase = "record" /\ hphase' = "exit"
    BY <1>1 DEF HideStart, HideEnd, HideExit
  <2>2. Selected' = Selected /\ \A i : Before(i)' = Before(i)
    BY <1>o, <2>1, SelectedStays
  <2>3. ChunksInOrder'
    BY <2>1, <2>2, KeepsChunks DEF CutInv
  <2>4. LengthSoFar' = LengthSoFar
    BY <2>1 DEF LengthSoFar
  <2> QED BY <1>w, <2>1, <2>2, <2>3, <2>4 DEF CutInv
<1>2. CASE Skip
  <2>1. PICK t \in Stamps : NextRecord(t) /\ opts.begin # 0 /\ opts.begin > t
    BY <1>2 DEF Skip
  <2>2. UNCHANGED <<opts, hout, writecnt, hphase>> /\ hphase = "record"
    BY <1>2 DEF Skip, NextRecord
  <2> QED BY <2>1, <2>2, PassesBy
<1>3. CASE Beyond
  <2>1. PICK t \in Stamps : NextRecord(t) /\ opts.end # 0 /\ opts.end < t
    BY <1>3 DEF Beyond
  <2>2. UNCHANGED <<opts, hout, writecnt>> /\ hphase = "record" /\ hphase' = "exit"
    BY <1>3 DEF Beyond, NextRecord, HideExit
  <2> QED BY <2>1, <2>2, PassesBy
<1>4. CASE Select
  <2>1. PICK t \in Stamps : /\ NextRecord(t)
                            /\ ~ (opts.begin # 0 /\ opts.begin > t)
                            /\ ~ (opts.end # 0 /\ opts.end < t)
    BY <1>4 DEF Select
  <2>2. /\ Nr \in Nat /\ Nr' = Nr + 1
        /\ Selected' = Selected \cup {Nr + 1}
        /\ Cardinality(Selected') = Cardinality(Selected) + 1
        /\ \A i \in Selected : i \in Selected' /\ Before(i)' = Before(i)
        /\ \A i \in Selected' : i = Nr + 1 => Before(i)' = Cardinality(Selected)
    BY <1>o, <1>s, <2>1, SelectsOne DEF CutInv
  <2>3. /\ hphase = "record" /\ writecnt' = writecnt + 1
        /\ \/ writecnt > 0 /\ hphase' = "data" /\ hout' = hout
           \/ writecnt = 0 /\ hphase' = "data" /\ \E x : hout' = <<x>>
           \/ hphase' = "exit" /\ hcode' # 0 /\ (hout' = hout \/ \E x : hout' = <<x>>)
    <3>1. hphase = "record" /\ writecnt' = writecnt + 1
      BY <1>4 DEF Select, NextRecord
    <3>2. CASE writecnt > 0
      BY <1>4, <3>1, <3>2 DEF Select
    <3>3. CASE writecnt = 0
      <4>1. \/ hphase' = "data" /\ hout' = <<HeaderOut>>
            \/ HideExit(4) /\ hout' = hout
            \/ HideExit(10) /\ hout' = <<[HeaderOut EXCEPT !.short = TRUE]>>
        BY <1>4, <3>3 DEF Select
      <4> QED BY <3>1, <3>3, <4>1 DEF HideExit
    <3> QED BY <1>s, <3>1, <3>2, <3>3
  <2>4. ChunksInOrder'
    BY <2>2, <2>3, KeepsChunks DEF CutInv
  <2>5. writecnt = Cardinality(Selected)
        /\ Len(hout) = IF writecnt = 0 THEN 0 ELSE 1 + writecnt * Len(HideChunks)
    BY <2>3 DEF CutInv, LengthSoFar
  <2>6. hphase' = "data" => Len(hout') = LengthSoFar'
    <3>1. LengthSoFar' = IF hphase' = "data" THEN 1 + writecnt * Len(HideChunks) ELSE LengthSoFar'
      <4>1. (writecnt' - 1) = writecnt
        BY <1>s, <2>3
      <4> QED BY <4>1 DEF LengthSoFar
    <3>2. CASE writecnt > 0 /\ hphase' = "data" /\ hout' = hout
      BY <1>s, <2>5, <3>1, <3>2
    <3>3. CASE writecnt = 0 /\ hphase' = "data" /\ \E x : hout' = <<x>>
      <4>1. Len(hout') = 1
        BY <3>3
      <4> QED BY <3>1, <3>3, <4>1, FiveChunks
    <3> QED BY <2>3, <3>2, <3>3
  <2>7. Nr' \in Selected' /\ writecnt' # 0 /\ Before(Nr)' = writecnt' - 1
    <3>1. Nr' \in Selected' /\ writecnt' # 0 /\ writecnt' - 1 = Cardinality(Selected)
      BY <1>s, <2>2, <2>3, <2>5
    <3>2. \A i \in Selected' : i = Nr' => Cardinality({k \in Selected' : k < i}) = Cardinality(Selected)
      BY <2>2 DEF Before
    <3> QED BY <3>1, <3>2 DEF Before
  <2>8. writecnt' \in Nat /\ writecnt' = Cardinality(Selected')
    BY <1>s, <2>2, <2>3, <2>5
  <2> QED BY <1>w, <2>3, <2>4, <2>6, <2>7, <2>8 DEF CutInv
<1>5. CASE HideData
  <2>1. hphase = "data" /\ UNCHANGED <<writecnt, hout>>
    BY <1>5 DEF HideData
  <2>2. CASE hphase' = "write" /\ hchunk' = 0 /\ anonymize(samples[Nr].item)
    <3> DEFINE x == [time |-> samples[Nr].time, item |-> samples[Nr].item,
                     shown |-> IF opts.anon /\ ~Preserved(samples[Nr].item)
                               THEN Fakes(samples[Nr].item) ELSE samples[Nr].item]
    <3>1. samples' = [samples EXCEPT ![Nr] = x] /\ samples # << >>
      BY <2>1, <2>2 DEF anonymize, HideInv, SamplesInv
    <3>2. x.time = samples[Nr].time
      OBVIOUS
    <3> HIDE DEF x
    <3>3. /\ Nr' = Nr /\ DOMAIN samples' = DOMAIN samples
          /\ \A i \in DOMAIN samples : samples'[i].time = samples[i].time
      BY <1>s, <3>1, <3>2, ReplaceSequence DEF Nr
    <3>4. Selected' = Selected /\ \A i : Before(i)' = Before(i)
      BY <1>o, <3>3, SelectedStays
    <3>5. ChunksInOrder'
      BY <2>1, <3>4, KeepsChunks DEF CutInv
    <3>6. Len(hout') = LengthSoFar'
      <4>1. Len(hout) = 1 + (writecnt - 1) * 5
        BY <2>1, FiveChunks DEF CutInv, LengthSoFar
      <4>2. LengthSoFar' = 1 + (writecnt - 1) * 5 + 0
        BY <2>1, <2>2, FiveChunks DEF LengthSoFar
      <4> QED BY <1>s, <2>1, <4>1, <4>2
    <3> QED BY <1>w, <2>1, <2>2, <3>3, <3>4, <3>5, <3>6, FiveChunks DEF CutInv
  <2>3. CASE hphase' = "exit" /\ hcode' # 0 /\ UNCHANGED samples
    <3>1. Selected' = Selected /\ \A i : Before(i)' = Before(i)
      BY <1>o, <2>3, SelectedStays
    <3>2. ChunksInOrder'
      BY <2>1, <3>1, KeepsChunks DEF CutInv
    <3> QED BY <1>s, <1>w, <2>1, <2>3, <3>2 DEF CutInv
  <2> QED BY <1>5, <2>2, <2>3 DEF HideData, HideExit
<1>6. CASE HideWrite
  <2>1. hphase = "write" /\ UNCHANGED <<samples, writecnt>> /\ Nr' = Nr
    BY <1>6 DEF HideWrite, Nr
  <2>2. Selected' = Selected /\ \A i : Before(i)' = Before(i)
    BY <1>o, <2>1, SelectedStays
  <2>3. CASE hphase' = "exit" /\ hcode' # 0 /\ hout' = hout
    <3>1. ChunksInOrder'
      BY <2>2, <2>3, KeepsChunks DEF CutInv
    <3> QED BY <1>s, <1>w, <2>1, <2>3, <3>1 DEF CutInv
  <2>4. CASE /\ \E short \in BOOLEAN : hout' = Append(hout, Written(HideChunks[hchunk + 1], samples[Nr].shown, short))
             /\ hchunk' = hchunk + 1
             /\ hphase' = IF hchunk + 1 = Len(HideChunks) THEN "record" ELSE "write"
    <3>1. PICK x : hout' = Append(hout, x) /\ x.nr = Nr /\ x.chunk = HideChunks[hchunk + 1]
      BY <2>4 DEF Written
    <3>2. /\ Len(hout') = Len(hout) + 1 /\ Len(hout) \in Nat
          /\ \A i \in 1 .. Len(hout) : hout'[i] = hout[i]
          /\ hout'[Len(hout) + 1] = x
      BY <1>s, <3>1, AppendSequence
    <3>3. /\ Len(hout) = 1 + (writecnt - 1) * 5 + hchunk /\ hchunk \in 0 .. 4
          /\ Nr \in Selected /\ writecnt = Cardinality(Selected) /\ writecnt # 0
      BY <2>1, FiveChunks DEF CutInv, LengthSoFar
    <3>4. Before(Nr) = writecnt - 1
      BY <2>1 DEF CutInv
    <3>n. /\ (Len(hout) + 1 - 2) \div 5 = writecnt - 1 /\ (Len(hout) + 1 - 2) % 5 = hchunk
          /\ Len(hout) + 1 = 1 + (writecnt - 1) * 5 + (hchunk + 1)
          /\ hchunk + 1 = 5 => Len(hout) + 1 = 1 + writecnt * 5
      <4>1. writecnt \in Nat \ {0}
        BY <1>s, <3>3
      <4> DEFINE l == Len(hout)
      <4>2. l = 1 + (writecnt - 1) * 5 + hchunk /\ hchunk \in 0 .. 4
        BY <3>3
      <4> HIDE DEF l
      <4> QED BY <4>1, <4>2, NextChunk DEF l
    <3>5. ChunksInOrder'
      <4> SUFFICES ASSUME NEW i \in 2 .. Len(hout')
                   PROVE  /\ hout'[i].nr \in Selected
                          /\ Before(hout'[i].nr) = (i - 2) \div 5
                          /\ hout'[i].chunk = HideChunks[1 + ((i - 2) % 5)]
        BY <2>2, FiveChunks DEF ChunksInOrder, Before
      <4>1. CASE i <= Len(hout)
        BY <3>2, <4>1, FiveChunks DEF CutInv, ChunksInOrder
      <4>2. CASE i = Len(hout) + 1
        <5>1. hout'[i] = x
          BY <3>2, <4>2
        <5>2. (i - 2) \div 5 = writecnt - 1 /\ (i - 2) % 5 = hchunk
          BY <3>n, <4>2
        <5>3. 1 + ((i - 2) % 5) = hchunk + 1
          BY <3>3, <5>2
        <5> QED BY <3>1, <3>3, <3>4, <5>1, <5>2, <5>3, Zenon
      <4> QED BY <3>2, <4>1, <4>2
    <3>6. Len(hout') = LengthSoFar'
      <4>1. CASE hchunk + 1 = 5
        <5>1. LengthSoFar' = IF writecnt = 0 THEN 0 ELSE 1 + writecnt * 5
          BY <2>1, <2>4, <4>1, FiveChunks DEF LengthSoFar
        <5> QED BY <3>2, <3>3, <3>n, <4>1, <5>1
      <4>2. CASE hchunk + 1 # 5
        <5>1. LengthSoFar' = 1 + (writecnt - 1) * 5 + (hchunk + 1)
          BY <2>1, <2>4, <4>2, FiveChunks DEF LengthSoFar
        <5> QED BY <3>2, <3>n, <5>1
      <4> QED BY <4>1, <4>2
    <3> QED BY <1>s, <1>w, <2>1, <2>2, <2>4, <3>3, <3>5, <3>6, FiveChunks DEF CutInv
  <2> QED BY <1>6, <2>3, <2>4 DEF HideWrite, HideExit
<1> QED BY <1>1, <1>2, <1>3, <1>4, <1>5, <1>6 DEF HideNext

LEMMA CutStutters == CutInv /\ UNCHANGED hvars => CutInv'
<1> SUFFICES ASSUME CutInv, UNCHANGED hvars PROVE CutInv'
  OBVIOUS
<1>1. UNCHANGED <<opts, samples, hphase, hcode, hchunk, writecnt, hout>>
  BY DEF hvars
<1>2. Selected' = Selected /\ \A i : Before(i)' = Before(i)
  BY <1>1, SelectedStays
<1>3. ChunksInOrder'
  BY <1>1, <1>2, KeepsChunks DEF CutInv
<1>4. WindowInv' /\ LengthSoFar' = LengthSoFar /\ Nr' = Nr
  BY <1>1 DEF CutInv, WindowInv, LengthSoFar, Nr
<1>5. Before(Nr)' = Before(Nr)
  BY <1>2, <1>4 DEF Before
<1> QED BY <1>1, <1>2, <1>3, <1>4, <1>5 DEF CutInv

\* atophide: when it succeeds, the output is what the window of time asks for,
\* whole samples in their order, and the count it shows is right.
THEOREM WindowIsCutOut == Spec => []CutOut
<1>1. Init => HideInv /\ CutInv
  BY HideInitInv, CutInitInv DEF Init
<1>2. HideInv /\ CutInv /\ HideInv' /\ [Next]_vars => CutInv'
  BY CutNextInv, CutStutters DEF Next, vars
<1>3. HideInv /\ CutInv => CutOut
  <2> SUFFICES ASSUME HideInv, CutInv, hphase = "exit", hcode = 0
               PROVE  /\ writecnt = Cardinality(Selected)
                      /\ hout = << >> <=> Selected = {}
                      /\ hout # << >> => Len(hout) = 1 + Cardinality(Selected) * Len(HideChunks)
                      /\ ChunksInOrder
    BY DEF CutOut, ChunksInOrder
  <2>1. writecnt = Cardinality(Selected) /\ writecnt \in Nat
        /\ Len(hout) = IF writecnt = 0 THEN 0 ELSE 1 + writecnt * 5
    BY FiveChunks DEF CutInv, LengthSoFar
  <2>2. hout = << >> <=> Len(hout) = 0
    BY DEF HideInv, SamplesInv, IsSequence
  <2>3. Selected = {} <=> Cardinality(Selected) = 0
    <3>1. DOMAIN samples = 1 .. Len(samples) /\ Len(samples) \in Nat
      BY AppendSequence DEF HideInv, SamplesInv
    <3>2. IsFiniteSet(DOMAIN samples)
      BY <3>1, FS_Interval
    <3>3. IsFiniteSet(Selected)
      BY <3>2, FS_Subset DEF Selected
    <3> QED BY <3>3, FS_EmptySet
  <2>4. writecnt # 0 => Len(hout) # 0
    BY <2>1
  <2> QED BY <2>1, <2>2, <2>3, <2>4, FiveChunks DEF CutInv
<1> QED BY <1>1, <1>2, <1>3, StandinsInvariance, PTL DEF Spec

-----------------------------------------------------------------------------
(***************************************************************************)
(* FlattenSeq: the pieces of a file one behind the other.                  *)
(***************************************************************************)
\* g[i] is what the first i of the sequences s make together.
Flattens(g, s) ==
  g = [i \in 1 .. Len(s) |-> IF i = 1 THEN s[i] ELSE g[i - 1] \o s[i]]

Adds(g, s, n) == \A i \in 1 .. n : g[i] = IF i = 1 THEN s[i] ELSE g[i - 1] \o s[i]
Agree(s, t, n) == \A i \in 1 .. n : s[i] = t[i]

\* Every nonempty set of natural numbers has a least one.
LEMMA LeastNat ==
  ASSUME NEW S, S \subseteq Nat, S # {}
  PROVE  \E x \in S : \A y \in S : x <= y
<1> DEFINE R == {ss \in Nat \X Nat : ss[1] < ss[2]}
<1>1. IsWellFoundedOn(R, Nat)
  BY NatLessThanWellFounded DEF OpToRel
<1>2. PICK x \in S : \A y \in S : ~ (<<y, x>> \in R)
  BY <1>1, WFMin
<1>3. \A y \in S : x <= y
  <2> TAKE y \in S
  <2>1. <<y, x>> \in R <=> y < x
    OBVIOUS
  <2>2. ~ (y < x)
    BY <1>2, <2>1
  <2> QED BY <2>2
<1> QED BY <1>3

LEMMA AddsUp == ASSUME NEW g, NEW s, Flattens(g, s) PROVE Adds(g, s, Len(s))
<1> SUFFICES ASSUME NEW i \in 1 .. Len(s)
             PROVE  g[i] = IF i = 1 THEN s[i] ELSE g[i - 1] \o s[i]
  BY DEF Adds
<1>1. g = [j \in 1 .. Len(s) |-> IF j = 1 THEN s[j] ELSE g[j - 1] \o s[j]]
  BY DEF Flattens
<1> QED BY <1>1, Zenon

\* There is such a function as long as the sequences go.
LEMMA FlattensUpTo ==
  ASSUME NEW E, NEW s \in Seq(Seq(E)), NEW n \in 0 .. Len(s)
  PROVE  \E g \in [1 .. n -> Seq(E)] : Adds(g, s, n)
<1> DEFINE P(m) == \E g \in [1 .. m -> Seq(E)] :
                     \A i \in 1 .. m : g[i] = IF i = 1 THEN s[i] ELSE g[i - 1] \o s[i]
<1>1. P(0)
  <2> DEFINE e == [i \in 1 .. 0 |-> << >>]
  <2>1. e \in [1 .. 0 -> Seq(E)]
    OBVIOUS
  <2>2. \A i : i \notin 1 .. 0
    OBVIOUS
  <2> HIDE DEF e
  <2> QED BY <2>1, <2>2, Zenon
<1>2. ASSUME NEW m \in 1 .. Len(s), P(m - 1) PROVE P(m)
  <2>1. PICK g \in [1 .. m - 1 -> Seq(E)] :
          \A i \in 1 .. m - 1 : g[i] = IF i = 1 THEN s[i] ELSE g[i - 1] \o s[i]
    BY <1>2
  <2> DEFINE last == IF m = 1 THEN s[m] ELSE g[m - 1] \o s[m]
             h == [i \in 1 .. m |-> IF i = m THEN last ELSE g[i]]
  <2>2. last \in Seq(E)
    <3>1. s[m] \in Seq(E)
      OBVIOUS
    <3>2. CASE m = 1
      BY <3>1, <3>2
    <3>3. CASE m # 1
      <4>1. m - 1 \in 1 .. m - 1
        BY <3>3
      <4>2. g[m - 1] \in Seq(E)
        BY <4>1
      <4> QED BY <3>1, <3>3, <4>2
    <3> QED BY <3>2, <3>3
  <2>3. m \in Nat \ {0} /\ last = IF m = 1 THEN s[m] ELSE g[m - 1] \o s[m]
    OBVIOUS
  <2> HIDE DEF last
  <2>4. h \in [1 .. m -> Seq(E)] /\ \A i \in 1 .. m : h[i] = IF i = m THEN last ELSE g[i]
    BY <2>2
  <2> HIDE DEF h
  <2>5. \A i \in 1 .. m : h[i] = IF i = 1 THEN s[i] ELSE h[i - 1] \o s[i]
    <3> TAKE i \in 1 .. m
    <3>1. i # 1 => h[i - 1] = g[i - 1]
      BY <2>4
    <3>2. CASE i = m
      BY <2>3, <2>4, <3>1, <3>2
    <3>3. CASE i # m
      <4>1. i \in 1 .. m - 1
        BY <3>3
      <4> QED BY <2>1, <2>4, <3>1, <3>3, <4>1
    <3> QED BY <3>2, <3>3
  <2> QED BY <2>4, <2>5
<1> HIDE DEF P
<1>3. Len(s) \in Nat
  OBVIOUS
<1>4. ASSUME ~ P(n) PROVE FALSE
  <2> DEFINE Bad == {m \in 0 .. Len(s) : ~ P(m)}
  <2>1. Bad # {} /\ Bad \subseteq Nat
    BY <1>3, <1>4
  <2>2. PICK m \in Bad : \A y \in Bad : m <= y
    BY <2>1, LeastNat
  <2>3. m # 0 /\ m \in 1 .. Len(s)
    BY <1>1, <1>3, <2>2
  <2>4. P(m - 1)
    BY <1>3, <2>2, <2>3
  <2> QED BY <1>2, <2>2, <2>3, <2>4
<1>5. P(n)
  BY <1>4
<1> QED BY <1>5 DEF P, Adds

\* Two of them agree as far as both go, when the sequences do.
LEMMA FlattensAgree ==
  ASSUME NEW n \in Nat, NEW s, NEW t, Agree(s, t, n),
         NEW g, Adds(g, s, n), NEW h, Adds(h, t, n)
  PROVE  Agree(g, h, n)
<1>0. /\ \A i \in 1 .. n : g[i] = IF i = 1 THEN s[i] ELSE g[i - 1] \o s[i]
      /\ \A i \in 1 .. n : h[i] = IF i = 1 THEN t[i] ELSE h[i - 1] \o t[i]
  BY DEF Adds
<1>1. ASSUME NEW k \in 1 .. n, g[k] # h[k] PROVE FALSE
  <2> DEFINE Bad == {i \in 1 .. n : g[i] # h[i]}
  <2>0. k \in Bad
    BY <1>1
  <2>1. Bad # {} /\ Bad \subseteq Nat
    <3>1. \A i \in 1 .. n : i \in Nat
      OBVIOUS
    <3> QED BY <2>0, <3>1, Zenon
  <2>2. PICK m \in Bad : \A y \in Bad : m <= y
    BY <2>1, LeastNat
  <2>3. m \in 1 .. n /\ g[m] # h[m]
    BY <2>2
  <2>4. m # 1 => g[m - 1] = h[m - 1]
    <3>1. m # 1 => m - 1 \in 1 .. n /\ ~ (m <= m - 1)
      BY <2>3
    <3> QED BY <2>2, <3>1
  <2>5. s[m] = t[m]
    BY <2>3 DEF Agree
  <2>6. CASE m = 1
    BY <1>0, <2>3, <2>5, <2>6, Zenon
  <2>7. CASE m # 1
    <3>1. g[m] = g[m - 1] \o s[m] /\ h[m] = h[m - 1] \o t[m]
      BY <1>0, <2>3, <2>7, Zenon
    <3>2. g[m - 1] = h[m - 1]
      BY <2>4, <2>7
    <3>3. h[m] = g[m - 1] \o s[m]
      BY <2>5, <3>1, <3>2, Zenon
    <3> QED BY <2>3, <3>1, <3>3, Zenon
  <2> QED BY <2>6, <2>7
<1> QED BY <1>1 DEF Agree

\* What FlattenSeq() is.
LEMMA FlattenIs ==
  ASSUME NEW E, NEW s \in Seq(Seq(E))
  PROVE  \E g \in [1 .. Len(s) -> Seq(E)] :
           /\ Flattens(g, s)
           /\ FlattenSeq(s) = IF Len(s) = 0 THEN << >> ELSE g[Len(s)]
<1> DEFINE c == CHOOSE g : Flattens(g, s)
<1>1. PICK g \in [1 .. Len(s) -> Seq(E)] : Adds(g, s, Len(s))
  <2>1. Len(s) \in 0 .. Len(s)
    OBVIOUS
  <2> QED BY <2>1, FlattensUpTo
<1>2. Flattens(g, s)
  BY <1>1 DEF Flattens, Adds
<1>3. Flattens(c, s)
  BY <1>2
<1>4. c = g
  <2> HIDE DEF c
  <2>1. \A i \in 1 .. Len(s) : c[i] = g[i]
    <3>1. Adds(c, s, Len(s))
      BY <1>3, AddsUp
    <3>2. Len(s) \in Nat
      OBVIOUS
    <3>3. Agree(s, s, Len(s))
      BY DEF Agree
    <3>4. Agree(c, g, Len(s))
      BY <1>1, <3>1, <3>2, <3>3, FlattensAgree
    <3> QED BY <3>4 DEF Agree
  <2>2. DOMAIN c = 1 .. Len(s) /\ c = [i \in 1 .. Len(s) |-> c[i]]
    BY <1>3 DEF Flattens
  <2>3. g = [i \in 1 .. Len(s) |-> g[i]]
    OBVIOUS
  <2> QED BY <2>1, <2>2, <2>3
<1>5. FlattenSeq(s) = IF Len(s) = 0 THEN s ELSE c[Len(s)]
  BY Zenon DEF FlattenSeq, Flattens
<1>6. Len(s) = 0 => s = << >>
  OBVIOUS
<1> HIDE DEF c
<1> QED BY <1>2, <1>4, <1>5, <1>6

\* The empty sequence, and one sequence more.
LEMMA FlattenEmpty == FlattenSeq(<< >>) = << >>
BY DEF FlattenSeq

LEMMA FlattenAppend ==
  ASSUME NEW E, NEW s \in Seq(Seq(E)), NEW x \in Seq(E)
  PROVE  /\ FlattenSeq(s) \in Seq(E)
         /\ FlattenSeq(Append(s, x)) = FlattenSeq(s) \o x
<1> DEFINE t == Append(s, x)
           n == Len(s)
<1>1. t \in Seq(Seq(E)) /\ Len(t) = n + 1 /\ t[n + 1] = x /\ n \in Nat
      /\ \A i \in 1 .. n : t[i] = s[i]
  OBVIOUS
<1> HIDE DEF t, n
<1>2. PICK g \in [1 .. n -> Seq(E)] :
        Flattens(g, s) /\ FlattenSeq(s) = IF n = 0 THEN << >> ELSE g[n]
  BY FlattenIs DEF n
<1>3. PICK h \in [1 .. n + 1 -> Seq(E)] :
        Flattens(h, t) /\ FlattenSeq(t) = IF n + 1 = 0 THEN << >> ELSE h[n + 1]
  BY <1>1, FlattenIs
<1>4. FlattenSeq(t) = h[n + 1]
  BY <1>1, <1>3
<1>5. h[n + 1] = IF n + 1 = 1 THEN x ELSE h[n] \o x
  <2>1. n + 1 \in 1 .. n + 1 /\ (n + 1) - 1 = n
    BY <1>1
  <2> QED BY <1>1, <1>3, <2>1 DEF Flattens
<1>6. CASE n = 0
  <2>1. << >> \o x = x
    OBVIOUS
  <2> QED BY <1>1, <1>2, <1>4, <1>5, <1>6, <2>1 DEF t
<1>7. CASE n # 0
  <2>1. n \in 1 .. n /\ n + 1 # 1
    BY <1>1, <1>7
  <2>2. g[n] = h[n]
    <3>1. Adds(g, s, n) /\ Adds(h, t, n)
      <4>1. \A i \in 1 .. n : i \in 1 .. n + 1
        BY <1>1
      <4>2. Len(s) = n
        BY DEF n
      <4> QED BY <1>1, <1>2, <1>3, <4>1, <4>2 DEF Flattens, Adds
    <3>2. \A i \in 1 .. n : g[i] = h[i]
      <4>1. n \in Nat /\ Agree(s, t, n)
        BY <1>1 DEF Agree
      <4>2. Agree(g, h, n)
        BY <3>1, <4>1, FlattensAgree
      <4> QED BY <4>2 DEF Agree
    <3> QED BY <2>1, <3>2
  <2>3. g[n] \in Seq(E)
    BY <1>2, <2>1
  <2> QED BY <1>2, <1>4, <1>5, <1>7, <2>1, <2>2, <2>3 DEF t
<1> QED BY <1>6, <1>7

\* The first n of the pieces f.
Flat(f, n) == FlattenSeq([i \in 1 .. n |-> f[i]])

LEMMA FlatNext ==
  ASSUME NEW E, NEW f, NEW n \in Nat, \A i \in 1 .. n + 1 : f[i] \in Seq(E)
  PROVE  /\ Flat(f, 0) = << >>
         /\ Flat(f, n) \in Seq(E)
         /\ Flat(f, n + 1) = Flat(f, n) \o f[n + 1]
<1> DEFINE s == [i \in 1 .. n |-> f[i]]
           t == [i \in 1 .. n + 1 |-> f[i]]
<1>1. f[n + 1] \in Seq(E)
  OBVIOUS
<1>2. s \in Seq(Seq(E))
  OBVIOUS
<1>3. t = Append(s, f[n + 1])
  <2>1. t \in Seq(Seq(E)) /\ Len(t) = n + 1 /\ \A i \in 1 .. n + 1 : t[i] = f[i]
    OBVIOUS
  <2>2. s \in Seq(Seq(E)) /\ Len(s) = n /\ \A i \in 1 .. n : s[i] = f[i]
    OBVIOUS
  <2> DEFINE u == Append(s, f[n + 1])
  <2> HIDE DEF s, t
  <2>3. u \in Seq(Seq(E)) /\ Len(u) = n + 1 /\ \A i \in 1 .. n + 1 : u[i] = f[i]
    BY <1>1, <2>2
  <2> HIDE DEF u
  <2>4. t = u
    BY <2>1, <2>3, SeqEqual
  <2> QED BY <2>4 DEF u
<1> HIDE DEF s, t
<1>4. FlattenSeq(s) \in Seq(E) /\ FlattenSeq(t) = FlattenSeq(s) \o f[n + 1]
  BY <1>1, <1>2, <1>3, FlattenAppend
<1>5. Flat(f, 0) = << >>
  <2>1. [i \in 1 .. 0 |-> f[i]] = << >>
    OBVIOUS
  <2> QED BY <2>1, FlattenEmpty DEF Flat
<1> QED BY <1>4, <1>5 DEF Flat, s, t

\* What a sequence begins with.
Begins(s, t, E) == s \in Seq(E) /\ \E u \in Seq(E) : t = s \o u

\* Fewer pieces are the beginning of more.
LEMMA FlatBegins ==
  ASSUME NEW E, NEW f, NEW m \in Nat, \A i \in 1 .. m : f[i] \in Seq(E), NEW n \in 0 .. m
  PROVE  Flat(f, n) \in Seq(E) /\ Begins(Flat(f, n), Flat(f, m), E)
<1> DEFINE P(k) == \E u \in Seq(E) : Flat(f, k) = Flat(f, n) \o u
<1>0. ASSUME NEW k \in 0 .. m PROVE Flat(f, k) \in Seq(E)
  <2>1. CASE k = m
    <3>1. CASE m = 0
      <4>1. Flat(f, 0) = << >>
        <5>1. [i \in 1 .. 0 |-> f[i]] = << >>
          OBVIOUS
        <5> QED BY <5>1, FlattenEmpty DEF Flat
      <4>2. Flat(f, 0) \in Seq(E)
        <5>1. << >> \in Seq(E)
          OBVIOUS
        <5> QED BY <4>1, <5>1, Zenon
      <4> QED BY <2>1, <3>1, <4>2
    <3>2. CASE m # 0
      <4>1. m - 1 \in Nat /\ (m - 1) + 1 = m
        BY <3>2
      <4>2. Flat(f, m - 1) \in Seq(E) /\ Flat(f, m) = Flat(f, m - 1) \o f[m]
        BY <4>1, FlatNext
      <4>3. f[m] \in Seq(E)
        BY <4>1
      <4> QED BY <2>1, <4>2, <4>3
    <3> QED BY <3>1, <3>2
  <2>2. CASE k # m
    <3>1. k \in Nat /\ \A i \in 1 .. k + 1 : f[i] \in Seq(E)
      BY <2>2
    <3> QED BY <3>1, FlatNext
  <2> QED BY <2>1, <2>2
<1>1. P(n)
  <2>1. Flat(f, n) = Flat(f, n) \o << >> /\ << >> \in Seq(E)
    BY <1>0
  <2> QED BY <2>1
<1>2. ASSUME NEW k \in n + 1 .. m, P(k - 1) PROVE P(k)
  <2>1. PICK u \in Seq(E) : Flat(f, k - 1) = Flat(f, n) \o u
    BY <1>2
  <2>2. k - 1 \in Nat /\ (k - 1) + 1 = k /\ f[k] \in Seq(E)
        /\ \A i \in 1 .. k : f[i] \in Seq(E)
    OBVIOUS
  <2>3. Flat(f, k) = Flat(f, k - 1) \o f[k]
    BY <2>2, FlatNext
  <2>4. (Flat(f, n) \o u) \o f[k] = Flat(f, n) \o (u \o f[k])
    <3> DEFINE a == Flat(f, n)
               b == f[k]
    <3>1. a \in Seq(E) /\ b \in Seq(E)
      BY <1>0, <2>2
    <3> HIDE DEF a, b
    <3>2. (a \o u) \o b = a \o (u \o b)
      BY <3>1, ConcatAssociative
    <3> QED BY <3>2 DEF a, b
  <2>5. u \o f[k] \in Seq(E)
    BY <2>2
  <2> QED BY <2>1, <2>3, <2>4, <2>5
<1> HIDE DEF P
<1>3. ASSUME ~ P(m) PROVE FALSE
  <2> DEFINE Bad == {k \in n .. m : ~ P(k)}
  <2>1. Bad # {} /\ Bad \subseteq Nat
    BY <1>3
  <2>2. PICK k \in Bad : \A y \in Bad : k <= y
    BY <2>1, LeastNat
  <2>3. k # n /\ k \in n + 1 .. m
    BY <1>1, <2>2
  <2>4. P(k - 1)
    BY <2>2, <2>3
  <2> QED BY <1>2, <2>2, <2>3, <2>4
<1>4. P(m)
  BY <1>3
<1>5. Flat(f, n) \in Seq(E)
  BY <1>0
<1> QED BY <1>4, <1>5 DEF P, Begins

-----------------------------------------------------------------------------
(***************************************************************************)
(* atopconvert: whole samples.                                             *)
(***************************************************************************)
\* The chunks of the sample k, all of them or the first n; the output when k
\* samples have been written.
FirstOf(k, n) == [j \in 1 .. n |-> <<k, Chunks[j]>>]
Sample == [k \in Nat |-> FirstOf(k, Len(Chunks))]
Header0 == << <<0, "header">> >>
Whole(k) == Header0 \o Flat(Sample, k)
ChunkNames == {"header", "record", "sstat", "tstat", "cstat", "pidlist"}
Piece == Nat \X ChunkNames

ConvertInv ==
  /\ nr \in Nat
  /\ phase \in {"main", "off"} => out = << >> /\ nr = 0
  /\ phase = "read" => out = Whole(nr)
  /\ phase = "convert" => nr > 0 /\ out = Whole(nr - 1)
  /\ phase = "write" => /\ nr > 0 /\ step \in 0 .. Len(Chunks) - 1
                        /\ out = Whole(nr - 1) \o FirstOf(nr, step)
  /\ phase = "exit" /\ code \notin {10, 42} /\ out # << >> /\ out[1] = <<0, "header">> =>
       \E n \in 0 .. nr : out = Whole(n)

LEMMA ChunksAre ==
  Chunks \in Seq(ChunkNames) /\ Len(Chunks) \in {3, 5} /\ DOMAIN Chunks = 1 .. Len(Chunks)
<1> DEFINE a == <<"record", "sstat", "tstat">>
           b == <<"cstat", "pidlist">>
<1>1. a \in Seq(ChunkNames) /\ b \in Seq(ChunkNames)
  BY DEF ChunkNames
<1>2. Len(a) = 3 /\ Len(b) = 2
  OBVIOUS
<1>3. Chunks = IF cgroupsv2 THEN a \o b ELSE a \o << >>
  BY DEF Chunks
<1> HIDE DEF a, b
<1>4. a \o b \in Seq(ChunkNames) /\ Len(a \o b) = 3 + 2
  <2>1. a \o b \in Seq(ChunkNames) /\ Len(a \o b) = Len(a) + Len(b)
    BY <1>1, ConcatProperties
  <2> QED BY <1>2, <2>1
<1>5. a \o << >> = a
  BY <1>1, ConcatEmptySeq
<1>6. Chunks \in Seq(ChunkNames) /\ Len(Chunks) \in {3, 5}
  BY <1>1, <1>2, <1>3, <1>4, <1>5
<1> QED BY <1>6, LenProperties

LEMMA FirstOfIs ==
  ASSUME NEW k \in Nat, NEW n \in 0 .. Len(Chunks)
  PROVE  /\ FirstOf(k, n) \in Seq(Piece) /\ Len(FirstOf(k, n)) = n
         /\ n < Len(Chunks) => FirstOf(k, n + 1) = Append(FirstOf(k, n), <<k, Chunks[n + 1]>>)
<1>1. Len(Chunks) \in Nat /\ \A j \in 1 .. Len(Chunks) : Chunks[j] \in ChunkNames
  BY ChunksAre
<1>2. \A j \in 1 .. Len(Chunks) : <<k, Chunks[j]>> \in Piece
  BY <1>1 DEF Piece
<1>3. ASSUME NEW m \in 0 .. Len(Chunks)
      PROVE  /\ FirstOf(k, m) \in Seq(Piece) /\ Len(FirstOf(k, m)) = m
             /\ \A j \in 1 .. m : FirstOf(k, m)[j] = <<k, Chunks[j]>>
  <2>1. \A j \in 1 .. m : <<k, Chunks[j]>> \in Piece
    BY <1>1, <1>2
  <2> QED BY <1>1, <2>1 DEF FirstOf
<1>4. ASSUME n < Len(Chunks)
      PROVE  FirstOf(k, n + 1) = Append(FirstOf(k, n), <<k, Chunks[n + 1]>>)
  <2> DEFINE s == FirstOf(k, n)
             t == FirstOf(k, n + 1)
             x == <<k, Chunks[n + 1]>>
             u == Append(s, x)
  <2>1. /\ s \in Seq(Piece) /\ Len(s) = n /\ \A j \in 1 .. n : s[j] = <<k, Chunks[j]>>
    BY <1>3
  <2>2. n + 1 \in 0 .. Len(Chunks) /\ n + 1 \in 1 .. Len(Chunks)
    BY <1>1, <1>4
  <2>3. /\ t \in Seq(Piece) /\ Len(t) = n + 1 /\ \A j \in 1 .. n + 1 : t[j] = <<k, Chunks[j]>>
    BY <1>3, <2>2
  <2>4. x \in Piece
    BY <1>2, <2>2
  <2> HIDE DEF s, t
  <2>5. u \in Seq(Piece) /\ Len(u) = n + 1 /\ \A j \in 1 .. n + 1 : u[j] = <<k, Chunks[j]>>
    <3>1. \A y \in Piece : Append(s, y) \in Seq(Piece) /\ Len(Append(s, y)) = n + 1
            /\ (\A j \in 1 .. n : Append(s, y)[j] = s[j]) /\ Append(s, y)[n + 1] = y
      BY <2>1
    <3>2. u \in Seq(Piece) /\ Len(u) = n + 1 /\ (\A j \in 1 .. n : u[j] = s[j]) /\ u[n + 1] = x
      BY <2>4, <3>1
    <3> HIDE DEF u
    <3> QED BY <2>1, <3>2
  <2> HIDE DEF u
  <2>6. t = u
    BY <2>3, <2>5, SeqEqual
  <2> QED BY <2>6 DEF s, t, u
<1> QED BY <1>3, <1>4

Grouped(s, t, u) == (s \o t) \o u = s \o (t \o u)
LEMMA Regroups ==
  ASSUME NEW E, NEW s \in Seq(E), NEW t \in Seq(E), NEW u \in Seq(E) PROVE Grouped(s, t, u)
BY ConcatAssociative DEF Grouped

\* The samples follow each other.
LEMMA WholeIs ==
  ASSUME NEW k \in Nat
  PROVE  /\ Whole(k) \in Seq(Piece) /\ Len(Whole(k)) \in Nat \ {0}
         /\ Tail(Whole(k)) = Flat(Sample, k)
         /\ Whole(0) = Header0
         /\ Whole(k + 1) = Whole(k) \o FirstOf(k + 1, Len(Chunks))
<1>1. Len(Chunks) \in 0 .. Len(Chunks)
  BY ChunksAre
<1>2. \A i \in Nat : Sample[i] = FirstOf(i, Len(Chunks)) /\ Sample[i] \in Seq(Piece)
  BY <1>1, FirstOfIs DEF Sample
<1>3. /\ Flat(Sample, 0) = << >> /\ Flat(Sample, k) \in Seq(Piece)
      /\ Flat(Sample, k + 1) = Flat(Sample, k) \o Sample[k + 1]
  <2>1. \A i \in 1 .. k + 1 : Sample[i] \in Seq(Piece)
    BY <1>2
  <2> QED BY <2>1, FlatNext
<1>4. Header0 \in Seq(Piece) /\ Len(Header0) = 1 /\ Header0 \o << >> = Header0
  <2>1. <<0, "header">> \in Piece
    BY DEF Piece, ChunkNames
  <2> QED BY <2>1 DEF Header0
<1> DEFINE s == Flat(Sample, k)
           x == Sample[k + 1]
<1>5. s \in Seq(Piece) /\ x \in Seq(Piece)
  BY <1>2, <1>3
<1> HIDE DEF s, x
<1>6. /\ Header0 \o s \in Seq(Piece) /\ Len(Header0 \o s) = 1 + Len(s) /\ Len(s) \in Nat
      /\ \A i \in 1 .. 1 + Len(s) : (Header0 \o s)[i] = IF i <= 1 THEN Header0[i] ELSE s[i - 1]
  <2>1. Header0 \in Seq(Piece) /\ Len(Header0) = 1
    BY <1>4
  <2>2. /\ Header0 \o s \in Seq(Piece) /\ Len(Header0 \o s) = Len(Header0) + Len(s)
        /\ \A i \in 1 .. Len(Header0) + Len(s) :
              (Header0 \o s)[i] = IF i <= Len(Header0) THEN Header0[i] ELSE s[i - Len(Header0)]
    BY <1>5, <2>1, ConcatProperties
  <2>3. Len(s) \in Nat
    BY <1>5
  <2> QED BY <2>1, <2>2, <2>3
<1>7. Tail(Header0 \o s) = s
  <2> DEFINE w == Header0 \o s
  <2> HIDE DEF w
  <2>1. w # << >> /\ w \in Seq(Piece) /\ Len(w) = 1 + Len(s)
        /\ \A i \in 1 .. Len(s) : w[i + 1] = s[i]
    BY <1>6 DEF w
  <2>2. /\ Tail(w) \in Seq(Piece) /\ Len(Tail(w)) = Len(s)
        /\ \A i \in 1 .. Len(s) : Tail(w)[i] = s[i]
    BY <1>6, <2>1, HeadTailProperties
  <2>3. Tail(w) = s
    BY <1>5, <2>2, SeqEqual
  <2> QED BY <2>3 DEF w
<1>8. Header0 \o (s \o x) = (Header0 \o s) \o x
  <2>1. Grouped(Header0, s, x)
    BY <1>4, <1>5, Regroups
  <2> QED BY <2>1 DEF Grouped
<1>9. x = FirstOf(k + 1, Len(Chunks))
  BY <1>2 DEF x
<1>10. Whole(k) = Header0 \o s /\ Whole(k + 1) = Header0 \o (s \o x) /\ Whole(0) = Header0
  BY <1>3, <1>4 DEF Whole, s, x
<1>11. Whole(k) \in Seq(Piece) /\ Len(Whole(k)) \in Nat \ {0}
  BY <1>6, <1>10
<1>12. Tail(Whole(k)) = Flat(Sample, k)
  BY <1>7, <1>10 DEF s
<1>13. Whole(k + 1) = Whole(k) \o FirstOf(k + 1, Len(Chunks))
  BY <1>8, <1>9, <1>10
<1> QED BY <1>10, <1>11, <1>12, <1>13

\* One chunk more, and the chunks of a sample taken back.
Behind(s, t, x) == Append(s \o t, x) = s \o Append(t, x)
LEMMA AppendBehind ==
  ASSUME NEW E, NEW s \in Seq(E), NEW t \in Seq(E), NEW x \in E
  PROVE  Behind(s, t, x)
<1> DEFINE a == Append(s \o t, x)
           b == s \o Append(t, x)
<1>1. a \in Seq(E) /\ b \in Seq(E) /\ Len(a) = Len(b)
  OBVIOUS
<1>2. \A i \in 1 .. Len(a) : a[i] = b[i]
  OBVIOUS
<1> HIDE DEF a, b
<1>3. a = b
  BY <1>1, <1>2, SeqEqual
<1> QED BY <1>3 DEF a, b, Behind

LEMMA TakenBack ==
  ASSUME NEW E, NEW s \in Seq(E), NEW t \in Seq(E)
  PROVE  SubSeq(s \o t, 1, Len(s \o t) - Len(t)) = s
<1> DEFINE u == s \o t
           a == SubSeq(u, 1, Len(s))
<1>1. u \in Seq(E) /\ Len(u) = Len(s) + Len(t) /\ Len(s) \in Nat /\ Len(t) \in Nat
      /\ \A i \in 1 .. Len(s) : u[i] = s[i]
  BY ConcatProperties, LenProperties
<1>2. Len(u) - Len(t) = Len(s)
  BY <1>1
<1> HIDE DEF u
<1>3. a \in Seq(E) /\ Len(a) = Len(s) /\ \A i \in 1 .. Len(s) : a[i] = u[i]
  BY <1>1
<1> HIDE DEF a
<1>4. a = s
  BY <1>1, <1>3, SeqEqual
<1> QED BY <1>2, <1>4 DEF a, u

LEMMA ConvertNextInv == ConvertInv /\ ConvertStep => ConvertInv'
<1> SUFFICES ASSUME ConvertInv, ConvertStep PROVE ConvertInv'
  OBVIOUS
<1>n. nr \in Nat
  BY DEF ConvertInv
<1>l. log' = log
  BY Zenon DEF ConvertStep, OnlyVersion, Refuse, WriteHeader, copy_file, ReadSample, EndOfLog,
               ConvertNext, NextVersion, writesamp
<1>c. Chunks' = Chunks
  BY <1>l DEF Chunks, cgroupsv2
<1>s. Sample' = Sample
  BY <1>c DEF Sample, FirstOf
<1>w. \A k : Whole(k)' = Whole(k)
  BY <1>s DEF Whole
<1>f. \A k, n : FirstOf(k, n)' = FirstOf(k, n)
  BY <1>c DEF FirstOf
<1>1. CASE OnlyVersion \/ Refuse
  <2>1. phase = "main" /\ phase' = "exit" /\ UNCHANGED <<out, nr>>
    BY <1>1 DEF OnlyVersion, Refuse, Exit
  <2> QED BY <2>1 DEF ConvertInv
<1>2. CASE WriteHeader
  <2>1. phase = "main" /\ nr' = nr /\ nr = 0
    BY <1>2, Zenon DEF WriteHeader, ConvertInv
  <2>2. CASE out' = << <<0, "header">> >> /\ phase' \in {"read", "copy"}
    <3>1. out' = Whole(0)
      BY <2>2, WholeIs DEF Header0
    <3>2. out' = Whole(nr)'
      BY <1>s, <2>1, <3>1 DEF Whole
    <3> QED BY <2>1, <2>2, <3>2 DEF ConvertInv
  <2>3. CASE phase' = "exit" /\ code' = 10
    BY <2>1, <2>3 DEF ConvertInv
  <2>4. \/ out' = << <<0, "header">> >> /\ phase' \in {"read", "copy"}
        \/ phase' = "exit" /\ code' = 10
    BY <1>2, Zenon DEF WriteHeader, Exit
  <2> QED BY <2>2, <2>3, <2>4
<1>3. CASE copy_file
  <2>1. nr' = nr /\ phase' = "exit"
        /\ (code' = 42 \/ out' = << <<0, "copy">> >>)
    BY <1>3, Zenon DEF copy_file, Exit
  <2>2. out' = << <<0, "copy">> >> => out'[1] # <<0, "header">>
    OBVIOUS
  <2> QED BY <1>n, <2>1, <2>2 DEF ConvertInv
<1>4. CASE ReadSample
  <2>1. phase = "read" /\ phase' = "convert" /\ nr' = nr + 1 /\ out' = out
    BY <1>4 DEF ReadSample
  <2>2. out' = Whole(nr) /\ nr' - 1 = nr /\ nr' \in Nat /\ nr' > 0
    BY <1>n, <2>1 DEF ConvertInv
  <2>3. out' = Whole(nr - 1)'
    BY <1>s, <2>2 DEF Whole
  <2> QED BY <2>1, <2>2, <2>3 DEF ConvertInv
<1>5. CASE EndOfLog
  <2>1. phase = "read" /\ phase' = "exit" /\ UNCHANGED <<nr, out>>
    BY <1>5 DEF EndOfLog, Exit
  <2>2. out' = Whole(nr) /\ nr \in 0 .. nr'
    BY <1>n, <2>1 DEF ConvertInv
  <2>3. \E n \in 0 .. nr' : out' = Whole(n)'
    BY <1>w, <2>2
  <2> QED BY <1>n, <2>1, <2>3 DEF ConvertInv
<1>6. CASE ConvertNext
  <2>1. phase = "convert" /\ phase' = "convert" /\ UNCHANGED <<nr, out>>
    BY <1>6 DEF ConvertNext
  <2>2. out' = Whole(nr - 1)'
    BY <1>s, <2>1 DEF ConvertInv, Whole
  <2> QED BY <1>n, <2>1, <2>2 DEF ConvertInv
<1>7. CASE NextVersion
  <2>1. phase = "convert" /\ phase' \in {"convert", "write"} /\ UNCHANGED <<nr, out>> /\ step' = 0
    BY <1>7 DEF NextVersion
  <2>2. out' = Whole(nr - 1)'
    BY <1>s, <2>1 DEF ConvertInv, Whole
  <2>3. out' = out /\ out = Whole(nr - 1) /\ nr > 0 /\ nr - 1 \in Nat
    BY <1>n, <2>1 DEF ConvertInv
  <2>4. FirstOf(nr, 0) = << >>
    BY DEF FirstOf
  <2>5. Whole(nr - 1) \o << >> = Whole(nr - 1)
    BY <2>3, WholeIs, ConcatEmptySeq
  <2>6. out' = (Whole(nr - 1) \o FirstOf(nr, step))'
    BY <1>c, <1>s, <2>1, <2>3, <2>4, <2>5 DEF Whole, FirstOf
  <2>7. 0 \in 0 .. Len(Chunks) - 1
    BY ChunksAre
  <2> QED BY <1>n, <1>c, <2>1, <2>2, <2>3, <2>6, <2>7 DEF ConvertInv
<1>8. CASE writesamp
  <2> DEFINE k == nr - 1
             old == Whole(k)
             some == FirstOf(nr, step)
  <2>1. /\ phase = "write" /\ nr' = nr /\ k \in Nat /\ k + 1 = nr
        /\ step \in 0 .. Len(Chunks) /\ step < Len(Chunks) /\ out = old \o some
    <3>1. phase = "write" /\ nr' = nr
      BY <1>8 DEF writesamp
    <3> QED BY <1>n, <3>1, ChunksAre DEF ConvertInv
  <2>2. old \in Seq(Piece) /\ some \in Seq(Piece) /\ Len(some) = step
        /\ Whole(nr) = old \o FirstOf(nr, Len(Chunks))
        /\ FirstOf(nr, step + 1) = Append(some, <<nr, Chunks[step + 1]>>)
    BY <1>n, <2>1, WholeIs, FirstOfIs
  <2> HIDE DEF k, old, some
  <2>3. CASE /\ out' = Append(out, <<nr, Chunks[step + 1]>>) /\ step' = step + 1
             /\ phase' = IF step + 1 = Len(Chunks) THEN "read" ELSE "write"
    <3>1. out' = old \o FirstOf(nr, step + 1)
      <4> DEFINE x == <<nr, Chunks[step + 1]>>
      <4>1. x \in Piece
        BY <1>n, <2>1, ChunksAre DEF Piece
      <4> HIDE DEF x
      <4>2. /\ old \in Seq(Piece) /\ some \in Seq(Piece) /\ out = old \o some
            /\ FirstOf(nr, step + 1) = Append(some, x) /\ out' = Append(out, x)
        BY <2>1, <2>2, <2>3 DEF x
      <4>3. Behind(old, some, x)
        BY <4>1, <4>2, AppendBehind
      <4> QED BY <4>2, <4>3 DEF Behind
    <3>2. CASE step + 1 = Len(Chunks)
      <4>1. out' = Whole(nr)'
        BY <1>s, <2>1, <2>2, <3>1, <3>2 DEF Whole
      <4> QED BY <1>n, <2>1, <2>3, <3>2, <4>1 DEF ConvertInv
    <3>3. CASE step + 1 # Len(Chunks)
      <4>1. out' = (Whole(nr - 1) \o FirstOf(nr, step))'
        <5>1. out' = Whole(nr - 1) \o FirstOf(nr, step + 1)
          BY <3>1 DEF old, k
        <5>2. Whole(nr - 1)' = Whole(nr - 1)
          BY <1>s, <2>1 DEF Whole
        <5>3. FirstOf(nr, step)' = FirstOf(nr, step + 1)
          BY <1>c, <2>1, <2>3 DEF FirstOf
        <5> QED BY <5>1, <5>2, <5>3
      <4>2. step' \in 0 .. Len(Chunks) - 1
        <5>1. Len(Chunks) \in Nat
          BY ChunksAre
        <5> QED BY <2>1, <2>3, <3>3, <5>1
      <4> QED BY <1>n, <1>c, <2>1, <2>3, <3>3, <4>1, <4>2 DEF ConvertInv, k
    <3> QED BY <3>2, <3>3
  <2>4. CASE out' = SubSeq(out, 1, Len(out) - step) /\ phase' = "exit"
    <3>1. out' = old
      BY <2>1, <2>2, <2>4, TakenBack
    <3>2. \E n \in 0 .. nr' : out' = Whole(n)'
      BY <1>n, <1>w, <2>1, <3>1 DEF old
    <3> QED BY <1>n, <2>1, <2>4, <3>2 DEF ConvertInv
  <2> QED BY <1>8, <2>3, <2>4, Zenon DEF writesamp, Exit
<1> QED BY <1>1, <1>2, <1>3, <1>4, <1>5, <1>6, <1>7, <1>8 DEF ConvertStep

LEMMA ConvertStutters == ConvertInv /\ UNCHANGED cvars => ConvertInv'
<1> SUFFICES ASSUME ConvertInv, UNCHANGED cvars PROVE ConvertInv'
  OBVIOUS
<1>1. UNCHANGED <<log, phase, code, nr, step, out>>
  BY DEF cvars
<1>2. Chunks' = Chunks
  BY <1>1 DEF Chunks, cgroupsv2
<1>3. (\A k : Whole(k)' = Whole(k)) /\ Whole(nr)' = Whole(nr) /\ Whole(nr - 1)' = Whole(nr - 1)
      /\ FirstOf(nr, step)' = FirstOf(nr, step)
  BY <1>1, <1>2 DEF Whole, Sample, FirstOf
<1> QED BY <1>1, <1>2, <1>3 DEF ConvertInv

LEMMA ConvertInitInv == ConvertInit \/ ConvertOff => ConvertInv
<1> SUFFICES ASSUME ConvertInit \/ ConvertOff PROVE ConvertInv
  OBVIOUS
<1>1. out = << >> /\ nr = 0 /\ phase \in {"main", "off"}
  BY DEF ConvertInit, ConvertOff
<1> QED BY <1>1 DEF ConvertInv

\* atopconvert: wherever a write fails, the output file is the header and the
\* whole samples before.
THEOREM SamplesAreWhole == Spec => []WholeSamples
<1>1. Init => ConvertInv
  BY ConvertInitInv DEF Init
<1>2. ConvertInv /\ [Next]_vars => ConvertInv'
  BY ConvertNextInv, ConvertStutters DEF Next, vars
<1>3. ConvertInv => WholeSamples
  <2> SUFFICES ASSUME ConvertInv, phase \in {"read", "exit"}, code \notin {10, 42},
                      out # << >>, out[1] = <<0, "header">>
               PROVE  \E n \in 0 .. nr :
                        Tail(out) = FlattenSeq([k \in 1 .. n |->
                                      [j \in DOMAIN Chunks |-> <<k, Chunks[j]>>]])
    BY DEF WholeSamples
  <2>1. \E n \in 0 .. nr : out = Whole(n)
    <3>1. nr \in Nat /\ nr \in 0 .. nr
      BY DEF ConvertInv
    <3> QED BY <3>1 DEF ConvertInv
  <2>2. PICK n \in 0 .. nr : out = Whole(n)
    BY <2>1
  <2>3. n \in Nat
    BY DEF ConvertInv
  <2>4. Tail(out) = Flat(Sample, n)
    BY <2>2, <2>3, WholeIs
  <2>5. [k \in 1 .. n |-> Sample[k]] =
          [k \in 1 .. n |-> [j \in DOMAIN Chunks |-> <<k, Chunks[j]>>]]
    <3>1. DOMAIN Chunks = 1 .. Len(Chunks)
      BY ChunksAre
    <3>2. \A k \in 1 .. n : k \in Nat
      OBVIOUS
    <3> QED BY <3>1, <3>2 DEF Sample, FirstOf
  <2> QED BY <2>4, <2>5 DEF Flat
<1> QED BY <1>1, <1>2, <1>3, PTL DEF Spec

-----------------------------------------------------------------------------
(***************************************************************************)
(* atopcat: one log behind the other.                                      *)
(***************************************************************************)
LEMMA BeginsIsPrefix == ASSUME NEW E, NEW s, NEW t, Begins(s, t, E) PROVE IsPrefix(s, t)
<1>1. PICK u \in Seq(E) : t = s \o u
  BY DEF Begins
<1>2. s \in Seq(E)
  BY DEF Begins
<1>3. t \in Seq(E) /\ Len(t) = Len(s) + Len(u) /\ Len(s) \in Nat /\ Len(u) \in Nat
      /\ \A i \in 1 .. Len(s) : t[i] = s[i]
  BY <1>1, <1>2, ConcatProperties, LenProperties
<1> DEFINE a == SubSeq(s, 1, Len(s))
           b == SubSeq(t, 1, Len(s))
<1>4. a \in Seq(E) /\ Len(a) = Len(s) /\ \A i \in 1 .. Len(s) : a[i] = s[i]
  BY <1>2
<1>5. b \in Seq(E) /\ Len(b) = Len(s) /\ \A i \in 1 .. Len(s) : b[i] = t[i]
  BY <1>3
<1> HIDE DEF a, b
<1>6. a = b
  BY <1>3, <1>4, <1>5, SeqEqual
<1> QED BY <1>3, <1>6 DEF a, b, IsPrefix

LEMMA BeginsItself == ASSUME NEW E, NEW s \in Seq(E) PROVE Begins(s, s, E)
<1>1. s = s \o << >> /\ << >> \in Seq(E)
  BY ConcatEmptySeq
<1> QED BY <1>1 DEF Begins

LEMMA BeginsTransitive ==
  ASSUME NEW E, NEW s, NEW t, NEW v, Begins(s, t, E), Begins(t, v, E) PROVE Begins(s, v, E)
<1>1. PICK a \in Seq(E) : t = s \o a
  BY DEF Begins
<1>2. PICK b \in Seq(E) : v = t \o b
  BY DEF Begins
<1>3. s \in Seq(E)
  BY DEF Begins
<1>4. (s \o a) \o b = s \o (a \o b)
  <2>1. Grouped(s, a, b)
    BY <1>3, Regroups
  <2> QED BY <2>1 DEF Grouped
<1>5. a \o b \in Seq(E)
  BY ConcatProperties
<1> QED BY <1>1, <1>2, <1>3, <1>4, <1>5 DEF Begins

LEMMA BeginsBehind ==
  ASSUME NEW E, NEW a \in Seq(E), NEW s, NEW t, Begins(s, t, E) PROVE Begins(a \o s, a \o t, E)
<1>1. PICK u \in Seq(E) : t = s \o u
  BY DEF Begins
<1>2. s \in Seq(E)
  BY DEF Begins
<1>3. (a \o s) \o u = a \o (s \o u) /\ a \o s \in Seq(E)
  <2>1. Grouped(a, s, u)
    BY <1>2, Regroups
  <2>2. a \o s \in Seq(E)
    BY <1>2, ConcatProperties
  <2> QED BY <2>1, <2>2 DEF Grouped
<1> QED BY <1>1, <1>3 DEF Begins

\* The chunks of a sample, the samples of a file, the files.
CatFirst(i, r, n) == [c \in 1 .. n |-> <<i, r, CatChunks[c]>>]
SamplesOf == [i \in Nat |-> [r \in Nat |-> CatFirst(i, r, 5)]]
FileOf == [i \in Nat |-> Flat(SamplesOf[i], files[i].samples)]
Header1 == << <<1, 0, "header">> >>
Files(n) == Header1 \o Flat(FileOf, n)
UpTo(i, r) == Header1 \o (Flat(FileOf, i - 1) \o Flat(SamplesOf[i], r))
CatNames == {"header", "record", "sstat", "pstat", "cstat", "istat"}
CatPiece == Nat \X Nat \X CatNames

Starts == {"good", "missing", "short", "alien", "unreadable"}
FilesOK ==
  Len(files) \in Nat /\ DOMAIN files = 1 .. Len(files)
  /\ \A i \in 1 .. Len(files) :
       files[i].samples \in Nat /\ files[i].start \in Starts

LEMMA CatChunksAre ==
  Len(CatChunks) = 5 /\ DOMAIN CatChunks = 1 .. 5 /\ \A c \in 1 .. 5 : CatChunks[c] \in CatNames
BY DEF CatChunks, CatNames

LEMMA CatFirstIs ==
  ASSUME NEW i \in Nat, NEW r \in Nat, NEW n \in 0 .. 5
  PROVE  /\ CatFirst(i, r, n) \in Seq(CatPiece) /\ Len(CatFirst(i, r, n)) = n
         /\ n < 5 => CatFirst(i, r, n + 1) = Append(CatFirst(i, r, n), <<i, r, CatChunks[n + 1]>>)
<1>1. \A c \in 1 .. 5 : <<i, r, CatChunks[c]>> \in CatPiece
  BY CatChunksAre DEF CatPiece
<1>2. ASSUME NEW m \in 0 .. 5
      PROVE  /\ CatFirst(i, r, m) \in Seq(CatPiece) /\ Len(CatFirst(i, r, m)) = m
             /\ \A c \in 1 .. m : CatFirst(i, r, m)[c] = <<i, r, CatChunks[c]>>
  <2>1. \A c \in 1 .. m : <<i, r, CatChunks[c]>> \in CatPiece
    BY <1>1
  <2> QED BY <2>1 DEF CatFirst
<1>3. ASSUME n < 5
      PROVE  CatFirst(i, r, n + 1) = Append(CatFirst(i, r, n), <<i, r, CatChunks[n + 1]>>)
  <2> DEFINE s == CatFirst(i, r, n)
             t == CatFirst(i, r, n + 1)
             x == <<i, r, CatChunks[n + 1]>>
             u == Append(s, x)
  <2>1. /\ s \in Seq(CatPiece) /\ Len(s) = n /\ \A c \in 1 .. n : s[c] = <<i, r, CatChunks[c]>>
    BY <1>2
  <2>2. n + 1 \in 0 .. 5 /\ n + 1 \in 1 .. 5
    BY <1>3
  <2>3. /\ t \in Seq(CatPiece) /\ Len(t) = n + 1
        /\ \A c \in 1 .. n + 1 : t[c] = <<i, r, CatChunks[c]>>
    BY <1>2, <2>2
  <2>4. x \in CatPiece
    BY <1>1, <2>2
  <2> HIDE DEF s, t
  <2>5. u \in Seq(CatPiece) /\ Len(u) = n + 1 /\ \A c \in 1 .. n + 1 : u[c] = <<i, r, CatChunks[c]>>
    <3>1. \A y \in CatPiece : Append(s, y) \in Seq(CatPiece) /\ Len(Append(s, y)) = n + 1
            /\ (\A c \in 1 .. n : Append(s, y)[c] = s[c]) /\ Append(s, y)[n + 1] = y
      BY <2>1
    <3>2. u \in Seq(CatPiece) /\ Len(u) = n + 1 /\ (\A c \in 1 .. n : u[c] = s[c]) /\ u[n + 1] = x
      BY <2>4, <3>1
    <3> HIDE DEF u
    <3> QED BY <2>1, <3>2
  <2> HIDE DEF u
  <2>6. t = u
    BY <2>3, <2>5, SeqEqual
  <2> QED BY <2>6 DEF s, t, u
<1> QED BY <1>2, <1>3

LEMMA FilesAre ==
  ASSUME FilesOK
  PROVE  /\ \A i \in Nat, r \in Nat : SamplesOf[i][r] = CatFirst(i, r, 5)
                                      /\ SamplesOf[i][r] \in Seq(CatPiece)
         /\ \A i \in Nat, r \in Nat : Flat(SamplesOf[i], r) \in Seq(CatPiece)
         /\ \A i \in 1 .. Len(files) : FileOf[i] = Flat(SamplesOf[i], files[i].samples)
                                       /\ FileOf[i] \in Seq(CatPiece)
         /\ Header1 \in Seq(CatPiece) /\ Len(Header1) = 1
<1>1. ASSUME NEW i \in Nat, NEW r \in Nat
      PROVE  SamplesOf[i][r] = CatFirst(i, r, 5) /\ SamplesOf[i][r] \in Seq(CatPiece)
  <2>1. CatFirst(i, r, 5) \in Seq(CatPiece)
    <3>1. 5 \in 0 .. 5
      OBVIOUS
    <3> QED BY <3>1, CatFirstIs
  <2> QED BY <2>1 DEF SamplesOf
<1>2. ASSUME NEW i \in Nat, NEW r \in Nat PROVE Flat(SamplesOf[i], r) \in Seq(CatPiece)
  <2>1. \A k \in 1 .. r + 1 : SamplesOf[i][k] \in Seq(CatPiece)
    BY <1>1
  <2> QED BY <2>1, FlatNext
<1>3. ASSUME NEW i \in 1 .. Len(files)
      PROVE  FileOf[i] = Flat(SamplesOf[i], files[i].samples) /\ FileOf[i] \in Seq(CatPiece)
  <2>1. i \in Nat /\ files[i].samples \in Nat
    BY DEF FilesOK
  <2>2. FileOf[i] = Flat(SamplesOf[i], files[i].samples)
    BY <2>1 DEF FileOf
  <2> QED BY <1>2, <2>1, <2>2
<1>4. Header1 \in Seq(CatPiece) /\ Len(Header1) = 1
  <2>1. <<1, 0, "header">> \in CatPiece
    BY DEF CatPiece, CatNames
  <2> QED BY <2>1 DEF Header1
<1> QED BY <1>1, <1>2, <1>3, <1>4

LEMMA FileIs ==
  ASSUME FilesOK, NEW n \in 0 .. Len(files)
  PROVE  /\ Flat(FileOf, n) \in Seq(CatPiece)
         /\ Files(n) \in Seq(CatPiece) /\ Files(n) # << >>
         /\ Files(0) = Header1
         /\ n < Len(files) => Flat(FileOf, n + 1) = Flat(FileOf, n) \o FileOf[n + 1]
<1>1. Len(files) \in Nat /\ \A i \in 1 .. Len(files) : FileOf[i] \in Seq(CatPiece)
  BY FilesAre DEF FilesOK
<1>2. Flat(FileOf, n) \in Seq(CatPiece)
  BY <1>1, FlatBegins
<1>3. Flat(FileOf, 0) = << >>
  <2>1. [i \in 1 .. 0 |-> FileOf[i]] = << >>
    OBVIOUS
  <2> QED BY <2>1, FlattenEmpty DEF Flat
<1>4. ASSUME n < Len(files) PROVE Flat(FileOf, n + 1) = Flat(FileOf, n) \o FileOf[n + 1]
  <2>1. n \in Nat /\ \A i \in 1 .. n + 1 : FileOf[i] \in Seq(CatPiece)
    BY <1>1, <1>4
  <2> QED BY <2>1, FlatNext
<1>5. Files(n) \in Seq(CatPiece) /\ Files(n) # << >>
  <2> DEFINE f == Flat(FileOf, n)
  <2>1. Header1 \in Seq(CatPiece) /\ Len(Header1) = 1 /\ f \in Seq(CatPiece)
    BY <1>2, FilesAre
  <2> HIDE DEF f
  <2>2. Header1 \o f \in Seq(CatPiece) /\ Len(Header1 \o f) = 1 + Len(f) /\ Len(f) \in Nat
    <3>1. Header1 \o f \in Seq(CatPiece) /\ Len(Header1 \o f) = Len(Header1) + Len(f)
      BY <2>1, ConcatProperties
    <3> QED BY <2>1, <3>1, LenProperties
  <2>3. Header1 \o f # << >>
    BY <2>2
  <2> QED BY <2>2, <2>3 DEF Files, f
<1>6. Files(0) = Header1
  <2>1. Header1 \o << >> = Header1
    BY FilesAre, ConcatEmptySeq
  <2> QED BY <1>3, <2>1 DEF Files
<1> QED BY <1>2, <1>4, <1>5, <1>6

\* The samples of a file follow those of the files before.
LEMMA UpToIs ==
  ASSUME FilesOK, NEW i \in 1 .. Len(files), NEW r \in Nat
  PROVE  /\ UpTo(i, r) \in Seq(CatPiece) /\ UpTo(i, r) # << >>
         /\ UpTo(i, 0) = Files(i - 1)
         /\ r = files[i].samples => UpTo(i, r) = Files(i)
         /\ UpTo(i, r + 1) = UpTo(i, r) \o CatFirst(i, r + 1, 5)
         /\ r <= files[i].samples => Begins(UpTo(i, r), Files(i), CatPiece)
<1> DEFINE a == Flat(FileOf, i - 1)
           b == Flat(SamplesOf[i], r)
           x == SamplesOf[i][r + 1]
           c == Flat(SamplesOf[i], files[i].samples)
<1>1. i \in Nat /\ i - 1 \in 0 .. Len(files) /\ i - 1 < Len(files) /\ (i - 1) + 1 = i
      /\ files[i].samples \in Nat
  BY DEF FilesOK
<1>0. /\ \A k \in Nat : SamplesOf[i][k] = CatFirst(i, k, 5) /\ SamplesOf[i][k] \in Seq(CatPiece)
      /\ \A k \in Nat : Flat(SamplesOf[i], k) \in Seq(CatPiece)
  <2>1. i \in Nat
    BY <1>1
  <2> QED BY <2>1, FilesAre, Zenon
<1> DEFINE f == SamplesOf[i]
<1>f. \A k : k \in Nat => f[k] \in Seq(CatPiece)
  BY <1>0, Zenon
<1>2. a \in Seq(CatPiece) /\ b \in Seq(CatPiece) /\ x \in Seq(CatPiece) /\ c \in Seq(CatPiece)
  <2>1. r + 1 \in Nat
    OBVIOUS
  <2>2. a \in Seq(CatPiece)
    BY <1>1, FileIs
  <2> QED BY <1>0, <1>1, <2>1, <2>2, Zenon
<1>3. Header1 \in Seq(CatPiece) /\ Len(Header1) = 1
  BY FilesAre
<1>4. Flat(SamplesOf[i], 0) = << >> /\ Flat(SamplesOf[i], r + 1) = b \o x
  <2> HIDE DEF f
  <2>1. \A k \in 1 .. r + 1 : k \in Nat
    OBVIOUS
  <2>2. \A k \in 1 .. r + 1 : f[k] \in Seq(CatPiece)
    BY <1>f, <2>1, Zenon
  <2>3. Flat(f, 0) = << >> /\ Flat(f, r + 1) = Flat(f, r) \o f[r + 1]
    BY <2>2, FlatNext
  <2> QED BY <2>3 DEF f
<1>5. Flat(FileOf, i) = a \o c
  <2>1. Flat(FileOf, i) = a \o FileOf[i]
    BY <1>1, FileIs
  <2>2. FileOf[i] = c
    BY FilesAre
  <2> QED BY <2>1, <2>2
<1>6. r <= files[i].samples => Begins(b, c, CatPiece)
  <2> SUFFICES ASSUME r <= files[i].samples PROVE Begins(b, c, CatPiece)
    OBVIOUS
  <2> HIDE DEF f
  <2>0. \A k \in 1 .. files[i].samples : k \in Nat
    BY <1>1
  <2>1. \A k \in 1 .. files[i].samples : f[k] \in Seq(CatPiece)
    BY <1>f, <2>0, Zenon
  <2>2. r \in 0 .. files[i].samples
    BY <1>1
  <2> DEFINE n == files[i].samples
  <2>3. n \in Nat /\ r \in 0 .. n /\ \A k \in 1 .. n : f[k] \in Seq(CatPiece)
    BY <1>1, <2>1, <2>2
  <2> HIDE DEF n
  <2>4. Begins(Flat(f, r), Flat(f, n), CatPiece)
    BY <2>3, FlatBegins
  <2> QED BY <2>4 DEF f, n
<1>7. x = CatFirst(i, r + 1, 5)
  <2>1. r + 1 \in Nat
    OBVIOUS
  <2> QED BY <1>0, <2>1, Zenon
<1>8. /\ UpTo(i, r) = Header1 \o (a \o b) /\ UpTo(i, 0) = Header1 \o (a \o << >>)
      /\ UpTo(i, r + 1) = Header1 \o (a \o (b \o x))
      /\ Files(i) = Header1 \o (a \o c) /\ Files(i - 1) = Header1 \o a
  BY <1>4, <1>5 DEF UpTo, Files
<1> HIDE DEF a, b, x
<1>9. a \o << >> = a
  BY <1>2, ConcatEmptySeq
<1>10. a \o b \in Seq(CatPiece)
  BY <1>2, ConcatProperties
<1>11. Header1 \o (a \o b) \in Seq(CatPiece) /\ Header1 \o (a \o b) # << >>
  <2> DEFINE d == a \o b
  <2> HIDE DEF d
  <2>1. d \in Seq(CatPiece)
    BY <1>10 DEF d
  <2>2. Header1 \o d \in Seq(CatPiece) /\ Len(Header1 \o d) = Len(Header1) + Len(d) /\ Len(d) \in Nat
    BY <1>3, <2>1, ConcatProperties, LenProperties
  <2>3. Header1 \o d # << >>
    BY <1>3, <2>2
  <2> QED BY <2>2, <2>3 DEF d
<1>12. Header1 \o (a \o (b \o x)) = (Header1 \o (a \o b)) \o x
  <2> HIDE DEF c
  <2>1. a \o (b \o x) = (a \o b) \o x
    <3>1. Grouped(a, b, x)
      BY <1>2, Regroups
    <3> QED BY <3>1 DEF Grouped
  <2> DEFINE d == a \o b
  <2> HIDE DEF d
  <2>2. d \in Seq(CatPiece)
    BY <1>10 DEF d
  <2>3. Header1 \o (d \o x) = (Header1 \o d) \o x
    <3>1. Grouped(Header1, d, x)
      BY <1>2, <1>3, <2>2, Regroups
    <3> QED BY <3>1 DEF Grouped
  <2> QED BY <2>1, <2>3 DEF d
<1>13. r <= files[i].samples => Begins(Header1 \o (a \o b), Header1 \o (a \o c), CatPiece)
  <2> HIDE DEF c
  <2> SUFFICES ASSUME r <= files[i].samples
               PROVE  Begins(Header1 \o (a \o b), Header1 \o (a \o c), CatPiece)
    OBVIOUS
  <2>1. Begins(a \o b, a \o c, CatPiece)
    BY <1>2, <1>6, BeginsBehind
  <2> QED BY <1>3, <2>1, BeginsBehind
<1>14. r = files[i].samples => b = c
  BY DEF b
<1> HIDE DEF c
<1> QED BY <1>7, <1>8, <1>9, <1>11, <1>12, <1>13, <1>14

\* The files that are taken are the first ones, as many as Concatenation counts.
LEMMA TakenAre ==
  ASSUME FilesOK
  PROVE  \E n \in 0 .. Len(files) :
           /\ Taken = 1 .. n /\ Cardinality(Taken) = n
           /\ \A i \in 1 .. n : Fits(i)
           /\ n < Len(files) => ~ Fits(n + 1)
<1> DEFINE Bad == {i \in 1 .. Len(files) : ~ Fits(i)}
<1>0. Len(files) \in Nat /\ DOMAIN files = 1 .. Len(files)
  BY DEF FilesOK
<1>1. \E n \in 0 .. Len(files) : (\A i \in 1 .. n : Fits(i)) /\ (n < Len(files) => ~ Fits(n + 1))
  <2>1. CASE \A i \in 1 .. Len(files) : Fits(i)
    <3>1. Len(files) \in 0 .. Len(files) /\ ~ (Len(files) < Len(files))
      BY <1>0
    <3> QED BY <2>1, <3>1
  <2>2. CASE ~ \A i \in 1 .. Len(files) : Fits(i)
    <3>1. Bad # {} /\ Bad \subseteq Nat
      BY <2>2
    <3>2. PICK m \in Bad : \A y \in Bad : m <= y
      BY <3>1, LeastNat
    <3>3. m \in 1 .. Len(files) /\ ~ Fits(m) /\ \A i \in 1 .. Len(files) : i < m => Fits(i)
      BY <1>0, <3>2
    <3>4. m - 1 \in 0 .. Len(files) /\ (m - 1) + 1 = m /\ \A i \in 1 .. m - 1 : Fits(i)
      BY <1>0, <3>3
    <3> QED BY <3>3, <3>4
  <2> QED BY <2>1, <2>2
<1>2. PICK n \in 0 .. Len(files) : (\A i \in 1 .. n : Fits(i)) /\ (n < Len(files) => ~ Fits(n + 1))
  BY <1>1
<1>3. Taken = 1 .. n
  <2>1. ASSUME NEW k \in 1 .. Len(files) PROVE k \in Taken <=> k <= n
    <3>1. k \in Taken <=> \A i \in 1 .. k : Fits(i)
      BY <1>0 DEF Taken
    <3>2. k <= n => \A i \in 1 .. k : Fits(i)
      BY <1>0, <1>2
    <3>3. ~ (k <= n) => n + 1 \in 1 .. k /\ n < Len(files)
      BY <1>0, <1>2
    <3> QED BY <1>2, <3>1, <3>2, <3>3
  <2>2. Taken \subseteq 1 .. Len(files)
    BY <1>0 DEF Taken
  <2>3. \A k : k \in 1 .. n <=> k \in 1 .. Len(files) /\ k <= n
    BY <1>0
  <2> QED BY <2>1, <2>2, <2>3
<1>4. Cardinality(Taken) = n
  <2>1. Cardinality(1 .. n) = n
    BY <1>0, FS_Interval
  <2> QED BY <1>3, <2>1
<1> QED BY <1>2, <1>3, <1>4

LEMMA ConcatenationIs ==
  ASSUME FilesOK, NEW n \in 0 .. Len(files), Taken = 1 .. n, Cardinality(Taken) = n
  PROVE  Concatenation = IF n = 0 THEN << >> ELSE Files(n)
<1>1. n = 0 <=> Taken = {}
  <2>1. n \in Nat
    BY DEF FilesOK
  <2>2. n # 0 => 1 \in 1 .. n
    BY <2>1
  <2> QED BY <2>1, <2>2
<1>2. ASSUME NEW i \in 1 .. n
      PROVE  FileOf[i] = FlattenSeq([r \in 1 .. files[i].samples |->
                                       [c \in DOMAIN CatChunks |-> <<i, r, CatChunks[c]>>]])
  <2>1. i \in 1 .. Len(files) /\ i \in Nat
    BY DEF FilesOK
  <2>2. FileOf[i] = Flat(SamplesOf[i], files[i].samples)
    BY <2>1, FilesAre
  <2>3. \A r \in 1 .. files[i].samples :
          SamplesOf[i][r] = [c \in DOMAIN CatChunks |-> <<i, r, CatChunks[c]>>]
    <3>1. \A r \in 1 .. files[i].samples : r \in Nat
      BY <2>1 DEF FilesOK
    <3>2. \A r \in Nat : SamplesOf[i][r] = CatFirst(i, r, 5)
      BY <2>1, FilesAre, Zenon
    <3> QED BY <3>1, <3>2, CatChunksAre, Zenon DEF CatFirst
  <2>4. [r \in 1 .. files[i].samples |-> SamplesOf[i][r]] =
        [r \in 1 .. files[i].samples |-> [c \in DOMAIN CatChunks |-> <<i, r, CatChunks[c]>>]]
    BY <2>3, Zenon
  <2> QED BY <2>2, <2>4, Zenon DEF Flat
<1>3. [i \in 1 .. n |-> FileOf[i]] =
      [i \in 1 .. n |-> FlattenSeq([r \in 1 .. files[i].samples |->
                          [c \in DOMAIN CatChunks |-> <<i, r, CatChunks[c]>>]])]
  BY <1>2, Zenon
<1>4. CASE n = 0
  BY <1>1, <1>4 DEF Concatenation
<1>5. CASE n # 0
  <2>1. Concatenation = Header1 \o FlattenSeq([i \in 1 .. n |-> FileOf[i]])
    BY <1>1, <1>3, <1>5, Zenon DEF Concatenation, Header1
  <2> QED BY <1>5, <2>1 DEF Files, Flat
<1> QED BY <1>4, <1>5

\* What has been written so far is the beginning of what is to be written.
LEMMA WrittenSoFar ==
  ASSUME FilesOK, NEW i \in 1 .. Len(files), NEW r \in 0 .. files[i].samples,
         \A k \in 1 .. i : Fits(k)
  PROVE  Begins(UpTo(i, r), Concatenation, CatPiece)
<1>1. PICK n \in 0 .. Len(files) :
         Taken = 1 .. n /\ Cardinality(Taken) = n /\ (n < Len(files) => ~ Fits(n + 1))
  BY TakenAre
<1>2. Len(files) \in Nat /\ r \in Nat /\ r <= files[i].samples
  BY DEF FilesOK
<1>3. i <= n /\ n # 0 /\ i \in 0 .. n
  BY <1>1, <1>2
<1>4. Concatenation = Files(n)
  BY <1>1, <1>3, ConcatenationIs
<1>5. Begins(UpTo(i, r), Files(i), CatPiece)
  BY <1>2, UpToIs
<1>6. Begins(Files(i), Files(n), CatPiece)
  <2>1. \A k \in 1 .. n : FileOf[k] \in Seq(CatPiece)
    <3>1. \A k \in 1 .. n : k \in 1 .. Len(files)
      BY <1>2
    <3> QED BY <3>1, FilesAre
  <2>2. n \in Nat
    BY <1>2
  <2>3. Begins(Flat(FileOf, i), Flat(FileOf, n), CatPiece)
    BY <1>3, <2>1, <2>2, FlatBegins
  <2>4. Header1 \in Seq(CatPiece)
    BY FilesAre
  <2> QED BY <2>3, <2>4, BeginsBehind DEF Files
<1> QED BY <1>4, <1>5, <1>6, BeginsTransitive

\* All of it has been written when no further file fits.
LEMMA AllWritten ==
  ASSUME FilesOK, NEW i \in 0 .. Len(files), \A k \in 1 .. i : Fits(k),
         i = Len(files) \/ ~ Fits(i + 1)
  PROVE  Concatenation = IF i = 0 THEN << >> ELSE Files(i)
<1>1. PICK n \in 0 .. Len(files) :
         /\ Taken = 1 .. n /\ Cardinality(Taken) = n
         /\ \A k \in 1 .. n : Fits(k)
         /\ n < Len(files) => ~ Fits(n + 1)
  BY TakenAre
<1>2. Len(files) \in Nat
  BY DEF FilesOK
<1>3. i = n
  <2>1. ~ (i < n)
    BY <1>1, <1>2
  <2>2. ~ (n < i)
    <3>1. n < i => n + 1 \in 1 .. i /\ n < Len(files)
      BY <1>2
    <3> QED BY <1>1, <3>1
  <2> QED BY <1>2, <2>1, <2>2
<1> QED BY <1>1, <1>3, ConcatenationIs

LEMMA NothingWritten == ASSUME FilesOK PROVE Begins(<< >>, Concatenation, CatPiece)
<1>1. PICK n \in 0 .. Len(files) : Taken = 1 .. n /\ Cardinality(Taken) = n
  BY TakenAre
<1>2. Concatenation = IF n = 0 THEN << >> ELSE Files(n)
  BY <1>1, ConcatenationIs
<1>3. Files(n) \in Seq(CatPiece)
  BY FileIs
<1>4. Concatenation \in Seq(CatPiece)
  BY <1>2, <1>3
<1>5. << >> \o Concatenation = Concatenation /\ << >> \in Seq(CatPiece)
  BY <1>4, ConcatEmptySeq
<1> QED BY <1>4, <1>5 DEF Begins

(* Where atopcat is: all files before the one at hand fit, and standard      *)
(* output is what the loops over files, samples and chunks have passed.      *)
FilesUpTo(i) == IF i = 0 THEN << >> ELSE Files(i)
CatAt(i, r, n) ==
  /\ file = i /\ rec = r /\ chunk = n
  /\ \A k \in 1 .. i - 1 : Fits(k)
  /\ dryrun => catout = << >>
  /\ catphase = "off" => catout = << >>
  /\ catphase = "open" =>
       (\A k \in 1 .. i : Fits(k)) /\ (~dryrun => catout = FilesUpTo(i))
  /\ catphase = "header" =>
       /\ i > 0 /\ files[i].start \in {"good", "unreadable"} /\ ~ Alien(i)
       /\ ~dryrun => catout = FilesUpTo(i - 1)
  /\ catphase = "read" =>
       /\ i > 0 /\ \A k \in 1 .. i : Fits(k)
       /\ r <= files[i].samples /\ (~dryrun => catout = UpTo(i, r))
  /\ catphase = "write" =>
       /\ i > 0 /\ (\A k \in 1 .. i : Fits(k)) /\ ~dryrun
       /\ r \in 1 .. files[i].samples /\ n \in 0 .. 4
       /\ catout = UpTo(i, r - 1) \o CatFirst(i, r, n)
  /\ catphase # "exit" => lost = Unnoticed
  /\ catphase = "exit" => Concatenates
CatInv ==
  /\ FilesOK
  /\ catphase \in {"off", "open", "header", "read", "write", "exit"}
  /\ \E i \in 0 .. Len(files), r \in Nat, n \in Nat : CatAt(i, r, n)

LEMMA SameFiles ==
  ASSUME files' = files
  PROVE  /\ FilesOK' <=> FilesOK
         /\ \A i : Fits(i)' <=> Fits(i)
         /\ \A i : Alien(i)' <=> Alien(i)
         /\ \A i : Files(i)' = Files(i)
         /\ \A i : FilesUpTo(i)' = FilesUpTo(i)
         /\ \A i, r : UpTo(i, r)' = UpTo(i, r)
         /\ Concatenation' = Concatenation
<1>1. FilesOK' <=> FilesOK
  BY DEF FilesOK
<1>2. ASSUME NEW i PROVE (Fits(i)' <=> Fits(i)) /\ (Alien(i)' <=> Alien(i))
  BY DEF Fits, Alien, AsFirst
<1>3. FileOf' = FileOf
  BY DEF FileOf
<1>4. \A i : Files(i)' = Files(i)
  BY <1>3 DEF Files
<1>5. \A i : FilesUpTo(i)' = FilesUpTo(i)
  BY <1>4 DEF FilesUpTo
<1>6. \A i, r : UpTo(i, r)' = UpTo(i, r)
  BY <1>3 DEF UpTo
<1>7. Taken' = Taken
  BY <1>2 DEF Taken
<1>8. Concatenation' = Concatenation
  BY <1>7 DEF Concatenation
<1> QED BY <1>1, <1>2, <1>4, <1>5, <1>6, <1>8

LEMMA FirstBegins ==
  ASSUME NEW i \in Nat, NEW r \in Nat, NEW n \in 0 .. 5
  PROVE  Begins(CatFirst(i, r, n), CatFirst(i, r, 5), CatPiece)
<1> DEFINE s == CatFirst(i, r, n)
           t == CatFirst(i, r, 5)
           u == [c \in 1 .. 5 - n |-> t[n + c]]
<1>1. /\ s \in Seq(CatPiece) /\ Len(s) = n /\ t \in Seq(CatPiece) /\ Len(t) = 5
      /\ \A c \in 1 .. n : s[c] = t[c]
  <2>1. s \in Seq(CatPiece) /\ Len(s) = n /\ t \in Seq(CatPiece) /\ Len(t) = 5
    <3>1. 5 \in 0 .. 5
      OBVIOUS
    <3> HIDE DEF s, t
    <3>2. s \in Seq(CatPiece) /\ Len(s) = n
      BY CatFirstIs DEF s
    <3>3. t \in Seq(CatPiece) /\ Len(t) = 5
      BY <3>1, CatFirstIs DEF t
    <3> QED BY <3>2, <3>3
  <2>2. \A c \in 1 .. n : s[c] = t[c]
    BY DEF CatFirst
  <2> QED BY <2>1, <2>2
<1> HIDE DEF s, t
<1>2. u \in Seq(CatPiece) /\ Len(u) = 5 - n /\ \A c \in 1 .. 5 - n : u[c] = t[n + c]
  <2>1. \A k \in 1 .. 5 : t[k] \in CatPiece
    BY <1>1, ElementOfSeq
  <2>2. \A c \in 1 .. 5 - n : n + c \in 1 .. 5
    OBVIOUS
  <2>3. \A c \in 1 .. 5 - n : t[n + c] \in CatPiece
    BY <2>1, <2>2
  <2> QED BY <2>3
<1> HIDE DEF u
<1>3. /\ s \o u \in Seq(CatPiece) /\ Len(s \o u) = 5
      /\ \A c \in 1 .. n : (s \o u)[c] = s[c]
      /\ \A c \in n + 1 .. 5 : (s \o u)[c] = u[c - n]
  BY <1>1, <1>2, ConcatProperties
<1>4. \A c \in 1 .. 5 : (s \o u)[c] = t[c]
  BY <1>1, <1>2, <1>3
<1> DEFINE v == s \o u
<1> HIDE DEF v
<1>5. v \in Seq(CatPiece) /\ Len(v) = 5 /\ \A c \in 1 .. 5 : v[c] = t[c]
  BY <1>3, <1>4 DEF v
<1>6. v = t
  BY <1>1, <1>5, SeqEqual
<1>7. Begins(s, t, CatPiece)
  BY <1>1, <1>2, <1>6 DEF Begins, v
<1> QED BY <1>7 DEF s, t

\* What one more piece of a sample is the beginning of.
LEMMA PieceBegins ==
  ASSUME FilesOK, NEW i \in 1 .. Len(files), NEW r \in 1 .. files[i].samples, NEW n \in 0 .. 5,
         \A k \in 1 .. i : Fits(k)
  PROVE  Begins(UpTo(i, r - 1) \o CatFirst(i, r, n), Concatenation, CatPiece)
<1>1. i \in Nat /\ files[i].samples \in Nat
  BY DEF FilesOK
<1>2. r \in Nat /\ r \in 0 .. files[i].samples
  BY <1>1
<1>3. Begins(UpTo(i, r), Concatenation, CatPiece)
  BY <1>2, WrittenSoFar
<1>4. UpTo(i, r) = UpTo(i, r - 1) \o CatFirst(i, r, 5) /\ UpTo(i, r - 1) \in Seq(CatPiece)
  <2> DEFINE q == r - 1
  <2>1. q \in Nat /\ q + 1 = r
    BY <1>1
  <2> HIDE DEF q
  <2>2. UpTo(i, q + 1) = UpTo(i, q) \o CatFirst(i, q + 1, 5) /\ UpTo(i, q) \in Seq(CatPiece)
    BY <2>1, UpToIs
  <2> QED BY <2>1, <2>2 DEF q
<1>5. Begins(CatFirst(i, r, n), CatFirst(i, r, 5), CatPiece)
  BY <1>1, <1>2, FirstBegins
<1>6. Begins(UpTo(i, r - 1) \o CatFirst(i, r, n), UpTo(i, r), CatPiece)
  BY <1>4, <1>5, BeginsBehind
<1> QED BY <1>3, <1>6, BeginsTransitive

LEMMA NowBegins ==
  ASSUME FilesOK, NEW i \in 0 .. Len(files), NEW r \in Nat, NEW n \in Nat, CatAt(i, r, n),
         catphase \in {"off", "open", "header", "read", "write"}
  PROVE  Begins(catout, Concatenation, CatPiece)
<1>0. Len(files) \in Nat /\ i \in Nat
  BY DEF FilesOK
<1>1. CASE catout = << >>
  BY <1>1, NothingWritten
<1>f. ASSUME NEW k \in 1 .. Len(files), \A j \in 1 .. k : Fits(j)
      PROVE  Begins(Files(k), Concatenation, CatPiece)
  <2>1. files[k].samples \in Nat
    BY DEF FilesOK
  <2>2. files[k].samples \in 0 .. files[k].samples
    BY <2>1
  <2>3. UpTo(k, files[k].samples) = Files(k)
    BY <2>1, UpToIs
  <2>4. Begins(UpTo(k, files[k].samples), Concatenation, CatPiece)
    BY <1>f, <2>2, WrittenSoFar
  <2> QED BY <2>3, <2>4
<1>2. CASE catphase = "open" /\ ~dryrun
  <2>1. (\A k \in 1 .. i : Fits(k)) /\ catout = FilesUpTo(i)
    BY <1>2 DEF CatAt
  <2>2. CASE i = 0
    BY <1>1, <2>1, <2>2 DEF FilesUpTo
  <2>3. CASE i # 0
    <3>1. i \in 1 .. Len(files) /\ catout = Files(i)
      BY <1>0, <2>1, <2>3 DEF FilesUpTo
    <3> QED BY <1>f, <2>1, <3>1
  <2> QED BY <2>2, <2>3
<1>3. CASE catphase = "header" /\ ~dryrun
  <2>1. i > 0 /\ (\A k \in 1 .. i - 1 : Fits(k)) /\ catout = FilesUpTo(i - 1)
    BY <1>3 DEF CatAt
  <2>2. CASE i = 1
    BY <1>1, <2>1, <2>2 DEF FilesUpTo
  <2>3. CASE i # 1
    <3>1. i - 1 \in 1 .. Len(files) /\ catout = Files(i - 1)
      BY <1>0, <2>1, <2>3 DEF FilesUpTo
    <3> QED BY <1>f, <2>1, <3>1
  <2> QED BY <2>2, <2>3
<1>4. CASE catphase = "read" /\ ~dryrun
  <2>1. /\ i > 0 /\ \A k \in 1 .. i : Fits(k)
        /\ r <= files[i].samples /\ catout = UpTo(i, r)
    BY <1>4 DEF CatAt
  <2>2. i \in 1 .. Len(files) /\ files[i].samples \in Nat
    BY <1>0, <2>1 DEF FilesOK
  <2>3. r \in 0 .. files[i].samples
    BY <2>1, <2>2
  <2> QED BY <2>1, <2>2, <2>3, WrittenSoFar
<1>5. CASE catphase = "write"
  <2>1. /\ i > 0 /\ (\A k \in 1 .. i : Fits(k))
        /\ r \in 1 .. files[i].samples /\ n \in 0 .. 4
        /\ catout = UpTo(i, r - 1) \o CatFirst(i, r, n)
    BY <1>5 DEF CatAt
  <2>2. i \in 1 .. Len(files) /\ files[i].samples \in Nat
    BY <1>0, <2>1 DEF FilesOK
  <2>3. n \in 0 .. 5
    BY <2>1
  <2> QED BY <2>1, <2>2, <2>3, PieceBegins
<1> QED BY <1>1, <1>2, <1>3, <1>4, <1>5 DEF CatAt

LEMMA CatIsSound == CatInv => Concatenates
<1> SUFFICES ASSUME CatInv PROVE Concatenates
  OBVIOUS
<1>1. FilesOK /\ catphase \in {"off", "open", "header", "read", "write", "exit"}
  BY DEF CatInv
<1>2. PICK i \in 0 .. Len(files), r \in Nat, n \in Nat : CatAt(i, r, n)
  BY DEF CatInv
<1>3. CASE catphase = "exit"
  BY <1>2, <1>3 DEF CatAt
<1>4. CASE catphase # "exit"
  <2>1. Begins(catout, Concatenation, CatPiece)
    <3>1. catphase \in {"off", "open", "header", "read", "write"}
      BY <1>1, <1>4
    <3> QED BY <1>1, <1>2, <3>1, NowBegins
  <2>2. IsPrefix(catout, Concatenation)
    BY <2>1, BeginsIsPrefix
  <2>3. LostNoticed
    BY <1>2, <1>4 DEF CatAt, LostNoticed
  <2>4. dryrun => catout = << >>
    BY <1>2 DEF CatAt
  <2> QED BY <1>4, <2>2, <2>3, <2>4 DEF Concatenates
<1> QED BY <1>3, <1>4

LEMMA CatNextInv == CatInv /\ CatNext => CatInv'
<1> SUFFICES ASSUME CatInv, CatNext PROVE CatInv'
  OBVIOUS
<1>1. FilesOK /\ Len(files) \in Nat
  BY DEF CatInv, FilesOK
<1>2. files' = files /\ dryrun' = dryrun
  BY DEF CatNext, CatOpen, FirstHeader, SameAsFirst, CatRead, CatWrite
<1>3. /\ FilesOK' /\ Len(files') = Len(files)
      /\ \A k : Fits(k)' <=> Fits(k)
      /\ \A k : Alien(k)' <=> Alien(k)
      /\ \A k : FilesUpTo(k)' = FilesUpTo(k)
      /\ \A k, l : UpTo(k, l)' = UpTo(k, l)
      /\ Concatenation' = Concatenation
  BY <1>1, <1>2, SameFiles
<1>4. PICK i \in 0 .. Len(files), r \in Nat, n \in Nat : CatAt(i, r, n)
  BY DEF CatInv
<1>5. file = i /\ rec = r /\ chunk = n /\ i \in Nat
      /\ (dryrun => catout = << >>) /\ \A k \in 1 .. i - 1 : Fits(k)
  BY <1>1, <1>4 DEF CatAt
<1>6. ASSUME NEW j \in 0 .. Len(files), NEW q \in Nat, NEW m \in Nat, CatAt(j, q, m)',
             catphase' \in {"open", "header", "read", "write", "exit"}
      PROVE  CatInv'
  BY <1>3, <1>6 DEF CatInv
\* The program ends with what has been written.
<1>7. ASSUME NEW j \in 0 .. Len(files), file' = j, rec' = r, chunk' = n,
             \A k \in 1 .. j - 1 : Fits(k), catphase' = "exit",
             IsPrefix(catout', Concatenation), dryrun => catout' = << >>,
             catcode' \in {0, 2, 3, 4, 5} /\ ~dryrun => catout' = Concatenation,
             LostNoticed'
      PROVE  CatInv'
  <2>1. Concatenates'
    BY <1>2, <1>3, <1>7, Zenon DEF Concatenates
  <2>2. CatAt(j, r, n)'
    BY <1>2, <1>3, <1>7, <2>1 DEF CatAt
  <2> QED BY <1>6, <1>7, <2>2
<1>8. catphase \in {"open", "header", "read", "write"}
      => IsPrefix(catout, Concatenation) /\ lost = Unnoticed
  <2> SUFFICES ASSUME catphase \in {"open", "header", "read", "write"}
               PROVE  IsPrefix(catout, Concatenation) /\ lost = Unnoticed
    OBVIOUS
  <2>1. Begins(catout, Concatenation, CatPiece)
    BY <1>1, <1>4, NowBegins
  <2>2. lost = Unnoticed
    BY <1>4 DEF CatAt
  <2> QED BY <2>1, <2>2, BeginsIsPrefix
\* Nothing is lost, or the last piece is, or it is one whose loss is not noticed.
<1>l. catphase \in {"open", "header", "read", "write"} =>
        /\ lost' = lost => lost' = Unnoticed' /\ LostNoticed'
        /\ \A x : lost' = lost \union {x} =>
             /\ x[3] \in {"header", "record"} => lost' = Unnoticed' /\ LostNoticed'
             /\ catphase' = "exit" /\ catcode' = 11 /\ x = Last(catout') => LostNoticed'
  <2> SUFFICES ASSUME catphase \in {"open", "header", "read", "write"}, lost = Unnoticed
               PROVE  /\ lost' = lost => lost' = Unnoticed' /\ LostNoticed'
                      /\ \A x : lost' = lost \union {x} =>
                           /\ x[3] \in {"header", "record"} => lost' = Unnoticed' /\ LostNoticed'
                           /\ catphase' = "exit" /\ catcode' = 11 /\ x = Last(catout') => LostNoticed'
    BY <1>8
  <2>1. \A y \in lost : y[3] \in {"header", "record"}
    BY DEF Unnoticed
  <2>2. lost' = lost => lost' = Unnoticed'
    BY <2>1 DEF Unnoticed
  <2>3. ASSUME NEW x, lost' = lost \union {x}, x[3] \in {"header", "record"} PROVE lost' = Unnoticed'
    BY <2>1, <2>3 DEF Unnoticed
  <2>4. lost' = Unnoticed' => LostNoticed'
    BY DEF LostNoticed
  <2>5. ASSUME NEW x, lost' = lost \union {x}, catphase' = "exit", catcode' = 11, x = Last(catout')
        PROVE  LostNoticed'
    <3>1. x \in Unnoticed' \/ lost' \ Unnoticed' = {x}
      BY <2>1, <2>5 DEF Unnoticed
    <3>2. CASE x \in Unnoticed'
      <4>1. lost' \ Unnoticed' = {}
        BY <2>1, <2>5, <3>2 DEF Unnoticed
      <4> QED BY <4>1 DEF LostNoticed
    <3> QED BY <2>5, <3>1, <3>2 DEF LostNoticed
  <2> QED BY <2>2, <2>3, <2>4, <2>5
\* All is written when the file after the k-th does not fit.
<1>9. ASSUME NEW k \in 0 .. Len(files), \A l \in 1 .. k : Fits(l),
             k = Len(files) \/ ~ Fits(k + 1), ~dryrun => catout = FilesUpTo(k)
      PROVE  ~dryrun => catout = Concatenation
  BY <1>1, <1>9, AllWritten DEF FilesUpTo
<1>10. CASE CatOpen
  <2>1. /\ catphase = "open" /\ rec' = rec /\ chunk' = chunk /\ catout' = catout /\ lost' = lost
        /\ (\A k \in 1 .. i : Fits(k)) /\ (~dryrun => catout = FilesUpTo(i))
    BY <1>4, <1>10 DEF CatOpen, CatAt
  <2>2. CASE file = Len(files)
    <3>1. file' = i /\ catphase' = "exit"
      BY <1>5, <1>10, <2>2 DEF CatOpen, CatExit
    <3>2. ~dryrun => catout = Concatenation
      BY <1>5, <1>9, <2>1, <2>2
    <3> QED BY <1>5, <1>7, <1>8, <1>l, <2>1, <3>1, <3>2
  <2>3. CASE file # Len(files) /\ (files[file + 1].start \in {"missing", "short"} \/ Alien(file + 1))
    <3>1. file' = i + 1 /\ catphase' = "exit" /\ i + 1 \in 0 .. Len(files) /\ i # Len(files)
      BY <1>1, <1>5, <1>10, <2>3 DEF CatOpen, CatExit
    <3>2. ~ Fits(i + 1)
      BY <1>5, <2>3 DEF Fits, Alien
    <3>3. ~dryrun => catout = Concatenation
      BY <1>9, <2>1, <3>2
    <3>4. \A k \in 1 .. (i + 1) - 1 : Fits(k)
      BY <1>5, <2>1
    <3>5. rec' = r /\ chunk' = n /\ IsPrefix(catout', Concatenation)
          /\ (dryrun => catout' = << >>) /\ (~dryrun => catout' = Concatenation) /\ LostNoticed'
      BY <1>5, <1>8, <1>l, <2>1, <3>3
    <3> DEFINE j == i + 1
    <3>6. j \in 0 .. Len(files) /\ file' = j /\ \A k \in 1 .. j - 1 : Fits(k)
      BY <3>1, <3>4
    <3> HIDE DEF j
    <3> QED BY <1>7, <3>1, <3>5, <3>6
  <2>4. CASE file # Len(files) /\ files[file + 1].start \notin {"missing", "short"} /\ ~ Alien(file + 1)
    <3>1. file' = i + 1 /\ catphase' = "header" /\ i + 1 \in 0 .. Len(files)
      BY <1>1, <1>5, <1>10, <2>4 DEF CatOpen
    <3>2. files[i + 1].start \in {"good", "unreadable"} /\ ~ Alien(i + 1)
      <4>1. i + 1 \in 1 .. Len(files)
        BY <1>1, <1>5, <3>1
      <4>2. files[i + 1].start \in Starts
        BY <1>1, <4>1 DEF FilesOK
      <4> QED BY <1>5, <2>4, <4>2 DEF Starts, Alien
    <3> DEFINE j == i + 1
    <3>3. /\ j \in 0 .. Len(files) /\ file' = j /\ j > 0 /\ j - 1 = i
          /\ files[j].start \in {"good", "unreadable"} /\ ~ Alien(j)
      BY <1>5, <3>1, <3>2
    <3> HIDE DEF j
    <3>4. CatAt(j, r, n)'
      BY <1>2, <1>3, <1>5, <1>l, <2>1, <3>1, <3>3 DEF CatAt
    <3> QED BY <1>6, <3>1, <3>3, <3>4
  <2> QED BY <2>2, <2>3, <2>4
<1>11. CASE FirstHeader
  <2>1. /\ file = 1 /\ i = 1 /\ file' = i /\ chunk' = n /\ catphase = "header"
        /\ files[1].start \in {"good", "unreadable"} /\ ~ Alien(1) /\ 1 \in 1 .. Len(files)
    BY <1>1, <1>4, <1>5, <1>11 DEF FirstHeader, CatAt
  <2>2. \A k \in 1 .. 1 : Fits(k)
    BY <2>1 DEF Fits, AsFirst
  <2>l. lost' = Unnoticed' /\ LostNoticed'
    <3>1. <<1, 0, "header">>[3] = "header"
      OBVIOUS
    <3>2. lost' = lost \/ lost' = lost \union {<<1, 0, "header">>}
      BY <1>11 DEF FirstHeader, Loses
    <3> QED BY <1>l, <2>1, <3>1, <3>2
  <2>u. UpTo(1, 0) = Header1 /\ files[1].samples \in Nat /\ 0 \in 0 .. Len(files)
    <3>1. 1 - 1 = 0 /\ 0 \in Nat /\ 0 \in 0 .. Len(files)
      BY <1>1
    <3>2. UpTo(1, 0) = Files(1 - 1)
      BY <1>1, <2>1, <3>1, UpToIs
    <3>3. Files(0) = Header1
      BY <1>1, <3>1, FileIs
    <3> QED BY <1>1, <2>1, <3>1, <3>2, <3>3 DEF FilesOK
  <2>3. CASE catphase' = "read"
    <3>1. rec' = 0 /\ catout' = IF dryrun THEN << >> ELSE Header1
      <4>1. CASE dryrun
        BY <1>5, <1>11, <2>3, <4>1 DEF FirstHeader
      <4>2. CASE ~dryrun
        <5>1. catout = << >>
          <6>1. catout = FilesUpTo(i - 1)
            BY <1>4, <2>1, <4>2 DEF CatAt
          <6> QED BY <2>1, <6>1 DEF FilesUpTo
        <5>2. rec' = 0 /\ catout' = Append(catout, <<1, 0, "header">>)
          BY <1>11, <2>3, <4>2 DEF FirstHeader, CatExit, Give
        <5> QED BY <4>2, <5>1, <5>2 DEF Header1
      <4> QED BY <4>1, <4>2
    <3>3. CatAt(i, 0, n)'
      BY <1>2, <1>3, <2>1, <2>2, <2>3, <2>l, <2>u, <3>1 DEF CatAt
    <3> QED BY <1>6, <2>3, <3>3
  <2>4. CASE catphase' # "read"
    <3>1. /\ ~dryrun /\ rec' = r /\ catphase' = "exit" /\ catcode' = 10
          /\ catout' = Append(catout, <<1, 0, "header">>)
      BY <1>5, <1>11, <2>4 DEF FirstHeader, CatExit, Give
    <3>2. catout' = UpTo(1, 0)
      <4>1. catout = FilesUpTo(i - 1)
        BY <1>4, <2>1, <3>1 DEF CatAt
      <4>2. catout = << >>
        BY <2>1, <4>1 DEF FilesUpTo
      <4> QED BY <2>u, <3>1, <4>2 DEF Header1
    <3>3. IsPrefix(catout', Concatenation)
      <4>1. 0 \in 0 .. files[1].samples
        BY <2>u
      <4>2. Begins(UpTo(1, 0), Concatenation, CatPiece)
        BY <1>1, <2>1, <2>2, <4>1, WrittenSoFar
      <4> QED BY <3>2, <4>2, BeginsIsPrefix
    <3> QED BY <1>5, <1>7, <2>1, <2>l, <3>1, <3>3
  <2> QED BY <2>3, <2>4
<1>12. CASE SameAsFirst
  <2>1. /\ file > 1 /\ i > 1 /\ file' = i /\ chunk' = n /\ catphase = "header"
        /\ catout' = catout /\ lost' = lost /\ (~dryrun => catout = FilesUpTo(i - 1))
        /\ files[i].start \in {"good", "unreadable"} /\ ~ Alien(i) /\ i - 1 \in 0 .. Len(files) /\ (i - 1) + 1 = i
    BY <1>1, <1>4, <1>5, <1>12 DEF SameAsFirst, CatAt
  <2>2. CASE ~ Fits(i)
    <3>1. /\ rec' = r /\ catphase' = "exit" /\ catcode' = 5
      BY <1>5, <1>12, <2>1, <2>2 DEF SameAsFirst, CatExit, This, Fits
    <3>2. ~dryrun => catout = Concatenation
      <4> DEFINE k == i - 1
      <4>1. k \in 0 .. Len(files) /\ k + 1 = i /\ (~dryrun => catout = FilesUpTo(k))
            /\ \A l \in 1 .. k : Fits(l)
        BY <1>5, <2>1
      <4> HIDE DEF k
      <4>2. ~ Fits(k + 1)
        BY <2>2, <4>1
      <4> QED BY <1>9, <4>1, <4>2
    <3> QED BY <1>5, <1>7, <1>8, <1>l, <2>1, <3>1, <3>2
  <2>3. CASE Fits(i)
    <3>1. catphase' = "read" /\ rec' = 0
      BY <1>5, <1>12, <2>1, <2>3 DEF SameAsFirst, This, Fits
    <3>2. \A k \in 1 .. i : Fits(k)
      <4>1. \A k \in 1 .. i : k = i \/ k \in 1 .. i - 1
        BY <1>5
      <4> QED BY <1>5, <2>3, <4>1
    <3>3. UpTo(i, 0) = FilesUpTo(i - 1) /\ i \in 1 .. Len(files) /\ files[i].samples \in Nat
      <4>1. i \in 1 .. Len(files) /\ 0 \in Nat /\ i - 1 # 0
        BY <1>1, <1>5, <2>1
      <4>2. UpTo(i, 0) = Files(i - 1)
        BY <1>1, <4>1, UpToIs
      <4> QED BY <1>1, <4>1, <4>2 DEF FilesUpTo, FilesOK
    <3>4. ~dryrun => catout' = UpTo(i, 0)
      BY <2>1, <3>3
    <3>5. CatAt(i, 0, n)'
      BY <1>2, <1>3, <1>5, <1>l, <2>1, <3>1, <3>2, <3>3, <3>4 DEF CatAt
    <3> QED BY <1>6, <3>1, <3>5
  <2> QED BY <2>2, <2>3
<1>13. CASE CatRead
  <2>1. /\ file' = i /\ catphase = "read" /\ catout' = catout /\ lost' = lost /\ i > 0
        /\ (\A k \in 1 .. i : Fits(k)) /\ r <= files[i].samples
        /\ (~dryrun => catout = UpTo(i, r))
    BY <1>4, <1>5, <1>13 DEF CatRead, CatAt
  <2>2. i \in 1 .. Len(files) /\ files[i].samples \in Nat
    BY <1>1, <1>5, <2>1 DEF FilesOK
  <2>3. CASE rec' = rec + 1
    <3>1. /\ rec' = r + 1 /\ chunk' = 0 /\ catphase' = IF dryrun THEN "read" ELSE "write"
          /\ r < files[i].samples
      BY <1>5, <1>13, <2>3 DEF CatRead, This
    <3>2. UpTo(i, r) \o CatFirst(i, r + 1, 0) = UpTo(i, r)
      <4>1. CatFirst(i, r + 1, 0) = << >>
        BY DEF CatFirst
      <4>2. UpTo(i, r) \in Seq(CatPiece)
        BY <1>1, <2>2, UpToIs
      <4> QED BY <4>1, <4>2, ConcatEmptySeq
    <3> DEFINE q == r + 1
    <3>3. q \in Nat /\ q - 1 = r /\ q \in 1 .. files[i].samples /\ rec' = q
          /\ q <= files[i].samples
          /\ (~dryrun => catout' = UpTo(i, q - 1) \o CatFirst(i, q, 0))
      BY <2>1, <2>2, <3>1, <3>2
    <3> HIDE DEF q
    <3>4. CatAt(i, q, 0)'
      <4>1. ~dryrun => catout' = UpTo(i, q - 1) \o CatFirst(i, q, 0)
        BY <3>3
      <4>2. CatFirst(i, q, 0)' = CatFirst(i, q, 0) /\ UpTo(i, q - 1)' = UpTo(i, q - 1)
        BY <1>3 DEF CatFirst
      <4> QED BY <1>2, <1>3, <1>5, <1>l, <2>1, <3>1, <3>3, <4>1, <4>2 DEF CatAt
    <3>5. catphase' \in {"read", "write"}
      BY <3>1
    <3> QED BY <1>6, <3>3, <3>4, <3>5
  <2>4. CASE rec' # rec + 1 /\ catphase' = "exit"
    <3>1. rec' = r /\ chunk' = n /\ catcode' = 8
      BY <1>5, <1>13, <2>4 DEF CatRead, CatExit
    <3> QED BY <1>5, <1>7, <1>8, <1>l, <2>1, <2>4, <3>1
  <2>5. CASE rec' # rec + 1 /\ catphase' # "exit"
    <3>1. rec' = r /\ chunk' = n /\ catphase' = "open" /\ r = files[i].samples
      BY <1>5, <1>13, <2>5 DEF CatRead, CatExit, This
    <3>2. UpTo(i, r) = FilesUpTo(i)
      <4>1. UpTo(i, r) = Files(i)
        BY <1>1, <2>2, <3>1, UpToIs
      <4> QED BY <2>1, <4>1 DEF FilesUpTo
    <3>3. CatAt(i, r, n)'
      BY <1>2, <1>3, <1>5, <1>l, <2>1, <3>1, <3>2 DEF CatAt
    <3> QED BY <1>6, <3>1, <3>3
  <2> QED BY <2>3, <2>4, <2>5
<1>14. CASE CatWrite
  <2>1. /\ file' = i /\ rec' = r /\ catphase = "write" /\ i > 0
        /\ (\A k \in 1 .. i : Fits(k)) /\ ~dryrun /\ r \in 1 .. files[i].samples /\ n \in 0 .. 4
        /\ catout = UpTo(i, r - 1) \o CatFirst(i, r, n)
    BY <1>4, <1>5, <1>14 DEF CatWrite, CatAt
  <2>2. /\ i \in 1 .. Len(files) /\ files[i].samples \in Nat
        /\ r - 1 \in Nat /\ (r - 1) + 1 = r /\ n + 1 \in 0 .. 5
    BY <1>1, <1>5, <2>1 DEF FilesOK
  <2> DEFINE x == <<i, r, CatChunks[n + 1]>>
             u == UpTo(i, r - 1)
  <2>c. /\ catout' = Append(catout, x)
        /\ \/ /\ lost' = lost \/ (lost' = lost \union {x} /\ CatChunks[n + 1] = "record")
              /\ chunk' = n + 1 /\ catphase' = IF n = 4 THEN "read" ELSE "write"
           \/ lost' = lost \union {x} /\ catphase' = "exit" /\ catcode' = 11 /\ chunk' = n
    <3>1. Len(CatChunks) = 5 /\ (n + 1 = 5 <=> n = 4)
      BY <2>1, CatChunksAre
    <3> QED BY <1>5, <1>14, <3>1 DEF CatWrite, Give, Loses, CatExit
  <2>d. u \in Seq(CatPiece)
    <3> DEFINE q == r - 1
    <3>1. q \in Nat
      BY <2>2
    <3> HIDE DEF q
    <3>2. UpTo(i, q) \in Seq(CatPiece)
      BY <1>1, <2>2, <3>1, UpToIs
    <3> QED BY <3>2 DEF q
  <2>e. /\ CatFirst(i, r, n) \in Seq(CatPiece) /\ n < 5
        /\ CatFirst(i, r, n + 1) = Append(CatFirst(i, r, n), x)
    <3>1. n \in 0 .. 5 /\ n < 5
      BY <2>1
    <3> HIDE DEF x
    <3> QED BY <1>5, <3>1, CatFirstIs DEF x
  <2>f. catout' = u \o CatFirst(i, r, n + 1)
    <3>1. x \in CatPiece
      <4>1. CatChunks[n + 1] \in CatNames
        BY <2>1, CatChunksAre
      <4> QED BY <1>5, <4>1 DEF CatPiece
    <3> DEFINE f == CatFirst(i, r, n)
    <3>2. f \in Seq(CatPiece) /\ catout = u \o f /\ CatFirst(i, r, n + 1) = Append(f, x)
      BY <2>1, <2>e
    <3> HIDE DEF x, u, f
    <3>3. Behind(u, f, x)
      BY <2>d, <3>1, <3>2, AppendBehind
    <3> QED BY <2>c, <3>2, <3>3 DEF Behind
  <2>3. CASE catphase' # "exit"
    <3>1. chunk' = n + 1 /\ catphase' = IF n = 4 THEN "read" ELSE "write"
      BY <2>c, <2>3
    <3>2. lost' = Unnoticed'
      <4>1. x[3] = CatChunks[n + 1]
        OBVIOUS
      <4> HIDE DEF x
      <4> QED BY <1>l, <2>1, <2>3, <2>c, <4>1
    <3>4. catout' = UpTo(i, r - 1) \o CatFirst(i, r, n + 1)
      BY <2>f
    <3> HIDE DEF x, u
    <3>5. CASE n # 4
      <4> DEFINE m == n + 1
      <4>1. m \in Nat /\ m \in 0 .. 4 /\ chunk' = m /\ catphase' = "write"
            /\ catout' = UpTo(i, r - 1) \o CatFirst(i, r, m)
        <5>1. m \in Nat /\ m \in 0 .. 4
          BY <2>1, <3>5
        <5> QED BY <3>1, <3>4, <3>5, <5>1
      <4> HIDE DEF m
      <4>2. CatFirst(i, r, m)' = CatFirst(i, r, m) /\ UpTo(i, r - 1)' = UpTo(i, r - 1)
        BY <1>3 DEF CatFirst
      <4>3. CatAt(i, r, m)'
        BY <1>2, <1>3, <1>5, <2>1, <3>2, <4>1, <4>2 DEF CatAt
      <4> QED BY <1>6, <4>1, <4>3
    <3>6. CASE n = 4
      <4>1. catout' = UpTo(i, r)
        <5> DEFINE q == r - 1
        <5>1. q \in Nat /\ q + 1 = r
          BY <2>2
        <5> HIDE DEF q
        <5>2. UpTo(i, q + 1) = UpTo(i, q) \o CatFirst(i, q + 1, 5)
          BY <1>1, <2>2, <5>1, UpToIs
        <5>3. n + 1 = 5
          BY <3>6
        <5> QED BY <3>4, <5>1, <5>2, <5>3 DEF q
      <4>2. r <= files[i].samples /\ chunk' = 5 /\ 5 \in Nat /\ catphase' = "read"
        BY <2>1, <2>2, <3>1, <3>6
      <4>3. CatAt(i, r, 5)'
        BY <1>2, <1>3, <1>5, <2>1, <3>2, <4>1, <4>2 DEF CatAt
      <4> QED BY <1>6, <4>2, <4>3
    <3> QED BY <3>5, <3>6
  <2>4. CASE catphase' = "exit"
    <3>1. catcode' = 11 /\ chunk' = n /\ lost' = lost \union {x}
      BY <2>c, <2>4
    <3>2. x = Last(catout')
      <4>1. x \in CatPiece /\ catout \in Seq(CatPiece)
        <5>1. CatChunks[n + 1] \in CatNames
          BY <2>1, CatChunksAre
        <5>2. Begins(catout, Concatenation, CatPiece)
          BY <1>1, <1>4, <2>1, NowBegins
        <5> QED BY <1>5, <5>1, <5>2 DEF CatPiece, Begins
      <4> HIDE DEF x
      <4> QED BY <2>c, <4>1 DEF Last
    <3>3. IsPrefix(catout', Concatenation)
      <4> DEFINE m == n + 1
      <4>1. m \in 0 .. 5 /\ catout' = UpTo(i, r - 1) \o CatFirst(i, r, m)
        BY <2>2, <2>f
      <4> HIDE DEF m
      <4>2. Begins(catout', Concatenation, CatPiece)
        BY <1>1, <2>1, <2>2, <4>1, PieceBegins
      <4> QED BY <4>2, BeginsIsPrefix
    <3>4. LostNoticed'
      <4> HIDE DEF x
      <4> QED BY <1>l, <2>1, <2>4, <3>1, <3>2
    <3> QED BY <1>5, <1>7, <2>1, <2>4, <3>1, <3>3, <3>4
  <2> QED BY <2>3, <2>4
<1> QED BY <1>10, <1>11, <1>12, <1>13, <1>14 DEF CatNext

LEMMA CatStutters == CatInv /\ UNCHANGED catvars => CatInv'
<1> SUFFICES ASSUME CatInv, UNCHANGED catvars PROVE CatInv'
  OBVIOUS
<1>1. /\ files' = files /\ dryrun' = dryrun /\ catphase' = catphase /\ catcode' = catcode
      /\ file' = file /\ rec' = rec /\ chunk' = chunk /\ catout' = catout /\ lost' = lost
      /\ Unnoticed' = Unnoticed
  BY DEF catvars, Unnoticed
<1>2. /\ FilesOK' <=> FilesOK
      /\ \A k : Fits(k)' <=> Fits(k)
      /\ \A k : Alien(k)' <=> Alien(k)
      /\ \A k : FilesUpTo(k)' = FilesUpTo(k)
      /\ \A k, l : UpTo(k, l)' = UpTo(k, l)
      /\ Concatenation' = Concatenation
  BY <1>1, SameFiles
<1>3. Concatenates' <=> Concatenates
  <2>1. LostNoticed' <=> LostNoticed
    BY <1>1 DEF LostNoticed
  <2> QED BY <1>1, <1>2, <2>1 DEF Concatenates
<1>4. PICK i \in 0 .. Len(files), r \in Nat, n \in Nat : CatAt(i, r, n)
  BY DEF CatInv
<1>5. CatFirst(i, r, n)' = CatFirst(i, r, n) /\ UpTo(i, r - 1)' = UpTo(i, r - 1)
  BY <1>2 DEF CatFirst
<1>6. CatAt(i, r, n)'
  BY <1>1, <1>2, <1>3, <1>4, <1>5 DEF CatAt
<1> QED BY <1>1, <1>2, <1>6 DEF CatInv

LEMMA CatInitInv == CatInit \/ CatOff => CatInv
<1> SUFFICES ASSUME CatInit \/ CatOff PROVE CatInv
  OBVIOUS
<1>1. /\ file = 0 /\ rec = 0 /\ chunk = 0 /\ catout = << >> /\ catphase \in {"off", "open"}
      /\ lost = {} /\ Unnoticed = {}
  BY DEF CatInit, CatOff, Unnoticed
<1>2. FilesOK
  <2>1. CASE CatInit
    <3>1. PICK n \in 1 .. MaxFiles : files \in [1 .. n -> {f \in RawFiles : Plain(f)}]
      BY <2>1 DEF CatInit
    <3>2. n \in Nat
      BY AtopCatAssumption
    <3>3. files \in Seq(RawFiles) /\ Len(files) = n /\ DOMAIN files = 1 .. n
          /\ \A i \in 1 .. n : files[i] \in RawFiles
      BY <3>1, <3>2
    <3>4. \A f \in RawFiles :
            f.samples \in Nat /\ f.start \in Starts
      BY AtopCatAssumption DEF RawFiles, Starts
    <3> QED BY <3>2, <3>3, <3>4 DEF FilesOK
  <2>2. CASE CatOff
    <3>1. Len(files) = 0 /\ DOMAIN files = 1 .. 0
      BY <2>2 DEF CatOff
    <3> QED BY <3>1 DEF FilesOK
  <2> QED BY <2>1, <2>2
<1>3. 0 \in 0 .. Len(files) /\ 0 \in Nat
  BY <1>2 DEF FilesOK
<1>4. \A k \in 1 .. 0 : Fits(k)
  OBVIOUS
<1>5. CatAt(0, 0, 0)
  BY <1>1, <1>4 DEF CatAt, FilesUpTo
<1> QED BY <1>1, <1>2, <1>3, <1>5 DEF CatInv

(* Whatever the files are and wherever a read or a write fails, what atopcat  *)
(* writes is the first header and the samples that are complete and can be    *)
(* read of the files that fit it, in their order; only a header or a record   *)
(* of which the write fails can be missing unnoticed.                         *)
THEOREM LogsAreConcatenated == Spec => []Concatenates
<1>1. Init => CatInv
  BY CatInitInv DEF Init
<1>2. CatInv /\ [Next]_vars => CatInv'
  <2>1. CatInv /\ Next => CatInv'
    BY CatNextInv, CatStutters DEF Next
  <2>2. CatInv /\ UNCHANGED vars => CatInv'
    BY CatStutters DEF vars
  <2> QED BY <2>1, <2>2
<1>3. CatInv => Concatenates
  BY CatIsSound
<1> QED BY <1>1, <1>2, <1>3, PTL DEF Spec
=============================================================================
