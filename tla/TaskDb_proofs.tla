--------------------------- MODULE TaskDb_proofs ---------------------------
(***************************************************************************)
(* The process database for any processes and any number of them with one  *)
(* id: it has one entry for an id when a sample is done, the residue list  *)
(* is walked safely, and what is reported of a process is all that it      *)
(* used, and once, but for the cases that NoDouble names.                  *)
(***************************************************************************)
EXTENDS TaskDb, SequenceTheorems, FiniteSetTheorems, WellFoundedInduction, TLAPS

(***************************************************************************)
(* The inductive invariant.                                                *)
(***************************************************************************)
SamePid(t, u) == t.pid = u.pid /\ t.isproc = u.isproc
InResidue(t) == \E k \in 1 .. Len(residue) : residue[k] = t
\* What is left of the residue list when pdb_cleanresidue() is at pr.
Ahead(t) ==
  \E j, k \in 1 .. Len(residue) : j <= k /\ residue[j] = pr /\ residue[k] = t

\* A process id belongs to one process at a time, and only a process that runs has a thread.
SystemInv ==
  /\ \A t, u \in alive : SamePid(t, u) => t = u
  /\ \A t \in alive : ~ t.isproc => Process(t) \in alive /\ ~ Ended(Process(t))
  /\ \A i, j \in 1 .. Len(acct) : acct[i] = acct[j] => i = j

\* The sample that is compared is newer than the one in the database.
SampleInv ==
  /\ pc \in {"acct", "present"} =>
       /\ \A t, u \in todo : SamePid(t, u) => t = u
       /\ \A t \in todo, i \in 1 .. Len(chain) : chain[i].task = t => chain[i].cnt <= cnt[t]
  /\ \A t \in Tasks : cnt[t] <= used[t]
  /\ \A i \in 1 .. Len(chain) : chain[i].cnt <= used[chain[i].task]

\* Every task has one entry.  A second entry for an id is newer than the one in the residue list.
TwoOfId(t, u) == InDb(t) /\ InDb(u) /\ SamePid(t, u) /\ t # u
ChainInv ==
  /\ \A i, j \in 1 .. Len(chain) : chain[i].task = chain[j].task => i = j
  /\ \A i, j \in 1 .. Len(chain) :
       i < j /\ SamePid(chain[i].task, chain[j].task) => chain[i].task \in overlap
  /\ pc \in {"wait", "acct", "report"} => \A t, u \in Tasks : ~ TwoOfId(t, u)
  /\ pc \in {"present", "exited"} =>
       \A t, u \in Tasks : TwoOfId(t, u) => InResidue(t) \/ InResidue(u)
  /\ pc = "clean" => \A t, u \in Tasks : TwoOfId(t, u) => Ahead(t) \/ Ahead(u)

\* The residue list has entries of the database, one for an id; and those of all tasks that are still
\* to be compared.
ResidueInv ==
  /\ pc \in {"present", "exited", "clean"} =>
       /\ \A k, l \in 1 .. Len(residue) : residue[k] = residue[l] => k = l
       /\ \A t \in Tasks : InResidue(t) => InDb(t)
       /\ \A t, u \in Tasks : InResidue(t) /\ InResidue(u) /\ SamePid(t, u) => t = u
  /\ pc = "present" =>
       \A t \in todo, u \in Tasks : InDb(u) /\ SamePid(u, t) => InResidue(u)
  /\ pc = "clean" /\ pr # None => InResidue(pr)
  /\ wiping => pc = "clean" /\ \A t \in Tasks : InDb(t) => Ahead(t)

\* The processes that are active have been compared.
ActiveInv ==
  pc \in {"present", "exited"} =>
    /\ IsFiniteSet(active) /\ nprocactive = Cardinality(active \cap Procs)
    /\ pc = "present" => active \cap Procs \cap todo = {}

\* What was reported of a process is what its entry has.
CountInv ==
  /\ \A t \in Procs : t \notin overlap \cup unmatched =>
       /\ reported[t] <= used[t]
       /\ ~ Read(t) => \A i \in 1 .. Len(chain) : chain[i].task = t => reported[t] <= chain[i].cnt
       /\ ~ Read(t) /\ ~ InDb(t) => reported[t] = 0
  /\ IF wiping
     THEN \A t \in Tasks : reported[t] = 0
     ELSE \A i \in 1 .. Len(chain) : reported[chain[i].task] >= chain[i].cnt

(***************************************************************************)
(* Sequences: the first place, removal, reversal.                          *)
(***************************************************************************)
\* Every set of natural numbers has a least one, which is what Min chooses.
LEMMA MinNat ==
  ASSUME NEW S, S \subseteq Nat, S # {}
  PROVE  Min(S) \in S /\ \A y \in S : Min(S) <= y
<1> DEFINE R == {ss \in Nat \X Nat : ss[1] < ss[2]}
<1>1. IsWellFoundedOn(R, Nat)
  BY NatLessThanWellFounded DEF OpToRel
<1>2. PICK x \in S : \A y \in S : ~ (<<y, x>> \in R)
  BY <1>1, WFMin
<1>3. \A y \in S : x <= y
  <2> TAKE y \in S
  <2>1. <<y, x>> \in R <=> y < x
    OBVIOUS
  <2>2. ~ (y < x)
    BY <1>2, <2>1
  <2> QED BY <2>2
<1>4. Min(S) = CHOOSE m : m \in S /\ \A y \in S : m <= y
  BY DEF Min
<1> HIDE DEF R
<1> QED BY <1>3, <1>4

\* What is left when one element of a sequence is removed.
Without(s, r, i) ==
  Len(r) = Len(s) - 1 /\ \A k \in 1 .. Len(s) - 1 : r[k] = IF k < i THEN s[k] ELSE s[k + 1]

\* RemoveAt takes out one element.
LEMMA RemoveAtIs ==
  ASSUME NEW E, NEW s \in Seq(E), NEW i \in 1 .. Len(s)
  PROVE  RemoveAt(s, i) \in Seq(E) /\ Without(s, RemoveAt(s, i), i)
<1> DEFINE a == SubSeq(s, 1, i - 1)
           b == SubSeq(s, i + 1, Len(s))
<1>1. a \in Seq(E) /\ Len(a) = i - 1 /\ \A k \in 1 .. i - 1 : a[k] = s[k]
  <2>1. i - 1 \in 0 .. Len(s)
    OBVIOUS
  <2> QED BY <2>1, SubSeqProperties
<1>2. b \in Seq(E) /\ Len(b) = Len(s) - i /\ \A k \in 1 .. Len(s) - i : b[k] = s[i + k]
  <2>1. \A k \in 1 .. Len(s) - i : (i + 1) + k - 1 = i + k
    OBVIOUS
  <2> QED BY <2>1, SubSeqProperties
<1>3. RemoveAt(s, i) = a \o b
  BY DEF RemoveAt
<1> HIDE DEF a, b
<1>4. a \o b \in Seq(E) /\ Len(a \o b) = Len(s) - 1
  <2>1. a \o b \in Seq(E) /\ Len(a \o b) = Len(a) + Len(b)
    BY <1>1, <1>2, ConcatProperties
  <2> QED BY <2>1, <1>1, <1>2
<1>5. \A k \in 1 .. Len(s) - 1 : (a \o b)[k] = IF k < i THEN s[k] ELSE s[k + 1]
  <2> TAKE k \in 1 .. Len(s) - 1
  <2>1. (a \o b)[k] = IF k <= Len(a) THEN a[k] ELSE b[k - Len(a)]
    BY <1>1, <1>2, ConcatProperties
  <2>2. CASE k < i
    BY <2>1, <2>2, <1>1
  <2>3. CASE k >= i
    <3>1. k - (i - 1) \in 1 .. Len(s) - i /\ i + (k - (i - 1)) = k + 1
      BY <2>3
    <3>2. (a \o b)[k] = b[k - (i - 1)]
      BY <2>1, <2>3, <1>1
    <3>3. b[k - (i - 1)] = s[k + 1]
      BY <3>1, <1>2
    <3> QED BY <2>3, <3>2, <3>3
  <2>4. k < i \/ k >= i
    OBVIOUS
  <2> QED BY <2>2, <2>3, <2>4
<1> QED BY <1>3, <1>4, <1>5 DEF Without

\* RemoveFirst takes the element out where it is first, or leaves the sequence as it is.
LEMMA RemoveFirstIs ==
  ASSUME NEW E, NEW s \in Seq(E), NEW e
  PROVE  /\ RemoveFirst(s, e) \in Seq(E)
         /\ \/ RemoveFirst(s, e) = s /\ \A k \in 1 .. Len(s) : s[k] # e
            \/ \E i \in 1 .. Len(s) : s[i] = e /\ Without(s, RemoveFirst(s, e), i)
<1>1. CASE \E i \in 1 .. Len(s) : s[i] = e
  <2> DEFINE I == {i \in 1 .. Len(s) : s[i] = e}
             m == Min(I)
  <2>1. I # {} /\ I \subseteq Nat
    BY <1>1
  <2>2. m \in I
    BY <2>1, MinNat
  <2>3. RemoveFirst(s, e) = RemoveAt(s, m)
    BY <1>1, <2>1 DEF RemoveFirst, SelectInSeq
  <2> HIDE DEF m
  <2> QED BY <2>2, <2>3, RemoveAtIs
<1>2. CASE ~ \E i \in 1 .. Len(s) : s[i] = e
  BY <1>2 DEF RemoveFirst
<1> QED BY <1>1, <1>2

(***************************************************************************)
(* Types.                                                                  *)
(***************************************************************************)
Entries == [task : Tasks, cnt : 0 .. MaxUse]

SystemTypes ==
  /\ alive \subseteq Tasks
  /\ last \in [Pids -> 0 .. MaxGen]
  /\ used \in [Tasks -> 0 .. MaxUse]
  /\ acct \in Seq(Procs) /\ avail \in 0 .. Len(acct)
SampleTypes ==
  /\ pc \in {"wait", "acct", "present", "exited", "clean", "report"}
  /\ todo \subseteq Tasks /\ cnt \in [Tasks -> 0 .. MaxUse]
  /\ rd \in 0 .. avail /\ rdend \in 0 .. avail
DbTypes ==
  /\ chain \in Seq(Entries)
  /\ residue \in Seq(Tasks) /\ pr \in Tasks \cup {None} /\ wiping \in BOOLEAN
DevTypes ==
  /\ active \subseteq Tasks /\ nprocactive \in Nat
  /\ reported \in [Tasks -> 0 .. MaxUse + 1]
  /\ overlap \subseteq Tasks /\ unmatched \subseteq Procs

\* The type invariant has four parts.
LEMMA Types == TaskDbTypeOK <=> SystemTypes /\ SampleTypes /\ DbTypes /\ DevTypes
BY Zenon DEF TaskDbTypeOK, SystemTypes, SampleTypes, DbTypes, DevTypes, Entries

\* The same after a step.
LEMMA TypesNext == TaskDbTypeOK' <=> SystemTypes' /\ SampleTypes' /\ DbTypes' /\ DevTypes'
BY Zenon DEF TaskDbTypeOK, SystemTypes, SampleTypes, DbTypes, DevTypes, Entries

\* The fields of a task and of an entry.
LEMMA TaskIs ==
  /\ \A t \in Tasks : t.pid \in Pids /\ t.gen \in 1 .. MaxGen /\ t.isproc \in BOOLEAN
  /\ \A t, u \in Tasks : t.pid = u.pid /\ t.gen = u.gen /\ t.isproc = u.isproc => t = u
  /\ \A t \in Tasks : Process(t) \in Procs /\ Thread(t) \in Tasks /\ ~ Thread(t).isproc
  /\ Procs \subseteq Tasks /\ \A t \in Tasks : t \in Procs <=> t.isproc
<1>1. \A t \in Tasks : t.pid \in Pids /\ t.gen \in 1 .. MaxGen /\ t.isproc \in BOOLEAN
  BY DEF Tasks
<1>2. \A t, u \in Tasks : t.pid = u.pid /\ t.gen = u.gen /\ t.isproc = u.isproc => t = u
  BY DEF Tasks
<1>3. \A t \in Tasks : Process(t) \in Procs /\ Thread(t) \in Tasks /\ ~ Thread(t).isproc
  BY DEF Tasks, Procs, Process, Thread
<1>4. Procs \subseteq Tasks /\ \A t \in Tasks : t \in Procs <=> t.isproc
  BY DEF Procs
<1> QED BY <1>1, <1>2, <1>3, <1>4, Zenon

\* The process of a thread, and the thread of a process.
LEMMA ProcessIs ==
  ASSUME NEW t \in Tasks
  PROVE  /\ Process(t).pid = t.pid /\ Process(t).gen = t.gen /\ Process(t).isproc
         /\ Thread(t).pid = t.pid /\ Thread(t).gen = t.gen
         /\ t.isproc => Process(t) = t
         /\ ~ t.isproc => Thread(Process(t)) = t
BY DEF Tasks, Procs, Process, Thread, SamePid

\* The task and the counters of an entry.
LEMMA EntryIs ==
  /\ \A e \in Entries : e.task \in Tasks /\ e.cnt \in 0 .. MaxUse
  /\ \A t \in Tasks, n \in 0 .. MaxUse :
       /\ [task |-> t, cnt |-> n] \in Entries
       /\ [task |-> t, cnt |-> n].task = t /\ [task |-> t, cnt |-> n].cnt = n
BY DEF Entries

\* Two processes with one id can be told apart by the start time.
LEMMA GapTells ==
  ASSUME NEW g \in Nat, NEW h \in Nat, NEW G \in Nat, G >= 2, g * G - h * G \in -1 .. 1
  PROVE  g = h
<1>1. CASE g > h
  <2>1. PICK d \in Nat : g = h + 1 + d
    <3>1. g - h - 1 \in Nat /\ g = h + 1 + (g - h - 1)
      BY <1>1
    <3> QED BY <3>1
  <2>2. g * G = h * G + G + d * G /\ d * G >= 0
    BY <2>1, Z3
  <2> QED BY <2>2, Z3
<1>2. CASE h > g
  <2>1. PICK d \in Nat : h = g + 1 + d
    <3>1. h - g - 1 \in Nat /\ h = g + 1 + (h - g - 1)
      BY <1>2
    <3> QED BY <3>1
  <2>2. h * G = g * G + G + d * G /\ d * G >= 0
    BY <2>1, Z3
  <2> QED BY <2>2, Z3
<1> QED BY <1>1, <1>2

\* pdb_gettask() finds the entry of the task itself.
LEMMA MatchesIs ==
  ASSUME NEW e \in Entries, NEW t \in Tasks
  PROVE  Matches(e, t) <=> e.task = t
<1>1. e.task \in Tasks /\ e.task.gen \in Nat /\ t.gen \in Nat
  BY EntryIs, TaskIs, TaskDbAssumption
<1>2. Gap \in Nat /\ Gap >= 2
  BY TaskDbAssumption
<1>3. ASSUME Matches(e, t) PROVE e.task = t
  <2>1. e.task.gen * Gap - t.gen * Gap \in -1 .. 1
    BY <1>3, Zenon DEF Matches, Btime
  <2>2. e.task.gen = t.gen
    BY <2>1, <1>1, <1>2, GapTells
  <2>3. e.task.pid = t.pid /\ e.task.isproc = t.isproc
    BY <1>3 DEF Matches, SameId
  <2> QED BY <2>2, <2>3, <1>1, TaskIs
<1>4. ASSUME e.task = t PROVE Matches(e, t)
  <2>1. \A x \in Int : x - x \in -1 .. 1
    OBVIOUS
  <2>2. t.gen * Gap \in Int
    BY <1>1, <1>2
  <2>3. Btime(e.task) - Btime(t) \in -1 .. 1
    BY <1>4, <2>1, <2>2, Zenon DEF Btime
  <2> QED BY <1>4, <2>3, Zenon DEF Matches, SameId
<1> QED BY <1>3, <1>4

\* Where the entry of a task is, if it has one.
LEMMA PositionIs ==
  ASSUME chain \in Seq(Entries), NEW t \in Tasks
  PROVE  \/ Position(t) = 0 /\ ~ InDb(t)
         \/ Position(t) \in 1 .. Len(chain) /\ chain[Position(t)].task = t
<1> DEFINE I == {i \in 1 .. Len(chain) : Matches(chain[i], t)}
<1>1. Position(t) = IF I # {} THEN Min(I) ELSE 0
  BY DEF Position, SelectInSeq
<1>2. \A i \in 1 .. Len(chain) : Matches(chain[i], t) <=> chain[i].task = t
  BY MatchesIs
<1>3. CASE I = {}
  BY <1>1, <1>2, <1>3 DEF InDb
<1>4. CASE I # {}
  <2>0. I \subseteq Nat
    OBVIOUS
  <2>1. Min(I) \in I
    BY <1>4, <2>0, MinNat, Zenon
  <2> QED BY <1>1, <1>2, <1>4, <2>1
<1> QED BY <1>3, <1>4

\* A task is taken off a residue list, if it is in it.
Unlinked(s, r, t) ==
  /\ r \in Seq(Tasks)
  /\ \/ r = s /\ \A k \in 1 .. Len(s) : s[k] # t
     \/ \E i \in 1 .. Len(s) : s[i] = t /\ Without(s, r, i)
Unlinks(t) == Unlinked(residue, residue', t)
\* First the entry that was found, then the one that is deleted.
UnlinksBoth(t, u) == \E r \in Seq(Tasks) : Unlinked(residue, r, t) /\ Unlinked(r, residue', u)
\* pdb_deltask() takes the first entry with the id of the task, and only that.
Deletes(d, t) ==
  /\ SamePid(chain[d].task, t)
  /\ \A k \in 1 .. d - 1 : ~ SamePid(chain[k].task, t)
  /\ chain' \in Seq(Entries) /\ Without(chain, chain', d)

\* What pdb_deltask() does to the chain and to the residue list.
LEMMA DelTaskIs ==
  ASSUME DbTypes, NEW r \in Seq(Tasks), NEW t \in Tasks, InDb(t), DelTask(r, t)
  PROVE  \E d \in 1 .. Len(chain) : Deletes(d, t) /\ Unlinked(r, residue', chain[d].task)
<1> DEFINE I == {i \in 1 .. Len(chain) : SameId(chain[i], t)}
<1>t. chain \in Seq(Entries)
  BY DEF DbTypes
<1>1. PICK h \in 1 .. Len(chain) : chain[h].task = t
  BY DEF InDb
<1>2. h \in I
  BY <1>1 DEF SameId
<1>3. PICK d : d = Min(I)
  OBVIOUS
<1>4. d \in I /\ \A y \in I : d <= y
  <2>1. I \subseteq Nat /\ I # {}
    BY <1>2
  <2> QED BY <1>3, <2>1, MinNat, Zenon
<1>5. chain' = RemoveAt(chain, d) /\ residue' = RemoveFirst(r, chain[d].task)
  BY <1>2, <1>3 DEF DelTask, SelectInSeq, Unchained
<1>6. chain' \in Seq(Entries) /\ Without(chain, chain', d)
  BY <1>t, <1>4, <1>5, RemoveAtIs
<1>7. Unlinked(r, residue', chain[d].task)
  BY <1>5, RemoveFirstIs DEF Unlinked
<1>8. SamePid(chain[d].task, t) /\ \A k \in 1 .. d - 1 : ~ SamePid(chain[k].task, t)
  <2>1. SamePid(chain[d].task, t)
    BY <1>4 DEF SameId, SamePid
  <2>2. ASSUME NEW k \in 1 .. d - 1, SamePid(chain[k].task, t) PROVE FALSE
    <3>1. k \in I
      BY <2>2, <1>4 DEF SameId, SamePid
    <3> QED BY <3>1, <1>4
  <2> QED BY <2>1, <2>2
<1> QED BY <1>4, <1>6, <1>7, <1>8 DEF Deletes

(***************************************************************************)
(* What the steps of a sample do.                                          *)
(***************************************************************************)
\* The inductive invariant.
DbInv == TaskDbTypeOK /\ SystemInv /\ SampleInv /\ ChainInv /\ ResidueInv /\ ActiveInv /\ CountInv

\* An entry is stored anew, or put in front.
Updates(i, e) ==
  /\ chain' \in Seq(Entries) /\ Len(chain') = Len(chain) /\ chain'[i] = e
  /\ \A k \in 1 .. Len(chain) : k # i => chain'[k] = chain[k]
Prepends(e) ==
  /\ chain' \in Seq(Entries) /\ Len(chain') = Len(chain) + 1 /\ chain'[1] = e
  /\ \A k \in 2 .. Len(chain) + 1 : chain'[k] = chain[k - 1]
Adds(t, n) ==
  /\ reported' \in [Tasks -> 0 .. MaxUse + 1]
  /\ \A u \in Tasks : u # t => reported'[u] = reported[u]
  /\ reported'[t] = IF reported[t] + n > MaxUse THEN MaxUse + 1 ELSE reported[t] + n

\* An entry that is stored anew.
LEMMA UpdateIs ==
  ASSUME chain \in Seq(Entries), NEW i \in 1 .. Len(chain), NEW e \in Entries,
         chain' = [chain EXCEPT ![i] = e]
  PROVE  Updates(i, e)
BY ExceptSeq DEF Updates

\* An entry that is put in front of the others.
LEMMA PrependIs ==
  ASSUME chain \in Seq(Entries), NEW e \in Entries, chain' = <<e>> \o chain
  PROVE  Prepends(e)
<1>1. <<e>> \in Seq(Entries) /\ Len(<<e>>) = 1 /\ <<e>>[1] = e
  OBVIOUS
<1>2. PICK one : one = <<e>>
  OBVIOUS
<1>3. chain' \in Seq(Entries) /\ Len(chain') = 1 + Len(chain)
  BY <1>1, ConcatProperties
<1>4. \A k \in 1 .. 1 + Len(chain) : chain'[k] = IF k <= 1 THEN one[k] ELSE chain[k - 1]
  BY <1>1, <1>2, ConcatProperties
<1>5. Len(chain) \in Nat
  OBVIOUS
<1> QED BY <1>1, <1>2, <1>3, <1>4, <1>5 DEF Prepends

\* What deviattask() adds to what was reported.
LEMMA ReportIs ==
  ASSUME DevTypes, NEW t \in Tasks, NEW n \in Nat, Report(t, n)
  PROVE  Adds(t, n)
<1>1. reported \in [Tasks -> 0 .. MaxUse + 1] /\ MaxUse \in Nat
  BY TaskDbAssumption DEF DevTypes
<1>2. PICK v : v = IF reported[t] + n > MaxUse THEN MaxUse + 1 ELSE reported[t] + n
  OBVIOUS
<1>3. v \in 0 .. MaxUse + 1
  BY <1>1, <1>2
<1>4. reported' = [reported EXCEPT ![t] = v]
  BY <1>2 DEF Report
<1> QED BY <1>1, <1>2, <1>3, <1>4 DEF Adds

\* Nothing is added to what a task is reported to have used.
LEMMA NothingIs ==
  ASSUME DevTypes, NEW t \in Tasks, reported' = reported
  PROVE  Adds(t, 0)
<1>1. reported \in [Tasks -> 0 .. MaxUse + 1] /\ MaxUse \in Nat
  BY TaskDbAssumption DEF DevTypes
<1> QED BY <1>1 DEF Adds

\* A task that is present was known, or is new.
Known(t, i) ==
  /\ chain[i].task = t /\ chain[i].cnt <= cnt[t]
  /\ Updates(i, [task |-> t, cnt |-> cnt[t]]) /\ Unlinks(t) /\ Adds(t, cnt[t] - chain[i].cnt)
  /\ overlap' = overlap
  /\ UNCHANGED <<active, nprocactive>> \/ Activate(t)
New(t) ==
  /\ ~ InDb(t) /\ Prepends([task |-> t, cnt |-> cnt[t]]) /\ residue' = residue /\ Adds(t, cnt[t])
  /\ overlap' = IF \E j \in 1 .. Len(chain) : SameId(chain[j], t) THEN overlap \cup {t} ELSE overlap
  /\ Activate(t)

\* deviattask() finds the entry of a task that is present, or makes one.
LEMMA PresentIs ==
  ASSUME DbInv, NEW t \in Tasks, Present(t)
  PROVE  (\E i \in 1 .. Len(chain) : Known(t, i)) \/ New(t)
<1>t. /\ chain \in Seq(Entries) /\ residue \in Seq(Tasks) /\ DevTypes
      /\ cnt[t] \in 0 .. MaxUse /\ t \in todo /\ pc = "present"
      /\ \A i \in 1 .. Len(chain) : chain[i].task = t => chain[i].cnt <= cnt[t]
  BY Types DEF DbInv, DbTypes, SampleTypes, SampleInv, Present
<1> PICK e : e = [task |-> t, cnt |-> cnt[t]]
  OBVIOUS
<1>e. e \in Entries /\ \A i \in 1 .. Len(chain) : chain[i].cnt \in 0 .. MaxUse
  BY <1>t, EntryIs
<1>1. CASE Position(t) = 0
  <2>1. ~ InDb(t)
    BY <1>t, <1>1, PositionIs
  <2>2. chain' = <<e>> \o chain /\ Activate(t) /\ Report(t, cnt[t]) /\ residue' = residue
    BY <1>1 DEF Present
  <2>3. Prepends(e)
    BY <1>t, <1>e, <2>2, PrependIs
  <2>4. Adds(t, cnt[t])
    BY <1>t, <2>2, ReportIs
  <2>5. overlap' = IF \E j \in 1 .. Len(chain) : SameId(chain[j], t) THEN overlap \cup {t} ELSE overlap
    BY <1>1 DEF Present
  <2> QED BY <2>1, <2>2, <2>3, <2>4, <2>5 DEF New
<1>2. CASE Position(t) # 0
  <2>1. PICK i \in 1 .. Len(chain) : i = Position(t) /\ chain[i].task = t
    BY <1>t, <1>2, PositionIs
  <2>2. i > 0 /\ chain[i].cnt <= cnt[t] /\ overlap' = overlap
    BY <1>t, <1>2, <2>1 DEF Present
  <2>3. /\ residue' = Unchained(residue, t)
        /\ IF chain[i] = e
           THEN UNCHANGED <<chain, active, nprocactive, reported>>
           ELSE /\ chain' = [chain EXCEPT ![i] = e]
                /\ Activate(t) /\ Report(t, cnt[t] - chain[i].cnt)
    BY <2>1, <2>2 DEF Present
  <2>4. Unlinks(t)
    BY <1>t, <2>3, RemoveFirstIs DEF Unlinks, Unlinked, Unchained
  <2>5. CASE chain[i] = e
    <3>1. Updates(i, e)
      BY <1>t, <2>3, <2>5 DEF Updates
    <3>2. Adds(t, 0) /\ cnt[t] - chain[i].cnt = 0
      BY <1>t, <2>3, <2>5, NothingIs
    <3> QED BY <2>1, <2>2, <2>3, <2>4, <2>5, <3>1, <3>2 DEF Known
  <2>6. CASE chain[i] # e
    <3>1. Updates(i, e)
      BY <1>t, <1>e, <2>3, <2>6, UpdateIs
    <3>2. cnt[t] - chain[i].cnt \in Nat
      BY <1>t, <1>e, <2>2
    <3>3. Adds(t, cnt[t] - chain[i].cnt)
      BY <1>t, <2>3, <2>6, <3>2, ReportIs
    <3> QED BY <2>1, <2>2, <2>3, <2>4, <2>6, <3>1, <3>3 DEF Known
  <2> QED BY <2>5, <2>6
<1> QED BY <1>1, <1>2

\* A process that exited is removed, with what it used since the last sample.
Ends(t, i) ==
  /\ chain[i].task = t
  /\ Adds(t, IF used[t] > chain[i].cnt THEN used[t] - chain[i].cnt ELSE 0)
  /\ \E d \in 1 .. Len(chain) : Deletes(d, t) /\ UnlinksBoth(t, chain[d].task)

\* deviattask() finds the entry of a process that exited and removes one, or reports all it has used.
LEMMA ExitedIs ==
  ASSUME DbInv, Exited
  PROVE  \E t \in Procs :
           /\ rd + 1 \in 1 .. Len(acct) /\ t = acct[rd + 1]
           /\ \/ \E i \in 1 .. Len(chain) : Ends(t, i)
              \/ ~ InDb(t) /\ Adds(t, used[t]) /\ chain' = chain /\ residue' = residue
<1>t. /\ chain \in Seq(Entries) /\ DbTypes /\ DevTypes /\ used \in [Tasks -> 0 .. MaxUse]
      /\ acct \in Seq(Procs) /\ avail \in 0 .. Len(acct) /\ rd \in 0 .. avail /\ rdend \in 0 .. avail
      /\ MaxUse \in Nat
  BY Types, TaskDbAssumption DEF DbInv, DbTypes, SampleTypes, SystemTypes
<1>1. rd < rdend
  BY DEF Exited
<1>2. rd + 1 \in 1 .. Len(acct)
  <2>1. Len(acct) \in Nat
    BY <1>t
  <2> QED BY <1>t, <1>1, <2>1
<1>3. PICK t : t = acct[rd + 1]
  OBVIOUS
<1>4. t \in Procs /\ t \in Tasks
  BY <1>t, <1>2, <1>3, TaskIs
<1>5. CASE Position(t) = 0
  <2>1. ~ InDb(t)
    BY <1>t, <1>4, <1>5, PositionIs
  <2>2. Report(t, used[t]) /\ chain' = chain /\ residue' = residue
    BY <1>3, <1>5 DEF Exited
  <2>3. Adds(t, used[t])
    BY <1>t, <1>4, <2>2, ReportIs
  <2> QED BY <1>2, <1>3, <1>4, <2>1, <2>2, <2>3
<1>6. CASE Position(t) # 0
  <2>1. PICK i \in 1 .. Len(chain) : i = Position(t) /\ chain[i].task = t
    BY <1>t, <1>4, <1>6, PositionIs
  <2>2. i > 0
    OBVIOUS
  <2>3. Report(t, IF used[t] > chain[i].cnt THEN used[t] - chain[i].cnt ELSE 0)
        /\ DelTask(Unchained(residue, t), t)
    BY <1>3, <2>1, <2>2 DEF Exited
  <2>4. chain[i].cnt \in Nat /\ used[t] \in Nat
    BY <1>t, <1>4, EntryIs
  <2>5. PICK n : n = IF used[t] > chain[i].cnt THEN used[t] - chain[i].cnt ELSE 0
    OBVIOUS
  <2>6. n \in Nat
    BY <2>4, <2>5
  <2>7. Adds(t, n)
    BY <1>t, <1>4, <2>3, <2>5, <2>6, ReportIs
  <2>8. InDb(t)
    BY <2>1 DEF InDb
  <2>9. \E d \in 1 .. Len(chain) : Deletes(d, t) /\ UnlinksBoth(t, chain[d].task)
    <3>1. PICK r : r = Unchained(residue, t)
      OBVIOUS
    <3>2. r \in Seq(Tasks) /\ Unlinked(residue, r, t)
      BY <1>t, <3>1, RemoveFirstIs DEF Unlinked, Unchained, DbTypes
    <3>3. PICK d \in 1 .. Len(chain) : Deletes(d, t) /\ Unlinked(r, residue', chain[d].task)
      BY <1>t, <1>4, <2>3, <2>8, <3>1, <3>2, DelTaskIs
    <3> QED BY <3>2, <3>3 DEF UnlinksBoth
  <2>10. Ends(t, i)
    BY <2>1, <2>5, <2>7, <2>9 DEF Ends
  <2> QED BY <1>2, <1>3, <1>4, <2>10
<1> QED BY <1>5, <1>6

\* pdb_cleanresidue() removes the first entry with the id of the one it is at, and goes to the next.
LEMMA CleanIs ==
  ASSUME DbInv, Clean
  PROVE  /\ pr \in Tasks
         /\ \E d \in 1 .. Len(chain) : Deletes(d, pr) /\ Unlinks(chain[d].task)
         /\ \E k \in 1 .. Len(residue) :
              /\ residue[k] = pr
              /\ pr' = IF k < Len(residue) THEN residue[k + 1] ELSE None
<1>t. /\ residue \in Seq(Tasks) /\ DbTypes /\ pr \in Tasks /\ InResidue(pr) /\ InDb(pr)
  BY Types DEF DbInv, DbTypes, ResidueInv, Clean, InResidue
<1>1. \E d \in 1 .. Len(chain) : Deletes(d, pr) /\ Unlinks(chain[d].task)
  BY <1>t, DelTaskIs DEF Clean, Unlinks
<1>2. \E k \in 1 .. Len(residue) :
        /\ residue[k] = pr
        /\ pr' = IF k < Len(residue) THEN residue[k + 1] ELSE None
  <2> DEFINE I == {k \in 1 .. Len(residue) : residue[k] = pr}
  <2>1. I # {} /\ I \subseteq Nat
    BY <1>t DEF InResidue
  <2>2. PICK k : k = Min(I)
    OBVIOUS
  <2>3. k \in I
    BY <2>1, <2>2, MinNat
  <2>4. pr' = IF k \in 1 .. Len(residue) - 1 THEN residue[k + 1] ELSE None
    BY <2>1, <2>2 DEF Clean, NextIn, SelectInSeq
  <2>5. k \in 1 .. Len(residue) /\ residue[k] = pr /\ Len(residue) \in Nat
    BY <1>t, <2>3
  <2>6. k \in 1 .. Len(residue) - 1 <=> k < Len(residue)
    BY <2>5
  <2> QED BY <2>4, <2>5, <2>6
<1> QED BY <1>t, <1>1, <1>2

\* pdb_makeresidue() lists every entry once.
LEMMA MakeResidueIs ==
  ASSUME DbTypes
  PROVE  /\ MakeResidue \in Seq(Tasks) /\ Len(MakeResidue) = Len(chain)
         /\ \A k \in 1 .. Len(chain) : MakeResidue[k] = chain[Len(chain) - k + 1].task
<1>t. chain \in Seq(Entries) /\ Len(chain) \in Nat
  BY DEF DbTypes
<1> DEFINE s == [i \in 1 .. Len(chain) |-> chain[i].task]
<1>1. Len(s) = Len(chain)
  BY <1>t
<1>2. MakeResidue = [i \in 1 .. Len(chain) |-> s[Len(chain) - i + 1]]
  BY <1>1 DEF MakeResidue, Reverse
<1>3. \A k \in 1 .. Len(chain) :
        Len(chain) - k + 1 \in 1 .. Len(chain) /\ s[Len(chain) - k + 1] = chain[Len(chain) - k + 1].task
  BY <1>t
<1>4. \A k \in 1 .. Len(chain) : chain[Len(chain) - k + 1].task \in Tasks
  BY <1>t, <1>3, EntryIs
<1> HIDE DEF s
<1>5. \A k \in 1 .. Len(chain) : MakeResidue[k] = chain[Len(chain) - k + 1].task
  BY <1>2, <1>3
<1>6. MakeResidue \in [1 .. Len(chain) -> Tasks]
  BY <1>2, <1>3, <1>4
<1> QED BY <1>t, <1>5, <1>6

(***************************************************************************)
(* The first state.                                                        *)
(***************************************************************************)
LEMMA Beginning == Init => DbInv
<1> SUFFICES ASSUME Init PROVE DbInv
  OBVIOUS
<1>a. MaxGen \in Nat /\ MaxUse \in Nat /\ MaxUse + 1 \in Nat
  BY TaskDbAssumption
<1>1. alive = {} /\ todo = {} /\ active = {} /\ overlap = {} /\ unmatched = {}
  BY Zenon DEF Init
<1>2. acct = <<>> /\ chain = <<>> /\ residue = <<>>
  BY Zenon DEF Init
<1>3. avail = 0 /\ rd = 0 /\ rdend = 0 /\ nprocactive = 0
  BY Zenon DEF Init
<1>4. pr = None /\ wiping = FALSE /\ pc = "wait"
  BY Zenon DEF Init
<1>5. /\ last = [p \in Pids |-> 0] /\ used = [t \in Tasks |-> 0]
      /\ cnt = [t \in Tasks |-> 0] /\ reported = [t \in Tasks |-> 0]
  BY Zenon DEF Init
<1>6. Len(acct) = 0 /\ Len(chain) = 0 /\ Len(residue) = 0
  BY <1>2
<1>7. TaskDbTypeOK
  <2>1. last \in [Pids -> 0 .. MaxGen] /\ used \in [Tasks -> 0 .. MaxUse]
    BY <1>5, <1>a
  <2>2. cnt \in [Tasks -> 0 .. MaxUse] /\ reported \in [Tasks -> 0 .. MaxUse + 1]
    BY <1>5, <1>a
  <2>3. acct \in Seq(Procs) /\ chain \in Seq(Entries) /\ residue \in Seq(Tasks)
    BY <1>2
  <2>4. avail \in 0 .. Len(acct) /\ rd \in 0 .. avail /\ rdend \in 0 .. avail /\ nprocactive \in Nat
    BY <1>3, <1>6
  <2>5. SystemTypes
    BY <1>1, <2>1, <2>3, <2>4 DEF SystemTypes
  <2>6. SampleTypes
    BY <1>1, <1>4, <2>2, <2>4 DEF SampleTypes
  <2>7. DbTypes
    BY <1>4, <2>3 DEF DbTypes
  <2>8. DevTypes
    BY <1>1, <2>2, <2>4 DEF DevTypes
  <2> QED BY <2>5, <2>6, <2>7, <2>8, Types
<1>8. SystemInv
  BY <1>1, <1>6 DEF SystemInv
<1>9. SampleInv
  <2>1. \A t \in Tasks : cnt[t] <= used[t]
    BY <1>5
  <2> QED BY <1>4, <1>6, <2>1 DEF SampleInv
<1>10. ChainInv
  <2>1. \A u : ~ InDb(u)
    BY <1>6 DEF InDb
  <2> QED BY <1>4, <1>6, <2>1 DEF ChainInv, TwoOfId
<1>11. ResidueInv
  BY <1>4 DEF ResidueInv
<1>12. ActiveInv
  BY <1>4 DEF ActiveInv
<1>13. CountInv
  <2>1. \A t \in Procs : reported[t] = 0 /\ used[t] = 0
    BY <1>5, TaskIs
  <2>2. wiping = FALSE
    BY <1>4
  <2> QED BY <1>6, <2>1, <2>2 DEF CountInv
<1> QED BY <1>7, <1>8, <1>9, <1>10, <1>11, <1>12, <1>13 DEF DbInv

(***************************************************************************)
(* The types are kept.                                                     *)
(***************************************************************************)
LEMMA SystemTypeKept ==
  ASSUME SystemTypes, System
  PROVE  SystemTypes' /\ Len(acct) <= Len(acct') /\ avail <= avail'
<1>t. /\ alive \subseteq Tasks /\ last \in [Pids -> 0 .. MaxGen] /\ used \in [Tasks -> 0 .. MaxUse]
      /\ acct \in Seq(Procs) /\ Len(acct) \in Nat /\ avail \in 0 .. Len(acct)
      /\ MaxGen \in Nat /\ MaxUse \in Nat
  BY TaskDbAssumption DEF SystemTypes
<1> USE <1>t
<1> SUFFICES /\ alive' \subseteq Tasks /\ last' \in [Pids -> 0 .. MaxGen]
             /\ used' \in [Tasks -> 0 .. MaxUse]
             /\ acct' \in Seq(Procs) /\ Len(acct) <= Len(acct') /\ avail' \in 0 .. Len(acct')
             /\ avail <= avail'
  BY DEF SystemTypes
<1>1. ASSUME NEW p \in Pids, StartProcess(p)
      PROVE  /\ alive' \subseteq Tasks /\ last' \in [Pids -> 0 .. MaxGen]
             /\ UNCHANGED <<used, acct, avail>>
  <2>1. last[p] + 1 \in 1 .. MaxGen
    BY <1>1 DEF StartProcess
  <2>2. [pid |-> p, gen |-> last[p] + 1, isproc |-> TRUE] \in Tasks
    BY <2>1 DEF Tasks
  <2>3. /\ last' = [last EXCEPT ![p] = last[p] + 1] /\ UNCHANGED <<used, acct, avail>>
        /\ alive' = alive \cup {[pid |-> p, gen |-> last[p] + 1, isproc |-> TRUE]}
    BY <1>1 DEF StartProcess, Starts
  <2>4. last[p] + 1 \in 0 .. MaxGen
    BY <2>1
  <2>5. last' \in [Pids -> 0 .. MaxGen]
    BY <2>3, <2>4
  <2> QED BY <2>2, <2>3, <2>5
<1>2. ASSUME NEW t \in Tasks, StartThread(t) \/ EndThread(t) \/ Reap(t)
      PROVE  alive' \subseteq Tasks /\ UNCHANGED <<last, used, acct, avail>>
  <2>1. Thread(t) \in Tasks
    BY TaskIs
  <2> QED BY <1>2, <2>1 DEF StartThread, EndThread, Reap, Starts
<1>3. ASSUME NEW t \in Tasks, Consume(t)
      PROVE  used' \in [Tasks -> 0 .. MaxUse] /\ UNCHANGED <<alive, last, acct, avail>>
  BY <1>3 DEF Consume
<1>4. ASSUME NEW t \in Tasks, EndProcess(t)
      PROVE  /\ alive' \subseteq Tasks /\ acct' \in Seq(Procs) /\ Len(acct') = Len(acct) + 1
             /\ UNCHANGED <<last, used, avail>>
  <2>1. t \in Procs /\ acct' = Append(acct, t) /\ alive' = alive \ {Thread(t)}
        /\ UNCHANGED <<last, used, avail>>
    BY <1>4 DEF EndProcess
  <2> QED BY <2>1, AppendProperties
<1>5. ASSUME Deliver
      PROVE  /\ avail' \in 0 .. Len(acct) /\ avail <= avail'
             /\ UNCHANGED <<alive, last, used, acct>>
  BY <1>5 DEF Deliver
<1> QED BY <1>1, <1>2, <1>3, <1>4, <1>5 DEF System

\* The variables of the system change only in steps of the system.
LEMMA EngineTypes ==
  ASSUME DbInv, Engine \/ Reset
  PROVE  TaskDbTypeOK'
<1>t. /\ SystemTypes /\ SampleTypes /\ DbTypes /\ DevTypes
  BY Types DEF DbInv
<1>s. /\ todo \subseteq Tasks /\ cnt \in [Tasks -> 0 .. MaxUse]
      /\ avail \in Nat /\ rd \in 0 .. avail /\ rdend \in 0 .. avail
      /\ pc \in {"wait", "acct", "present", "exited", "clean", "report"}
  BY <1>t, LenProperties DEF SampleTypes, SystemTypes
<1>d. /\ chain \in Seq(Entries) /\ residue \in Seq(Tasks) /\ pr \in Tasks \cup {None}
      /\ wiping \in BOOLEAN
  BY <1>t DEF DbTypes
<1>e. /\ active \subseteq Tasks /\ nprocactive \in Nat /\ reported \in [Tasks -> 0 .. MaxUse + 1]
      /\ overlap \subseteq Tasks /\ unmatched \subseteq Procs
  BY <1>t DEF DevTypes
<1>0. UNCHANGED system
  BY Zenon DEF Engine, PhotoProc, AcctPhotoProc, Present, PresentDone, Exited, ExitedDone, Clean,
               CleanDone, Shown, Reset
<1>y. SystemTypes' /\ avail' = avail
  BY <1>0, <1>t DEF SystemTypes, system
<1> SUFFICES SampleTypes' /\ DbTypes' /\ DevTypes'
  BY <1>y, TypesNext
<1>1. CASE PhotoProc
  <2>1. todo' = alive /\ cnt' = [t \in Tasks |-> IF t \in alive THEN used[t] ELSE 0] /\ pc' = "acct"
        /\ UNCHANGED <<rd, rdend, db, devs>>
    BY <1>1 DEF PhotoProc
  <2>2. alive \subseteq Tasks /\ used \in [Tasks -> 0 .. MaxUse] /\ MaxUse \in Nat
    BY <1>t, TaskDbAssumption DEF SystemTypes
  <2>3. SampleTypes'
    BY <2>1, <2>2, <1>s, <1>y DEF SampleTypes
  <2> QED BY <2>1, <2>3, <1>t DEF DbTypes, DevTypes, db, devs
<1>2. CASE AcctPhotoProc
  <2>1. /\ rdend' = IF avail - rd > MaxAcctProcs THEN rd + MaxAcctProcs ELSE avail
        /\ residue' = MakeResidue /\ active' = {} /\ nprocactive' = 0 /\ pc' = "present"
        /\ UNCHANGED <<todo, cnt, rd, chain, pr, wiping, reported, overlap, unmatched>>
    BY <1>2 DEF AcctPhotoProc
  <2>2. rdend' \in 0 .. avail
    BY <2>1, <1>s, TaskDbAssumption
  <2>3. residue' \in Seq(Tasks)
    BY <2>1, <1>t, MakeResidueIs
  <2>4. SampleTypes'
    BY <2>1, <2>2, <1>s, <1>y DEF SampleTypes
  <2>5. DbTypes'
    BY <2>1, <2>3, <1>d DEF DbTypes
  <2>6. DevTypes'
    BY <2>1, <1>e DEF DevTypes
  <2> QED BY <2>4, <2>5, <2>6
<1>3. CASE \E t \in Tasks : Present(t)
  <2> PICK t \in Tasks : Present(t)
    BY <1>3
  <2>1. /\ todo' = todo \ {t}
        /\ overlap' \subseteq overlap \cup {t} /\ t \in Tasks
        /\ UNCHANGED <<pc, cnt, rd, rdend, pr, wiping>>
    BY DEF Present
  <2>2. unmatched' \subseteq Procs
    <3>1. unmatched' = unmatched \/ (Read(t) /\ unmatched' = unmatched \cup {t})
      BY DEF Present
    <3>2. Read(t) => t \in Procs
      <4> SUFFICES ASSUME NEW i \in 1 .. rd, acct[i] = t PROVE t \in Procs
        BY DEF Read
      <4>1. acct \in Seq(Procs) /\ avail \in 0 .. Len(acct) /\ Len(acct) \in Nat
        BY <1>t DEF SystemTypes
      <4>2. i \in 1 .. Len(acct)
        BY <4>1, <1>s
      <4> QED BY <4>1, <4>2
    <3> QED BY <3>1, <3>2, <1>e
  <2>3. /\ chain' \in Seq(Entries) /\ residue' \in Seq(Tasks)
        /\ reported' \in [Tasks -> 0 .. MaxUse + 1]
    BY <1>d, PresentIs DEF Known, New, Updates, Prepends, Unlinks, Unlinked, Adds
  <2>4. active' \subseteq Tasks /\ nprocactive' \in Nat
    <3>1. UNCHANGED <<active, nprocactive>> \/ Activate(t)
      BY PresentIs DEF Known, New
    <3>2. Process(t) \in Tasks
      BY TaskIs
    <3> QED BY <3>1, <3>2, <1>e DEF Activate
  <2>5. SampleTypes'
    BY <2>1, <1>s, <1>y DEF SampleTypes
  <2>6. DbTypes'
    BY <2>1, <2>3, <1>d DEF DbTypes
  <2>7. DevTypes'
    BY <2>1, <2>2, <2>3, <2>4, <1>e DEF DevTypes
  <2> QED BY <2>5, <2>6, <2>7
<1>4. CASE PresentDone
  <2>1. pc' = "exited" /\ UNCHANGED <<sample, db, devs>>
    BY <1>4 DEF PresentDone
  <2>2. SampleTypes'
    BY <2>1, <1>s, <1>y DEF SampleTypes, sample
  <2> QED BY <2>1, <2>2, <1>t DEF DbTypes, DevTypes, db, devs
<1>5. CASE Exited
  <2>1. rd < rdend /\ rd' = rd + 1
        /\ UNCHANGED <<pc, todo, cnt, rdend, pr, wiping, active, nprocactive, overlap, unmatched>>
    BY <1>5 DEF Exited
  <2>2. /\ chain' \in Seq(Entries) /\ residue' \in Seq(Tasks)
        /\ reported' \in [Tasks -> 0 .. MaxUse + 1]
    BY <1>5, <1>d, ExitedIs DEF Ends, Deletes, UnlinksBoth, Unlinked, Adds
  <2>3. rd' \in 0 .. avail
    BY <2>1, <1>s
  <2>4. SampleTypes'
    BY <2>1, <2>3, <1>s, <1>y DEF SampleTypes
  <2>5. DbTypes'
    BY <2>1, <2>2, <1>d DEF DbTypes
  <2>6. DevTypes'
    BY <2>1, <2>2, <1>e DEF DevTypes
  <2> QED BY <2>4, <2>5, <2>6
<1>6. CASE ExitedDone
  <2>1. rd' = avail /\ pr' = IF residue = <<>> THEN None ELSE Head(residue)
    BY <1>6 DEF ExitedDone
  <2>2. pc' = "clean" /\ UNCHANGED <<todo, cnt, rdend, chain, residue, wiping, devs>>
    BY <1>6 DEF ExitedDone
  <2>3. pr' \in Tasks \cup {None}
    BY <2>1, <1>d, HeadTailProperties
  <2>4. SampleTypes'
    BY <2>1, <2>2, <1>s, <1>y DEF SampleTypes
  <2>5. DbTypes'
    BY <2>2, <2>3, <1>d DEF DbTypes
  <2> QED BY <2>2, <2>4, <2>5, <1>t DEF DevTypes, devs
<1>7. CASE Clean
  <2>1. UNCHANGED <<pc, sample, wiping, active, nprocactive, reported, overlap>>
    BY <1>7 DEF Clean
  <2>2. unmatched' \subseteq Procs
    <3>1. unmatched' = unmatched \/ (pr.isproc /\ unmatched' = unmatched \cup {pr})
      BY <1>7 DEF Clean
    <3>2. pr \in Tasks
      BY <1>7, CleanIs
    <3> QED BY <3>1, <3>2, <1>e, TaskIs
  <2>3. chain' \in Seq(Entries) /\ residue' \in Seq(Tasks) /\ pr' \in Tasks \cup {None}
    <3>1. chain' \in Seq(Entries) /\ residue' \in Seq(Tasks)
      BY <1>7, CleanIs DEF Deletes, Unlinks, Unlinked
    <3>2. PICK k \in 1 .. Len(residue) : pr' = IF k < Len(residue) THEN residue[k + 1] ELSE None
      BY <1>7, CleanIs
    <3>3. Len(residue) \in Nat
      BY <1>d
    <3>4. k < Len(residue) => residue[k + 1] \in Tasks
      BY <1>d, <3>3
    <3> QED BY <3>1, <3>2, <3>4
  <2>4. SampleTypes'
    BY <2>1, <1>t, <1>y DEF SampleTypes, sample
  <2>5. DbTypes'
    BY <2>1, <2>3, <1>d DEF DbTypes
  <2>6. DevTypes'
    BY <2>1, <2>2, <1>e DEF DevTypes
  <2> QED BY <2>4, <2>5, <2>6
<1>8. CASE CleanDone
  <2>1. pc' \in {"wait", "report"} /\ wiping' = FALSE /\ UNCHANGED <<sample, chain, residue, pr, devs>>
    BY <1>8 DEF CleanDone
  <2>2. SampleTypes'
    BY <2>1, <1>s, <1>y DEF SampleTypes, sample
  <2>3. DbTypes'
    BY <2>1, <1>d DEF DbTypes
  <2> QED BY <2>1, <2>2, <2>3, <1>t DEF DevTypes, devs
<1>9. CASE Shown
  <2>1. pc' = "wait" /\ UNCHANGED <<sample, db, devs>>
    BY <1>9 DEF Shown
  <2>2. SampleTypes'
    BY <2>1, <1>s, <1>y DEF SampleTypes, sample
  <2> QED BY <2>1, <2>2, <1>t DEF DbTypes, DevTypes, db, devs
<1>10. CASE Reset
  <2>1. pc' = "clean" /\ UNCHANGED <<sample, chain, active, nprocactive, overlap, unmatched>>
    BY <1>10 DEF Reset
  <2>2. wiping' = TRUE /\ residue' = MakeResidue
    BY <1>10 DEF Reset
  <2>3. pr' = IF chain = <<>> THEN None ELSE chain[Len(chain)].task
    BY <1>10 DEF Reset
  <2>4. reported' = [t \in Tasks |-> 0]
    BY <1>10 DEF Reset
  <2>5. pr' \in Tasks \cup {None}
    <3>1. Len(chain) \in Nat /\ (chain # <<>> => Len(chain) # 0)
      BY <1>d, EmptySeq
    <3>2. chain # <<>> => chain[Len(chain)].task \in Tasks
      BY <3>1, <1>d, EntryIs
    <3> QED BY <2>3, <3>2
  <2>6. residue' \in Seq(Tasks)
    BY <2>2, <1>t, MakeResidueIs
  <2>7. SampleTypes'
    BY <2>1, <1>s, <1>y DEF SampleTypes, sample
  <2>8. DbTypes'
    BY <2>1, <2>2, <2>5, <2>6, <1>d DEF DbTypes
  <2>9. DevTypes'
    <3>1. reported' \in [Tasks -> 0 .. MaxUse + 1]
      BY <2>4, TaskDbAssumption
    <3> QED BY <2>1, <3>1, <1>e DEF DevTypes
  <2> QED BY <2>7, <2>8, <2>9
<1> QED BY <1>1, <1>2, <1>3, <1>4, <1>5, <1>6, <1>7, <1>8, <1>9, <1>10 DEF Engine

\* Every step keeps the types.
LEMMA TypeKept ==
  ASSUME DbInv, Next
  PROVE  TaskDbTypeOK'
<1>1. CASE System
  <2>t. SystemTypes /\ SampleTypes /\ DbTypes /\ DevTypes
    BY Types DEF DbInv
  <2>1. SystemTypes' /\ avail <= avail'
    BY <1>1, <2>t, SystemTypeKept
  <2>2. UNCHANGED <<pc, sample, db, devs>>
    BY <1>1 DEF System
  <2>3. avail \in Nat /\ avail' \in Nat /\ rd \in 0 .. avail /\ rdend \in 0 .. avail
    <3>1. Len(acct) \in Nat /\ Len(acct') \in Nat
      BY <2>t, <2>1, LenProperties DEF SystemTypes
    <3> QED BY <2>t, <2>1, <3>1 DEF SystemTypes, SampleTypes
  <2>4. rd' \in 0 .. avail' /\ rdend' \in 0 .. avail'
    BY <2>1, <2>2, <2>3 DEF sample
  <2>5. SampleTypes'
    BY <2>t, <2>2, <2>4 DEF SampleTypes, sample
  <2>6. DbTypes' /\ DevTypes'
    BY <2>t, <2>2 DEF DbTypes, DevTypes, db, devs
  <2> QED BY <2>1, <2>5, <2>6, TypesNext
<1>2. CASE Engine \/ Reset
  BY <1>2, EngineTypes
<1> QED BY <1>1, <1>2 DEF Next

(***************************************************************************)
(* The system.                                                             *)
(***************************************************************************)
LEMMA SystemKept ==
  ASSUME DbInv, System
  PROVE  SystemInv'
<1>t. alive \subseteq Tasks /\ acct \in Seq(Procs) /\ Len(acct) \in Nat /\ SystemInv
  BY Types, LenProperties DEF DbInv, SystemTypes
<1>i. /\ \A t, u \in alive : SamePid(t, u) => t = u
      /\ \A t \in alive : ~ t.isproc => Process(t) \in alive /\ ~ Ended(Process(t))
      /\ \A i, j \in 1 .. Len(acct) : acct[i] = acct[j] => i = j
  BY <1>t DEF SystemInv
<1> SUFFICES /\ \A t, u \in alive' : SamePid(t, u) => t = u
             /\ \A t \in alive' : ~ t.isproc => Process(t) \in alive' /\ ~ Ended(Process(t))'
             /\ \A i, j \in 1 .. Len(acct') : acct'[i] = acct'[j] => i = j
  BY DEF SystemInv, SamePid, Process
<1>1. ASSUME NEW p \in Pids, StartProcess(p)
      PROVE  /\ \A t, u \in alive' : SamePid(t, u) => t = u
             /\ \A t \in alive' : ~ t.isproc => Process(t) \in alive' /\ ~ Ended(Process(t))'
             /\ acct' = acct
  <2>1. PICK n : n = [pid |-> p, gen |-> last[p] + 1, isproc |-> TRUE]
    OBVIOUS
  <2>2. n.pid = p /\ n.isproc
    BY <2>1
  <2>3. alive' = alive \cup {n} /\ acct' = acct /\ \A t \in alive : t.pid # p
    BY <1>1, <2>1 DEF StartProcess, Starts
  <2>4. \A t : Ended(t)' <=> Ended(t)
    BY <2>3 DEF Ended
  <2>5. \A t, u \in alive' : SamePid(t, u) => t = u
    BY <2>2, <2>3, <1>i DEF SamePid
  <2>6. \A t \in alive' : ~ t.isproc => Process(t) \in alive' /\ ~ Ended(Process(t))'
    BY <2>2, <2>3, <2>4, <1>i
  <2> QED BY <2>3, <2>5, <2>6
<1>2. ASSUME NEW t \in Tasks, StartThread(t)
      PROVE  /\ \A v, u \in alive' : SamePid(v, u) => v = u
             /\ \A v \in alive' : ~ v.isproc => Process(v) \in alive' /\ ~ Ended(Process(v))'
             /\ acct' = acct
  <2>1. PICK n : n = Thread(t)
    OBVIOUS
  <2>2. /\ t \in alive /\ t.isproc /\ ~ Ended(t) /\ n \notin alive
        /\ alive' = alive \cup {n} /\ acct' = acct
    BY <1>2, <2>1, TaskIs DEF StartThread, Starts
  <2>3. n \in Tasks /\ n.pid = t.pid /\ ~ n.isproc /\ Process(n) = t
    BY <2>1, <2>2, TaskIs, ProcessIs
  <2>4. \A v : Ended(v)' <=> Ended(v)
    BY <2>2 DEF Ended
  <2>5. ASSUME NEW u \in alive, SamePid(u, n) PROVE FALSE
    <3>1. u \in Tasks /\ ~ u.isproc /\ u.pid = t.pid
      BY <1>t, <2>3, <2>5 DEF SamePid
    <3>2. Process(u) \in alive /\ Process(u).pid = t.pid /\ Process(u).isproc /\ Thread(Process(u)) = u
      BY <1>i, <3>1, ProcessIs
    <3>3. Process(u) = t
      BY <1>i, <2>2, <3>2 DEF SamePid
    <3> QED BY <2>1, <2>2, <3>2, <3>3
  <2>6. \A v, u \in alive' : SamePid(v, u) => v = u
    BY <2>2, <2>5, <1>i DEF SamePid
  <2>7. \A v \in alive' : ~ v.isproc => Process(v) \in alive' /\ ~ Ended(Process(v))'
    BY <2>2, <2>3, <2>4, <1>i
  <2> QED BY <2>2, <2>6, <2>7
<1>3. ASSUME NEW t \in Tasks, EndThread(t)
      PROVE  /\ \A v, u \in alive' : SamePid(v, u) => v = u
             /\ \A v \in alive' : ~ v.isproc => Process(v) \in alive' /\ ~ Ended(Process(v))'
             /\ acct' = acct
  <2>1. ~ t.isproc /\ alive' = alive \ {t} /\ acct' = acct
    BY <1>3 DEF EndThread
  <2>2. \A v : Ended(v)' <=> Ended(v)
    BY <2>1 DEF Ended
  <2>3. \A v \in alive : Process(v).isproc
    BY <1>t, ProcessIs
  <2> QED BY <2>1, <2>2, <2>3, <1>i
<1>4. ASSUME NEW t \in Tasks, Consume(t) \/ Deliver
      PROVE  alive' = alive /\ acct' = acct
  BY <1>4 DEF Consume, Deliver
<1>5. ASSUME NEW t \in Tasks, EndProcess(t)
      PROVE  /\ \A v, u \in alive' : SamePid(v, u) => v = u
             /\ \A v \in alive' : ~ v.isproc => Process(v) \in alive' /\ ~ Ended(Process(v))'
             /\ \A i, j \in 1 .. Len(acct') : acct'[i] = acct'[j] => i = j
  <2>1. /\ t \in alive /\ t \in Procs /\ ~ Ended(t) /\ acct' = Append(acct, t)
        /\ alive' = alive \ {Thread(t)}
    BY <1>5 DEF EndProcess
  <2>2. /\ Len(acct') = Len(acct) + 1 /\ acct'[Len(acct) + 1] = t
        /\ \A i \in 1 .. Len(acct) : acct'[i] = acct[i]
    BY <1>t, <2>1, AppendProperties
  <2>3. \A i \in 1 .. Len(acct) : acct[i] # t
    BY <2>1 DEF Ended
  <2>4. \A i, j \in 1 .. Len(acct') : acct'[i] = acct'[j] => i = j
    BY <1>t, <1>i, <2>2, <2>3
  <2>5. \A v : Ended(v)' => Ended(v) \/ v = t
    BY <1>t, <2>2 DEF Ended
  <2>6. ASSUME NEW v \in alive', ~ v.isproc
        PROVE  Process(v) \in alive' /\ ~ Ended(Process(v))'
    <3>1. v \in alive /\ v \in Tasks /\ v # Thread(t)
      BY <2>1, <2>6, <1>t
    <3>2. Process(v) \in alive /\ ~ Ended(Process(v)) /\ Process(v).isproc /\ Thread(Process(v)) = v
      BY <1>i, <2>6, <3>1, ProcessIs
    <3>3. Process(v) # t /\ Process(v) # Thread(t)
      BY <3>1, <3>2, TaskIs
    <3> QED BY <2>1, <2>5, <3>2, <3>3
  <2>7. \A v, u \in alive' : SamePid(v, u) => v = u
    BY <2>1, <1>i
  <2> QED BY <2>4, <2>6, <2>7
<1>6. ASSUME NEW t \in Tasks, Reap(t)
      PROVE  /\ \A v, u \in alive' : SamePid(v, u) => v = u
             /\ \A v \in alive' : ~ v.isproc => Process(v) \in alive' /\ ~ Ended(Process(v))'
             /\ acct' = acct
  <2>1. Ended(t) /\ alive' = alive \ {t} /\ acct' = acct
    BY <1>6 DEF Reap
  <2>2. \A v : Ended(v)' <=> Ended(v)
    BY <2>1 DEF Ended
  <2>3. \A v \in alive' : ~ v.isproc => Process(v) # t
    BY <1>i, <2>1
  <2> QED BY <2>1, <2>2, <2>3, <1>i
<1>7. alive' = alive /\ acct' = acct
      => /\ \A t \in alive' : ~ t.isproc => Process(t) \in alive' /\ ~ Ended(Process(t))'
         /\ \A t, u \in alive' : SamePid(t, u) => t = u
         /\ \A i, j \in 1 .. Len(acct') : acct'[i] = acct'[j] => i = j
  <2> SUFFICES ASSUME alive' = alive /\ acct' = acct
               PROVE  \A t \in alive' : ~ t.isproc => Process(t) \in alive' /\ ~ Ended(Process(t))'
    BY <1>i
  <2>1. \A v : Ended(v)' <=> Ended(v)
    BY DEF Ended
  <2> QED BY <2>1, <1>i
<1>8. CASE \E p \in Pids : StartProcess(p)
  BY <1>8, <1>1, <1>i
<1>9. CASE \E t \in Tasks : StartThread(t) \/ EndThread(t) \/ Consume(t) \/ EndProcess(t) \/ Reap(t)
  <2> PICK t \in Tasks : StartThread(t) \/ EndThread(t) \/ Consume(t) \/ EndProcess(t) \/ Reap(t)
    BY <1>9
  <2>1. CASE StartThread(t)
    BY <2>1, <1>2, <1>i
  <2>2. CASE EndThread(t)
    BY <2>2, <1>3, <1>i
  <2>3. CASE Consume(t)
    BY <2>3, <1>4, <1>7
  <2>4. CASE EndProcess(t)
    BY <2>4, <1>5
  <2>5. CASE Reap(t)
    BY <2>5, <1>6, <1>i
  <2> QED BY <2>1, <2>2, <2>3, <2>4, <2>5
<1>10. CASE Deliver
  BY <1>10, <1>7 DEF Deliver
<1> QED BY <1>8, <1>9, <1>10 DEF System

\* What a task has used only grows, and what the engine has is not changed by the system.
LEMMA UsedGrows ==
  ASSUME SystemTypes, System
  PROVE  /\ \A t \in Tasks : used[t] \in Nat /\ used'[t] \in Nat /\ used[t] <= used'[t]
         /\ pc' = pc /\ pc \in {"wait", "acct"} /\ UNCHANGED <<sample, db, devs>>
         /\ \A i \in 1 .. Len(acct) : acct'[i] = acct[i]
<1>t. used \in [Tasks -> 0 .. MaxUse] /\ MaxUse \in Nat /\ acct \in Seq(Procs) /\ Len(acct) \in Nat
  BY TaskDbAssumption, LenProperties DEF SystemTypes
<1>2. pc' = pc /\ pc \in {"wait", "acct"} /\ UNCHANGED <<sample, db, devs>>
  BY DEF System
<1>3. \A t \in Tasks : used[t] \in Nat /\ used'[t] \in Nat /\ used[t] <= used'[t]
  <2>1. ASSUME NEW t \in Tasks, Consume(t)
        PROVE  \A u \in Tasks : used[u] \in Nat /\ used'[u] \in Nat /\ used[u] <= used'[u]
    BY <1>t, <2>1 DEF Consume
  <2>2. used' = used \/ \E t \in Tasks : Consume(t)
    BY Zenon DEF System, StartProcess, StartThread, EndThread, EndProcess, Reap, Deliver
  <2>3. CASE used' = used
    BY <2>3, <1>t
  <2> QED BY <2>1, <2>2, <2>3
<1>4. \A i \in 1 .. Len(acct) : acct'[i] = acct[i]
  <2>1. acct' = acct \/ \E t \in Procs : acct' = Append(acct, t)
    BY Zenon DEF System, StartProcess, StartThread, EndThread, EndProcess, Reap, Deliver, Consume
  <2> QED BY <1>t, <2>1, AppendProperties
<1> QED BY <1>2, <1>3, <1>4

(***************************************************************************)
(* The entries and the residue list after a step.                          *)
(***************************************************************************)
\* The entries are those from before without one of them, in the same order.
LEMMA DeletesIs ==
  ASSUME DbInv, NEW t \in Tasks, NEW d \in 1 .. Len(chain), Deletes(d, t)
  PROVE  /\ Len(chain') = Len(chain) - 1 /\ Len(chain) \in Nat
         /\ \A k \in 1 .. Len(chain') : \E m \in 1 .. Len(chain) :
              m # d /\ chain'[k] = chain[m] /\ m = IF k < d THEN k ELSE k + 1
         /\ \A u : InDb(u)' <=> InDb(u) /\ u # chain[d].task
<1>t. chain \in Seq(Entries) /\ Len(chain) \in Nat /\ ChainInv
  BY Types, LenProperties DEF DbInv, DbTypes
<1>1. \A i, j \in 1 .. Len(chain) : chain[i].task = chain[j].task => i = j
  BY <1>t DEF ChainInv
<1>2. /\ Len(chain') = Len(chain) - 1
      /\ \A k \in 1 .. Len(chain) - 1 : chain'[k] = IF k < d THEN chain[k] ELSE chain[k + 1]
  BY DEF Deletes, Without
<1>3. \A k \in 1 .. Len(chain') : \E m \in 1 .. Len(chain) :
        m # d /\ chain'[k] = chain[m] /\ m = IF k < d THEN k ELSE k + 1
  BY <1>t, <1>2
<1>4. \A m \in 1 .. Len(chain) : m # d => \E k \in 1 .. Len(chain') : chain'[k] = chain[m]
  <2> SUFFICES ASSUME NEW m \in 1 .. Len(chain), m # d
               PROVE  \E k \in 1 .. Len(chain') : chain'[k] = chain[m]
    OBVIOUS
  <2>1. CASE m < d
    BY <2>1, <1>t, <1>2
  <2>2. CASE m > d
    <3>1. m - 1 \in 1 .. Len(chain) - 1 /\ ~ (m - 1 < d) /\ (m - 1) + 1 = m
      BY <2>2, <1>t
    <3> QED BY <3>1, <1>2
  <2> QED BY <2>1, <2>2
<1>5. ASSUME NEW u
      PROVE  InDb(u)' <=> InDb(u) /\ u # chain[d].task
  <2>1. ASSUME InDb(u)' PROVE InDb(u) /\ u # chain[d].task
    <3>1. PICK k \in 1 .. Len(chain') : chain'[k].task = u
      BY <2>1 DEF InDb
    <3>2. PICK m \in 1 .. Len(chain) : m # d /\ chain[m].task = u
      BY <3>1, <1>3
    <3> QED BY <3>2, <1>1 DEF InDb
  <2>2. ASSUME InDb(u), u # chain[d].task PROVE InDb(u)'
    <3>1. PICK m \in 1 .. Len(chain) : chain[m].task = u
      BY <2>2 DEF InDb
    <3>2. PICK k \in 1 .. Len(chain') : chain'[k] = chain[m]
      BY <3>1, <2>2, <1>4
    <3> QED BY <3>1, <3>2 DEF InDb
  <2> QED BY <2>1, <2>2
<1> QED BY <1>t, <1>2, <1>3, <1>5

\* The first entry of an id that has a second one is in the residue list no more, or never was.
LEMMA DeletesNew ==
  ASSUME DbInv, NEW t \in Tasks, NEW d \in 1 .. Len(chain), Deletes(d, t), InDb(t)
  PROVE  /\ chain[d].task \in Tasks /\ InDb(chain[d].task) /\ SamePid(chain[d].task, t)
         /\ chain[d].task # t => chain[d].task \in overlap
<1>t. chain \in Seq(Entries) /\ Len(chain) \in Nat /\ ChainInv
  BY Types, LenProperties DEF DbInv, DbTypes
<1>1. /\ SamePid(chain[d].task, t)
      /\ \A k \in 1 .. d - 1 : ~ SamePid(chain[k].task, t)
  BY DEF Deletes
<1>2. PICK i \in 1 .. Len(chain) : chain[i].task = t
  BY DEF InDb
<1>3. d <= i
  <2>1. SamePid(chain[i].task, t)
    BY <1>2 DEF SamePid
  <2> QED BY <1>1, <1>t, <2>1
<1>4. chain[d].task # t => chain[d].task \in overlap
  <2>1. chain[d].task # t => d < i
    BY <1>t, <1>2, <1>3
  <2> QED BY <1>t, <1>1, <1>2, <2>1 DEF ChainInv
<1> QED BY <1>t, <1>1, <1>4, EntryIs DEF InDb

InList(s, u) == \E k \in 1 .. Len(s) : s[k] = u

\* A residue list without one task.
LEMMA UnlinkedIs ==
  ASSUME NEW s \in Seq(Tasks), NEW r, NEW t, Unlinked(s, r, t),
         \A k, l \in 1 .. Len(s) : s[k] = s[l] => k = l
  PROVE  /\ \A k, l \in 1 .. Len(r) : r[k] = r[l] => k = l
         /\ \A u : InList(r, u) <=> InList(s, u) /\ u # t
<1>t. Len(s) \in Nat
  BY LenProperties
<1>1. CASE r = s /\ \A k \in 1 .. Len(s) : s[k] # t
  BY <1>1 DEF InList
<1>2. CASE \E i \in 1 .. Len(s) : s[i] = t /\ Without(s, r, i)
  <2>1. PICK i \in 1 .. Len(s) : s[i] = t /\ Without(s, r, i)
    BY <1>2
  <2>2. /\ Len(r) = Len(s) - 1
        /\ \A k \in 1 .. Len(s) - 1 : r[k] = IF k < i THEN s[k] ELSE s[k + 1]
    BY <2>1 DEF Without
  <2>3. \A k \in 1 .. Len(r) : \E m \in 1 .. Len(s) :
          m # i /\ r[k] = s[m] /\ m = IF k < i THEN k ELSE k + 1
    BY <1>t, <2>2
  <2>4. \A m \in 1 .. Len(s) : m # i => \E k \in 1 .. Len(r) : r[k] = s[m]
    <3> SUFFICES ASSUME NEW m \in 1 .. Len(s), m # i
                 PROVE  \E k \in 1 .. Len(r) : r[k] = s[m]
      OBVIOUS
    <3>1. CASE m < i
      BY <3>1, <1>t, <2>2
    <3>2. CASE m > i
      <4>1. m - 1 \in 1 .. Len(s) - 1 /\ ~ (m - 1 < i) /\ (m - 1) + 1 = m
        BY <3>2, <1>t
      <4> QED BY <4>1, <2>2
    <3> QED BY <3>1, <3>2
  <2>5. ASSUME NEW k \in 1 .. Len(r), NEW l \in 1 .. Len(r), r[k] = r[l]
        PROVE  k = l
    <3>1. PICK m \in 1 .. Len(s) : r[k] = s[m] /\ m = IF k < i THEN k ELSE k + 1
      BY <2>3
    <3>2. PICK n \in 1 .. Len(s) : r[l] = s[n] /\ n = IF l < i THEN l ELSE l + 1
      BY <2>3
    <3>3. m = n
      BY <2>5, <3>1, <3>2
    <3>4. k \in Int /\ l \in Int /\ i \in Int
      BY <1>t, <2>2
    <3> QED BY <3>1, <3>2, <3>3, <3>4
  <2>6. ASSUME NEW u PROVE InList(r, u) <=> InList(s, u) /\ u # t
    <3>1. ASSUME InList(r, u) PROVE InList(s, u) /\ u # t
      <4>1. PICK k \in 1 .. Len(r) : r[k] = u
        BY <3>1 DEF InList
      <4>2. PICK m \in 1 .. Len(s) : m # i /\ s[m] = u
        BY <4>1, <2>3
      <4> QED BY <4>2, <2>1 DEF InList
    <3>2. ASSUME InList(s, u), u # t PROVE InList(r, u)
      <4>1. PICK m \in 1 .. Len(s) : s[m] = u
        BY <3>2 DEF InList
      <4>2. PICK k \in 1 .. Len(r) : r[k] = s[m]
        BY <4>1, <3>2, <2>1, <2>4
      <4> QED BY <4>1, <4>2 DEF InList
    <3> QED BY <3>1, <3>2
  <2> QED BY <2>5, <2>6
<1> QED BY <1>1, <1>2 DEF Unlinked

\* The residue list without one task.
LEMMA UnlinksIs ==
  ASSUME residue \in Seq(Tasks), NEW t, Unlinks(t),
         \A k, l \in 1 .. Len(residue) : residue[k] = residue[l] => k = l
  PROVE  /\ \A k, l \in 1 .. Len(residue') : residue'[k] = residue'[l] => k = l
         /\ \A u : InResidue(u)' <=> InResidue(u) /\ u # t
<1>1. /\ \A k, l \in 1 .. Len(residue') : residue'[k] = residue'[l] => k = l
      /\ \A u : InList(residue', u) <=> InList(residue, u) /\ u # t
  BY UnlinkedIs DEF Unlinks
<1> QED BY <1>1 DEF InList, InResidue

\* The residue list without the task that was found and the one whose entry was deleted.
LEMMA UnlinksBothIs ==
  ASSUME residue \in Seq(Tasks), NEW t, NEW v, UnlinksBoth(t, v),
         \A k, l \in 1 .. Len(residue) : residue[k] = residue[l] => k = l
  PROVE  /\ \A k, l \in 1 .. Len(residue') : residue'[k] = residue'[l] => k = l
         /\ \A u : InResidue(u)' <=> InResidue(u) /\ u # t /\ u # v
<1>1. PICK r \in Seq(Tasks) : Unlinked(residue, r, t) /\ Unlinked(r, residue', v)
  BY DEF UnlinksBoth
<1>2. /\ \A k, l \in 1 .. Len(r) : r[k] = r[l] => k = l
      /\ \A u : InList(r, u) <=> InList(residue, u) /\ u # t
  BY <1>1, UnlinkedIs
<1>3. /\ \A k, l \in 1 .. Len(residue') : residue'[k] = residue'[l] => k = l
      /\ \A u : InList(residue', u) <=> InList(r, u) /\ u # v
  BY <1>1, <1>2, UnlinkedIs
<1> QED BY <1>2, <1>3 DEF InList, InResidue

\* The database after the comparison of a task that is present.
LEMMA KnownIs ==
  ASSUME DbInv, NEW t \in Tasks, NEW i \in 1 .. Len(chain), Known(t, i)
  PROVE  /\ Len(chain') = Len(chain) /\ chain'[i].task = t /\ chain'[i].cnt = cnt[t] /\ InDb(t)
         /\ \A k \in 1 .. Len(chain) : k # i => chain'[k] = chain[k]
         /\ \A k \in 1 .. Len(chain) : chain'[k].task = chain[k].task
         /\ \A u : InDb(u)' <=> InDb(u)
<1>t. cnt[t] \in 0 .. MaxUse
  BY Types DEF DbInv, SampleTypes
<1>1. /\ chain[i].task = t /\ Len(chain') = Len(chain) /\ chain'[i] = [task |-> t, cnt |-> cnt[t]]
      /\ \A k \in 1 .. Len(chain) : k # i => chain'[k] = chain[k]
  BY DEF Known, Updates
<1>2. chain'[i].task = t /\ chain'[i].cnt = cnt[t]
  BY <1>1, <1>t, EntryIs
<1>3. \A k \in 1 .. Len(chain) : chain'[k].task = chain[k].task
  BY <1>1, <1>2
<1> QED BY <1>1, <1>2, <1>3 DEF InDb

\* The database with a new entry.
LEMMA NewIs ==
  ASSUME DbInv, NEW t \in Tasks, New(t)
  PROVE  /\ Len(chain') = Len(chain) + 1 /\ Len(chain) \in Nat
         /\ chain'[1].task = t /\ chain'[1].cnt = cnt[t]
         /\ \A k \in 2 .. Len(chain) + 1 : k - 1 \in 1 .. Len(chain) /\ chain'[k] = chain[k - 1]
         /\ \A u : InDb(u)' <=> InDb(u) \/ u = t
         /\ \A u \in Tasks : InDb(u) /\ SamePid(u, t) => t \in overlap'
<1>t. cnt[t] \in 0 .. MaxUse /\ chain \in Seq(Entries) /\ Len(chain) \in Nat
  BY Types, LenProperties DEF DbInv, SampleTypes, DbTypes
<1>1. /\ Len(chain') = Len(chain) + 1 /\ chain'[1] = [task |-> t, cnt |-> cnt[t]]
      /\ \A k \in 2 .. Len(chain) + 1 : chain'[k] = chain[k - 1]
  BY DEF New, Prepends
<1>2. chain'[1].task = t /\ chain'[1].cnt = cnt[t]
  BY <1>1, <1>t, EntryIs
<1>3. \A k \in 2 .. Len(chain) + 1 : k - 1 \in 1 .. Len(chain) /\ chain'[k] = chain[k - 1]
  BY <1>1, <1>t
<1>4. ASSUME NEW u PROVE InDb(u)' <=> InDb(u) \/ u = t
  <2>1. ASSUME InDb(u)' PROVE InDb(u) \/ u = t
    <3>1. PICK k \in 1 .. Len(chain) + 1 : chain'[k].task = u
      BY <2>1, <1>1 DEF InDb
    <3>2. k = 1 \/ k \in 2 .. Len(chain) + 1
      BY <1>t
    <3> QED BY <3>1, <3>2, <1>2, <1>3 DEF InDb
  <2>2. ASSUME InDb(u) PROVE InDb(u)'
    <3>1. PICK m \in 1 .. Len(chain) : chain[m].task = u
      BY <2>2 DEF InDb
    <3>2. m + 1 \in 2 .. Len(chain) + 1 /\ m + 1 \in 1 .. Len(chain) + 1 /\ (m + 1) - 1 = m
      BY <1>t
    <3>3. chain'[m + 1].task = u
      BY <3>1, <3>2, <1>3
    <3> QED BY <3>2, <3>3, <1>1 DEF InDb
  <2>3. InDb(t)'
    <3>1. 1 \in 1 .. Len(chain')
      BY <1>t, <1>1
    <3> QED BY <3>1, <1>2 DEF InDb
  <2> QED BY <2>1, <2>2, <2>3
<1>5. \A u \in Tasks : InDb(u) /\ SamePid(u, t) => t \in overlap'
  <2> SUFFICES ASSUME NEW u \in Tasks, InDb(u), SamePid(u, t) PROVE t \in overlap'
    OBVIOUS
  <2>1. \E j \in 1 .. Len(chain) : SameId(chain[j], t)
    BY DEF InDb, SamePid, SameId
  <2> QED BY <2>1 DEF New
<1> QED BY <1>t, <1>1, <1>2, <1>3, <1>4, <1>5

(***************************************************************************)
(* The loop over the tasks present.                                        *)
(***************************************************************************)
\* What a task was reported to have used is what was reported and what is added, up to the bound.
LEMMA AddsIs ==
  ASSUME DevTypes, NEW t \in Tasks, NEW n \in Nat, Adds(t, n)
  PROVE  /\ reported[t] \in Nat /\ reported'[t] \in Nat
         /\ reported[t] <= MaxUse + 1 /\ MaxUse \in Nat
         /\ reported'[t] <= reported[t] + n
         /\ \A c \in 0 .. MaxUse : c <= reported[t] + n => c <= reported'[t]
         /\ \A u \in Tasks : u # t => reported'[u] = reported[u]
<1>1. reported \in [Tasks -> 0 .. MaxUse + 1] /\ MaxUse \in Nat
  BY TaskDbAssumption DEF DevTypes
<1>2. /\ reported' \in [Tasks -> 0 .. MaxUse + 1]
      /\ \A u \in Tasks : u # t => reported'[u] = reported[u]
      /\ reported'[t] = IF reported[t] + n > MaxUse THEN MaxUse + 1 ELSE reported[t] + n
  BY DEF Adds
<1> QED BY <1>1, <1>2

\* The facts of the invariant that the comparison of one task needs.
LEMMA PresentFacts ==
  ASSUME DbInv, NEW t \in Tasks, Present(t)
  PROVE  /\ pc = "present" /\ pc' = "present" /\ t \in todo /\ todo' = todo \ {t}
         /\ t.isproc \/ Process(t) \notin todo
         /\ UNCHANGED <<cnt, used, rd, acct, pr, wiping>> /\ wiping = FALSE
         /\ chain \in Seq(Entries) /\ Len(chain) \in Nat /\ residue \in Seq(Tasks) /\ todo \subseteq Tasks
         /\ \A u \in Tasks : cnt[u] \in Nat /\ used[u] \in Nat /\ cnt[u] <= used[u]
         /\ cnt[t] \in 0 .. MaxUse
         /\ \A k \in 1 .. Len(chain) : chain[k].task \in Tasks /\ chain[k].cnt \in Nat
         /\ \A u \in todo : SamePid(t, u) => u = t
<1>1. /\ pc = "present" /\ pc' = "present" /\ t \in todo /\ todo' = todo \ {t}
      /\ t.isproc \/ Process(t) \notin todo
      /\ UNCHANGED <<cnt, used, rd, acct, pr, wiping>>
  BY DEF Present, system
<1>2. /\ chain \in Seq(Entries) /\ Len(chain) \in Nat /\ residue \in Seq(Tasks) /\ todo \subseteq Tasks
      /\ wiping \in BOOLEAN
  BY Types, LenProperties DEF DbInv, DbTypes, SampleTypes
<1>3. wiping = FALSE
  BY <1>1, <1>2 DEF DbInv, ResidueInv
<1>4. \A u \in Tasks : cnt[u] \in 0 .. MaxUse /\ used[u] \in Nat
  BY Types, TaskDbAssumption DEF DbInv, SampleTypes, SystemTypes
<1>5. \A u \in Tasks : cnt[u] <= used[u]
  BY DEF DbInv, SampleInv
<1>6. \A k \in 1 .. Len(chain) : chain[k].task \in Tasks /\ chain[k].cnt \in Nat
  BY <1>2, EntryIs
<1>7. \A u \in todo : SamePid(t, u) => u = t
  BY <1>1 DEF DbInv, SampleInv
<1> QED BY <1>1, <1>2, <1>3, <1>4, <1>5, <1>6, <1>7

\* The sample is still not older than the entries when a task has been compared.
LEMMA PresentSample ==
  ASSUME DbInv, NEW t \in Tasks, Present(t)
  PROVE  SampleInv'
<1>f. /\ pc = "present" /\ pc' = "present" /\ t \in todo /\ todo' = todo \ {t}
      /\ cnt' = cnt /\ used' = used /\ Len(chain) \in Nat /\ todo \subseteq Tasks
      /\ \A u \in Tasks : cnt[u] \in Nat /\ used[u] \in Nat /\ cnt[u] <= used[u]
  BY PresentFacts
<1>i. /\ \A v, u \in todo : SamePid(v, u) => v = u
      /\ \A u \in todo, k \in 1 .. Len(chain) : chain[k].task = u => chain[k].cnt <= cnt[u]
      /\ \A k \in 1 .. Len(chain) : chain[k].cnt <= used[chain[k].task]
  BY <1>f DEF DbInv, SampleInv
<1> SUFFICES /\ \A u \in todo', k \in 1 .. Len(chain') : chain'[k].task = u => chain'[k].cnt <= cnt[u]
             /\ \A k \in 1 .. Len(chain') : chain'[k].cnt <= used[chain'[k].task]
  BY <1>f, <1>i DEF SampleInv, SamePid
<1>1. \A k \in 1 .. Len(chain') :
        \/ chain'[k].task = t /\ chain'[k].cnt = cnt[t]
        \/ \E m \in 1 .. Len(chain) : chain'[k] = chain[m]
  <2>1. CASE \E i \in 1 .. Len(chain) : Known(t, i)
    BY <2>1, KnownIs
  <2>2. CASE New(t)
    <3> SUFFICES ASSUME NEW k \in 1 .. Len(chain')
                 PROVE  \/ chain'[k].task = t /\ chain'[k].cnt = cnt[t]
                        \/ \E m \in 1 .. Len(chain) : chain'[k] = chain[m]
      OBVIOUS
    <3>1. k = 1 \/ k \in 2 .. Len(chain) + 1
      BY <2>2, <1>f, NewIs
    <3> QED BY <2>2, <3>1, NewIs
  <2> QED BY <2>1, <2>2, PresentIs
<1> QED BY <1>1, <1>f, <1>i

\* The entries and the residue list keep together when a task has been compared.
LEMMA PresentChain ==
  ASSUME DbInv, NEW t \in Tasks, Present(t)
  PROVE  ChainInv' /\ ResidueInv'
<1>f. /\ pc = "present" /\ pc' = "present" /\ t \in todo /\ todo' = todo \ {t}
      /\ wiping' = FALSE /\ Len(chain) \in Nat /\ residue \in Seq(Tasks) /\ todo \subseteq Tasks
      /\ \A u \in todo : SamePid(t, u) => u = t
      /\ \A k \in 1 .. Len(chain) : chain[k].task \in Tasks
  BY PresentFacts
<1>i. /\ \A i, j \in 1 .. Len(chain) : chain[i].task = chain[j].task => i = j
      /\ \A i, j \in 1 .. Len(chain) :
           i < j /\ SamePid(chain[i].task, chain[j].task) => chain[i].task \in overlap
      /\ \A v, u \in Tasks : TwoOfId(v, u) => InResidue(v) \/ InResidue(u)
  BY <1>f DEF DbInv, ChainInv
<1>r. /\ \A k, l \in 1 .. Len(residue) : residue[k] = residue[l] => k = l
      /\ \A u \in Tasks : InResidue(u) => InDb(u)
      /\ \A v, u \in Tasks : InResidue(v) /\ InResidue(u) /\ SamePid(v, u) => v = u
      /\ \A v \in todo, u \in Tasks : InDb(u) /\ SamePid(u, v) => InResidue(u)
  BY <1>f DEF DbInv, ResidueInv
<1> SUFFICES /\ \A i, j \in 1 .. Len(chain') : chain'[i].task = chain'[j].task => i = j
             /\ \A i, j \in 1 .. Len(chain') :
                  i < j /\ SamePid(chain'[i].task, chain'[j].task) => chain'[i].task \in overlap'
             /\ \A v, u \in Tasks : TwoOfId(v, u)' => InResidue(v)' \/ InResidue(u)'
             /\ \A k, l \in 1 .. Len(residue') : residue'[k] = residue'[l] => k = l
             /\ \A u \in Tasks : InResidue(u)' => InDb(u)'
             /\ \A v, u \in Tasks : InResidue(v)' /\ InResidue(u)' /\ SamePid(v, u) => v = u
             /\ \A v \in todo', u \in Tasks : InDb(u)' /\ SamePid(u, v) => InResidue(u)'
  BY <1>f DEF ChainInv, ResidueInv, SamePid
<1>1. ASSUME NEW i \in 1 .. Len(chain), Known(t, i)
      PROVE  /\ \A j, k \in 1 .. Len(chain') : chain'[j].task = chain'[k].task => j = k
             /\ \A j, k \in 1 .. Len(chain') :
                  j < k /\ SamePid(chain'[j].task, chain'[k].task) => chain'[j].task \in overlap'
             /\ \A k, l \in 1 .. Len(residue') : residue'[k] = residue'[l] => k = l
             /\ \A u : InDb(u)' <=> InDb(u)
             /\ InDb(t)
             /\ \A u : InResidue(u)' <=> InResidue(u) /\ u # t
  <2>1. /\ Len(chain') = Len(chain) /\ \A k \in 1 .. Len(chain) : chain'[k].task = chain[k].task
        /\ \A u : InDb(u)' <=> InDb(u)
        /\ InDb(t)
    BY <1>1, KnownIs
  <2>2. Unlinks(t) /\ overlap' = overlap
    BY <1>1 DEF Known
  <2>3. /\ \A k, l \in 1 .. Len(residue') : residue'[k] = residue'[l] => k = l
        /\ \A u : InResidue(u)' <=> InResidue(u) /\ u # t
    BY <1>f, <1>r, <2>2, UnlinksIs
  <2> QED BY <2>1, <2>2, <2>3, <1>i
<1>2. ASSUME New(t)
      PROVE  /\ \A j, k \in 1 .. Len(chain') : chain'[j].task = chain'[k].task => j = k
             /\ \A j, k \in 1 .. Len(chain') :
                  j < k /\ SamePid(chain'[j].task, chain'[k].task) => chain'[j].task \in overlap'
             /\ residue' = residue
             /\ \A u : InDb(u)' <=> InDb(u) \/ u = t
  <2>1. /\ Len(chain') = Len(chain) + 1 /\ chain'[1].task = t
        /\ \A k \in 2 .. Len(chain) + 1 : k - 1 \in 1 .. Len(chain) /\ chain'[k] = chain[k - 1]
        /\ \A u : InDb(u)' <=> InDb(u) \/ u = t
        /\ \A u \in Tasks : InDb(u) /\ SamePid(u, t) => t \in overlap'
    BY <1>2, NewIs
  <2>2. ~ InDb(t) /\ overlap \subseteq overlap' /\ residue' = residue
    BY <1>2 DEF New
  <2>3. \A k \in 1 .. Len(chain') : k = 1 \/ k \in 2 .. Len(chain) + 1
    BY <1>f, <2>1
  <2>4. \A k \in 2 .. Len(chain) + 1 : InDb(chain'[k].task) /\ chain'[k].task # t /\ chain'[k].task \in Tasks
    BY <1>f, <2>1, <2>2 DEF InDb
  <2>5. ASSUME NEW j \in 1 .. Len(chain'), NEW k \in 1 .. Len(chain'), chain'[j].task = chain'[k].task
        PROVE  j = k
    <3>1. CASE j = 1
      BY <3>1, <2>1, <2>3, <2>4, <2>5
    <3>2. CASE k = 1
      BY <3>2, <2>1, <2>3, <2>4, <2>5
    <3>3. CASE j \in 2 .. Len(chain) + 1 /\ k \in 2 .. Len(chain) + 1
      <4>1. chain[j - 1].task = chain[k - 1].task /\ j - 1 \in 1 .. Len(chain) /\ k - 1 \in 1 .. Len(chain)
        BY <2>1, <2>5, <3>3
      <4>2. j - 1 = k - 1
        BY <4>1, <1>i
      <4> QED BY <4>2, <3>3
    <3> QED BY <3>1, <3>2, <3>3, <2>3
  <2>6. ASSUME NEW j \in 1 .. Len(chain'), NEW k \in 1 .. Len(chain'),
               j < k, SamePid(chain'[j].task, chain'[k].task)
        PROVE  chain'[j].task \in overlap'
    <3>1. k \in 2 .. Len(chain) + 1
      BY <1>f, <2>1, <2>6
    <3>2. CASE j = 1
      <4>1. SamePid(chain'[k].task, t)
        BY <2>1, <2>6, <3>2 DEF SamePid
      <4> QED BY <2>1, <2>4, <3>1, <3>2, <4>1
    <3>3. CASE j \in 2 .. Len(chain) + 1
      <4>1. j - 1 \in 1 .. Len(chain) /\ k - 1 \in 1 .. Len(chain) /\ j - 1 < k - 1
        BY <2>1, <2>6, <3>1, <3>3
      <4>2. chain'[j] = chain[j - 1] /\ chain'[k] = chain[k - 1]
        BY <2>1, <3>1, <3>3
      <4>3. chain[j - 1].task \in overlap
        BY <4>1, <4>2, <2>6, <1>i
      <4> QED BY <4>2, <4>3, <2>2
    <3> QED BY <3>2, <3>3, <2>3
  <2> QED BY <2>1, <2>2, <2>5, <2>6
<1>3. CASE \E i \in 1 .. Len(chain) : Known(t, i)
  <2>1. /\ \A u : InDb(u)' <=> InDb(u)
        /\ InDb(t)
        /\ \A u : InResidue(u)' <=> InResidue(u) /\ u # t
        /\ \A k, l \in 1 .. Len(residue') : residue'[k] = residue'[l] => k = l
    BY <1>1, <1>3
  <2>2. ASSUME NEW v \in Tasks, NEW u \in Tasks, TwoOfId(v, u)'
        PROVE  InResidue(v)' \/ InResidue(u)'
    <3>1. TwoOfId(v, u) /\ InDb(v) /\ InDb(u) /\ SamePid(v, u) /\ SamePid(u, v) /\ v # u
      BY <2>1, <2>2 DEF TwoOfId, SamePid
    <3>2. InResidue(v) \/ InResidue(u)
      BY <3>1, <1>i
    <3>3. v # t /\ u # t
      <4>1. v = t => InResidue(u) /\ InResidue(v)
        BY <3>1, <1>r, <1>f, <2>1 DEF SamePid
      <4>2. u = t => InResidue(u) /\ InResidue(v)
        BY <3>1, <1>r, <1>f, <2>1 DEF SamePid
      <4> QED BY <4>1, <4>2, <3>1, <1>r
    <3> QED BY <2>1, <3>2, <3>3
  <2>3. \A v \in todo', u \in Tasks : InDb(u)' /\ SamePid(u, v) => InResidue(u)'
    <3> SUFFICES ASSUME NEW v \in todo', NEW u \in Tasks, InDb(u)', SamePid(u, v) PROVE InResidue(u)'
      OBVIOUS
    <3>1. v \in todo /\ v # t /\ InResidue(u)
      BY <1>f, <1>r, <2>1
    <3>2. u # t
      BY <1>f, <3>1 DEF SamePid
    <3> QED BY <2>1, <3>1, <3>2
  <2> QED BY <1>1, <1>3, <2>1, <2>2, <2>3, <1>r
<1>4. CASE New(t)
  <2>1. residue' = residue /\ \A u : InDb(u)' <=> InDb(u) \/ u = t
    BY <1>2, <1>4
  <2>2. \A u : InResidue(u)' <=> InResidue(u)
    BY <2>1 DEF InResidue
  <2>3. ASSUME NEW v \in Tasks, NEW u \in Tasks, TwoOfId(v, u)'
        PROVE  InResidue(v)' \/ InResidue(u)'
    <3>1. /\ InDb(v) \/ v = t
          /\ InDb(u) \/ u = t
          /\ SamePid(v, u) /\ SamePid(u, v) /\ v # u
      BY <2>1, <2>3 DEF TwoOfId, SamePid
    <3>2. CASE v # t /\ u # t
      BY <3>1, <3>2, <2>2, <1>i DEF TwoOfId
    <3>3. CASE v = t
      <4>1. InDb(u) /\ SamePid(u, t)
        BY <3>1, <3>3
      <4> QED BY <4>1, <2>2, <1>r, <1>f
    <3>4. CASE u = t
      <4>1. InDb(v) /\ SamePid(v, t)
        BY <3>1, <3>4
      <4> QED BY <4>1, <2>2, <1>r, <1>f
    <3> QED BY <3>2, <3>3, <3>4
  <2>4. \A v \in todo', u \in Tasks : InDb(u)' /\ SamePid(u, v) => InResidue(u)'
    <3> SUFFICES ASSUME NEW v \in todo', NEW u \in Tasks, InDb(u)', SamePid(u, v) PROVE InResidue(u)'
      OBVIOUS
    <3>1. v \in todo /\ v # t
      BY <1>f
    <3>2. u # t
      BY <1>f, <3>1 DEF SamePid
    <3> QED BY <2>1, <2>2, <3>1, <3>2, <1>r
  <2> QED BY <1>2, <1>4, <2>1, <2>2, <2>3, <2>4, <1>r
<1> QED BY <1>3, <1>4, PresentIs, Zenon

\* The counts of a task, as CountInv has them.
CountOf(u) ==
  /\ reported[u] <= used[u]
  /\ ~ Read(u) => \A i \in 1 .. Len(chain) : chain[i].task = u => reported[u] <= chain[i].cnt
  /\ ~ Read(u) /\ ~ InDb(u) => reported[u] = 0

\* The invariant in terms of the counts of a task.
LEMMA CountIs ==
  CountInv <=> /\ \A u \in Procs : u \notin overlap \cup unmatched => CountOf(u)
               /\ IF wiping
                  THEN \A u \in Tasks : reported[u] = 0
                  ELSE \A i \in 1 .. Len(chain) : reported[chain[i].task] >= chain[i].cnt
BY Zenon DEF CountInv, CountOf

\* The same after a step.
LEMMA CountIsNext ==
  CountInv' <=> /\ \A u \in Procs : u \notin overlap' \cup unmatched' => CountOf(u)'
                /\ IF wiping'
                   THEN \A u \in Tasks : reported'[u] = 0
                   ELSE \A i \in 1 .. Len(chain') : reported'[chain'[i].task] >= chain'[i].cnt
BY Zenon DEF CountInv, CountOf

\* What was reported is still what the entries have when a task has been compared.
LEMMA PresentCount ==
  ASSUME DbInv, NEW t \in Tasks, Present(t)
  PROVE  CountInv'
<1>f. /\ t \in todo /\ UNCHANGED <<cnt, used, rd, acct>> /\ wiping = FALSE /\ wiping' = FALSE
      /\ Len(chain) \in Nat
      /\ \A u \in Tasks : cnt[u] \in Nat /\ used[u] \in Nat /\ cnt[u] <= used[u]
      /\ cnt[t] \in 0 .. MaxUse
      /\ \A k \in 1 .. Len(chain) : chain[k].task \in Tasks /\ chain[k].cnt \in Nat
  BY PresentFacts
<1>d. DevTypes /\ Procs \subseteq Tasks
  BY Types, TaskIs DEF DbInv
<1>c. /\ \A u \in Procs : u \notin overlap \cup unmatched => CountOf(u)
      /\ \A i \in 1 .. Len(chain) : reported[chain[i].task] >= chain[i].cnt
  BY <1>f, CountIs DEF DbInv
<1>r. \A u : Read(u)' <=> Read(u)
  BY <1>f DEF Read
<1>u. /\ unmatched \subseteq unmatched' /\ overlap \subseteq overlap'
      /\ Read(t) => t \in unmatched'
  BY DEF Present
<1> SUFFICES /\ \A u \in Procs : u \notin overlap' \cup unmatched' => CountOf(u)'
             /\ \A i \in 1 .. Len(chain') : reported'[chain'[i].task] >= chain'[i].cnt
  BY <1>f, CountIsNext
<1>1. ASSUME NEW i \in 1 .. Len(chain), Known(t, i)
      PROVE  /\ \A u \in Procs : u \notin overlap' \cup unmatched' => CountOf(u)'
             /\ \A k \in 1 .. Len(chain') : reported'[chain'[k].task] >= chain'[k].cnt
  <2>1. /\ Len(chain') = Len(chain) /\ chain'[i].task = t /\ chain'[i].cnt = cnt[t]
        /\ \A k \in 1 .. Len(chain) : k # i => chain'[k] = chain[k]
        /\ \A u : InDb(u)' <=> InDb(u)
        /\ InDb(t)
    BY <1>1, KnownIs
  <2>2. chain[i].task = t /\ chain[i].cnt <= cnt[t] /\ Adds(t, cnt[t] - chain[i].cnt)
    BY <1>1 DEF Known
  <2>3. \A k \in 1 .. Len(chain) : k # i => chain[k].task # t
    BY <1>f, <2>2 DEF DbInv, ChainInv
  <2>4. PICK n : n = cnt[t] - chain[i].cnt
    OBVIOUS
  <2>5. n \in Nat /\ reported[t] >= chain[i].cnt
    BY <1>f, <1>c, <2>2, <2>4
  <2>6. /\ reported[t] \in Nat /\ reported'[t] \in Nat /\ reported'[t] <= reported[t] + n
        /\ \A c \in 0 .. MaxUse : c <= reported[t] + n => c <= reported'[t]
        /\ \A u \in Tasks : u # t => reported'[u] = reported[u]
    BY <1>d, <2>2, <2>4, <2>5, AddsIs
  <2>7. cnt[t] <= reported'[t]
    <3>1. cnt[t] <= reported[t] + n
      BY <1>f, <2>4, <2>5, <2>6
    <3> QED BY <1>f, <2>6, <3>1
  <2>8. \A k \in 1 .. Len(chain') : reported'[chain'[k].task] >= chain'[k].cnt
    <3> SUFFICES ASSUME NEW k \in 1 .. Len(chain) PROVE reported'[chain'[k].task] >= chain'[k].cnt
      BY <2>1
    <3>1. CASE k = i
      BY <3>1, <2>1, <2>6, <2>7, <1>f
    <3>2. CASE k # i
      BY <3>2, <2>1, <2>3, <2>6, <1>c, <1>f
    <3> QED BY <3>1, <3>2
  <2>9. ASSUME NEW u \in Procs, u \notin overlap' \cup unmatched' PROVE CountOf(u)'
    <3>1. u \in Tasks /\ CountOf(u)
      BY <1>c, <1>d, <1>u, <2>9
    <3>2. CASE u = t
      <4>1. ~ Read(t) /\ reported[t] <= chain[i].cnt
        BY <1>u, <2>2, <2>9, <3>1, <3>2 DEF CountOf
      <4>2. reported'[t] <= cnt[t]
        BY <1>f, <2>4, <2>6, <4>1
      <4>3. reported'[t] <= used'[t]
        BY <1>f, <2>6, <4>2
      <4>4. \A k \in 1 .. Len(chain') : chain'[k].task = t => reported'[t] <= chain'[k].cnt
        BY <2>1, <2>3, <4>2
      <4>5. InDb(t)'
        BY <2>1
      <4> QED BY <3>2, <4>3, <4>4, <4>5 DEF CountOf
    <3>3. CASE u # t
      <4>1. reported'[u] = reported[u] /\ used'[u] = used[u]
        BY <3>1, <3>3, <2>6, <1>f
      <4>2. ~ Read(u) => \A k \in 1 .. Len(chain') : chain'[k].task = u => reported'[u] <= chain'[k].cnt
        BY <2>1, <3>1, <3>3, <4>1 DEF CountOf
      <4> QED BY <1>r, <2>1, <3>1, <4>1, <4>2 DEF CountOf
    <3> QED BY <3>2, <3>3
  <2> QED BY <2>8, <2>9
<1>2. ASSUME New(t)
      PROVE  /\ \A u \in Procs : u \notin overlap' \cup unmatched' => CountOf(u)'
             /\ \A k \in 1 .. Len(chain') : reported'[chain'[k].task] >= chain'[k].cnt
  <2>1. /\ Len(chain') = Len(chain) + 1 /\ chain'[1].task = t /\ chain'[1].cnt = cnt[t]
        /\ \A k \in 2 .. Len(chain) + 1 : k - 1 \in 1 .. Len(chain) /\ chain'[k] = chain[k - 1]
        /\ \A u : InDb(u)' <=> InDb(u) \/ u = t
    BY <1>2, NewIs
  <2>2. ~ InDb(t) /\ Adds(t, cnt[t])
    BY <1>2 DEF New
  <2>3. \A k \in 1 .. Len(chain) : chain[k].task # t
    BY <2>2 DEF InDb
  <2>4. \A k \in 1 .. Len(chain') : k = 1 \/ k \in 2 .. Len(chain) + 1
    BY <1>f, <2>1
  <2>5. cnt[t] \in Nat
    BY <1>f
  <2>6. /\ reported[t] \in Nat /\ reported'[t] \in Nat /\ reported'[t] <= reported[t] + cnt[t]
        /\ \A c \in 0 .. MaxUse : c <= reported[t] + cnt[t] => c <= reported'[t]
        /\ \A u \in Tasks : u # t => reported'[u] = reported[u]
    BY <1>d, <2>2, <2>5, AddsIs
  <2>7. cnt[t] <= reported'[t]
    BY <1>f, <2>6
  <2>8. \A k \in 1 .. Len(chain') : reported'[chain'[k].task] >= chain'[k].cnt
    <3> SUFFICES ASSUME NEW k \in 1 .. Len(chain') PROVE reported'[chain'[k].task] >= chain'[k].cnt
      OBVIOUS
    <3>1. CASE k = 1
      BY <3>1, <2>1, <2>6, <2>7, <1>f
    <3>2. CASE k \in 2 .. Len(chain) + 1
      <4>1. k - 1 \in 1 .. Len(chain) /\ chain'[k] = chain[k - 1]
        BY <2>1, <3>2
      <4>2. reported[chain[k - 1].task] >= chain[k - 1].cnt /\ chain[k - 1].task # t
            /\ chain[k - 1].task \in Tasks
        BY <4>1, <1>c, <1>f, <2>3
      <4> QED BY <4>1, <4>2, <2>6
    <3> QED BY <3>1, <3>2, <2>4
  <2>9. ASSUME NEW u \in Procs, u \notin overlap' \cup unmatched' PROVE CountOf(u)'
    <3>1. u \in Tasks /\ CountOf(u)
      BY <1>c, <1>d, <1>u, <2>9
    <3>2. CASE u = t
      <4>1. ~ Read(t) /\ reported[t] = 0
        BY <1>u, <2>2, <2>9, <3>1, <3>2 DEF CountOf
      <4>2. reported'[t] <= cnt[t]
        BY <1>f, <2>6, <4>1
      <4>3. reported'[t] <= used'[t]
        BY <1>f, <2>6, <4>2
      <4>4. \A k \in 1 .. Len(chain') : chain'[k].task = t => reported'[t] <= chain'[k].cnt
        BY <2>1, <2>3, <2>4, <4>2
      <4>5. InDb(t)'
        BY <2>1
      <4> QED BY <3>2, <4>3, <4>4, <4>5 DEF CountOf
    <3>3. CASE u # t
      <4>1. reported'[u] = reported[u] /\ used'[u] = used[u]
        BY <3>1, <3>3, <2>6, <1>f
      <4>2. ~ Read(u) => \A k \in 1 .. Len(chain') : chain'[k].task = u => reported'[u] <= chain'[k].cnt
        BY <2>1, <2>4, <3>1, <3>3, <4>1 DEF CountOf
      <4> QED BY <1>r, <2>1, <3>1, <3>3, <4>1, <4>2 DEF CountOf
    <3> QED BY <3>2, <3>3
  <2> QED BY <2>8, <2>9
<1> QED BY <1>1, <1>2, PresentIs, Zenon

\* A process that becomes active is counted once.
LEMMA PresentActive ==
  ASSUME DbInv, NEW t \in Tasks, Present(t)
  PROVE  ActiveInv'
<1>f. /\ pc = "present" /\ pc' = "present" /\ t \in todo /\ todo' = todo \ {t}
      /\ t.isproc \/ Process(t) \notin todo
  BY PresentFacts
<1>i. /\ IsFiniteSet(active) /\ nprocactive = Cardinality(active \cap Procs)
      /\ active \cap Procs \cap todo = {}
  BY <1>f DEF DbInv, ActiveInv
<1>p. Process(t) \in Procs /\ (t.isproc => Process(t) = t /\ t \in Procs) /\ (~ t.isproc => t \notin Procs)
  BY TaskIs, ProcessIs
<1> SUFFICES /\ IsFiniteSet(active') /\ nprocactive' = Cardinality(active' \cap Procs)
             /\ active' \cap Procs \cap todo' = {}
  BY DEF ActiveInv
<1>1. CASE UNCHANGED <<active, nprocactive>>
  BY <1>1, <1>f, <1>i
<1>2. CASE Activate(t)
  <2>1. /\ active' = active \cup {t, Process(t)}
        /\ nprocactive' = IF t.isproc \/ Process(t) \notin active THEN nprocactive + 1 ELSE nprocactive
    BY <1>2 DEF Activate
  <2>2. IsFiniteSet(active')
    <3>1. IsFiniteSet(active \cup {t})
      BY <1>i, FS_AddElement
    <3>2. active' = (active \cup {t}) \cup {Process(t)}
      BY <2>1
    <3> QED BY <3>1, <3>2, FS_AddElement
  <2>3. active' \cap Procs = (active \cap Procs) \cup {Process(t)}
    BY <1>p, <2>1
  <2>4. IsFiniteSet(active \cap Procs)
    BY <1>i, FS_Subset
  <2>5. (t.isproc \/ Process(t) \notin active) <=> Process(t) \notin active \cap Procs
    BY <1>p, <1>i, <1>f
  <2>6. Cardinality((active \cap Procs) \cup {Process(t)})
          = IF Process(t) \in active \cap Procs THEN Cardinality(active \cap Procs)
                                                ELSE Cardinality(active \cap Procs) + 1
    BY <2>4, FS_AddElement
  <2>7. nprocactive' = Cardinality(active' \cap Procs)
    BY <1>i, <2>1, <2>3, <2>5, <2>6
  <2>8. active' \cap Procs \cap todo' = {}
    BY <1>f, <1>i, <1>p, <2>3
  <2> QED BY <2>2, <2>7, <2>8
<1> QED BY <1>1, <1>2, PresentIs DEF Known, New

(***************************************************************************)
(* The loop over the processes that exited.                                *)
(***************************************************************************)
\* The entries that are left keep their order.
LEMMA OrderKept ==
  ASSUME DbInv, NEW t \in Tasks, NEW d \in 1 .. Len(chain), Deletes(d, t), overlap' = overlap
  PROVE  /\ \A i, j \in 1 .. Len(chain') : chain'[i].task = chain'[j].task => i = j
         /\ \A i, j \in 1 .. Len(chain') :
              i < j /\ SamePid(chain'[i].task, chain'[j].task) => chain'[i].task \in overlap'
<1>1. /\ Len(chain') = Len(chain) - 1 /\ Len(chain) \in Nat
      /\ \A k \in 1 .. Len(chain') : \E m \in 1 .. Len(chain) :
           m # d /\ chain'[k] = chain[m] /\ m = IF k < d THEN k ELSE k + 1
  BY DeletesIs
<1>2. /\ \A i, j \in 1 .. Len(chain) : chain[i].task = chain[j].task => i = j
      /\ \A i, j \in 1 .. Len(chain) :
           i < j /\ SamePid(chain[i].task, chain[j].task) => chain[i].task \in overlap
  BY DEF DbInv, ChainInv
<1> SUFFICES ASSUME NEW i \in 1 .. Len(chain'), NEW j \in 1 .. Len(chain')
             PROVE  /\ chain'[i].task = chain'[j].task => i = j
                    /\ i < j /\ SamePid(chain'[i].task, chain'[j].task) => chain'[i].task \in overlap'
  OBVIOUS
<1>3. PICK m \in 1 .. Len(chain) : chain'[i] = chain[m] /\ m = IF i < d THEN i ELSE i + 1
  BY <1>1
<1>4. PICK n \in 1 .. Len(chain) : chain'[j] = chain[n] /\ n = IF j < d THEN j ELSE j + 1
  BY <1>1
<1>5. i \in Int /\ j \in Int /\ d \in Int
  BY <1>1
<1>6. (m = n => i = j) /\ (i < j => m < n)
  BY <1>3, <1>4, <1>5
<1> QED BY <1>2, <1>3, <1>4, <1>6

\* The facts of the invariant that the removal of a process needs.
LEMMA ExitedFacts ==
  ASSUME DbInv, Exited
  PROVE  /\ pc = "exited" /\ pc' = "exited" /\ rd' = rd + 1 /\ rd \in Nat
         /\ UNCHANGED <<cnt, used, acct, wiping, active, nprocactive, overlap, unmatched>>
         /\ wiping = FALSE /\ chain \in Seq(Entries) /\ Len(chain) \in Nat /\ residue \in Seq(Tasks)
         /\ \A u \in Tasks : used[u] \in 0 .. MaxUse
         /\ \A k \in 1 .. Len(chain) : chain[k].task \in Tasks /\ chain[k].cnt \in Nat
<1>1. /\ pc = "exited" /\ pc' = "exited" /\ rd' = rd + 1
      /\ UNCHANGED <<cnt, used, acct, wiping, active, nprocactive, overlap, unmatched>>
  BY DEF Exited, system
<1>2. /\ chain \in Seq(Entries) /\ Len(chain) \in Nat /\ residue \in Seq(Tasks)
      /\ wiping \in BOOLEAN /\ avail \in Nat /\ rd \in 0 .. avail
  BY Types, LenProperties DEF DbInv, DbTypes, SampleTypes, SystemTypes
<1>3. wiping = FALSE
  BY <1>1, <1>2 DEF DbInv, ResidueInv
<1>4. \A u \in Tasks : used[u] \in 0 .. MaxUse
  BY Types DEF DbInv, SystemTypes
<1>5. \A k \in 1 .. Len(chain) : chain[k].task \in Tasks /\ chain[k].cnt \in Nat
  BY <1>2, EntryIs
<1>6. rd \in Nat
  BY <1>2
<1> QED BY <1>1, <1>2, <1>3, <1>4, <1>5, <1>6

\* The entries and the residue list keep together when a process is removed.
LEMMA ExitedKept ==
  ASSUME DbInv, Exited
  PROVE  SampleInv' /\ ChainInv' /\ ResidueInv' /\ ActiveInv'
<1>f. /\ pc = "exited" /\ pc' = "exited" /\ cnt' = cnt /\ used' = used /\ wiping' = FALSE
      /\ UNCHANGED <<active, nprocactive, overlap>>
      /\ Len(chain) \in Nat /\ residue \in Seq(Tasks)
  BY ExitedFacts
<1>1. PICK t \in Procs :
        \/ \E i \in 1 .. Len(chain) : Ends(t, i)
        \/ ~ InDb(t) /\ chain' = chain /\ residue' = residue
  BY ExitedIs
<1>t. t \in Tasks
  BY TaskIs
<1>i. /\ \A i, j \in 1 .. Len(chain) : chain[i].task = chain[j].task => i = j
      /\ \A i, j \in 1 .. Len(chain) :
           i < j /\ SamePid(chain[i].task, chain[j].task) => chain[i].task \in overlap
      /\ \A v, u \in Tasks : TwoOfId(v, u) => InResidue(v) \/ InResidue(u)
  BY <1>f DEF DbInv, ChainInv
<1>r. /\ \A k, l \in 1 .. Len(residue) : residue[k] = residue[l] => k = l
      /\ \A u \in Tasks : InResidue(u) => InDb(u)
      /\ \A v, u \in Tasks : InResidue(v) /\ InResidue(u) /\ SamePid(v, u) => v = u
  BY <1>f DEF DbInv, ResidueInv
<1>s. /\ \A u \in Tasks : cnt[u] <= used[u]
      /\ \A k \in 1 .. Len(chain) : chain[k].cnt <= used[chain[k].task]
  BY DEF DbInv, SampleInv
<1>a. ActiveInv'
  BY <1>f DEF DbInv, ActiveInv
<1>2. CASE chain' = chain /\ residue' = residue
  <2>1. \A u : (InDb(u)' <=> InDb(u)) /\ (InResidue(u)' <=> InResidue(u))
    BY <1>2 DEF InDb, InResidue
  <2>2. \A v, u : TwoOfId(v, u)' <=> TwoOfId(v, u)
    BY <2>1 DEF TwoOfId, SamePid
  <2>3. SampleInv'
    BY <1>2, <1>f, <1>s DEF SampleInv
  <2>4. ChainInv'
    BY <1>2, <1>f, <1>i, <2>1, <2>2 DEF ChainInv, SamePid
  <2>5. ResidueInv'
    BY <1>2, <1>f, <1>r, <2>1 DEF ResidueInv, SamePid
  <2> QED BY <1>a, <2>3, <2>4, <2>5
<1>3. CASE \E i \in 1 .. Len(chain) : Ends(t, i)
  <2>1. PICK d \in 1 .. Len(chain) : Deletes(d, t) /\ UnlinksBoth(t, chain[d].task)
    BY <1>3 DEF Ends
  <2>0. InDb(t)
    BY <1>3 DEF Ends, InDb
  <2>2. /\ \A k \in 1 .. Len(chain') : \E m \in 1 .. Len(chain) : chain'[k] = chain[m]
        /\ \A u : InDb(u)' <=> InDb(u) /\ u # chain[d].task
    BY <1>t, <2>1, DeletesIs
  <2>3. /\ \A k, l \in 1 .. Len(residue') : residue'[k] = residue'[l] => k = l
        /\ \A u : InResidue(u)' <=> InResidue(u) /\ u # t /\ u # chain[d].task
    BY <1>f, <1>r, <2>1, UnlinksBothIs
  <2>4. SampleInv'
    BY <1>f, <1>s, <2>2 DEF SampleInv
  <2>5. ASSUME NEW v \in Tasks, NEW u \in Tasks, TwoOfId(v, u)' PROVE InResidue(v)' \/ InResidue(u)'
    <3> PICK g : g = chain[d].task
      OBVIOUS
    <3>1. g \in Tasks /\ InDb(g) /\ SamePid(g, t)
      BY <1>t, <2>0, <2>1, DeletesNew
    <3>2. TwoOfId(v, u) /\ v # g /\ u # g
      BY <2>2, <2>5 DEF TwoOfId, SamePid
    <3>3. ASSUME NEW x \in Tasks, NEW y \in Tasks, TwoOfId(x, y), x # g, y # g, InResidue(x)
          PROVE  x # t
      <4> SUFFICES ASSUME x = t PROVE FALSE
        OBVIOUS
      <4>1. TwoOfId(y, g)
        BY <3>1, <3>3 DEF TwoOfId, SamePid
      <4>2. InResidue(y) \/ InResidue(g)
        BY <1>i, <3>1, <4>1
      <4>3. SamePid(x, y) /\ SamePid(x, g) /\ x # y
        BY <3>1, <3>3 DEF TwoOfId, SamePid
      <4> QED BY <1>r, <3>1, <3>3, <4>2, <4>3
    <3>4. TwoOfId(u, v)
      BY <3>2 DEF TwoOfId, SamePid
    <3>5. InResidue(v) \/ InResidue(u)
      BY <1>i, <3>2
    <3> QED BY <2>3, <3>2, <3>3, <3>4, <3>5
  <2>6. ChainInv'
    BY <1>f, <1>t, <2>1, <2>5, OrderKept DEF ChainInv, SamePid
  <2>7. ResidueInv'
    BY <1>f, <1>r, <2>2, <2>3 DEF ResidueInv, SamePid
  <2> QED BY <1>a, <2>4, <2>6, <2>7
<1> QED BY <1>1, <1>2, <1>3

\* All that a process has used is counted when its record is read, and no more.
LEMMA ExitedCount ==
  ASSUME DbInv, Exited
  PROVE  CountInv' /\ \A t \in Procs : t = acct[rd'] => reported'[t] >= used[t]
<1>f. /\ rd' = rd + 1 /\ rd \in Nat
      /\ UNCHANGED <<cnt, used, acct, overlap, unmatched>> /\ wiping = FALSE /\ wiping' = FALSE
      /\ Len(chain) \in Nat /\ MaxUse \in Nat
      /\ \A u \in Tasks : used[u] \in 0 .. MaxUse
      /\ \A k \in 1 .. Len(chain) : chain[k].task \in Tasks /\ chain[k].cnt \in Nat
  BY ExitedFacts, TaskDbAssumption
<1>d. DevTypes /\ Procs \subseteq Tasks /\ acct \in Seq(Procs)
  BY Types, TaskIs DEF DbInv, SystemTypes
<1>c. /\ \A u \in Procs : u \notin overlap \cup unmatched => CountOf(u)
      /\ \A i \in 1 .. Len(chain) : reported[chain[i].task] >= chain[i].cnt
      /\ \A k \in 1 .. Len(chain) : chain[k].cnt <= used[chain[k].task]
      /\ \A i, j \in 1 .. Len(chain) : chain[i].task = chain[j].task => i = j
      /\ \A i, j \in 1 .. Len(acct) : acct[i] = acct[j] => i = j
  BY <1>f, CountIs DEF DbInv, SampleInv, ChainInv, SystemInv
<1>1. PICK t \in Procs :
        /\ rd + 1 \in 1 .. Len(acct) /\ t = acct[rd + 1]
        /\ \/ \E i \in 1 .. Len(chain) : Ends(t, i)
           \/ ~ InDb(t) /\ Adds(t, used[t]) /\ chain' = chain /\ residue' = residue
  BY ExitedIs
<1>t. t \in Tasks /\ used[t] \in 0 .. MaxUse
  BY <1>f, <1>d
<1>r. \A u : Read(u)' <=> Read(u) \/ u = t
  <2>1. \A k \in Nat : k \in 1 .. rd + 1 <=> k \in 1 .. rd \/ k = rd + 1
    BY <1>f
  <2> QED BY <1>f, <1>1, <2>1 DEF Read
<1>n. ~ Read(t)
  <2> SUFFICES ASSUME NEW k \in 1 .. rd, acct[k] = t PROVE FALSE
    BY DEF Read
  <2>1. k \in 1 .. Len(acct) /\ rd + 1 \in 1 .. Len(acct) /\ k # rd + 1
    BY <1>f, <1>1
  <2> QED BY <2>1, <1>1, <1>c
<1>2. CASE \E i \in 1 .. Len(chain) : Ends(t, i)
  <2>1. PICK i \in 1 .. Len(chain) : Ends(t, i)
    BY <1>2
  <2>2. PICK n : n = IF used[t] > chain[i].cnt THEN used[t] - chain[i].cnt ELSE 0
    OBVIOUS
  <2>3. chain[i].task = t /\ Adds(t, n) /\ chain[i].cnt \in Nat /\ chain[i].cnt <= used[t]
        /\ reported[t] >= chain[i].cnt
    BY <1>f, <1>c, <2>1, <2>2 DEF Ends
  <2>4. n \in Nat /\ n = used[t] - chain[i].cnt
    BY <1>t, <2>2, <2>3
  <2>5. /\ reported[t] \in Nat /\ reported'[t] \in Nat /\ reported'[t] <= reported[t] + n
        /\ \A c \in 0 .. MaxUse : c <= reported[t] + n => c <= reported'[t]
        /\ \A u \in Tasks : u # t => reported'[u] = reported[u]
    BY <1>d, <1>t, <2>3, <2>4, AddsIs
  <2>6. used[t] <= reported'[t]
    <3>1. used[t] <= reported[t] + n
      BY <1>t, <2>3, <2>4, <2>5
    <3> QED BY <1>t, <2>5, <3>1
  <2>7. PICK d \in 1 .. Len(chain) : Deletes(d, t)
    BY <2>1 DEF Ends
  <2>8. InDb(t)
    BY <2>3 DEF InDb
  <2>9. /\ \A k \in 1 .. Len(chain') : \E m \in 1 .. Len(chain) : chain'[k] = chain[m]
        /\ \A u : InDb(u)' <=> InDb(u) /\ u # chain[d].task
        /\ chain[d].task # t => chain[d].task \in overlap
    BY <1>t, <2>7, <2>8, DeletesIs, DeletesNew
  <2>10. \A k \in 1 .. Len(chain') : reported'[chain'[k].task] >= chain'[k].cnt
    <3> SUFFICES ASSUME NEW k \in 1 .. Len(chain') PROVE reported'[chain'[k].task] >= chain'[k].cnt
      OBVIOUS
    <3>1. PICK m \in 1 .. Len(chain) : chain'[k] = chain[m]
      BY <2>9
    <3>2. CASE m = i
      BY <3>1, <3>2, <2>3, <2>5, <2>6, <1>t
    <3>3. CASE m # i
      <4>1. chain[m].task # t
        BY <1>c, <2>3, <3>3
      <4> QED BY <3>1, <4>1, <1>c, <1>f, <2>5
    <3> QED BY <3>2, <3>3
  <2>11. ASSUME NEW u \in Procs, u \notin overlap' \cup unmatched' PROVE CountOf(u)'
    <3>1. u \in Tasks /\ CountOf(u) /\ u \notin overlap
      BY <1>c, <1>d, <1>f, <2>11
    <3>2. CASE u = t
      <4>1. reported[t] <= chain[i].cnt
        BY <1>n, <2>3, <3>1, <3>2 DEF CountOf
      <4>2. reported'[t] <= used'[t]
        BY <1>f, <1>t, <2>4, <2>5, <2>3, <4>1
      <4>3. Read(t)'
        BY <1>r
      <4> QED BY <3>2, <4>2, <4>3 DEF CountOf
    <3>3. CASE u # t
      <4>1. reported'[u] = reported[u] /\ used'[u] = used[u]
        BY <3>1, <3>3, <2>5, <1>f
      <4>2. InDb(u)' <=> InDb(u)
        BY <2>9, <3>1, <3>3
      <4>3. ~ Read(u) => \A k \in 1 .. Len(chain') : chain'[k].task = u => reported'[u] <= chain'[k].cnt
        BY <2>9, <3>1, <4>1 DEF CountOf
      <4>4. Read(u)' <=> Read(u)
        BY <1>r, <3>3
      <4> QED BY <3>1, <4>1, <4>2, <4>3, <4>4 DEF CountOf
    <3> QED BY <3>2, <3>3
  <2>12. CountInv'
    BY <1>f, <2>10, <2>11, CountIsNext
  <2> QED BY <1>1, <1>f, <1>t, <2>5, <2>6, <2>12
<1>3. CASE ~ InDb(t) /\ Adds(t, used[t]) /\ chain' = chain
  <2>1. used[t] \in Nat
    BY <1>t
  <2>2. /\ reported[t] \in Nat /\ reported'[t] \in Nat /\ reported'[t] <= reported[t] + used[t]
        /\ \A c \in 0 .. MaxUse : c <= reported[t] + used[t] => c <= reported'[t]
        /\ \A u \in Tasks : u # t => reported'[u] = reported[u]
    BY <1>d, <1>t, <1>3, <2>1, AddsIs
  <2>3. used[t] <= reported'[t]
    BY <1>t, <2>2
  <2>4. \A u : InDb(u)' <=> InDb(u)
    BY <1>3 DEF InDb
  <2>5. \A k \in 1 .. Len(chain) : chain[k].task # t
    BY <1>3 DEF InDb
  <2>6. \A k \in 1 .. Len(chain') : reported'[chain'[k].task] >= chain'[k].cnt
    BY <1>3, <1>c, <1>f, <2>2, <2>5
  <2>7. ASSUME NEW u \in Procs, u \notin overlap' \cup unmatched' PROVE CountOf(u)'
    <3>1. u \in Tasks /\ CountOf(u)
      BY <1>c, <1>d, <1>f, <2>7
    <3>2. CASE u = t
      <4>1. reported[t] = 0
        BY <1>n, <1>3, <3>1, <3>2 DEF CountOf
      <4>2. reported'[t] <= used'[t]
        BY <1>f, <1>t, <2>2, <4>1
      <4>3. Read(t)'
        BY <1>r
      <4> QED BY <3>2, <4>2, <4>3 DEF CountOf
    <3>3. CASE u # t
      <4>1. reported'[u] = reported[u] /\ used'[u] = used[u] /\ chain' = chain
        BY <3>1, <3>3, <2>2, <1>f, <1>3
      <4>2. Read(u)' <=> Read(u)
        BY <1>r, <3>3
      <4> QED BY <3>1, <4>1, <4>2, <2>4 DEF CountOf
    <3> QED BY <3>2, <3>3
  <2>8. CountInv'
    BY <1>f, <2>6, <2>7, CountIsNext
  <2> QED BY <1>1, <1>f, <1>t, <2>2, <2>3, <2>8
<1> QED BY <1>1, <1>2, <1>3

(***************************************************************************)
(* pdb_cleanresidue().                                                     *)
(***************************************************************************)
\* The anchor of the list is no task; what is ahead is in the list.
LEMMA NoneIs == None \notin Tasks
<1>1. None.gen = 0
  BY DEF None
<1> QED BY <1>1, TaskIs

\* What is ahead is in the residue list.
LEMMA AheadIs ==
  ASSUME residue \in Seq(Tasks)
  PROVE  \A u : Ahead(u) => InResidue(u) /\ pr # None /\ u \in Tasks
BY NoneIs DEF Ahead, InResidue

\* The facts of the invariant that a round of pdb_cleanresidue() needs.
LEMMA CleanFacts ==
  ASSUME DbInv, Clean
  PROVE  /\ pc = "clean" /\ pc' = "clean" /\ pr # None /\ pr \in Tasks
         /\ UNCHANGED <<sample, used, acct, wiping, reported, overlap>>
         /\ unmatched' = IF pr.isproc /\ ~ Read(pr) /\ ~ wiping THEN unmatched \cup {pr} ELSE unmatched
         /\ chain \in Seq(Entries) /\ Len(chain) \in Nat
         /\ residue \in Seq(Tasks) /\ Len(residue) \in Nat /\ wiping \in BOOLEAN
         /\ InResidue(pr) /\ InDb(pr)
         /\ \A k, l \in 1 .. Len(residue) : residue[k] = residue[l] => k = l
         /\ \A u \in Tasks : InResidue(u) => InDb(u)
         /\ \A v, u \in Tasks : InResidue(v) /\ InResidue(u) /\ SamePid(v, u) => v = u
         /\ \A v, u \in Tasks : TwoOfId(v, u) => Ahead(v) \/ Ahead(u)
         /\ wiping => \A u \in Tasks : InDb(u) => Ahead(u)
<1>1. /\ pc = "clean" /\ pc' = "clean" /\ pr # None
      /\ UNCHANGED <<sample, used, acct, wiping, reported, overlap>>
      /\ unmatched' = IF pr.isproc /\ ~ Read(pr) /\ ~ wiping THEN unmatched \cup {pr} ELSE unmatched
  BY DEF Clean, system
<1>2. /\ chain \in Seq(Entries) /\ Len(chain) \in Nat
      /\ residue \in Seq(Tasks) /\ Len(residue) \in Nat /\ wiping \in BOOLEAN
  BY Types, LenProperties DEF DbInv, DbTypes
<1>3. pr \in Tasks
  BY CleanIs
<1>4. /\ \A k, l \in 1 .. Len(residue) : residue[k] = residue[l] => k = l
      /\ \A u \in Tasks : InResidue(u) => InDb(u)
      /\ \A v, u \in Tasks : InResidue(v) /\ InResidue(u) /\ SamePid(v, u) => v = u
      /\ InResidue(pr)
      /\ wiping => \A u \in Tasks : InDb(u) => Ahead(u)
  BY <1>1 DEF DbInv, ResidueInv
<1>5. \A v, u \in Tasks : TwoOfId(v, u) => Ahead(v) \/ Ahead(u)
  BY <1>1 DEF DbInv, ChainInv
<1> QED BY <1>1, <1>2, <1>3, <1>4, <1>5

\* The entry that is removed, the rest of the list and the place in it.
LEMMA CleanStep ==
  ASSUME DbInv, Clean
  PROVE  \E d \in 1 .. Len(chain) :
           /\ Deletes(d, pr)
           /\ chain[d].task \in Tasks /\ InDb(chain[d].task) /\ SamePid(chain[d].task, pr)
           /\ InResidue(chain[d].task) => chain[d].task = pr
           /\ chain[d].task # pr => chain[d].task \in overlap
           /\ \A u : InDb(u)' <=> InDb(u) /\ u # chain[d].task
           /\ \A k, l \in 1 .. Len(residue') : residue'[k] = residue'[l] => k = l
           /\ \A u : InResidue(u)' <=> InResidue(u) /\ u # chain[d].task
           /\ \A u : Ahead(u) /\ u # pr => Ahead(u)'
           /\ pr' # None => InResidue(pr)'
<1>f. /\ pr \in Tasks /\ InResidue(pr) /\ InDb(pr)
      /\ residue \in Seq(Tasks) /\ Len(residue) \in Nat
      /\ \A k, l \in 1 .. Len(residue) : residue[k] = residue[l] => k = l
      /\ \A v, u \in Tasks : InResidue(v) /\ InResidue(u) /\ SamePid(v, u) => v = u
  BY CleanFacts
<1>1. PICK d \in 1 .. Len(chain) : Deletes(d, pr) /\ Unlinks(chain[d].task)
  BY CleanIs
<1>2. PICK k \in 1 .. Len(residue) :
        /\ residue[k] = pr
        /\ pr' = IF k < Len(residue) THEN residue[k + 1] ELSE None
  BY CleanIs
<1> PICK g : g = chain[d].task
  OBVIOUS
<1>3. /\ g \in Tasks /\ InDb(g) /\ SamePid(g, pr)
      /\ g # pr => g \in overlap
  BY <1>f, <1>1, DeletesNew
<1>4. InResidue(g) => g = pr
  BY <1>f, <1>3
<1>5. \A u : InDb(u)' <=> InDb(u) /\ u # g
  BY <1>f, <1>1, DeletesIs
<1>6. /\ \A i, l \in 1 .. Len(residue') : residue'[i] = residue'[l] => i = l
      /\ \A u : InResidue(u)' <=> InResidue(u) /\ u # g
  BY <1>f, <1>1, UnlinksIs
<1>7. ASSUME NEW u, Ahead(u), u # pr PROVE Ahead(u)'
  <2>1. PICK j, n \in 1 .. Len(residue) : j <= n /\ residue[j] = pr /\ residue[n] = u
    BY <1>7 DEF Ahead
  <2>2. j = k /\ n >= k + 1 /\ k + 1 \in 1 .. Len(residue) /\ k < Len(residue)
    BY <1>f, <1>2, <1>7, <2>1
  <2>3. pr' = residue[k + 1]
    BY <1>2, <2>2
  <2>4. CASE g = pr
    <3>1. PICK i \in 1 .. Len(residue) : residue[i] = pr /\ Without(residue, residue', i)
      BY <1>1, <1>2, <2>4 DEF Unlinks, Unlinked
    <3>2. i = k
      BY <1>f, <1>2, <3>1
    <3>3. /\ Len(residue') = Len(residue) - 1
          /\ \A l \in 1 .. Len(residue) - 1 : residue'[l] = IF l < k THEN residue[l] ELSE residue[l + 1]
      BY <3>1, <3>2 DEF Without
    <3>4. k \in 1 .. Len(residue') /\ n - 1 \in 1 .. Len(residue') /\ k <= n - 1 /\ (n - 1) + 1 = n
      BY <1>f, <2>1, <2>2, <3>3
    <3>5. residue'[k] = residue[k + 1] /\ residue'[n - 1] = residue[n]
      BY <1>f, <3>3, <3>4
    <3> QED BY <2>1, <2>3, <3>4, <3>5 DEF Ahead
  <2>5. CASE g # pr
    <3>1. residue' = residue
      BY <1>1, <1>4, <2>5 DEF Unlinks, Unlinked, InResidue
    <3> QED BY <2>1, <2>2, <2>3, <3>1 DEF Ahead
  <2> QED BY <2>4, <2>5
<1>8. ASSUME pr' # None PROVE InResidue(pr)'
  <2>1. k < Len(residue) /\ pr' = residue[k + 1]
    BY <1>2, <1>8
  <2>2. k + 1 \in 1 .. Len(residue) /\ k + 1 # k
    BY <1>f, <2>1
  <2>3. InResidue(pr') /\ pr' # pr
    BY <1>f, <1>2, <2>1, <2>2 DEF InResidue
  <2>4. pr' # g
    BY <1>4, <2>3
  <2> PICK q : q = pr'
    OBVIOUS
  <2>5. \E l \in 1 .. Len(residue') : residue'[l] = q
    BY <1>6, <2>3, <2>4 DEF InResidue
  <2> QED BY <2>5 DEF InResidue
<1> QED BY <1>1, <1>3, <1>4, <1>5, <1>6, <1>7, <1>8

\* A round of pdb_cleanresidue() keeps the invariant.
LEMMA CleanKept ==
  ASSUME DbInv, Clean
  PROVE  SampleInv' /\ ChainInv' /\ ResidueInv' /\ ActiveInv' /\ CountInv'
<1>f. /\ pc = "clean" /\ pc' = "clean" /\ pr \in Tasks
      /\ UNCHANGED <<cnt, todo, rd, used, acct, wiping, reported, overlap>>
      /\ unmatched' = IF pr.isproc /\ ~ Read(pr) /\ ~ wiping THEN unmatched \cup {pr} ELSE unmatched
      /\ residue \in Seq(Tasks) /\ Len(chain) \in Nat
      /\ InResidue(pr)
      /\ \A u \in Tasks : InResidue(u) => InDb(u)
      /\ \A v, u \in Tasks : InResidue(v) /\ InResidue(u) /\ SamePid(v, u) => v = u
      /\ \A v, u \in Tasks : TwoOfId(v, u) => Ahead(v) \/ Ahead(u)
      /\ wiping => \A u \in Tasks : InDb(u) => Ahead(u)
  BY CleanFacts DEF sample
<1>1. PICK d \in 1 .. Len(chain) :
        /\ Deletes(d, pr)
        /\ chain[d].task \in Tasks /\ InDb(chain[d].task) /\ SamePid(chain[d].task, pr)
        /\ InResidue(chain[d].task) => chain[d].task = pr
        /\ chain[d].task # pr => chain[d].task \in overlap
        /\ \A u : InDb(u)' <=> InDb(u) /\ u # chain[d].task
        /\ \A k, l \in 1 .. Len(residue') : residue'[k] = residue'[l] => k = l
        /\ \A u : InResidue(u)' <=> InResidue(u) /\ u # chain[d].task
        /\ \A u : Ahead(u) /\ u # pr => Ahead(u)'
        /\ pr' # None => InResidue(pr)'
  BY CleanStep
<1> PICK g : g = chain[d].task
  OBVIOUS
<1>2. \A k \in 1 .. Len(chain') : \E m \in 1 .. Len(chain) : chain'[k] = chain[m]
  BY <1>f, <1>1, DeletesIs
<1>3. SampleInv'
  <2>1. /\ \A u \in Tasks : cnt[u] <= used[u]
        /\ \A k \in 1 .. Len(chain) : chain[k].cnt <= used[chain[k].task]
    BY DEF DbInv, SampleInv
  <2> QED BY <1>f, <1>2, <2>1 DEF SampleInv
<1>4. ChainInv'
  <2>1. ASSUME NEW v \in Tasks, NEW u \in Tasks, TwoOfId(v, u)', Ahead(v)
        PROVE  Ahead(v)' \/ Ahead(u)'
    <3>1. InDb(v) /\ InDb(u) /\ v # g /\ u # g /\ SamePid(v, u) /\ v # u
      BY <1>1, <2>1 DEF TwoOfId, SamePid
    <3>2. v # pr => Ahead(v)'
      BY <1>1, <2>1
    <3>3. ASSUME v = pr PROVE FALSE
      <4>1. g # pr /\ TwoOfId(u, g)
        BY <1>1, <3>1, <3>3 DEF TwoOfId, SamePid
      <4>2. Ahead(u) \/ Ahead(g)
        BY <1>f, <1>1, <3>1, <4>1
      <4>3. InResidue(u)
        BY <1>f, <1>1, <4>1, <4>2, AheadIs
      <4> QED BY <1>f, <3>1, <3>3, <4>3
    <3> QED BY <3>2, <3>3
  <2>2. ASSUME NEW v \in Tasks, NEW u \in Tasks, TwoOfId(v, u)'
        PROVE  Ahead(v)' \/ Ahead(u)'
    <3>1. TwoOfId(v, u) /\ TwoOfId(u, v)'
      BY <1>1, <2>2 DEF TwoOfId, SamePid
    <3>2. Ahead(v) \/ Ahead(u)
      BY <1>f, <3>1
    <3> QED BY <2>1, <2>2, <3>1, <3>2
  <2> QED BY <1>f, <1>1, <2>2, OrderKept DEF ChainInv, SamePid
<1>5. ResidueInv'
  <2>1. ASSUME wiping, NEW u \in Tasks, InDb(u)' PROVE Ahead(u)'
    <3>1. Ahead(g) /\ Ahead(u) /\ u # g
      BY <1>f, <1>1, <2>1
    <3>2. g = pr
      BY <1>f, <1>1, <3>1, AheadIs
    <3> QED BY <1>1, <3>1, <3>2
  <2> QED BY <1>f, <1>1, <2>1 DEF ResidueInv, SamePid
<1>6. ActiveInv'
  BY <1>f DEF ActiveInv
<1>7. CountInv'
  <2>1. /\ \A u \in Procs : u \notin overlap \cup unmatched => CountOf(u)
        /\ IF wiping
           THEN \A u \in Tasks : reported[u] = 0
           ELSE \A i \in 1 .. Len(chain) : reported[chain[i].task] >= chain[i].cnt
    BY CountIs DEF DbInv
  <2>2. \A u : Read(u)' <=> Read(u)
    BY <1>f DEF Read
  <2>3. ASSUME NEW u \in Procs, u \notin overlap' \cup unmatched' PROVE CountOf(u)'
    <3>1. CountOf(u) /\ u \notin overlap /\ u \in Tasks
      BY <1>f, <2>1, <2>3, TaskIs
    <3>2. reported'[u] = reported[u] /\ used'[u] = used[u]
      BY <1>f
    <3>3. ~ Read(u) => \A k \in 1 .. Len(chain') : chain'[k].task = u => reported'[u] <= chain'[k].cnt
      BY <1>2, <3>1, <3>2 DEF CountOf
    <3>4. ~ Read(u) /\ ~ InDb(u)' => reported'[u] = 0
      <4>1. CASE u = g
        <5>1. u = pr /\ pr.isproc
          BY <1>1, <3>1, <4>1, TaskIs
        <5>2. Read(pr) \/ wiping
          BY <1>f, <2>3, <5>1
        <5> QED BY <2>1, <3>1, <3>2, <5>1, <5>2
      <4>2. CASE u # g
        BY <1>1, <3>1, <3>2, <4>2 DEF CountOf
      <4> QED BY <4>1, <4>2
    <3> QED BY <2>2, <3>1, <3>2, <3>3, <3>4 DEF CountOf
  <2>4. ~ wiping => \A k \in 1 .. Len(chain') : reported'[chain'[k].task] >= chain'[k].cnt
    BY <1>f, <1>2, <2>1
  <2> QED BY <1>f, <2>1, <2>3, <2>4, CountIsNext
<1> QED BY <1>3, <1>4, <1>5, <1>6, <1>7

(***************************************************************************)
(* The other steps.                                                        *)
(***************************************************************************)
\* The residue list starts with every entry.
LEMMA ResidueMade ==
  ASSUME DbInv, \A t, u \in Tasks : ~ TwoOfId(t, u), chain' = chain, residue' = MakeResidue
  PROVE  /\ \A k, l \in 1 .. Len(residue') : residue'[k] = residue'[l] => k = l
         /\ \A u : InResidue(u)' <=> InDb(u)
         /\ \A u : InDb(u)' <=> InDb(u)
         /\ \A v, u \in Tasks : InResidue(v)' /\ InResidue(u)' /\ SamePid(v, u) => v = u
<1>t. chain \in Seq(Entries) /\ Len(chain) \in Nat /\ DbTypes
  BY Types, LenProperties DEF DbInv, DbTypes
<1>1. /\ Len(residue') = Len(chain)
      /\ \A k \in 1 .. Len(chain) : residue'[k] = chain[Len(chain) - k + 1].task
  BY <1>t, MakeResidueIs
<1>2. \A i, j \in 1 .. Len(chain) : chain[i].task = chain[j].task => i = j
  BY DEF DbInv, ChainInv
<1>3. ASSUME NEW k \in 1 .. Len(residue'), NEW l \in 1 .. Len(residue'), residue'[k] = residue'[l]
      PROVE  k = l
  <2>1. Len(chain) - k + 1 \in 1 .. Len(chain) /\ Len(chain) - l + 1 \in 1 .. Len(chain)
    BY <1>t, <1>1
  <2>2. Len(chain) - k + 1 = Len(chain) - l + 1
    BY <1>1, <1>2, <1>3, <2>1
  <2> QED BY <1>t, <1>1, <2>2
<1>4. ASSUME NEW u PROVE InResidue(u)' <=> InDb(u)
  <2>1. ASSUME InResidue(u)' PROVE InDb(u)
    <3>1. PICK k \in 1 .. Len(residue') : residue'[k] = u
      BY <2>1 DEF InResidue
    <3>2. Len(chain) - k + 1 \in 1 .. Len(chain)
      BY <1>t, <1>1
    <3> QED BY <1>1, <3>1, <3>2 DEF InDb
  <2>2. ASSUME InDb(u) PROVE InResidue(u)'
    <3>1. PICK m \in 1 .. Len(chain) : chain[m].task = u
      BY <2>2 DEF InDb
    <3>2. Len(chain) - m + 1 \in 1 .. Len(chain) /\ Len(chain) - (Len(chain) - m + 1) + 1 = m
      BY <1>t
    <3>3. residue'[Len(chain) - m + 1] = u
      BY <1>1, <3>1, <3>2
    <3> QED BY <1>1, <3>2, <3>3 DEF InResidue
  <2> QED BY <2>1, <2>2
<1>5. \A u : InDb(u)' <=> InDb(u)
  BY DEF InDb
<1>6. \A v, u \in Tasks : InResidue(v)' /\ InResidue(u)' /\ SamePid(v, u) => v = u
  BY <1>4 DEF TwoOfId
<1> QED BY <1>3, <1>4, <1>5, <1>6

\* The counts of an entry do not depend on where the engine is.
LEMMA CountSame ==
  ASSUME DbInv, chain' = chain, reported' = reported, overlap' = overlap, unmatched' = unmatched,
         \A u \in Tasks : used[u] <= used'[u] /\ used[u] \in Nat /\ used'[u] \in Nat,
         \A u : Read(u) => Read(u)',
         \/ wiping' = wiping
         \/ wiping' = FALSE /\ Len(chain) = 0
  PROVE  CountInv'
<1>1. /\ \A u \in Procs : u \notin overlap \cup unmatched => CountOf(u)
      /\ IF wiping
         THEN \A u \in Tasks : reported[u] = 0
         ELSE \A i \in 1 .. Len(chain) : reported[chain[i].task] >= chain[i].cnt
  BY CountIs DEF DbInv
<1>2. \A u : InDb(u)' <=> InDb(u)
  BY DEF InDb
<1>3. ASSUME NEW u \in Procs, u \notin overlap' \cup unmatched' PROVE CountOf(u)'
  <2>1. CountOf(u) /\ u \in Tasks
    BY <1>1, <1>3, TaskIs
  <2>2. reported[u] \in Nat
    BY <2>1, Types, TaskDbAssumption DEF DbInv, DevTypes
  <2>3. reported'[u] <= used'[u]
    BY <2>1, <2>2 DEF CountOf
  <2> QED BY <1>2, <2>1, <2>3 DEF CountOf
<1>4. IF wiping'
      THEN \A u \in Tasks : reported'[u] = 0
      ELSE \A i \in 1 .. Len(chain') : reported'[chain'[i].task] >= chain'[i].cnt
  BY <1>1
<1> QED BY <1>3, <1>4, CountIsNext

\* A new sample is not older than the entries.
LEMMA PhotoProcKept ==
  ASSUME DbInv, PhotoProc
  PROVE  SampleInv' /\ ChainInv' /\ ResidueInv' /\ ActiveInv'
<1>1. /\ pc = "wait" /\ pc' = "acct" /\ todo' = alive
      /\ cnt' = [t \in Tasks |-> IF t \in alive THEN used[t] ELSE 0]
      /\ UNCHANGED <<chain, residue, pr, wiping, used, overlap>>
  BY DEF PhotoProc, system, db, devs
<1>t. /\ alive \subseteq Tasks /\ used \in [Tasks -> 0 .. MaxUse] /\ MaxUse \in Nat
      /\ chain \in Seq(Entries)
  BY Types, TaskDbAssumption DEF DbInv, SystemTypes, DbTypes
<1>2. \A u : InDb(u)' <=> InDb(u)
  BY <1>1 DEF InDb
<1>3. SampleInv'
  <2>1. /\ \A v, u \in alive : SamePid(v, u) => v = u
        /\ \A k \in 1 .. Len(chain) : chain[k].cnt <= used[chain[k].task]
    BY DEF DbInv, SampleInv, SystemInv
  <2>2. \A u \in Tasks : cnt'[u] = IF u \in alive THEN used[u] ELSE 0
    BY <1>1
  <2>3. \A u \in Tasks : cnt'[u] <= used[u]
    BY <1>t, <2>2
  <2>4. \A u \in alive, k \in 1 .. Len(chain) : chain[k].task = u => chain[k].cnt <= cnt'[u]
    BY <1>t, <2>1, <2>2
  <2> QED BY <1>1, <2>1, <2>3, <2>4 DEF SampleInv, SamePid
<1>4. ChainInv'
  <2>1. \A v, u : TwoOfId(v, u)' <=> TwoOfId(v, u)
    BY <1>2 DEF TwoOfId, SamePid
  <2> QED BY <1>1, <2>1 DEF DbInv, ChainInv, SamePid
<1>5. ResidueInv' /\ ActiveInv'
  BY <1>1 DEF DbInv, ResidueInv, ActiveInv
<1> QED BY <1>3, <1>4, <1>5

\* The residue list starts with all entries.
LEMMA AcctPhotoProcKept ==
  ASSUME DbInv, AcctPhotoProc
  PROVE  SampleInv' /\ ChainInv' /\ ResidueInv' /\ ActiveInv'
<1>1. /\ pc = "acct" /\ pc' = "present" /\ residue' = MakeResidue
      /\ active' = {} /\ nprocactive' = 0
      /\ UNCHANGED <<chain, todo, cnt, used, pr, wiping, overlap>>
  BY DEF AcctPhotoProc, system
<1>t. /\ wiping = FALSE /\ todo \subseteq Tasks
  BY <1>1, Types DEF DbInv, ResidueInv, DbTypes, SampleTypes
<1>2. /\ \A t, u \in Tasks : ~ TwoOfId(t, u)
      /\ \A i, j \in 1 .. Len(chain) : chain[i].task = chain[j].task => i = j
      /\ \A i, j \in 1 .. Len(chain) :
           i < j /\ SamePid(chain[i].task, chain[j].task) => chain[i].task \in overlap
  BY <1>1 DEF DbInv, ChainInv
<1>3. /\ \A k, l \in 1 .. Len(residue') : residue'[k] = residue'[l] => k = l
      /\ \A u : InResidue(u)' <=> InDb(u)
      /\ \A u : InDb(u)' <=> InDb(u)
      /\ \A v, u \in Tasks : InResidue(v)' /\ InResidue(u)' /\ SamePid(v, u) => v = u
  BY <1>1, <1>2, ResidueMade
<1>4. SampleInv'
  BY <1>1 DEF DbInv, SampleInv, SamePid
<1>5. ChainInv'
  <2>1. \A v, u \in Tasks : ~ TwoOfId(v, u)'
    BY <1>2, <1>3 DEF TwoOfId, SamePid
  <2> QED BY <1>1, <1>2, <2>1 DEF ChainInv, SamePid
<1>6. ResidueInv'
  BY <1>1, <1>t, <1>3 DEF ResidueInv, SamePid
<1>7. ActiveInv'
  <2>1. IsFiniteSet({}) /\ Cardinality({}) = 0
    BY FS_EmptySet
  <2>2. active' \cap Procs = {}
    BY <1>1
  <2> QED BY <1>1, <2>1, <2>2 DEF ActiveInv
<1> QED BY <1>4, <1>5, <1>6, <1>7

\* All of the residue list is ahead when pdb_cleanresidue() starts.
LEMMA ExitedDoneKept ==
  ASSUME DbInv, ExitedDone
  PROVE  SampleInv' /\ ChainInv' /\ ResidueInv' /\ ActiveInv'
<1>1. /\ pc = "exited" /\ pc' = "clean" /\ pr' = IF residue = <<>> THEN None ELSE Head(residue)
      /\ UNCHANGED <<chain, residue, cnt, used, wiping, overlap>>
  BY DEF ExitedDone, system, devs
<1>t. wiping = FALSE /\ residue \in Seq(Tasks) /\ Len(residue) \in Nat
  BY <1>1, Types, LenProperties DEF DbInv, ResidueInv, DbTypes
<1>2. /\ \A i, j \in 1 .. Len(chain) : chain[i].task = chain[j].task => i = j
      /\ \A i, j \in 1 .. Len(chain) :
           i < j /\ SamePid(chain[i].task, chain[j].task) => chain[i].task \in overlap
      /\ \A t, u \in Tasks : TwoOfId(t, u) => InResidue(t) \/ InResidue(u)
  BY <1>1 DEF DbInv, ChainInv
<1>3. /\ \A k, l \in 1 .. Len(residue) : residue[k] = residue[l] => k = l
      /\ \A u \in Tasks : InResidue(u) => InDb(u)
      /\ \A v, u \in Tasks : InResidue(v) /\ InResidue(u) /\ SamePid(v, u) => v = u
  BY <1>1 DEF DbInv, ResidueInv
<1>4. \A u : (InDb(u)' <=> InDb(u)) /\ (InResidue(u)' <=> InResidue(u))
  BY <1>1 DEF InDb, InResidue
<1>5. pr' # None => 1 \in 1 .. Len(residue) /\ residue[1] = pr'
  <2>1. residue # <<>> => Len(residue) # 0
    BY <1>t, EmptySeq
  <2> QED BY <1>1, <1>t, <2>1
<1>6. \A u : InResidue(u) => Ahead(u)'
  <2> SUFFICES ASSUME NEW u, InResidue(u) PROVE Ahead(u)'
    OBVIOUS
  <2>1. PICK n \in 1 .. Len(residue) : residue[n] = u
    BY DEF InResidue
  <2>2. residue # <<>>
    BY <1>t, <2>1
  <2>3. 1 \in 1 .. Len(residue) /\ residue[1] = pr' /\ 1 <= n
    BY <1>1, <1>t, <2>1, <2>2
  <2> QED BY <1>1, <2>1, <2>3 DEF Ahead
<1>7. SampleInv'
  BY <1>1 DEF DbInv, SampleInv
<1>8. ChainInv'
  <2>1. \A v, u \in Tasks : TwoOfId(v, u)' => Ahead(v)' \/ Ahead(u)'
    <3>1. \A v, u \in Tasks : TwoOfId(v, u)' => TwoOfId(v, u)
      BY <1>4 DEF TwoOfId, SamePid
    <3> QED BY <3>1, <1>2, <1>6
  <2> QED BY <1>1, <1>2, <2>1 DEF ChainInv, SamePid
<1>9. ResidueInv'
  <2>1. pr' # None => InResidue(pr)'
    BY <1>1, <1>5 DEF InResidue
  <2> QED BY <1>1, <1>t, <1>3, <1>4, <2>1 DEF ResidueInv, SamePid
<1>10. ActiveInv'
  BY <1>1 DEF ActiveInv
<1> QED BY <1>7, <1>8, <1>9, <1>10

\* When nothing is ahead there is one entry for an id, and none if the user asked for a reset.
LEMMA CleanDoneKept ==
  ASSUME DbInv, CleanDone
  PROVE  /\ SampleInv' /\ ChainInv' /\ ResidueInv' /\ ActiveInv'
         /\ wiping => Len(chain) = 0
<1>1. /\ pc = "clean" /\ pr = None /\ pc' \in {"wait", "report"} /\ wiping' = FALSE
      /\ UNCHANGED <<chain, residue, pr, cnt, used, overlap>>
  BY DEF CleanDone, system, sample, devs
<1>t. /\ residue \in Seq(Tasks) /\ chain \in Seq(Entries) /\ Len(chain) \in Nat
      /\ \A k \in 1 .. Len(chain) : chain[k].task \in Tasks
  BY Types, LenProperties, EntryIs DEF DbInv, DbTypes
<1>2. \A u : ~ Ahead(u)
  BY <1>1, <1>t, AheadIs
<1>3. /\ \A i, j \in 1 .. Len(chain) : chain[i].task = chain[j].task => i = j
      /\ \A i, j \in 1 .. Len(chain) :
           i < j /\ SamePid(chain[i].task, chain[j].task) => chain[i].task \in overlap
      /\ \A t, u \in Tasks : TwoOfId(t, u) => Ahead(t) \/ Ahead(u)
  BY <1>1 DEF DbInv, ChainInv
<1>4. wiping => Len(chain) = 0
  <2> SUFFICES ASSUME wiping, Len(chain) # 0 PROVE FALSE
    OBVIOUS
  <2>1. 1 \in 1 .. Len(chain)
    BY <1>t
  <2>2. chain[1].task \in Tasks /\ InDb(chain[1].task)
    BY <1>t, <2>1 DEF InDb
  <2>3. Ahead(chain[1].task)
    BY <2>2 DEF DbInv, ResidueInv
  <2> QED BY <1>2, <2>3
<1>5. SampleInv'
  BY <1>1 DEF DbInv, SampleInv
<1>6. ChainInv'
  <2>1. \A v, u \in Tasks : ~ TwoOfId(v, u)'
    <3>1. \A v, u \in Tasks : TwoOfId(v, u)' => TwoOfId(v, u)
      BY <1>1 DEF TwoOfId, SamePid, InDb
    <3> QED BY <3>1, <1>2, <1>3
  <2> QED BY <1>1, <1>3, <2>1 DEF ChainInv, SamePid
<1>7. ResidueInv'
  BY <1>1 DEF ResidueInv
<1>8. ActiveInv'
  BY <1>1 DEF ActiveInv
<1> QED BY <1>4, <1>5, <1>6, <1>7, <1>8

\* A reset makes a residue list of all entries.
LEMMA ResetKept ==
  ASSUME DbInv, Reset
  PROVE  SampleInv' /\ ChainInv' /\ ResidueInv' /\ ActiveInv' /\ CountInv'
<1>1. /\ pc = "report" /\ pc' = "clean" /\ wiping' = TRUE /\ residue' = MakeResidue
      /\ pr' = IF chain = <<>> THEN None ELSE chain[Len(chain)].task
      /\ reported' = [t \in Tasks |-> 0]
      /\ UNCHANGED <<chain, cnt, used, rd, acct, overlap, unmatched>>
  BY DEF Reset, system, sample
<1>t. /\ chain \in Seq(Entries) /\ Len(chain) \in Nat /\ DbTypes
      /\ used \in [Tasks -> 0 .. MaxUse]
      /\ \A k \in 1 .. Len(chain) : chain[k].cnt \in Nat
  BY Types, LenProperties, EntryIs DEF DbInv, DbTypes, SystemTypes
<1>2. /\ \A t, u \in Tasks : ~ TwoOfId(t, u)
      /\ \A i, j \in 1 .. Len(chain) : chain[i].task = chain[j].task => i = j
      /\ \A i, j \in 1 .. Len(chain) :
           i < j /\ SamePid(chain[i].task, chain[j].task) => chain[i].task \in overlap
  BY <1>1 DEF DbInv, ChainInv
<1>3. /\ \A k, l \in 1 .. Len(residue') : residue'[k] = residue'[l] => k = l
      /\ \A u : InResidue(u)' <=> InDb(u)
      /\ \A u : InDb(u)' <=> InDb(u)
      /\ \A v, u \in Tasks : InResidue(v)' /\ InResidue(u)' /\ SamePid(v, u) => v = u
  BY <1>1, <1>2, ResidueMade
<1>4. \A u : InDb(u) => chain # <<>> /\ 1 \in 1 .. Len(residue') /\ residue'[1] = pr'
  <2> SUFFICES ASSUME NEW u, InDb(u)
               PROVE  chain # <<>> /\ 1 \in 1 .. Len(residue') /\ residue'[1] = pr'
    OBVIOUS
  <2>1. 1 \in 1 .. Len(chain) /\ Len(chain) - 1 + 1 = Len(chain)
    BY <1>t DEF InDb
  <2>2. chain # <<>>
    BY <2>1
  <2>3. Len(residue') = Len(chain) /\ residue'[1] = chain[Len(chain)].task
    BY <1>1, <1>t, <2>1, MakeResidueIs
  <2> QED BY <1>1, <2>1, <2>2, <2>3
<1>5. \A u : InDb(u) => Ahead(u)'
  <2> SUFFICES ASSUME NEW u, InDb(u) PROVE Ahead(u)'
    OBVIOUS
  <2>1. PICK n \in 1 .. Len(residue') : residue'[n] = u
    BY <1>3 DEF InResidue
  <2>2. 1 \in 1 .. Len(residue') /\ residue'[1] = pr' /\ 1 <= n
    BY <1>4, <2>1
  <2> QED BY <2>1, <2>2 DEF Ahead
<1>6. SampleInv'
  BY <1>1 DEF DbInv, SampleInv
<1>7. ChainInv'
  <2>1. \A v, u \in Tasks : ~ TwoOfId(v, u)'
    BY <1>2, <1>3 DEF TwoOfId, SamePid
  <2> QED BY <1>1, <1>2, <2>1 DEF ChainInv, SamePid
<1>8. ResidueInv'
  <2>1. pr' # None => InResidue(pr)'
    <3> SUFFICES ASSUME pr' # None PROVE InResidue(pr)'
      OBVIOUS
    <3>1. chain # <<>> /\ Len(chain) # 0
      BY <1>1, <1>t, EmptySeq
    <3>2. InDb(chain[Len(chain)].task)
      BY <1>t, <3>1 DEF InDb
    <3>3. 1 \in 1 .. Len(residue') /\ residue'[1] = pr'
      BY <1>4, <3>2
    <3> QED BY <3>3 DEF InResidue
  <2> QED BY <1>1, <1>3, <1>5, <2>1 DEF ResidueInv, SamePid
<1>9. ActiveInv'
  BY <1>1 DEF ActiveInv
<1>10. CountInv'
  <2>1. \A u \in Procs : CountOf(u)'
    <3> SUFFICES ASSUME NEW u \in Procs PROVE CountOf(u)'
      OBVIOUS
    <3>1. reported'[u] = 0 /\ used'[u] \in Nat
      BY <1>1, <1>t, TaskIs, TaskDbAssumption
    <3>2. \A k \in 1 .. Len(chain') : reported'[u] <= chain'[k].cnt
      BY <1>1, <1>t, <3>1
    <3> QED BY <3>1, <3>2 DEF CountOf
  <2> QED BY <1>1, <2>1, CountIsNext
<1> QED BY <1>6, <1>7, <1>8, <1>9, <1>10

\* Processes that start, run and end change nothing in the database.
LEMMA SystemKeepsDb ==
  ASSUME DbInv, System
  PROVE  SampleInv' /\ ChainInv' /\ ResidueInv' /\ ActiveInv' /\ CountInv'
<1>t. /\ SystemTypes /\ chain \in Seq(Entries) /\ rd \in 0 .. avail /\ avail \in 0 .. Len(acct)
      /\ acct \in Seq(Procs) /\ Len(acct) \in Nat /\ wiping \in BOOLEAN
      /\ cnt \in [Tasks -> 0 .. MaxUse] /\ MaxUse \in Nat
  BY Types, LenProperties, TaskDbAssumption DEF DbInv, SystemTypes, SampleTypes, DbTypes
<1>1. /\ \A t \in Tasks : used[t] \in Nat /\ used'[t] \in Nat /\ used[t] <= used'[t]
      /\ pc' = pc /\ pc \in {"wait", "acct"}
      /\ \A i \in 1 .. Len(acct) : acct'[i] = acct[i]
  BY <1>t, UsedGrows
<1>2. /\ UNCHANGED <<todo, cnt, rd, rdend, chain, residue, pr, wiping>>
      /\ UNCHANGED <<active, nprocactive, reported, overlap, unmatched>>
  BY <1>t, UsedGrows DEF sample, db, devs
<1>3. \A u : Read(u)' <=> Read(u)
  <2>1. rd \in Int /\ \A i \in 1 .. rd : i \in 1 .. Len(acct)
    BY <1>t
  <2> QED BY <1>1, <1>2, <2>1 DEF Read
<1>4. \A u : (InDb(u)' <=> InDb(u))
  BY <1>2 DEF InDb
<1>5. SampleInv'
  <2>1. \A k \in 1 .. Len(chain) : chain[k].task \in Tasks /\ chain[k].cnt \in Nat
    BY <1>t, EntryIs
  <2>2. /\ pc \in {"acct", "present"} =>
             /\ \A t, u \in todo : SamePid(t, u) => t = u
             /\ \A t \in todo, i \in 1 .. Len(chain) : chain[i].task = t => chain[i].cnt <= cnt[t]
        /\ \A t \in Tasks : cnt[t] <= used[t]
        /\ \A i \in 1 .. Len(chain) : chain[i].cnt <= used[chain[i].task]
    BY DEF DbInv, SampleInv
  <2>3. \A t \in Tasks : cnt[t] <= used'[t]
    BY <1>t, <1>1, <2>2
  <2>4. \A i \in 1 .. Len(chain) : chain[i].cnt <= used'[chain[i].task]
    BY <1>1, <2>1, <2>2
  <2> QED BY <1>1, <1>2, <2>2, <2>3, <2>4 DEF SampleInv, SamePid
<1>6. ChainInv'
  <2>1. \A v, u : TwoOfId(v, u)' <=> TwoOfId(v, u)
    BY <1>4 DEF TwoOfId, SamePid
  <2> QED BY <1>1, <1>2, <2>1 DEF DbInv, ChainInv, SamePid
<1>7. ResidueInv' /\ ActiveInv'
  BY <1>1, <1>2 DEF DbInv, ResidueInv, ActiveInv
<1>8. CountInv'
  BY <1>1, <1>2, <1>3, CountSame
<1> QED BY <1>5, <1>6, <1>7, <1>8

\* The steps that change no more than the place of the engine.
LEMMA QuietKept ==
  ASSUME DbInv, PresentDone \/ Shown
  PROVE  SampleInv' /\ ChainInv' /\ ResidueInv' /\ ActiveInv'
<1>1. /\ UNCHANGED <<todo, cnt, used, chain, residue, pr, wiping, active, nprocactive, overlap>>
      /\ \/ pc = "present" /\ pc' = "exited"
         \/ pc = "report" /\ pc' = "wait"
  BY DEF PresentDone, Shown, system, sample, db, devs
<1>2. \A u : (InDb(u)' <=> InDb(u)) /\ (InResidue(u)' <=> InResidue(u))
  BY <1>1 DEF InDb, InResidue
<1>3. \A v, u : TwoOfId(v, u)' <=> TwoOfId(v, u)
  BY <1>2 DEF TwoOfId, SamePid
<1>t. wiping = FALSE
  BY <1>1, Types DEF DbInv, ResidueInv, DbTypes
<1>4. SampleInv'
  BY <1>1 DEF DbInv, SampleInv
<1>5. ChainInv'
  BY <1>1, <1>2, <1>3 DEF DbInv, ChainInv, SamePid
<1>6. ResidueInv'
  BY <1>1, <1>2, <1>t DEF DbInv, ResidueInv, SamePid
<1>7. ActiveInv'
  BY <1>1 DEF DbInv, ActiveInv
<1> QED BY <1>4, <1>5, <1>6, <1>7

\* Where neither entries nor counts change.
LEMMA QuietCount ==
  ASSUME DbInv, PhotoProc \/ AcctPhotoProc \/ PresentDone \/ Shown \/ ExitedDone \/ CleanDone
  PROVE  CountInv'
<1>1. /\ UNCHANGED <<used, acct, chain, reported, overlap, unmatched>>
      /\ rd' = rd \/ (ExitedDone /\ rd' = avail)
      /\ wiping' = wiping \/ (CleanDone /\ wiping' = FALSE)
  BY DEF PhotoProc, AcctPhotoProc, PresentDone, Shown, ExitedDone, CleanDone, system, sample, db, devs
<1>2. /\ rd \in 0 .. avail /\ avail \in Nat /\ wiping \in BOOLEAN
      /\ used \in [Tasks -> 0 .. MaxUse] /\ MaxUse \in Nat
  BY Types, LenProperties, TaskDbAssumption DEF DbInv, SystemTypes, SampleTypes, DbTypes
<1>3. rd \in Int /\ rd' \in Int /\ rd <= rd'
  BY <1>1, <1>2
<1>4. \A u : Read(u) => Read(u)'
  BY <1>1, <1>3 DEF Read
<1>5. \/ wiping' = wiping
      \/ wiping' = FALSE /\ Len(chain) = 0
  BY <1>1, <1>2, CleanDoneKept
<1>6. \A u \in Tasks : used[u] <= used'[u] /\ used[u] \in Nat /\ used'[u] \in Nat
  BY <1>1, <1>2
<1> QED BY <1>1, <1>4, <1>5, <1>6, CountSame

(***************************************************************************)
(* The invariant and what follows from it.                                 *)
(***************************************************************************)
LEMMA DbInvKept ==
  ASSUME DbInv, Next
  PROVE  DbInv'
<1>1. TaskDbTypeOK'
  BY TypeKept
<1>2. SystemInv'
  <2>1. CASE System
    BY <2>1, SystemKept
  <2>2. CASE Engine \/ Reset
    <3>1. alive' = alive /\ acct' = acct
      BY <2>2, Zenon DEF Engine, PhotoProc, AcctPhotoProc, Present, PresentDone, Exited, ExitedDone,
                         Clean, CleanDone, Shown, Reset, system
    <3>2. \A u : Ended(u)' <=> Ended(u)
      BY <3>1 DEF Ended
    <3> QED BY <3>1, <3>2 DEF DbInv, SystemInv, SamePid, Process
  <2> QED BY <2>1, <2>2 DEF Next
<1>3. SampleInv' /\ ChainInv' /\ ResidueInv' /\ ActiveInv' /\ CountInv'
  <2>1. CASE System
    BY <2>1, SystemKeepsDb
  <2>2. CASE PhotoProc
    BY <2>2, PhotoProcKept, QuietCount
  <2>3. CASE AcctPhotoProc
    BY <2>3, AcctPhotoProcKept, QuietCount
  <2>4. CASE \E t \in Tasks : Present(t)
    BY <2>4, PresentSample, PresentChain, PresentActive, PresentCount
  <2>5. CASE PresentDone \/ Shown
    BY <2>5, QuietKept, QuietCount
  <2>6. CASE Exited
    BY <2>6, ExitedKept, ExitedCount
  <2>7. CASE ExitedDone
    BY <2>7, ExitedDoneKept, QuietCount
  <2>8. CASE Clean
    BY <2>8, CleanKept
  <2>9. CASE CleanDone
    BY <2>9, CleanDoneKept, QuietCount
  <2>10. CASE Reset
    BY <2>10, ResetKept
  <2> QED BY <2>1, <2>2, <2>3, <2>4, <2>5, <2>6, <2>7, <2>8, <2>9, <2>10 DEF Next, Engine
<1> QED BY <1>1, <1>2, <1>3 DEF DbInv

\* Nothing changes in a step that leaves the variables as they are.
LEMMA DbInvStutters ==
  ASSUME DbInv, UNCHANGED tvars
  PROVE  DbInv'
<1>1. /\ UNCHANGED <<alive, last, used, acct, avail, pc, todo, cnt, rd, rdend>>
      /\ UNCHANGED <<chain, residue, pr, wiping>>
      /\ UNCHANGED <<active, nprocactive, reported, overlap, unmatched>>
  BY DEF tvars, system, sample, db, devs
<1>2. TaskDbTypeOK'
  BY <1>1, Types, TypesNext DEF DbInv, SystemTypes, SampleTypes, DbTypes, DevTypes
<1>3. \A u : /\ InDb(u)' <=> InDb(u)
             /\ InResidue(u)' <=> InResidue(u)
             /\ Ahead(u)' <=> Ahead(u)
             /\ Read(u)' <=> Read(u)
             /\ Ended(u)' <=> Ended(u)
  BY <1>1 DEF InDb, InResidue, Ahead, Read, Ended
<1>4. \A u, v : TwoOfId(u, v)' <=> TwoOfId(u, v)
  BY <1>3 DEF TwoOfId, SamePid
<1>5. SystemInv'
  BY <1>1, <1>3 DEF DbInv, SystemInv, SamePid, Process
<1>6. SampleInv'
  BY <1>1 DEF DbInv, SampleInv, SamePid
<1>7. ChainInv'
  BY <1>1, <1>3, <1>4 DEF DbInv, ChainInv, SamePid
<1>8. ResidueInv'
  BY <1>1, <1>3 DEF DbInv, ResidueInv, SamePid
<1>9. ActiveInv'
  BY <1>1 DEF DbInv, ActiveInv
<1>10. CountInv'
  BY <1>1, <1>3 DEF DbInv, CountInv
<1> QED BY <1>2, <1>5, <1>6, <1>7, <1>8, <1>9, <1>10 DEF DbInv

\* The invariant holds in every state: pdb_gettask(), pdb_deltask() and pdb_cleanresidue() keep the
\* entries, the residue list and what deviattask() has reported in step.
THEOREM TaskInvariance == Spec => []DbInv
<1>1. Init => DbInv
  BY Beginning
<1>2. DbInv /\ [Next]_tvars => DbInv'
  BY DbInvKept, DbInvStutters
<1> QED BY <1>1, <1>2, PTL DEF Spec

\* A sample ends with one entry for an id, the walk along the residue list is never at an entry that
\* was removed, and deviattask() fills as many places for active processes as it reserves.
THEOREM DbIsSound == Spec => []DbSound
<1>1. DbInv => DbSound
  <2> SUFFICES ASSUME DbInv PROVE DbSound
    OBVIOUS
  <2>1. chain \in Seq(Entries) /\ \A k \in 1 .. Len(chain) : chain[k].task \in Tasks
    BY Types, EntryIs DEF DbInv, DbTypes
  <2>2. OncePerId
    <3> SUFFICES ASSUME pc \in {"wait", "acct", "report"},
                        NEW i \in 1 .. Len(chain), NEW j \in 1 .. Len(chain),
                        SameId(chain[i], chain[j].task)
                 PROVE  i = j
      BY DEF OncePerId
    <3>1. InDb(chain[i].task) /\ InDb(chain[j].task) /\ SamePid(chain[i].task, chain[j].task)
      BY DEF InDb, SameId, SamePid
    <3>2. ~ TwoOfId(chain[i].task, chain[j].task)
      BY <2>1 DEF DbInv, ChainInv
    <3>3. chain[i].task = chain[j].task
      BY <3>1, <3>2 DEF TwoOfId
    <3> QED BY <3>3 DEF DbInv, ChainInv
  <2>3. NoDangling
    <3> SUFFICES ASSUME pc = "clean", pr # None PROVE InDb(pr)
      BY DEF NoDangling
    <3>1. InResidue(pr) /\ \A u \in Tasks : InResidue(u) => InDb(u)
      BY DEF DbInv, ResidueInv
    <3>2. pr \in Tasks
      BY Types DEF DbInv, DbTypes
    <3> QED BY <3>1, <3>2
  <2>4. ActiveFits
    BY DEF DbInv, ActiveInv, ActiveFits
  <2> QED BY <2>2, <2>3, <2>4 DEF DbSound, DbInv
<1> QED BY <1>1, TaskInvariance, PTL

\* No process is reported to have used more than it did, but for the cases that NoDouble names.
THEOREM NoneTwice == Spec => []NoDouble
<1>1. DbInv => NoDouble
  BY DEF DbInv, CountInv, NoDouble
<1> QED BY <1>1, TaskInvariance, PTL

\* When deviattask() has seen the accounting record of a process, all that it used was reported.
THEOREM EveryUseCounted == Spec => AllCounted
<1> DEFINE A == \A t \in Procs :
                  (rd < rdend /\ rd' = rd + 1 /\ t = acct[rd']) => reported'[t] >= used[t]
<1>1. ASSUME DbInv, Next PROVE A
  <2>1. SampleTypes /\ SystemTypes
    BY <1>1, Types DEF DbInv
  <2>2. rd \in Int /\ avail \in Nat /\ rdend \in 0 .. avail
    BY <2>1, LenProperties DEF SampleTypes, SystemTypes
  <2>3. ASSUME rd < rdend, rd' = rd + 1 PROVE Exited \/ ExitedDone
    <3>1. rd' # rd
      BY <2>2, <2>3
    <3> QED BY <1>1, <3>1, Zenon DEF Next, Engine, System, PhotoProc, AcctPhotoProc, Present, PresentDone,
                              Clean, CleanDone, Shown, Reset, sample
  <2>4. ExitedDone => rd = rdend
    BY DEF ExitedDone
  <2>5. rd < rdend /\ rd' = rd + 1 => Exited
    BY <2>2, <2>3, <2>4
  <2> QED BY <1>1, <2>5, ExitedCount
<1>3. AllCounted <=> [][A]_tvars
  BY DEF AllCounted
<1> HIDE DEF A
<1>4. DbInv /\ [Next]_tvars => [A]_tvars
  BY <1>1
<1> QED BY <1>3, <1>4, TaskInvariance, PTL DEF Spec
=============================================================================
