--------------------------- MODULE NetAtop_proofs ---------------------------
(***************************************************************************)
(* The reader of the exit file of netatopd is always between two records   *)
(* and has read all of them since its subscription in order: for files of  *)
(* any length and any number of incarnations of the daemon.                *)
(***************************************************************************)
EXTENDS NetAtop, SequenceTheorems, TLAPS

NetTypeOK ==
  /\ nlen \in [1 .. MaxFiles -> Nat] /\ curseq \in [1 .. MaxFiles -> Nat]
  /\ newest \in 0 .. MaxFiles /\ nfd \in 0 .. MaxFiles
  /\ npos \in Nat /\ lastseq \in Int /\ ntake \in Int /\ first \in Nat
  /\ ngot \in Seq(Nat)

\* The daemon has a file while it runs, and counts no record before it is there.
DaemonInv ==
  /\ running => newest # 0
  /\ \A f \in 1 .. MaxFiles : curseq[f] <= nlen[f]

\* A file is open from the probe on, and the numbers kept of it are not ahead.
CountingInv ==
  /\ npc \in {"idle", "subscribe", "count", "mark", "read"}
  /\ npc # "idle" => nfd # 0
  /\ nfd # 0 /\ npc # "subscribe" => lastseq <= curseq[nfd]
  /\ npc \in {"mark", "read"} => ntake >= 0

\* The place is right behind the records read, and not behind the file.
PlaceInv ==
  /\ npos = 2 * (first + Len(ngot))
  /\ nfd # 0 => first + Len(ngot) <= nlen[nfd]

NetInv == NetTypeOK /\ DaemonInv /\ CountingInv /\ PlaceInv /\ NetOnce

USE NetAtopAssumption

\* The initial states satisfy the invariant.
LEMMA NetInitInv == NetInit => NetInv
<1> SUFFICES ASSUME NetInit PROVE NetInv
  OBVIOUS
<1>1. ngot = << >> /\ Len(ngot) = 0 /\ ngot \in Seq(Nat)
  BY DEF NetInit
<1>2. NetOnce
  BY <1>1 DEF NetOnce
<1> QED BY <1>1, <1>2 DEF NetInit, NetInv, NetTypeOK, DaemonInv, CountingInv, PlaceInv

\* The daemon only makes files longer and counts what is there.
LEMMA DaemonKeeps ==
  ASSUME NetInv, DaemonStart \/ DaemonEnd \/ DaemonAppend \/ DaemonCount
  PROVE  NetInv'
<1> USE DEF NetInv
<1>1. UNCHANGED <<nfd, npos, lastseq, ntake, npc, first, ngot>>
  BY DEF DaemonStart, DaemonEnd, DaemonAppend, DaemonCount
<1>2. newest' \in 0 .. MaxFiles /\ (running' => newest' # 0)
  <2>1. CASE DaemonStart
    <3>1. newest' = newest + 1 /\ newest < MaxFiles
      BY <2>1 DEF DaemonStart
    <3>2. newest \in 0 .. MaxFiles
      BY DEF NetTypeOK
    <3> QED BY <3>1, <3>2
  <2>2. CASE DaemonEnd \/ DaemonAppend \/ DaemonCount
    <3>1. newest' = newest /\ (running' => running)
      BY <2>2 DEF DaemonEnd, DaemonAppend, DaemonCount
    <3> QED BY <3>1 DEF NetTypeOK, DaemonInv
  <2> QED BY <2>1, <2>2
<1>3. nlen' \in [1 .. MaxFiles -> Nat] /\ curseq' \in [1 .. MaxFiles -> Nat]
  <2>1. CASE DaemonStart \/ DaemonEnd
    BY <2>1 DEF DaemonStart, DaemonEnd, NetTypeOK
  <2>2. CASE DaemonAppend
    BY <2>2 DEF DaemonAppend, NetTypeOK, DaemonInv
  <2>3. CASE DaemonCount
    BY <2>3 DEF DaemonCount, NetTypeOK, DaemonInv
  <2> QED BY <2>1, <2>2, <2>3
<1>4. \A f \in 1 .. MaxFiles :
         nlen[f] <= nlen'[f] /\ curseq[f] <= curseq'[f] /\ curseq'[f] <= nlen'[f]
  <2> SUFFICES ASSUME NEW f \in 1 .. MaxFiles
               PROVE  nlen[f] <= nlen'[f] /\ curseq[f] <= curseq'[f] /\ curseq'[f] <= nlen'[f]
    OBVIOUS
  <2>1. nlen[f] \in Nat /\ curseq[f] \in Nat /\ curseq[f] <= nlen[f]
    BY DEF NetTypeOK, DaemonInv
  <2>2. CASE DaemonStart \/ DaemonEnd
    BY <2>1, <2>2 DEF DaemonStart, DaemonEnd
  <2>3. CASE DaemonAppend
    <3>1. nlen' = [nlen EXCEPT ![newest] = nlen[newest] + 1] /\ curseq' = curseq
      BY <2>3 DEF DaemonAppend
    <3> QED BY <2>1, <3>1 DEF NetTypeOK
  <2>4. CASE DaemonCount
    <3>1. /\ curseq' = [curseq EXCEPT ![newest] = curseq[newest] + 1] /\ nlen' = nlen
          /\ curseq[newest] < nlen[newest]
      BY <2>4 DEF DaemonCount
    <3> QED BY <2>1, <3>1 DEF NetTypeOK
  <2> QED BY <2>2, <2>3, <2>4
<1>5. NetTypeOK' /\ DaemonInv' /\ NetOnce'
  BY <1>1, <1>2, <1>3, <1>4 DEF NetTypeOK, DaemonInv, NetOnce
<1>6. nfd # 0 => nfd \in 1 .. MaxFiles /\ nlen[nfd] <= nlen'[nfd] /\ curseq[nfd] <= curseq'[nfd]
  BY <1>4 DEF NetTypeOK
<1>7. nfd # 0 => /\ nlen[nfd] \in Nat /\ nlen'[nfd] \in Nat
                 /\ curseq[nfd] \in Nat /\ curseq'[nfd] \in Nat
  BY <1>3, <1>6 DEF NetTypeOK
<1>8. Len(ngot) \in Nat
  BY DEF NetTypeOK
<1>9. CountingInv' /\ PlaceInv'
  BY <1>1, <1>6, <1>7, <1>8 DEF CountingInv, PlaceInv, NetTypeOK
<1> QED BY <1>5, <1>9

\* The probe starts at the end of a new file, or goes on where it was; from
\* then on only the numbers change.
LEMMA CountKeeps ==
  ASSUME NetInv, NetProbe \/ Subscribe \/ CountExits \/ MarkExits
  PROVE  NetInv'
<1> USE DEF NetInv
<1>1. UNCHANGED <<nlen, curseq, newest, running>>
  BY DEF NetProbe, Subscribe, CountExits, MarkExits, daemon
<1>2. nfd # 0 => nlen[nfd] \in Nat /\ curseq[nfd] \in Nat
  BY DEF NetTypeOK
<1>3. CASE NetProbe
  <2>1. CASE UNCHANGED <<nfd, npos, npc, first, ngot>>
    <3>1. UNCHANGED <<lastseq, ntake>>
      BY <1>3 DEF NetProbe
    <3> QED BY <1>1, <2>1, <3>1 DEF NetTypeOK, DaemonInv, CountingInv, PlaceInv, NetOnce
  <2>2. CASE Linked /\ npc' = "count" /\ npc = "idle" /\ UNCHANGED <<nfd, npos, first, ngot>>
    <3>1. UNCHANGED <<lastseq, ntake>> /\ nfd # 0
      BY <1>3, <2>2 DEF NetProbe, Linked
    <3>2. CountingInv'
      BY <1>1, <2>2, <3>1 DEF CountingInv
    <3> QED BY <1>1, <2>2, <3>1, <3>2 DEF NetTypeOK, DaemonInv, PlaceInv, NetOnce
  <2>3. CASE /\ running /\ nfd' = newest /\ npos' = 2 * nlen[newest] /\ npc' = "subscribe"
             /\ first' = nlen[newest] /\ ngot' = << >>
    <3>1. newest \in 1 .. MaxFiles /\ nlen[newest] \in Nat
      BY <2>3 DEF NetTypeOK, DaemonInv
    <3>2. Len(ngot') = 0 /\ ngot' \in Seq(Nat) /\ NetOnce'
      BY <2>3 DEF NetOnce
    <3>3. UNCHANGED <<lastseq, ntake>>
      BY <1>3 DEF NetProbe
    <3>4. NetTypeOK'
      BY <1>1, <2>3, <3>1, <3>2, <3>3 DEF NetTypeOK
    <3>5. DaemonInv'
      BY <1>1 DEF DaemonInv
    <3>6. CountingInv'
      BY <2>3, <3>1 DEF CountingInv
    <3>7. PlaceInv'
      BY <1>1, <2>3, <3>1, <3>2 DEF PlaceInv
    <3> QED BY <3>2, <3>4, <3>5, <3>6, <3>7
  <2> QED BY <1>3, <2>1, <2>2, <2>3 DEF NetProbe
<1>4. CASE Subscribe \/ CountExits \/ MarkExits
  <2>1. UNCHANGED <<nfd, npos, first, ngot>> /\ nfd # 0
    BY <1>4 DEF Subscribe, CountExits, MarkExits, CountingInv
  <2>2. CountingInv' /\ lastseq' \in Int /\ ntake' \in Int
    BY <1>1, <1>2, <1>4, <2>1 DEF Subscribe, CountExits, MarkExits, CountingInv, NetTypeOK
  <2> QED BY <1>1, <2>1, <2>2 DEF NetTypeOK, DaemonInv, PlaceInv, NetOnce
<1> QED BY <1>3, <1>4

\* What is read is the next records, and the place is moved behind them.
LEMMA ReadKeeps == ASSUME NetInv, ReadExits PROVE NetInv'
<1> USE DEF NetInv
<1> DEFINE k     == first + Len(ngot)
           have  == nlen[nfd] - npos \div 2
           n     == IF ntake < have THEN ntake ELSE have
           extra == have > n
           more  == [i \in 1 .. n |-> npos \div 2 + i]
<1>1. /\ nfd \in 1 .. MaxFiles /\ ntake \in Nat /\ nlen[nfd] \in Nat
      /\ k \in Nat /\ Len(ngot) \in Nat /\ k <= nlen[nfd] /\ npos = 2 * k
  <2>1. npc = "read"
    BY DEF ReadExits
  <2>2. nfd \in 1 .. MaxFiles
    BY <2>1 DEF CountingInv, NetTypeOK
  <2>3. ntake \in Nat
    BY <2>1 DEF CountingInv, NetTypeOK
  <2>4. Len(ngot) \in Nat
    BY DEF NetTypeOK
  <2> QED BY <2>2, <2>3, <2>4 DEF NetTypeOK, PlaceInv
<1>2. npos \div 2 = k /\ npos % 2 = 0
  <2> HIDE DEF k
  <2> QED BY <1>1
<1>3. n \in Nat /\ k + n <= nlen[nfd]
  <2> HIDE DEF k
  <2> QED BY <1>1, <1>2
<1>4. more \in Seq(Nat) /\ Len(more) = n /\ \A i \in 1 .. n : more[i] = k + i
  <2> HIDE DEF k, n
  <2>1. more = [i \in 1 .. n |-> k + i]
    BY <1>2
  <2>2. \A i \in 1 .. n : k + i \in Nat
    BY <1>1, <1>3
  <2> HIDE DEF more
  <2> QED BY <1>3, <2>1, <2>2
<1>5. ngot' = ngot \o more /\ npos' = 2 * k + 2 * n
  <2>1. ngot' = ngot \o more /\ npos' = SeekBack(npos + 2 * n + (IF extra THEN 1 ELSE 0), extra)
    <3>1. npos % 2 # 1
      BY <1>2
    <3> QED BY <3>1, Zenon DEF ReadExits
  <2> HIDE DEF k, n, more, extra
  <2> QED BY <1>1, <1>3, <2>1 DEF SeekBack
<1>6. /\ ngot' \in Seq(Nat) /\ Len(ngot') = Len(ngot) + n
      /\ \A i \in 1 .. Len(ngot) + n :
           ngot'[i] = IF i <= Len(ngot) THEN ngot[i] ELSE more[i - Len(ngot)]
  <2> HIDE DEF more, n
  <2> QED BY <1>4, <1>5, ConcatProperties DEF NetTypeOK
<1>7. \A i \in 1 .. Len(ngot) + n : ngot'[i] = first + i
  <2> SUFFICES ASSUME NEW i \in 1 .. Len(ngot) + n PROVE ngot'[i] = first + i
    OBVIOUS
  <2> HIDE DEF more, n
  <2>1. CASE i <= Len(ngot)
    <3>1. i \in 1 .. Len(ngot)
      BY <1>1, <1>3, <2>1
    <3>2. ngot[i] = first + i
      BY <3>1 DEF NetOnce
    <3> QED BY <1>6, <2>1, <3>2
  <2>2. CASE ~ (i <= Len(ngot))
    <3>1. i - Len(ngot) \in 1 .. n
      BY <1>1, <1>3, <2>2
    <3>2. more[i - Len(ngot)] = k + (i - Len(ngot))
      BY <1>4, <3>1
    <3> QED BY <1>1, <1>6, <2>2, <3>2, SMTT(30) DEF NetTypeOK
  <2> QED BY <2>1, <2>2
<1>8. NetOnce'
  <2> HIDE DEF more, n
  <2>1. ngot' = [i \in 1 .. Len(ngot') |-> ngot'[i]]
    BY <1>6
  <2>2. \A i \in 1 .. Len(ngot') : ngot'[i] = first' + i
    BY <1>6, <1>7 DEF ReadExits
  <2> QED BY <2>1, <2>2 DEF NetOnce
<1>9. npos' = 2 * (first' + Len(ngot')) /\ first' + Len(ngot') <= nlen'[nfd'] /\ npos' \in Nat
  <2>1. first' = first /\ nlen' = nlen /\ nfd' = nfd
    BY DEF ReadExits, daemon
  <2>2. first \in Nat
    BY DEF NetTypeOK
  <2> HIDE DEF more, n
  <2> QED BY <1>1, <1>3, <1>5, <1>6, <2>1, <2>2
<1> QED
  <2>1. UNCHANGED <<nlen, curseq, newest, running, nfd, lastseq, ntake, first>> /\ npc' = "idle"
    BY DEF ReadExits, daemon
  <2>2. DaemonInv' /\ CountingInv' /\ PlaceInv'
    BY <1>1, <1>9, <2>1 DEF DaemonInv, CountingInv, PlaceInv, ReadExits
  <2>3. NetTypeOK'
    BY <1>6, <1>9, <2>1 DEF NetTypeOK
  <2> QED BY <1>8, <2>2, <2>3

\* The invariant holds in every reachable state.
THEOREM NetInvariance == NetSpec => []NetInv
<1>1. NetInv /\ [NetNext]_nvars => NetInv'
  <2> SUFFICES ASSUME NetInv, [NetNext]_nvars PROVE NetInv'
    OBVIOUS
  <2>1. CASE UNCHANGED nvars
    BY <2>1 DEF nvars, NetInv, NetTypeOK, DaemonInv, CountingInv, PlaceInv, NetOnce
  <2>2. CASE NetNext
    BY <2>2, DaemonKeeps, CountKeeps, ReadKeeps DEF NetNext
  <2> QED BY <2>1, <2>2
<1> QED BY <1>1, NetInitInv, PTL DEF NetSpec

\* Every record appended since the subscription is read once and in order.
THEOREM NetReadOnce == NetSpec => []NetOnce
<1>1. NetInv => NetOnce
  BY DEF NetInv
<1> QED BY <1>1, NetInvariance, PTL
=============================================================================
