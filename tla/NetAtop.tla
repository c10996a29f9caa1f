------------------------------ MODULE NetAtop -------------------------------
(***************************************************************************)
(* The exit file of the netatop daemon and its reader in netatopif.c.  The *)
(* daemon appends a record for every process that has ended and used the   *)
(* network, and counts them in the header that atop has mapped.  A record  *)
(* is a byte with its length and the data: two places in the file.  The    *)
(* daemon may be started again, with a new file.                           *)
(***************************************************************************)
EXTENDS Integers, Sequences

CONSTANTS
  MaxRecords,   \* bound: records per file
  MaxFiles      \* bound: files, one per incarnation of the daemon

ASSUME NetAtopAssumption == MaxRecords \in Nat /\ MaxFiles \in Nat \ {0}

VARIABLES
  nlen, curseq,     \* per file: the records in it, and how many its header tells
  newest, running,  \* the file that has a name, the daemon is active
  nfd, npos,        \* atop: the file that is open (0: none), the place in it
  lastseq, ntake,   \* the number of the record read last; records to be read
  npc,              \* where atop is
  netatopd,         \* NETATOPD in supportflags
  first, ngot       \* history: the place at the subscription, the records read since
nvars == <<nlen, curseq, newest, running, nfd, npos, lastseq, ntake, npc, netatopd, first, ngot>>
daemon == <<nlen, curseq, newest, running>>

NetInit ==
  /\ nlen = [f \in 1 .. MaxFiles |-> 0] /\ curseq = [f \in 1 .. MaxFiles |-> 0]
  /\ newest = 0 /\ running = FALSE
  /\ nfd = 0 /\ npos = 0 /\ lastseq = 0 /\ ntake = 0 /\ npc = "idle" /\ netatopd = FALSE
  /\ first = 0 /\ ngot = << >>
-----------------------------------------------------------------------------
\* The daemon.
DaemonStart == /\ ~ running /\ newest < MaxFiles
               /\ running' = TRUE /\ newest' = newest + 1
               /\ UNCHANGED <<nlen, curseq, nfd, npos, lastseq, ntake, npc, netatopd, first, ngot>>
DaemonEnd == /\ running /\ running' = FALSE
             /\ UNCHANGED <<nlen, curseq, newest, nfd, npos, lastseq, ntake, npc, netatopd, first, ngot>>
DaemonAppend ==
  /\ running /\ nlen[newest] < MaxRecords /\ nlen[newest] = curseq[newest]
  /\ nlen' = [nlen EXCEPT ![newest] = @ + 1]
  /\ UNCHANGED <<curseq, newest, running, nfd, npos, lastseq, ntake, npc, netatopd, first, ngot>>
DaemonCount ==
  /\ running /\ curseq[newest] < nlen[newest]
  /\ curseq' = [curseq EXCEPT ![newest] = @ + 1]
  /\ UNCHANGED <<nlen, newest, running, nfd, npos, lastseq, ntake, npc, netatopd, first, ngot>>
-----------------------------------------------------------------------------
\* netatop_probe(), with every sample: without a daemon nothing is read, a file
\* that is open and still has its name is kept.
Linked == nfd # 0 /\ nfd = newest /\ running
NetProbe ==
  /\ npc = "idle"
  /\ \/ ~ running /\ netatopd' = FALSE /\ UNCHANGED <<nfd, npos, npc, first, ngot>>
     \/ running /\ Linked /\ netatopd' = TRUE /\ npc' = "count"
        /\ UNCHANGED <<nfd, npos, first, ngot>>
     \/ running /\ ~ Linked
        /\ nfd' = newest /\ npos' = 2 * nlen[newest] /\ npc' = "subscribe"
        /\ first' = nlen[newest] /\ ngot' = << >>
        /\ UNCHANGED netatopd
  /\ UNCHANGED <<daemon, lastseq, ntake>>
\* The end of the file and the number of its last record are two questions.
Subscribe ==
  /\ npc = "subscribe" /\ npc' = "count"
  /\ lastseq' = curseq[nfd] /\ netatopd' = TRUE
  /\ UNCHANGED <<daemon, nfd, npos, ntake, first, ngot>>

\* netatop_exitstore(): how many there are, ...
CountExits ==
  /\ npc = "count" /\ npc' = "mark"
  /\ ntake' = curseq[nfd] - lastseq
  /\ UNCHANGED <<daemon, nfd, npos, lastseq, netatopd, first, ngot>>
\* ... from where to count the next time, ...
MarkExits ==
  /\ npc = "mark" /\ npc' = IF ntake = 0 THEN "idle" ELSE "read"
  /\ lastseq' = curseq[nfd]
  /\ UNCHANGED <<daemon, nfd, npos, ntake, netatopd, first, ngot>>
\* ... and the records: the length of the next one is read along with the data
\* and given back after the last one.
SeekBackNot(p, extra) == p          \* Mutant: it is not given back
SeekBack(p, extra) == IF extra THEN p - 1 ELSE p
ReadExits ==
  /\ npc = "read" /\ npc' = "idle"
  /\ LET have  == nlen[nfd] - npos \div 2
         n     == IF ntake < have THEN ntake ELSE have
         extra == have > n
     IN IF npos % 2 = 1
        THEN ngot' = Append(ngot, 0) /\ UNCHANGED npos       \* data taken for a length
        ELSE /\ ngot' = ngot \o [i \in 1 .. n |-> npos \div 2 + i]
             /\ npos' = SeekBack(npos + 2 * n + (IF extra THEN 1 ELSE 0), extra)
  /\ UNCHANGED <<daemon, nfd, lastseq, ntake, netatopd, first>>

NetNext == \/ DaemonStart \/ DaemonEnd \/ DaemonAppend \/ DaemonCount
           \/ NetProbe \/ Subscribe \/ CountExits \/ MarkExits \/ ReadExits
NetSpec == NetInit /\ [][NetNext]_nvars
-----------------------------------------------------------------------------
\* Every record that the daemon has appended to a file since atop looked for
\* it is read once and in the order of the file, whatever happens between two
\* looks at the header (netatop_exitstore()).
NetOnce == ngot = [i \in 1 .. Len(ngot) |-> first + i]
=============================================================================
