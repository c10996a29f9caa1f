----------------------------- MODULE AcctStream -----------------------------
(***************************************************************************)
(* What process accounting promises, without files: the records of exited  *)
(* processes form one log. A reader that is attached to it is told how     *)
(* many records it can have in this sample (its quota), never more than    *)
(* there are, and takes these in the order of the log, none twice and none *)
(* left out. Between samples it may skip records that are there.           *)
(***************************************************************************)
EXTENDS Integers

CONSTANT Readers

Detached == -1

VARIABLES
  length,    \* number of records in the log
  cursor,    \* cursor[r]: number of records behind reader r, or Detached
  quota      \* quota[r]: records r has still to take in this sample

stream == <<length, cursor, quota>>

StreamTypeOK ==
  /\ length \in Nat
  /\ cursor \in [Readers -> Nat \cup {Detached}]
  /\ quota \in [Readers -> Nat]

\* What is promised to a reader is in the log.
QuotaInLog == \A r \in Readers : cursor[r] # Detached => cursor[r] + quota[r] <= length

StreamInit ==
  /\ length = 0
  /\ cursor = [r \in Readers |-> Detached]
  /\ quota = [r \in Readers |-> 0]

Attached(r) == cursor[r] # Detached

Grow == length' \in Nat /\ length' > length /\ UNCHANGED <<cursor, quota>>

\* Place reader r behind p records, with q records to take.
Place(r, p, q) ==
  /\ cursor' = [cursor EXCEPT ![r] = p]
  /\ quota' = [quota EXCEPT ![r] = q]
  /\ UNCHANGED length

\* Any number of readers at once, when the daemon begins to serve.
Attach ==
  \E R \in SUBSET Readers, p \in [Readers -> 0 .. length], q \in [Readers -> 0 .. length] :
    /\ \A r \in R : ~Attached(r) /\ p[r] + q[r] <= length
    /\ cursor' = [r \in Readers |-> IF r \in R THEN p[r] ELSE cursor[r]]
    /\ quota' = [r \in Readers |-> IF r \in R THEN q[r] ELSE quota[r]]
    /\ UNCHANGED length

Count(r) ==
  /\ Attached(r) /\ quota[r] = 0
  /\ \E q \in 1 .. length - cursor[r] : Place(r, cursor[r], q)

Take(r) == Attached(r) /\ quota[r] > 0 /\ Place(r, cursor[r] + 1, quota[r] - 1)

Skip(r) ==
  Attached(r) /\ quota[r] = 0 /\ \E p \in cursor[r] .. length : Place(r, p, 0)

\* Any number of readers lose the log at once, when the daemon goes.
Detach ==
  \E R \in SUBSET Readers :
    /\ cursor' = [r \in Readers |-> IF r \in R THEN Detached ELSE cursor[r]]
    /\ quota' = [r \in Readers |-> IF r \in R THEN 0 ELSE quota[r]]
    /\ UNCHANGED length

StreamNext ==
  \/ Grow
  \/ Attach \/ Detach
  \/ \E r \in Readers : Count(r) \/ Take(r) \/ Skip(r)

Stream == StreamInit /\ [][StreamNext]_stream
=============================================================================
