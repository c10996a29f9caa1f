----------------------------- MODULE CgroupList -----------------------------
(***************************************************************************)
(* The list of cgroups on the screen (cgroups.c): the chain of deviations, *)
(* in which every cgroup follows its parent, is sorted level by level on   *)
(* the use of a resource; then the cgroups that are not wanted are left    *)
(* out.  The lines of the tree are drawn from two marks of a cgroup: stub  *)
(* (the last of its level: a corner) and, for every level above, whether   *)
(* its line goes on (vlinemask).                                           *)
(***************************************************************************)
EXTENDS Integers, Sequences, FiniteSets, SequencesExt, FiniteSetsExt, Ranks

CONSTANTS
  MaxCgroups,   \* cgroups in the chain
  SortVals      \* use of the resource

ASSUME CgroupListAssumption == MaxCgroups \in Nat \ {0} /\ SortVals \subseteq Nat

VARIABLES
  chain,    \* the chain: [depth, sortval, used]
  cgsorted, \* the sorted list: [cg (place in the chain), stub, vlines (levels)]
  shown     \* what is left of it on the screen

lvars == <<chain, cgsorted, shown>>

(* Chains in which the depth grows by at most one and the root is first.    *)
(* The root has processes, the kernel threads; any other cgroup may count   *)
(* as used (nprocs or procsbelow) although the one above it does not, when  *)
(* a directory that cannot be read makes up for a process below             *)
(* (walkcgroup() adds its -1).                                              *)
Depths == UNION {{d \in [1 .. n -> 0 .. n - 1] :
                    d[1] = 0 /\ \A i \in 2 .. n : d[i] \in 1 .. d[i - 1] + 1} :
                 n \in 1 .. MaxCgroups}
Usages(d) == {u \in [DOMAIN d -> BOOLEAN] : u[1]}

ListInit ==
  /\ \E d \in Depths : \E v \in [DOMAIN d -> SortVals], u \in Usages(d) :
       chain = [i \in DOMAIN d |-> [depth |-> d[i], sortval |-> v[i], used |-> u[i]]]
  /\ cgsorted = << >> /\ shown = << >>
ListOff == chain = << >> /\ cgsorted = << >> /\ shown = << >>

Parent(i) == Max({j \in 1 .. i - 1 : chain[j].depth < chain[i].depth})
Children(i) == {j \in DOMAIN chain : j > 1 /\ Parent(j) = i}

-----------------------------------------------------------------------------
(* sortlevel() chains the children of a cgroup the last one first;          *)
(* createsortlist() sorts them, those with equal values in that order (as a *)
(* merge sort does; no property depends on it).                             *)
createsortlist(i) ==
  LET Key(j) == chain[j].sortval * (Len(chain) + 1) + j
      keys   == {Key(j) : j \in Children(i)}
      n      == Cardinality(keys)
  IN [k \in 1 .. n |-> CHOOSE j \in Children(i) : Key(j) = Nth(keys, n + 1 - k)]

(* mergelevel(): every child, followed by all below it, with its marks. *)
mergelevel(i, vlines) ==
  LET level[m \in (DOMAIN chain) \X SUBSET (0 .. Len(chain))] ==
        LET list == createsortlist(m[1])
            depth == chain[m[1]].depth
            lines(k) == IF k = Len(list) THEN m[2] \ {depth} ELSE m[2] \union {depth}
        IN  FlattenSeq([k \in DOMAIN list |->
              <<[cg |-> list[k], stub |-> k = Len(list), vlines |-> lines(k)]>>
                \o level[<<list[k], lines(k)>>]])
  IN  level[<<i, vlines>>]
cgsort ==
  /\ cgsorted = << >> /\ chain # << >>
  /\ cgsorted' = <<[cg |-> 1, stub |-> TRUE, vlines |-> {}]>> \o mergelevel(1, {})
  /\ UNCHANGED <<chain, shown>>

-----------------------------------------------------------------------------
(* mergecgrouplist() *)

cgroupfilter(i, newdepth, deviatonly) ==
  /\ newdepth = 9 \/ chain[i].depth < newdepth
  /\ deviatonly => chain[i].used

\* Mutant: the lines of the level below the new corner go on.
CornerOnly(list, depth) ==
  LET same == {j \in 2 .. Len(list) : chain[list[j].cg].depth <= depth}
      last == Max({1} \union same)
  IN  [j \in DOMAIN list |->
         IF j = last /\ last > 1 /\ chain[list[j].cg].depth = depth
         THEN [list[j] EXCEPT !.stub = TRUE]
         ELSE list[j]]

(* A cgroup that is left out although it has the corner of its level gives  *)
(* it to the last one of its level that is shown; below that one the line   *)
(* of the level ends.  The search goes back to the first that is not deeper. *)
PassStub(list, depth) ==
  LET same == {j \in 2 .. Len(list) : chain[list[j].cg].depth <= depth}
      last == Max({1} \union same)
  IN  [j \in DOMAIN list |->
         IF j > last THEN [list[j] EXCEPT !.vlines = @ \ {depth - 1}]
         ELSE IF j = last /\ last > 1 /\ chain[list[j].cg].depth = depth
              THEN [list[j] EXCEPT !.stub = TRUE]
         ELSE list[j]]

Merge(newdepth, deviatonly) ==
  LET list[m \in 0 .. Len(cgsorted)] ==
        IF m = 0 THEN << >>
        ELSE LET c == cgsorted[m]
             IN  IF cgroupfilter(c.cg, newdepth, deviatonly) THEN Append(list[m - 1], c)
                 ELSE IF c.stub THEN PassStub(list[m - 1], chain[c.cg].depth)
                 ELSE list[m - 1]
  IN  list[Len(cgsorted)]
mergecgrouplist ==
  /\ cgsorted # << >> /\ shown = << >>
  /\ \E newdepth \in 2 .. 9, deviatonly \in BOOLEAN : shown' = Merge(newdepth, deviatonly)
  /\ UNCHANGED <<chain, cgsorted>>

ListNext == cgsort \/ mergecgrouplist

-----------------------------------------------------------------------------
(* Properties *)

Above[i \in DOMAIN chain] == IF i = 1 THEN {} ELSE {Parent(i)} \union Above[Parent(i)]
Under(i, j) == j \in Above[i]

(* The sorted list has every cgroup once, each below its parent with its     *)
(* whole subtree, and in every level the larger consumer first               *)
(* (cgroups.c:1449-1452).                                                    *)
SortedTree ==
  cgsorted # << >> =>
    LET at == [i \in DOMAIN chain |-> CHOOSE k \in DOMAIN cgsorted : cgsorted[k].cg = i] IN
    /\ Len(cgsorted) = Len(chain) /\ {c.cg : c \in Range(cgsorted)} = DOMAIN chain
    /\ \A i, j \in DOMAIN chain : Under(i, j) =>
         /\ at[i] > at[j]
         /\ \A k \in at[j] .. at[i] : cgsorted[k].cg = j \/ Under(cgsorted[k].cg, j)
    /\ \A i, j \in DOMAIN chain \ {1} :
         Parent(i) = Parent(j) /\ at[i] < at[j] => chain[i].sortval >= chain[j].sortval

(* The lines that are drawn fit the list that is shown, whichever cgroups    *)
(* are left out, also ones above a cgroup that is shown: a corner at the     *)
(* last one of its level and nowhere else, and a line at a level above as    *)
(* long as that level goes on (showprocs.c:4352-4383).                       *)
Follows(k, i) == \E l \in k + 1 .. Len(shown) :
                   shown[l].cg # 1 /\ Parent(shown[l].cg) = Parent(i)
LinesFit ==
  \A k \in DOMAIN shown : LET i == shown[k].cg IN i # 1 =>
    /\ shown[k].stub <=> ~Follows(k, i)
    /\ \A j \in DOMAIN chain \ {1} : Under(i, j) =>
         (chain[j].depth - 1 \in shown[k].vlines <=> Follows(k, j))

(* What is drawn is the tree, in the order of the use of the resource.       *)
ListRight == SortedTree /\ LinesFit
=============================================================================
