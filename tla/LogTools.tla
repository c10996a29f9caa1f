------------------------------ MODULE LogTools ------------------------------
(***************************************************************************)
(* The programs that make one raw log of others: atopconvert, atopcat and  *)
(* atophide.  A behaviour is a run of one of them.                         *)
(***************************************************************************)
EXTENDS Convert, AtopCat, AtopHide

VARIABLE tool   \* the program that runs

vars == <<tool, cvars, catvars, hvars>>

Init ==
  /\ tool \in {"atopconvert", "atopcat", "atophide"}
  /\ IF tool = "atopconvert" THEN ConvertInit ELSE ConvertOff
  /\ IF tool = "atopcat" THEN CatInit ELSE CatOff
  /\ IF tool = "atophide" THEN HideInit ELSE HideOff

Next ==
  \/ tool = "atopconvert" /\ ConvertStep /\ UNCHANGED <<tool, catvars, hvars>>
  \/ tool = "atopcat" /\ CatNext /\ UNCHANGED <<tool, cvars, hvars>>
  \/ tool = "atophide" /\ HideNext /\ UNCHANGED <<tool, cvars, catvars>>

Spec == Init /\ [][Next]_vars
=============================================================================
