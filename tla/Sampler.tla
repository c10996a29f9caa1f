------------------------------ MODULE Sampler -------------------------------
(***************************************************************************)
(* The parts of a sample, as engine() calls them: the loop with its        *)
(* signals, the counters of the system (photosyst, deviatsyst), the        *)
(* cgroups (photocgroup, deviatcgroup) and their list on the screen, the   *)
(* list of the processes (photoproc), the GPU statistics (gpumergeproc)    *)
(* and the network statistics of exited processes (netatop_exitstore).     *)
(* They share nothing but their order, so a behaviour follows one of them  *)
(* and the others stay as they are.                                        *)
(***************************************************************************)
EXTENDS Engine, PhotoProc, GpuMerge, NetAtop, SysDev, Cgroups, CgroupList

CONSTANT Parts   \* the parts followed

ASSUME SamplerAssumption ==
  Parts \subseteq {"loop", "list", "gpu", "net", "devices", "cgroups", "cgroup list"}

VARIABLE part
vars == <<part, evars, pvars, gvars, nvars, devvars, cgvars, lvars>>

Init ==
  /\ part \in Parts
  /\ IF part = "loop" THEN EngineInit ELSE EngineOff
  /\ IF part = "list" THEN PhotoInit ELSE PhotoOff
  /\ IF part = "gpu" THEN GpuInit ELSE GpuOff
  /\ NetInit
  /\ IF part = "devices" THEN DevInit ELSE DevOff
  /\ IF part = "cgroups" THEN CgInit ELSE CgOff
  /\ IF part = "cgroup list" THEN ListInit ELSE ListOff

Next ==
  \/ part = "loop" /\ EngineNext
     /\ UNCHANGED <<part, pvars, gvars, nvars, devvars, cgvars, lvars>>
  \/ part = "list" /\ PhotoNext
     /\ UNCHANGED <<part, evars, gvars, nvars, devvars, cgvars, lvars>>
  \/ part = "gpu" /\ GpuMergeProc
     /\ UNCHANGED <<part, evars, pvars, nvars, devvars, cgvars, lvars>>
  \/ part = "net" /\ NetNext
     /\ UNCHANGED <<part, evars, pvars, gvars, devvars, cgvars, lvars>>
  \/ part = "devices" /\ DevNext
     /\ UNCHANGED <<part, evars, pvars, gvars, nvars, cgvars, lvars>>
  \/ part = "cgroups" /\ CgNext
     /\ UNCHANGED <<part, evars, pvars, gvars, nvars, devvars, lvars>>
  \/ part = "cgroup list" /\ ListNext
     /\ UNCHANGED <<part, evars, pvars, gvars, nvars, devvars, cgvars>>

Spec == Init /\ [][Next]_vars
FairSpec == Spec /\ EngineFair
=============================================================================
