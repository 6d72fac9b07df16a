-------------------------- MODULE MCAllocatorServer --------------------------
(* AllocatorServer for TLC: two jobs, the targets of each given by the .cfg. *)
EXTENDS AllocatorServer

CONSTANTS TargetsOfJ1, TargetsOfJ2

MCTargets == TargetsOfJ1 \cup TargetsOfJ2
MCJobs == {"j1", "j2"}
MCJobOf == [t \in MCTargets |-> IF t \in TargetsOfJ1 THEN "j1" ELSE "j2"]

=============================================================================
