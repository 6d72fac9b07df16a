--------------------------- MODULE MCLeastWeighted ---------------------------
(* LeastWeighted for TLC: two jobs, the targets of each given by the .cfg.  *)
EXTENDS LeastWeighted, TLC

CONSTANTS TargetsOfJ1, TargetsOfJ2

MCTargets == TargetsOfJ1 \cup TargetsOfJ2
MCJobs == {"j1", "j2"}
MCJobOf == [t \in MCTargets |-> IF t \in TargetsOfJ1 THEN "j1" ELSE "j2"]

\* Collectors are interchangeable, and so are the targets of one job.
MCSymmetry == Permutations(Collectors) \cup Permutations(TargetsOfJ1)
                  \cup Permutations(TargetsOfJ2)

=============================================================================
