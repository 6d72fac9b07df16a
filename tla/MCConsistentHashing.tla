------------------------- MODULE MCConsistentHashing -------------------------
(* ConsistentHashing for TLC: two jobs, and a ring on which the collectors   *)
(* and the targets have places; a target belongs to the next collector.      *)
EXTENDS ConsistentHashing, TLC

MCCollectors == {2, 4, 6}
MCTargets == {1, 3, 5}
MCJobs == {"j1", "j2"}
MCJobOf == [t \in MCTargets |-> IF t < 4 THEN "j1" ELSE "j2"]

Places == 8
Distance(t, c) == (c - t) % Places
MCLocateKey ==
    [members \in (SUBSET MCCollectors) \ {{}} |->
        [t \in MCTargets |->
            CHOOSE c \in members :
                \A d \in members : Distance(t, c) <= Distance(t, d)]]

=============================================================================
