-------------------------- MODULE TargetAllocation --------------------------
(***************************************************************************)
(* What an allocation strategy promises to the rest of the target          *)
(* allocator (the interface Allocator): the targets and the collectors are *)
(* set in one indivisible step each, every target that was set has exactly *)
(* one collector, and the collector is one of those that were set.         *)
(***************************************************************************)
CONSTANTS
    Collectors,   \* the names a collector pod may have
    Targets,      \* the hashes a target item may have
    None          \* the collector of a target that is not allocated

VARIABLES
    collectors,   \* the collectors set last
    assigned      \* the collector of each target, or None

vars == <<collectors, assigned>>

\* Every collector held is a collector and every target is with one or with none,
\* as the maps Collectors and TargetItems return of an allocator are typed.
TypeOK ==
    /\ collectors \in SUBSET Collectors
    /\ assigned \in [Targets -> Collectors \cup {None}]

Init ==
    /\ collectors = {}
    /\ assigned = [t \in Targets |-> None]

\* The targets become new.  A target that stays keeps its collector, any
\* other gets one; without a collector nothing happens.
SetTargets(new) ==
    /\ collectors # {}
    /\ assigned' \in [Targets -> collectors \cup {None}]
    /\ \A t \in Targets :
        /\ assigned'[t] # None <=> t \in new
        /\ t \in new /\ assigned[t] # None => assigned'[t] = assigned[t]
    /\ UNCHANGED collectors

\* The collectors become new, and no target is lost or invented.
SetCollectors(new) ==
    /\ new # {}
    /\ collectors' = new
    /\ assigned' \in [Targets -> new \cup {None}]
    /\ \A t \in Targets : assigned'[t] # None <=> assigned[t] # None

Next ==
    \/ \E new \in SUBSET Targets : SetTargets(new)
    \/ \E new \in SUBSET Collectors : SetCollectors(new)

Spec == Init /\ [][Next]_vars

=============================================================================
