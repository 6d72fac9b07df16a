---------------------------- MODULE LeastWeighted ----------------------------
(***************************************************************************)
(* The allocation strategy least-weighted: a target goes to a collector    *)
(* that has the fewest targets, and moves only when its collector goes.    *)
(***************************************************************************)
EXTENDS AllocatorState

vars == allocatorVars

Init == AllocatorInit

-----------------------------------------------------------------------------
\* Mutant of findNextCollector: the comparison is forgotten.
findNextCollectorAny == collectors

\* The collectors findNextCollector may return: the loop runs over a map in
\* any order and keeps the first of those with the fewest targets.
findNextCollector ==
    {c \in collectors : \A d \in collectors : numTargets[c] <= numTargets[d]}

\* addTargetToTargetItems, with addCollectorTargetItemMapping.
addTargetToTargetItems(t) ==
    \E c \in findNextCollector :
        /\ targetItems' = [targetItems EXCEPT ![t] = c]
        /\ targetItemsPerJobPerCollector' =
               [targetItemsPerJobPerCollector EXCEPT
                    ![c][JobOf[t]] = @ \cup {t}]
        /\ numTargets' = [numTargets EXCEPT ![c] = @ + 1]

\* One iteration of the addition loop of handleTargets that adds an item.
AddTarget(t) ==
    /\ tpc = "additions"
    /\ t \in targetsDiff.additions \ Present
    /\ addTargetToTargetItems(t)
    /\ UNCHANGED <<collectors, m, targetsCall, collectorsCall, published>>

\* The targets that handleCollectors has still to move.
Orphans == {t \in Targets : targetItems[t] \in collectorsDiff.removals}

\* Mutant of ReallocateTarget: the items of a removed collector are deleted.
ReallocateTargetDrops(t) ==
    /\ cpc = "reallocate"
    /\ t \in Orphans
    /\ targetItems' = [targetItems EXCEPT ![t] = None]
    /\ UNCHANGED <<collectors, numTargets, targetItemsPerJobPerCollector, m,
                   targetsCall, collectorsCall, published>>

\* One iteration of the last loop of handleCollectors that moves an item.
ReallocateTarget(t) ==
    /\ cpc = "reallocate"
    /\ t \in Orphans
    /\ addTargetToTargetItems(t)
    /\ UNCHANGED <<collectors, m, targetsCall, collectorsCall, published>>

\* Mutant of ReturnSetCollectors: no item is re-allocated.
ReturnSetCollectorsEarly == UnlockSetCollectors

\* The loop, and SetCollectors, end when no item is orphaned.
ReturnSetCollectors ==
    /\ Orphans = {}
    /\ UnlockSetCollectors

-----------------------------------------------------------------------------
SetTargetsStep ==
    \/ DropTargets
    \/ LockSetTargets
    \/ \E t \in Targets : RemoveTarget(t)
    \/ EndRemovals
    \/ \E t \in Targets : AddTarget(t)
    \/ ReturnSetTargets

SetCollectorsStep ==
    \/ LockSetCollectors
    \/ \E t \in Targets : ReallocateTarget(t)
    \/ ReturnSetCollectors

Next ==
    \/ \E new \in SUBSET Targets : CallSetTargets(new)
    \/ \E new \in SUBSET Collectors : CallSetCollectors(new)
    \/ SetTargetsStep
    \/ SetCollectorsStep

Spec == Init /\ [][Next]_vars

-----------------------------------------------------------------------------
\* Every variable of the allocator has its type.
TypeOK == AllocatorTypeOK

\* An item names a collector that is gone only while SetCollectors holds the
\* mutex and has yet to move it: handleTargets never takes the NumTargets of
\* a nil collector, and no reader sees a target nobody scrapes.
OnlyOrphansLackCollector ==
    \A t \in Present :
        targetItems[t] \notin collectors => cpc = "reallocate" /\ t \in Orphans

\* What the loop of handleCollectors has done so far to the published state.
SetCollectorsLoop ==
    cpc = "reallocate" =>
        /\ collectors # {} /\ collectors = newCollectors
        /\ collectorsDiff.removals = published.collectors \ newCollectors
        /\ \A t \in Targets :
            /\ targetItems[t] \in collectors \cup collectorsDiff.removals \cup {None}
            /\ targetItems[t] = None <=> published.targetItems[t] = None
            /\ published.targetItems[t] \in newCollectors
                   => targetItems[t] = published.targetItems[t]

\* Least weighted: a collector that got a target in the call that holds the
\* mutex has at most one target more than any other collector has.
GainersAreLeast ==
    \A t \in Present, d \in collectors :
        /\ targetItems[t] \in collectors
        /\ targetItems[t] # published.targetItems[t]
        => numTargets[targetItems[t]] <= numTargets[d] + 1

\* TestNoCollectorReassignment and more: between two states that readers see,
\* a target that stays and whose collector stays is not moved.
Moved(t) ==
    /\ published.targetItems[t] \in published'.collectors
    /\ published'.targetItems[t] \notin {None, published.targetItems[t]}

StableAssignment == [][\A t \in Targets : ~Moved(t)]_published

\* The numbers of targets of two collectors differ by at most one.
Balanced(state) ==
    \A c, d \in state.collectors :
        Cardinality({t \in Targets : state.targetItems[t] = c})
            <= Cardinality({t \in Targets : state.targetItems[t] = d}) + 1

\* As long as no target disappears and no collector is new, a balanced
\* allocation stays balanced, also when collectors go.
BalanceKept ==
    [][(/\ Balanced(published)
        /\ published'.collectors \subseteq published.collectors
        /\ \A t \in Targets : published'.targetItems[t] = None
                                  => published.targetItems[t] = None)
       => Balanced(published')]_published

\* The invariant that every step preserves, from which the others follow: the
\* mutex, the loops in progress, the index, the counts and the gains so far.
LoopInvariant ==
    AllocatorInvariant /\ SetCollectorsLoop /\ GainersAreLeast

=============================================================================
