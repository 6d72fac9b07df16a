-------------------------- MODULE ConsistentHashing --------------------------
(***************************************************************************)
(* The allocation strategy consistent-hashing: a target goes to the        *)
(* collector that a consistent hash of its hash names.                     *)
(***************************************************************************)
EXTENDS AllocatorState

CONSTANT
    LocateKey     \* the member of a set of collectors that owns a target

\* The library buraksezer/consistent places its partitions anew from the
\* sorted hashes of its members whenever one comes or goes, so the owner of a
\* key depends on the members alone, not on how they came to be so.
ASSUME LocateKeyAssumption ==
    \A members \in (SUBSET Collectors) \ {{}}, t \in Targets :
        LocateKey[members][t] \in members

VARIABLES
    consistentHasher,   \* the members of the hash ring
    reallocating        \* the items the loop of handleCollectors has not met

ringVars == <<allocatorVars, consistentHasher, reallocating>>
ring == <<consistentHasher, reallocating>>

RingInit ==
    /\ AllocatorInit
    /\ consistentHasher = {}
    /\ reallocating = {}

-----------------------------------------------------------------------------
\* Mutant of addTargetToOwner: the previous collector's NumTargets stays.
addTargetKeepsCount(t) ==
    LET previous == targetItems[t]
        owner == LocateKey[consistentHasher][t]
        index == IF previous \in collectors
                 THEN [targetItemsPerJobPerCollector EXCEPT
                           ![previous][JobOf[t]] = @ \ {t}]
                 ELSE targetItemsPerJobPerCollector
    IN  /\ targetItems' = [targetItems EXCEPT ![t] = owner]
        /\ targetItemsPerJobPerCollector' =
               [index EXCEPT ![owner][JobOf[t]] = @ \cup {t}]
        /\ numTargets' = [numTargets EXCEPT ![owner] = @ + 1]

\* addTargetToTargetItems, with addCollectorTargetItemMapping: an item that
\* has a collector leaves it first, then goes to the owner of its hash.
addTargetToOwner(t) ==
    LET previous == targetItems[t]
        owner == LocateKey[consistentHasher][t]
        counts == IF previous \in collectors
                  THEN [numTargets EXCEPT ![previous] = @ - 1]
                  ELSE numTargets
        index == IF previous \in collectors
                 THEN [targetItemsPerJobPerCollector EXCEPT
                           ![previous][JobOf[t]] = @ \ {t}]
                 ELSE targetItemsPerJobPerCollector
    IN  /\ targetItems' = [targetItems EXCEPT ![t] = owner]
        /\ targetItemsPerJobPerCollector' =
               [index EXCEPT ![owner][JobOf[t]] = @ \cup {t}]
        /\ numTargets' = [counts EXCEPT ![owner] = @ + 1]

\* One iteration of the addition loop of handleTargets that adds an item.
AddTargetToOwner(t) ==
    /\ tpc = "additions"
    /\ t \in targetsDiff.additions \ Present
    /\ addTargetToOwner(t)
    /\ UNCHANGED <<collectors, m, targetsCall, collectorsCall, published, ring>>

\* Mutant of HandleCollectors: a removed collector stays in the ring.
HandleCollectorsKeepsMember ==
    /\ LockSetCollectors
    /\ consistentHasher' = consistentHasher \cup collectorsDiff'.additions
    /\ reallocating' = IF collectorsDiff' = NoChanges THEN {} ELSE Present

\* Mutant of HandleCollectors: only the items of removed collectors move.
HandleCollectorsOrphansOnly ==
    /\ LockSetCollectors
    /\ consistentHasher' = (consistentHasher \ collectorsDiff'.removals)
                               \cup collectorsDiff'.additions
    /\ reallocating' = {t \in Targets : targetItems[t]
                                            \in collectorsDiff'.removals}

\* The start of SetCollectors: the ring follows the collectors, and every item
\* is to be allocated again unless nothing has changed.
HandleCollectors ==
    /\ LockSetCollectors
    /\ consistentHasher' = (consistentHasher \ collectorsDiff'.removals)
                               \cup collectorsDiff'.additions
    /\ reallocating' = IF collectorsDiff' = NoChanges THEN {} ELSE Present

\* Mutant of ReallocateToOwner: an item whose collector is gone is deleted.
ReallocateToOwnerDrops(t) ==
    /\ cpc = "reallocate"
    /\ t \in reallocating
    /\ IF targetItems[t] \in collectors
       THEN addTargetToOwner(t)
       ELSE /\ targetItems' = [targetItems EXCEPT ![t] = None]
            /\ UNCHANGED <<numTargets, targetItemsPerJobPerCollector>>
    /\ reallocating' = reallocating \ {t}
    /\ UNCHANGED <<collectors, m, targetsCall, collectorsCall, published,
                   consistentHasher>>

\* One iteration of the last loop of handleCollectors.
ReallocateToOwner(t) ==
    /\ cpc = "reallocate"
    /\ t \in reallocating
    /\ addTargetToOwner(t)
    /\ reallocating' = reallocating \ {t}
    /\ UNCHANGED <<collectors, m, targetsCall, collectorsCall, published,
                   consistentHasher>>

\* The loop, and SetCollectors, end when every item has been met.
ReturnSetCollectorsOnRing ==
    /\ reallocating = {}
    /\ UnlockSetCollectors
    /\ UNCHANGED ring

-----------------------------------------------------------------------------
RingSetTargetsStep ==
    \/ DropTargets /\ UNCHANGED ring
    \/ LockSetTargets /\ UNCHANGED ring
    \/ \E t \in Targets : RemoveTarget(t) /\ UNCHANGED ring
    \/ EndRemovals /\ UNCHANGED ring
    \/ \E t \in Targets : AddTargetToOwner(t)
    \/ ReturnSetTargets /\ UNCHANGED ring

RingSetCollectorsStep ==
    \/ HandleCollectors
    \/ \E t \in Targets : ReallocateToOwner(t)
    \/ ReturnSetCollectorsOnRing

RingNext ==
    \/ \E new \in SUBSET Targets : CallSetTargets(new) /\ UNCHANGED ring
    \/ \E new \in SUBSET Collectors : CallSetCollectors(new) /\ UNCHANGED ring
    \/ RingSetTargetsStep
    \/ RingSetCollectorsStep

RingSpec == RingInit /\ [][RingNext]_ringVars

-----------------------------------------------------------------------------
\* Every variable of the allocator and of the ring has its type.
RingTypeOK ==
    /\ AllocatorTypeOK
    /\ consistentHasher \in SUBSET Collectors
    /\ reallocating \in SUBSET Targets

\* The ring never holds a collector the allocator does not: the owner that
\* addTargetToTargetItems looks up in collectors is never nil.  And an item
\* whose collector is gone is one the loop has yet to meet.
OwnersAreCollectors ==
    /\ consistentHasher = collectors
    /\ \A t \in Present : targetItems[t] \notin collectors => t \in reallocating

\* Whatever was added and removed before, a target that readers see is on the
\* collector that the present collectors and its own hash decide: an allocator
\* that restarts gives every target back to the collector that had it.
HistoryIndependent ==
    \A t \in Targets :
        published.targetItems[t] # None =>
            published.targetItems[t] = LocateKey[published.collectors][t]

\* The items the loop of handleCollectors has still to meet are the only ones
\* that need not be where the ring puts them.
PlacedByRing ==
    /\ reallocating \subseteq Present
    /\ reallocating # {} => cpc = "reallocate"
    /\ \A t \in Present \ reallocating : targetItems[t] = LocateKey[collectors][t]
    /\ cpc = "reallocate" =>
        /\ collectors # {} /\ collectors = newCollectors
        /\ \A t \in Targets : targetItems[t] = None
                                  <=> published.targetItems[t] = None

\* The invariant that every step preserves, from which the others follow.
RingInvariant ==
    AllocatorInvariant /\ OwnersAreCollectors /\ PlacedByRing
        /\ HistoryIndependent

=============================================================================
