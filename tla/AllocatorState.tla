--------------------------- MODULE AllocatorState ---------------------------
(***************************************************************************)
(* The state that both allocation strategies of the target allocator keep, *)
(* and what their two writers, SetTargets and SetCollectors, do alike.     *)
(*                                                                         *)
(* SetTargets has one caller, the goroutine of target.Discoverer.Watch,    *)
(* and SetCollectors has one, the goroutine of collector.Client.Watch; the *)
(* HTTP handlers read.  The mutex m is held for a whole SetTargets or      *)
(* SetCollectors, and the loops in them run in the order of a Go map,      *)
(* which is any order: one iteration is one step of the specification.     *)
(*                                                                         *)
(* A map entry that is absent and one that is empty are the same to every  *)
(* reader of targetItemsPerJobPerCollector, so it is a total function.     *)
(***************************************************************************)
EXTENDS Integers, FiniteSets, Diff

CONSTANTS
    Collectors,   \* the names a collector pod may have
    Targets,      \* the hashes a target item may have
    Jobs,         \* the scrape jobs
    JobOf,        \* Item.JobName of each target
    None          \* the collector of a target that is not in targetItems

ASSUME AllocatorAssumption ==
    /\ IsFiniteSet(Targets)
    /\ JobOf \in [Targets -> Jobs]
    /\ None \notin Collectors

VARIABLES
    collectors,                     \* the keys of the map collectors
    numTargets,                     \* Collector.NumTargets of each of them
    targetItems,                    \* Item.CollectorName of each target
    targetItemsPerJobPerCollector,  \* the targets of each collector and job
    m,                              \* who holds the mutex for writing
    tpc, newTargets, targetsDiff,   \* the goroutine in SetTargets
    cpc, newCollectors, collectorsDiff,  \* the goroutine in SetCollectors
    published                       \* history: what readers saw last

items == <<collectors, numTargets, targetItems, targetItemsPerJobPerCollector>>
targetsCall == <<tpc, newTargets, targetsDiff>>
collectorsCall == <<cpc, newCollectors, collectorsDiff>>
allocatorVars == <<items, m, targetsCall, collectorsCall, published>>

-----------------------------------------------------------------------------
NoChanges == [additions |-> {}, removals |-> {}]

\* The targets that are in targetItems.
Present == {t \in Targets : targetItems[t] # None}

\* What the HTTP handlers can read of the allocator: the collectors and the
\* collector of each target.
Visible == [collectors |-> collectors, targetItems |-> targetItems]

\* The maps of an allocator hold collectors, targets and counts, and each
\* goroutine is at one of its places.
AllocatorTypeOK ==
    /\ collectors \in SUBSET Collectors
    /\ numTargets \in [Collectors -> Int]
    /\ targetItems \in [Targets -> Collectors \cup {None}]
    /\ targetItemsPerJobPerCollector \in
           [Collectors -> [Jobs -> SUBSET Targets]]
    /\ m \in {"free", "SetTargets", "SetCollectors"}
    /\ tpc \in {"idle", "lock", "removals", "additions"}
    /\ newTargets \in SUBSET Targets
    /\ targetsDiff \in Changes(Targets)
    /\ cpc \in {"idle", "lock", "reallocate"}
    /\ newCollectors \in SUBSET Collectors
    /\ collectorsDiff \in Changes(Collectors)
    /\ published \in [collectors : SUBSET Collectors,
                      targetItems : [Targets -> Collectors \cup {None}]]

\* A new allocator: every map is empty.
AllocatorInit ==
    /\ collectors = {}
    /\ numTargets = [c \in Collectors |-> 0]
    /\ targetItems = [t \in Targets |-> None]
    /\ targetItemsPerJobPerCollector =
           [c \in Collectors |-> [j \in Jobs |-> {}]]
    /\ m = "free"
    /\ tpc = "idle" /\ newTargets = {} /\ targetsDiff = NoChanges
    /\ cpc = "idle" /\ newCollectors = {} /\ collectorsDiff = NoChanges
    /\ published = Visible

-----------------------------------------------------------------------------
\* SetTargets is called, and the filter has been applied before the mutex is
\* asked for: targets are the targets the filter kept.
CallSetTargets(targets) ==
    /\ tpc = "idle"
    /\ tpc' = "lock"
    /\ newTargets' = targets
    /\ UNCHANGED <<items, m, targetsDiff, collectorsCall, published>>

\* Mutant of DropTargets: wait for a collector instead of giving up.
DropTargetsWaits ==
    /\ tpc = "lock" /\ m = "free"
    /\ collectors = {}
    /\ UNCHANGED allocatorVars

\* Without a collector SetTargets gives the mutex back and forgets the targets.
DropTargets ==
    /\ tpc = "lock" /\ m = "free"
    /\ collectors = {}
    /\ tpc' = "idle"
    /\ newTargets' = {}
    /\ UNCHANGED <<items, m, targetsDiff, collectorsCall, published>>

\* Mutant of LockSetTargets: every target is taken out and put in again.
LockSetTargetsRebuilds ==
    /\ tpc = "lock" /\ m = "free"
    /\ collectors # {}
    /\ m' = "SetTargets"
    /\ tpc' = "removals"
    /\ targetsDiff' = [additions |-> newTargets, removals |-> Present]
    /\ UNCHANGED <<items, newTargets, collectorsCall, published>>

\* The mutex is taken and the new targets compared with the ones held.
LockSetTargets ==
    /\ tpc = "lock" /\ m = "free"
    /\ collectors # {}
    /\ m' = "SetTargets"
    /\ tpc' = "removals"
    /\ targetsDiff' = Maps(HashKeyed(Present), HashKeyed(newTargets))
    /\ UNCHANGED <<items, newTargets, collectorsCall, published>>

\* Mutant of RemoveTarget: the item stays in the index.
RemoveTargetKeepsIndex(t) ==
    /\ tpc = "removals"
    /\ t \in targetsDiff.removals \cap Present
    /\ numTargets' = [numTargets EXCEPT ![targetItems[t]] = @ - 1]
    /\ targetItems' = [targetItems EXCEPT ![t] = None]
    /\ UNCHANGED <<collectors, targetItemsPerJobPerCollector, m, targetsCall,
                   collectorsCall, published>>

\* Mutant of RemoveTarget: NumTargets is not decremented.
RemoveTargetKeepsCount(t) ==
    /\ tpc = "removals"
    /\ t \in targetsDiff.removals \cap Present
    /\ targetItemsPerJobPerCollector' =
           [targetItemsPerJobPerCollector EXCEPT
                ![targetItems[t]][JobOf[t]] = @ \ {t}]
    /\ targetItems' = [targetItems EXCEPT ![t] = None]
    /\ UNCHANGED <<collectors, numTargets, m, targetsCall, collectorsCall,
                   published>>

\* One iteration of the removal loop of handleTargets.
RemoveTarget(t) ==
    /\ tpc = "removals"
    /\ t \in targetsDiff.removals \cap Present
    /\ LET c == targetItems[t] IN
       /\ numTargets' = [numTargets EXCEPT ![c] = @ - 1]
       /\ targetItemsPerJobPerCollector' =
              [targetItemsPerJobPerCollector EXCEPT ![c][JobOf[t]] = @ \ {t}]
    /\ targetItems' = [targetItems EXCEPT ![t] = None]
    /\ UNCHANGED <<collectors, m, targetsCall, collectorsCall, published>>

\* Mutant of EndRemovals: the loop ends too early.
EndRemovalsEarly ==
    /\ tpc = "removals"
    /\ tpc' = "additions"
    /\ UNCHANGED <<items, m, newTargets, targetsDiff, collectorsCall, published>>

\* The removal loop ends when none of the removals is left.
EndRemovals ==
    /\ tpc = "removals"
    /\ targetsDiff.removals \cap Present = {}
    /\ tpc' = "additions"
    /\ UNCHANGED <<items, m, newTargets, targetsDiff, collectorsCall, published>>

\* The addition loop skips the items that are there; it ends, and SetTargets
\* returns, when all of the additions are there.
ReturnSetTargets ==
    /\ tpc = "additions"
    /\ targetsDiff.additions \subseteq Present
    /\ m' = "free"
    /\ tpc' = "idle" /\ newTargets' = {} /\ targetsDiff' = NoChanges
    /\ published' = Visible
    /\ UNCHANGED <<items, collectorsCall>>

\* SetCollectors is called: no collectors, no effect.
CallSetCollectors(new) ==
    /\ cpc = "idle"
    /\ new # {}
    /\ cpc' = "lock"
    /\ newCollectors' = new
    /\ UNCHANGED <<items, m, targetsCall, collectorsDiff, published>>

\* The mutex is taken, the new collectors compared with the ones held, the
\* removed ones cleared and the new ones inserted with no target.
LockSetCollectors ==
    LET diff == Maps(HashKeyed(collectors), HashKeyed(newCollectors)) IN
    /\ cpc = "lock" /\ m = "free"
    /\ m' = "SetCollectors"
    /\ cpc' = "reallocate"
    /\ collectorsDiff' = diff
    /\ collectors' = (collectors \ diff.removals) \cup diff.additions
    /\ numTargets' = [c \in Collectors |->
                          IF c \in diff.additions THEN 0 ELSE numTargets[c]]
    /\ targetItemsPerJobPerCollector' =
           [c \in Collectors |->
                IF c \in diff.removals THEN [j \in Jobs |-> {}]
                ELSE targetItemsPerJobPerCollector[c]]
    /\ UNCHANGED <<targetItems, targetsCall, newCollectors, published>>

\* SetCollectors returns.
UnlockSetCollectors ==
    /\ cpc = "reallocate"
    /\ m' = "free"
    /\ cpc' = "idle" /\ newCollectors' = {} /\ collectorsDiff' = NoChanges
    /\ published' = Visible
    /\ UNCHANGED <<items, targetsCall>>

-----------------------------------------------------------------------------
\* The targets of collector c, according to the items themselves.
TargetsOf(c) == {t \in Targets : targetItems[t] = c}

\* The index GetTargetsForCollectorAndJob answers from agrees with the items
\* at every moment, those within the loops of SetTargets and SetCollectors
\* included: no answer lacks a target, names one twice or holds a nil item.
IndexMatchesItems ==
    \A c \in Collectors, j \in Jobs :
        targetItemsPerJobPerCollector[c][j] =
            IF c \in collectors THEN {t \in TargetsOf(c) : JobOf[t] = j}
            ELSE {}

\* NumTargets, which decides where the next target goes, never drifts from
\* the number of targets the collector has.
CountsMatchItems ==
    \A c \in collectors : numTargets[c] = Cardinality(TargetsOf(c))

\* The mutex has the holder the program counters say it has, and while nobody
\* holds it the readers see the state as it is.
MutexHeld ==
    /\ m = "SetTargets" <=> tpc \in {"removals", "additions"}
    /\ m = "SetCollectors" <=> cpc = "reallocate"
    /\ m = "free" => published = Visible
    /\ cpc = "lock" => newCollectors # {}
    /\ \A t \in Targets : published.targetItems[t]
                              \in published.collectors \cup {None}

\* Target t, which is a target of the call in progress, was already allocated.
Kept(t) == t \in newTargets /\ published.targetItems[t] # None

\* What the loops of handleTargets have done so far to the published state.
SetTargetsLoop ==
    tpc \in {"removals", "additions"} =>
        /\ collectors # {} /\ collectors = published.collectors
        /\ \A t \in Targets :
            /\ t \in targetsDiff.removals <=>
                   published.targetItems[t] # None /\ t \notin newTargets
            /\ t \in targetsDiff.additions <=>
                   published.targetItems[t] = None /\ t \in newTargets
            /\ Kept(t) => targetItems[t] = published.targetItems[t]
            /\ t \in targetsDiff.removals =>
                   targetItems[t] \in {published.targetItems[t], None}
            /\ t \in targetsDiff.additions =>
                   targetItems[t] \in collectors \cup {None}
            /\ published.targetItems[t] = None /\ t \notin newTargets
                   => targetItems[t] = None
            /\ tpc = "removals" /\ t \in targetsDiff.additions
                   => targetItems[t] = None
            /\ tpc = "additions" /\ t \in targetsDiff.removals
                   => targetItems[t] = None

\* What both strategies keep true in every step.
AllocatorInvariant ==
    MutexHeld /\ SetTargetsLoop /\ IndexMatchesItems /\ CountsMatchItems

\* Both writers are atomic to the readers, and keep the promise of a strategy.
Allocation == INSTANCE TargetAllocation WITH
    collectors <- published.collectors, assigned <- published.targetItems

\* What readers see evolves as TargetAllocation says: every target that is
\* held is on a collector that is held, and changes are whole calls.
ImplementsAllocation == Allocation!Spec

\* A call that is not dropped takes effect as a whole: when SetTargets returns
\* the items are those it was called with, and when SetCollectors returns the
\* collectors are, whatever was there before and in whatever order its loops
\* went.
CallsTakeEffect ==
    [][/\ tpc = "additions" /\ tpc' = "idle" => Allocation!SetTargets(newTargets)
       /\ cpc = "reallocate" /\ cpc' = "idle"
              => Allocation!SetCollectors(newCollectors)
      ]_allocatorVars

=============================================================================
