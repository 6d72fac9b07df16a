--------------------------- MODULE AllocatorProofs ---------------------------
(***************************************************************************)
(* Proofs about the two allocation strategies and about the answers of the *)
(* HTTP server, for every set of collectors, every finite set of targets   *)
(* and every set of jobs: first what the strategies share (what diff.Maps  *)
(* returns for their maps, and that the steps of SetTargets and            *)
(* SetCollectors keep the index and the counts in line with the items),    *)
(* then consistent hashing, least-weighted and the server.                 *)
(***************************************************************************)
EXTENDS AllocatorServer, ConsistentHashing, FiniteSetTheorems, TLAPS

\* The prover of a leaf that names none.
USE ZenonT(60)

\* For maps keyed by the hash of their values, diff.Maps returns the plain
\* differences of the two sets of keys.
LEMMA DiffOfHashKeyed ==
    ASSUME NEW S, NEW T
    PROVE  Maps(HashKeyed(S), HashKeyed(T))
               = [additions |-> T \ S, removals |-> S \ T]
BY DEF Maps, HashKeyed

-----------------------------------------------------------------------------
\* The books of an allocator with collectors cs: the counts n and the index ix
\* say of the items it what is true of them.
Books(cs, n, it, ix) ==
    /\ \A c \in Collectors, j \in Jobs :
        ix[c][j] = IF c \in cs
                   THEN {t \in {s \in Targets : it[s] = c} : JobOf[t] = j}
                   ELSE {}
    /\ \A c \in cs : n[c] = Cardinality({t \in Targets : it[t] = c})

\* The types of the books.
BooksType(cs, n, it, ix) ==
    /\ cs \in SUBSET Collectors
    /\ n \in [Collectors -> Int]
    /\ it \in [Targets -> Collectors \cup {None}]
    /\ ix \in [Collectors -> [Jobs -> SUBSET Targets]]

\* The invariants about index and counts are what Books says of the state.
LEMMA BooksAreInvariants ==
    IndexMatchesItems /\ CountsMatchItems
        <=> Books(collectors, numTargets, targetItems,
                  targetItemsPerJobPerCollector)
BY DEF IndexMatchesItems, CountsMatchItems, Books, TargetsOf

\* A target that leaves a collector: the removal loop of handleTargets, and
\* the first half of addTargetToTargetItems of consistent-hashing.
LEMMA LeaveKeepsBooks ==
    ASSUME NEW cs, NEW n, NEW it, NEW ix, BooksType(cs, n, it, ix),
           Books(cs, n, it, ix),
           NEW t \in Targets, NEW c \in cs, it[t] = c
    PROVE  LET n2 == [n EXCEPT ![c] = @ - 1]
               it2 == [it EXCEPT ![t] = None]
               ix2 == [ix EXCEPT ![c][JobOf[t]] = @ \ {t}]
           IN  BooksType(cs, n2, it2, ix2) /\ Books(cs, n2, it2, ix2)
<1> DEFINE n2 == [n EXCEPT ![c] = @ - 1]
           it2 == [it EXCEPT ![t] = None]
           ix2 == [ix EXCEPT ![c][JobOf[t]] = @ \ {t}]
<1>1. BooksType(cs, n2, it2, ix2)
  BY AllocatorAssumption, SMTT(30) DEF BooksType
<1>2. ASSUME NEW d \in Collectors, NEW j \in Jobs
      PROVE  ix2[d][j] = IF d \in cs
                         THEN {u \in {s \in Targets : it2[s] = d} : JobOf[u] = j}
                         ELSE {}
  <2>1. ix2[d][j] = IF d = c /\ j = JobOf[t] THEN ix[d][j] \ {t} ELSE ix[d][j]
    BY AllocatorAssumption DEF BooksType
  <2>2. ix[d][j] = IF d \in cs THEN {u \in {s \in Targets : it[s] = d} : JobOf[u] = j}
                   ELSE {}
    BY DEF Books
  <2>3. \A s \in Targets : it2[s] = IF s = t THEN None ELSE it[s]
    BY DEF BooksType
  <2> HIDE DEF n2, it2, ix2
  <2>4. CASE d = c
    <3>1. {u \in {s \in Targets : it2[s] = d} : JobOf[u] = j}
              = IF j = JobOf[t]
                THEN {u \in {s \in Targets : it[s] = d} : JobOf[u] = j} \ {t}
                ELSE {u \in {s \in Targets : it[s] = d} : JobOf[u] = j}
      <4>1. d # None
        BY AllocatorAssumption
      <4> QED
        BY <2>3, <2>4, <4>1
    <3> QED
      BY <2>1, <2>2, <2>4, <3>1
  <2>5. CASE d # c
    <3>1. {s \in Targets : it2[s] = d} = {s \in Targets : it[s] = d}
      BY <2>3, <2>5, AllocatorAssumption
    <3> QED
      BY <2>1, <2>2, <2>5, <3>1
  <2> QED
    BY <2>4, <2>5
<1>3. ASSUME NEW d \in cs
      PROVE  n2[d] = Cardinality({s \in Targets : it2[s] = d})
  <2>1. CASE d = c
    <3>1. {s \in Targets : it2[s] = c} = {s \in Targets : it[s] = c} \ {t}
      BY AllocatorAssumption DEF BooksType
    <3>2. IsFiniteSet({s \in Targets : it[s] = c})
      BY AllocatorAssumption, FS_Subset
    <3>3. t \in {s \in Targets : it[s] = c}
      OBVIOUS
    <3>4. Cardinality({s \in Targets : it2[s] = c})
              = Cardinality({s \in Targets : it[s] = c}) - 1
      BY <3>1, <3>2, <3>3, FS_RemoveElement
    <3> QED
      BY <2>1, <3>4 DEF Books, BooksType
  <2>2. CASE d # c
    <3>1. {s \in Targets : it2[s] = d} = {s \in Targets : it[s] = d}
      BY <2>2, AllocatorAssumption DEF BooksType
    <3> QED
      BY <2>2, <3>1 DEF Books, BooksType
  <2> QED
    BY <2>1, <2>2
<1> QED
  BY <1>1, <1>2, <1>3 DEF Books

\* A target without a live collector joins one: addTargetToTargetItems.
LEMMA JoinKeepsBooks ==
    ASSUME NEW cs, NEW n, NEW it, NEW ix, BooksType(cs, n, it, ix),
           Books(cs, n, it, ix),
           NEW t \in Targets, NEW c \in cs, it[t] \notin cs
    PROVE  LET n2 == [n EXCEPT ![c] = @ + 1]
               it2 == [it EXCEPT ![t] = c]
               ix2 == [ix EXCEPT ![c][JobOf[t]] = @ \cup {t}]
           IN  BooksType(cs, n2, it2, ix2) /\ Books(cs, n2, it2, ix2)
<1> DEFINE n2 == [n EXCEPT ![c] = @ + 1]
           it2 == [it EXCEPT ![t] = c]
           ix2 == [ix EXCEPT ![c][JobOf[t]] = @ \cup {t}]
<1>1. BooksType(cs, n2, it2, ix2)
  BY AllocatorAssumption, SMTT(30) DEF BooksType
<1>2. ASSUME NEW d \in Collectors, NEW j \in Jobs
      PROVE  ix2[d][j] = IF d \in cs
                         THEN {u \in {s \in Targets : it2[s] = d} : JobOf[u] = j}
                         ELSE {}
  <2>1. ix2[d][j] = IF d = c /\ j = JobOf[t] THEN ix[d][j] \cup {t} ELSE ix[d][j]
    BY AllocatorAssumption DEF BooksType
  <2>2. ix[d][j] = IF d \in cs THEN {u \in {s \in Targets : it[s] = d} : JobOf[u] = j}
                   ELSE {}
    BY DEF Books
  <2>3. \A s \in Targets : it2[s] = IF s = t THEN c ELSE it[s]
    BY DEF BooksType
  <2> HIDE DEF n2, it2, ix2
  <2>4. CASE d = c
    <3>1. {u \in {s \in Targets : it2[s] = d} : JobOf[u] = j}
              = IF j = JobOf[t]
                THEN {u \in {s \in Targets : it[s] = d} : JobOf[u] = j} \cup {t}
                ELSE {u \in {s \in Targets : it[s] = d} : JobOf[u] = j}
      BY <2>3, <2>4
    <3> QED
      BY <2>1, <2>2, <2>4, <3>1
  <2>5. CASE d # c
    <3>1. d \in cs => {s \in Targets : it2[s] = d} = {s \in Targets : it[s] = d}
      BY <2>3, <2>5
    <3> QED
      BY <2>1, <2>2, <2>5, <3>1
  <2> QED
    BY <2>4, <2>5
<1>3. ASSUME NEW d \in cs
      PROVE  n2[d] = Cardinality({s \in Targets : it2[s] = d})
  <2>1. CASE d = c
    <3>1. {s \in Targets : it2[s] = c} = {s \in Targets : it[s] = c} \cup {t}
      BY DEF BooksType
    <3>2. IsFiniteSet({s \in Targets : it[s] = c})
      BY AllocatorAssumption, FS_Subset
    <3>3. t \notin {s \in Targets : it[s] = c}
      OBVIOUS
    <3>4. Cardinality({s \in Targets : it2[s] = c})
              = Cardinality({s \in Targets : it[s] = c}) + 1
      BY <3>1, <3>2, <3>3, FS_AddElement
    <3> QED
      BY <2>1, <3>4 DEF Books, BooksType
  <2>2. CASE d # c
    <3>1. {s \in Targets : it2[s] = d} = {s \in Targets : it[s] = d}
      BY <2>2 DEF BooksType
    <3> QED
      BY <2>2, <3>1 DEF Books, BooksType
  <2> QED
    BY <2>1, <2>2
<1> QED
  BY <1>1, <1>2, <1>3 DEF Books

-----------------------------------------------------------------------------
\* A step that leaves the items, the published state and the loops alone.
LEMMA ItemsUnchanged ==
    ASSUME IndexMatchesItems, CountsMatchItems, UNCHANGED items
    PROVE  IndexMatchesItems' /\ CountsMatchItems'
BY SMTT(30) DEF IndexMatchesItems, CountsMatchItems, TargetsOf, items

\* A new allocator satisfies the invariant.
LEMMA InitInvariant ==
    AllocatorInit => AllocatorTypeOK /\ AllocatorInvariant
<1> SUFFICES ASSUME AllocatorInit
             PROVE  AllocatorTypeOK /\ AllocatorInvariant
  OBVIOUS
<1> USE DEF AllocatorInit
<1>1. AllocatorTypeOK
  BY SMTT(30) DEF AllocatorTypeOK, NoChanges, Changes, Visible
<1>2. MutexHeld /\ SetTargetsLoop /\ CountsMatchItems
  BY DEF MutexHeld, SetTargetsLoop, CountsMatchItems, Visible
<1>3. IndexMatchesItems
  BY DEF IndexMatchesItems
<1> QED
  BY <1>1, <1>2, <1>3 DEF AllocatorInvariant

\* Calling SetTargets keeps the invariant.
LEMMA CallSetTargetsInvariant ==
    ASSUME AllocatorTypeOK, AllocatorInvariant,
           NEW new \in SUBSET Targets, CallSetTargets(new)
    PROVE  AllocatorTypeOK' /\ AllocatorInvariant'
<1> USE DEF CallSetTargets, items, collectorsCall
<1>1. AllocatorTypeOK'
  BY DEF AllocatorTypeOK
<1>2. MutexHeld' /\ SetTargetsLoop'
  BY DEF AllocatorInvariant, MutexHeld, SetTargetsLoop, Visible
<1> QED
  BY <1>1, <1>2, ItemsUnchanged DEF AllocatorInvariant

\* Dropping the targets for want of a collector keeps the invariant.
LEMMA DropTargetsInvariant ==
    ASSUME AllocatorTypeOK, AllocatorInvariant, DropTargets
    PROVE  AllocatorTypeOK' /\ AllocatorInvariant'
<1> USE DEF DropTargets, items, collectorsCall
<1>1. AllocatorTypeOK'
  BY DEF AllocatorTypeOK
<1>2. MutexHeld' /\ SetTargetsLoop'
  BY DEF AllocatorInvariant, MutexHeld, SetTargetsLoop, Visible
<1> QED
  BY <1>1, <1>2, ItemsUnchanged DEF AllocatorInvariant

\* Entering SetTargets keeps it: the two sets of the diff are disjoint.
LEMMA LockSetTargetsInvariant ==
    ASSUME AllocatorTypeOK, AllocatorInvariant, LockSetTargets
    PROVE  AllocatorTypeOK' /\ AllocatorInvariant'
<1> USE DEF LockSetTargets, items, collectorsCall
<1>1. targetsDiff' = [additions |-> newTargets \ Present,
                      removals |-> Present \ newTargets]
  BY DiffOfHashKeyed
<1>2. AllocatorTypeOK'
  BY <1>1, SMTT(30) DEF AllocatorTypeOK, Changes, Present
<1>3. MutexHeld'
  BY DEF AllocatorInvariant, MutexHeld, Visible
<1>4. published.collectors = collectors /\ published.targetItems = targetItems
  BY SMTT(30) DEF AllocatorInvariant, MutexHeld, Visible
<1>5. /\ targetsDiff'.additions = newTargets \ Present
      /\ targetsDiff'.removals = Present \ newTargets
  BY <1>1, SMTT(30)
<1>6. ASSUME NEW t \in Targets
      PROVE  /\ t \in targetsDiff'.removals <=> targetItems[t] # None /\ t \notin newTargets
             /\ t \in targetsDiff'.additions <=> targetItems[t] = None /\ t \in newTargets
  BY <1>5 DEF Present
<1>7. SetTargetsLoop'
  BY <1>4, <1>6 DEF SetTargetsLoop, Kept
<1> QED
  BY <1>2, <1>3, <1>7, ItemsUnchanged DEF AllocatorInvariant

\* A removal keeps it, and removes the item from the collector it was seen on.
LEMMA RemoveTargetInvariant ==
    ASSUME AllocatorTypeOK, AllocatorInvariant,
           NEW t \in Targets, RemoveTarget(t)
    PROVE  /\ AllocatorTypeOK' /\ AllocatorInvariant'
           /\ targetItems[t] = published.targetItems[t]
<1> USE DEF RemoveTarget, targetsCall, collectorsCall
<1>1. targetItems[t] = published.targetItems[t] /\ targetItems[t] \in collectors
  BY DEF AllocatorInvariant, MutexHeld, SetTargetsLoop, Present
<1>2. BooksType(collectors, numTargets, targetItems,
                targetItemsPerJobPerCollector)
  BY DEF AllocatorTypeOK, BooksType
<1>3. Books(collectors, numTargets, targetItems, targetItemsPerJobPerCollector)
  BY BooksAreInvariants DEF AllocatorInvariant
<1>4. /\ BooksType(collectors, numTargets', targetItems',
                   targetItemsPerJobPerCollector')
      /\ Books(collectors, numTargets', targetItems',
               targetItemsPerJobPerCollector')
  BY <1>1, <1>2, <1>3, LeaveKeepsBooks
<1>5. AllocatorTypeOK'
  BY <1>4 DEF AllocatorTypeOK, BooksType
<1>6. MutexHeld' /\ SetTargetsLoop'
  BY DEF AllocatorTypeOK, AllocatorInvariant, MutexHeld, SetTargetsLoop, Kept,
         Present
<1>7. IndexMatchesItems' /\ CountsMatchItems'
  BY <1>4 DEF IndexMatchesItems, CountsMatchItems, Books, TargetsOf
<1> QED
  BY <1>1, <1>5, <1>6, <1>7 DEF AllocatorInvariant

\* Leaving the removal loop keeps it: no removal is left.
LEMMA EndRemovalsInvariant ==
    ASSUME AllocatorTypeOK, AllocatorInvariant, EndRemovals
    PROVE  AllocatorTypeOK' /\ AllocatorInvariant'
<1> USE DEF EndRemovals, items, collectorsCall
<1>1. AllocatorTypeOK'
  BY DEF AllocatorTypeOK
<1>2. MutexHeld' /\ SetTargetsLoop'
  BY DEF AllocatorInvariant, MutexHeld, SetTargetsLoop, Visible, Kept, Present
<1> QED
  BY <1>1, <1>2, ItemsUnchanged DEF AllocatorInvariant

\* When SetTargets returns, every item has a live collector, and the targets
\* are the ones it was called with.
LEMMA ReturnSetTargetsInvariant ==
    ASSUME AllocatorTypeOK, AllocatorInvariant, ReturnSetTargets
    PROVE  /\ AllocatorTypeOK' /\ AllocatorInvariant'
           /\ Allocation!SetTargets(newTargets)
<1> USE DEF ReturnSetTargets, items, collectorsCall
<1>1. AllocatorTypeOK'
  BY DEF AllocatorTypeOK, NoChanges, Changes, Visible
<1>2. /\ published'.collectors = collectors /\ published'.targetItems = targetItems
      /\ collectors = published.collectors /\ collectors # {}
      /\ m = "SetTargets" /\ cpc # "reallocate"
  BY DEF AllocatorTypeOK, AllocatorInvariant, MutexHeld, SetTargetsLoop, Visible
<1>3. ASSUME NEW t \in Targets
      PROVE  /\ targetItems[t] \in collectors \cup {None}
             /\ targetItems[t] # None <=> t \in newTargets
             /\ t \in newTargets /\ published.targetItems[t] # None
                    => targetItems[t] = published.targetItems[t]
  BY <1>2 DEF AllocatorInvariant, MutexHeld, SetTargetsLoop, Kept, Present
<1>4. MutexHeld'
  BY <1>2, <1>3 DEF AllocatorInvariant, MutexHeld, Visible
<1>5. SetTargetsLoop'
  BY DEF SetTargetsLoop
<1>6. Allocation!SetTargets(newTargets)
  BY <1>2, <1>3 DEF AllocatorTypeOK, Allocation!SetTargets
<1> QED
  BY <1>1, <1>4, <1>5, <1>6, ItemsUnchanged DEF AllocatorInvariant

\* Calling SetCollectors keeps the invariant.
LEMMA CallSetCollectorsInvariant ==
    ASSUME AllocatorTypeOK, AllocatorInvariant,
           NEW new \in SUBSET Collectors, CallSetCollectors(new)
    PROVE  AllocatorTypeOK' /\ AllocatorInvariant'
<1> USE DEF CallSetCollectors, items, targetsCall
<1>1. AllocatorTypeOK'
  BY DEF AllocatorTypeOK
<1>2. MutexHeld' /\ SetTargetsLoop'
  BY DEF AllocatorInvariant, MutexHeld, SetTargetsLoop, Visible, Kept
<1> QED
  BY <1>1, <1>2, ItemsUnchanged DEF AllocatorInvariant

\* The removed collectors are cleared and the new ones are empty: nothing is
\* left of them in the books, and nothing was there of them before.
LEMMA LockSetCollectorsInvariant ==
    ASSUME AllocatorTypeOK, AllocatorInvariant, LockSetCollectors
    PROVE  /\ AllocatorTypeOK' /\ AllocatorInvariant'
           /\ collectors' = newCollectors /\ newCollectors # {}
           /\ collectorsDiff' = [additions |-> newCollectors \ collectors,
                                 removals |-> collectors \ newCollectors]
<1> USE DEF LockSetCollectors, targetsCall
<1>1. collectorsDiff' = [additions |-> newCollectors \ collectors,
                         removals |-> collectors \ newCollectors]
  BY DiffOfHashKeyed
<1>2. /\ collectors' = (collectors \ collectorsDiff'.removals)
                           \cup collectorsDiff'.additions
      /\ numTargets' = [c \in Collectors |->
              IF c \in collectorsDiff'.additions THEN 0 ELSE numTargets[c]]
      /\ targetItemsPerJobPerCollector' =
             [c \in Collectors |->
                  IF c \in collectorsDiff'.removals THEN [j \in Jobs |-> {}]
                  ELSE targetItemsPerJobPerCollector[c]]
  OBVIOUS
<1>3. collectors' = newCollectors
  BY <1>1, <1>2, SMTT(30)
<1>4. /\ newCollectors # {}
      /\ published.collectors = collectors /\ published.targetItems = targetItems
      /\ \A t \in Targets : targetItems[t] \in collectors \cup {None}
  BY SMTT(30) DEF AllocatorInvariant, MutexHeld, Visible
<1>5. AllocatorTypeOK'
  BY <1>1, <1>2, <1>3, SMTT(30) DEF AllocatorTypeOK, Changes
<1>6. MutexHeld' /\ SetTargetsLoop'
  BY DEF AllocatorInvariant, MutexHeld, SetTargetsLoop
<1>7. targetItems' = targetItems
  OBVIOUS
<1> HIDE DEF LockSetCollectors
<1>8. IndexMatchesItems'
  <2> SUFFICES ASSUME NEW c \in Collectors, NEW j \in Jobs
               PROVE  targetItemsPerJobPerCollector'[c][j] =
                          IF c \in newCollectors
                          THEN {t \in {s \in Targets : targetItems[s] = c} : JobOf[t] = j}
                          ELSE {}
    BY <1>3, <1>7, SMTT(30) DEF IndexMatchesItems, TargetsOf
  <2>1. targetItemsPerJobPerCollector[c][j] =
            IF c \in collectors
            THEN {t \in {s \in Targets : targetItems[s] = c} : JobOf[t] = j}
            ELSE {}
    BY DEF AllocatorInvariant, IndexMatchesItems, TargetsOf
  <2>2. c \notin collectors => {s \in Targets : targetItems[s] = c} = {}
    BY <1>4, AllocatorAssumption
  <2>3. targetItemsPerJobPerCollector'[c][j] =
            IF c \in collectors \ newCollectors THEN {}
            ELSE targetItemsPerJobPerCollector[c][j]
    BY <1>1, <1>2
  <2> QED
    BY <2>1, <2>2, <2>3
<1>9. CountsMatchItems'
  <2> SUFFICES ASSUME NEW c \in newCollectors
               PROVE  numTargets'[c] = Cardinality({s \in Targets : targetItems[s] = c})
    BY <1>3, <1>7 DEF CountsMatchItems, TargetsOf
  <2>1. c \in Collectors
    BY DEF AllocatorTypeOK
  <2>2. CASE c \in collectors
    <3>1. numTargets'[c] = numTargets[c]
      BY <1>1, <1>2, <2>1, <2>2
    <3> QED
      BY <2>2, <3>1 DEF AllocatorInvariant, CountsMatchItems, TargetsOf
  <2>3. CASE c \notin collectors
    <3>1. {s \in Targets : targetItems[s] = c} = {}
      BY <1>4, <2>1, <2>3, AllocatorAssumption
    <3>2. numTargets'[c] = 0
      BY <1>1, <1>2, <2>1, <2>3
    <3> QED
      BY <3>1, <3>2, FS_EmptySet
  <2> QED
    BY <2>2, <2>3
<1> QED
  BY <1>1, <1>3, <1>4, <1>5, <1>6, <1>8, <1>9 DEF AllocatorInvariant

\* When SetCollectors returns and no item is left without a live collector,
\* the step keeps the promise of a strategy.
LEMMA UnlockSetCollectorsInvariant ==
    ASSUME AllocatorTypeOK, AllocatorInvariant, UnlockSetCollectors,
           collectors # {},
           \A t \in Targets :
               /\ targetItems[t] \in collectors \cup {None}
               /\ targetItems[t] = None <=> published.targetItems[t] = None
    PROVE  /\ AllocatorTypeOK' /\ AllocatorInvariant'
           /\ Allocation!SetCollectors(collectors)
<1> USE DEF UnlockSetCollectors, items, targetsCall
<1>1. AllocatorTypeOK'
  BY DEF AllocatorTypeOK, NoChanges, Changes, Visible
<1>2. published'.collectors = collectors /\ published'.targetItems = targetItems
  BY DEF Visible
<1>3. MutexHeld' /\ SetTargetsLoop'
  BY <1>2 DEF AllocatorInvariant, MutexHeld, SetTargetsLoop, Visible
<1>4. Allocation!SetCollectors(collectors)
  BY <1>2 DEF AllocatorTypeOK, Allocation!SetCollectors
<1> QED
  BY <1>1, <1>3, <1>4, ItemsUnchanged DEF AllocatorInvariant

-----------------------------------------------------------------------------
(* Consistent hashing.                                                     *)

\* addTargetToOwner puts the item where the ring says and keeps the
\* types and the books, also when it takes the item from another collector.
LEMMA AddToOwner ==
    ASSUME RingTypeOK, RingInvariant, collectors # {},
           NEW t \in Targets, addTargetToOwner(t), UNCHANGED collectors
    PROVE  /\ LocateKey[collectors][t] \in collectors
           /\ targetItems' = [targetItems EXCEPT ![t] = LocateKey[collectors][t]]
           /\ numTargets' \in [Collectors -> Int]
           /\ targetItems' \in [Targets -> Collectors \cup {None}]
           /\ targetItemsPerJobPerCollector' \in
                  [Collectors -> [Jobs -> SUBSET Targets]]
           /\ IndexMatchesItems' /\ CountsMatchItems'
<1> DEFINE owner == LocateKey[collectors][t]
<1>1. owner \in collectors /\ None \notin collectors
  BY LocateKeyAssumption, AllocatorAssumption DEF RingTypeOK, AllocatorTypeOK
<1>2. BooksType(collectors, numTargets, targetItems,
                targetItemsPerJobPerCollector)
  BY DEF RingTypeOK, AllocatorTypeOK, BooksType
<1>3. Books(collectors, numTargets, targetItems, targetItemsPerJobPerCollector)
  BY BooksAreInvariants DEF RingInvariant, AllocatorInvariant
<1>4. targetItems' = [targetItems EXCEPT ![t] = owner]
  BY DEF addTargetToOwner, RingInvariant, OwnersAreCollectors
<1>5. /\ BooksType(collectors, numTargets', targetItems',
                   targetItemsPerJobPerCollector')
      /\ Books(collectors, numTargets', targetItems',
               targetItemsPerJobPerCollector')
  <2>1. CASE targetItems[t] \notin collectors
    <3>1. /\ numTargets' = [numTargets EXCEPT ![owner] = @ + 1]
          /\ targetItemsPerJobPerCollector' =
                 [targetItemsPerJobPerCollector EXCEPT
                      ![owner][JobOf[t]] = @ \cup {t}]
      BY <2>1 DEF addTargetToOwner, RingInvariant, OwnersAreCollectors
    <3> HIDE DEF owner
    <3> QED
      BY <1>1, <1>2, <1>3, <1>4, <2>1, <3>1, JoinKeepsBooks
  <2>2. CASE targetItems[t] \in collectors
    <3> DEFINE c == targetItems[t]
               n == [numTargets EXCEPT ![c] = @ - 1]
               it == [targetItems EXCEPT ![t] = None]
               ix == [targetItemsPerJobPerCollector EXCEPT
                          ![c][JobOf[t]] = @ \ {t}]
    <3>1. BooksType(collectors, n, it, ix) /\ Books(collectors, n, it, ix)
      BY <1>2, <1>3, <2>2, LeaveKeepsBooks
    <3>2. /\ numTargets' = [n EXCEPT ![owner] = @ + 1]
          /\ targetItemsPerJobPerCollector' =
                 [ix EXCEPT ![owner][JobOf[t]] = @ \cup {t}]
      BY <2>2 DEF addTargetToOwner, RingInvariant, OwnersAreCollectors
    <3>3. it[t] = None /\ targetItems' = [it EXCEPT ![t] = owner]
      BY <1>4 DEF RingTypeOK, AllocatorTypeOK
    <3> HIDE DEF owner, n, it, ix
    <3> QED
      BY <1>1, <3>1, <3>2, <3>3, JoinKeepsBooks
  <2> QED
    BY <2>1, <2>2
<1>6. IndexMatchesItems' /\ CountsMatchItems'
  BY <1>5 DEF IndexMatchesItems, CountsMatchItems, Books, TargetsOf
<1> QED
  BY <1>1, <1>4, <1>5, <1>6 DEF BooksType

-----------------------------------------------------------------------------
\* An iteration of the addition loop of handleTargets keeps the invariant.
LEMMA AddToOwnerInvariant ==
    ASSUME RingTypeOK, RingInvariant, NEW t \in Targets, AddTargetToOwner(t)
    PROVE  RingTypeOK' /\ RingInvariant'
<1> USE DEF AddTargetToOwner, targetsCall, collectorsCall, ring
<1>1. /\ targetItems[t] = None /\ t \in targetsDiff.additions
      /\ None \notin collectors /\ collectors # {}
  BY AllocatorAssumption DEF Present, RingTypeOK, AllocatorTypeOK, RingInvariant,
                             AllocatorInvariant, SetTargetsLoop
<1>2. /\ LocateKey[collectors][t] \in collectors
      /\ targetItems' = [targetItems EXCEPT ![t] = LocateKey[collectors][t]]
      /\ IndexMatchesItems' /\ CountsMatchItems'
  BY <1>1, AddToOwner
<1>3. RingTypeOK'
  BY <1>1, AddToOwner DEF RingTypeOK, AllocatorTypeOK
<1>4. MutexHeld' /\ HistoryIndependent'
  BY DEF RingInvariant, AllocatorInvariant, MutexHeld, HistoryIndependent
<1>5. SetTargetsLoop'
  BY <1>1, <1>2 DEF RingInvariant, AllocatorInvariant, SetTargetsLoop, Kept,
                    RingTypeOK, AllocatorTypeOK
<1>6. OwnersAreCollectors' /\ PlacedByRing'
  <2>1. cpc # "reallocate" /\ reallocating = {}
    BY DEF RingInvariant, AllocatorInvariant, MutexHeld, PlacedByRing
  <2>2. \A s \in Targets : targetItems'[s] # None =>
            /\ targetItems'[s] = LocateKey[collectors][s]
            /\ targetItems'[s] \in collectors
    BY <1>2, <2>1 DEF RingInvariant, OwnersAreCollectors, PlacedByRing, Present,
                      RingTypeOK, AllocatorTypeOK
  <2> QED
    BY <2>1, <2>2 DEF RingInvariant, OwnersAreCollectors, PlacedByRing, Present
<1> QED
  BY <1>2, <1>3, <1>4, <1>5, <1>6 DEF RingInvariant, AllocatorInvariant

\* An iteration of the last loop of handleCollectors keeps the invariant.
LEMMA ReallocateToOwnerInvariant ==
    ASSUME RingTypeOK, RingInvariant, NEW t \in Targets, ReallocateToOwner(t)
    PROVE  RingTypeOK' /\ RingInvariant'
<1> USE DEF ReallocateToOwner, targetsCall, collectorsCall
<1>1. collectors # {} /\ None \notin collectors /\ t \in Present
  BY AllocatorAssumption DEF RingInvariant, PlacedByRing, RingTypeOK,
                             AllocatorTypeOK
<1>2. /\ LocateKey[collectors][t] \in collectors
      /\ targetItems' = [targetItems EXCEPT ![t] = LocateKey[collectors][t]]
      /\ IndexMatchesItems' /\ CountsMatchItems'
  BY <1>1, AddToOwner
<1>3. RingTypeOK'
  BY <1>1, AddToOwner DEF RingTypeOK, AllocatorTypeOK
<1>4. MutexHeld' /\ SetTargetsLoop' /\ HistoryIndependent'
  BY DEF RingInvariant, AllocatorInvariant, MutexHeld, SetTargetsLoop,
         HistoryIndependent
<1>5. \A s \in Targets :
          targetItems'[s] = IF s = t THEN LocateKey[collectors][t]
                            ELSE targetItems[s]
  BY <1>2 DEF RingTypeOK, AllocatorTypeOK
<1>6. OwnersAreCollectors'
  BY <1>1, <1>2, <1>5, SMTT(30) DEF RingInvariant, OwnersAreCollectors, Present
<1>7. PlacedByRing'
  <2>1. Present' = Present
    BY <1>1, <1>2, <1>5 DEF Present
  <2> QED
    BY <1>1, <1>2, <1>5, <2>1 DEF RingInvariant, PlacedByRing, Present
<1> QED
  BY <1>2, <1>3, <1>4, <1>6, <1>7 DEF RingInvariant, AllocatorInvariant

\* SetCollectors starts: the ring follows the collectors, and if any changed
\* every item waits for its new place.
LEMMA HandleCollectorsRingInvariant ==
    ASSUME RingTypeOK, RingInvariant, HandleCollectors
    PROVE  RingTypeOK' /\ RingInvariant'
<1>1. /\ AllocatorTypeOK' /\ AllocatorInvariant'
      /\ collectors' = newCollectors /\ newCollectors # {}
      /\ collectorsDiff' = [additions |-> newCollectors \ collectors,
                            removals |-> collectors \ newCollectors]
  BY LockSetCollectorsInvariant DEF RingTypeOK, RingInvariant, HandleCollectors
<1>2. /\ UNCHANGED <<targetItems, newCollectors, published>>
      /\ cpc' = "reallocate"
      /\ cpc # "reallocate"
      /\ published.targetItems = targetItems
  BY SMTT(30) DEF HandleCollectors, LockSetCollectors, RingInvariant,
         AllocatorInvariant, MutexHeld, Visible
<1>3. consistentHasher = collectors /\ reallocating = {}
  BY <1>2 DEF RingInvariant, OwnersAreCollectors, PlacedByRing
<1>4. consistentHasher' = newCollectors
  BY <1>1, <1>3 DEF HandleCollectors
<1>5. \/ reallocating' = {} /\ newCollectors = collectors
      \/ reallocating' = Present
  BY <1>1 DEF HandleCollectors, NoChanges
<1>6. RingTypeOK'
  BY <1>1, <1>4, <1>5 DEF RingTypeOK, AllocatorTypeOK, Present
<1>7. Present' = Present
  BY <1>2 DEF Present
<1>8. OwnersAreCollectors' /\ PlacedByRing'
  BY <1>1, <1>2, <1>3, <1>4, <1>5, <1>7
     DEF RingInvariant, OwnersAreCollectors, PlacedByRing
<1>9. HistoryIndependent'
  BY <1>2 DEF RingInvariant, HistoryIndependent
<1> QED
  BY <1>1, <1>6, <1>8, <1>9 DEF RingInvariant

\* When SetCollectors returns every item is where the ring puts it.
LEMMA ReturnSetCollectorsRingInvariant ==
    ASSUME RingTypeOK, RingInvariant, ReturnSetCollectorsOnRing
    PROVE  /\ RingTypeOK' /\ RingInvariant'
           /\ Allocation!SetCollectors(collectors)
<1> USE DEF ReturnSetCollectorsOnRing, ring
<1>1. /\ collectors # {} /\ reallocating = {}
      /\ cpc = "reallocate" /\ cpc' = "idle"
      /\ published' = Visible /\ UNCHANGED <<collectors, targetItems>>
  BY DEF UnlockSetCollectors, items, RingInvariant, PlacedByRing
<1>2. \A t \in Targets :
          /\ targetItems[t] \in collectors \cup {None}
          /\ targetItems[t] = None <=> published.targetItems[t] = None
  BY <1>1 DEF RingInvariant, PlacedByRing, OwnersAreCollectors, Present
<1>3. /\ AllocatorTypeOK' /\ AllocatorInvariant'
      /\ Allocation!SetCollectors(collectors)
  BY <1>1, <1>2, UnlockSetCollectorsInvariant DEF RingTypeOK, RingInvariant
<1>4. OwnersAreCollectors' /\ PlacedByRing' /\ HistoryIndependent'
  BY <1>1 DEF RingInvariant, OwnersAreCollectors, PlacedByRing,
              HistoryIndependent, Present, Visible
<1> QED
  BY <1>1, <1>3, <1>4 DEF RingTypeOK, RingInvariant

-----------------------------------------------------------------------------
\* The steps that leave the items and the call of SetCollectors alone keep
\* the facts about the ring.
LEMMA RingUnchanged ==
    ASSUME OwnersAreCollectors, PlacedByRing, HistoryIndependent,
           UNCHANGED <<items, collectorsCall, published, ring>>
    PROVE  OwnersAreCollectors' /\ PlacedByRing' /\ HistoryIndependent'
BY DEF OwnersAreCollectors, PlacedByRing, HistoryIndependent, Present, items,
       collectorsCall, ring

\* A target that leaves disturbs no other target's place.
LEMMA RemoveTargetRingInvariant ==
    ASSUME RingTypeOK, RingInvariant, NEW t \in Targets,
           RemoveTarget(t), UNCHANGED ring
    PROVE  RingTypeOK' /\ RingInvariant'
<1>1. AllocatorTypeOK' /\ AllocatorInvariant'
  BY RemoveTargetInvariant DEF RingTypeOK, RingInvariant
<1>2. /\ cpc # "reallocate" /\ reallocating = {}
      /\ UNCHANGED <<cpc, collectors, published, consistentHasher, reallocating>>
  BY DEF RingInvariant, AllocatorInvariant, MutexHeld, PlacedByRing,
         RemoveTarget, collectorsCall, ring
<1>3. \A s \in Targets : targetItems'[s] \in {None, targetItems[s]}
  BY DEF RemoveTarget, RingTypeOK, AllocatorTypeOK
<1>4. OwnersAreCollectors' /\ PlacedByRing' /\ HistoryIndependent'
  BY <1>2, <1>3 DEF RingInvariant, OwnersAreCollectors, PlacedByRing,
                    HistoryIndependent, Present
<1> QED
  BY <1>1, <1>2, <1>4 DEF RingTypeOK, RingInvariant

\* SetTargets returns: what it publishes is where the ring puts it.
LEMMA ReturnSetTargetsRingInvariant ==
    ASSUME RingTypeOK, RingInvariant, ReturnSetTargets, UNCHANGED ring
    PROVE  RingTypeOK' /\ RingInvariant'
<1>1. AllocatorTypeOK' /\ AllocatorInvariant'
  BY ReturnSetTargetsInvariant DEF RingTypeOK, RingInvariant
<1>2. /\ cpc # "reallocate" /\ reallocating = {} /\ published' = Visible
      /\ UNCHANGED <<cpc, collectors, targetItems, consistentHasher, reallocating>>
  BY DEF RingInvariant, AllocatorInvariant, MutexHeld, PlacedByRing,
         ReturnSetTargets, collectorsCall, items, ring
<1>3. OwnersAreCollectors' /\ PlacedByRing' /\ HistoryIndependent'
  BY <1>2 DEF RingInvariant, OwnersAreCollectors, PlacedByRing,
              HistoryIndependent, Present, Visible
<1> QED
  BY <1>1, <1>2, <1>3 DEF RingTypeOK, RingInvariant

\* Every step keeps the types and the invariant.
LEMMA RingStepInvariant ==
    RingTypeOK /\ RingInvariant /\ [RingNext]_ringVars => RingTypeOK' /\ RingInvariant'
<1> SUFFICES ASSUME RingTypeOK, RingInvariant, [RingNext]_ringVars
             PROVE  RingTypeOK' /\ RingInvariant'
  OBVIOUS
<1>0. AllocatorTypeOK /\ AllocatorInvariant /\ OwnersAreCollectors
          /\ PlacedByRing /\ HistoryIndependent
  BY DEF RingTypeOK, RingInvariant
<1>1. ASSUME NEW new \in SUBSET Targets, CallSetTargets(new), UNCHANGED ring
      PROVE  RingTypeOK' /\ RingInvariant'
  BY <1>0, <1>1, CallSetTargetsInvariant, RingUnchanged
     DEF CallSetTargets, collectorsCall, ring, RingTypeOK, RingInvariant
<1>2. CASE DropTargets /\ UNCHANGED ring
  BY <1>0, <1>2, DropTargetsInvariant, RingUnchanged
     DEF DropTargets, collectorsCall, ring, RingTypeOK, RingInvariant
<1>3. CASE LockSetTargets /\ UNCHANGED ring
  BY <1>0, <1>3, LockSetTargetsInvariant, RingUnchanged
     DEF LockSetTargets, collectorsCall, ring, RingTypeOK, RingInvariant
<1>4. CASE EndRemovals /\ UNCHANGED ring
  BY <1>0, <1>4, EndRemovalsInvariant, RingUnchanged
     DEF EndRemovals, collectorsCall, ring, RingTypeOK, RingInvariant
<1>5. ASSUME NEW new \in SUBSET Collectors, CallSetCollectors(new),
             UNCHANGED ring
      PROVE  RingTypeOK' /\ RingInvariant'
  <2>1. AllocatorTypeOK' /\ AllocatorInvariant'
    BY <1>0, <1>5, CallSetCollectorsInvariant
  <2>2. OwnersAreCollectors' /\ PlacedByRing' /\ HistoryIndependent'
    BY <1>0, <1>5 DEF CallSetCollectors, items, ring, OwnersAreCollectors,
                      PlacedByRing, HistoryIndependent, Present
  <2> QED
    BY <1>5, <2>1, <2>2 DEF ring, RingTypeOK, RingInvariant
<1>6. CASE UNCHANGED ringVars
  <2> USE <1>0, <1>6
      DEF ringVars, allocatorVars, targetsCall, collectorsCall
  <2>1. AllocatorTypeOK'
    BY DEF AllocatorTypeOK, items
  <2>2. IndexMatchesItems' /\ CountsMatchItems'
    BY ItemsUnchanged DEF AllocatorInvariant
  <2>3. MutexHeld' /\ SetTargetsLoop'
    BY DEF AllocatorInvariant, MutexHeld, SetTargetsLoop, Kept, Visible, items
  <2>4. OwnersAreCollectors' /\ PlacedByRing' /\ HistoryIndependent'
    BY RingUnchanged DEF ring
  <2> QED
    BY <2>1, <2>2, <2>3, <2>4 DEF RingTypeOK, RingInvariant, AllocatorInvariant
<1> QED
  BY <1>1, <1>2, <1>3, <1>4, <1>5, <1>6, RemoveTargetRingInvariant,
     ReturnSetTargetsRingInvariant, AddToOwnerInvariant,
     HandleCollectorsRingInvariant, ReallocateToOwnerInvariant,
     ReturnSetCollectorsRingInvariant
     DEF RingNext, RingSetTargetsStep, RingSetCollectorsStep

-----------------------------------------------------------------------------
\* In every reachable state the variables have their types and the invariant
\* of the ring holds: this is the induction.
THEOREM RingInductiveInvariant == RingSpec => [](RingTypeOK /\ RingInvariant)
<1>1. RingInit => RingTypeOK /\ RingInvariant
  <2> SUFFICES ASSUME RingInit PROVE RingTypeOK /\ RingInvariant
    OBVIOUS
  <2>1. AllocatorTypeOK /\ AllocatorInvariant
    BY InitInvariant DEF RingInit
  <2>2. OwnersAreCollectors /\ PlacedByRing /\ HistoryIndependent
    BY DEF RingInit, AllocatorInit, OwnersAreCollectors, PlacedByRing,
           HistoryIndependent, Present, Visible
  <2> QED
    BY <2>1, <2>2 DEF RingTypeOK, RingInvariant, RingInit
<1> QED
  BY <1>1, RingStepInvariant, PTL DEF RingSpec

\* The index and the counts agree with the items in every reachable state,
\* although an item may leave one live collector for another here.
THEOREM BooksCorrect == RingSpec => [](IndexMatchesItems /\ CountsMatchItems)
<1>1. RingInvariant => IndexMatchesItems /\ CountsMatchItems
  BY DEF RingInvariant, AllocatorInvariant
<1> QED
  BY <1>1, RingInductiveInvariant, PTL

\* The owner that the ring names is always a collector the allocator has.
THEOREM OwnersCorrect == RingSpec => []OwnersAreCollectors
<1>1. RingInvariant => OwnersAreCollectors
  BY DEF RingInvariant
<1> QED
  BY <1>1, RingInductiveInvariant, PTL

\* Where a target is depends on the present collectors alone.
THEOREM HistoryIndependence == RingSpec => []HistoryIndependent
<1>1. RingInvariant => HistoryIndependent
  BY DEF RingInvariant
<1> QED
  BY <1>1, RingInductiveInvariant, PTL

\* The strategy implements the abstract allocator, in which SetTargets and
\* SetCollectors are single steps.
THEOREM RingImplements == RingSpec => ImplementsAllocation
<1>1. RingInit => Allocation!Init
  BY SMTT(30) DEF RingInit, AllocatorInit, Visible, Allocation!Init
<1>2. RingTypeOK /\ RingInvariant /\ [RingNext]_ringVars
          => [Allocation!Next]_(Allocation!vars)
  <2> SUFFICES ASSUME RingTypeOK, RingInvariant, [RingNext]_ringVars,
                      published' # published
               PROVE  Allocation!Next
    BY DEF Allocation!vars
  <2>1. ReturnSetTargets \/ ReturnSetCollectorsOnRing
    BY DEF RingNext, RingSetTargetsStep, RingSetCollectorsStep, ringVars, allocatorVars,
           CallSetTargets, CallSetCollectors, DropTargets, LockSetTargets,
           RemoveTarget, EndRemovals, AddTargetToOwner, HandleCollectors,
           LockSetCollectors, ReallocateToOwner
  <2>2. CASE ReturnSetTargets
    BY <2>2, ReturnSetTargetsInvariant
       DEF RingTypeOK, AllocatorTypeOK, RingInvariant, Allocation!Next
  <2>3. CASE ReturnSetCollectorsOnRing
    BY <2>3, ReturnSetCollectorsRingInvariant
       DEF RingTypeOK, AllocatorTypeOK, Allocation!Next
  <2> QED
    BY <2>1, <2>2, <2>3
<1> QED
  BY <1>1, <1>2, RingInductiveInvariant, PTL
     DEF RingSpec, ImplementsAllocation, Allocation!Spec

\* A call that is not dropped leaves exactly what it was called with.
THEOREM RingTakesEffect == RingSpec => CallsTakeEffect
<1>1. RingTypeOK /\ RingInvariant /\ [RingNext]_ringVars
          => [/\ tpc = "additions" /\ tpc' = "idle"
                     => Allocation!SetTargets(newTargets)
              /\ cpc = "reallocate" /\ cpc' = "idle"
                     => Allocation!SetCollectors(newCollectors)]_allocatorVars
  <2> SUFFICES ASSUME RingTypeOK, RingInvariant, [RingNext]_ringVars
               PROVE  /\ tpc = "additions" /\ tpc' = "idle"
                             => Allocation!SetTargets(newTargets)
                      /\ cpc = "reallocate" /\ cpc' = "idle"
                             => Allocation!SetCollectors(newCollectors)
    OBVIOUS
  <2>1. /\ tpc = "additions" /\ tpc' = "idle" => ReturnSetTargets
        /\ cpc = "reallocate" /\ cpc' = "idle" => ReturnSetCollectorsOnRing
    BY DEF RingNext, RingSetTargetsStep, RingSetCollectorsStep, ringVars, allocatorVars,
           CallSetTargets, CallSetCollectors, DropTargets, LockSetTargets,
           RemoveTarget, EndRemovals, AddTargetToOwner, HandleCollectors, LockSetCollectors,
           ReallocateToOwner, ReturnSetTargets, ReturnSetCollectorsOnRing,
           targetsCall, collectorsCall, UnlockSetCollectors
  <2>2. ReturnSetTargets => Allocation!SetTargets(newTargets)
    BY ReturnSetTargetsInvariant DEF RingTypeOK, RingInvariant
  <2>3. ReturnSetCollectorsOnRing => Allocation!SetCollectors(newCollectors)
    BY ReturnSetCollectorsRingInvariant
       DEF RingInvariant, PlacedByRing, ReturnSetCollectorsOnRing, UnlockSetCollectors
  <2> QED
    BY <2>1, <2>2, <2>3
<1> QED
  BY <1>1, RingInductiveInvariant, PTL DEF RingSpec, CallsTakeEffect

-----------------------------------------------------------------------------
(* Least-weighted.                                                         *)

\* addTargetToTargetItems keeps the types and the books, and the collector it
\* picks is one of the least loaded.
LEMMA AddToLeastLoaded ==
    ASSUME TypeOK, AllocatorInvariant, GainersAreLeast,
           NEW t \in Targets, targetItems[t] \notin collectors,
           addTargetToTargetItems(t), UNCHANGED <<collectors, published>>
    PROVE  /\ \E c \in collectors : targetItems' = [targetItems EXCEPT ![t] = c]
           /\ numTargets' \in [Collectors -> Int]
           /\ targetItems' \in [Targets -> Collectors \cup {None}]
           /\ targetItemsPerJobPerCollector' \in
                  [Collectors -> [Jobs -> SUBSET Targets]]
           /\ IndexMatchesItems' /\ CountsMatchItems' /\ GainersAreLeast'
<1>1. PICK c \in findNextCollector :
          /\ targetItems' = [targetItems EXCEPT ![t] = c]
          /\ targetItemsPerJobPerCollector' =
                 [targetItemsPerJobPerCollector EXCEPT
                      ![c][JobOf[t]] = @ \cup {t}]
          /\ numTargets' = [numTargets EXCEPT ![c] = @ + 1]
  BY DEF addTargetToTargetItems
<1>2. /\ c \in collectors /\ c \in Collectors
      /\ \A d \in collectors : numTargets[c] <= numTargets[d]
  BY DEF findNextCollector, TypeOK, AllocatorTypeOK
<1>3. BooksType(collectors, numTargets, targetItems,
                targetItemsPerJobPerCollector)
  BY DEF TypeOK, AllocatorTypeOK, BooksType
<1>4. Books(collectors, numTargets, targetItems, targetItemsPerJobPerCollector)
  BY BooksAreInvariants DEF AllocatorInvariant
<1>5. /\ BooksType(collectors, numTargets', targetItems',
                   targetItemsPerJobPerCollector')
      /\ Books(collectors, numTargets', targetItems',
               targetItemsPerJobPerCollector')
  BY <1>1, <1>2, <1>3, <1>4, JoinKeepsBooks
<1>6. IndexMatchesItems' /\ CountsMatchItems'
  BY <1>5 DEF IndexMatchesItems, CountsMatchItems, Books, TargetsOf
<1>7. GainersAreLeast'
  <2> SUFFICES ASSUME NEW s \in Targets, NEW d \in collectors,
                      targetItems'[s] \in collectors,
                      targetItems'[s] # published.targetItems[s]
               PROVE  numTargets'[targetItems'[s]] <= numTargets'[d] + 1
    BY DEF GainersAreLeast, Present
  <2>1. /\ d \in Collectors /\ numTargets \in [Collectors -> Int]
        /\ \A e \in Collectors :
            numTargets'[e] = IF e = c THEN numTargets[e] + 1 ELSE numTargets[e]
    BY <1>1 DEF TypeOK, AllocatorTypeOK
  <2>2. CASE targetItems'[s] = c
    BY <1>2, <2>1, <2>2, SMTT(30)
  <2>3. CASE targetItems'[s] # c
    <3>1. s # t /\ targetItems'[s] = targetItems[s]
      BY <1>1, <2>3 DEF TypeOK, AllocatorTypeOK
    <3>2. numTargets[targetItems[s]] <= numTargets[d] + 1
      BY <3>1, AllocatorAssumption
         DEF GainersAreLeast, Present, TypeOK, AllocatorTypeOK
    <3>3. targetItems[s] \in Collectors
      BY <3>1 DEF TypeOK, AllocatorTypeOK
    <3> QED
      BY <2>1, <2>3, <3>1, <3>2, <3>3, SMTT(30)
  <2> QED
    BY <2>2, <2>3
<1> QED
  BY <1>1, <1>2, <1>5, <1>6, <1>7 DEF BooksType

-----------------------------------------------------------------------------
\* An iteration of the addition loop of handleTargets keeps the invariant.
LEMMA AddTargetInvariant ==
    ASSUME TypeOK, LoopInvariant, NEW t \in Targets, AddTarget(t)
    PROVE  TypeOK' /\ LoopInvariant'
<1> USE DEF AddTarget, targetsCall, collectorsCall
<1>1. targetItems[t] = None /\ None \notin collectors
  BY AllocatorAssumption DEF Present, TypeOK, AllocatorTypeOK
<1>2. PICK c \in collectors : targetItems' = [targetItems EXCEPT ![t] = c]
  BY <1>1, AddToLeastLoaded DEF LoopInvariant
<1>3. IndexMatchesItems' /\ CountsMatchItems' /\ GainersAreLeast'
  BY <1>1, AddToLeastLoaded DEF LoopInvariant
<1>4. TypeOK'
  BY <1>1, AddToLeastLoaded DEF LoopInvariant, TypeOK, AllocatorTypeOK
<1>5. MutexHeld' /\ SetCollectorsLoop'
  BY DEF LoopInvariant, AllocatorInvariant, MutexHeld, SetCollectorsLoop
<1>6. SetTargetsLoop'
  BY <1>1, <1>2 DEF LoopInvariant, AllocatorInvariant, SetTargetsLoop, Kept,
                    TypeOK, AllocatorTypeOK
<1> QED
  BY <1>3, <1>4, <1>5, <1>6 DEF LoopInvariant, AllocatorInvariant

\* An iteration of the last loop of handleCollectors keeps the invariant.
LEMMA ReallocateTargetInvariant ==
    ASSUME TypeOK, LoopInvariant, NEW t \in Targets, ReallocateTarget(t)
    PROVE  TypeOK' /\ LoopInvariant'
<1> USE DEF ReallocateTarget, targetsCall, collectorsCall
<1>1. /\ targetItems[t] \in published.collectors
      /\ targetItems[t] \notin collectors
      /\ targetItems[t] # None
      /\ published.targetItems[t] \notin newCollectors
  BY AllocatorAssumption
     DEF LoopInvariant, SetCollectorsLoop, Orphans, TypeOK, AllocatorTypeOK
<1>2. PICK c \in collectors : targetItems' = [targetItems EXCEPT ![t] = c]
  BY <1>1, AddToLeastLoaded DEF LoopInvariant
<1>3. IndexMatchesItems' /\ CountsMatchItems' /\ GainersAreLeast'
  BY <1>1, AddToLeastLoaded DEF LoopInvariant
<1>4. TypeOK'
  BY <1>1, AddToLeastLoaded DEF LoopInvariant, TypeOK, AllocatorTypeOK
<1>5. MutexHeld' /\ SetTargetsLoop'
  BY DEF LoopInvariant, AllocatorInvariant, MutexHeld, SetTargetsLoop
<1>6. SetCollectorsLoop'
  BY <1>1, <1>2, AllocatorAssumption
     DEF LoopInvariant, SetCollectorsLoop, TypeOK, AllocatorTypeOK
<1> QED
  BY <1>3, <1>4, <1>5, <1>6 DEF LoopInvariant, AllocatorInvariant

\* When SetCollectors returns nothing is orphaned.
LEMMA ReturnSetCollectorsInvariant ==
    ASSUME TypeOK, LoopInvariant, ReturnSetCollectors
    PROVE  /\ TypeOK' /\ LoopInvariant'
           /\ Allocation!SetCollectors(collectors)
<1> USE DEF ReturnSetCollectors, UnlockSetCollectors, items, targetsCall
<1>1. collectors # {} /\ \A t \in Targets :
          /\ targetItems[t] \in collectors \cup {None}
          /\ targetItems[t] = None <=> published.targetItems[t] = None
  BY DEF LoopInvariant, SetCollectorsLoop, Orphans
<1>2. /\ AllocatorTypeOK' /\ AllocatorInvariant'
      /\ Allocation!SetCollectors(collectors)
  BY <1>1, UnlockSetCollectorsInvariant DEF TypeOK, LoopInvariant
<1>3. SetCollectorsLoop' /\ GainersAreLeast'
  BY DEF SetCollectorsLoop, GainersAreLeast, Visible
<1> QED
  BY <1>2, <1>3 DEF TypeOK, LoopInvariant

-----------------------------------------------------------------------------
\* The steps that leave the items alone keep the facts about the loop of
\* handleCollectors and about the gains.
LEMMA GainsUnchanged ==
    ASSUME SetCollectorsLoop, GainersAreLeast,
           UNCHANGED <<items, collectorsCall, published>>
    PROVE  SetCollectorsLoop' /\ GainersAreLeast'
BY DEF SetCollectorsLoop, GainersAreLeast, Present, items, collectorsCall

\* SetCollectors starts: the items that lose their collector are the orphans.
LEMMA HandleCollectorsInvariant ==
    ASSUME TypeOK, LoopInvariant, LockSetCollectors
    PROVE  TypeOK' /\ LoopInvariant'
<1>1. /\ AllocatorTypeOK' /\ AllocatorInvariant'
      /\ collectors' = newCollectors /\ newCollectors # {}
      /\ collectorsDiff' = [additions |-> newCollectors \ collectors,
                            removals |-> collectors \ newCollectors]
  BY LockSetCollectorsInvariant DEF TypeOK, LoopInvariant
<1>2. /\ published.targetItems = targetItems
      /\ published.collectors = collectors
      /\ \A t \in Targets : targetItems[t] \in collectors \cup {None}
      /\ UNCHANGED <<targetItems, newCollectors, published>>
  BY SMTT(30) DEF LoopInvariant, AllocatorInvariant, MutexHeld, Visible,
         LockSetCollectors
<1>3. SetCollectorsLoop'
  BY <1>1, <1>2 DEF SetCollectorsLoop
<1>4. GainersAreLeast'
  BY <1>2 DEF GainersAreLeast
<1> QED
  BY <1>1, <1>3, <1>4 DEF TypeOK, LoopInvariant

\* While targets are removed nobody has gained one yet.
LEMMA RemoveTargetLoopInvariant ==
    ASSUME TypeOK, LoopInvariant, NEW t \in Targets, RemoveTarget(t)
    PROVE  TypeOK' /\ LoopInvariant'
<1>1. /\ AllocatorTypeOK' /\ AllocatorInvariant'
      /\ targetItems[t] = published.targetItems[t]
  BY RemoveTargetInvariant DEF TypeOK, LoopInvariant
<1>2. SetCollectorsLoop'
  BY DEF LoopInvariant, AllocatorInvariant, MutexHeld, SetCollectorsLoop,
         RemoveTarget, targetsCall, collectorsCall
<1>3. \A s \in Targets : targetItems'[s] \in {None, published.targetItems[s]}
  BY <1>1 DEF LoopInvariant, AllocatorInvariant, SetTargetsLoop, Kept,
              RemoveTarget, TypeOK, AllocatorTypeOK
<1>4. GainersAreLeast'
  BY <1>3 DEF GainersAreLeast, Present, RemoveTarget
<1> QED
  BY <1>1, <1>2, <1>4 DEF TypeOK, LoopInvariant

\* Every step keeps the types and the invariant.
LEMMA StepInvariant ==
    TypeOK /\ LoopInvariant /\ [Next]_vars => TypeOK' /\ LoopInvariant'
<1> SUFFICES ASSUME TypeOK, LoopInvariant, [Next]_vars
             PROVE  TypeOK' /\ LoopInvariant'
  OBVIOUS
<1>0. AllocatorTypeOK /\ AllocatorInvariant /\ SetCollectorsLoop
          /\ GainersAreLeast
  BY DEF TypeOK, LoopInvariant
<1>1. ASSUME NEW new \in SUBSET Targets, CallSetTargets(new)
      PROVE  TypeOK' /\ LoopInvariant'
  BY <1>0, <1>1, CallSetTargetsInvariant, GainsUnchanged
     DEF CallSetTargets, TypeOK, LoopInvariant
<1>2. CASE DropTargets
  BY <1>0, <1>2, DropTargetsInvariant, GainsUnchanged
     DEF DropTargets, TypeOK, LoopInvariant
<1>3. CASE LockSetTargets
  BY <1>0, <1>3, LockSetTargetsInvariant, GainsUnchanged
     DEF LockSetTargets, TypeOK, LoopInvariant
<1>4. CASE EndRemovals
  BY <1>0, <1>4, EndRemovalsInvariant, GainsUnchanged
     DEF EndRemovals, TypeOK, LoopInvariant
<1>5. CASE ReturnSetTargets
  <2>1. AllocatorTypeOK' /\ AllocatorInvariant'
    BY <1>0, <1>5, ReturnSetTargetsInvariant
  <2>2. GainersAreLeast'
    BY <1>5 DEF ReturnSetTargets, Visible, items, GainersAreLeast
  <2>3. SetCollectorsLoop'
    BY <1>0, <1>5 DEF ReturnSetTargets, SetCollectorsLoop, AllocatorInvariant,
                      MutexHeld, collectorsCall
  <2> QED
    BY <2>1, <2>2, <2>3 DEF TypeOK, LoopInvariant
<1>6. ASSUME NEW new \in SUBSET Collectors, CallSetCollectors(new)
      PROVE  TypeOK' /\ LoopInvariant'
  <2>1. AllocatorTypeOK' /\ AllocatorInvariant'
    BY <1>0, <1>6, CallSetCollectorsInvariant
  <2>2. GainersAreLeast' /\ SetCollectorsLoop'
    BY <1>0, <1>6 DEF CallSetCollectors, GainersAreLeast, Present, items,
                      SetCollectorsLoop
  <2> QED
    BY <2>1, <2>2 DEF TypeOK, LoopInvariant
<1>7. CASE UNCHANGED vars
  <2> USE <1>0, <1>7
      DEF vars, allocatorVars, targetsCall, collectorsCall
  <2>1. AllocatorTypeOK'
    BY DEF AllocatorTypeOK, items
  <2>2. IndexMatchesItems' /\ CountsMatchItems'
    BY ItemsUnchanged DEF AllocatorInvariant
  <2>3. MutexHeld' /\ SetTargetsLoop'
    BY DEF AllocatorInvariant, MutexHeld, SetTargetsLoop, Kept, Visible, items
  <2>4. SetCollectorsLoop' /\ GainersAreLeast'
    BY GainsUnchanged
  <2> QED
    BY <2>1, <2>2, <2>3, <2>4 DEF TypeOK, LoopInvariant, AllocatorInvariant
<1> QED
  BY <1>1, <1>2, <1>3, <1>4, <1>5, <1>6, <1>7, RemoveTargetLoopInvariant,
     AddTargetInvariant, HandleCollectorsInvariant, ReallocateTargetInvariant,
     ReturnSetCollectorsInvariant
     DEF Next, SetTargetsStep, SetCollectorsStep

-----------------------------------------------------------------------------
\* A new allocator has its types and its invariant.
LEMMA StartInvariant == Init => TypeOK /\ LoopInvariant
<1> SUFFICES ASSUME Init PROVE TypeOK /\ LoopInvariant
  OBVIOUS
<1>1. AllocatorTypeOK /\ AllocatorInvariant
  BY InitInvariant DEF Init
<1>2. SetCollectorsLoop /\ GainersAreLeast
  BY DEF Init, AllocatorInit, SetCollectorsLoop, GainersAreLeast
<1> QED
  BY <1>1, <1>2 DEF TypeOK, LoopInvariant

\* In every reachable state the variables have their types and the invariant
\* of the loops holds: this is the induction.
THEOREM InductiveInvariant == Spec => [](TypeOK /\ LoopInvariant)
BY StartInvariant, StepInvariant, PTL DEF Spec

\* Every variable of the allocator has its type in every reachable state.
THEOREM TypeCorrect == Spec => []TypeOK
BY InductiveInvariant, PTL

\* The index that GetTargetsForCollectorAndJob answers from always agrees with
\* the items, whatever SetTargets and SetCollectors have done.
THEOREM IndexCorrect == Spec => []IndexMatchesItems
<1>1. LoopInvariant => IndexMatchesItems
  BY DEF LoopInvariant, AllocatorInvariant
<1> QED
  BY <1>1, InductiveInvariant, PTL

\* NumTargets never drifts from the number of targets.
THEOREM CountsCorrect == Spec => []CountsMatchItems
<1>1. LoopInvariant => CountsMatchItems
  BY DEF LoopInvariant, AllocatorInvariant
<1> QED
  BY <1>1, InductiveInvariant, PTL

\* An item whose collector is gone is one that the running SetCollectors is
\* about to move.
THEOREM NoLostTarget == Spec => []OnlyOrphansLackCollector
<1>1. TypeOK /\ LoopInvariant => OnlyOrphansLackCollector
  <2> SUFFICES ASSUME TypeOK, LoopInvariant, NEW t \in Present,
                      targetItems[t] \notin collectors
               PROVE  cpc = "reallocate" /\ t \in Orphans
    BY DEF OnlyOrphansLackCollector
  <2>1. t \in Targets /\ targetItems[t] # None
    BY DEF Present
  <2>2. m # "free"
    BY <2>1, SMTT(30) DEF LoopInvariant, AllocatorInvariant, MutexHeld, Visible
  <2>3. m # "SetTargets"
    BY <2>1 DEF LoopInvariant, AllocatorInvariant, MutexHeld, SetTargetsLoop,
                Kept
  <2>4. cpc = "reallocate"
    BY <2>2, <2>3 DEF LoopInvariant, AllocatorInvariant, MutexHeld,
                      TypeOK, AllocatorTypeOK
  <2> QED
    BY <2>1, <2>4 DEF LoopInvariant, SetCollectorsLoop, Orphans
<1> QED
  BY <1>1, InductiveInvariant, PTL

\* A target never goes to a collector that has two targets more than another.
THEOREM LeastWeightedGains == Spec => []GainersAreLeast
<1>1. LoopInvariant => GainersAreLeast
  BY DEF LoopInvariant
<1> QED
  BY <1>1, InductiveInvariant, PTL

-----------------------------------------------------------------------------
\* Only the return of one of the two writers changes what the readers see.
LEMMA PublishedSteps ==
    ASSUME [Next]_vars, published' # published
    PROVE  ReturnSetTargets \/ ReturnSetCollectors
BY DEF Next, SetTargetsStep, SetCollectorsStep, vars, allocatorVars,
       CallSetTargets, CallSetCollectors, DropTargets, LockSetTargets,
       RemoveTarget, EndRemovals, AddTarget, LockSetCollectors,
       ReallocateTarget

\* What a return publishes: the state as it is, in which a target that stays
\* on a collector that stays has not moved.
LEMMA ReturnPublishes ==
    ASSUME TypeOK, LoopInvariant, ReturnSetTargets \/ ReturnSetCollectors
    PROVE  /\ published'.collectors = collectors
           /\ published'.targetItems = targetItems
           /\ \A t \in Targets :
                /\ targetItems[t] \in collectors \cup {None}
                /\ published.targetItems[t] \in collectors
                       => targetItems[t] \in {None, published.targetItems[t]}
<1>1. CASE ReturnSetTargets
  <2>1. published'.collectors = collectors /\ published'.targetItems = targetItems
    BY <1>1 DEF ReturnSetTargets, Visible
  <2>2. tpc = "additions" /\ SetTargetsLoop /\ MutexHeld /\ None \notin collectors
    BY <1>1, AllocatorAssumption
       DEF ReturnSetTargets, LoopInvariant, AllocatorInvariant, TypeOK,
           AllocatorTypeOK
  <2>3. ASSUME NEW t \in Targets
        PROVE  /\ targetItems[t] \in collectors \cup {None}
               /\ published.targetItems[t] \in collectors
                      => targetItems[t] \in {None, published.targetItems[t]}
    BY <2>2 DEF SetTargetsLoop, MutexHeld, Kept
  <2> QED
    BY <2>1, <2>3
<1>2. CASE ReturnSetCollectors
  BY <1>2 DEF ReturnSetCollectors, UnlockSetCollectors, Visible, Orphans,
              LoopInvariant, SetCollectorsLoop, TypeOK, AllocatorTypeOK
<1> QED
  BY <1>1, <1>2

\* No target moves between two collectors that both stay.
THEOREM Stable == Spec => StableAssignment
<1>1. TypeOK /\ LoopInvariant /\ [Next]_vars
          => [\A t \in Targets : ~Moved(t)]_published
  <2> SUFFICES ASSUME TypeOK, LoopInvariant, [Next]_vars,
                      published' # published, NEW t \in Targets, Moved(t)
               PROVE  FALSE
    OBVIOUS
  <2>1. ReturnSetTargets \/ ReturnSetCollectors
    BY PublishedSteps
  <2> QED
    BY <2>1, ReturnPublishes DEF Moved
<1> QED
  BY <1>1, InductiveInvariant, PTL DEF Spec, StableAssignment

\* The strategy implements the abstract allocator, in which SetTargets and
\* SetCollectors are single steps.
THEOREM Implements == Spec => ImplementsAllocation
<1>1. Init => Allocation!Init
  BY SMTT(30) DEF Init, AllocatorInit, Visible, Allocation!Init
<1>2. TypeOK /\ LoopInvariant /\ [Next]_vars
          => [Allocation!Next]_(Allocation!vars)
  <2> SUFFICES ASSUME TypeOK, LoopInvariant, [Next]_vars,
                      published' # published
               PROVE  Allocation!Next
    BY DEF Allocation!vars
  <2>1. ReturnSetTargets \/ ReturnSetCollectors
    BY PublishedSteps
  <2>2. CASE ReturnSetTargets
    BY <2>2, ReturnSetTargetsInvariant
       DEF TypeOK, AllocatorTypeOK, LoopInvariant, Allocation!Next
  <2>3. CASE ReturnSetCollectors
    BY <2>3, ReturnSetCollectorsInvariant
       DEF TypeOK, AllocatorTypeOK, Allocation!Next
  <2> QED
    BY <2>1, <2>2, <2>3
<1> QED
  BY <1>1, <1>2, InductiveInvariant, PTL
     DEF Spec, ImplementsAllocation, Allocation!Spec

\* A balanced allocation stays balanced when targets come and collectors go.
THEOREM BalancePreserved == Spec => BalanceKept
<1> DEFINE Had(c) == {t \in Targets : published.targetItems[t] = c}
           Has(c) == {t \in Targets : published'.targetItems[t] = c}
<1>1. TypeOK /\ LoopInvariant /\ [Next]_vars =>
      [(/\ Balanced(published)
        /\ published'.collectors \subseteq published.collectors
        /\ \A t \in Targets : published'.targetItems[t] = None
                                  => published.targetItems[t] = None)
       => Balanced(published')]_published
  <2> SUFFICES ASSUME TypeOK, LoopInvariant, [Next]_vars,
                      published' # published,
                      Balanced(published),
                      published'.collectors \subseteq published.collectors,
                      \A t \in Targets : published'.targetItems[t] = None
                                             => published.targetItems[t] = None,
                      NEW c \in published'.collectors,
                      NEW d \in published'.collectors
               PROVE  Cardinality(Has(c)) <= Cardinality(Has(d)) + 1
    BY DEF Balanced
  <2>1. /\ published'.collectors = collectors
        /\ published'.targetItems = targetItems
        /\ \A t \in Targets :
             published.targetItems[t] \in collectors
                 => targetItems[t] \in {None, published.targetItems[t]}
    BY PublishedSteps, ReturnPublishes
  <2>2. /\ c \in collectors /\ d \in collectors
        /\ None \notin collectors
    BY <2>1, AllocatorAssumption DEF TypeOK, AllocatorTypeOK
  <2>3. /\ numTargets[c] = Cardinality(Has(c))
        /\ numTargets[d] = Cardinality(Has(d))
    BY <2>1, <2>2
       DEF LoopInvariant, AllocatorInvariant, CountsMatchItems, TargetsOf
  <2>4. /\ IsFiniteSet(Had(c)) /\ IsFiniteSet(Had(d))
        /\ IsFiniteSet(Has(c)) /\ IsFiniteSet(Has(d))
    <3>1. /\ Had(c) \subseteq Targets /\ Had(d) \subseteq Targets
          /\ Has(c) \subseteq Targets /\ Has(d) \subseteq Targets
      OBVIOUS
    <3> QED
      BY <3>1, FS_Subset, AllocatorAssumption
  <2>5. CASE \E t \in Targets : targetItems[t] = c
                                 /\ published.targetItems[t] # c
    BY <2>2, <2>3, <2>5, SMTT(30) DEF LoopInvariant, GainersAreLeast, Present
  <2>6. CASE \A t \in Targets : targetItems[t] = c
                                     => published.targetItems[t] = c
    <3>1. Has(c) \subseteq Had(c) /\ Had(d) \subseteq Has(d)
      BY <2>1, <2>2, <2>6
    <3>2. /\ Cardinality(Has(c)) <= Cardinality(Had(c))
          /\ Cardinality(Had(d)) <= Cardinality(Has(d))
      BY <2>4, <3>1, FS_Subset
    <3>3. Cardinality(Had(c)) <= Cardinality(Had(d)) + 1
      BY DEF Balanced
    <3>4. /\ Cardinality(Had(c)) \in Nat /\ Cardinality(Had(d)) \in Nat
          /\ Cardinality(Has(c)) \in Nat /\ Cardinality(Has(d)) \in Nat
      BY <2>4, FS_CardinalityType
    <3> HIDE DEF Had, Has
    <3> QED
      BY <3>2, <3>3, <3>4, SMTT(30)
  <2> QED
    BY <2>5, <2>6
<1> QED
  BY <1>1, InductiveInvariant, PTL DEF Spec, BalanceKept

\* A call that is not dropped leaves exactly what it was called with.
THEOREM TakesEffect == Spec => CallsTakeEffect
<1>1. TypeOK /\ LoopInvariant /\ [Next]_vars
          => [/\ tpc = "additions" /\ tpc' = "idle"
                     => Allocation!SetTargets(newTargets)
              /\ cpc = "reallocate" /\ cpc' = "idle"
                     => Allocation!SetCollectors(newCollectors)]_allocatorVars
  <2> SUFFICES ASSUME TypeOK, LoopInvariant, [Next]_vars
               PROVE  /\ tpc = "additions" /\ tpc' = "idle"
                             => Allocation!SetTargets(newTargets)
                      /\ cpc = "reallocate" /\ cpc' = "idle"
                             => Allocation!SetCollectors(newCollectors)
    OBVIOUS
  <2>1. /\ tpc = "additions" /\ tpc' = "idle" => ReturnSetTargets
        /\ cpc = "reallocate" /\ cpc' = "idle" => ReturnSetCollectors
    BY DEF Next, SetTargetsStep, SetCollectorsStep, vars, allocatorVars,
           CallSetTargets, CallSetCollectors, DropTargets, LockSetTargets,
           RemoveTarget, EndRemovals, AddTarget, LockSetCollectors,
           ReallocateTarget, ReturnSetTargets, ReturnSetCollectors,
           targetsCall, collectorsCall, UnlockSetCollectors
  <2>2. ReturnSetTargets => Allocation!SetTargets(newTargets)
    BY ReturnSetTargetsInvariant DEF TypeOK, LoopInvariant
  <2>3. ReturnSetCollectors => Allocation!SetCollectors(newCollectors)
    BY ReturnSetCollectorsInvariant
       DEF LoopInvariant, SetCollectorsLoop, ReturnSetCollectors, UnlockSetCollectors
  <2> QED
    BY <2>1, <2>2, <2>3
<1> QED
  BY <1>1, InductiveInvariant, PTL DEF Spec, CallsTakeEffect

-----------------------------------------------------------------------------
(* The server.                                                             *)

\* A step of the allocator changes no request, and what it publishes is recorded.
LEMMA AllocatorStepInvariant ==
    ASSUME ServerTypeOK, LoopInvariant, RequestInvariant, AllocatorStep(Next)
    PROVE  ServerTypeOK' /\ LoopInvariant' /\ RequestInvariant'
<1>1. TypeOK' /\ LoopInvariant'
  BY StepInvariant DEF ServerTypeOK, AllocatorStep
<1>2. UNCHANGED <<rpc, job, unread, displayData>>
  BY DEF AllocatorStep, request
<1>3. /\ held' = held \cap Pairs(published', job)
      /\ seen' = IF rpc = "idle" THEN {} ELSE seen \cup Pairs(published', job)
  BY DEF AllocatorStep
<1>4. Pairs(published', job) \subseteq Collectors \X Targets
  BY DEF Pairs
<1>5. ServerTypeOK'
  BY <1>1, <1>2, <1>3, <1>4 DEF ServerTypeOK
<1>6. CASE rpc = "idle"
  BY <1>1, <1>2, <1>5, <1>6 DEF RequestInvariant, AnswerTrue
<1>7. CASE rpc = "reading"
  <2>1. Pairs(published, job)' = Pairs(published', job)
    BY <1>2 DEF Pairs
  <2> QED
    BY <1>1, <1>2, <1>3, <1>5, <1>7, <2>1 DEF RequestInvariant, AnswerTrue
<1> QED
  BY <1>6, <1>7 DEF ServerTypeOK

\* While the mutex is free the pairs a reader sees are those of the index, and each
\* of them is with a collector that is there.
LEMMA PairsAreIndexed ==
    ASSUME ServerTypeOK, LoopInvariant, m = "free", NEW j \in Jobs
    PROVE  \A p \in Collectors \X Targets :
              p \in Pairs(published, j) <=>
                  p[1] \in collectors /\ p[2] \in targetItemsPerJobPerCollector[p[1]][j]
<1> SUFFICES ASSUME NEW p \in Collectors \X Targets
             PROVE  p \in Pairs(published, j) <=>
                  p[1] \in collectors /\ p[2] \in targetItemsPerJobPerCollector[p[1]][j]
  OBVIOUS
<1>1. /\ published.targetItems = targetItems
      /\ published.collectors = collectors
  BY SMTT(30) DEF LoopInvariant, AllocatorInvariant, MutexHeld, Visible
<1>2. p[1] \in Collectors /\ p[2] \in Targets
  OBVIOUS
<1>3. targetItems[p[2]] = p[1] => p[1] \in collectors
  BY <1>1, <1>2, AllocatorAssumption DEF LoopInvariant, AllocatorInvariant, MutexHeld
<1>4. ASSUME NEW c \in Collectors, c \in collectors
      PROVE  targetItemsPerJobPerCollector[c][j] =
                {t \in Targets : targetItems[t] = c /\ JobOf[t] = j}
  <2>1. targetItemsPerJobPerCollector[c][j] = {t \in TargetsOf(c) : JobOf[t] = j}
    BY <1>4 DEF LoopInvariant, AllocatorInvariant, IndexMatchesItems
  <2> QED
    BY <2>1 DEF TargetsOf
<1> QED
  BY <1>1, <1>2, <1>3, <1>4 DEF Pairs

\* The request starts with every collector to be asked.
LEMMA GetAllTargetsByJobInvariant ==
    ASSUME ServerTypeOK, LoopInvariant, RequestInvariant,
           NEW j \in Jobs, GetAllTargetsByJob(j)
    PROVE  ServerTypeOK' /\ LoopInvariant' /\ RequestInvariant'
<1> USE DEF GetAllTargetsByJob
<1>1. TypeOK' /\ LoopInvariant'
  BY StepInvariant DEF ServerTypeOK
<1>2. published' = published
  BY DEF vars, allocatorVars
<1>3. Pairs(published, j) \subseteq Collectors \X Targets
  BY DEF Pairs
<1>4. ServerTypeOK'
  BY <1>1, <1>3 DEF ServerTypeOK, TypeOK, AllocatorTypeOK
<1>5. \A p \in held' : p[1] \in unread'
  BY <1>3, PairsAreIndexed
<1>6. Pairs(published, job)' = Pairs(published, j)
  BY <1>2 DEF Pairs
<1> QED
  BY <1>1, <1>4, <1>5, <1>6 DEF RequestInvariant, AnswerTrue

\* One collector is asked: it lists what stayed with it, and nothing else but what is
\* with it now.
LEMMA ReadCollectorInvariant ==
    ASSUME ServerTypeOK, LoopInvariant, RequestInvariant,
           NEW c \in Collectors, ReadCollector(c)
    PROVE  ServerTypeOK' /\ LoopInvariant' /\ RequestInvariant'
<1> USE DEF ReadCollector
<1>1. TypeOK' /\ LoopInvariant'
  BY StepInvariant DEF ServerTypeOK
<1>2. /\ published' = published /\ job \in Jobs
      /\ displayData \in [Collectors -> SUBSET Targets]
  BY DEF vars, allocatorVars, ServerTypeOK
<1>3. targetItemsPerJobPerCollector[c][job] \in SUBSET Targets
  BY <1>2, SMTT(30) DEF ServerTypeOK, TypeOK, AllocatorTypeOK
<1>4. displayData' = [displayData EXCEPT ![c] = targetItemsPerJobPerCollector[c][job]]
  BY DEF GetTargetsForCollectorAndJob
<1>5. ServerTypeOK'
  BY <1>1, <1>2, <1>3, <1>4 DEF ServerTypeOK
<1>6. Pairs(published, job)' = Pairs(published, job)
  BY <1>2 DEF Pairs
<1>7. ASSUME NEW p \in held
      PROVE  p[1] \in unread' \/ p[2] \in displayData'[p[1]]
  <2>1. p \in Pairs(published, job) /\ p \in Collectors \X Targets
    BY DEF RequestInvariant, ServerTypeOK
  <2>2. CASE p[1] = c
    BY <1>2, <1>4, <2>1, <2>2, PairsAreIndexed, SMTT(30)
  <2>3. CASE p[1] # c
    BY <1>2, <1>4, <2>1, <2>3 DEF RequestInvariant
  <2> QED
    BY <2>2, <2>3
<1>8. AnswerTrue'
  <2> SUFFICES ASSUME NEW d \in Collectors, NEW t \in displayData'[d]
               PROVE  <<d, t>> \in seen
    BY DEF AnswerTrue
  <2>1. CASE d # c
    BY <1>2, <1>4, <2>1 DEF RequestInvariant, AnswerTrue
  <2>2. CASE d = c
    <3>1. t \in targetItemsPerJobPerCollector[c][job] /\ t \in Targets
      BY <1>2, <1>3, <1>4, <2>2
    <3>2. c \in collectors
      BY <1>2, <3>1 DEF LoopInvariant, AllocatorInvariant, IndexMatchesItems
    <3>3. <<c, t>> \in Pairs(published, job)
      BY <1>2, <3>1, <3>2, PairsAreIndexed
    <3> QED
      BY <2>2, <3>3 DEF RequestInvariant
  <2> QED
    BY <2>1, <2>2
<1> QED
  BY <1>1, <1>5, <1>6, <1>7, <1>8 DEF RequestInvariant

-----------------------------------------------------------------------------
\* The request and the allocator keep their invariants together.
THEOREM ServerInvariant == ServerSpec => [](ServerTypeOK /\ LoopInvariant /\ RequestInvariant)
<1> DEFINE Inv == ServerTypeOK /\ LoopInvariant /\ RequestInvariant
<1>1. ServerInit => Inv
  <2> SUFFICES ASSUME ServerInit PROVE Inv
    OBVIOUS
  <2>1. TypeOK /\ LoopInvariant
    BY StartInvariant DEF ServerInit
  <2> QED
    BY <2>1 DEF ServerInit, ServerTypeOK, RequestInvariant, AnswerTrue
<1>2. Inv /\ [ServerNext]_serverVars => Inv'
  <2> SUFFICES ASSUME Inv, [ServerNext]_serverVars PROVE Inv'
    OBVIOUS
  <2>1. CASE AllocatorStep(Next)
    BY <2>1, AllocatorStepInvariant
  <2>2. ASSUME NEW j \in Jobs, GetAllTargetsByJob(j) PROVE Inv'
    BY <2>2, GetAllTargetsByJobInvariant
  <2>3. ASSUME NEW c \in Collectors, ReadCollector(c) PROVE Inv'
    BY <2>3, ReadCollectorInvariant
  <2>4. CASE Respond
    <3>1. TypeOK' /\ LoopInvariant'
      BY <2>4, StepInvariant DEF Respond, ServerTypeOK
    <3> QED
      BY <2>4, <3>1 DEF Respond, ServerTypeOK, RequestInvariant, AnswerTrue
  <2>5. CASE UNCHANGED serverVars
    <3>1. TypeOK' /\ LoopInvariant'
      BY <2>5, StepInvariant DEF serverVars, ServerTypeOK
    <3>2. UNCHANGED <<rpc, job, unread, displayData, held, seen, published>>
      BY <2>5 DEF serverVars, request, vars, allocatorVars
    <3> QED
      BY <3>1, <3>2 DEF ServerTypeOK, RequestInvariant, AnswerTrue, Pairs
  <2> QED
    BY <2>1, <2>2, <2>3, <2>4, <2>5 DEF ServerNext
<1> QED
  BY <1>1, <1>2, PTL DEF ServerSpec

\* However the allocation changes while a request is served, a target that stays where
\* it is is in the answer.
THEOREM CompleteAnswers == ServerSpec => []AnswerComplete
<1>1. ServerTypeOK /\ RequestInvariant => AnswerComplete
  BY DEF RequestInvariant, AnswerComplete
<1> QED
  BY <1>1, ServerInvariant, PTL

\* What is in the answer was so at some time while the request was served.
THEOREM TrueAnswers == ServerSpec => []AnswerTrue
<1>1. RequestInvariant => AnswerTrue
  BY DEF RequestInvariant
<1> QED
  BY <1>1, ServerInvariant, PTL

=============================================================================
