--------------------------- MODULE CollectorWatch ---------------------------
(***************************************************************************)
(* How the target allocator learns of the collector pods: Client.Watch     *)
(* lists them once and then keeps a watch on them, opening a new watch     *)
(* each time the old one ends.                                             *)
(*                                                                         *)
(* The API server is external.  The watch is opened without a resource     *)
(* version, so it begins with an Added event for every pod there is and    *)
(* tells nothing about the pods that went before it was opened.  It may    *)
(* end at any time with events not yet delivered: the timeout of the       *)
(* context, a closed channel, or an event whose object is not a pod.       *)
(***************************************************************************)
EXTENDS Naturals, Sequences, FiniteSets

CONSTANTS
    Pods,          \* the names of the collector pods
    MaxPending,    \* how many events may wait to be delivered
    MaxGaps        \* how often a watch ends or the process starts again

\* The pods are finitely many: every set of them has a size.
ASSUME PodsAssumption == (\A S \in SUBSET Pods : Cardinality(S) \in Nat) /\ MaxGaps \in Nat

VARIABLES
    pods,          \* the pods of the cluster: absent, running or terminating
    watchEvents,   \* the events of the open watch, not yet delivered
    wpc,           \* where Client.Watch is
    clientClosed,  \* the channel Client.close
    collectorMap,  \* the keys of the local map collectorMap
    collectors,    \* the collectors of the allocator (SetCollectors)
    gaps,          \* history: how many gaps there have been
    missedPods     \* history: the pods that went while nobody was told

watchVars == <<pods, watchEvents, wpc, clientClosed, collectorMap, collectors, gaps, missedPods>>
client == <<wpc, clientClosed, collectorMap, collectors>>

Existing == {p \in Pods : pods[p] # "absent"}
Event == [type : {"Added", "Modified", "Deleted"}, pod : Pods]

\* Allocator.SetCollectors: without a collector nothing changes.
SetCollectors(new) == collectors' = IF new = {} THEN collectors ELSE new

WatchInit ==
    /\ pods \in [Pods -> {"absent", "running"}]
    /\ watchEvents = <<>>
    /\ wpc = "list" /\ clientClosed = FALSE
    /\ collectorMap = {} /\ collectors = {}
    /\ gaps = 0 /\ missedPods = {}

-----------------------------------------------------------------------------
\* The cluster.  An open watch is told of every change.
Tell(type, p) ==
    watchEvents' = IF wpc = "run" THEN Append(watchEvents, [type |-> type, pod |-> p])
                   ELSE watchEvents

CreatePod(p) ==
    /\ pods[p] = "absent" /\ Len(watchEvents) < MaxPending
    /\ pods' = [pods EXCEPT ![p] = "running"]
    /\ missedPods' = missedPods \ {p}
    /\ Tell("Added", p)
    /\ UNCHANGED <<client, gaps>>

\* The pod gets a deletion timestamp.
DeletePod(p) ==
    /\ pods[p] = "running" /\ Len(watchEvents) < MaxPending
    /\ pods' = [pods EXCEPT ![p] = "terminating"]
    /\ Tell("Modified", p)
    /\ UNCHANGED <<client, gaps, missedPods>>

RemovePod(p) ==
    /\ pods[p] = "terminating" /\ Len(watchEvents) < MaxPending
    /\ pods' = [pods EXCEPT ![p] = "absent"]
    /\ missedPods' = IF wpc = "run" THEN missedPods ELSE missedPods \cup {p}
    /\ Tell("Deleted", p)
    /\ UNCHANGED <<client, gaps>>

-----------------------------------------------------------------------------
\* The start of Watch: the pods without a deletion timestamp.
ListPods ==
    /\ wpc = "list"
    /\ collectorMap' = {p \in Pods : pods[p] = "running"}
    /\ SetCollectors(collectorMap')
    /\ wpc' = "watch"
    /\ UNCHANGED <<pods, watchEvents, clientClosed, gaps, missedPods>>

\* A list that fails ends the process.
ListPodsFails ==
    /\ wpc = "list"
    /\ wpc' = "exited"
    /\ UNCHANGED <<pods, watchEvents, clientClosed, collectorMap, collectors, gaps, missedPods>>

\* The orders that the members of a set can be told in.
Orders(S) ==
    {order \in [1..Cardinality(S) -> S] :
        \A p \in S : \E i \in 1..Cardinality(S) :
            order[i] = p /\ \A j \in 1..Cardinality(S) : order[j] = p => j = i}

\* Mutant of StartWatch: the watch starts with the next change.
StartWatchFromNow ==
    /\ wpc = "watch"
    /\ wpc' = "run"
    /\ watchEvents' = <<>>
    /\ UNCHANGED <<pods, clientClosed, collectorMap, collectors, gaps, missedPods>>

\* Mutant of StartWatch: a watch that has ended is not opened again.
StartWatchOnce ==
    /\ wpc = "watch" /\ gaps = 0
    /\ wpc' = "run"
    /\ \E order \in Orders(Existing) :
        watchEvents' = [i \in 1..Cardinality(Existing) |-> [type |-> "Added", pod |-> order[i]]]
    /\ UNCHANGED <<pods, clientClosed, collectorMap, collectors, gaps, missedPods>>

\* restartWatch opens a watch, which names the pods there are in any order.
StartWatch ==
    /\ wpc = "watch"
    /\ wpc' = "run"
    /\ \E order \in Orders(Existing) :
        watchEvents' = [i \in 1..Cardinality(Existing) |-> [type |-> "Added", pod |-> order[i]]]
    /\ UNCHANGED <<pods, clientClosed, collectorMap, collectors, gaps, missedPods>>

\* A watch that cannot be opened ends Watch, and with it the process.
StartWatchFails ==
    /\ wpc = "watch"
    /\ wpc' = "exited"
    /\ UNCHANGED <<pods, watchEvents, clientClosed, collectorMap, collectors, gaps, missedPods>>

\* Mutant of HandleEvent: a deleted pod is kept.
HandleEventKeepsDeleted ==
    /\ wpc = "run" /\ watchEvents # <<>>
    /\ LET e == Head(watchEvents) IN
       collectorMap' = IF e.type = "Added" THEN collectorMap \cup {e.pod}
                       ELSE collectorMap
    /\ SetCollectors(collectorMap')
    /\ watchEvents' = Tail(watchEvents)
    /\ UNCHANGED <<pods, wpc, clientClosed, gaps, missedPods>>

\* runWatch receives an event, changes the map and calls SetCollectors.
HandleEvent ==
    /\ wpc = "run" /\ watchEvents # <<>>
    /\ LET e == Head(watchEvents) IN
       collectorMap' = CASE e.type = "Added"   -> collectorMap \cup {e.pod}
                         [] e.type = "Deleted" -> collectorMap \ {e.pod}
                         [] OTHER              -> collectorMap
    /\ SetCollectors(collectorMap')
    /\ watchEvents' = Tail(watchEvents)
    /\ UNCHANGED <<pods, wpc, clientClosed, gaps, missedPods>>

\* runWatch returns "", and Watch opens the next watch.
WatchEnds ==
    /\ wpc = "run" /\ gaps < MaxGaps
    /\ wpc' = "watch"
    /\ gaps' = gaps + 1
    /\ missedPods' = missedPods \cup
                        {p \in Pods \ Existing : \E i \in DOMAIN watchEvents : watchEvents[i].pod = p}
    /\ watchEvents' = <<>>
    /\ UNCHANGED <<pods, clientClosed, collectorMap, collectors>>

\* Client.Close, called when the run group is interrupted.
Close ==
    /\ ~clientClosed
    /\ clientClosed' = TRUE
    /\ UNCHANGED <<pods, watchEvents, wpc, collectorMap, collectors, gaps, missedPods>>

\* runWatch sees that the client is closed.
StopWatch ==
    /\ wpc = "run" /\ clientClosed
    /\ wpc' = "exited"
    /\ watchEvents' = <<>>
    /\ UNCHANGED <<pods, clientClosed, collectorMap, collectors, gaps, missedPods>>

\* The container starts again, with an empty memory.
RestartClient ==
    /\ wpc = "exited" /\ gaps < MaxGaps
    /\ gaps' = gaps + 1
    /\ wpc' = "list" /\ clientClosed' = FALSE
    /\ watchEvents' = <<>>
    /\ collectorMap' = {} /\ collectors' = {} /\ missedPods' = {}
    /\ UNCHANGED pods

Cluster == \E p \in Pods : CreatePod(p) \/ DeletePod(p) \/ RemovePod(p)

ClientStep ==
    ListPods \/ StartWatch \/ HandleEvent \/ StopWatch \/ RestartClient

WatchNext ==
    \/ Cluster
    \/ ClientStep
    \/ ListPodsFails \/ StartWatchFails \/ WatchEnds \/ Close

WatchSpec == WatchInit /\ [][WatchNext]_watchVars

\* The goroutine of Watch goes on whenever it can.
WatchFairSpec == WatchSpec /\ WF_watchVars(ClientStep)

-----------------------------------------------------------------------------
\* Every variable has its type; only names of pods become collectors.
WatchTypeOK ==
    /\ pods \in [Pods -> {"absent", "running", "terminating"}]
    /\ watchEvents \in Seq(Event)
    /\ wpc \in {"list", "watch", "run", "exited"}
    /\ clientClosed \in BOOLEAN
    /\ collectorMap \in SUBSET Pods /\ collectors \in SUBSET Pods
    /\ gaps \in 0..MaxGaps /\ missedPods \in SUBSET Pods

\* An event that tells whether p is there.
News(e, p) == e.pod = p /\ e.type # "Modified"

\* The last thing the open watch has to say about p.
Pending(type, p) ==
    \E i \in DOMAIN watchEvents :
        /\ News(watchEvents[i], p) /\ watchEvents[i].type = type
        /\ \A j \in DOMAIN watchEvents : News(watchEvents[j], p) => j <= i

\* Once the events are delivered every pod there is, is a collector: a pod that
\* came between the list and the watch, or between two watches, is not lost.
PodsKnown ==
    wpc = "run" =>
        \A p \in Existing :
            p \in collectorMap \cap collectors \/ Pending("Added", p)

\* The only pods that stay collectors after they went are those that went
\* while no watch was open, or whose event was dropped with a watch.
OnlyGapsGoUnnoticed ==
    wpc = "run" =>
        \A p \in collectorMap \ Existing : p \in missedPods \/ Pending("Deleted", p)

\* README: "Client to watch for deployed Collector instances which will then
\* provided to the Allocator."  When the watch has no more to say, what it
\* has provided are collectors that are deployed.
ProvidesDeployed ==
    wpc = "run" /\ watchEvents = <<>> => collectorMap \subseteq Existing

\* A pod that comes and stays becomes a collector and stays one, as long as
\* the process lives.
PodsBecomeCollectors ==
    \A p \in Pods :
        <>[](pods[p] = "running" /\ wpc # "exited") => <>[](p \in collectors)

=============================================================================
