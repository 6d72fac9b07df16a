--------------------------- MODULE AllocatorServer ---------------------------
(***************************************************************************)
(* The HTTP handler for /jobs/<job>/targets, next to an allocator that     *)
(* goes on working.                                                        *)
(*                                                                         *)
(* Without a collector_id the handler calls GetAllTargetsByJob, which asks *)
(* for the collectors and then for the targets of each of them, and takes  *)
(* and gives back the mutex for every question: the allocation may change  *)
(* in between.  The items that an answer holds are not looked at again     *)
(* until they are encoded, and what is encoded of an item never changes.   *)
(***************************************************************************)
EXTENDS LeastWeighted

VARIABLES
    rpc,            \* "idle", or the handler is "reading"
    job,            \* the job of the request
    unread,         \* the collectors the loop has not asked for yet
    displayData,    \* the targets listed so far, by collector
    held,           \* history: the pairs of the job allocated ever since
    seen            \* history: those allocated at any time since

request == <<rpc, job, unread, displayData>>
serverVars == <<vars, request, held, seen>>

\* Which target of job j is on which collector, as the readers see it.
Pairs(state, j) ==
    {p \in Collectors \X Targets : state.targetItems[p[2]] = p[1]
                                      /\ JobOf[p[2]] = j}

ServerInit ==
    /\ Init
    /\ rpc = "idle" /\ job \in Jobs
    /\ unread = {} /\ displayData = [c \in Collectors |-> {}]
    /\ held = {} /\ seen = {}

\* GetTargetsForCollectorAndJob, under the read lock.
GetTargetsForCollectorAndJob(c, j) == targetItemsPerJobPerCollector[c][j]

-----------------------------------------------------------------------------
\* Mutant of GetAllTargetsByJob: a collector with a single target is left out.
GetAllTargetsByJobSkipsSmall(j) ==
    /\ rpc = "idle" /\ m = "free"
    /\ rpc' = "reading"
    /\ job' = j
    /\ unread' = {c \in collectors : numTargets[c] > 1}
    /\ displayData' = [c \in Collectors |-> {}]
    /\ held' = Pairs(published, j) /\ seen' = Pairs(published, j)
    /\ UNCHANGED vars

\* GetAllTargetsByJob starts with a copy of the collectors.
GetAllTargetsByJob(j) ==
    /\ rpc = "idle" /\ m = "free"
    /\ rpc' = "reading"
    /\ job' = j
    /\ unread' = collectors
    /\ displayData' = [c \in Collectors |-> {}]
    /\ held' = Pairs(published, j) /\ seen' = Pairs(published, j)
    /\ UNCHANGED vars

\* Mutant of ReadCollector: the read lock is not taken.
ReadCollectorUnlocked(c) ==
    /\ rpc = "reading" /\ c \in unread
    /\ unread' = unread \ {c}
    /\ displayData' = [displayData EXCEPT
                           ![c] = GetTargetsForCollectorAndJob(c, job)]
    /\ UNCHANGED <<vars, rpc, job, held, seen>>

\* One iteration of its loop.
ReadCollector(c) ==
    /\ rpc = "reading" /\ c \in unread
    /\ m = "free"
    /\ unread' = unread \ {c}
    /\ displayData' = [displayData EXCEPT
                           ![c] = GetTargetsForCollectorAndJob(c, job)]
    /\ UNCHANGED <<vars, rpc, job, held, seen>>

\* The answer is sent.
Respond ==
    /\ rpc = "reading" /\ unread = {}
    /\ rpc' = "idle"
    /\ displayData' = [c \in Collectors |-> {}]
    /\ held' = {} /\ seen' = {}
    /\ UNCHANGED <<vars, job, unread>>

\* A step of the allocator, while a request is or is not open.
AllocatorStep(A) ==
    /\ A
    /\ held' = held \cap Pairs(published', job)
    /\ seen' = IF rpc = "idle" THEN {} ELSE seen \cup Pairs(published', job)
    /\ UNCHANGED request

ServerNext ==
    \/ AllocatorStep(Next)
    \/ \E j \in Jobs : GetAllTargetsByJob(j)
    \/ \E c \in Collectors : ReadCollector(c)
    \/ Respond

ServerSpec == ServerInit /\ [][ServerNext]_serverVars

\* A goroutine that can go on does; a Go mutex is handed to the longest waiter
\* after at most a millisecond (its starvation mode), hence strong fairness
\* of the steps that wait for it.  Nothing obliges anybody to call.
ServerFairness ==
    /\ SF_serverVars(AllocatorStep(SetTargetsStep))
    /\ SF_serverVars(AllocatorStep(SetCollectorsStep))
    /\ SF_serverVars(\E c \in Collectors : ReadCollector(c))
    /\ WF_serverVars(Respond)

FairServerSpec == ServerSpec /\ ServerFairness

-----------------------------------------------------------------------------
\* The variables of the allocator and of the request have their types; the
\* request asks for collectors and lists targets under them.
ServerTypeOK ==
    /\ TypeOK
    /\ rpc \in {"idle", "reading"} /\ job \in Jobs
    /\ unread \in SUBSET Collectors
    /\ displayData \in [Collectors -> SUBSET Targets]
    /\ held \in SUBSET (Collectors \X Targets)
    /\ seen \in SUBSET (Collectors \X Targets)

\* The answer is complete: a target of the job that stayed on one collector
\* while the request was served is listed there, however the collectors and
\* the other targets changed meanwhile.
AnswerComplete ==
    (rpc = "reading" /\ unread = {}) =>
        \A p \in held : p[2] \in displayData[p[1]]

\* The answer is true: whatever is listed under a collector is a target of the
\* job and was on that collector at some time while the request was served.
\* (A target that moved may be listed twice, or not at all.)
AnswerTrue ==
    \A c \in Collectors : \A t \in displayData[c] :
        <<c, t>> \in seen

\* The invariant that every step preserves, from which both follow: what stayed is
\* with its collector now, and it is listed or its collector is yet to be asked.
RequestInvariant ==
    /\ rpc = "idle" => \A c \in Collectors : displayData[c] = {}
    /\ rpc = "reading" =>
          /\ held \subseteq Pairs(published, job)
          /\ Pairs(published, job) \subseteq seen
          /\ \A p \in held : p[1] \in unread \/ p[2] \in displayData[p[1]]
    /\ AnswerTrue

\* Every call of SetTargets and SetCollectors returns and every request is
\* answered, whatever the other goroutines that want the mutex do.
EveryoneReturns ==
    /\ tpc = "lock" ~> tpc = "idle"
    /\ cpc = "lock" ~> cpc = "idle"
    /\ rpc = "reading" ~> rpc = "idle"

=============================================================================
