------------------------------ MODULE Discovery ------------------------------
(***************************************************************************)
(* From the configuration to the targets: the watchers of the config file  *)
(* and of the Prometheus CRs, Discoverer.ApplyConfig, the relabel filter,  *)
(* and Discoverer.Watch, which hands the discovered targets on.            *)
(*                                                                         *)
(* Two goroutines call ApplyConfig: "init", the actor of the target        *)
(* discoverer, once before it watches, and "loop", the actor of the event  *)
(* loop, for every event.  Nothing keeps them apart.                       *)
(*                                                                         *)
(* A configuration maps the names of its jobs to the bodies of their       *)
(* scrape configs; a target is a pair of a job and an address.  The        *)
(* discovery manager of Prometheus is external: given a configuration it   *)
(* finds the targets of it some time later, and sends all it has whenever  *)
(* something has changed since it sent last.                               *)
(***************************************************************************)
EXTENDS Naturals

CONSTANTS
    FileConfigs,   \* the configurations the config file may hold
    CRConfigs,     \* the configurations the Prometheus CRs may amount to
    Broken,        \* the content of a config file that does not load
    Unset,         \* the response of a server that was never given one
    HashOf,        \* the hash of a body: some bodies have the same
    Found,         \* the addresses that a body of a scrape config finds
    Keeps,         \* the addresses that its relabel configs keep
    MaxChanges,    \* how often file and CRs change
    MaxRestarts    \* how often the process starts again

VARIABLES
    file, fileWatched, fileEvents,  \* the config file and its watcher
    cr, crEvents,                   \* the Prometheus CRs and their informers
    apc, source, cfg, merged,       \* the calls of ApplyConfig in progress
    configsMap, scrapeConfigsHash,  \* the fields of the Discoverer
    scrapeConfigResponse,           \* what the server answers
    relabelCfg,                     \* what the filter applies
    managerCfg, found, trigger,     \* the discovery manager
    unfiltered, targets,            \* the targets in the filter
    allocated,                      \* the targets of the last SetTargets
    changes, restarts,              \* history: what the bounds bound
    overlapped,                     \* history: the two calls ran at once
    unseen,                         \* history: the sources whose last change was not loaded
    failed                          \* history: the last call failed

watched == <<file, fileWatched, fileEvents, cr, crEvents>>
call == <<apc, source, cfg, merged>>
applied == <<configsMap, scrapeConfigsHash, scrapeConfigResponse, relabelCfg>>
manager == <<managerCfg, found, trigger>>
watching == <<unfiltered, targets, allocated>>
history == <<changes, restarts, overlapped, unseen, failed>>
vars == <<watched, call, applied, manager, watching, history>>

-----------------------------------------------------------------------------
Appliers == {"init", "loop"}
NoJobs == [j \in {} |-> j]

\* The later of two sources wins the jobs they both have.
Over(first, second) ==
    [j \in DOMAIN first \cup DOMAIN second |->
        IF j \in DOMAIN second THEN second[j] ELSE first[j]]

\* What the loop over configsMap may arrive at: a Go map has no order.
Merges(configs) == {Over(configs["file"], configs["cr"]),
                    Over(configs["cr"], configs["file"])}

\* hashstructure.Hash.  It sees exported fields only, and a regular expression
\* has none: bodies that differ in the regexes of their relabel configs alone
\* have the same hash.  The hash of no job is 0, the value of a new Discoverer.
Hash(config) == [j \in DOMAIN config |-> HashOf[config[j]]]

TargetsFound(config) ==
    UNION {{<<j, a>> : a \in Found[config[j]]} : j \in DOMAIN config}

\* Whether the relabel configs of config keep target t.
Kept(t, config) == t[1] \in DOMAIN config => t[2] \in Keeps[config[t[1]]]

TargetsKept(config) == {t \in TargetsFound(config) : Kept(t, config)}

\* The calls of ApplyConfig when the process starts: main has loaded f.
InitialCalls(f) ==
    [apc    |-> [a \in Appliers |-> IF a = "init" THEN "call" ELSE "idle"],
     source |-> [a \in Appliers |-> "file"],
     cfg    |-> [a \in Appliers |-> IF a = "init" THEN f ELSE NoJobs],
     merged |-> [a \in Appliers |-> NoJobs]]

\* Main goes on without a configuration if it cannot load the file that is there.
Unloaded(f, there) == IF f = there THEN {} ELSE {"file"}

NoConfigs == [s \in {"file", "cr"} |-> NoJobs]

\* An informer reports the CRs that are there when it starts.
InitialEvents(c) == IF c = NoJobs THEN 0 ELSE 1

Init ==
    /\ file \in FileConfigs /\ cr \in CRConfigs
    /\ fileWatched = FALSE /\ fileEvents = 0 /\ crEvents = InitialEvents(cr)
    /\ \E f \in {file, Broken} :
          /\ apc = InitialCalls(f).apc /\ source = InitialCalls(f).source
          /\ cfg = InitialCalls(f).cfg /\ merged = InitialCalls(f).merged
          /\ unseen = Unloaded(f, file)
    /\ configsMap = NoConfigs
    /\ scrapeConfigsHash = Hash(NoJobs) /\ scrapeConfigResponse = Unset
    /\ relabelCfg = NoJobs
    /\ managerCfg = NoJobs /\ found = {} /\ trigger = FALSE
    /\ unfiltered = {} /\ targets = {} /\ allocated = {}
    /\ changes = 0 /\ restarts = 0
    /\ overlapped = FALSE /\ failed = FALSE

-----------------------------------------------------------------------------
\* The file is replaced (a config map is mounted by swapping a link, which is
\* a Create event of its directory); a change before the watch goes unseen.
ChangeFile(f) ==
    /\ changes < MaxChanges /\ f # file
    /\ changes' = changes + 1
    /\ file' = f
    /\ fileEvents' = IF fileWatched THEN fileEvents + 1 ELSE fileEvents
    /\ unseen' = IF fileWatched THEN unseen ELSE unseen \cup {"file"}
    /\ UNCHANGED <<fileWatched, cr, crEvents, call, applied, manager, watching,
                   restarts, overlapped, failed>>

\* FileWatcher.Watch begins.
WatchFile ==
    /\ ~fileWatched
    /\ fileWatched' = TRUE
    /\ UNCHANGED <<file, fileEvents, cr, crEvents, call, applied, manager,
                   watching, history>>

\* A service or pod monitor changes, and an informer calls its handler.
ChangeCR(c) ==
    /\ changes < MaxChanges /\ c # cr
    /\ changes' = changes + 1
    /\ cr' = c
    /\ crEvents' = crEvents + 1
    /\ UNCHANGED <<file, fileWatched, fileEvents, call, applied, manager,
                   watching, restarts, overlapped, unseen, failed>>

-----------------------------------------------------------------------------
\* The event loop receives an event of the file watcher and loads the file; a
\* file that does not load, or has no Prometheus config, changes nothing.
ReceiveFileEvent ==
    /\ apc["loop"] = "idle" /\ fileEvents > 0
    /\ fileEvents' = fileEvents - 1
    /\ apc' = [apc EXCEPT !["loop"] = "call"]
    /\ source' = [source EXCEPT !["loop"] = "file"]
    /\ cfg' = [cfg EXCEPT !["loop"] = file]
    /\ unseen' = unseen \ {"file"}
    /\ UNCHANGED <<file, fileWatched, cr, crEvents, merged, applied, manager,
                   watching, changes, restarts, overlapped, failed>>

\* Mutant of ReceiveCREvent: the event has the source of the file watcher.
ReceiveCREventAsFile ==
    /\ apc["loop"] = "idle" /\ crEvents > 0
    /\ crEvents' = crEvents - 1
    /\ apc' = [apc EXCEPT !["loop"] = "call"]
    /\ source' = [source EXCEPT !["loop"] = "file"]
    /\ cfg' = [cfg EXCEPT !["loop"] = cr]
    /\ unseen' = unseen \ {"cr"}
    /\ UNCHANGED <<file, fileWatched, fileEvents, cr, merged, applied, manager,
                   watching, changes, restarts, overlapped, failed>>

\* It receives an event of an informer, and PrometheusCRWatcher.LoadConfig
\* generates the configuration of the CRs as they are now.
ReceiveCREvent ==
    /\ apc["loop"] = "idle" /\ crEvents > 0
    /\ crEvents' = crEvents - 1
    /\ apc' = [apc EXCEPT !["loop"] = "call"]
    /\ source' = [source EXCEPT !["loop"] = "cr"]
    /\ cfg' = [cfg EXCEPT !["loop"] = cr]
    /\ unseen' = unseen \ {"cr"}
    /\ UNCHANGED <<file, fileWatched, fileEvents, cr, merged, applied, manager,
                   watching, changes, restarts, overlapped, failed>>

\* It receives an event, and LoadConfig of the watcher returns an error: the file
\* cannot be read or parsed, the CRs cannot be listed, or what is generated from
\* them is no configuration.  The loop logs the error and waits for the next event.
LoadFails(s) ==
    /\ apc["loop"] = "idle"
    /\ \/ s = "file" /\ fileEvents > 0 /\ fileEvents' = fileEvents - 1 /\ UNCHANGED crEvents
       \/ s = "cr" /\ crEvents > 0 /\ crEvents' = crEvents - 1 /\ UNCHANGED fileEvents
    /\ unseen' = unseen \cup {s}
    /\ UNCHANGED <<file, fileWatched, cr, call, applied, manager, watching,
                   changes, restarts, overlapped, failed>>

\* Where a goroutine is after ApplyConfig.
Done(a) == IF a = "init" THEN "watch" ELSE "idle"

\* ApplyConfig returns at once without a configuration.
CallApplyConfig(a) ==
    /\ apc[a] = "call"
    /\ apc' = [apc EXCEPT ![a] = IF cfg[a] = Broken THEN Done(a) ELSE "store"]
    /\ overlapped' = (overlapped \/ \E b \in Appliers \ {a} :
                         apc[b] \notin {"idle", "watch", "filter", "set"})
    /\ UNCHANGED <<watched, source, cfg, merged, applied, manager, watching,
                   changes, restarts, unseen, failed>>

\* The configuration is stored and merged with those of the other sources.
StoreConfig(a) ==
    /\ apc[a] = "store"
    /\ apc' = [apc EXCEPT ![a] = "check"]
    /\ configsMap' = [configsMap EXCEPT ![source[a]] = cfg[a]]
    /\ \E all \in Merges(configsMap') : merged' = [merged EXCEPT ![a] = all]
    /\ UNCHANGED <<watched, source, cfg, scrapeConfigsHash,
                   scrapeConfigResponse, relabelCfg, manager, watching, history>>

\* Mutant of CompareHash: the hash is stored before the response is updated.
CompareHashStores(a) ==
    /\ apc[a] = "check"
    /\ apc' = [apc EXCEPT ![a] = IF scrapeConfigsHash = Hash(merged[a])
                                 THEN "hook" ELSE "respond"]
    /\ scrapeConfigsHash' = Hash(merged[a])
    /\ UNCHANGED <<watched, source, cfg, merged, configsMap,
                   scrapeConfigResponse, relabelCfg, manager, watching, history>>

\* The response is left alone if the hash is the one stored.
CompareHash(a) ==
    /\ apc[a] = "check"
    /\ apc' = [apc EXCEPT ![a] = IF scrapeConfigsHash = Hash(merged[a])
                                 THEN "hook" ELSE "respond"]
    /\ UNCHANGED <<watched, source, cfg, merged, applied, manager, watching,
                   history>>

\* Server.UpdateScrapeConfigResponse, under the mutex of the server.
UpdateScrapeConfigResponse(a) ==
    /\ apc[a] = "respond"
    /\ apc' = [apc EXCEPT ![a] = "hash"]
    /\ scrapeConfigResponse' = merged[a]
    /\ UNCHANGED <<watched, source, cfg, merged, configsMap, scrapeConfigsHash,
                   relabelCfg, manager, watching, history>>

\* It fails: the event loop logs the error and waits for the next event.
UpdateFails ==
    /\ apc["loop"] = "respond"
    /\ apc' = [apc EXCEPT !["loop"] = "idle"]
    /\ failed' = TRUE
    /\ UNCHANGED <<watched, source, cfg, merged, applied, manager, watching,
                   changes, restarts, overlapped, unseen>>

StoreHash(a) ==
    /\ apc[a] = "hash"
    /\ apc' = [apc EXCEPT ![a] = "hook"]
    /\ scrapeConfigsHash' = Hash(merged[a])
    /\ UNCHANGED <<watched, source, cfg, merged, configsMap,
                   scrapeConfigResponse, relabelCfg, manager, watching, history>>

\* RelabelConfigTargetFilter.SetConfig replaces the map of the filter.
SetConfig(a) ==
    /\ apc[a] = "hook"
    /\ apc' = [apc EXCEPT ![a] = "manager"]
    /\ relabelCfg' = merged[a]
    /\ UNCHANGED <<watched, source, cfg, merged, configsMap, scrapeConfigsHash,
                   scrapeConfigResponse, manager, watching, history>>

\* Manager.ApplyConfig, after which it sends all its targets.
ApplyToManager(a) ==
    /\ apc[a] = "manager"
    /\ apc' = [apc EXCEPT ![a] = Done(a)]
    /\ managerCfg' = merged[a]
    /\ trigger' = TRUE
    /\ failed' = FALSE
    /\ UNCHANGED <<watched, source, cfg, merged, applied, found, watching,
                   changes, restarts, overlapped, unseen>>

\* The discovery manager finds the targets of its configuration.
Discover ==
    /\ found # TargetsFound(managerCfg)
    /\ found' = TargetsFound(managerCfg)
    /\ trigger' = TRUE
    /\ UNCHANGED <<watched, call, applied, managerCfg, watching, history>>

-----------------------------------------------------------------------------
\* Discoverer.Watch receives all the targets the manager has, and SetTargets
\* begins by filtering them; a filter without a config keeps them all.
ReceiveTargets ==
    /\ apc["init"] = "watch" /\ trigger
    /\ trigger' = FALSE
    /\ IF relabelCfg = NoJobs
       THEN /\ apc' = [apc EXCEPT !["init"] = "set"]
            /\ targets' = found /\ unfiltered' = {}
       ELSE /\ apc' = [apc EXCEPT !["init"] = "filter"]
            /\ targets' = {} /\ unfiltered' = found
    /\ UNCHANGED <<watched, source, cfg, merged, applied, managerCfg, found,
                   allocated, history>>

\* One iteration of the loop of Apply, which looks relabelCfg up anew.
FilterTarget(t) ==
    /\ apc["init"] = "filter" /\ t \in unfiltered
    /\ unfiltered' = unfiltered \ {t}
    /\ targets' = IF Kept(t, relabelCfg) THEN targets \cup {t} ELSE targets
    /\ UNCHANGED <<watched, call, applied, manager, allocated, history>>

\* The filter is done and the allocator takes the targets.
SetTargets ==
    /\ \/ apc["init"] = "set"
       \/ apc["init"] = "filter" /\ unfiltered = {}
    /\ apc' = [apc EXCEPT !["init"] = "watch"]
    /\ allocated' = targets
    /\ targets' = {}
    /\ UNCHANGED <<watched, source, cfg, merged, applied, manager, unfiltered,
                   history>>

\* The process ends and the container starts again: the initial configuration
\* cannot be applied, or the runtime notices that both goroutines use the map
\* configsMap at once.
Restart ==
    /\ restarts < MaxRestarts
    /\ \/ apc["init"] = "respond"
       \/ \A a \in Appliers : apc[a] = "store"
    /\ restarts' = restarts + 1
    /\ fileWatched' = FALSE /\ fileEvents' = 0 /\ crEvents' = InitialEvents(cr)
    /\ \E f \in {file, Broken} :
          /\ apc' = InitialCalls(f).apc /\ source' = InitialCalls(f).source
          /\ cfg' = InitialCalls(f).cfg /\ merged' = InitialCalls(f).merged
          /\ unseen' = Unloaded(f, file)
    /\ configsMap' = NoConfigs
    /\ scrapeConfigsHash' = Hash(NoJobs) /\ scrapeConfigResponse' = Unset
    /\ relabelCfg' = NoJobs
    /\ managerCfg' = NoJobs /\ found' = {} /\ trigger' = FALSE
    /\ unfiltered' = {} /\ targets' = {} /\ allocated' = {}
    /\ overlapped' = FALSE /\ failed' = FALSE
    /\ UNCHANGED <<file, cr, changes>>

-----------------------------------------------------------------------------
\* Mutant of ApplyConfig: the manager has the configuration before the filter.
ApplyToManagerFirst(a) ==
    /\ apc[a] = "hook"
    /\ apc' = [apc EXCEPT ![a] = "manager"]
    /\ managerCfg' = merged[a]
    /\ trigger' = TRUE
    /\ failed' = FALSE
    /\ UNCHANGED <<watched, source, cfg, merged, applied, found, watching,
                   changes, restarts, overlapped, unseen>>

SetConfigLast(a) ==
    /\ apc[a] = "manager"
    /\ apc' = [apc EXCEPT ![a] = Done(a)]
    /\ relabelCfg' = merged[a]
    /\ UNCHANGED <<watched, source, cfg, merged, configsMap, scrapeConfigsHash,
                   scrapeConfigResponse, manager, watching, history>>

ApplyConfigManagerFirst(a) ==
    \/ CallApplyConfig(a)
    \/ StoreConfig(a)
    \/ CompareHash(a)
    \/ UpdateScrapeConfigResponse(a)
    \/ StoreHash(a)
    \/ ApplyToManagerFirst(a)
    \/ SetConfigLast(a)

ApplyConfig(a) ==
    \/ CallApplyConfig(a)
    \/ StoreConfig(a)
    \/ CompareHash(a)
    \/ UpdateScrapeConfigResponse(a)
    \/ StoreHash(a)
    \/ SetConfig(a)
    \/ ApplyToManager(a)

Watch ==
    \/ ReceiveTargets
    \/ \E t \in unfiltered : FilterTarget(t)
    \/ SetTargets

EventLoop ==
    \/ ReceiveFileEvent \/ ReceiveCREvent
    \/ \E s \in {"file", "cr"} : LoadFails(s)
    \/ ApplyConfig("loop")

Next ==
    \/ \E f \in FileConfigs : ChangeFile(f)
    \/ \E c \in CRConfigs : ChangeCR(c)
    \/ WatchFile
    \/ ApplyConfig("init") \/ Watch
    \/ EventLoop
    \/ UpdateFails
    \/ Discover
    \/ Restart

Spec == Init /\ [][Next]_vars

\* Every actor of the run group goes on when it can, and so does the manager.
Fairness ==
    /\ WF_vars(WatchFile)
    /\ WF_vars(ApplyConfig("init") \/ Watch)
    /\ WF_vars(EventLoop)
    /\ WF_vars(Discover)

FairSpec == Spec /\ Fairness

-----------------------------------------------------------------------------
Bodies == DOMAIN Found
Configs == UNION {[J -> Bodies] : J \in SUBSET UNION {DOMAIN c : c \in
               (FileConfigs \ {Broken}) \cup CRConfigs}}

\* What the sources hold is a configuration, but for a file that does not load, and
\* no response is no configuration.
ASSUME ConfigsAssumption ==
    /\ CRConfigs \cup (FileConfigs \ {Broken}) \subseteq Configs
    /\ Unset \notin Configs

\* Every variable has its type: what the Discoverer stores, merges and hands
\* on is a configuration, never a file that did not load.
TypeOK ==
    /\ file \in FileConfigs /\ cr \in CRConfigs
    /\ fileWatched \in BOOLEAN /\ fileEvents \in Nat /\ crEvents \in Nat
    /\ apc \in [Appliers -> {"idle", "call", "store", "check", "respond", "hash",
                             "hook", "manager", "watch", "filter", "set"}]
    /\ source \in [Appliers -> {"file", "cr"}]
    /\ cfg \in [Appliers -> Configs \cup {Broken}]
    /\ \A a \in Appliers : apc[a] = "store" => cfg[a] # Broken
    /\ merged \in [Appliers -> Configs]
    /\ configsMap \in [{"file", "cr"} -> Configs]
    /\ scrapeConfigsHash \in {Hash(c) : c \in Configs}
    /\ scrapeConfigResponse = Unset \/ scrapeConfigResponse \in Configs
    /\ relabelCfg \in Configs /\ managerCfg \in Configs
    /\ trigger \in BOOLEAN

\* The places of a goroutine that has not got past the first return of ApplyConfig.
Outside == {"idle", "call", "watch", "filter", "set"}

\* No call of ApplyConfig is past its first return.
Settled == \A a \in Appliers : apc[a] \in Outside

\* Between two calls the filter and the manager are at one and the same
\* configuration, one that the sources can be merged into, and what the server
\* answers has its hash: also after a call that failed.  (The response of a
\* Discoverer that has never had a job is empty.)
OneConfiguration ==
    Settled /\ ~overlapped =>
        /\ relabelCfg = managerCfg /\ scrapeConfigsHash = Hash(managerCfg)
        /\ scrapeConfigResponse # Unset =>
               Hash(scrapeConfigResponse) = Hash(managerCfg)
        /\ scrapeConfigResponse = Unset => managerCfg = NoJobs
        /\ ~failed => managerCfg \in Merges(configsMap)

\* What the server answers is configuration c, or another one with its hash.
Answers(c) ==
    IF scrapeConfigResponse = Unset THEN c = NoJobs
    ELSE Hash(scrapeConfigResponse) = Hash(c)

\* No call of ApplyConfig is at one of these places.
NoneAt(places) == \A a \in Appliers : apc[a] \notin places

\* The invariant that every step preserves, from which OneConfiguration follows: a
\* call that is alone replaces the configuration in the order of its statements.
ApplyInvariant ==
    ~overlapped =>
        /\ \A a, b \in Appliers : {apc[a], apc[b]} \cap Outside = {} => a = b
        /\ Settled /\ ~failed => managerCfg \in Merges(configsMap)
        /\ NoneAt({"manager"}) => relabelCfg = managerCfg
        /\ NoneAt({"hash", "hook", "manager"}) =>
              scrapeConfigsHash = Hash(managerCfg) /\ Answers(managerCfg)
        /\ \A a \in Appliers :
              /\ apc[a] \in {"check", "respond", "hash", "hook", "manager"} =>
                    merged[a] \in Merges(configsMap)
              /\ apc[a] = "hash" => scrapeConfigResponse = merged[a]
              /\ apc[a] \in {"hook", "manager"} =>
                    scrapeConfigsHash = Hash(merged[a]) /\ Answers(merged[a])
              /\ apc[a] = "manager" => relabelCfg = merged[a]

\* In the end the targets allocated are those the last configuration finds and
\* keeps: no filter ran on targets with the relabel configs of another
\* configuration without the targets being sent again.
AllocationConverges ==
    <>[](overlapped \/ allocated = TargetsKept(managerCfg))

\* In the end the configuration in force is merged from those that were loaded last,
\* if the last call did not fail; and that is what the file and the CRs hold, each of
\* them unless its last change could not be loaded, or came before the file was
\* watched.  What happens to one source never keeps the other from being followed.
ConfigurationConverges ==
    <>[](\/ overlapped
         \/ /\ failed \/ managerCfg \in Merges(configsMap)
            /\ "file" \in unseen \/ file = Broken \/ configsMap["file"] = file
            /\ "cr" \in unseen \/ configsMap["cr"] = cr)

\* discovery_test.go: "Assert that scrape configs in manager are correctly
\* reflected in the scrape job updater."  After a call that succeeded the
\* server answers with the configuration that the manager has.
ResponseReflectsManager ==
    Settled /\ ~overlapped /\ ~failed /\ scrapeConfigResponse # Unset
        => scrapeConfigResponse = managerCfg

\* discovery.go: "If the hash has changed, updated stored hash and send the new
\* config. Otherwise skip updating scrape configs."  What the server answers
\* between two calls has the hash that is stored.
ResponseMatchesHash ==
    Settled /\ scrapeConfigResponse # Unset
        => Hash(scrapeConfigResponse) = scrapeConfigsHash

=============================================================================
