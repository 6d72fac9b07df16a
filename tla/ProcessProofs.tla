---------------------------- MODULE ProcessProofs ----------------------------
(***************************************************************************)
(* Proofs about the target allocator process.  The configuration in force, *)
(* for all configurations, any hash of them and any number of changes and  *)
(* restarts; its life, with and without the Prometheus CR watcher and for  *)
(* any number of events: the event loop outlives the file watcher; and the *)
(* pods it knows.                                                          *)
(***************************************************************************)
EXTENDS Discovery, RunGroup, CollectorWatch, TLAPS

\* The prover of a leaf that names none.
USE ZenonT(60)

Places == {"idle", "call", "store", "check", "respond", "hash", "hook", "manager",
           "watch", "filter", "set"}

-----------------------------------------------------------------------------
(* Configurations.                                                         *)

\* A Discoverer starts with a configuration that has no jobs.
LEMMA NoJobsIsConfig == NoJobs \in Configs
<1>1. NoJobs \in [{} -> Bodies]
  BY DEF NoJobs
<1>2. {} \in SUBSET UNION {DOMAIN c : c \in (FileConfigs \ {Broken}) \cup CRConfigs}
  OBVIOUS
<1> QED
  BY <1>1, <1>2 DEF Configs

\* One configuration over another is a configuration.
LEMMA OverIsConfig ==
    ASSUME NEW c \in Configs, NEW d \in Configs
    PROVE  Over(c, d) \in Configs
<1> DEFINE Jobs == UNION {DOMAIN x : x \in (FileConfigs \ {Broken}) \cup CRConfigs}
<1>1. PICK I \in SUBSET Jobs : c \in [I -> Bodies]
  BY DEF Configs
<1>2. PICK J \in SUBSET Jobs : d \in [J -> Bodies]
  BY DEF Configs
<1> HIDE DEF Jobs
<1>3. Over(c, d) \in [I \cup J -> Bodies]
  BY <1>1, <1>2 DEF Over
<1>4. I \cup J \in SUBSET Jobs
  BY <1>1, <1>2
<1> QED
  BY <1>3, <1>4 DEF Configs, Jobs

\* Whatever the order of the map, the sources merge into a configuration.
LEMMA MergesAreConfigs ==
    ASSUME NEW configs \in [{"file", "cr"} -> Configs]
    PROVE  Merges(configs) \subseteq Configs
<1>1. configs["file"] \in Configs /\ configs["cr"] \in Configs
  OBVIOUS
<1> QED
  BY <1>1, OverIsConfig DEF Merges

\* Only a configuration without jobs has the hash of one.
LEMMA EmptyHash ==
    ASSUME NEW c \in Configs, Hash(c) = Hash(NoJobs)
    PROVE  c = NoJobs
<1>1. PICK J : c \in [J -> Bodies]
  BY DEF Configs
<1>2. DOMAIN Hash(c) = J /\ DOMAIN Hash(NoJobs) = {}
  BY <1>1 DEF Hash, NoJobs
<1>3. J = {}
  BY <1>2
<1> QED
  BY <1>1, <1>3 DEF NoJobs

\* A source that did not load is not stored.
LEMMA SourcesAreConfigs ==
    /\ FileConfigs \subseteq Configs \cup {Broken}
    /\ CRConfigs \subseteq Configs
BY ConfigsAssumption

-----------------------------------------------------------------------------
(* Types.                                                                  *)

\* The Discoverer starts with its types, and so it does after a restart.
LEMMA StartTypes ==
    ASSUME NEW f \in FileConfigs \cup {Broken}
    PROVE  /\ InitialCalls(f).apc \in [Appliers -> Places]
           /\ InitialCalls(f).source \in [Appliers -> {"file", "cr"}]
           /\ InitialCalls(f).cfg \in [Appliers -> Configs \cup {Broken}]
           /\ InitialCalls(f).merged \in [Appliers -> Configs]
           /\ \A a \in Appliers : InitialCalls(f).apc[a] \in {"idle", "call"}
           /\ NoConfigs \in [{"file", "cr"} -> Configs]
           /\ Hash(NoJobs) \in {Hash(c) : c \in Configs}
BY NoJobsIsConfig, SourcesAreConfigs, SMTT(20) DEF InitialCalls, Appliers, Places, NoConfigs

\* The calls of ApplyConfig keep the types.
LEMMA ApplyTypes ==
    ASSUME TypeOK, NEW a \in Appliers, ApplyConfig(a)
    PROVE  TypeOK'
<1> USE DEF TypeOK, watched, call, applied, manager, watching, history
<1>1. CASE CallApplyConfig(a)
  BY <1>1 DEF CallApplyConfig, Done
<1>2. CASE StoreConfig(a)
  <2>1. cfg[a] \in Configs
    BY <1>2 DEF StoreConfig
  <2>2. configsMap' \in [{"file", "cr"} -> Configs]
    BY <1>2, <2>1 DEF StoreConfig
  <2>3. Merges(configsMap') \subseteq Configs
    BY <2>2, MergesAreConfigs
  <2> QED
    BY <1>2, <2>2, <2>3 DEF StoreConfig
<1>3. CASE CompareHash(a)
  BY <1>3 DEF CompareHash
<1>4. CASE UpdateScrapeConfigResponse(a)
  BY <1>4 DEF UpdateScrapeConfigResponse
<1>5. CASE StoreHash(a)
  BY <1>5 DEF StoreHash
<1>6. CASE SetConfig(a)
  BY <1>6 DEF SetConfig
<1>7. CASE ApplyToManager(a)
  BY <1>7 DEF ApplyToManager, Done
<1> QED
  BY <1>1, <1>2, <1>3, <1>4, <1>5, <1>6, <1>7 DEF ApplyConfig

\* Every step keeps the types.
LEMMA StepTypes == TypeOK /\ [Next]_vars => TypeOK'
<1> SUFFICES ASSUME TypeOK, [Next]_vars PROVE TypeOK'
  OBVIOUS
<1> USE DEF watched, call, applied, manager, watching, history
<1>1. ASSUME NEW f \in FileConfigs, ChangeFile(f) PROVE TypeOK'
  BY <1>1, SMTT(30) DEF ChangeFile, TypeOK
<1>2. ASSUME NEW c \in CRConfigs, ChangeCR(c) PROVE TypeOK'
  BY <1>2, SMTT(30) DEF ChangeCR, TypeOK
<1>3. CASE WatchFile
  BY <1>3 DEF WatchFile, TypeOK
<1>4. CASE ReceiveFileEvent
  BY <1>4, SourcesAreConfigs, SMTT(30) DEF ReceiveFileEvent, TypeOK, Appliers
<1>5. CASE ReceiveCREvent
  BY <1>5, SourcesAreConfigs, SMTT(30) DEF ReceiveCREvent, TypeOK, Appliers
<1>6. CASE UpdateFails
  BY <1>6 DEF UpdateFails, TypeOK, Appliers
<1>7. CASE Discover
  BY <1>7 DEF Discover, TypeOK
<1>8. CASE ReceiveTargets
  BY <1>8 DEF ReceiveTargets, TypeOK, Appliers
<1>9. ASSUME NEW t \in unfiltered, FilterTarget(t) PROVE TypeOK'
  BY <1>9 DEF FilterTarget, TypeOK
<1>10. CASE SetTargets
  BY <1>10 DEF SetTargets, TypeOK, Appliers
<1>11. CASE Restart
  <2>1. file \in FileConfigs
    BY DEF TypeOK
  <2>2. PICK f \in {file, Broken} :
            /\ apc' = InitialCalls(f).apc /\ source' = InitialCalls(f).source
            /\ cfg' = InitialCalls(f).cfg /\ merged' = InitialCalls(f).merged
    BY <1>11 DEF Restart
  <2> QED
    BY <1>11, <2>1, <2>2, StartTypes, NoJobsIsConfig
       DEF Restart, TypeOK, Places, InitialEvents
<1>12. CASE UNCHANGED vars
  BY <1>12 DEF vars, TypeOK
<1>13. CASE ApplyConfig("init") \/ ApplyConfig("loop")
  BY <1>13, ApplyTypes DEF Appliers
<1>14. ASSUME NEW s \in {"file", "cr"}, LoadFails(s) PROVE TypeOK'
  BY <1>14, SMTT(30) DEF LoadFails, TypeOK
<1> QED
  BY <1>1, <1>2, <1>3, <1>4, <1>5, <1>6, <1>7, <1>8, <1>9, <1>10, <1>11, <1>12, <1>13, <1>14
     DEF Next, Watch, EventLoop

-----------------------------------------------------------------------------
(* The configuration in force.                                             *)

\* What a step leaves alone that touches no call past its first return.
LEMMA OutsideInvariant ==
    ASSUME TypeOK, ApplyInvariant, TypeOK',
           \A a \in Appliers : apc'[a] = apc[a] \/ {apc[a], apc'[a]} \subseteq Outside,
           UNCHANGED <<merged, applied, managerCfg, overlapped, failed>>
    PROVE  ApplyInvariant'
<1> SUFFICES ASSUME ~overlapped PROVE ApplyInvariant'
  BY DEF ApplyInvariant
<1>1. UNCHANGED <<configsMap, scrapeConfigsHash, scrapeConfigResponse, relabelCfg>>
  BY DEF applied
<1>2. Settled' = Settled
  BY DEF Settled
<1>3. ASSUME NEW places, places \cap Outside = {}
      PROVE  NoneAt(places)' = NoneAt(places)
  BY <1>3 DEF NoneAt
<1>4. /\ NoneAt({"manager"})' = NoneAt({"manager"})
      /\ NoneAt({"hash", "hook", "manager"})' = NoneAt({"hash", "hook", "manager"})
  BY <1>3 DEF Outside
<1>5. \A c : Answers(c)' = Answers(c)
  BY <1>1 DEF Answers
<1> QED
  BY <1>1, <1>2, <1>4, <1>5 DEF ApplyInvariant, Outside

\* Each statement of ApplyConfig keeps the invariant.
LEMMA ApplyStepInvariant ==
    ASSUME TypeOK, TypeOK', ApplyInvariant, NEW a \in Appliers, ApplyConfig(a)
    PROVE  ApplyInvariant'
<1> SUFFICES ASSUME ~overlapped' PROVE ApplyInvariant'
  BY DEF ApplyInvariant
<1>0. ~overlapped
  BY DEF ApplyConfig, CallApplyConfig, StoreConfig, CompareHash, StoreHash,
         UpdateScrapeConfigResponse, SetConfig, ApplyToManager, history
<1> DEFINE b == IF a = "init" THEN "loop" ELSE "init"
<1>a. /\ b \in Appliers /\ Appliers = {a, b} /\ a # b
      /\ apc \in [Appliers -> Places] /\ merged \in [Appliers -> Configs]
  BY DEF Appliers, TypeOK, Places
<1> HIDE DEF b
<1>b. apc[a] \notin Outside => apc[b] \in Outside
  BY <1>0, <1>a DEF ApplyInvariant
<1>1. CASE CallApplyConfig(a)
  <2>1. apc[b] \in Outside
    BY <1>0, <1>1, <1>a DEF CallApplyConfig, Outside, Places
  <2> QED
    BY <1>0, <1>1, <1>a, <2>1, SMTT(30)
       DEF CallApplyConfig, ApplyInvariant, Done, Settled, NoneAt, Answers, Outside, applied
<1>2. CASE StoreConfig(a)
  BY <1>0, <1>2, <1>a, <1>b
     DEF StoreConfig, ApplyInvariant, Settled, NoneAt, Answers, Outside, manager, history
<1>3. CASE CompareHash(a)
  <2>1. scrapeConfigsHash = Hash(managerCfg) /\ Answers(managerCfg)
    BY <1>0, <1>3, <1>a, <1>b DEF CompareHash, ApplyInvariant, NoneAt, Outside
  <2>2. scrapeConfigsHash = Hash(merged[a]) => Answers(merged[a])
    BY <1>a, <2>1, EmptyHash DEF Answers
  <2> QED
    BY <1>0, <1>3, <1>a, <1>b, <2>1, <2>2, SMTT(30)
       DEF CompareHash, ApplyInvariant, Settled, NoneAt, Answers, Outside, applied, manager,
           history
<1>4. CASE UpdateScrapeConfigResponse(a)
  BY <1>0, <1>4, <1>a, <1>b
     DEF UpdateScrapeConfigResponse, ApplyInvariant, Settled, NoneAt, Answers, Outside,
         manager, history
<1>5. CASE StoreHash(a)
  <2>1. scrapeConfigResponse = merged[a] /\ scrapeConfigResponse # Unset
    BY <1>0, <1>5, <1>a, ConfigsAssumption DEF StoreHash, ApplyInvariant
  <2> QED
    BY <1>0, <1>5, <1>a, <1>b, <2>1
       DEF StoreHash, ApplyInvariant, Settled, NoneAt, Answers, Outside, manager, history
<1>6. CASE SetConfig(a)
  BY <1>0, <1>6, <1>a, <1>b
     DEF SetConfig, ApplyInvariant, Settled, NoneAt, Answers, Outside, manager, history
<1>7. CASE ApplyToManager(a)
  BY <1>0, <1>7, <1>a, <1>b
     DEF ApplyToManager, ApplyInvariant, Settled, NoneAt, Answers, Outside, Done, applied,
         history
<1> QED
  BY <1>1, <1>2, <1>3, <1>4, <1>5, <1>6, <1>7 DEF ApplyConfig

\* A Discoverer that has just started has no configuration in force.
LEMMA StartInvariant ==
    ASSUME NEW f \in FileConfigs \cup {Broken},
           apc = InitialCalls(f).apc, configsMap = NoConfigs,
           scrapeConfigsHash = Hash(NoJobs), scrapeConfigResponse = Unset,
           relabelCfg = NoJobs, managerCfg = NoJobs
    PROVE  ApplyInvariant
<1>1. \A a \in Appliers : apc[a] \in {"idle", "call"}
  BY StartTypes
<1>2. NoJobs \in Merges(NoConfigs)
  BY DEF Merges, NoConfigs, Over, NoJobs
<1> QED
  BY <1>1, <1>2 DEF ApplyInvariant, Settled, Outside, NoneAt, Answers

\* Every step keeps the invariant.
LEMMA StepInvariant ==
    TypeOK /\ ApplyInvariant /\ [Next]_vars => ApplyInvariant'
<1> SUFFICES ASSUME TypeOK, ApplyInvariant, [Next]_vars PROVE ApplyInvariant'
  OBVIOUS
<1>0. TypeOK'
  BY StepTypes
<1> USE DEF watched, call, manager, watching, history
<1>1. CASE \/ \E f \in FileConfigs : ChangeFile(f)
           \/ \E c \in CRConfigs : ChangeCR(c)
           \/ WatchFile \/ Discover
           \/ \E s \in {"file", "cr"} : LoadFails(s)
           \/ \E t \in unfiltered : FilterTarget(t)
           \/ UNCHANGED vars
  BY <1>0, <1>1, OutsideInvariant
     DEF ChangeFile, ChangeCR, WatchFile, Discover, LoadFails, FilterTarget, vars
<1>2. CASE ReceiveFileEvent \/ ReceiveCREvent
  <2>1. \A a \in Appliers : apc'[a] = apc[a] \/ {apc[a], apc'[a]} \subseteq Outside
    BY <1>2 DEF ReceiveFileEvent, ReceiveCREvent, Appliers, Outside, TypeOK
  <2> QED
    BY <1>0, <1>2, <2>1, OutsideInvariant DEF ReceiveFileEvent, ReceiveCREvent
<1>3. CASE ReceiveTargets \/ SetTargets
  <2>1. \A a \in Appliers : apc'[a] = apc[a] \/ {apc[a], apc'[a]} \subseteq Outside
    BY <1>3 DEF ReceiveTargets, SetTargets, Appliers, Outside, TypeOK
  <2> QED
    BY <1>0, <1>3, <2>1, OutsideInvariant DEF ReceiveTargets, SetTargets
<1>4. CASE UpdateFails
  <2>1. /\ apc["loop"] = "respond" /\ apc' = [apc EXCEPT !["loop"] = "idle"] /\ failed'
        /\ UNCHANGED <<merged, configsMap, scrapeConfigsHash, scrapeConfigResponse,
                       relabelCfg, managerCfg, overlapped>>
    BY <1>4 DEF UpdateFails, applied
  <2>2. apc \in [Appliers -> Places]
    BY DEF TypeOK, Places
  <2> QED
    BY <2>1, <2>2 DEF ApplyInvariant, Settled, NoneAt, Answers, Outside, Appliers
<1>5. CASE Restart
  <2>1. PICK f \in {file, Broken} : apc' = InitialCalls(f).apc
    BY <1>5 DEF Restart
  <2>4. /\ file \in FileConfigs
        /\ configsMap' = NoConfigs
        /\ scrapeConfigsHash' = Hash(NoJobs) /\ scrapeConfigResponse' = Unset
        /\ relabelCfg' = NoJobs /\ managerCfg' = NoJobs
    BY <1>5 DEF Restart, TypeOK
  <2>2. \A a \in Appliers : apc'[a] \in {"idle", "call"}
    BY <2>1, <2>4, StartTypes
  <2>3. NoJobs \in Merges(NoConfigs)
    BY DEF Merges, NoConfigs, Over, NoJobs
  <2> QED
    BY <2>2, <2>3, <2>4 DEF ApplyInvariant, Settled, Outside, NoneAt, Answers
<1>6. CASE ApplyConfig("init") \/ ApplyConfig("loop")
  BY <1>0, <1>6, ApplyStepInvariant DEF Appliers
<1> QED
  BY <1>1, <1>2, <1>3, <1>4, <1>5, <1>6 DEF Next, Watch, EventLoop

-----------------------------------------------------------------------------
\* The types and the invariant of the calls hold in every reachable state.
THEOREM CallsInOrder == Spec => [](TypeOK /\ ApplyInvariant)
<1>1. Init => TypeOK /\ ApplyInvariant
  <2> SUFFICES ASSUME Init PROVE TypeOK /\ ApplyInvariant
    OBVIOUS
  <2>3. PICK f \in {file, Broken} :
            /\ apc = InitialCalls(f).apc /\ source = InitialCalls(f).source
            /\ cfg = InitialCalls(f).cfg /\ merged = InitialCalls(f).merged
    BY DEF Init
  <2>4. file \in FileConfigs
    BY DEF Init
  <2>1. TypeOK
    BY <2>3, <2>4, StartTypes, NoJobsIsConfig DEF Init, TypeOK, Places, InitialEvents
  <2>2. ApplyInvariant
    BY <2>3, <2>4, StartInvariant DEF Init
  <2> QED
    BY <2>1, <2>2
<1> QED
  BY <1>1, StepTypes, StepInvariant, PTL DEF Spec

\* Between two calls that do not overlap there is one configuration in force, whatever
\* failed before.
THEOREM OneInForce == Spec => []OneConfiguration
<1>1. TypeOK /\ ApplyInvariant => OneConfiguration
  <2> SUFFICES ASSUME TypeOK, ApplyInvariant, Settled, ~overlapped
               PROVE  /\ relabelCfg = managerCfg /\ scrapeConfigsHash = Hash(managerCfg)
                      /\ Answers(managerCfg)
                      /\ ~failed => managerCfg \in Merges(configsMap)
    BY DEF OneConfiguration, Answers
  <2>1. NoneAt({"manager"}) /\ NoneAt({"hash", "hook", "manager"})
    BY DEF Settled, NoneAt, Outside
  <2> QED
    BY <2>1 DEF ApplyInvariant
<1> QED
  BY <1>1, CallsInOrder, PTL

-----------------------------------------------------------------------------
(* The life of the process.                                                *)

\* The inductive invariant: the interrupt functions are called in order, that of the
\* file watcher returns only with the watcher, and the event loop ends only when it is
\* interrupted.
GroupInv ==
    /\ DOMAIN pc = Actors /\ next \in Nat \ {0}
    /\ \A i \in DOMAIN Order : i < next => Order[i] \in closed
    /\ "file" \in closed => pc["file"] = "returned"
    /\ "loop" \in closed => "file" \in closed
    /\ pc["loop"] = "returned" => "loop" \in closed
    /\ main = "shutdown" => next \in DOMAIN Order /\ Order[next] = "server"

\* The file watcher is added before the event loop.
LEMMA FileBeforeLoop ==
    /\ {"file", "loop"} \subseteq Actors
    /\ Len(Order) \in Nat /\ DOMAIN Order = 1..Len(Order)
    /\ \A l \in DOMAIN Order : Order[l] = "loop" =>
          \E f \in DOMAIN Order : f < l /\ Order[f] = "file"
<1>1. CASE PromEnabled
  <2>1. Order = <<"prom", "file", "manager", "discoverer", "collector", "server", "loop",
                  "interrupt">>
    BY <1>1 DEF Order
  <2> QED
    BY <2>1, SMTT(30) DEF Actors
<1>2. CASE ~PromEnabled
  <2>1. Order = <<"file", "manager", "discoverer", "collector", "server", "loop",
                  "interrupt">>
    BY <1>2 DEF Order
  <2> QED
    BY <2>1, SMTT(30) DEF Actors
<1> QED
  BY <1>1, <1>2

\* A step of an actor that is not the file watcher coming back, nor the event loop
\* ending on its own.
LEMMA GotoKeepsGroupInv ==
    ASSUME GroupInv, NEW a, NEW from, NEW to, Goto(a, from, to), UNCHANGED group,
           a = "file" => from # "returned",
           a = "loop" /\ to = "returned" => "loop" \in closed
    PROVE  GroupInv'
<1>1. /\ DOMAIN pc' = DOMAIN pc /\ pc[a] = from
      /\ \A b \in Actors : pc'[b] = IF b = a THEN to ELSE pc[b]
  BY DEF Goto, GroupInv
<1>2. UNCHANGED <<closed, main, next>>
  BY DEF group
<1> QED
  BY <1>1, <1>2, FileBeforeLoop DEF GroupInv

LEMMA GroupInvInit == GroupInit => GroupInv
<1> SUFFICES ASSUME GroupInit PROVE GroupInv
  OBVIOUS
<1>1. pc["loop"] = "select"
  BY FileBeforeLoop DEF GroupInit, Start
<1> QED
  BY <1>1, FileBeforeLoop, SMTT(30) DEF GroupInit, GroupInv

\* The actors keep GroupInv.
LEMMA ActorsKeepGroupInv ==
    ASSUME GroupInv, UNCHANGED group, Stops \/ Works \/ FileSends \/ Failure
    PROVE  GroupInv'
<1>1. CASE Stops
  BY <1>1, GotoKeepsGroupInv
     DEF Stops, PromStops, LoopStops, ManagerStops, DiscovererStops, CollectorStops,
         ServerStops, ServerFails, InterruptStops
<1>2. CASE LoopReceives
  <2>1. /\ pc["file"] = "send" /\ pc["loop"] = "select" /\ DOMAIN pc' = DOMAIN pc
        /\ pc'["loop"] \in {"apply", "select"} /\ pc'["file"] = "select"
    BY <1>2, FileBeforeLoop DEF LoopReceives, GroupInv
  <2> QED
    BY <2>1 DEF GroupInv, group
<1>3. CASE Works /\ ~LoopReceives
  BY <1>3, GotoKeepsGroupInv
     DEF Works, PromSyncs, FileAdds, LoopReceivesCR, LoopApplies, DiscovererApplies,
         DiscovererReceives, DiscovererSets, CollectorLists, CollectorOpens, CollectorReopens
<1>4. CASE FileSends \/ Failure
  BY <1>4, GotoKeepsGroupInv
     DEF FileSends, Failure, FileFails, DiscovererFails, CollectorFails, ServerFails
<1> QED
  BY <1>1, <1>2, <1>3, <1>4

\* So does main: when it comes to the event loop it has been at the file watcher.
LEMMA GroupInvNext == GroupInv /\ [GroupNext]_processVars => GroupInv'
<1> SUFFICES ASSUME GroupInv, [GroupNext]_processVars PROVE GroupInv'
  OBVIOUS
<1>1. ASSUME UNCHANGED <<pc, closed, next>>, main' # "shutdown" \/ main' = main
      PROVE  GroupInv'
  BY <1>1 DEF GroupInv
<1>2. CASE CloseNext
  <2>1. /\ next \in DOMAIN Order /\ Order[next] # "file" /\ main' # "shutdown"
        /\ closed' = closed \cup {Order[next]} /\ next' = next + 1 /\ pc' = pc
    BY <1>2, FileBeforeLoop, SMTT(30) DEF CloseNext, GroupInv
  <2>2. \A i \in DOMAIN Order : i < next' => Order[i] \in closed'
    BY <2>1, FileBeforeLoop, SMTT(30) DEF GroupInv
  <2>3. Order[next] = "loop" => "file" \in closed
    BY <2>1, FileBeforeLoop DEF GroupInv
  <2> QED
    BY <2>1, <2>2, <2>3, SMTT(30) DEF GroupInv
<1>3. CASE CloseFile
  <2>1. /\ next \in DOMAIN Order /\ Order[next] = "file" /\ main' # "shutdown"
        /\ closed' = closed \cup {"file"} /\ next' = next + 1
    BY <1>3, FileBeforeLoop, SMTT(30) DEF CloseFile, GroupInv
  <2>2. DOMAIN pc' = DOMAIN pc /\ pc'["file"] = "returned" /\ pc'["loop"] = pc["loop"]
    BY <1>3, FileBeforeLoop DEF CloseFile, Goto, GroupInv
  <2>3. \A i \in DOMAIN Order : i < next' => Order[i] \in closed'
    BY <2>1, FileBeforeLoop, SMTT(30) DEF GroupInv
  <2> QED
    BY <2>1, <2>2, <2>3, SMTT(30) DEF GroupInv
<1>4. CASE \/ FirstReturns \/ Exit \/ Signal \/ ListFails \/ UNCHANGED processVars
           \/ \E c \in Clients : RequestBegins(c) \/ RequestEnds(c)
  BY <1>1, <1>4
     DEF FirstReturns, Exit, Signal, ListFails, RequestBegins, RequestEnds, processVars, group
<1>5. CASE Quietly(Stops) \/ Quietly(Works) \/ (FileSends /\ UNCHANGED group) \/ Failure
  BY <1>5, ActorsKeepGroupInv DEF Quietly, Failure
<1>6. CASE ShutdownServer
  <2>1. next \in DOMAIN Order /\ Order[next] = "server" /\ UNCHANGED <<pc, closed, next>>
    BY <1>6, FileBeforeLoop, SMTT(30) DEF ShutdownServer, GroupInv
  <2> QED
    BY <2>1 DEF GroupInv
<1>7. CASE ShutdownReturns
  <2>1. /\ next \in DOMAIN Order /\ Order[next] = "server" /\ main' # "shutdown"
        /\ closed' = closed \cup {Order[next]} /\ next' = next + 1 /\ pc' = pc
    BY <1>7 DEF ShutdownReturns, GroupInv
  <2>2. \A i \in DOMAIN Order : i < next' => Order[i] \in closed'
    BY <2>1, FileBeforeLoop, SMTT(30) DEF GroupInv
  <2> QED
    BY <2>1, <2>2, SMTT(30) DEF GroupInv
<1> QED
  BY <1>2, <1>3, <1>4, <1>5, <1>6, <1>7 DEF GroupNext

\* The event loop has returned only if the file watcher has: no watcher waits for a
\* receiver that is gone, in any order of failures, signals and interrupts.
THEOREM LoopLast == GroupSpec => []LoopOutlivesWatcher
<1>1. GroupInv => LoopOutlivesWatcher
  BY DEF GroupInv, LoopOutlivesWatcher
<1> QED
  BY <1>1, GroupInvInit, GroupInvNext, PTL DEF GroupSpec

-----------------------------------------------------------------------------
(* The watch of the pods, for any finite set of pods and any number of     *)
(* gaps: no pod that exists is lost, and only what went in a gap stays.    *)

\* The open watch has nothing to say about whether p is there.
NoNews(p) == \A i \in DOMAIN watchEvents : ~News(watchEvents[i], p)

\* What the last event about a pod says is so, and a pod without one is known as it
\* is, unless it went in a gap.
Told(p) ==
    IF p \in Existing
    THEN Pending("Added", p) \/ (NoNews(p) /\ p \in collectorMap \cap collectors)
    ELSE Pending("Deleted", p) \/ (NoNews(p) /\ (p \in collectorMap => p \in missedPods))

\* The inductive invariant.  Events wait only for an open watch; between two watches
\* the pods that are kept too long are all missed.
WatchInv ==
    /\ wpc # "run" => watchEvents = <<>>
    /\ wpc = "watch" => collectorMap \ Existing \subseteq missedPods
    /\ wpc = "run" => \A p \in Pods : Told(p)

\* An event that is appended is the last one about its pod, if it is news.
LEMMA Appended ==
    ASSUME WatchTypeOK, NEW type \in {"Added", "Modified", "Deleted"}, NEW q \in Pods,
           watchEvents' = Append(watchEvents, [type |-> type, pod |-> q])
    PROVE  /\ type # "Modified" => Pending(type, q)'
           /\ \A p \in Pods, t \in {"Added", "Deleted"} :
                 (p # q \/ type = "Modified") =>
                     /\ Pending(t, p) => Pending(t, p)'
                     /\ NoNews(p) => NoNews(p)'
<1> DEFINE e == [type |-> type, pod |-> q]
<1>1. /\ DOMAIN watchEvents = 1..Len(watchEvents) /\ Len(watchEvents) \in Nat
      /\ DOMAIN watchEvents' = 1..(Len(watchEvents) + 1)
      /\ watchEvents'[Len(watchEvents) + 1] = e
      /\ \A i \in DOMAIN watchEvents : watchEvents'[i] = watchEvents[i]
  BY SMTT(30) DEF WatchTypeOK, Event
<1>2. ASSUME type # "Modified"
      PROVE  Pending(type, q)'
  BY <1>1, <1>2, SMTT(30) DEF Pending, News
<1>3. ASSUME NEW p \in Pods, NEW t \in {"Added", "Deleted"}, p # q \/ type = "Modified"
      PROVE  (Pending(t, p) => Pending(t, p)') /\ (NoNews(p) => NoNews(p)')
  <2>1. ~News(watchEvents'[Len(watchEvents) + 1], p)
    BY <1>1, <1>3, SMTT(30) DEF News
  <2>2. \A i \in DOMAIN watchEvents' : i \in DOMAIN watchEvents \/ i = Len(watchEvents) + 1
    BY <1>1, SMTT(30)
  <2>3. \A i \in DOMAIN watchEvents : i \in DOMAIN watchEvents'
    BY <1>1, SMTT(30)
  <2>4. ASSUME NoNews(p) PROVE NoNews(p)'
    BY <1>1, <2>1, <2>2, <2>4 DEF NoNews
  <2>5. ASSUME Pending(t, p) PROVE Pending(t, p)'
    <3>1. PICK i \in DOMAIN watchEvents :
              /\ News(watchEvents[i], p) /\ watchEvents[i].type = t
              /\ \A j \in DOMAIN watchEvents : News(watchEvents[j], p) => j <= i
      BY <2>5 DEF Pending
    <3>2. \A j \in DOMAIN watchEvents' : News(watchEvents'[j], p) => j <= i
      BY <1>1, <2>1, <2>2, <3>1
    <3> QED
      BY <1>1, <2>3, <3>1, <3>2 DEF Pending
  <2> QED
    BY <2>4, <2>5
<1> QED
  BY <1>2, <1>3

\* When the first event is taken, what is pending about a pod still is, unless it was
\* the only news about it.
LEMMA Delivered ==
    ASSUME WatchTypeOK, watchEvents # <<>>, watchEvents' = Tail(watchEvents),
           NEW p \in Pods, NEW t \in {"Added", "Deleted"}
    PROVE  /\ NoNews(p) => NoNews(p)' /\ ~News(Head(watchEvents), p)
           /\ Pending(t, p) => \/ Pending(t, p)'
                               \/ NoNews(p)' /\ News(Head(watchEvents), p) /\ Head(watchEvents).type = t
<1>1. /\ DOMAIN watchEvents = 1..Len(watchEvents) /\ Len(watchEvents) \in Nat /\ Len(watchEvents) > 0
      /\ DOMAIN watchEvents' = 1..(Len(watchEvents) - 1)
      /\ Head(watchEvents) = watchEvents[1]
      /\ \A i \in DOMAIN watchEvents' : watchEvents'[i] = watchEvents[i + 1] /\ i + 1 \in DOMAIN watchEvents
  BY SMTT(30) DEF WatchTypeOK, Event
<1>2. ASSUME NoNews(p)
      PROVE  NoNews(p)' /\ ~News(Head(watchEvents), p)
  BY <1>1, <1>2, SMTT(30) DEF NoNews
<1>3. ASSUME Pending(t, p)
      PROVE  \/ Pending(t, p)'
             \/ NoNews(p)' /\ News(Head(watchEvents), p) /\ Head(watchEvents).type = t
  <2>1. PICK i \in DOMAIN watchEvents :
            /\ News(watchEvents[i], p) /\ watchEvents[i].type = t
            /\ \A j \in DOMAIN watchEvents : News(watchEvents[j], p) => j <= i
    BY <1>3 DEF Pending
  <2>2. CASE i = 1
    <3>1. \A j \in DOMAIN watchEvents' : ~News(watchEvents'[j], p)
      BY <1>1, <2>1, <2>2, SMTT(30)
    <3> QED
      BY <1>1, <2>1, <2>2, <3>1 DEF NoNews
  <2>3. CASE i # 1
    <3>1. i - 1 \in DOMAIN watchEvents' /\ watchEvents'[i - 1] = watchEvents[i]
      BY <1>1, <2>3, SMTT(30)
    <3>2. \A j \in DOMAIN watchEvents' : News(watchEvents'[j], p) => j <= i - 1
      BY <1>1, <2>1, SMTT(30)
    <3> QED
      BY <2>1, <3>1, <3>2 DEF Pending
  <2> QED
    BY <2>2, <2>3
<1> QED
  BY <1>2, <1>3

\* A watch that is opened begins with the pods there are.
LEMMA Opened ==
    ASSUME WatchTypeOK, StartWatch
    PROVE  /\ watchEvents' \in Seq(Event)
           /\ \A p \in Pods : IF p \in Existing THEN Pending("Added", p)' ELSE NoNews(p)'
<1> DEFINE n == Cardinality(Existing)
<1>1. n \in Nat
  BY PodsAssumption DEF Existing
<1>2. PICK order \in Orders(Existing) :
          watchEvents' = [i \in 1..n |-> [type |-> "Added", pod |-> order[i]]]
  BY DEF StartWatch
<1> HIDE DEF n
<1>3. /\ order \in [1..n -> Existing]
      /\ \A p \in Existing : \E i \in 1..n :
            order[i] = p /\ \A j \in 1..n : order[j] = p => j = i
  BY DEF Orders, n
<1>4. Existing \subseteq Pods
  BY DEF Existing
<1>5. watchEvents' \in [1..n -> Event]
  BY <1>2, <1>3, <1>4 DEF Event
<1>6. watchEvents' \in Seq(Event)
  BY <1>1, <1>5, SMTT(30)
<1>7. /\ DOMAIN watchEvents' = 1..n
      /\ \A i \in 1..n : watchEvents'[i].type = "Added" /\ watchEvents'[i].pod = order[i]
  BY <1>2
<1>8. ASSUME NEW p \in Pods, p \in Existing
      PROVE  Pending("Added", p)'
  <2>1. PICK i \in 1..n : order[i] = p /\ \A j \in 1..n : order[j] = p => j = i
    BY <1>3, <1>8
  <2>2. News(watchEvents'[i], p) /\ watchEvents'[i].type = "Added"
    BY <1>7, <2>1 DEF News
  <2>3. \A j \in 1..n : News(watchEvents'[j], p) => j <= i
    BY <1>1, <1>7, <2>1, SMTT(30) DEF News
  <2> QED
    BY <1>7, <2>2, <2>3 DEF Pending
<1>9. ASSUME NEW p \in Pods, p \notin Existing
      PROVE  NoNews(p)'
  BY <1>3, <1>7, <1>9, SMTT(30) DEF NoNews, News
<1> QED
  BY <1>6, <1>8, <1>9

LEMMA TypeInit == WatchInit => WatchTypeOK
<1> SUFFICES ASSUME WatchInit PROVE WatchTypeOK
  OBVIOUS
<1>1. <<>> \in Seq(Event) /\ FALSE \in BOOLEAN
  BY SMTT(30)
<1>2. watchEvents \in Seq(Event) /\ clientClosed \in BOOLEAN
  BY <1>1 DEF WatchInit
<1>3. gaps \in 0..MaxGaps
  BY PodsAssumption, SMTT(30) DEF WatchInit
<1> QED
  BY <1>2, <1>3 DEF WatchInit, WatchTypeOK

\* What the cluster tells is an event.
LEMMA TellType ==
    ASSUME WatchTypeOK, NEW type \in {"Added", "Modified", "Deleted"}, NEW p \in Pods, Tell(type, p)
    PROVE  watchEvents' \in Seq(Event)
<1>1. [type |-> type, pod |-> p] \in Event /\ watchEvents \in Seq(Event)
  BY DEF Event, WatchTypeOK
<1> QED
  BY <1>1, SMTT(30) DEF Tell

LEMMA TypeNext == WatchTypeOK /\ [WatchNext]_watchVars => WatchTypeOK'
<1> SUFFICES ASSUME WatchTypeOK, [WatchNext]_watchVars
             PROVE  WatchTypeOK'
  OBVIOUS
<1>e. <<>> \in Seq(Event) /\ TRUE \in BOOLEAN /\ FALSE \in BOOLEAN
  BY SMTT(30)
<1>1. ASSUME NEW p \in Pods, CreatePod(p) \/ DeletePod(p) \/ RemovePod(p)
      PROVE  WatchTypeOK'
  <2>1. watchEvents' \in Seq(Event)
    BY <1>1, TellType DEF CreatePod, DeletePod, RemovePod
  <2>2. UNCHANGED <<wpc, clientClosed, collectorMap, collectors, gaps>>
    BY <1>1 DEF CreatePod, DeletePod, RemovePod, client
  <2>3. /\ pods' \in [Pods -> {"absent", "running", "terminating"}]
        /\ missedPods' \in SUBSET Pods
    BY <1>1 DEF CreatePod, DeletePod, RemovePod, WatchTypeOK
  <2> QED
    BY <2>1, <2>2, <2>3 DEF WatchTypeOK
<1>4. CASE ListPods
  BY <1>4 DEF ListPods, SetCollectors, WatchTypeOK
<1>5. CASE StartWatch
  BY <1>5, Opened DEF StartWatch, WatchTypeOK
<1>6. CASE HandleEvent
  <2>1. Head(watchEvents) \in Event /\ Tail(watchEvents) \in Seq(Event)
    BY <1>6, SMTT(30) DEF HandleEvent, WatchTypeOK
  <2>2. collectorMap' \in SUBSET Pods
    BY <1>6, <2>1 DEF HandleEvent, Event, WatchTypeOK
  <2> QED
    BY <1>6, <2>1, <2>2 DEF HandleEvent, SetCollectors, WatchTypeOK
<1>7. CASE StopWatch
  BY <1>7, <1>e DEF StopWatch, WatchTypeOK
<1>8. CASE RestartClient
  <2>1. gaps' \in 0..MaxGaps
    BY <1>8, PodsAssumption, SMTT(30) DEF RestartClient, WatchTypeOK
  <2>2. clientClosed' \in BOOLEAN /\ watchEvents' \in Seq(Event)
    BY <1>8, <1>e DEF RestartClient
  <2> QED
    BY <1>8, <2>1, <2>2 DEF RestartClient, WatchTypeOK
<1>9. CASE ListPodsFails \/ StartWatchFails
  BY <1>9 DEF ListPodsFails, StartWatchFails, WatchTypeOK
<1>10. CASE Close
  <2>1. clientClosed' \in BOOLEAN
    BY <1>10, <1>e DEF Close
  <2> QED
    BY <1>10, <2>1 DEF Close, WatchTypeOK
<1>11. CASE WatchEnds
  <2>1. gaps' \in 0..MaxGaps
    BY <1>11, PodsAssumption, SMTT(30) DEF WatchEnds, WatchTypeOK
  <2> QED
    BY <1>11, <1>e, <2>1 DEF WatchEnds, WatchTypeOK
<1>12. CASE UNCHANGED watchVars
  BY <1>12 DEF watchVars, WatchTypeOK
<1> QED
  BY <1>1, <1>4, <1>5, <1>6, <1>7, <1>8, <1>9, <1>10, <1>11, <1>12
     DEF WatchNext, Cluster, ClientStep

-----------------------------------------------------------------------------
\* The cluster keeps WatchInv: what changes is told to an open watch and missed
\* without one.
LEMMA ClusterKeepsWatchInv ==
    ASSUME WatchTypeOK, WatchInv, NEW q \in Pods, CreatePod(q) \/ DeletePod(q) \/ RemovePod(q)
    PROVE  WatchInv'
<1>1. UNCHANGED <<wpc, collectorMap, collectors>>
  BY DEF CreatePod, DeletePod, RemovePod, client
<1>2. ASSUME NEW p \in Pods, p # q
      PROVE  (p \in Existing' <=> p \in Existing) /\ (p \in missedPods => p \in missedPods')
  BY <1>2 DEF CreatePod, DeletePod, RemovePod, Existing, WatchTypeOK
<1>3. PICK type \in {"Added", "Modified", "Deleted"} :
          /\ Tell(type, q)
          /\ \/ type = "Added" /\ q \in Existing'
             \/ type = "Modified" /\ q \in Existing' /\ q \in Existing
             \/ type = "Deleted" /\ q \notin Existing' /\ (wpc # "run" => q \in missedPods')
  <2>1. CASE CreatePod(q)
    <3>1. Tell("Added", q) /\ q \in Existing'
      BY <2>1 DEF CreatePod, Existing, WatchTypeOK
    <3> QED
      BY <3>1
  <2>2. CASE DeletePod(q)
    <3>1. Tell("Modified", q) /\ q \in Existing' /\ q \in Existing
      BY <2>2 DEF DeletePod, Existing, WatchTypeOK
    <3> QED
      BY <3>1
  <2>3. CASE RemovePod(q)
    <3>1. Tell("Deleted", q) /\ q \notin Existing' /\ (wpc # "run" => q \in missedPods')
      BY <2>3 DEF RemovePod, Existing, WatchTypeOK
    <3> QED
      BY <3>1
  <2> QED
    BY <2>1, <2>2, <2>3
<1>4. ASSUME wpc # "run" PROVE watchEvents' = <<>>
  BY <1>3, <1>4 DEF WatchInv, Tell
<1>5. ASSUME wpc = "watch" PROVE collectorMap' \ Existing' \subseteq missedPods'
  <2>1. ASSUME NEW p \in Pods, p \in collectorMap, p \notin Existing'
        PROVE  p \in missedPods'
    <3>1. CASE p = q
      BY <1>3, <1>5, <2>1, <3>1
    <3>2. CASE p # q
      <4>1. p \notin Existing /\ (p \in missedPods => p \in missedPods')
        BY <1>2, <2>1, <3>2
      <4> QED
        BY <1>5, <2>1, <4>1 DEF WatchInv
    <3> QED
      BY <3>1, <3>2
  <2> QED
    BY <1>1, <2>1 DEF WatchTypeOK
<1>6. ASSUME wpc = "run", NEW p \in Pods PROVE Told(p)'
  <2>1. watchEvents' = Append(watchEvents, [type |-> type, pod |-> q])
    BY <1>3, <1>6 DEF Tell
  <2>2. Told(p)
    BY <1>6 DEF WatchInv
  <2>3. CASE p = q /\ type # "Modified"
    BY <1>3, <2>1, <2>3, Appended DEF Told
  <2>4. CASE p # q \/ type = "Modified"
    <3>1. /\ Pending("Added", p) => Pending("Added", p)'
          /\ Pending("Deleted", p) => Pending("Deleted", p)'
          /\ NoNews(p) => NoNews(p)'
      BY <2>1, <2>4, Appended
    <3>2. CASE p # q
      <4>1. (p \in Existing' <=> p \in Existing) /\ (p \in missedPods => p \in missedPods')
        BY <1>2, <3>2
      <4> QED
        BY <1>1, <2>2, <3>1, <4>1 DEF Told
    <3>3. CASE p = q
      BY <1>1, <1>3, <2>2, <2>4, <3>1, <3>3 DEF Told
    <3> QED
      BY <3>2, <3>3
  <2> QED
    BY <2>3, <2>4
<1> QED
  BY <1>1, <1>4, <1>5, <1>6 DEF WatchInv

\* An event that is handled is told to the allocator.
LEMMA HandleEventKeepsWatchInv ==
    ASSUME WatchTypeOK, WatchInv, HandleEvent
    PROVE  WatchInv'
<1> DEFINE e == Head(watchEvents)
<1>1. /\ wpc = "run" /\ watchEvents # <<>> /\ watchEvents' = Tail(watchEvents)
      /\ UNCHANGED <<pods, wpc, missedPods>>
  BY DEF HandleEvent
<1>2. e \in Event
  BY <1>1, SMTT(30) DEF WatchTypeOK
<1>3. /\ \A p \in Pods : ~News(e, p) => (p \in collectorMap' <=> p \in collectorMap)
      /\ \A p \in Pods : News(e, p) /\ e.type = "Added" => p \in collectorMap'
      /\ \A p \in Pods : News(e, p) /\ e.type = "Deleted" => p \notin collectorMap'
  BY <1>2 DEF HandleEvent, News, Event
<1>4. collectorMap' # {} => collectors' = collectorMap'
  BY DEF HandleEvent, SetCollectors
<1>5. Existing' = Existing
  BY <1>1 DEF Existing
<1>6. ASSUME NEW p \in Pods
      PROVE  Told(p)'
  <2>1. Told(p)
    BY <1>1 DEF WatchInv
  <2>2. CASE NoNews(p)
    <3>1. NoNews(p)' /\ ~News(e, p)
      BY <1>1, <2>2, Delivered
    <3>2. p \in collectorMap' <=> p \in collectorMap
      BY <1>3, <3>1
    <3>3. ~Pending("Added", p) /\ ~Pending("Deleted", p)
      BY <2>2 DEF Pending, NoNews
    <3> QED
      BY <1>1, <1>4, <1>5, <2>1, <3>1, <3>2, <3>3 DEF Told
  <2>3. CASE p \in Existing /\ Pending("Added", p)
    <3>1. Pending("Added", p)' \/ (NoNews(p)' /\ News(e, p) /\ e.type = "Added")
      BY <1>1, <2>3, Delivered
    <3>2. News(e, p) /\ e.type = "Added" => p \in collectorMap' /\ p \in collectors'
      BY <1>3, <1>4
    <3> QED
      BY <1>5, <2>3, <3>1, <3>2 DEF Told
  <2>4. CASE p \notin Existing /\ Pending("Deleted", p)
    <3>1. Pending("Deleted", p)' \/ (NoNews(p)' /\ News(e, p) /\ e.type = "Deleted")
      BY <1>1, <2>4, Delivered
    <3>2. News(e, p) /\ e.type = "Deleted" => p \notin collectorMap'
      BY <1>3
    <3> QED
      BY <1>5, <2>4, <3>1, <3>2 DEF Told
  <2> QED
    BY <2>1, <2>2, <2>3, <2>4 DEF Told
<1> QED
  BY <1>1, <1>6 DEF WatchInv

\* The other steps of the client, and the end of a watch.
LEMMA WatchInvNext == WatchTypeOK /\ WatchInv /\ [WatchNext]_watchVars => WatchInv'
<1> SUFFICES ASSUME WatchTypeOK, WatchInv, [WatchNext]_watchVars
             PROVE  WatchInv'
  OBVIOUS
<1>1. CASE Cluster
  BY <1>1, ClusterKeepsWatchInv DEF Cluster
<1>2. CASE ListPods
  BY <1>2 DEF ListPods, WatchInv, Existing
<1>3. CASE StartWatch
  <2>1. /\ wpc = "watch" /\ wpc' = "run"
        /\ UNCHANGED <<pods, collectorMap, missedPods>>
    BY <1>3 DEF StartWatch
  <2>2. Existing' = Existing
    BY <2>1 DEF Existing
  <2>3. ASSUME NEW p \in Pods PROVE Told(p)'
    BY <1>3, <2>1, <2>2, Opened DEF Told, WatchInv
  <2> QED
    BY <2>1, <2>3 DEF WatchInv
<1>4. CASE HandleEvent
  BY <1>4, HandleEventKeepsWatchInv
<1>5. CASE WatchEnds
  <2>1. /\ wpc = "run" /\ wpc' = "watch" /\ watchEvents' = <<>>
        /\ UNCHANGED <<pods, collectorMap>>
        /\ missedPods' = missedPods \cup
               {p \in Pods \ Existing : \E i \in DOMAIN watchEvents : watchEvents[i].pod = p}
    BY <1>5 DEF WatchEnds
  <2>2. Existing' = Existing
    BY <2>1 DEF Existing
  <2>3. ASSUME NEW p \in Pods, p \in collectorMap, p \notin Existing
        PROVE  p \in missedPods'
    <3>1. Told(p)
      BY <2>1 DEF WatchInv
    <3>2. Pending("Deleted", p) => \E i \in DOMAIN watchEvents : watchEvents[i].pod = p
      BY DEF Pending, News
    <3> QED
      BY <2>1, <2>3, <3>1, <3>2 DEF Told
  <2> QED
    BY <2>1, <2>2, <2>3 DEF WatchInv, WatchTypeOK
<1>6. CASE StopWatch \/ RestartClient \/ ListPodsFails \/ StartWatchFails
  BY <1>6, SMTT(20) DEF StopWatch, RestartClient, ListPodsFails, StartWatchFails, WatchInv
<1>7. CASE Close \/ UNCHANGED watchVars
  <2>1. UNCHANGED <<pods, watchEvents, wpc, collectorMap, collectors, missedPods>>
    BY <1>7 DEF Close, watchVars
  <2> QED
    BY <2>1 DEF WatchInv, Told, NoNews, Pending, Existing
<1> QED
  BY <1>1, <1>2, <1>3, <1>4, <1>5, <1>6, <1>7 DEF WatchNext, ClientStep

LEMMA WatchInvariant == WatchSpec => [](WatchTypeOK /\ WatchInv)
<1>1. WatchInit => WatchTypeOK /\ WatchInv
  BY TypeInit DEF WatchInit, WatchInv
<1> QED
  BY <1>1, TypeNext, WatchInvNext, PTL DEF WatchSpec

\* No pod is lost: with its events delivered every pod there is, is a collector of the
\* allocator, whatever came between the list, the watches and their events.
THEOREM NoPodLost == WatchSpec => []PodsKnown
<1>1. WatchInv => PodsKnown
  BY DEF WatchInv, PodsKnown, Told, Existing
<1> QED
  BY <1>1, WatchInvariant, PTL

\* A pod that is gone stays a collector only if it went in a gap between two watches.
THEOREM OnlyGaps == WatchSpec => []OnlyGapsGoUnnoticed
<1>1. WatchTypeOK /\ WatchInv => OnlyGapsGoUnnoticed
  BY DEF WatchInv, OnlyGapsGoUnnoticed, Told, WatchTypeOK
<1> QED
  BY <1>1, WatchInvariant, PTL

=============================================================================
