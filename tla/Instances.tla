----------------------------- MODULE Instances ------------------------------
(***************************************************************************)
(* The OpenTelemetryCollector instances of the API server and everybody    *)
(* who writes them: the user; the operator, which upgrades them when it    *)
(* starts (pkg/collector/upgrade) and sets the version of new ones         *)
(* (reconcile.Self); and the OpAMP bridge (cmd/operator-opamp-bridge),     *)
(* which applies the configurations of a remote server.  Each write of a   *)
(* spec passes the operator's webhook.                                     *)
(*                                                                         *)
(* A resource version is modelled by who has seen it: seen has <<c, k>>    *)
(* when the copy of instance k that client c holds is the server's.        *)
(*                                                                         *)
(* The environment writes, sends messages, stops processes and lets calls  *)
(* fail, MaxChanges times in all.                                          *)
(***************************************************************************)
EXTENDS CollectorWebhook, UpgradeSteps

CONSTANTS
    Key,               \* the names of instances
    None,              \* no instance
    OldInstances,      \* what the server may have when the operator starts
    UserSpecs(_),      \* the specs that users may write after so many changes
    Cost(_),           \* how many changes the environment makes with one of them
    Messages,          \* the remote configurations
    Disallowed,        \* the settings that componentsAllowed does not have
    RecordBufferSize,  \* of the recorder of the upgrade
    MaxChanges         \* bound on what the environment does

VARIABLES
    store,         \* the instances in the API server
    seen,          \* whose copies are up to date
    upgrade,       \* the goroutine of VersionUpgrade.ManagedInstances
    recorded,      \* events in the channel of its recorder
    agent,         \* the call of Agent.onMessage in progress
    appliedKeys,   \* Agent.appliedKeys
    lastHash,      \* Agent.lastHash
    reported,      \* the last status that the agent reported, with its message
    changes,       \* what the environment has done so far
    intended,      \* history: the last write of a user or the bridge
    edited,        \* history: instances written since the upgrade listed them
    raced          \* history: instances whose upgrade did not see such a write

operatorVars == <<upgrade, recorded>>
bridgeVars == <<agent, appliedKeys, lastHash, reported>>
history == <<intended, edited, raced>>
vars == <<store, seen, upgrade, recorded, agent, appliedKeys, lastHash, reported,
          changes, intended, edited, raced>>

Clients == {"upgrade", "bridge"}

NoMessage == [hash |-> 0, config |-> [k \in {} |-> Nil], malformedKey |-> FALSE]

\* The goroutine of the upgrade between two instances, and with instance k.
At(pc, items) ==
    [pc |-> pc, items |-> items, key |-> None, spec |-> Nil, locked |-> FALSE]

Patching(pc, k, spec, locked) ==
    [pc |-> pc, items |-> upgrade.items, key |-> k, spec |-> spec, locked |-> locked]

NoItems == [k \in {} |-> Nil]

Stopped == At("down", NoItems)

\* The agent at a message, and between the read and the write of instance k.
Handling(pc, message, todo, failed) ==
    [pc |-> pc, message |-> message, todo |-> todo, key |-> None, read |-> None,
     failed |-> failed]

Writing(k, read) ==
    [pc |-> "write", message |-> agent.message, todo |-> agent.todo, key |-> k,
     read |-> read, failed |-> agent.failed]

Waiting == Handling("idle", NoMessage, {}, FALSE)

NotReported == [message |-> NoMessage, status |-> "UNSET"]

\* A write: its spec, the version of the instance then, who made it, and who made
\* the instance.
Intended(s, version, by, owner) ==
    [spec |-> s, from |-> version, by |-> by, owner |-> owner]

\* What is stored, and what was intended.
Version == NoVersion..Current

Instance == [spec : Specs, version : Version]

Intention ==
    [spec : Specs, from : Version, by : {"user", "bridge"},
     owner : {"user", "bridge", "recreated"}]

\* A message names instances, and has a spec for each or no body.
ASSUME InstancesAssumption ==
    /\ OldInstances \subseteq Instance
    /\ None \notin Instance \cup Intention
    /\ \A m \in Messages :
          /\ DOMAIN m.config \subseteq Key /\ m.malformedKey \in BOOLEAN
          /\ \A k \in DOMAIN m.config : m.config[k] \in Specs \cup {Nil}

\* The operator is about to start, with a new version.
Init ==
    /\ store \in [Key -> OldInstances \cup {None}]
    /\ seen = {}
    /\ upgrade = Stopped /\ recorded = 0
    /\ agent = Waiting /\ appliedKeys = {} /\ lastHash = 0 /\ reported = NotReported
    /\ changes = 0
    /\ intended = [k \in Key |-> IF store[k] = None THEN None
                                 ELSE Intended(store[k].spec, store[k].version, "user", "user")]
    /\ edited = {} /\ raced = {}

-----------------------------------------------------------------------------
(* The API server.                                                         *)

OperatorUp == upgrade.pc # "down"

\* The webhooks are called, failurePolicy=fail, and let the spec in, as does the
\* schema.
Admitted(s) == OperatorUp /\ s \in Specs /\ validateCRDSpec(Default(s))

\* Client c writes instance k over old; the other copies of it are out of date.
Write(c, k, old, i) ==
    /\ store' = [store EXCEPT ![k] = i]
    /\ seen' = {p \in seen : p[2] # k \/ i = old} \cup ({<<c, k>>} \cap (Clients \X Key))

\* Who made instance k, when client c writes it and old was there: a bridge that had
\* applied the key may meet an instance that a user created anew.
Owner(c, k, old) ==
    IF c = "bridge" THEN "bridge"
    ELSE IF old # None THEN intended[k].owner
    ELSE IF k \in appliedKeys THEN "recreated" ELSE "user"

\* Client c creates instance k, or replaces the spec of old.
WriteSpec(c, k, old, s) ==
    LET version == IF old = None THEN NoVersion ELSE old.version
        i == [spec |-> Default(s), version |-> version]
    IN  /\ Write(c, k, old, i)
        /\ intended' = [intended EXCEPT ![k] = Intended(i.spec, version, c, Owner(c, k, old))]
        /\ edited' = edited \cup {k}
        /\ raced' = IF i = old THEN raced ELSE raced \ {k}

\* ValidateDelete lets every deletion pass, and its failurePolicy is ignore.
DeleteInstance(k) ==
    /\ store' = [store EXCEPT ![k] = None]
    /\ seen' = {p \in seen : p[2] # k}
    /\ intended' = [intended EXCEPT ![k] = None]
    /\ edited' = edited \cup {k}
    /\ raced' = raced \ {k}

-----------------------------------------------------------------------------
(* The users, who write an instance or delete it and create it anew.       *)

UserWrites(k, s) ==
    /\ Admitted(s)
    /\ changes' = changes + Cost(s)
    /\ \E old \in {store[k], None} : WriteSpec("user", k, old, s)
    /\ UNCHANGED <<operatorVars, bridgeVars>>

UserDeletes(k) ==
    /\ store[k] # None
    /\ changes' = changes + 1
    /\ DeleteInstance(k)
    /\ UNCHANGED <<operatorVars, bridgeVars>>

-----------------------------------------------------------------------------
(* The operator.                                                           *)

\* main, addDependencies: the upgrade runs in a goroutine of the manager, with a
\* recorder of its own that nobody reads.
Start ==
    /\ upgrade.pc = "down"
    /\ upgrade' = At("list", NoItems)
    /\ recorded' = 0
    /\ UNCHANGED <<store, seen, bridgeVars, changes, history>>

\* The operator stops; a list that fails stops it too.
Stop ==
    /\ upgrade.pc # "down"
    /\ changes' = changes + 1
    /\ upgrade' = Stopped /\ recorded' = 0
    /\ seen' = {p \in seen : p[1] # "upgrade"}
    /\ UNCHANGED <<store, bridgeVars, history>>

\* reconcile.Self: the version of an instance that has none.
Self(k) ==
    /\ OperatorUp
    /\ store[k] # None /\ store[k].version = NoVersion
    /\ Write("operator", k, store[k], [store[k] EXCEPT !.version = Current])
    /\ UNCHANGED <<operatorVars, bridgeVars, changes, history>>

\* ManagedInstances: the list of the instances with the operator's label.
List ==
    LET listed == {k \in Key : store[k] # None
                                /\ store[k].spec.managedBy = "opentelemetry-operator"}
    IN  /\ upgrade.pc = "list"
        /\ upgrade' = At("loop", [k \in listed |-> store[k]])
        /\ seen' = {p \in seen : p[1] # "upgrade"} \cup ({"upgrade"} \X listed)
        /\ edited' = {}
        /\ UNCHANGED <<store, recorded, bridgeVars, changes, intended, raced>>

\* The loop goes on after instance k.
Continue(k) ==
    upgrade' = At("loop", [j \in DOMAIN upgrade.items \ {k} |-> upgrade.items[j]])

\* ManagedInstance with the events it records: one more when it fails.  A full
\* channel blocks the goroutine.
ManagedInstances(k, hpaPatched) ==
    LET item == upgrade.items[k] IN
    /\ upgrade.pc = "loop"
    /\ hpaPatched \/ item.spec.maxReplicas # Nil
    /\ changes' = IF hpaPatched THEN changes ELSE changes + 1
    /\ \/ /\ item.spec.upgradeStrategy = "none"
          /\ Continue(k)
          /\ UNCHANGED recorded
       \/ /\ item.spec.upgradeStrategy # "none"
          /\ \E r \in ManagedInstance(item.spec, item.version, Nil, hpaPatched) :
                LET events == recorded + r.events + (IF r.ok THEN 0 ELSE 1) IN
                \/ /\ events > RecordBufferSize
                   /\ upgrade' = At("blocked", upgrade.items)
                   /\ recorded' = RecordBufferSize
                \/ /\ events <= RecordBufferSize
                   /\ recorded' = events
                   /\ IF ~r.ok \/ VersionAfter(item.version) = item.version
                      THEN Continue(k)
                      ELSE upgrade' = Patching("patch", k, r.spec, FALSE)
    /\ UNCHANGED <<store, seen, bridgeVars, history>>

\* client.MergeFrom: what differs between the listed instance and the upgraded
\* one.  They share the map of the arguments, so these never differ.
MergePatch(original, upgraded, actual) ==
    [actual EXCEPT
        !.config = IF upgraded.config # original.config THEN upgraded.config ELSE @,
        !.minReplicas = IF upgraded.minReplicas # original.minReplicas
                        THEN upgraded.minReplicas ELSE @]

\* The patch of the spec, which has no resource version.  The response does: if
\* it is not the one that was listed, the patch of the status will ask for it.
PatchSpec ==
    LET k == upgrade.key
        patched == MergePatch(upgrade.items[k].spec, upgrade.spec, store[k].spec)
    IN  /\ upgrade.pc = "patch"
        /\ IF store[k] = None \/ ~Admitted(patched)
           THEN Continue(k) /\ UNCHANGED <<store, seen, raced>>
           ELSE /\ Write("upgrade", k, store[k], [store[k] EXCEPT !.spec = Default(patched)])
                /\ upgrade' = Patching("status", k, upgrade.spec,
                        Default(patched) # store[k].spec \/ <<"upgrade", k>> \notin seen)
                /\ raced' = IF k \in edited THEN raced \cup {k} ELSE raced
        /\ UNCHANGED <<recorded, bridgeVars, changes, intended, edited>>

\* Mutant of PatchStatus: the patch never asks for a resource version.
PatchStatusAnyway ==
    LET k == upgrade.key IN
    /\ upgrade.pc = "status"
    /\ Continue(k)
    /\ IF store[k] = None THEN UNCHANGED <<store, seen, raced>>
       ELSE /\ Write("upgrade", k, store[k], [store[k] EXCEPT
                        !.version = VersionAfter(upgrade.items[k].version)])
            /\ raced' = IF ~upgrade.locked /\ k \in edited THEN raced \cup {k} ELSE raced
    /\ UNCHANGED <<recorded, bridgeVars, changes, intended, edited>>

\* The patch of the status, with the new version.
PatchStatus ==
    LET k == upgrade.key IN
    /\ upgrade.pc = "status"
    /\ Continue(k)
    /\ IF store[k] = None \/ (upgrade.locked /\ <<"upgrade", k>> \notin seen)
       THEN UNCHANGED <<store, seen, raced>>
       ELSE /\ Write("upgrade", k, store[k], [store[k] EXCEPT
                        !.version = VersionAfter(upgrade.items[k].version)])
            /\ raced' = IF ~upgrade.locked /\ k \in edited THEN raced \cup {k} ELSE raced
    /\ UNCHANGED <<recorded, bridgeVars, changes, intended, edited>>

\* A patch that fails is logged, and that is all.
PatchFails ==
    /\ upgrade.pc \in {"patch", "status"}
    /\ changes' = changes + 1
    /\ Continue(upgrade.key)
    /\ UNCHANGED <<store, seen, recorded, bridgeVars, history>>

\* The end of the loop.
Upgraded ==
    /\ upgrade.pc = "loop" /\ upgrade.items = NoItems
    /\ upgrade' = At("done", NoItems)
    /\ UNCHANGED <<store, seen, recorded, bridgeVars, changes, history>>

-----------------------------------------------------------------------------
(* The bridge.                                                             *)

\* onMessage: a configuration with the hash of the last one is not applied.  A
\* key without a body is skipped, and one that does not parse is an error.
onMessage(m) ==
    /\ agent.pc = "idle" /\ m.hash # lastHash
    /\ changes' = changes + 1
    /\ agent' = Handling("apply", m, {k \in DOMAIN m.config : m.config[k] # Nil},
                         m.malformedKey)
    /\ UNCHANGED <<store, seen, operatorVars, appliedKeys, lastHash, reported, history>>

\* Client.validate and the configuration's length.
Allowed(s) == s.config # {} /\ "unparsable" \notin s.config /\ s.config \cap Disallowed = {}

\* applyRemoteConfig goes on to the next key.
NextKey(k, failed) ==
    agent' = Handling("apply", agent.message, agent.todo \ {k}, agent.failed \/ failed)

\* Client.Apply, up to the answer of GetInstance.
Apply(k) ==
    /\ agent.pc = "apply"
    /\ IF ~Allowed(agent.message.config[k])
       THEN NextKey(k, TRUE) /\ UNCHANGED seen
       ELSE /\ agent' = Writing(k, store[k])
            /\ seen' = IF store[k] = None THEN seen \ {<<"bridge", k>>}
                       ELSE seen \cup {<<"bridge", k>>}
    /\ UNCHANGED <<store, operatorVars, appliedKeys, lastHash, reported, changes, history>>

\* Client.create, Client.update: the spec that is sent, and whether the client
\* and the server take it.  An update keeps the labels, is validated before it
\* has its defaults, and has the resource version that was read.  The bridge is built
\* with v1.51.0 of the operator, whose webhook is taken to be the one of CollectorWebhook.
Sent ==
    LET s == agent.message.config[agent.key] IN
    IF agent.read = None THEN Default(s) ELSE [s EXCEPT !.managedBy = agent.read.spec.managedBy]

Accepted ==
    /\ validateCRDSpec(Sent)
    /\ Admitted(Sent)
    /\ IF agent.read = None THEN store[agent.key] = None
       ELSE store[agent.key] # None /\ <<"bridge", agent.key>> \in seen

\* Mutant of ApplyWrites: a key that was tried counts as applied.
ApplyWritesTried ==
    LET k == agent.key IN
    /\ agent.pc = "write"
    /\ NextKey(k, ~Accepted)
    /\ appliedKeys' = appliedKeys \cup {k}
    /\ IF Accepted THEN WriteSpec("bridge", k, store[k], Sent)
       ELSE UNCHANGED <<store, seen, history>>
    /\ UNCHANGED <<operatorVars, lastHash, reported, changes>>

\* Client.Apply, its write.
ApplyWrites ==
    LET k == agent.key IN
    /\ agent.pc = "write"
    /\ NextKey(k, ~Accepted)
    /\ IF Accepted
       THEN WriteSpec("bridge", k, store[k], Sent) /\ appliedKeys' = appliedKeys \cup {k}
       ELSE UNCHANGED <<store, seen, history, appliedKeys>>
    /\ UNCHANGED <<operatorVars, lastHash, reported, changes>>

\* The second loop of applyRemoteConfig is over the keys that were applied at any
\* time and that this message does not have.
BeginDeletes ==
    /\ agent.pc = "apply" /\ agent.todo = {}
    /\ agent' = Handling("delete", agent.message,
                         appliedKeys \ DOMAIN agent.message.config, agent.failed)
    /\ UNCHANGED <<store, seen, operatorVars, appliedKeys, lastHash, reported, changes, history>>

\* Client.Delete: no instance is no error.
Delete(k) ==
    /\ agent.pc = "delete"
    /\ agent' = Handling("delete", agent.message, agent.todo \ {k}, agent.failed)
    /\ IF store[k] = None THEN UNCHANGED <<store, seen, history>> ELSE DeleteInstance(k)
    /\ UNCHANGED <<operatorVars, appliedKeys, lastHash, reported, changes>>

\* A call of the client that fails.
CallFails(k) ==
    /\ agent.pc \in {"apply", "delete"} \/ (agent.pc = "write" /\ k = agent.key)
    /\ changes' = changes + 1
    /\ IF agent.pc = "delete"
       THEN agent' = Handling("delete", agent.message, agent.todo \ {k}, TRUE)
       ELSE NextKey(k, TRUE)
    /\ UNCHANGED <<store, seen, operatorVars, appliedKeys, lastHash, reported, history>>

\* Mutant of Report: an error of a call does not reach the status.
ReportApplied ==
    /\ agent.pc = "delete" /\ agent.todo = {}
    /\ agent' = Waiting
    /\ lastHash' = agent.message.hash
    /\ reported' = [message |-> agent.message, status |-> "APPLIED"]
    /\ UNCHANGED <<store, seen, operatorVars, appliedKeys, changes, history>>

\* The end of applyRemoteConfig and SetRemoteConfigStatus.
Report ==
    /\ agent.pc = "delete" /\ agent.todo = {}
    /\ agent' = Waiting
    /\ lastHash' = agent.message.hash
    /\ reported' = [message |-> agent.message,
                    status |-> IF agent.failed THEN "FAILED" ELSE "APPLIED"]
    /\ UNCHANGED <<store, seen, operatorVars, appliedKeys, changes, history>>

\* The bridge starts again: NewAgent has no keys and no hash.
RestartBridge ==
    /\ changes' = changes + 1
    /\ agent' = Waiting /\ appliedKeys' = {} /\ lastHash' = 0 /\ reported' = NotReported
    /\ seen' = {p \in seen : p[1] # "bridge"}
    /\ UNCHANGED <<store, operatorVars, history>>

-----------------------------------------------------------------------------
OperatorStep ==
    \/ Start \/ List \/ PatchSpec \/ PatchStatus \/ Upgraded
    \/ \E k \in DOMAIN upgrade.items : ManagedInstances(k, TRUE)

SelfStep == \E k \in Key : Self(k)

BridgeStep ==
    \/ ApplyWrites \/ BeginDeletes \/ Report
    \/ \E k \in agent.todo : Apply(k) \/ Delete(k)

EnvironmentStep ==
    \/ Stop \/ PatchFails \/ RestartBridge
    \/ \E k \in DOMAIN upgrade.items : ManagedInstances(k, FALSE)
    \/ \E k \in Key : UserDeletes(k) \/ \E s \in UserSpecs(changes) : UserWrites(k, s)
    \/ \E m \in Messages : onMessage(m)
    \/ \E k \in agent.todo : CallFails(k)

Next ==
    \/ OperatorStep \/ SelfStep \/ BridgeStep
    \/ EnvironmentStep /\ changes' <= MaxChanges

Fairness == WF_vars(OperatorStep) /\ WF_vars(SelfStep) /\ WF_vars(BridgeStep)

Spec == Init /\ [][Next]_vars /\ Fairness

-----------------------------------------------------------------------------
(* Properties.                                                             *)

\* Every variable has its type: the steps of the upgrade make settings of settings, and
\* nobody has an up to date copy of an instance that is gone.
TypeOK ==
    /\ store \in [Key -> Instance \cup {None}]
    /\ \A k \in Key : store[k] # None => store[k].spec.config \subseteq Settings
    /\ seen \subseteq Clients \X {k \in Key : store[k] # None}
    /\ upgrade.pc \in {"down", "list", "loop", "patch", "status", "blocked", "done"}
    /\ DOMAIN upgrade.items \subseteq Key
    /\ recorded \in 0..RecordBufferSize
    /\ agent.pc \in {"idle", "apply", "write", "delete"} /\ agent.todo \subseteq Key
    /\ appliedKeys \subseteq Key
    /\ reported.status \in {"UNSET", "APPLIED", "FAILED"}
    /\ intended \in [Key -> Intention \cup {None}]
    /\ \A k \in Key : store[k] = None <=> intended[k] = None
    /\ edited \subseteq Key /\ raced \subseteq Key

\* Every step of the upgrade, applied to what a user or the bridge wrote last.
UpgradedSpec(k) ==
    (CHOOSE r \in ManagedInstance(intended[k].spec, intended[k].from, Nil, TRUE) : TRUE).spec

\* What the steps are there to remove or to rename; what 0.41.0 loses with it, and 0.24.0
\* and 0.57.2 do: the endpoint that was given beside a port.  "{}" is no setting.
Deprecated(config) ==
    {"exporters.opencensus.reconnection_delay", "processors.queued_retry",
     "processors.resource.type", "processors.resource.labels",
     "receivers.influxdb/2.metrics_schema", "receivers.otlp.grpc.tls_settings",
     "exporters.otlp.insecure", "processors.memory_limiter.ballast_size_mib",
     "receivers.httpd", "service.pipelines.metrics.httpd",
     "receivers.otlp.cors_allowed_origins", "{}"}
        \cup Ports
        \cup (IF "receivers.otlp.cors_allowed_origins" \in config
              THEN {"receivers.otlp.cors.max_age"} ELSE {})
        \cup (IF config \cap Ports # {} THEN Endpoints ELSE {})

\* Settings that a repeated upgrade does not keep: the tls section of an exporter
\* (0.36.0), and a text that ends in " null" (0.39.0).
NotKept == ExporterTLS \cup {"processors.attributes.text_null"}

\* What a user or the bridge wrote survives however many upgrades there are, from
\* operators that stop or fail between the two patches and repeat the steps
\* (upgrade.go, ManagedInstances): but for NotKept, a setting is gone only when it
\* is deprecated, or when the upgrade did not see that it was written.  No argument is
\* lost, and one that a step moved to the configuration is still there too.
EditsSurvive ==
    \A k \in Key : store[k] # None =>
        LET config == intended[k].spec.config IN
        /\ store[k].spec.args = intended[k].spec.args
        /\ k \in raced
           \/ config \ (Deprecated(config) \cup NotKept) \subseteq store[k].spec.config

\* An instance with the operator's version has the configuration that the steps
\* make of what was written last: a version is never ahead of its configuration
\* (the two patches of ManagedInstances), but for a write that fell between them.
VersionTellsTruth ==
    \A k \in Key :
        store[k] # None /\ k \notin raced /\ store[k].version = Current
            /\ intended[k].from \in 0..Latest
        => store[k].spec.config \ ExporterTLS = UpgradedSpec(k).config \ ExporterTLS

\* Whoever writes a spec, what is stored has all its defaults: another pass through
\* the webhook, which the upgrade and each later write make, changes nothing
\* (opentelemetrycollector_webhook.go, Default).
WritesAreDefaulted ==
    [][\A k \in Key : store'[k] # None /\ (store[k] # None => store'[k].spec # store[k].spec)
            => Default(store'[k].spec) = store'[k].spec]_store

\* From what the webhook lets in, the operator builds an autoscaler that the API
\* server takes (validateCRDSpec and HorizontalPodAutoscaler): but for a zero.
AutoscalerBuildable ==
    [][\A k \in Key :
          LET s == store'[k].spec IN
          store'[k] # None /\ (store[k] # None => s # store[k].spec)
              /\ Autoscaled(s) /\ ~ZeroReplicas(s)
          => AutoscalerAcceptable(HorizontalPodAutoscaler(s, "v2"))]_store

\* The status APPLIED is true: an instance that the bridge wrote last is as the
\* message says, and one that it applied before and the message does not have is
\* gone or is a user's (agent.go, applyRemoteConfig).
AppliedIsInPlace ==
    agent.pc = "idle" /\ reported.status = "APPLIED" =>
        \A k \in appliedKeys :
            LET m == reported.message IN
            store[k] # None /\ intended[k].owner = "bridge" =>
                /\ k \in DOMAIN m.config
                /\ m.config[k] # Nil /\ intended[k].by = "bridge" =>
                        intended[k].spec.config = m.config[k].config

\* The bridge deletes no instance that it never wrote (agent.go, the second loop of
\* applyRemoteConfig): but for one that a user created anew under a key it wrote.
DeletesOnlyItsOwn ==
    [][\A k \in Key : store[k] # None /\ store'[k] = None /\ agent' # agent
            => intended[k].owner # "user"]_<<store, agent>>

\* The upgrade of an instance is due.
Eligible(k) ==
    /\ store[k] # None
    /\ store[k].spec.managedBy = "opentelemetry-operator"
    /\ store[k].spec.upgradeStrategy # "none"
    /\ store[k].version \in 0..Latest
    /\ \A r \in ManagedInstance(store[k].spec, store[k].version, Nil, TRUE) :
            r.ok /\ validateCRDSpec(Default(r.spec))

\* An operator that starts when nobody interferes any more brings each such instance
\* to its version, if its recorder does not fill (main.go, addDependencies).
UpgradedEventually ==
    \A k \in Key :
        (upgrade.pc = "list" /\ Eligible(k) /\ agent.pc = "idle" /\ changes = MaxChanges)
            ~> ((store[k] # None /\ store[k].version = Current) \/ upgrade.pc = "blocked")

=============================================================================
