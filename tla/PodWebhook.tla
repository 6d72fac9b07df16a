----------------------------- MODULE PodWebhook -----------------------------
(***************************************************************************)
(* The webhook that mutates pods (internal/webhookhandler), over the life  *)
(* of a pod, while namespaces, collectors and Instrumentation instances    *)
(* change; and the Instrumentation instances over restarts of the          *)
(* operator.                                                               *)
(***************************************************************************)
EXTENDS Sidecar, Instrumentations

CONSTANTS
    Name,            \* of collectors and of Instrumentation instances
    Namespaces,      \* the annotations a namespace may have
    Collectors,      \* the specs of collectors
    Instances,       \* the specs of Instrumentation instances
    Requests,        \* the pods that are asked for
    Cost(_),         \* what a request counts for in MaxChanges
    InitialCollectors, InitialInstances,   \* what there may be at first
    MaxVersion,      \* bound on the versions of the operator
    MaxChanges       \* bound on what users do

\* The images there may be: those in the specs, the one that users choose and the
\* default ones.
Image ==
    {i.image[l] : i \in Instances, l \in Language}
        \cup {i.annotation[l] : i \in Instances, l \in Language}
        \cup {NoImage} \cup ((Language \cup {"user"}) \X Nat)

\* An instance that is stored: only its images, their annotations and its label are
\* written after it was created.
Instance ==
    [image : [Language -> Image], annotation : [Language -> Image],
     managedBy : {i.managedBy : i \in Instances} \cup {"opentelemetry-operator"},
     env : {i.env : i \in Instances}, langEnv : {i.langEnv : i \in Instances},
     endpoint : {i.endpoint : i \in Instances}, attributes : {i.attributes : i \in Instances},
     addK8sUIDAttributes : BOOLEAN, propagators : {i.propagators : i \in Instances},
     sampler : {i.sampler : i \in Instances},
     samplerArgument : {i.samplerArgument : i \in Instances}]

ASSUME ObjectsAssumption ==
    /\ Instances \subseteq Instance /\ Nil \notin Instance
    /\ InitialInstances \subseteq [Name -> Instances \cup {Nil}]
    /\ Nil \notin Collectors
    /\ InitialCollectors \subseteq [Name -> Collectors \cup {Nil}]
    /\ MaxVersion \in Nat \ {0}

\* An image that is written in a spec is not one that the operator gives by default.
ASSUME ImagesAssumption ==
    /\ \A i \in Instances, l \in Language :
          /\ i.image[l] # NoImage => i.image[l] \notin {i.annotation[l]} \cup (Language \X Nat)
          /\ i.annotation[l] # <<"user", 1>>
    /\ \A specs \in InitialInstances : \A n \in Name, l \in Language :
          specs[n] # Nil => specs[n].annotation[l] \in {NoImage, <<l, 1>>}

\* What users write has the shape that the API server asks for.
ASSUME ShapeAssumption ==
    /\ Nil \notin Requests
    /\ \A p \in Requests : IsPod(p) /\ IsSeq(p.containerNames)
    /\ \A n \in Namespaces : IsSeq(n.containerNames)
    /\ \A c \in Collectors : IsEnv(c.env) /\ IsSeq(c.mounts) /\ IsSeq(c.volumes)
    /\ \A i \in Instances : IsEnv(i.env) /\ \A l \in Language : IsEnv(i.langEnv[l])

\* Only the operator tells a container to load one of its agents.
ASSUME AgentsAssumption ==
    \A l \in Files :
        /\ \A p \in Requests :
              /\ \A c \in Range(p.containers) : ~Told(c, l)
              /\ \A key \in DOMAIN p.meta : key[1] # "agent"
        /\ \A c \in Collectors : ~Told(c, l)
        /\ \A i \in Instances :
              /\ ~Told(i, l) /\ <<"agent", "", l>> \notin i.propagators
              /\ \A k \in Language : ~Told([env |-> i.langEnv[k]], l)
              /\ \A key \in DOMAIN i.attributes : key[1] # "agent"

VARIABLES
    ns, collectors, instances,   \* what the mutators read
    asked,      \* the pod that was asked for last
    pod,        \* what is stored, Nil if there is none
    outcome,    \* of the last request for a pod, if nothing has changed since
    changed,    \* whether what the mutators read has changed since the pod was created
    version,    \* of the operator
    upgrading,  \* "list", "update" or "done"
    listed,     \* what the upgrade has still to look at
    dirty,      \* the instances written since they were listed
    missed,     \* the instances that this upgrade could not write
    chosen,     \* <<instance, language, image>> for the images that users have chosen
    changes

vars == <<ns, collectors, instances, asked, pod, outcome, changed, version, upgrading,
          listed, dirty, missed, chosen, changes>>

podVars == <<ns, collectors, asked, pod>>
upgradeVars == <<version, upgrading, listed, missed>>

None == [n \in Name |-> Nil]

\* The images that an instance is written with.
Chosen(n, i) ==
    IF i = Nil THEN {} ELSE {<<n, l, i.image[l]>> : l \in {k \in Language : i.image[k] # NoImage}}

Init ==
    /\ ns \in Namespaces
    /\ collectors \in InitialCollectors
    /\ \E specs \in InitialInstances :
          /\ \A n \in Name : specs[n] # Nil => validate(specs[n])
          /\ instances = [n \in Name |-> IF specs[n] = Nil THEN Nil ELSE Default(specs[n], 1)]
          /\ chosen = UNION {Chosen(n, specs[n]) : n \in Name}
    /\ asked = Nil /\ pod = Nil /\ outcome = "" /\ changed = FALSE
    /\ version = 1 /\ upgrading = "done" /\ listed = None /\ dirty = {} /\ missed = {}
    /\ changes = 0

Changes(n) == changes + n <= MaxChanges /\ changes' = changes + n

Change == Changes(1)

-----------------------------------------------------------------------------
(* Requests for pods.                                                      *)

\* Mutant of Handle: what the first mutator did is kept when the second one fails.
HandleKeepsFirst(p, found) ==
    {LET second == instMutate(ns, first.pod, instances, Name, found)
     IN  IF ~first.ok THEN p ELSE second.pod
     : first \in sidecarMutate(ns, p, collectors, found)}

\* Handle: the pods that may be the response.  An error is a response without a
\* patch, as is no answer at all: the failure policy is to ignore it.
Handle(p, found) ==
    {LET second == instMutate(ns, first.pod, instances, Name, found)
     IN  IF first.ok /\ second.ok THEN second.pod ELSE p
     : first \in sidecarMutate(ns, p, collectors, found)}

\* What the API server gives a pod that it stores.
StoredMeta == (<<"pod", "name">> :> "p") @@ (<<"pod", "uid">> :> "u") @@ (<<"node", "name">> :> "n")

Stored(p) == [p EXCEPT !.meta = StoredMeta]

CreatePod ==
    /\ pod = Nil /\ changes < MaxChanges
    /\ \E p \in Requests, handled, found \in BOOLEAN :
       /\ Changes(Cost(p))
       /\ \E response \in IF handled THEN Handle(p, found) ELSE {p} :
             /\ asked' = p
             /\ pod' = IF Acceptable(response) THEN Stored(response) ELSE Nil
             /\ outcome' = IF Acceptable(response) THEN "created" ELSE "not created"
             /\ changed' = ~handled
    /\ UNCHANGED <<ns, collectors, instances, upgradeVars, dirty, chosen>>

\* Any update of the pod goes through the webhook.  This one changes nothing itself.
UpdatePod ==
    /\ pod # Nil
    /\ \E found \in BOOLEAN :
          \E response \in Handle(pod, found) :
             outcome' = IF Immutable(response) = Immutable(pod) THEN "updated" ELSE "not updated"
    /\ UNCHANGED <<podVars, instances, changed, upgradeVars, dirty, chosen, changes>>

DeletePod ==
    /\ pod # Nil /\ Change
    /\ pod' = Nil /\ asked' = Nil /\ outcome' = "" /\ changed' = FALSE
    /\ UNCHANGED <<ns, collectors, instances, upgradeVars, dirty, chosen>>

-----------------------------------------------------------------------------
(* What the mutators read.                                                 *)

AnnotateNamespace ==
    /\ Change
    /\ ns' \in Namespaces \ {ns}
    /\ outcome' = "" /\ changed' = TRUE
    /\ UNCHANGED <<collectors, instances, asked, pod, upgradeVars, dirty, chosen>>

WriteCollector ==
    /\ Change
    /\ \E n \in Name, c \in Collectors \cup {Nil} :
          /\ c # collectors[n]
          /\ collectors' = [collectors EXCEPT ![n] = c]
    /\ outcome' = "" /\ changed' = TRUE
    /\ UNCHANGED <<ns, instances, asked, pod, upgradeVars, dirty, chosen>>

\* An instance is created or deleted.
WriteInstance ==
    /\ Change
    /\ \E n \in Name, i \in Instances \cup {Nil} :
          /\ (i = Nil) # (instances[n] = Nil)
          /\ i # Nil => validate(i)
          /\ instances' = [instances EXCEPT ![n] = IF i = Nil THEN Nil ELSE Default(i, version)]
          /\ dirty' = dirty \cup {n}
          /\ chosen' = {c \in chosen : c[1] # n} \cup Chosen(n, i)
    /\ outcome' = "" /\ changed' = TRUE
    /\ UNCHANGED <<ns, collectors, asked, pod, upgradeVars>>

\* A user chooses the image of a language, or leaves it to the operator.
ChooseImage ==
    /\ Change
    /\ \E n \in Name, l \in Language, image \in {NoImage, <<"user", 1>>} :
          /\ instances[n] # Nil
          /\ LET new == Default([instances[n] EXCEPT !.image[l] = image], version) IN
             /\ new # instances[n]
             /\ instances' = [instances EXCEPT ![n] = new]
          /\ dirty' = dirty \cup {n}
          /\ chosen' = {c \in chosen : <<c[1], c[2]>> # <<n, l>>}
                           \cup ({<<n, l, image>>} \ {<<n, l, NoImage>>})
    /\ UNCHANGED <<podVars, outcome, changed, upgradeVars>>

-----------------------------------------------------------------------------
(* The upgrade of the Instrumentation instances.                           *)

\* The operator starts again, perhaps in a newer version.
Restart ==
    /\ Change
    /\ version' \in {version, version + 1} \cap 1..MaxVersion
    /\ upgrading' = "list" /\ listed' = None
    /\ UNCHANGED <<podVars, instances, outcome, changed, dirty, missed, chosen>>

\* The first step of ManagedInstances: those with the label of the operator.
List ==
    /\ upgrading = "list"
    /\ upgrading' = "update"
    /\ listed' = [n \in Name |-> IF /\ instances[n] # Nil
                                    /\ instances[n].managedBy = "opentelemetry-operator"
                                 THEN instances[n] ELSE Nil]
    /\ dirty' = {} /\ missed' = {}
    /\ UNCHANGED <<podVars, instances, outcome, changed, version, chosen, changes>>

\* Mutant of Update: the version that was read is not compared.
UpdateUnlocked(n) ==
    /\ upgrading = "update" /\ listed[n] # Nil
    /\ LET new == Default(upgrade(listed[n], version), version) IN
       instances' = [instances EXCEPT ![n] = IF @ = Nil THEN Nil ELSE new]
    /\ missed' = missed
    /\ listed' = [listed EXCEPT ![n] = Nil]
    /\ UNCHANGED <<podVars, outcome, changed, version, upgrading, dirty, chosen, changes>>

\* Mutant of Update: an instance that cannot be written ends the loop.
UpdateStops(n) ==
    /\ upgrading = "update" /\ listed[n] # Nil
    /\ IF n \in dirty
       THEN instances' = instances /\ missed' = missed \cup {n} /\ listed' = None
       ELSE /\ instances' = [instances EXCEPT ![n] = Default(upgrade(listed[n], version), version)]
            /\ missed' = missed /\ listed' = [listed EXCEPT ![n] = Nil]
    /\ UNCHANGED <<podVars, outcome, changed, version, upgrading, dirty, chosen, changes>>

\* One turn of the loop of ManagedInstances: an update of the instance as it was
\* read, which fails if it has been written since.
Update(n) ==
    /\ upgrading = "update" /\ listed[n] # Nil
    /\ LET new == Default(upgrade(listed[n], version), version) IN
       IF n \in dirty
       THEN instances' = instances /\ missed' = missed \cup {n}
       ELSE instances' = [instances EXCEPT ![n] = new] /\ missed' = missed
    /\ listed' = [listed EXCEPT ![n] = Nil]
    /\ UNCHANGED <<podVars, outcome, changed, version, upgrading, dirty, chosen, changes>>

\* The call to the API server fails: the next instance is looked at.
UpdateFails(n) ==
    /\ upgrading = "update" /\ listed[n] # Nil
    /\ missed' = missed \cup {n}
    /\ listed' = [listed EXCEPT ![n] = Nil]
    /\ UNCHANGED <<podVars, instances, outcome, changed, version, upgrading, dirty, chosen,
                   changes>>

Done ==
    /\ upgrading = "update" /\ listed = None
    /\ upgrading' = "done"
    /\ UNCHANGED <<podVars, instances, outcome, changed, version, listed, dirty, missed, chosen,
                   changes>>

Next ==
    \/ CreatePod \/ UpdatePod \/ DeletePod
    \/ AnnotateNamespace \/ WriteCollector \/ WriteInstance \/ ChooseImage
    \/ Restart \/ List \/ Done
    \/ \E n \in Name : Update(n) \/ UpdateFails(n)

Spec == Init /\ [][Next]_vars

-----------------------------------------------------------------------------
(* What is checked.                                                        *)

\* Every variable has its type: a pod that is stored is one that the API server takes,
\* and an instance that is stored has gone through the defaults of its webhook.
TypeOK ==
    /\ ns \in Namespaces
    /\ collectors \in [Name -> Collectors \cup {Nil}]
    /\ \A n \in Name : instances[n] # Nil =>
          \A l \in Language : NoImage \notin {instances[n].image[l], instances[n].annotation[l]}
    /\ asked \in Requests \cup {Nil}
    /\ pod # Nil => Acceptable(pod)
    /\ outcome \in {"", "created", "not created", "updated", "not updated"}
    /\ outcome \in {"created", "updated", "not updated"} => pod # Nil
    /\ changed \in BOOLEAN
    /\ version \in 1..MaxVersion /\ upgrading \in {"list", "update", "done"}
    /\ missed \subseteq Name /\ dirty \subseteq Name
    /\ changes \in 0..MaxChanges

WellFormed(config) ==
    /\ config.ok /\ config.receivers # Nil /\ config.pipelines # Nil
    /\ \A p \in DOMAIN config.pipelines : config.pipelines[p] \notin {{}, {Nil}}
    /\ \A r \in DOMAIN config.receivers : ~Panics(r, config.receivers[r])

\* The languages that are injected into a pod, if it can be done.
Selected(p) ==
    {l \in Language \cup {"sdk"} : Wanted(ns, p, l) /\ l \in Enabled \cup {"sdk"}}

Targets(p) ==
    LET names == ContainerNames(ns, p) IN [i \in DOMAIN names |-> Target(p, names[i])]

\* The instances that they are injected from, if there is one for each.
Used(p) == {instances[n] : n \in UNION {Candidates(ns, p, l, instances, Name) : l \in Selected(p)}}

\* The volumes and the paths that belong to the agents.
Reserved(langs) ==
    (IF langs \cap Files = {} THEN {} ELSE {AutoInstrumentation, "/otel-auto-instrumentation"})
        \cup (IF "go" \in langs THEN {"kernel-debug"} ELSE {})
        \cup (IF "apache" \in langs
              THEN {"otel-apache-conf-dir", "otel-apache-agent", AgentDir, SourceDir} ELSE {})

\* What a container does not go together with: an agent whose path it mounts already; a
\* value added to a variable that has its value from elsewhere.
ClashIn(c, langs) ==
    \/ Range(c.mounts) \cap Reserved(langs) # {}
    \/ langs # {} /\ FromElsewhere(c.env)

\* What Apache does not go together with: a probe, which the init container gets too, and
\* a configuration that is mounted after a part of it, of which only one is removed.
ClashApache(c) ==
    \/ c.probe
    \/ \E i, j \in DOMAIN c.mounts : i < j /\ c.mounts[i] \in ConfPaths /\ c.mounts[j] = ConfDir

\* What a pod, as the second mutator gets it, is refused for: no container is left, or
\* the port of the metrics is none; a volume of an agent is there already, or the agent
\* is added twice to one container; and what its containers do not go together with.
ClashInside(q, langs) ==
    \/ q.containers = <<>>
    \/ \E c \in Range(q.containers) : \E port \in c.ports : port.port \notin PortNumber
    \/ Range(q.volumes) \cap Reserved(langs) # {}
    \/ /\ q.containers # <<>>
       /\ \/ langs \cap Files # {} /\ ~Distinct(Targets(q))
          \/ \E i \in Range(Targets(q)) : ClashIn(q.containers[i], langs)
          \/ "apache" \in langs /\ ClashApache(q.containers[Targets(q)[1]])

\* What the operator is known to make of a pod that the API server then refuses: two
\* agents in one place; the agent of Go twice; a value added to a variable of an
\* instance that has its value from elsewhere; a volume of the collector that the pod
\* has already; and the cases of ClashInside.
Clash(p) ==
    LET langs == Selected(p) IN
    \/ \E k, l \in langs \cap Files : k # l
    \/ langs \cap Files # {} /\ "go" \in langs
    \/ "go" \in langs /\ Len(ContainerNames(ns, p)) > 1
    \/ \E i \in Used(p) :
          FromElsewhere(i.env) \/ \E l \in Language : FromElsewhere(i.langEnv[l])
    \/ \E n \in getCollectorInstance(sidecarAnnotationValue(ns, p), collectors) :
          ~Distinct(p.volumes \o collectors[n].volumes)
    \/ \E found \in BOOLEAN : \E first \in sidecarMutate(ns, p, collectors, found) :
          ClashInside(first.pod, langs)

\* Whatever the operator does to a pod, it does not keep it from being created: it is
\* refused in the cases of Clash only.
PodsNotBlocked == outcome = "not created" => Clash(asked)

\* An update of a pod goes through the webhook again, and changes nothing, as long as
\* what the mutators read is what it was when the pod was created.  Not so for a pod with
\* only the SDK or Apache, which nothing shows to be instrumented, nor for a collector
\* that is not well formed: over an empty pipeline the mutator stumbles at times.
UpdatesPass ==
    outcome = "not updated" =>
        \/ changed
        \/ \E n \in Name : collectors[n] # Nil /\ ~WellFormed(collectors[n].config)
        \/ /\ Selected(asked) \cap {"sdk", "apache"} # {}
           /\ ~isAutoInstrumentationInjected(pod)

\* A pod is what was asked for, or both mutators did their work: there is an instance
\* for each language and the sidecar it is annotated with.  When one mutator fails,
\* nothing of the other one is left, and when the agent of Go is not added, nothing else
\* of it is (webhookhandler.go, Handle; sdk.go, inject).
AllOrNothing ==
    outcome = "created" /\ Immutable(pod) # Immutable(asked) =>
        LET annotation == sidecarAnnotationValue(ns, asked)
            cols == getCollectorInstance(annotation, collectors)
        IN  /\ \A l \in Language \cup {"sdk"} :
                  Wanted(ns, asked, l) /\ ~isAutoInstrumentationInjected(asked) =>
                      Single(Candidates(ns, asked, l, instances, Name))
            /\ annotation = "false" => ~existsIn(pod)
            /\ annotation \notin {"", "false"} =>
                  existsIn(pod) <=> existsIn(asked) \/ Single(cols)
            /\ (\A c \in Range(pod.containers) : c.agent # "go") =>
                  /\ pod.shareProcessNamespace = asked.shareProcessNamespace
                  /\ "kernel-debug" \in Range(pod.volumes) =>
                        "kernel-debug" \in Range(asked.volumes)
                                               \cup UNION {Range(collectors[n].volumes) : n \in cols}

\* A container that is told to load an agent finds it: the volume is mounted, and an
\* init container puts the agent there.  Not so where the pod has agents of two
\* languages in different containers: there is one init container, for the first.
AgentPresent ==
    pod # Nil => \A c \in Range(pod.containers), l \in Files :
        Told(c, l) =>
            /\ "/otel-auto-instrumentation" \in Range(c.mounts)
            /\ AutoInstrumentation \in Range(pod.volumes)
            /\ \E i \in Range(pod.inits) :
                  \/ i.agent = l
                  \/ i.agent \in Files /\ \E d \in Range(pod.containers) : Told(d, i.agent)

\* The environments that users write for a container: in the pod, in the instances.
Written(c) ==
    {a.env : a \in {b \in Range(asked.containers) : b.name = c.name}}
        \cup {i.env : i \in Used(asked)}
        \cup {i.langEnv[l] : i \in Used(asked), l \in Language}

\* The attributes of a container that are given there.
Given(c) == UNION {UNION {env[i].value : i \in ResourceAttributes(env)} : env \in Written(c)}

\* The attributes that are overridden: those given for what the downward API fills, and
\* those with an equals sign in the value, which are not recognised as given.
Overridden(c) ==
    {<<x[1], x[2]>> : x \in {y \in Given(c) : ~Splits(y)}}
        \cup ({<<x[1], x[2]>> : x \in Given(c)} \cap {d.key : d \in Range(Downward)})
        \cup UNION {{key \in DOMAIN i.attributes : ~Splits(<<"", "", i.attributes[key]>>)} :
                    i \in Used(asked)}

\* A value, which the kubelet takes from the pod if it is a reference.
Resolved(part) ==
    IF \E d \in Range(Downward) : part[3] = d.var THEN pod.meta[<<part[1], part[2]>>] ELSE part[3]

\* No resource attribute has two values, so that one given in the pod or in an instance
\* is not overridden: but for those of Overridden, and for the agent of Go, where it is
\* the environment of another container that is looked at.  And a variable that a value
\* refers to is defined before it: the kubelet would leave the reference as it is
\* (sdk.go, createResourceMap and injectCommonSDKConfig).
AttributesDefinedOnce ==
    outcome = "created" => \A c \in Range(pod.containers) : \A i \in ResourceAttributes(c.env) :
        /\ c.agent # "go" => \A x, y \in c.env[i].value :
              /\ <<x[1], x[2]>> = <<y[1], y[2]>>
              /\ <<x[1], x[2]>> \notin Overridden(c)
              => Resolved(x) = Resolved(y)
        /\ \A x \in c.env[i].value : \A d \in Range(Downward) :
              x[3] = d.var => \E j \in 1..(i - 1) : c.env[j] = FieldRef(d.var)

\* The ports of the receivers that some pipeline has.
ServedPorts(config) ==
    UNION {Ports(r, config.receivers[r]) :
           r \in DOMAIN config.receivers
                    \cap UNION {config.pipelines[p] : p \in DOMAIN config.pipelines}}

\* The ports of a collector that is injected are those of the spec, the one of the
\* metrics and those of the receivers that are enabled: all of them, but for names that
\* are the same when they are cut, or not valid.
PortsMatch ==
    outcome = "created" /\ ~existsIn(asked) =>
        \A c \in {d \in Range(pod.containers) : d.name = ContainerName} :
        \A n \in getCollectorInstance(sidecarAnnotationValue(ns, asked), collectors) :
            LET col == collectors[n]
                served == ServedPorts(col.config)
                others == col.ports \cup {Port("metrics", getMetricsPort(col.config), "TCP", "")}
                cut(p) == [p EXCEPT !.name = Truncate(@, 15)]
            IN  WellFormed(col.config) =>
                /\ c.ports \subseteq {cut(p) : p \in served} \cup others
                /\ col.ports \subseteq c.ports
                /\ \A p \in served :
                      \/ cut(p) \in c.ports \/ ~IsValidPort(cut(p))
                      \/ \E q \in served \ {p} : cut(q).name = cut(p).name
                      \/ \E q \in others : q.name = cut(p).name

\* An image that a user has chosen stays, whatever the upgrades do at the same time.
ChosenImagesStay == \A c \in chosen : instances[c[1]].image[c[2]] = c[3]

\* After an upgrade an image that no user has chosen is the one of this version, unless
\* the instance was written while the upgrade ran.  The upgrade of Go has the image of
\* another language.
DefaultImagesFollow ==
    upgrading = "done" =>
        \A n \in Name \ (dirty \cup missed) : \A l \in Enabled \ {"go"} :
            /\ instances[n] # Nil /\ instances[n].managedBy = "opentelemetry-operator"
            /\ \A c \in chosen : <<c[1], c[2]>> # <<n, l>>
            => instances[n].image[l] = <<l, version>>

=============================================================================
