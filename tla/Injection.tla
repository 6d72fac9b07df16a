----------------------------- MODULE Injection ------------------------------
(***************************************************************************)
(* The instrumentation of a pod (pkg/instrumentation): what the mutator    *)
(* makes of a pod, the Instrumentation instances being given.              *)
(***************************************************************************)
EXTENDS Pods

CONSTANTS
    Enabled,    \* the languages whose feature gate is enabled
    ConfPaths   \* the mount paths that the one of Apache's configuration is part of

Language == {"java", "nodejs", "python", "dotnet", "go", "apache"}

ASSUME EnabledAssumption == Enabled \subseteq Language

\* Those whose agent is a file that an init container copies.
Files == {"java", "nodejs", "python", "dotnet"}

AutoInstrumentation == "opentelemetry-auto-instrumentation"

Result(ok, pod) == [ok |-> ok, pod |-> pod]

-----------------------------------------------------------------------------
(* The agents.                                                             *)

\* isInitContainerMissing
isInitContainerMissing(pod) == \A c \in Range(pod.inits) : c.name # AutoInstrumentation

\* Mutant of isAutoInstrumentationInjected: the sidecar of Go is not looked for.
isInitContainerInjected(pod) == ~isInitContainerMissing(pod)

\* isAutoInstrumentationInjected: Apache and the SDK leave nothing it looks for.
isAutoInstrumentationInjected(pod) ==
    \E c \in Range(pod.inits) \cup Range(pod.containers) : c.name = AutoInstrumentation

InitContainer(agent) ==
    [name |-> AutoInstrumentation, agent |-> agent, env |-> <<>>,
     mounts |-> <<"/otel-auto-instrumentation">>, probe |-> FALSE, ports |-> {}]

\* Mutant of InjectFiles: only the first container gets the mount.
InjectFilesOnce(agent, pod, i, env) ==
    LET changed == [pod EXCEPT !.containers[i].env = env]
    IN  IF ~isInitContainerMissing(pod) THEN changed
        ELSE [changed EXCEPT !.containers[i].mounts = Append(@, "/otel-auto-instrumentation"),
                             !.volumes = Append(@, AutoInstrumentation),
                             !.inits = Append(@, InitContainer(agent))]

\* What the agents that are files in a volume have in common: the new environment
\* of container i, its mount, and once for the pod the volume and the init container.
InjectFiles(agent, pod, i, env) ==
    LET mounted == [pod EXCEPT !.containers[i].env = env,
                               !.containers[i].mounts = Append(@, "/otel-auto-instrumentation")]
    IN  IF ~isInitContainerMissing(pod) THEN mounted
        ELSE [mounted EXCEPT !.volumes = Append(@, AutoInstrumentation),
                             !.inits = Append(@, InitContainer(agent))]

AgentOption(name, agent) == Var(name, {<<"agent", "", agent>>})

\* The container is told to load the agent.
Told(c, l) == \E v \in Range(c.env) : <<"agent", "", l>> \in v.value

injectJavaagent(inst, pod, i) ==
    LET env == pod.containers[i].env IN
    IF ~validateContainerEnv(env, {"JAVA_TOOL_OPTIONS"}) THEN Result(FALSE, pod)
    ELSE Result(TRUE, InjectFiles("java", pod, i,
            Concat(AddAllMissing(env, inst.langEnv["java"]),
                   AgentOption("JAVA_TOOL_OPTIONS", "java"))))

injectNodeJSSDK(inst, pod, i) ==
    LET env == pod.containers[i].env IN
    IF ~validateContainerEnv(env, {"NODE_OPTIONS"}) THEN Result(FALSE, pod)
    ELSE Result(TRUE, InjectFiles("nodejs", pod, i,
            Concat(AddAllMissing(env, inst.langEnv["nodejs"]),
                   AgentOption("NODE_OPTIONS", "nodejs"))))

injectPythonSDK(inst, pod, i) ==
    LET env == pod.containers[i].env IN
    IF ~validateContainerEnv(env, {"PYTHONPATH"}) THEN Result(FALSE, pod)
    ELSE Result(TRUE, InjectFiles("python", pod, i,
            AddAllMissing(
                Concat(AddAllMissing(env, inst.langEnv["python"]),
                       AgentOption("PYTHONPATH", "python")),
                <<Var("OTEL_TRACES_EXPORTER", {<<"", "", "otlp">>}),
                  Var("OTEL_EXPORTER_OTLP_TRACES_PROTOCOL", {<<"", "", "http/protobuf">>}),
                  Var("OTEL_METRICS_EXPORTER", {<<"", "", "otlp">>}),
                  Var("OTEL_EXPORTER_OTLP_METRICS_PROTOCOL", {<<"", "", "http/protobuf">>})>>)))

\* setDotNetEnvVar
setDotNetEnvVar(env, var, concatValues) ==
    IF concatValues THEN Concat(env, var) ELSE AddMissing(env, var)

\* The startup hook stands for the three variables that are added to.
injectDotNetSDK(inst, pod, i) ==
    LET env == pod.containers[i].env
        own == inst.langEnv["dotnet"]
    IN  IF \/ ~validateContainerEnv(env, {"DOTNET_STARTUP_HOOKS"})
           \/ Has(env, "OTEL_DOTNET_AUTO_HOME") \/ Has(own, "OTEL_DOTNET_AUTO_HOME")
        THEN Result(FALSE, pod)
        ELSE Result(TRUE, InjectFiles("dotnet", pod, i,
                setDotNetEnvVar(
                    setDotNetEnvVar(
                        setDotNetEnvVar(AddAllMissing(env, own),
                            AgentOption("CORECLR_PROFILER", "dotnet"), FALSE),
                        AgentOption("DOTNET_STARTUP_HOOKS", "dotnet"), TRUE),
                    AgentOption("OTEL_DOTNET_AUTO_HOME", "dotnet"), FALSE)))

\* injectGoSDK: the agent is a container of its own.  Of the annotations with the
\* names of containers it looks at the pod's only.
injectGoSDK(inst, pod) ==
    IF pod.shareProcessNamespace = "false" \/ Len(pod.containerNames) > 1
    THEN Result(FALSE, pod)
    ELSE LET exe == IF pod.goExe THEN <<Var("OTEL_GO_AUTO_TARGET_EXE", {})>> ELSE <<>>
             agent == [name |-> AutoInstrumentation, agent |-> "go",
                       env |-> AddAllMissing(exe, inst.langEnv["go"]),
                       mounts |-> <<"/sys/kernel/debug">>, probe |-> FALSE, ports |-> {}]
         IN  Result(TRUE, [pod EXCEPT !.shareProcessNamespace = "true",
                                      !.containers = Append(@, agent),
                                      !.volumes = Append(@, "kernel-debug")])

-----------------------------------------------------------------------------
(* The configuration that all have in common.                              *)

\* injectCommonEnvVar
injectCommonEnvVar(inst, pod, i) ==
    [pod EXCEPT !.containers[i].env = AddAllMissing(@, inst.env)]

\* addParentResourceLabels: found says whether the ReplicaSet could be read.
addParentResourceLabels(uid, pod, found) ==
    LET owners == IF pod.owner = "replicaset" /\ found THEN {"replicaset", "deployment"}
                  ELSE {pod.owner} \ {""}
    IN  [key \in owners \X (IF uid THEN {"name", "uid"} ELSE {"name"}) |-> key[1]]

\* Mutant of ExistingAttributes: what the container has is not looked at.
ExistingAttributesNone(env) == {}

\* A key and a value, split at the equals signs, are two parts.
Splits(part) == \A i \in 1..Len(part[3]) : SubSeq(part[3], i, i) # "="

\* The keys of the resource attributes that the container has.
ExistingAttributes(env) ==
    LET i == getIndexOfEnv(env, "OTEL_RESOURCE_ATTRIBUTES") IN
    IF i = 0 THEN {} ELSE {<<part[1], part[2]>> : part \in {x \in env[i].value : Splits(x)}}

ResourceAttributes(env) == {i \in DOMAIN env : env[i].name = "OTEL_RESOURCE_ATTRIBUTES"}

Without(res, keys) == [key \in DOMAIN res \ keys |-> res[key]]

\* createResourceMap: the name, the uid and the node of a pod may be empty.
createResourceMap(inst, pod, i, found) ==
    LET names == [key \in {<<"namespace", "name">>, <<"container", "name">>} |->
                     IF key[1] = "namespace" THEN "ns" ELSE pod.containers[i].name]
        owners == addParentResourceLabels(inst.addK8sUIDAttributes, pod, found)
        k8s == Over(owners, Over(names, pod.meta))
        known == Without(k8s, {key \in DOMAIN k8s : k8s[key] = ""})
    IN  Without(Over(known, inst.attributes), ExistingAttributes(pod.containers[i].env))

\* resourceMapToStr
resourceMapToStr(res) == {<<key[1], key[2], res[key]>> : key \in DOMAIN res}

\* chooseServiceName: the first of these that there is.
chooseServiceName(pod, res, i) ==
    LET kinds == SelectSeq(<<"deployment", "statefulset", "job", "cronjob", "pod">>,
                           LAMBDA kind : <<kind, "name">> \in DOMAIN res)
    IN  IF kinds = <<>> THEN pod.containers[i].name ELSE res[<<kinds[1], "name">>]

\* The variables that the downward API fills, for attributes that are not known.
Downward ==
    << [key |-> <<"pod", "name">>, var |-> "OTEL_RESOURCE_ATTRIBUTES_POD_NAME"],
       [key |-> <<"pod", "uid">>, var |-> "OTEL_RESOURCE_ATTRIBUTES_POD_UID"],
       [key |-> <<"node", "name">>, var |-> "OTEL_RESOURCE_ATTRIBUTES_NODE_NAME"] >>

\* The attributes whose values refer to these variables.
References(downward) ==
    [key \in {d.key : d \in downward} |-> (CHOOSE d \in downward : d.key = key).var]

\* The variable is needed.
Unknown(inst, res, d) ==
    IF d.key \notin DOMAIN res /\ (d.key = <<"pod", "uid">> => inst.addK8sUIDAttributes)
    THEN <<d>> ELSE <<>>

Missing(inst, res) ==
    Unknown(inst, res, Downward[1]) \o Unknown(inst, res, Downward[2])
                                    \o Unknown(inst, res, Downward[3])

\* The sampler is configured by two variables, or not at all.
AddSampler(env, inst) ==
    IF \/ inst.sampler = "" \/ Has(env, "OTEL_TRACES_SAMPLER")
       \/ Has(env, "OTEL_TRACES_SAMPLER_ARG")
    THEN env
    ELSE env \o <<Var("OTEL_TRACES_SAMPLER", {<<"", "", inst.sampler>>})>>
             \o (IF inst.samplerArgument = "" THEN <<>>
                 ELSE <<Var("OTEL_TRACES_SAMPLER_ARG", {<<"", "", inst.samplerArgument>>})>>)

\* injectCommonSDKConfig: the new environment of a container.  The variables of
\* Downward are appended whether or not the container has them.
CommonEnv(inst, pod, env, app, res) ==
    LET missing == Missing(inst, res)
        resources == Over(res, References(Range(missing)))
        named == AddMissing(env, Var("OTEL_SERVICE_NAME",
                                     {<<"", "", chooseServiceName(pod, res, app)>>}))
        exported == IF inst.endpoint = "" THEN named
                    ELSE AddMissing(named, Var("OTEL_EXPORTER_OTLP_ENDPOINT",
                                               {<<"", "", inst.endpoint>>}))
        described == Concat(exported \o [d \in DOMAIN missing |-> FieldRef(missing[d].var)],
                            Var("OTEL_RESOURCE_ATTRIBUTES", resourceMapToStr(resources)))
        propagated == IF inst.propagators = {} THEN described
                      ELSE AddMissing(described, Var("OTEL_PROPAGATORS", inst.propagators))
        sampled == AddSampler(propagated, inst)
    IN  moveEnvToListEnd(sampled, getIndexOfEnv(sampled, "OTEL_RESOURCE_ATTRIBUTES"))

\* injectCommonEnvVar and injectCommonSDKConfig, for the container of the agent and
\* the one of the application.
Configure(inst, pod, agent, app, found) ==
    LET p == injectCommonEnvVar(inst, pod, agent) IN
    [p EXCEPT !.containers[agent].env =
                  CommonEnv(inst, p, @, app, createResourceMap(inst, p, app, found))]

-----------------------------------------------------------------------------
(* Apache.                                                                 *)

\* getApacheOtelConfig: what differs between pods.
getApacheOtelConfig(inst, pod, i, res) ==
    {<<"endpoint", "", IF inst.endpoint = "" THEN "http://localhost:4317/" ELSE inst.endpoint>>,
     <<"service", "name", chooseServiceName(pod, res, i)>>}

CloneName == "otel-agent-source-container-clone"

AttachName == "otel-agent-attach-apache"

ConfDir == "/usr/local/apache2/conf"
AgentDir == "/opt/opentelemetry-webserver/agent"
SourceDir == "/opt/opentelemetry-webserver/source-conf"

ASSUME ConfPathsAssumption ==
    /\ ConfDir \in ConfPaths
    /\ {AgentDir, SourceDir, "/otel-auto-instrumentation"} \cap ConfPaths = {}

\* The container with the variables of the agent.
ApacheContainer(inst, pod, i) ==
    [pod.containers[i] EXCEPT !.env = AddAllMissing(@, inst.langEnv["apache"])]

\* The first mount with the configuration, 0 if there is none.
MountIndex(mounts) == FirstIndex(mounts, LAMBDA mount : mount \in ConfPaths)

\* Its mounts: the configuration comes from another volume.
ApacheMounts(mounts) ==
    LET conf == MountIndex(mounts)
    IN  (IF conf = 0 THEN mounts ELSE RemoveAt(mounts, conf)) \o <<AgentDir, ConfDir>>

\* A clone of the container, with its probe, copies the configuration.
Clone(c) == [c EXCEPT !.name = CloneName, !.mounts = Append(@, SourceDir)]

\* A second init container adds the agent to it.
Attach(config) ==
    [name |-> AttachName, agent |-> "apache",
     env |-> <<Var("OTEL_APACHE_AGENT_CONF", config), FieldRef("APACHE_SERVICE_INSTANCE_ID")>>,
     mounts |-> <<AgentDir, SourceDir>>, probe |-> FALSE, ports |-> {}]

\* isApacheInitContainerMissing
isApacheInitContainerMissing(pod, name) == \A x \in Range(pod.inits) : x.name # name

\* The first part of injectApacheHttpdagent, for the first container only.
AddClone(inst, pod, i) ==
    LET c == ApacheContainer(inst, pod, i) IN
    IF ~isApacheInitContainerMissing(pod, CloneName) THEN [pod EXCEPT !.containers[i] = c]
    ELSE [pod EXCEPT !.containers[i] = [c EXCEPT !.mounts = ApacheMounts(@)],
                     !.inits = Append(@, Clone(c)),
                     !.volumes = Append(@, "otel-apache-conf-dir")]

\* The second part.
AddAttach(pod, config) ==
    IF ~isApacheInitContainerMissing(pod, AttachName) THEN pod
    ELSE [pod EXCEPT !.inits = Append(@, Attach(config)),
                     !.volumes = Append(@, "otel-apache-agent")]

injectApacheHttpdagent(inst, pod, i, res) ==
    AddAttach(AddClone(inst, pod, i), getApacheOtelConfig(inst, pod, i, res))

-----------------------------------------------------------------------------
(* The mutator.                                                            *)

\* The part of inject for Go: without the path of the executable, all is taken back.
injectGo(inst, pod, found) ==
    LET r == injectGoSDK(inst, pod)
        n == Len(r.pod.containers)
        p == Configure(inst, r.pod, n, 1, found)
    IN  IF r.ok /\ Has(p.containers[n].env, "OTEL_GO_AUTO_TARGET_EXE") THEN p ELSE pod

\* The agents that are files, in container i.
injectFilesAgent(lang, inst, pod, i) ==
    CASE lang = "java"   -> injectJavaagent(inst, pod, i)
      [] lang = "nodejs" -> injectNodeJSSDK(inst, pod, i)
      [] lang = "python" -> injectPythonSDK(inst, pod, i)
      [] lang = "dotnet" -> injectDotNetSDK(inst, pod, i)

\* The part of inject for one of them: without the agent, nothing is configured.
injectWithFiles(lang, inst, pod, i, found) ==
    LET r == injectFilesAgent(lang, inst, pod, i)
    IN  IF r.ok THEN Configure(inst, r.pod, i, i, found) ELSE pod

\* The part of inject for a language, in container i.
injectLanguage(lang, inst, pod, i, found) ==
    CASE lang = "go" -> injectGo(inst, pod, found)
      [] lang = "sdk" -> Configure(inst, pod, i, i, found)
      [] lang = "apache" ->
            Configure(inst, injectApacheHttpdagent(inst, pod, i,
                                createResourceMap(inst, pod, i, found)), i, i, found)
      [] OTHER -> injectWithFiles(lang, inst, pod, i, found)

\* The last container of that name, or the first of all.
Target(pod, name) ==
    LET named == {j \in DOMAIN pod.containers : pod.containers[j].name = name}
    IN  IF named = {} THEN 1 ELSE CHOOSE j \in named : \A k \in named : k <= j

\* A language is left out if there is no instance for it.
LanguageStep(lang, insts, pod, i, found) ==
    IF insts[lang] = Nil THEN pod ELSE injectLanguage(lang, insts[lang], pod, i, found)

Order == <<"java", "nodejs", "python", "dotnet", "go", "apache", "sdk">>

\* One language after the other, in the same container.
LanguageSteps(insts, pod, i, found) ==
    FoldLeft(LAMBDA p, lang : LanguageStep(lang, insts, p, i, found), pod, Order)

inject(insts, pod, name, found) ==
    IF pod.containers = <<>> THEN pod ELSE LanguageSteps(insts, pod, Target(pod, name), found)

\* The loop of Mutate over the names of containers.
InjectAll(insts, pod, names, found) ==
    FoldLeft(LAMBDA p, name : inject(insts, p, name, found), pod, names)

\* annotationValue
annotationValue(ns, pod) ==
    IF ns = "" \/ (pod # "" /\ (pod # "true" \/ ns = "false")) THEN pod ELSE ns

\* The value of the annotation with the names of containers, split at the commas.
ContainerNames(ns, pod) ==
    LET names == IF pod.containerNames = <<>> THEN ns.containerNames ELSE pod.containerNames
    IN  IF names = <<>> THEN <<"">> ELSE names

\* getInstrumentationInstance, selectInstrumentationInstanceFromNamespace: the
\* instances it may be, of which there has to be one.
Candidates(ns, pod, lang, instances, local) ==
    LET v == annotationValue(ns.annotations[lang], pod.annotations[lang])
        there == {n \in DOMAIN instances : instances[n] # Nil}
    IN  IF v = "true" THEN there \cap local ELSE there \cap {v}

Wanted(ns, pod, lang) ==
    annotationValue(ns.annotations[lang], pod.annotations[lang]) \notin {"", "false"}

\* Mutate: an instance that cannot be selected is an error, whatever the others are.
\* One for a language that is not enabled is not used.
instMutate(ns, pod, instances, local, found) ==
    LET langs == Language \cup {"sdk"}
        wanted == {l \in langs : Wanted(ns, pod, l)}
        insts == [l \in langs |->
                    IF l \notin wanted \/ l \notin Enabled \cup {"sdk"} THEN Nil
                    ELSE instances[CHOOSE n \in Candidates(ns, pod, l, instances, local) : TRUE]]
    IN  IF isAutoInstrumentationInjected(pod) THEN Result(TRUE, pod)
        ELSE IF \E l \in wanted : ~Single(Candidates(ns, pod, l, instances, local))
        THEN Result(FALSE, pod)
        ELSE IF \A l \in langs : insts[l] = Nil THEN Result(TRUE, pod)
        ELSE Result(TRUE, InjectAll(insts, pod, ContainerNames(ns, pod), found))

=============================================================================
