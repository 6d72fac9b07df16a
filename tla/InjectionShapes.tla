-------------------------- MODULE InjectionShapes ---------------------------
(***************************************************************************)
(* What Injection makes of a pod, in the words of the proofs: a loop is a  *)
(* function from its turns to what they have made, and a part is what it   *)
(* adds to an environment, a container or a pod and what it leaves alone.  *)
(***************************************************************************)
EXTENDS Injection

\* The variables are added one after the other.
AddRun(F, env, v, n) ==
    /\ F[0] = env /\ AddAllMissing(env, v) = F[n]
    /\ \A k \in 1..n : F[k] = AddMissing(F[k - 1], v[k])

\* The languages are injected one after the other.
FoldRun(F, insts, input, i, found, n) ==
    /\ F[0] = input /\ LanguageSteps(insts, input, i, found) = F[n]
    /\ \A k \in 1..n : F[k] = LanguageStep(Order[k], insts, F[k - 1], i, found)

\* The containers are instrumented one after the other.
InjectsRun(F, insts, input, v, found, n) ==
    /\ F[0] = input /\ InjectAll(insts, input, v, found) = F[n]
    /\ \A k \in 1..n : F[k] = inject(insts, F[k - 1], v[k], found)

IsVar(v) == DOMAIN v = {"name", "from", "value"}

\* The new environment is the old one, and what is added is of S.
Added(env, new, S) ==
    /\ IsEnv(new) /\ Len(env) <= Len(new)
    /\ \A i \in 1..Len(env) : new[i] = env[i]
    /\ \A i \in (Len(env) + 1)..Len(new) : new[i] \in S

\* Nothing, or a variable whose name was not there.
JustAdded(env, new, v) ==
    \/ new = env
    \/ /\ \A j \in 1..Len(env) : env[j].name # v.name
       /\ Len(new) = Len(env) + 1 /\ new[Len(env) + 1] = v

\* The variables that are the first of their names.
Firsts(v) ==
    {v[m] : m \in {n \in 1..Len(v) : \A j \in 1..(n - 1) : v[j].name # v[n].name}}

ORA == "OTEL_RESOURCE_ATTRIBUTES"

\* The variables of S are added, and the parts of W to the resource attributes, which
\* come last.
Configured(env, new, S, W) ==
    LET k == getIndexOfEnv(env, ORA)
        n == Len(new)
    IN  /\ IsEnv(new) /\ n # 0 /\ Len(env) <= n
        /\ k = 0 => /\ Len(env) < n /\ new[n] = Var(ORA, W)
                    /\ \A i \in 1..Len(env) : new[i] = env[i]
                    /\ \A i \in (Len(env) + 1)..(n - 1) : new[i] \in S
        /\ k # 0 => /\ new[n] = [env[k] EXCEPT !.value = @ \cup W]
                    /\ \A i \in 1..(k - 1) : new[i] = env[i]
                    /\ \A i \in (k + 1)..Len(env) : new[i - 1] = env[i]
                    /\ \A i \in Len(env)..(n - 1) : new[i] \in S

\* What was added before is there, before the resource attributes.
StillThere(env, a, new) ==
    \A i \in (Len(env) + 1)..Len(a) : \E j \in 1..(Len(new) - 1) : new[j] = a[i]

\* What the mutators leave alone.
Rest(p, q) ==
    /\ DOMAIN q = DOMAIN p /\ q.containerNames = p.containerNames /\ q.goExe = p.goExe
    /\ q.owner = p.owner /\ q.annotations = p.annotations /\ q.meta = p.meta

\* Container i is written.
Edit(p, q, i) ==
    /\ Rest(p, q) /\ q.shareProcessNamespace = p.shareProcessNamespace
    /\ q.containers = [j \in DOMAIN p.containers |-> q.containers[j]]
    /\ \A j \in DOMAIN p.containers : j # i => q.containers[j] = p.containers[j]

\* The environment of container i is written.
EnvSet(p, q, i, env) ==
    /\ Edit(p, q, i) /\ q.inits = p.inits /\ q.volumes = p.volumes
    /\ q.containers[i] = [p.containers[i] EXCEPT !.env = env]

\* One environment after the other.
Joined(env, r, new) ==
    /\ Added(env, new, Range(r)) /\ Len(new) = Len(env) + Len(r)
    /\ \A i \in 1..Len(r) : new[Len(env) + i] = r[i]

\* The variable is needed.
Needed(inst, res, d) ==
    d.key \notin DOMAIN res /\ (d.key = <<"pod", "uid">> => inst.addK8sUIDAttributes)

\* The variables that refer to the pod, and the others that are added.
FieldRefs(inst, res) == {FieldRef(d.var) : d \in {x \in Range(Downward) : Needed(inst, res, x)}}

Settings(inst, input, app, res) ==
    {Var("OTEL_SERVICE_NAME", {<<"", "", chooseServiceName(input, res, app)>>}),
     Var("OTEL_EXPORTER_OTLP_ENDPOINT", {<<"", "", inst.endpoint>>}),
     Var("OTEL_PROPAGATORS", inst.propagators),
     Var("OTEL_TRACES_SAMPLER", {<<"", "", inst.sampler>>}),
     Var("OTEL_TRACES_SAMPLER_ARG", {<<"", "", inst.samplerArgument>>})}

\* The names that are added, but for the resource attributes.
SettingNames ==
    {"OTEL_SERVICE_NAME", "OTEL_EXPORTER_OTLP_ENDPOINT", "OTEL_PROPAGATORS",
     "OTEL_TRACES_SAMPLER", "OTEL_TRACES_SAMPLER_ARG",
     "OTEL_RESOURCE_ATTRIBUTES_POD_NAME", "OTEL_RESOURCE_ATTRIBUTES_POD_UID",
     "OTEL_RESOURCE_ATTRIBUTES_NODE_NAME"}

Attributes(inst, res) ==
    resourceMapToStr(Over(res, References({d \in Range(Downward) : Needed(inst, res, d)})))

\* The environment with the variables of the instance, what is known of the pod then,
\* and the environment that Configure makes of these.
Base(inst, p, agent) == AddAllMissing(p.containers[agent].env, inst.env)

Known(inst, p, agent, app, found) ==
    createResourceMap(inst, injectCommonEnvVar(inst, p, agent), app, found)

FullEnv(inst, p, agent, app, found) ==
    CommonEnv(inst, injectCommonEnvVar(inst, p, agent), Base(inst, p, agent), app,
              Known(inst, p, agent, app, found))

Kept(c, d) == d.name = c.name /\ d.agent = c.agent /\ d.probe = c.probe /\ d.ports = c.ports

\* Nothing of the agent of Go but the container.
SameHost(p, q) ==
    /\ q.shareProcessNamespace = p.shareProcessNamespace
    /\ "kernel-debug" \in Range(q.volumes) => "kernel-debug" \in Range(p.volumes)

\* The containers stay, and those that are added are the agent of Go: without it,
\* nothing else of it is there.
Grown(p, q) ==
    /\ IsPod(q) /\ Rest(p, q) /\ Len(p.containers) <= Len(q.containers)
    /\ \A i \in 1..Len(p.containers) : Kept(p.containers[i], q.containers[i])
    /\ \A i \in (Len(p.containers) + 1)..Len(q.containers) :
          q.containers[i].name = AutoInstrumentation /\ q.containers[i].agent = "go"
    /\ SameHost(p, q) \/ \E i \in 1..Len(q.containers) : q.containers[i].agent = "go"

\* An instance, as far as the mutator looks at it.
IsInst(inst) == IsEnv(inst.env) /\ \A l \in Language : IsEnv(inst.langEnv[l])

\* The variable with the option that loads the agent.
OptionName(lang) ==
    IF lang = "java" THEN "JAVA_TOOL_OPTIONS"
    ELSE IF lang = "nodejs" THEN "NODE_OPTIONS"
    ELSE IF lang = "python" THEN "PYTHONPATH" ELSE "DOTNET_STARTUP_HOOKS"

PythonVars ==
    {Var("OTEL_TRACES_EXPORTER", {<<"", "", "otlp">>}),
     Var("OTEL_EXPORTER_OTLP_TRACES_PROTOCOL", {<<"", "", "http/protobuf">>}),
     Var("OTEL_METRICS_EXPORTER", {<<"", "", "otlp">>}),
     Var("OTEL_EXPORTER_OTLP_METRICS_PROTOCOL", {<<"", "", "http/protobuf">>})}

\* The other variables that come with an agent.
Extra(lang) ==
    IF lang = "python" THEN PythonVars
    ELSE IF lang = "dotnet" THEN {AgentOption("CORECLR_PROFILER", "dotnet"),
                                  AgentOption("OTEL_DOTNET_AUTO_HOME", "dotnet")}
    ELSE {}

Declines(lang, inst, env) ==
    \/ ~validateContainerEnv(env, {OptionName(lang)})
    \/ /\ lang = "dotnet"
       /\ Has(env, "OTEL_DOTNET_AUTO_HOME") \/ Has(inst.langEnv["dotnet"], "OTEL_DOTNET_AUTO_HOME")

\* The variables of the instance, the option, and the other variables.
FilesShape(lang, inst, env, new) ==
    \E x, y : /\ Added(env, x, Firsts(inst.langEnv[lang]) \cup Extra(lang))
              /\ y = Concat(x, AgentOption(OptionName(lang), lang))
              /\ Added(y, new, Extra(lang))

Injects(lang, inst, p, i, found, q) ==
    \E env : /\ FilesShape(lang, inst, p.containers[i].env, env)
             /\ q = Configure(inst, InjectFiles(lang, p, i, env), i, i, found)

\* The variables that come with the agent of Python.
PythonEnv ==
    <<Var("OTEL_TRACES_EXPORTER", {<<"", "", "otlp">>}),
      Var("OTEL_EXPORTER_OTLP_TRACES_PROTOCOL", {<<"", "", "http/protobuf">>}),
      Var("OTEL_METRICS_EXPORTER", {<<"", "", "otlp">>}),
      Var("OTEL_EXPORTER_OTLP_METRICS_PROTOCOL", {<<"", "", "http/protobuf">>})>>

\* Container i gets the mount, and the pod the volume and the init container.
FilesSet(lang, p, q, i, env) ==
    /\ Edit(p, q, i)
    /\ q.containers[i] = [p.containers[i] EXCEPT !.env = env,
                             !.mounts = Append(@, "/otel-auto-instrumentation")]
    /\ IF isInitContainerMissing(p)
       THEN /\ q.volumes = Append(p.volumes, AutoInstrumentation)
            /\ q.inits = Append(p.inits, InitContainer(lang))
       ELSE q.volumes = p.volumes /\ q.inits = p.inits

\* A variable of the environment has the name.
Defines(env, name) == \E i \in 1..Len(env) : env[i].name = name

EXE == "OTEL_GO_AUTO_TARGET_EXE"

GoExe(p) == IF p.goExe THEN <<Var(EXE, {})>> ELSE <<>>

GoEnv(inst, p) == AddAllMissing(GoExe(p), inst.langEnv["go"])

GoAgent(inst, p) ==
    [name |-> AutoInstrumentation, agent |-> "go", env |-> GoEnv(inst, p),
     mounts |-> <<"/sys/kernel/debug">>, probe |-> FALSE, ports |-> {}]

GoPod(inst, p) ==
    [p EXCEPT !.shareProcessNamespace = "true", !.containers = Append(@, GoAgent(inst, p)),
              !.volumes = Append(@, "kernel-debug")]

\* The executable is known.
GoReady(inst, p) ==
    LET env == AddAllMissing(GoEnv(inst, p), inst.env)
    IN  \E j \in 1..Len(env) : env[j].name = EXE

GoDeclines(inst, p) ==
    p.shareProcessNamespace = "false" \/ Len(p.containerNames) > 1 \/ ~GoReady(inst, p)

ApacheEnv(inst, p, i) == AddAllMissing(p.containers[i].env, inst.langEnv["apache"])

\* Container i gets the variables and perhaps the mounts, and the pod its init containers
\* and volumes, as far as they are missing.
ApacheSet(inst, p, q, i, config) ==
    LET c == ApacheContainer(inst, p, i) IN
    /\ Edit(p, q, i) /\ IsSeq(q.inits) /\ IsSeq(q.volumes)
    /\ q.containers[i] = c \/ q.containers[i] = [c EXCEPT !.mounts = ApacheMounts(@)]
    /\ Range(p.inits) \subseteq Range(q.inits)
    /\ Range(q.inits) \subseteq Range(p.inits) \cup {Clone(c), Attach(config)}
    /\ Range(p.volumes) \subseteq Range(q.volumes)
    /\ Range(q.volumes) \subseteq Range(p.volumes) \cup {"otel-apache-conf-dir", "otel-apache-agent"}

\* The same, for the seven of them.
LanguagesRun(G, insts, p, i, found) ==
    /\ G[0] = p
    /\ \A k \in 1..7 : G[k] = LanguageStep(Order[k], insts, G[k - 1], i, found)

InstsOK(insts) == \A l \in Language \cup {"sdk"} : insts[l] = Nil \/ IsInst(insts[l])

\* All steps of the loop one after the other, seven for each name.
StepsRun(H, T, insts, p, v, found, n) ==
    /\ H[0] = p /\ InjectAll(insts, p, v, found) = H[7 * n]
    /\ \A m \in 0..(7 * n) : Grown(p, H[m])
    /\ \A k \in 1..n : T[k] = Target(H[7 * (k - 1)], v[k])
    /\ \A k \in 1..n, j \in 1..7 :
          /\ T[k] \in 1..Len(H[7 * (k - 1) + j - 1].containers)
          /\ H[7 * (k - 1) + j]
                = LanguageStep(Order[j], insts, H[7 * (k - 1) + j - 1], T[k], found)

=============================================================================
