---------------------------- MODULE MCPodWebhook ----------------------------
(* PodWebhook for a handful of namespaces, collectors, instances and pods. *)
EXTENDS PodWebhook

Kinds == Language \cup {"sdk", "sidecar"}

Annotated(kinds, value) == [k \in Kinds |-> IF k \in kinds THEN value ELSE ""]

MCName == {"a", "b"}

MCNamespaces ==
    {[annotations |-> Annotated({}, ""), containerNames |-> <<>>],
     [annotations |-> Annotated({"java"}, "true"), containerNames |-> <<>>],
     [annotations |-> Annotated({"sidecar"}, "a"), containerNames |-> <<>>],
     [annotations |-> Annotated({"sidecar"}, "false"), containerNames |-> <<"app", "web">>]}

-----------------------------------------------------------------------------
(* Collectors.                                                             *)

NoSettings == [endpoint |-> Nil, listen_address |-> Nil, protocols |-> <<>>]
Protocols(p) == [NoSettings EXCEPT !.protocols = p]

Config ==
    [ok |-> TRUE,
     receivers |-> (<<"otlp", "">> :> Protocols([grpc |-> Nil, http |-> 4999]))
                       @@ (<<"jaeger", "custom">> :> Protocols([thrift_http |-> Nil, thrift_binary |-> 0]))
                       @@ (<<"jaeger", "_">> :> Protocols([grpc |-> Nil]))
                       @@ (<<"zipkin", "">> :> NoSettings)
                       @@ (<<"statsd", "_">> :> NoSettings)
                       @@ (<<"prometheus", "">> :> [NoSettings EXCEPT !.endpoint = 9090])
                       @@ (<<"syslog", "">> :> Protocols([tcp |-> 5140, udp |-> 5141]))
                       @@ (<<"tcplog", "">> :> [NoSettings EXCEPT !.listen_address = 5142])
                       @@ (<<"udplog", "x">> :> [NoSettings EXCEPT !.listen_address = 5143]),
     pipelines |-> [traces |-> {<<"otlp", "">>, <<"jaeger", "custom">>, <<"jaeger", "_">>},
                    metrics |-> {<<"statsd", "_">>, <<"prometheus", "">>},
                    logs |-> {<<"syslog", "">>, <<"tcplog", "">>, <<"udplog", "x">>}],
     extensions |-> [health_check |-> [path |-> Nil, endpoint |-> 13134]],
     healthChecks |-> <<"health_check">>, metrics |-> 8889]

Collector ==
    [mode |-> "sidecar", config |-> Config, ports |-> {Port("extra", 1234, "TCP", "")},
     env |-> <<>>, mounts |-> <<"/data">>, volumes |-> <<"data">>]

\* One with an empty pipeline.
IllFormed ==
    [Collector EXCEPT !.volumes = <<>>, !.mounts = <<>>,
                      !.env = <<Var("OTEL_RESOURCE_ATTRIBUTES", {<<"user", "attr", "x">>})>>,
                      !.config = [Config EXCEPT !.pipelines.metrics = {}, !.healthChecks = Nil]]

MCCollectors ==
    {Collector, IllFormed,
     [Collector EXCEPT !.mode = "deployment"],
     [Collector EXCEPT !.config.metrics = 0],
     [Collector EXCEPT !.config.receivers[<<"syslog", "">>] = Protocols([tcp |-> Scalar])]}

MCInitialCollectors ==
    {[n \in MCName |-> Nil], [n \in MCName |-> Collector]}
        \cup {[n \in MCName |-> IF n = "a" THEN c ELSE Nil] : c \in {Collector, IllFormed}}

-----------------------------------------------------------------------------
(* Instrumentation instances.                                              *)

SimpleInstance ==
    [image |-> [l \in Language |-> NoImage], annotation |-> [l \in Language |-> NoImage],
     managedBy |-> "", env |-> <<>>, langEnv |-> [l \in Language |-> <<>>],
     endpoint |-> "", attributes |-> <<>>, addK8sUIDAttributes |-> FALSE,
     propagators |-> {}, sampler |-> "", samplerArgument |-> ""]

FullInstance ==
    [SimpleInstance EXCEPT
        !.image["java"] = <<"user", 1>>,
        !.env = <<Var("OTEL_PROPAGATORS", {<<"", "", "b3">>}),
                  Var("OTEL_RESOURCE_ATTRIBUTES", {<<"team", "", "inst">>, <<"pod", "name", "inst">>})>>,
        !.langEnv["go"] = <<Var("OTEL_GO_AUTO_TARGET_EXE", {})>>,
        !.endpoint = "collector:4317",
        !.attributes = (<<"user", "attr">> :> "inst") @@ (<<"team", "">> :> "all"),
        !.addK8sUIDAttributes = TRUE, !.propagators = {<<"", "", "w3c">>},
        !.sampler = "traceidratio", !.samplerArgument = "0.5"]

MCInstances ==
    {SimpleInstance, FullInstance,
     [SimpleInstance EXCEPT !.env = <<FieldRef("OTEL_RESOURCE_ATTRIBUTES")>>, !.managedBy = "user"],
     [SimpleInstance EXCEPT !.langEnv["java"] = <<FieldRef("OTEL_RESOURCE_ATTRIBUTES")>>],
     [SimpleInstance EXCEPT !.langEnv["python"] = <<FieldRef("PYTHONPATH")>>],
     [SimpleInstance EXCEPT !.sampler = "traceidratio", !.samplerArgument = "many"]}

MCInitialInstances ==
    {[n \in MCName |-> Nil], [n \in MCName |-> SimpleInstance]}
        \cup {[n \in MCName |-> IF n = "a" THEN i ELSE Nil] : i \in MCInstances}

-----------------------------------------------------------------------------
(* Pods.                                                                   *)

App(name) ==
    [name |-> name, agent |-> Nil, env |-> <<>>, mounts |-> <<>>, probe |-> FALSE, ports |-> {}]

Pod ==
    [containers |-> <<App("app"), App("web")>>, inits |-> <<>>, volumes |-> <<>>,
     shareProcessNamespace |-> "", containerNames |-> <<>>, goExe |-> FALSE, owner |-> "",
     annotations |-> Annotated({}, ""),
     meta |-> [key \in {<<"pod", "name">>, <<"pod", "uid">>, <<"node", "name">>} |-> ""]]

ConfExtra == "/usr/local/apache2/conf/extra"

MCConfPaths == {ConfDir, ConfExtra}

WithEnv(var) == [Pod EXCEPT !.containers[1].env = <<var, Var("OTEL_TRACES_SAMPLER_ARG", {})>>]

Pods0 ==
    {Pod,
     WithEnv(Var("OTEL_RESOURCE_ATTRIBUTES",
                 {<<"user", "attr", "pod">>, <<"deployment", "name", "mine">>})),
     WithEnv(Var("OTEL_RESOURCE_ATTRIBUTES",
                 {<<"pod", "name", "mine">>, <<"user", "attr", "a=b">>})),
     WithEnv(FieldRef("OTEL_RESOURCE_ATTRIBUTES")),
     WithEnv(FieldRef("JAVA_TOOL_OPTIONS")),
     WithEnv(Var("PYTHONPATH", {<<"user", "", "lib">>})),
     [WithEnv(Var("OTEL_DOTNET_AUTO_HOME", {})) EXCEPT !.inits = <<App(CloneName)>>],
     [Pod EXCEPT !.containers[1].probe = TRUE,
                 !.containers[1].mounts = <<ConfDir>>],
     [Pod EXCEPT !.containers[1].mounts = <<"/data", ConfExtra>>],
     [Pod EXCEPT !.containers[1].mounts = <<ConfExtra, ConfDir>>],
     [Pod EXCEPT !.containers[1].mounts = <<"/otel-auto-instrumentation">>, !.goExe = TRUE,
                 !.volumes = <<"kernel-debug">>],
     [Pod EXCEPT !.containerNames = <<"app", "web">>, !.owner = "replicaset"],
     [Pod EXCEPT !.containerNames = <<"web">>, !.goExe = TRUE,
                 !.meta = (<<"pod", "name">> :> "p") @@ @],
     [Pod EXCEPT !.containerNames = <<"app", "nosuch">>],
     [Pod EXCEPT !.shareProcessNamespace = "false", !.goExe = TRUE],
     [Pod EXCEPT !.goExe = TRUE],
     [Pod EXCEPT !.goExe = TRUE, !.owner = "job", !.volumes = <<"data">>],
     [Pod EXCEPT !.containers[1].env = <<FieldRef("JAVA_TOOL_OPTIONS")>>,
                 !.containers[2].env = <<FieldRef("PYTHONPATH")>>,
                 !.containerNames = <<"app", "web">>],
     [Pod EXCEPT !.containers = <<App(ContainerName), @[1]>>]}

MCRequests ==
    {[p EXCEPT !.annotations = Annotated(kinds, "true")] : p \in Pods0,
         kinds \in {{}, {"java"}, {"nodejs"}, {"python"}, {"dotnet"}, {"go"}, {"apache"}, {"sdk"}, {"apache", "sdk"},
                    {"java", "python"}, {"java", "go"}, {"java", "sdk"}, {"go", "sdk"}}}
    \cup {[Pod EXCEPT !.annotations = Annotated({"sidecar", "java"}, value)] :
              value \in {"true", "b", "false"}}
    \cup {[Pod EXCEPT !.annotations = Annotated({"sidecar", "java"}, "a"),
                      !.containerNames = <<ContainerName>>],
          [Pod EXCEPT !.annotations = Annotated({"sidecar", "java"}, "false"),
                      !.containers = <<App(ContainerName)>>],
          [Pod EXCEPT !.annotations = Annotated({"sidecar", "java"}, "false"),
                      !.containers = <<App(ContainerName),
                                       [App("app") EXCEPT !.env = <<FieldRef("OTEL_RESOURCE_ATTRIBUTES")>>]>>]}

\* A few simple pods leave room for another change.
SimplePods ==
    {[Pod EXCEPT !.goExe = goExe, !.annotations = Annotated(kinds, "true")] :
        goExe \in BOOLEAN, kinds \in {{}, {"java"}, {"sidecar", "java"}, {"go"}}}

MCCost(p) == IF p \in SimplePods THEN 1 ELSE 2
=============================================================================
