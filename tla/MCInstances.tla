---------------------------- MODULE MCInstances -----------------------------
(***************************************************************************)
(* Instances for TLC.                                                      *)
(***************************************************************************)
EXTENDS Instances

CONSTANT k1

\* A spec that says nothing but its configuration.
Plain(config) ==
    [mode |-> "", upgradeStrategy |-> "", managedBy |-> "", replicas |-> Nil,
     minReplicas |-> Nil, maxReplicas |-> Nil, autoscaler |-> Nil,
     targetAllocator |-> [enabled |-> FALSE, replicas |-> Nil, limits |-> Nil,
                          requests |-> Nil],
     volumeClaimTemplates |-> FALSE, scheduling |-> {}, validPorts |-> TRUE,
     ingress |-> [type |-> "", termination |-> ""], probe |-> {},
     config |-> config, args |-> {}]

Old(spec, version) == [spec |-> Default(spec), version |-> version]

\* Instances of old operators: with deprecated settings; with deprecated arguments,
\* a text that ends in " null" and a port beside an endpoint; with an autoscaler and a
\* port beside a host; with no configuration; one that a step fails for; one that is
\* not to be upgraded; one that nothing changes for; and one that records more events
\* than the recorder holds.
MCOldInstances ==
    {Old(Plain({"receivers.otlp.cors_allowed_origins", "receivers.otlp.cors.max_age",
                "receivers.otlp.grpc.tls_settings", "exporters.otlp.insecure",
                "exporters.otlp.endpoint"}), 6),
     Old([Plain({"receivers.otlp.grpc.null", "processors.attributes.text_null",
                 "extensions.health_check.endpoint", "extensions.health_check.port"}) EXCEPT
            !.args = {"--log-level", "--metrics-addr"}], 7),
     [spec |-> [Default(Plain({"receivers.httpd", "service.pipelines.metrics.httpd",
                               "extensions.health_check.host",
                               "extensions.health_check.port_text"})) EXCEPT
                    !.maxReplicas = 3, !.minReplicas = 2],
      version |-> 8],
     Old(Plain({}), 0),
     Old(Plain({"receivers.jaeger.remote_sampling", "extensions.health_check.endpoint"}), 13),
     Old([Plain({"receivers.otlp.cors_allowed_origins"}) EXCEPT !.upgradeStrategy = "none"], 9),
     Old(Plain({"exporters.otlp.endpoint"}), Latest),
     Old([Plain({"exporters.opencensus.endpoint", "processors.queued_retry",
                 "processors.resource.type", "processors.resource.labels",
                 "extensions.health_check.port", "receivers.influxdb/2.metrics_schema",
                 "receivers.otlp.grpc.tls_settings", "exporters.otlp.insecure",
                 "receivers.httpd", "service.pipelines.metrics.httpd",
                 "processors.memory_limiter.ballast_size_mib"}) EXCEPT
            !.args = {"--log-level"}], 0)}

\* The replicas and the autoscaler, given in one of the two places or in both.
Autoscaling ==
    {[Plain({"receivers.otlp.grpc"}) EXCEPT
        !.replicas = n, !.minReplicas = min, !.maxReplicas = max, !.autoscaler = a] :
        n \in {Nil, 2}, min \in {Nil, 3}, max \in {Nil, 3},
        a \in {Nil} \cup
             {[EmptyAutoscaler EXCEPT !.minReplicas = amin, !.maxReplicas = amax,
                    !.cpu = target[1], !.memory = target[2],
                    !.behavior = {Nil}] :
                amin \in {Nil, 0, 4}, amax \in {Nil, 0, 3},
                target \in {<<Nil, Nil>>, <<Nil, 80>>}}}

\* What only the validation looks at.
Validated ==
    LET s == Plain({"receivers.prometheus", "receivers.prometheus.config"})
        Mode == {"", "sidecar", "statefulset"}
    IN  {[s EXCEPT !.mode = m, !.targetAllocator.enabled = e, !.volumeClaimTemplates = v] :
            m \in Mode, e \in BOOLEAN, v \in BOOLEAN}
        \cup {[s EXCEPT !.mode = m, !.scheduling = c] : m \in Mode, c \in {{}, {"affinity"}}}
        \cup {[s EXCEPT !.mode = m, !.ingress.type = i] : m \in Mode, i \in {"ingress", "route"}}
        \cup {[s EXCEPT !.probe = {<<"PeriodSeconds", n>>}] : n \in 0..1}

Ordinary ==
    {Plain({"receivers.otlp.grpc", "receivers.otlp.cors.allowed_origins"}),
     Plain({"receivers.otlp.cors_allowed_origins", "exporters.otlp.endpoint"})}

AllSpecs == Ordinary \cup Autoscaling \cup Validated

\* Of the many specs one is enough, and nothing else happens then.
MCUserSpecs(n) == IF n = 0 THEN AllSpecs ELSE Ordinary

MCCost(s) == IF s \in Ordinary THEN 1 ELSE MaxChanges

MCMessages ==
    {[hash |-> 1, config |-> [k \in {k1} |-> Plain({"receivers.otlp.grpc.tls"})],
      malformedKey |-> FALSE],
     [hash |-> 2, config |-> [k \in {} |-> Nil], malformedKey |-> FALSE],
     [hash |-> 3, config |-> [k \in {k1} |-> Nil], malformedKey |-> TRUE],
     [hash |-> 4, config |-> [k \in {k1} |-> Plain({"receivers.httpd"})],
      malformedKey |-> FALSE]}
=============================================================================
