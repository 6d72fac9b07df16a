---------------------------- MODULE UpgradeSteps ----------------------------
(***************************************************************************)
(* The upgrade of one collector instance (pkg/collector/upgrade): one      *)
(* operator for each step from a version to the next, and ManagedInstance, *)
(* which takes them in order.                                              *)
(*                                                                         *)
(* A configuration is the set of its settings, named by their paths; a     *)
(* component without a value is the setting "<path>.null".  A value that   *)
(* is neither a map nor null is left out.  No text at all is the empty     *)
(* set; a text without settings is {"{}"}.                                 *)
(*                                                                         *)
(* The result of a step is the spec it returns, whether it returns an      *)
(* error, and how many events it records: a set of numbers, because it     *)
(* ranges over Go maps.                                                    *)
(*                                                                         *)
(* Version i is the one of the i-th step, or one between it and the next.  *)
(***************************************************************************)
EXTENDS Integers, FiniteSets

\* The sections of a configuration, by the settings they may have.
Receivers ==
    {"receivers.otlp.grpc", "receivers.otlp.grpc.null", "receivers.otlp.grpc.tls_settings",
     "receivers.otlp.grpc.tls", "receivers.otlp.cors_allowed_origins",
     "receivers.otlp.cors.allowed_origins", "receivers.otlp.cors.max_age",
     "receivers.influxdb.null", "receivers.influxdb/2.metrics_schema",
     "receivers.httpd", "receivers.apache", "receivers.jaeger.remote_sampling",
     "receivers.prometheus", "receivers.prometheus.config"}

Processors ==
    {"processors.queued_retry", "processors.resource.type", "processors.resource.labels",
     "processors.resource.attributes", "processors.resource.null",
     "processors.memory_limiter.ballast_size_mib",
     "processors.attributes.text_null", "processors.attributes.text"}

Exporters ==
    {"exporters.opencensus.endpoint", "exporters.opencensus.reconnection_delay",
     "exporters.opencensus/2.reconnection_delay", "exporters.opencensus.null",
     "exporters.otlp.endpoint", "exporters.otlp.insecure", "exporters.otlp.tls.insecure",
     "exporters.otlp.null"}

\* The port of health_check is a number or a text; its endpoint a host, a host with a
\* port, or neither.
Ports == {"extensions.health_check.port", "extensions.health_check.port_text"}

Endpoints ==
    {"extensions.health_check.host", "extensions.health_check.endpoint",
     "extensions.health_check.malformed_endpoint"}

Extensions == Ports \cup Endpoints \cup {"extensions.health_check.null"}

Pipelines ==
    {"service.pipelines.metrics.httpd", "service.pipelines.metrics.apache",
     "service.pipelines.traces"}

Telemetry ==
    {"service.telemetry.logs.level", "service.telemetry.logs.development",
     "service.telemetry.metrics.address", "service.telemetry.metrics.level"}

Settings ==
    Receivers \cup Processors \cup Exporters \cup Extensions \cup Pipelines \cup Telemetry
        \cup {"unparsable", "{}"}

Args ==
    {"--new-metrics", "--legacy-metrics", "--log-level", "--log-profile",
     "--metrics-addr", "--metrics-level"}

-----------------------------------------------------------------------------
(* Results.                                                                *)

Result(ok, s, events) == [ok |-> ok, spec |-> s, events |-> events]

Unchanged(s) == Result(TRUE, s, {0})

Failed(s, events) == Result(FALSE, s, events)

\* yaml.Marshal: a configuration without settings is "{}", and not the empty text.
Marshal(config) == IF config = {} THEN {"{}"} ELSE config

Configured(s, config, events) ==
    Result(TRUE, [s EXCEPT !.config = Marshal(config)], {events})

\* One event for each of the settings that is there.
Count(config, settings) == Cardinality(config \cap settings)

\* The same, for those that are met before the step ends early.
CountsMet(config, settings) == {Cardinality(met) : met \in SUBSET (config \cap settings)}

Renamed(config, names) ==
    {IF c \in DOMAIN names THEN names[c] ELSE c : c \in config}

\* ConfigFromString, in a step that returns at once for an empty configuration.
ConfigFromString(s, result) ==
    IF "unparsable" \in s.config THEN Failed(s, {0}) ELSE result

Parsed(s, result) ==
    IF s.config = {} THEN Unchanged(s) ELSE ConfigFromString(s, result)

-----------------------------------------------------------------------------
(* The steps.                                                              *)

upgrade0_2_10(s) == Unchanged(s)

\* The arguments of HasPrefix are the wrong way round: of the exporters it finds
\* "opencensus" only, and not "opencensus/2".
upgrade0_9_0(s) ==
    LET c == s.config IN
    Parsed(s,
        IF c \cap Exporters = {} \/ "exporters.opencensus.null" \in c
        THEN Failed(s, {0})
        ELSE Configured(s, c \ {"exporters.opencensus.reconnection_delay"},
                IF c \cap {"exporters.opencensus.endpoint",
                           "exporters.opencensus.reconnection_delay"} = {} THEN 0 ELSE 1))

upgrade0_15_0(s) ==
    Result(TRUE, [s EXCEPT !.args = @ \ {"--new-metrics", "--legacy-metrics"}], {1})

\* Attributes that are there already are not of the type that is asked for, and
\* that is an error.
upgrade0_19_0(s) ==
    LET c == s.config
        moved == {"processors.resource.type", "processors.resource.labels"}
    IN  Parsed(s,
            IF c \cap Processors = {} THEN Unchanged(s)
            ELSE IF \/ "processors.resource.null" \in c
                    \/ "processors.resource.attributes" \in c /\ c \cap moved # {}
            THEN Failed(s, CountsMet(c, {"processors.queued_retry"}))
            ELSE Configured(s,
                    Renamed(c \ {"processors.queued_retry"},
                            [x \in moved |-> "processors.resource.attributes"]),
                    Count(c, moved \cup {"processors.queued_retry"})))

\* A port is replaced by an endpoint, and so is the endpoint that was there.
WithEndpoint(s, endpoint) ==
    IF s.config \cap Ports = {} THEN Configured(s, s.config, 0)
    ELSE Configured(s, (s.config \ (Ports \cup Endpoints)) \cup {endpoint}, 1)

\* The port is formatted with the verb for numbers.
upgrade0_24_0(s) ==
    Parsed(s,
        IF s.config \cap Extensions = {} THEN Unchanged(s)
        ELSE WithEndpoint(s, IF "extensions.health_check.port" \in s.config
                             THEN "extensions.health_check.endpoint"
                             ELSE "extensions.health_check.malformed_endpoint"))

\* One influxdb receiver without a value ends the step, with nothing saved.
upgrade0_31_0(s) ==
    LET schema == {"receivers.influxdb/2.metrics_schema"} IN
    Parsed(s,
        IF s.config \cap Receivers = {} THEN Unchanged(s)
        ELSE IF "receivers.influxdb.null" \in s.config
        THEN Result(TRUE, s, CountsMet(s.config, schema))
        ELSE Configured(s, s.config \ schema, Count(s.config, schema)))

\* What a repeated step does to the tls section of an exporter.
ExporterTLS == {"exporters.otlp.tls.insecure"}

\* A receiver or an exporter without a value ends the step, with nothing saved.
\* Each key of an exporter sets its tls section to the keys moved so far, so what
\* the section had is lost; the new key may be visited too, and is an event then.
upgrade0_36_0(s) ==
    LET c == s.config
        settings == {"receivers.otlp.grpc.tls_settings"}
        keys == c \cap {"exporters.otlp.endpoint", "exporters.otlp.insecure",
                        "exporters.otlp.tls.insecure"}
        events == Count(c, settings) + Cardinality(keys)
        received == Renamed(c, [x \in settings |-> "receivers.otlp.grpc.tls"])
    IN  Parsed(s,
            IF \/ c \cap Receivers = {} \/ c \cap Exporters = {}
               \/ c \cap {"receivers.otlp.grpc.null", "exporters.otlp.null"} # {}
            THEN Result(TRUE, s, CountsMet(c, settings))
            ELSE Result(TRUE,
                    [s EXCEPT !.config = Marshal(
                        Renamed(received \ ExporterTLS,
                                [x \in {"exporters.otlp.insecure"} |->
                                    "exporters.otlp.tls.insecure"]))],
                    IF keys = {} \/ c \cap ExporterTLS # {}
                    THEN {events} ELSE {events, events + 1}))

\* The arguments among those of names become settings, unless there are some.
MoveArgs(s, names, section) ==
    LET found == s.args \cap DOMAIN names
        dropped == [s EXCEPT !.args = @ \ found]
    IN  IF found = {} THEN Unchanged(s)
        ELSE IF "unparsable" \in s.config THEN Failed(dropped, {0})
        ELSE Configured(dropped,
                IF s.config \cap section # {} THEN s.config
                ELSE (s.config \ {"{}"}) \cup {names[a] : a \in found}, 1)

upgrade0_38_0(s) ==
    MoveArgs(s, [a \in {"--log-level", "--log-profile"} |->
                    IF a = "--log-level" THEN "service.telemetry.logs.level"
                    ELSE "service.telemetry.logs.development"],
             {"service.telemetry.logs.level", "service.telemetry.logs.development"})

\* updateConfig cuts " null" out of the text, wherever it is.
updateConfig(config) ==
    Renamed(config, [x \in {"processors.attributes.text_null"} |->
                        "processors.attributes.text"])

\* A receiver httpd is renamed when there are pipelines to rename it in too.  The empty
\* text is parsed like any other, here and in 0.41.0, and becomes "{}".
upgrade0_39_0(s) ==
    LET c == updateConfig(s.config \ {"processors.memory_limiter.ballast_size_mib"})
        ballast == Count(s.config, {"processors.memory_limiter.ballast_size_mib"})
        httpd == [x \in {"receivers.httpd", "service.pipelines.metrics.httpd"} |->
                    IF x = "receivers.httpd" THEN "receivers.apache"
                    ELSE "service.pipelines.metrics.apache"]
    IN  ConfigFromString(s,
            IF "receivers.httpd" \in c /\ c \cap Pipelines # {}
            THEN Configured(s, Renamed(c, httpd),
                            ballast + Count(c, {"service.pipelines.metrics.httpd"}))
            ELSE Configured(s, c, ballast))

\* Mutant of upgrade0_41_0: the cors section is made anew in any case.
upgrade0_41_0_always(s) ==
    ConfigFromString(s,
        Configured(s, updateConfig(Renamed(s.config \ {"receivers.otlp.cors.allowed_origins"},
                                [x \in {"receivers.otlp.cors_allowed_origins"} |->
                                    "receivers.otlp.cors.allowed_origins"])), 0))

\* The cors section is made anew when there is something to move to it.
upgrade0_41_0(s) ==
    LET old == {"receivers.otlp.cors_allowed_origins"}
        cors == {"receivers.otlp.cors.allowed_origins", "receivers.otlp.cors.max_age"}
    IN  ConfigFromString(s,
            Configured(s,
                updateConfig(IF s.config \cap old = {} THEN s.config
                             ELSE Renamed(s.config \ cors, [x \in old |->
                                    "receivers.otlp.cors.allowed_origins"])),
                Count(s.config, old)))

upgrade0_43_0(s) ==
    MoveArgs(s, [a \in {"--metrics-addr", "--metrics-level"} |->
                    IF a = "--metrics-addr" THEN "service.telemetry.metrics.address"
                    ELSE "service.telemetry.metrics.level"],
             {"service.telemetry.metrics.address", "service.telemetry.metrics.level"})

\* The HorizontalPodAutoscaler of the instance is patched too; hpaPatched says
\* whether the calls for it succeed.
upgrade0_56_0(s, nil, hpaPatched) ==
    IF s.maxReplicas = nil THEN Unchanged(s)
    ELSE IF ~hpaPatched THEN Failed(s, {0})
    ELSE Result(TRUE, [s EXCEPT !.minReplicas = 1], {1})

\* The default configuration of the extension is an error here, other than in 0.24.0.
\* Host and port are formatted with the verb for texts: a number, or no host, gives no
\* endpoint.
upgrade0_57_2(s) ==
    Parsed(s,
        IF "extensions.health_check.null" \in s.config THEN Failed(s, {0})
        ELSE WithEndpoint(s,
                IF {"extensions.health_check.host", "extensions.health_check.port_text"}
                        \subseteq s.config
                THEN "extensions.health_check.endpoint"
                ELSE "extensions.health_check.malformed_endpoint"))

upgrade0_61_0(s) ==
    Parsed(s, IF "receivers.jaeger.remote_sampling" \in s.config
              THEN Failed(s, {1}) ELSE Unchanged(s))

-----------------------------------------------------------------------------
\* versions: the number of steps, and the step to version i.
Latest == 14

UpgradeTo(i, s, nil, hpaPatched) ==
    CASE i = 1  -> upgrade0_2_10(s)
      [] i = 2  -> upgrade0_9_0(s)
      [] i = 3  -> upgrade0_15_0(s)
      [] i = 4  -> upgrade0_19_0(s)
      [] i = 5  -> upgrade0_24_0(s)
      [] i = 6  -> upgrade0_31_0(s)
      [] i = 7  -> upgrade0_36_0(s)
      [] i = 8  -> upgrade0_38_0(s)
      [] i = 9  -> upgrade0_39_0(s)
      [] i = 10 -> upgrade0_41_0(s)
      [] i = 11 -> upgrade0_43_0(s)
      [] i = 12 -> upgrade0_56_0(s, nil, hpaPatched)
      [] i = 13 -> upgrade0_57_2(s)
      [] OTHER  -> upgrade0_61_0(s)

\* The version of an instance the reconciler has not seen, ""; the operator's own.
NoVersion == -1

Current == Latest + 2

\* What step i may make of an outcome of the steps before it.
After(i, r, nil, hpaPatched) ==
    LET t == UpgradeTo(i, r.spec, nil, hpaPatched) IN
    {Result(t.ok, t.spec, r.events + n) : n \in t.events}

\* The loop of ManagedInstance at step i, for an instance of version v: a step that is
\* not newer is passed over, and nothing follows one that failed.
Loop(i, v, outcomes, nil, hpaPatched) ==
    UNION {IF i <= v \/ ~r.ok THEN {r} ELSE After(i, r, nil, hpaPatched) : r \in outcomes}

\* ManagedInstance: the outcomes of the steps after version v, up to the first that
\* fails.  They differ in the number of events only.
ManagedInstance(s, v, nil, hpaPatched) ==
    LET To(i, outcomes) == Loop(i, v, outcomes, nil, hpaPatched) IN
    IF v = NoVersion \/ v > Latest THEN {Result(TRUE, s, 0)}
    ELSE To(14, To(13, To(12, To(11, To(10, To(9, To(8, To(7, To(6, To(5, To(4, To(3,
         To(2, To(1, {Result(TRUE, s, 0)}))))))))))))))

\* Mutant of VersionAfter: the latest step's own version counts as newer than it.
VersionAfterExclusive(v) == IF v = NoVersion \/ v >= Latest THEN v ELSE Current

\* The version of the instance after it: one newer than Latest stays as it is.
VersionAfter(v) == IF v = NoVersion \/ v > Latest THEN v ELSE Current

=============================================================================
