---------------------------- MODULE ReceiverPorts ---------------------------
(***************************************************************************)
(* The ports and the probe that the operator reads out of a collector's    *)
(* configuration (pkg/collector/adapters, pkg/collector/parser).           *)
(*                                                                         *)
(* A configuration is a record: whether it parses, its receivers, its      *)
(* pipelines, its extensions, the extensions of its service and the port   *)
(* of its metrics.  What is absent or has not the right type is Nil.  The  *)
(* name of a receiver is a pair, <<"jaeger", "custom">> for jaeger/custom. *)
(* A receiver is its endpoint, its listen_address and the endpoints of its *)
(* protocols, or the listen_address of its sections tcp and udp; an        *)
(* endpoint is its port, 0 if it has none.                                 *)
(***************************************************************************)
EXTENDS Pods

-----------------------------------------------------------------------------
(* The names of ports.                                                     *)

\* The parts of names with underscores, which are replaced.
Dashes == [splunk_hec |-> "splunk-hec", thrift_http |-> "thrift-http",
           thrift_compact |-> "thrift-compact", thrift_binary |-> "thrift-binary"]
              @@ ("_" :> "-")

Dashed(s) == IF s \in DOMAIN Dashes THEN Dashes[s] ELSE s

Last1(s) == SubSeq(s, Len(s), Len(s))

\* portName, for a receiver and what is added to its name: a label does not end in a
\* dash.
portName(receiver, protocol, port) ==
    LET name == Dashed(receiver[1])
                    \o (IF receiver[2] = "" THEN "" ELSE "-" \o Dashed(receiver[2]))
                    \o (IF protocol = "" THEN "" ELSE "-" \o Dashed(protocol))
    IN  IF Last1(name) = "-" THEN "port-" \o ToString(port) ELSE name

Port(name, port, protocol, app) ==
    [name |-> name, port |-> port, protocol |-> protocol, app |-> app]

\* Truncate: the name of a port has no more than maxPortLen characters.
Truncate(name, max) == IF Len(name) > max THEN SubSeq(name, 1, max) ELSE name

\* IsValidPortName, IsValidPortNum
IsValidPort(p) ==
    /\ Last1(p.name) # "-"
    /\ \A i \in 1..(Len(p.name) - 1) : SubSeq(p.name, i, i + 1) # "--"
    /\ p.port \in PortNumber

-----------------------------------------------------------------------------
(* The parsers.                                                            *)

\* portFromEndpoint
portFromEndpoint(endpoint) == IF endpoint = 0 THEN Nil ELSE endpoint

\* A section that is neither empty nor a map.
Scalar == -1

\* The section of a syslog receiver with its address, Nil if there is none.
Section(settings) ==
    CASE "udp" \in DOMAIN settings.protocols -> settings.protocols["udp"]
      [] "udp" \notin DOMAIN settings.protocols /\ "tcp" \in DOMAIN settings.protocols ->
            settings.protocols["tcp"]
      [] OTHER -> Nil

\* The type assertion on a section fails.
Panics(receiver, settings) == receiver = <<"syslog", "">> /\ Section(settings) = Scalar

\* The address of a receiver, by its plain name: the scrapers listen to nothing.
Address(receiver, settings) ==
    CASE receiver = <<"syslog", "">> -> Section(settings)
      [] receiver \in {<<"tcplog", "">>, <<"udplog", "">>} -> settings.listen_address
      [] receiver \in {<<"kubeletstats", "">>, <<"prometheus", "">>} -> Nil
      [] OTHER -> settings.endpoint

\* singlePortFromConfigEndpoint, for an address or for the endpoint of a protocol.
singlePortFromConfigEndpoint(endpoint) ==
    IF endpoint = Nil THEN Nil ELSE portFromEndpoint(endpoint)

Parser(port, protocol, app) == [port |-> port, protocol |-> protocol, app |-> app]

NewGenericReceiverParser == Parser(0, "", "")
NewAWSXrayReceiverParser == Parser(2000, "", "")
NewCarbonReceiverParser == Parser(2003, "", "")
NewCollectdReceiverParser == Parser(8081, "", "")
NewFluentForwardReceiverParser == Parser(8006, "", "")
NewInfluxdbReceiverParser == Parser(8086, "", "")
NewOpenCensusReceiverParser == Parser(55678, "", "")
NewSAPMReceiverParser == Parser(7276, "", "")
NewSignalFxReceiverParser == Parser(9943, "", "")
NewSplunkHecReceiverParser == Parser(8088, "", "")
NewStatsdReceiverParser == Parser(8125, "UDP", "")
NewWavefrontReceiverParser == Parser(2003, "", "")
NewZipkinScribeReceiverParser == Parser(9410, "", "")
NewZipkinReceiverParser == Parser(9411, "TCP", "http")

registry ==
    [awsxray |-> NewAWSXrayReceiverParser, carbon |-> NewCarbonReceiverParser,
     collectd |-> NewCollectdReceiverParser, fluentforward |-> NewFluentForwardReceiverParser,
     influxdb |-> NewInfluxdbReceiverParser, opencensus |-> NewOpenCensusReceiverParser,
     sapm |-> NewSAPMReceiverParser, signalfx |-> NewSignalFxReceiverParser,
     splunk_hec |-> NewSplunkHecReceiverParser, statsd |-> NewStatsdReceiverParser,
     wavefront |-> NewWavefrontReceiverParser, zipkin |-> NewZipkinReceiverParser]
        @@ ("zipkin-scribe" :> NewZipkinScribeReceiverParser)

\* BuilderFor: by the type of the receiver.
BuilderFor(receiver) ==
    IF receiver[1] \in DOMAIN registry THEN registry[receiver[1]] ELSE NewGenericReceiverParser

\* Ports of a GenericReceiver
GenericPorts(receiver, settings) ==
    LET parser == BuilderFor(receiver)
        own == singlePortFromConfigEndpoint(Address(receiver, settings))
        port == IF own = Nil THEN parser.port ELSE own
    IN  IF port = 0 THEN {}
        ELSE {Port(portName(receiver, "", port), port, parser.protocol, parser.app)}

\* Ports of an OTLPReceiverParser: HTTP has two ports by default.
OTLPPorts(receiver, settings) ==
    UNION {LET own == singlePortFromConfigEndpoint(settings.protocols[p])
               port(suffix, number, protocol) ==
                   Port(portName(receiver, suffix, number), number, protocol, p)
           IN  IF own # Nil THEN {port(p, own, "TCP")}
               ELSE IF p = "grpc" THEN {port("grpc", 4317, "")}
               ELSE {port("http", 4318, ""), port("http-legacy", 55681, "")}
           : p \in DOMAIN settings.protocols \cap {"grpc", "http"}}

JaegerProtocols ==
    [grpc |-> Parser(14250, "TCP", "grpc"), thrift_http |-> Parser(14268, "TCP", "http"),
     thrift_compact |-> Parser(6831, "UDP", ""), thrift_binary |-> Parser(6832, "UDP", "")]

\* Ports of a JaegerReceiverParser
JaegerPorts(receiver, settings) ==
    {LET own == singlePortFromConfigEndpoint(settings.protocols[p])
         port == IF own = Nil THEN JaegerProtocols[p].port ELSE own
     IN  Port(portName(receiver, p, port), port, JaegerProtocols[p].protocol,
              JaegerProtocols[p].app)
     : p \in DOMAIN settings.protocols \cap DOMAIN JaegerProtocols}

\* For, and the Ports of what it returns.
Ports(receiver, settings) ==
    CASE receiver[1] = "otlp" -> OTLPPorts(receiver, settings)
      [] receiver[1] = "jaeger" -> JaegerPorts(receiver, settings)
      [] OTHER -> GenericPorts(receiver, settings)

-----------------------------------------------------------------------------
(* The adapters.  A panic is one of the results.                           *)

Panic == [panic |-> TRUE, found |-> FALSE, value |-> {}]
NotFound == [panic |-> FALSE, found |-> FALSE, value |-> {}]
Found(value) == [panic |-> FALSE, found |-> TRUE, value |-> value]

\* Mutant of GetEnabledReceivers: every receiver that is configured is enabled.
GetAllReceivers(config) ==
    {IF config.receivers = Nil \/ config.pipelines = Nil THEN NotFound
     ELSE Found(DOMAIN config.receivers)}

\* GetEnabledReceivers: what it may return, the pipelines being a map that is walked
\* in any order.  A pipeline is the set of its receivers, {Nil} if it is not a map.
\* One with an empty list sets the result to nil, to which the next one writes.
GetEnabledReceivers(config) ==
    LET pipelines == {config.pipelines[p] : p \in DOMAIN config.pipelines}
        broken == {Nil} \in pipelines
        empty == {} \in pipelines
        full == pipelines \ {{}, {Nil}}
    IN  IF config.receivers = Nil \/ config.pipelines = Nil THEN {NotFound}
        ELSE (IF empty /\ full # {} THEN {Panic} ELSE {})
                 \cup {IF empty \/ broken THEN NotFound ELSE Found(UNION full)}

\* ConfigToReceiverPorts
ConfigToReceiverPorts(config) ==
    {IF ~enabled.found THEN enabled
     ELSE LET served == DOMAIN config.receivers \cap enabled.value
          IN  IF \E r \in served : Panics(r, config.receivers[r]) THEN Panic
              ELSE Found(UNION {Ports(r, config.receivers[r]) : r \in served})
     : enabled \in GetEnabledReceivers(config)}

\* extractProbeConfigurationFromExtension: an endpoint is one with a single colon.
extractProbeConfigurationFromExtension(extension) ==
    [path |-> IF extension.path = Nil THEN "/" ELSE extension.path,
     port |-> IF extension.endpoint = Nil THEN 13133 ELSE extension.endpoint]

\* ConfigToContainerProbe: the first health check of the service that there is.
ConfigToContainerProbe(config) ==
    IF config.healthChecks = Nil \/ config.extensions = Nil THEN Nil
    ELSE LET there == SelectSeq(config.healthChecks,
                                LAMBDA name : name \in DOMAIN config.extensions)
         IN  IF there = <<>> THEN Nil
             ELSE extractProbeConfigurationFromExtension(config.extensions[there[1]])

=============================================================================
