-------------------------- MODULE CollectorWebhook --------------------------
(***************************************************************************)
(* The admission webhook of OpenTelemetryCollector                         *)
(* (apis/v1alpha1/opentelemetrycollector_webhook.go): what it fills in and *)
(* what it refuses; and the HorizontalPodAutoscaler that the operator      *)
(* builds from an instance that was let in.                                *)
(*                                                                         *)
(* A spec is a record; a pointer of Go is its value or Nil.  The           *)
(* collector's configuration is the set of its settings, each named by its *)
(* path, and what is only validated (a probe, the metrics, the windows of  *)
(* a behavior) is the set of the values that are given.                    *)
(***************************************************************************)
EXTENDS Integers

CONSTANTS
    Nil,         \* a nil pointer, an absent value
    RewriteGate  \* featuregate.EnableTargetAllocatorRewrite

\* A value, or what it defaults to.
Or(v, default) == IF v = Nil THEN default ELSE v

OrEmpty(v, default) == IF v = "" THEN default ELSE v

\* The types of the API, which its server has the schema of.
Number == Int \cup {Nil}

Autoscalers ==
    [minReplicas : Number, maxReplicas : Number, cpu : Number, memory : Number,
     behavior : SUBSET Number,
     metrics : SUBSET [type : STRING, target : STRING, value : Int]]

TargetAllocators ==
    LET Quantity == {Nil, "250Mi", "500Mi", "other"} IN
    [enabled : BOOLEAN, replicas : Number, limits : Quantity, requests : Quantity]

Ingresses ==
    [type : {"", "ingress", "route"},
     termination : {"", "insecure", "edge", "passthrough", "reencrypt"}]

Specs ==
    [mode : {"", "daemonset", "deployment", "sidecar", "statefulset"},
     upgradeStrategy : {"", "automatic", "none"},
     managedBy : {"", "opentelemetry-operator", "other"},
     replicas : Number, minReplicas : Number, maxReplicas : Number,
     autoscaler : Autoscalers \cup {Nil}, targetAllocator : TargetAllocators,
     volumeClaimTemplates : BOOLEAN, validPorts : BOOLEAN, ingress : Ingresses,
     scheduling : SUBSET {"tolerations", "priorityClassName", "affinity"},
     probe : SUBSET (STRING \X Int), config : SUBSET STRING, args : SUBSET STRING]

ASSUME NilAssumption == Nil \notin Int \cup Autoscalers

-----------------------------------------------------------------------------
(* Default.                                                                *)

\* The spec asks for an autoscaler, in the deprecated field or in the new one.
Autoscaled(s) ==
    s.maxReplicas # Nil \/ (s.autoscaler # Nil /\ s.autoscaler.maxReplicas # Nil)

\* &AutoscalerSpec{}
EmptyAutoscaler ==
    [minReplicas |-> Nil, maxReplicas |-> Nil, cpu |-> Nil, memory |-> Nil,
     behavior |-> {}, metrics |-> {}]

\* The autoscaler of a spec, with the deprecated fields moved to it.
DefaultAutoscaler(s) ==
    IF ~Autoscaled(s) THEN s.autoscaler
    ELSE LET a == Or(s.autoscaler, EmptyAutoscaler) IN
         [a EXCEPT !.maxReplicas = Or(@, s.maxReplicas),
                   !.minReplicas = Or(@, Or(s.minReplicas, Or(s.replicas, 1))),
                   !.cpu = IF a.memory = Nil THEN Or(@, 90) ELSE @]

DefaultTargetAllocator(t) ==
    IF ~t.enabled THEN t
    ELSE [t EXCEPT !.replicas = Or(@, 1), !.limits = Or(@, "500Mi"),
                   !.requests = Or(@, "250Mi")]

DefaultIngress(i) ==
    IF i.type = "route" THEN [i EXCEPT !.termination = OrEmpty(@, "edge")] ELSE i

\* Mutant of Default: the deprecated minimum is moved to the autoscaler, not copied.
DefaultMoves(s) ==
    [s EXCEPT !.mode = OrEmpty(@, "deployment"),
              !.upgradeStrategy = OrEmpty(@, "automatic"),
              !.managedBy = OrEmpty(@, "opentelemetry-operator"),
              !.replicas = Or(@, 1),
              !.minReplicas = Nil,
              !.targetAllocator = DefaultTargetAllocator(@),
              !.autoscaler = IF Autoscaled(s)
                             THEN [DefaultAutoscaler(s) EXCEPT
                                      !.minReplicas = Or(s.minReplicas, Or(s.replicas, 1))]
                             ELSE @,
              !.ingress = DefaultIngress(@)]

\* Default
Default(s) ==
    [s EXCEPT !.mode = OrEmpty(@, "deployment"),
              !.upgradeStrategy = OrEmpty(@, "automatic"),
              !.managedBy = OrEmpty(@, "opentelemetry-operator"),
              !.replicas = Or(@, 1),
              !.targetAllocator = DefaultTargetAllocator(@),
              !.autoscaler = DefaultAutoscaler(s),
              !.ingress = DefaultIngress(@)]

-----------------------------------------------------------------------------
(* validateCRDSpec.                                                        *)

\* ConfigToPromConfig: the receiver is there and has a value.
ConfigToPromConfig(config) ==
    "unparsable" \notin config /\ "receivers.prometheus" \in config

\* ValidatePromConfig, as it is called here: the target allocator is enabled.
ValidatePromConfig(config) ==
    \/ RewriteGate
    \/ config \cap {"receivers.prometheus.config", "receivers.prometheus.target_allocator"} # {}

\* What only some modes can have.
ModeFits(s) ==
    /\ s.mode # "statefulset" => ~s.volumeClaimTemplates
    /\ s.mode = "sidecar" =>
          s.scheduling \cap {"tolerations", "priorityClassName", "affinity"} = {}
    /\ s.targetAllocator.enabled => s.mode = "statefulset"

\* The values that are compared: one that is zero counts as not given.
MaxReplicas(s) ==
    IF s.autoscaler # Nil /\ Or(s.autoscaler.maxReplicas, 0) # 0
    THEN s.autoscaler.maxReplicas ELSE s.maxReplicas

MinReplicas(s) ==
    IF s.autoscaler # Nil /\ Or(s.autoscaler.minReplicas, 0) # 0
    THEN s.autoscaler.minReplicas ELSE Or(s.minReplicas, s.replicas)

\* Mutant of ReplicasFit: the minimum is not compared with the maximum.
ReplicasFitLoosely(s) ==
    LET max == MaxReplicas(s)
        min == MinReplicas(s)
    IN  /\ max >= 1
        /\ s.replicas # Nil => s.replicas <= max
        /\ min # Nil => min >= 1

ReplicasFit(s) ==
    LET max == MaxReplicas(s)
        min == MinReplicas(s)
    IN  /\ max >= 1
        /\ s.replicas # Nil => s.replicas <= max
        /\ min # Nil => min <= max /\ min >= 1

Percentage(v) == v # Nil => v \in 1..99

\* checkAutoscalerSpec
checkAutoscalerSpec(a) ==
    /\ \A window \in a.behavior : window # Nil => window >= 1
    /\ Percentage(a.cpu) /\ Percentage(a.memory)
    /\ \A m \in a.metrics :
          m.type = "Pods" /\ m.target \in {"AverageValue", "Value"} /\ m.value >= 1

\* The least value of each field of a liveness probe.
ProbeMinimum ==
    [InitialDelaySeconds |-> 0, PeriodSeconds |-> 1, TimeoutSeconds |-> 1,
     SuccessThreshold |-> 1, FailureThreshold |-> 1, TerminationGracePeriodSeconds |-> 1]

ProbeFits(probe) == \A f \in probe : f[2] >= ProbeMinimum[f[1]]

\* validateCRDSpec, which is all that ValidateCreate and ValidateUpdate do.  The
\* liveness probe of an instance with an autoscaler is not looked at.
validateCRDSpec(s) ==
    /\ ModeFits(s)
    /\ s.targetAllocator.enabled => ConfigToPromConfig(s.config) /\ ValidatePromConfig(s.config)
    /\ s.validPorts
    /\ ~(s.ingress.type = "ingress" /\ s.mode = "sidecar")
    /\ IF MaxReplicas(s) # Nil
       THEN /\ ReplicasFit(s)
            /\ IF s.autoscaler # Nil THEN checkAutoscalerSpec(s.autoscaler)
                                     ELSE ProbeFits(s.probe)
       ELSE ProbeFits(s.probe)

-----------------------------------------------------------------------------
(* The autoscaler that the operator builds.                                *)

\* HorizontalPodAutoscaler: with autoscaling/v2beta2 the CPU metric is always
\* there, and the window of a behavior is dereferenced.
HorizontalPodAutoscaler(s, version) ==
    LET a == s.autoscaler IN
    [minReplicas |-> a.minReplicas,
     maxReplicas |-> a.maxReplicas,
     targets |-> (IF a.memory # Nil THEN {a.memory} ELSE {})
                     \cup (IF a.cpu # Nil \/ version = "v2beta2" THEN {a.cpu} ELSE {}),
     metrics |-> a.metrics,
     panics  |-> \/ a.maxReplicas = Nil
                 \/ version = "v2beta2" /\ Nil \in a.behavior]

\* What the API server asks of one.
AutoscalerAcceptable(h) ==
    /\ ~h.panics
    /\ h.minReplicas # Nil /\ 1 <= h.minReplicas /\ h.minReplicas <= h.maxReplicas
    /\ Nil \notin h.targets

\* A zero in the autoscaler counts as not given in the validation only.
ZeroReplicas(s) ==
    s.autoscaler # Nil /\ 0 \in {s.autoscaler.minReplicas, s.autoscaler.maxReplicas}

=============================================================================
