------------------------------ MODULE Sidecar -------------------------------
(***************************************************************************)
(* The collector as a sidecar (pkg/sidecar, pkg/collector/container.go):   *)
(* what the mutator makes of a pod, the collectors being given.            *)
(*                                                                         *)
(* A collector is its mode, its configuration, its ports, environment,     *)
(* mount paths and volumes, and the probe settings.                        *)
(***************************************************************************)
EXTENDS Injection, ReceiverPorts

ContainerName == "otc-container"

-----------------------------------------------------------------------------
(* The container of a collector.                                           *)

\* The ports with a valid name and number, under their truncated names.
Named(ports) ==
    {q \in {[p EXCEPT !.name = Truncate(@, 15)] : p \in ports} : IsValidPort(q)}

\* One port for each name.  Which one it is depends on the order of the full names,
\* which are not compared here.
OnePerName(ports) ==
    {CHOOSE p \in ports : p.name = name : name \in {p.name : p \in ports}}

\* The ports that are in the way of no other.
Override(ports, by) ==
    {p \in ports : \A q \in by : q.name # p.name} \cup by

\* getMetricsPort, and the default where it fails: any number is taken for a port.
getMetricsPort(config) == IF config.metrics = Nil THEN 8888 ELSE config.metrics

\* getConfigContainerPorts: what it may return.
getConfigContainerPorts(config) ==
    IF ~config.ok THEN {Found({})}
    ELSE {IF r.panic THEN r
          ELSE Found(Override(OnePerName(Named(r.value)),
                              {Port("metrics", getMetricsPort(config), "TCP", "")}))
          : r \in ConfigToReceiverPorts(config)}

\* getLivenessProbe: whether there is one; the settings of the spec only change it.
getLivenessProbe(config) ==
    IF config.ok THEN ConfigToContainerProbe(config) ELSE Nil

\* Container, for a collector that reads its configuration from the environment.
Container(col, ports) ==
    [name |-> ContainerName, agent |-> Nil,
     env |-> Append(col.env, FieldRef("POD_NAME")),
     mounts |-> col.mounts,
     probe |-> getLivenessProbe(col.config) # Nil,
     ports |-> Override(ports, col.ports)]

-----------------------------------------------------------------------------
(* The mutator.                                                            *)

\* existsIn
existsIn(pod) == \E c \in Range(pod.containers) : c.name = ContainerName

\* podReferences, getReplicaSetReference, getDeploymentReference
podReferences(pod, found) ==
    IF pod.owner = "replicaset" /\ found THEN {"replicaset", "deployment"} ELSE {}

\* getResourceAttributesEnv
getResourceAttributesEnv(references) ==
    Append([d \in DOMAIN Downward |-> FieldRef(Downward[d].var)],
           Var("OTEL_RESOURCE_ATTRIBUTES",
               resourceMapToStr(
                   Over(References(Range(Downward)),
                        Over([key \in {<<"namespace", "name">>} |-> "ns"],
                             [key \in references \X {"name", "uid"} |-> key[1]])))))

\* add, with the ports of the container.
add(col, pod, attributes, ports) ==
    LET c == Container(col, ports)
        configured == Append(c.env, Var("OTEL_CONFIG", {}))
        env == IF Has(configured, "OTEL_RESOURCE_ATTRIBUTES") THEN configured
               ELSE configured \o attributes
    IN  [pod EXCEPT !.containers = Append(@, [c EXCEPT !.env = env]),
                    !.volumes = @ \o col.volumes]

Keep(kept, c) == IF c.name = ContainerName THEN kept ELSE Append(kept, c)

\* The loop of remove.
KeepOthers(containers) == FoldLeft(Keep, <<>>, containers)

\* remove: the volumes of the collector stay.
remove(pod) == [pod EXCEPT !.containers = KeepOthers(@)]

\* annotationValue
sidecarAnnotationValue(ns, pod) ==
    annotationValue(ns.annotations["sidecar"], pod.annotations["sidecar"])

\* getCollectorInstance, selectCollectorInstance: those it may be.
getCollectorInstance(annotation, collectors) ==
    {n \in DOMAIN collectors :
        /\ collectors[n] # Nil /\ collectors[n].mode = "sidecar"
        /\ annotation \in {"true", n}}

\* A collector that is named and is not there is an error.
CollectorMissing(annotation, collectors) ==
    annotation # "true" /\ collectors[annotation] = Nil

\* Mutate: the results it may have.  A panic ends the request as an error does.
sidecarMutate(ns, pod, collectors, found) ==
    LET annotation == sidecarAnnotationValue(ns, pod)
        selected == getCollectorInstance(annotation, collectors)
        col == collectors[CHOOSE n \in selected : TRUE]
        attributes == getResourceAttributesEnv(podReferences(pod, found))
    IN  IF annotation = "" THEN {Result(TRUE, pod)}
        ELSE IF annotation = "false" THEN {Result(TRUE, remove(pod))}
        ELSE IF existsIn(pod) THEN {Result(TRUE, pod)}
        ELSE IF CollectorMissing(annotation, collectors) THEN {Result(FALSE, pod)}
        ELSE IF ~Single(selected) THEN {Result(TRUE, pod)}
        ELSE {IF r.panic THEN Result(FALSE, pod)
              ELSE Result(TRUE, add(col, pod, attributes, r.value))
              : r \in getConfigContainerPorts(col.config)}

=============================================================================
