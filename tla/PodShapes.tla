----------------------------- MODULE PodShapes ------------------------------
(***************************************************************************)
(* The invariants of PodWebhook that the proofs rest on, and what its      *)
(* mutators and its steps make of a pod, in the words of the proofs.       *)
(***************************************************************************)
EXTENDS PodWebhook, InjectionShapes

\* What is stored and what the upgrade has read are instances.
InstancesType ==
    /\ instances \in [Name -> Instance \cup {Nil}]
    /\ listed \in [Name -> Instance \cup {Nil}]
    /\ version \in Nat

\* The images of an instance are those of this version, but for those that users chose.
Followed(n) ==
    instances[n] # Nil /\ instances[n].managedBy = "opentelemetry-operator" =>
        \A l \in Enabled \ {"go"} :
            instances[n].image[l] = instances[n].annotation[l] =>
                instances[n].image[l] = <<l, version>>

\* The defaults have been set, and an image is that of its annotation or chosen.
Sound(n) ==
    instances[n] # Nil => \A l \in Language :
        /\ instances[n].image[l] # NoImage
        /\ instances[n].annotation[l] \notin {NoImage, <<"user", 1>>}
        /\ \/ instances[n].image[l] = instances[n].annotation[l]
           \/ <<n, l, instances[n].image[l]>> \in chosen

\* What was chosen is the image that the instance has, and no default.
Stays(c) ==
    \E n \in Name, l \in Language :
        /\ instances[n] # Nil /\ c = <<n, l, instances[n].image[l]>>
        /\ instances[n].image[l] # instances[n].annotation[l]

\* The images that users have chosen and those that follow the operator: what the
\* upgrade has listed is what is stored, if it was not written since; and what the
\* upgrade is through with follows.
ImageInv ==
    /\ InstancesType
    /\ \A n \in Name : Sound(n)
    /\ \A c \in chosen : Stays(c)
    /\ upgrading = "update" => \A n \in Name \ dirty :
          listed[n] # Nil => instances[n] = listed[n]
    /\ \A n \in Name \ (dirty \cup missed) :
          upgrading = "done" \/ (upgrading = "update" /\ listed[n] = Nil) => Followed(n)

\* The containers of a pod are kept one after the other.
KeepsRun(F, v, n) ==
    /\ F[0] = <<>> /\ KeepOthers(v) = F[n]
    /\ \A k \in 1..n : F[k] = Keep(F[k - 1], v[k])

DistinctNames(s) == \A i, j \in 1..Len(s) : s[i].name = s[j].name => i = j

\* s has those of the first k containers of v that are not the collector.
KeptSeq(v, k, s) ==
    /\ IsSeq(s)
    /\ \A j \in 1..Len(s) : \E i \in 1..k : s[j] = v[i] /\ v[i].name # ContainerName
    /\ \A i \in 1..k : v[i].name # ContainerName => \E j \in 1..Len(s) : s[j] = v[i]
    /\ (\A i \in 1..k : v[i].name # ContainerName) => Len(s) = k /\ \A i \in 1..k : s[i] = v[i]
    /\ DistinctNames(v) => DistinctNames(s)

\* The containers but the collector are left.
Removed(p, q) ==
    /\ IsPod(q) /\ Rest(p, q) /\ q.shareProcessNamespace = p.shareProcessNamespace
    /\ q.inits = p.inits /\ q.volumes = p.volumes
    /\ Range(q.containers) = {c \in Range(p.containers) : c.name # ContainerName}
    /\ DistinctNames(p.containers) => DistinctNames(q.containers)
    /\ ~existsIn(p) => q.containers = p.containers

CollectorOK(col) == IsEnv(col.env) /\ IsSeq(col.mounts) /\ IsSeq(col.volumes)

\* The parts of the attributes of the collector.
OwnAttributes(references) ==
    resourceMapToStr(
        Over(References(Range(Downward)),
             Over([key \in {<<"namespace", "name">>} |-> "ns"],
                  [key \in references \X {"name", "uid"} |-> key[1]])))

OwnConfig(col) == Append(Append(col.env, FieldRef("POD_NAME")), Var("OTEL_CONFIG", {}))

SidecarEnv(col, e) == IF Has(OwnConfig(col), ORA) THEN OwnConfig(col) ELSE OwnConfig(col) \o e

SidecarContainer(col, e, ports) ==
    [name |-> ContainerName, agent |-> Nil, env |-> SidecarEnv(col, e), mounts |-> col.mounts,
     probe |-> getLivenessProbe(col.config) # Nil, ports |-> Override(ports, col.ports)]

\* The collector is added.
SidecarAdded(col, e, ports, p, q) ==
    /\ IsPod(q) /\ Rest(p, q) /\ q.shareProcessNamespace = p.shareProcessNamespace
    /\ q.inits = p.inits /\ q.volumes = p.volumes \o col.volumes
    /\ q.containers = Append(p.containers, SidecarContainer(col, e, ports))

\* What the mutator may do.
SidecarNothing(space, p, deployed) ==
    LET annotation == sidecarAnnotationValue(space, p) IN
    \/ annotation = ""
    \/ /\ annotation # "false"
       /\ existsIn(p) \/ ~Single(getCollectorInstance(annotation, deployed))

SidecarAdds(space, p, deployed, found, first) ==
    LET annotation == sidecarAnnotationValue(space, p) IN
    /\ annotation \notin {"", "false"} /\ ~existsIn(p) /\ ~CollectorMissing(annotation, deployed)
    /\ \E n \in getCollectorInstance(annotation, deployed) :
       /\ getCollectorInstance(annotation, deployed) = {n}
       /\ \E r \in getConfigContainerPorts(deployed[n].config) :
             first = IF r.panic THEN Result(FALSE, p)
                     ELSE Result(TRUE, add(deployed[n], p,
                                           getResourceAttributesEnv(podReferences(p, found)),
                                           r.value))

SidecarCases(space, p, deployed, found, first) ==
    \/ SidecarNothing(space, p, deployed) /\ first = Result(TRUE, p)
    \/ sidecarAnnotationValue(space, p) = "false" /\ first = Result(TRUE, remove(p))
    \/ /\ sidecarAnnotationValue(space, p) \notin {"", "false"} /\ ~existsIn(p)
       /\ CollectorMissing(sidecarAnnotationValue(space, p), deployed)
       /\ first = Result(FALSE, p)
    \/ SidecarAdds(space, p, deployed, found, first)

Languages == Language \cup {"sdk"}

\* The instances that are used.
Insts(space, p, stored, local) ==
    [l \in Languages |->
        IF l \notin {k \in Languages : Wanted(space, p, k)} \/ l \notin Enabled \cup {"sdk"} THEN Nil
        ELSE stored[CHOOSE n \in Candidates(space, p, l, stored, local) : TRUE]]

\* Some instance cannot be selected.
Unselectable(space, p, stored, local) ==
    \E l \in Languages : Wanted(space, p, l) /\ ~Single(Candidates(space, p, l, stored, local))

NoInsts(insts) == \A l \in Languages : insts[l] = Nil

\* What the mutator may do.
InstCases(space, p, stored, local, found, second) ==
    \/ isAutoInstrumentationInjected(p) /\ second = Result(TRUE, p)
    \/ /\ ~isAutoInstrumentationInjected(p) /\ Unselectable(space, p, stored, local)
       /\ second = Result(FALSE, p)
    \/ /\ ~isAutoInstrumentationInjected(p) /\ ~Unselectable(space, p, stored, local)
       /\ NoInsts(Insts(space, p, stored, local)) /\ second = Result(TRUE, p)
    \/ /\ ~isAutoInstrumentationInjected(p) /\ ~Unselectable(space, p, stored, local)
       /\ ~NoInsts(Insts(space, p, stored, local))
       /\ second = Result(TRUE, InjectAll(Insts(space, p, stored, local), p,
                                          ContainerNames(space, p), found))

InstancesOK(stored) ==
    \A n \in DOMAIN stored : stored[n] = Nil \/ IsInst(stored[n])

\* An instance that is used is one of those that there are.
InstIs(space, p, stored, l, inst) ==
    \/ inst = Nil /\ ~(Wanted(space, p, l) /\ l \in Enabled \cup {"sdk"})
    \/ /\ inst # Nil /\ Wanted(space, p, l) /\ l \in Enabled \cup {"sdk"}
       /\ \E n \in DOMAIN stored : stored[n] = inst

NamesOK(space, p) == IsSeq(space.containerNames) /\ IsSeq(p.containerNames)

NoName == <<"">>

CollectorsOK(deployed) ==
    \A n \in DOMAIN deployed : deployed[n] = Nil \/ CollectorOK(deployed[n])

\* What it has done, which is to be added to.
SidecarDone(space, p, deployed, found, first) ==
    LET annotation == sidecarAnnotationValue(space, p)
        selected == getCollectorInstance(annotation, deployed)
        e == getResourceAttributesEnv(podReferences(p, found))
    IN  \/ SidecarNothing(space, p, deployed) /\ first.ok /\ first.pod = p
        \/ annotation = "false" /\ first.ok /\ Removed(p, first.pod)
        \/ /\ annotation \notin {"", "false"} /\ ~existsIn(p) /\ CollectorMissing(annotation, deployed)
           /\ ~first.ok
        \/ /\ annotation \notin {"", "false"} /\ ~existsIn(p)
           /\ \E n \in selected : /\ selected = {n} /\ ~first.ok
                                  /\ \E x \in getConfigContainerPorts(deployed[n].config) : x.panic
        \/ /\ annotation \notin {"", "false"} /\ ~existsIn(p)
           /\ \E n \in selected : /\ selected = {n} /\ first.ok
                                  /\ \E x \in getConfigContainerPorts(deployed[n].config) :
                                        SidecarAdded(deployed[n], e, x.value, p, first.pod)

\* Handle, with what it reads.
Responds(space, p, deployed, stored, local, found, r) ==
    \E first \in sidecarMutate(space, p, deployed, found) :
        LET second == instMutate(space, first.pod, stored, local, found)
        IN  r = IF first.ok /\ second.ok THEN second.pod ELSE p

\* The pods differ in their metadata only.
Alike(p, q) ==
    /\ IsPod(q) /\ q.containers = p.containers /\ q.inits = p.inits /\ q.volumes = p.volumes
    /\ q.shareProcessNamespace = p.shareProcessNamespace /\ q.annotations = p.annotations
    /\ q.containerNames = p.containerNames /\ q.goExe = p.goExe /\ q.owner = p.owner

\* The specs differ in their images only, as far as it matters for whether a language
\* is injected.
SameSpecs(a, b) ==
    /\ DOMAIN b = DOMAIN a
    /\ \A n \in DOMAIN a : /\ b[n] = Nil <=> a[n] = Nil
                           /\ a[n] # Nil => b[n].env = a[n].env /\ b[n].langEnv = a[n].langEnv

\* What the second mutator makes of a pod, if it succeeds.
InstDone(space, p, stored, local, found, q) ==
    \/ isAutoInstrumentationInjected(p) /\ q = p
    \/ /\ ~Unselectable(space, p, stored, local) /\ NoInsts(Insts(space, p, stored, local))
       /\ q = p
    \/ /\ ~isAutoInstrumentationInjected(p) /\ ~Unselectable(space, p, stored, local)
       /\ ~NoInsts(Insts(space, p, stored, local))
       /\ q = InjectAll(Insts(space, p, stored, local), p, ContainerNames(space, p), found)

\* The value of a setting.
Plain(x) == {<<"", "", x>>}

PodType ==
    ns \in Namespaces /\ collectors \in [Name -> Collectors \cup {Nil}]

\* What CreatePod does: the response r to a request p is stored or refused.
Creates(p, r) ==
    /\ asked' = p /\ ns' = ns /\ collectors' = collectors /\ instances' = instances
    /\ \/ Acceptable(r) /\ pod' = Stored(r) /\ outcome' = "created"
       \/ ~Acceptable(r) /\ pod' = Nil /\ outcome' = "not created"
    /\ IsPod(r)
    /\ \/ r = p /\ changed' = TRUE
       \/ \E found \in BOOLEAN : Responds(ns, p, collectors, instances, Name, found, r)

\* Only images are written, if anything.
ImageStep ==
    /\ ns' = ns /\ collectors' = collectors /\ asked' = asked /\ pod' = pod
    /\ outcome' = outcome /\ changed' = changed /\ SameSpecs(instances, instances')

\* What the mutators read is changed.
ReadStep ==
    outcome' = "" /\ changed' = TRUE /\ asked' = asked /\ pod' = pod

\* What holds of the objects that the mutators read.
ReadInv == ImageInv /\ PodType

=============================================================================
