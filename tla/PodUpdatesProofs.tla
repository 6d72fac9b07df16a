-------------------------- MODULE PodUpdatesProofs --------------------------
(***************************************************************************)
(* Proofs about the pods that PodWebhook creates: the ports of the         *)
(* collector, all or nothing, and the updates.                             *)
(***************************************************************************)
EXTENDS PodWebhookProofs

\* The prover of a leaf that names none.
USE ZenonT(60)

-----------------------------------------------------------------------------
(* What is added to a pod, and what the response to a request has.         *)

LEMMA GrownContainer ==
    ASSUME NEW p, IsPod(p), NEW q, Grown(p, q), NEW c \in Range(q.containers)
    PROVE  \/ \E d \in Range(p.containers) : Kept(d, c)
           \/ c.name = AutoInstrumentation /\ c.agent = "go"
<1>1. /\ Len(p.containers) \in Nat /\ DOMAIN p.containers = 1..Len(p.containers)
      /\ Len(q.containers) \in Nat /\ DOMAIN q.containers = 1..Len(q.containers)
      /\ Len(p.containers) <= Len(q.containers)
  BY PodParts DEF Grown
<1>2. PICK i \in 1..Len(q.containers) : c = q.containers[i]
  BY <1>1 DEF Range
<1>3. CASE i \in 1..Len(p.containers)
  <2>1. Kept(p.containers[i], c)
    BY <1>2, <1>3 DEF Grown
  <2> QED
    BY <1>1, <1>3, <2>1 DEF Range
<1>4. CASE i \in (Len(p.containers) + 1)..Len(q.containers)
  BY <1>2, <1>4 DEF Grown
<1> QED
  BY <1>1, <1>3, <1>4, SMTT(30)

LEMMA ContainerGrown ==
    ASSUME NEW p, IsPod(p), NEW q, Grown(p, q), NEW d \in Range(p.containers)
    PROVE  \E c \in Range(q.containers) : Kept(d, c)
<1>1. /\ Len(p.containers) \in Nat /\ DOMAIN p.containers = 1..Len(p.containers)
      /\ Len(q.containers) \in Nat /\ DOMAIN q.containers = 1..Len(q.containers)
      /\ Len(p.containers) <= Len(q.containers)
  BY PodParts DEF Grown
<1>2. PICK i \in 1..Len(p.containers) : d = p.containers[i]
  BY <1>1 DEF Range
<1>3. i \in 1..Len(q.containers)
  BY <1>1, SMTT(30)
<1>4. Kept(d, q.containers[i])
  BY <1>2 DEF Grown
<1> QED
  BY <1>1, <1>3, <1>4 DEF Range

LEMMA GrownExists ==
    ASSUME NEW p, IsPod(p), NEW q, Grown(p, q)
    PROVE  existsIn(q) <=> existsIn(p)
<1>1. ContainerName # AutoInstrumentation
  BY DEF ContainerName, AutoInstrumentation
<1>2. ASSUME existsIn(q) PROVE existsIn(p)
  <2>1. PICK c \in Range(q.containers) : c.name = ContainerName
    BY <1>2 DEF existsIn
  <2>2. PICK d \in Range(p.containers) : Kept(d, c)
    BY <1>1, <2>1, GrownContainer
  <2> QED
    BY <2>1, <2>2 DEF existsIn, Kept
<1>3. ASSUME existsIn(p) PROVE existsIn(q)
  <2>1. PICK d \in Range(p.containers) : d.name = ContainerName
    BY <1>3 DEF existsIn
  <2>2. PICK c \in Range(q.containers) : Kept(d, c)
    BY <2>1, ContainerGrown
  <2> QED
    BY <2>1, <2>2 DEF existsIn, Kept
<1> QED
  BY <1>2, <1>3

\* What has been done about the collector.
LEMMA SidecarExists ==
    ASSUME NEW space, NEW p, IsPod(p), NEW deployed, NEW found, NEW first,
           SidecarDone(space, p, deployed, found, first), first.ok
    PROVE  LET annotation == sidecarAnnotationValue(space, p) IN
           /\ annotation = "false" => ~existsIn(first.pod)
           /\ annotation \notin {"", "false"} =>
                 existsIn(first.pod) <=>
                     existsIn(p) \/ Single(getCollectorInstance(annotation, deployed))
<1> DEFINE q == first.pod
           annotation == sidecarAnnotationValue(space, p)
           selected == getCollectorInstance(annotation, deployed)
<1>1. CASE SidecarNothing(space, p, deployed) /\ q = p
  <2>1. annotation = "" \/ (annotation # "false" /\ (existsIn(p) \/ ~Single(selected)))
    BY <1>1 DEF SidecarNothing
  <2>2. "false" # ""
    OBVIOUS
  <2> QED
    BY <1>1, <2>1, <2>2
<1>2. CASE annotation = "false" /\ Removed(p, q)
  <2>1. ~existsIn(q)
    BY <1>2 DEF Removed, existsIn
  <2> QED
    BY <1>2, <2>1
<1>3. CASE /\ annotation \notin {"", "false"}
           /\ \E n \in selected : selected = {n} /\ \E e, ports : SidecarAdded(deployed[n], e, ports, p, q)
  <2>1. PICK n \in selected : selected = {n} /\ \E e, ports : SidecarAdded(deployed[n], e, ports, p, q)
    BY <1>3
  <2>2. PICK e, ports : SidecarAdded(deployed[n], e, ports, p, q)
    BY <2>1
  <2> DEFINE c == SidecarContainer(deployed[n], e, ports)
  <2>3. Range(q.containers) = Range(p.containers) \cup {c}
    BY <2>2, AppendSeq, SMTT(30) DEF SidecarAdded, IsPod
  <2>4. c.name = ContainerName
    BY DEF SidecarContainer
  <2> HIDE DEF c
  <2>5. existsIn(q)
    BY <2>3, <2>4 DEF existsIn
  <2>6. Single(selected)
    BY <2>1 DEF Single
  <2> QED
    BY <1>3, <2>5, <2>6
<1> QED
  BY <1>1, <1>2, <1>3 DEF SidecarDone

LEMMA SidecarPorts ==
    ASSUME NEW space, NEW p, IsPod(p), ~existsIn(p), NEW deployed, NEW found, NEW first,
           SidecarDone(space, p, deployed, found, first), first.ok,
           NEW d \in Range(first.pod.containers), d.name = ContainerName,
           NEW m \in getCollectorInstance(sidecarAnnotationValue(space, p), deployed)
    PROVE  \E x \in getConfigContainerPorts(deployed[m].config) :
              d.ports = Override(x.value, deployed[m].ports)
<1> DEFINE q == first.pod
           annotation == sidecarAnnotationValue(space, p)
           selected == getCollectorInstance(annotation, deployed)
           e == getResourceAttributesEnv(podReferences(p, found))
<1>1. ~ d \in Range(p.containers)
  BY DEF existsIn
<1>2. CASE q = p
  BY <1>1, <1>2
<1>3. CASE Removed(p, q)
  BY <1>1, <1>3 DEF Removed
<1>4. CASE \E n \in selected : /\ selected = {n} /\ first.ok
                               /\ \E x \in getConfigContainerPorts(deployed[n].config) :
                                     SidecarAdded(deployed[n], e, x.value, p, q)
  <2>1. PICK n \in selected : /\ selected = {n} /\ first.ok
                              /\ \E x \in getConfigContainerPorts(deployed[n].config) :
                                    SidecarAdded(deployed[n], e, x.value, p, q)
    BY <1>4
  <2>2. n = m
    BY <2>1
  <2>3. PICK x \in getConfigContainerPorts(deployed[n].config) :
               SidecarAdded(deployed[n], e, x.value, p, q)
    BY <2>1
  <2> DEFINE c == SidecarContainer(deployed[n], e, x.value)
  <2>4. Range(q.containers) = Range(p.containers) \cup {c}
    BY <2>3, AppendSeq, SMTT(30) DEF SidecarAdded, IsPod
  <2>5. c.ports = Override(x.value, deployed[n].ports)
    BY DEF SidecarContainer
  <2> HIDE DEF c
  <2>6. d = c
    BY <1>1, <2>4
  <2> QED
    BY <2>2, <2>5, <2>6
<1> QED
  BY <1>2, <1>3, <1>4 DEF SidecarDone

\* The ports of a collector that is added are from its configuration.
LEMMA ResponsePorts ==
    ASSUME NEW space, NEW p, IsPod(p), NamesOK(space, p), NEW deployed, CollectorsOK(deployed),
           NEW stored, InstancesOK(stored), NEW local, NEW found, NEW r,
           Responds(space, p, deployed, stored, local, found, r), ~existsIn(p),
           NEW c \in Range(r.containers), c.name = ContainerName,
           NEW m \in getCollectorInstance(sidecarAnnotationValue(space, p), deployed)
    PROVE  \E x \in getConfigContainerPorts(deployed[m].config) :
              c.ports = Override(x.value, deployed[m].ports)
<1>1. PICK first : LET second == instMutate(space, first.pod, stored, local, found) IN
              /\ SidecarDone(space, p, deployed, found, first)
              /\ \/ ~(first.ok /\ second.ok) /\ r = p
                 \/ /\ first.ok /\ second.ok /\ r = second.pod
                    /\ IsPod(first.pod) /\ NamesOK(space, first.pod) /\ Grown(first.pod, r)
  BY Response
<1>2. r # p
  BY DEF existsIn
<1>3. first.ok /\ IsPod(first.pod) /\ Grown(first.pod, r) /\ SidecarDone(space, p, deployed, found, first)
  BY <1>1, <1>2
<1>4. ContainerName # AutoInstrumentation
  BY DEF ContainerName, AutoInstrumentation
<1>5. PICK d \in Range(first.pod.containers) : Kept(d, c)
  BY <1>3, <1>4, GrownContainer
<1>6. d.name = ContainerName /\ c.ports = d.ports
  BY <1>5 DEF Kept
<1> QED
  BY <1>3, <1>6, SidecarPorts, SMTT(30)

\* Nothing, or all that is asked for: see AllOrNothing.
Complete(space, p, deployed, stored, local, r) ==
    LET annotation == sidecarAnnotationValue(space, p)
        cols == getCollectorInstance(annotation, deployed)
    IN  /\ \A l \in Language \cup {"sdk"} :
              Wanted(space, p, l) /\ ~isAutoInstrumentationInjected(p) =>
                  Single(Candidates(space, p, l, stored, local))
        /\ annotation = "false" => ~existsIn(r)
        /\ annotation \notin {"", "false"} => existsIn(r) <=> existsIn(p) \/ Single(cols)
        /\ (\A c \in Range(r.containers) : c.agent # "go") =>
              /\ r.shareProcessNamespace = p.shareProcessNamespace
              /\ "kernel-debug" \in Range(r.volumes) =>
                    "kernel-debug" \in Range(p.volumes)
                                           \cup UNION {Range(deployed[n].volumes) : n \in cols}

\* The volumes of the pod and of the collectors.
VolumesOf(p, deployed, cols) ==
    Range(p.volumes) \cup UNION {Range(deployed[n].volumes) : n \in cols}

LEMMA SidecarVolumes ==
    ASSUME NEW space, NEW p, IsPod(p), NEW deployed, CollectorsOK(deployed), NEW found, NEW first,
           SidecarDone(space, p, deployed, found, first), first.ok, NEW v \in Range(first.pod.volumes)
    PROVE  v \in VolumesOf(p, deployed, getCollectorInstance(sidecarAnnotationValue(space, p), deployed))
<1> DEFINE q == first.pod
           annotation == sidecarAnnotationValue(space, p)
           selected == getCollectorInstance(annotation, deployed)
<1>1. CASE q.volumes = p.volumes
  BY <1>1 DEF VolumesOf
<1>2. CASE \E n \in selected : \E e, ports : SidecarAdded(deployed[n], e, ports, p, q)
  <2>1. PICK n \in selected : \E e, ports : SidecarAdded(deployed[n], e, ports, p, q)
    BY <1>2
  <2>2. q.volumes = p.volumes \o deployed[n].volumes
    BY <2>1 DEF SidecarAdded
  <2>3. CollectorOK(deployed[n])
    BY DEF getCollectorInstance, CollectorsOK
  <2>4. IsSeq(p.volumes) /\ IsSeq(deployed[n].volumes)
    BY <2>3 DEF IsPod, CollectorOK
  <2>5. Range(q.volumes) = Range(p.volumes) \cup Range(deployed[n].volumes)
    BY <2>2, <2>4, ConcatSeq, SMTT(30)
  <2> QED
    BY <2>5 DEF VolumesOf
<1> QED
  BY <1>1, <1>2 DEF SidecarDone, Removed

LEMMA ResponseComplete ==
    ASSUME NEW space, NEW p, IsPod(p), NamesOK(space, p), NEW deployed, CollectorsOK(deployed),
           NEW stored, InstancesOK(stored), NEW local, NEW found, NEW r,
           Responds(space, p, deployed, stored, local, found, r)
    PROVE  r = p \/ Complete(space, p, deployed, stored, local, r)
<1>1. PICK first : LET second == instMutate(space, first.pod, stored, local, found) IN
              /\ SidecarDone(space, p, deployed, found, first)
              /\ \/ ~(first.ok /\ second.ok) /\ r = p
                 \/ /\ first.ok /\ second.ok /\ r = second.pod
                    /\ IsPod(first.pod) /\ NamesOK(space, first.pod) /\ Grown(first.pod, r)
  BY Response
<1> SUFFICES ASSUME r # p PROVE Complete(space, p, deployed, stored, local, r)
  OBVIOUS
<1> DEFINE q == first.pod
           second == instMutate(space, q, stored, local, found)
           annotation == sidecarAnnotationValue(space, p)
           cols == getCollectorInstance(annotation, deployed)
<1>2. /\ first.ok /\ second.ok /\ r = second.pod /\ IsPod(q) /\ Grown(q, r)
      /\ SidecarDone(space, p, deployed, found, first)
  BY <1>1
<1>3. /\ Rest(p, q) /\ q.shareProcessNamespace = p.shareProcessNamespace
      /\ isAutoInstrumentationInjected(q) <=> isAutoInstrumentationInjected(p)
  BY <1>2, SidecarKeeps, SMTT(30)
<1>4. ASSUME NEW l \in Language \cup {"sdk"}, Wanted(space, p, l), ~isAutoInstrumentationInjected(p)
      PROVE  Single(Candidates(space, p, l, stored, local))
  <2>1. InstCases(space, q, stored, local, found, second)
    BY InstMutate
  <2>2. ~Result(FALSE, q).ok
    BY DEF Result
  <2>3. ~Unselectable(space, q, stored, local)
    <3> HIDE DEF second
    <3> QED
      BY <1>2, <1>3, <1>4, <2>1, <2>2 DEF InstCases
  <2>4. q.annotations = p.annotations
    BY <1>3 DEF Rest
  <2>5. Wanted(space, q, l) /\ Candidates(space, q, l, stored, local) = Candidates(space, p, l, stored, local)
    BY <1>4, <2>4 DEF Wanted, Candidates
  <2>6. l \in Languages
    BY DEF Languages
  <2> QED
    BY <2>3, <2>5, <2>6 DEF Unselectable
<1>5. /\ annotation = "false" => ~existsIn(q)
      /\ annotation \notin {"", "false"} => existsIn(q) <=> existsIn(p) \/ Single(cols)
  BY <1>2, SidecarExists
<1>6. existsIn(r) <=> existsIn(q)
  BY <1>2, GrownExists
<1>7. ASSUME \A c \in Range(r.containers) : c.agent # "go"
      PROVE  /\ r.shareProcessNamespace = p.shareProcessNamespace
             /\ "kernel-debug" \in Range(r.volumes) =>
                    "kernel-debug" \in Range(p.volumes)
                                           \cup UNION {Range(deployed[n].volumes) : n \in cols}
  <2>1. DOMAIN r.containers = 1..Len(r.containers)
    BY <1>2, PodParts DEF Grown
  <2>2. ~ \E i \in 1..Len(r.containers) : r.containers[i].agent = "go"
    BY <1>7, <2>1 DEF Range
  <2>3. SameHost(q, r)
    BY <1>2, <2>2 DEF Grown
  <2>4. ASSUME "kernel-debug" \in Range(q.volumes)
        PROVE  "kernel-debug" \in Range(p.volumes)
                                      \cup UNION {Range(deployed[n].volumes) : n \in cols}
    <3>1. "kernel-debug" \in VolumesOf(p, deployed, cols)
      BY <1>2, <2>4, SidecarVolumes
    <3> QED
      BY <3>1 DEF VolumesOf
  <2> QED
    BY <1>3, <2>3, <2>4 DEF SameHost
<1> HIDE DEF second, q
<1> QED
  BY <1>4, <1>5, <1>6, <1>7 DEF Complete

-----------------------------------------------------------------------------
(* A pod goes through the mutators again.                                  *)

\* Target, of the containers.
TargetAmong(containers, name) ==
    LET named == {j \in DOMAIN containers : containers[j].name = name}
    IN  IF named = {} THEN 1 ELSE CHOOSE j \in named : \A k \in named : k <= j

LEMMA AlikeSame ==
    ASSUME NEW p, NEW q, Alike(p, q), NEW space
    PROVE  /\ existsIn(q) <=> existsIn(p)
           /\ isAutoInstrumentationInjected(q) <=> isAutoInstrumentationInjected(p)
           /\ Immutable(q) = Immutable(p)
           /\ ContainerNames(space, q) = ContainerNames(space, p)
           /\ \A name : Target(q, name) = Target(p, name)
           /\ sidecarAnnotationValue(space, q) = sidecarAnnotationValue(space, p)
<1>1. existsIn(q) <=> existsIn(p)
  BY DEF Alike, existsIn
<1>2. isAutoInstrumentationInjected(q) <=> isAutoInstrumentationInjected(p)
  BY DEF Alike, isAutoInstrumentationInjected
<1>3. Immutable(q) = Immutable(p)
  BY DEF Alike, Immutable
<1>4. ContainerNames(space, q) = ContainerNames(space, p)
  BY DEF Alike, ContainerNames
<1>5. \A name : Target(q, name) = Target(p, name)
  <2>1. \A name : /\ Target(q, name) = TargetAmong(q.containers, name)
                  /\ Target(p, name) = TargetAmong(p.containers, name)
    BY DEF Target, TargetAmong
  <2> QED
    BY <2>1 DEF Alike
<1>6. sidecarAnnotationValue(space, q) = sidecarAnnotationValue(space, p)
  BY DEF Alike, sidecarAnnotationValue
<1> QED
  BY <1>1, <1>2, <1>3, <1>4, <1>5, <1>6

\* The annotations decide which instances are wanted.
LEMMA CandidatesSame ==
    ASSUME NEW space, NEW p, NEW q, q.annotations = p.annotations, NEW a, NEW b, SameSpecs(a, b),
           NEW local
    PROVE  /\ \A l : /\ Wanted(space, q, l) <=> Wanted(space, p, l)
                     /\ Candidates(space, q, l, b, local) = Candidates(space, p, l, a, local)
           /\ Unselectable(space, q, b, local) <=> Unselectable(space, p, a, local)
<1>1. \A l : Wanted(space, q, l) <=> Wanted(space, p, l)
  BY DEF Wanted
<1>2. {n \in DOMAIN b : b[n] # Nil} = {n \in DOMAIN a : a[n] # Nil}
  BY DEF SameSpecs
<1>3. \A l : Candidates(space, q, l, b, local) = Candidates(space, p, l, a, local)
  BY <1>2 DEF Candidates
<1> QED
  BY <1>1, <1>3 DEF Unselectable

SameInsts(x, y) ==
    \A l \in Languages :
        /\ y[l] = Nil <=> x[l] = Nil
        /\ x[l] # Nil => y[l].env = x[l].env /\ y[l].langEnv = x[l].langEnv

LEMMA InstsSame ==
    ASSUME NEW space, NEW p, NEW q, q.annotations = p.annotations, NEW a, NEW b, SameSpecs(a, b),
           NEW local, ~Unselectable(space, p, a, local)
    PROVE  SameInsts(Insts(space, p, a, local), Insts(space, q, b, local))
<1> SUFFICES ASSUME NEW l \in Languages,
                    NEW x, x = Insts(space, p, a, local)[l], NEW y, y = Insts(space, q, b, local)[l]
             PROVE  /\ y = Nil <=> x = Nil
                    /\ x # Nil => y.env = x.env /\ y.langEnv = x.langEnv
  BY DEF SameInsts
<1>1. CASE Wanted(space, p, l) /\ l \in Enabled \cup {"sdk"}
  <2> DEFINE S == Candidates(space, p, l, a, local)
             n == CHOOSE m \in S : TRUE
  <2>1. Wanted(space, q, l) /\ Candidates(space, q, l, b, local) = S
    BY <1>1, CandidatesSame, SMTT(30)
  <2>2. x = a[n]
    BY <1>1 DEF Insts
  <2>3. y = b[n]
    BY <1>1, <2>1 DEF Insts
  <2>4. Single(S)
    BY <1>1 DEF Unselectable
  <2>5. n \in S
    BY <2>4 DEF Single
  <2>6. n \in DOMAIN a
    <3>1. \A m \in S : m \in DOMAIN a
      BY DEF Candidates
    <3> QED
      BY <2>5, <3>1
  <2> HIDE DEF n
  <2> QED
    BY <2>2, <2>3, <2>6 DEF SameSpecs
<1>2. CASE ~(Wanted(space, p, l) /\ l \in Enabled \cup {"sdk"})
  <2>1. ~(Wanted(space, q, l) /\ l \in Enabled \cup {"sdk"})
    BY <1>2, CandidatesSame
  <2>2. x = Nil
    BY <1>2 DEF Insts
  <2>3. y = Nil
    BY <2>1 DEF Insts
  <2> QED
    BY <2>2, <2>3
<1> QED
  BY <1>1, <1>2

\* No step takes an init container away.
LEMMA InitsStay ==
    ASSUME NEW lang \in Languages, NEW inst, IsInst(inst), NEW p, IsPod(p),
           NEW i \in 1..Len(p.containers), NEW found,
           NEW q, q = injectLanguage(lang, inst, p, i, found)
    PROVE  Range(p.inits) \subseteq Range(q.inits)
<1>1. IsEnv(inst.env)
  BY DEF IsInst
<1>2. CASE lang \in Files
  <2>1. CASE Declines(lang, inst, p.containers[i].env)
    BY <1>2, <2>1, FilesLanguage
  <2>2. CASE ~Declines(lang, inst, p.containers[i].env)
    <3>0. Injects(lang, inst, p, i, found, q)
      BY <1>2, <2>2, FilesLanguage
    <3>1. PICK env : /\ FilesShape(lang, inst, p.containers[i].env, env)
                     /\ q = Configure(inst, InjectFiles(lang, p, i, env), i, i, found)
      BY <3>0 DEF Injects
    <3> DEFINE r == InjectFiles(lang, p, i, env)
    <3>2. FilesSet(lang, p, r, i, env)
      BY SetFiles
    <3>3. IsEnv(p.containers[i].env)
      BY PodParts DEF IsContainer
    <3>4. IsEnv(env)
      BY <1>2, <3>1, <3>3, FilesShapeEnv
    <3>5. IsPod(r) /\ Len(r.containers) = Len(p.containers)
      BY <3>2, <3>4, FilesSetPod
    <3>6. q.inits = r.inits
      <4> HIDE DEF r
      <4>1. EnvSet(r, Configure(inst, r, i, i, found), i, FullEnv(inst, r, i, i, found))
        BY <1>1, <3>5, ConfigureEnv
      <4> QED
        BY <3>1, <4>1 DEF EnvSet, r
    <3>7. r.inits = p.inits \/ r.inits = Append(p.inits, InitContainer(lang))
      BY <3>2 DEF FilesSet
    <3>8. Range(Append(p.inits, InitContainer(lang))) = Range(p.inits) \cup {InitContainer(lang)}
      BY AppendSeq DEF IsPod
    <3> HIDE DEF r
    <3> QED
      BY <3>6, <3>7, <3>8
  <2> QED
    BY <2>1, <2>2
<1>3. CASE lang = "go"
  <2>1. CASE GoDeclines(inst, p)
    BY <1>3, <2>1, GoLanguage
  <2>2. CASE ~GoDeclines(inst, p)
    <3> DEFINE r == GoPod(inst, p)
               n == Len(p.containers) + 1
    <3>1. q = Configure(inst, r, n, 1, found)
      BY <1>3, <2>2, GoLanguage
    <3>2. IsPod(r) /\ r.inits = p.inits /\ Len(r.containers) = n
      BY GoPodParts, SMTT(30)
    <3>3. n \in 1..Len(r.containers)
      BY <3>2, PodParts, SMTT(30)
    <3> HIDE DEF r, n
    <3>4. EnvSet(r, q, n, FullEnv(inst, r, n, 1, found))
      BY <1>1, <3>1, <3>2, <3>3, ConfigureEnv
    <3> QED
      BY <3>2, <3>4 DEF EnvSet
  <2> QED
    BY <2>1, <2>2
<1>4. CASE lang = "sdk"
  <2>1. q = Configure(inst, p, i, i, found)
    BY <1>4 DEF injectLanguage
  <2>2. EnvSet(p, q, i, FullEnv(inst, p, i, i, found))
    BY <1>1, <2>1, ConfigureEnv
  <2> QED
    BY <2>2 DEF EnvSet
<1>5. CASE lang = "apache"
  <2> DEFINE res == createResourceMap(inst, p, i, found)
             r == injectApacheHttpdagent(inst, p, i, res)
             config == getApacheOtelConfig(inst, p, i, res)
  <2>1. q = Configure(inst, r, i, i, found)
    BY <1>5 DEF injectLanguage
  <2>2. ApacheSet(inst, p, r, i, config)
    BY SetApache
  <2>3. IsPod(r) /\ Len(r.containers) = Len(p.containers)
    <3> HIDE DEF r, config
    <3> QED
      BY <2>2, ApacheSetPod, SMTT(30)
  <2>4. Range(p.inits) \subseteq Range(r.inits)
    BY <2>2 DEF ApacheSet
  <2> HIDE DEF r, config
  <2>5. EnvSet(r, q, i, FullEnv(inst, r, i, i, found))
    BY <1>1, <2>1, <2>3, ConfigureEnv
  <2> QED
    BY <2>4, <2>5 DEF EnvSet
<1> QED
  BY <1>2, <1>3, <1>4, <1>5 DEF Languages, Language, Files

\* A language that an instance is not injected for.
Declined(lang, inst, p, i) ==
    IF lang = "go" THEN GoDeclines(inst, p) ELSE Declines(lang, inst, p.containers[i].env)

\* Whatever is injected for a language with an agent of its own shows.
LEMMA DeclineStep ==
    ASSUME NEW lang \in Files \cup {"go"}, NEW inst, IsInst(inst), NEW p, IsPod(p),
           NEW i \in 1..Len(p.containers), NEW found,
           NEW q, q = injectLanguage(lang, inst, p, i, found)
    PROVE  \/ q = p /\ Declined(lang, inst, p, i)
           \/ isAutoInstrumentationInjected(q) /\ ~Declined(lang, inst, p, i)
<1>1. IsEnv(inst.env)
  BY DEF IsInst
<1>2. CASE lang # "go"
  <2>0. lang \in Files
    BY <1>2
  <2>1. CASE Declines(lang, inst, p.containers[i].env)
    BY <1>2, <2>0, <2>1, FilesLanguage DEF Declined
  <2>2. CASE ~Declines(lang, inst, p.containers[i].env)
    <3>1. PICK env : /\ FilesShape(lang, inst, p.containers[i].env, env)
                     /\ q = Configure(inst, InjectFiles(lang, p, i, env), i, i, found)
      <4>1. Injects(lang, inst, p, i, found, q)
        BY <2>0, <2>2, FilesLanguage
      <4> QED
        BY <4>1 DEF Injects
    <3> DEFINE r == InjectFiles(lang, p, i, env)
    <3>2. FilesSet(lang, p, r, i, env)
      BY SetFiles
    <3>3. IsEnv(p.containers[i].env)
      BY PodParts DEF IsContainer
    <3>4. IsEnv(env)
      BY <2>0, <3>1, <3>3, FilesShapeEnv
    <3>5. IsPod(r) /\ Len(r.containers) = Len(p.containers) /\ ~isInitContainerMissing(r)
      BY <3>2, <3>4, FilesSetPod
    <3>6. q.inits = r.inits
      <4> HIDE DEF r
      <4>1. EnvSet(r, Configure(inst, r, i, i, found), i, FullEnv(inst, r, i, i, found))
        BY <1>1, <3>5, ConfigureEnv
      <4> QED
        BY <3>1, <4>1 DEF EnvSet, r
    <3>7. isAutoInstrumentationInjected(q)
      <4> HIDE DEF r
      <4> QED
        BY <3>5, <3>6 DEF isInitContainerMissing, isAutoInstrumentationInjected
    <3> QED
      BY <1>2, <2>2, <3>7 DEF Declined
  <2> QED
    BY <2>1, <2>2
<1>3. CASE lang = "go"
  <2>1. CASE GoDeclines(inst, p)
    BY <1>3, <2>1, GoLanguage DEF Declined
  <2>2. CASE ~GoDeclines(inst, p)
    <3> DEFINE r == GoPod(inst, p)
               n == Len(p.containers) + 1
    <3>1. q = Configure(inst, r, n, 1, found)
      BY <1>3, <2>2, GoLanguage
    <3>2. IsPod(r) /\ Len(r.containers) = n /\ r.containers[n] = GoAgent(inst, p)
      BY GoPodParts, SMTT(30)
    <3>3. n \in 1..Len(r.containers)
      BY <3>2, PodParts, SMTT(30)
    <3>4. r.containers[n].name = AutoInstrumentation
      BY <3>2, GoAgentContainer
    <3> HIDE DEF r, n
    <3>5. Grown(r, q)
      BY <3>1, <3>2, <3>3, GrownConfigure, SMTT(30)
    <3>6. r.containers[n] \in Range(r.containers)
      BY <3>2, <3>3, PodParts DEF Range
    <3>7. PICK c \in Range(q.containers) : Kept(r.containers[n], c)
      BY <3>2, <3>5, <3>6, ContainerGrown
    <3>8. isAutoInstrumentationInjected(q)
      BY <3>4, <3>7 DEF isAutoInstrumentationInjected, Kept
    <3> QED
      BY <1>3, <2>2, <3>8 DEF Declined
  <2> QED
    BY <2>1, <2>2
<1> QED
  BY <1>2, <1>3

LEMMA AutoStays ==
    ASSUME NEW lang \in Languages, NEW insts, InstsOK(insts), NEW p, IsPod(p),
           NEW i \in 1..Len(p.containers), NEW found, isAutoInstrumentationInjected(p)
    PROVE  isAutoInstrumentationInjected(LanguageStep(lang, insts, p, i, found))
<1>1. CASE insts[lang] = Nil
  BY <1>1 DEF LanguageStep
<1>2. CASE insts[lang] # Nil
  <2> DEFINE q == injectLanguage(lang, insts[lang], p, i, found)
  <2>1. LanguageStep(lang, insts, p, i, found) = q
    BY <1>2 DEF LanguageStep
  <2>2. IsInst(insts[lang])
    BY <1>2 DEF InstsOK, Languages
  <2>3. Range(p.inits) \subseteq Range(q.inits)
    BY <2>2, InitsStay, SMTT(30)
  <2>4. Grown(p, q)
    BY <2>2, GrownLanguage DEF Languages
  <2> HIDE DEF q
  <2>5. PICK c \in Range(p.inits) \cup Range(p.containers) : c.name = AutoInstrumentation
    BY DEF isAutoInstrumentationInjected
  <2>6. \E d \in Range(q.inits) \cup Range(q.containers) : d.name = AutoInstrumentation
    <3>1. CASE c \in Range(p.inits)
      BY <2>3, <2>5, <3>1
    <3>2. CASE c \in Range(p.containers)
      <4>1. PICK d \in Range(q.containers) : Kept(c, d)
        BY <2>4, <3>2, ContainerGrown
      <4> QED
        BY <2>5, <4>1 DEF Kept
    <3> QED
      BY <3>1, <3>2
  <2> QED
    BY <2>1, <2>6 DEF isAutoInstrumentationInjected
<1> QED
  BY <1>1, <1>2

\* A run that leaves a pod without a mark has left it as it was.
LEMMA DeclineRun ==
    ASSUME NEW insts, InstsOK(insts), insts["sdk"] = Nil, insts["apache"] = Nil,
           NEW p, IsPod(p), NEW v, NEW found, NEW n \in Nat,
           NEW H, NEW T, StepsRun(H, T, insts, p, v, found, n),
           ~isAutoInstrumentationInjected(H[7 * n])
    PROVE  /\ H[7 * n] = p
           /\ \A k \in 1..n : \A l \in Files \cup {"go"} :
                 insts[l] # Nil => Declined(l, insts[l], p, Target(p, v[k]))
<1> DEFINE P == {m \in Nat : m <= 7 * n => \/ isAutoInstrumentationInjected(H[m])
                                           \/ \A x \in 0..m : H[x] = p}
<1>1. 0 \in P
  BY SMTT(30) DEF StepsRun
<1>2. ASSUME NEW m \in Nat, m \in P
      PROVE  m + 1 \in P
  <2> SUFFICES ASSUME m + 1 <= 7 * n
               PROVE  \/ isAutoInstrumentationInjected(H[m + 1])
                      \/ \A x \in 0..(m + 1) : H[x] = p
    BY SMTT(30)
  <2>1. m + 1 \in 1..(7 * n)
    BY SMTT(30)
  <2>2. PICK k \in 1..n, j \in 1..7 : m + 1 = 7 * (k - 1) + j
    BY <2>1, StepIndex
  <2>3. 7 * (k - 1) + j - 1 = m
    BY <2>2, SMTT(30)
  <2>4. T[k] \in 1..Len(H[m].containers)
        /\ H[m + 1] = LanguageStep(Order[j], insts, H[m], T[k], found)
    BY <2>2, <2>3 DEF StepsRun
  <2>5. IsPod(H[m])
    <3>1. m \in 0..(7 * n)
      BY <2>1, SMTT(30)
    <3> QED
      BY <3>1 DEF StepsRun, Grown
  <2>6. Order[j] \in Languages
    BY OrderLanguages DEF Languages
  <2>7. CASE isAutoInstrumentationInjected(H[m])
    BY <2>4, <2>5, <2>6, <2>7, AutoStays
  <2>8. CASE ~isAutoInstrumentationInjected(H[m])
    <3>1. \A x \in 0..m : H[x] = p
      BY <1>2, <2>1, <2>8, SMTT(30)
    <3>2. H[m] = p
      BY <3>1, SMTT(30)
    <3>3. CASE insts[Order[j]] = Nil
      <4>1. H[m + 1] = p
        BY <2>4, <3>2, <3>3 DEF LanguageStep
      <4> QED
        BY <3>1, <4>1, SMTT(30)
    <3>4. CASE insts[Order[j]] # Nil
      <4>1. Order[j] \in Files \cup {"go"}
        BY <2>6, <3>4 DEF Languages, Language, Files
      <4>2. IsInst(insts[Order[j]])
        BY <2>6, <3>4 DEF InstsOK, Languages
      <4>3. H[m + 1] = injectLanguage(Order[j], insts[Order[j]], H[m], T[k], found)
        BY <2>4, <3>4 DEF LanguageStep
      <4>4. H[m + 1] = H[m] \/ isAutoInstrumentationInjected(H[m + 1])
        BY <2>4, <2>5, <4>1, <4>2, <4>3, DeclineStep
      <4> QED
        BY <3>1, <3>2, <4>4, SMTT(30)
    <3> QED
      BY <3>3, <3>4
  <2> QED
    BY <2>7, <2>8
<1>3. Nat \subseteq P
  <2> HIDE DEF P
  <2> QED
    BY <1>1, <1>2, SetInduction
<1>4. \A x \in 0..(7 * n) : H[x] = p
  BY <1>3, SMTT(30)
<1>5. H[7 * n] = p
  BY <1>4, SMTT(30)
<1>6. ASSUME NEW k \in 1..n, NEW l \in Files \cup {"go"}, insts[l] # Nil
      PROVE  Declined(l, insts[l], p, Target(p, v[k]))
  <2>1. PICK j \in 1..7 : l = Order[j]
    BY SMTT(30) DEF Order, Files
  <2>2. 7 * (k - 1) \in 0..(7 * n) /\ 7 * (k - 1) + j - 1 \in 0..(7 * n)
        /\ 7 * (k - 1) + j \in 0..(7 * n)
    BY SMTT(30)
  <2>3. T[k] = Target(p, v[k])
    BY <1>4, <2>2 DEF StepsRun
  <2>4. T[k] \in 1..Len(p.containers) /\ p = LanguageStep(Order[j], insts, p, T[k], found)
    BY <1>4, <2>2 DEF StepsRun
  <2>5. p = injectLanguage(l, insts[l], p, T[k], found)
    BY <1>6, <2>1, <2>4 DEF LanguageStep
  <2>6. IsInst(insts[l])
    BY <1>6 DEF InstsOK, Language, Files
  <2>7. Declined(l, insts[l], p, T[k])
    BY <1>5, <2>4, <2>5, <2>6, DeclineStep
  <2> QED
    BY <2>3, <2>7
<1> QED
  BY <1>5, <1>6

\* What was declined once is declined again.
LEMMA DeclinedAgain ==
    ASSUME NEW lang, NEW a, NEW b, b.env = a.env, b.langEnv = a.langEnv, NEW p, NEW q, Alike(p, q),
           NEW i, Declined(lang, a, p, i)
    PROVE  Declined(lang, b, q, i)
<1>1. CASE lang = "go"
  <2>1. GoExe(q) = GoExe(p)
    BY DEF GoExe, Alike
  <2>2. GoEnv(b, q) = GoEnv(a, p)
    BY <2>1 DEF GoEnv
  <2>3. AddAllMissing(GoEnv(b, q), b.env) = AddAllMissing(GoEnv(a, p), a.env)
    BY <2>2
  <2>4. GoReady(b, q) <=> GoReady(a, p)
    BY <2>3 DEF GoReady
  <2>5. GoDeclines(a, p)
    BY <1>1 DEF Declined
  <2>6. GoDeclines(b, q)
    BY <2>4, <2>5 DEF GoDeclines, Alike
  <2> QED
    BY <1>1, <2>6 DEF Declined
<1>2. CASE lang # "go"
  <2>1. Declines(lang, a, p.containers[i].env)
    BY <1>2 DEF Declined
  <2>2. q.containers[i].env = p.containers[i].env
    BY DEF Alike
  <2>3. Declines(lang, b, q.containers[i].env)
    BY <2>1, <2>2 DEF Declines
  <2> QED
    BY <1>2, <2>3 DEF Declined
<1> QED
  BY <1>1, <1>2

LEMMA AgainRun ==
    ASSUME NEW x, NEW y, SameInsts(x, y), InstsOK(y), x["sdk"] = Nil, x["apache"] = Nil,
           NEW p, NEW q, IsPod(q), Alike(p, q), NEW v, NEW found, NEW n \in Nat,
           \A k \in 1..n : \A l \in Files \cup {"go"} :
                 x[l] # Nil => Declined(l, x[l], p, Target(p, v[k])),
           NEW H, NEW T, StepsRun(H, T, y, q, v, found, n)
    PROVE  H[7 * n] = q
<1> DEFINE P == {m \in Nat : m <= 7 * n => \A z \in 0..m : H[z] = q}
<1>1. 0 \in P
  BY SMTT(30) DEF StepsRun
<1>2. ASSUME NEW m \in Nat, m \in P
      PROVE  m + 1 \in P
  <2> SUFFICES ASSUME m + 1 <= 7 * n
               PROVE  H[m + 1] = q
    BY <1>2, SMTT(30)
  <2>1. m + 1 \in 1..(7 * n)
    BY SMTT(30)
  <2>2. PICK k \in 1..n, j \in 1..7 : m + 1 = 7 * (k - 1) + j
    BY <2>1, StepIndex
  <2>3. 7 * (k - 1) + j - 1 = m /\ 7 * (k - 1) \in 0..m
    BY <2>2, SMTT(30)
  <2>4. \A z \in 0..m : H[z] = q
    BY <1>2, <2>1, SMTT(30)
  <2>5. T[k] = Target(p, v[k])
    <3>1. T[k] = Target(q, v[k])
      BY <2>3, <2>4 DEF StepsRun
    <3> QED
      BY <3>1, AlikeSame, SMTT(30)
  <2>6. H[m] = q
    BY <2>4, SMTT(30)
  <2>7. T[k] \in 1..Len(q.containers)
        /\ H[m + 1] = LanguageStep(Order[j], y, q, T[k], found)
    BY <2>2, <2>3, <2>6 DEF StepsRun
  <2>8. Order[j] \in Languages
    BY OrderLanguages DEF Languages
  <2>9. CASE y[Order[j]] = Nil
    BY <2>7, <2>9 DEF LanguageStep
  <2>10. CASE y[Order[j]] # Nil
    <3>1. /\ x[Order[j]] # Nil
          /\ y[Order[j]].env = x[Order[j]].env /\ y[Order[j]].langEnv = x[Order[j]].langEnv
      BY <2>8, <2>10 DEF SameInsts
    <3>2. Order[j] \in Files \cup {"go"}
      BY <2>8, <3>1 DEF Languages, Language, Files
    <3>3. Declined(Order[j], x[Order[j]], p, T[k])
      BY <2>5, <3>1, <3>2
    <3>4. Declined(Order[j], y[Order[j]], q, T[k])
      BY <3>1, <3>3, DeclinedAgain
    <3>5. IsInst(y[Order[j]])
      BY <2>8, <2>10 DEF InstsOK, Languages
    <3>6. H[m + 1] = injectLanguage(Order[j], y[Order[j]], q, T[k], found)
      BY <2>7, <2>10 DEF LanguageStep
    <3> QED
      BY <2>7, <3>2, <3>4, <3>5, <3>6, DeclineStep
  <2> QED
    BY <2>9, <2>10
<1>3. Nat \subseteq P
  <2> HIDE DEF P
  <2> QED
    BY <1>1, <1>2, SetInduction
<1> QED
  BY <1>3, SMTT(30)

\* A language that leaves no mark is injected.
Unmarked(space, p) ==
    \E l \in {"sdk", "apache"} : Wanted(space, p, l) /\ l \in Enabled \cup {"sdk"}

\* The second mutator, on what it has made of a pod.
LEMMA InstAgain ==
    ASSUME NEW space, NEW p, IsPod(p), NamesOK(space, p), NEW a, InstancesOK(a), NEW local, NEW found,
           NEW first, first = instMutate(space, p, a, local, found), first.ok,
           NEW q, Alike(first.pod, q), NEW b, InstancesOK(b), SameSpecs(a, b), NEW again,
           NEW second, second = instMutate(space, q, b, local, again), second.ok
    PROVE  \/ Immutable(second.pod) = Immutable(q)
           \/ Unmarked(space, p) /\ ~isAutoInstrumentationInjected(q)
<1> DEFINE x == Insts(space, p, a, local)
           y == Insts(space, q, b, local)
           v == ContainerNames(space, p)
<1>1. InstDone(space, p, a, local, found, first.pod) /\ InstDone(space, q, b, local, again, second.pod)
  BY InstOk
<1>2. Grown(p, first.pod)
  BY GrownInst
<1>3. IsPod(q) /\ q.annotations = p.annotations /\ q.containerNames = p.containerNames
  BY <1>2 DEF Grown, Rest, Alike
<1>4. isAutoInstrumentationInjected(q) <=> isAutoInstrumentationInjected(first.pod)
  BY AlikeSame
<1>5. CASE second.pod = q
  BY <1>5
<1>6. CASE /\ ~isAutoInstrumentationInjected(q) /\ ~Unselectable(space, q, b, local)
           /\ ~NoInsts(y) /\ second.pod = InjectAll(y, q, ContainerNames(space, q), again)
  <2>1. ~Unselectable(space, p, a, local)
    BY <1>3, <1>6, CandidatesSame
  <2>2. SameInsts(x, y)
    BY <1>3, <2>1, InstsSame
  <2>3. ~NoInsts(x)
    BY <1>6, <2>2 DEF NoInsts, SameInsts
  <2>4. first.pod = InjectAll(x, p, v, found)
    <3>1. ~(isAutoInstrumentationInjected(p) /\ first.pod = p)
      BY <1>4, <1>6
    <3> QED
      BY <1>1, <2>3, <3>1 DEF InstDone
  <2>5. InstsOK(x) /\ InstsOK(y)
    BY <1>6, <2>1, InstsAreOK
  <2>6. ContainerNames(space, q) = v
    BY <1>3 DEF ContainerNames
  <2>7. Len(v) \in Nat /\ DOMAIN v = 1..Len(v)
    BY NamesSeq
  <2>8. CASE Unmarked(space, p)
    BY <1>6, <2>8
  <2>9. CASE ~Unmarked(space, p)
    <3>1. x["sdk"] = Nil /\ x["apache"] = Nil
      <4>1. \A l \in {"sdk", "apache"} : InstIs(space, p, a, l, x[l])
        BY <2>1, InstsAre DEF Languages, Language
      <4> QED
        BY <2>9, <4>1 DEF InstIs, Unmarked
    <3> HIDE DEF x, y, v
    <3>2. CASE p.containers = <<>>
      <4>1. first.pod = p
        BY <2>4, <2>5, <2>7, <3>2, NoContainersAll, SMTT(30)
      <4>2. q.containers = <<>>
        BY <3>2, <4>1 DEF Alike
      <4>3. second.pod = q
        BY <1>3, <1>6, <2>5, <2>6, <2>7, <4>2, NoContainersAll, SMTT(30)
      <4> QED
        BY <4>3
    <3>3. CASE p.containers # <<>>
      <4>1. PICK H, T : StepsRun(H, T, x, p, v, found, Len(v))
        BY <2>5, <2>7, <3>3, AllSteps
      <4>2. H[7 * Len(v)] = first.pod
        BY <2>4, <4>1 DEF StepsRun
      <4>3. /\ H[7 * Len(v)] = p
            /\ \A k \in 1..Len(v) : \A l \in Files \cup {"go"} :
                  x[l] # Nil => Declined(l, x[l], p, Target(p, v[k]))
        BY <1>4, <1>6, <2>5, <2>7, <3>1, <4>1, <4>2, DeclineRun
      <4>4. Alike(p, q)
        BY <4>2, <4>3
      <4>5. q.containers # <<>>
        BY <3>3, <4>4 DEF Alike
      <4>6. PICK I, U : StepsRun(I, U, y, q, v, again, Len(v))
        BY <1>3, <2>5, <2>7, <4>5, AllSteps
      <4>7. I[7 * Len(v)] = q
        BY <1>3, <2>2, <2>5, <2>7, <3>1, <4>3, <4>4, <4>6, AgainRun, SMTT(30)
      <4>8. second.pod = q
        BY <1>6, <2>6, <4>6, <4>7 DEF StepsRun
      <4> QED
        BY <4>8
    <3> QED
      BY <3>2, <3>3
  <2> QED
    BY <2>8, <2>9
<1> QED
  BY <1>1, <1>5, <1>6 DEF InstDone

\* The first mutator, on what both have made of a pod.
LEMMA SidecarAgain ==
    ASSUME NEW space, NEW p, IsPod(p), NEW deployed, CollectorsOK(deployed), NEW found, NEW first,
           SidecarDone(space, p, deployed, found, first), first.ok, NEW r, Grown(first.pod, r),
           NEW q, Alike(r, q), NEW again, NEW second \in sidecarMutate(space, q, deployed, again),
           second.ok
    PROVE  Alike(q, second.pod)
<1> DEFINE annotation == sidecarAnnotationValue(space, p)
           selected == getCollectorInstance(annotation, deployed)
<1>1. /\ IsPod(first.pod) /\ Rest(p, first.pod)
  BY SidecarKeeps
<1>2. IsPod(q) /\ sidecarAnnotationValue(space, q) = annotation
  <2>1. IsPod(q) /\ q.annotations = p.annotations
    BY <1>1 DEF Grown, Rest, Alike
  <2> QED
    BY <2>1 DEF sidecarAnnotationValue
<1>3. existsIn(q) <=> existsIn(first.pod)
  BY <1>1, AlikeSame, GrownExists
<1>4. /\ annotation = "false" => ~existsIn(q)
      /\ annotation \notin {"", "false"} => existsIn(q) <=> existsIn(p) \/ Single(selected)
  BY <1>3, SidecarExists
<1>5. SidecarDone(space, q, deployed, again, second)
  BY <1>2, SidecarDoes
<1>6. CASE second.pod = q
  BY <1>2, <1>6 DEF Alike
<1>7. CASE annotation = "false" /\ Removed(q, second.pod)
  BY <1>4, <1>7 DEF Removed, Alike, Rest
<1>8. CASE annotation \notin {"", "false"} /\ ~existsIn(q) /\ \E n \in selected : selected = {n}
  BY <1>4, <1>8 DEF Single
<1> HIDE DEF annotation
<1> QED
  BY <1>2, <1>5, <1>6, <1>7, <1>8 DEF SidecarDone

LEMMA SidecarFails ==
    ASSUME NEW space, NEW p, NEW deployed, NEW found, ~existsIn(p),
           sidecarAnnotationValue(space, p) \notin {"", "false"},
           CollectorMissing(sidecarAnnotationValue(space, p), deployed),
           NEW first \in sidecarMutate(space, p, deployed, found)
    PROVE  ~first.ok
<1>1. first = Result(FALSE, p)
  BY DEF sidecarMutate
<1> QED
  BY <1>1 DEF Result

LEMMA InstFails ==
    ASSUME NEW space, NEW p, NEW stored, NEW local, NEW found,
           ~isAutoInstrumentationInjected(p), Unselectable(space, p, stored, local)
    PROVE  ~instMutate(space, p, stored, local, found).ok
<1> DEFINE second == instMutate(space, p, stored, local, found)
<1>1. InstCases(space, p, stored, local, found, second)
  BY InstMutate
<1> HIDE DEF second
<1>2. second = Result(FALSE, p)
  BY <1>1 DEF InstCases
<1>3. ~second.ok
  BY <1>2 DEF Result
<1> QED
  BY <1>3 DEF second

LEMMA InstFailed ==
    ASSUME NEW space, NEW p, NEW stored, NEW local, NEW found,
           ~instMutate(space, p, stored, local, found).ok
    PROVE  ~isAutoInstrumentationInjected(p) /\ Unselectable(space, p, stored, local)
<1> DEFINE second == instMutate(space, p, stored, local, found)
           all == InjectAll(Insts(space, p, stored, local), p, ContainerNames(space, p), found)
<1>1. InstCases(space, p, stored, local, found, second)
  BY InstMutate
<1>2. ~second.ok
  OBVIOUS
<1> HIDE DEF second, all
<1>3. second # Result(TRUE, p) /\ second # Result(TRUE, all)
  BY <1>2, SMTT(30) DEF Result
<1> QED
  BY <1>1, <1>3 DEF InstCases, all

\* A collector may make the first mutator panic.
MayPanic(deployed) ==
    \E n \in DOMAIN deployed :
        /\ deployed[n] # Nil
        /\ \E x \in getConfigContainerPorts(deployed[n].config) : x.panic

\* What the mutators have made of a pod they leave as it is, but for the languages that
\* leave no mark and the collectors that may make them panic.
LEMMA ResponseAgain ==
    ASSUME NEW space, NEW p, IsPod(p), NamesOK(space, p), NEW deployed, CollectorsOK(deployed),
           NEW a, InstancesOK(a), NEW local, NEW found, NEW r,
           Responds(space, p, deployed, a, local, found, r), NEW q, Alike(r, q),
           NEW b, InstancesOK(b), SameSpecs(a, b), NEW again, NEW s,
           Responds(space, q, deployed, b, local, again, s)
    PROVE  \/ Immutable(s) = Immutable(q)
           \/ MayPanic(deployed)
           \/ Unmarked(space, p) /\ ~isAutoInstrumentationInjected(q)
<1>1. PICK first : LET second == instMutate(space, first.pod, a, local, found) IN
              /\ SidecarDone(space, p, deployed, found, first)
              /\ \/ ~(first.ok /\ second.ok) /\ r = p
                 \/ /\ first.ok /\ second.ok /\ r = second.pod
                    /\ IsPod(first.pod) /\ NamesOK(space, first.pod) /\ Grown(first.pod, r)
  BY Response
<1>2. PICK f \in sidecarMutate(space, q, deployed, again) :
          LET g == instMutate(space, f.pod, b, local, again)
          IN  s = IF f.ok /\ g.ok THEN g.pod ELSE q
  BY DEF Responds
<1> DEFINE g == instMutate(space, f.pod, b, local, again)
           second == instMutate(space, first.pod, a, local, found)
<1>3. CASE s = q
  BY <1>3
<1>4. CASE f.ok /\ g.ok /\ s = g.pod
  <2>0. IsPod(q)
    BY DEF Alike
  <2>1. SidecarDone(space, q, deployed, again, f)
    BY <2>0, SidecarDoes
  <2>2. /\ IsPod(f.pod) /\ Rest(q, f.pod)
        /\ isAutoInstrumentationInjected(f.pod) <=> isAutoInstrumentationInjected(q)
    BY <1>4, <2>0, <2>1, SidecarKeeps
  <2>3. f.pod.annotations = q.annotations
    BY <2>2 DEF Rest
  <2>4. CASE ~first.ok /\ r = p
    <3>1. /\ existsIn(q) <=> existsIn(p)
          /\ sidecarAnnotationValue(space, q) = sidecarAnnotationValue(space, p)
      BY <2>4, AlikeSame
    <3>2. CASE /\ sidecarAnnotationValue(space, p) \notin {"", "false"} /\ ~existsIn(p)
               /\ CollectorMissing(sidecarAnnotationValue(space, p), deployed)
      BY <1>4, <3>1, <3>2, SidecarFails
    <3>3. CASE \E n \in getCollectorInstance(sidecarAnnotationValue(space, p), deployed) :
                 \E x \in getConfigContainerPorts(deployed[n].config) : x.panic
      BY <3>3 DEF MayPanic, getCollectorInstance
    <3> QED
      BY <1>1, <2>4, <3>2, <3>3 DEF SidecarDone
  <2>5. CASE first.ok /\ ~second.ok /\ r = p
    <3>1. /\ ~isAutoInstrumentationInjected(first.pod)
          /\ Unselectable(space, first.pod, a, local)
      BY <2>5, InstFailed
    <3>2. /\ Rest(p, first.pod)
          /\ isAutoInstrumentationInjected(first.pod) <=> isAutoInstrumentationInjected(p)
      BY <1>1, <2>5, SidecarKeeps
    <3>3. isAutoInstrumentationInjected(q) <=> isAutoInstrumentationInjected(p)
      BY <2>5, AlikeSame
    <3>4. f.pod.annotations = first.pod.annotations
      BY <2>3, <2>5, <3>2 DEF Rest, Alike
    <3>5. Unselectable(space, f.pod, b, local)
      BY <3>1, <3>4, CandidatesSame
    <3> QED
      BY <1>4, <2>2, <3>1, <3>2, <3>3, <3>5, InstFails
  <2>6. CASE /\ first.ok /\ second.ok /\ r = second.pod
             /\ IsPod(first.pod) /\ NamesOK(space, first.pod) /\ Grown(first.pod, r)
    <3>1. Alike(q, f.pod)
      BY <1>1, <1>4, <2>6, SidecarAgain
    <3>2. Alike(second.pod, f.pod)
      <4> HIDE DEF second
      <4> QED
        BY <2>6, <3>1 DEF Alike
    <3>3. \/ Immutable(s) = Immutable(f.pod)
          \/ Unmarked(space, first.pod) /\ ~isAutoInstrumentationInjected(f.pod)
      BY <1>4, <2>6, <3>2, InstAgain
    <3>4. Rest(p, first.pod)
      BY <1>1, <2>6, SidecarKeeps
    <3>5. Unmarked(space, first.pod) => Unmarked(space, p)
      BY <3>4 DEF Unmarked, Wanted, Rest
    <3>6. Immutable(f.pod) = Immutable(q)
      BY <3>1, AlikeSame
    <3> HIDE DEF second, g
    <3> QED
      BY <2>2, <3>3, <3>5, <3>6
  <2> HIDE DEF second, g
  <2> QED
    BY <1>1, <2>4, <2>5, <2>6 DEF second
<1> QED
  BY <1>2, <1>3, <1>4

-----------------------------------------------------------------------------
(* The ports of the collector.                                             *)

Cut(p) == [p EXCEPT !.name = Truncate(@, 15)]

MetricsPort(config) == Port("metrics", getMetricsPort(config), "TCP", "")

PortsAre(ports, col) ==
    LET served == ServedPorts(col.config)
        others == col.ports \cup {MetricsPort(col.config)}
    IN  /\ ports \subseteq {Cut(p) : p \in served} \cup others
        /\ col.ports \subseteq ports
        /\ \A p \in served :
              \/ Cut(p) \in ports \/ ~IsValidPort(Cut(p))
              \/ \E q \in served \ {p} : Cut(q).name = Cut(p).name
              \/ \E q \in others : q.name = Cut(p).name

\* What PortsMatch says of a pod that was created.
PortsRight(namespace, request, new, cols) ==
    \A c \in {d \in Range(new.containers) : d.name = ContainerName} :
    \A n \in getCollectorInstance(sidecarAnnotationValue(namespace, request), cols) :
        WellFormed(cols[n].config) => PortsAre(c.ports, cols[n])

\* A configuration that is well formed has its ports from the receivers that are served.
LEMMA WellFormedPorts ==
    ASSUME NEW config, WellFormed(config), NEW x \in getConfigContainerPorts(config)
    PROVE  x = Found(Override(OnePerName(Named(ServedPorts(config))), {MetricsPort(config)}))
<1> DEFINE all == {config.pipelines[p] : p \in DOMAIN config.pipelines}
<1>1. /\ config.ok /\ config.receivers # Nil /\ config.pipelines # Nil
      /\ {} \notin all /\ {Nil} \notin all
  BY DEF WellFormed
<1>2. all \ {{}, {Nil}} = all
  BY <1>1
<1>3. GetEnabledReceivers(config) = {Found(UNION all)}
  <2>1. GetEnabledReceivers(config) =
          {} \cup {Found(UNION (all \ {{}, {Nil}}))}
    BY <1>1 DEF GetEnabledReceivers
  <2> HIDE DEF all
  <2> QED
    BY <1>2, <2>1
<1>4. ConfigToReceiverPorts(config) = {Found(ServedPorts(config))}
  <2>1. Found(UNION all).found = TRUE /\ Found(UNION all).value = UNION all
    BY DEF Found
  <2>2. ConfigToReceiverPorts(config) =
          {Found(UNION {Ports(r, config.receivers[r]) :
                        r \in DOMAIN config.receivers \cap Found(UNION all).value})}
    <3>1. \A r \in DOMAIN config.receivers \cap Found(UNION all).value :
             ~Panics(r, config.receivers[r])
      BY DEF WellFormed
    <3> HIDE DEF all
    <3> QED
      BY <1>3, <2>1, <3>1 DEF ConfigToReceiverPorts
  <2>3. ServedPorts(config) = UNION {Ports(r, config.receivers[r]) :
                                     r \in DOMAIN config.receivers \cap Found(UNION all).value}
    BY <2>1 DEF ServedPorts
  <2> HIDE DEF all
  <2> QED
    BY <2>1, <2>2, <2>3
<1>5. Found(ServedPorts(config)).panic = FALSE
      /\ Found(ServedPorts(config)).value = ServedPorts(config)
  BY DEF Found
<1>6. PICK r \in ConfigToReceiverPorts(config) :
         x = IF r.panic THEN r
             ELSE Found(Override(OnePerName(Named(r.value)), {MetricsPort(config)}))
  BY <1>1 DEF getConfigContainerPorts, MetricsPort
<1> QED
  BY <1>4, <1>5, <1>6

LEMMA PortsOfCollector ==
    ASSUME NEW col, WellFormed(col.config), NEW x \in getConfigContainerPorts(col.config)
    PROVE  PortsAre(Override(x.value, col.ports), col)
<1> DEFINE served == ServedPorts(col.config)
           named == Named(served)
           one == OnePerName(named)
           metrics == MetricsPort(col.config)
           ports == Override(Override(one, {metrics}), col.ports)
<1>1. x.value = Override(one, {metrics})
  BY WellFormedPorts, SMTT(30) DEF Found
<1>2. \A q \in named : \E p \in served : q = Cut(p)
  BY DEF Named, Cut
<1>3. \A p \in served : IsValidPort(Cut(p)) => Cut(p) \in named
  BY DEF Named, Cut
<1>4. \A q \in one : q \in named
  BY DEF OnePerName
<1>5. \A q \in named : \E r \in one : r.name = q.name
  <2> HIDE DEF named
  <2> SUFFICES ASSUME NEW q \in named PROVE \E r \in one : r.name = q.name
    OBVIOUS
  <2>1. (CHOOSE p \in named : p.name = q.name) \in one
    BY DEF OnePerName
  <2>2. (CHOOSE p \in named : p.name = q.name).name = q.name
    OBVIOUS
  <2> QED
    BY <2>1, <2>2
<1>6. \A q : q \in ports <=> \/ q \in col.ports
                             \/ /\ q = metrics \/ (q \in one /\ metrics.name # q.name)
                                /\ \A r \in col.ports : r.name # q.name
  BY DEF Override
<1> HIDE DEF served, named, one, metrics, ports
<1>7. ports \subseteq {Cut(p) : p \in served} \cup (col.ports \cup {metrics})
  BY <1>2, <1>4, <1>6
<1>8. col.ports \subseteq ports
  BY <1>6
<1>9. ASSUME NEW p \in served
      PROVE  \/ Cut(p) \in ports \/ ~IsValidPort(Cut(p))
             \/ \E q \in served \ {p} : Cut(q).name = Cut(p).name
             \/ \E q \in col.ports \cup {metrics} : q.name = Cut(p).name
  <2>1. SUFFICES ASSUME IsValidPort(Cut(p)),
                        \A q \in col.ports \cup {metrics} : q.name # Cut(p).name,
                        Cut(p) \notin ports
                 PROVE  \E q \in served \ {p} : Cut(q).name = Cut(p).name
    OBVIOUS
  <2>2. PICK r \in one : r.name = Cut(p).name
    BY <1>3, <1>5, <2>1
  <2>3. PICK q \in served : r = Cut(q)
    BY <1>2, <1>4
  <2>4. Cut(p) \notin one
    BY <1>6, <2>1
  <2> QED
    BY <2>2, <2>3, <2>4
<1> QED
  BY <1>1, <1>7, <1>8, <1>9 DEF PortsAre, served, metrics, ports

\* The ports of a collector that is injected are those of its spec, its metrics and its
\* enabled receivers, whatever the pods, collectors and configurations are
\* (container.go, Container and getConfigContainerPorts).
THEOREM ContainerPorts == Spec => []PortsMatch
<1>1. Init => ReadInv /\ PortsMatch
  <2> SUFFICES ASSUME Init PROVE ReadInv /\ PortsMatch
    OBVIOUS
  <2>1. outcome # "created"
    BY DEF Init
  <2> QED
    BY <2>1, InitReads DEF PortsMatch
<1>2. ReadInv /\ PortsMatch /\ [Next]_vars => ReadInv' /\ PortsMatch'
  <2> SUFFICES ASSUME ReadInv, PortsMatch, [Next]_vars
               PROVE  PortsMatch'
    BY StepReads
  <2>1. ImageInv /\ PodType
    BY DEF ReadInv
  <2>2. ImageInv'
    BY StepReads DEF ReadInv
  <2>3. /\ PortsMatch <=> (outcome = "created" /\ ~existsIn(asked) =>
                              PortsRight(ns, asked, pod, collectors))
        /\ PortsMatch' <=> (outcome' = "created" /\ ~existsIn(asked') =>
                              PortsRight(ns', asked', pod', collectors'))
    BY ONLY TRUE DEF PortsMatch, PortsRight, PortsAre, Cut, MetricsPort
  <2>4. CASE CreatePod
    <3>1. PICK p \in Requests : \E r : Creates(p, r)
      BY <2>1, <2>4, CreateStep DEF ImageInv
    <3>2. PICK r : Creates(p, r)
      BY <3>1
    <3>3. SUFFICES ASSUME outcome' = "created", ~existsIn(p),
                          NEW c \in Range(pod'.containers), c.name = ContainerName,
                          NEW n \in getCollectorInstance(sidecarAnnotationValue(ns, p), collectors),
                          WellFormed(collectors[n].config)
                   PROVE  PortsAre(c.ports, collectors[n])
      <4>2. asked' = p /\ ns' = ns /\ collectors' = collectors
        BY <3>2 DEF Creates
      <4>3. PortsMatch' <=> (outcome' = "created" /\ ~existsIn(p) =>
                                PortsRight(ns, p, pod', collectors))
        BY <2>3, <4>2
      <4> QED
        BY <4>3 DEF PortsRight
    <3>4. pod' = Stored(r) /\ IsPod(r)
      BY <3>2, <3>3 DEF Creates
    <3>5. pod'.containers = r.containers
      BY <3>4 DEF Stored, IsPod
    <3>6. r # p
      BY <3>3, <3>5 DEF existsIn
    <3>7. PICK found \in BOOLEAN : Responds(ns, p, collectors, instances, Name, found, r)
      BY <3>2, <3>6 DEF Creates
    <3>8. PICK x \in getConfigContainerPorts(collectors[n].config) :
              c.ports = Override(x.value, collectors[n].ports)
      <4>1. InstancesType
        BY <2>1 DEF ImageInv
      <4>2. CollectorsOK(collectors) /\ InstancesOK(instances) /\ IsPod(p) /\ NamesOK(ns, p)
        BY <2>1, <4>1, ReadsOK
      <4> QED
        BY <3>3, <3>5, <3>7, <4>2, ResponsePorts, SMTT(30)
    <3> QED
      BY <3>3, <3>8, PortsOfCollector
  <2>5. CASE UpdatePod \/ DeletePod \/ ReadStep
    <3>1. outcome' # "created"
      BY <2>5 DEF UpdatePod, DeletePod, ReadStep
    <3> QED
      BY <3>1 DEF PortsMatch
  <2>6. CASE ImageStep
    BY <2>3, <2>6 DEF ImageStep
  <2> QED
    BY <2>1, <2>4, <2>5, <2>6, PodSteps
<1> QED
  BY <1>1, <1>2, PTL DEF Spec

-----------------------------------------------------------------------------
(* All or nothing.                                                         *)

\* A pod is what was asked for, or it has all that it is annotated with, whatever fails
\* and whatever is not answered (webhookhandler.go, Handle; podmutator.go, Mutate).
THEOREM PodsComplete == Spec => []AllOrNothing
<1>1. Init => ReadInv /\ AllOrNothing
  <2> SUFFICES ASSUME Init PROVE ReadInv /\ AllOrNothing
    OBVIOUS
  <2>1. outcome # "created"
    BY DEF Init
  <2> QED
    BY <2>1, InitReads DEF AllOrNothing
<1>2. ReadInv /\ AllOrNothing /\ [Next]_vars => ReadInv' /\ AllOrNothing'
  <2> SUFFICES ASSUME ReadInv, AllOrNothing, [Next]_vars
               PROVE  AllOrNothing'
    BY StepReads
  <2>1. ImageInv /\ PodType
    BY DEF ReadInv
  <2>2. ImageInv'
    BY StepReads DEF ReadInv
  <2>3. CASE CreatePod
    <3>1. PICK p \in Requests : \E r : Creates(p, r)
      BY <2>1, <2>3, CreateStep DEF ImageInv
    <3>2. PICK r : Creates(p, r)
      BY <3>1
    <3>3. SUFFICES ASSUME outcome' = "created", Immutable(pod') # Immutable(p)
                   PROVE  Complete(ns, p, collectors, instances, Name, pod')
      <4>1. AllOrNothing' =
              (outcome' = "created" /\ Immutable(pod') # Immutable(p) =>
                 Complete(ns, p, collectors, instances, Name, pod'))
        BY <3>2 DEF AllOrNothing, Complete, Creates
      <4> QED
        BY <4>1
    <3>4. pod' = Stored(r) /\ IsPod(r)
      BY <3>2, <3>3 DEF Creates
    <3>5. /\ pod'.containers = r.containers /\ pod'.inits = r.inits /\ pod'.volumes = r.volumes
          /\ pod'.shareProcessNamespace = r.shareProcessNamespace
      BY <3>4 DEF Stored, IsPod
    <3>6. r # p
      BY <3>3, <3>5 DEF Immutable
    <3>7. PICK found \in BOOLEAN : Responds(ns, p, collectors, instances, Name, found, r)
      BY <3>2, <3>6 DEF Creates
    <3>8. Complete(ns, p, collectors, instances, Name, r)
      <4>1. InstancesType
        BY <2>1 DEF ImageInv
      <4>2. CollectorsOK(collectors) /\ InstancesOK(instances) /\ IsPod(p) /\ NamesOK(ns, p)
        BY <2>1, <4>1, ReadsOK
      <4> QED
        BY <3>6, <3>7, <4>2, ResponseComplete
    <3> QED
      BY <3>5, <3>8 DEF Complete, existsIn
  <2>4. CASE UpdatePod \/ DeletePod \/ ReadStep
    <3>1. outcome' # "created"
      BY <2>4 DEF UpdatePod, DeletePod, ReadStep
    <3> QED
      BY <3>1 DEF AllOrNothing
  <2>5. CASE ImageStep
    <3>1. \A l : Candidates(ns', asked', l, instances', Name) = Candidates(ns, asked, l, instances, Name)
      <4>1. instances \in [Name -> Instance \cup {Nil}] /\ instances' \in [Name -> Instance \cup {Nil}]
        BY <2>1, <2>2 DEF ImageInv, InstancesType
      <4>2. {n \in DOMAIN instances' : instances'[n] # Nil} = {n \in DOMAIN instances : instances[n] # Nil}
        BY <2>5, <4>1 DEF ImageStep, SameSpecs
      <4>3. ns' = ns /\ asked' = asked
        BY <2>5 DEF ImageStep
      <4> QED
        BY <4>2, <4>3 DEF Candidates
    <3>2. /\ ns' = ns /\ collectors' = collectors /\ asked' = asked /\ pod' = pod
          /\ outcome' = outcome
      BY <2>5 DEF ImageStep
    <3> QED
      BY <3>1, <3>2 DEF AllOrNothing
  <2> QED
    BY <2>1, <2>3, <2>4, <2>5, PodSteps
<1> QED
  BY <1>1, <1>2, PTL DEF Spec

-----------------------------------------------------------------------------
(* Updates.                                                                *)

\* UpdatesPass has an exception for the pod and what the mutators read.
Excepted(namespace, request, stored, cols) ==
    \/ \E n \in Name : cols[n] # Nil /\ ~WellFormed(cols[n].config)
    \/ /\ {l \in Language \cup {"sdk"} :
              Wanted(namespace, request, l) /\ l \in Enabled \cup {"sdk"}} \cap {"sdk", "apache"} # {}
       /\ ~isAutoInstrumentationInjected(stored)

\* The mutators leave the pod as it is, whatever the images of the instances are.
Settled(namespace, stored, cols, insts) ==
    \A new, found, r :
        /\ SameSpecs(insts, new) /\ InstancesOK(new)
        /\ Responds(namespace, stored, cols, new, Name, found, r)
        => Immutable(r) = Immutable(stored)

UpdateInv ==
    /\ UpdatesPass
    /\ pod # Nil => changed \/ Excepted(ns, asked, pod, collectors)
                            \/ Settled(ns, pod, collectors, instances)

LEMMA NoPanic ==
    ASSUME PodType, MayPanic(collectors)
    PROVE  \E n \in Name : collectors[n] # Nil /\ ~WellFormed(collectors[n].config)
<1>1. PICK n \in DOMAIN collectors :
          /\ collectors[n] # Nil
          /\ \E x \in getConfigContainerPorts(collectors[n].config) : x.panic
  BY DEF MayPanic
<1>2. n \in Name
  BY DEF PodType
<1>3. PICK x \in getConfigContainerPorts(collectors[n].config) : x.panic
  BY <1>1
<1>4. ~WellFormed(collectors[n].config)
  <2> SUFFICES ASSUME WellFormed(collectors[n].config) PROVE FALSE
    OBVIOUS
  <2>1. x = Found(Override(OnePerName(Named(ServedPorts(collectors[n].config))),
                           {MetricsPort(collectors[n].config)}))
    BY WellFormedPorts
  <2> QED
    BY <1>3, <2>1 DEF Found
<1> QED
  BY <1>1, <1>2, <1>4

LEMMA CreateUpdates ==
    ASSUME ReadInv, CreatePod
    PROVE  UpdateInv'
<1>1. PodType /\ InstancesType
  BY DEF ReadInv, ImageInv
<1>2. PICK p \in Requests : \E r : Creates(p, r)
  BY <1>1, CreateStep
<1>3. PICK r : Creates(p, r)
  BY <1>2
<1>4. outcome' # "not updated"
  BY <1>3 DEF Creates
<1>5. UpdatesPass'
  BY <1>4 DEF UpdatesPass
<1>6. asked' = p /\ ns' = ns /\ collectors' = collectors /\ instances' = instances
  BY <1>3 DEF Creates
<1>7. ASSUME pod' # Nil
      PROVE  changed' \/ Excepted(ns, p, pod', collectors)
                      \/ Settled(ns, pod', collectors, instances)
  <2>1. pod' = Stored(r) /\ IsPod(r)
    BY <1>3, <1>7 DEF Creates
  <2>2. Alike(r, pod')
    BY <2>1, StoredAlike
  <2>3. CASE changed'
    BY <2>3
  <2>4. CASE \E found \in BOOLEAN : Responds(ns, p, collectors, instances, Name, found, r)
    <3>1. PICK found \in BOOLEAN : Responds(ns, p, collectors, instances, Name, found, r)
      BY <2>4
    <3>2. CollectorsOK(collectors) /\ InstancesOK(instances) /\ IsPod(p) /\ NamesOK(ns, p)
      BY <1>1, ReadsOK
    <3>3. SUFFICES ASSUME ~Excepted(ns, p, pod', collectors),
                          NEW new, NEW again, NEW s, SameSpecs(instances, new), InstancesOK(new),
                          Responds(ns, pod', collectors, new, Name, again, s)
                   PROVE  Immutable(s) = Immutable(pod')
      BY DEF Settled
    <3>4. \/ Immutable(s) = Immutable(pod')
          \/ MayPanic(collectors)
          \/ Unmarked(ns, p) /\ ~isAutoInstrumentationInjected(pod')
      BY <2>2, <3>1, <3>2, <3>3, ResponseAgain, SMTT(30)
    <3>5. ~MayPanic(collectors)
      BY <1>1, <3>3, NoPanic DEF Excepted
    <3>6. ~(Unmarked(ns, p) /\ ~isAutoInstrumentationInjected(pod'))
      BY <3>3 DEF Excepted, Unmarked, Language
    <3> QED
      BY <3>4, <3>5, <3>6
  <2> QED
    BY <1>3, <2>3, <2>4 DEF Creates
<1> QED
  BY <1>5, <1>6, <1>7 DEF UpdateInv

LEMMA UpdateUpdates ==
    ASSUME ReadInv, UpdateInv, UpdatePod
    PROVE  UpdateInv'
<1>1. PodType /\ InstancesType
  BY DEF ReadInv, ImageInv
<1>2. /\ ns' = ns /\ collectors' = collectors /\ instances' = instances /\ asked' = asked
      /\ pod' = pod /\ changed' = changed /\ pod # Nil
  BY DEF UpdatePod, podVars
<1>3. PICK found \in BOOLEAN : \E response \in Handle(pod, found) :
          outcome' = IF Immutable(response) = Immutable(pod) THEN "updated" ELSE "not updated"
  BY DEF UpdatePod
<1>4. PICK r \in Handle(pod, found) :
          outcome' = IF Immutable(r) = Immutable(pod) THEN "updated" ELSE "not updated"
  BY <1>3
<1>5. Responds(ns, pod, collectors, instances, Name, found, r)
  BY HandleResponds
<1>6. InstancesOK(instances)
  BY <1>1, ReadsOK
<1>7. SameSpecs(instances, instances)
  BY DEF SameSpecs
<1>8. CASE Immutable(r) = Immutable(pod)
  <2>1. outcome' # "not updated"
    BY <1>4, <1>8
  <2>2. UpdatesPass'
    BY <2>1 DEF UpdatesPass
  <2> QED
    BY <1>2, <2>2 DEF UpdateInv
<1>9. CASE Immutable(r) # Immutable(pod)
  <2>1. ~Settled(ns, pod, collectors, instances)
    BY <1>5, <1>6, <1>7, <1>9 DEF Settled
  <2>2. changed \/ Excepted(ns, asked, pod, collectors)
    BY <1>2, <2>1 DEF UpdateInv
  <2>3. changed' \/ Excepted(ns', asked', pod', collectors')
    BY <1>2, <2>2
  <2>4. UpdatesPass'
    BY <2>3 DEF UpdatesPass, Excepted, Selected
  <2> QED
    BY <1>2, <2>4 DEF UpdateInv
<1> QED
  BY <1>8, <1>9

LEMMA SpecsTwice ==
    ASSUME NEW a, NEW b, NEW c, SameSpecs(a, b), SameSpecs(b, c)
    PROVE  SameSpecs(a, c)
BY DEF SameSpecs

\* An update of a pod passes, as long as what the mutators read is as it was when the pod
\* was created, whatever becomes of the images in the meantime: the mutators leave alone
\* what they have made, but for the cases that UpdatesPass names (podmutator.go, Mutate).
THEOREM UpdatesAccepted == Spec => []UpdatesPass
<1>1. Init => ReadInv /\ UpdateInv
  <2> SUFFICES ASSUME Init PROVE ReadInv /\ UpdateInv
    OBVIOUS
  <2>1. outcome # "not updated" /\ pod = Nil
    BY DEF Init
  <2> QED
    BY <2>1, InitReads DEF UpdateInv, UpdatesPass
<1>2. ReadInv /\ UpdateInv /\ [Next]_vars => ReadInv' /\ UpdateInv'
  <2> SUFFICES ASSUME ReadInv, UpdateInv, [Next]_vars
               PROVE  UpdateInv'
    BY StepReads
  <2>1. ImageInv /\ PodType
    BY DEF ReadInv
  <2>2. CASE CreatePod
    BY <2>2, CreateUpdates
  <2>3. CASE UpdatePod
    BY <2>3, UpdateUpdates
  <2>4. CASE DeletePod
    <3>1. pod' = Nil /\ outcome' # "not updated"
      BY <2>4 DEF DeletePod
    <3> QED
      BY <3>1 DEF UpdateInv, UpdatesPass
  <2>5. CASE ReadStep
    <3>1. changed' = TRUE /\ outcome' # "not updated"
      BY <2>5 DEF ReadStep
    <3> QED
      BY <3>1 DEF UpdateInv, UpdatesPass
  <2>6. CASE ImageStep
    <3>1. /\ ns' = ns /\ collectors' = collectors /\ asked' = asked /\ pod' = pod
          /\ outcome' = outcome /\ changed' = changed
      BY <2>6 DEF ImageStep
    <3>2. UpdatesPass'
      <4>1. /\ UpdatesPass <=> (outcome = "not updated" =>
                                   changed \/ Excepted(ns, asked, pod, collectors))
            /\ UpdatesPass' <=> (outcome' = "not updated" =>
                                   changed' \/ Excepted(ns', asked', pod', collectors'))
        BY ONLY TRUE DEF UpdatesPass, Excepted, Selected
      <4> QED
        BY <3>1, <4>1 DEF UpdateInv
    <3>3. Settled(ns, pod, collectors, instances) => Settled(ns, pod, collectors, instances')
      BY <2>6, SpecsTwice DEF ImageStep, Settled
    <3>4. pod' # Nil => changed' \/ Excepted(ns', asked', pod', collectors')
                                 \/ Settled(ns', pod', collectors', instances')
      BY <3>1, <3>3 DEF UpdateInv
    <3> QED
      BY <3>2, <3>4 DEF UpdateInv
  <2> QED
    BY <2>1, <2>2, <2>3, <2>4, <2>5, <2>6, PodSteps
<1>3. UpdateInv => UpdatesPass
  BY DEF UpdateInv
<1> QED
  BY <1>1, <1>2, <1>3, PTL DEF Spec

=============================================================================
