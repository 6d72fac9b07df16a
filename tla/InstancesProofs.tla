-------------------------- MODULE InstancesProofs ---------------------------
(***************************************************************************)
(* Proofs about the collector instances, for every set of them, whatever   *)
(* users and the remote server write, however often, and for every order   *)
(* of writes, stops and failures: what the webhook fills in and lets in,   *)
(* the types, what is written, what the OpAMP bridge deletes and reports,  *)
(* what the steps of the upgrade make of a spec, and what is left of what  *)
(* a user or the bridge wrote.                                             *)
(***************************************************************************)
EXTENDS Instances, TLAPS

\* The prover of a leaf that names none.
USE ZenonT(60)

-----------------------------------------------------------------------------
(* The webhook.                                                            *)

\* The types of the fields that Default looks at.
LEMMA FieldTypes ==
    ASSUME NEW s \in Specs
    PROVE  /\ s.replicas \in Number /\ s.minReplicas \in Number /\ s.maxReplicas \in Number
           /\ s.autoscaler \in Autoscalers \cup {Nil}
           /\ s.targetAllocator \in TargetAllocators
           /\ s.ingress \in Ingresses
BY DEF Specs

\* A number stays one, and gets a default.
LEMMA OrType ==
    ASSUME NEW v \in Number, NEW w \in Number
    PROVE  Or(v, w) \in Number
BY DEF Or

\* The numbers that Default fills in.
LEMMA OneIsNumber == 1 \in Number /\ 90 \in Number
BY SMTT(30) DEF Number

\* Setting the fields of an autoscaler.
LEMMA AutoscalerType ==
    ASSUME NEW a \in Autoscalers, NEW max \in Number, NEW min \in Number, NEW cpu \in Number
    PROVE  [a EXCEPT !.maxReplicas = max, !.minReplicas = min, !.cpu = cpu] \in Autoscalers
BY DEF Autoscalers

\* The autoscaler that Default leaves in a spec that asks for one.
LEMMA DefaultedAutoscaler ==
    ASSUME NEW s \in Specs, Autoscaled(s)
    PROVE  LET a == Or(s.autoscaler, EmptyAutoscaler)
               b == DefaultAutoscaler(s)
           IN  /\ a \in Autoscalers /\ b \in Autoscalers /\ b # Nil
               /\ b.maxReplicas = Or(a.maxReplicas, s.maxReplicas)
               /\ b.minReplicas = Or(a.minReplicas, Or(s.minReplicas, Or(s.replicas, 1)))
               /\ b.cpu = IF a.memory = Nil THEN Or(a.cpu, 90) ELSE a.cpu
               /\ b.memory = a.memory
               /\ b.maxReplicas # Nil /\ b.minReplicas # Nil
<1> DEFINE a == Or(s.autoscaler, EmptyAutoscaler)
           b == DefaultAutoscaler(s)
           max == Or(a.maxReplicas, s.maxReplicas)
           min == Or(a.minReplicas, Or(s.minReplicas, Or(s.replicas, 1)))
           cpu == IF a.memory = Nil THEN Or(a.cpu, 90) ELSE a.cpu
<1>1. EmptyAutoscaler \in Autoscalers
  BY DEF EmptyAutoscaler, Autoscalers, Number
<1>2. a \in Autoscalers
  BY <1>1, FieldTypes DEF Or
<1>3. b = [a EXCEPT !.maxReplicas = max, !.minReplicas = min, !.cpu = cpu]
  <2>1. \A x \in Autoscalers :
            [x EXCEPT !.maxReplicas = Or(@, s.maxReplicas),
                      !.minReplicas = Or(@, Or(s.minReplicas, Or(s.replicas, 1))),
                      !.cpu = IF x.memory = Nil THEN Or(@, 90) ELSE @]
            = [x EXCEPT !.maxReplicas = Or(x.maxReplicas, s.maxReplicas),
                        !.minReplicas = Or(x.minReplicas, Or(s.minReplicas, Or(s.replicas, 1))),
                        !.cpu = IF x.memory = Nil THEN Or(x.cpu, 90) ELSE x.cpu]
    BY DEF Autoscalers
  <2> QED
    BY <1>2, <2>1 DEF DefaultAutoscaler
<1>4. a.maxReplicas \in Number /\ a.minReplicas \in Number /\ a.cpu \in Number
  BY <1>2 DEF Autoscalers
<1>5. max \in Number /\ min \in Number /\ cpu \in Number
  BY <1>4, FieldTypes, OrType, OneIsNumber
<1>6. max # Nil
  <2>1. s.maxReplicas = Nil => s.autoscaler # Nil /\ s.autoscaler.maxReplicas # Nil
    BY DEF Autoscaled
  <2> QED
    BY <2>1 DEF Or
<1>7. min # Nil
  <2>1. 1 # Nil
    BY NilAssumption, SMTT(30)
  <2> QED
    BY <2>1 DEF Or
<1> HIDE DEF a, b, max, min, cpu
<1>8. b \in Autoscalers
  BY <1>2, <1>3, <1>5, AutoscalerType
<1>9. b # Nil
  BY <1>8, NilAssumption
<1>10. b.maxReplicas = max /\ b.minReplicas = min /\ b.cpu = cpu /\ b.memory = a.memory
  BY <1>2, <1>3 DEF Autoscalers
<1> QED
  BY <1>2, <1>6, <1>7, <1>8, <1>9, <1>10 DEF a, b, max, min, cpu

\* Default completes a spec: the result is of the types of the API.
LEMMA DefaultType ==
    ASSUME NEW s \in Specs
    PROVE  Default(s) \in Specs
<1>1. DefaultAutoscaler(s) \in Autoscalers \cup {Nil}
  <2>1. CASE Autoscaled(s)
    BY <2>1, DefaultedAutoscaler
  <2>2. CASE ~Autoscaled(s)
    BY <2>2, FieldTypes DEF DefaultAutoscaler
  <2> QED
    BY <2>1, <2>2
<1>2. DefaultTargetAllocator(s.targetAllocator) \in TargetAllocators
  <2>1. \A t \in TargetAllocators : DefaultTargetAllocator(t) \in TargetAllocators
    <3>1. ASSUME NEW t \in TargetAllocators, t.enabled
          PROVE  [t EXCEPT !.replicas = Or(@, 1), !.limits = Or(@, "500Mi"),
                           !.requests = Or(@, "250Mi")] \in TargetAllocators
      <4>1. /\ Or(t.replicas, 1) \in Number
            /\ Or(t.limits, "500Mi") \in {Nil, "250Mi", "500Mi", "other"}
            /\ Or(t.requests, "250Mi") \in {Nil, "250Mi", "500Mi", "other"}
        BY OneIsNumber DEF TargetAllocators, Or
      <4> QED
        BY <4>1 DEF TargetAllocators
    <3> QED
      BY <3>1 DEF DefaultTargetAllocator
  <2> QED
    BY <2>1, FieldTypes
<1>3. DefaultIngress(s.ingress) \in Ingresses
  BY FieldTypes DEF DefaultIngress, OrEmpty, Ingresses
<1>4. Or(s.replicas, 1) \in Number
  BY FieldTypes, OrType, OneIsNumber
<1>5. /\ OrEmpty(s.mode, "deployment") \in {"", "daemonset", "deployment", "sidecar", "statefulset"}
      /\ OrEmpty(s.upgradeStrategy, "automatic") \in {"", "automatic", "none"}
      /\ OrEmpty(s.managedBy, "opentelemetry-operator") \in
             {"", "opentelemetry-operator", "other"}
  BY DEF OrEmpty, Specs
<1> QED
  BY <1>1, <1>2, <1>3, <1>4, <1>5 DEF Default, Specs

\* What Default makes of the fields of a spec.
LEMMA DefaultFields ==
    ASSUME NEW s \in Specs
    PROVE  /\ Default(s).mode = OrEmpty(s.mode, "deployment")
           /\ Default(s).upgradeStrategy = OrEmpty(s.upgradeStrategy, "automatic")
           /\ Default(s).managedBy = OrEmpty(s.managedBy, "opentelemetry-operator")
           /\ Default(s).replicas = Or(s.replicas, 1)
           /\ Default(s).minReplicas = s.minReplicas
           /\ Default(s).maxReplicas = s.maxReplicas
           /\ Default(s).autoscaler = DefaultAutoscaler(s)
           /\ Default(s).targetAllocator = DefaultTargetAllocator(s.targetAllocator)
           /\ Default(s).ingress = DefaultIngress(s.ingress)
           /\ Default(s).config = s.config /\ Default(s).args = s.args
BY DEF Default, Specs

\* An autoscaler that Default has completed stays as it is when Default runs again.
LEMMA AutoscalerSettled ==
    ASSUME NEW s \in Specs
    PROVE  DefaultAutoscaler(Default(s)) = DefaultAutoscaler(s)
<1> DEFINE d == Default(s)
           a == Or(s.autoscaler, EmptyAutoscaler)
           b == DefaultAutoscaler(s)
<1>1. d.maxReplicas = s.maxReplicas /\ d.autoscaler = b
  BY DefaultFields
<1>2. CASE ~Autoscaled(s)
  <2>1. b = s.autoscaler
    BY <1>2 DEF DefaultAutoscaler
  <2>2. ~Autoscaled(d)
    BY <1>1, <1>2, <2>1 DEF Autoscaled
  <2> QED
    BY <1>1, <2>1, <2>2 DEF DefaultAutoscaler
<1>3. CASE Autoscaled(s)
  <2>1. /\ a \in Autoscalers /\ b \in Autoscalers /\ b # Nil
        /\ b.maxReplicas # Nil /\ b.minReplicas # Nil
        /\ b.cpu = IF a.memory = Nil THEN Or(a.cpu, 90) ELSE a.cpu
        /\ b.memory = a.memory
    BY <1>3, DefaultedAutoscaler
  <2>2. Autoscaled(d)
    BY <1>1, <2>1 DEF Autoscaled
  <2> HIDE DEF a, b, d
  <2>3. DefaultAutoscaler(d) =
            [b EXCEPT !.maxReplicas = Or(@, d.maxReplicas),
                      !.minReplicas = Or(@, Or(d.minReplicas, Or(d.replicas, 1))),
                      !.cpu = IF b.memory = Nil THEN Or(@, 90) ELSE @]
    BY <1>1, <2>1, <2>2 DEF DefaultAutoscaler, Or
  <2>4. /\ Or(b.maxReplicas, d.maxReplicas) = b.maxReplicas
        /\ Or(b.minReplicas, Or(d.minReplicas, Or(d.replicas, 1))) = b.minReplicas
        /\ (IF b.memory = Nil THEN Or(b.cpu, 90) ELSE b.cpu) = b.cpu
    BY <2>1 DEF Or
  <2>5. DefaultAutoscaler(d) = [b EXCEPT !.maxReplicas = b.maxReplicas,
                                         !.minReplicas = b.minReplicas, !.cpu = b.cpu]
    BY <2>1, <2>3, <2>4 DEF Autoscalers
  <2>6. [b EXCEPT !.maxReplicas = b.maxReplicas,
                  !.minReplicas = b.minReplicas, !.cpu = b.cpu] = b
    BY <2>1 DEF Autoscalers
  <2> QED
    BY <2>5, <2>6 DEF b, d
<1> QED
  BY <1>2, <1>3

\* Default is idempotent: it changes no spec that it has completed before, of any
\* type and any number of replicas (opentelemetrycollector_webhook.go, Default).
THEOREM DefaultIdempotent ==
    ASSUME NEW s \in Specs
    PROVE  Default(Default(s)) = Default(s)
<1> DEFINE d == Default(s)
<1>1. d \in Specs
  BY DefaultType
<1>2. DefaultAutoscaler(d) = d.autoscaler
  BY AutoscalerSettled, DefaultFields
<1>3. /\ OrEmpty(d.mode, "deployment") = d.mode
      /\ OrEmpty(d.upgradeStrategy, "automatic") = d.upgradeStrategy
      /\ OrEmpty(d.managedBy, "opentelemetry-operator") = d.managedBy
      /\ Or(d.replicas, 1) = d.replicas
  BY DefaultFields DEF OrEmpty, Or
<1>4. DefaultTargetAllocator(d.targetAllocator) = d.targetAllocator
  <2>1. \A t \in TargetAllocators :
            DefaultTargetAllocator(DefaultTargetAllocator(t)) = DefaultTargetAllocator(t)
    <3> TAKE t \in TargetAllocators
    <3> DEFINE u == DefaultTargetAllocator(t)
    <3>1. CASE ~t.enabled
      BY <3>1 DEF DefaultTargetAllocator
    <3>2. CASE t.enabled
      <4>1. u = [t EXCEPT !.replicas = Or(@, 1), !.limits = Or(@, "500Mi"),
                          !.requests = Or(@, "250Mi")]
        BY <3>2 DEF DefaultTargetAllocator
      <4> HIDE DEF u
      <4>2. /\ u.enabled /\ u.replicas = Or(t.replicas, 1)
            /\ u.limits = Or(t.limits, "500Mi") /\ u.requests = Or(t.requests, "250Mi")
            /\ u = [enabled |-> u.enabled, replicas |-> u.replicas, limits |-> u.limits,
                    requests |-> u.requests]
        BY <3>2, <4>1 DEF TargetAllocators
      <4>3. /\ Or(u.replicas, 1) = u.replicas /\ Or(u.limits, "500Mi") = u.limits
            /\ Or(u.requests, "250Mi") = u.requests
        BY <4>2 DEF Or
      <4>4. DefaultTargetAllocator(u) = [u EXCEPT !.replicas = u.replicas,
                                            !.limits = u.limits, !.requests = u.requests]
        BY <4>2, <4>3 DEF DefaultTargetAllocator
      <4>5. DefaultTargetAllocator(u) = u
        BY <4>2, <4>4
      <4> QED
        BY <4>5 DEF u
    <3> QED
      BY <3>1, <3>2
  <2> QED
    BY <2>1, DefaultFields, FieldTypes
<1>5. DefaultIngress(d.ingress) = d.ingress
  <2>1. \A i \in Ingresses : DefaultIngress(DefaultIngress(i)) = DefaultIngress(i)
    BY DEF DefaultIngress, OrEmpty, Ingresses
  <2> QED
    BY <2>1, DefaultFields, FieldTypes
<1> HIDE DEF d
<1>6. Default(d) = d
  BY <1>1, <1>2, <1>3, <1>4, <1>5 DEF Default, Specs
<1> QED
  BY <1>6 DEF d

\* From a completed spec that passes the validation, with no zero in its autoscaler, the
\* operator builds an autoscaler that the API server takes, for all numbers of replicas
\* (validateCRDSpec, HorizontalPodAutoscaler).
THEOREM AutoscalerFromSpec ==
    ASSUME NEW s \in Specs,
           validateCRDSpec(Default(s)), Autoscaled(Default(s)), ~ZeroReplicas(Default(s))
    PROVE  AutoscalerAcceptable(HorizontalPodAutoscaler(Default(s), "v2"))
<1> DEFINE d == Default(s)
           b == DefaultAutoscaler(s)
<1>1. d.autoscaler = b /\ d.maxReplicas = s.maxReplicas
  BY DefaultFields
<1>2. Autoscaled(s)
  BY <1>1 DEF Autoscaled, DefaultAutoscaler
<1>3. b # Nil /\ b.maxReplicas # Nil /\ b.minReplicas # Nil
  BY <1>2, DefaultedAutoscaler
<1> HIDE DEF b, d
<1>4. b.minReplicas # 0 /\ b.maxReplicas # 0
  BY <1>1, <1>3 DEF ZeroReplicas, d
<1>5. MaxReplicas(d) = b.maxReplicas /\ MinReplicas(d) = b.minReplicas
  BY <1>1, <1>3, <1>4 DEF MaxReplicas, MinReplicas, Or
<1>6. ReplicasFit(d)
  BY <1>3, <1>5 DEF validateCRDSpec, d
<1>7. b.minReplicas <= b.maxReplicas /\ b.minReplicas >= 1
  BY <1>3, <1>5, <1>6 DEF ReplicasFit
<1>8. b.minReplicas \in Int
  BY <1>2, <1>3, DefaultedAutoscaler DEF b, Autoscalers, Number
<1>9. AutoscalerAcceptable(HorizontalPodAutoscaler(d, "v2"))
  BY <1>1, <1>3, <1>7, <1>8 DEF AutoscalerAcceptable, HorizontalPodAutoscaler
<1> QED
  BY <1>9 DEF d

\* The name of the manager is a field of its own.
LEMMA ManagedByField ==
    ASSUME NEW s \in Specs, NEW x
    PROVE  [s EXCEPT !.managedBy = x].config = s.config
<1>1. "config" \in DOMAIN s
  BY DEF Specs
<1>2. \A f \in DOMAIN s : f # "managedBy" => [s EXCEPT !["managedBy"] = x][f] = s[f]
  OBVIOUS
<1> QED
  BY <1>1, <1>2

-----------------------------------------------------------------------------
(* The state.                                                              *)

AgentType ==
    [pc : {"idle", "apply", "write", "delete"}, message : Messages \cup {NoMessage},
     todo : SUBSET Key, key : Key \cup {None}, read : Instance \cup {None}, failed : BOOLEAN]

\* The types that the proofs need.  What the steps of the upgrade make of a spec is not
\* among them.
Types ==
    /\ store \in [Key -> Instance \cup {None}]
    /\ intended \in [Key -> Intention \cup {None}]
    /\ \A k \in Key : store[k] = None <=> intended[k] = None
    /\ DOMAIN upgrade.items \subseteq Key
    /\ \A k \in DOMAIN upgrade.items : upgrade.items[k] \in Instance
    /\ upgrade.pc \in {"patch", "status"} => upgrade.key \in DOMAIN upgrade.items
    /\ agent \in AgentType
    /\ agent.pc = "write" => agent.key \in agent.todo
    /\ appliedKeys \subseteq Key
    /\ reported \in [message : Messages \cup {NoMessage},
                     status : {"UNSET", "APPLIED", "FAILED"}]

\* What a write of a spec stores, and what is intended then.
Wrote(c, k, s, v, o) ==
    LET i == [spec |-> Default(s), version |-> v]
        n == [spec |-> Default(s), from |-> v, by |-> c, owner |-> o]
    IN  /\ store' = [store EXCEPT ![k] = i]
        /\ intended' = [intended EXCEPT ![k] = n]
        /\ i \in Instance /\ n \in Intention

\* A user and the bridge write the completed spec, and it is of the type.
LEMMA WriteSpecFacts ==
    ASSUME Types, NEW c \in {"user", "bridge"}, NEW k \in Key, NEW s \in Specs,
           NEW old \in {store[k], None}, WriteSpec(c, k, old, s)
    PROVE  \E v \in Version : Wrote(c, k, s, v, Owner(c, k, old))
<1> DEFINE v == IF old = None THEN NoVersion ELSE old.version
           o == Owner(c, k, old)
<1>1. v \in Version
  BY SMTT(30) DEF Types, Instance, Version, NoVersion, Current, Latest
<1>2. o \in {"user", "bridge", "recreated"}
  <2>1. old # None => intended[k] \in Intention
    BY DEF Types
  <2> QED
    BY <2>1 DEF Owner, Intention
<1>3. Default(s) \in Specs
  BY DefaultType
<1>4. /\ [spec |-> Default(s), version |-> v] \in Instance
      /\ [spec |-> Default(s), from |-> v, by |-> c, owner |-> o] \in Intention
  <2> HIDE DEF v, o
  <2> QED  BY <1>1, <1>2, <1>3 DEF Instance, Intention
<1>5. /\ store' = [store EXCEPT ![k] = [spec |-> Default(s), version |-> v]]
      /\ intended' = [intended EXCEPT ![k] =
                    [spec |-> Default(s), from |-> v, by |-> c, owner |-> o]]
  BY DEF WriteSpec, Write, Intended
<1>6. Wrote(c, k, s, v, o)
  BY <1>4, <1>5 DEF Wrote
<1> HIDE DEF v
<1> QED
  BY <1>1, <1>6

\* Such a write keeps the types of what it writes.
LEMMA WriteSpecTypes ==
    ASSUME Types, NEW c \in {"user", "bridge"}, NEW k \in Key, NEW s \in Specs,
           NEW old \in {store[k], None}, WriteSpec(c, k, old, s)
    PROVE  /\ store' \in [Key -> Instance \cup {None}]
           /\ intended' \in [Key -> Intention \cup {None}]
           /\ \A j \in Key : store'[j] = None <=> intended'[j] = None
<1>1. PICK v \in Version : Wrote(c, k, s, v, Owner(c, k, old))
  BY WriteSpecFacts
<1> DEFINE i == [spec |-> Default(s), version |-> v]
           n == [spec |-> Default(s), from |-> v, by |-> c, owner |-> Owner(c, k, old)]
<1>2. i # None /\ n # None
  BY <1>1, InstancesAssumption DEF Wrote
<1>3. /\ store' = [store EXCEPT ![k] = i] /\ intended' = [intended EXCEPT ![k] = n]
      /\ i \in Instance /\ n \in Intention
  BY <1>1 DEF Wrote
<1> HIDE DEF i, n
<1> QED
  BY <1>2, <1>3 DEF Types

\* A write of the version keeps the spec of an instance and its type.
LEMMA VersionWritten ==
    ASSUME Types, NEW k \in Key, store[k] # None, NEW v \in Version, NEW c,
           Write(c, k, store[k], [store[k] EXCEPT !.version = v])
    PROVE  /\ store' \in [Key -> Instance \cup {None}]
           /\ \A j \in Key : store'[j] = None <=> store[j] = None
           /\ \A j \in Key : store[j] # None => store'[j].spec = store[j].spec
<1> DEFINE i == [store[k] EXCEPT !.version = v]
<1>1. store[k] \in Instance
  BY DEF Types
<1>2. i \in Instance /\ i.spec = store[k].spec
  BY <1>1 DEF Instance
<1>3. i # None
  BY <1>2, InstancesAssumption
<1>4. store' = [store EXCEPT ![k] = i]
  BY DEF Write
<1> HIDE DEF i
<1> QED
  BY <1>2, <1>3, <1>4 DEF Types

\* The version that the upgrade leaves is one.
LEMMA VersionAfterType ==
    ASSUME NEW v \in Version
    PROVE  VersionAfter(v) \in Version
BY SMTT(30) DEF VersionAfter, Version, NoVersion, Current, Latest

\* A patch of the spec stores what Default makes of it.
LEMMA SpecPatched ==
    ASSUME Types, NEW k \in Key, store[k] # None, NEW s \in Specs,
           Write("upgrade", k, store[k], [store[k] EXCEPT !.spec = Default(s)])
    PROVE  /\ store' \in [Key -> Instance \cup {None}]
           /\ \A j \in Key : store'[j] = None <=> store[j] = None
           /\ \A j \in Key \ {k} : store'[j] = store[j]
           /\ store'[k].spec = Default(s)
<1> DEFINE i == [store[k] EXCEPT !.spec = Default(s)]
<1>1. store[k] \in Instance
  BY DEF Types
<1>2. i \in Instance /\ i.spec = Default(s)
  BY <1>1, DefaultType DEF Instance
<1>3. i # None
  BY <1>2, InstancesAssumption
<1>4. store' = [store EXCEPT ![k] = i]
  BY DEF Write
<1> HIDE DEF i
<1> QED
  BY <1>2, <1>3, <1>4 DEF Types

\* A deletion.
LEMMA DeletionTypes ==
    ASSUME Types, NEW k \in Key, DeleteInstance(k)
    PROVE  /\ store' \in [Key -> Instance \cup {None}]
           /\ intended' \in [Key -> Intention \cup {None}]
           /\ \A j \in Key : store'[j] = None <=> intended'[j] = None
           /\ store'[k] = None
           /\ \A j \in Key \ {k} : store'[j] = store[j] /\ intended'[j] = intended[j]
BY DEF DeleteInstance, Types

-----------------------------------------------------------------------------
(* Types is an invariant.                                                  *)

\* The instances that an operator finds when it starts have their types.
LEMMA TypesInit == Init => Types
<1> SUFFICES ASSUME Init PROVE Types
  OBVIOUS
<1>1. store \in [Key -> Instance \cup {None}]
  BY InstancesAssumption DEF Init
<1>2. \A k \in Key : store[k] # None =>
          Intended(store[k].spec, store[k].version, "user", "user") \in Intention
  BY <1>1 DEF Intended, Intention, Instance
<1>3. /\ intended \in [Key -> Intention \cup {None}]
      /\ \A k \in Key : store[k] = None <=> intended[k] = None
  BY <1>1, <1>2, InstancesAssumption DEF Init
<1>4. DOMAIN upgrade.items = {} /\ upgrade.pc = "down"
  BY DEF Init, Stopped, At, NoItems
<1>5. agent \in AgentType /\ agent.pc = "idle"
  BY DEF Init, Waiting, Handling, AgentType
<1>6. /\ appliedKeys \subseteq Key
      /\ reported \in [message : Messages \cup {NoMessage},
                       status : {"UNSET", "APPLIED", "FAILED"}]
  BY DEF Init, NotReported
<1> QED
  BY <1>1, <1>3, <1>4, <1>5, <1>6 DEF Types

\* Continue drops an instance from the list.
LEMMA ContinueTypes ==
    ASSUME Types, NEW k, Continue(k)
    PROVE  /\ DOMAIN upgrade'.items \subseteq Key
           /\ \A j \in DOMAIN upgrade'.items : upgrade'.items[j] \in Instance
           /\ upgrade'.pc = "loop"
<1> DEFINE items == [j \in DOMAIN upgrade.items \ {k} |-> upgrade.items[j]]
<1>1. upgrade'.pc = "loop" /\ upgrade'.items = items
  BY DEF Continue, At
<1>2. DOMAIN items \subseteq Key /\ \A j \in DOMAIN items : items[j] \in Instance
  BY DEF Types
<1> HIDE DEF items
<1> QED
  BY <1>1, <1>2

\* The steps of the operator keep the types.
LEMMA OperatorTypes ==
    ASSUME Types,
           \/ Start \/ List \/ PatchSpec \/ PatchStatus \/ Upgraded \/ Stop \/ PatchFails
           \/ \E k \in DOMAIN upgrade.items, h \in BOOLEAN : ManagedInstances(k, h)
    PROVE  Types'
<1>1. CASE Start \/ Stop \/ Upgraded
  <2>1. \E pc \in {"list", "down", "done"} : upgrade' = At(pc, NoItems)
    BY <1>1 DEF Start, Stop, Upgraded, Stopped
  <2>2. /\ upgrade'.pc \notin {"patch", "status"} /\ DOMAIN upgrade'.items = {}
    BY <2>1, SMTT(30) DEF At, NoItems
  <2>3. UNCHANGED <<store, intended, agent, appliedKeys, reported>>
    BY <1>1 DEF Start, Stop, Upgraded, bridgeVars, history
  <2> QED
    BY <2>2, <2>3 DEF Types
<1>2. CASE List
  <2> DEFINE listed == {k \in Key : store[k] # None
                                /\ store[k].spec.managedBy = "opentelemetry-operator"}
             items == [k \in listed |-> store[k]]
  <2>1. upgrade'.pc = "loop" /\ upgrade'.items = items
    BY <1>2 DEF List, At
  <2>2. DOMAIN items \subseteq Key /\ \A k \in DOMAIN items : items[k] \in Instance
    BY DEF Types
  <2>3. UNCHANGED <<store, intended, agent, appliedKeys, reported>>
    BY <1>2 DEF List, bridgeVars
  <2> HIDE DEF listed, items
  <2> QED
    BY <2>1, <2>2, <2>3 DEF Types
<1>3. CASE PatchFails
  <2>1. Continue(upgrade.key) /\ UNCHANGED <<store, intended, agent, appliedKeys, reported>>
    BY <1>3 DEF PatchFails, bridgeVars, history
  <2> QED
    BY <2>1, ContinueTypes DEF Types
<1>4. ASSUME NEW k \in DOMAIN upgrade.items, NEW h \in BOOLEAN, ManagedInstances(k, h)
      PROVE  Types'
  <2>1. UNCHANGED <<store, intended, agent, appliedKeys, reported>>
    BY <1>4 DEF ManagedInstances, bridgeVars, history
  <2>2. \/ Continue(k)
        \/ upgrade' = At("blocked", upgrade.items)
        \/ \E s : upgrade' = Patching("patch", k, s, FALSE)
    BY <1>4 DEF ManagedInstances
  <2>3. CASE Continue(k)
    BY <2>1, <2>3, ContinueTypes DEF Types
  <2>4. CASE upgrade' = At("blocked", upgrade.items)
    BY <2>1, <2>4 DEF Types, At
  <2>5. ASSUME NEW s, upgrade' = Patching("patch", k, s, FALSE)
        PROVE  Types'
    <3>1. upgrade'.items = upgrade.items /\ upgrade'.key = k
      BY <2>5 DEF Patching
    <3> QED
      BY <2>1, <3>1 DEF Types
  <2> QED
    BY <2>2, <2>3, <2>4, <2>5
<1>5. CASE PatchSpec
  <2> DEFINE k == upgrade.key
             s == MergePatch(upgrade.items[k].spec, upgrade.spec, store[k].spec)
  <2>1. k \in Key /\ k \in DOMAIN upgrade.items
    BY <1>5 DEF PatchSpec, Types
  <2>2. UNCHANGED <<intended, agent, appliedKeys, reported>>
    BY <1>5 DEF PatchSpec, bridgeVars
  <2>3. CASE store[k] = None \/ ~Admitted(s)
    <3>1. Continue(k) /\ UNCHANGED store
      BY <1>5, <2>3 DEF PatchSpec
    <3> QED
      BY <2>2, <3>1, ContinueTypes DEF Types
  <2>4. CASE ~(store[k] = None \/ ~Admitted(s))
    <3>1. /\ Write("upgrade", k, store[k], [store[k] EXCEPT !.spec = Default(s)])
          /\ \E l : upgrade' = Patching("status", k, upgrade.spec, l)
      BY <1>5, <2>4 DEF PatchSpec
    <3>2. s \in Specs
      BY <2>4 DEF Admitted
    <3>3. upgrade'.items = upgrade.items /\ upgrade'.key = k
      BY <3>1, SMTT(30) DEF Patching
    <3> HIDE DEF k, s
    <3>4. /\ store' \in [Key -> Instance \cup {None}]
          /\ \A j \in Key : store'[j] = None <=> store[j] = None
      BY <2>1, <2>4, <3>1, <3>2, SpecPatched
    <3> QED
      BY <2>1, <2>2, <3>3, <3>4 DEF Types
  <2> QED
    BY <2>3, <2>4
<1>6. CASE PatchStatus
  <2> DEFINE k == upgrade.key
  <2>1. k \in Key /\ upgrade.items[k] \in Instance
    BY <1>6 DEF PatchStatus, Types
  <2>2. Continue(k) /\ UNCHANGED <<intended, agent, appliedKeys, reported>>
    BY <1>6 DEF PatchStatus, bridgeVars
  <2>3. \/ UNCHANGED store
        \/ /\ store[k] # None
           /\ Write("upgrade", k, store[k], [store[k] EXCEPT
                        !.version = VersionAfter(upgrade.items[k].version)])
    BY <1>6 DEF PatchStatus
  <2>4. VersionAfter(upgrade.items[k].version) \in Version
    BY <2>1, VersionAfterType DEF Instance
  <2>5. /\ store' \in [Key -> Instance \cup {None}]
        /\ \A j \in Key : store'[j] = None <=> store[j] = None
    BY <2>1, <2>3, <2>4, VersionWritten DEF Types
  <2> QED
    BY <2>2, <2>5, ContinueTypes DEF Types
<1> QED
  BY <1>1, <1>2, <1>3, <1>4, <1>5, <1>6

\* The agent at a message has its type.
LEMMA HandlingType ==
    ASSUME NEW pc \in {"idle", "apply", "delete"}, NEW m \in Messages \cup {NoMessage},
           NEW todo \in SUBSET Key, NEW failed \in BOOLEAN
    PROVE  /\ Handling(pc, m, todo, failed) \in AgentType
           /\ Handling(pc, m, todo, failed).pc = pc
           /\ Handling(pc, m, todo, failed).message = m
           /\ Handling(pc, m, todo, failed).todo = todo
           /\ Handling(pc, m, todo, failed).failed = failed
BY DEF Handling, AgentType

\* What the agent goes on with after a key.
LEMMA AgentTypes ==
    ASSUME Types, NEW k
    PROVE  /\ agent.message \in Messages \cup {NoMessage}
           /\ agent.todo \subseteq Key /\ agent.todo \ {k} \subseteq Key
           /\ agent.failed \in BOOLEAN /\ DOMAIN agent.message.config \subseteq Key
<1>1. agent.message \in Messages \cup {NoMessage} /\ agent.todo \in SUBSET Key
      /\ agent.failed \in BOOLEAN
  BY DEF Types, AgentType
<1>2. DOMAIN agent.message.config \subseteq Key
  BY <1>1, InstancesAssumption, SMTT(30) DEF NoMessage
<1> QED
  BY <1>1, <1>2

\* The agent goes on with the next key of the message.
LEMMA NextKeyTypes ==
    ASSUME Types, NEW k, NEW f \in BOOLEAN, NextKey(k, f)
    PROVE  /\ agent' \in AgentType /\ agent'.pc = "apply"
           /\ agent'.message = agent.message /\ agent'.todo = agent.todo \ {k}
           /\ agent'.failed = (agent.failed \/ f)
<1>1. (agent.failed \/ f) \in BOOLEAN
  BY AgentTypes
<1> QED
  BY <1>1, AgentTypes, HandlingType, SMTT(30) DEF NextKey

\* The steps of the bridge keep the types.
LEMMA BridgeTypes ==
    ASSUME Types,
           \/ ApplyWrites \/ BeginDeletes \/ Report \/ RestartBridge
           \/ \E m \in Messages : onMessage(m)
           \/ \E k \in agent.todo : Apply(k) \/ Delete(k) \/ CallFails(k)
    PROVE  Types'
<1>1. ASSUME NEW m \in Messages, onMessage(m)
      PROVE  Types'
  <2>1. {k \in DOMAIN m.config : m.config[k] # Nil} \in SUBSET Key /\ m.malformedKey \in BOOLEAN
    BY InstancesAssumption
  <2>2. agent' \in AgentType /\ agent'.pc = "apply"
    BY <1>1, <2>1, HandlingType, SMTT(30) DEF onMessage
  <2>3. UNCHANGED <<store, intended, upgrade, appliedKeys, reported>>
    BY <1>1 DEF onMessage, operatorVars, history
  <2> QED
    BY <2>2, <2>3 DEF Types
<1>2. ASSUME NEW k \in agent.todo, Apply(k)
      PROVE  Types'
  <2>1. UNCHANGED <<store, intended, upgrade, appliedKeys, reported>>
    BY <1>2 DEF Apply, operatorVars, history
  <2>2. CASE NextKey(k, TRUE)
    <3>1. agent' \in AgentType /\ agent'.pc = "apply"
      BY <2>2, NextKeyTypes
    <3> QED
      BY <2>1, <3>1 DEF Types
  <2>3. CASE agent' = Writing(k, store[k])
    <3>1. k \in Key /\ store[k] \in Instance \cup {None}
      BY AgentTypes DEF Types
    <3>2. agent' \in AgentType /\ agent'.key = k /\ agent'.todo = agent.todo
      BY <2>3, <3>1, AgentTypes DEF Writing, AgentType
    <3> QED
      BY <2>1, <3>2 DEF Types
  <2> QED
    BY <1>2, <2>2, <2>3 DEF Apply
<1>3. CASE ApplyWrites
  <2> DEFINE k == agent.key
  <2>1. k \in Key
    BY <1>3, AgentTypes DEF ApplyWrites, Types
  <2>2. NextKey(k, ~Accepted) /\ UNCHANGED <<upgrade, reported>>
    BY <1>3 DEF ApplyWrites, operatorVars
  <2>3. agent' \in AgentType /\ agent'.pc = "apply"
    BY <2>2, NextKeyTypes
  <2>4. CASE Accepted
    <3>1. WriteSpec("bridge", k, store[k], Sent) /\ appliedKeys' = appliedKeys \cup {k}
      BY <1>3, <2>4 DEF ApplyWrites
    <3>2. Sent \in Specs
      BY <2>4 DEF Accepted, Admitted
    <3>3. /\ store' \in [Key -> Instance \cup {None}]
          /\ intended' \in [Key -> Intention \cup {None}]
          /\ \A j \in Key : store'[j] = None <=> intended'[j] = None
      BY <2>1, <3>1, <3>2, WriteSpecTypes
    <3> QED
      BY <2>1, <2>2, <2>3, <3>1, <3>3 DEF Types
  <2>5. CASE ~Accepted
    <3>1. UNCHANGED <<store, intended, appliedKeys>>
      BY <1>3, <2>5 DEF ApplyWrites, history
    <3> QED
      BY <2>2, <2>3, <3>1 DEF Types
  <2> QED
    BY <2>4, <2>5
<1>4. CASE BeginDeletes
  <2>1. UNCHANGED <<store, intended, upgrade, appliedKeys, reported>>
    BY <1>4 DEF BeginDeletes, operatorVars, history
  <2>2. appliedKeys \ DOMAIN agent.message.config \in SUBSET Key
    BY DEF Types
  <2>3. agent' \in AgentType /\ agent'.pc = "delete"
    BY <1>4, <2>2, AgentTypes, HandlingType, SMTT(30) DEF BeginDeletes
  <2> QED
    BY <2>1, <2>3 DEF Types
<1>5. ASSUME NEW k \in agent.todo, Delete(k)
      PROVE  Types'
  <2>1. UNCHANGED <<upgrade, appliedKeys, reported>>
    BY <1>5 DEF Delete, operatorVars
  <2>2. agent' \in AgentType /\ agent'.pc = "delete"
    <3>1. agent' = Handling("delete", agent.message, agent.todo \ {k}, agent.failed)
      BY <1>5 DEF Delete
    <3> QED
      BY <3>1, AgentTypes, HandlingType, SMTT(30)
  <2>3. \/ UNCHANGED <<store, intended>>
        \/ DeleteInstance(k)
    BY <1>5 DEF Delete, history
  <2>4. k \in Key
    BY AgentTypes
  <2> QED
    BY <2>1, <2>2, <2>3, <2>4, DeletionTypes DEF Types
<1>6. ASSUME NEW k \in agent.todo, CallFails(k)
      PROVE  Types'
  <2>1. UNCHANGED <<store, intended, upgrade, appliedKeys, reported>>
    BY <1>6 DEF CallFails, operatorVars, history
  <2>2. \/ agent' = Handling("delete", agent.message, agent.todo \ {k}, TRUE)
        \/ NextKey(k, TRUE)
    BY <1>6 DEF CallFails
  <2>3. CASE agent' = Handling("delete", agent.message, agent.todo \ {k}, TRUE)
    <3>1. agent' \in AgentType /\ agent'.pc = "delete"
      BY <2>3, AgentTypes DEF Handling, AgentType
    <3> QED
      BY <2>1, <3>1 DEF Types
  <2>4. CASE NextKey(k, TRUE)
    <3>1. agent' \in AgentType /\ agent'.pc = "apply"
      BY <2>4, NextKeyTypes
    <3> QED
      BY <2>1, <3>1 DEF Types
  <2> QED
    BY <2>2, <2>3, <2>4
<1>7. CASE Report \/ RestartBridge
  <2>1. UNCHANGED <<store, intended, upgrade>>
    BY <1>7 DEF Report, RestartBridge, operatorVars, history
  <2>2. agent' \in AgentType /\ agent'.pc = "idle"
    <3>1. agent' = Waiting
      BY <1>7 DEF Report, RestartBridge
    <3> QED
      BY <3>1 DEF Waiting, Handling, AgentType
  <2>3. /\ appliedKeys' \subseteq Key
        /\ reported' \in [message : Messages \cup {NoMessage},
                          status : {"UNSET", "APPLIED", "FAILED"}]
    BY <1>7, AgentTypes, SMTT(30) DEF Report, RestartBridge, NotReported, Types
  <2> QED
    BY <2>1, <2>2, <2>3 DEF Types
<1> QED
  BY <1>1, <1>2, <1>3, <1>4, <1>5, <1>6, <1>7

\* The steps of users and of reconcile.Self keep the types.
LEMMA UserTypes ==
    ASSUME Types,
           \/ \E k \in Key : Self(k) \/ UserDeletes(k)
           \/ \E k \in Key : \E s : UserWrites(k, s)
    PROVE  Types'
<1>1. ASSUME NEW k \in Key, Self(k)
      PROVE  Types'
  <2>1. UNCHANGED <<intended, upgrade, agent, appliedKeys, reported>>
    BY <1>1 DEF Self, operatorVars, bridgeVars, history
  <2>2. /\ store[k] # None
        /\ Write("operator", k, store[k], [store[k] EXCEPT !.version = Current])
    BY <1>1 DEF Self
  <2>3. Current \in Version
    BY SMTT(30) DEF Version, Current, NoVersion, Latest
  <2>4. /\ store' \in [Key -> Instance \cup {None}]
        /\ \A j \in Key : store'[j] = None <=> store[j] = None
    BY <2>2, <2>3, VersionWritten
  <2> QED
    BY <2>1, <2>4 DEF Types
<1>2. ASSUME NEW k \in Key, UserDeletes(k)
      PROVE  Types'
  <2>1. DeleteInstance(k) /\ UNCHANGED <<upgrade, agent, appliedKeys, reported>>
    BY <1>2 DEF UserDeletes, operatorVars, bridgeVars
  <2> QED
    BY <2>1, DeletionTypes DEF Types
<1>3. ASSUME NEW k \in Key, NEW s, UserWrites(k, s)
      PROVE  Types'
  <2>1. UNCHANGED <<upgrade, agent, appliedKeys, reported>>
    BY <1>3 DEF UserWrites, operatorVars, bridgeVars
  <2>2. s \in Specs
    BY <1>3 DEF UserWrites, Admitted
  <2>3. PICK old \in {store[k], None} : WriteSpec("user", k, old, s)
    BY <1>3 DEF UserWrites
  <2>4. /\ store' \in [Key -> Instance \cup {None}]
        /\ intended' \in [Key -> Intention \cup {None}]
        /\ \A j \in Key : store'[j] = None <=> intended'[j] = None
    BY <2>2, <2>3, WriteSpecTypes
  <2> QED
    BY <2>1, <2>4 DEF Types
<1> QED
  BY <1>1, <1>2, <1>3

\* The actions, by whose variables they change.
OperatorAction ==
    \/ Start \/ List \/ PatchSpec \/ PatchStatus \/ Upgraded \/ Stop \/ PatchFails
    \/ \E k \in DOMAIN upgrade.items, h \in BOOLEAN : ManagedInstances(k, h)

BridgeAction ==
    \/ ApplyWrites \/ BeginDeletes \/ Report \/ RestartBridge
    \/ \E m \in Messages : onMessage(m)
    \/ \E k \in agent.todo : Apply(k) \/ Delete(k) \/ CallFails(k)

UserAction ==
    \/ \E k \in Key : Self(k) \/ UserDeletes(k)
    \/ \E k \in Key : \E s : UserWrites(k, s)

\* Every step is one of the operator, of the bridge, or of reconcile.Self and users.
LEMMA NextActions == Next => OperatorAction \/ BridgeAction \/ UserAction
BY DEF Next, OperatorStep, SelfStep, BridgeStep, EnvironmentStep, OperatorAction,
             BridgeAction, UserAction

\* Every step keeps the types.
LEMMA TypesNext == Types /\ [Next]_vars => Types'
<1>1. CASE UNCHANGED vars
  BY <1>1 DEF Types, vars
<1>2. ASSUME Types, Next
      PROVE  Types'
  BY <1>2, NextActions, OperatorTypes, BridgeTypes, UserTypes
     DEF OperatorAction, BridgeAction, UserAction
<1> QED
  BY <1>1, <1>2

\* The types hold always.
LEMMA TypesInvariant == Spec => []Types
BY TypesInit, TypesNext, PTL DEF Spec

-----------------------------------------------------------------------------
(* What is written.                                                        *)

\* A spec that a step writes is a completed one that passed the validation.
LEMMA AdmittedWrites ==
    ASSUME Types, Next, NEW k \in Key,
           store'[k] # None, store[k] # None => store'[k].spec # store[k].spec
    PROVE  \E s \in Specs : store'[k].spec = Default(s) /\ validateCRDSpec(Default(s))
<1> DEFINE Good == \E s \in Specs : store'[k].spec = Default(s) /\ validateCRDSpec(Default(s))
<1>1. store[k] # None => store'[k] # store[k]
  OBVIOUS
<1>2. ASSUME NEW c \in {"user", "bridge"}, NEW j \in Key, NEW s,
             NEW old \in {store[j], None}, WriteSpec(c, j, old, s), Admitted(s)
      PROVE  Good
  <2>1. s \in Specs /\ validateCRDSpec(Default(s))
    BY <1>2 DEF Admitted
  <2>2. PICK v \in Version : Wrote(c, j, s, v, Owner(c, j, old))
    BY <1>2, <2>1, WriteSpecFacts
  <2>3. store' = [store EXCEPT ![j] = [spec |-> Default(s), version |-> v]]
    BY <2>2 DEF Wrote
  <2>4. j = k
    BY <1>1, <2>3 DEF Types
  <2>5. store'[k].spec = Default(s)
    BY <2>3, <2>4 DEF Types
  <2> QED
    BY <2>1, <2>5
<1>3. ASSUME NEW j \in Key, DeleteInstance(j)
      PROVE  FALSE
  BY <1>1, <1>3, DeletionTypes
<1>4. CASE OperatorAction
  <2>1. \/ UNCHANGED store \/ PatchSpec \/ PatchStatus
    BY <1>4 DEF OperatorAction, Start, List, Upgraded, Stop, PatchFails,
                       ManagedInstances
  <2>2. CASE PatchSpec
    <3> DEFINE j == upgrade.key
               s == MergePatch(upgrade.items[j].spec, upgrade.spec, store[j].spec)
    <3>1. j \in Key
      BY <2>2 DEF PatchSpec, Types
    <3>2. /\ store[j] # None /\ Admitted(s)
          /\ Write("upgrade", j, store[j], [store[j] EXCEPT !.spec = Default(s)])
      BY <1>1, <2>2 DEF PatchSpec
    <3>3. s \in Specs /\ validateCRDSpec(Default(s))
      BY <3>2 DEF Admitted
    <3> HIDE DEF j, s
    <3>4. store'[j].spec = Default(s) /\ \A i \in Key \ {j} : store'[i] = store[i]
      BY <3>1, <3>2, <3>3, SpecPatched
    <3> QED
      BY <1>1, <3>3, <3>4
  <2>3. CASE PatchStatus
    <3> DEFINE j == upgrade.key
    <3>1. j \in Key /\ upgrade.items[j] \in Instance
      BY <2>3 DEF PatchStatus, Types
    <3>2. /\ store[j] # None
          /\ Write("upgrade", j, store[j], [store[j] EXCEPT
                        !.version = VersionAfter(upgrade.items[j].version)])
      BY <1>1, <2>3 DEF PatchStatus
    <3>3. VersionAfter(upgrade.items[j].version) \in Version
      BY <3>1, VersionAfterType DEF Instance
    <3> QED
      BY <3>1, <3>2, <3>3, VersionWritten
  <2> QED
    BY <1>1, <2>1, <2>2, <2>3
<1>5. CASE BridgeAction
  <2>1. \/ UNCHANGED store
        \/ \E j \in agent.todo : DeleteInstance(j)
        \/ /\ agent.pc = "write" /\ Accepted
           /\ WriteSpec("bridge", agent.key, store[agent.key], Sent)
    BY <1>5 DEF BridgeAction, BeginDeletes, Report, RestartBridge, onMessage, Apply,
                       Delete, CallFails, ApplyWrites
  <2>2. CASE \E j \in agent.todo : DeleteInstance(j)
    BY <1>3, <2>2, AgentTypes
  <2>3. CASE /\ agent.pc = "write" /\ Accepted
             /\ WriteSpec("bridge", agent.key, store[agent.key], Sent)
    <3>1. agent.key \in Key
      BY <2>3, AgentTypes DEF Types
    <3> QED
      BY <1>2, <2>3, <3>1 DEF Accepted
  <2> QED
    BY <1>1, <2>1, <2>2, <2>3
<1>6. CASE UserAction
  <2>1. ASSUME NEW j \in Key, Self(j)
        PROVE  FALSE
    <3>1. /\ store[j] # None
          /\ Write("operator", j, store[j], [store[j] EXCEPT !.version = Current])
      BY <2>1 DEF Self
    <3>2. Current \in Version
      BY SMTT(30) DEF Version, Current, NoVersion, Latest
    <3>3. /\ \A i \in Key : store'[i] = None <=> store[i] = None
          /\ \A i \in Key : store[i] # None => store'[i].spec = store[i].spec
      BY <3>1, <3>2, VersionWritten
    <3> QED
      BY <3>3
  <2>2. ASSUME NEW j \in Key, UserDeletes(j)
        PROVE  FALSE
    BY <1>3, <2>2 DEF UserDeletes
  <2>3. ASSUME NEW j \in Key, NEW s, UserWrites(j, s)
        PROVE  Good
    BY <1>2, <2>3 DEF UserWrites
  <2> QED
    BY <1>6, <2>1, <2>2, <2>3 DEF UserAction
<1> QED
  BY <1>4, <1>5, <1>6, NextActions

\* Whoever writes a spec, what is stored has all its defaults: so for every set of
\* instances, every spec that users and the remote server send, and every configuration
\* that the steps of the upgrade make (opentelemetrycollector_webhook.go, Default).
THEOREM DefaultedWrites == Spec => WritesAreDefaulted
<1>1. ASSUME Types, [Next]_vars, NEW k \in Key,
             store' # store,
             store'[k] # None, store[k] # None => store'[k].spec # store[k].spec
      PROVE  Default(store'[k].spec) = store'[k].spec
  <2>1. Next
    BY <1>1 DEF vars
  <2>2. PICK s \in Specs : store'[k].spec = Default(s)
    BY <1>1, <2>1, AdmittedWrites
  <2> QED
    BY <2>2, DefaultIdempotent
<1>2. Types /\ [Next]_vars =>
        [\A k \in Key : store'[k] # None /\ (store[k] # None => store'[k].spec # store[k].spec)
            => Default(store'[k].spec) = store'[k].spec]_store
  BY <1>1
<1> QED
  BY <1>2, TypesInvariant, PTL DEF Spec, WritesAreDefaulted

\* The operator can build the autoscaler of whatever is written, but for a zero: so for
\* every number of replicas, minimum and maximum (validateCRDSpec and
\* HorizontalPodAutoscaler).
THEOREM BuildableAutoscalers == Spec => AutoscalerBuildable
<1>1. ASSUME Types, [Next]_vars, NEW k \in Key,
             store' # store,
             store'[k] # None, store[k] # None => store'[k].spec # store[k].spec,
             Autoscaled(store'[k].spec), ~ZeroReplicas(store'[k].spec)
      PROVE  AutoscalerAcceptable(HorizontalPodAutoscaler(store'[k].spec, "v2"))
  <2>1. Next
    BY <1>1 DEF vars
  <2>2. PICK s \in Specs : store'[k].spec = Default(s) /\ validateCRDSpec(Default(s))
    BY <1>1, <2>1, AdmittedWrites
  <2>3. Autoscaled(Default(s)) /\ ~ZeroReplicas(Default(s))
    BY <1>1, <2>2
  <2> QED
    BY <2>2, <2>3, AutoscalerFromSpec
<1>2. Types /\ [Next]_vars =>
        [\A k \in Key :
            LET s == store'[k].spec IN
            store'[k] # None /\ (store[k] # None => s # store[k].spec)
                /\ Autoscaled(s) /\ ~ZeroReplicas(s)
            => AutoscalerAcceptable(HorizontalPodAutoscaler(s, "v2"))]_store
  BY <1>1
<1> QED
  BY <1>2, TypesInvariant, PTL DEF Spec, AutoscalerBuildable

-----------------------------------------------------------------------------
(* The bridge.                                                             *)

\* Instance k is as message m says, if the bridge wrote it last.
InPlace(k, m) ==
    store[k] # None /\ intended[k].owner = "bridge" /\ intended[k].by = "bridge"
            /\ m.config[k] # Nil
        => intended[k].spec.config = m.config[k].config

\* No instance of the bridge's is left under key k.
Gone(k) == store[k] # None => intended[k].owner # "bridge"

\* The inductive invariant.  The keys that the bridge has applied name no instance that
\* it never wrote; what is left to do is of the message, or was applied before; and what
\* is done is in place, unless there was an error.
BridgeInv ==
    /\ \A k \in appliedKeys : store[k] # None => intended[k].owner # "user"
    /\ agent.pc \in {"apply", "write"} =>
          /\ \A k \in agent.todo : k \in DOMAIN agent.message.config
                                      /\ agent.message.config[k] # Nil
          /\ ~agent.failed => \A k \in DOMAIN agent.message.config \ agent.todo :
                                 InPlace(k, agent.message)
    /\ agent.pc = "delete" =>
          /\ agent.todo \subseteq appliedKeys \ DOMAIN agent.message.config
          /\ ~agent.failed =>
                /\ \A k \in DOMAIN agent.message.config : InPlace(k, agent.message)
                /\ \A k \in appliedKeys \ DOMAIN agent.message.config :
                      k \in agent.todo \/ Gone(k)
    /\ agent.pc = "idle" /\ reported.status = "APPLIED" =>
          /\ \A k \in DOMAIN reported.message.config : InPlace(k, reported.message)
          /\ \A k \in appliedKeys \ DOMAIN reported.message.config : Gone(k)

\* A step of others leaves what was intended for an instance, deletes it, or is a write
\* of a user.
Foreign(k) ==
    \/ (store'[k] = None <=> store[k] = None) /\ intended'[k] = intended[k]
    \/ store'[k] = None
    \/ /\ intended'[k].by = "user"
       /\ \/ store[k] # None /\ intended'[k].owner = intended[k].owner
          \/ intended'[k].owner = IF k \in appliedKeys THEN "recreated" ELSE "user"

\* A step of somebody else that writes nothing in the name of the bridge keeps BridgeInv.
LEMMA ForeignKeepsBridgeInv ==
    ASSUME Types, BridgeInv, UNCHANGED <<agent, appliedKeys, reported>>,
           \A k \in Key : Foreign(k)
    PROVE  BridgeInv'
<1>1. ASSUME NEW k \in appliedKeys, Gone(k)
      PROVE  Gone(k)'
  BY <1>1 DEF Gone, Foreign, Types
<1>2. ASSUME NEW k \in Key, NEW m, InPlace(k, m)
      PROVE  InPlace(k, m)'
  BY <1>2 DEF InPlace, Foreign
<1>3. ASSUME NEW k \in appliedKeys, store'[k] # None
      PROVE  intended'[k].owner # "user"
  BY <1>3 DEF BridgeInv, Foreign, Types
<1>4. /\ DOMAIN agent.message.config \subseteq Key
      /\ DOMAIN reported.message.config \subseteq Key
  BY InstancesAssumption, SMTT(30) DEF Types, AgentType, NoMessage
<1> QED
  BY <1>1, <1>2, <1>3, <1>4 DEF BridgeInv

\* The steps of the operator, of reconcile.Self and of users are such steps.
LEMMA OthersKeepBridgeInv ==
    ASSUME Types, BridgeInv, OperatorAction \/ UserAction
    PROVE  BridgeInv'
<1>1. UNCHANGED <<agent, appliedKeys, reported>>
  BY DEF OperatorAction, UserAction, Start, List, PatchSpec, PatchStatus, Upgraded, Stop,
               PatchFails, ManagedInstances, Self, UserDeletes, UserWrites, bridgeVars
<1>2. SUFFICES ASSUME NEW k \in Key
               PROVE  Foreign(k)
  BY <1>1, ForeignKeepsBridgeInv
<1>3. CASE OperatorAction
  <2>1. UNCHANGED intended
    BY <1>3 DEF OperatorAction, Start, List, PatchSpec, PatchStatus, Upgraded, Stop,
                       PatchFails, ManagedInstances, history
  <2>2. Types'
    BY <1>3, OperatorTypes DEF OperatorAction
  <2>3. store'[k] = None <=> store[k] = None
    BY <2>1, <2>2 DEF Types
  <2> QED
    BY <2>1, <2>3 DEF Foreign
<1>4. ASSUME NEW j \in Key, Self(j)
      PROVE  Foreign(k)
  <2>1. UNCHANGED intended
    BY <1>4 DEF Self, history
  <2>2. Types'
    BY <1>4, UserTypes
  <2>3. store'[k] = None <=> store[k] = None
    BY <2>1, <2>2 DEF Types
  <2> QED
    BY <2>1, <2>3 DEF Foreign
<1>5. ASSUME NEW j \in Key, UserDeletes(j)
      PROVE  Foreign(k)
  <2>1. DeleteInstance(j)
    BY <1>5 DEF UserDeletes
  <2>2. /\ store'[j] = None
        /\ \A i \in Key \ {j} : store'[i] = store[i] /\ intended'[i] = intended[i]
    BY <2>1, DeletionTypes
  <2> QED
    BY <2>2 DEF Foreign
<1>6. ASSUME NEW j \in Key, NEW s, UserWrites(j, s)
      PROVE  Foreign(k)
  <2>1. s \in Specs
    BY <1>6 DEF UserWrites, Admitted
  <2>2. PICK old \in {store[j], None} : WriteSpec("user", j, old, s)
    BY <1>6 DEF UserWrites
  <2> DEFINE o == Owner("user", j, old)
  <2>3. PICK v \in Version : Wrote("user", j, s, v, o)
    BY <2>1, <2>2, WriteSpecFacts
  <2>4. CASE k # j
    <3>1. store'[k] = store[k] /\ intended'[k] = intended[k]
      BY <2>3, <2>4 DEF Wrote, Types
    <3> QED
      BY <3>1 DEF Foreign
  <2>5. CASE k = j
    <3>1. intended'[k].by = "user" /\ intended'[k].owner = o
      BY <2>3, <2>5 DEF Wrote, Types
    <3>2. \/ store[k] # None /\ o = intended[k].owner
          \/ o = IF k \in appliedKeys THEN "recreated" ELSE "user"
      BY <2>5 DEF Owner
    <3> QED
      BY <3>1, <3>2 DEF Foreign
  <2> QED
    BY <2>4, <2>5
<1> QED
  BY <1>3, <1>4, <1>5, <1>6 DEF UserAction

\* The bridge's own write: the instance is its own then, and as the message says.
LEMMA ApplyWritesKeepsBridgeInv ==
    ASSUME Types, BridgeInv, ApplyWrites
    PROVE  BridgeInv'
<1>a. PICK k, m : k = agent.key /\ m = agent.message
  OBVIOUS
<1>1. agent.pc = "write" /\ NextKey(k, ~Accepted)
  BY <1>a DEF ApplyWrites
<1>2. k \in Key /\ k \in agent.todo /\ k \in DOMAIN m.config /\ m.config[k] # Nil
  BY <1>a, <1>1, AgentTypes DEF Types, BridgeInv
<1>3. /\ agent'.pc = "apply" /\ agent'.message = m /\ agent'.todo = agent.todo \ {k}
      /\ agent'.failed = (agent.failed \/ ~Accepted)
  BY <1>a, <1>1, NextKeyTypes
<1>4. CASE ~Accepted
  <2>1. UNCHANGED <<store, intended, appliedKeys>>
    BY <1>4 DEF ApplyWrites, history
  <2>2. agent'.failed
    BY <1>3, <1>4
  <2> QED
    BY <1>a, <1>1, <1>3, <2>1, <2>2 DEF BridgeInv
<1>5. CASE Accepted
  <2>1. WriteSpec("bridge", k, store[k], Sent) /\ appliedKeys' = appliedKeys \cup {k}
    BY <1>a, <1>5 DEF ApplyWrites
  <2>2. Sent \in Specs
    BY <1>5 DEF Accepted, Admitted
  <2>3. PICK v \in Version : Wrote("bridge", k, Sent, v, Owner("bridge", k, store[k]))
    BY <1>2, <2>1, <2>2, WriteSpecFacts
  <2>4. /\ \A j \in Key \ {k} : store'[j] = store[j] /\ intended'[j] = intended[j]
        /\ intended'[k].owner = "bridge" /\ intended'[k].spec = Default(Sent)
    BY <1>2, <2>3 DEF Wrote, Owner, Types
  <2>5. Default(Sent).config = m.config[k].config
    <3>1. m.config[k] \in Specs
      BY <1>a, <1>2, InstancesAssumption, SMTT(30) DEF Types, AgentType, NoMessage
    <3>2. \A x : [m.config[k] EXCEPT !.managedBy = x].config = m.config[k].config
      BY <3>1, ManagedByField
    <3>3. Default(m.config[k]).config = m.config[k].config
      BY <3>1, DefaultFields
    <3>4. Sent.config = m.config[k].config
      BY <1>a, <3>1, <3>2, <3>3 DEF Sent
    <3> QED
      BY <2>2, <3>4, DefaultFields
  <2>6. InPlace(k, m)'
    BY <1>3, <2>4, <2>5 DEF InPlace
  <2>7. \A j \in DOMAIN m.config \ agent.todo : InPlace(j, m) => InPlace(j, m)'
    BY <1>a, <1>2, <1>3, <2>4, AgentTypes DEF InPlace
  <2>8. \A j \in appliedKeys' : store'[j] # None => intended'[j].owner # "user"
    BY <2>1, <2>4 DEF BridgeInv, Types
  <2> QED
    <3>1. ~agent'.failed => ~agent.failed
      BY <1>3, <1>5
    <3>2. ~agent.failed => \A j \in DOMAIN m.config \ agent.todo : InPlace(j, m)
      BY <1>a, <1>1 DEF BridgeInv
    <3>3. ~agent'.failed => \A j \in DOMAIN m.config \ agent'.todo : InPlace(j, m)'
      BY <1>3, <2>6, <2>7, <3>1, <3>2
    <3>4. \A j \in agent'.todo : j \in DOMAIN m.config /\ m.config[j] # Nil
      BY <1>a, <1>1, <1>3 DEF BridgeInv
    <3> QED
      BY <1>3, <2>8, <3>3, <3>4 DEF BridgeInv
<1> QED
  BY <1>4, <1>5

\* The deletion of an instance that was applied before.
LEMMA DeleteKeepsBridgeInv ==
    ASSUME Types, BridgeInv, NEW k \in agent.todo, Delete(k)
    PROVE  BridgeInv'
<1> DEFINE m == agent.message
<1>1. agent.pc = "delete" /\ UNCHANGED appliedKeys /\ k \in Key
  BY AgentTypes DEF Delete
<1>2. /\ agent'.pc = "delete" /\ agent'.message = m /\ agent'.todo = agent.todo \ {k}
      /\ agent'.failed = agent.failed
  BY AgentTypes, HandlingType, SMTT(30) DEF Delete
<1>3. /\ \A j \in Key \ {k} : store'[j] = store[j] /\ intended'[j] = intended[j]
      /\ store'[k] = None
  <2>1. CASE store[k] = None
    BY <2>1 DEF Delete, history
  <2>2. CASE store[k] # None
    BY <1>1, <2>2, DeletionTypes DEF Delete
  <2> QED
    BY <2>1, <2>2
<1>4. \A j \in Key : (InPlace(j, m) => InPlace(j, m)') /\ (Gone(j) => Gone(j)')
  BY <1>2, <1>3 DEF InPlace, Gone
<1>5. Gone(k)'
  BY <1>3 DEF Gone
<1>6. DOMAIN m.config \subseteq Key /\ appliedKeys \subseteq Key
  BY AgentTypes DEF Types
<1>7. \A j \in appliedKeys' : store'[j] # None => intended'[j].owner # "user"
  BY <1>1, <1>3, <1>6 DEF BridgeInv
<1> QED
  BY <1>1, <1>2, <1>4, <1>5, <1>6, <1>7 DEF BridgeInv

\* The other steps of the bridge write nothing.
LEMMA AgentKeepsBridgeInv ==
    ASSUME Types, BridgeInv,
           \/ BeginDeletes \/ Report \/ RestartBridge
           \/ \E m \in Messages : onMessage(m)
           \/ \E k \in agent.todo : Apply(k) \/ CallFails(k)
    PROVE  BridgeInv'
<1>1. UNCHANGED <<store, intended>>
  BY DEF BeginDeletes, Report, RestartBridge, onMessage, Apply, CallFails, history
<1>2. \A k \in Key : Gone(k)' <=> Gone(k)
  BY <1>1 DEF Gone
<1>3. \A k \in Key : \A m : InPlace(k, m)' <=> InPlace(k, m)
  BY <1>1 DEF InPlace
<1>4. ASSUME NEW m \in Messages, onMessage(m)
      PROVE  BridgeInv'
  <2> DEFINE todo == {k \in DOMAIN m.config : m.config[k] # Nil}
  <2>1. todo \in SUBSET Key /\ m.malformedKey \in BOOLEAN /\ DOMAIN m.config \subseteq Key
    BY InstancesAssumption
  <2>2. /\ agent'.pc = "apply" /\ agent'.message = m /\ agent'.todo = todo
        /\ UNCHANGED appliedKeys
    BY <1>4, <2>1, HandlingType, SMTT(30) DEF onMessage
  <2>3. \A k \in DOMAIN m.config \ todo : InPlace(k, m)'
    BY <2>2 DEF InPlace
  <2> QED
    BY <1>1, <2>2, <2>3 DEF BridgeInv
<1>5. ASSUME NEW k \in agent.todo, Apply(k)
      PROVE  BridgeInv'
  <2>1. agent.pc = "apply" /\ UNCHANGED appliedKeys
    BY <1>5 DEF Apply
  <2>2. CASE NextKey(k, TRUE)
    <3>1. /\ agent'.pc = "apply" /\ agent'.message = agent.message
          /\ agent'.todo = agent.todo \ {k} /\ agent'.failed = (agent.failed \/ TRUE)
      BY <2>2, NextKeyTypes
    <3>2. agent'.failed
      BY <3>1
    <3> QED
      BY <1>1, <2>1, <3>1, <3>2 DEF BridgeInv
  <2>3. CASE agent' = Writing(k, store[k])
    <3>1. /\ agent'.pc = "write" /\ agent'.message = agent.message
          /\ agent'.todo = agent.todo /\ agent'.failed = agent.failed
      BY <2>3 DEF Writing
    <3> QED
      BY <1>1, <1>3, <2>1, <3>1, AgentTypes DEF BridgeInv
  <2> QED
    BY <1>5, <2>2, <2>3 DEF Apply
<1>6. ASSUME NEW k \in agent.todo, CallFails(k)
      PROVE  BridgeInv'
  <2>1. UNCHANGED appliedKeys
    BY <1>6 DEF CallFails
  <2>2. CASE agent.pc = "delete"
    <3>1. /\ agent'.pc = "delete" /\ agent'.message = agent.message
          /\ agent'.todo = agent.todo \ {k} /\ agent'.failed
      BY <1>6, <2>2, SMTT(30) DEF CallFails, Handling
    <3> QED
      BY <1>1, <2>1, <2>2, <3>1 DEF BridgeInv
  <2>3. CASE agent.pc # "delete"
    <3>1. agent.pc \in {"apply", "write"} /\ NextKey(k, TRUE)
      BY <1>6, <2>3 DEF CallFails
    <3>2. /\ agent'.pc = "apply" /\ agent'.message = agent.message
          /\ agent'.todo = agent.todo \ {k} /\ agent'.failed = (agent.failed \/ TRUE)
      BY <3>1, NextKeyTypes
    <3>3. agent'.failed
      BY <3>2
    <3> QED
      BY <1>1, <2>1, <3>1, <3>2, <3>3 DEF BridgeInv
  <2> QED
    BY <2>2, <2>3
<1>7. CASE BeginDeletes
  <2>1. appliedKeys \ DOMAIN agent.message.config \in SUBSET Key
    BY DEF Types
  <2>2. /\ agent.pc = "apply" /\ agent.todo = {} /\ UNCHANGED appliedKeys
        /\ agent'.pc = "delete" /\ agent'.message = agent.message
        /\ agent'.todo = appliedKeys \ DOMAIN agent.message.config
        /\ agent'.failed = agent.failed
    BY <1>7, <2>1, AgentTypes, HandlingType, SMTT(30) DEF BeginDeletes
  <2> QED
    BY <1>1, <1>3, <2>2, AgentTypes DEF BridgeInv
<1>8. CASE Report
  <2>1. /\ agent.pc = "delete" /\ agent.todo = {} /\ UNCHANGED appliedKeys
        /\ agent'.pc = "idle" /\ reported'.message = agent.message
        /\ reported'.status = "APPLIED" => ~agent.failed
    BY <1>8 DEF Report, Waiting, Handling
  <2>2. DOMAIN agent.message.config \subseteq Key /\ appliedKeys \subseteq Key
    BY AgentTypes DEF Types
  <2> QED
    BY <1>1, <1>2, <1>3, <2>1, <2>2 DEF BridgeInv
<1>9. CASE RestartBridge
  <2>1. appliedKeys' = {} /\ agent'.pc = "idle" /\ reported'.status = "UNSET"
    BY <1>9 DEF RestartBridge, Waiting, Handling, NotReported
  <2> QED
    BY <2>1 DEF BridgeInv
<1> QED
  BY <1>4, <1>5, <1>6, <1>7, <1>8, <1>9

\* What the steps of the bridge keep, every step keeps.
LEMMA BridgeInvNext ==
    ASSUME Types, BridgeInv, [Next]_vars
    PROVE  BridgeInv'
<1>1. CASE BridgeAction
  BY <1>1, ApplyWritesKeepsBridgeInv, DeleteKeepsBridgeInv, AgentKeepsBridgeInv
     DEF BridgeAction
<1>2. CASE OperatorAction \/ UserAction
  BY <1>2, OthersKeepBridgeInv
<1>3. CASE UNCHANGED vars
  BY <1>3 DEF vars, BridgeInv, InPlace, Gone, history
<1> QED
  BY <1>1, <1>2, <1>3, NextActions

\* BridgeInv holds always: the strengthening of the two properties of the bridge.
LEMMA BridgeInvariant == Spec => []BridgeInv
<1>1. ASSUME Init PROVE BridgeInv
  <2>1. agent.pc = "idle" /\ reported.status # "APPLIED" /\ appliedKeys = {}
    BY <1>1 DEF Init, Waiting, Handling, NotReported
  <2> QED
    BY <2>1 DEF BridgeInv
<1> QED
  BY <1>1, BridgeInvNext, TypesInvariant, PTL DEF Spec

\* AppliedIsInPlace for every set of keys, instances and messages: while the bridge has
\* reported a remote configuration as applied, what it wrote last to an instance of it
\* is what the configuration says, and no instance that it made is left over
\* (applyRemoteConfig).
THEOREM AppliedConfigurations == Spec => []AppliedIsInPlace
<1>1. BridgeInv => AppliedIsInPlace
  BY DEF BridgeInv, AppliedIsInPlace, InPlace, Gone
<1> QED
  BY <1>1, BridgeInvariant, PTL

\* DeletesOnlyItsOwn for every set of keys, instances and messages: no step of the bridge
\* deletes an instance that it never wrote (the second loop of applyRemoteConfig).
THEOREM Deletions == Spec => DeletesOnlyItsOwn
<1> DEFINE Kept(k) == store[k] # None /\ store'[k] = None /\ agent' # agent
                          => intended[k].owner # "user"
<1>1. ASSUME Types, BridgeInv, [Next]_vars, NEW k \in Key
      PROVE  Kept(k)
  <2>1. SUFFICES ASSUME store[k] # None, store'[k] = None, agent' # agent
                 PROVE  intended[k].owner # "user"
    OBVIOUS
  <2>2. BridgeAction
    <3>1. Next
      BY <1>1, <2>1 DEF vars, bridgeVars
    <3>2. OperatorAction \/ UserAction => UNCHANGED agent
      BY DEF OperatorAction, UserAction, Start, List, PatchSpec, PatchStatus, Upgraded,
                   Stop, PatchFails, ManagedInstances, Self, UserDeletes, UserWrites, bridgeVars
    <3> QED
      BY <2>1, <3>1, <3>2, NextActions
  <2>3. CASE \E j \in agent.todo : Delete(j)
    <3>1. PICK j \in agent.todo : Delete(j)
      BY <2>3
    <3>2. j \in Key /\ j \in appliedKeys
      BY <1>1, <3>1, AgentTypes DEF Delete, BridgeInv
    <3>3. k = j
      <4>1. CASE store[j] = None
        BY <2>1, <3>1, <4>1 DEF Delete
      <4>2. CASE store[j] # None
        BY <1>1, <2>1, <3>1, <3>2, <4>2, DeletionTypes DEF Delete
      <4> QED
        BY <4>1, <4>2
    <3> QED
      BY <1>1, <2>1, <3>2, <3>3 DEF BridgeInv
  <2>4. CASE ApplyWrites /\ Accepted
    <3>1. /\ agent.key \in Key /\ Sent \in Specs
          /\ WriteSpec("bridge", agent.key, store[agent.key], Sent)
      BY <1>1, <2>4, AgentTypes DEF ApplyWrites, Accepted, Admitted, Types
    <3>2. PICK v \in Version :
             Wrote("bridge", agent.key, Sent, v, Owner("bridge", agent.key, store[agent.key]))
      BY <1>1, <3>1, WriteSpecFacts
    <3> DEFINE i == [spec |-> Default(Sent), version |-> v]
    <3>3. i # None /\ store' = [store EXCEPT ![agent.key] = i]
      BY <3>2, InstancesAssumption DEF Wrote
    <3> HIDE DEF i
    <3>4. store'[k] # None
      BY <1>1, <2>1, <3>1, <3>3 DEF Types
    <3> QED
      BY <2>1, <3>4
  <2>5. CASE ~(ApplyWrites /\ Accepted) /\ ~\E j \in agent.todo : Delete(j)
    <3>1. UNCHANGED store
      BY <2>2, <2>5 DEF BridgeAction, ApplyWrites, BeginDeletes, Report, RestartBridge,
                               onMessage, Apply, CallFails
    <3> QED
      BY <2>1, <3>1
  <2> QED
    BY <2>3, <2>4, <2>5
<1>2. Types /\ BridgeInv /\ [Next]_vars => [\A k \in Key : Kept(k)]_<<store, agent>>
  BY <1>1
<1> QED
  BY <1>2, TypesInvariant, BridgeInvariant, PTL DEF Spec, DeletesOnlyItsOwn

-----------------------------------------------------------------------------
(* The steps of the upgrade.                                               *)

\* The arguments that 0.38.0 and 0.43.0 move to the configuration, and the settings that
\* they become.
LogArgs == {"--log-level", "--log-profile"}

MetricsArgs == {"--metrics-addr", "--metrics-level"}

LogSettings == {"service.telemetry.logs.level", "service.telemetry.logs.development"}

MetricsSettings == {"service.telemetry.metrics.address", "service.telemetry.metrics.level"}

\* Step 0.36.0 has receivers and exporters to look at.
Secured(c) ==
    /\ c \cap Receivers # {} /\ c \cap Exporters # {}
    /\ c \cap {"receivers.otlp.grpc.null", "exporters.otlp.null"} = {}

\* Step i has been taken, and has no setting left to change, for a configuration c and
\* the arguments a.
Clean(i, c, a) ==
    /\ i = 2 => "exporters.opencensus.reconnection_delay" \notin c
    /\ i = 4 => c \cap {"processors.queued_retry", "processors.resource.type",
                        "processors.resource.labels"} = {}
    /\ i \in {5, 13} => c \cap Ports = {}
    /\ i = 6 => "receivers.influxdb/2.metrics_schema" \notin c \/ "receivers.influxdb.null" \in c
    /\ i = 7 /\ Secured(c) =>
            c \cap {"receivers.otlp.grpc.tls_settings", "exporters.otlp.insecure"} = {}
    /\ i = 8 => a \cap LogArgs = {} \/ c \cap LogSettings # {}
    /\ i \in {9, 10} => "processors.attributes.text_null" \notin c
    /\ i = 9 => /\ "processors.memory_limiter.ballast_size_mib" \notin c
                /\ "receivers.httpd" \notin c \/ c \cap Pipelines = {}
    /\ i = 10 => "receivers.otlp.cors_allowed_origins" \notin c
    /\ i = 11 => a \cap MetricsArgs = {} \/ c \cap MetricsSettings # {}

\* The step has nothing left to do: 0.39.0 and 0.41.0 make a text of no text, too.
Finished(i, c, a) == Clean(i, c, a) /\ (i \in {9, 10} => c # {})

\* Configuration d has what c had, but for what the upgrade is to remove.
Preserved(c, d) ==
    /\ c \ (Deprecated(c) \cup NotKept) \subseteq d
    /\ "receivers.otlp.cors_allowed_origins" \in d => "receivers.otlp.cors_allowed_origins" \in c
    /\ d \cap Ports # {} => c \cap Ports # {}

\* Configurations that differ at most in the tls sections of their exporters, which 0.36.0
\* replaces each time.
Alike(c, d) == c \ ExporterTLS = d \ ExporterTLS

\* What step i makes of a configuration: no other step has more to do after it.
ConfigStep(c, d) ==
    /\ Preserved(c, d)
    /\ \A j \in 1..Latest : \A a : Finished(j, c, a) => Finished(j, d, a)

\* What a step looks at in any case.
HasFields(s) == {"config", "args"} \subseteq DOMAIN s

\* The result t of step i for a spec s.
StepGood(i, s, t) ==
    LET c == s.config
        d == t.spec.config
    IN  /\ HasFields(t.spec) /\ t.events # {}
        /\ t.spec.args \subseteq s.args
        /\ i # 8 => t.spec.args \cap LogArgs = s.args \cap LogArgs
        /\ i # 11 => t.spec.args \cap MetricsArgs = s.args \cap MetricsArgs
        /\ ConfigStep(c, d)
        /\ t.ok => Finished(i, d, s.args)
        /\ \A a : s.args \subseteq a /\ Finished(i, c, a) => Alike(c, d)

\* A spec has the two fields that the steps read.
LEMMA SpecFields == \A s \in Specs : HasFields(s)
BY DEF Specs, HasFields

\* A step that sets one field leaves the others.
LEMMA SetConfig ==
    ASSUME NEW s, HasFields(s), NEW d
    PROVE  LET t == [s EXCEPT !.config = d] IN
           HasFields(t) /\ t.config = d /\ t.args = s.args
BY DEF HasFields

\* The same for the arguments.
LEMMA SetArgs ==
    ASSUME NEW s, HasFields(s), NEW a
    PROVE  LET t == [s EXCEPT !.args = a] IN
           HasFields(t) /\ t.args = a /\ t.config = s.config
BY DEF HasFields

\* The same for the number of replicas.
LEMMA SetMinReplicas ==
    ASSUME NEW s, HasFields(s), NEW n
    PROVE  LET t == [s EXCEPT !.minReplicas = n] IN
           HasFields(t) /\ t.args = s.args /\ t.config = s.config
BY DEF HasFields

\* A step that returns the spec as it is, because it fails or has nothing to do.
LEMMA NothingDone ==
    ASSUME NEW i, NEW s, HasFields(s), NEW t, t.spec = s, t.events # {},
           t.ok => Finished(i, s.config, s.args)
    PROVE  StepGood(i, s, t)
BY DEF StepGood, ConfigStep, Preserved, Alike

\* The settings d that step i makes of a configuration c, with the arguments b.
Changed(i, c, d, b) ==
    /\ Preserved(c, d)
    /\ \A j \in 1..Latest : \A a : Clean(j, c, a) => Clean(j, d, a)
    /\ Clean(i, d, b)
    /\ \A a : b \subseteq a /\ Clean(i, c, a) => Alike(c, d) /\ (d = {} => c = {})

\* The text without settings is one that no step has anything to do for.
LEMMA MarshalClean ==
    ASSUME NEW j, NEW a, Clean(j, {}, a)
    PROVE  Finished(j, {"{}"}, a)
BY SMTT(30) DEF Clean, Finished, Secured, Ports, LogSettings, MetricsSettings, Receivers,
               Exporters, Pipelines

\* A step that sets the configuration and leaves the arguments.
LEMMA ConfigDone ==
    ASSUME NEW i, NEW s, HasFields(s), NEW d, NEW t,
           t.spec = [s EXCEPT !.config = Marshal(d)], t.events # {},
           Changed(i, s.config, d, s.args), i \in {9, 10} \/ s.config # {}
    PROVE  StepGood(i, s, t)
<1> DEFINE c == s.config
           e == Marshal(d)
<1>1. HasFields(t.spec) /\ t.spec.config = e /\ t.spec.args = s.args
  BY SetConfig, SMTT(30)
<1>2. e # {} /\ d \subseteq e /\ (d = {} => e = {"{}"}) /\ (d # {} => e = d)
  BY DEF Marshal
<1> HIDE DEF c, e
<1>3. \A j, a : Clean(j, d, a) => Finished(j, e, a)
  <2>1. CASE d = {}
    <3>1. ASSUME NEW j, NEW a, Clean(j, d, a) PROVE Finished(j, e, a)
      <4>1. Clean(j, {}, a)
        BY <2>1, <3>1
      <4>2. Finished(j, {"{}"}, a)
        BY <4>1, MarshalClean
      <4>3. e = {"{}"}
        BY <1>2, <2>1
      <4> QED
        BY <4>2, <4>3
    <3> QED
      BY <3>1
  <2>2. CASE d # {}
    BY <1>2, <2>2 DEF Finished
  <2> QED
    BY <2>1, <2>2
<1>4. Preserved(c, e)
  BY <1>2 DEF Changed, Preserved, Ports, c
<1>5. ConfigStep(c, e)
  BY <1>3, <1>4 DEF ConfigStep, Changed, Finished, c
<1>6. Finished(i, e, s.args)
  BY <1>3 DEF Changed
<1>7. ASSUME NEW a, s.args \subseteq a, Finished(i, c, a) PROVE Alike(c, e)
  <2>1. Alike(c, d) /\ d # {}
    BY <1>7 DEF Changed, Finished, c
  <2> QED
    BY <1>2, <2>1
<1> HIDE DEF Changed
<1>8. t.events # {}
  OBVIOUS
<1> QED
  BY <1>1, <1>5, <1>6, <1>7, <1>8 DEF StepGood, c

\* A step that ends early has met some settings, or none.
LEMMA SomeCount ==
    ASSUME NEW c, NEW S
    PROVE  CountsMet(c, S) # {}
<1>1. Cardinality({}) \in CountsMet(c, S)
  BY DEF CountsMet
<1> QED
  BY <1>1

\* The step to 0.2.10 does what StepGood says.
LEMMA Step1 == ASSUME NEW s, HasFields(s) PROVE StepGood(1, s, upgrade0_2_10(s))
<1>1. Finished(1, s.config, s.args)
  BY SMTT(30) DEF Finished, Clean
<1> QED
  BY <1>1, NothingDone DEF upgrade0_2_10, Unchanged, Result

\* The step to 0.9.0 does what StepGood says.
LEMMA Step2 == ASSUME NEW s, HasFields(s) PROVE StepGood(2, s, upgrade0_9_0(s))
<1> DEFINE c == s.config
           d == c \ {"exporters.opencensus.reconnection_delay"}
           t == upgrade0_9_0(s)
<1>1. \/ /\ t.spec = s /\ t.events = {0}
         /\ t.ok => c = {}
      \/ t.spec = [s EXCEPT !.config = Marshal(d)] /\ t.events # {} /\ c # {}
  BY DEF upgrade0_9_0, Parsed, ConfigFromString, Unchanged, Failed, Configured, Result
<1>3. Changed(2, c, d, s.args)
  <2> HIDE DEF c
  <2>1. Preserved(c, d)
    BY DEF Preserved, Ports, Endpoints, Deprecated
  <2>2. ASSUME NEW j \in 1..Latest, NEW a, Clean(j, c, a) PROVE Clean(j, d, a)
    BY <2>2, SMTT(30) DEF Clean, Ports, Secured, LogSettings, MetricsSettings, Pipelines
  <2>3. ASSUME NEW a PROVE Clean(2, d, a) /\ (Clean(2, c, a) => Alike(c, d) /\ (d = {} => c = {}))
    BY SMTT(30) DEF Clean, Alike
  <2> QED
    BY <2>1, <2>2, <2>3 DEF Changed
<1>4. CASE t.spec = s /\ t.events = {0} /\ (t.ok => c = {})
  <2>1. c = {} => Finished(2, c, s.args)
    BY SMTT(30) DEF Finished, Clean
  <2> QED
    BY <1>4, <2>1, NothingDone
<1>5. CASE t.spec = [s EXCEPT !.config = Marshal(d)] /\ t.events # {} /\ c # {}
  BY <1>3, <1>5, ConfigDone
<1> QED
  BY <1>1, <1>4, <1>5

\* The step to 0.15.0 does what StepGood says.
LEMMA Step3 == ASSUME NEW s, HasFields(s) PROVE StepGood(3, s, upgrade0_15_0(s))
<1> DEFINE a == s.args \ {"--new-metrics", "--legacy-metrics"}
           t == upgrade0_15_0(s)
<1>1. t.spec = [s EXCEPT !.args = a] /\ t.events = {1}
  BY DEF upgrade0_15_0, Result
<1>3. HasFields(t.spec) /\ t.spec.args = a /\ t.spec.config = s.config
  BY <1>1, SetArgs, SMTT(30)
<1>4. Finished(3, s.config, s.args)
  BY SMTT(30) DEF Finished, Clean
<1> HIDE DEF t
<1>5. StepGood(3, s, t)
  BY <1>1, <1>3, <1>4 DEF StepGood, ConfigStep, Preserved, Alike, LogArgs, MetricsArgs
<1> QED
  BY <1>5 DEF t

\* The step to 0.19.0 does what StepGood says.
LEMMA Step4 == ASSUME NEW s, HasFields(s) PROVE StepGood(4, s, upgrade0_19_0(s))
<1> DEFINE c == s.config
           moved == {"processors.resource.type", "processors.resource.labels"}
           e == c \ {"processors.queued_retry"}
           d == IF e \cap moved # {} THEN (e \ moved) \cup {"processors.resource.attributes"}
                ELSE e
           t == upgrade0_19_0(s)
<1>1. Renamed(e, [x \in moved |-> "processors.resource.attributes"]) = d
  <2> HIDE DEF e
  <2> QED  BY DEF Renamed
<1>2. CountsMet(c, {"processors.queued_retry"}) # {}
  BY SomeCount
<1>3. \/ /\ t.spec = s /\ t.events # {}
         /\ t.ok => c \cap Processors = {}
      \/ t.spec = [s EXCEPT !.config = Marshal(d)] /\ t.events # {} /\ c # {}
  BY <1>1, <1>2
     DEF upgrade0_19_0, Parsed, ConfigFromString, Unchanged, Failed, Configured, Result
<1>6. Changed(4, c, d, s.args)
  <2> HIDE DEF c
  <2>1. Preserved(c, d)
    BY DEF Preserved, Ports, Endpoints, Deprecated
  <2>2. ASSUME NEW j \in 1..Latest, NEW a, Clean(j, c, a) PROVE Clean(j, d, a)
    BY <2>2, SMTT(30) DEF Clean, Ports, Secured, LogSettings, MetricsSettings, Pipelines, Receivers, Exporters
  <2>3. ASSUME NEW a PROVE Clean(4, d, a) /\ (Clean(4, c, a) => Alike(c, d) /\ (d = {} => c = {}))
    BY SMTT(30) DEF Clean, Alike
  <2> QED
    BY <2>1, <2>2, <2>3 DEF Changed
<1>7. CASE t.spec = s /\ t.events # {} /\ (t.ok => c \cap Processors = {})
  <2>1. c \cap Processors = {} => Finished(4, c, s.args)
    BY SMTT(30) DEF Finished, Clean, Ports, Processors
  <2> QED
    BY <1>7, <2>1, NothingDone
<1>8. CASE t.spec = [s EXCEPT !.config = Marshal(d)] /\ t.events # {} /\ c # {}
  <2> HIDE DEF d
  <2> QED  BY <1>6, <1>8, ConfigDone
<1> QED
  BY <1>3, <1>7, <1>8

\* The step to 0.24.0 does what StepGood says.
LEMMA Step5 == ASSUME NEW s, HasFields(s) PROVE StepGood(5, s, upgrade0_24_0(s))
<1> DEFINE c == s.config
           endpoint == IF "extensions.health_check.port" \in c
                       THEN "extensions.health_check.endpoint"
                       ELSE "extensions.health_check.malformed_endpoint"
           d == IF c \cap Ports = {} THEN c ELSE (c \ (Ports \cup Endpoints)) \cup {endpoint}
           t == upgrade0_24_0(s)
<1>1. endpoint \in Endpoints
  BY DEF Endpoints
<1>2. WithEndpoint(s, endpoint).spec = [s EXCEPT !.config = Marshal(d)]
      /\ WithEndpoint(s, endpoint).events # {}
  <2> HIDE DEF endpoint
  <2> QED  BY DEF WithEndpoint, Configured, Result
<1>3. \/ /\ t.spec = s /\ t.events # {}
         /\ t.ok => c \cap Extensions = {}
      \/ t.spec = [s EXCEPT !.config = Marshal(d)] /\ t.events # {} /\ c # {}
  BY <1>2 DEF upgrade0_24_0, Parsed, ConfigFromString, Unchanged, Failed, Result
<1>6. Changed(5, c, d, s.args)
  <2> HIDE DEF c, endpoint
  <2>1. Preserved(c, d)
    BY <1>1 DEF Preserved, Ports, Endpoints, Deprecated
  <2>2. ASSUME NEW j \in 1..Latest, NEW a, Clean(j, c, a) PROVE Clean(j, d, a)
    BY <1>1, <2>2, SMTT(30) DEF Clean, Ports, Endpoints, Secured, LogSettings, MetricsSettings, Pipelines, Receivers, Exporters
  <2>3. ASSUME NEW a PROVE Clean(5, d, a) /\ (Clean(5, c, a) => Alike(c, d) /\ (d = {} => c = {}))
    BY <1>1, SMTT(30) DEF Clean, Ports, Endpoints, Alike
  <2> QED
    BY <2>1, <2>2, <2>3 DEF Changed
<1>7. CASE t.spec = s /\ t.events # {} /\ (t.ok => c \cap Extensions = {})
  <2>1. c \cap Extensions = {} => Finished(5, c, s.args)
    BY SMTT(30) DEF Finished, Clean, Ports, Extensions
  <2> QED
    BY <1>7, <2>1, NothingDone
<1>8. CASE t.spec = [s EXCEPT !.config = Marshal(d)] /\ t.events # {} /\ c # {}
  <2> HIDE DEF d
  <2> QED  BY <1>6, <1>8, ConfigDone
<1> QED
  BY <1>3, <1>7, <1>8

\* The step to 0.31.0 does what StepGood says.
LEMMA Step6 == ASSUME NEW s, HasFields(s) PROVE StepGood(6, s, upgrade0_31_0(s))
<1> DEFINE c == s.config
           d == c \ {"receivers.influxdb/2.metrics_schema"}
           t == upgrade0_31_0(s)
<1>1. CountsMet(c, {"receivers.influxdb/2.metrics_schema"}) # {}
  BY SomeCount
<1>3. \/ /\ t.spec = s /\ t.events # {}
         /\ t.ok => c \cap Receivers = {} \/ "receivers.influxdb.null" \in c
      \/ /\ t.spec = [s EXCEPT !.config = Marshal(d)] /\ t.events # {} /\ c # {}
         /\ "receivers.influxdb.null" \notin c
  BY <1>1 DEF upgrade0_31_0, Parsed, ConfigFromString, Unchanged, Failed, Configured, Result
<1>6. "receivers.influxdb.null" \notin c =>
        Changed(6, c, d, s.args)
  <2> HIDE DEF c
  <2>1. Preserved(c, d)
    BY DEF Preserved, Ports, Endpoints, Deprecated
  <2>2. ASSUME NEW j \in 1..Latest, NEW a, Clean(j, c, a) PROVE Clean(j, d, a)
    BY <2>2, SMTT(30) DEF Clean, Ports, Secured, LogSettings, MetricsSettings, Pipelines, Exporters
  <2>3. ASSUME NEW a, "receivers.influxdb.null" \notin c
        PROVE Clean(6, d, a) /\ (Clean(6, c, a) => Alike(c, d) /\ (d = {} => c = {}))
    BY <2>3, SMTT(30) DEF Clean, Alike
  <2> QED
    BY <2>1, <2>2, <2>3 DEF Changed
<1>7. CASE t.spec = s /\ t.events # {}
           /\ (t.ok => c \cap Receivers = {} \/ "receivers.influxdb.null" \in c)
  <2>1. c \cap Receivers = {} \/ "receivers.influxdb.null" \in c => Finished(6, c, s.args)
    BY SMTT(30) DEF Finished, Clean, Ports, Receivers
  <2> QED
    BY <1>7, <2>1, NothingDone
<1>8. CASE t.spec = [s EXCEPT !.config = Marshal(d)] /\ t.events # {} /\ c # {} /\ "receivers.influxdb.null" \notin c
  <2> HIDE DEF d
  <2> QED  BY <1>6, <1>8, ConfigDone
<1> QED
  BY <1>3, <1>7, <1>8

\* The step to 0.36.0 does what StepGood says.
LEMMA Step7 == ASSUME NEW s, HasFields(s) PROVE StepGood(7, s, upgrade0_36_0(s))
<1> DEFINE c == s.config
           settings == {"receivers.otlp.grpc.tls_settings"}
           keys == c \cap {"exporters.otlp.endpoint", "exporters.otlp.insecure",
                           "exporters.otlp.tls.insecure"}
           n == Count(c, settings) + Cardinality(keys)
           received == IF "receivers.otlp.grpc.tls_settings" \in c
                       THEN (c \ {"receivers.otlp.grpc.tls_settings"})
                                \cup {"receivers.otlp.grpc.tls"}
                       ELSE c
           e == received \ ExporterTLS
           d == IF "exporters.otlp.insecure" \in e
                THEN (e \ {"exporters.otlp.insecure"}) \cup {"exporters.otlp.tls.insecure"}
                ELSE e
           t == upgrade0_36_0(s)
<1>1. Renamed(c, [x \in {"receivers.otlp.grpc.tls_settings"} |-> "receivers.otlp.grpc.tls"])
      = received
  <2> HIDE DEF c
  <2> QED  BY DEF Renamed
<1>2. Renamed(e, [x \in {"exporters.otlp.insecure"} |-> "exporters.otlp.tls.insecure"]) = d
  <2> HIDE DEF e
  <2> QED  BY DEF Renamed
<1>3. CountsMet(c, settings) # {}
  BY SomeCount
<1>4. \/ /\ t.spec = s /\ t.events # {}
         /\ t.ok => ~Secured(c)
      \/ /\ t.spec = [s EXCEPT !.config = Marshal(d)] /\ t.events # {} /\ c # {} /\ Secured(c)
  <2>2. CASE "unparsable" \in c
    BY <2>2 DEF upgrade0_36_0, Parsed, ConfigFromString, Unchanged, Failed, Result
  <2>3. CASE c = {}
    BY <2>3 DEF upgrade0_36_0, Parsed, Unchanged, Result, Secured
  <2>4. CASE c # {} /\ "unparsable" \notin c /\ ~Secured(c)
    <3>1. t = Result(TRUE, s, CountsMet(c, settings))
      BY <2>4 DEF upgrade0_36_0, Parsed, ConfigFromString, Secured
    <3> HIDE DEF settings
    <3> QED
      BY <1>3, <2>4, <3>1, SMTT(30) DEF Result
  <2>5. CASE c # {} /\ "unparsable" \notin c /\ Secured(c)
    <3>1. t = Result(TRUE, [s EXCEPT !.config = Marshal(d)],
                     IF keys = {} \/ c \cap ExporterTLS # {} THEN {n} ELSE {n, n + 1})
      BY <1>1, <1>2, <2>5 DEF upgrade0_36_0, Parsed, ConfigFromString, Secured
    <3> HIDE DEF keys, n, d
    <3> QED
      BY <2>5, <3>1, SMTT(30) DEF Result
  <2> QED
    BY <2>2, <2>3, <2>4, <2>5
<1>6. Secured(c) =>
        Changed(7, c, d, s.args)
  <2> HIDE DEF c
  <2>1. Preserved(c, d)
    BY DEF Preserved, Ports, Endpoints, Deprecated, NotKept, ExporterTLS
  <2>2. ASSUME NEW j \in 1..Latest, NEW a, Clean(j, c, a), Secured(c) PROVE Clean(j, d, a)
    BY <2>2, SMTT(30) DEF Clean, Ports, LogSettings, MetricsSettings, Pipelines, ExporterTLS
  <2>4. ASSUME Secured(c) PROVE d # {}
    <3>1. PICK x \in c : x \in Receivers
      BY <2>4 DEF Secured
    <3>2. x # "exporters.otlp.tls.insecure" /\ x # "exporters.otlp.insecure"
      BY <3>1 DEF Receivers
    <3>3. x \in d \/ "receivers.otlp.grpc.tls" \in d
      BY <3>2 DEF ExporterTLS
    <3> QED
      BY <3>3
  <2>3. ASSUME NEW a, Secured(c)
        PROVE  Clean(7, d, a) /\ (Clean(7, c, a) => Alike(c, d) /\ (d = {} => c = {}))
    <3>1. Clean(7, d, a) /\ (Clean(7, c, a) => Alike(c, d))
      BY <2>3, SMTT(30) DEF Clean, Alike, ExporterTLS
    <3> QED
      BY <2>3, <2>4, <3>1
  <2> QED
    BY <2>1, <2>2, <2>3 DEF Changed
<1>7. CASE t.spec = s /\ t.events # {} /\ (t.ok => ~Secured(c))
  <2>1. ~Secured(c) => Finished(7, c, s.args)
    BY SMTT(30) DEF Finished, Clean
  <2> QED
    BY <1>7, <2>1, NothingDone
<1>8. CASE t.spec = [s EXCEPT !.config = Marshal(d)] /\ t.events # {} /\ c # {} /\ Secured(c)
  <2> HIDE DEF d
  <2> QED  BY <1>6, <1>8, ConfigDone
<1> QED
  BY <1>4, <1>7, <1>8

\* The steps that move arguments to the configuration take all of them or, when the
\* configuration has such a setting, none.
LEMMA MoveArgsDone ==
    ASSUME NEW i, NEW s, HasFields(s), NEW names, NEW section,
           i \in {8, 11},
           DOMAIN names = IF i = 8 THEN LogArgs ELSE MetricsArgs,
           section = IF i = 8 THEN LogSettings ELSE MetricsSettings,
           \A a \in DOMAIN names : names[a] \in section
    PROVE  StepGood(i, s, MoveArgs(s, names, section))
<1> DEFINE c == s.config
           found == s.args \cap DOMAIN names
           b == s.args \ found
           u == [s EXCEPT !.args = b]
           d == IF c \cap section # {} THEN c
                ELSE (c \ {"{}"}) \cup {names[a] : a \in found}
           t == MoveArgs(s, names, section)
<1>1. CASE found = {}
  <2>1. t.spec = s /\ t.events = {0}
    BY <1>1 DEF MoveArgs, Unchanged, Result
  <2>2. Finished(i, c, s.args)
    BY <1>1, SMTT(30) DEF Finished, Clean
  <2> QED
    BY <2>1, <2>2, NothingDone
<1>2. CASE found # {}
  <2>1. HasFields(u) /\ u.args = b /\ u.config = c
    BY SetArgs
  <2>2. /\ b \subseteq s.args
        /\ i # 8 => b \cap LogArgs = s.args \cap LogArgs
        /\ i # 11 => b \cap MetricsArgs = s.args \cap MetricsArgs
    BY DEF LogArgs, MetricsArgs
  <2>3. CASE "unparsable" \in c
    <3>1. t.spec = u /\ t.events = {0} /\ t.ok = FALSE
      BY <1>2, <2>3 DEF MoveArgs, Failed, Result
    <3> HIDE DEF b, t, u
    <3>2. StepGood(i, s, t)
      BY <2>1, <2>2, <3>1 DEF StepGood, ConfigStep, Preserved, Alike
    <3> QED
      BY <3>2 DEF t
  <2>4. CASE "unparsable" \notin c
    <3>1. t.spec = [u EXCEPT !.config = d] /\ t.events = {1}
      <4>1. t = Configured(u, d, 1)
        BY <1>2, <2>4 DEF MoveArgs
      <4>2. Marshal(d) = d
        BY <1>2 DEF Marshal
      <4> HIDE DEF t, u, d
      <4> QED
        BY <4>1, <4>2 DEF Configured, Result
    <3>2. d \cap section # {}
      BY <1>2
    <3>3. c \ {"{}"} \subseteq d /\ d \subseteq c \cup LogSettings \cup MetricsSettings
      OBVIOUS
    <3>4. i = 8 => section = LogSettings
      OBVIOUS
    <3>5. i = 11 => section = MetricsSettings
      BY SMTT(30)
    <3>6. \A a : s.args \subseteq a /\ Finished(i, c, a) => d = c
      <4> SUFFICES ASSUME NEW a, s.args \subseteq a, Finished(i, c, a), c \cap section = {}
                   PROVE  FALSE
        OBVIOUS
      <4>1. a \cap (DOMAIN names) = {}
        BY <3>4, <3>5 DEF Finished, Clean
      <4> QED
        BY <1>2, <4>1
    <3> HIDE DEF b, t, u, d, c
    <3>7. HasFields(t.spec) /\ t.spec.config = d /\ t.spec.args = b
      BY <2>1, <3>1, SetConfig, SMTT(30)
    <3>8. ConfigStep(c, d)
      <4>1. Preserved(c, d)
        BY <3>3 DEF Preserved, Deprecated, Ports, LogSettings, MetricsSettings
      <4>2. ASSUME NEW j \in 1..Latest, NEW a, Finished(j, c, a) PROVE Finished(j, d, a)
        <5>1. Secured(d) => Secured(c)
          BY <3>3 DEF Secured, LogSettings, MetricsSettings, Receivers, Exporters
        <5>2. d \cap Pipelines # {} => c \cap Pipelines # {}
          BY <3>3 DEF LogSettings, MetricsSettings, Pipelines
        <5>3. d # {}
          BY <3>2
        <5>5. /\ c \cap LogSettings \subseteq d /\ c \cap MetricsSettings \subseteq d
              /\ "receivers.influxdb.null" \in c => "receivers.influxdb.null" \in d
          BY <3>3 DEF LogSettings, MetricsSettings
        <5>6. /\ \A x \in d : x \in c \/ x \in LogSettings \/ x \in MetricsSettings
              /\ d \cap Ports # {} => c \cap Ports # {}
          BY <3>3 DEF LogSettings, MetricsSettings, Ports
        <5>7. Clean(j, c, a)
          BY <4>2 DEF Finished
        <5>4. Clean(j, d, a)
          BY <5>1, <5>2, <5>5, <5>6, <5>7, SMTT(30)
             DEF Clean, LogSettings, MetricsSettings
        <5> QED
          BY <5>3, <5>4 DEF Finished
      <4> QED
        BY <4>1, <4>2 DEF ConfigStep
    <3>9. Finished(i, d, s.args)
      BY <3>2, <3>4, <3>5, SMTT(30) DEF Finished, Clean
    <3>10. StepGood(i, s, t)
      BY <2>2, <3>1, <3>6, <3>7, <3>8, <3>9 DEF StepGood, Alike, c
    <3> QED
      BY <3>10 DEF t
  <2> QED
    BY <2>3, <2>4
<1> QED
  BY <1>1, <1>2

\* The step to 0.38.0 does what StepGood says.
LEMMA Step8 == ASSUME NEW s, HasFields(s) PROVE StepGood(8, s, upgrade0_38_0(s))
<1> DEFINE names == [a \in {"--log-level", "--log-profile"} |->
                        IF a = "--log-level" THEN "service.telemetry.logs.level"
                        ELSE "service.telemetry.logs.development"]
<1>1. DOMAIN names = LogArgs /\ \A a \in DOMAIN names : names[a] \in LogSettings
  BY DEF LogArgs, LogSettings
<1>2. upgrade0_38_0(s) = MoveArgs(s, names, LogSettings)
  BY DEF upgrade0_38_0, LogSettings
<1> HIDE DEF names
<1> QED
  BY <1>1, <1>2, MoveArgsDone, SMTT(30)

\* The step to 0.39.0 does what StepGood says.
LEMMA Step9 == ASSUME NEW s, HasFields(s) PROVE StepGood(9, s, upgrade0_39_0(s))
<1> DEFINE c == s.config
           b == c \ {"processors.memory_limiter.ballast_size_mib"}
           e == IF "processors.attributes.text_null" \in b
                THEN (b \ {"processors.attributes.text_null"}) \cup {"processors.attributes.text"}
                ELSE b
           httpd == [x \in {"receivers.httpd", "service.pipelines.metrics.httpd"} |->
                        IF x = "receivers.httpd" THEN "receivers.apache"
                        ELSE "service.pipelines.metrics.apache"]
           f == (e \ {"receivers.httpd", "service.pipelines.metrics.httpd"})
                  \cup (IF "receivers.httpd" \in e THEN {"receivers.apache"} ELSE {})
                  \cup (IF "service.pipelines.metrics.httpd" \in e
                        THEN {"service.pipelines.metrics.apache"} ELSE {})
           d == IF "receivers.httpd" \in e /\ e \cap Pipelines # {} THEN f ELSE e
           t == upgrade0_39_0(s)
<1>1. updateConfig(b) = e
  <2> HIDE DEF b
  <2> QED  BY DEF updateConfig, Renamed
<1>2. Renamed(e, httpd) = f
  <2> HIDE DEF e
  <2> QED  BY DEF Renamed
<1>3. \/ t.spec = s /\ t.events # {} /\ t.ok = FALSE
      \/ t.spec = [s EXCEPT !.config = Marshal(d)] /\ t.events # {}
  <2>1. CASE "unparsable" \in c
    BY <2>1 DEF upgrade0_39_0, ConfigFromString, Failed, Result
  <2>2. CASE "unparsable" \notin c
    <3>1. \E n : t = Configured(s, d, n)
      <4> HIDE DEF f
      <4> QED  BY <1>1, <1>2, <2>2 DEF upgrade0_39_0, ConfigFromString
    <3> HIDE DEF d, t
    <3> QED
      BY <3>1, SMTT(30) DEF Configured, Result
  <2> QED
    BY <2>1, <2>2
<1>4. Changed(9, c, d, s.args)
  <2> HIDE DEF c
  <2>1. Preserved(c, d)
    BY DEF Preserved, Ports, Endpoints, Deprecated, NotKept
  <2>2. ASSUME NEW j \in 1..Latest, NEW a, Clean(j, c, a) PROVE Clean(j, d, a)
    <3>1. /\ d \subseteq c \cup {"processors.attributes.text", "receivers.apache",
                              "service.pipelines.metrics.apache"}
          /\ d \cap Receivers # {} => c \cap Receivers # {}
          /\ d \cap Pipelines # {} => c \cap Pipelines # {}
      BY DEF Receivers, Pipelines
    <3>2. LogSettings \cap c \subseteq d /\ MetricsSettings \cap c \subseteq d
      BY DEF LogSettings, MetricsSettings
    <3>3. c \cap {"receivers.influxdb.null", "receivers.otlp.grpc.null", "exporters.otlp.null"}
          \subseteq d
      OBVIOUS
    <3> HIDE DEF d
    <3>4. Secured(d) => Secured(c)
      BY <3>1, <3>3 DEF Secured, Exporters
    <3> QED
      BY <2>2, <3>1, <3>2, <3>3, <3>4, SMTT(30) DEF Clean, Ports
  <2>3. ASSUME NEW a PROVE Clean(9, d, a) /\ (Clean(9, c, a) => Alike(c, d) /\ (d = {} => c = {}))
    <3>1. /\ "processors.attributes.text_null" \notin d
          /\ "processors.memory_limiter.ballast_size_mib" \notin d
      OBVIOUS
    <3>2. "receivers.httpd" \notin d \/ d \cap Pipelines = {}
      <4> HIDE DEF e
      <4> QED  OBVIOUS
    <3>3. ASSUME Clean(9, c, a) PROVE c = d
      <4>1. e = c
        BY <3>3 DEF Clean
      <4>2. "receivers.httpd" \notin c \/ c \cap Pipelines = {}
        BY <3>3 DEF Clean
      <4> HIDE DEF e, f
      <4> QED
        BY <4>1, <4>2
    <3> HIDE DEF d
    <3> QED
      BY <3>1, <3>2, <3>3, SMTT(30) DEF Clean, Alike
  <2> QED
    BY <2>1, <2>2, <2>3 DEF Changed
<1> HIDE DEF d
<1> QED
  BY <1>3, <1>4, NothingDone, ConfigDone

\* The step to 0.41.0 does what StepGood says.
LEMMA Step10 == ASSUME NEW s, HasFields(s) PROVE StepGood(10, s, upgrade0_41_0(s))
<1> DEFINE c == s.config
           old == {"receivers.otlp.cors_allowed_origins"}
           cors == {"receivers.otlp.cors.allowed_origins", "receivers.otlp.cors.max_age"}
           b == IF c \cap old = {} THEN c
                ELSE ((c \ cors) \ old) \cup {"receivers.otlp.cors.allowed_origins"}
           d == IF "processors.attributes.text_null" \in b
                THEN (b \ {"processors.attributes.text_null"}) \cup {"processors.attributes.text"}
                ELSE b
           t == upgrade0_41_0(s)
<1>1. c \cap old # {} =>
        Renamed(c \ cors, [x \in old |-> "receivers.otlp.cors.allowed_origins"])
        = ((c \ cors) \ old) \cup {"receivers.otlp.cors.allowed_origins"}
  <2> HIDE DEF c
  <2> QED  BY DEF Renamed
<1>2. updateConfig(b) = d
  <2> HIDE DEF b
  <2> QED  BY DEF updateConfig, Renamed
<1>3. \/ t.spec = s /\ t.events # {} /\ t.ok = FALSE
      \/ t.spec = [s EXCEPT !.config = Marshal(d)] /\ t.events # {}
  <2>1. CASE "unparsable" \in c
    BY <2>1 DEF upgrade0_41_0, ConfigFromString, Failed, Result
  <2>2. CASE "unparsable" \notin c
    <3>1. t = Configured(s, d, Count(c, old))
      <4>1. b = IF c \cap old = {} THEN c
                ELSE Renamed(c \ cors, [x \in old |-> "receivers.otlp.cors.allowed_origins"])
        BY <1>1
      <4> HIDE DEF b, d
      <4> QED  BY <1>2, <2>2, <4>1 DEF upgrade0_41_0, ConfigFromString
    <3> HIDE DEF d, t
    <3> QED
      BY <3>1 DEF Configured, Result
  <2> QED
    BY <2>1, <2>2
<1>4. Changed(10, c, d, s.args)
  <2> HIDE DEF c
  <2>1. Preserved(c, d)
    BY DEF Preserved, Ports, Endpoints, Deprecated, NotKept
  <2>2. ASSUME NEW j \in 1..Latest, NEW a, Clean(j, c, a) PROVE Clean(j, d, a)
    BY <2>2, SMTT(30) DEF Clean, Ports, Secured, LogSettings, MetricsSettings, Pipelines, Receivers, Exporters
  <2>3. ASSUME NEW a PROVE Clean(10, d, a) /\ (Clean(10, c, a) => Alike(c, d) /\ (d = {} => c = {}))
    BY SMTT(30) DEF Clean, Alike
  <2> QED
    BY <2>1, <2>2, <2>3 DEF Changed
<1> HIDE DEF d
<1> QED
  BY <1>3, <1>4, NothingDone, ConfigDone

\* The step to 0.43.0 does what StepGood says.
LEMMA Step11 == ASSUME NEW s, HasFields(s) PROVE StepGood(11, s, upgrade0_43_0(s))
<1> DEFINE names == [a \in {"--metrics-addr", "--metrics-level"} |->
                        IF a = "--metrics-addr" THEN "service.telemetry.metrics.address"
                        ELSE "service.telemetry.metrics.level"]
<1>1. DOMAIN names = MetricsArgs /\ \A a \in DOMAIN names : names[a] \in MetricsSettings
  BY DEF MetricsArgs, MetricsSettings
<1>2. upgrade0_43_0(s) = MoveArgs(s, names, MetricsSettings)
  BY DEF upgrade0_43_0, MetricsSettings
<1> HIDE DEF names
<1> QED
  BY <1>1, <1>2, MoveArgsDone, SMTT(30)

\* The step to 0.56.0 does what StepGood says.
LEMMA Step12 ==
    ASSUME NEW s, HasFields(s), NEW h PROVE StepGood(12, s, upgrade0_56_0(s, Nil, h))
<1> DEFINE t == upgrade0_56_0(s, Nil, h)
<1>1. t.events # {} /\ (t.spec = s \/ t.spec = [s EXCEPT !.minReplicas = 1])
  BY DEF upgrade0_56_0, Unchanged, Failed, Result
<1>2. HasFields(t.spec) /\ t.spec.args = s.args /\ t.spec.config = s.config
  <2> HIDE DEF t
  <2>1. CASE t.spec = s
    BY <2>1
  <2>2. CASE t.spec = [s EXCEPT !.minReplicas = 1]
    BY <2>2, SetMinReplicas, SMTT(30)
  <2> QED
    BY <1>1, <2>1, <2>2
<1>3. Finished(12, s.config, s.args)
  BY SMTT(30) DEF Finished, Clean
<1> HIDE DEF t
<1>4. StepGood(12, s, t)
  BY <1>1, <1>2, <1>3 DEF StepGood, ConfigStep, Preserved, Alike
<1> QED
  BY <1>4 DEF t

\* The step to 0.57.2 does what StepGood says.
LEMMA Step13 == ASSUME NEW s, HasFields(s) PROVE StepGood(13, s, upgrade0_57_2(s))
<1> DEFINE c == s.config
           endpoint == IF {"extensions.health_check.host", "extensions.health_check.port_text"}
                              \subseteq c
                       THEN "extensions.health_check.endpoint"
                       ELSE "extensions.health_check.malformed_endpoint"
           d == IF c \cap Ports = {} THEN c ELSE (c \ (Ports \cup Endpoints)) \cup {endpoint}
           t == upgrade0_57_2(s)
<1>1. endpoint \in Endpoints
  BY DEF Endpoints
<1>5. WithEndpoint(s, endpoint).spec = [s EXCEPT !.config = Marshal(d)]
      /\ WithEndpoint(s, endpoint).events # {}
  <2> HIDE DEF endpoint
  <2> QED  BY DEF WithEndpoint, Configured, Result
<1>2. \/ /\ t.spec = s /\ t.events # {}
         /\ t.ok => c = {}
      \/ t.spec = [s EXCEPT !.config = Marshal(d)] /\ t.events # {} /\ c # {}
  BY <1>5 DEF upgrade0_57_2, Parsed, ConfigFromString, Unchanged, Failed, Result
<1>3. c = {} => Finished(13, c, s.args)
  BY SMTT(30) DEF Finished, Clean
<1>4. Changed(13, c, d, s.args)
  <2> HIDE DEF c, endpoint
  <2>1. Preserved(c, d)
    BY <1>1 DEF Preserved, Ports, Endpoints, Deprecated
  <2>2. ASSUME NEW j \in 1..Latest, NEW a, Clean(j, c, a) PROVE Clean(j, d, a)
    BY <1>1, <2>2, SMTT(30) DEF Clean, Ports, Endpoints, Secured, LogSettings, MetricsSettings, Pipelines, Receivers, Exporters
  <2>3. ASSUME NEW a PROVE Clean(13, d, a) /\ (Clean(13, c, a) => Alike(c, d) /\ (d = {} => c = {}))
    BY <1>1, SMTT(30) DEF Clean, Ports, Endpoints, Alike
  <2> QED
    BY <2>1, <2>2, <2>3 DEF Changed
<1> HIDE DEF d
<1> QED
  BY <1>2, <1>3, <1>4, NothingDone, ConfigDone

\* The step to 0.61.0 does what StepGood says.
LEMMA Step14 == ASSUME NEW s, HasFields(s) PROVE StepGood(14, s, upgrade0_61_0(s))
<1>1. Finished(14, s.config, s.args)
  BY SMTT(30) DEF Finished, Clean
<1>2. upgrade0_61_0(s).spec = s /\ upgrade0_61_0(s).events # {}
  BY DEF upgrade0_61_0, Parsed, ConfigFromString, Unchanged, Failed, Result
<1> QED
  BY <1>1, <1>2, NothingDone

\* Every step does what StepGood says.
LEMMA Steps ==
    ASSUME NEW i \in 1..Latest, NEW s, HasFields(s), NEW h
    PROVE  StepGood(i, s, UpgradeTo(i, s, Nil, h))
<1>1. i \in {1, 2, 3, 4, 5, 6, 7, 8, 9, 10, 11, 12, 13, 14}
  BY SMTT(30) DEF Latest
<1>2. CASE i \in {1, 2, 3, 4, 5}
  BY <1>2, Step1, Step2, Step3, Step4, Step5, SMTT(30) DEF UpgradeTo
<1>3. CASE i \in {6, 7, 8, 9, 10}
  BY <1>3, Step6, Step7, Step8, Step9, Step10, SMTT(30) DEF UpgradeTo
<1>4. CASE i \in {11, 12, 13, 14}
  BY <1>4, Step11, Step12, Step13, Step14, SMTT(30) DEF UpgradeTo
<1> QED
  BY <1>1, <1>2, <1>3, <1>4

\* No step after version v has anything left to do.
Normal(c, a, v) == \A i \in 1..Latest : i > v => Finished(i, c, a)

\* The outcomes X of the first i steps for a spec s of version v.
Outcomes(i, X, s, v) ==
    /\ X # {}
    /\ \A r, q \in X : r.ok = q.ok /\ r.spec = q.spec
    /\ \A r \in X :
          /\ HasFields(r.spec)
          /\ r.spec.args \subseteq s.args
          /\ i < 8 => r.spec.args \cap LogArgs = s.args \cap LogArgs
          /\ i < 11 => r.spec.args \cap MetricsArgs = s.args \cap MetricsArgs
          /\ Preserved(s.config, r.spec.config)
          /\ r.ok => \A j \in 1..i : j > v => Finished(j, r.spec.config, s.args)
          /\ Normal(s.config, s.args, v) =>
                Normal(r.spec.config, s.args, v) /\ Alike(s.config, r.spec.config)

\* Steps in a row keep what each of them keeps.
LEMMA PreservedTransitive ==
    ASSUME NEW c, NEW d, NEW e, Preserved(c, d), Preserved(d, e)
    PROVE  Preserved(c, e)
<1>1. Deprecated(d) \subseteq Deprecated(c)
  BY DEF Preserved, Deprecated
<1> QED
  BY <1>1 DEF Preserved

\* Whether a step is finished depends on no arguments but those it moves.
LEMMA FinishedArgs ==
    ASSUME NEW i, NEW c, NEW a, NEW b, Finished(i, c, a),
           i = 8 => b \cap LogArgs = a \cap LogArgs,
           i = 11 => b \cap MetricsArgs = a \cap MetricsArgs
    PROVE  Finished(i, c, b)
BY DEF Finished, Clean

\* What the loop of ManagedInstance makes of the outcomes so far.
LEMMA LoopElements ==
    ASSUME NEW i, NEW v, NEW X, NEW h, NEW q
    PROVE  q \in Loop(i, v, X, Nil, h) <=>
             \E r \in X :
                IF i <= v \/ ~r.ok THEN q = r
                ELSE LET t == UpgradeTo(i, r.spec, Nil, h) IN
                     \E n \in t.events : q = Result(t.ok, t.spec, r.events + n)
BY SMTT(30) DEF Loop, After

\* One turn of the loop, with step i.
LEMMA LoopOutcomes ==
    ASSUME NEW i \in 1..Latest, NEW s, HasFields(s), NEW v \in 0..Latest, NEW h, NEW X,
           Outcomes(i - 1, X, s, v)
    PROVE  Outcomes(i, Loop(i, v, X, Nil, h), s, v)
<1> DEFINE Y == Loop(i, v, X, Nil, h)
<1>1. PICK r \in X : TRUE
  BY DEF Outcomes
<1>2. \A q \in X : q.ok = r.ok /\ q.spec = r.spec
  BY DEF Outcomes
<1>3. CASE i <= v \/ ~r.ok
  <2>1. Y = X
    <3>1. \A x \in X : i <= v \/ ~x.ok
      BY <1>2, <1>3
    <3>2. ASSUME NEW q PROVE q \in Y <=> \E x \in X : q = x
      BY <3>1, LoopElements, SMTT(30)
    <3> HIDE DEF Y
    <3> QED
      BY <3>2
  <2>2. r.ok => \A j \in 1..i : j > v => j \in 1..i - 1
    BY <1>3, SMTT(30) DEF Latest
  <2> HIDE DEF Y
  <2>3. \A q \in X : q.ok => \A j \in 1..i : j > v => Finished(j, q.spec.config, s.args)
    BY <1>2, <2>2 DEF Outcomes
  <2>4. Outcomes(i, Y, s, v)
    BY <2>1, <2>3, SMTT(30) DEF Outcomes, Latest
  <2> QED
    BY <2>4 DEF Y
<1>4. CASE ~(i <= v \/ ~r.ok)
  <2> DEFINE t == UpgradeTo(i, r.spec, Nil, h)
  <2>1. StepGood(i, r.spec, t)
    BY <1>1, Steps DEF Outcomes
  <2> HIDE DEF t
  <2>2. \A q \in Y : q.ok = t.ok /\ q.spec = t.spec
    <3>1. ASSUME NEW q \in Y PROVE q.ok = t.ok /\ q.spec = t.spec
      <4>1. PICK x \in X :
                IF i <= v \/ ~x.ok THEN q = x
                ELSE \E n \in UpgradeTo(i, x.spec, Nil, h).events :
                        q = Result(UpgradeTo(i, x.spec, Nil, h).ok,
                                   UpgradeTo(i, x.spec, Nil, h).spec, x.events + n)
        BY LoopElements, SMTT(30)
      <4>2. x.ok = r.ok /\ x.spec = r.spec
        BY <1>2
      <4> QED
        BY <1>4, <4>1, <4>2, SMTT(30) DEF t, Result
    <3> QED
      BY <3>1
  <2>3. Y # {}
    <3>1. PICK n \in t.events : TRUE
      BY <2>1 DEF StepGood
    <3>2. Result(t.ok, t.spec, r.events + n) \in Y
      BY <1>4, LoopElements DEF t
    <3> QED
      BY <3>2
  <2> DEFINE c == r.spec.config
             d == t.spec.config
  <2>4. ConfigStep(c, d)
    BY <2>1 DEF StepGood
  <2>5. /\ HasFields(t.spec)
        /\ t.spec.args \subseteq s.args
        /\ i < 8 => t.spec.args \cap LogArgs = s.args \cap LogArgs
        /\ i < 11 => t.spec.args \cap MetricsArgs = s.args \cap MetricsArgs
    BY <2>1, SMTT(30) DEF StepGood, Outcomes, Latest
  <2>6. Preserved(s.config, d)
    BY <2>4, PreservedTransitive DEF ConfigStep, Outcomes
  <2>7. ASSUME t.ok, NEW j \in 1..i, j > v PROVE Finished(j, d, s.args)
    <3>1. CASE j = i
      <4>1. Finished(i, d, r.spec.args)
        BY <2>1, <2>7 DEF StepGood
      <4>2. /\ i = 8 => s.args \cap LogArgs = r.spec.args \cap LogArgs
            /\ i = 11 => s.args \cap MetricsArgs = r.spec.args \cap MetricsArgs
        BY SMTT(30) DEF Outcomes
      <4> QED
        BY <3>1, <4>1, <4>2, FinishedArgs
    <3>2. CASE j # i
      <4>1. j \in 1..i - 1 /\ j \in 1..Latest
        BY <3>2, SMTT(30) DEF Latest
      <4>2. Finished(j, c, s.args)
        BY <1>4, <2>7, <4>1 DEF Outcomes
      <4> QED
        BY <2>4, <4>1, <4>2 DEF ConfigStep
    <3> QED
      BY <3>1, <3>2
  <2>8. ASSUME Normal(s.config, s.args, v)
        PROVE  Normal(d, s.args, v) /\ Alike(s.config, d)
    <3>1. Normal(c, s.args, v) /\ Alike(s.config, c)
      BY <2>8 DEF Outcomes
    <3>2. Normal(d, s.args, v)
      BY <2>4, <3>1 DEF Normal, ConfigStep
    <3>3. Finished(i, c, s.args)
      BY <1>4, <3>1, SMTT(30) DEF Normal, Latest
    <3>4. r.spec.args \subseteq s.args
      BY DEF Outcomes
    <3>5. Alike(c, d)
      BY <2>1, <3>3, <3>4 DEF StepGood
    <3> QED
      BY <3>1, <3>2, <3>5 DEF Alike
  <2> HIDE DEF Y, c
  <2>9. Outcomes(i, Y, s, v)
    BY <2>2, <2>3, <2>5, <2>6, <2>7, <2>8 DEF Outcomes
  <2> QED
    BY <2>9 DEF Y
<1> QED
  BY <1>3, <1>4

\* The loop starts with the spec that was listed.
LEMMA NoStepYet ==
    ASSUME NEW s, HasFields(s), NEW v
    PROVE  Outcomes(0, {Result(TRUE, s, 0)}, s, v)
BY SMTT(30) DEF Outcomes, Result, Preserved, Alike

\* The outcomes of all steps.
LEMMA ManagedOutcomes ==
    ASSUME NEW s, HasFields(s), NEW v \in 0..Latest, NEW h
    PROVE  Outcomes(Latest, ManagedInstance(s, v, Nil, h), s, v)
<1> DEFINE To(i, X) == Loop(i, v, X, Nil, h)
           X0 == {Result(TRUE, s, 0)}
           X1 == To(1, X0)
           X2 == To(2, X1)
           X3 == To(3, X2)
           X4 == To(4, X3)
           X5 == To(5, X4)
           X6 == To(6, X5)
           X7 == To(7, X6)
           X8 == To(8, X7)
           X9 == To(9, X8)
           X10 == To(10, X9)
           X11 == To(11, X10)
           X12 == To(12, X11)
           X13 == To(13, X12)
           X14 == To(14, X13)
<1>1. ASSUME NEW i \in 1..14, NEW X, Outcomes(i - 1, X, s, v)
      PROVE  Outcomes(i, To(i, X), s, v)
  <2>1. i \in 1..Latest
    BY DEF Latest
  <2> QED
    BY <1>1, <2>1, LoopOutcomes
<1>2. ManagedInstance(s, v, Nil, h) = X14
  <2>1. ~(v = NoVersion \/ v > Latest)
    BY SMTT(30) DEF NoVersion, Latest
  <2> QED
    BY <2>1 DEF ManagedInstance
<1>3. Outcomes(0, X0, s, v)
  BY NoStepYet
<1> HIDE DEF X0
<1>4. Outcomes(1, X1, s, v)
  BY <1>1, <1>3, SMTT(30)
<1> HIDE DEF X1
<1>5. Outcomes(2, X2, s, v)
  BY <1>1, <1>4, SMTT(30)
<1> HIDE DEF X2
<1>6. Outcomes(3, X3, s, v)
  BY <1>1, <1>5, SMTT(30)
<1> HIDE DEF X3
<1>7. Outcomes(4, X4, s, v)
  BY <1>1, <1>6, SMTT(30)
<1> HIDE DEF X4
<1>8. Outcomes(5, X5, s, v)
  BY <1>1, <1>7, SMTT(30)
<1> HIDE DEF X5
<1>9. Outcomes(6, X6, s, v)
  BY <1>1, <1>8, SMTT(30)
<1> HIDE DEF X6
<1>10. Outcomes(7, X7, s, v)
  BY <1>1, <1>9, SMTT(30)
<1> HIDE DEF X7
<1>11. Outcomes(8, X8, s, v)
  BY <1>1, <1>10, SMTT(30)
<1> HIDE DEF X8
<1>12. Outcomes(9, X9, s, v)
  BY <1>1, <1>11, SMTT(30)
<1> HIDE DEF X9
<1>13. Outcomes(10, X10, s, v)
  BY <1>1, <1>12, SMTT(30)
<1> HIDE DEF X10
<1>14. Outcomes(11, X11, s, v)
  BY <1>1, <1>13, SMTT(30)
<1> HIDE DEF X11
<1>15. Outcomes(12, X12, s, v)
  BY <1>1, <1>14, SMTT(30)
<1> HIDE DEF X12
<1>16. Outcomes(13, X13, s, v)
  BY <1>1, <1>15, SMTT(30)
<1> HIDE DEF X13
<1>17. Outcomes(14, X14, s, v)
  BY <1>1, <1>16, SMTT(30)
<1> QED
  BY <1>2, <1>17 DEF Latest

\* A step that succeeds when the autoscaler is not patched does the same as when it is.
LEMMA LoopWithout ==
    ASSUME NEW i, NEW v, NEW h \in BOOLEAN, NEW X, NEW Y,
           \A x \in X : x.ok => x \in Y
    PROVE  \A x \in Loop(i, v, X, Nil, h) : x.ok => x \in Loop(i, v, Y, Nil, TRUE)
<1>1. ASSUME NEW q \in Loop(i, v, X, Nil, h), q.ok
      PROVE  q \in Loop(i, v, Y, Nil, TRUE)
  <2>1. PICK r \in X :
            IF i <= v \/ ~r.ok THEN q = r
            ELSE \E n \in UpgradeTo(i, r.spec, Nil, h).events :
                    q = Result(UpgradeTo(i, r.spec, Nil, h).ok,
                               UpgradeTo(i, r.spec, Nil, h).spec, r.events + n)
    BY LoopElements, SMTT(30)
  <2>2. CASE i <= v \/ ~r.ok
    <3>1. q = r /\ i <= v /\ r \in Y
      BY <1>1, <2>1, <2>2
    <3> QED
      BY <3>1, LoopElements
  <2>3. CASE ~(i <= v \/ ~r.ok)
    <3>1. UpgradeTo(i, r.spec, Nil, h).ok
      BY <1>1, <2>1, <2>3, SMTT(30) DEF Result
    <3>2. UpgradeTo(i, r.spec, Nil, h) = UpgradeTo(i, r.spec, Nil, TRUE)
      <4>1. i # 12 => UpgradeTo(i, r.spec, Nil, h) = UpgradeTo(i, r.spec, Nil, TRUE)
        BY SMTT(30) DEF UpgradeTo
      <4>2. i = 12 => /\ UpgradeTo(i, r.spec, Nil, h) = upgrade0_56_0(r.spec, Nil, h)
                      /\ UpgradeTo(i, r.spec, Nil, TRUE) = upgrade0_56_0(r.spec, Nil, TRUE)
        BY SMTT(30) DEF UpgradeTo
      <4>3. upgrade0_56_0(r.spec, Nil, h).ok =>
                upgrade0_56_0(r.spec, Nil, h) = upgrade0_56_0(r.spec, Nil, TRUE)
        BY DEF upgrade0_56_0, Failed, Result
      <4> QED
        BY <3>1, <4>1, <4>2, <4>3
    <3>3. r \in Y
      BY <2>3
    <3> QED
      BY <2>1, <2>3, <3>2, <3>3, LoopElements
  <2> QED
    BY <2>2, <2>3
<1> QED
  BY <1>1

\* The same for all steps.
LEMMA ManagedWithout ==
    ASSUME NEW s, NEW v, NEW h \in BOOLEAN, NEW r \in ManagedInstance(s, v, Nil, h), r.ok
    PROVE  r \in ManagedInstance(s, v, Nil, TRUE)
<1> DEFINE In(X, Y) == \A x \in X : x.ok => x \in Y
           X0 == {Result(TRUE, s, 0)}
           X1 == Loop(1, v, X0, Nil, h)
           X2 == Loop(2, v, X1, Nil, h)
           X3 == Loop(3, v, X2, Nil, h)
           X4 == Loop(4, v, X3, Nil, h)
           X5 == Loop(5, v, X4, Nil, h)
           X6 == Loop(6, v, X5, Nil, h)
           X7 == Loop(7, v, X6, Nil, h)
           X8 == Loop(8, v, X7, Nil, h)
           X9 == Loop(9, v, X8, Nil, h)
           X10 == Loop(10, v, X9, Nil, h)
           X11 == Loop(11, v, X10, Nil, h)
           X12 == Loop(12, v, X11, Nil, h)
           X13 == Loop(13, v, X12, Nil, h)
           X14 == Loop(14, v, X13, Nil, h)
           Y0 == X0
           Y1 == Loop(1, v, Y0, Nil, TRUE)
           Y2 == Loop(2, v, Y1, Nil, TRUE)
           Y3 == Loop(3, v, Y2, Nil, TRUE)
           Y4 == Loop(4, v, Y3, Nil, TRUE)
           Y5 == Loop(5, v, Y4, Nil, TRUE)
           Y6 == Loop(6, v, Y5, Nil, TRUE)
           Y7 == Loop(7, v, Y6, Nil, TRUE)
           Y8 == Loop(8, v, Y7, Nil, TRUE)
           Y9 == Loop(9, v, Y8, Nil, TRUE)
           Y10 == Loop(10, v, Y9, Nil, TRUE)
           Y11 == Loop(11, v, Y10, Nil, TRUE)
           Y12 == Loop(12, v, Y11, Nil, TRUE)
           Y13 == Loop(13, v, Y12, Nil, TRUE)
           Y14 == Loop(14, v, Y13, Nil, TRUE)
<1>1. ASSUME NEW i, NEW X, NEW Y, In(X, Y)
      PROVE  In(Loop(i, v, X, Nil, h), Loop(i, v, Y, Nil, TRUE))
  BY <1>1, LoopWithout
<1>2. CASE v = NoVersion \/ v > Latest
  BY <1>2 DEF ManagedInstance
<1>3. CASE ~(v = NoVersion \/ v > Latest)
  <2>1. ManagedInstance(s, v, Nil, h) = X14 /\ ManagedInstance(s, v, Nil, TRUE) = Y14
    BY <1>3 DEF ManagedInstance
  <2>2. In(X0, Y0)
    OBVIOUS
  <2> HIDE DEF In
  <2> HIDE DEF X0, Y0
  <2>3. In(X1, Y1)
    BY <1>1, <2>2
  <2> HIDE DEF X1, Y1
  <2>4. In(X2, Y2)
    BY <1>1, <2>3
  <2> HIDE DEF X2, Y2
  <2>5. In(X3, Y3)
    BY <1>1, <2>4
  <2> HIDE DEF X3, Y3
  <2>6. In(X4, Y4)
    BY <1>1, <2>5
  <2> HIDE DEF X4, Y4
  <2>7. In(X5, Y5)
    BY <1>1, <2>6
  <2> HIDE DEF X5, Y5
  <2>8. In(X6, Y6)
    BY <1>1, <2>7
  <2> HIDE DEF X6, Y6
  <2>9. In(X7, Y7)
    BY <1>1, <2>8
  <2> HIDE DEF X7, Y7
  <2>10. In(X8, Y8)
    BY <1>1, <2>9
  <2> HIDE DEF X8, Y8
  <2>11. In(X9, Y9)
    BY <1>1, <2>10
  <2> HIDE DEF X9, Y9
  <2>12. In(X10, Y10)
    BY <1>1, <2>11
  <2> HIDE DEF X10, Y10
  <2>13. In(X11, Y11)
    BY <1>1, <2>12
  <2> HIDE DEF X11, Y11
  <2>14. In(X12, Y12)
    BY <1>1, <2>13
  <2> HIDE DEF X12, Y12
  <2>15. In(X13, Y13)
    BY <1>1, <2>14
  <2> HIDE DEF X13, Y13
  <2>16. In(X14, Y14)
    BY <1>1, <2>15
  <2> QED
    BY <2>1, <2>16 DEF In
<1> QED
  BY <1>2, <1>3

\* An upgrade that is repeated, because the operator stopped or failed after the patch of
\* the spec, changes nothing: for every spec and version the steps leave the configuration
\* that they made, but for the tls sections of exporters (upgrade.go, ManagedInstance).
THEOREM RepeatedUpgrade ==
    ASSUME NEW s \in Specs, NEW v \in 0..Latest, NEW h \in BOOLEAN, NEW g \in BOOLEAN,
           NEW r \in ManagedInstance(s, v, Nil, h), r.ok,
           NEW t \in Specs, t.config = r.spec.config, t.args = s.args,
           NEW q \in ManagedInstance(t, v, Nil, g)
    PROVE  q.spec.config \ ExporterTLS = r.spec.config \ ExporterTLS
<1>1. HasFields(s) /\ HasFields(t)
  BY SpecFields
<1>2. /\ Outcomes(Latest, ManagedInstance(s, v, Nil, h), s, v)
      /\ Outcomes(Latest, ManagedInstance(t, v, Nil, g), t, v)
  BY <1>1, ManagedOutcomes
<1>3. Normal(r.spec.config, s.args, v)
  BY <1>2 DEF Outcomes, Normal
<1>4. Alike(t.config, q.spec.config)
  BY <1>2, <1>3 DEF Outcomes
<1> QED
  BY <1>4 DEF Alike

-----------------------------------------------------------------------------
(* The upgrade of the instances.                                           *)

\* What the upgrade is to make of the instance of an intention.
Goal(n) == (CHOOSE r \in ManagedInstance(n.spec, n.from, Nil, TRUE) : TRUE).spec

\* A version that the upgrade works on.
Due(v) == v \in 0..Latest

\* Instance i has what the upgrade is to make of the intention n, and nothing is left to do.
Brought(i, n) ==
    /\ Alike(i.spec.config, Goal(n).config)
    /\ Normal(i.spec.config, i.spec.args, n.from)

\* What the upgrade keeps in any case.
Related(i, n) ==
    /\ i.spec.args = n.spec.args
    /\ i.version \in {n.from, Current}

\* Instance i is what was intended, or what the upgrade has made of it.
Sound(i, n) ==
    /\ Preserved(n.spec.config, i.spec.config)
    /\ Due(n.from) => i.spec = n.spec \/ Brought(i, n)
    /\ Due(n.from) /\ i.version = Current => Brought(i, n)

\* Nothing was written that the patch of the status of k would not see.
Unseen(k) == IF upgrade.locked THEN <<"upgrade", k>> \in seen ELSE k \notin edited

\* What is stored is what was intended, or what the upgrade made of it.
StoredRight ==
    \A k \in Key : store[k] # None =>
        /\ Related(store[k], intended[k])
        /\ k \notin raced => Sound(store[k], intended[k])

\* What was listed and is not edited is still there.
ListedRight ==
    \A k \in DOMAIN upgrade.items \ edited :
        /\ store[k] # None
        /\ upgrade.items[k].version \in {intended[k].from, Current}
        /\ store[k].spec = upgrade.items[k].spec \/ (upgrade.pc = "status" /\ k = upgrade.key)

\* The patch is what the steps make of the listed instance.
PatchRight ==
    upgrade.pc \in {"patch", "status"} =>
        LET item == upgrade.items[upgrade.key] IN
        /\ Due(item.version)
        /\ \E h \in BOOLEAN : \E r \in ManagedInstance(item.spec, item.version, Nil, h) :
              r.ok /\ r.spec = upgrade.spec

\* Between the patches the spec is ahead of the version, and never behind it.
StatusRight ==
    LET k == upgrade.key IN
    /\ upgrade.pc = "status" /\ store[k] # None /\ k \notin raced
    /\ Due(intended[k].from) /\ Unseen(k)
    => Brought(store[k], intended[k])

\* The invariant that every step preserves.
UpgradeInv == StoredRight /\ ListedRight /\ PatchRight /\ StatusRight

\* Alike is an equivalence.
LEMMA AlikeEquivalence ==
    ASSUME NEW c, NEW d, NEW e
    PROVE  /\ Alike(c, c)
           /\ Alike(c, d) => Alike(d, c)
           /\ Alike(c, d) /\ Alike(d, e) => Alike(c, e)
BY DEF Alike

\* All outcomes of the upgrade of an intention have the spec that is its goal.
LEMMA GoalReached ==
    ASSUME NEW n \in Intention, Due(n.from), NEW r \in ManagedInstance(n.spec, n.from, Nil, TRUE)
    PROVE  Goal(n) = r.spec
<1> DEFINE X == ManagedInstance(n.spec, n.from, Nil, TRUE)
<1>1. HasFields(n.spec) /\ n.from \in 0..Latest
  BY SpecFields DEF Intention, Due
<1>2. Outcomes(Latest, X, n.spec, n.from)
  BY <1>1, ManagedOutcomes
<1> HIDE DEF X
<1>3. (CHOOSE q \in X : TRUE) \in X
  BY DEF X
<1>4. (CHOOSE q \in X : TRUE).spec = r.spec
  BY <1>2, <1>3 DEF X, Outcomes
<1> QED
  BY <1>4 DEF Goal, X

\* An instance as it was written is sound; when nothing is left to do, it is what the
\* upgrade makes of it.
LEMMA FreshSound ==
    ASSUME NEW i \in Instance, NEW n \in Intention, i.spec = n.spec, i.version = n.from
    PROVE  /\ Related(i, n) /\ Sound(i, n)
           /\ Due(n.from) /\ Normal(i.spec.config, i.spec.args, n.from) => Brought(i, n)
<1>1. Related(i, n)
  BY DEF Related
<1>2. Sound(i, n)
  BY SMTT(30) DEF Sound, Preserved, Due, Current, Latest
<1>3. ASSUME Due(n.from), Normal(i.spec.config, i.spec.args, n.from)
      PROVE  Brought(i, n)
  <2> DEFINE X == ManagedInstance(n.spec, n.from, Nil, TRUE)
  <2>1. HasFields(n.spec) /\ n.from \in 0..Latest
    BY <1>3, SpecFields DEF Intention, Due
  <2>2. Outcomes(Latest, X, n.spec, n.from)
    BY <2>1, ManagedOutcomes
  <2>3. PICK r \in X : TRUE
    BY <2>2 DEF Outcomes
  <2>4. Alike(i.spec.config, r.spec.config)
    BY <1>3, <2>2, <2>3 DEF Outcomes
  <2>5. Goal(n) = r.spec
    BY <1>3, <2>3, GoalReached
  <2> QED
    BY <1>3, <2>4, <2>5 DEF Brought
<1> QED
  BY <1>1, <1>2, <1>3

\* Patched with what the steps make of it, a sound instance is what the upgrade is to
\* make of the intention: so also when the steps were taken before.
LEMMA PatchedSound ==
    ASSUME NEW i \in Instance, NEW n \in Intention, Related(i, n), Sound(i, n),
           NEW v, v \in {n.from, Current}, Due(v), NEW h \in BOOLEAN,
           NEW r \in ManagedInstance(i.spec, v, Nil, h), r.ok,
           NEW j \in Instance, j.version = i.version, j.spec.config = r.spec.config,
           j.spec.args = i.spec.args
    PROVE  Sound(j, n) /\ (Due(n.from) => Brought(j, n))
<1>1. v = n.from /\ v \in 0..Latest
  BY SMTT(30) DEF Due, Current, Latest
<1>2. HasFields(i.spec)
  BY SpecFields DEF Instance
<1> DEFINE X == ManagedInstance(i.spec, v, Nil, h)
<1>3. Outcomes(Latest, X, i.spec, v)
  BY <1>1, <1>2, ManagedOutcomes
<1>4. Preserved(n.spec.config, j.spec.config)
  <2>1. Preserved(i.spec.config, r.spec.config)
    BY <1>3 DEF Outcomes
  <2> QED
    BY <2>1, PreservedTransitive DEF Sound
<1>5. Brought(j, n)
  <2>1. CASE i.spec = n.spec
    <3>1. Goal(n) = r.spec
      <4>1. r \in ManagedInstance(n.spec, n.from, Nil, TRUE)
        BY <1>1, <2>1, ManagedWithout
      <4> QED
        BY <1>1, <4>1, GoalReached
    <3>2. Normal(r.spec.config, i.spec.args, v)
      BY <1>3 DEF Outcomes, Normal
    <3> QED
      BY <1>1, <3>1, <3>2, AlikeEquivalence DEF Brought
  <2>2. CASE Brought(i, n)
    <3>1. Normal(i.spec.config, i.spec.args, v) /\ Alike(i.spec.config, Goal(n).config)
      BY <1>1, <2>2 DEF Brought
    <3>2. Normal(r.spec.config, i.spec.args, v) /\ Alike(i.spec.config, r.spec.config)
      BY <1>3, <3>1 DEF Outcomes
    <3>3. Alike(r.spec.config, Goal(n).config)
      BY <3>1, <3>2, AlikeEquivalence
    <3> QED
      BY <1>1, <3>2, <3>3 DEF Brought
  <2> QED
    BY <1>1, <2>1, <2>2 DEF Sound
<1> QED
  BY <1>4, <1>5 DEF Sound

\* The version may follow when the spec is what the upgrade is to make.
LEMMA VersionSound ==
    ASSUME NEW i \in Instance, NEW n \in Intention, Related(i, n),
           NEW j \in Instance, j.spec = i.spec, j.version = Current
    PROVE  /\ Related(j, n)
           /\ Sound(i, n) /\ (Due(n.from) => Brought(i, n)) => Sound(j, n)
           /\ Brought(i, n) => Brought(j, n)
BY DEF Related, Sound, Brought

\* The instances that an operator finds are as they were written.
LEMMA UpgradeInvInit == Init => UpgradeInv
<1> SUFFICES ASSUME Init PROVE UpgradeInv
  OBVIOUS
<1>1. Types
  BY TypesInit
<1>2. upgrade.pc = "down" /\ DOMAIN upgrade.items = {}
  BY DEF Init, Stopped, At, NoItems
<1>3. ASSUME NEW k \in Key, store[k] # None
      PROVE  Related(store[k], intended[k]) /\ Sound(store[k], intended[k])
  <2>1. store[k] \in Instance /\ intended[k] \in Intention
    BY <1>1, <1>3 DEF Types
  <2>2. store[k].spec = intended[k].spec /\ store[k].version = intended[k].from
    BY <1>3 DEF Init, Intended
  <2> QED
    BY <2>1, <2>2, FreshSound
<1> QED
  BY <1>2, <1>3 DEF UpgradeInv, StoredRight, ListedRight, PatchRight, StatusRight

\* Steps that change neither what is stored nor the goroutine.
LEMMA UpgradeInvUnchanged ==
    ASSUME UpgradeInv, UNCHANGED <<store, upgrade, intended, edited, raced>>,
           \A k : <<"upgrade", k>> \in seen' => <<"upgrade", k>> \in seen
    PROVE  UpgradeInv'
<1>1. StoredRight'
  BY DEF UpgradeInv, StoredRight
<1>2. ListedRight'
  BY DEF UpgradeInv, ListedRight
<1>3. PatchRight'
  BY DEF UpgradeInv, PatchRight
<1>4. StatusRight'
  BY DEF UpgradeInv, StatusRight, Unseen
<1> QED
  BY <1>1, <1>2, <1>3, <1>4 DEF UpgradeInv

\* The loop goes on.
LEMMA UpgradeInvContinue ==
    ASSUME UpgradeInv, NEW k, upgrade.pc = "status" => k = upgrade.key, Continue(k),
           UNCHANGED <<store, intended, edited, raced>>
    PROVE  UpgradeInv'
<1> DEFINE items == [j \in DOMAIN upgrade.items \ {k} |-> upgrade.items[j]]
<1>1. upgrade'.pc = "loop" /\ upgrade'.items = items
  BY DEF Continue, At
<1>2. StoredRight'
  BY DEF UpgradeInv, StoredRight
<1>3. ListedRight'
  <2>1. \A j \in DOMAIN items : j \in DOMAIN upgrade.items /\ j # k /\ items[j] = upgrade.items[j]
    OBVIOUS
  <2> HIDE DEF items
  <2> QED
    BY <1>1, <2>1 DEF UpgradeInv, ListedRight
<1>4. PatchRight' /\ StatusRight'
  BY <1>1 DEF PatchRight, StatusRight
<1> QED
  BY <1>2, <1>3, <1>4 DEF UpgradeInv

\* The version changes only when the upgrade is due.
LEMMA VersionAfterDue ==
    ASSUME NEW v \in Version
    PROVE  /\ VersionAfter(v) # v => Due(v)
           /\ Due(v) => VersionAfter(v) = Current
BY SMTT(30) DEF VersionAfter, Due, Version, NoVersion, Current, Latest

\* The steps of the goroutine that write nothing.
LEMMA UpgradeInvGoroutine ==
    ASSUME Types, UpgradeInv,
           \/ Start \/ Stop \/ List \/ Upgraded \/ PatchFails
           \/ \E k \in DOMAIN upgrade.items, h \in BOOLEAN : ManagedInstances(k, h)
    PROVE  UpgradeInv'
<1>1. CASE Start \/ Stop \/ Upgraded
  <2>1. \E pc \in {"list", "down", "done"} : upgrade' = At(pc, NoItems)
    BY <1>1 DEF Start, Stop, Upgraded, Stopped
  <2>2. upgrade'.pc \notin {"patch", "status"} /\ DOMAIN upgrade'.items = {}
    BY <2>1, SMTT(30) DEF At, NoItems
  <2>3. UNCHANGED <<store, intended, edited, raced>>
    BY <1>1 DEF Start, Stop, Upgraded, history
  <2>4. StoredRight'
    BY <2>3 DEF UpgradeInv, StoredRight
  <2> QED
    BY <2>2, <2>4 DEF UpgradeInv, ListedRight, PatchRight, StatusRight
<1>2. CASE List
  <2> DEFINE listed == {k \in Key : store[k] # None
                                /\ store[k].spec.managedBy = "opentelemetry-operator"}
             items == [k \in listed |-> store[k]]
  <2>1. /\ upgrade'.pc = "loop" /\ upgrade'.items = items
        /\ UNCHANGED <<store, intended, raced>>
    BY <1>2 DEF List, At
  <2>2. \A k \in DOMAIN items : k \in Key /\ store[k] # None /\ items[k] = store[k]
    OBVIOUS
  <2> HIDE DEF listed, items
  <2>3. StoredRight'
    BY <2>1 DEF UpgradeInv, StoredRight
  <2>4. ListedRight'
    BY <2>1, <2>2 DEF ListedRight, UpgradeInv, StoredRight, Related
  <2>5. PatchRight' /\ StatusRight'
    BY <2>1 DEF PatchRight, StatusRight
  <2> QED
    BY <2>3, <2>4, <2>5 DEF UpgradeInv
<1>3. CASE PatchFails
  BY <1>3, UpgradeInvContinue DEF PatchFails, history
<1>4. ASSUME NEW k \in DOMAIN upgrade.items, NEW h \in BOOLEAN, ManagedInstances(k, h)
      PROVE  UpgradeInv'
  <2> DEFINE item == upgrade.items[k]
  <2>1. UNCHANGED <<store, seen, intended, edited, raced>> /\ upgrade.pc = "loop"
    BY <1>4 DEF ManagedInstances, history
  <2>2. \/ Continue(k)
        \/ upgrade' = At("blocked", upgrade.items)
        \/ \E r \in ManagedInstance(item.spec, item.version, Nil, h) :
              /\ ~(~r.ok \/ VersionAfter(item.version) = item.version)
              /\ upgrade' = Patching("patch", k, r.spec, FALSE)
    BY <1>4 DEF ManagedInstances
  <2> HIDE DEF item
  <2>3. CASE Continue(k)
    BY <2>1, <2>3, UpgradeInvContinue
  <2>4. CASE upgrade' = At("blocked", upgrade.items)
    <3>1. upgrade'.pc = "blocked" /\ upgrade'.items = upgrade.items
      BY <2>4 DEF At
    <3>2. StoredRight' /\ ListedRight'
      BY <2>1, <3>1 DEF UpgradeInv, StoredRight, ListedRight
    <3>3. PatchRight' /\ StatusRight'
      BY <3>1 DEF PatchRight, StatusRight
    <3> QED
      BY <3>2, <3>3 DEF UpgradeInv
  <2>5. ASSUME NEW r \in ManagedInstance(item.spec, item.version, Nil, h),
               r.ok, VersionAfter(item.version) # item.version,
               upgrade' = Patching("patch", k, r.spec, FALSE)
        PROVE  UpgradeInv'
    <3>1. /\ upgrade'.pc = "patch" /\ upgrade'.items = upgrade.items
          /\ upgrade'.key = k /\ upgrade'.spec = r.spec
      BY <2>5 DEF Patching
    <3>2. StoredRight' /\ ListedRight'
      BY <2>1, <3>1 DEF UpgradeInv, StoredRight, ListedRight
    <3>3. Due(item.version)
      BY <2>5, VersionAfterDue DEF item, Types, Instance
    <3>4. upgrade'.items[upgrade'.key] = item
      BY <3>1 DEF item
    <3>5. PatchRight'
      <4>1. r.ok /\ r.spec = upgrade'.spec
        BY <2>5, <3>1
      <4> QED
        BY <3>3, <3>4, <4>1 DEF PatchRight
    <3>6. StatusRight'
      BY <3>1 DEF StatusRight
    <3> QED
      BY <3>2, <3>5, <3>6 DEF UpgradeInv
  <2> QED
    BY <2>2, <2>3, <2>4, <2>5
<1> QED
  BY <1>1, <1>2, <1>3, <1>4

\* An instance that is written or deleted is edited, and the others are as they were.
LEMMA UpgradeInvEdited ==
    ASSUME Types, UpgradeInv, NEW k \in Key,
           \A j \in Key \ {k} : /\ store'[j] = store[j] /\ intended'[j] = intended[j]
                                /\ (j \in raced' <=> j \in raced)
                                /\ (<<"upgrade", j>> \in seen' => <<"upgrade", j>> \in seen),
           edited' = edited \cup {k}, UNCHANGED upgrade,
           store'[k] # None => /\ Related(store'[k], intended'[k])
                               /\ Sound(store'[k], intended'[k]),
           /\ store'[k] # None /\ k \notin raced' /\ Due(intended'[k].from)
           /\ upgrade.pc = "status" /\ k = upgrade.key /\ upgrade.locked
           /\ <<"upgrade", k>> \in seen'
           => Brought(store'[k], intended'[k])
    PROVE  UpgradeInv'
<1>1. StoredRight'
  BY DEF UpgradeInv, StoredRight
<1>2. ListedRight'
  <2>1. \A j \in DOMAIN upgrade'.items \ edited' :
            /\ j \in DOMAIN upgrade.items \ edited /\ upgrade' = upgrade
            /\ store'[j] = store[j] /\ intended'[j] = intended[j]
    BY DEF Types
  <2> QED
    BY <2>1, SMTT(30) DEF UpgradeInv, ListedRight
<1>3. PatchRight'
  BY DEF UpgradeInv, PatchRight
<1>4. StatusRight'
  <2>1. CASE upgrade.key = k
    BY <2>1 DEF StatusRight, Unseen
  <2>2. CASE upgrade.key # k
    <3>1. upgrade.pc = "status" => upgrade.key \in Key \ {k}
      BY <2>2 DEF Types
    <3> QED
      BY <3>1 DEF UpgradeInv, StatusRight, Unseen
  <2> QED
    BY <2>1, <2>2
<1> QED
  BY <1>1, <1>2, <1>3, <1>4 DEF UpgradeInv

\* A write of a user or the bridge.  One that changes nothing leaves the copies up to
\* date: the patch of the status then goes through, and rightly so.
LEMMA UpgradeInvWriteSpec ==
    ASSUME Types, UpgradeInv, NEW c \in {"user", "bridge"}, NEW k \in Key, NEW s \in Specs,
           NEW old \in {store[k], None}, WriteSpec(c, k, old, s), UNCHANGED upgrade
    PROVE  UpgradeInv'
<1> DEFINE v == IF old = None THEN NoVersion ELSE old.version
           i == [spec |-> Default(s), version |-> v]
           n == Intended(i.spec, v, c, Owner(c, k, old))
<1>1. /\ store' = [store EXCEPT ![k] = i]
      /\ intended' = [intended EXCEPT ![k] = n]
      /\ seen' = {p \in seen : p[2] # k \/ i = old} \cup ({<<c, k>>} \cap (Clients \X Key))
      /\ edited' = edited \cup {k}
      /\ raced' = IF i = old THEN raced ELSE raced \ {k}
  BY DEF WriteSpec, Write
<1>2. /\ i \in Instance /\ i.spec = Default(s) /\ i.version = v
      /\ n \in Intention /\ n.spec = i.spec /\ n.from = i.version
  <2>1. v \in Version
    BY SMTT(30) DEF Types, Instance, Version, NoVersion, Current, Latest
  <2>2. Default(s) \in Specs
    BY DefaultType
  <2>3. Owner(c, k, old) \in {"user", "bridge", "recreated"}
    <3>1. old # None => intended[k] \in Intention
      BY DEF Types
    <3> QED
      BY <3>1 DEF Owner, Intention
  <2> HIDE DEF v
  <2> QED
    BY <2>1, <2>2, <2>3 DEF Instance, Intention, Intended
<1>3. old # None => v = old.version
  OBVIOUS
<1> HIDE DEF v, i, n
<1>4. i # None
  BY <1>2, InstancesAssumption
<1>5. store'[k] = i /\ intended'[k] = n
  BY <1>1 DEF Types
<1>6. \A j \in Key \ {k} : /\ store'[j] = store[j] /\ intended'[j] = intended[j]
                           /\ (j \in raced' <=> j \in raced)
                           /\ (<<"upgrade", j>> \in seen' => <<"upgrade", j>> \in seen)
  BY <1>1 DEF Types
<1>7. Related(i, n) /\ Sound(i, n)
  BY <1>2, FreshSound
<1>8. ASSUME k \notin raced', Due(n.from), upgrade.pc = "status", k = upgrade.key,
             upgrade.locked, <<"upgrade", k>> \in seen'
      PROVE  Brought(i, n)
  <2>1. i = old /\ <<"upgrade", k>> \in seen
    BY <1>1, <1>8
  <2>2. store[k] = i /\ k \notin raced
    BY <1>1, <1>4, <1>8, <2>1
  <2>3. intended[k].from = n.from
    <3>1. i.version \in {intended[k].from, Current}
      BY <1>4, <2>2 DEF UpgradeInv, StoredRight, Related
    <3> QED
      BY <1>2, <1>8, <3>1, SMTT(30) DEF Due, Current, Latest
  <2>4. Brought(i, intended[k])
    BY <1>4, <1>8, <2>1, <2>2, <2>3 DEF UpgradeInv, StatusRight, Unseen
  <2>5. Normal(i.spec.config, i.spec.args, n.from)
    BY <2>3, <2>4 DEF Brought
  <2> QED
    BY <1>2, <1>8, <2>5, FreshSound
<1> QED
  BY <1>1, <1>5, <1>6, <1>7, <1>8, UpgradeInvEdited

\* A deletion.
LEMMA UpgradeInvDelete ==
    ASSUME Types, UpgradeInv, NEW k \in Key, DeleteInstance(k), UNCHANGED upgrade
    PROVE  UpgradeInv'
<1>1. /\ store' = [store EXCEPT ![k] = None]
      /\ seen' = {p \in seen : p[2] # k}
      /\ intended' = [intended EXCEPT ![k] = None]
      /\ edited' = edited \cup {k}
      /\ raced' = raced \ {k}
  BY DEF DeleteInstance
<1>2. store'[k] = None
  BY <1>1 DEF Types
<1>3. \A j \in Key \ {k} : /\ store'[j] = store[j] /\ intended'[j] = intended[j]
                           /\ (j \in raced' <=> j \in raced)
                           /\ (<<"upgrade", j>> \in seen' => <<"upgrade", j>> \in seen)
  BY <1>1 DEF Types
<1> QED
  BY <1>1, <1>2, <1>3, UpgradeInvEdited

\* reconcile.Self sets the version of instances that have none, for which nothing is due.
LEMMA UpgradeInvSelf ==
    ASSUME Types, UpgradeInv, NEW k \in Key, Self(k)
    PROVE  UpgradeInv'
<1> DEFINE i == [store[k] EXCEPT !.version = Current]
<1>1. /\ store[k] # None /\ store[k].version = NoVersion
      /\ store' = [store EXCEPT ![k] = i]
      /\ seen' = {p \in seen : p[2] # k \/ i = store[k]}
                    \cup ({<<"operator", k>>} \cap (Clients \X Key))
      /\ UNCHANGED <<upgrade, intended, edited, raced>>
  BY DEF Self, Write, operatorVars, history
<1>2. store[k] \in Instance /\ intended[k] \in Intention
  BY <1>1 DEF Types
<1>3. i \in Instance /\ i.spec = store[k].spec /\ i.version = Current
  BY <1>2, SMTT(30) DEF Instance, Version, NoVersion, Current, Latest
<1> HIDE DEF i
<1>4. i # None /\ store'[k] = i /\ \A j \in Key \ {k} : store'[j] = store[j]
  BY <1>1, <1>3, InstancesAssumption DEF Types
<1>5. Related(store[k], intended[k])
  BY <1>1 DEF UpgradeInv, StoredRight
<1>6. ~Due(intended[k].from)
  BY <1>1, <1>5, SMTT(30) DEF Related, Due, NoVersion, Current, Latest
<1>7. Related(i, intended[k]) /\ (k \notin raced => Sound(i, intended[k]))
  <2>1. k \notin raced => Sound(store[k], intended[k])
    BY <1>1 DEF UpgradeInv, StoredRight
  <2> QED
    BY <1>2, <1>3, <1>5, <1>6, <2>1, VersionSound
<1>8. \A j : <<"upgrade", j>> \in seen' => <<"upgrade", j>> \in seen
  BY <1>1
<1>9. StoredRight'
  BY <1>1, <1>4, <1>7 DEF UpgradeInv, StoredRight
<1>10. ListedRight'
  <2>1. \A j \in Key : store[j] # None => store'[j] # None /\ store'[j].spec = store[j].spec
    BY <1>3, <1>4
  <2>2. DOMAIN upgrade.items \subseteq Key
    BY DEF Types
  <2> QED
    BY <1>1, <2>1, <2>2 DEF UpgradeInv, ListedRight
<1>11. PatchRight'
  BY <1>1 DEF UpgradeInv, PatchRight
<1>12. StatusRight'
  <2>1. CASE upgrade.key = k
    BY <1>1, <1>6, <2>1 DEF StatusRight
  <2>2. CASE upgrade.key # k
    <3>1. upgrade.pc = "status" => upgrade.key \in Key \ {k}
      BY <2>2 DEF Types
    <3> QED
      BY <1>1, <1>4, <1>8, <3>1 DEF UpgradeInv, StatusRight, Unseen
  <2> QED
    BY <2>1, <2>2
<1> QED
  BY <1>9, <1>10, <1>11, <1>12 DEF UpgradeInv

\* The version is patched when nobody has written the spec since it was patched, or the
\* instance counts as raced.
LEMMA UpgradeInvPatchStatus ==
    ASSUME Types, UpgradeInv, PatchStatus
    PROVE  UpgradeInv'
<1> DEFINE k == upgrade.key
           item == upgrade.items[k]
           i == [store[k] EXCEPT !.version = VersionAfter(item.version)]
           items == [j \in DOMAIN upgrade.items \ {k} |-> upgrade.items[j]]
<1>1. upgrade.pc = "status" /\ Continue(k) /\ UNCHANGED <<intended, edited>>
  BY DEF PatchStatus
<1>2. CASE UNCHANGED <<store, seen, raced>>
  BY <1>1, <1>2, UpgradeInvContinue
<1>3. CASE ~UNCHANGED <<store, seen, raced>>
  <2>1. /\ store[k] # None /\ ~(upgrade.locked /\ <<"upgrade", k>> \notin seen)
        /\ store' = [store EXCEPT ![k] = i]
        /\ raced' = IF ~upgrade.locked /\ k \in edited THEN raced \cup {k} ELSE raced
    BY <1>3 DEF PatchStatus, Write
  <2>2. k \in Key /\ item \in Instance /\ store[k] \in Instance /\ intended[k] \in Intention
    BY <1>1, <2>1 DEF Types
  <2>3. VersionAfter(item.version) = Current
    <3>1. Due(item.version)
      BY <1>1 DEF UpgradeInv, PatchRight
    <3> QED
      BY <2>2, <3>1, VersionAfterDue DEF Instance
  <2>4. i \in Instance /\ i.spec = store[k].spec /\ i.version = Current
    BY <2>2, <2>3, SMTT(30) DEF Instance, Version, NoVersion, Current, Latest
  <2>5. upgrade'.pc = "loop" /\ upgrade'.items = items
    BY <1>1 DEF Continue, At
  <2>6. \A j \in DOMAIN items : j \in DOMAIN upgrade.items /\ j # k /\ items[j] = upgrade.items[j]
    OBVIOUS
  <2> HIDE DEF k, item, i, items
  <2>7. i # None /\ store'[k] = i /\ \A j \in Key \ {k} : store'[j] = store[j]
    BY <2>1, <2>2, <2>4, InstancesAssumption DEF Types
  <2>8. Related(store[k], intended[k]) /\ (k \notin raced => Sound(store[k], intended[k]))
    BY <2>1, <2>2 DEF UpgradeInv, StoredRight
  <2>9. Related(i, intended[k])
    BY <2>2, <2>4, <2>8, VersionSound
  <2>10. ASSUME k \notin raced'
         PROVE  Sound(i, intended[k])
    <3>1. k \notin raced /\ Unseen(k)
      BY <2>1, <2>10 DEF Unseen
    <3>2. Due(intended[k].from) => Brought(store[k], intended[k])
      BY <1>1, <2>1, <3>1 DEF UpgradeInv, StatusRight, k
    <3> QED
      BY <2>2, <2>4, <2>8, <3>1, <3>2, VersionSound
  <2>11. StoredRight'
    <3>1. \A j \in Key \ {k} : j \in raced' <=> j \in raced
      BY <2>1
    <3> QED
      BY <1>1, <2>7, <2>9, <2>10, <3>1 DEF UpgradeInv, StoredRight
  <2>12. ListedRight'
    <3>1. DOMAIN upgrade.items \subseteq Key
      BY DEF Types
    <3> QED
      BY <1>1, <2>5, <2>6, <2>7, <3>1, SMTT(30) DEF UpgradeInv, ListedRight, k
  <2>13. PatchRight' /\ StatusRight'
    BY <2>5 DEF PatchRight, StatusRight
  <2> QED
    BY <2>11, <2>12, <2>13 DEF UpgradeInv
<1> QED
  BY <1>2, <1>3

\* The patch of the spec: of an instance that is as it was listed, or that counts as raced.
LEMMA UpgradeInvPatchSpec ==
    ASSUME Types, UpgradeInv, PatchSpec
    PROVE  UpgradeInv'
<1> DEFINE k == upgrade.key
           item == upgrade.items[k]
           patched == MergePatch(item.spec, upgrade.spec, store[k].spec)
           i == [store[k] EXCEPT !.spec = Default(patched)]
<1>1. upgrade.pc = "patch" /\ UNCHANGED <<intended, edited>>
  BY DEF PatchSpec
<1>2. CASE store[k] = None \/ ~Admitted(patched)
  <2>1. Continue(k) /\ UNCHANGED <<store, seen, raced>>
    BY <1>2 DEF PatchSpec
  <2> QED
    BY <1>1, <2>1, UpgradeInvContinue
<1>3. CASE ~(store[k] = None \/ ~Admitted(patched))
  <2> DEFINE locked == Default(patched) # store[k].spec \/ <<"upgrade", k>> \notin seen
  <2>1. /\ store[k] # None /\ patched \in Specs
        /\ store' = [store EXCEPT ![k] = i]
        /\ raced' = IF k \in edited THEN raced \cup {k} ELSE raced
        /\ upgrade' = Patching("status", k, upgrade.spec, locked)
    BY <1>3 DEF PatchSpec, Write, Admitted
  <2>2. /\ k \in Key /\ k \in DOMAIN upgrade.items
        /\ item \in Instance /\ store[k] \in Instance /\ intended[k] \in Intention
    BY <1>1, <2>1 DEF Types
  <2>3. i \in Instance /\ i.spec = Default(patched) /\ i.version = store[k].version
    <3>1. patched \in Specs
      BY <2>1
    <3> HIDE DEF patched
    <3>2. Default(patched) \in Specs
      BY <3>1, DefaultType
    <3> QED
      BY <2>2, <3>2 DEF Instance
  <2>4. /\ i.spec.args = store[k].spec.args
        /\ i.spec.config = IF upgrade.spec.config # item.spec.config
                           THEN upgrade.spec.config ELSE store[k].spec.config
    <3>1. "config" \in DOMAIN store[k].spec /\ "args" \in DOMAIN store[k].spec
      BY <2>2, SpecFields DEF Instance, HasFields
    <3>2. /\ patched.args = store[k].spec.args
          /\ patched.config = IF upgrade.spec.config # item.spec.config
                              THEN upgrade.spec.config ELSE store[k].spec.config
      BY <3>1 DEF MergePatch
    <3> QED
      BY <2>1, <2>3, <3>2, DefaultFields
  <2>5. /\ upgrade'.pc = "status" /\ upgrade'.items = upgrade.items
        /\ upgrade'.key = k /\ upgrade'.spec = upgrade.spec
    BY <2>1 DEF Patching
  <2>6. PICK h \in BOOLEAN : \E r \in ManagedInstance(item.spec, item.version, Nil, h) :
            r.ok /\ r.spec = upgrade.spec
    BY <1>1 DEF UpgradeInv, PatchRight
  <2>7. Due(item.version)
    BY <1>1 DEF UpgradeInv, PatchRight
  <2> HIDE DEF k, item, patched, i, locked
  <2>8. i # None /\ store'[k] = i /\ \A j \in Key \ {k} : store'[j] = store[j]
    BY <2>1, <2>2, <2>3, InstancesAssumption DEF Types
  <2>9. Related(store[k], intended[k]) /\ (k \notin raced => Sound(store[k], intended[k]))
    BY <2>1, <2>2 DEF UpgradeInv, StoredRight
  <2>10. Related(i, intended[k])
    BY <2>3, <2>4, <2>9 DEF Related
  <2>11. ASSUME k \notin raced'
         PROVE  Sound(i, intended[k]) /\ (Due(intended[k].from) => Brought(i, intended[k]))
    <3>1. k \notin raced /\ k \notin edited
      BY <2>1, <2>11
    <3>2. store[k].spec = item.spec /\ item.version \in {intended[k].from, Current}
      BY <1>1, <2>2, <3>1 DEF UpgradeInv, ListedRight, item
    <3>3. PICK r \in ManagedInstance(store[k].spec, item.version, Nil, h) :
              r.ok /\ r.spec = upgrade.spec
      BY <2>6, <3>2
    <3>4. i.spec.config = r.spec.config
      BY <2>4, <3>2, <3>3
    <3>5. /\ store[k] \in Instance /\ intended[k] \in Intention
          /\ Related(store[k], intended[k]) /\ Sound(store[k], intended[k])
          /\ i \in Instance /\ i.version = store[k].version
          /\ i.spec.args = store[k].spec.args
      BY <2>2, <2>3, <2>4, <2>9, <3>1
    <3> QED
      BY <2>7, <3>2, <3>3, <3>4, <3>5, PatchedSound
  <2>12. StoredRight'
    <3>1. \A j \in Key \ {k} : j \in raced' <=> j \in raced
      BY <2>1
    <3> QED
      BY <1>1, <2>8, <2>10, <2>11, <3>1 DEF UpgradeInv, StoredRight
  <2>13. ListedRight'
    <3>1. DOMAIN upgrade.items \subseteq Key
      BY DEF Types
    <3> QED
      BY <1>1, <2>5, <2>8, <3>1 DEF UpgradeInv, ListedRight
  <2>14. PatchRight'
    <3>1. upgrade'.items[upgrade'.key] = item
      BY <2>5 DEF item
    <3> QED
      BY <2>5, <2>6, <2>7, <3>1 DEF PatchRight
  <2>15. StatusRight'
    BY <1>1, <2>5, <2>8, <2>11 DEF StatusRight
  <2> QED
    BY <2>12, <2>13, <2>14, <2>15 DEF UpgradeInv
<1> QED
  BY <1>2, <1>3

\* The steps of the bridge.
LEMMA UpgradeInvBridge ==
    ASSUME Types, UpgradeInv, BridgeAction
    PROVE  UpgradeInv'
<1>1. CASE ApplyWrites /\ Accepted
  <2> DEFINE k == agent.key
  <2>1. k \in Key
    BY <1>1 DEF ApplyWrites, Types, AgentType
  <2>2. WriteSpec("bridge", k, store[k], Sent) /\ Sent \in Specs /\ UNCHANGED upgrade
    BY <1>1 DEF ApplyWrites, Accepted, Admitted, operatorVars
  <2> QED
    BY <2>1, <2>2, UpgradeInvWriteSpec
<1>2. ASSUME NEW k \in agent.todo, Delete(k), store[k] # None
      PROVE  UpgradeInv'
  <2>1. k \in Key
    BY DEF Types, AgentType
  <2>2. DeleteInstance(k) /\ UNCHANGED upgrade
    BY <1>2 DEF Delete, operatorVars
  <2> QED
    BY <2>1, <2>2, UpgradeInvDelete
<1>3. ASSUME UNCHANGED <<store, upgrade, intended, edited, raced>>,
             \A k : <<"upgrade", k>> \in seen' => <<"upgrade", k>> \in seen
      PROVE  UpgradeInv'
  BY <1>3, UpgradeInvUnchanged
<1>4. CASE ApplyWrites /\ ~Accepted
  BY <1>3, <1>4 DEF ApplyWrites, operatorVars, history
<1>5. CASE BeginDeletes
  BY <1>3, <1>5 DEF BeginDeletes, operatorVars, history
<1>6. CASE Report
  BY <1>3, <1>6 DEF Report, operatorVars, history
<1>7. CASE RestartBridge
  BY <1>3, <1>7 DEF RestartBridge, operatorVars, history
<1>8. ASSUME NEW m, onMessage(m)
      PROVE  UpgradeInv'
  BY <1>3, <1>8 DEF onMessage, operatorVars, history
<1>9. ASSUME NEW k, Apply(k)
      PROVE  UpgradeInv'
  <2>1. UNCHANGED <<store, upgrade, intended, edited, raced>>
    BY <1>9 DEF Apply, operatorVars, history
  <2>2. seen' \in {seen, seen \ {<<"bridge", k>>}, seen \cup {<<"bridge", k>>}}
    BY <1>9 DEF Apply
  <2>3. \A j : <<"upgrade", j>> \in seen' => <<"upgrade", j>> \in seen
    BY <2>2, SMTT(30)
  <2> QED
    BY <1>3, <2>1, <2>3
<1>10. ASSUME NEW k, Delete(k), store[k] = None
       PROVE  UpgradeInv'
  BY <1>3, <1>10 DEF Delete, operatorVars, history
<1>11. ASSUME NEW k, CallFails(k)
       PROVE  UpgradeInv'
  BY <1>3, <1>11 DEF CallFails, operatorVars, history
<1> QED
  BY <1>1, <1>2, <1>4, <1>5, <1>6, <1>7, <1>8, <1>9, <1>10, <1>11 DEF BridgeAction

\* The steps of the users, and reconcile.Self.
LEMMA UpgradeInvUser ==
    ASSUME Types, UpgradeInv, UserAction
    PROVE  UpgradeInv'
<1>1. ASSUME NEW k \in Key, UserDeletes(k)
      PROVE  UpgradeInv'
  BY <1>1, UpgradeInvDelete DEF UserDeletes, operatorVars
<1>2. ASSUME NEW k \in Key, NEW s, UserWrites(k, s)
      PROVE  UpgradeInv'
  <2>1. s \in Specs /\ UNCHANGED upgrade
    BY <1>2 DEF UserWrites, Admitted, operatorVars
  <2>2. PICK old \in {store[k], None} : WriteSpec("user", k, old, s)
    BY <1>2 DEF UserWrites
  <2> QED
    BY <2>1, <2>2, UpgradeInvWriteSpec
<1> QED
  BY <1>1, <1>2, UpgradeInvSelf DEF UserAction

\* Every step keeps the invariant of the upgrade.
LEMMA UpgradeInvNext == Types /\ UpgradeInv /\ [Next]_vars => UpgradeInv'
<1>1. ASSUME UpgradeInv, UNCHANGED vars
      PROVE  UpgradeInv'
  BY <1>1, UpgradeInvUnchanged DEF vars
<1>2. ASSUME Types, UpgradeInv, OperatorAction
      PROVE  UpgradeInv'
  BY <1>2, UpgradeInvGoroutine, UpgradeInvPatchSpec, UpgradeInvPatchStatus
     DEF OperatorAction
<1> QED
  BY <1>1, <1>2, NextActions, UpgradeInvBridge, UpgradeInvUser

\* The invariant of the upgrade holds always.
LEMMA UpgradeInvariant == Spec => []UpgradeInv
BY UpgradeInvInit, UpgradeInvNext, TypesInvariant, PTL DEF Spec

\* What a user or the bridge wrote survives however many upgrades there are, for every set
\* of instances, every spec and every order of writes, stops and failures (upgrade.go,
\* ManagedInstances): but for NotKept, a setting is gone only when it is deprecated, or
\* when the upgrade did not see that it was written; and no argument is lost.
THEOREM EditsKept == Spec => []EditsSurvive
<1>1. UpgradeInv => EditsSurvive
  BY DEF UpgradeInv, StoredRight, Related, Sound, Preserved, EditsSurvive
<1> QED
  BY <1>1, UpgradeInvariant, PTL

\* An instance with the operator's version has the configuration that the steps make of
\* what was written last, for every set of instances, every spec and every order of writes,
\* stops and failures (upgrade.go, ManagedInstances and its two patches): but for a write
\* that fell between them.
THEOREM VersionsTrue == Spec => []VersionTellsTruth
<1>1. ASSUME UpgradeInv, NEW k \in Key, store[k] # None, k \notin raced,
             store[k].version = Current, intended[k].from \in 0..Latest
      PROVE  store[k].spec.config \ ExporterTLS = UpgradedSpec(k).config \ ExporterTLS
  <2>1. Brought(store[k], intended[k])
    BY <1>1 DEF UpgradeInv, StoredRight, Sound, Due
  <2>2. Alike(store[k].spec.config, UpgradedSpec(k).config)
    BY <2>1 DEF Brought, Goal, UpgradedSpec
  <2> QED
    BY <2>2 DEF Alike
<1>2. UpgradeInv => VersionTellsTruth
  BY <1>1 DEF VersionTellsTruth
<1> QED
  BY <1>2, UpgradeInvariant, PTL

=============================================================================
