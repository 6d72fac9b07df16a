-------------------------- MODULE PodAgentsProofs ---------------------------
(***************************************************************************)
(* Proofs about the agents that the containers of PodWebhook are told to   *)
(* load.                                                                   *)
(***************************************************************************)
EXTENDS PodWebhookProofs

\* The prover of a leaf that names none.
USE ZenonT(60)

-----------------------------------------------------------------------------
(* The parts of the values in an environment.                              *)

PartsOf(S) == UNION {v.value : v \in S}

Parts(env) == PartsOf(Range(env))

LEMMA PartsAre ==
    ASSUME NEW env, IsEnv(env), NEW x
    PROVE  x \in Parts(env) <=> \E i \in 1..Len(env) : x \in env[i].value
<1>1. DOMAIN env = 1..Len(env)
  BY EnvVars
<1> QED
  BY <1>1 DEF Parts, PartsOf, Range

LEMMA AddedParts ==
    ASSUME NEW env, IsEnv(env), NEW new, NEW S, Added(env, new, S)
    PROVE  /\ Parts(env) \subseteq Parts(new)
           /\ Parts(new) \subseteq Parts(env) \cup PartsOf(S)
<1>1. IsEnv(new) /\ Len(env) \in Nat /\ Len(new) \in Nat
  BY EnvVars DEF Added
<1>2. ASSUME NEW x \in Parts(env) PROVE x \in Parts(new)
  <2>1. PICK i \in 1..Len(env) : x \in env[i].value
    BY PartsAre
  <2>2. i \in 1..Len(new) /\ new[i] = env[i]
    BY <1>1, SMTT(30) DEF Added
  <2> QED
    BY <1>1, <2>1, <2>2, PartsAre
<1>3. ASSUME NEW x \in Parts(new) PROVE x \in Parts(env) \cup PartsOf(S)
  <2>1. PICK i \in 1..Len(new) : x \in new[i].value
    BY <1>1, PartsAre
  <2>2. CASE i \in 1..Len(env)
    <3>1. x \in env[i].value
      BY <2>1, <2>2 DEF Added
    <3> QED
      BY <2>2, <3>1, PartsAre
  <2>3. CASE i \notin 1..Len(env)
    <3>1. new[i] \in S
      BY <1>1, <2>3, SMTT(30) DEF Added
    <3> QED
      BY <2>1, <3>1 DEF PartsOf
  <2> QED
    BY <2>2, <2>3
<1> QED
  BY <1>2, <1>3

LEMMA FirstsParts ==
    ASSUME NEW v, IsEnv(v)
    PROVE  PartsOf(Firsts(v)) \subseteq Parts(v)
<1>1. DOMAIN v = 1..Len(v)
  BY EnvVars
<1>2. Firsts(v) \subseteq Range(v)
  BY <1>1 DEF Firsts, Range
<1> QED
  BY <1>2 DEF PartsOf, Parts

LEMMA ConcatParts ==
    ASSUME NEW env, IsEnv(env), NEW v, IsVar(v), NEW new, new = Concat(env, v)
    PROVE  IsEnv(new) /\ Parts(new) = Parts(env) \cup v.value
<1> DEFINE k == getIndexOfEnv(env, v.name)
<1>1. /\ IsEnv(new)
      /\ k = 0 => new = Append(env, v)
      /\ k # 0 => /\ Len(new) = Len(env)
                  /\ new[k] = [env[k] EXCEPT !.value = @ \cup v.value]
                  /\ \A i \in 1..Len(env) : i # k => new[i] = env[i]
  BY ConcatEnv, SMTT(30)
<1>2. CASE k = 0
  <2>1. Range(new) = Range(env) \cup {v}
    <3>1. IsSeq(env)
      BY DEF IsEnv
    <3>2. Range(Append(env, v)) = Range(env) \cup {v}
      BY <3>1, AppendSeq
    <3> QED
      BY <1>1, <1>2, <3>2
  <2> QED
    BY <1>1, <2>1, SMTT(30) DEF Parts, PartsOf
<1>3. CASE k # 0
  <2>1. k \in 1..Len(env)
    BY <1>3, IndexOfEnv
  <2>2. IsVar(env[k])
    BY <2>1, EnvVars
  <2>3. new[k].value = env[k].value \cup v.value
    BY <1>1, <1>3, <2>2 DEF IsVar
  <2> HIDE DEF k
  <2>4. \A x : (\E i \in 1..Len(new) : x \in new[i].value)
                 <=> (\E i \in 1..Len(env) : x \in env[i].value) \/ x \in v.value
    BY <1>1, <1>3, <2>1, <2>3
  <2>5. \A x : x \in Parts(new) <=> x \in Parts(env) \/ x \in v.value
    BY <1>1, <2>4, PartsAre
  <2> QED
    BY <1>1, <2>5
<1> QED
  BY <1>2, <1>3

LEMMA ConfiguredParts ==
    ASSUME NEW env, IsEnv(env), NEW new, NEW S, NEW W, Configured(env, new, S, W)
    PROVE  /\ Parts(env) \subseteq Parts(new)
           /\ Parts(new) \subseteq Parts(env) \cup PartsOf(S) \cup W
<1> DEFINE k == getIndexOfEnv(env, ORA)
           n == Len(new)
<1>1. IsEnv(new) /\ Len(env) \in Nat /\ n \in Nat /\ n # 0 /\ Len(env) <= n
  BY EnvVars DEF Configured
<1>2. CASE k = 0
  <2>1. /\ Len(env) < n /\ new[n] = Var(ORA, W)
        /\ \A i \in 1..Len(env) : new[i] = env[i]
        /\ \A i \in (Len(env) + 1)..(n - 1) : new[i] \in S
    BY <1>2 DEF Configured
  <2>2. new[n].value = W
    BY <2>1, SMTT(30) DEF Var
  <2> HIDE DEF k, n
  <2>3. ASSUME NEW x \in Parts(env) PROVE x \in Parts(new)
    <3>1. PICK i \in 1..Len(env) : x \in env[i].value
      BY PartsAre
    <3>2. i \in 1..n /\ new[i] = env[i]
      BY <1>1, <2>1, SMTT(30)
    <3> QED
      BY <1>1, <3>1, <3>2, PartsAre DEF n
  <2>4. ASSUME NEW x \in Parts(new) PROVE x \in Parts(env) \cup PartsOf(S) \cup W
    <3>1. PICK i \in 1..n : x \in new[i].value
      BY <1>1, PartsAre DEF n
    <3>2. CASE i \in 1..Len(env)
      BY <2>1, <3>1, <3>2, PartsAre
    <3>3. CASE i \in (Len(env) + 1)..(n - 1)
      BY <2>1, <3>1, <3>3 DEF PartsOf
    <3>4. CASE i = n
      BY <2>2, <3>1, <3>4
    <3> QED
      BY <1>1, <3>2, <3>3, <3>4, SMTT(30)
  <2> QED
    BY <2>3, <2>4
<1>3. CASE k # 0
  <2>1. /\ new[n] = [env[k] EXCEPT !.value = @ \cup W]
        /\ \A i \in 1..(k - 1) : new[i] = env[i]
        /\ \A i \in (k + 1)..Len(env) : new[i - 1] = env[i]
        /\ \A i \in Len(env)..(n - 1) : new[i] \in S
    BY <1>3 DEF Configured
  <2>2. k \in 1..Len(env)
    BY <1>3, IndexOfEnv
  <2>3. IsVar(env[k])
    BY <2>2, EnvVars
  <2>4. new[n].value = env[k].value \cup W
    BY <2>1, <2>3 DEF IsVar
  <2> HIDE DEF k, n
  <2>5. ASSUME NEW x \in Parts(env) PROVE x \in Parts(new)
    <3>1. PICK i \in 1..Len(env) : x \in env[i].value
      BY PartsAre
    <3>2. \E j \in 1..n : x \in new[j].value
      <4>1. CASE i \in 1..(k - 1)
        BY <1>1, <2>1, <2>2, <3>1, <4>1, SMTT(30)
      <4>2. CASE i = k
        BY <1>1, <2>4, <3>1, <4>2, SMTT(30)
      <4>3. CASE i \in (k + 1)..Len(env)
        <5>1. i - 1 \in 1..n /\ new[i - 1] = env[i]
          BY <1>1, <2>1, <2>2, <4>3, SMTT(30)
        <5> QED
          BY <3>1, <5>1
      <4> QED
        BY <1>1, <2>2, <4>1, <4>2, <4>3, SMTT(30)
    <3> QED
      BY <1>1, <3>2, PartsAre DEF n
  <2>6. ASSUME NEW x \in Parts(new) PROVE x \in Parts(env) \cup PartsOf(S) \cup W
    <3>1. PICK i \in 1..n : x \in new[i].value
      BY <1>1, PartsAre DEF n
    <3>2. CASE i \in 1..(k - 1)
      <4>1. i \in 1..Len(env) /\ x \in env[i].value
        BY <1>1, <2>1, <2>2, <3>1, <3>2, SMTT(30)
      <4> QED
        BY <4>1, PartsAre
    <3>3. CASE i \in k..(Len(env) - 1) /\ i < n
      <4>1. i + 1 \in (k + 1)..Len(env) /\ (i + 1) - 1 = i
        BY <1>1, <2>2, <3>3, SMTT(30)
      <4>2. i + 1 \in 1..Len(env) /\ x \in env[i + 1].value
        BY <1>1, <2>1, <2>2, <3>1, <4>1, SMTT(30)
      <4> QED
        BY <4>2, PartsAre
    <3>4. CASE i \in Len(env)..(n - 1)
      BY <2>1, <3>1, <3>4 DEF PartsOf
    <3>5. CASE i = n
      <4>1. x \in env[k].value \/ x \in W
        BY <2>4, <3>1, <3>5
      <4> QED
        BY <2>2, <4>1, PartsAre
    <3> QED
      BY <1>1, <2>2, <3>2, <3>3, <3>4, <3>5, SMTT(30)
  <2> QED
    BY <2>5, <2>6
<1> QED
  BY <1>2, <1>3

-----------------------------------------------------------------------------
(* The agents that containers are told to load.                            *)

AgentPart(l) == <<"agent", "", l>>

NoAgent(S) == \A l \in Files : AgentPart(l) \notin S

LEMMA ToldIs ==
    ASSUME NEW c, NEW l
    PROVE  Told(c, l) <=> AgentPart(l) \in Parts(c.env)
BY DEF Told, AgentPart, Parts, PartsOf

\* The key of an attribute is not the one of an agent.
KeyBare(key) == key[1] # "agent" \/ key[2] # ""

LEMMA NameBare ==
    ASSUME NEW key, key[2] \in {"name", "uid"}
    PROVE  KeyBare(key)
BY DEF KeyBare

LEMMA MapBare ==
    ASSUME NEW res, \A key \in DOMAIN res : KeyBare(key)
    PROVE  NoAgent(resourceMapToStr(res))
<1> SUFFICES ASSUME NEW l \in Files, AgentPart(l) \in resourceMapToStr(res) PROVE FALSE
  BY DEF NoAgent
<1>1. PICK key \in DOMAIN res : AgentPart(l) = <<key[1], key[2], res[key]>>
  BY DEF resourceMapToStr
<1>2. key[1] = "agent" /\ key[2] = ""
  BY <1>1 DEF AgentPart
<1> QED
  BY <1>2 DEF KeyBare

LEMMA OwnerKeys ==
    ASSUME NEW uid, NEW p, NEW found, NEW key \in DOMAIN addParentResourceLabels(uid, p, found)
    PROVE  key[2] \in {"name", "uid"}
<1>1. \E owners : addParentResourceLabels(uid, p, found)
                    = [k \in owners \X (IF uid THEN {"name", "uid"} ELSE {"name"}) |-> k[1]]
  BY DEF addParentResourceLabels
<1>2. PICK owners : addParentResourceLabels(uid, p, found)
                      = [k \in owners \X (IF uid THEN {"name", "uid"} ELSE {"name"}) |-> k[1]]
  BY <1>1
<1> QED
  BY <1>2

\* Where the keys of the resource attributes come from.
LEMMA ResourceKeys ==
    ASSUME NEW inst, NEW p, NEW i, NEW found, NEW res, res = createResourceMap(inst, p, i, found),
           NEW key \in DOMAIN res
    PROVE  key \in DOMAIN p.meta \/ key \in DOMAIN inst.attributes \/ key[2] \in {"name", "uid"}
<1> DEFINE names == [k \in {<<"namespace", "name">>, <<"container", "name">>} |->
                        IF k[1] = "namespace" THEN "ns" ELSE p.containers[i].name]
           owners == addParentResourceLabels(inst.addK8sUIDAttributes, p, found)
           k8s == Over(owners, Over(names, p.meta))
           empty == {k \in DOMAIN k8s : k8s[k] = ""}
<1>1. res = Without(Over(Without(k8s, empty), inst.attributes),
                    ExistingAttributes(p.containers[i].env))
  BY DEF createResourceMap
<1>2. \A k \in DOMAIN owners : k[2] \in {"name", "uid"}
  BY OwnerKeys
<1>3. \A k \in DOMAIN names : k[2] \in {"name", "uid"}
  BY SMTT(30)
<1> HIDE DEF names, owners, empty
<1>4. DOMAIN res \subseteq DOMAIN owners \cup DOMAIN names \cup DOMAIN p.meta \cup DOMAIN inst.attributes
  BY <1>1 DEF Without, Over
<1> QED
  BY <1>2, <1>3, <1>4

LEMMA AttributesBare ==
    ASSUME NEW inst, NEW res, \A key \in DOMAIN res : KeyBare(key)
    PROVE  NoAgent(Attributes(inst, res))
<1> DEFINE needed == {d \in Range(Downward) : Needed(inst, res, d)}
           all == Over(res, References(needed))
<1>1. \A d \in Range(Downward) : d.key[2] \in {"name", "uid"}
  BY DownwardSeq, SMTT(30)
<1>2. DOMAIN all \subseteq DOMAIN res \cup {d.key : d \in Range(Downward)}
  BY DEF Over, References
<1>3. \A key \in DOMAIN all : KeyBare(key)
  <2> SUFFICES ASSUME NEW key \in DOMAIN all PROVE KeyBare(key)
    OBVIOUS
  <2> HIDE DEF all
  <2>1. CASE key \in DOMAIN res
    BY <2>1
  <2>2. CASE key \in {d.key : d \in Range(Downward)}
    BY <1>1, <2>2, NameBare, SMTT(30)
  <2> QED
    BY <1>2, <2>1, <2>2
<1>4. NoAgent(resourceMapToStr(all))
  <2> HIDE DEF all
  <2> QED
    BY <1>3, MapBare
<1> QED
  BY <1>4 DEF Attributes

LEMMA PlainBare ==
    ASSUME NEW x
    PROVE  NoAgent(Plain(x))
<1> SUFFICES ASSUME NEW l \in Files, AgentPart(l) \in Plain(x) PROVE FALSE
  BY DEF NoAgent
<1>1. <<"agent", "", l>> = <<"", "", x>>
  BY DEF Plain, AgentPart
<1>2. "agent" = ""
  BY <1>1
<1> QED
  BY <1>2

LEMMA SettingsBare ==
    ASSUME NEW inst, NoAgent(inst.propagators), NEW input, NEW app, NEW res
    PROVE  NoAgent(PartsOf(Settings(inst, input, app, res) \cup FieldRefs(inst, res)))
<1> SUFFICES ASSUME NEW l \in Files, NEW v \in Settings(inst, input, app, res) \cup FieldRefs(inst, res),
                    AgentPart(l) \in v.value
             PROVE  FALSE
  BY DEF NoAgent, PartsOf
<1>1. CASE v \in FieldRefs(inst, res)
  <2>1. v.value = {}
    BY <1>1, SMTT(30) DEF FieldRefs, FieldRef
  <2> QED
    BY <2>1
<1>2. CASE v \in Settings(inst, input, app, res)
  <2>1. \E n, w : v = Var(n, w) /\ (w = inst.propagators \/ \E x : w = Plain(x))
    BY <1>2 DEF Settings, Plain
  <2>2. PICK n, w : v = Var(n, w) /\ (w = inst.propagators \/ \E x : w = Plain(x))
    BY <2>1
  <2>3. v.value = w
    BY <2>2 DEF Var
  <2>4. CASE w = inst.propagators
    BY <2>3, <2>4 DEF NoAgent
  <2>5. CASE \E x : w = Plain(x)
    BY <2>3, <2>5, PlainBare DEF NoAgent
  <2> QED
    BY <2>2, <2>4, <2>5
<1> QED
  BY <1>1, <1>2

\* An instance tells nobody to load an agent.
InstBare(inst) ==
    /\ NoAgent(Parts(inst.env)) /\ \A l \in Language : NoAgent(Parts(inst.langEnv[l]))
    /\ NoAgent(inst.propagators) /\ \A key \in DOMAIN inst.attributes : KeyBare(key)

MetaBare(p) == \A key \in DOMAIN p.meta : KeyBare(key)

\* The pods are the same as far as the agents go.
SameTold(p, q) ==
    /\ Len(q.containers) = Len(p.containers) /\ q.inits = p.inits /\ q.volumes = p.volumes
    /\ \A j \in 1..Len(p.containers) :
          /\ q.containers[j].mounts = p.containers[j].mounts
          /\ \A l \in Files : Told(q.containers[j], l) <=> Told(p.containers[j], l)

LEMMA ConfigureTold ==
    ASSUME NEW p, IsPod(p), MetaBare(p), NEW agent \in 1..Len(p.containers), NEW inst, IsInst(inst),
           InstBare(inst), NEW app, NEW found, NEW q, q = Configure(inst, p, agent, app, found)
    PROVE  SameTold(p, q)
<1> DEFINE c == injectCommonEnvVar(inst, p, agent)
           base == Base(inst, p, agent)
           res == Known(inst, p, agent, app, found)
           full == FullEnv(inst, p, agent, app, found)
           S == Settings(inst, c, app, res) \cup FieldRefs(inst, res)
           env == p.containers[agent].env
<1>1. /\ IsEnv(base) /\ IsEnv(full) /\ EnvSet(p, q, agent, full) /\ EnvSet(p, c, agent, base)
  BY ConfigureEnv DEF IsInst
<1>2. IsEnv(env) /\ IsContainer(p.containers[agent])
  BY PodParts DEF IsContainer
<1>3. Configured(base, full, S, Attributes(inst, res))
  BY <1>1, CommonEnvShape DEF FullEnv
<1>4. \A key \in DOMAIN res : KeyBare(key)
  <2>1. c.meta = p.meta
    BY <1>1 DEF EnvSet, Edit, Rest
  <2> SUFFICES ASSUME NEW key \in DOMAIN res PROVE KeyBare(key)
    OBVIOUS
  <2>2. key \in DOMAIN c.meta \/ key \in DOMAIN inst.attributes \/ key[2] \in {"name", "uid"}
    BY ResourceKeys DEF Known
  <2>3. CASE key \in DOMAIN p.meta
    BY <2>3 DEF MetaBare
  <2>4. CASE key \in DOMAIN inst.attributes
    BY <2>4 DEF InstBare
  <2>5. CASE key[2] \in {"name", "uid"}
    BY <2>5, NameBare, SMTT(30)
  <2> QED
    BY <2>1, <2>2, <2>3, <2>4, <2>5
<1>5. NoAgent(Attributes(inst, res)) /\ NoAgent(PartsOf(S))
  <2> HIDE DEF res, c
  <2> QED
    BY <1>4, AttributesBare, SettingsBare DEF InstBare
<1>6. Added(env, base, Firsts(inst.env))
  BY <1>2, AllMissingAdded DEF IsInst, Base
<1>7. PartsOf(Firsts(inst.env)) \subseteq Parts(inst.env)
  BY FirstsParts DEF IsInst
<1> HIDE DEF base, full, S, env, res, c
<1>8. \A l \in Files : AgentPart(l) \in Parts(full) <=> AgentPart(l) \in Parts(env)
  <2>1. /\ Parts(env) \subseteq Parts(base)
        /\ Parts(base) \subseteq Parts(env) \cup PartsOf(Firsts(inst.env))
    BY <1>2, <1>6, AddedParts
  <2>2. /\ Parts(base) \subseteq Parts(full)
        /\ Parts(full) \subseteq Parts(base) \cup PartsOf(S) \cup Attributes(inst, res)
    BY <1>1, <1>3, ConfiguredParts
  <2> QED
    BY <1>5, <1>7, <2>1, <2>2 DEF NoAgent, InstBare
<1>9. q.containers[agent].env = full /\ q.containers[agent].mounts = p.containers[agent].mounts
  BY <1>1, <1>2, EnvContainer, SMTT(30) DEF EnvSet
<1>10. \A l \in Files : Told(q.containers[agent], l) <=> Told(p.containers[agent], l)
  BY <1>8, <1>9, ToldIs DEF env
<1>11. /\ q.inits = p.inits /\ q.volumes = p.volumes
       /\ \A j \in 1..Len(p.containers) : j # agent => q.containers[j] = p.containers[j]
  BY <1>1, PodParts DEF EnvSet, Edit
<1>12. Len(q.containers) = Len(p.containers)
  BY <1>1, EnvSetPod
<1> QED
  BY <1>9, <1>10, <1>11, <1>12 DEF SameTold

Mount == "/otel-auto-instrumentation"

\* A container that is told to load an agent has the mount, the pod has the init
\* container then, and so it has the volume, and the agent of some container.
Supplied(q) ==
    /\ \A j \in 1..Len(q.containers), l \in Files :
          Told(q.containers[j], l) =>
              Mount \in Range(q.containers[j].mounts) /\ ~isInitContainerMissing(q)
    /\ ~isInitContainerMissing(q) =>
          /\ AutoInstrumentation \in Range(q.volumes)
          /\ \E x \in Range(q.inits) :
                x.agent \in Files /\ \E j \in 1..Len(q.containers) : Told(q.containers[j], x.agent)

LEMMA SuppliedSame ==
    ASSUME NEW p, NEW q, Supplied(p), SameTold(p, q)
    PROVE  Supplied(q)
<1>1. isInitContainerMissing(q) <=> isInitContainerMissing(p)
  BY DEF isInitContainerMissing, SameTold
<1> QED
  BY <1>1 DEF Supplied, SameTold

\* The new environment of a container with an agent.
LEMMA FilesTold ==
    ASSUME NEW lang \in Files, NEW inst, NEW env, IsEnv(env), NEW new,
           FilesShape(lang, inst, env, new)
    PROVE  Parts(env) \subseteq Parts(new) /\ AgentPart(lang) \in Parts(new)
<1>1. PICK x, y : /\ Added(env, x, Firsts(inst.langEnv[lang]) \cup Extra(lang))
                  /\ y = Concat(x, AgentOption(OptionName(lang), lang))
                  /\ Added(y, new, Extra(lang))
  BY DEF FilesShape
<1> DEFINE v == AgentOption(OptionName(lang), lang)
<1>2. IsEnv(x)
  BY <1>1 DEF Added
<1>3. IsVar(v)
  BY OptionVar
<1>4. v.value = {AgentPart(lang)}
  <2>1. v = Var(OptionName(lang), {AgentPart(lang)})
    BY DEF AgentOption, AgentPart
  <2> QED
    BY <2>1, SMTT(30) DEF Var
<1> HIDE DEF v
<1>5. IsEnv(y) /\ Parts(y) = Parts(x) \cup {AgentPart(lang)}
  BY <1>1, <1>2, <1>3, <1>4, ConcatParts DEF v
<1>6. Parts(env) \subseteq Parts(x)
  BY <1>1, AddedParts
<1>7. Parts(y) \subseteq Parts(new)
  BY <1>1, <1>5, AddedParts
<1> QED
  BY <1>5, <1>6, <1>7

LEMMA FilesSupplied ==
    ASSUME NEW lang \in Files, NEW inst, NEW p, IsPod(p), Supplied(p),
           NEW i \in 1..Len(p.containers), NEW env, FilesShape(lang, inst, p.containers[i].env, env),
           NEW q, FilesSet(lang, p, q, i, env)
    PROVE  Supplied(q)
<1>1. IsContainer(p.containers[i]) /\ IsEnv(p.containers[i].env) /\ IsSeq(p.containers[i].mounts)
  BY PodParts DEF IsContainer
<1>2. IsEnv(env)
  BY <1>1, FilesShapeEnv
<1>3. IsPod(q) /\ Len(q.containers) = Len(p.containers) /\ ~isInitContainerMissing(q)
  BY <1>2, FilesSetPod
<1>4. /\ q.containers[i].env = env
      /\ q.containers[i].mounts = Append(p.containers[i].mounts, Mount)
  <2> DEFINE d == q.containers[i]
  <2>1. d = [p.containers[i] EXCEPT !.env = env, !.mounts = Append(@, "/otel-auto-instrumentation")]
    BY DEF FilesSet
  <2> HIDE DEF d
  <2>2. d.env = env /\ d.mounts = Append(p.containers[i].mounts, "/otel-auto-instrumentation")
    BY <1>1, <2>1 DEF IsContainer
  <2> QED
    BY <2>2 DEF d, Mount
<1>5. Mount \in Range(q.containers[i].mounts)
  BY <1>1, <1>4, AppendSeq, SMTT(30)
<1>6. Told(q.containers[i], lang) /\ \A l \in Files : Told(p.containers[i], l) => Told(q.containers[i], l)
  <2>1. Parts(p.containers[i].env) \subseteq Parts(env) /\ AgentPart(lang) \in Parts(env)
    BY <1>1, FilesTold
  <2> QED
    BY <2>1, <1>4, ToldIs
<1>7. \A j \in 1..Len(p.containers) : j # i => q.containers[j] = p.containers[j]
  BY PodParts DEF FilesSet, Edit
<1>8. \A j \in 1..Len(q.containers), l \in Files :
         Told(q.containers[j], l) => Mount \in Range(q.containers[j].mounts)
  BY <1>3, <1>5, <1>7 DEF Supplied
<1>9. \A j \in 1..Len(p.containers), l \in Files : Told(p.containers[j], l) => Told(q.containers[j], l)
  BY <1>6, <1>7
<1>10. /\ AutoInstrumentation \in Range(q.volumes)
       /\ \E x \in Range(q.inits) :
             x.agent \in Files /\ \E j \in 1..Len(q.containers) : Told(q.containers[j], x.agent)
  <2>1. CASE isInitContainerMissing(p)
    <3>1. /\ q.volumes = Append(p.volumes, AutoInstrumentation)
          /\ q.inits = Append(p.inits, InitContainer(lang))
      BY <2>1 DEF FilesSet
    <3>2. /\ Range(q.volumes) = Range(p.volumes) \cup {AutoInstrumentation}
          /\ Range(q.inits) = Range(p.inits) \cup {InitContainer(lang)}
      BY <3>1, AppendSeq, SMTT(30) DEF IsPod
    <3>3. InitContainer(lang).agent = lang
      BY InitIsContainer
    <3>4. InitContainer(lang) \in Range(q.inits)
      BY <3>2
    <3>5. AutoInstrumentation \in Range(q.volumes)
      BY <3>2
    <3> QED
      BY <1>3, <1>6, <3>3, <3>4, <3>5
  <2>2. CASE ~isInitContainerMissing(p)
    <3>1. q.volumes = p.volumes /\ q.inits = p.inits
      BY <2>2 DEF FilesSet
    <3> QED
      BY <1>3, <1>9, <2>2, <3>1 DEF Supplied
  <2> QED
    BY <2>1, <2>2
<1> QED
  BY <1>3, <1>8, <1>10 DEF Supplied

LEMMA GoSupplied ==
    ASSUME NEW inst, IsInst(inst), InstBare(inst), NEW p, IsPod(p), Supplied(p),
           NEW q, q = GoPod(inst, p)
    PROVE  Supplied(q)
<1> DEFINE n == Len(p.containers) + 1
<1>1. /\ q.inits = p.inits /\ Len(q.containers) = n /\ Range(p.volumes) \subseteq Range(q.volumes)
      /\ q.containers[n] = GoAgent(inst, p)
      /\ \A j \in 1..Len(p.containers) : q.containers[j] = p.containers[j]
  <2>1. /\ q.inits = p.inits /\ Len(q.containers) = n /\ q.containers[n] = GoAgent(inst, p)
        /\ \A j \in 1..Len(p.containers) : q.containers[j] = p.containers[j]
    BY GoPodParts, SMTT(30)
  <2>2. q.volumes = Append(p.volumes, "kernel-debug") /\ IsSeq(p.volumes)
    BY GoPodParts, SMTT(30) DEF IsPod
  <2>3. Range(p.volumes) \subseteq Range(q.volumes)
    BY <2>2, AppendSeq, SMTT(30)
  <2> QED
    BY <2>1, <2>3
<1>2. /\ IsEnv(GoExe(p)) /\ GoAgent(inst, p).env = GoEnv(inst, p)
  BY GoAgentContainer
<1>3. IsEnv(inst.langEnv["go"])
  BY DEF IsInst, Language
<1>4. Parts(GoExe(p)) = {}
  <2>1. CASE p.goExe
    <3>1. Range(GoExe(p)) = {Var(EXE, {})}
      BY <2>1, OneSeq DEF GoExe
    <3> QED
      BY <3>1, SMTT(30) DEF Parts, PartsOf, Var
  <2>2. CASE ~p.goExe
    <3>1. Range(GoExe(p)) = {}
      BY <2>2, NullSeq DEF GoExe
    <3> QED
      BY <3>1 DEF Parts, PartsOf
  <2> QED
    BY <2>1, <2>2
<1>5. Parts(GoEnv(inst, p)) \subseteq Parts(inst.langEnv["go"])
  <2>1. Added(GoExe(p), GoEnv(inst, p), Firsts(inst.langEnv["go"]))
    BY <1>2, <1>3, AllMissingAdded DEF GoEnv
  <2>2. Parts(GoEnv(inst, p)) \subseteq Parts(GoExe(p)) \cup PartsOf(Firsts(inst.langEnv["go"]))
    BY <1>2, <2>1, AddedParts, SMTT(30)
  <2>3. PartsOf(Firsts(inst.langEnv["go"])) \subseteq Parts(inst.langEnv["go"])
    BY <1>3, FirstsParts
  <2> QED
    BY <1>4, <2>2, <2>3
<1>6. \A l \in Files : ~Told(q.containers[n], l)
  <2>1. NoAgent(Parts(inst.langEnv["go"]))
    BY DEF InstBare, Language
  <2>2. \A l \in Files : AgentPart(l) \notin Parts(GoEnv(inst, p))
    BY <1>5, <2>1 DEF NoAgent
  <2> QED
    BY <1>1, <1>2, <2>2, ToldIs
<1>7. isInitContainerMissing(q) <=> isInitContainerMissing(p)
  BY <1>1 DEF isInitContainerMissing
<1>8. /\ 1..Len(q.containers) = 1..Len(p.containers) \cup {n}
      /\ 1..Len(p.containers) \subseteq 1..Len(q.containers)
  BY <1>1, PodParts, SMTT(30)
<1> HIDE DEF n
<1>9. \A j \in 1..Len(q.containers), l \in Files :
          Told(q.containers[j], l) =>
              Mount \in Range(q.containers[j].mounts) /\ ~isInitContainerMissing(q)
  <2> SUFFICES ASSUME NEW j \in 1..Len(q.containers), NEW l \in Files, Told(q.containers[j], l)
               PROVE  Mount \in Range(q.containers[j].mounts) /\ ~isInitContainerMissing(q)
    OBVIOUS
  <2>1. j \in 1..Len(p.containers)
    BY <1>6, <1>8
  <2> QED
    BY <1>1, <1>7, <2>1 DEF Supplied
<1>10. ASSUME ~isInitContainerMissing(q)
       PROVE  /\ AutoInstrumentation \in Range(q.volumes)
              /\ \E x \in Range(q.inits) :
                    x.agent \in Files /\ \E j \in 1..Len(q.containers) : Told(q.containers[j], x.agent)
  <2>1. PICK x \in Range(p.inits) :
            x.agent \in Files /\ \E j \in 1..Len(p.containers) : Told(p.containers[j], x.agent)
    BY <1>7, <1>10 DEF Supplied
  <2>2. AutoInstrumentation \in Range(p.volumes)
    BY <1>7, <1>10 DEF Supplied
  <2>3. PICK j \in 1..Len(p.containers) : Told(p.containers[j], x.agent)
    BY <2>1
  <2>4. j \in 1..Len(q.containers) /\ Told(q.containers[j], x.agent)
    BY <1>1, <1>8, <2>3
  <2> QED
    BY <1>1, <2>1, <2>2, <2>4
<1> QED
  BY <1>9, <1>10 DEF Supplied

\* Apache takes the mount of its configuration away and no other.
LEMMA ApacheMountsStay ==
    ASSUME NEW s, IsSeq(s), NEW e \in Range(s), e \notin ConfPaths
    PROVE  e \in Range(ApacheMounts(s))
<1> DEFINE k == MountIndex(s)
           t == IF k = 0 THEN s ELSE RemoveAt(s, k)
<1>1. IsSeq(t) /\ e \in Range(t)
  <2>1. CASE k = 0
    BY <2>1
  <2>2. CASE k # 0
    <3>1. k \in 1..Len(s) /\ s[k] \in ConfPaths
      BY <2>2, FirstMount
    <3> DEFINE r == RemoveAt(s, k)
    <3> HIDE DEF k
    <3>2. /\ IsSeq(r) /\ Len(r) = Len(s) - 1
          /\ \A i \in 1..(k - 1) : r[i] = s[i]
          /\ \A i \in (k + 1)..Len(s) : r[i - 1] = s[i]
      BY <3>1, RemoveAtSeq
    <3>3. PICK i \in 1..Len(s) : e = s[i]
      BY SeqDomain DEF Range
    <3>4. i # k /\ Len(s) \in Nat /\ DOMAIN r = 1..Len(r)
      BY <3>1, <3>2, <3>3, SeqDomain
    <3>5. \E j \in 1..Len(r) : e = r[j]
      <4>1. CASE i < k
        <5>1. i \in 1..(k - 1) /\ i \in 1..Len(r)
          BY <3>1, <3>2, <3>4, <4>1, SMTT(30)
        <5> QED
          BY <3>2, <3>3, <5>1
      <4>2. CASE i > k
        <5>1. i \in (k + 1)..Len(s) /\ i - 1 \in 1..Len(r)
          BY <3>1, <3>2, <3>4, <4>2, SMTT(30)
        <5> QED
          BY <3>2, <3>3, <5>1
      <4> QED
        BY <3>1, <3>4, <4>1, <4>2, SMTT(30)
    <3>6. e \in Range(r)
      <4> HIDE DEF r
      <4> QED
        BY <3>4, <3>5 DEF Range
    <3> QED
      BY <2>2, <3>2, <3>6
  <2> QED
    BY <2>1, <2>2
<1>2. ApacheMounts(s) = t \o <<AgentDir, ConfDir>>
  BY DEF ApacheMounts
<1> HIDE DEF t
<1>3. Range(t \o <<AgentDir, ConfDir>>) = Range(t) \cup Range(<<AgentDir, ConfDir>>)
  BY <1>1, TwoSeq, ConcatSeq
<1> QED
  BY <1>1, <1>2, <1>3

LEMMA ApacheTold ==
    ASSUME NEW inst, IsInst(inst), InstBare(inst), NEW p, IsPod(p), NEW i \in 1..Len(p.containers),
           NEW l \in Files, NEW c, c.env = ApacheEnv(inst, p, i)
    PROVE  Told(c, l) <=> Told(p.containers[i], l)
<1> DEFINE env == p.containers[i].env
           own == inst.langEnv["apache"]
<1>1. IsEnv(env) /\ IsEnv(own)
  BY PodParts DEF IsContainer, IsInst, Language
<1>2. NoAgent(Parts(own))
  BY DEF InstBare, Language
<1>3. c.env = AddAllMissing(env, own)
  BY DEF ApacheEnv
<1> HIDE DEF env, own
<1>4. Added(env, c.env, Firsts(own))
  BY <1>1, <1>3, AllMissingAdded
<1>5. Parts(env) \subseteq Parts(c.env) /\ Parts(c.env) \subseteq Parts(env) \cup PartsOf(Firsts(own))
  BY <1>1, <1>4, AddedParts
<1>6. PartsOf(Firsts(own)) \subseteq Parts(own)
  BY <1>1, FirstsParts
<1>7. AgentPart(l) \in Parts(c.env) <=> AgentPart(l) \in Parts(env)
  BY <1>2, <1>5, <1>6 DEF NoAgent
<1> QED
  BY <1>7, ToldIs DEF env

LEMMA ApacheSupplied ==
    ASSUME NEW inst, IsInst(inst), InstBare(inst), NEW p, IsPod(p), Supplied(p),
           NEW i \in 1..Len(p.containers), NEW config, NEW q, ApacheSet(inst, p, q, i, config)
    PROVE  Supplied(q)
<1> DEFINE c == ApacheContainer(inst, p, i)
           d == [c EXCEPT !.mounts = ApacheMounts(@)]
<1>1. /\ IsContainer(c) /\ c.env = ApacheEnv(inst, p, i) /\ d.env = c.env
      /\ c.mounts = p.containers[i].mounts /\ d.mounts = ApacheMounts(c.mounts)
  <2>1. c = ApacheContainer(inst, p, i) /\ d = [c EXCEPT !.mounts = ApacheMounts(@)]
    OBVIOUS
  <2> HIDE DEF c, d
  <2>2. IsContainer(c) /\ c.env = ApacheEnv(inst, p, i) /\ c.mounts = p.containers[i].mounts
    BY <2>1, ApacheContainers, SMTT(30)
  <2> QED
    BY <2>1, <2>2 DEF IsContainer
<1>2. IsSeq(p.containers[i].mounts) /\ IsSeq(p.inits) /\ IsSeq(p.volumes)
  BY PodParts DEF IsContainer, IsPod
<1>3. Edit(p, q, i)
  BY DEF ApacheSet
<1>4. Len(q.containers) = Len(p.containers)
  BY ApacheSetPod, SMTT(30)
<1>5. \A j \in 1..Len(p.containers) : j # i => q.containers[j] = p.containers[j]
  BY <1>3, PodParts DEF Edit
<1>6. /\ \A l \in Files : Told(q.containers[i], l) <=> Told(p.containers[i], l)
      /\ Mount \in Range(p.containers[i].mounts) => Mount \in Range(q.containers[i].mounts)
      /\ isInitContainerMissing(q) <=> isInitContainerMissing(p)
      /\ Range(p.inits) \subseteq Range(q.inits) /\ Range(p.volumes) \subseteq Range(q.volumes)
  <2>1. /\ q.containers[i] = c \/ q.containers[i] = d
        /\ Range(p.inits) \subseteq Range(q.inits)
        /\ Range(q.inits) \subseteq Range(p.inits) \cup {Clone(c), Attach(config)}
        /\ Range(p.volumes) \subseteq Range(q.volumes)
    BY DEF ApacheSet
  <2>2. Clone(c).name = CloneName /\ Attach(config).name = AttachName
    BY <1>1, CloneContainer, AttachContainer
  <2> HIDE DEF c, d
  <2>3. \A l \in Files : Told(q.containers[i], l) <=> Told(p.containers[i], l)
    <3>1. q.containers[i].env = ApacheEnv(inst, p, i)
      BY <1>1, <2>1
    <3> QED
      BY <3>1, ApacheTold
  <2>4. Mount \notin ConfPaths
    BY ConfPathsAssumption DEF Mount
  <2>5. Mount \in Range(p.containers[i].mounts) => Mount \in Range(q.containers[i].mounts)
    <3>1. q.containers[i].mounts = p.containers[i].mounts
              \/ q.containers[i].mounts = ApacheMounts(p.containers[i].mounts)
      BY <1>1, <2>1
    <3> QED
      BY <1>2, <2>4, <3>1, ApacheMountsStay
  <2>6. CloneName # AutoInstrumentation /\ AttachName # AutoInstrumentation
    BY DEF CloneName, AttachName, AutoInstrumentation
  <2>7. isInitContainerMissing(q) <=> isInitContainerMissing(p)
    BY <2>1, <2>2, <2>6 DEF isInitContainerMissing
  <2> QED
    BY <2>1, <2>3, <2>5, <2>7
<1>7. \A j \in 1..Len(p.containers), l \in Files :
          Told(q.containers[j], l) <=> Told(p.containers[j], l)
  BY <1>5, <1>6
<1>8. \A j \in 1..Len(p.containers) :
          Mount \in Range(p.containers[j].mounts) => Mount \in Range(q.containers[j].mounts)
  BY <1>5, <1>6
<1>9. ASSUME ~isInitContainerMissing(q)
      PROVE  /\ AutoInstrumentation \in Range(q.volumes)
             /\ \E x \in Range(q.inits) :
                   x.agent \in Files /\ \E j \in 1..Len(q.containers) : Told(q.containers[j], x.agent)
  <2>1. PICK x \in Range(p.inits) :
            x.agent \in Files /\ \E j \in 1..Len(p.containers) : Told(p.containers[j], x.agent)
    BY <1>6, <1>9 DEF Supplied
  <2>2. AutoInstrumentation \in Range(p.volumes)
    BY <1>6, <1>9 DEF Supplied
  <2>3. \E j \in 1..Len(q.containers) : Told(q.containers[j], x.agent)
    BY <1>4, <1>7, <2>1
  <2> QED
    BY <1>6, <2>1, <2>2, <2>3
<1> QED
  BY <1>4, <1>6, <1>7, <1>8, <1>9 DEF Supplied

LEMMA LanguageSupplied ==
    ASSUME NEW lang \in Languages, NEW inst, IsInst(inst), InstBare(inst), NEW p, IsPod(p),
           MetaBare(p), Supplied(p), NEW i \in 1..Len(p.containers), NEW found,
           NEW q, q = injectLanguage(lang, inst, p, i, found)
    PROVE  Supplied(q)
<1>1. CASE lang \in Files
  <2>1. CASE q = p
    BY <2>1
  <2>2. CASE Injects(lang, inst, p, i, found, q)
    <3>1. PICK env : /\ FilesShape(lang, inst, p.containers[i].env, env)
                     /\ q = Configure(inst, InjectFiles(lang, p, i, env), i, i, found)
      BY <2>2 DEF Injects
    <3> DEFINE r == InjectFiles(lang, p, i, env)
    <3>2. IsEnv(env)
      BY <1>1, <3>1, PodParts, FilesShapeEnv DEF IsContainer
    <3>3. FilesSet(lang, p, r, i, env)
      BY SetFiles
    <3> HIDE DEF r
    <3>4. IsPod(r) /\ Len(r.containers) = Len(p.containers) /\ Grown(p, r)
      BY <3>2, <3>3, FilesSetPod
    <3>5. Supplied(r)
      BY <1>1, <3>1, <3>3, FilesSupplied
    <3>6. MetaBare(r)
      BY <3>4 DEF Grown, Rest, MetaBare
    <3>7. SameTold(r, q)
      BY <3>1, <3>4, <3>6, ConfigureTold DEF r
    <3> QED
      BY <3>5, <3>7, SuppliedSame
  <2> QED
    BY <1>1, <2>1, <2>2, FilesLanguage
<1>2. CASE lang = "go"
  <2>1. CASE q = p
    BY <2>1
  <2>2. CASE q = Configure(inst, GoPod(inst, p), Len(p.containers) + 1, 1, found)
    <3> DEFINE r == GoPod(inst, p)
    <3>1. IsPod(r) /\ Rest(p, r) /\ Len(r.containers) = Len(p.containers) + 1
      <4>1. r = GoPod(inst, p)
        OBVIOUS
      <4> HIDE DEF r
      <4>2. IsPod(r)
        BY <4>1, GoPodParts
      <4>3. Rest(p, r)
        BY <4>1, GoPodParts
      <4>4. Len(r.containers) = Len(p.containers) + 1
        BY <4>1, GoPodParts, SMTT(30)
      <4> QED
        BY <4>2, <4>3, <4>4
    <3>2. Supplied(r)
      BY GoSupplied
    <3>3. MetaBare(r)
      BY <3>1 DEF Rest, MetaBare
    <3>4. Len(p.containers) + 1 \in 1..Len(r.containers)
      BY <3>1, PodParts, SMTT(30)
    <3> HIDE DEF r
    <3>5. SameTold(r, q)
      BY <2>2, <3>1, <3>3, <3>4, ConfigureTold DEF r
    <3> QED
      BY <3>2, <3>5, SuppliedSame
  <2> QED
    BY <1>2, <2>1, <2>2, GoLanguage
<1>3. CASE lang = "apache"
  <2> DEFINE res == createResourceMap(inst, p, i, found)
             r == injectApacheHttpdagent(inst, p, i, res)
  <2>1. q = Configure(inst, r, i, i, found)
    BY <1>3 DEF injectLanguage
  <2>2. ApacheSet(inst, p, r, i, getApacheOtelConfig(inst, p, i, res))
    BY SetApache
  <2> HIDE DEF r
  <2>3. IsPod(r) /\ Len(r.containers) = Len(p.containers) /\ Grown(p, r)
    BY <2>2, ApacheSetPod
  <2>4. Supplied(r)
    BY <2>2, ApacheSupplied
  <2>5. MetaBare(r)
    BY <2>3 DEF Grown, Rest, MetaBare
  <2>6. SameTold(r, q)
    BY <2>1, <2>3, <2>5, ConfigureTold
  <2> QED
    BY <2>4, <2>6, SuppliedSame
<1>4. CASE lang = "sdk"
  <2>1. q = Configure(inst, p, i, i, found)
    BY <1>4 DEF injectLanguage
  <2>2. SameTold(p, q)
    BY <2>1, ConfigureTold
  <2> QED
    BY <2>2, SuppliedSame
<1> QED
  BY <1>1, <1>2, <1>3, <1>4 DEF Languages, Language, Files

InstsBare(insts) == \A l \in Languages : insts[l] = Nil \/ InstBare(insts[l])

LEMMA StepSupplied ==
    ASSUME NEW lang \in Languages, NEW insts, InstsOK(insts), InstsBare(insts), NEW p, IsPod(p),
           MetaBare(p), Supplied(p), NEW i \in 1..Len(p.containers), NEW found
    PROVE  Supplied(LanguageStep(lang, insts, p, i, found))
<1>1. CASE insts[lang] = Nil
  BY <1>1 DEF LanguageStep
<1>2. CASE insts[lang] # Nil
  <2>1. IsInst(insts[lang]) /\ InstBare(insts[lang])
    BY <1>2 DEF InstsOK, InstsBare, Languages
  <2> DEFINE q == injectLanguage(lang, insts[lang], p, i, found)
  <2>2. Supplied(q)
    <3> HIDE DEF q
    <3> QED
      BY <2>1, LanguageSupplied DEF q
  <2> QED
    BY <1>2, <2>2 DEF LanguageStep
<1> QED
  BY <1>1, <1>2

LEMMA RunSupplied ==
    ASSUME NEW insts, InstsOK(insts), InstsBare(insts), NEW p, IsPod(p), MetaBare(p), Supplied(p),
           NEW v, NEW found, NEW n \in Nat, NEW H, NEW T, StepsRun(H, T, insts, p, v, found, n)
    PROVE  Supplied(H[7 * n])
<1> DEFINE P == {m \in Nat : m \in 0..(7 * n) => Supplied(H[m])}
<1>1. 0 \in P
  BY DEF StepsRun
<1>2. ASSUME NEW m \in Nat, m \in P
      PROVE  m + 1 \in P
  <2> SUFFICES ASSUME m + 1 \in 0..(7 * n) PROVE Supplied(H[m + 1])
    BY SMTT(30)
  <2>1. m + 1 \in 1..(7 * n) /\ m \in 0..(7 * n)
    BY SMTT(30)
  <2>2. PICK k \in 1..n, j \in 1..7 : m + 1 = 7 * (k - 1) + j
    BY <2>1, StepIndex
  <2>3. 7 * (k - 1) + j - 1 = m
    BY <2>2, SMTT(30)
  <2>4. /\ T[k] \in 1..Len(H[m].containers)
        /\ H[m + 1] = LanguageStep(Order[j], insts, H[m], T[k], found)
    BY <2>2, <2>3 DEF StepsRun
  <2>5. Grown(p, H[m])
    BY <2>1 DEF StepsRun
  <2>6. IsPod(H[m]) /\ MetaBare(H[m])
    BY <2>5 DEF Grown, Rest, MetaBare
  <2>7. Supplied(H[m])
    BY <1>2, <2>1
  <2>8. Order[j] \in Languages
    BY OrderLanguages DEF Languages
  <2> QED
    BY <2>4, <2>6, <2>7, <2>8, StepSupplied
<1> HIDE DEF P
<1>3. Nat \subseteq P
  BY <1>1, <1>2, SetInduction
<1> QED
  BY <1>3, SMTT(30) DEF P

\* What AgentPresent says of a pod.
AgentsFound(q) ==
    \A c \in Range(q.containers), l \in Files :
        Told(c, l) =>
            /\ Mount \in Range(c.mounts) /\ AutoInstrumentation \in Range(q.volumes)
            /\ \E i \in Range(q.inits) :
                  \/ i.agent = l
                  \/ i.agent \in Files /\ \E d \in Range(q.containers) : Told(d, i.agent)

Untold(p) == \A c \in Range(p.containers), l \in Files : ~Told(c, l)

LEMMA SuppliedFound ==
    ASSUME NEW q, IsPod(q), Supplied(q)
    PROVE  AgentsFound(q)
<1>1. \A j \in 1..Len(q.containers) : q.containers[j] \in Range(q.containers)
  BY PodParts DEF Range
<1> SUFFICES ASSUME NEW c \in Range(q.containers), NEW l \in Files, Told(c, l)
             PROVE  /\ Mount \in Range(c.mounts) /\ AutoInstrumentation \in Range(q.volumes)
                    /\ \E i \in Range(q.inits) :
                          \/ i.agent = l
                          \/ i.agent \in Files /\ \E d \in Range(q.containers) : Told(d, i.agent)
  BY DEF AgentsFound
<1>2. PICK j \in 1..Len(q.containers) : c = q.containers[j]
  BY PodParts DEF Range
<1>3. Mount \in Range(c.mounts) /\ ~isInitContainerMissing(q)
  BY <1>2 DEF Supplied
<1> QED
  BY <1>1, <1>3 DEF Supplied

LEMMA UntoldSupplied ==
    ASSUME NEW p, IsPod(p), Untold(p), ~isAutoInstrumentationInjected(p)
    PROVE  Supplied(p)
<1>1. \A j \in 1..Len(p.containers) : p.containers[j] \in Range(p.containers)
  BY PodParts DEF Range
<1>2. isInitContainerMissing(p)
  BY DEF isInitContainerMissing, isAutoInstrumentationInjected
<1> QED
  BY <1>1, <1>2 DEF Supplied, Untold

LEMMA OwnBare ==
    ASSUME NEW references
    PROVE  NoAgent(OwnAttributes(references))
<1> DEFINE space == [key \in {<<"namespace", "name">>} |-> "ns"]
           owners == [key \in references \X {"name", "uid"} |-> key[1]]
           refs == References(Range(Downward))
           all == Over(refs, Over(space, owners))
<1>1. \A d \in Range(Downward) : d.key[2] \in {"name", "uid"}
  BY DownwardSeq, SMTT(30)
<1>2. \A key \in DOMAIN refs : key[2] \in {"name", "uid"}
  BY <1>1 DEF References
<1>3. \A key \in DOMAIN space \cup DOMAIN owners : key[2] \in {"name", "uid"}
  BY SMTT(30)
<1> HIDE DEF space, owners, refs
<1>4. DOMAIN all = DOMAIN refs \cup DOMAIN space \cup DOMAIN owners
  BY DEF Over
<1>5. \A key \in DOMAIN all : KeyBare(key)
  BY <1>2, <1>3, <1>4, NameBare, SMTT(30)
<1>6. OwnAttributes(references) = resourceMapToStr(all)
  BY DEF OwnAttributes, all, refs, space, owners
<1> HIDE DEF all
<1> QED
  BY <1>5, <1>6, MapBare

CollectorsBare(deployed) ==
    \A n \in DOMAIN deployed : deployed[n] # Nil => NoAgent(Parts(deployed[n].env))

LEMMA SidecarEnvBare ==
    ASSUME NEW col, CollectorOK(col), NoAgent(Parts(col.env)), NEW references, NEW e,
           e = getResourceAttributesEnv(references)
    PROVE  NoAgent(Parts(SidecarEnv(col, e)))
<1>1. IsEnv(col.env)
  BY DEF CollectorOK
<1> DEFINE a == Append(col.env, FieldRef("POD_NAME"))
           b == Append(a, Var("OTEL_CONFIG", {}))
<1>2. IsEnv(a) /\ Parts(a) = Parts(col.env)
  <2>1. Added(col.env, a, {FieldRef("POD_NAME")})
    BY <1>1, VarIsVar, AppendEnv
  <2>2. PartsOf({FieldRef("POD_NAME")}) = {}
    BY SMTT(30) DEF PartsOf, FieldRef
  <2> HIDE DEF a
  <2>3. /\ Parts(col.env) \subseteq Parts(a)
        /\ Parts(a) \subseteq Parts(col.env) \cup PartsOf({FieldRef("POD_NAME")})
    BY <1>1, <2>1, AddedParts
  <2> QED
    BY <2>1, <2>2, <2>3 DEF Added
<1> HIDE DEF a
<1>3. IsEnv(b) /\ Parts(b) = Parts(a)
  <2>1. Added(a, b, {Var("OTEL_CONFIG", {})})
    BY <1>2, VarIsVar, AppendEnv
  <2>2. PartsOf({Var("OTEL_CONFIG", {})}) = {}
    BY SMTT(30) DEF PartsOf, Var
  <2> HIDE DEF b
  <2>3. Parts(a) \subseteq Parts(b) /\ Parts(b) \subseteq Parts(a) \cup PartsOf({Var("OTEL_CONFIG", {})})
    BY <1>2, <2>1, AddedParts
  <2> QED
    BY <2>1, <2>2, <2>3 DEF Added
<1>4. OwnConfig(col) = b
  BY DEF OwnConfig, a
<1> HIDE DEF b
<1>5. CASE Has(OwnConfig(col), ORA)
  BY <1>2, <1>3, <1>4, <1>5 DEF SidecarEnv
<1>6. CASE ~Has(OwnConfig(col), ORA)
  <2>1. /\ IsEnv(e) /\ Len(e) = 4 /\ e[4] = Var(ORA, OwnAttributes(references))
        /\ \A i \in 1..3 : e[i] = FieldRef(Downward[i].var)
    BY OwnEnv
  <2>2. Parts(e) \subseteq OwnAttributes(references)
    <3> SUFFICES ASSUME NEW x \in Parts(e) PROVE x \in OwnAttributes(references)
      OBVIOUS
    <3>1. PICK i \in 1..4 : x \in e[i].value
      BY <2>1, PartsAre
    <3>2. i \in 1..3 \/ i = 4
      BY SMTT(30)
    <3>3. e[4].value = OwnAttributes(references)
      BY <2>1, SMTT(30) DEF Var
    <3>4. i \in 1..3 => e[i].value = {}
      BY <2>1, SMTT(30) DEF FieldRef
    <3> QED
      BY <3>1, <3>2, <3>3, <3>4
  <2>3. NoAgent(OwnAttributes(references))
    BY OwnBare
  <2>4. Added(b, b \o e, Range(e))
    BY <1>3, <2>1, ConcatAdded DEF Joined
  <2>5. Parts(b \o e) \subseteq Parts(b) \cup PartsOf(Range(e))
    BY <1>3, <2>4, AddedParts
  <2>6. SidecarEnv(col, e) = b \o e
    BY <1>4, <1>6 DEF SidecarEnv
  <2> QED
    BY <1>2, <1>3, <2>2, <2>3, <2>5, <2>6 DEF NoAgent, Parts
<1> QED
  BY <1>5, <1>6

LEMMA SidecarUntold ==
    ASSUME NEW space, NEW p, IsPod(p), Untold(p), NEW deployed, CollectorsOK(deployed),
           CollectorsBare(deployed), NEW found, NEW first,
           SidecarDone(space, p, deployed, found, first), first.ok
    PROVE  Untold(first.pod)
<1>1. CASE first.pod = p
  BY <1>1
<1>2. CASE Removed(p, first.pod)
  BY <1>2 DEF Removed, Untold
<1>3. CASE \E n \in getCollectorInstance(sidecarAnnotationValue(space, p), deployed) : \E ports :
              SidecarAdded(deployed[n], getResourceAttributesEnv(podReferences(p, found)), ports,
                           p, first.pod)
  <2> DEFINE e == getResourceAttributesEnv(podReferences(p, found))
  <2>1. PICK n \in getCollectorInstance(sidecarAnnotationValue(space, p), deployed) : \E ports :
                SidecarAdded(deployed[n], e, ports, p, first.pod)
    BY <1>3
  <2>2. PICK ports : SidecarAdded(deployed[n], e, ports, p, first.pod)
    BY <2>1
  <2>3. n \in DOMAIN deployed /\ deployed[n] # Nil
    BY DEF getCollectorInstance
  <2>4. CollectorOK(deployed[n]) /\ NoAgent(Parts(deployed[n].env))
    BY <2>3 DEF CollectorsOK, CollectorsBare
  <2> DEFINE c == SidecarContainer(deployed[n], e, ports)
  <2>5. IsEnv(e)
    BY OwnEnv
  <2>6. NoAgent(Parts(SidecarEnv(deployed[n], e)))
    BY <2>4, SidecarEnvBare
  <2> HIDE DEF e
  <2>7. c.env = SidecarEnv(deployed[n], e)
    BY <2>4, <2>5, SidecarIsContainer, SMTT(30)
  <2>8. Range(first.pod.containers) = Range(p.containers) \cup {c}
    BY <2>2, AppendSeq, SMTT(30) DEF SidecarAdded, IsPod
  <2> HIDE DEF c
  <2>9. \A l \in Files : ~Told(c, l)
    BY <2>6, <2>7, ToldIs DEF NoAgent
  <2> QED
    BY <2>8, <2>9 DEF Untold
<1> QED
  BY <1>1, <1>2, <1>3 DEF SidecarDone

InstancesBare(stored) ==
    \A n \in DOMAIN stored : stored[n] # Nil => InstBare(stored[n])

LEMMA InstFound ==
    ASSUME NEW space, NEW p, IsPod(p), NamesOK(space, p), MetaBare(p), Untold(p), NEW stored,
           InstancesOK(stored), InstancesBare(stored), NEW local, NEW found, NEW second,
           second = instMutate(space, p, stored, local, found), second.ok
    PROVE  AgentsFound(second.pod)
<1>1. CASE second.pod = p
  BY <1>1 DEF AgentsFound, Untold
<1>2. CASE /\ ~isAutoInstrumentationInjected(p) /\ ~Unselectable(space, p, stored, local)
           /\ second.pod = InjectAll(Insts(space, p, stored, local), p, ContainerNames(space, p), found)
  <2> DEFINE insts == Insts(space, p, stored, local)
             v == ContainerNames(space, p)
             n == Len(v)
  <2>1. InstsOK(insts)
    BY <1>2, InstsAreOK
  <2>2. n \in Nat /\ DOMAIN v = 1..n
    BY NamesSeq
  <2>3. InstsBare(insts)
    <3> SUFFICES ASSUME NEW l \in Languages, insts[l] # Nil PROVE InstBare(insts[l])
      BY DEF InstsBare
    <3>1. InstIs(space, p, stored, l, insts[l])
      BY <1>2, InstsAre
    <3> QED
      BY <3>1 DEF InstIs, InstancesBare
  <2>4. Supplied(p)
    BY <1>2, UntoldSupplied
  <2> HIDE DEF insts, v, n
  <2>5. CASE p.containers = <<>>
    <3>1. second.pod = p
      BY <1>2, <2>1, <2>2, <2>5, NoContainersAll, SMTT(30) DEF insts, v
    <3> QED
      BY <1>1, <3>1
  <2>6. CASE p.containers # <<>>
    <3>1. PICK H, T : StepsRun(H, T, insts, p, v, found, n)
      BY <2>1, <2>2, <2>6, AllSteps
    <3>2. Supplied(H[7 * n])
      BY <2>1, <2>2, <2>3, <2>4, <3>1, RunSupplied
    <3>3. second.pod = H[7 * n]
      BY <1>2, <3>1 DEF StepsRun, insts, v
    <3>4. Grown(p, H[7 * n])
      BY <2>2, <3>1, SMTT(30) DEF StepsRun
    <3>5. IsPod(second.pod)
      BY <3>3, <3>4 DEF Grown
    <3> QED
      BY <3>2, <3>3, <3>5, SuppliedFound
  <2> QED
    BY <2>5, <2>6
<1>3. InstDone(space, p, stored, local, found, second.pod)
  BY InstOk
<1> QED
  BY <1>1, <1>2, <1>3 DEF InstDone

LEMMA ResponseFound ==
    ASSUME NEW space, NEW p, IsPod(p), NamesOK(space, p), MetaBare(p), Untold(p),
           NEW deployed, CollectorsOK(deployed), CollectorsBare(deployed),
           NEW stored, InstancesOK(stored), InstancesBare(stored), NEW local, NEW found,
           NEW r, Responds(space, p, deployed, stored, local, found, r)
    PROVE  AgentsFound(r)
<1>1. PICK first : LET second == instMutate(space, first.pod, stored, local, found) IN
              /\ SidecarDone(space, p, deployed, found, first)
              /\ \/ ~(first.ok /\ second.ok) /\ r = p
                 \/ /\ first.ok /\ second.ok /\ r = second.pod
                    /\ IsPod(first.pod) /\ NamesOK(space, first.pod) /\ Grown(first.pod, r)
  BY Response
<1>2. CASE r = p
  BY <1>2 DEF AgentsFound, Untold
<1> DEFINE second == instMutate(space, first.pod, stored, local, found)
<1>3. CASE /\ first.ok /\ second.ok /\ r = second.pod
           /\ IsPod(first.pod) /\ NamesOK(space, first.pod)
  <2>1. SidecarDone(space, p, deployed, found, first)
    BY <1>1
  <2>2. Untold(first.pod)
    BY <1>3, <2>1, SidecarUntold
  <2>3. Rest(p, first.pod)
    BY <1>3, <2>1, SidecarKeeps
  <2>4. MetaBare(first.pod)
    BY <2>3 DEF Rest, MetaBare
  <2>5. AgentsFound(second.pod)
    <3>1. second = instMutate(space, first.pod, stored, local, found)
      OBVIOUS
    <3> HIDE DEF second
    <3> QED
      BY <1>3, <2>2, <2>4, <3>1, InstFound
  <2> QED
    BY <1>3, <2>5
<1> QED
  BY <1>1, <1>2, <1>3

\* What the instances have is what users wrote.
LEMMA SpecOf ==
    ASSUME NEW i \in Instance
    PROVE  /\ i.env \in {j.env : j \in Instances} /\ i.langEnv \in {j.langEnv : j \in Instances}
           /\ i.propagators \in {j.propagators : j \in Instances}
           /\ i.attributes \in {j.attributes : j \in Instances}
BY DEF Instance

LEMMA UsersBare ==
    ASSUME PodType, InstancesType
    PROVE  /\ CollectorsBare(collectors) /\ InstancesBare(instances)
           /\ \A p \in Requests : Untold(p) /\ MetaBare(p)
<1>1. PICK l0 : l0 \in Files
  BY DEF Files
<1>2. \A p \in Requests : Untold(p)
  BY AgentsAssumption DEF Untold
<1>3. \A p \in Requests : MetaBare(p)
  BY <1>1, AgentsAssumption DEF MetaBare, KeyBare
<1>4. \A c \in Collectors : NoAgent(Parts(c.env))
  BY AgentsAssumption, ToldIs DEF NoAgent
<1>5. CollectorsBare(collectors)
  BY <1>4 DEF PodType, CollectorsBare
<1>6. \A j \in Instances : NoAgent(Parts(j.env)) /\ NoAgent(j.propagators)
  BY AgentsAssumption, ToldIs DEF NoAgent, AgentPart
<1>7. \A j \in Instances, k \in Language : NoAgent(Parts(j.langEnv[k]))
  <2> SUFFICES ASSUME NEW j \in Instances, NEW k \in Language, NEW l \in Files
               PROVE  AgentPart(l) \notin Parts(j.langEnv[k])
    BY DEF NoAgent
  <2> DEFINE c == [env |-> j.langEnv[k]]
  <2>1. ~Told(c, l)
    BY AgentsAssumption
  <2>2. c.env = j.langEnv[k]
    OBVIOUS
  <2> HIDE DEF c
  <2> QED
    BY <2>1, <2>2, ToldIs
<1>8. \A j \in Instances : \A key \in DOMAIN j.attributes : KeyBare(key)
  BY <1>1, AgentsAssumption DEF KeyBare
<1>9. \A i \in Instance : InstBare(i)
  <2> SUFFICES ASSUME NEW i \in Instance PROVE InstBare(i)
    OBVIOUS
  <2> QED
    BY <1>6, <1>7, <1>8, SpecOf DEF InstBare
<1>10. InstancesBare(instances)
  BY <1>9 DEF InstancesType, InstancesBare
<1> QED
  BY <1>2, <1>3, <1>5, <1>10

\* A container that is told to load an agent finds it, in every pod that is stored:
\* the agent, its volume and the mounts come together, for whatever languages and
\* containers a pod names (javaagent.go, nodejs.go, python.go, dotnet.go).
THEOREM AgentsComplete == Spec => []AgentPresent
<1>1. AgentPresent <=> (pod # Nil => AgentsFound(pod))
  BY ONLY TRUE DEF AgentPresent, AgentsFound, Mount
<1>2. AgentPresent' <=> (pod' # Nil => AgentsFound(pod'))
  BY ONLY TRUE DEF AgentPresent, AgentsFound, Mount
<1>3. Init => ReadInv /\ AgentPresent
  <2> SUFFICES ASSUME Init PROVE ReadInv /\ AgentPresent
    OBVIOUS
  <2>1. pod = Nil
    BY DEF Init
  <2> QED
    BY <1>1, <2>1, InitReads
<1>4. ReadInv /\ AgentPresent /\ [Next]_vars => ReadInv' /\ AgentPresent'
  <2> SUFFICES ASSUME ReadInv, AgentPresent, [Next]_vars
               PROVE  AgentPresent'
    BY StepReads
  <2>1. ImageInv /\ PodType /\ InstancesType
    BY DEF ReadInv, ImageInv
  <2>2. CASE CreatePod
    <3> SUFFICES ASSUME pod' # Nil PROVE AgentsFound(pod')
      BY <1>2
    <3>1. PICK p \in Requests : \E r : Creates(p, r)
      BY <2>1, <2>2, CreateStep
    <3>2. PICK r : Creates(p, r)
      BY <3>1
    <3>3. pod' = Stored(r) /\ IsPod(r)
      BY <3>2 DEF Creates
    <3>4. AgentsFound(r)
      <4>1. /\ CollectorsBare(collectors) /\ InstancesBare(instances) /\ Untold(p) /\ MetaBare(p)
        BY <2>1, UsersBare
      <4>2. CollectorsOK(collectors) /\ InstancesOK(instances) /\ IsPod(p) /\ NamesOK(ns, p)
        BY <2>1, ReadsOK
      <4>3. CASE r = p
        BY <4>1, <4>3 DEF AgentsFound, Untold
      <4>4. CASE \E found \in BOOLEAN : Responds(ns, p, collectors, instances, Name, found, r)
        <5>1. PICK found \in BOOLEAN : Responds(ns, p, collectors, instances, Name, found, r)
          BY <4>4
        <5> QED
          BY <4>1, <4>2, <5>1, ResponseFound
      <4> QED
        BY <3>2, <4>3, <4>4 DEF Creates
    <3>5. pod'.containers = r.containers /\ pod'.inits = r.inits /\ pod'.volumes = r.volumes
      BY <3>3, StoredAlike DEF Alike
    <3> QED
      BY <3>4, <3>5 DEF AgentsFound
  <2>3. CASE UpdatePod \/ ReadStep \/ ImageStep
    <3>1. pod' = pod
      BY <2>3 DEF UpdatePod, podVars, ReadStep, ImageStep
    <3> QED
      BY <1>1, <1>2, <3>1
  <2>4. CASE DeletePod
    <3>1. pod' = Nil
      BY <2>4 DEF DeletePod
    <3> QED
      BY <1>2, <3>1
  <2> QED
    BY <2>1, <2>2, <2>3, <2>4, PodSteps
<1> QED
  BY <1>3, <1>4, PTL DEF Spec

=============================================================================
