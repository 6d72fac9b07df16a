-------------------------------- MODULE Pods --------------------------------
(***************************************************************************)
(* Pods as the operator's webhook and the API server look at them.         *)
(*                                                                         *)
(* A container is its name, the agent it installs or is, its environment   *)
(* variables, its mount paths, whether it has a probe, and its ports.  A   *)
(* variable is its name, whether its value comes from elsewhere, and its   *)
(* value: the set of its parts.  A part is a key, which is a pair, and a   *)
(* value: for a resource attribute, k8s.pod.name say,                      *)
(* <<"pod", "name", value>>.                                               *)
(***************************************************************************)
EXTENDS Integers, Sequences, FiniteSetsExt, TLC

CONSTANT Nil   \* a nil pointer, no agent

-----------------------------------------------------------------------------
(* Slices.                                                                 *)

\* What a loop over the slice makes of base.
FoldLeft(op(_, _), base, s) ==
    MapThenFoldSet(LAMBDA x, acc : op(acc, x), base, LAMBDA i : s[i], Max, DOMAIN s)

\* The first index, 0 if there is none.
FirstIndex(s, Test(_)) ==
    LET found == {i \in DOMAIN s : Test(s[i])}
    IN  IF found = {} THEN 0 ELSE Min(found)

RemoveAt(s, i) == SubSeq(s, 1, i - 1) \o SubSeq(s, i + 1, Len(s))

-----------------------------------------------------------------------------
(* Environment variables.                                                  *)

Var(name, value) == [name |-> name, from |-> FALSE, value |-> value]

\* A variable with the value of a field of the pod.
FieldRef(name) == [name |-> name, from |-> TRUE, value |-> {}]

\* getIndexOfEnv: 0 if there is none.
getIndexOfEnv(env, name) == FirstIndex(env, LAMBDA e : e.name = name)

Has(env, name) == getIndexOfEnv(env, name) # 0

AddMissing(env, var) == IF Has(env, var.name) THEN env ELSE Append(env, var)

\* The variables of a spec that the container does not have.
AddAllMissing(env, vars) == FoldLeft(AddMissing, env, vars)

\* A value that is added to what the variable has.
Concat(env, var) ==
    IF Has(env, var.name)
    THEN [env EXCEPT ![getIndexOfEnv(env, var.name)].value = @ \cup var.value]
    ELSE Append(env, var)

\* moveEnvToListEnd
moveEnvToListEnd(env, i) ==
    IF i \in DOMAIN env THEN Append(RemoveAt(env, i), env[i]) ELSE env

\* validateContainerEnv
validateContainerEnv(env, names) ==
    \A name \in names : Has(env, name) => ~env[getIndexOfEnv(env, name)].from

\* The resource attributes are not a value that something can be added to.
FromElsewhere(env) == ~validateContainerEnv(env, {"OTEL_RESOURCE_ATTRIBUTES"})

\* The one that is to be selected is the only one there is.
Single(S) == \E x \in S : S = {x}

\* What first has, and what second has besides.
Over(first, second) ==
    [key \in DOMAIN first \cup DOMAIN second |->
        IF key \in DOMAIN first THEN first[key] ELSE second[key]]

-----------------------------------------------------------------------------
(* What pods look like.                                                    *)

IsSeq(s) == s \in Seq(Range(s))

IsEnv(env) == IsSeq(env) /\ \A v \in Range(env) : DOMAIN v = {"name", "from", "value"}

IsContainer(c) ==
    /\ DOMAIN c = {"name", "agent", "env", "mounts", "probe", "ports"}
    /\ IsEnv(c.env) /\ IsSeq(c.mounts)

IsPod(p) ==
    /\ DOMAIN p = {"containers", "inits", "volumes", "shareProcessNamespace", "containerNames",
                   "goExe", "owner", "annotations", "meta"}
    /\ IsSeq(p.containers) /\ IsSeq(p.inits) /\ IsSeq(p.volumes)
    /\ \A c \in Range(p.containers) \cup Range(p.inits) : IsContainer(c)

-----------------------------------------------------------------------------
(* The API server.                                                         *)

PortNumber == 1..65535

Distinct(seq) == \A i, j \in DOMAIN seq : seq[i] = seq[j] => i = j

\* What it asks of a pod, as far as the operator can get it wrong.
Acceptable(pod) ==
    LET all == pod.containers \o pod.inits IN
    /\ pod.containers # <<>>
    /\ Distinct([i \in DOMAIN all |-> all[i].name])
    /\ Distinct(pod.volumes)
    /\ \A i \in DOMAIN all : Distinct(all[i].mounts)
    /\ \A i \in DOMAIN all : \A v \in Range(all[i].env) : v.from => v.value = {}
    /\ \A i \in DOMAIN all : \A p \in all[i].ports : p.port \in PortNumber
    /\ \A i \in DOMAIN pod.inits : ~pod.inits[i].probe

\* What an update of a pod has to leave as it is.
Immutable(pod) == <<pod.containers, pod.inits, pod.volumes, pod.shareProcessNamespace>>

=============================================================================
