----------------------------- MODULE Reconcile -----------------------------
(***************************************************************************)
(* The controller of OpenTelemetryCollector instances                      *)
(* (controllers/opentelemetrycollector_controller.go) and its tasks        *)
(* (pkg/collector/reconcile), for one instance.  The reconciler reads from *)
(* the caches of its informers and writes to the API server; a cache may   *)
(* be behind, and the event that says so comes with the object.  The       *)
(* environment changes, deletes and recreates the instance, deletes        *)
(* objects, lets calls fail and restarts the operator, MaxChanges times in *)
(* all.                                                                    *)
(*                                                                         *)
(* An object is what the tasks compare and write of it: its owner, what    *)
(* the spec's labels put in it, what the rest of the spec puts in it, and  *)
(* what only its creation sets.                                            *)
(***************************************************************************)
EXTENDS Naturals, Sequences, FiniteSets

CONSTANTS
    Specs,           \* the specs an instance may have
    None,            \* no instance, no object
    NamesakeService, \* there is a Service with the very name of the instance
    MaxChanges,      \* bound on what the environment does
    MaxLag           \* bound on the objects of which the cache is behind

VARIABLES
    instance,        \* the OpenTelemetryCollector in the API server
    objects,         \* the objects of the instance in the API server
    instanceCache,   \* the instance in the informer's cache
    cache,           \* the objects in the informers' caches
    behind,          \* what has events that its informer has not received
    queued,          \* the instance is in the work queue
    worker,          \* the call of Reconcile in progress
    tasks,           \* OpenTelemetryCollectorReconciler.tasks
    terminating,     \* the namespace is being terminated
    changes          \* what the environment has done so far

server == <<instance, objects>>
caches == <<instanceCache, cache, behind>>
vars == <<instance, objects, instanceCache, cache, behind, queued, worker,
          tasks, terminating, changes>>

-----------------------------------------------------------------------------
\* NewReconciler: the tasks in their order.
Tasks ==
    <<"config_maps", "service_accounts", "services", "deployments",
      "horizontal_pod_autoscalers", "daemon_sets", "stateful_sets",
      "ingresses", "opentelemetry">>

\* The same with onOpenShiftRoutesChange's task in front.
TasksWithRoutes == <<"routes">> \o Tasks

\* The objects of a task, in the order in which it appends them; Self has none.
ObjectsOf(task) ==
    CASE task = "config_maps"     -> <<"config_map", "TA_config_map">>
      [] task = "service_accounts" -> <<"service_account", "TA_service_account">>
      [] task = "services"        -> <<"service", "headless", "monitoring", "TA_service">>
      [] task = "deployments"     -> <<"deployment", "TA_deployment">>
      [] task = "horizontal_pod_autoscalers" -> <<"autoscaler">>
      [] task = "daemon_sets"     -> <<"daemon_set">>
      [] task = "stateful_sets"   -> <<"stateful_set">>
      [] task = "ingresses"       -> <<"ingress">>
      [] task = "routes"          -> <<"route">>
      [] OTHER                     -> <<>>

Elements(s) == {s[i] : i \in DOMAIN s}

When(condition, set) == IF condition THEN set ELSE {}

\* What each task wants for an instance with spec s.
ConfigMaps(s) == {"config_map"} \cup When(s.ta, {"TA_config_map"})

ServiceAccounts(s) ==
    When(s.mode # "sidecar" /\ ~s.serviceAccount, {"service_account"})
        \cup When(s.ta /\ ~s.taServiceAccount, {"TA_service_account"})

Services(s) ==
    When(s.mode # "sidecar", {"monitoring"} \cup When(s.ports, {"service", "headless"}))
        \cup When(s.ta, {"TA_service"})

Deployments(s) ==
    When(s.mode = "deployment", {"deployment"}) \cup When(s.ta, {"TA_deployment"})

HorizontalPodAutoscalers(s) == When(s.autoscaler, {"autoscaler"})

DaemonSets(s) == When(s.mode = "daemonset", {"daemon_set"})

StatefulSets(s) == When(s.mode = "statefulset", {"stateful_set"})

\* The check that the service exists asks for the wrong name and is negated.
Ingresses(s) ==
    When(s.mode # "sidecar" /\ ~NamesakeService /\ s.ingress = "ingress" /\ s.ports,
         {"ingress"})

\* For an instance that asks for routes; one for each port, of which there is one.
Routes(s) == When(s.mode # "sidecar" /\ s.ports, {"route"})

Wanted ==
    [s \in Specs |->
        ConfigMaps(s) \cup ServiceAccounts(s) \cup Services(s) \cup Deployments(s)
        \cup HorizontalPodAutoscalers(s) \cup DaemonSets(s) \cup StatefulSets(s)
        \cup Ingresses(s) \cup Routes(s)]

IsDesired(o, s) == o \in Wanted[s]

\* The desired objects of a task, in order; no task has more than four objects.
Desired(task, s) ==
    LET all == ObjectsOf(task)
        Wants(k) == IF k \in DOMAIN all /\ IsDesired(all[k], s) THEN <<all[k]>> ELSE <<>>
    IN  Wants(1) \o Wants(2) \o Wants(3) \o Wants(4)

\* The objects that some spec asks for; no other ever exists.
Objects == UNION {Wanted[s] : s \in Specs}

\* The objects that are kept up; an ingress or a route is only looked at when the
\* instance is reconciled for another reason.
Kept == Objects \ {"ingress", "route"}

\* Mutant of Watched: the controller does not own deployments.
WatchedButDeployments ==
    Objects \cap {"config_map", "TA_config_map", "service_account", "TA_service_account",
                  "service", "headless", "monitoring", "TA_service", "daemon_set",
                  "stateful_set", "autoscaler"}

\* SetupWithManager: the kinds whose events enqueue their owner.
Watched ==
    Objects \cap {"config_map", "TA_config_map", "service_account", "TA_service_account",
                  "service", "headless", "monitoring", "TA_service", "deployment",
                  "TA_deployment", "daemon_set", "stateful_set", "autoscaler"}

\* Object o as it is built for instance i.
Built(o, i) ==
    [owner  |-> i.uid,
     config |-> IF o \in {"service_account", "TA_service_account", "monitoring", "TA_service"}
                THEN None ELSE i.spec.config,
     labels |-> IF o \in {"ingress", "route"} THEN None ELSE i.spec.labels,
     fixed  |-> CASE o \in {"service", "headless"} -> i.spec.mode = "daemonset"
                  [] o = "stateful_set" -> i.spec.claims
                  [] o = "route" -> i.spec.config
                  [] OTHER -> None]

\* The fields that a patch writes.
Patched == {"owner", "config", "labels"}

\* The selector of the target allocator has the labels of the instance, and a
\* stateful set its claims; the other selectors never change.
HasImmutableFieldChange(o, desired, existing) ==
    \/ o = "TA_deployment" /\ desired.labels # existing.labels
    \/ o = "stateful_set" /\ desired.fixed # existing.fixed

\* Patch with MergeFrom: what is sent is where the desired object differs from
\* the one read, so a field that seems right is left as the server has it.
Merge(actual, existing, desired) ==
    [f \in DOMAIN actual |->
        IF f \in Patched /\ desired[f] # existing[f] THEN desired[f] ELSE actual[f]]

\* updateScaleSubResourceStatus: the modes that have a scale to report.
Scalable(s) == s.mode \in {"deployment", "statefulset"}

-----------------------------------------------------------------------------
\* A call of Reconcile: the instance it read, its task, and in this task the
\* objects still to apply and to delete; retry is the one of the config maps.
Idle == [instance |-> None, task |-> 0, phase |-> "idle",
         apply |-> <<>>, remove |-> {}, retry |-> FALSE]

Running == worker.phase # "idle"

\* reconcile.Params
params == worker.instance

\* Routes returns at once unless the instance asks for routes.
Skipped(task, i) == task = "routes" /\ i.spec.ingress # "route"

\* The call for instance i at the start of its k-th task, or at its end; the
\* last task is never skipped.
Enter(k, i) ==
    IF k > Len(tasks) THEN Idle
    ELSE LET j == IF Skipped(tasks[k], i) THEN k + 1 ELSE k IN
         [instance |-> i,
          task   |-> j,
          phase  |-> IF tasks[j] = "opentelemetry" THEN "self" ELSE "expected",
          apply  |-> Desired(tasks[j], i.spec),
          remove |-> {},
          retry  |-> tasks[j] = "config_maps"]

\* A call that returns an error is queued again.
Fail == worker' = Idle /\ queued' = TRUE

\* The write of an object is an event unless it changes nothing; MaxLag objects
\* may have events that wait.
Write(o, v) ==
    /\ objects' = [objects EXCEPT ![o] = v]
    /\ behind' = IF v = objects[o] THEN behind ELSE behind \cup {o}
    /\ Cardinality(behind' \ {"instance"}) <= MaxLag
    /\ UNCHANGED <<instanceCache, cache>>

WriteInstance(v) ==
    /\ instance' = v
    /\ behind' = IF v = instance THEN behind ELSE behind \cup {"instance"}
    /\ UNCHANGED <<instanceCache, cache>>

\* The operator finds no instance, or one that it has brought to rest.
Init ==
    /\ \/ /\ instance = None
          /\ objects = [o \in Objects |-> None]
       \/ \E s \in Specs :
            /\ instance = [uid |-> 0, spec |-> s, version |-> TRUE, scale |-> Scalable(s)]
            /\ objects = [o \in Objects |-> IF IsDesired(o, s) /\ o # "route"
                                           THEN Built(o, instance) ELSE None]
    /\ instanceCache = instance /\ cache = objects /\ behind = {}
    /\ queued = FALSE /\ worker = Idle
    /\ tasks = Tasks
    /\ terminating = FALSE
    /\ changes = 0

-----------------------------------------------------------------------------
(* The reconciler.                                                         *)

\* Reconcile: the instance as the cache has it, or nothing to do.
Reconcile ==
    /\ ~Running /\ queued
    /\ queued' = FALSE
    /\ worker' = IF instanceCache = None THEN Idle ELSE Enter(1, instanceCache)
    /\ UNCHANGED <<server, caches, tasks, terminating, changes>>

\* The loop of a task's expected function goes on.
Applied == worker' = [worker EXCEPT !.apply = Tail(@)]

\* Create: refused in a namespace that is being terminated, which ends the
\* call without an error; the config maps try once more if the object exists.
Create(o) ==
    /\ cache[o] = None
    /\ \/ /\ terminating
          /\ worker' = Idle
          /\ UNCHANGED <<objects, caches, queued>>
       \/ /\ ~terminating /\ objects[o] = None
          /\ Write(o, Built(o, params)) /\ Applied
          /\ UNCHANGED queued
       \/ /\ ~terminating /\ objects[o] # None /\ worker.retry
          /\ worker' = [worker EXCEPT !.retry = FALSE,
                                      !.apply = Desired(tasks[worker.task], params.spec)]
          /\ UNCHANGED <<objects, caches, queued>>
       \/ /\ ~terminating /\ objects[o] # None /\ ~worker.retry
          /\ Fail
          /\ UNCHANGED <<objects, caches>>

\* Mutant of Replace: the object is deleted and created again in the same call.
ReplaceAtOnce(o) ==
    /\ cache[o] # None /\ HasImmutableFieldChange(o, Built(o, params), cache[o])
    /\ \/ /\ objects[o] # None
          /\ Write(o, None) /\ worker' = [worker EXCEPT !.retry = TRUE]
          /\ UNCHANGED queued
       \/ /\ objects[o] = None /\ worker.retry
          /\ Write(o, Built(o, params)) /\ Applied
          /\ UNCHANGED queued

\* A change of an immutable field: the object is deleted, and comes back in
\* the reconciliation its deletion asks for.
Replace(o) ==
    /\ cache[o] # None /\ HasImmutableFieldChange(o, Built(o, params), cache[o])
    /\ \/ /\ objects[o] # None
          /\ Write(o, None) /\ Applied
          /\ UNCHANGED queued
       \/ /\ objects[o] = None
          /\ Fail
          /\ UNCHANGED <<objects, caches>>

\* Mutant of Patch: the patch has a time stamp, so it always changes something.
PatchStamps(o) ==
    /\ cache[o] # None /\ objects[o] # None
    /\ ~HasImmutableFieldChange(o, Built(o, params), cache[o])
    /\ objects' = [objects EXCEPT ![o] = Built(o, params)]
    /\ behind' = behind \cup {o}
    /\ Cardinality(behind' \ {"instance"}) <= MaxLag
    /\ Applied
    /\ UNCHANGED <<instanceCache, cache, queued>>

\* Any other object that exists is patched.
Patch(o) ==
    /\ cache[o] # None /\ ~HasImmutableFieldChange(o, Built(o, params), cache[o])
    /\ \/ /\ objects[o] # None
          /\ Write(o, Merge(objects[o], cache[o], Built(o, params))) /\ Applied
          /\ UNCHANGED queued
       \/ /\ objects[o] = None
          /\ Fail
          /\ UNCHANGED <<objects, caches>>

\* One turn of the loop of an expected function.
Expected ==
    /\ worker.phase = "expected" /\ worker.apply # <<>>
    /\ LET o == Head(worker.apply) IN Create(o) \/ Replace(o) \/ Patch(o)
    /\ UNCHANGED <<instance, tasks, terminating, changes>>

\* The loop of a delete function with the objects of the list yet to delete;
\* at its end the next task begins.
Deleting(left) ==
    worker' = IF left = {} THEN Enter(worker.task + 1, params)
              ELSE [worker EXCEPT !.phase = "delete", !.remove = left]

\* The list of a delete function, less the objects to keep.
List ==
    /\ worker.phase = "expected" /\ worker.apply = <<>>
    /\ Deleting({o \in Objects \cap Elements(ObjectsOf(tasks[worker.task])) :
                    cache[o] # None /\ ~IsDesired(o, params.spec)})
    /\ UNCHANGED <<server, caches, queued, tasks, terminating, changes>>

\* One turn of the loop of a delete function.
Delete ==
    /\ worker.phase = "delete"
    /\ \E o \in worker.remove :
          \/ /\ objects[o] # None
             /\ Write(o, None)
             /\ Deleting(worker.remove \ {o})
             /\ UNCHANGED queued
          \/ /\ objects[o] = None
             /\ Fail
             /\ UNCHANGED <<objects, caches>>
    /\ UNCHANGED <<instance, tasks, terminating, changes>>

\* updateScaleSubResourceStatus: the object that the scale is read from is there.
ScaleKnown(s) ==
    \E o \in Objects \cap {"deployment", "stateful_set"} : IsDesired(o, s) /\ cache[o] # None

\* Self: the patch of the status, from the status that was read.
Self ==
    /\ worker.phase = "self"
    /\ \/ /\ instance # None /\ (Scalable(params.spec) => ScaleKnown(params.spec))
          /\ WriteInstance([instance EXCEPT
                !.version = @ \/ ~params.version,
                !.scale = IF params.scale # Scalable(params.spec)
                          THEN Scalable(params.spec) ELSE @])
          /\ worker' = Enter(worker.task + 1, params)
          /\ UNCHANGED queued
       \/ /\ instance = None \/ (Scalable(params.spec) /\ ~ScaleKnown(params.spec))
          /\ Fail
          /\ UNCHANGED <<instance, caches>>
    /\ UNCHANGED <<objects, tasks, terminating, changes>>

-----------------------------------------------------------------------------
(* The informers.                                                          *)

\* The instance's events reach its cache; For(OpenTelemetryCollector).
DeliverInstance ==
    /\ "instance" \in behind
    /\ instanceCache' = instance
    /\ behind' = behind \ {"instance"}
    /\ queued' = TRUE
    /\ UNCHANGED <<server, cache, worker, tasks, terminating, changes>>

\* An object's events reach its cache; Owns(...) enqueues the owner.
Deliver(o) ==
    /\ o \in behind
    /\ cache' = [cache EXCEPT ![o] = objects[o]]
    /\ behind' = behind \ {o}
    /\ queued' = (queued \/ o \in Watched)
    /\ UNCHANGED <<server, instanceCache, worker, tasks, terminating, changes>>

-----------------------------------------------------------------------------
(* The environment.                                                        *)

\* The user creates the instance; changes serves for an identity never used.
CreateInstance(s) ==
    /\ instance = None /\ ~terminating
    /\ WriteInstance([uid |-> changes + 1, spec |-> s, version |-> FALSE, scale |-> FALSE])
    /\ UNCHANGED <<objects, queued, worker, tasks, terminating>>

ChangeSpec(s) ==
    /\ instance # None
    /\ WriteInstance([instance EXCEPT !.spec = s])
    /\ UNCHANGED <<objects, queued, worker, tasks, terminating>>

DeleteInstance ==
    /\ instance # None
    /\ WriteInstance(None)
    /\ UNCHANGED <<objects, queued, worker, tasks, terminating>>

\* Somebody deletes an object of the instance, of a kind that is kept up.
DeleteObject(o) ==
    /\ objects[o] # None
    /\ Write(o, None)
    /\ UNCHANGED <<instance, queued, worker, tasks, terminating>>

\* A call to the API server fails, in whatever task.
CallFails ==
    /\ Running
    /\ Fail
    /\ UNCHANGED <<server, caches, tasks, terminating>>

\* The operator restarts: the informers list, which queues the instance, and
\* SetupWithManager detects the routes anew.
Restart ==
    /\ worker' = Idle
    /\ instanceCache' = instance /\ cache' = objects /\ behind' = {}
    /\ queued' = (instance # None \/ \E o \in Watched : objects[o] # None)
    /\ UNCHANGED <<server, tasks, terminating>>

\* AutoDetect finds that routes came or went; the lock keeps it out of RunTasks.
onOpenShiftRoutesChange ==
    /\ ~Running
    /\ tasks' = IF tasks = Tasks THEN TasksWithRoutes ELSE Tasks
    /\ UNCHANGED <<server, caches, queued, worker, terminating>>

TerminateNamespace ==
    /\ ~terminating
    /\ terminating' = TRUE
    /\ UNCHANGED <<server, caches, queued, worker, tasks>>

Environment ==
    /\ changes < MaxChanges
    /\ changes' = changes + 1
    /\ \/ \E s \in Specs : CreateInstance(s) \/ ChangeSpec(s)
       \/ DeleteInstance
       \/ \E o \in Kept : DeleteObject(o)
       \/ CallFails
       \/ Restart
       \/ onOpenShiftRoutesChange
       \/ TerminateNamespace

\* The garbage collector: an object whose owner is gone goes too.
Orphaned(o) ==
    objects[o] # None /\ objects[o].owner \notin {i.uid : i \in {instance} \ {None}}

Collect(o) ==
    /\ Orphaned(o)
    /\ Write(o, None)
    /\ UNCHANGED <<instance, queued, worker, tasks, terminating, changes>>

-----------------------------------------------------------------------------
Controller == Reconcile \/ Expected \/ List \/ Delete \/ Self

Next ==
    \/ Controller
    \/ DeliverInstance
    \/ \E o \in Objects : Deliver(o) \/ Collect(o)
    \/ Environment

Spec == Init /\ [][Next]_vars

\* The worker of the controller runs, informers catch up and the garbage
\* collector does its work.
Fairness ==
    /\ WF_vars(Controller)
    /\ WF_vars(DeliverInstance)
    /\ WF_vars(\E o \in Objects : Deliver(o))
    /\ WF_vars(\E o \in Objects : Collect(o))

FairSpec == Spec /\ Fairness

-----------------------------------------------------------------------------
InstanceStates ==
    [uid : 0..MaxChanges, spec : Specs, version : BOOLEAN, scale : BOOLEAN]

\* What object o may be: each field as it is built for one spec or another.
ObjectStates(o) ==
    LET BuiltFor(s) == Built(o, [uid |-> 0, spec |-> s]) IN
    [owner  : 0..MaxChanges,
     config : {BuiltFor(s).config : s \in Specs},
     labels : {BuiltFor(s).labels : s \in Specs},
     fixed  : {BuiltFor(s).fixed : s \in Specs}]

\* No instance and no object are told apart from those there are.
ASSUME NoneAssumption ==
    /\ MaxChanges \in Nat
    /\ None \notin InstanceStates
    /\ \A o \in Objects : None \notin ObjectStates(o)

\* Call w, if there is one, is at a task of the reconciler with objects of this task
\* alone: to apply the ones that its instance wants, and to delete others.
CallOK(w) ==
    /\ w \in [instance : InstanceStates \cup {None}, task : 0..Len(tasks),
              phase : {"idle", "expected", "delete", "self"},
              apply : Seq(Objects), remove : SUBSET Objects, retry : BOOLEAN]
    /\ w.phase = "idle" <=> w.task = 0
    /\ w.phase # "idle" =>
          /\ w.instance # None
          /\ Elements(w.apply) \cup w.remove \subseteq Elements(ObjectsOf(tasks[w.task]))
          /\ Elements(w.apply) \subseteq Wanted[w.instance.spec]
          /\ w.remove \cap Wanted[w.instance.spec] = {}
          /\ w.phase = "self" <=> w.task = Len(tasks)

\* The instances, the objects and their cached copies are well formed, every
\* object has an owner (SetControllerReference), and so is the call in progress.
TypeOK ==
    /\ {instance, instanceCache} \subseteq InstanceStates \cup {None}
    /\ DOMAIN objects = Objects /\ DOMAIN cache = Objects
    /\ \A o \in Objects : {objects[o], cache[o]} \subseteq ObjectStates(o) \cup {None}
    /\ behind \subseteq Objects \cup {"instance"}
    /\ queued \in BOOLEAN /\ terminating \in BOOLEAN /\ changes \in 0..MaxChanges
    /\ tasks \in {Tasks, TasksWithRoutes}
    /\ CallOK(worker)

\* Nothing is left to do: no call, no entry in the queue, no event to come.
Settled == ~Running /\ ~queued /\ behind = {}

\* An object that a patch or a deletion has brought to what the instance wants.
UpToDate(o) ==
    IF instance = None \/ ~IsDesired(o, instance.spec) THEN objects[o] = None
    ELSE /\ objects[o] # None
         /\ \A f \in Patched : objects[o][f] = Built(o, instance)[f]
         /\ ~HasImmutableFieldChange(o, Built(o, instance), objects[o])

\* The status is the one that Self computes.
StatusRight ==
    instance # None => instance.version /\ instance.scale = Scalable(instance.spec)

\* When nothing is left to do the objects of the kinds kept up are the ones the
\* instance wants, the garbage collector aside, and its status is the one that
\* Self computes: no stale read, failure, restart or deletion in between is
\* left without the event that repairs it.
SettledIsDesired ==
    Settled /\ ~terminating =>
        /\ \A o \in Kept : UpToDate(o) \/ Orphaned(o)
        /\ StatusRight

\* The reconciler never deletes an object that is as the instance it works for
\* wants it, however old the copy is that it looks at.
NeverDeletesDesired ==
    [][\A o \in Objects :
         Expected \/ Delete =>
             ~(/\ objects[o] # None /\ objects'[o] = None
               /\ IsDesired(o, params.spec)
               /\ ~HasImmutableFieldChange(o, Built(o, params), objects[o]))]_vars

\* What is not behind is in the cache as it is.
CachesKnow ==
    /\ "instance" \notin behind => instanceCache = instance
    /\ \A o \in Objects \ behind : cache[o] = objects[o]

\* The field of o that no patch can change is in the cache as it is, if the object
\* is in the cache at all: an object is created only after the cache has lost it.
SameIncarnation ==
    \A o \in Objects : cache[o] # None /\ objects[o] # None =>
        /\ o = "TA_deployment" => cache[o].labels = objects[o].labels
        /\ o = "stateful_set" => cache[o].fixed = objects[o].fixed

\* The objects of the tasks from the k-th on.
ObjectsFrom(k) == UNION {Elements(ObjectsOf(tasks[j])) : j \in k..Len(tasks)}

\* The objects that call w has yet to see to.
Todo(w) ==
    IF w.phase = "idle" THEN {}
    ELSE ObjectsFrom(w.task + 1) \cup
         IF w.phase = "delete" THEN w.remove
         ELSE Elements(w.apply) \cup
              {o \in Elements(ObjectsOf(tasks[w.task])) : ~IsDesired(o, w.instance.spec)}

\* What is not as it should be is going to be looked at again: the instance is in
\* the queue or has an event to come, or the call in progress is for the instance as
\* it is, and has the object before it, or the object has an event to come.
RepairInvariant ==
    ~terminating /\ ~queued /\ "instance" \notin behind =>
        /\ Running => params = instance
        /\ \A o \in Kept : o \in behind \cup Todo(worker) \/ UpToDate(o) \/ Orphaned(o)
        /\ Running \/ StatusRight

\* The invariant that every step preserves.
ReconcileInvariant == TypeOK /\ CachesKnow /\ SameIncarnation /\ RepairInvariant

\* Once the environment leaves it alone the reconciler comes to rest: the events
\* of its own writes, its retries and the patch of the status do not keep it
\* going.
ComesToRest == <>[]Settled

=============================================================================
