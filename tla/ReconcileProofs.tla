--------------------------- MODULE ReconcileProofs ---------------------------
(***************************************************************************)
(* Proofs about the controller of OpenTelemetryCollector instances, for    *)
(* all specs, any lag of the informers and any number of changes.          *)
(***************************************************************************)
EXTENDS Reconcile, SequenceTheorems, TLAPS

\* The prover of a leaf that names none.
USE ZenonT(60)

-----------------------------------------------------------------------------
(* Lists.                                                                  *)

\* The elements of two lists one after the other.
LEMMA ConcatElements ==
    ASSUME NEW S, NEW s \in Seq(S), NEW t \in Seq(S)
    PROVE  s \o t \in Seq(S) /\ Elements(s \o t) = Elements(s) \cup Elements(t)
<1> DEFINE u == s \o t
<1>1. /\ u \in Seq(S) /\ Len(u) = Len(s) + Len(t)
      /\ \A i \in 1..(Len(s) + Len(t)) :
             u[i] = IF i <= Len(s) THEN s[i] ELSE t[i - Len(s)]
  BY ConcatProperties
<1> HIDE DEF u
<1>2. /\ Len(s) \in Nat /\ Len(t) \in Nat
      /\ DOMAIN s = 1..Len(s) /\ DOMAIN t = 1..Len(t) /\ DOMAIN u = 1..(Len(s) + Len(t))
  BY <1>1, SMTT(30)
<1>3. ASSUME NEW i \in DOMAIN s PROVE s[i] \in Elements(u)
  BY <1>1, <1>2, SMTT(30) DEF Elements
<1>4. ASSUME NEW i \in DOMAIN t PROVE t[i] \in Elements(u)
  <2>1. i + Len(s) \in DOMAIN u /\ u[i + Len(s)] = t[i]
    BY <1>1, <1>2, SMTT(30)
  <2> QED
    BY <2>1 DEF Elements
<1>5. ASSUME NEW i \in DOMAIN u PROVE u[i] \in Elements(s) \cup Elements(t)
  <2>1. CASE i <= Len(s)
    BY <1>1, <1>2, <2>1, SMTT(30) DEF Elements
  <2>2. CASE i > Len(s)
    <3>1. i - Len(s) \in DOMAIN t /\ u[i] = t[i - Len(s)]
      BY <1>1, <1>2, <2>2, SMTT(30)
    <3> QED
      BY <3>1 DEF Elements
  <2> QED
    BY <1>2, <2>1, <2>2, SMTT(30)
<1>6. Elements(u) \subseteq Elements(s) \cup Elements(t)
  BY <1>5 DEF Elements
<1>7. Elements(s) \subseteq Elements(u) /\ Elements(t) \subseteq Elements(u)
  BY <1>3, <1>4 DEF Elements
<1> QED
  BY <1>1, <1>6, <1>7 DEF u

\* A list with one more element in front.
LEMMA InFront ==
    ASSUME NEW S, NEW s \in Seq(S), NEW x \in S
    PROVE  /\ Len(<<x>> \o s) = Len(s) + 1 /\ (<<x>> \o s)[1] = x
           /\ \A k \in 1..Len(s) : (<<x>> \o s)[k + 1] = s[k]
<1> DEFINE h == <<x>>
           u == h \o s
<1>1. h \in Seq(S) /\ Len(h) = 1 /\ h[1] = x
  BY SMTT(30)
<1> HIDE DEF h
<1>2. /\ Len(u) = Len(h) + Len(s)
      /\ \A i \in 1..(Len(h) + Len(s)) : u[i] = IF i <= Len(h) THEN h[i] ELSE s[i - Len(h)]
  BY <1>1, ConcatProperties
<1> HIDE DEF u
<1>3. Len(s) \in Nat
  BY SMTT(30)
<1>4. Len(u) = Len(s) + 1 /\ u[1] = x /\ \A k \in 1..Len(s) : u[k + 1] = s[k]
  BY <1>1, <1>2, <1>3, SMTT(30)
<1> QED
  BY <1>4 DEF u, h

\* The elements of a list are its head and those of its tail.
LEMMA HeadAndTail ==
    ASSUME NEW S, NEW s \in Seq(S), s # <<>>
    PROVE  /\ Head(s) \in Elements(s) /\ Tail(s) \in Seq(S)
           /\ Elements(s) = {Head(s)} \cup Elements(Tail(s))
<1>1. /\ Len(s) \in Nat \ {0} /\ DOMAIN s = 1..Len(s) /\ Head(s) = s[1]
      /\ Tail(s) \in Seq(S) /\ DOMAIN Tail(s) = 1..(Len(s) - 1)
      /\ \A i \in 1..(Len(s) - 1) : Tail(s)[i] = s[i + 1]
  BY SMTT(30)
<1>2. ASSUME NEW i \in DOMAIN s PROVE s[i] \in {Head(s)} \cup Elements(Tail(s))
  <2>1. CASE i = 1
    BY <1>1, <2>1
  <2>2. CASE i # 1
    <3>1. i - 1 \in DOMAIN Tail(s) /\ Tail(s)[i - 1] = s[i]
      BY <1>1, <2>2, SMTT(30)
    <3> QED
      BY <3>1 DEF Elements
  <2> QED
    BY <2>1, <2>2
<1>3. ASSUME NEW i \in DOMAIN Tail(s) PROVE Tail(s)[i] \in Elements(s)
  BY <1>1, SMTT(30) DEF Elements
<1>4. Head(s) \in Elements(s)
  BY <1>1, SMTT(30) DEF Elements
<1>5. Elements(s) \subseteq {Head(s)} \cup Elements(Tail(s))
  BY <1>2 DEF Elements
<1>6. Elements(Tail(s)) \subseteq Elements(s)
  BY <1>3 DEF Elements
<1> QED
  BY <1>1, <1>4, <1>5, <1>6

-----------------------------------------------------------------------------
(* Tasks and their objects.                                                *)

Names == {"config_map", "TA_config_map", "service_account", "TA_service_account",
          "service", "headless", "monitoring", "TA_service", "deployment",
          "TA_deployment", "daemon_set", "stateful_set", "autoscaler", "ingress", "route"}

\* No spec wants anything but the objects of the tasks.
LEMMA ObjectsAreNames == Objects \subseteq Names /\ "instance" \notin Objects
<1>1. ASSUME NEW s \in Specs PROVE Wanted[s] \subseteq Names
  BY <1>1 DEF Wanted, ConfigMaps, ServiceAccounts, Services, Deployments, DaemonSets,
     HorizontalPodAutoscalers, StatefulSets, Ingresses, Routes, When, Names
<1> QED
  BY <1>1, SMTT(30) DEF Objects, Names

\* Every object that is kept up has events which queue the instance.
LEMMA KeptIsWatched == Kept \subseteq Watched /\ Kept \subseteq Objects
BY ObjectsAreNames DEF Kept, Watched, Names

\* The tasks by their number.
LEMMA TaskNumbers ==
    /\ Len(Tasks) = 9 /\ Len(TasksWithRoutes) = 10
    /\ \A k \in 1..9 : TasksWithRoutes[k + 1] = Tasks[k]
    /\ TasksWithRoutes[1] = "routes"
    /\ \A k \in 1..8 : Tasks[k] \notin {"opentelemetry", "routes"}
    /\ Tasks[9] = "opentelemetry"
    /\ \A k \in 1..9 : Tasks[k] \in Elements(Tasks)
    /\ Elements(Tasks) = {"config_maps", "service_accounts", "services", "deployments",
                          "horizontal_pod_autoscalers", "daemon_sets", "stateful_sets",
                          "ingresses", "opentelemetry"}
<1> DEFINE N == {"config_maps", "service_accounts", "services", "deployments",
                 "horizontal_pod_autoscalers", "daemon_sets", "stateful_sets",
                 "ingresses", "opentelemetry", "routes"}
<1>1. Len(Tasks) = 9 /\ Tasks \in Seq(N)
  BY SMTT(30) DEF Tasks
<1>2. /\ Tasks[1] = "config_maps" /\ Tasks[2] = "service_accounts"
      /\ Tasks[3] = "services" /\ Tasks[4] = "deployments"
      /\ Tasks[5] = "horizontal_pod_autoscalers" /\ Tasks[6] = "daemon_sets"
      /\ Tasks[7] = "stateful_sets" /\ Tasks[8] = "ingresses"
      /\ Tasks[9] = "opentelemetry"
  BY DEF Tasks
<1>3. /\ Len(TasksWithRoutes) = 10 /\ TasksWithRoutes[1] = "routes"
      /\ \A k \in 1..9 : TasksWithRoutes[k + 1] = Tasks[k]
  <2>1. PICK r \in N, t \in Seq(N) : r = "routes" /\ t = Tasks
    BY <1>1
  <2> HIDE DEF N
  <2> DEFINE u == <<r>> \o t
  <2>2. Len(u) = Len(t) + 1 /\ u[1] = r /\ \A k \in 1..Len(t) : u[k + 1] = t[k]
    BY InFront, SMTT(30)
  <2>3. TasksWithRoutes = u
    BY <2>1 DEF TasksWithRoutes
  <2> HIDE DEF u
  <2>4. Len(t) = 9
    BY <1>1, <2>1
  <2>5. Len(u) = 10 /\ u[1] = r /\ \A k \in 1..9 : u[k + 1] = t[k]
    BY <2>2, <2>4, SMTT(30)
  <2> QED
    BY <2>1, <2>3, <2>5
<1>4. 1..9 = {1, 2, 3, 4, 5, 6, 7, 8, 9}
  BY SMTT(30)
<1>5. DOMAIN Tasks = 1..9
  BY <1>1, SMTT(30)
<1>6. Elements(Tasks) = {"config_maps", "service_accounts", "services", "deployments",
                          "horizontal_pod_autoscalers", "daemon_sets", "stateful_sets",
                          "ingresses", "opentelemetry"}
  BY <1>2, <1>4, <1>5, SMTT(30) DEF Elements
<1>7. \A k \in 1..9 : Tasks[k] \in Elements(Tasks)
  BY <1>5 DEF Elements
<1>8. \A k \in 1..8 : Tasks[k] \notin {"opentelemetry", "routes"}
  BY <1>2, <1>4, SMTT(30)
<1> QED
  BY <1>1, <1>2, <1>3, <1>6, <1>7, <1>8

TaskNames == Elements(Tasks) \cup {"routes"}

\* What is last is the status, and only the first task may be the routes.
LEMMA TasksInOrder ==
    ASSUME tasks \in {Tasks, TasksWithRoutes}
    PROVE  /\ Len(tasks) \in Nat /\ Len(tasks) > 1
           /\ \A k \in 1..Len(tasks) : /\ tasks[k] \in TaskNames
                                       /\ tasks[k] = "opentelemetry" <=> k = Len(tasks)
                                       /\ tasks[k] = "routes" => k = 1
<1>1. CASE tasks = Tasks
  BY <1>1, TaskNumbers, SMTT(30) DEF TaskNames
<1>2. CASE tasks = TasksWithRoutes
  <2>1. \A k \in 1..10 : k = 1 \/ (k - 1 \in 1..9 /\ tasks[k] = Tasks[k - 1])
    BY <1>2, TaskNumbers, SMTT(30)
  <2> QED
    BY <1>2, <2>1, TaskNumbers, SMTT(30) DEF TaskNames
<1> QED
  BY <1>1, <1>2

\* The objects of each task.
LEMMA ObjectsOfTasks ==
    /\ Elements(ObjectsOf("config_maps")) = {"config_map", "TA_config_map"}
    /\ Elements(ObjectsOf("service_accounts")) = {"service_account", "TA_service_account"}
    /\ Elements(ObjectsOf("services")) = {"service", "headless", "monitoring", "TA_service"}
    /\ Elements(ObjectsOf("deployments")) = {"deployment", "TA_deployment"}
    /\ Elements(ObjectsOf("horizontal_pod_autoscalers")) = {"autoscaler"}
    /\ Elements(ObjectsOf("daemon_sets")) = {"daemon_set"}
    /\ Elements(ObjectsOf("stateful_sets")) = {"stateful_set"}
    /\ Elements(ObjectsOf("ingresses")) = {"ingress"}
    /\ Elements(ObjectsOf("routes")) = {"route"}
    /\ Elements(ObjectsOf("opentelemetry")) = {}
BY SMTT(30) DEF ObjectsOf, Elements

\* A task has a list of at most four objects.
LEMMA ObjectsInOrder ==
    ASSUME NEW task \in TaskNames
    PROVE  /\ ObjectsOf(task) \in Seq(Names)
           /\ Len(ObjectsOf(task)) \in 0..4
<1>1. TaskNames = {"config_maps", "service_accounts", "services", "deployments",
                   "horizontal_pod_autoscalers", "daemon_sets", "stateful_sets",
                   "ingresses", "opentelemetry", "routes"}
  BY TaskNumbers DEF TaskNames
<1>2. Len(ObjectsOf(task)) \in 0..4
  BY <1>1, SMTT(30) DEF ObjectsOf
<1> DEFINE Lists ==
        {<<"config_map", "TA_config_map">>, <<"service_account", "TA_service_account">>,
         <<"service", "headless", "monitoring", "TA_service">>,
         <<"deployment", "TA_deployment">>, <<"autoscaler">>, <<"daemon_set">>,
         <<"stateful_set">>, <<"ingress">>, <<"route">>, <<>>}
<1>3. ObjectsOf(task) \in Lists
  BY <1>1 DEF ObjectsOf
<1>4. /\ <<"config_map", "TA_config_map">> \in Seq(Names)
      /\ <<"service_account", "TA_service_account">> \in Seq(Names)
      /\ <<"service", "headless", "monitoring", "TA_service">> \in Seq(Names)
      /\ <<"deployment", "TA_deployment">> \in Seq(Names)
      /\ <<"autoscaler">> \in Seq(Names) /\ <<"daemon_set">> \in Seq(Names)
      /\ <<"stateful_set">> \in Seq(Names) /\ <<"ingress">> \in Seq(Names)
      /\ <<"route">> \in Seq(Names) /\ <<>> \in Seq(Names)
  BY SMTT(30) DEF Names
<1> QED
  BY <1>2, <1>3, <1>4

\* Every object is one of a task, and all that are kept up of one that is not skipped.
LEMMA EveryObjectHasATask ==
    ASSUME tasks \in {Tasks, TasksWithRoutes}
    PROVE  /\ Kept \subseteq ObjectsFrom(1)
           /\ Elements(ObjectsOf("routes")) \cap Kept = {}
<1>1. ASSUME NEW k \in 1..9 PROVE \E j \in 1..Len(tasks) : tasks[j] = Tasks[k]
  <2>1. CASE tasks = Tasks
    BY <2>1, TaskNumbers
  <2>2. CASE tasks = TasksWithRoutes
    <3>1. k + 1 \in 1..Len(tasks) /\ tasks[k + 1] = Tasks[k]
      BY <2>2, TaskNumbers, SMTT(30)
    <3> QED
      BY <3>1
  <2> QED
    BY <2>1, <2>2
<1>2. \A o \in Kept : \E t \in Elements(Tasks) : o \in Elements(ObjectsOf(t))
  BY ObjectsAreNames, ObjectsOfTasks, TaskNumbers DEF Kept, Names
<1>3. \A t \in Elements(Tasks) : \E k \in 1..9 : Tasks[k] = t
  BY SMTT(30) DEF Elements, Tasks
<1>4. Kept \subseteq ObjectsFrom(1)
  BY <1>1, <1>2, <1>3 DEF ObjectsFrom
<1> QED
  BY <1>4, ObjectsOfTasks DEF Kept

\* The list of a task has the objects of the task that the spec wants.
LEMMA DesiredObjects ==
    ASSUME NEW task \in TaskNames, NEW s \in Specs
    PROVE  /\ Desired(task, s) \in Seq(Objects)
           /\ Elements(Desired(task, s)) = Elements(ObjectsOf(task)) \cap Wanted[s]
<1> DEFINE all == ObjectsOf(task)
           Wants(k) == IF k \in DOMAIN all /\ IsDesired(all[k], s) THEN <<all[k]>> ELSE <<>>
<1>1. DOMAIN all \subseteq 1..4
  BY ObjectsInOrder, SMTT(30)
<1>2. Desired(task, s) = Wants(1) \o Wants(2) \o Wants(3) \o Wants(4)
  BY DEF Desired
<1>3. ASSUME NEW k
      PROVE  /\ Wants(k) \in Seq(Objects)
             /\ Elements(Wants(k)) = IF k \in DOMAIN all /\ all[k] \in Wanted[s]
                                      THEN {all[k]} ELSE {}
  <2>1. CASE k \in DOMAIN all /\ all[k] \in Wanted[s]
    <3>1. Wants(k) = <<all[k]>> /\ all[k] \in Objects
      BY <2>1 DEF IsDesired, Objects
    <3> HIDE DEF Wants, all
    <3>2. Elements(<<all[k]>>) = {all[k]} /\ <<all[k]>> \in Seq(Objects)
      BY <3>1, SMTT(30) DEF Elements
    <3> QED
      BY <2>1, <3>1, <3>2
  <2>2. CASE ~(k \in DOMAIN all /\ all[k] \in Wanted[s])
    <3>1. Wants(k) = <<>>
      BY <2>2 DEF IsDesired
    <3> HIDE DEF Wants, all
    <3>2. Elements(<<>>) = {} /\ <<>> \in Seq(Objects)
      BY SMTT(30) DEF Elements
    <3> QED
      BY <2>2, <3>1, <3>2
  <2> QED
    BY <2>1, <2>2
<1> HIDE DEF Wants, all
<1> DEFINE two == Wants(1) \o Wants(2)
           three == two \o Wants(3)
<1>4. two \in Seq(Objects) /\ Elements(two) = Elements(Wants(1)) \cup Elements(Wants(2))
  BY <1>3, ConcatElements, SMTT(30)
<1> HIDE DEF two
<1>5. three \in Seq(Objects) /\ Elements(three) = Elements(two) \cup Elements(Wants(3))
  BY <1>3, <1>4, ConcatElements, SMTT(30)
<1> HIDE DEF three
<1>6. /\ Desired(task, s) \in Seq(Objects)
      /\ Elements(Desired(task, s)) = Elements(Wants(1)) \cup Elements(Wants(2))
             \cup Elements(Wants(3)) \cup Elements(Wants(4))
  <2>1. Desired(task, s) = three \o Wants(4)
    BY <1>2 DEF two, three
  <2>2. /\ three \o Wants(4) \in Seq(Objects)
        /\ Elements(three \o Wants(4)) = Elements(three) \cup Elements(Wants(4))
    BY <1>3, <1>5, ConcatElements, SMTT(30)
  <2> QED
    BY <1>4, <1>5, <2>1, <2>2
<1>7. Elements(all) \cap Wanted[s] = Elements(Wants(1)) \cup Elements(Wants(2))
             \cup Elements(Wants(3)) \cup Elements(Wants(4))
  <2> DEFINE In(k) == k \in DOMAIN all /\ all[k] \in Wanted[s]
  <2>1. \A k \in DOMAIN all : k = 1 \/ k = 2 \/ k = 3 \/ k = 4
    BY <1>1, SMTT(30)
  <2>2. ASSUME NEW x
        PROVE  x \in Elements(all) \cap Wanted[s] <=>
                 \/ In(1) /\ x = all[1]
                 \/ In(2) /\ x = all[2]
                 \/ In(3) /\ x = all[3]
                 \/ In(4) /\ x = all[4]
    BY <2>1 DEF Elements
  <2>3. ASSUME NEW k, NEW x PROVE x \in Elements(Wants(k)) <=> In(k) /\ x = all[k]
    BY <1>3, SMTT(30)
  <2> HIDE DEF In
  <2> QED
    BY <2>2, <2>3, SMTT(30)
<1> QED
  BY <1>6, <1>7 DEF all

\* A call that goes on to its k-th task has the tasks from there before it.
LEMMA EnterFacts ==
    ASSUME tasks \in {Tasks, TasksWithRoutes}, NEW i \in InstanceStates,
           NEW k \in 1..(Len(tasks) + 1)
    PROVE  /\ CallOK(Enter(k, i))
           /\ Kept \cap ObjectsFrom(k) \subseteq Todo(Enter(k, i))
           /\ k <= Len(tasks) => Enter(k, i).phase # "idle"
           /\ Enter(k, i).phase # "idle" => Enter(k, i).instance = i
<1>0. i # None /\ i.spec \in Specs
  BY NoneAssumption DEF InstanceStates
<1>1. CASE k > Len(tasks)
  <2>1. Enter(k, i) = Idle
    BY <1>1 DEF Enter
  <2>2. ObjectsFrom(k) = {}
    BY <1>1, TasksInOrder, SMTT(30) DEF ObjectsFrom
  <2>3. CallOK(Idle)
    BY TasksInOrder, SMTT(30) DEF CallOK, Idle
  <2> QED
    BY <1>1, <2>1, <2>2, <2>3, TasksInOrder, SMTT(30) DEF Idle
<1>2. CASE k <= Len(tasks)
  <2> DEFINE j == IF Skipped(tasks[k], i) THEN k + 1 ELSE k
             w == Enter(k, i)
  <2>1. k \in 1..Len(tasks) /\ tasks[k] \in TaskNames
    BY <1>2, TasksInOrder, SMTT(30)
  <2>2. j \in 1..Len(tasks) /\ j >= k /\ tasks[j] \in TaskNames
    BY <2>1, TasksInOrder, SMTT(30) DEF Skipped
  <2>3. w = [instance |-> i, task |-> j,
             phase  |-> IF tasks[j] = "opentelemetry" THEN "self" ELSE "expected",
             apply  |-> Desired(tasks[j], i.spec), remove |-> {},
             retry  |-> tasks[j] = "config_maps"]
    BY <1>2, <2>1, TasksInOrder, SMTT(30) DEF Enter
  <2>4. j # k => Elements(ObjectsOf(tasks[k])) \cap Kept = {}
    BY EveryObjectHasATask DEF Skipped
  <2> HIDE DEF j, w
  <2>5. /\ w.apply \in Seq(Objects)
        /\ Elements(w.apply) = Elements(ObjectsOf(tasks[j])) \cap Wanted[i.spec]
    BY <1>0, <2>2, <2>3, DesiredObjects
  <2>6. CallOK(w)
    BY <1>0, <2>2, <2>3, <2>5, TasksInOrder, SMTT(30) DEF CallOK
  <2>7. ASSUME NEW o \in Kept \cap ObjectsFrom(k) PROVE o \in Todo(w)
    <3>1. PICK n \in k..Len(tasks) : o \in Elements(ObjectsOf(tasks[n]))
      BY <2>7 DEF ObjectsFrom
    <3>2. n >= j
      BY <2>1, <2>4, <3>1, TasksInOrder, SMTT(30) DEF j
    <3>3. CASE n = j
      BY <2>3, <2>5, <3>1, <3>3 DEF Todo, IsDesired
    <3>4. CASE n > j
      <4>1. n \in (j + 1)..Len(tasks)
        BY <2>1, <2>2, <3>1, <3>4, SMTT(30)
      <4>2. o \in ObjectsFrom(w.task + 1)
        BY <2>3, <3>1, <4>1 DEF ObjectsFrom
      <4> QED
        BY <2>3, <4>2 DEF Todo
    <3> QED
      BY <2>2, <3>1, <3>2, <3>3, <3>4, SMTT(30)
  <2>8. w.phase # "idle" /\ w.instance = i
    BY <2>3
  <2> QED
    BY <2>6, <2>7, <2>8 DEF w
<1> QED
  BY <1>1, <1>2, TasksInOrder, SMTT(30)

-----------------------------------------------------------------------------
(* Objects.                                                                *)

\* What is built for an instance is an object.
LEMMA BuiltIsObject ==
    ASSUME NEW o \in Objects, NEW i \in InstanceStates
    PROVE  Built(o, i) \in ObjectStates(o)
<1>1. i.uid \in 0..MaxChanges /\ i.spec \in Specs
  BY DEF InstanceStates
<1>2. /\ Built(o, i).config = Built(o, [uid |-> 0, spec |-> i.spec]).config
      /\ Built(o, i).labels = Built(o, [uid |-> 0, spec |-> i.spec]).labels
      /\ Built(o, i).fixed = Built(o, [uid |-> 0, spec |-> i.spec]).fixed
  BY DEF Built
<1>3. /\ Built(o, i) = [owner |-> Built(o, i).owner, config |-> Built(o, i).config,
                        labels |-> Built(o, i).labels, fixed |-> Built(o, i).fixed]
      /\ Built(o, i).owner = i.uid
  BY DEF Built
<1> HIDE DEF Built
<1> QED
  BY <1>1, <1>2, <1>3 DEF ObjectStates

\* A patch makes an object of one.
LEMMA MergeIsObject ==
    ASSUME NEW o \in Objects, NEW a \in ObjectStates(o), NEW e \in ObjectStates(o),
           NEW d \in ObjectStates(o)
    PROVE  /\ Merge(a, e, d) \in ObjectStates(o)
           /\ Merge(a, e, d).fixed = a.fixed
           /\ d.labels = e.labels => Merge(a, e, d).labels = a.labels
           /\ a = e => \A f \in Patched : Merge(a, e, d)[f] = d[f]
<1> HIDE DEF Built
<1>1. DOMAIN a = {"owner", "config", "labels", "fixed"}
  BY DEF ObjectStates
<1>2. Merge(a, e, d) =
        [owner |-> Merge(a, e, d).owner, config |-> Merge(a, e, d).config,
         labels |-> Merge(a, e, d).labels, fixed |-> Merge(a, e, d).fixed]
  BY <1>1, SMTT(30) DEF Merge
<1>3. /\ Merge(a, e, d).owner \in {a.owner, d.owner}
      /\ Merge(a, e, d).config \in {a.config, d.config}
      /\ Merge(a, e, d).labels \in {a.labels, d.labels}
      /\ Merge(a, e, d).fixed = a.fixed
  BY <1>1 DEF Merge, Patched
<1>4. Merge(a, e, d) \in ObjectStates(o)
  BY <1>2, <1>3 DEF ObjectStates
<1>5. /\ d.labels = e.labels => Merge(a, e, d).labels = a.labels
      /\ a = e => \A f \in Patched : Merge(a, e, d)[f] = d[f]
  BY <1>1 DEF Merge, Patched
<1> QED
  BY <1>3, <1>4, <1>5

-----------------------------------------------------------------------------
(* Steps.                                                                  *)

\* What makes an object need no other look does not change with the rest.
LEMMA Unaffected ==
    ASSUME NEW p \in Objects, objects'[p] = objects[p], instance' = instance
    PROVE  (UpToDate(p)' <=> UpToDate(p)) /\ (Orphaned(p)' <=> Orphaned(p))
BY DEF UpToDate, Orphaned

\* Whoever has no instance to be repaired for is an orphan or gone.
LEMMA NoInstance ==
    ASSUME instance = None, NEW p \in Objects
    PROVE  UpToDate(p) \/ Orphaned(p)
BY DEF UpToDate, Orphaned

\* A call keeps its meaning as long as the tasks stay.
LEMMA SameTasks ==
    ASSUME tasks' = tasks
    PROVE  Todo(worker)' = Todo(worker') /\ (CallOK(worker)' <=> CallOK(worker'))
BY DEF Todo, ObjectsFrom, CallOK

\* A write keeps the caches' knowledge if it creates an object only where the cache
\* has none, and changes no field that is not to be patched.
LEMMA WriteInvariant ==
    ASSUME TypeOK, CachesKnow, SameIncarnation, UNCHANGED instance,
           NEW o \in Objects, NEW v \in ObjectStates(o) \cup {None}, Write(o, v),
           v # None => \/ cache[o] = None
                       \/ /\ objects[o] # None /\ v.fixed = objects[o].fixed
                          /\ o = "TA_deployment" => v.labels = objects[o].labels
    PROVE  /\ DOMAIN objects' = Objects /\ DOMAIN cache' = Objects
           /\ \A p \in Objects : {objects'[p], cache'[p]} \subseteq ObjectStates(p) \cup {None}
           /\ {instance', instanceCache'} \subseteq InstanceStates \cup {None}
           /\ behind' \subseteq Objects \cup {"instance"}
           /\ objects'[o] = v /\ \A p \in Objects \ {o} : objects'[p] = objects[p]
           /\ behind \subseteq behind' /\ behind' \subseteq behind \cup {o}
           /\ v # objects[o] => o \in behind'
           /\ CachesKnow' /\ SameIncarnation'
<1>1. /\ objects' = [objects EXCEPT ![o] = v] /\ cache' = cache
      /\ behind' = IF v = objects[o] THEN behind ELSE behind \cup {o}
      /\ instanceCache' = instanceCache
  BY DEF Write
<1>2. DOMAIN objects = Objects /\ objects'[o] = v
      /\ \A p \in Objects \ {o} : objects'[p] = objects[p]
  BY <1>1 DEF TypeOK
<1>3. CachesKnow'
  BY <1>1, <1>2, ObjectsAreNames DEF CachesKnow
<1>4. SameIncarnation'
  BY <1>1, <1>2, SMTT(30) DEF SameIncarnation
<1> QED
  BY <1>1, <1>2, <1>3, <1>4, SMTT(30) DEF TypeOK

\* What a step must see to for everything to be looked at again.
LEMMA Repair ==
    ASSUME RepairInvariant, UNCHANGED <<instance, terminating, queued>>,
           "instance" \in behind => "instance" \in behind',
           Running' <=> Running, Running => params' = params,
           ~terminating /\ ~queued /\ "instance" \notin behind =>
               \A p \in Kept :
                  \/ p \in behind' \cup Todo(worker)'
                  \/ UpToDate(p)' \/ Orphaned(p)'
                  \/ /\ objects'[p] = objects[p]
                     /\ p \in behind => p \in behind'
                     /\ p \in Todo(worker) => p \in Todo(worker)'
    PROVE  RepairInvariant'
<1> SUFFICES ASSUME ~terminating, ~queued, "instance" \notin behind
             PROVE  /\ Running' => params' = instance
                    /\ \A p \in Kept : \/ p \in behind' \cup Todo(worker)'
                                      \/ UpToDate(p)' \/ Orphaned(p)'
                    /\ Running' \/ StatusRight'
  BY DEF RepairInvariant
<1>1. Running' => params' = instance
  BY DEF RepairInvariant
<1>2. Running' \/ StatusRight'
  BY DEF RepairInvariant, StatusRight
<1>3. ASSUME NEW p \in Kept
      PROVE  p \in behind' \cup Todo(worker)' \/ UpToDate(p)' \/ Orphaned(p)'
  <2>1. p \in behind \cup Todo(worker) \/ UpToDate(p) \/ Orphaned(p)
    BY DEF RepairInvariant
  <2>2. objects'[p] = objects[p] => (UpToDate(p)' <=> UpToDate(p)) /\ (Orphaned(p)' <=> Orphaned(p))
    BY Unaffected, KeptIsWatched
  <2> QED
    BY <2>1, <2>2
<1> QED
  BY <1>1, <1>2, <1>3

\* The loop of an expected function goes on with the objects that are left.
LEMMA AppliedFacts ==
    ASSUME TypeOK, worker.phase = "expected", worker.apply # <<>>, Applied, tasks' = tasks
    PROVE  /\ CallOK(worker)' /\ Running' /\ params' = params
           /\ Todo(worker) \ {Head(worker.apply)} \subseteq Todo(worker)'
<1>1. CallOK(worker)
  BY DEF TypeOK
<1>2. worker.apply \in Seq(Objects)
  BY <1>1 DEF CallOK
<1>3. /\ Tail(worker.apply) \in Seq(Objects)
      /\ Elements(worker.apply) = {Head(worker.apply)} \cup Elements(Tail(worker.apply))
  BY <1>2, HeadAndTail
<1>4. /\ worker'.apply = Tail(worker.apply) /\ worker'.phase = "expected"
      /\ worker'.instance = worker.instance /\ worker'.task = worker.task
      /\ worker'.remove = worker.remove /\ worker'.retry = worker.retry
      /\ worker' = [worker EXCEPT !.apply = Tail(worker.apply)]
  BY <1>1 DEF Applied, CallOK
<1>5. CallOK(worker')
  BY <1>1, <1>3, <1>4 DEF CallOK
<1>6. Todo(worker) \ {Head(worker.apply)} \subseteq Todo(worker')
  BY <1>3, <1>4 DEF Todo
<1> QED
  BY <1>4, <1>5, <1>6, SameTasks DEF Running, params

\* A task that has objects left to delete deletes them, and the next one comes after.
LEMMA DeletingFacts ==
    ASSUME TypeOK, worker.phase \in {"expected", "delete"}, tasks' = tasks,
           NEW left \in SUBSET (Objects \cap Elements(ObjectsOf(tasks[worker.task]))),
           left \cap Wanted[params.spec] = {}, Deleting(left)
    PROVE  /\ CallOK(worker)' /\ Running' /\ params' = params
           /\ Kept \cap (ObjectsFrom(worker.task + 1) \cup left) \subseteq Todo(worker)'
<1>1. CallOK(worker) /\ tasks \in {Tasks, TasksWithRoutes}
  BY DEF TypeOK
<1>2. /\ params \in InstanceStates /\ worker.task \in 1..Len(tasks)
      /\ worker.task # Len(tasks) /\ Len(tasks) \in Nat
  BY <1>1, TasksInOrder, SMTT(30) DEF CallOK, params
<1>3. CASE left = {}
  <2>1. worker' = Enter(worker.task + 1, params)
    BY <1>3 DEF Deleting
  <2>2. worker.task + 1 \in 1..(Len(tasks) + 1) /\ worker.task + 1 <= Len(tasks)
    BY <1>2, SMTT(30)
  <2>3. /\ CallOK(worker') /\ worker'.phase # "idle" /\ worker'.instance = params
        /\ Kept \cap ObjectsFrom(worker.task + 1) \subseteq Todo(worker')
    BY <1>1, <1>2, <2>1, <2>2, EnterFacts
  <2> QED
    BY <1>3, <2>3, SameTasks DEF Running, params
<1>4. CASE left # {}
  <2>1. /\ worker' = [worker EXCEPT !.phase = "delete", !.remove = left]
        /\ worker'.phase = "delete" /\ worker'.remove = left
        /\ worker'.apply = worker.apply
        /\ worker'.instance = worker.instance /\ worker'.task = worker.task
    BY <1>1, <1>4 DEF Deleting, CallOK
  <2>2. CallOK(worker')
    BY <1>1, <1>2, <2>1 DEF CallOK, params
  <2>3. ObjectsFrom(worker.task + 1) \cup left \subseteq Todo(worker')
    BY <2>1 DEF Todo
  <2> QED
    BY <2>1, <2>2, <2>3, SameTasks DEF Running, params
<1> QED
  BY <1>3, <1>4

-----------------------------------------------------------------------------
(* The reconciler.                                                         *)

\* A call that ends with an error keeps the invariant: the instance is queued.
LEMMA FailInvariant ==
    ASSUME ReconcileInvariant, Fail, UNCHANGED <<server, caches, tasks, terminating>>,
           changes' \in 0..MaxChanges
    PROVE  ReconcileInvariant'
<1>1. CallOK(Idle)
  BY TasksInOrder, SMTT(30) DEF ReconcileInvariant, TypeOK, CallOK, Idle
<1>2. TypeOK'
  BY <1>1, SameTasks DEF ReconcileInvariant, TypeOK, Fail, server, caches
<1>3. CachesKnow' /\ SameIncarnation'
  BY DEF ReconcileInvariant, CachesKnow, SameIncarnation, server, caches
<1>4. RepairInvariant'
  BY DEF RepairInvariant, Fail
<1> QED
  BY <1>2, <1>3, <1>4 DEF ReconcileInvariant

\* A call begins with all tasks before it.
LEMMA ReconcileStep == ReconcileInvariant /\ Reconcile => ReconcileInvariant'
<1> SUFFICES ASSUME ReconcileInvariant, Reconcile PROVE ReconcileInvariant'
  OBVIOUS
<1>1. /\ UNCHANGED <<instance, objects, instanceCache, cache, behind, tasks, terminating, changes>>
      /\ queued' = FALSE
      /\ worker' = IF instanceCache = None THEN Idle ELSE Enter(1, instanceCache)
  BY DEF Reconcile, server, caches
<1>2. TypeOK /\ CachesKnow /\ SameIncarnation /\ tasks \in {Tasks, TasksWithRoutes}
  BY DEF ReconcileInvariant, TypeOK
<1>3. CASE instanceCache = None
  <2>1. worker' = Idle
    BY <1>1, <1>3
  <2>2. CallOK(Idle)
    BY <1>2, TasksInOrder, SMTT(30) DEF CallOK, Idle
  <2>3. RepairInvariant'
    <3> SUFFICES ASSUME "instance" \notin behind PROVE RepairInvariant'
      BY <1>1 DEF RepairInvariant
    <3>1. instance' = None /\ ~Running'
      BY <1>1, <1>2, <1>3, <2>1, SMTT(30) DEF CachesKnow, Running, Idle
    <3>2. \A p \in Kept : UpToDate(p)' \/ Orphaned(p)'
      BY <3>1, KeptIsWatched DEF UpToDate, Orphaned
    <3> QED
      BY <3>1, <3>2 DEF RepairInvariant, StatusRight
  <2>4. TypeOK'
    BY <1>1, <1>2, <2>1, <2>2, SameTasks DEF TypeOK
  <2> QED
    BY <1>1, <1>2, <2>3, <2>4 DEF ReconcileInvariant, CachesKnow, SameIncarnation
<1>4. CASE instanceCache # None
  <2>1. worker' = Enter(1, instanceCache) /\ instanceCache \in InstanceStates
    BY <1>1, <1>2, <1>4 DEF TypeOK
  <2>2. /\ CallOK(worker') /\ worker'.phase # "idle" /\ worker'.instance = instanceCache
        /\ Kept \subseteq Todo(worker')
    <3>1. 1 \in 1..(Len(tasks) + 1) /\ 1 <= Len(tasks)
      BY <1>2, TasksInOrder, SMTT(30)
    <3> QED
      BY <1>2, <2>1, <3>1, EnterFacts, EveryObjectHasATask
  <2>3. TypeOK'
    BY <1>1, <1>2, <2>2, SameTasks DEF TypeOK
  <2>4. "instance" \notin behind' => params' = instance'
    BY <1>1, <1>2, <2>2 DEF params, CachesKnow
  <2>5. Running' /\ Kept \subseteq Todo(worker)'
    BY <1>1, <2>2, SameTasks DEF Running
  <2>6. RepairInvariant'
    BY <2>4, <2>5 DEF RepairInvariant
  <2> QED
    BY <1>1, <1>2, <2>3, <2>6 DEF ReconcileInvariant, CachesKnow, SameIncarnation
<1> QED
  BY <1>3, <1>4

\* The object at the head of the list is one that the instance wants.
LEMMA HeadIsWanted ==
    ASSUME TypeOK, worker.phase = "expected", worker.apply # <<>>
    PROVE  /\ Head(worker.apply) \in Objects
           /\ Head(worker.apply) \in Wanted[params.spec]
           /\ params \in InstanceStates /\ params.spec \in Specs
           /\ Built(Head(worker.apply), params) \in ObjectStates(Head(worker.apply))
           /\ Built(Head(worker.apply), params) # None
<1>1. /\ worker.apply \in Seq(Objects)
      /\ Elements(worker.apply) \subseteq Wanted[params.spec]
      /\ params \in InstanceStates
  BY DEF TypeOK, CallOK, params
<1>2. /\ Head(worker.apply) \in Elements(worker.apply)
      /\ Head(worker.apply) \in Objects
  BY <1>1, HeadAndTail, SMTT(30)
<1>3. params.spec \in Specs
  BY <1>1 DEF InstanceStates
<1> QED
  BY <1>1, <1>2, <1>3, BuiltIsObject, NoneAssumption

\* An object that is written in its turn keeps the invariant, if it is as wanted or
\* its informer has an event to come.
LEMMA ApplyInvariant ==
    ASSUME ReconcileInvariant, worker.phase = "expected", worker.apply # <<>>,
           Applied, UNCHANGED <<instance, queued, tasks, terminating, changes>>,
           NEW o \in Objects, o = Head(worker.apply),
           NEW v \in ObjectStates(o) \cup {None}, Write(o, v),
           v # None => \/ cache[o] = None
                       \/ /\ objects[o] # None /\ v.fixed = objects[o].fixed
                          /\ o = "TA_deployment" => v.labels = objects[o].labels,
           o \in behind' \/ (params = instance => UpToDate(o)')
    PROVE  ReconcileInvariant'
<1>1. TypeOK /\ CachesKnow /\ SameIncarnation /\ RepairInvariant
  BY DEF ReconcileInvariant
<1>2. /\ CallOK(worker)' /\ Running' /\ params' = params
      /\ Todo(worker) \ {o} \subseteq Todo(worker)'
  BY <1>1, AppliedFacts
<1>3. /\ DOMAIN objects' = Objects /\ DOMAIN cache' = Objects
      /\ \A p \in Objects : {objects'[p], cache'[p]} \subseteq ObjectStates(p) \cup {None}
      /\ {instance', instanceCache'} \subseteq InstanceStates \cup {None}
      /\ behind' \subseteq Objects \cup {"instance"}
      /\ \A p \in Objects \ {o} : objects'[p] = objects[p]
      /\ behind \subseteq behind'
      /\ CachesKnow' /\ SameIncarnation'
  BY <1>1, WriteInvariant
<1>4. TypeOK'
  BY <1>1, <1>2, <1>3 DEF TypeOK
<1>5. Running
  BY DEF Running
<1>6. ~terminating /\ ~queued /\ "instance" \notin behind => o \in behind' \/ UpToDate(o)'
  BY <1>1, <1>5 DEF RepairInvariant
<1>7. RepairInvariant'
  <2>1. ~terminating /\ ~queued /\ "instance" \notin behind =>
          \A p \in Kept :
             \/ p \in behind' \cup Todo(worker)'
             \/ UpToDate(p)' \/ Orphaned(p)'
             \/ /\ objects'[p] = objects[p]
                /\ p \in behind => p \in behind'
                /\ p \in Todo(worker) => p \in Todo(worker)'
    BY <1>2, <1>3, <1>6, KeptIsWatched
  <2> QED
    BY <1>1, <1>2, <1>3, <1>5, <2>1, Repair
<1> QED
  BY <1>3, <1>4, <1>7 DEF ReconcileInvariant

\* An object the cache does not have is created, unless it exists.
LEMMA CreateStep ==
    ASSUME ReconcileInvariant, worker.phase = "expected", worker.apply # <<>>,
           Create(Head(worker.apply)), UNCHANGED <<instance, tasks, terminating, changes>>
    PROVE  ReconcileInvariant'
<1>1. TypeOK /\ CachesKnow /\ SameIncarnation /\ RepairInvariant
  BY DEF ReconcileInvariant
<1>0. PICK o \in Objects : o = Head(worker.apply)
  BY <1>1, HeadIsWanted
<1>2. /\ params \in InstanceStates /\ params.spec \in Specs
      /\ Built(o, params) \in ObjectStates(o) /\ Built(o, params) # None
  BY <1>0, <1>1, HeadIsWanted
<1>3. CASE terminating /\ worker' = Idle /\ UNCHANGED <<objects, caches, queued>>
  <2>1. CallOK(Idle)
    BY <1>1, TasksInOrder, SMTT(30) DEF TypeOK, CallOK, Idle
  <2>2. TypeOK'
    BY <1>1, <1>3, <2>1, SameTasks DEF TypeOK, caches
  <2>3. CachesKnow' /\ SameIncarnation' /\ RepairInvariant'
    BY <1>1, <1>3 DEF CachesKnow, SameIncarnation, RepairInvariant, caches
  <2> QED
    BY <2>2, <2>3 DEF ReconcileInvariant
<1>4. CASE /\ objects[o] = None /\ cache[o] = None
           /\ Write(o, Built(o, params)) /\ Applied /\ UNCHANGED queued
  <2>1. o \in behind'
    BY <1>2, <1>4 DEF Write
  <2> QED
    BY <1>0, <1>2, <1>4, <2>1, ApplyInvariant
<1>5. CASE /\ objects[o] # None /\ cache[o] = None
           /\ worker' = [worker EXCEPT !.retry = FALSE,
                                       !.apply = Desired(tasks[worker.task], params.spec)]
           /\ UNCHANGED <<objects, caches, queued>>
  <2> DEFINE d == Desired(tasks[worker.task], params.spec)
  <2>1. CallOK(worker) /\ worker.task \in 1..Len(tasks) /\ tasks[worker.task] \in TaskNames
    BY <1>1, TasksInOrder, SMTT(30) DEF TypeOK, CallOK
  <2>2. /\ d \in Seq(Objects)
        /\ Elements(d) = Elements(ObjectsOf(tasks[worker.task])) \cap Wanted[params.spec]
    BY <1>2, <2>1, DesiredObjects
  <2> HIDE DEF d
  <2>3. /\ worker' = [worker EXCEPT !.retry = FALSE, !.apply = d]
        /\ worker'.apply = d /\ worker'.phase = "expected"
        /\ worker'.instance = worker.instance /\ worker'.task = worker.task
        /\ worker'.remove = worker.remove
    BY <1>5, <2>1 DEF CallOK, d
  <2>4. CallOK(worker')
    BY <2>1, <2>2, <2>3 DEF CallOK, params
  <2>5. Todo(worker) \subseteq Todo(worker')
    BY <2>1, <2>2, <2>3 DEF Todo, CallOK, params, IsDesired
  <2>6. TypeOK'
    BY <1>1, <1>5, <2>4, SameTasks DEF TypeOK, caches
  <2>7. /\ CachesKnow' /\ SameIncarnation' /\ objects' = objects /\ behind' = behind
    BY <1>1, <1>5 DEF CachesKnow, SameIncarnation, caches
  <2>8. /\ Running /\ Running' /\ params' = params
        /\ Todo(worker) \subseteq Todo(worker)'
    BY <2>3, <2>5, SameTasks DEF Running, params
  <2>9. RepairInvariant'
    BY <1>1, <1>5, <2>7, <2>8, Repair
  <2> QED
    BY <2>6, <2>7, <2>9 DEF ReconcileInvariant
<1>6. CASE Fail /\ UNCHANGED <<objects, caches>>
  <2>1. changes' \in 0..MaxChanges
    BY <1>1 DEF TypeOK
  <2> QED
    BY <1>6, <2>1, FailInvariant DEF server
<1> QED
  BY <1>0, <1>3, <1>4, <1>5, <1>6 DEF Create

\* An object with a field that cannot be patched is deleted; its deletion is an event.
LEMMA ReplaceStep ==
    ASSUME ReconcileInvariant, worker.phase = "expected", worker.apply # <<>>,
           Replace(Head(worker.apply)), UNCHANGED <<instance, tasks, terminating, changes>>
    PROVE  ReconcileInvariant'
<1>0. PICK o \in Objects : o = Head(worker.apply)
  BY HeadIsWanted DEF ReconcileInvariant
<1>1. CASE objects[o] # None /\ Write(o, None) /\ Applied /\ UNCHANGED queued
  <2>1. o \in behind'
    BY <1>1 DEF Write
  <2> QED
    BY <1>0, <1>1, <2>1, ApplyInvariant
<1>2. CASE Fail /\ UNCHANGED <<objects, caches>>
  <2>1. changes' \in 0..MaxChanges
    BY DEF ReconcileInvariant, TypeOK
  <2> QED
    BY <1>2, <2>1, FailInvariant DEF server
<1> QED
  BY <1>0, <1>1, <1>2 DEF Replace

\* An object is patched: what was read of it is what there is, or there is an event to
\* come, and the field that no patch can change is what it was when it was read.
LEMMA PatchStep ==
    ASSUME ReconcileInvariant, worker.phase = "expected", worker.apply # <<>>,
           Patch(Head(worker.apply)), UNCHANGED <<instance, tasks, terminating, changes>>
    PROVE  ReconcileInvariant'
<1>1. TypeOK /\ CachesKnow /\ SameIncarnation
  BY DEF ReconcileInvariant
<1>0. PICK o \in Objects : o = Head(worker.apply)
  BY <1>1, HeadIsWanted
<1> DEFINE d == Built(o, params)
<1>2. o \in Wanted[params.spec] /\ d \in ObjectStates(o)
  BY <1>0, <1>1, HeadIsWanted
<1>3. cache[o] # None /\ ~HasImmutableFieldChange(o, d, cache[o])
  BY <1>0 DEF Patch
<1>4. cache[o] \in ObjectStates(o)
  BY <1>1, <1>2, <1>3 DEF TypeOK
<1>5. CASE /\ objects[o] # None
           /\ Write(o, Merge(objects[o], cache[o], d)) /\ Applied /\ UNCHANGED queued
  <2> HIDE DEF d
  <2>0. PICK v : v = Merge(objects[o], cache[o], d)
    OBVIOUS
  <2>1. objects[o] \in ObjectStates(o)
    BY <1>1, <1>2, <1>5 DEF TypeOK
  <2>2. /\ v \in ObjectStates(o) /\ v.fixed = objects[o].fixed
        /\ d.labels = cache[o].labels => v.labels = objects[o].labels
        /\ objects[o] = cache[o] => \A f \in Patched : v[f] = d[f]
    BY <1>2, <1>4, <2>0, <2>1, MergeIsObject, SMTT(30)
  <2>3. o = "TA_deployment" => v.labels = objects[o].labels
    BY <1>3, <2>2 DEF HasImmutableFieldChange
  <2>4. o \in behind' \/ (params = instance => UpToDate(o)')
    <3> SUFFICES ASSUME o \notin behind', params = instance PROVE UpToDate(o)'
      OBVIOUS
    <3>1. v = objects[o] /\ behind' = behind /\ objects' = [objects EXCEPT ![o] = v]
      BY <1>5, <2>0 DEF Write
    <3>2. objects'[o] = v /\ cache[o] = objects[o]
      BY <1>1, <1>2, <3>1 DEF CachesKnow, TypeOK
    <3>3. instance' = params /\ v # None /\ \A f \in Patched : v[f] = d[f]
      BY <1>5, <2>2, <3>1, <3>2
    <3>4. ~HasImmutableFieldChange(o, d, v)
      BY <1>3, <3>1, <3>2
    <3>5. params # None
      BY <1>1 DEF TypeOK, CallOK, params
    <3>6. d = Built(o, instance')
      BY <3>3 DEF d
    <3> QED
      BY <1>2, <3>2, <3>3, <3>4, <3>5, <3>6 DEF UpToDate, IsDesired
  <2> QED
    BY <1>0, <1>5, <2>0, <2>2, <2>3, <2>4, ApplyInvariant
<1>6. CASE Fail /\ UNCHANGED <<objects, caches>>
  <2>1. changes' \in 0..MaxChanges
    BY <1>1 DEF TypeOK
  <2> QED
    BY <1>6, <2>1, FailInvariant DEF server
<1> QED
  BY <1>0, <1>5, <1>6 DEF Patch

\* What the list of a delete function does not have is gone or has an event to come.
LEMMA ListStep == ReconcileInvariant /\ List => ReconcileInvariant'
<1> SUFFICES ASSUME ReconcileInvariant, List PROVE ReconcileInvariant'
  OBVIOUS
<1> DEFINE here == Elements(ObjectsOf(tasks[worker.task]))
<1>1. TypeOK /\ CachesKnow /\ SameIncarnation /\ RepairInvariant
  BY DEF ReconcileInvariant
<1>2. /\ worker.phase = "expected" /\ worker.apply = <<>>
      /\ UNCHANGED <<instance, objects, instanceCache, cache, behind, queued, tasks,
                     terminating, changes>>
  BY DEF List, server, caches
<1>3. PICK left : /\ left = {o \in Objects \cap here : cache[o] # None /\ ~IsDesired(o, params.spec)}
                  /\ Deleting(left)
  BY DEF List
<1>4. left \in SUBSET (Objects \cap here) /\ left \cap Wanted[params.spec] = {}
  BY <1>3 DEF IsDesired
<1>5. /\ CallOK(worker)' /\ Running' /\ params' = params
      /\ Kept \cap (ObjectsFrom(worker.task + 1) \cup left) \subseteq Todo(worker)'
  BY <1>1, <1>2, <1>3, <1>4, DeletingFacts
<1>6. TypeOK'
  BY <1>1, <1>2, <1>5 DEF TypeOK
<1>7. CachesKnow' /\ SameIncarnation'
  BY <1>1, <1>2 DEF CachesKnow, SameIncarnation
<1>8. Running
  BY <1>2 DEF Running
<1>9. ASSUME ~terminating, ~queued, "instance" \notin behind, NEW p \in Kept, p \in Todo(worker)
      PROVE  p \in behind \/ p \in Todo(worker)' \/ UpToDate(p)
  <2>1. params = instance
    BY <1>1, <1>8, <1>9 DEF RepairInvariant
  <2>2. CASE p \in ObjectsFrom(worker.task + 1)
    BY <1>5, <2>2
  <2>3. CASE p \in here /\ ~IsDesired(p, params.spec)
    <3>1. p \in left \/ cache[p] = None
      BY <1>3, <2>3, KeptIsWatched
    <3>2. cache[p] = None /\ p \notin behind => objects[p] = None
      BY <1>1, KeptIsWatched DEF CachesKnow
    <3> QED
      BY <1>5, <2>1, <2>3, <3>1, <3>2 DEF UpToDate
  <2>4. Elements(worker.apply) = {}
    BY <1>2, SMTT(30) DEF Elements
  <2>5. \/ p \in ObjectsFrom(worker.task + 1)
        \/ p \in Elements(worker.apply)
        \/ p \in here /\ ~IsDesired(p, params.spec)
    BY <1>2, <1>9 DEF Todo, params
  <2> QED
    BY <2>2, <2>3, <2>4, <2>5
<1>10. \A p \in Kept : UpToDate(p)' <=> UpToDate(p)
  BY <1>2, Unaffected, KeptIsWatched
<1>11. RepairInvariant'
  BY <1>1, <1>2, <1>5, <1>8, <1>9, <1>10, Repair
<1> QED
  BY <1>6, <1>7, <1>11 DEF ReconcileInvariant

\* An object that is deleted has an event to come, and the others are still listed.
LEMMA DeleteStep == ReconcileInvariant /\ Delete => ReconcileInvariant'
<1> SUFFICES ASSUME ReconcileInvariant, Delete PROVE ReconcileInvariant'
  OBVIOUS
<1>1. TypeOK /\ CachesKnow /\ SameIncarnation /\ RepairInvariant
  BY DEF ReconcileInvariant
<1>2. worker.phase = "delete" /\ UNCHANGED <<instance, tasks, terminating, changes>>
  BY DEF Delete
<1>3. /\ worker.remove \subseteq Objects \cap Elements(ObjectsOf(tasks[worker.task]))
      /\ worker.remove \cap Wanted[params.spec] = {}
  BY <1>1, <1>2 DEF TypeOK, CallOK, params
<1>4. ASSUME NEW o \in worker.remove, objects[o] # None, Write(o, None),
             Deleting(worker.remove \ {o}), UNCHANGED queued
      PROVE  ReconcileInvariant'
  <2>1. /\ CallOK(worker)' /\ Running' /\ params' = params
        /\ Kept \cap (ObjectsFrom(worker.task + 1) \cup (worker.remove \ {o}))
              \subseteq Todo(worker)'
    BY <1>1, <1>2, <1>3, <1>4, DeletingFacts
  <2>2. o \in Objects
    BY <1>3
  <2>3. /\ DOMAIN objects' = Objects /\ DOMAIN cache' = Objects
        /\ \A p \in Objects : {objects'[p], cache'[p]} \subseteq ObjectStates(p) \cup {None}
        /\ {instance', instanceCache'} \subseteq InstanceStates \cup {None}
        /\ behind' \subseteq Objects \cup {"instance"}
        /\ \A p \in Objects \ {o} : objects'[p] = objects[p]
        /\ behind \subseteq behind' /\ o \in behind'
        /\ CachesKnow' /\ SameIncarnation'
    BY <1>1, <1>2, <1>4, <2>2, WriteInvariant
  <2>4. TypeOK'
    BY <1>1, <1>2, <1>4, <2>1, <2>3 DEF TypeOK
  <2>5. Running
    BY <1>2 DEF Running
  <2>6. Todo(worker) = ObjectsFrom(worker.task + 1) \cup worker.remove
    BY <1>2 DEF Todo
  <2>7. \A p \in Kept : \/ p \in behind'
                        \/ /\ objects'[p] = objects[p] /\ (p \in behind => p \in behind')
                           /\ p \in Todo(worker) => p \in Todo(worker)'
    BY <2>1, <2>3, <2>6, KeptIsWatched
  <2>8. RepairInvariant'
    BY <1>1, <1>2, <1>4, <2>1, <2>3, <2>5, <2>7, Repair
  <2> QED
    BY <2>3, <2>4, <2>8 DEF ReconcileInvariant
<1>5. CASE Fail /\ UNCHANGED <<objects, caches>>
  <2>1. changes' \in 0..MaxChanges
    BY <1>1, <1>2 DEF TypeOK
  <2> QED
    BY <1>2, <1>5, <2>1, FailInvariant DEF server
<1> QED
  BY <1>4, <1>5 DEF Delete

\* A write of the instance is an event, or changes nothing.
LEMMA WriteInstanceInvariant ==
    ASSUME TypeOK, CachesKnow, SameIncarnation, UNCHANGED <<objects, tasks, terminating>>,
           NEW v \in InstanceStates \cup {None}, WriteInstance(v),
           queued' \in BOOLEAN, changes' \in 0..MaxChanges, CallOK(worker)'
    PROVE  /\ TypeOK' /\ CachesKnow' /\ SameIncarnation'
           /\ instance' = v /\ (v # instance => "instance" \in behind')
           /\ v = instance => behind' = behind
BY ObjectsAreNames DEF TypeOK, CachesKnow, SameIncarnation, WriteInstance

\* The call ends with the status that the instance should have.
LEMMA SelfStep == ReconcileInvariant /\ Self => ReconcileInvariant'
<1> SUFFICES ASSUME ReconcileInvariant, Self PROVE ReconcileInvariant'
  OBVIOUS
<1>1. TypeOK /\ CachesKnow /\ SameIncarnation /\ RepairInvariant /\ changes \in 0..MaxChanges
  BY DEF ReconcileInvariant, TypeOK
<1>2. worker.phase = "self" /\ UNCHANGED <<objects, tasks, terminating, changes>>
  BY DEF Self
<1>3. CASE Fail /\ UNCHANGED <<instance, caches>>
  BY <1>1, <1>2, <1>3, FailInvariant DEF server
<1> DEFINE s == [instance EXCEPT
                   !.version = @ \/ ~params.version,
                   !.scale = IF params.scale # Scalable(params.spec)
                             THEN Scalable(params.spec) ELSE @]
<1>4. CASE /\ instance # None /\ WriteInstance(s)
           /\ worker' = Enter(worker.task + 1, params) /\ UNCHANGED queued
  <2>1. /\ worker.task = Len(tasks) /\ tasks \in {Tasks, TasksWithRoutes}
        /\ Len(tasks) \in Nat /\ tasks[worker.task] = "opentelemetry"
        /\ params \in InstanceStates
        /\ Elements(worker.apply) \subseteq Elements(ObjectsOf(tasks[worker.task]))
    BY <1>1, <1>2, TasksInOrder, SMTT(30) DEF TypeOK, CallOK, params
  <2>2. worker' = Idle /\ CallOK(Idle)
    BY <1>4, <2>1, SMTT(30) DEF Enter, CallOK, Idle
  <2>3. instance \in InstanceStates
    BY <1>1, <1>4 DEF TypeOK
  <2>4. s \in InstanceStates
    <3>1. Scalable(params.spec) \in BOOLEAN
      BY SMTT(30) DEF Scalable
    <3>2. params.version \in BOOLEAN /\ instance.version \in BOOLEAN
      BY <2>1, <2>3 DEF InstanceStates
    <3> QED
      BY <2>3, <3>1, <3>2 DEF InstanceStates
  <2>5. PICK v \in InstanceStates : v = s
    BY <2>4
  <2>6. CallOK(worker)' /\ ~Running' /\ queued' \in BOOLEAN
    <3>1. CallOK(worker)'
      BY <1>2, <2>2, SameTasks
    <3>2. ~Running' /\ queued' \in BOOLEAN
      BY <1>1, <1>4, <2>2, SMTT(30) DEF Running, Idle, TypeOK
    <3> QED
      BY <3>1, <3>2
  <2>7. /\ TypeOK' /\ CachesKnow' /\ SameIncarnation'
        /\ instance' = v /\ (v # instance => "instance" \in behind')
        /\ v = instance => behind' = behind
    <3>1. WriteInstance(v)
      BY <1>4, <2>5
    <3> QED
      BY <1>1, <1>2, <2>6, <3>1, WriteInstanceInvariant
  <2>8. RepairInvariant'
    <3> SUFFICES ASSUME ~terminating, ~queued, "instance" \notin behind'
                 PROVE  /\ \A p \in Kept : p \in behind' \/ UpToDate(p)' \/ Orphaned(p)'
                        /\ StatusRight'
      BY <1>2, <1>4, <2>6 DEF RepairInvariant
    <3>1. v = instance /\ behind' = behind /\ instance' = instance
      BY <2>7
    <3>2. Todo(worker) = {}
      <4>1. ObjectsFrom(worker.task + 1) = {}
        BY <2>1, SMTT(30) DEF ObjectsFrom
      <4> QED
        BY <1>2, <2>1, <4>1, ObjectsOfTasks DEF Todo
    <3>3. params = instance /\ \A p \in Kept : p \in behind \/ UpToDate(p) \/ Orphaned(p)
      BY <1>1, <1>2, <3>1, <3>2 DEF RepairInvariant, Running
    <3>4. \A p \in Kept : p \in behind' \/ UpToDate(p)' \/ Orphaned(p)'
      BY <1>2, <3>1, <3>3, Unaffected, KeptIsWatched
    <3>5. /\ instance.version = (instance.version \/ ~instance.version)
          /\ instance.scale = IF instance.scale # Scalable(instance.spec)
                              THEN Scalable(instance.spec) ELSE instance.scale
      BY <2>3, <2>5, <3>1, <3>3 DEF InstanceStates
    <3>6. instance.version /\ instance.scale = Scalable(instance.spec)
      BY <2>3, <3>5 DEF InstanceStates
    <3> QED
      BY <3>1, <3>4, <3>6 DEF StatusRight
  <2> QED
    BY <2>7, <2>8 DEF ReconcileInvariant
<1> QED
  BY <1>3, <1>4 DEF Self

-----------------------------------------------------------------------------
(* The informers, the garbage collector and the environment.               *)

\* Events reach the caches, and those of the objects kept up queue the instance.
LEMMA DeliverStep ==
    ASSUME ReconcileInvariant, DeliverInstance \/ \E o \in Objects : Deliver(o)
    PROVE  ReconcileInvariant'
<1>1. TypeOK /\ CachesKnow /\ SameIncarnation /\ RepairInvariant
  BY DEF ReconcileInvariant
<1>2. CASE DeliverInstance
  <2>1. TypeOK'
    BY <1>1, <1>2, SameTasks DEF DeliverInstance, TypeOK, server
  <2>2. CachesKnow' /\ SameIncarnation' /\ RepairInvariant'
    BY <1>1, <1>2, ObjectsAreNames
       DEF DeliverInstance, CachesKnow, SameIncarnation, RepairInvariant, server
  <2> QED
    BY <2>1, <2>2 DEF ReconcileInvariant
<1>3. ASSUME NEW o \in Objects, Deliver(o) PROVE ReconcileInvariant'
  <2>1. /\ o \in behind /\ behind' = behind \ {o}
        /\ cache' = [cache EXCEPT ![o] = objects[o]]
        /\ queued' = (queued \/ o \in Watched)
        /\ UNCHANGED <<instance, objects, instanceCache, worker, tasks, terminating, changes>>
    BY <1>3 DEF Deliver, server
  <2>2. DOMAIN cache' = Objects /\ cache'[o] = objects[o]
        /\ \A p \in Objects \ {o} : cache'[p] = cache[p]
    BY <1>1, <2>1 DEF TypeOK
  <2>3. TypeOK'
    BY <1>1, <2>1, <2>2, SameTasks, SMTT(30) DEF TypeOK
  <2>4. CachesKnow' /\ SameIncarnation'
    BY <1>1, <2>1, <2>2, ObjectsAreNames DEF CachesKnow, SameIncarnation
  <2>5. CASE queued'
    BY <2>3, <2>4, <2>5 DEF ReconcileInvariant, RepairInvariant
  <2>6. CASE ~queued'
    <3>1. o \notin Kept /\ ~queued
      BY <2>1, <2>6, KeptIsWatched
    <3>2. Todo(worker)' = Todo(worker)
      BY <2>1, SMTT(30) DEF Todo, ObjectsFrom
    <3>3. "instance" \in behind => "instance" \in behind'
      BY <2>1, ObjectsAreNames
    <3>4. (Running' <=> Running) /\ params' = params
      BY <2>1 DEF Running, params
    <3>5. queued' = queued
      BY <1>1, <2>1, <2>6, <3>1 DEF TypeOK
    <3>6. RepairInvariant'
      BY <1>1, <2>1, <3>1, <3>2, <3>3, <3>4, <3>5, Repair
    <3> QED
      BY <2>3, <2>4, <3>6 DEF ReconcileInvariant
  <2> QED
    BY <2>5, <2>6
<1> QED
  BY <1>2, <1>3

\* An object that somebody else deletes has an event to come.
LEMMA DeletedInvariant ==
    ASSUME ReconcileInvariant, NEW o \in Objects, objects[o] # None, Write(o, None),
           UNCHANGED <<instance, queued, worker, tasks, terminating>>,
           changes' \in 0..MaxChanges
    PROVE  ReconcileInvariant'
<1>1. TypeOK /\ CachesKnow /\ SameIncarnation /\ RepairInvariant
  BY DEF ReconcileInvariant
<1>2. /\ DOMAIN objects' = Objects /\ DOMAIN cache' = Objects
      /\ \A p \in Objects : {objects'[p], cache'[p]} \subseteq ObjectStates(p) \cup {None}
      /\ {instance', instanceCache'} \subseteq InstanceStates \cup {None}
      /\ behind' \subseteq Objects \cup {"instance"}
      /\ \A p \in Objects \ {o} : objects'[p] = objects[p]
      /\ behind \subseteq behind' /\ o \in behind'
      /\ CachesKnow' /\ SameIncarnation'
  BY <1>1, WriteInvariant
<1>3. TypeOK'
  BY <1>1, <1>2, SameTasks DEF TypeOK
<1>4. Todo(worker)' = Todo(worker)
  BY SMTT(30) DEF Todo, ObjectsFrom
<1>5. (Running' <=> Running) /\ params' = params
  BY DEF Running, params
<1>6. \A p \in Kept : p \in behind' \/ objects'[p] = objects[p]
  BY <1>2, KeptIsWatched
<1>7. RepairInvariant'
  BY <1>1, <1>2, <1>4, <1>5, <1>6, Repair
<1> QED
  BY <1>2, <1>3, <1>7 DEF ReconcileInvariant

\* A user's change of the instance is an event, or none.
LEMMA ChangedInvariant ==
    ASSUME ReconcileInvariant, NEW v \in InstanceStates \cup {None}, WriteInstance(v),
           UNCHANGED <<objects, queued, worker, tasks, terminating>>,
           changes' \in 0..MaxChanges
    PROVE  ReconcileInvariant'
<1>1. TypeOK /\ CachesKnow /\ SameIncarnation /\ RepairInvariant
  BY DEF ReconcileInvariant
<1>2. CallOK(worker)' /\ queued' \in BOOLEAN
  BY <1>1, SameTasks DEF TypeOK
<1>3. /\ TypeOK' /\ CachesKnow' /\ SameIncarnation'
      /\ instance' = v /\ (v # instance => "instance" \in behind')
      /\ v = instance => behind' = behind
  BY <1>1, <1>2, WriteInstanceInvariant
<1>4. CASE v # instance
  BY <1>3, <1>4 DEF ReconcileInvariant, RepairInvariant
<1>5. CASE v = instance
  <2>1. Todo(worker)' = Todo(worker)
    BY SMTT(30) DEF Todo, ObjectsFrom
  <2>2. (Running' <=> Running) /\ params' = params
    BY DEF Running, params
  <2>3. RepairInvariant'
    BY <1>1, <1>3, <1>5, <2>1, <2>2, Repair
  <2> QED
    BY <1>3, <2>3 DEF ReconcileInvariant
<1> QED
  BY <1>4, <1>5

\* Whatever the environment does.
LEMMA EnvironmentStep == ReconcileInvariant /\ Environment => ReconcileInvariant'
<1> SUFFICES ASSUME ReconcileInvariant, Environment PROVE ReconcileInvariant'
  OBVIOUS
<1>1. TypeOK /\ CachesKnow /\ SameIncarnation /\ RepairInvariant
  BY DEF ReconcileInvariant
<1>2. changes' \in 0..MaxChanges /\ changes + 1 \in 0..MaxChanges
  BY <1>1, NoneAssumption, SMTT(30) DEF TypeOK, Environment
<1>3. ASSUME NEW s \in Specs, CreateInstance(s) PROVE ReconcileInvariant'
  <2> DEFINE v == [uid |-> changes + 1, spec |-> s, version |-> FALSE, scale |-> FALSE]
  <2>1. PICK i \in InstanceStates : i = v
    BY <1>2 DEF InstanceStates
  <2>2. WriteInstance(i)
    BY <1>3, <2>1 DEF CreateInstance
  <2> QED
    BY <1>2, <1>3, <2>2, ChangedInvariant DEF CreateInstance
<1>4. ASSUME NEW s \in Specs, ChangeSpec(s) PROVE ReconcileInvariant'
  <2>1. instance \in InstanceStates
    BY <1>1, <1>4 DEF TypeOK, ChangeSpec
  <2>2. PICK i \in InstanceStates : i = [instance EXCEPT !.spec = s]
    BY <2>1 DEF InstanceStates
  <2>3. WriteInstance(i)
    BY <1>4, <2>2 DEF ChangeSpec
  <2> QED
    BY <1>2, <1>4, <2>3, ChangedInvariant DEF ChangeSpec
<1>5. CASE DeleteInstance
  BY <1>2, <1>5, ChangedInvariant DEF DeleteInstance
<1>6. ASSUME NEW o \in Kept, DeleteObject(o) PROVE ReconcileInvariant'
  BY <1>2, <1>6, DeletedInvariant, KeptIsWatched DEF DeleteObject
<1>7. CASE CallFails
  BY <1>2, <1>7, FailInvariant DEF CallFails
<1>8. CASE Restart
  <2>1. /\ worker' = Idle /\ UNCHANGED <<instance, objects, tasks, terminating>>
        /\ instanceCache' = instance /\ cache' = objects /\ behind' = {}
        /\ queued' = (instance # None \/ \E o \in Watched : objects[o] # None)
    BY <1>8 DEF Restart, server
  <2>2. CallOK(Idle)
    <3>1. tasks \in {Tasks, TasksWithRoutes}
      BY <1>1 DEF TypeOK
    <3>2. 0 \in 0..Len(tasks)
      BY <3>1, TasksInOrder, SMTT(30)
    <3>3. <<>> \in Seq(Objects)
      BY SMTT(30)
    <3> QED
      BY <3>2, <3>3 DEF CallOK, Idle
  <2>3. CallOK(worker)'
    BY <2>1, <2>2, SameTasks
  <2>4. TypeOK'
    BY <1>1, <1>2, <2>1, <2>3 DEF TypeOK
  <2>5. CachesKnow' /\ SameIncarnation'
    BY <2>1 DEF CachesKnow, SameIncarnation
  <2>6. RepairInvariant'
    <3> SUFFICES ASSUME ~queued' PROVE RepairInvariant'
      BY DEF RepairInvariant
    <3>1. instance' = None /\ ~Running'
      BY <2>1 DEF Running, Idle
    <3>2. \A p \in Kept : UpToDate(p)' \/ Orphaned(p)'
      BY <3>1, KeptIsWatched DEF UpToDate, Orphaned
    <3> QED
      BY <3>1, <3>2 DEF RepairInvariant, StatusRight
  <2> QED
    BY <2>4, <2>5, <2>6 DEF ReconcileInvariant
<1>9. CASE onOpenShiftRoutesChange
  <2>1. /\ ~Running /\ tasks' \in {Tasks, TasksWithRoutes}
        /\ UNCHANGED <<instance, objects, instanceCache, cache, behind, queued, worker,
                       terminating>>
    BY <1>1, <1>9 DEF onOpenShiftRoutesChange, TypeOK, server, caches
  <2>2. Todo(worker) = {} /\ Todo(worker)' = {} /\ ~Running' /\ params' = params
    BY <2>1 DEF Todo, Running, params
  <2>3. CallOK(worker)'
    BY <1>1, <2>1, TaskNumbers, SMTT(30) DEF TypeOK, CallOK, Running
  <2>4. TypeOK'
    BY <1>1, <1>2, <2>1, <2>3 DEF TypeOK
  <2>5. CachesKnow' /\ SameIncarnation'
    BY <1>1, <2>1 DEF CachesKnow, SameIncarnation
  <2>6. RepairInvariant'
    BY <1>1, <2>1, <2>2, Repair
  <2> QED
    BY <2>4, <2>5, <2>6 DEF ReconcileInvariant
<1>10. CASE TerminateNamespace
  <2>1. TypeOK'
    BY <1>1, <1>2, <1>10, SameTasks DEF TerminateNamespace, TypeOK, server, caches
  <2>2. CachesKnow' /\ SameIncarnation' /\ RepairInvariant'
    BY <1>1, <1>10
       DEF TerminateNamespace, CachesKnow, SameIncarnation, RepairInvariant, server, caches
  <2> QED
    BY <2>1, <2>2 DEF ReconcileInvariant
<1> QED
  BY <1>3, <1>4, <1>5, <1>6, <1>7, <1>8, <1>9, <1>10 DEF Environment

-----------------------------------------------------------------------------
(* The controller.                                                         *)

\* Every step preserves the invariant.
LEMMA StepInvariant == ReconcileInvariant /\ [Next]_vars => ReconcileInvariant'
<1> SUFFICES ASSUME ReconcileInvariant, [Next]_vars PROVE ReconcileInvariant'
  OBVIOUS
<1>1. CASE Expected
  BY <1>1, CreateStep, ReplaceStep, PatchStep DEF Expected
<1>2. CASE Reconcile \/ List \/ Delete \/ Self
  BY <1>2, ReconcileStep, ListStep, DeleteStep, SelfStep
<1>3. CASE DeliverInstance \/ \E o \in Objects : Deliver(o)
  BY <1>3, DeliverStep
<1>4. ASSUME NEW o \in Objects, Collect(o) PROVE ReconcileInvariant'
  <2>1. changes' \in 0..MaxChanges
    BY <1>4 DEF ReconcileInvariant, TypeOK, Collect
  <2> QED
    BY <1>4, <2>1, DeletedInvariant DEF Collect, Orphaned
<1>5. CASE Environment
  BY <1>5, EnvironmentStep
<1>6. CASE UNCHANGED vars
  <2>1. TypeOK' /\ CachesKnow' /\ SameIncarnation'
    BY <1>6, SameTasks DEF vars, ReconcileInvariant, TypeOK, CachesKnow, SameIncarnation
  <2>2. RepairInvariant'
    BY <1>6, SMTT(30) DEF vars, ReconcileInvariant, RepairInvariant, Running, params, Todo, ObjectsFrom,
       UpToDate, Orphaned, StatusRight
  <2> QED
    BY <2>1, <2>2 DEF ReconcileInvariant
<1> QED
  BY <1>1, <1>2, <1>3, <1>4, <1>5, <1>6 DEF Next, Controller

\* An operator that starts finds nothing to repair.
LEMMA StartInvariant == Init => ReconcileInvariant
<1> SUFFICES ASSUME Init PROVE ReconcileInvariant
  OBVIOUS
<1>1. /\ instanceCache = instance /\ cache = objects /\ behind = {}
      /\ queued = FALSE /\ worker = Idle /\ tasks = Tasks
      /\ terminating = FALSE /\ changes = 0
  BY DEF Init
<1>2. CallOK(worker)
  BY <1>1, TasksInOrder, SMTT(30) DEF CallOK, Idle
<1>3. ~Running
  BY <1>1 DEF Running, Idle
<1>0. 0 \in 0..MaxChanges
  BY NoneAssumption, SMTT(30)
<1>4. CASE instance = None /\ objects = [o \in Objects |-> None]
  <2>1. TypeOK
    BY <1>0, <1>1, <1>2, <1>4 DEF TypeOK
  <2>2. \A p \in Kept : UpToDate(p) \/ Orphaned(p)
    BY <1>4, NoInstance, KeptIsWatched
  <2> QED
    BY <1>1, <1>3, <1>4, <2>1, <2>2
       DEF ReconcileInvariant, CachesKnow, SameIncarnation, RepairInvariant, StatusRight
<1>5. ASSUME NEW s \in Specs,
             instance = [uid |-> 0, spec |-> s, version |-> TRUE, scale |-> Scalable(s)],
             objects = [o \in Objects |-> IF IsDesired(o, s) /\ o # "route"
                                          THEN Built(o, instance) ELSE None]
      PROVE  ReconcileInvariant
  <2>1. instance \in InstanceStates /\ instance # None /\ instance.spec = s
    <3>1. Scalable(s) \in BOOLEAN
      BY SMTT(30) DEF Scalable
    <3>2. instance \in InstanceStates
      BY <1>0, <1>5, <3>1 DEF InstanceStates
    <3> QED
      BY <1>5, <3>2, NoneAssumption
  <2>2. ASSUME NEW o \in Objects
        PROVE  Built(o, instance) \in ObjectStates(o) /\ Built(o, instance) # None
    BY <2>1, BuiltIsObject, NoneAssumption
  <2>3. TypeOK
    <3>1. DOMAIN objects = Objects
      BY <1>5
    <3>2. \A o \in Objects : objects[o] \in ObjectStates(o) \cup {None}
      BY <1>5, <2>2
    <3> QED
      BY <1>0, <1>1, <1>2, <2>1, <3>1, <3>2 DEF TypeOK
  <2>4. ASSUME NEW p \in Kept PROVE UpToDate(p)
    <3>1. p \in Objects /\ p # "route"
      BY DEF Kept
    <3>2. CASE IsDesired(p, s)
      <4>1. objects[p] = Built(p, instance)
        BY <1>5, <3>1, <3>2
      <4> QED
        BY <2>1, <2>2, <3>1, <3>2, <4>1 DEF UpToDate, HasImmutableFieldChange
    <3>3. CASE ~IsDesired(p, s)
      BY <1>5, <2>1, <3>1, <3>3 DEF UpToDate
    <3> QED
      BY <3>2, <3>3
  <2>5. StatusRight
    BY <1>5 DEF StatusRight
  <2> QED
    BY <1>1, <1>3, <2>3, <2>4, <2>5
       DEF ReconcileInvariant, CachesKnow, SameIncarnation, RepairInvariant
<1> QED
  BY <1>4, <1>5 DEF Init

\* The invariant holds in every reachable state, and the types with it.
THEOREM AlwaysLookedAtAgain == Spec => []ReconcileInvariant
BY StartInvariant, StepInvariant, PTL DEF Spec

\* A controller with nothing left to do has brought every object that it keeps up, and
\* the status, to what the instance wants.
THEOREM RestsAtDesired == Spec => []SettledIsDesired
<1>1. ReconcileInvariant => SettledIsDesired
  BY DEF ReconcileInvariant, RepairInvariant, SettledIsDesired, Settled, Running, Todo
<1> QED
  BY <1>1, AlwaysLookedAtAgain, PTL

\* The reconciler deletes what its instance does not want, or cannot get by a patch.
THEOREM DesiredObjectsStay == Spec => NeverDeletesDesired
<1> DEFINE Kills(o) == /\ objects[o] # None /\ objects'[o] = None
                       /\ IsDesired(o, params.spec)
                       /\ ~HasImmutableFieldChange(o, Built(o, params), objects[o])
<1>1. ASSUME ReconcileInvariant, NEW o \in Objects, Expected \/ Delete PROVE ~Kills(o)
  <2> SUFFICES ASSUME Kills(o) PROVE FALSE
    OBVIOUS
  <2>1. TypeOK /\ SameIncarnation /\ DOMAIN objects = Objects
    BY <1>1 DEF ReconcileInvariant, TypeOK
  <2>2. ASSUME NEW p \in Objects, NEW v, Write(p, v), p # o PROVE FALSE
    BY <2>1, <2>2 DEF Write
  <2>3. ASSUME objects' = objects PROVE FALSE
    BY <2>3
  <2>4. CASE Delete
    <3>1. PICK p \in worker.remove : Write(p, None) \/ UNCHANGED objects
      BY <2>4 DEF Delete
    <3>2. p \in Objects /\ p \notin Wanted[params.spec]
      BY <2>1, <2>4 DEF Delete, TypeOK, CallOK, params
    <3> QED
      BY <2>2, <2>3, <3>1, <3>2 DEF IsDesired
  <2>5. CASE Expected
    <3>1. worker.phase = "expected" /\ worker.apply # <<>>
      BY <2>5 DEF Expected
    <3>2. PICK p \in Objects : p = Head(worker.apply)
      BY <2>1, <3>1, HeadIsWanted
    <3>3. Built(p, params) \in ObjectStates(p) /\ p \in Wanted[params.spec]
      BY <2>1, <3>1, <3>2, HeadIsWanted
    <3>4. CASE Create(p)
      <4>1. (Write(p, Built(p, params)) /\ objects[p] = None) \/ UNCHANGED objects
        BY <3>4 DEF Create
      <4> QED
        BY <2>2, <2>3, <4>1
    <3>5. CASE Replace(p)
      <4>1. Write(p, None) \/ UNCHANGED objects
        BY <3>5 DEF Replace
      <4>2. p = o => HasImmutableFieldChange(o, Built(o, params), cache[o]) /\ cache[o] # None
        BY <3>5 DEF Replace
      <4>3. p # o
        BY <2>1, <4>2 DEF SameIncarnation, HasImmutableFieldChange
      <4> QED
        BY <2>2, <2>3, <4>1, <4>3
    <3>6. CASE Patch(p)
      <4>1. /\ cache[p] # None
            /\ \/ objects[p] # None /\ Write(p, Merge(objects[p], cache[p], Built(p, params)))
               \/ UNCHANGED objects
        BY <3>6 DEF Patch
      <4>2. CASE objects[p] # None /\ Write(p, Merge(objects[p], cache[p], Built(p, params)))
        <5>1. objects[p] \in ObjectStates(p) /\ cache[p] \in ObjectStates(p)
          BY <2>1, <4>1, <4>2 DEF TypeOK
        <5>2. Merge(objects[p], cache[p], Built(p, params)) # None
          BY <3>3, <5>1, MergeIsObject, NoneAssumption, SMTT(30)
        <5>3. objects'[p] # None
          BY <2>1, <4>2, <5>2 DEF Write
        <5> QED
          BY <2>2, <4>2, <5>3
      <4> QED
        BY <2>3, <4>1, <4>2
    <3> QED
      BY <2>5, <3>2, <3>4, <3>5, <3>6 DEF Expected
  <2> QED
    BY <1>1, <2>4, <2>5
<1>2. ReconcileInvariant /\ [Next]_vars =>
        [\A o \in Objects : Expected \/ Delete => ~Kills(o)]_vars
  BY <1>1
<1> QED
  BY <1>2, AlwaysLookedAtAgain, PTL DEF Spec, NeverDeletesDesired

=============================================================================
