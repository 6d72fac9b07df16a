------------------------------- MODULE RunGroup -------------------------------
(***************************************************************************)
(* The life of the target allocator process: main adds an actor for every  *)
(* part to a run group, the first actor that returns ends the group, and   *)
(* the group then calls the interrupt functions one after the other and    *)
(* waits for all actors to return.  The run group itself (oklog/run) is    *)
(* external.                                                               *)
(*                                                                         *)
(* An interrupt function closes a channel or cancels a context, except     *)
(* those of the file watcher, which sends on a channel without a buffer    *)
(* and so waits for the watcher to receive, and of the server, which waits *)
(* for the handlers of all requests to return.                             *)
(***************************************************************************)
EXTENDS Naturals, Sequences

CONSTANTS
    PromEnabled,   \* whether the Prometheus CRs are watched
    MaxEvents,     \* how many events the file watcher sees
    Clients        \* those who send requests to the server

VARIABLES
    pc,            \* where every actor is
    closed,        \* the actors whose interrupt function has returned
    main,          \* where main is in Group.Run
    next,          \* the interrupt function it calls next
    signalled,     \* a signal waits to be received
    events,        \* how many events the file watcher has seen
    requests       \* the clients whose requests the server handles

processVars == <<pc, closed, main, next, signalled, events, requests>>
group == <<closed, main, next>>
inputs == <<signalled, events, requests>>

-----------------------------------------------------------------------------
\* Mutant of Order: the event loop ends before the watchers.
OrderLoopFirst ==
    IF PromEnabled
    THEN <<"loop", "prom", "file", "manager", "discoverer", "collector", "server", "interrupt">>
    ELSE <<"loop", "file", "manager", "discoverer", "collector", "server", "interrupt">>

\* The actors in the order in which main adds them.
Order ==
    IF PromEnabled
    THEN <<"prom", "file", "manager", "discoverer", "collector", "server", "loop", "interrupt">>
    ELSE <<"file", "manager", "discoverer", "collector", "server", "loop", "interrupt">>

Actors == {Order[i] : i \in DOMAIN Order}

Start == [prom |-> "sync", file |-> "start", manager |-> "run",
          discoverer |-> "apply", collector |-> "list", server |-> "serve",
          loop |-> "select", interrupt |-> "select"]

GroupInit ==
    /\ pc = [a \in Actors |-> Start[a]]
    /\ closed = {}
    /\ main = "wait" /\ next = 1
    /\ signalled = FALSE /\ events = 0 /\ requests = {}

Goto(a, from, to) ==
    /\ pc[a] = from
    /\ pc' = [pc EXCEPT ![a] = to]

-----------------------------------------------------------------------------
\* The Prometheus CR watcher waits for its caches and then for its stop channel.
PromSyncs == "prom" \in Actors /\ Goto("prom", "sync", "wait")

PromStops ==
    /\ "prom" \in closed
    /\ Goto("prom", "sync", "returned") \/ Goto("prom", "wait", "returned")

\* The file watcher adds the directory, and returns if it cannot.
FileAdds == Goto("file", "start", "select")
FileFails == Goto("file", "start", "returned")

\* It has an event or an error to send, and waits for the event loop.
FileSends ==
    /\ events < MaxEvents
    /\ events' = events + 1
    /\ Goto("file", "select", "send")

\* The event loop receives an event, or an error, which it logs.
LoopReceives ==
    /\ pc["file"] = "send" /\ pc["loop"] = "select"
    /\ \E to \in {"apply", "select"} :
        pc' = [pc EXCEPT !["file"] = "select", !["loop"] = to]

\* It receives an event from the handler of an informer.  These goroutines are
\* no actors: one that waits when its informer is stopped may still send.
LoopReceivesCR ==
    /\ "prom" \in Actors /\ pc["prom"] # "sync"
    /\ Goto("loop", "select", "apply")

\* LoadConfig and ApplyConfig, whether they succeed or not.
LoopApplies == Goto("loop", "apply", "select")

LoopStops == "loop" \in closed /\ Goto("loop", "select", "returned")

ManagerStops == "manager" \in closed /\ Goto("manager", "run", "returned")

\* The target discoverer applies the initial configuration, then it watches.
DiscovererApplies == Goto("discoverer", "apply", "select")
DiscovererFails == Goto("discoverer", "apply", "returned")
DiscovererReceives == Goto("discoverer", "select", "set")
DiscovererSets == Goto("discoverer", "set", "select")
DiscovererStops ==
    "discoverer" \in closed /\ Goto("discoverer", "select", "returned")

\* The collector watcher lists the pods and opens one watch after the other.
CollectorLists == Goto("collector", "list", "open")
CollectorOpens == Goto("collector", "open", "run")
CollectorFails == Goto("collector", "open", "returned")
CollectorReopens == Goto("collector", "run", "open")
CollectorStops ==
    "collector" \in closed /\ Goto("collector", "run", "returned")

\* Shutdown has closed the listener.
ListenerClosed == main = "shutdown" \/ "server" \in closed

\* ListenAndServe returns when it cannot serve, and once the listener is closed.
ServerFails == Goto("server", "serve", "returned")
ServerStops == ListenerClosed /\ ServerFails

\* A handler begins, and returns when its client has read the answer: the server
\* has no timeout for that.
RequestBegins(c) ==
    /\ pc["server"] = "serve" /\ ~ListenerClosed
    /\ c \notin requests
    /\ requests' = requests \cup {c}
    /\ UNCHANGED <<pc, group, signalled, events>>

RequestEnds(c) ==
    /\ c \in requests
    /\ requests' = requests \ {c}
    /\ UNCHANGED <<pc, group, signalled, events>>

\* Mutant of InterruptStops: the interrupt loop waits for a signal only.
InterruptStopsOnSignal ==
    /\ signalled
    /\ Goto("interrupt", "select", "returned")

\* The interrupt loop shares the channel eventCloser with the event loop.
InterruptStops ==
    /\ signalled \/ "loop" \in closed
    /\ Goto("interrupt", "select", "returned")

-----------------------------------------------------------------------------
\* The environment: a signal, and whatever can fail.
Signal ==
    /\ ~signalled
    /\ signalled' = TRUE
    /\ UNCHANGED <<pc, group, events, requests>>

Failure ==
    /\ FileFails \/ DiscovererFails \/ CollectorFails \/ ServerFails
    /\ UNCHANGED <<group, inputs>>

\* The list of the pods fails, and the process ends at once.
ListFails ==
    /\ pc["collector"] = "list"
    /\ main' = "exited"
    /\ UNCHANGED <<pc, closed, next, inputs>>

\* Group.Run receives the first result.
FirstReturns ==
    /\ main = "wait"
    /\ \E a \in Actors : pc[a] = "returned"
    /\ main' = "close"
    /\ UNCHANGED <<pc, closed, next, inputs>>

\* FileWatcher.Close: the watcher receives from its channel closer and returns.
CloseFile ==
    /\ main = "close" /\ next <= Len(Order) /\ Order[next] = "file"
    /\ Goto("file", "select", "returned")
    /\ closed' = closed \cup {"file"}
    /\ next' = next + 1
    /\ UNCHANGED <<main, inputs>>

\* Server.Shutdown closes the listener, and returns when no request is handled: the
\* context it waits with is never cancelled.
ShutdownServer ==
    /\ main = "close" /\ next <= Len(Order) /\ Order[next] = "server"
    /\ main' = "shutdown"
    /\ UNCHANGED <<pc, closed, next, inputs>>

ShutdownReturns ==
    /\ main = "shutdown" /\ requests = {}
    /\ main' = "close"
    /\ closed' = closed \cup {"server"}
    /\ next' = next + 1
    /\ UNCHANGED <<pc, inputs>>

\* Any other interrupt function.
CloseNext ==
    /\ main = "close" /\ next <= Len(Order) /\ Order[next] \notin {"file", "server"}
    /\ closed' = closed \cup {Order[next]}
    /\ next' = next + 1
    /\ UNCHANGED <<pc, main, inputs>>

\* All the actors have returned, and so does main.
Exit ==
    /\ main = "close" /\ next > Len(Order)
    /\ \A a \in Actors : pc[a] = "returned"
    /\ main' = "exited"
    /\ UNCHANGED <<pc, closed, next, inputs>>

-----------------------------------------------------------------------------
Stops == PromStops \/ LoopStops \/ ManagerStops \/ DiscovererStops
           \/ CollectorStops \/ ServerStops \/ InterruptStops

Works == PromSyncs \/ FileAdds \/ LoopReceives \/ LoopReceivesCR
           \/ LoopApplies \/ DiscovererApplies \/ DiscovererReceives
           \/ DiscovererSets
           \/ CollectorLists \/ CollectorOpens \/ CollectorReopens

Alive == main # "exited"
Quietly(A) == Alive /\ A /\ UNCHANGED <<group, inputs>>

GroupNext ==
    \/ Quietly(Stops)
    \/ Quietly(Works)
    \/ Alive /\ FileSends /\ UNCHANGED <<group, signalled, requests>>
    \/ Alive /\ (Signal \/ Failure \/ ListFails)
    \/ Alive /\ \E c \in Clients : RequestBegins(c) \/ RequestEnds(c)
    \/ FirstReturns \/ CloseNext \/ CloseFile \/ ShutdownServer \/ ShutdownReturns \/ Exit

GroupSpec == GroupInit /\ [][GroupNext]_processVars

\* Goroutines that can go on do.  Where a select has several cases ready it
\* chooses among them at random: a case that is ready again and again is taken.
\* Nothing is asked of the clients.
GroupFairness ==
    /\ WF_processVars(Quietly(FileAdds)) /\ WF_processVars(Quietly(LoopApplies))
    /\ WF_processVars(Quietly(DiscovererApplies \/ DiscovererSets))
    /\ WF_processVars(Quietly(CollectorLists \/ CollectorOpens))
    /\ WF_processVars(Quietly(PromStops)) /\ WF_processVars(Quietly(ManagerStops))
    /\ WF_processVars(Quietly(ServerStops)) /\ WF_processVars(Quietly(InterruptStops))
    /\ SF_processVars(Quietly(LoopReceives)) /\ SF_processVars(Quietly(LoopStops))
    /\ SF_processVars(Quietly(DiscovererStops)) /\ SF_processVars(Quietly(CollectorStops))
    /\ SF_processVars(CloseFile)
    /\ WF_processVars(FirstReturns \/ CloseNext \/ ShutdownServer \/ ShutdownReturns \/ Exit)

GroupFairSpec == GroupSpec /\ GroupFairness

-----------------------------------------------------------------------------
\* Every actor is at one of its own places, and an actor is interrupted only
\* after all those that were added before it.
GroupTypeOK ==
    /\ \A a \in Actors :
        pc[a] \in {Start[a], "wait", "select", "send", "apply", "set", "open",
                   "run", "returned"}
    /\ main \in {"wait", "close", "shutdown", "exited"}
    /\ main = "shutdown" => next <= Len(Order) /\ Order[next] = "server"
    /\ requests \subseteq Clients
    /\ next \in 1..Len(Order) + 1 /\ events \in 0..MaxEvents
    /\ closed = {Order[i] : i \in 1..next - 1}

\* The file watcher never has an event that nobody will receive: the event loop
\* outlives it.
LoopOutlivesWatcher ==
    pc["loop"] = "returned" => pc["file"] = "returned"

\* The file watcher has returned on its own.
FileFailed == pc["file"] = "returned" /\ "file" \notin closed

\* Every client that sends a request reads the answer at some time.
ClientsRead == \A c \in Clients : []<>(c \notin requests)

\* If the clients read their answers, a signal, or an actor that returns, ends the
\* process, whatever the actors are doing and however many requests there are, unless
\* the file watcher has returned on its own: its Close then waits for ever.
ShutdownCompletes ==
    ClientsRead => ((signalled \/ main \in {"close", "shutdown"})
                        ~> (main = "exited" \/ FileFailed))

=============================================================================
