----------------------------- MODULE GraphPorts -----------------------------
(***************************************************************************)
(* Who holds which serial port: starting and stopping a serial graph       *)
(* (StartSerialGraph, StopSerialGraph, runtime.start and runtime.stop of   *)
(* graph_runtime.go) beside terminals that open and close ports            *)
(* (service.go), over the port manager (manager/manager.go) and the        *)
(* virtual port manager (virtualserial/manager.go), and the cleanup at     *)
(* shutdown.                                                               *)
(*                                                                         *)
(* The runtimes are the objects made by successive starts of one graph     *)
(* id, so that the same virtual port ids come back.  Every critical        *)
(* section of a lock is one step.  Remote nodes are the subject of         *)
(* RemoteNode; monitors, Modbus and FECbus sessions and bridges appear as  *)
(* ports that may be busy.                                                 *)
(***************************************************************************)
EXTENDS Integers, Sequences, SequencesExt, FiniteSets

CONSTANTS
    Runtimes,    \* runtime objects, one for each StartSerialGraph
    Nodes,       \* sequence of the resource nodes, by id: [port, endpoint]
    Terminals,   \* callers of OpenPort and ClosePort
    TerminalPorts, \* the ports they open
    None,        \* nil
    Overlap,     \* may a stop or the shutdown meet a call in progress?
    MaxHandles   \* bound on the handles ever opened

\* A physical node opens its port, a virtual one the hidden peer of the port.
IsVirtual(i) == Nodes[i].port # Nodes[i].endpoint
Ports == {Nodes[i].port : i \in DOMAIN Nodes} \cup {Nodes[i].endpoint : i \in DOMAIN Nodes} \cup TerminalPorts
Ids == 1 .. MaxHandles

\* Validation refuses two nodes of the same port, and a peer is nobody's port.
ASSUME NodesAssumption ==
    /\ Len(Nodes) \in Nat /\ DOMAIN Nodes = 1 .. Len(Nodes)
    /\ \A i \in DOMAIN Nodes : {"port", "endpoint"} \subseteq DOMAIN Nodes[i]
    /\ \A i, j \in DOMAIN Nodes : i # j => Nodes[i].endpoint # Nodes[j].endpoint
\* Runtimes are told from nil and, as openers of handles, from terminals.
ASSUME CallersAssumption == None \notin Runtimes /\ Runtimes \cap Terminals = {}
ASSUME BoundAssumption == Overlap \in BOOLEAN /\ MaxHandles \in Nat

VARIABLES
    handles,   \* PortManager.handles: [id, port, by], by (the opener) is history
    nextID,    \* PortManager.nextID
    pairs,     \* virtualserial Manager.pairs: [id, owner], owner is history
    buffers,   \* Service.buffers: ids of handles that have a ring
    graph,     \* Service.graphs at the id of the graph
    rt,        \* fields of the runtimes
    bus,       \* runtimes subscribed to serial:data
    senders,   \* runtimes whose auto sender goroutines run
    starter,   \* StartSerialGraph of a runtime
    stopper,   \* stop() of a runtime, called by "api" or by the failed "start"
    terminal,  \* a terminal and its call
    shutdown,  \* progress of cleanup()
    stuck,     \* history: pairs that the backend refused to stop
    early      \* history: handles that were closed before their ring was stored

history == <<stuck, early>>
ports == <<handles, nextID, pairs, buffers>>
vars == <<ports, graph, rt, bus, senders, starter, stopper, terminal, shutdown, history>>

Handle == [id : Ids, port : Ports, by : Runtimes \cup Terminals]
Pair == [id : DOMAIN Nodes, owner : Runtimes]
Runtime ==
    [status : {"idle", "running", "error", "stopped"}, owned : Seq(Ids), ownedV : Seq(DOMAIN Nodes),
     resource : SUBSET DOMAIN Nodes, cancelData : BOOLEAN, cancelAuto : BOOLEAN]
StarterStates ==
    {"new", "begin", "node", "create", "open", "undo", "bind", "own", "ownV",
     "subscribe", "auto", "error", "unmap", "stop", "failed", "started"}
StopperStates == {"idle", "enter", "cancel", "cancelAuto", "pairs", "close", "buffer", "done"}
TerminalStates == {"idle", "open", "again", "buffer", "using", "drop"}
Callers == {"api", "start"}

\* The shape of the state.
TypeOK ==
    /\ handles \subseteq Handle /\ nextID \in 0 .. MaxHandles
    /\ pairs \subseteq Pair /\ buffers \subseteq Ids
    /\ graph \in Runtimes \cup {None}
    /\ rt \in [Runtimes -> Runtime]
    /\ bus \subseteq Runtimes /\ senders \subseteq Runtimes
    /\ starter \in [Runtimes -> [pc : StarterStates, node : 1 .. Len(Nodes) + 1, id : 0 .. MaxHandles]]
    /\ stopper \in [Runtimes \X Callers ->
                     [pc : StopperStates, data : BOOLEAN, auto : BOOLEAN,
                      vports : Seq(DOMAIN Nodes), ports : Seq(Ids)]]
    /\ terminal \in [Terminals -> [pc : TerminalStates, port : Ports, id : 0 .. MaxHandles]]
    /\ shutdown \in {"idle", "graphs", "close", "pairs", "maps", "done"}
    /\ stuck \subseteq Pair /\ early \subseteq Ids

NewRuntime ==
    [status |-> "idle", owned |-> << >>, ownedV |-> << >>, resource |-> {},
     cancelData |-> FALSE, cancelAuto |-> FALSE]
NotStopping == [pc |-> "idle", data |-> FALSE, auto |-> FALSE, vports |-> << >>, ports |-> << >>]
IdleTerminal == [pc |-> "idle", port |-> CHOOSE p \in Ports : TRUE, id |-> 0]

Init ==
    /\ handles = {} /\ nextID = 0 /\ pairs = {} /\ buffers = {}
    /\ graph = None
    /\ rt = [r \in Runtimes |-> NewRuntime]
    /\ bus = {} /\ senders = {}
    /\ starter = [r \in Runtimes |-> [pc |-> "new", node |-> 1, id |-> 0]]
    /\ stopper = [k \in Runtimes \X Callers |-> NotStopping]
    /\ terminal = [t \in Terminals |-> IdleTerminal]
    /\ shutdown = "idle"
    /\ stuck = {} /\ early = {}

-----------------------------------------------------------------------------
(* The managers                                                            *)

IsOpen(p) == \E h \in handles : h.port = p
HandleOf(p) == CHOOSE h \in handles : h.port = p
Close(id) == {h \in handles : h.id # id}
HasHandle(id) == \E h \in handles : h.id = id

\* PortManager.Open succeeds: the check, the device and the new handle are
\* one critical section.
ManagerOpen(p, caller) ==
    /\ ~IsOpen(p) /\ nextID < MaxHandles
    /\ nextID' = nextID + 1
    /\ handles' = handles \cup {[id |-> nextID + 1, port |-> p, by |-> caller]}

HasPair(i) == \E p \in pairs : p.id = i

\* Manager.DeletePair: the pair is stopped and leaves the table.
DeletePair(i) ==
    /\ pairs' = {p \in pairs : p.id # i}
    /\ UNCHANGED stuck

\* The backend cannot stop the pair: it stays in the table, and the callers
\* here discard the error.
DeletePairFails(i) ==
    /\ HasPair(i)
    /\ stuck' = stuck \cup {p \in pairs : p.id = i}
    /\ UNCHANGED pairs

-----------------------------------------------------------------------------
(* StartSerialGraph                                                        *)

At(r, pc) == starter[r].pc = pc
Node(r) == Nodes[starter[r].node]
GoTo(r, pc) == starter' = [starter EXCEPT ![r].pc = pc]
NextNode(r) == starter' = [starter EXCEPT ![r].pc = "node", ![r].node = @ + 1]

Starting == \E r \in Runtimes : starter[r].pc \notin {"new", "started", "failed"}
Calling == \E t \in Terminals : terminal[t].pc \notin {"idle", "using"}
Quiet == ~Starting /\ ~Calling

\* The runtime enters the map of the service; a graph that is there already
\* is refused.
StartSerialGraph(r) ==
    /\ At(r, "new") /\ graph = None
    /\ Overlap \/ shutdown \in {"idle", "done"}
    /\ graph' = r
    /\ GoTo(r, "begin")
    /\ UNCHANGED <<ports, rt, bus, senders, stopper, terminal, shutdown, history>>

Begin(r) ==
    /\ At(r, "begin")
    /\ rt' = [rt EXCEPT ![r].status = "running"]
    /\ GoTo(r, "node")
    /\ UNCHANGED <<ports, graph, bus, senders, stopper, terminal, shutdown, history>>

\* graphVirtualPortInUse, of the runtime in the map
OwnedByGraph(p) ==
    /\ graph # None
    /\ \E i \in rt[graph].resource : IsVirtual(i) /\ Nodes[i].port = p

\* ensureGraphPortAvailable, then the next step of the node.
CheckNode(r) ==
    /\ At(r, "node") /\ starter[r].node <= Len(Nodes)
    /\ ~IsOpen(Node(r).port) /\ ~OwnedByGraph(Node(r).port)
    /\ GoTo(r, IF IsVirtual(starter[r].node) THEN "create" ELSE "open")
    /\ UNCHANGED <<ports, graph, rt, bus, senders, stopper, terminal, shutdown, history>>

\* The port is open here, or used by a monitor, a session or a bridge.
RefuseNode(r) ==
    /\ At(r, "node") /\ starter[r].node <= Len(Nodes)
    /\ GoTo(r, "error")
    /\ UNCHANGED <<ports, graph, rt, bus, senders, stopper, terminal, shutdown, history>>

CreateVirtual(r) ==
    /\ At(r, "create")
    /\ ~HasPair(starter[r].node)
    /\ pairs' = pairs \cup {[id |-> starter[r].node, owner |-> r]}
    /\ GoTo(r, "open")
    /\ UNCHANGED <<handles, nextID, buffers, graph, rt, bus, senders, stopper, terminal, shutdown, history>>

\* The id exists, or the backend fails.
CreateVirtualFails(r) ==
    /\ At(r, "create")
    /\ GoTo(r, "error")
    /\ UNCHANGED <<ports, graph, rt, bus, senders, stopper, terminal, shutdown, history>>

OpenNode(r) ==
    /\ At(r, "open")
    /\ ManagerOpen(Node(r).endpoint, r)
    /\ starter' = [starter EXCEPT ![r].pc = "bind", ![r].id = nextID + 1]
    /\ UNCHANGED <<pairs, buffers, graph, rt, bus, senders, stopper, terminal, shutdown, history>>

\* mutant: a virtual port whose peer does not open is left behind
OpenNodeFailsKeepsPair(r) ==
    /\ At(r, "open")
    /\ GoTo(r, "error")
    /\ UNCHANGED <<ports, graph, rt, bus, senders, stopper, terminal, shutdown, history>>

\* The port is open already, or the device refuses; the virtual port made
\* for the node is deleted again, in a critical section of its own.
OpenNodeFails(r) ==
    /\ At(r, "open")
    /\ GoTo(r, IF IsVirtual(starter[r].node) THEN "undo" ELSE "error")
    /\ UNCHANGED <<ports, graph, rt, bus, senders, stopper, terminal, shutdown, history>>

UndoVirtual(r) ==
    /\ At(r, "undo")
    /\ DeletePair(starter[r].node) \/ DeletePairFails(starter[r].node)
    /\ GoTo(r, "error")
    /\ UNCHANGED <<handles, nextID, buffers, graph, rt, bus, senders, stopper, terminal, shutdown, early>>

\* setResourceID and setHandleID
BindNode(r) ==
    /\ At(r, "bind")
    /\ rt' = [rt EXCEPT ![r].resource = @ \cup {starter[r].node}]
    /\ GoTo(r, "own")
    /\ UNCHANGED <<ports, graph, bus, senders, stopper, terminal, shutdown, history>>

\* addOwnedPort
OwnPort(r) ==
    /\ At(r, "own")
    /\ rt' = [rt EXCEPT ![r].owned = Append(@, starter[r].id)]
    /\ IF IsVirtual(starter[r].node) THEN GoTo(r, "ownV") ELSE NextNode(r)
    /\ UNCHANGED <<ports, graph, bus, senders, stopper, terminal, shutdown, history>>

\* addOwnedVirtualPort
OwnVirtual(r) ==
    /\ At(r, "ownV")
    /\ rt' = [rt EXCEPT ![r].ownedV = Append(@, starter[r].node)]
    /\ NextNode(r)
    /\ UNCHANGED <<ports, graph, bus, senders, stopper, terminal, shutdown, history>>

NodesStarted(r) ==
    /\ At(r, "node") /\ starter[r].node > Len(Nodes)
    /\ GoTo(r, "subscribe")
    /\ UNCHANGED <<ports, graph, rt, bus, senders, stopper, terminal, shutdown, history>>

\* subscribeSerialData
Subscribe(r) ==
    /\ At(r, "subscribe")
    /\ bus' = bus \cup {r}
    /\ rt' = [rt EXCEPT ![r].cancelData = TRUE]
    /\ GoTo(r, "auto")
    /\ UNCHANGED <<ports, graph, senders, stopper, terminal, shutdown, history>>

\* startAutoSenders, with or without a node that sends by itself
StartAutoSenders(r) ==
    /\ At(r, "auto")
    /\ GoTo(r, "started")
    /\ \/ /\ rt' = [rt EXCEPT ![r].cancelAuto = TRUE]
          /\ senders' = senders \cup {r}
       \/ UNCHANGED <<rt, senders>>
    /\ UNCHANGED <<ports, graph, bus, stopper, terminal, shutdown, history>>

\* graphAutoNodeData refuses the configuration of a sender.
StartAutoSendersFails(r) ==
    /\ At(r, "auto")
    /\ GoTo(r, "error")
    /\ UNCHANGED <<ports, graph, rt, bus, senders, stopper, terminal, shutdown, history>>

SetError(r) ==
    /\ At(r, "error")
    /\ rt' = [rt EXCEPT ![r].status = "error"]
    /\ GoTo(r, "unmap")
    /\ UNCHANGED <<ports, graph, bus, senders, stopper, terminal, shutdown, history>>

\* The failed start leaves the map, if it is still there, and calls stop().
Unmap(r) ==
    /\ At(r, "unmap")
    /\ graph' = IF graph = r THEN None ELSE graph
    /\ GoTo(r, "stop")
    /\ stopper' = [stopper EXCEPT ![<<r, "start">>].pc = "enter"]
    /\ UNCHANGED <<ports, rt, bus, senders, terminal, shutdown, history>>

StartFailed(r) ==
    /\ At(r, "stop") /\ stopper[<<r, "start">>].pc = "done"
    /\ GoTo(r, "failed")
    /\ UNCHANGED <<ports, graph, rt, bus, senders, stopper, terminal, shutdown, history>>

-----------------------------------------------------------------------------
(* StopSerialGraph and stop()                                              *)

StopSerialGraph(r) ==
    /\ graph = r
    /\ Overlap \/ (At(r, "started") /\ shutdown \in {"idle", "done"})
    /\ graph' = None
    /\ stopper' = [stopper EXCEPT ![<<r, "api">>].pc = "enter"]
    /\ UNCHANGED <<ports, rt, bus, senders, starter, terminal, shutdown, history>>

StopAgain(k) ==
    /\ stopper[k].pc = "enter" /\ rt[k[1]].status = "stopped"
    /\ stopper' = [stopper EXCEPT ![k].pc = "done"]
    /\ UNCHANGED <<ports, graph, rt, bus, senders, starter, terminal, shutdown, history>>

\* mutant: a runtime in error counts as stopped
StopEnterRunningOnly(k) ==
    LET r == k[1] IN
    /\ stopper[k].pc = "enter" /\ rt[r].status # "stopped"
    /\ stopper' = [stopper EXCEPT ![k] =
           IF rt[r].status = "error" THEN [NotStopping EXCEPT !.pc = "done"]
           ELSE [pc |-> "cancel", data |-> rt[r].cancelData, auto |-> rt[r].cancelAuto,
                 vports |-> rt[r].ownedV, ports |-> rt[r].owned]]
    /\ rt' = [rt EXCEPT ![r] = [NewRuntime EXCEPT !.status = "stopped", !.resource = rt[r].resource]]
    /\ UNCHANGED <<ports, graph, bus, senders, starter, terminal, shutdown, history>>

\* mutant: stop() deletes the virtual ports of the document, created or not
StopEnterAllVirtual(k) ==
    LET r == k[1] IN
    /\ stopper[k].pc = "enter" /\ rt[r].status # "stopped"
    /\ stopper' = [stopper EXCEPT ![k] =
           [pc |-> "cancel", data |-> rt[r].cancelData, auto |-> rt[r].cancelAuto,
            vports |-> SetToSeq({i \in DOMAIN Nodes : IsVirtual(i)}), ports |-> rt[r].owned]]
    /\ rt' = [rt EXCEPT ![r] = [NewRuntime EXCEPT !.status = "stopped", !.resource = rt[r].resource]]
    /\ UNCHANGED <<ports, graph, bus, senders, starter, terminal, shutdown, history>>

\* stop() takes everything the runtime has under its lock.
StopEnter(k) ==
    LET r == k[1] IN
    /\ stopper[k].pc = "enter" /\ rt[r].status # "stopped"
    /\ stopper' = [stopper EXCEPT ![k] =
           [pc |-> "cancel", data |-> rt[r].cancelData, auto |-> rt[r].cancelAuto,
            vports |-> rt[r].ownedV, ports |-> rt[r].owned]]
    /\ rt' = [rt EXCEPT ![r] = [NewRuntime EXCEPT !.status = "stopped", !.resource = rt[r].resource]]
    /\ UNCHANGED <<ports, graph, bus, senders, starter, terminal, shutdown, history>>

\* cancelData: the subscription leaves the bus.
CancelData(k) ==
    /\ stopper[k].pc = "cancel"
    /\ bus' = IF stopper[k].data THEN bus \ {k[1]} ELSE bus
    /\ stopper' = [stopper EXCEPT ![k].pc = "cancelAuto", ![k].data = FALSE]
    /\ UNCHANGED <<ports, graph, rt, senders, starter, terminal, shutdown, history>>

CancelAuto(k) ==
    /\ stopper[k].pc = "cancelAuto"
    /\ senders' = IF stopper[k].auto THEN senders \ {k[1]} ELSE senders
    /\ stopper' = [stopper EXCEPT ![k].pc = "pairs", ![k].auto = FALSE]
    /\ UNCHANGED <<ports, graph, rt, bus, starter, terminal, shutdown, history>>

\* DeleteVirtualPort of every virtual port taken; one that fails is passed over.
StopPair(k) ==
    /\ stopper[k].pc = "pairs" /\ stopper[k].vports # << >>
    /\ DeletePair(Head(stopper[k].vports)) \/ DeletePairFails(Head(stopper[k].vports))
    /\ stopper' = [stopper EXCEPT ![k].vports = Tail(@)]
    /\ UNCHANGED <<handles, nextID, buffers, graph, rt, bus, senders, starter, terminal, shutdown, early>>

StopPairsDone(k) ==
    /\ stopper[k].pc = "pairs" /\ stopper[k].vports = << >>
    /\ stopper' = [stopper EXCEPT ![k].pc = "close"]
    /\ UNCHANGED <<ports, graph, rt, bus, senders, starter, terminal, shutdown, history>>

\* mutant: a handle somebody closed already ends the loop
StopCloseGivesUp(k) ==
    LET id == Head(stopper[k].ports) IN
    /\ stopper[k].pc = "close" /\ stopper[k].ports # << >>
    /\ handles' = Close(id)
    /\ stopper' = IF HasHandle(id) THEN [stopper EXCEPT ![k].pc = "buffer"]
                  ELSE [stopper EXCEPT ![k].ports = << >>]
    /\ UNCHANGED <<nextID, pairs, buffers, graph, rt, bus, senders, starter, terminal, shutdown, history>>

\* ClosePort of every handle taken: first the manager, then, unless the
\* handle was not found, the ring of the service.
StopClose(k) ==
    LET id == Head(stopper[k].ports) IN
    /\ stopper[k].pc = "close" /\ stopper[k].ports # << >>
    /\ handles' = Close(id)
    /\ stopper' = IF HasHandle(id) THEN [stopper EXCEPT ![k].pc = "buffer"]
                  ELSE [stopper EXCEPT ![k].ports = Tail(@)]
    /\ UNCHANGED <<nextID, pairs, buffers, graph, rt, bus, senders, starter, terminal, shutdown, history>>

StopBuffer(k) ==
    /\ stopper[k].pc = "buffer"
    /\ buffers' = buffers \ {Head(stopper[k].ports)}
    /\ stopper' = [stopper EXCEPT ![k].pc = "close", ![k].ports = Tail(@)]
    /\ UNCHANGED <<handles, nextID, pairs, graph, rt, bus, senders, starter, terminal, shutdown, history>>

StopDone(k) ==
    /\ stopper[k].pc = "close" /\ stopper[k].ports = << >>
    /\ stopper' = [stopper EXCEPT ![k].pc = "done"]
    /\ UNCHANGED <<ports, graph, rt, bus, senders, starter, terminal, shutdown, history>>

-----------------------------------------------------------------------------
(* Terminals: OpenPort and ClosePort of the service                        *)

Use(t, h) == terminal' = [terminal EXCEPT ![t] = [pc |-> "using", port |-> h.port, id |-> h.id]]

\* OpenPort returns the handle that has the port open, whoever opened it.
OpenPortShares(t, p) ==
    /\ terminal[t].pc = "idle" /\ IsOpen(p)
    /\ Use(t, HandleOf(p))
    /\ UNCHANGED <<ports, graph, rt, bus, senders, starter, stopper, shutdown, history>>

OpenPort(t, p) ==
    /\ terminal[t].pc = "idle" /\ ~IsOpen(p)
    /\ Overlap \/ shutdown \in {"idle", "done"}
    /\ terminal' = [terminal EXCEPT ![t].pc = "open", ![t].port = p]
    /\ UNCHANGED <<ports, graph, rt, bus, senders, starter, stopper, shutdown, history>>

OpenPortOpens(t) ==
    /\ terminal[t].pc = "open"
    /\ ManagerOpen(terminal[t].port, t)
    /\ terminal' = [terminal EXCEPT ![t].pc = "buffer", ![t].id = nextID + 1]
    /\ UNCHANGED <<pairs, buffers, graph, rt, bus, senders, starter, stopper, shutdown, history>>

\* The device refuses.
OpenPortFails(t) ==
    /\ terminal[t].pc = "open" /\ ~IsOpen(terminal[t].port)
    /\ terminal' = [terminal EXCEPT ![t] = IdleTerminal]
    /\ UNCHANGED <<ports, graph, rt, bus, senders, starter, stopper, shutdown, history>>

\* Somebody else opened the port since the first look: look again.
OpenPortConflict(t) ==
    /\ terminal[t].pc = "open" /\ IsOpen(terminal[t].port)
    /\ terminal' = [terminal EXCEPT ![t].pc = "again"]
    /\ UNCHANGED <<ports, graph, rt, bus, senders, starter, stopper, shutdown, history>>

OpenPortAgain(t) ==
    /\ terminal[t].pc = "again"
    /\ IF IsOpen(terminal[t].port) THEN Use(t, HandleOf(terminal[t].port))
       ELSE terminal' = [terminal EXCEPT ![t] = IdleTerminal]
    /\ UNCHANGED <<ports, graph, rt, bus, senders, starter, stopper, shutdown, history>>

\* The ring of the new handle
OpenPortBuffer(t) ==
    /\ terminal[t].pc = "buffer"
    /\ buffers' = buffers \cup {terminal[t].id}
    /\ terminal' = [terminal EXCEPT ![t].pc = "using"]
    /\ UNCHANGED <<handles, nextID, pairs, graph, rt, bus, senders, starter, stopper, shutdown, history>>

\* The opener of the handle has not yet stored its ring.
RingComes(id) == \E u \in Terminals : terminal[u].pc = "buffer" /\ terminal[u].id = id

\* ClosePort: the manager first; a handle that is gone already is an error.
ClosePort(t) ==
    /\ terminal[t].pc = "using"
    /\ Overlap \/ shutdown \in {"idle", "done"}
    /\ handles' = Close(terminal[t].id)
    /\ early' = IF RingComes(terminal[t].id) THEN early \cup {terminal[t].id} ELSE early
    /\ terminal' = IF HasHandle(terminal[t].id) THEN [terminal EXCEPT ![t].pc = "drop"]
                   ELSE [terminal EXCEPT ![t] = IdleTerminal]
    /\ UNCHANGED <<nextID, pairs, buffers, graph, rt, bus, senders, starter, stopper, shutdown, stuck>>

ClosePortBuffer(t) ==
    /\ terminal[t].pc = "drop"
    /\ buffers' = buffers \ {terminal[t].id}
    /\ terminal' = [terminal EXCEPT ![t] = IdleTerminal]
    /\ UNCHANGED <<handles, nextID, pairs, graph, rt, bus, senders, starter, stopper, shutdown, history>>

-----------------------------------------------------------------------------
(* cleanup() at shutdown                                                   *)

\* stopAllSerialGraphs takes the map and stops what was in it.
Cleanup ==
    /\ shutdown \in {"idle", "done"}
    /\ Overlap \/ Quiet
    /\ graph' = None
    /\ stopper' = IF graph = None THEN stopper ELSE [stopper EXCEPT ![<<graph, "api">>].pc = "enter"]
    /\ shutdown' = "graphs"
    /\ UNCHANGED <<ports, rt, bus, senders, starter, terminal, history>>

\* The stops this cleanup waits for: those of the graphs it took out.
GraphsStopped == \A r \in Runtimes : stopper[<<r, "api">>].pc \in {"idle", "done"}

\* PortManager.CloseAll
CleanupPorts ==
    /\ shutdown = "graphs" /\ GraphsStopped
    /\ handles' = {}
    /\ shutdown' = "close"
    /\ UNCHANGED <<nextID, pairs, buffers, graph, rt, bus, senders, starter, stopper, terminal, history>>

\* Cleanup of the virtual serial manager
CleanupPairs ==
    /\ shutdown = "close"
    /\ pairs' = {}
    /\ shutdown' = "pairs"
    /\ UNCHANGED <<handles, nextID, buffers, graph, rt, bus, senders, starter, stopper, terminal, history>>

\* The maps of the service are made anew.
CleanupMaps ==
    /\ shutdown = "pairs"
    /\ buffers' = {} /\ graph' = None
    /\ shutdown' = "done"
    /\ UNCHANGED <<handles, nextID, pairs, rt, bus, senders, starter, stopper, terminal, history>>

-----------------------------------------------------------------------------
StartStep(r) ==
    \/ Begin(r) \/ CheckNode(r) \/ RefuseNode(r)
    \/ CreateVirtual(r) \/ CreateVirtualFails(r)
    \/ OpenNode(r) \/ OpenNodeFails(r) \/ UndoVirtual(r)
    \/ BindNode(r) \/ OwnPort(r) \/ OwnVirtual(r)
    \/ NodesStarted(r) \/ Subscribe(r)
    \/ StartAutoSenders(r) \/ StartAutoSendersFails(r)
    \/ SetError(r) \/ Unmap(r) \/ StartFailed(r)

StopStep(k) ==
    \/ StopAgain(k) \/ StopEnter(k) \/ CancelData(k) \/ CancelAuto(k)
    \/ StopPair(k) \/ StopPairsDone(k)
    \/ StopClose(k) \/ StopBuffer(k) \/ StopDone(k)

TerminalStep(t) ==
    \/ OpenPortOpens(t) \/ OpenPortFails(t) \/ OpenPortConflict(t) \/ OpenPortAgain(t)
    \/ OpenPortBuffer(t) \/ ClosePortBuffer(t)

CleanupStep == CleanupPorts \/ CleanupPairs \/ CleanupMaps

Next ==
    \/ \E r \in Runtimes : StartSerialGraph(r) \/ StartStep(r) \/ StopSerialGraph(r)
    \/ \E k \in Runtimes \X Callers : StopStep(k)
    \/ \E t \in Terminals :
         \/ TerminalStep(t) \/ ClosePort(t)
         \/ \E p \in TerminalPorts : OpenPortShares(t, p) \/ OpenPort(t, p)
    \/ Cleanup \/ CleanupStep

Spec == Init /\ [][Next]_vars

-----------------------------------------------------------------------------
(* Properties                                                              *)

InProgress(r) == starter[r].pc \notin {"new", "started", "failed"}
StopEnds(r) == \A c \in Callers : stopper[<<r, c>>].pc \in {"idle", "done"}
StopWillTake(r) ==
    graph = r \/ InProgress(r) \/ \E c \in Callers : stopper[<<r, c>>].pc = "enter"

\* Every open handle has somebody who can still close it: the terminal that has it,
\* a stop under way, or a runtime that can still be stopped.
HandlesAreOwned ==
    \A h \in handles :
        \/ \E t \in Terminals : terminal[t].id = h.id /\ terminal[t].pc \in {"buffer", "using"}
        \/ \E r \in Runtimes :
             \/ h.id \in Range(rt[r].owned) /\ StopWillTake(r)
             \/ \E c \in Callers : h.id \in Range(stopper[<<r, c>>].ports)
             \/ starter[r].pc \in {"bind", "own"} /\ starter[r].id = h.id

\* Every virtual port of the graph has somebody who will delete it, unless
\* the backend refused to: nobody tries again (before the shutdown).
PairsAreOwned ==
    \A p \in pairs \ stuck :
        \/ p.id \in Range(rt[p.owner].ownedV) /\ StopWillTake(p.owner)
        \/ \E c \in Callers : p.id \in Range(stopper[<<p.owner, c>>].vports)
        \/ starter[p.owner].pc \in {"open", "undo", "bind", "own", "ownV"} /\ starter[p.owner].node = p.id

\* A ring belongs to an open handle, or ClosePort is about to delete it.
RingGoes(id) ==
    \/ HasHandle(id)
    \/ shutdown \notin {"idle", "done"}
    \/ \E t \in Terminals : terminal[t].id = id /\ terminal[t].pc = "drop"
    \/ \E k \in Runtimes \X Callers : stopper[k].pc = "buffer" /\ Head(stopper[k].ports) = id

\* "ClosePort closes a serial port and removes its buffer": no ring outlives
\* its handle, but one that was stored after the handle was closed.  (A second
\* caller of OpenPort is handed the handle before its ring is stored, and its
\* ClosePort then comes too early: that ring stays.)
BufferHasHandle == \A id \in buffers \ early : RingGoes(id)

\* Nothing is orphaned, on any path through the early returns of
\* startResourceNodes and startVirtualNode and the lists that stop takes:
\* every open handle has somebody who can still close it, and every virtual
\* port that the backend did not refuse to delete somebody who will delete
\* it.  Without one the port stays busy until the program ends.  And no ring
\* outlives its handle but one that was stored after the handle was closed.
NothingOrphaned == HandlesAreOwned /\ PairsAreOwned /\ BufferHasHandle

\* Nothing of the runtime is left, subscription, senders, handles, pairs, but
\* the pairs that the backend refused to stop.
Clean(r) ==
    /\ r \notin bus /\ r \notin senders
    /\ \A h \in handles : h.by # r
    /\ \A p \in pairs \ stuck : p.owner # r

\* "StopSerialGraph stops one graph and releases every graph-owned resource":
\* once start and stop of a runtime are over, nothing of it is left.
StoppedIsClean ==
    \A r \in Runtimes :
        ~InProgress(r) /\ StopEnds(r) /\ stopper[<<r, "api">>].pc = "done" => Clean(r)

\* A start that failed at any of its steps leaves nothing behind that could
\* be given back, not even when a stop of the same runtime ran in the middle
\* of it and took a part of the lists (setError makes stop() run once more).
FailedStartIsClean ==
    \A r \in Runtimes : At(r, "failed") /\ StopEnds(r) => Clean(r)

\* A graph whose start returned and that nobody stopped is in the map, where
\* StopSerialGraph finds it: a failed start takes out only itself, also when
\* another start of the same graph took its place.
StartedIsListed ==
    \A r \in Runtimes :
        At(r, "started") /\ stopper[<<r, "api">>].pc = "idle" /\ shutdown = "idle" => graph = r

\* A failed start costs itself everything and nobody else anything.
FailedStartIsUndone == FailedStartIsClean /\ StartedIsListed

\* A graph that runs has all its ports: the stop of the runtime before it,
\* which may still be under way, takes nothing from it (same graph id, same
\* virtual port ids).  A terminal that opens the port of a node is given the
\* handle of the graph and may close it: such a port may be missing.
RunningHasPorts ==
    \A r \in Runtimes : graph = r /\ At(r, "started") /\ shutdown \in {"idle", "done"} =>
        /\ rt[r].status = "running" /\ r \in bus
        /\ \A i \in DOMAIN Nodes :
             /\ \/ \E h \in handles : h.port = Nodes[i].endpoint /\ h.id \in Range(rt[r].owned)
                \/ Nodes[i].endpoint \in TerminalPorts
             /\ IsVirtual(i) => [id |-> i, owner |-> r] \in pairs
=============================================================================
