---------------------------- MODULE GraphRouting ----------------------------
(***************************************************************************)
(* How bytes travel through a running serial graph: send, emit, receive    *)
(* and the handlers of the node types (graph_runtime.go), on the graphs    *)
(* that validateSerialGraphRuntimeRequest lets through.                    *)
(*                                                                         *)
(* emit calls receive for every target, and receive of most node types     *)
(* calls emit again: the recursion is a stack of emits here.  It has no    *)
(* bound of its own; validation has to give it one.                        *)
(*                                                                         *)
(* A graph is a set of edges, drawn one by one before it is started.  emit *)
(* serves the targets in the order of the request, here in any order.      *)
(* Modbus and FECbus masters and slaves route alike; what a filter or a    *)
(* script decides, and whether a device takes the bytes, is a choice.      *)
(***************************************************************************)
EXTENDS Integers, Sequences, FiniteSets

CONSTANTS
    Node,      \* ids of the nodes
    TypeOf,    \* their types
    MaxEdges   \* bound on the edges of a graph

Types == {"physical", "virtual", "remote", "bridge", "monitor", "filter", "transform",
          "generator", "analyzer", "master", "slave"}

\* What is assumed of the constants
TypeAssumption == TypeOf \in [Node -> Types] /\ MaxEdges \in Nat

\* serialGraphRuntimeProviders: the handles of the node types.  All ports are
\* of kind bytes and no input takes more than one edge.
InputsOf(t) ==
    CASE t \in {"physical", "virtual", "remote"} -> {"tx"}
      [] t = "bridge" -> {"a-in", "b-in"}
      [] t \in {"monitor", "filter", "transform", "analyzer"} -> {"in"}
      [] t \in {"master", "slave"} -> {"rx"}
      [] t = "generator" -> {}
OutputsOf(t) ==
    CASE t \in {"physical", "virtual", "remote"} -> {"rx"}
      [] t = "bridge" -> {"a-out", "b-out"}
      [] t \in {"filter", "transform", "generator"} -> {"out"}
      [] t \in {"master", "slave"} -> {"tx"}
      [] t \in {"monitor", "analyzer"} -> {}

Ports(Handles(_)) == UNION {{n} \X Handles(TypeOf[n]) : n \in Node}
Inputs == Ports(InputsOf)
Outputs == Ports(OutputsOf)
Edge == Outputs \X Inputs
From(e) == e[1]
To(e) == e[2]
NodeOf(port) == port[1]

VARIABLES
    edges,     \* the edges of the request
    running,   \* has the graph been started?
    stack,     \* the emits under way: port, targets left, error so far, told to the caller?
    received,  \* how often an input got bytes since the last injection
    emitted,   \* the outputs that emitted since then
    failed,    \* the inputs whose device refused the bytes
    error      \* did the injection return an error?

vars == <<edges, running, stack, received, emitted, failed, error>>

\* The shape of the state.
TypeOK ==
    /\ edges \subseteq Edge /\ running \in BOOLEAN
    /\ stack \in Seq([port : Outputs, todo : SUBSET Inputs, err : BOOLEAN, tell : BOOLEAN])
    /\ received \in [Inputs -> Nat]
    /\ emitted \subseteq Outputs /\ failed \subseteq Inputs
    /\ error \in BOOLEAN

Init ==
    /\ edges = {} /\ running = FALSE /\ stack = << >>
    /\ received = [i \in Inputs |-> 0]
    /\ emitted = {} /\ failed = {} /\ error = FALSE

-----------------------------------------------------------------------------
(* Validation                                                              *)

Master == {n \in Node : TypeOf[n] = "master"}
Search(d, arcs) ==
    INSTANCE CycleCheck WITH Vertex <- Node, Terminal <- Master, draft <- d, others <- arcs,
                             pending <- {}, visited <- {}, result <- "searching"
Pair(e) == <<NodeOf(From(e)), NodeOf(To(e))>>

\* graphRuntimeEdgeTargetsTerminalProtocolInput and the answer of
\* graphRuntimeCreatesCycle (CycleCheck shows that it is this one)
TargetsTerminal(e) == NodeOf(To(e)) \in Master
CreatesCycle(e) ==
    Search(Pair(e), {Pair(f) : f \in edges \ {e}})!Reaches(NodeOf(To(e)), NodeOf(From(e)))

SelfEdge(e) == NodeOf(From(e)) = NodeOf(To(e))
InputTaken(e) == \E f \in edges \ {e} : To(f) = To(e)

\* mutant: cycles are not searched for
ValidEdgeCyclic(e) == ~SelfEdge(e) /\ ~InputTaken(e)

\* validateGraphRuntimeEdge finds no error.
ValidEdge(e) ==
    /\ ~SelfEdge(e) /\ ~InputTaken(e)
    /\ TargetsTerminal(e) \/ ~CreatesCycle(e)

\* The author draws an edge.
Connect(e) ==
    /\ ~running /\ Cardinality(edges) < MaxEdges
    /\ edges' = edges \cup {e}
    /\ UNCHANGED <<running, stack, received, emitted, failed, error>>

\* StartSerialGraph refuses a graph with an error.
Start ==
    /\ ~running
    /\ \A e \in edges : ValidEdge(e)
    /\ running' = TRUE
    /\ UNCHANGED <<edges, stack, received, emitted, failed, error>>

-----------------------------------------------------------------------------
(* Routing                                                                 *)

Targets(port) == {To(e) : e \in {f \in edges : From(f) = port}}

Emit(port, tell) == [port |-> port, todo |-> Targets(port), err |-> FALSE, tell |-> tell]

\* Bytes enter by an output; got: the inputs that took them before.
Inject(port, got, tell) ==
    /\ running /\ stack = << >>
    /\ received' = [i \in Inputs |-> IF i \in got THEN 1 ELSE 0]
    /\ emitted' = {port} /\ failed' = {} /\ error' = FALSE
    /\ stack' = << Emit(port, tell) >>
    /\ UNCHANGED <<edges, running>>

\* A device or the remote end delivered some, a generator or auto sender
\* fired, or the user sends by a master or slave.
Deliver(port) ==
    /\ TypeOf[NodeOf(port)] \in {"physical", "virtual", "remote", "generator", "master", "slave"}
    /\ Inject(port, {}, TRUE)

\* The user sends by a virtual node: its tx input receives the bytes.  (By a
\* physical or remote node nothing is routed: the device is written to.)
SendVirtual(n) ==
    /\ TypeOf[n] = "virtual"
    /\ Inject(<<n, "rx">>, {<<n, "tx">>}, FALSE)

Top == stack[Len(stack)]
Deliverable(i) == stack # << >> /\ i \in Top.todo
TypeAt(i) == TypeOf[NodeOf(i)]
Take(i) == [stack EXCEPT ![Len(stack)].todo = @ \ {i}]
Count(i) == received' = [received EXCEPT ![i] = @ + 1]

\* receive of a node that goes on to emit; tell: is an error of that emit
\* returned to the caller (bridge) or dropped (all others)?
Forward(i, port, tell) ==
    /\ Count(i)
    /\ stack' = Append(Take(i), Emit(port, tell))
    /\ emitted' = emitted \cup {port}
    /\ UNCHANGED <<edges, running, failed, error>>

\* receive of a node that keeps the bytes: a monitor, an analyzer, a master
Keep(i) ==
    /\ Deliverable(i) /\ TypeAt(i) \in {"monitor", "analyzer", "master"}
    /\ Count(i) /\ stack' = Take(i)
    /\ UNCHANGED <<edges, running, emitted, failed, error>>

OtherSide(i) == <<NodeOf(i), IF i[2] = "a-in" THEN "b-out" ELSE "a-out">>

Bridge(i) ==
    /\ Deliverable(i) /\ TypeAt(i) = "bridge"
    /\ Forward(i, OtherSide(i), TRUE)

\* receive of serial.virtual: the loopback, then the peer of the port in a
\* goroutine of its own
Loopback(i) ==
    /\ Deliverable(i) /\ TypeAt(i) = "virtual"
    /\ Forward(i, <<NodeOf(i), "rx">>, FALSE)

\* handleFilter, handleScriptTransform: a match, or an output
Pass(i) ==
    /\ Deliverable(i) /\ TypeAt(i) \in {"filter", "transform"}
    /\ Forward(i, <<NodeOf(i), "out">>, FALSE)

\* handleModbusSlave, handleFecbusSlave: an answer
Answer(i) ==
    /\ Deliverable(i) /\ TypeAt(i) = "slave"
    /\ Forward(i, <<NodeOf(i), "tx">>, FALSE)

\* No match, a script that drops or fails, a frame that is not for the slave
\* or does not decode: only the status of the node changes.
Drop(i) ==
    /\ Deliverable(i) /\ TypeAt(i) \in {"filter", "transform", "slave"}
    /\ Count(i) /\ stack' = Take(i)
    /\ UNCHANGED <<edges, running, emitted, failed, error>>

\* manager.Write or writeRemoteNode
DeviceWrites(i) ==
    /\ Deliverable(i) /\ TypeAt(i) \in {"physical", "remote"}
    /\ Count(i) /\ stack' = Take(i)
    /\ UNCHANGED <<edges, running, emitted, failed, error>>

\* mutant: emit returns at the first error
DeviceFailsReturns(i) ==
    /\ Deliverable(i) /\ TypeAt(i) \in {"physical", "remote"}
    /\ Count(i)
    /\ stack' = [stack EXCEPT ![Len(stack)].todo = {}, ![Len(stack)].err = TRUE]
    /\ failed' = failed \cup {i}
    /\ UNCHANGED <<edges, running, emitted, error>>

DeviceFails(i) ==
    /\ Deliverable(i) /\ TypeAt(i) \in {"physical", "remote"}
    /\ Count(i)
    /\ stack' = [Take(i) EXCEPT ![Len(stack)].err = TRUE]
    /\ failed' = failed \cup {i}
    /\ UNCHANGED <<edges, running, emitted, error>>

Rest == SubSeq(stack, 1, Len(stack) - 1)

\* mutant: the error of an emit is forgotten by a later target
ReturnDrops ==
    /\ stack # << >> /\ Top.todo = {}
    /\ stack' = Rest
    /\ error' = IF Len(stack) = 1 THEN Top.err /\ Top.tell ELSE error
    /\ UNCHANGED <<edges, running, received, emitted, failed>>

\* emit returns the first error of its targets.
Return ==
    /\ stack # << >> /\ Top.todo = {}
    /\ IF Len(stack) = 1
       THEN stack' = << >> /\ error' = (Top.err /\ Top.tell)
       ELSE /\ stack' = IF Top.err /\ Top.tell THEN [Rest EXCEPT ![Len(Rest)].err = TRUE] ELSE Rest
            /\ UNCHANGED error
    /\ UNCHANGED <<edges, running, received, emitted, failed>>

Route ==
    \/ \E i \in Inputs :
         \/ Keep(i) \/ Bridge(i) \/ Loopback(i) \/ Pass(i) \/ Answer(i) \/ Drop(i)
         \/ DeviceWrites(i) \/ DeviceFails(i)
    \/ Return

Next ==
    \/ \E e \in Edge : Connect(e)
    \/ Start
    \/ \E port \in Outputs : Deliver(port)
    \/ \E n \in Node : SendVirtual(n)
    \/ Route

Spec == Init /\ [][Next]_vars

-----------------------------------------------------------------------------
(* Properties                                                              *)

NoNodeTwice ==
    \A j, k \in DOMAIN stack : j # k => NodeOf(stack[j].port) # NodeOf(stack[k].port)

\* No node emits within its own emit: the recursion of emit and receive never
\* comes back to a node, so it is no deeper than the graph has nodes.  An
\* input gets the bytes of one injection at most once, however the edges
\* branch and join; and when the injection is over, every target of every node
\* that emitted got them: a device that fails, a filter that drops, takes
\* nothing from its neighbours.
DeliveredOnce ==
    /\ NoNodeTwice
    /\ \A i \in Inputs : received[i] <= 1
    /\ stack = << >> => \A port \in emitted : \A i \in Targets(port) : received[i] = 1

\* The sender learns of a device that failed when only bridges are between,
\* and of nothing else: what an emit behind a filter, a loopback or a slave
\* returns is dropped, and no error is made up.
Drops(i) == TypeAt(i) \in {"virtual", "filter", "transform", "slave"}
ErrorIsTold ==
    stack = << >> =>
        /\ error => failed # {}
        /\ failed # {} /\ (\A i \in Inputs : received[i] > 0 => ~Drops(i)) => error
=============================================================================
