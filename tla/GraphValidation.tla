-------------------------- MODULE GraphValidation --------------------------
(***************************************************************************)
(* The two validators of a serial graph: validateSerialGraph of            *)
(* mcpserver/server.go answers the tool serial_graph_validate, and         *)
(* validateSerialGraphRuntimeRequest of graph_runtime.go decides whether   *)
(* StartSerialGraph goes on.  They are two copies of the same rules, which *)
(* a client relies on: it validates with one and starts with the other.    *)
(*                                                                         *)
(* An error is the id of a node or an edge and what is wrong with it.  A   *)
(* string is blank when trimming leaves nothing.                           *)
(***************************************************************************)
EXTENDS Integers, Sequences

CONSTANTS
    Absent,   \* a configuration value that is not there
    NotInt    \* null, a fraction, or a text that is no number

VARIABLE
    graph     \* the graph of a request: [nodes, edges]

\* The requests: any texts, and any values that JSON may have for a number
Text == STRING \cup {Absent}
Number == Int \cup {Absent, NotInt}
NodeSpecs ==
    [id : STRING, type : STRING,
     config : [portName : Text, protocol : Text, role : Text, host : Text, port : Number,
               connectTimeoutMs : Number, writeTimeoutMs : Number, reconnectIntervalMs : Number, readBufKB : Number]]
EdgeSpecs ==
    [id : STRING, source : STRING, out : STRING, target : STRING, in : STRING, outCamel : STRING, inCamel : STRING]
Graph == [nodes : Seq(NodeSpecs), edges : Seq(EdgeSpecs)]

-----------------------------------------------------------------------------
(* Providers                                                               *)

Provider(inputs, outputs, owner, keys) ==
    [inputs |-> inputs, outputs |-> outputs, owner |-> owner, keys |-> keys]

ProtocolTypes == {"serial.modbus.master", "serial.modbus.slave", "serial.fecbus.master", "serial.fecbus.slave"}
ScriptNodeTypes == {"serial.script.transform", "serial.script.generator", "serial.script.analyzer"}
DeviceTypes == {"serial.physical", "serial.virtual", "serial.remote"}
NodeTypes ==
    DeviceTypes \cup {"serial.bridge", "serial.monitor", "serial.filter"} \cup ScriptNodeTypes \cup ProtocolTypes

RuntimeProviders ==
    [t \in NodeTypes |->
        CASE t \in {"serial.physical", "serial.virtual"} -> Provider({"tx"}, {"rx"}, TRUE, {"portName"})
          [] t = "serial.remote" -> Provider({"tx"}, {"rx"}, TRUE, {})
          [] t = "serial.bridge" -> Provider({"a-in", "b-in"}, {"a-out", "b-out"}, FALSE, {})
          [] t \in {"serial.monitor", "serial.script.analyzer"} -> Provider({"in"}, {}, FALSE, {})
          [] t \in {"serial.filter", "serial.script.transform"} -> Provider({"in"}, {"out"}, FALSE, {})
          [] t = "serial.script.generator" -> Provider({}, {"out"}, FALSE, {})
          [] t \in ProtocolTypes -> Provider({"rx"}, {"tx"}, FALSE, {})]

\* The copy of the tools: their nodes have titles and default values as well.
ToolProviders ==
    [t \in NodeTypes |->
        IF t \in DeviceTypes THEN Provider({"tx"}, {"rx"}, TRUE, IF t = "serial.remote" THEN {} ELSE {"portName"})
        ELSE IF t = "serial.bridge" THEN Provider({"a-in", "b-in"}, {"a-out", "b-out"}, FALSE, {})
        ELSE IF t \in ProtocolTypes THEN Provider({"rx"}, {"tx"}, FALSE, {})
        ELSE Provider(IF t = "serial.script.generator" THEN {} ELSE {"in"},
                      IF t \in {"serial.monitor", "serial.script.analyzer"} THEN {} ELSE {"out"}, FALSE, {})]

-----------------------------------------------------------------------------
(* Configuration values                                                    *)

\* A value that is not there, or blank, is replaced by the runtime; the tools
\* keep a blank one.
RuntimeString(value, default) == IF value \in {Absent, ""} THEN default ELSE value
ToolString(value, default) == IF value = Absent THEN default ELSE value

StrictInt(value, default) == IF value = Absent THEN default ELSE value

HasScheme(host) == host = "tcp://host"
Lower(host) == IF host = "HOST" THEN "host" ELSE host

\* The integers of a remote node: default, least and greatest value
Limits ==
    [port |-> <<3001, 1, 65535>>, connectTimeoutMs |-> <<3000, 100, 60000>>,
     writeTimeoutMs |-> <<3000, 100, 60000>>, reconnectIntervalMs |-> <<1000, 100, 60000>>,
     readBufKB |-> <<32, 1, 1024>>]

IntError(config, key) ==
    LET value == StrictInt(config[key], Limits[key][1]) IN
    value = NotInt \/ value < Limits[key][2] \/ value > Limits[key][3]

When(wrong, what) == IF wrong THEN {what} ELSE {}

RemoteErrors(config, StringOf(_, _)) ==
    {key \in DOMAIN Limits : IntError(config, key)}
    \cup When(StringOf(config.protocol, "raw-tcp") # "raw-tcp", "protocol")
    \cup When(StringOf(config.role, "client") \notin {"client", "server"}, "role")
    \cup When(config.host \in {Absent, ""} \/ HasScheme(config.host), "host")

RuntimeRemoteErrors(config) == RemoteErrors(config, RuntimeString)
ToolRemoteErrors(config) == RemoteErrors(config, ToolString)

\* What two nodes may not share; << >> if there is nothing to share.  The
\* runtime knows an endpoint only if all of the configuration is right.
Endpoint(config, StringOf(_, _)) ==
    <<"remote", Lower(config.host), StrictInt(config.port, 3001), StringOf(config.role, "client")>>
RuntimeEndpoint(config) ==
    IF RuntimeRemoteErrors(config) = {} THEN Endpoint(config, RuntimeString) ELSE << >>
ToolEndpoint(config) ==
    IF ToolRemoteErrors(config) \cap {"host", "port"} = {} THEN Endpoint(config, ToolString) ELSE << >>
PortKey(config) == IF config.portName \in {Absent, ""} THEN << >> ELSE <<"portName", config.portName>>

-----------------------------------------------------------------------------
(* Validation                                                              *)

\* The nodes by id: the first node with an id counts.
Known(g) == {g.nodes[i].id : i \in DOMAIN g.nodes} \ {""}
First(nodes, id) ==
    CHOOSE i \in DOMAIN nodes : nodes[i].id = id /\ \A j \in 1 .. i - 1 : nodes[j].id # id
NodeAt(g, id) == g.nodes[First(g.nodes, id)]
Again(list, i) == \E j \in 1 .. i - 1 : list[j].id = list[i].id

NodeErrors(node, providers, Remote(_)) ==
    When(node.type \notin DOMAIN providers, <<node.id, "provider">>)
    \cup (IF node.type = "serial.remote" THEN {<<node.id, what>> : what \in Remote(node.config)} ELSE {})

AllNodeErrors(g, providers, Remote(_)) ==
    UNION {LET node == g.nodes[i] IN
           IF node.id = "" THEN {<<"", "empty id">>}
           ELSE IF Again(g.nodes, i) THEN {<<node.id, "duplicate">>}
           ELSE NodeErrors(node, providers, Remote) : i \in DOMAIN g.nodes}

ResourceErrors(g, providers, EndpointOf(_)) ==
    LET owner(node) == node.type \in DOMAIN providers /\ providers[node.type].owner
        key(node) ==
            IF ~owner(node) THEN << >>
            ELSE IF node.type = "serial.remote" THEN EndpointOf(node.config)
            ELSE PortKey(node.config)
    IN  {<<g.nodes[i].id, "resource">> : i \in
            {k \in DOMAIN g.nodes : key(g.nodes[k]) # << >>
                /\ \E j \in 1 .. k - 1 : key(g.nodes[j]) = key(g.nodes[k])}}

TerminalTypes == {"serial.modbus.master", "serial.fecbus.master"}
IntoMaster(g, e) ==
    e.in = "rx" /\ e.target \in Known(g) /\ NodeAt(g, e.target).type \in TerminalTypes

Others(g, e) == {g.edges[i] : i \in {j \in DOMAIN g.edges : g.edges[j].id # e.id}}

\* mutant: edges into masters count
ClosesCycleAnywhere(g, e) ==
    LET ids == {e.source, e.target} \cup UNION {{f.source, f.target} : f \in Others(g, e)} IN
    \A S \in SUBSET ids :
        e.target \in S /\ (\A f \in Others(g, e) : f.source \in S => f.target \in S) => e.source \in S

\* What the search for a cycle answers: CycleCheck.
ClosesCycle(g, e) ==
    LET counted == {f \in Others(g, e) : ~IntoMaster(g, f)}
        ids == {f.source : f \in counted} \cup {f.target : f \in counted} \cup {e.source, e.target}
    IN  \A S \in SUBSET ids :
            e.target \in S /\ (\A f \in counted : f.source \in S => f.target \in S) => e.source \in S

\* What is wrong with an edge.  When its nodes, their providers or its
\* handles are not there, what needs them is not looked at.
Connection(g, providers, e) ==
    LET source == NodeAt(g, e.source)
        target == NodeAt(g, e.target)
        nodes == [source |-> e.source \in Known(g), target |-> e.target \in Known(g)]
        kinds == [source |-> source.type \in DOMAIN providers, target |-> target.type \in DOMAIN providers]
        out == e.out \in providers[source.type].outputs
        in == e.in \in providers[target.type].inputs
        taken == \E f \in Others(g, e) : f.target = e.target /\ f.in = e.in
        cycle == ~IntoMaster(g, e) /\ ClosesCycle(g, e)
    IN  IF ~nodes.source \/ ~nodes.target
        THEN When(~nodes.source, "source") \cup When(~nodes.target, "target")
        ELSE When(e.source = e.target, "itself") \cup
            (IF ~kinds.source \/ ~kinds.target THEN {"provider"}
             ELSE IF ~out \/ ~in THEN When(~out, "output") \cup When(~in, "input")
             ELSE When(taken, "taken") \cup When(cycle, "cycle"))

EdgeErrors(g, Check(_)) ==
    UNION {LET e == g.edges[i] IN
           IF e.id = "" THEN {<<"", "empty id">>}
           ELSE IF Again(g.edges, i) THEN {<<e.id, "duplicate">>}
           ELSE {<<e.id, what>> : what \in Check(e)} : i \in DOMAIN g.edges}

\* validateSerialGraphRuntimeRequest; of an edge between nodes without a
\* provider it says no more than the nodes do.
RuntimeErrors(g) ==
    LET check(e) == Connection(g, RuntimeProviders, e) \ {"provider"} IN
    AllNodeErrors(g, RuntimeProviders, RuntimeRemoteErrors)
    \cup ResourceErrors(g, RuntimeProviders, RuntimeEndpoint)
    \cup EdgeErrors(g, check)

\* A handle may be written in snake or in camel case; snake case wins.
Normal(e) ==
    [e EXCEPT !.out = IF @ = "" THEN e.outCamel ELSE @, !.in = IF @ = "" THEN e.inCamel ELSE @]
Normalized(g) == [g EXCEPT !.edges = [i \in DOMAIN @ |-> Normal(@[i])]]

\* mutant: the other edges are compared as they were written
ToolErrorsRaw(g) ==
    LET check(e) == Connection(g, ToolProviders, Normal(e)) IN
    AllNodeErrors(g, ToolProviders, ToolRemoteErrors)
    \cup ResourceErrors(g, ToolProviders, ToolEndpoint)
    \cup EdgeErrors(g, check)

\* validateSerialGraph
ToolErrors(g) ==
    LET h == Normalized(g)
        check(e) == Connection(h, ToolProviders, e)
    IN  AllNodeErrors(h, ToolProviders, ToolRemoteErrors)
        \cup ResourceErrors(h, ToolProviders, ToolEndpoint)
        \cup EdgeErrors(h, check)

\* serialGraphStartRequest: the graph that serial_graph_start starts
StartRequest(g) == Normalized(g)

-----------------------------------------------------------------------------
(* The demo templates of the tools                                         *)

EdgeSpec(id, source, out, target, in) ==
    [id |-> id, source |-> source, out |-> out, target |-> target, in |-> in, outCamel |-> "", inCamel |-> ""]
NodeSpec(id, type, config) == [id |-> id, type |-> type, config |-> config]
NoConfig ==
    [portName |-> Absent, protocol |-> Absent, role |-> Absent, host |-> Absent, port |-> Absent,
     connectTimeoutMs |-> Absent, writeTimeoutMs |-> Absent, reconnectIntervalMs |-> Absent, readBufKB |-> Absent]

Filters == <<"plain", "regex", "expression">>

ObservabilityDemo(portName) ==
    [nodes |->
        <<NodeSpec("generator", "serial.script.generator", NoConfig),
          NodeSpec("virtual", "serial.virtual", [NoConfig EXCEPT !.portName = portName])>>
        \o [i \in DOMAIN Filters |-> NodeSpec("filter-" \o Filters[i], "serial.filter", NoConfig)]
        \o [i \in DOMAIN Filters |-> NodeSpec("monitor-" \o Filters[i], "serial.monitor", NoConfig)],
     edges |->
        <<EdgeSpec("generator-virtual", "generator", "out", "virtual", "tx")>>
        \o [i \in DOMAIN Filters |-> EdgeSpec("to-" \o Filters[i], "virtual", "rx", "filter-" \o Filters[i], "in")]
        \o [i \in DOMAIN Filters |-> EdgeSpec("from-" \o Filters[i], "filter-" \o Filters[i], "out", "monitor-" \o Filters[i], "in")]]

\* A blank host is the local one.  No graph when host or port are wrong.
RemoteDemo(host, port) ==
    LET h == IF host = "" THEN "127.0.0.1" ELSE host
        base == [NoConfig EXCEPT !.protocol = "raw-tcp", !.host = h, !.port = StrictInt(port, 3001),
                                 !.connectTimeoutMs = 3000, !.writeTimeoutMs = 3000,
                                 !.reconnectIntervalMs = 1000, !.readBufKB = 32]
        server == [base EXCEPT !.role = "server"]
        client == [base EXCEPT !.role = "client"]
    IN  IF ToolRemoteErrors(server) \cup ToolRemoteErrors(client) # {} THEN << >>
        ELSE <<[nodes |->
                <<NodeSpec("client-generator", "serial.script.generator", NoConfig),
                  NodeSpec("a-remote-server", "serial.remote", server),
                  NodeSpec("b-remote-client", "serial.remote", client),
                  NodeSpec("server-monitor", "serial.monitor", NoConfig),
                  NodeSpec("client-monitor", "serial.monitor", NoConfig)>>,
               edges |->
                <<EdgeSpec("client-generator-remote", "client-generator", "out", "b-remote-client", "tx"),
                  EdgeSpec("server-remote-monitor", "a-remote-server", "rx", "server-monitor", "in"),
                  EdgeSpec("client-remote-monitor", "b-remote-client", "rx", "client-monitor", "in")>>]>>

-----------------------------------------------------------------------------
\* A client adds edges to a graph, and asks for it to be validated or started.
DrawEdge(e) == graph' = [graph EXCEPT !.edges = Append(@, e)]

ValidationSpec == graph \in Graph /\ [][\E e \in EdgeSpecs : DrawEdge(e)]_graph

-----------------------------------------------------------------------------
(* Properties                                                              *)

\* A remote node whose protocol or role is there but blank
Blank(node) == node.type = "serial.remote" /\ "" \in {node.config.protocol, node.config.role}

\* What serial_graph_validate calls valid, serial_graph_start does not refuse,
\* and the two refuse the same, but for a blank protocol or role, which only
\* the tool refuses.
ValidatorsAgree ==
    LET valid == ToolErrors(graph) = {}
        starts == RuntimeErrors(StartRequest(graph)) = {}
    IN  /\ valid => starts
        /\ starts => valid \/ \E i \in DOMAIN graph.nodes : Blank(graph.nodes[i])

Listed(list) == {list[i] : i \in DOMAIN list}

\* No set of nodes in which each one is fed from the set along edges that
\* count: there is no directed cycle
Acyclic(g) ==
    LET counted == {e \in Listed(g.edges) : ~IntoMaster(g, e)} IN
    \A S \in (SUBSET Known(g)) \ {{}} :
        \E n \in S : \A e \in counted : e.target = n => e.source \notin S

UniqueIds(list) == \A i, j \in DOMAIN list : list[i].id # "" /\ (i # j => list[i].id # list[j].id)

\* The nodes can be there together: each is of a kind that is known and rightly
\* configured, and no two claim the same port or endpoint.
NodesFit(nodes) ==
    LET remotes == {n \in Listed(nodes) : n.type = "serial.remote"}
        claims == {n \in Listed(nodes) : n.type \in {"serial.physical", "serial.virtual"} /\ PortKey(n.config) # << >>}
    IN  /\ \A n \in Listed(nodes) : n.type \in DOMAIN RuntimeProviders
        /\ \A n \in remotes : RuntimeRemoteErrors(n.config) = {}
        /\ \A m, n \in remotes : m # n => RuntimeEndpoint(m.config) # RuntimeEndpoint(n.config)
        /\ \A m, n \in claims : m # n => m.config.portName # n.config.portName

\* An edge ends at handles that exist, of two nodes, and an input has one
\* source.
EdgesFit(nodes, edgeSet) ==
    /\ \A e \in edgeSet : e.source # e.target /\ \E m, n \in Listed(nodes) :
        /\ m.id = e.source /\ e.out \in RuntimeProviders[m.type].outputs
        /\ n.id = e.target /\ e.in \in RuntimeProviders[n.type].inputs
    /\ \A e, f \in edgeSet : e # f => <<e.target, e.in>> # <<f.target, f.in>>

\* A graph that starts is one that the runtime can route: ids name one node
\* or edge, nodes and edges fit, and the only directed cycles go through a
\* master; and what is refused breaks one of these rules.
StartsExactly ==
    LET g == StartRequest(graph) IN
    RuntimeErrors(g) = {} <=>
        /\ UniqueIds(g.nodes) /\ UniqueIds(g.edges)
        /\ NodesFit(g.nodes) /\ EdgesFit(g.nodes, Listed(g.edges))
        /\ Acyclic(g)

\* "usable with serial_graph_validate and serial_graph_start": a demo is valid.
DemoIsValid(g) == ToolErrors(g) = {} /\ RuntimeErrors(StartRequest(g)) = {}
=============================================================================
