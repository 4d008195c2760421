------------------------------ MODULE MCGraphs ------------------------------
(***************************************************************************)
(* Serial graphs on small instances.  A behaviour is of one of these       *)
(* parts, and the others keep still: the search for a cycle, the routing   *)
(* of bytes through a graph, the validation of a graph, what a filter node *)
(* lets pass, and the runs of a script node.                               *)
(***************************************************************************)
EXTENDS CycleCheck, GraphRouting, GraphValidation, ScriptNode, SequencesExt

CONSTANTS
    MaxDrawn,            \* bound on the edges of a graph that is validated
    MaxPieces            \* bound on the pieces of a filter expression

\* A node of every kind of receiver
MCTypeOf ==
    "v" :> "virtual" @@ "b" :> "bridge" @@ "m" :> "master" @@ "s" :> "slave" @@
    "p" :> "physical" @@ "f" :> "filter"
MCNode == DOMAIN MCTypeOf

\* Script nodes: a transform calls once, an analyzer gets one input that alone
\* is too large, a generator calls twice.
MCConfigs ==
    [type : ScriptTypes, empty : {FALSE}, limits : {<<3, 3>>}, passes : {FALSE}]
    \cup [type : {"transform"}, empty : BOOLEAN, limits : {<<0, -1>>}, passes : {TRUE}]
MCMaxCalls == [transform |-> 1, analyzer |-> 0, generator |-> 2]
MCInputSizes == [transform |-> {2}, analyzer |-> {1, 4}, generator |-> {2}]

VARIABLES
    part,     \* the part that moves
    item      \* what is filtered

Filter == INSTANCE GraphFilter

ASSUME TypeAssumption

-----------------------------------------------------------------------------
\* Graphs to validate: a list of nodes, and edges drawn one by one

Config(portName) == [NoConfig EXCEPT !.portName = portName]
Remote(port) == [NoConfig EXCEPT !.host = "host", !.port = port]
N(id, type) == NodeSpec(id, type, Config(Absent))

RoutedNodes ==
    {<<N("a", "serial.virtual"), N("b", "serial.modbus.master"), N("c", "serial.filter")>>,
     <<N("a", "serial.bridge"), N("b", "serial.fecbus.slave"), N("c", "serial.script.generator")>>,
     <<N("a", "serial.physical"), N("b", "serial.monitor"), N("a", "serial.filter")>>,
     <<N("a", "serial.script.transform"), N("", "serial.virtual"), N("c", "unknown")>>}

\* One remote node, with one or two of its values at a limit or wrong
RemoteValues ==
    [protocol |-> {Absent, "", "udp"}, role |-> {Absent, "", "server", "peer"},
     host |-> {Absent, "", "HOST", "tcp://host"}, port |-> {Absent, NotInt, 0, 1, 65535, 65536},
     connectTimeoutMs |-> {Absent, NotInt, 99, 100, 60000, 60001}, writeTimeoutMs |-> {99, 100},
     reconnectIntervalMs |-> {99, 100}, readBufKB |-> {Absent, NotInt, 0, 1, 1024, 1025}]

ValuePairs == UNION {{<<k, v>> : v \in RemoteValues[k]} : k \in DOMAIN RemoteValues}
RemoteConfigs == {[[Remote(3001) EXCEPT ![p[1]] = p[2]] EXCEPT ![q[1]] = q[2]] : p, q \in ValuePairs}

\* Two nodes that may claim the same port or endpoint
TwoOwners ==
    LET virtual(id, n) == NodeSpec(id, "serial.virtual", Config(n))
        physical(id, n) == NodeSpec(id, "serial.physical", Config(n))
        remote(id, c) == NodeSpec(id, "serial.remote", c)
    IN  {<<virtual("a", m), physical("b", n)>> : m, n \in {Absent, "", "com1", "com2"}}
        \cup {<<remote("a", Remote(3001)), remote("b", c)>> : c \in RemoteConfigs}

MCNodeLists == RoutedNodes \cup TwoOwners \cup {<<NodeSpec("a", "serial.remote", c)>> : c \in RemoteConfigs}

\* Edges between handles that exist, and some that are wrong; every second
\* one is written in camel case.
Ends(nodes) ==
    {<<m.id, out, n.id, in>> : m, n \in Range(nodes), out \in {"rx", "tx", "out", "b-out"}, in \in {"tx", "in", "rx", "a-in"}}
HasHandles(nodes, end) ==
    \E m, n \in Range(nodes) :
        /\ m.id = end[1] /\ m.type # "unknown" /\ end[2] \in RuntimeProviders[m.type].outputs
        /\ n.id = end[3] /\ n.type # "unknown" /\ end[4] \in RuntimeProviders[n.type].inputs
Wrong == {<<"a", "rx", "x", "in">>, <<"x", "out", "a", "tx">>, <<"a", "in", "c", "out">>, <<"a", "out", "c", "in">>}

Drawn(id, end, camel) ==
    IF camel
    THEN [EdgeSpec(id, end[1], "", end[3], "") EXCEPT !.outCamel = end[2], !.inCamel = end[4]]
    ELSE EdgeSpec(id, end[1], end[2], end[3], end[4])

Draw ==
    LET k == Len(graph.edges) + 1 IN
    /\ k <= MaxDrawn /\ graph.nodes \in RoutedNodes
    /\ \E end \in Wrong \cup {x \in Ends(graph.nodes) : HasHandles(graph.nodes, x)}, id \in {"", ToString(1), ToString(k)} :
        DrawEdge(Drawn(id, end, k % 2 = 0))

-----------------------------------------------------------------------------
NoItem == << >>
NoGraph == [nodes |-> << >>, edges |-> << >>]
Demos ==
    {ObservabilityDemo(n) : n \in {"", "com1"}}
    \cup UNION {Range(RemoteDemo(h, p)) : h \in {"", "HOST", "tcp://host"}, p \in RemoteValues.port}

NoSearch ==
    /\ draft = CHOOSE e \in Arc : TRUE
    /\ others = {} /\ pending = {} /\ visited = {} /\ result = "searching"

-----------------------------------------------------------------------------
\* Filters: expressions put together from pieces, keywords, and bytes

Token(kind, value) == <<Filter!Token(kind, value)>>
Keyword(word) == Token("ident", word)
True == Keyword("len") \o Token("operator", ">=") \o Token("number", 2)
False == Keyword("text") \o Keyword("contains") \o Token("string", <<"b">>)
Pieces ==
    {Token("(", "("), Token(")", ")"), Keyword("and"), Keyword("or"), Keyword("not"), True, False}
BrokenPieces ==
    {Keyword("hex"), Keyword("size"), Token("operator", "<"), Token("operator", "!="), Token("number", 3),
     Token("string", <<"a">>)}

AddPiece ==
    /\ "pieces" \in DOMAIN item /\ item.pieces < MaxPieces
    /\ \E p \in Pieces \cup (IF item.pieces <= 2 THEN BrokenPieces ELSE {}) :
        item' = [pieces |-> item.pieces + 1, tokens |-> item.tokens \o p]

Texts == {<< >>, <<"a">>, <<"A", "b">>, <<"a", " ", "b">>, <<"+", "a", "b">>, <<"b">>}
Candidate(text, message, level) ==
    [f \in Filter!LengthFields |-> IF f = "len" THEN 0 ELSE 2]
    @@ [f \in Range(Filter!TextFields) |->
            CASE f = "text" -> text [] f = "message" -> message [] f = "level" -> level
              [] f = "payloadtext" -> <<"a">> [] OTHER -> << >>]

Options(mode, expression) ==
    [mode : {mode}, expression : {expression}, caseSensitive : BOOLEAN, wholeWord : BOOLEAN]
KeywordItems ==
    UNION {[candidate : {Candidate(t, m, l) : t, m, l \in Texts}, options : Options("plain", k)] :
            k \in (Texts \cup {<<"b", "a">>, <<"a", "A">>, <<"2">>}) \ {<< >>}}

Bytes == {"A", "0"} \X {"0", "b"}
HexItems == [payload : UNION {[1 .. n -> Bytes] : n \in 0 .. 3}, bytes : UNION {[1 .. n -> Bytes] : n \in 1 .. 2}]

FilterItems == KeywordItems \cup HexItems \cup {[pieces |-> 0, tokens |-> << >>]}

NoOptions == [caseSensitive |-> FALSE, wholeWord |-> FALSE]

-----------------------------------------------------------------------------
NoScript == config = (CHOOSE c \in Configs : c.type = "generator") /\ ScriptInit

MCInit ==
    /\ Init
    /\ \/ part = "search" /\ SearchInit /\ item = NoItem /\ graph = NoGraph /\ NoScript
       \/ part = "routing" /\ NoSearch /\ item = NoItem /\ graph = NoGraph /\ NoScript
       \/ /\ part = "validation" /\ NoSearch /\ item = NoItem /\ NoScript
          /\ graph \in Demos \cup [nodes : MCNodeLists, edges : {<< >>}]
       \/ part = "filter" /\ NoSearch /\ item \in FilterItems /\ graph = NoGraph /\ NoScript
       \/ part = "script" /\ NoSearch /\ item = NoItem /\ graph = NoGraph /\ ScriptInit

MCNext ==
    \/ part = "search" /\ SearchNext /\ UNCHANGED <<part, item, graph, vars, scriptVars>>
    \/ part = "routing" /\ Next /\ UNCHANGED <<part, item, graph, searchVars, scriptVars>>
    \/ part = "validation" /\ Draw /\ UNCHANGED <<part, item, vars, searchVars, scriptVars>>
    \/ part = "filter" /\ AddPiece /\ UNCHANGED <<part, graph, vars, searchVars, scriptVars>>
    \/ part = "script" /\ ScriptNext /\ UNCHANGED <<part, item, graph, vars, searchVars>>

MCSpec == MCInit /\ [][MCNext]_<<part, searchVars, vars, item, graph, scriptVars>>

-----------------------------------------------------------------------------
\* serial_graph_validate and serial_graph_start take the demo graphs of the
\* tools: see GraphValidation.
ASSUME DemosAreValid == \A g \in Demos : DemoIsValid(g)

\* A filter passes what its expression, keyword or bytes say: see GraphFilter.
FilterIsExact == part = "filter" =>
    /\ "tokens" \in DOMAIN item => Filter!ParserIsExact(item.tokens, Candidate(<<"a">>, << >>, << >>), NoOptions)
    /\ "candidate" \in DOMAIN item => Filter!KeywordInOneField(item.candidate, item.options)
    /\ "payload" \in DOMAIN item => Filter!HexFindsBytes(item.payload, item.bytes)
=============================================================================
