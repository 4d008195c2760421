---------------------------- MODULE GraphProofs -----------------------------
(***************************************************************************)
(* Serial graphs: validation for every graph, routing for every graph that *)
(* validation lets through, and every script node.                         *)
(*                                                                         *)
(* Routing: the recursion of emit and receive comes back to no node, every *)
(* target gets the bytes once, and the sender is told of what fails.       *)
(* Scripts: the runs of a node, any number at once, with any timeouts,     *)
(* keep its limits, its shared state and the newest of its frames.         *)
(* Validation: the two validators refuse the same graphs, but for a blank  *)
(* protocol or role, and those are the ones that break a rule of routing.  *)
(*                                                                         *)
(* The lemmas about the steps speak of the values of the variables before  *)
(* and after a step, not of the variables.                                 *)
(***************************************************************************)
EXTENDS GraphRouting, GraphValidation, ScriptNode, SequenceTheorems, FunctionTheorems, FiniteSetTheorems,
    WellFoundedInduction, TLAPS

Frame == [port : Outputs, todo : SUBSET Inputs, err : BOOLEAN, tell : BOOLEAN]

-----------------------------------------------------------------------------
(* What a graph leads to, as in CycleCheck: by closed sets of nodes        *)

ClosedIn(E, S) == \A f \in E : NodeOf(To(f)) \notin Master /\ NodeOf(From(f)) \in S => NodeOf(To(f)) \in S
Leads(E, a, b) == \A S \in SUBSET Node : a \in S /\ ClosedIn(E, S) => b \in S
Below(E, a, b) == Leads(E, a, b) /\ ~Leads(E, b, a)

\* The inputs an output is connected to
Goal(E, p) == {To(e) : e \in {f \in E : From(f) = p}}

\* The graphs that can be routed: an input takes one edge, and no edge but
\* those into masters closes a cycle.
Good(E) ==
    /\ E \subseteq Edge
    /\ \A e, f \in E : To(e) = To(f) => e = f
    /\ \A e \in E :
        /\ NodeOf(From(e)) # NodeOf(To(e))
        /\ NodeOf(To(e)) \notin Master => ~Leads(E, NodeOf(To(e)), NodeOf(From(e)))

\* The nodes that emit what they receive, and where
Forwarding(i) == TypeAt(i) \in {"bridge", "virtual", "filter", "transform", "slave"}
Onward(i) ==
    CASE TypeAt(i) = "bridge" -> OtherSide(i)
      [] TypeAt(i) = "virtual" -> <<NodeOf(i), "rx">>
      [] TypeAt(i) \in {"filter", "transform"} -> <<NodeOf(i), "out">>
      [] TypeAt(i) = "slave" -> <<NodeOf(i), "tx">>

-----------------------------------------------------------------------------
(* The inductive invariant, of edges, stack, received, emitted, failed and *)
(* error                                                                   *)

\* Every emit under way is of a node below those of the emits it is part of.
Path(E, s) ==
    \A j, k \in 1 .. Len(s) : j < k => Below(E, NodeOf(s[j].port), NodeOf(s[k].port))

\* What is left to serve has received nothing.
Owed(E, s, r) ==
    \A k \in 1 .. Len(s) :
        /\ s[k].todo \subseteq Goal(E, s[k].port)
        /\ \A i \in s[k].todo : r[i] = 0

\* Who emitted has served its targets or is about to.
Served(E, s, r, em) ==
    \A p \in em : \A i \in Goal(E, p) : r[i] = 1 \/ \E k \in 1 .. Len(s) : i \in s[k].todo

\* Who emitted was asked to or has received; who has received was emitted to,
\* or is the virtual node that the user sends by.
Origin(E, s, r, em) ==
    Len(s) > 0 =>
        /\ \A k \in 1 .. Len(s) : s[k].port \in em
        /\ \A p \in em : p = s[1].port \/ \E i \in Inputs : Forwarding(i) /\ r[i] = 1 /\ Onward(i) = p
        /\ \A i \in Inputs : r[i] = 1 =>
            \/ \E p \in em : i \in Goal(E, p)
            \/ TypeAt(i) = "virtual" /\ NodeOf(i) = NodeOf(s[1].port)

\* Nothing that received drops the error of what it emits.
Faithful(r) == \A i \in Inputs : r[i] > 0 => ~Drops(i)

\* Who knows of an error
Told(s, r, f, er) ==
    /\ er \/ (\E k \in 1 .. Len(s) : s[k].err) => f # {}
    /\ Len(s) > 0 => ~er
    /\ Faithful(r) =>
        /\ \A k \in 1 .. Len(s) : s[k].tell
        /\ f # {} => er \/ \E k \in 1 .. Len(s) : s[k].err

Values(s, r, em) ==
    /\ s \in Seq(Frame) /\ r \in [Inputs -> {0, 1}] /\ em \subseteq Outputs

Parts(E, s, r, em, f, er) ==
    /\ Values(s, r, em)
    /\ Path(E, s) /\ Owed(E, s, r) /\ Served(E, s, r, em) /\ Origin(E, s, r, em) /\ Told(s, r, f, er)

RouteInv ==
    /\ edges \subseteq Edge /\ running \in BOOLEAN /\ error \in BOOLEAN /\ failed \subseteq Inputs
    /\ running => Good(edges)
    /\ ~running => stack = << >> /\ emitted = {} /\ failed = {} /\ error = FALSE
    /\ Parts(edges, stack, received, emitted, failed, error)

-----------------------------------------------------------------------------
(* Ports                                                                   *)

\* A port is a node and a handle of its type.
LEMMA InputShape ==
    ASSUME NEW i \in Inputs
    PROVE  NodeOf(i) \in Node /\ i = <<NodeOf(i), i[2]>> /\ i[2] \in InputsOf(TypeAt(i))
<1>1. PICK n \in Node : i \in {n} \X InputsOf(TypeOf[n])
  BY DEF Inputs, Ports
<1> QED
  BY <1>1 DEF NodeOf, TypeAt

\* An output belongs to a node
LEMMA OutputShape ==
    ASSUME NEW p \in Outputs
    PROVE  NodeOf(p) \in Node
<1>1. PICK n \in Node : p \in {n} \X OutputsOf(TypeOf[n])
  BY DEF Outputs, Ports
<1> QED
  BY <1>1 DEF NodeOf

\* ... and a handle of a node is one of its outputs.
LEMMA OutputOf ==
    ASSUME NEW n \in Node, NEW h \in OutputsOf(TypeOf[n])
    PROVE  <<n, h>> \in Outputs /\ NodeOf(<<n, h>>) = n
<1>1. <<n, h>> \in {n} \X OutputsOf(TypeOf[n])
  OBVIOUS
<1> QED
  BY <1>1 DEF Outputs, Ports, NodeOf

\* A node that forwards has one output for each of its inputs.
LEMMA OnwardPort ==
    ASSUME NEW i \in Inputs, Forwarding(i)
    PROVE  Onward(i) \in Outputs /\ NodeOf(Onward(i)) = NodeOf(i)
<1> DEFINE n == NodeOf(i)
<1>1. n \in Node /\ TypeAt(i) = TypeOf[n]
  BY InputShape DEF TypeAt
<1>2. CASE TypeAt(i) = "bridge"
  <2>1. OtherSide(i) \in {<<n, "b-out">>, <<n, "a-out">>} /\ OutputsOf(TypeOf[n]) = {"a-out", "b-out"}
    BY <1>1, <1>2 DEF OtherSide, OutputsOf
  <2> QED
    BY <1>1, <1>2, <2>1, OutputOf DEF Onward
<1>3. CASE TypeAt(i) = "virtual"
  <2>1. Onward(i) = <<n, "rx">> /\ OutputsOf(TypeOf[n]) = {"rx"}
    BY <1>1, <1>3 DEF Onward, OutputsOf
  <2> QED
    BY <1>1, <2>1, OutputOf
<1>4. CASE TypeAt(i) \in {"filter", "transform"}
  <2>1. Onward(i) = <<n, "out">> /\ OutputsOf(TypeOf[n]) = {"out"}
    BY <1>1, <1>4 DEF Onward, OutputsOf
  <2> QED
    BY <1>1, <2>1, OutputOf
<1>5. CASE TypeAt(i) = "slave"
  <2>1. Onward(i) = <<n, "tx">> /\ OutputsOf(TypeOf[n]) = {"tx"}
    BY <1>1, <1>5 DEF Onward, OutputsOf
  <2> QED
    BY <1>1, <2>1, OutputOf
<1> QED
  BY <1>2, <1>3, <1>4, <1>5 DEF Forwarding

\* An output is fed by one input only.
LEMMA OnwardTells ==
    ASSUME NEW i \in Inputs, NEW j \in Inputs, Forwarding(i), Forwarding(j), Onward(i) = Onward(j)
    PROVE  i = j
<1>1. NodeOf(i) = NodeOf(j) /\ TypeAt(i) = TypeAt(j)
  BY OnwardPort DEF TypeAt
<1>2. i = <<NodeOf(i), i[2]>> /\ j = <<NodeOf(i), j[2]>> /\ i[2] \in InputsOf(TypeAt(i)) /\ j[2] \in InputsOf(TypeAt(i))
  BY <1>1, InputShape
<1>3. CASE TypeAt(i) = "bridge"
  <2>1. i[2] \in {"a-in", "b-in"} /\ j[2] \in {"a-in", "b-in"}
    BY <1>2, <1>3 DEF InputsOf
  <2>2. OtherSide(i) = OtherSide(j)
    BY <1>1, <1>3 DEF Onward
  <2>3. i[2] = j[2]
    BY <1>1, <2>1, <2>2 DEF OtherSide
  <2> QED
    BY <1>2, <2>3
<1>4. CASE TypeAt(i) \in {"virtual", "filter", "transform", "slave"}
  <2>1. i[2] = j[2]
    BY <1>2, <1>4 DEF InputsOf
  <2> QED
    BY <1>2, <2>1
<1> QED
  BY <1>3, <1>4 DEF Forwarding

-----------------------------------------------------------------------------
(* Graphs                                                                  *)

\* An edge ends at an output and an input.
LEMMA EdgePorts == ASSUME NEW e \in Edge PROVE From(e) \in Outputs /\ To(e) \in Inputs
  BY DEF Edge, From, To

\* The targets of an output are inputs.
LEMMA GoalInputs ==
    ASSUME NEW E, E \subseteq Edge, NEW p
    PROVE  Goal(E, p) \subseteq Inputs
  BY EdgePorts DEF Goal

\* Being below is transitive
LEMMA BelowNext ==
    ASSUME NEW E, NEW a, NEW b, NEW c, Below(E, a, b), Below(E, b, c)
    PROVE  Below(E, a, c)
<1>1. ASSUME NEW x, NEW y, NEW z, Leads(E, x, y), Leads(E, y, z) PROVE Leads(E, x, z)
  BY <1>1 DEF Leads
<1> QED
  BY <1>1 DEF Below

\* ... and of no node and itself.
LEMMA NotBelowItself == ASSUME NEW E, NEW a PROVE ~Below(E, a, a)
  BY DEF Below

\* The node of a target is below the node that emits, unless it is a master.
LEMMA EdgeBelow ==
    ASSUME NEW E, Good(E), NEW p, NEW i \in Goal(E, p), NodeOf(i) \notin Master
    PROVE  Below(E, NodeOf(p), NodeOf(i))
<1>1. PICK e \in E : From(e) = p /\ To(e) = i
  BY DEF Goal
<1>2. Leads(E, NodeOf(p), NodeOf(i))
  BY <1>1 DEF Leads, ClosedIn
<1> QED
  BY <1>1, <1>2 DEF Good, Below

\* A target is the target of one output.
LEMMA OneSource ==
    ASSUME NEW E, Good(E), NEW p, NEW q, NEW i \in Goal(E, p), i \in Goal(E, q)
    PROVE  p = q
  BY DEF Goal, Good

\* An edge between a node and itself cannot be routed.
LEMMA NoSelfGoal ==
    ASSUME NEW E, Good(E), NEW p, NEW i \in Goal(E, p)
    PROVE  NodeOf(i) # NodeOf(p)
  BY DEF Goal, Good

\* What validateGraphRuntimeEdge lets through can be routed.
LEMMA ValidIsGood ==
    ASSUME edges \subseteq Edge, \A e \in edges : ValidEdge(e)
    PROVE  Good(edges)
<1>1. \A e \in edges : NodeOf(From(e)) # NodeOf(To(e))
  BY DEF ValidEdge, SelfEdge
<1>2. ASSUME NEW e \in edges, NEW f \in edges, To(e) = To(f) PROVE e = f
  BY <1>2 DEF ValidEdge, InputTaken
<1>3. ASSUME NEW e \in edges, NodeOf(To(e)) \notin Master
      PROVE  ~Leads(edges, NodeOf(To(e)), NodeOf(From(e)))
  <2>1. ~CreatesCycle(e)
    BY <1>3 DEF ValidEdge, TargetsTerminal
  <2>2. PICK S \in SUBSET Node :
          /\ NodeOf(To(e)) \in S /\ NodeOf(From(e)) \notin S
          /\ \A g \in {Pair(f) : f \in edges \ {e}} : ~(g[2] \in Master) /\ g[1] \in S => g[2] \in S
    BY <2>1 DEF CreatesCycle, Search!Reaches, Search!Closed, Search!IntoTerminal, Search!Source, Search!Target
  <2>3. ASSUME NEW f \in edges, NodeOf(To(f)) \notin Master, NodeOf(From(f)) \in S
        PROVE  NodeOf(To(f)) \in S
    <3>1. f # e
      BY <2>2, <2>3
    <3>2. Pair(f) \in {Pair(g) : g \in edges \ {e}} /\ Pair(f)[1] = NodeOf(From(f)) /\ Pair(f)[2] = NodeOf(To(f))
      BY <3>1 DEF Pair
    <3> QED
      BY <2>2, <2>3, <3>2
  <2> QED
    BY <2>2, <2>3 DEF Leads, ClosedIn
<1> QED
  BY <1>1, <1>2, <1>3 DEF Good

-----------------------------------------------------------------------------
(* A target of the innermost emit receives                                 *)

\* It is not to be served any more; fails: its device refuses the bytes.
Takes(s, u, i, fails) ==
    /\ u \in Seq(Frame) /\ Len(u) = Len(s)
    /\ \A k \in 1 .. Len(s) :
        /\ u[k].port = s[k].port /\ (u[k].tell <=> s[k].tell)
        /\ u[k].todo = IF k = Len(s) THEN s[k].todo \ {i} ELSE s[k].todo
        /\ u[k].err <=> s[k].err \/ (k = Len(s) /\ fails)

\* The nodes of two emits differ, and nothing is a target of both.
LEMMA PathApart ==
    ASSUME NEW E, NEW s, Path(E, s), NEW j \in 1 .. Len(s), NEW k \in 1 .. Len(s), j # k, Len(s) \in Nat
    PROVE  NodeOf(s[j].port) # NodeOf(s[k].port)
<1>1. CASE j < k
  BY <1>1, NotBelowItself DEF Path
<1>2. CASE k < j
  BY <1>2, NotBelowItself DEF Path
<1> QED
  BY <1>1, <1>2

\* No two calls on the stack have the same target left.
LEMMA TodoApart ==
    ASSUME NEW E, Good(E), NEW s, NEW r, Path(E, s), Owed(E, s, r), Len(s) \in Nat,
           NEW j \in 1 .. Len(s), NEW k \in 1 .. Len(s), NEW i, i \in s[j].todo, i \in s[k].todo
    PROVE  j = k
<1>1. i \in Goal(E, s[j].port) /\ i \in Goal(E, s[k].port)
  BY DEF Owed
<1>2. s[j].port = s[k].port
  BY <1>1, OneSource
<1> QED
  BY <1>2, PathApart

\* The input has received once more, and its device may have failed.
Counts(r, r2, i) == r2 = [r EXCEPT ![i] = @ + 1]
Fails(f, f2, i, fails) == f2 = IF fails THEN f \cup {i} ELSE f

\* The invariant after emit took the next target
LEMMA TakeParts ==
    ASSUME NEW E, Good(E), NEW s, NEW r, NEW em, NEW f, NEW er, Parts(E, s, r, em, f, er),
           Len(s) > 0, NEW i, i \in s[Len(s)].todo,
           NEW u, NEW fails, fails \in BOOLEAN, Takes(s, u, i, fails),
           NEW r2, Counts(r, r2, i),
           NEW f2, Fails(f, f2, i, fails)
    PROVE  Parts(E, u, r2, em, f2, er) /\ r2[i] = 1 /\ i \in Goal(E, u[Len(u)].port) /\ i \in Inputs
<1>1. Len(s) \in Nat /\ Len(u) = Len(s) /\ Len(s) \in 1 .. Len(s)
  BY DEF Parts, Values, Takes
<1>2. i \in Goal(E, s[Len(s)].port) /\ r[i] = 0 /\ i \in Inputs
  BY <1>1, GoalInputs DEF Parts, Owed, Good
<1>3. /\ r2 \in [Inputs -> {0, 1}] /\ r2[i] = 1
      /\ \A x \in Inputs : x # i => r2[x] = r[x]
  BY <1>2 DEF Parts, Values, Counts
<1>4. \A k \in 1 .. Len(s) : u[k].port = s[k].port /\ u[k].todo \subseteq s[k].todo
  BY DEF Takes
<1>5. \A k \in 1 .. Len(s) : \A x \in s[k].todo : x # i => x \in u[k].todo
  BY DEF Takes
<1>6. Values(u, r2, em)
  BY <1>3 DEF Values, Parts, Takes
<1>7. Path(E, u)
  BY <1>1, <1>4 DEF Path, Parts
<1>8. Owed(E, u, r2)
  <2> SUFFICES ASSUME NEW k \in 1 .. Len(s)
               PROVE  u[k].todo \subseteq Goal(E, u[k].port) /\ \A x \in u[k].todo : r2[x] = 0
    BY <1>1 DEF Owed
  <2>1. u[k].todo \subseteq Goal(E, u[k].port)
    BY <1>4 DEF Parts, Owed
  <2>2. ASSUME NEW x \in u[k].todo PROVE r2[x] = 0
    <3>1. x \in s[k].todo /\ r[x] = 0 /\ x \in Inputs
      BY <1>4, <2>2, <2>1, GoalInputs DEF Parts, Owed, Good
    <3>2. x # i
      <4>1. CASE k = Len(s)
        BY <4>1, <2>2 DEF Takes
      <4>2. CASE k # Len(s)
        BY <4>2, <3>1, <1>1, TodoApart DEF Parts
      <4> QED
        BY <4>1, <4>2
    <3> QED
      BY <3>1, <3>2, <1>3
  <2> QED
    BY <2>1, <2>2
<1>9. Served(E, u, r2, em)
  <2> SUFFICES ASSUME NEW p \in em, NEW x \in Goal(E, p)
               PROVE  r2[x] = 1 \/ \E k \in 1 .. Len(u) : x \in u[k].todo
    BY DEF Served
  <2>1. x \in Inputs
    BY GoalInputs DEF Good
  <2>2. r[x] = 1 \/ \E k \in 1 .. Len(s) : x \in s[k].todo
    BY DEF Parts, Served
  <2> QED
    BY <2>1, <2>2, <1>1, <1>3, <1>5
<1>10. Origin(E, u, r2, em)
  <2>1. /\ \A k \in 1 .. Len(s) : s[k].port \in em
        /\ \A p \in em : p = s[1].port \/ \E x \in Inputs : Forwarding(x) /\ r[x] = 1 /\ Onward(x) = p
        /\ \A x \in Inputs : r[x] = 1 =>
            \/ \E p \in em : x \in Goal(E, p)
            \/ TypeAt(x) = "virtual" /\ NodeOf(x) = NodeOf(s[1].port)
    BY DEF Parts, Origin
  <2>2. u[1].port = s[1].port
    BY <1>1, <1>4
  <2>3. \A k \in 1 .. Len(u) : u[k].port \in em
    BY <1>1, <1>4, <2>1
  <2>4. ASSUME NEW p \in em PROVE p = u[1].port \/ \E x \in Inputs : Forwarding(x) /\ r2[x] = 1 /\ Onward(x) = p
    <3>1. CASE p = s[1].port
      BY <3>1, <2>2
    <3>2. ASSUME NEW x \in Inputs, Forwarding(x), r[x] = 1, Onward(x) = p
          PROVE  \E y \in Inputs : Forwarding(y) /\ r2[y] = 1 /\ Onward(y) = p
      BY <3>2, <1>2, <1>3
    <3> QED
      BY <3>1, <3>2, <2>1
  <2>5. ASSUME NEW x \in Inputs, r2[x] = 1
        PROVE  (\E p \in em : x \in Goal(E, p)) \/ (TypeAt(x) = "virtual" /\ NodeOf(x) = NodeOf(u[1].port))
    <3>1. CASE x = i
      BY <3>1, <1>1, <1>2, <2>1
    <3>2. CASE x # i
      BY <3>2, <2>5, <1>3, <2>1, <2>2
    <3> QED
      BY <3>1, <3>2
  <2> QED
    BY <2>3, <2>4, <2>5 DEF Origin
<1>11. Told(u, r2, f2, er)
  <2>1. Len(s) > 0 /\ ~er /\ ((\E k \in 1 .. Len(s) : s[k].err) => f # {})
    BY DEF Parts, Told
  <2>2. /\ Faithful(r) => \A k \in 1 .. Len(s) : s[k].tell
        /\ Faithful(r) /\ f # {} => \E k \in 1 .. Len(s) : s[k].err
    BY DEF Parts, Told
  <2>3. \A k \in 1 .. Len(s) : (u[k].tell <=> s[k].tell) /\ (u[k].err <=> s[k].err \/ (k = Len(s) /\ fails))
    BY DEF Takes
  <2>4. Faithful(r2) => Faithful(r)
    BY <1>2, <1>3 DEF Faithful, Parts, Values
  <2>5. (\E k \in 1 .. Len(u) : u[k].err) => f2 # {}
    BY <1>1, <2>1, <2>3 DEF Fails
  <2>6. Faithful(r2) /\ f2 # {} => \E k \in 1 .. Len(u) : u[k].err
    <3>1. CASE fails
      BY <3>1, <1>1, <2>3
    <3>2. CASE ~fails
      BY <3>2, <1>1, <2>2, <2>3, <2>4 DEF Fails
    <3> QED
      BY <3>1, <3>2
  <2>7. Faithful(r2) => \A k \in 1 .. Len(u) : u[k].tell
    BY <1>1, <2>2, <2>3, <2>4
  <2> QED
    BY <2>1, <2>5, <2>6, <2>7 DEF Told, Parts
<1> QED
  BY <1>1, <1>2, <1>3, <1>4, <1>6, <1>7, <1>8, <1>9, <1>10, <1>11 DEF Parts

-----------------------------------------------------------------------------
(* A node that received emits                                              *)

\* A new emit, by output p
Pushes(E, u, v, p, told) ==
    /\ v \in Seq(Frame) /\ Len(v) = Len(u) + 1
    /\ \A k \in 1 .. Len(u) : v[k] = u[k]
    /\ v[Len(u) + 1] = [port |-> p, todo |-> Goal(E, p), err |-> FALSE, tell |-> told]

\* No output emits twice.
LEMMA OnwardFresh ==
    ASSUME NEW E, Good(E), NEW s, NEW r, NEW em, NEW f, NEW er, Parts(E, s, r, em, f, er),
           Len(s) > 0, NEW i \in s[Len(s)].todo, Forwarding(i), NodeOf(i) \notin Master
    PROVE  Onward(i) \notin em
<1>1. Len(s) \in Nat /\ Len(s) \in 1 .. Len(s) /\ 1 \in 1 .. Len(s)
  BY DEF Parts, Values
<1>2. i \in Goal(E, s[Len(s)].port) /\ r[i] = 0 /\ i \in Inputs
  BY <1>1, GoalInputs DEF Parts, Owed, Good
<1>3. SUFFICES ASSUME Onward(i) \in em PROVE FALSE
  OBVIOUS
<1>4. Below(E, NodeOf(s[Len(s)].port), NodeOf(i))
  BY <1>2, EdgeBelow
<1>5. Below(E, NodeOf(s[1].port), NodeOf(i))
  <2>1. CASE Len(s) = 1
    BY <2>1, <1>4
  <2>2. CASE Len(s) # 1
    <3>1. 1 < Len(s) /\ Path(E, s)
      BY <2>2, <1>1 DEF Parts
    <3>2. Below(E, NodeOf(s[1].port), NodeOf(s[Len(s)].port))
      BY <3>1, <1>1 DEF Path
    <3> QED
      BY <3>2, <1>4, BelowNext
  <2> QED
    BY <2>1, <2>2
<1>6. Onward(i) = s[1].port \/ \E x \in Inputs : Forwarding(x) /\ r[x] = 1 /\ Onward(x) = Onward(i)
  BY <1>3 DEF Parts, Origin
<1>7. CASE Onward(i) = s[1].port
  BY <1>2, <1>5, <1>7, OnwardPort, NotBelowItself
<1>8. ASSUME NEW x \in Inputs, Forwarding(x), r[x] = 1, Onward(x) = Onward(i) PROVE FALSE
  BY <1>2, <1>8, OnwardTells
<1> QED
  BY <1>6, <1>7, <1>8

\* ... after receive began an emit of its own
LEMMA PushParts ==
    ASSUME NEW E, Good(E), NEW u, NEW r, NEW em, NEW f, NEW er, Parts(E, u, r, em, f, er),
           Len(u) > 0, NEW i \in Goal(E, u[Len(u)].port), i \in Inputs, r[i] = 1,
           Forwarding(i), NodeOf(i) \notin Master, Onward(i) \notin em,
           NEW told \in BOOLEAN, told \/ Drops(i),
           NEW v, Pushes(E, u, v, Onward(i), told)
    PROVE  Parts(E, v, r, em \cup {Onward(i)}, f, er)
<1> DEFINE n == Len(u)
           p == Onward(i)
<1>1. n \in Nat /\ n > 0 /\ n + 1 \in Nat /\ Len(v) = n + 1 /\ n \in 1 .. n /\ 1 \in 1 .. n /\ 1 .. n + 1 = 1 .. n \cup {n + 1}
  BY DEF Parts, Values, Pushes
<1>2. /\ \A k \in 1 .. n : v[k] = u[k]
      /\ v[n + 1].port = p /\ v[n + 1].todo = Goal(E, p) /\ ~v[n + 1].err /\ (v[n + 1].tell <=> told)
  BY DEF Pushes
<1>3. p \in Outputs /\ NodeOf(p) = NodeOf(i) /\ p \notin em
  BY OnwardPort
<1> HIDE DEF p
<1>4. Below(E, NodeOf(u[n].port), NodeOf(p))
  BY <1>3, EdgeBelow
<1>5. \A j \in 1 .. n : Below(E, NodeOf(u[j].port), NodeOf(p))
  <2> SUFFICES ASSUME NEW j \in 1 .. n, j # n PROVE Below(E, NodeOf(u[j].port), NodeOf(p))
    BY <1>4
  <2>1. Below(E, NodeOf(u[j].port), NodeOf(u[n].port))
    BY <1>1 DEF Parts, Path
  <2> QED
    BY <2>1, <1>4, BelowNext
<1>6. Values(v, r, em \cup {p})
  BY <1>3 DEF Parts, Values, Pushes
<1>7. Path(E, v)
  <2> SUFFICES ASSUME NEW j \in 1 .. n + 1, NEW k \in 1 .. n + 1, j < k
               PROVE  Below(E, NodeOf(v[j].port), NodeOf(v[k].port))
    BY <1>1 DEF Path
  <2>1. CASE k = n + 1
    <3>1. j \in 1 .. n
      BY <2>1, <1>1
    <3> QED
      BY <3>1, <2>1, <1>2, <1>5
  <2>2. CASE k \in 1 .. n
    <3>1. j \in 1 .. n
      BY <2>2, <1>1
    <3> QED
      BY <3>1, <2>2, <1>2 DEF Parts, Path
  <2> QED
    BY <2>1, <2>2, <1>1
<1>8. ASSUME NEW x \in Goal(E, p) PROVE r[x] = 0
  <2>1. x \in Inputs
    BY GoalInputs DEF Good
  <2>2. SUFFICES ASSUME r[x] = 1 PROVE FALSE
    BY <2>1 DEF Parts, Values
  <2>3. (\E q \in em : x \in Goal(E, q)) \/ (TypeAt(x) = "virtual" /\ NodeOf(x) = NodeOf(u[1].port))
    BY <1>1, <2>1, <2>2 DEF Parts, Origin
  <2>4. ASSUME NEW q \in em, x \in Goal(E, q) PROVE FALSE
    BY <2>4, <1>3, <1>8, OneSource
  <2>5. CASE TypeAt(x) = "virtual" /\ NodeOf(x) = NodeOf(u[1].port)
    <3>1. NodeOf(x) \notin Master
      BY <2>5 DEF TypeAt, Master
    <3>2. Below(E, NodeOf(p), NodeOf(u[1].port))
      BY <3>1, <2>5, <1>8, EdgeBelow
    <3> QED
      BY <3>2, <1>1, <1>5, BelowNext, NotBelowItself
  <2> QED
    BY <2>3, <2>4, <2>5
<1>9. Owed(E, v, r)
  <2> SUFFICES ASSUME NEW k \in 1 .. n + 1
               PROVE  v[k].todo \subseteq Goal(E, v[k].port) /\ \A x \in v[k].todo : r[x] = 0
    BY <1>1 DEF Owed
  <2>1. CASE k = n + 1
    BY <2>1, <1>2, <1>8
  <2>2. CASE k \in 1 .. n
    BY <2>2, <1>2 DEF Parts, Owed
  <2> QED
    BY <2>1, <2>2, <1>1
<1>10. Served(E, v, r, em \cup {p})
  <2> SUFFICES ASSUME NEW q \in em \cup {p}, NEW x \in Goal(E, q)
               PROVE  r[x] = 1 \/ \E k \in 1 .. n + 1 : x \in v[k].todo
    BY <1>1 DEF Served
  <2>1. CASE q = p
    BY <2>1, <1>1, <1>2
  <2>2. CASE q \in em
    <3>1. r[x] = 1 \/ \E k \in 1 .. n : x \in u[k].todo
      BY <2>2 DEF Parts, Served
    <3> QED
      BY <3>1, <1>1, <1>2
  <2> QED
    BY <2>1, <2>2
<1>11. Origin(E, v, r, em \cup {p})
  <2>1. /\ \A k \in 1 .. n : u[k].port \in em
        /\ \A q \in em : q = u[1].port \/ \E x \in Inputs : Forwarding(x) /\ r[x] = 1 /\ Onward(x) = q
        /\ \A x \in Inputs : r[x] = 1 =>
            \/ \E q \in em : x \in Goal(E, q)
            \/ TypeAt(x) = "virtual" /\ NodeOf(x) = NodeOf(u[1].port)
    BY <1>1 DEF Parts, Origin
  <2>2. v[1].port = u[1].port
    BY <1>1, <1>2
  <2>3. \A k \in 1 .. n + 1 : v[k].port \in em \cup {p}
    BY <1>1, <1>2, <2>1
  <2>4. \A q \in em \cup {p} : q = v[1].port \/ \E x \in Inputs : Forwarding(x) /\ r[x] = 1 /\ Onward(x) = q
    BY <2>1, <2>2 DEF p
  <2> QED
    BY <1>1, <2>1, <2>2, <2>3, <2>4 DEF Origin
<1>12. Told(v, r, f, er)
  <2>1. ~er /\ ((\E k \in 1 .. n : u[k].err) => f # {})
    BY <1>1 DEF Parts, Told
  <2>2. /\ Faithful(r) => \A k \in 1 .. n : u[k].tell
        /\ Faithful(r) /\ f # {} => \E k \in 1 .. n : u[k].err
    BY <1>1 DEF Parts, Told
  <2>3. Faithful(r) => told
    BY DEF Faithful
  <2>4. (\E k \in 1 .. n + 1 : v[k].err) <=> \E k \in 1 .. n : u[k].err
    BY <1>1, <1>2
  <2>5. Faithful(r) => \A k \in 1 .. n + 1 : v[k].tell
    BY <1>1, <1>2, <2>2, <2>3
  <2> QED
    BY <1>1, <2>1, <2>2, <2>4, <2>5 DEF Told
<1> QED
  BY <1>6, <1>7, <1>9, <1>10, <1>11, <1>12 DEF Parts, p

-----------------------------------------------------------------------------
(* An emit that has served its targets returns                             *)

\* fails: the caller is told of an error.
Returns(s, u, fails) ==
    /\ u \in Seq(Frame) /\ Len(u) = Len(s) - 1
    /\ \A k \in 1 .. Len(u) :
        /\ u[k].port = s[k].port /\ (u[k].tell <=> s[k].tell) /\ u[k].todo = s[k].todo
        /\ u[k].err <=> s[k].err \/ (k = Len(u) /\ fails)

\* ... and after an emit returned
LEMMA ReturnParts ==
    ASSUME NEW E, NEW s, NEW r, NEW em, NEW f, NEW er, Parts(E, s, r, em, f, er),
           Len(s) > 0, s[Len(s)].todo = {},
           NEW fails \in BOOLEAN, fails <=> s[Len(s)].err /\ s[Len(s)].tell,
           NEW u, Returns(s, u, fails),
           NEW er2, er2 <=> Len(s) = 1 /\ fails
    PROVE  Parts(E, u, r, em, f, er2)
<1> DEFINE n == Len(u)
<1>1. n \in Nat /\ Len(s) = n + 1 /\ 1 .. n + 1 = 1 .. n \cup {n + 1} /\ (n > 0 => n \in 1 .. n /\ 1 \in 1 .. n)
  <2>1. Len(s) \in Nat /\ Len(s) > 0 /\ Len(u) = Len(s) - 1
    BY DEF Parts, Values, Returns
  <2> QED
    BY <2>1
<1>2. \A k \in 1 .. n : u[k].port = s[k].port /\ u[k].todo = s[k].todo
  BY DEF Returns
<1>3. \A k \in 1 .. n : (u[k].tell <=> s[k].tell) /\ (u[k].err <=> s[k].err \/ (k = n /\ fails))
  BY DEF Returns
<1>4. s[n + 1].todo = {} /\ (fails <=> s[n + 1].err /\ s[n + 1].tell) /\ (er2 <=> n = 0 /\ fails)
  BY <1>1
<1>5. Values(u, r, em)
  BY DEF Parts, Values, Returns
<1>6. Path(E, u) /\ Owed(E, u, r)
  BY <1>1, <1>2 DEF Parts, Path, Owed
<1>7. Served(E, u, r, em)
  <2> SUFFICES ASSUME NEW q \in em, NEW x \in Goal(E, q)
               PROVE  r[x] = 1 \/ \E k \in 1 .. n : x \in u[k].todo
    BY DEF Served
  <2>1. r[x] = 1 \/ \E k \in 1 .. n + 1 : x \in s[k].todo
    BY <1>1 DEF Parts, Served
  <2> QED
    BY <2>1, <1>1, <1>2, <1>4
<1>8. Origin(E, u, r, em)
  <2>1. CASE n = 0
    BY <2>1 DEF Origin
  <2>2. CASE n > 0
    <3>1. u[1].port = s[1].port /\ \A k \in 1 .. n : u[k].port \in em
      BY <2>2, <1>1, <1>2 DEF Parts, Origin
    <3> QED
      BY <3>1, <1>1 DEF Parts, Origin
  <2> QED
    BY <2>1, <2>2, <1>1
<1>9. Told(u, r, f, er2)
  <2>1. (\E k \in 1 .. n + 1 : s[k].err) => f # {}
    BY <1>1 DEF Parts, Told
  <2>2. /\ Faithful(r) => \A k \in 1 .. n + 1 : s[k].tell
        /\ Faithful(r) /\ f # {} => \E k \in 1 .. n + 1 : s[k].err
    BY <1>1 DEF Parts, Told
  <2>3. er2 \/ (\E k \in 1 .. n : u[k].err) => \E k \in 1 .. n + 1 : s[k].err
    BY <1>1, <1>3, <1>4
  <2>4. Faithful(r) => \A k \in 1 .. n : u[k].tell
    BY <1>1, <1>3, <2>2
  <2>5. Faithful(r) /\ f # {} => er2 \/ \E k \in 1 .. n : u[k].err
    <3> SUFFICES ASSUME Faithful(r), f # {} PROVE er2 \/ \E k \in 1 .. n : u[k].err
      OBVIOUS
    <3>1. PICK k \in 1 .. n + 1 : s[k].err
      BY <2>2
    <3>2. CASE k \in 1 .. n
      BY <3>1, <3>2, <1>3
    <3>3. CASE k = n + 1
      <4>1. fails
        BY <3>1, <3>3, <2>2, <1>1, <1>4
      <4>2. CASE n = 0
        BY <4>1, <4>2, <1>4
      <4>3. CASE n > 0
        BY <4>1, <4>3, <1>1, <1>3
      <4> QED
        BY <4>2, <4>3, <1>1
    <3> QED
      BY <3>2, <3>3, <1>1
  <2> QED
    BY <1>1, <1>4, <2>1, <2>3, <2>4, <2>5 DEF Told
<1> QED
  BY <1>5, <1>6, <1>7, <1>8, <1>9 DEF Parts

-----------------------------------------------------------------------------
(* What the actions make of the stack                                      *)

\* A call of the stack is replaced.
LEMMA Replaced ==
    ASSUME NEW S, NEW s \in Seq(S), NEW n \in 1 .. Len(s), NEW w \in S
    PROVE  /\ [s EXCEPT ![n] = w] \in Seq(S) /\ Len([s EXCEPT ![n] = w]) = Len(s)
           /\ [s EXCEPT ![n] = w][n] = w
           /\ \A k \in 1 .. Len(s) : k # n => [s EXCEPT ![n] = w][k] = s[k]
  BY ExceptSeq

\* What takes a target from the last call
LEMMA TakeTakes ==
    ASSUME NEW s \in Seq(Frame), Len(s) > 0, NEW i
    PROVE  Takes(s, [s EXCEPT ![Len(s)].todo = @ \ {i}], i, FALSE)
<1> DEFINE n == Len(s)
           w == [s[n] EXCEPT !.todo = @ \ {i}]
           u == [s EXCEPT ![n] = w]
<1>1. n \in 1 .. Len(s) /\ s[n] \in Frame
  OBVIOUS
<1>2. w \in Frame /\ w.port = s[n].port /\ w.tell = s[n].tell /\ w.err = s[n].err /\ w.todo = s[n].todo \ {i}
  BY <1>1 DEF Frame
<1>3. [s EXCEPT ![Len(s)].todo = @ \ {i}] = u
  OBVIOUS
<1> HIDE DEF w
<1>4. u \in Seq(Frame) /\ Len(u) = Len(s) /\ u[n] = w /\ \A k \in 1 .. Len(s) : k # n => u[k] = s[k]
  BY <1>1, <1>2, Replaced
<1> HIDE DEF u
<1>5. ASSUME NEW k \in 1 .. Len(s)
      PROVE  /\ u[k].port = s[k].port /\ (u[k].tell <=> s[k].tell)
             /\ u[k].todo = IF k = Len(s) THEN s[k].todo \ {i} ELSE s[k].todo
             /\ u[k].err <=> s[k].err
  <2>1. CASE k = n
    BY <2>1, <1>2, <1>4
  <2>2. CASE k # n
    BY <2>2, <1>4
  <2> QED
    BY <2>1, <2>2
<1>6. Takes(s, u, i, FALSE)
  BY <1>4, <1>5 DEF Takes
<1> QED
  BY <1>3, <1>6

\* ... and notes that it failed
LEMMA FailTakes ==
    ASSUME NEW s \in Seq(Frame), Len(s) > 0, NEW i, NEW u, Takes(s, u, i, FALSE)
    PROVE  Takes(s, [u EXCEPT ![Len(s)].err = TRUE], i, TRUE)
<1> DEFINE n == Len(s)
           w == [u[n] EXCEPT !.err = TRUE]
           v == [u EXCEPT ![n] = w]
<1>1. n \in 1 .. Len(s) /\ u \in Seq(Frame) /\ Len(u) = n /\ u[n] \in Frame
  BY DEF Takes
<1>2. w \in Frame /\ w.port = u[n].port /\ w.tell = u[n].tell /\ w.err = TRUE /\ w.todo = u[n].todo
  BY <1>1 DEF Frame
<1>3. [u EXCEPT ![Len(s)].err = TRUE] = v
  OBVIOUS
<1> HIDE DEF w
<1>4. v \in Seq(Frame) /\ Len(v) = Len(s) /\ v[n] = w /\ \A k \in 1 .. Len(s) : k # n => v[k] = u[k]
  BY <1>1, <1>2, Replaced
<1> HIDE DEF v
<1>5. ASSUME NEW k \in 1 .. Len(s)
      PROVE  /\ v[k].port = s[k].port /\ (v[k].tell <=> s[k].tell)
             /\ v[k].todo = IF k = Len(s) THEN s[k].todo \ {i} ELSE s[k].todo
             /\ v[k].err <=> s[k].err \/ k = Len(s)
  <2>1. CASE k = n
    BY <2>1, <1>2, <1>4 DEF Takes
  <2>2. CASE k # n
    BY <2>2, <1>4 DEF Takes
  <2> QED
    BY <2>1, <2>2
<1>6. Takes(s, v, i, TRUE)
  BY <1>4, <1>5 DEF Takes
<1> QED
  BY <1>3, <1>6

\* What begins a call
LEMMA AppendPushes ==
    ASSUME NEW E, E \subseteq Edge, NEW u \in Seq(Frame), NEW p \in Outputs, NEW told \in BOOLEAN
    PROVE  Pushes(E, u, Append(u, [port |-> p, todo |-> Goal(E, p), err |-> FALSE, tell |-> told]), p, told)
<1> DEFINE w == [port |-> p, todo |-> Goal(E, p), err |-> FALSE, tell |-> told]
<1>1. w \in Frame
  BY GoalInputs DEF Frame
<1> HIDE DEF w
<1>2. /\ Append(u, w) \in Seq(Frame) /\ Len(Append(u, w)) = Len(u) + 1
      /\ \A k \in 1 .. Len(u) : Append(u, w)[k] = u[k]
      /\ Append(u, w)[Len(u) + 1] = w
  BY <1>1
<1> QED
  BY <1>2 DEF Pushes, w

\* What ends the last call, that did not fail
LEMMA RestReturns ==
    ASSUME NEW s \in Seq(Frame), Len(s) > 0
    PROVE  Returns(s, SubSeq(s, 1, Len(s) - 1), FALSE)
<1> DEFINE m == Len(s) - 1
           u == SubSeq(s, 1, m)
<1>1. m \in Nat /\ Len(s) = m + 1 /\ \A k \in 1 .. m : s[k] \in Frame
  OBVIOUS
<1> HIDE DEF m
<1>2. /\ u \in Seq(Frame) /\ Len(u) = IF 1 <= m THEN m - 1 + 1 ELSE 0
      /\ \A k \in 1 .. m - 1 + 1 : u[k] = s[1 + k - 1]
  BY <1>1, SubSeqProperties
<1> HIDE DEF u
<1>3. Len(u) = m
  BY <1>1, <1>2
<1>4. \A k \in 1 .. m : u[k] = s[k]
  BY <1>1, <1>2
<1>5. Returns(s, u, FALSE)
  BY <1>1, <1>2, <1>3, <1>4 DEF Returns
<1> QED
  BY <1>5 DEF u, m

\* ... or that tells its caller of a failure
LEMMA FailReturns ==
    ASSUME NEW s \in Seq(Frame), NEW u, Len(u) > 0, Returns(s, u, FALSE)
    PROVE  Returns(s, [u EXCEPT ![Len(u)].err = TRUE], TRUE)
<1> DEFINE n == Len(u)
           w == [u[n] EXCEPT !.err = TRUE]
           v == [u EXCEPT ![n] = w]
<1>1. u \in Seq(Frame) /\ n \in 1 .. n /\ u[n] \in Frame /\ n = Len(s) - 1
  BY DEF Returns
<1>2. w \in Frame /\ w.port = u[n].port /\ w.tell = u[n].tell /\ w.err = TRUE /\ w.todo = u[n].todo
  BY <1>1 DEF Frame
<1>3. [u EXCEPT ![Len(u)].err = TRUE] = v
  OBVIOUS
<1> HIDE DEF w
<1>4. v \in Seq(Frame) /\ Len(v) = n /\ v[n] = w /\ \A k \in 1 .. n : k # n => v[k] = u[k]
  BY <1>1, <1>2, Replaced
<1> HIDE DEF v
<1>5. ASSUME NEW k \in 1 .. n
      PROVE  /\ v[k].port = s[k].port /\ (v[k].tell <=> s[k].tell) /\ v[k].todo = s[k].todo
             /\ v[k].err <=> s[k].err \/ k = n
  <2>1. CASE k = n
    BY <2>1, <1>2, <1>4 DEF Returns
  <2>2. CASE k # n
    BY <2>2, <1>4 DEF Returns
  <2> QED
    BY <2>1, <2>2
<1>6. Returns(s, v, TRUE)
  BY <1>1, <1>4, <1>5 DEF Returns
<1> QED
  BY <1>3, <1>6

-----------------------------------------------------------------------------
(* The actions                                                             *)

\* Bytes enter by an output: a device delivered some, or the user sends by a
\* virtual node, whose input has then received them.
LEMMA InjectParts ==
    ASSUME NEW E, Good(E), NEW p \in Outputs, NEW got, NEW told \in BOOLEAN,
           \/ got = {} /\ told
           \/ \E n \in Node : TypeOf[n] = "virtual" /\ p = <<n, "rx">> /\ got = {<<n, "tx">>},
           NEW s, s = << [port |-> p, todo |-> Goal(E, p), err |-> FALSE, tell |-> told] >>,
           NEW r, r = [i \in Inputs |-> IF i \in got THEN 1 ELSE 0]
    PROVE  Parts(E, s, r, {p}, {}, FALSE)
<1>1. s \in Seq(Frame) /\ Len(s) = 1 /\ 1 .. Len(s) = {1}
  <2>1. [port |-> p, todo |-> Goal(E, p), err |-> FALSE, tell |-> told] \in Frame
    BY GoalInputs DEF Frame, Good
  <2> QED
    BY <2>1
<1>2. s[1].port = p /\ s[1].todo = Goal(E, p) /\ ~s[1].err /\ (s[1].tell <=> told)
  OBVIOUS
<1>3. r \in [Inputs -> {0, 1}] /\ \A i \in Inputs : r[i] = IF i \in got THEN 1 ELSE 0
  OBVIOUS
<1> HIDE DEF Frame
<1>4. ASSUME NEW i \in Inputs, r[i] = 1
      PROVE  TypeAt(i) = "virtual" /\ NodeOf(i) = NodeOf(p)
  BY <1>3, <1>4 DEF TypeAt, NodeOf
<1>5. ASSUME NEW i \in Goal(E, p) PROVE r[i] = 0
  <2>1. i \in Inputs /\ NodeOf(i) # NodeOf(p)
    BY GoalInputs, NoSelfGoal DEF Good
  <2> QED
    BY <2>1, <1>3, <1>4
<1>6. Values(s, r, {p}) /\ Path(E, s)
  BY <1>1, <1>3 DEF Values, Path
<1>7. Owed(E, s, r) /\ Served(E, s, r, {p})
  BY <1>1, <1>2, <1>5 DEF Owed, Served
<1>8. Origin(E, s, r, {p})
  BY <1>1, <1>2, <1>4 DEF Origin
<1>9. Faithful(r) => told
  <2> SUFFICES ASSUME NEW n \in Node, TypeOf[n] = "virtual", got = {<<n, "tx">>} PROVE ~Faithful(r)
    OBVIOUS
  <2>1. <<n, "tx">> \in Inputs
    <3>1. <<n, "tx">> \in {n} \X InputsOf(TypeOf[n])
      BY DEF InputsOf
    <3> QED
      BY <3>1 DEF Inputs, Ports
  <2>2. r[<<n, "tx">>] > 0 /\ Drops(<<n, "tx">>)
    BY <2>1, <1>3 DEF Drops, TypeAt, NodeOf
  <2> QED
    BY <2>1, <2>2 DEF Faithful
<1>10. Told(s, r, {}, FALSE)
  BY <1>1, <1>2, <1>9 DEF Told
<1> QED
  BY <1>6, <1>7, <1>8, <1>10 DEF Parts

\* The targets of an output, by the edges that are there
LEMMA TargetsAreGoal == ASSUME NEW p PROVE Targets(p) = Goal(edges, p)
  BY DEF Targets, Goal

\* Bytes enter the graph.
LEMMA InjectStep ==
    ASSUME RouteInv, NEW p \in Outputs, NEW got, NEW told \in BOOLEAN, Inject(p, got, told),
           \/ got = {} /\ told
           \/ \E n \in Node : TypeOf[n] = "virtual" /\ p = <<n, "rx">> /\ got = {<<n, "tx">>}
    PROVE  RouteInv'
<1>1. Good(edges) /\ running /\ UNCHANGED <<edges, running>> /\ emitted' = {p} /\ failed' = {} /\ error' = FALSE
  BY DEF RouteInv, Inject
<1>2. stack' = << [port |-> p, todo |-> Goal(edges, p), err |-> FALSE, tell |-> told] >>
  BY TargetsAreGoal DEF Inject, Emit
<1>3. received' = [i \in Inputs |-> IF i \in got THEN 1 ELSE 0]
  BY DEF Inject
<1>4. Parts(edges, stack', received', {p}, {}, FALSE)
  BY <1>1, <1>2, <1>3, InjectParts
<1> QED
  BY <1>1, <1>4 DEF RouteInv

\* A target of the innermost emit
LEMMA Delivers ==
    ASSUME RouteInv, NEW i \in Inputs, Deliverable(i)
    PROVE  /\ running /\ Good(edges) /\ stack \in Seq(Frame) /\ Len(stack) > 0 /\ i \in stack[Len(stack)].todo
           /\ received \in [Inputs -> {0, 1}] /\ received[i] = 0
           /\ Len(stack) \in 1 .. Len(stack) /\ i \in Goal(edges, stack[Len(stack)].port)
           /\ Parts(edges, stack, received, emitted, failed, error)
<1>1. stack # << >> /\ stack \in Seq(Frame) /\ received \in [Inputs -> {0, 1}]
  BY DEF RouteInv, Parts, Values, Deliverable
<1>2. Len(stack) > 0 /\ Len(stack) \in 1 .. Len(stack)
  BY <1>1
<1>3. received[i] = 0 /\ i \in Goal(edges, stack[Len(stack)].port)
  BY <1>2 DEF RouteInv, Parts, Owed, Deliverable, Top
<1> QED
  BY <1>1, <1>2, <1>3 DEF RouteInv, Deliverable, Top

\* Who keeps the bytes, drops them, or writes them to a device
LEMMA TakeStep ==
    ASSUME RouteInv, NEW i \in Inputs, Deliverable(i), Count(i),
           UNCHANGED <<edges, running, emitted, error>>,
           NEW fails \in BOOLEAN, Takes(stack, stack', i, fails), failed' = IF fails THEN failed \cup {i} ELSE failed
    PROVE  RouteInv'
<1>1. /\ running /\ Good(edges) /\ Len(stack) > 0 /\ i \in stack[Len(stack)].todo
      /\ Parts(edges, stack, received, emitted, failed, error)
  BY Delivers
<1>2. Counts(received, received', i) /\ Fails(failed, failed', i, fails)
  BY DEF Count, Counts, Fails
<1>3. Parts(edges, stack', received', emitted, failed', error)
  BY <1>1, <1>2, TakeParts, Zenon
<1>4. failed' \subseteq Inputs
  BY DEF RouteInv
<1> QED
  BY <1>1, <1>3, <1>4 DEF RouteInv

\* A node passes bytes on.
LEMMA ForwardStep ==
    ASSUME RouteInv, NEW i \in Inputs, Deliverable(i), Forwarding(i),
           NEW told \in BOOLEAN, told \/ Drops(i), Forward(i, Onward(i), told)
    PROVE  RouteInv'
<1> DEFINE p == Onward(i)
           u == Take(i)
<1>1. p \in Outputs /\ NodeOf(i) \notin Master
  BY OnwardPort DEF Forwarding, TypeAt, Master
<1>2. p \notin emitted
  BY <1>1, Delivers, OnwardFresh
<1>3. Takes(stack, u, i, FALSE)
  BY Delivers, TakeTakes DEF Take
<1>4. /\ Parts(edges, u, received', emitted, failed, error) /\ received'[i] = 1
      /\ i \in Goal(edges, u[Len(u)].port)
  <2>1. Counts(received, received', i) /\ Fails(failed, failed, i, FALSE) /\ FALSE \in BOOLEAN
    BY DEF Forward, Count, Counts, Fails
  <2>2. /\ Good(edges) /\ Len(stack) > 0 /\ i \in stack[Len(stack)].todo
        /\ Parts(edges, stack, received, emitted, failed, error)
    BY Delivers
  <2> HIDE DEF u
  <2>3. /\ received \in [Inputs -> {0, 1}] /\ received[i] = 0 /\ Len(stack) \in 1 .. Len(stack)
        /\ i \in Goal(edges, stack[Len(stack)].port)
    BY Delivers
  <2>4. ASSUME NEW v, NEW b, b \in BOOLEAN, Takes(stack, v, i, b), Fails(failed, failed, i, b)
        PROVE  /\ Parts(edges, v, received', emitted, failed, error) /\ received'[i] = 1
               /\ i \in Goal(edges, v[Len(v)].port)
    <3>1. Parts(edges, v, received', emitted, failed, error)
      BY <2>1, <2>2, <2>4, TakeParts, Zenon
    <3>2. received'[i] = 1
      BY <2>3 DEF Forward, Count
    <3>3. i \in Goal(edges, v[Len(v)].port)
      BY <2>4, <2>3 DEF Takes
    <3> QED
      BY <3>1, <3>2, <3>3
  <2> QED
    BY <1>3, <2>1, <2>4
<1>5. u \in Seq(Frame) /\ Len(u) > 0
  BY <1>3, Delivers DEF Takes
<1>6. stack' = Append(u, [port |-> p, todo |-> Goal(edges, p), err |-> FALSE, tell |-> told])
  BY TargetsAreGoal DEF Forward, Emit
<1> HIDE DEF u
<1>7. Pushes(edges, u, stack', p, told)
  BY <1>1, <1>5, <1>6, AppendPushes DEF RouteInv
<1>8. Parts(edges, stack', received', emitted \cup {p}, failed, error)
  BY <1>1, <1>2, <1>4, <1>5, <1>7, Delivers, PushParts
<1> QED
  BY <1>8, Delivers DEF RouteInv, Forward

\* An emit returns.
LEMMA ReturnStep ==
    ASSUME RouteInv, Return
    PROVE  RouteInv'
<1> DEFINE n == Len(stack)
           fails == stack[n].err /\ stack[n].tell
<1>1. /\ stack # << >> /\ stack \in Seq(Frame) /\ running
      /\ Parts(edges, stack, received, emitted, failed, error) /\ Top = stack[n]
  BY DEF RouteInv, Parts, Values, Return, Top
<1>2. n \in Nat /\ n > 0 /\ stack[n] \in Frame /\ stack[n].todo = {}
  BY <1>1 DEF Return
<1>3. fails \in BOOLEAN
  OBVIOUS
<1>4. Returns(stack, Rest, FALSE)
  BY <1>1, <1>2, RestReturns DEF Rest
<1>5. Returns(stack, stack', fails) /\ (error' <=> n = 1 /\ fails) /\ error' \in BOOLEAN
  <2>1. CASE n = 1
    <3>1. stack' = << >> /\ error' = fails
      BY <1>1, <2>1 DEF Return
    <3>2. << >> \in Seq(Frame) /\ Len(<< >>) = 0 /\ 1 .. 0 = {}
      OBVIOUS
    <3>3. Returns(stack, stack', fails)
      BY <2>1, <3>1, <3>2 DEF Returns
    <3> QED
      BY <2>1, <3>1, <3>3
  <2>2. CASE n # 1
    <3>1. stack' = (IF fails THEN [Rest EXCEPT ![Len(Rest)].err = TRUE] ELSE Rest) /\ error' = error
      BY <1>1, <2>2 DEF Return
    <3>2. ~error /\ error \in BOOLEAN
      BY <1>1, <1>2 DEF RouteInv, Parts, Told
    <3>3. Len(Rest) > 0
      BY <1>2, <1>4, <2>2 DEF Returns
    <3>4. Returns(stack, [Rest EXCEPT ![Len(Rest)].err = TRUE], TRUE)
      BY <1>1, <1>4, <3>3, FailReturns
    <3>5. CASE fails
      BY <2>2, <3>1, <3>2, <3>4, <3>5
    <3>6. CASE ~fails
      BY <2>2, <3>1, <3>2, <1>4, <3>6
    <3> QED
      BY <3>5, <3>6
  <2> QED
    BY <2>1, <2>2
<1> HIDE DEF fails
<1>6. fails <=> stack[Len(stack)].err /\ stack[Len(stack)].tell
  BY DEF fails
<1>7. Parts(edges, stack', received, emitted, failed, error')
  BY <1>1, <1>2, <1>3, <1>5, <1>6, ReturnParts
<1> QED
  BY <1>1, <1>5, <1>7 DEF RouteInv, Return

-----------------------------------------------------------------------------
(* Invariance                                                              *)

\* Before the first bytes
LEMMA RouteStart == Init => RouteInv
<1> SUFFICES ASSUME Init PROVE RouteInv
  OBVIOUS
<1>1. stack = << >> /\ stack \in Seq(Frame) /\ Len(stack) = 0 /\ 1 .. Len(stack) = {}
  BY DEF Init
<1>2. received \in [Inputs -> {0, 1}] /\ emitted = {} /\ failed = {} /\ error = FALSE
  BY DEF Init
<1>3. Path(edges, stack) /\ Owed(edges, stack, received) /\ Origin(edges, stack, received, emitted)
  BY <1>1 DEF Path, Owed, Origin
<1>4. Served(edges, stack, received, emitted) /\ Told(stack, received, failed, error)
  BY <1>1, <1>2 DEF Served, Told
<1>5. Parts(edges, stack, received, emitted, failed, error)
  BY <1>1, <1>2, <1>3, <1>4 DEF Parts, Values
<1> QED
  BY <1>1, <1>2, <1>5 DEF Init, RouteInv

\* No bytes are under way while the graph is drawn.
LEMMA ConnectStep ==
    ASSUME RouteInv, NEW e \in Edge, Connect(e)
    PROVE  RouteInv'
<1>1. /\ ~running /\ stack = << >> /\ emitted = {} /\ failed = {} /\ error = FALSE
      /\ Values(stack, received, emitted)
  BY DEF RouteInv, Connect, Parts
<1>2. UNCHANGED <<running, stack, received, emitted, failed, error>> /\ edges' \subseteq Edge
  BY DEF RouteInv, Connect
<1>3. Len(stack) = 0 /\ 1 .. Len(stack) = {}
  BY <1>1
<1>4. Path(edges', stack) /\ Owed(edges', stack, received) /\ Origin(edges', stack, received, emitted)
  BY <1>3 DEF Path, Owed, Origin
<1>5. Served(edges', stack, received, emitted) /\ Told(stack, received, failed, error)
  BY <1>1, <1>3 DEF Served, Told
<1>6. Parts(edges', stack, received, emitted, failed, error)
  BY <1>1, <1>4, <1>5 DEF Parts
<1> QED
  BY <1>1, <1>2, <1>6 DEF RouteInv

\* Bytes come from a device, a timer or the user.
LEMMA DeliverStep ==
    ASSUME RouteInv, NEW p \in Outputs, Deliver(p)
    PROVE  RouteInv'
<1>1. Inject(p, {}, TRUE)
  BY DEF Deliver
<1> QED
  BY <1>1, InjectStep

\* The user sends by a virtual node.
LEMMA SendVirtualStep ==
    ASSUME RouteInv, NEW n \in Node, SendVirtual(n)
    PROVE  RouteInv'
<1> DEFINE p == <<n, "rx">>
           got == {<<n, "tx">>}
<1>1. TypeOf[n] = "virtual" /\ Inject(p, got, FALSE)
  BY DEF SendVirtual
<1>2. p \in Outputs
  BY <1>1, OutputOf DEF OutputsOf
<1>3. \E m \in Node : TypeOf[m] = "virtual" /\ p = <<m, "rx">> /\ got = {<<m, "tx">>}
  BY <1>1
<1> HIDE DEF p, got
<1> QED
  BY <1>1, <1>2, <1>3, InjectStep

\* Who keeps the bytes, drops them, or writes them to a device that takes them
LEMMA CalmStep ==
    ASSUME RouteInv, NEW i \in Inputs, Deliverable(i), Count(i), stack' = Take(i),
           UNCHANGED <<edges, running, emitted, failed, error>>
    PROVE  RouteInv'
<1>1. Takes(stack, stack', i, FALSE)
  BY Delivers, TakeTakes DEF Take
<1>2. failed' = IF FALSE THEN failed \cup {i} ELSE failed
  OBVIOUS
<1> QED
  BY <1>1, <1>2, TakeStep

\* A device fails to take its bytes.
LEMMA DeviceFailsStep ==
    ASSUME RouteInv, NEW i \in Inputs, DeviceFails(i)
    PROVE  RouteInv'
<1>1. /\ Deliverable(i) /\ Count(i) /\ UNCHANGED <<edges, running, emitted, error>>
      /\ stack' = [Take(i) EXCEPT ![Len(stack)].err = TRUE] /\ failed' = failed \cup {i}
  BY DEF DeviceFails
<1>2. Takes(stack, Take(i), i, FALSE)
  BY <1>1, Delivers, TakeTakes DEF Take
<1>3. Takes(stack, stack', i, TRUE)
  BY <1>1, <1>2, Delivers, FailTakes
<1>4. failed' = IF TRUE THEN failed \cup {i} ELSE failed
  BY <1>1
<1> QED
  BY <1>1, <1>3, <1>4, TakeStep

\* Every step keeps the invariant
LEMMA RouteStep == RouteInv /\ [Next]_vars => RouteInv'
<1> SUFFICES ASSUME RouteInv, [Next]_vars PROVE RouteInv'
  OBVIOUS
<1>1. ASSUME NEW e \in Edge, Connect(e) PROVE RouteInv'
  BY <1>1, ConnectStep
<1>2. CASE Start
  BY <1>2, ValidIsGood DEF RouteInv, Start
<1>3. ASSUME NEW p \in Outputs, Deliver(p) PROVE RouteInv'
  BY <1>3, DeliverStep
<1>4. ASSUME NEW n \in Node, SendVirtual(n) PROVE RouteInv'
  BY <1>4, SendVirtualStep
<1>5. ASSUME NEW i \in Inputs, Keep(i) \/ Drop(i) \/ DeviceWrites(i) PROVE RouteInv'
  BY <1>5, CalmStep DEF Keep, Drop, DeviceWrites
<1>6. ASSUME NEW i \in Inputs, Bridge(i) PROVE RouteInv'
  <2>1. Deliverable(i) /\ Forwarding(i) /\ Forward(i, Onward(i), TRUE)
    BY <1>6 DEF Bridge, Forwarding, Onward
  <2> QED
    BY <2>1, ForwardStep
<1>7. ASSUME NEW i \in Inputs, Loopback(i) \/ Pass(i) \/ Answer(i) PROVE RouteInv'
  <2>1. Deliverable(i) /\ Forwarding(i) /\ Drops(i) /\ Forward(i, Onward(i), FALSE)
    BY <1>7 DEF Loopback, Pass, Answer, Forwarding, Drops, Onward
  <2> QED
    BY <2>1, ForwardStep
<1>8. ASSUME NEW i \in Inputs, DeviceFails(i) PROVE RouteInv'
  BY <1>8, DeviceFailsStep
<1>9. CASE Return
  BY <1>9, ReturnStep
<1>10. CASE UNCHANGED vars
  BY <1>10 DEF RouteInv, vars
<1> QED
  BY <1>1, <1>2, <1>3, <1>4, <1>5, <1>6, <1>7, <1>8, <1>9, <1>10 DEF Next, Route

\* ... which says that every target gets the bytes once
LEMMA RouteDelivers == RouteInv => DeliveredOnce
<1> SUFFICES ASSUME RouteInv PROVE DeliveredOnce
  OBVIOUS
<1>1. /\ stack \in Seq(Frame) /\ received \in [Inputs -> {0, 1}]
      /\ Path(edges, stack) /\ Served(edges, stack, received, emitted)
  BY DEF RouteInv, Parts, Values
<1>2. Len(stack) \in Nat /\ DOMAIN stack = 1 .. Len(stack)
  BY <1>1
<1>3. NoNodeTwice
  BY <1>1, <1>2, PathApart DEF NoNodeTwice
<1>4. \A i \in Inputs : received[i] <= 1
  <2> SUFFICES ASSUME NEW i \in Inputs PROVE received[i] <= 1
    OBVIOUS
  <2>1. received[i] \in {0, 1}
    BY <1>1
  <2> QED
    BY <2>1
<1>5. ASSUME stack = << >>, NEW port \in emitted, NEW i \in Targets(port) PROVE received[i] = 1
  <2>1. 1 .. Len(stack) = {}
    BY <1>5
  <2> QED
    BY <1>1, <1>5, <2>1, TargetsAreGoal DEF Served
<1> QED
  BY <1>3, <1>4, <1>5 DEF DeliveredOnce

\* ... and that the sender learns of a failure.
LEMMA RouteTells == RouteInv => ErrorIsTold
<1> SUFFICES ASSUME RouteInv, stack = << >>
             PROVE  /\ error => failed # {}
                    /\ failed # {} /\ Faithful(received) => error
  BY DEF ErrorIsTold, Faithful
<1>1. 1 .. Len(stack) = {} /\ Told(stack, received, failed, error)
  BY DEF RouteInv, Parts
<1> QED
  BY <1>1 DEF Told

-----------------------------------------------------------------------------

\* For every graph that validateSerialGraphRuntimeRequest lets through: every
\* emit under way is of a node strictly below those it was called for, what is
\* left to serve has received nothing, and whoever emitted serves every target.
THEOREM RouteInductive == Spec => []RouteInv
  BY RouteStart, RouteStep, PTL DEF Spec

\* However the edges branch and join, and whichever device fails: the
\* recursion of emit and receive comes back to no node that emits, no input
\* gets the bytes twice, and emit serves every target.
THEOREM DeliveredOnceAlways == Spec => []DeliveredOnce
  BY RouteInductive, RouteDelivers, PTL

\* emit and the handlers of the nodes: an error reaches whoever sent when only
\* bridges are between, and none is made up.
THEOREM ErrorIsToldAlways == Spec => []ErrorIsTold
  BY RouteInductive, RouteTells, PTL


-----------------------------------------------------------------------------
(* A script node: what its runs, its state and its frames are              *)

RunState ==
    [pc : {"none", "wait", "result", "failed", "over"},
     script : {"none", "js", "lock", "locked", "ended", "threw"},
     interrupted : BOOLEAN, input : Nat, calls : Nat, key : Key \cup {NoKey}, bytes : Nat,
     copy : [Key -> Nat] \cup {NoKey}, out : Nat, mark : {"none", "drop", "error"}]

Changing == {"lock", "locked"}

\* A run: what has an end without an interrupt has none of its script left
RunSound(c, max) ==
    /\ c \in RunState /\ c.out <= max
    /\ c.pc \in {"none", "wait"} => ~c.interrupted
    /\ c.pc = "none" => c.script = "none"
    /\ c.pc = "result" => c.script = "ended" /\ ~c.interrupted
    /\ c.pc = "failed" /\ ~c.interrupted => c.script \in {"none", "threw"}
    /\ c.pc = "over" /\ ~c.interrupted => c.script \in {"none", "ended", "threw"}
    /\ c.script \in Changing => c.key \in Key

\* What left the node is still what the run gave it.
Left(e, c, passes) ==
    /\ c.pc = "over"
    /\ IF e.input
       THEN e.bytes = c.input /\ passes /\ (c.script = "ended" => c.interrupted)
       ELSE e.bytes = c.out /\ c.script = "ended" /\ ~c.interrupted /\ c.mark = "none"

SentOutput == [run : Run, bytes : Nat, input : BOOLEAN]

OutputsSound(outs, cs, passes) ==
    /\ outs \in Seq(SentOutput)
    /\ \A i \in 1 .. Len(outs) : Left(outs[i], cs[outs[i].run], passes)
    /\ \A i, j \in 1 .. Len(outs) : outs[i].run = outs[j].run => i = j

BoundedState(v) == \E n \in Nat : \A k \in Key : v[k] <= n

\* Who has changed the state after its timeout does not change it again; who
\* has the lock has the state as it is, but for the key it changes.
ChangesOnce(late, c) == late \in {0, 1} /\ (late # 0 => c.interrupted /\ c.script \notin Changing)
HoldsLock(r, c, v, l) == c.script = "locked" => l = r /\ c.copy = [v EXCEPT ![c.key] = c.bytes]

StateSound(v, latest, l, late, cs, max) ==
    /\ v \in [Key -> Nat] /\ BoundedState(v) /\ latest = v /\ Total(v) <= max
    /\ late \in [Run -> Nat]
    /\ \A r \in Run : ChangesOnce(late[r], cs[r]) /\ HoldsLock(r, cs[r], v, l)

FrameOf == [seq : Nat, bytes : Nat]
BoundedFrames(fs) == \E n \in Nat : \A i \in 1 .. Len(fs) : fs[i].bytes <= n

\* The frames are the end of the history, and one more would not fit.
FramesSound(fs, h, seq, again) ==
    /\ fs \in Seq(FrameOf) /\ h \in Seq(FrameOf) /\ seq \in Nat /\ BoundedFrames(h)
    /\ Len(fs) <= Len(h) /\ \A i \in 1 .. Len(fs) : fs[i] = h[Len(h) - Len(fs) + i]
    /\ Fits(fs) /\ (Len(fs) < Len(h) => ~Fits(Behind(h, Len(h) - Len(fs))))
    /\ ~again => \A i \in 1 .. Len(fs) : fs[i].seq = seq - Len(fs) + i

ScriptInv ==
    /\ config \in Configs /\ call \in [Run -> RunState]
    /\ \A r \in Run : RunSound(call[r], MaxOutput)
    /\ StateSound(values, last, lock, lateChanges, call, MaxState)
    /\ OutputsSound(outputs, call, config.passes)
    /\ FramesSound(frames, history, frameSeq, renumbered)

-----------------------------------------------------------------------------
\* The limits of a node are numbers of bytes, also when it has none.
LEMMA LimitsAreNat == ASSUME config \in Configs PROVE MaxOutput \in Nat /\ MaxState \in Nat
<1>1. config.limits \in Int \X Int BY ScriptAssumption
<1>2. config.limits[1] \in Int /\ config.limits[2] \in Int BY <1>1
<1>3. ASSUME NEW l \in Int PROVE Limit(l) \in Nat BY ScriptAssumption DEF Limit
<1> QED BY <1>2, <1>3 DEF MaxOutput, MaxState

\* A set of numbers that is not empty has a least one.
LEMMA LeastNumber ==
    ASSUME NEW S \in SUBSET Nat, S # {}
    PROVE  \E i \in S : \A j \in S : i <= j
<1>1. PICK i \in S : \A j \in S : <<j, i>> \notin OpToRel(<, Nat)
  BY NatLessThanWellFounded, WFMin, Zenon
<1>2. ASSUME NEW j \in S PROVE i <= j
  <2>1. j \in Nat /\ i \in Nat /\ ~(j < i)
    BY <1>1 DEF OpToRel
  <2> QED
    BY <2>1
<1> QED
  BY <1>2

-----------------------------------------------------------------------------
(* The sizes of states and frames                                          *)

StateBytes(v) == UNION {{k} \X (1 .. v[k]) : k \in Key}

\* The bytes of a state can be counted.
LEMMA StateCounts ==
    ASSUME NEW v \in [Key -> Nat], BoundedState(v)
    PROVE  IsFiniteSet(StateBytes(v)) /\ Total(v) \in Nat /\ Total(v) = Cardinality(StateBytes(v))
<1>1. PICK n \in Nat : \A k \in Key : v[k] <= n BY DEF BoundedState
<1>2. IsFiniteSet(Key \X (1 .. n))
  <2>1. IsFiniteSet(1 .. n) BY FS_Interval
  <2> QED BY <2>1, FS_Product, ScriptAssumption
<1>3. StateBytes(v) \subseteq Key \X (1 .. n) BY <1>1 DEF StateBytes
<1>4. IsFiniteSet(StateBytes(v)) BY <1>2, <1>3, FS_Subset
<1>5. Cardinality(StateBytes(v)) \in Nat BY <1>4, FS_CardinalityType
<1> QED BY <1>4, <1>5 DEF Total, StateBytes

\* A change of a key keeps a state countable, and the deletion of a key does
\* not make it larger.
LEMMA StateChanges ==
    ASSUME NEW v \in [Key -> Nat], BoundedState(v), NEW k \in Key, NEW n \in Nat
    PROVE  LET w == [v EXCEPT ![k] = n] IN
           /\ w \in [Key -> Nat] /\ BoundedState(w)
           /\ n = 0 => Total(w) <= Total(v)
<1> DEFINE w == [v EXCEPT ![k] = n]
<1>1. w \in [Key -> Nat] OBVIOUS
<1>2. BoundedState(w)
  <2>1. PICK m \in Nat : \A l \in Key : v[l] <= m BY DEF BoundedState
  <2>2. m + n \in Nat /\ \A l \in Key : w[l] <= m + n BY <2>1
  <2> QED BY <2>2 DEF BoundedState
<1>3. ASSUME n = 0 PROVE Total(w) <= Total(v)
  <2>1. StateBytes(w) \subseteq StateBytes(v)
    <3> SUFFICES ASSUME NEW l \in Key, NEW x \in {l} \X (1 .. w[l]) PROVE x \in {l} \X (1 .. v[l]) BY DEF StateBytes
    <3>1. w[l] = v[l] \/ w[l] = 0 BY <1>3
    <3>2. w[l] # 0 BY SMT
    <3> QED BY <3>1, <3>2
  <2>2. IsFiniteSet(StateBytes(v)) /\ Total(v) = Cardinality(StateBytes(v)) BY StateCounts
  <2>3. Total(w) = Cardinality(StateBytes(w)) BY <1>1, <1>2, StateCounts
  <2> QED BY <2>1, <2>2, <2>3, FS_Subset
<1> QED BY <1>1, <1>2, <1>3

\* An empty state has no bytes.
LEMMA EmptyCounts ==
    LET v == [k \in Key |-> 0] IN v \in [Key -> Nat] /\ BoundedState(v) /\ Total(v) = 0
<1> DEFINE v == [k \in Key |-> 0]
<1>1. v \in [Key -> Nat] /\ \A k \in Key : v[k] <= 0 OBVIOUS
<1>2. BoundedState(v) BY <1>1 DEF BoundedState
<1>3. StateBytes(v) = {} BY DEF StateBytes
<1> QED BY <1>1, <1>2, <1>3, StateCounts, FS_EmptySet

BytesOf(fs) == UNION {{i} \X (1 .. fs[i].bytes) : i \in DOMAIN fs}

\* The bytes of a frame are a number.
LEMMA BytesAreNat == ASSUME NEW fs \in Seq(FrameOf) PROVE \A i \in 1 .. Len(fs) : fs[i].bytes \in Nat
<1> SUFFICES ASSUME NEW i \in 1 .. Len(fs) PROVE fs[i].bytes \in Nat OBVIOUS
<1>1. fs[i] \in FrameOf OBVIOUS
<1> QED BY <1>1 DEF FrameOf

\* The bytes of frames can be counted.
LEMMA FramesCount ==
    ASSUME NEW fs \in Seq(FrameOf), BoundedFrames(fs)
    PROVE  IsFiniteSet(BytesOf(fs)) /\ FrameBytes(fs) \in Nat /\ FrameBytes(fs) = Cardinality(BytesOf(fs))
<1>1. PICK n \in Nat : \A i \in 1 .. Len(fs) : fs[i].bytes <= n BY DEF BoundedFrames
<1>2. IsFiniteSet((1 .. Len(fs)) \X (1 .. n))
  <2>1. IsFiniteSet(1 .. n) /\ IsFiniteSet(1 .. Len(fs)) BY FS_Interval
  <2> QED BY <2>1, FS_Product
<1>3. \A i \in 1 .. Len(fs) : fs[i].bytes \in Nat BY BytesAreNat
<1>4. BytesOf(fs) \subseteq (1 .. Len(fs)) \X (1 .. n) BY <1>1, <1>3 DEF BytesOf
<1>5. IsFiniteSet(BytesOf(fs)) BY <1>2, <1>4, FS_Subset
<1>6. Cardinality(BytesOf(fs)) \in Nat BY <1>5, FS_CardinalityType
<1> QED BY <1>5, <1>6 DEF FrameBytes, BytesOf

\* One more frame keeps frames countable.
LEMMA AppendBounded ==
    ASSUME NEW fs \in Seq(FrameOf), NEW f \in FrameOf, BoundedFrames(fs)
    PROVE  BoundedFrames(Append(fs, f))
<1> DEFINE gs == Append(fs, f)
<1>1. Len(gs) = Len(fs) + 1 /\ gs[Len(fs) + 1] = f /\ \A i \in 1 .. Len(fs) : gs[i] = fs[i] OBVIOUS
<1>2. PICK n \in Nat : \A i \in 1 .. Len(fs) : fs[i].bytes <= n BY DEF BoundedFrames
<1>3. f.bytes \in Nat /\ \A i \in 1 .. Len(fs) : fs[i].bytes \in Nat BY BytesAreNat DEF FrameOf
<1> HIDE DEF gs
<1>4. ASSUME NEW i \in 1 .. Len(gs) PROVE gs[i].bytes <= n + f.bytes
  <2>1. CASE i \in 1 .. Len(fs) BY <2>1, <1>1, <1>2, <1>3
  <2>2. CASE i = Len(fs) + 1 BY <2>2, <1>1, <1>3
  <2> QED BY <2>1, <2>2, <1>1
<1>5. n + f.bytes \in Nat BY <1>3
<1>6. BoundedFrames(gs) BY <1>4, <1>5 DEF BoundedFrames
<1> QED BY <1>6 DEF gs

\* What does not fit does not fit with one more frame.
LEMMA OneMoreFits ==
    ASSUME NEW fs \in Seq(FrameOf), NEW f \in FrameOf, BoundedFrames(fs), Fits(Append(fs, f))
    PROVE  Fits(fs)
<1> DEFINE gs == Append(fs, f)
<1>1. gs \in Seq(FrameOf) /\ Len(gs) = Len(fs) + 1 /\ \A i \in 1 .. Len(fs) : gs[i] = fs[i]
  OBVIOUS
<1>2. gs[Len(fs) + 1] = f OBVIOUS
<1>3. BoundedFrames(gs) BY AppendBounded
<1>4. BytesOf(fs) \subseteq BytesOf(gs)
  <2>1. DOMAIN fs = 1 .. Len(fs) /\ DOMAIN gs = 1 .. Len(gs) BY <1>1
  <2>2. \A i \in DOMAIN fs : i \in DOMAIN gs /\ gs[i] = fs[i] BY <1>1, <2>1
  <2> HIDE DEF gs
  <2> QED BY <2>2 DEF BytesOf
<1>5. IsFiniteSet(BytesOf(gs)) /\ FrameBytes(gs) = Cardinality(BytesOf(gs)) /\ FrameBytes(gs) \in Nat
  BY <1>1, <1>3, FramesCount
<1>6. FrameBytes(fs) = Cardinality(BytesOf(fs)) /\ FrameBytes(fs) \in Nat BY FramesCount
<1>7. FrameBytes(fs) <= FrameBytes(gs) BY <1>4, <1>5, <1>6, FS_Subset
<1>8. Len(fs) \in Nat /\ FrameLimit \in Nat /\ FrameBytesLimit \in Nat BY ScriptAssumption
<1> HIDE DEF gs
<1>9. Fits(gs) BY DEF gs
<1> QED BY <1>1, <1>5, <1>6, <1>7, <1>8, <1>9 DEF Fits

\* The end of a sequence of frames
LEMMA BehindParts ==
    ASSUME NEW fs \in Seq(FrameOf), NEW i \in 1 .. Len(fs) + 1
    PROVE  /\ Behind(fs, i) \in Seq(FrameOf) /\ Len(Behind(fs, i)) = Len(fs) - i + 1
           /\ \A j \in 1 .. Len(fs) - i + 1 : Behind(fs, i)[j] = fs[i + j - 1]
BY DEF Behind

\* The end of frames that can be counted
LEMMA BehindBounded ==
    ASSUME NEW fs \in Seq(FrameOf), NEW i \in 1 .. Len(fs) + 1, BoundedFrames(fs)
    PROVE  Behind(fs, i) \in Seq(FrameOf) /\ BoundedFrames(Behind(fs, i))
<1>1. PICK n \in Nat : \A k \in 1 .. Len(fs) : fs[k].bytes <= n BY DEF BoundedFrames
<1>2. /\ Behind(fs, i) \in Seq(FrameOf) /\ Len(Behind(fs, i)) = Len(fs) - i + 1
      /\ \A j \in 1 .. Len(fs) - i + 1 : Behind(fs, i)[j] = fs[i + j - 1]
  BY BehindParts
<1>3. ASSUME NEW j \in 1 .. Len(Behind(fs, i)) PROVE Behind(fs, i)[j].bytes <= n
  <2>1. i + j - 1 \in 1 .. Len(fs) BY <1>2
  <2>2. Behind(fs, i)[j] = fs[i + j - 1] BY <1>2
  <2> QED BY <2>1, <2>2, <1>1
<1> QED BY <1>2, <1>3 DEF BoundedFrames

\* The end of frames after one more
LEMMA BehindAppended ==
    ASSUME NEW fs \in Seq(FrameOf), NEW f \in FrameOf, NEW i \in 1 .. Len(fs)
    PROVE  Behind(Append(fs, f), i) = Append(Behind(fs, i), f)
<1> DEFINE gs == Append(fs, f)
           a == Behind(gs, i)
           b == Append(Behind(fs, i), f)
<1>0. Len(fs) \in Nat /\ i \in 1 .. Len(fs) + 1 OBVIOUS
<1>1. gs \in Seq(FrameOf) /\ Len(gs) = Len(fs) + 1 /\ gs[Len(fs) + 1] = f /\ \A j \in 1 .. Len(fs) : gs[j] = fs[j]
  OBVIOUS
<1>2. /\ Behind(fs, i) \in Seq(FrameOf) /\ Len(Behind(fs, i)) = Len(fs) - i + 1
      /\ \A j \in 1 .. Len(fs) - i + 1 : Behind(fs, i)[j] = fs[i + j - 1]
  BY <1>0, BehindParts
<1> HIDE DEF gs
<1>3. i \in 1 .. Len(gs) + 1 BY <1>0, <1>1
<1>4. a \in Seq(FrameOf) /\ Len(a) = Len(gs) - i + 1 /\ \A j \in 1 .. Len(gs) - i + 1 : a[j] = gs[i + j - 1]
  BY <1>1, <1>3, BehindParts
<1>5. /\ b \in Seq(FrameOf) /\ Len(b) = Len(fs) - i + 2 /\ b[Len(fs) - i + 2] = f
      /\ \A j \in 1 .. Len(fs) - i + 1 : b[j] = fs[i + j - 1]
  <2> DEFINE e == Behind(fs, i)
  <2>1. e \in Seq(FrameOf) /\ Len(e) = Len(fs) - i + 1 BY <1>2
  <2>2. b = Append(e, f) OBVIOUS
  <2> HIDE DEF e, b
  <2>3. /\ b \in Seq(FrameOf) /\ Len(b) = Len(e) + 1 /\ b[Len(e) + 1] = f
        /\ \A j \in 1 .. Len(e) : b[j] = e[j] BY <2>1, <2>2
  <2>4. Len(e) + 1 = Len(fs) - i + 2 BY <2>1, <1>0
  <2>5. \A j \in 1 .. Len(fs) - i + 1 : e[j] = fs[i + j - 1] BY <1>2 DEF e
  <2> QED BY <2>1, <2>3, <2>4, <2>5
<1> HIDE DEF a, b
<1>6. Len(a) = Len(b) /\ Len(a) = Len(fs) - i + 2 BY <1>0, <1>1, <1>4, <1>5
<1>7. ASSUME NEW j \in 1 .. Len(a) PROVE a[j] = b[j]
  <2>1. a[j] = gs[i + j - 1] BY <1>4
  <2>2. CASE j = Len(fs) - i + 2
    <3>1. i + j - 1 = Len(fs) + 1 BY <2>2, <1>0
    <3> QED BY <2>1, <2>2, <3>1, <1>1, <1>5
  <2>3. CASE j \in 1 .. Len(fs) - i + 1
    <3>1. i + j - 1 \in 1 .. Len(fs) BY <2>3, <1>0
    <3> QED BY <2>1, <2>3, <3>1, <1>1, <1>5
  <2>4. j = Len(fs) - i + 2 \/ j \in 1 .. Len(fs) - i + 1 BY <1>0, <1>6
  <2> QED BY <2>2, <2>3, <2>4
<1>8. a = b BY <1>4, <1>5, <1>6, <1>7, SeqEqual
<1> QED BY <1>8 DEF a, b, gs

\* Sequences with the same end
LEMMA SameEnd ==
    ASSUME NEW fs \in Seq(FrameOf), NEW h \in Seq(FrameOf), Len(fs) <= Len(h),
           \A i \in 1 .. Len(fs) : fs[i] = h[Len(h) - Len(fs) + i],
           NEW i \in 1 .. Len(fs) + 1
    PROVE  Behind(fs, i) = Behind(h, Len(h) - Len(fs) + i)
<1> DEFINE o == Len(h) - Len(fs)
           a == Behind(fs, i)
           b == Behind(h, o + i)
<1>1. Len(fs) \in Nat /\ Len(h) \in Nat /\ o \in Nat /\ o + i \in 1 .. Len(h) + 1 OBVIOUS
<1>2. a \in Seq(FrameOf) /\ Len(a) = Len(fs) - i + 1 /\ \A j \in 1 .. Len(fs) - i + 1 : a[j] = fs[i + j - 1]
  BY BehindParts
<1>3. /\ b \in Seq(FrameOf) /\ Len(b) = Len(h) - (o + i) + 1
      /\ \A j \in 1 .. Len(h) - (o + i) + 1 : b[j] = h[o + i + j - 1]
  BY <1>1, BehindParts
<1>4. Len(a) = Len(b) BY <1>1, <1>2, <1>3
<1>5. ASSUME NEW j \in 1 .. Len(a) PROVE a[j] = b[j]
  <2>1. i + j - 1 \in 1 .. Len(fs) BY <1>2
  <2>2. fs[i + j - 1] = h[o + (i + j - 1)] BY <2>1
  <2>3. o + (i + j - 1) = o + i + j - 1 BY <1>1
  <2>4. a[j] = fs[i + j - 1] BY <1>2
  <2>5. b[j] = h[o + i + j - 1] BY <1>3, <1>4
  <2> HIDE DEF a, b, o
  <2> QED BY <2>2, <2>3, <2>4, <2>5
<1> HIDE DEF a, b
<1>6. a = b BY <1>2, <1>3, <1>4, <1>5, SeqEqual
<1> QED BY <1>6 DEF a, b

\* The loop of append finds the first rest that fits.
LEMMA FirstFits ==
    ASSUME NEW fs \in Seq(FrameOf)
    PROVE  /\ FirstThatFits(fs) \in 1 .. Len(fs) + 1
           /\ Fits(Behind(fs, FirstThatFits(fs)))
           /\ \A j \in 1 .. FirstThatFits(fs) - 1 : ~Fits(Behind(fs, j))
<1> DEFINE S == {i \in 1 .. Len(fs) + 1 : Fits(Behind(fs, i))}
<1>1. Len(fs) + 1 \in S
  <2>1. Len(fs) + 1 \in 1 .. Len(fs) + 1 OBVIOUS
  <2>2. Len(Behind(fs, Len(fs) + 1)) = Len(fs) - (Len(fs) + 1) + 1 BY <2>1, BehindParts
  <2>4. Len(Behind(fs, Len(fs) + 1)) = 0 BY <2>2
  <2>3. Fits(Behind(fs, Len(fs) + 1)) BY <2>4, ScriptAssumption DEF Fits
  <2> QED BY <2>1, <2>3
<1>2. S \in SUBSET Nat OBVIOUS
<1>3. PICK i \in S : \A j \in S : i <= j BY <1>1, <1>2, LeastNumber
<1>4. i \in 1 .. Len(fs) + 1 /\ Fits(Behind(fs, i)) /\ \A j \in 1 .. i - 1 : ~Fits(Behind(fs, j))
  <2>1. i \in 1 .. Len(fs) + 1 /\ Fits(Behind(fs, i)) BY <1>3
  <2>2. ASSUME NEW j \in 1 .. i - 1 PROVE j \notin S BY <1>3, <2>1
  <2>3. \A j \in 1 .. i - 1 : j \in 1 .. Len(fs) + 1 BY <2>1
  <2> QED BY <2>1, <2>2, <2>3
<1> HIDE DEF S
<1> QED BY <1>4, Zenon DEF FirstThatFits

-----------------------------------------------------------------------------
(* The frames after a step                                                 *)

\* A frame that is added: the loop drops the oldest, and no more than it must.
LEMMA FrameAdded ==
    ASSUME NEW fs, NEW h, NEW seq, NEW again, FramesSound(fs, h, seq, again),
           NEW f \in FrameOf, f.seq = seq + 1
    PROVE  FramesSound(Trim(Append(fs, f)), Append(h, f), seq + 1, again)
<1> DEFINE s == Append(fs, f)
           g == Append(h, f)
           i == FirstThatFits(s)
           t == Behind(s, i)
           n == Len(fs)
           m == Len(h)
<1>1. fs \in Seq(FrameOf) /\ h \in Seq(FrameOf) /\ n \in Nat /\ m \in Nat /\ n <= m /\ seq \in Nat
  BY DEF FramesSound
<1>2. /\ s \in Seq(FrameOf) /\ Len(s) = n + 1 /\ s[n + 1] = f /\ (\A j \in 1 .. n : s[j] = fs[j])
      /\ g \in Seq(FrameOf) /\ Len(g) = m + 1 /\ g[m + 1] = f /\ (\A j \in 1 .. m : g[j] = h[j])
  BY <1>1
<1>3. ASSUME NEW j \in 1 .. n + 1 PROVE s[j] = g[m - n + j]
  <2>1. CASE j = n + 1
    <3>1. m - n + j = m + 1 BY <2>1, <1>1
    <3> HIDE DEF s, g, n, m
    <3> QED BY <3>1, <2>1, <1>2
  <2>2. CASE j \in 1 .. n
    <3>1. fs[j] = h[m - n + j] BY <2>2 DEF FramesSound
    <3>2. m - n + j \in 1 .. m BY <2>2, <1>1
    <3> HIDE DEF s, g, n, m
    <3> QED BY <3>1, <3>2, <2>2, <1>2
  <2> HIDE DEF s, g, n, m
  <2> QED BY <2>1, <2>2, <1>1
<1>4. /\ i \in 1 .. Len(s) + 1 /\ Fits(t) /\ \A j \in 1 .. i - 1 : ~Fits(Behind(s, j))
  BY <1>2, FirstFits
<1> HIDE DEF i
<1>5. /\ t \in Seq(FrameOf) /\ Len(t) = n + 1 - i + 1
      /\ \A j \in 1 .. n + 1 - i + 1 : t[j] = s[i + j - 1]
  <2> HIDE DEF s, n
  <2>1. /\ t \in Seq(FrameOf) /\ Len(t) = Len(s) - i + 1
        /\ \A j \in 1 .. Len(s) - i + 1 : t[j] = s[i + j - 1]
    BY <1>2, <1>4, BehindParts DEF t
  <2>2. Len(s) - i + 1 = n + 1 - i + 1
    <3>1. Len(s) = n + 1 /\ n \in Nat /\ i \in 1 .. n + 2 BY <1>1, <1>2, <1>4
    <3> QED BY <3>1
  <2> HIDE DEF t
  <2> QED BY <2>1, <2>2
<1>6. Trim(s) = t BY DEF Trim, t, i
<1>7. Len(g) - Len(s) = m - n BY <1>1, <1>2
<1>8. ASSUME NEW j \in 1 .. n + 2 PROVE Behind(s, j) = Behind(g, m - n + j)
  <2>1. Len(s) <= Len(g) /\ \A k \in 1 .. Len(s) : s[k] = g[Len(g) - Len(s) + k]
    <3> HIDE DEF s, g, n, m
    <3> QED BY <1>1, <1>2, <1>3, <1>7
  <2>2. j \in 1 .. Len(s) + 1
    <3> HIDE DEF s, g, n, m
    <3> QED BY <1>1, <1>2
  <2>3. Behind(s, j) = Behind(g, Len(g) - Len(s) + j)
    <3> HIDE DEF s, g, n, m
    <3> QED BY <1>2, <2>1, <2>2, SameEnd
  <2> QED BY <2>3, <1>7
<1> HIDE DEF t
<1>9. i \in Nat /\ i >= 1 /\ i <= n + 2
  <2> HIDE DEF s, n
  <2> QED BY <1>1, <1>2, <1>4
<1>10. Len(t) <= Len(g) /\ Len(t) = n + 2 - i
  <2> HIDE DEF s, g, n, m
  <2> QED BY <1>1, <1>2, <1>5, <1>9
<1>11. ASSUME NEW j \in 1 .. Len(t) PROVE t[j] = g[Len(g) - Len(t) + j]
  <2> HIDE DEF s, g, n, m
  <2>1. t[j] = s[i + j - 1] BY <1>5
  <2>2. i + j - 1 \in 1 .. n + 1 BY <1>1, <1>9, <1>10
  <2>3. s[i + j - 1] = g[m - n + (i + j - 1)] BY <1>3, <2>2
  <2>4. m - n + (i + j - 1) = Len(g) - Len(t) + j BY <1>1, <1>2, <1>9, <1>10
  <2> QED BY <2>1, <2>3, <2>4
<1>12. ASSUME Len(t) < Len(g) PROVE ~Fits(Behind(g, Len(g) - Len(t)))
  <2>1. Len(g) - Len(t) = m - n + i - 1
    <3> HIDE DEF s, g, n, m
    <3> QED BY <1>1, <1>2, <1>9, <1>10
  <2>2. CASE i >= 2
    <3> HIDE DEF s, g, n, m
    <3>1. i - 1 \in 1 .. n + 2 /\ i - 1 \in 1 .. i - 1 BY <2>2, <1>1, <1>9
    <3>2. ~Fits(Behind(s, i - 1)) BY <3>1, <1>4
    <3>3. Behind(s, i - 1) = Behind(g, m - n + (i - 1)) BY <3>1, <1>8
    <3>4. m - n + (i - 1) = Len(g) - Len(t) BY <2>1, <1>1, <1>9
    <3> QED BY <3>2, <3>3, <3>4
  <2>3. CASE i = 1
    <3>1. n < m /\ Len(g) - Len(t) = m - n
      <4> HIDE DEF s, g, n, m
      <4> QED BY <2>1, <2>3, <1>1, <1>2, <1>10, <1>12
    <3>2. ~Fits(Behind(h, m - n)) BY <3>1 DEF FramesSound
    <3>3. m - n \in 1 .. m /\ m - n \in 1 .. m + 1 BY <3>1, <1>1
    <3>4. Behind(g, m - n) = Append(Behind(h, m - n), f) BY <1>1, <3>3, BehindAppended
    <3>5. Behind(h, m - n) \in Seq(FrameOf) /\ BoundedFrames(Behind(h, m - n))
      BY <1>1, <3>3, BehindBounded DEF FramesSound
    <3>6. ~Fits(Append(Behind(h, m - n), f)) BY <3>2, <3>5, OneMoreFits
    <3> QED BY <3>1, <3>4, <3>6
  <2> QED BY <2>2, <2>3, <1>9
<1>13. ASSUME ~again, NEW j \in 1 .. Len(t) PROVE t[j].seq = seq + 1 - Len(t) + j
  <2>0. \A k \in 1 .. n : fs[k].seq = seq - n + k BY <1>13 DEF FramesSound
  <2> HIDE DEF s, g, n, m
  <2>4. j \in 1 .. n + 1 - i + 1 BY <1>5
  <2>5. t[j] = s[i + j - 1] BY <2>4, <1>5
  <2>1. t[j] = s[i + j - 1] /\ i + j - 1 \in 1 .. n + 1 BY <2>4, <2>5, <1>1, <1>9
  <2>2. \A k \in 1 .. n + 1 : s[k].seq = seq - n + k
    <3> SUFFICES ASSUME NEW k \in 1 .. n + 1 PROVE s[k].seq = seq - n + k OBVIOUS
    <3>1. CASE k = n + 1
      <4>1. s[k].seq = seq + 1 BY <3>1, <1>2
      <4> QED BY <4>1, <3>1, <1>1
    <3>2. CASE k \in 1 .. n BY <3>2, <2>0, <1>2
    <3> QED BY <3>1, <3>2, <1>1
  <2>3. t[j].seq = seq - n + (i + j - 1) BY <2>1, <2>2
  <2> QED BY <2>3, <1>1, <1>9, <1>10
<1>14. BoundedFrames(g)
  <2>1. BoundedFrames(h) BY DEF FramesSound
  <2> QED BY <1>1, <2>1, AppendBounded
<1>15. seq + 1 \in Nat BY <1>1
<1> HIDE DEF s, g
<1>16. FramesSound(t, g, seq + 1, again)
  BY <1>2, <1>4, <1>5, <1>10, <1>11, <1>12, <1>13, <1>14, <1>15 DEF FramesSound
<1> QED BY <1>6, <1>16 DEF s, g

-----------------------------------------------------------------------------
(* What a step of a run may do                                             *)

\* What a run was given and what it gave stays when it is over; a run that has
\* timed out begins no change of the state.
Works(c, d) ==
    /\ c.interrupted => d.interrupted
    /\ d.script \in Changing /\ c.interrupted => c.script \in Changing
    /\ c.pc = "over" =>
        /\ d.pc = "over" /\ d.input = c.input /\ d.interrupted = c.interrupted
        /\ ~c.interrupted => d.script = c.script /\ d.out = c.out /\ d.mark = c.mark

\* ... and none that it had not begun.
Locks(c, d) == d.script = "locked" => c.script = "locked" /\ d.key = c.key /\ d.bytes = c.bytes /\ d.copy = c.copy

\* A step of a run leaves the others as they are.
LEMMA RunsStep ==
    ASSUME ScriptInv, NEW r \in Run, NEW d, Set(r, d), RunSound(d, MaxOutput), config' = config
    PROVE  /\ call' \in [Run -> RunState] /\ call'[r] = d
           /\ \A s \in Run : s # r => call'[s] = call[s]
           /\ MaxOutput' = MaxOutput /\ MaxState' = MaxState
           /\ \A s \in Run : RunSound(call'[s], MaxOutput)
<1>1. call \in [Run -> RunState] BY DEF ScriptInv
<1>2. d \in RunState BY DEF RunSound
<1>3. call' = [call EXCEPT ![r] = d] BY DEF Set
<1>4. call' \in [Run -> RunState] /\ call'[r] = d /\ \A s \in Run : s # r => call'[s] = call[s]
  BY <1>1, <1>2, <1>3
<1>5. MaxOutput' = MaxOutput /\ MaxState' = MaxState BY DEF MaxOutput, MaxState
<1>6. \A s \in Run : RunSound(call[s], MaxOutput) BY DEF ScriptInv
<1> QED BY <1>4, <1>5, <1>6

\* What has left the node is the same after a step of a run.
LEMMA LeftStays ==
    ASSUME NEW e \in SentOutput, NEW c, NEW d, NEW passes, NEW max,
           RunSound(c, max), RunSound(d, max), Works(c, d), Left(e, c, passes)
    PROVE  Left(e, d, passes)
BY DEF RunSound, Works, Left

\* A run that only works leaves the outputs as they are.
LEMMA OutputsStay ==
    ASSUME ScriptInv, NEW r \in Run, NEW d, Set(r, d), RunSound(d, MaxOutput), Works(call[r], d), config' = config
    PROVE  OutputsSound(outputs, call', config.passes)
<1>1. call'[r] = d /\ \A s \in Run : s # r => call'[s] = call[s] BY RunsStep
<1>2. \A s \in Run : RunSound(call[s], MaxOutput) BY DEF ScriptInv
<1>3. OutputsSound(outputs, call, config.passes) BY DEF ScriptInv
<1>4. ASSUME NEW i \in 1 .. Len(outputs) PROVE Left(outputs[i], call'[outputs[i].run], config.passes)
  <2> DEFINE e == outputs[i]
  <2>1. e \in SentOutput BY <1>3 DEF OutputsSound
  <2>2. e.run \in Run BY <2>1 DEF SentOutput
  <2>3. Left(e, call[e.run], config.passes) BY <1>3 DEF OutputsSound
  <2> HIDE DEF e
  <2>4. ASSUME e.run = r PROVE Left(e, call'[e.run], config.passes)
    <3>1. Left(e, call[r], config.passes) /\ RunSound(call[r], MaxOutput) BY <2>3, <2>4, <1>2
    <3>2. Left(e, d, config.passes) BY <2>1, <3>1, LeftStays
    <3> QED BY <3>2, <2>4, <1>1
  <2>5. ASSUME e.run # r PROVE Left(e, call'[e.run], config.passes) BY <2>2, <2>3, <2>5, <1>1
  <2>6. Left(e, call'[e.run], config.passes) BY <2>4, <2>5
  <2> QED BY <2>6 DEF e
<1> QED BY <1>3, <1>4 DEF OutputsSound

\* The result of a run that goes to the output is the first of that run.
LEMMA OutputAdded ==
    ASSUME ScriptInv, NEW r \in Run, NEW d, Set(r, d), RunSound(d, MaxOutput), Works(call[r], d), config' = config,
           call[r].pc # "over", NEW e \in SentOutput, e.run = r, Left(e, d, config.passes)
    PROVE  OutputsSound(Append(outputs, e), call', config.passes)
<1> DEFINE outs == Append(outputs, e)
           n == Len(outputs)
<1>1. call'[r] = d /\ \A s \in Run : s # r => call'[s] = call[s] BY RunsStep
<1>2. OutputsSound(outputs, call', config.passes) BY OutputsStay
<1>3. OutputsSound(outputs, call, config.passes) BY DEF ScriptInv
<1>4. outputs \in Seq(SentOutput) BY <1>2 DEF OutputsSound
<1>5. /\ outs \in Seq(SentOutput) /\ n \in Nat /\ Len(outs) = n + 1 /\ outs[n + 1] = e
      /\ \A i \in 1 .. n : outs[i] = outputs[i]
  BY <1>4
<1>6. \A i \in 1 .. n : outputs[i].run # r BY <1>3 DEF OutputsSound, Left
<1>7. \A i \in 1 .. n : Left(outputs[i], call'[outputs[i].run], config.passes) BY <1>2 DEF OutputsSound
<1>8. \A i, j \in 1 .. n : outputs[i].run = outputs[j].run => i = j BY <1>2 DEF OutputsSound
<1> HIDE DEF outs, n
<1>9. \A i \in 1 .. Len(outs) : i = n + 1 \/ i \in 1 .. n BY <1>5
<1>10. \A i \in 1 .. Len(outs) : Left(outs[i], call'[outs[i].run], config.passes) BY <1>1, <1>5, <1>7, <1>9
<1>11. \A i, j \in 1 .. Len(outs) : outs[i].run = outs[j].run => i = j BY <1>5, <1>6, <1>8, <1>9
<1>12. OutputsSound(outs, call', config.passes) BY <1>5, <1>10, <1>11 DEF OutputsSound
<1> QED BY <1>12 DEF outs

\* The state after a step of a run that does not change it
LEMMA StateStays ==
    ASSUME ScriptInv, NEW r \in Run, NEW d, Set(r, d), RunSound(d, MaxOutput), Works(call[r], d), config' = config,
           NEW l, HoldsLock(r, d, values, l), l = lock \/ lock = NoRun \/ call[r].script = "locked"
    PROVE  StateSound(values, last, l, lateChanges, call', MaxState)
<1>1. call'[r] = d /\ \A s \in Run : s # r => call'[s] = call[s] BY RunsStep
<1>2. StateSound(values, last, lock, lateChanges, call, MaxState) BY DEF ScriptInv
<1>3. ASSUME NEW s \in Run PROVE ChangesOnce(lateChanges[s], call'[s]) /\ HoldsLock(s, call'[s], values, l)
  <2>1. ChangesOnce(lateChanges[s], call[s]) /\ HoldsLock(s, call[s], values, lock) BY <1>2 DEF StateSound
  <2>2. CASE s = r BY <2>1, <2>2, <1>1 DEF Works, ChangesOnce
  <2>3. CASE s # r
    <3>1. call'[s] = call[s] BY <2>3, <1>1
    <3>2. HoldsLock(r, call[r], values, lock) BY <1>2 DEF StateSound
    <3>3. call[s].script = "locked" => l = lock
      BY <2>1, <2>3, <3>2, ScriptAssumption DEF HoldsLock
    <3> QED BY <2>1, <3>1, <3>3 DEF HoldsLock
  <2> QED BY <2>2, <2>3
<1> QED BY <1>2, <1>3 DEF StateSound

\* A step of a run that leaves the state and the node alone
LEMMA QuietStep ==
    ASSUME ScriptInv, NEW r \in Run, NEW d, Set(r, d), RunSound(d, MaxOutput), Works(call[r], d),
           Locks(call[r], d), UNCHANGED <<stateVars, nodeVars>>
    PROVE  ScriptInv'
<1>0. /\ config' = config /\ values' = values /\ last' = last /\ lock' = lock /\ lateChanges' = lateChanges
      /\ outputs' = outputs /\ frames' = frames /\ history' = history /\ frameSeq' = frameSeq
      /\ renumbered' = renumbered
  BY DEF stateVars, nodeVars, frameVars
<1>1. /\ call' \in [Run -> RunState] /\ MaxOutput' = MaxOutput /\ MaxState' = MaxState
      /\ \A s \in Run : RunSound(call'[s], MaxOutput)
  BY <1>0, RunsStep
<1>2. OutputsSound(outputs, call', config.passes) BY <1>0, OutputsStay
<1>3. HoldsLock(r, d, values, lock)
  <2>1. HoldsLock(r, call[r], values, lock) BY DEF ScriptInv, StateSound
  <2> QED BY <2>1 DEF HoldsLock, Locks
<1>4. StateSound(values, last, lock, lateChanges, call', MaxState) BY <1>0, <1>3, StateStays
<1>5. config \in Configs /\ FramesSound(frames, history, frameSeq, renumbered) BY DEF ScriptInv
<1> QED BY <1>0, <1>1, <1>2, <1>4, <1>5 DEF ScriptInv

-----------------------------------------------------------------------------
(* The steps of a run                                                      *)

\* The start of a run, which fails at once when there is no script
LEMMA BeginStep ==
    ASSUME ScriptInv, NEW r \in Run, NEW bytes \in InputSizes[config.type], Begin(r, bytes)
    PROVE  ScriptInv'
<1> DEFINE c == call[r]
<1>1. RunSound(c, MaxOutput) /\ c.pc = "none" BY DEF ScriptInv, Begin
<1>2. bytes \in Nat
  <2>1. config.type \in ScriptTypes BY ScriptAssumption DEF ScriptInv
  <2> QED BY <2>1, ScriptAssumption
<1>3. UNCHANGED <<stateVars, nodeVars>> BY DEF Begin
<1>4. CASE config.empty
  <2> DEFINE d == [c EXCEPT !.pc = "failed", !.input = bytes]
  <2>1. Set(r, d) BY <1>4 DEF Begin
  <2> HIDE DEF c
  <2>2. RunSound(d, MaxOutput) BY <1>1, <1>2 DEF RunSound, RunState
  <2>3. Works(c, d) /\ Locks(c, d) BY <1>1 DEF RunSound, RunState, Works, Locks, Changing
  <2> QED BY <1>3, <2>1, <2>2, <2>3, QuietStep DEF c
<1>5. CASE ~config.empty
  <2> DEFINE d == [c EXCEPT !.pc = "wait", !.script = "js", !.input = bytes]
  <2>1. Set(r, d) BY <1>5 DEF Begin
  <2> HIDE DEF c
  <2>2. RunSound(d, MaxOutput) BY <1>1, <1>2 DEF RunSound, RunState, Changing
  <2>3. Works(c, d) /\ Locks(c, d) BY <1>1 DEF RunSound, RunState, Works, Locks, Changing
  <2> QED BY <1>3, <2>1, <2>2, <2>3, QuietStep DEF c
<1> QED BY <1>4, <1>5

\* What the script does by itself: it writes to the output, marks its result,
\* asks for a change of the state, ends, or is interrupted.
LEMMA ScriptWorks ==
    ASSUME NEW c, NEW max \in Nat, RunSound(c, max), NEW d \in RunState, c.script = "js",
           d.pc = c.pc, d.interrupted = c.interrupted, d.input = c.input, d.out <= max,
           c.interrupted => d.script \notin Changing,
           d.script # "none", d.script # "locked", d.script \in Changing => d.key \in Key
    PROVE  RunSound(d, max) /\ Works(c, d) /\ Locks(c, d)
BY DEF RunSound, RunState, Works, Locks, Changing

\* A write to the output, which is refused when it would be too long
LEMMA OutputStep ==
    ASSUME ScriptInv, NEW r \in Run, NEW bytes \in Sizes, Output(r, bytes)
    PROVE  ScriptInv'
<1> DEFINE c == call[r]
           n == c.calls + 1
           o == c.out + bytes
           d == [c EXCEPT !.out = o, !.calls = n]
<1>1. RunSound(c, MaxOutput) /\ c.script = "js" /\ ~c.interrupted /\ c.out + bytes <= MaxOutput
  BY DEF ScriptInv, Output, CountedCall, Calls, Runs
<1>2. Set(r, d) /\ UNCHANGED <<stateVars, nodeVars>> BY DEF Output
<1>3. bytes \in Nat /\ MaxOutput \in Nat BY ScriptAssumption, LimitsAreNat DEF ScriptInv
<1> HIDE DEF c
<1>6. n \in Nat /\ o \in Nat /\ o <= MaxOutput BY <1>1, <1>3 DEF RunSound, RunState
<1> HIDE DEF n, o
<1>4. /\ d \in RunState /\ d.pc = c.pc /\ d.interrupted = c.interrupted /\ d.input = c.input
      /\ d.out <= MaxOutput /\ d.script = "js"
  BY <1>6, <1>1, <1>3 DEF RunSound, RunState
<1> HIDE DEF d
<1>5. RunSound(d, MaxOutput) /\ Works(c, d) /\ Locks(c, d) BY <1>1, <1>3, <1>4, ScriptWorks DEF Changing
<1> QED BY <1>2, <1>5, QuietStep DEF c

\* A call that throws into the script
LEMMA OutputThrowsStep ==
    ASSUME ScriptInv, NEW r \in Run, OutputThrows(r)
    PROVE  ScriptInv'
<1> DEFINE c == call[r]
<1>0. PICK s \in Thrown : Set(r, [c EXCEPT !.script = s, !.calls = @ + 1]) BY DEF OutputThrows
<1> DEFINE n == c.calls + 1
           d == [c EXCEPT !.script = s, !.calls = n]
<1>1. RunSound(c, MaxOutput) /\ c.script = "js" BY DEF ScriptInv, OutputThrows, CountedCall, Calls, Runs
<1>2. Set(r, d) /\ UNCHANGED <<stateVars, nodeVars>> BY <1>0 DEF OutputThrows
<1>3. MaxOutput \in Nat BY LimitsAreNat DEF ScriptInv
<1> HIDE DEF c
<1>6. n \in Nat BY <1>1 DEF RunSound, RunState
<1> HIDE DEF n
<1>4. /\ d \in RunState /\ d.pc = c.pc /\ d.interrupted = c.interrupted /\ d.input = c.input
      /\ d.out <= MaxOutput /\ d.script \in {"js", "threw"}
  BY <1>6, <1>1, <1>3 DEF RunSound, RunState, Thrown
<1> HIDE DEF d
<1>5. RunSound(d, MaxOutput) /\ Works(c, d) /\ Locks(c, d) BY <1>1, <1>3, <1>4, ScriptWorks DEF Changing
<1> QED BY <1>2, <1>5, QuietStep DEF c

\* drop() or error()
LEMMA MarkStep ==
    ASSUME ScriptInv, NEW r \in Run, Mark(r)
    PROVE  ScriptInv'
<1> DEFINE c == call[r]
<1>0. PICK m \in {"drop", "error"} : Set(r, [c EXCEPT !.mark = m]) BY DEF Mark
<1> DEFINE d == [c EXCEPT !.mark = m]
<1>1. RunSound(c, MaxOutput) /\ c.script = "js" BY DEF ScriptInv, Mark, Calls, Runs
<1>2. Set(r, d) /\ UNCHANGED <<stateVars, nodeVars>> BY <1>0 DEF Mark
<1>3. MaxOutput \in Nat BY LimitsAreNat DEF ScriptInv
<1> HIDE DEF c
<1>4. /\ d \in RunState /\ d.pc = c.pc /\ d.interrupted = c.interrupted /\ d.input = c.input
      /\ d.out <= MaxOutput /\ d.script = "js"
  BY <1>1, <1>3 DEF RunSound, RunState
<1> HIDE DEF d
<1>5. RunSound(d, MaxOutput) /\ Works(c, d) /\ Locks(c, d) BY <1>1, <1>3, <1>4, ScriptWorks DEF Changing
<1> QED BY <1>2, <1>5, QuietStep DEF c

\* The start of a change of the state
LEMMA ChangeStep ==
    ASSUME ScriptInv, NEW r \in Run, NEW k \in Key, NEW bytes \in Sizes \cup {0}, ChangeState(r, k, bytes)
    PROVE  ScriptInv'
<1> DEFINE c == call[r]
           n == c.calls + 1
           d == [c EXCEPT !.script = "lock", !.key = k, !.bytes = bytes, !.calls = n]
<1>1. RunSound(c, MaxOutput) /\ c.script = "js" /\ ~c.interrupted
  BY DEF ScriptInv, ChangeState, CountedCall, Calls, Runs
<1>2. Set(r, d) /\ UNCHANGED <<stateVars, nodeVars>> BY DEF ChangeState
<1>3. bytes \in Nat /\ MaxOutput \in Nat BY ScriptAssumption, LimitsAreNat DEF ScriptInv
<1> HIDE DEF c
<1>6. n \in Nat BY <1>1 DEF RunSound, RunState
<1> HIDE DEF n
<1>4. /\ d \in RunState /\ d.pc = c.pc /\ d.interrupted = c.interrupted /\ d.input = c.input
      /\ d.out <= MaxOutput /\ d.script = "lock" /\ d.key \in Key
  BY <1>6, <1>1, <1>3 DEF RunSound, RunState
<1> HIDE DEF d
<1>5. RunSound(d, MaxOutput) /\ Works(c, d) /\ Locks(c, d) BY <1>1, <1>3, <1>4, ScriptWorks DEF Changing
<1> QED BY <1>2, <1>5, QuietStep DEF c

\* The end of a script
LEMMA EndStep ==
    ASSUME ScriptInv, NEW r \in Run, ScriptEnds(r) \/ SeesInterrupt(r)
    PROVE  ScriptInv'
<1> DEFINE c == call[r]
<1>0. PICK s \in {"ended", "threw"} : Set(r, [c EXCEPT !.script = s]) BY DEF ScriptEnds, SeesInterrupt
<1> DEFINE d == [c EXCEPT !.script = s]
<1>1. RunSound(c, MaxOutput) /\ c.script = "js" BY DEF ScriptInv, ScriptEnds, SeesInterrupt, Calls, Runs
<1>2. Set(r, d) /\ UNCHANGED <<stateVars, nodeVars>> BY <1>0 DEF ScriptEnds, SeesInterrupt
<1>3. MaxOutput \in Nat BY LimitsAreNat DEF ScriptInv
<1> HIDE DEF c
<1>4. /\ d \in RunState /\ d.pc = c.pc /\ d.interrupted = c.interrupted /\ d.input = c.input
      /\ d.out <= MaxOutput /\ d.script \in {"ended", "threw"}
  BY <1>1, <1>3 DEF RunSound, RunState
<1> HIDE DEF d
<1>5. RunSound(d, MaxOutput) /\ Works(c, d) /\ Locks(c, d) BY <1>1, <1>3, <1>4, ScriptWorks DEF Changing
<1> QED BY <1>2, <1>5, QuietStep DEF c

\* The handler takes the result of a script that has ended.
LEMMA ReturnsStep ==
    ASSUME ScriptInv, NEW r \in Run, RunReturns(r)
    PROVE  ScriptInv'
<1> DEFINE c == call[r]
           d == [c EXCEPT !.pc = IF c.script = "ended" THEN "result" ELSE "failed"]
<1>1. RunSound(c, MaxOutput) /\ c.pc = "wait" /\ c.script \in {"ended", "threw"}
  BY DEF ScriptInv, RunReturns, Waits
<1>2. Set(r, d) /\ UNCHANGED <<stateVars, nodeVars>> BY DEF RunReturns
<1> HIDE DEF c
<1>3. RunSound(d, MaxOutput) BY <1>1 DEF RunSound, RunState, Changing
<1>4. Works(c, d) /\ Locks(c, d) BY <1>1 DEF RunSound, RunState, Works, Locks, Changing
<1> HIDE DEF d
<1> QED BY <1>2, <1>3, <1>4, QuietStep DEF c

\* The handler gives up; the script may be anywhere.
LEMMA TimeoutStep ==
    ASSUME ScriptInv, NEW r \in Run, Timeout(r)
    PROVE  ScriptInv'
<1> DEFINE c == call[r]
           d == [c EXCEPT !.pc = "failed", !.interrupted = TRUE]
<1>1. RunSound(c, MaxOutput) /\ c.pc = "wait" BY DEF ScriptInv, Timeout, Waits
<1>2. Set(r, d) /\ UNCHANGED <<stateVars, nodeVars>> BY DEF Timeout
<1> HIDE DEF c
<1>3. RunSound(d, MaxOutput) BY <1>1 DEF RunSound, RunState, Changing
<1>4. Works(c, d) /\ Locks(c, d) BY <1>1 DEF RunSound, RunState, Works, Locks, Changing
<1> HIDE DEF d
<1> QED BY <1>2, <1>3, <1>4, QuietStep DEF c

\* The lock is taken: the copy is the state, but for one key.
LEMMA LockStep ==
    ASSUME ScriptInv, NEW r \in Run, LockState(r)
    PROVE  ScriptInv'
<1> DEFINE c == call[r]
           w == [values EXCEPT ![c.key] = c.bytes]
           d == [c EXCEPT !.script = "locked", !.copy = w]
<1>1. RunSound(c, MaxOutput) /\ c.script = "lock" /\ lock = NoRun BY DEF ScriptInv, LockState
<1>2. /\ Set(r, d) /\ lock' = r /\ values' = values /\ last' = last /\ lateChanges' = lateChanges
      /\ config' = config /\ outputs' = outputs /\ frames' = frames /\ history' = history
      /\ frameSeq' = frameSeq /\ renumbered' = renumbered
  BY DEF LockState, nodeVars, frameVars
<1>3. values \in [Key -> Nat] BY DEF ScriptInv, StateSound
<1> HIDE DEF c
<1>4. c.key \in Key /\ c.bytes \in Nat BY <1>1 DEF RunSound, RunState, Changing
<1>5. w \in [Key -> Nat] BY <1>3, <1>4
<1> HIDE DEF w
<1>6. RunSound(d, MaxOutput) BY <1>1, <1>5 DEF RunSound, RunState, Changing
<1>7. Works(c, d) BY <1>1 DEF RunSound, RunState, Works, Changing
<1>8. d.copy = w /\ d.key = c.key /\ d.bytes = c.bytes BY <1>1 DEF RunSound, RunState
<1>9. HoldsLock(r, d, values, r) BY <1>8 DEF HoldsLock, w
<1> HIDE DEF d
<1>10. /\ call' \in [Run -> RunState] /\ MaxOutput' = MaxOutput /\ MaxState' = MaxState
       /\ \A s \in Run : RunSound(call'[s], MaxOutput)
  BY <1>2, <1>6, RunsStep
<1>11. OutputsSound(outputs, call', config.passes) BY <1>2, <1>6, <1>7, OutputsStay DEF c
<1>12. StateSound(values, last, r, lateChanges, call', MaxState)
  BY <1>1, <1>2, <1>6, <1>7, <1>9, StateStays DEF c
<1>13. config \in Configs /\ FramesSound(frames, history, frameSeq, renumbered) BY DEF ScriptInv
<1> QED BY <1>2, <1>10, <1>11, <1>12, <1>13 DEF ScriptInv

\* What becomes of a run whose change of the state is made or refused
LEMMA ChangeEnds ==
    ASSUME NEW c, NEW max \in Nat, RunSound(c, max), c.script = "locked", NEW s \in {"js", "threw"}
    PROVE  LET d == [c EXCEPT !.script = s, !.key = NoKey, !.bytes = 0, !.copy = NoKey] IN
           /\ RunSound(d, max) /\ Works(c, d)
           /\ d.script = s /\ d.interrupted = c.interrupted
<1> DEFINE d == [c EXCEPT !.script = s, !.key = NoKey, !.bytes = 0, !.copy = NoKey]
<1>1. c \in RunState BY DEF RunSound
<1>2. d \in RunState BY <1>1 DEF RunState
<1>3. /\ d.script = s /\ d.interrupted = c.interrupted /\ d.pc = c.pc /\ d.out = c.out
      /\ d.input = c.input /\ d.mark = c.mark
  BY <1>1 DEF RunState
<1> HIDE DEF d
<1>4. RunSound(d, max) /\ Works(c, d) BY <1>1, <1>2, <1>3 DEF RunSound, Works, Changing
<1> QED BY <1>3, <1>4 DEF d

\* The copy becomes the state, unless it is too large; a deletion never is.
LEMMA StoreStep ==
    ASSUME ScriptInv, NEW r \in Run, StoreState(r)
    PROVE  ScriptInv'
<1> DEFINE c == call[r]
           w == [values EXCEPT ![c.key] = c.bytes]
           changed(s) == [c EXCEPT !.script = s, !.key = NoKey, !.bytes = 0, !.copy = NoKey]
<1>1. RunSound(c, MaxOutput) /\ c.script = "locked" BY DEF ScriptInv, StoreState
<1>2. /\ lock' = NoRun /\ config' = config /\ outputs' = outputs /\ frames' = frames /\ history' = history
      /\ frameSeq' = frameSeq /\ renumbered' = renumbered
  BY DEF StoreState, nodeVars, frameVars
<1>3. /\ values \in [Key -> Nat] /\ BoundedState(values) /\ last = values /\ Total(values) <= MaxState
      /\ lateChanges \in [Run -> Nat]
      /\ \A s \in Run : ChangesOnce(lateChanges[s], call[s]) /\ HoldsLock(s, call[s], values, lock)
  BY DEF ScriptInv, StateSound
<1>4. MaxOutput \in Nat /\ MaxState \in Nat BY LimitsAreNat DEF ScriptInv
<1>5. c.key \in Key /\ c.bytes \in Nat BY <1>1 DEF RunSound, RunState, Changing
<1>6. lock = r /\ c.copy = w BY <1>1, <1>3 DEF HoldsLock
<1>7. config \in Configs /\ FramesSound(frames, history, frameSeq, renumbered) BY DEF ScriptInv
<1>8. ASSUME NEW s \in {"js", "threw"}
      PROVE  RunSound(changed(s), MaxOutput) /\ Works(c, changed(s)) /\ changed(s).script = s
             /\ changed(s).interrupted = c.interrupted
  <2> HIDE DEF c
  <2>1. \A t \in {"js", "threw"} :
          LET d == [c EXCEPT !.script = t, !.key = NoKey, !.bytes = 0, !.copy = NoKey] IN
          /\ RunSound(d, MaxOutput) /\ Works(c, d)
          /\ d.script = t /\ d.interrupted = c.interrupted
    BY <1>1, <1>4, ChangeEnds, Zenon
  <2> QED BY <2>1, Zenon
<1>9. ASSUME c.bytes > 0 /\ Total(c.copy) > MaxState PROVE ScriptInv'
  <2>1. PICK s \in Thrown : Set(r, changed(s)) BY <1>9 DEF StoreState
  <2>2. values' = values /\ last' = last /\ lateChanges' = lateChanges BY <1>9 DEF StoreState
  <2> DEFINE d == changed(s)
  <2>3. RunSound(d, MaxOutput) /\ Works(c, d) /\ d.script # "locked" BY <1>8 DEF Thrown
  <2> HIDE DEF d
  <2>4. Set(r, d) BY <2>1 DEF d
  <2>5. /\ call' \in [Run -> RunState] /\ MaxOutput' = MaxOutput /\ MaxState' = MaxState
        /\ \A t \in Run : RunSound(call'[t], MaxOutput)
    BY <1>2, <2>3, <2>4, RunsStep
  <2>6. OutputsSound(outputs, call', config.passes) BY <1>2, <2>3, <2>4, OutputsStay
  <2>7. HoldsLock(r, d, values, NoRun) BY <2>3 DEF HoldsLock
  <2>8. StateSound(values, last, NoRun, lateChanges, call', MaxState)
    BY <1>1, <1>2, <2>3, <2>4, <2>7, StateStays
  <2> QED BY <1>2, <1>7, <2>2, <2>5, <2>6, <2>8 DEF ScriptInv
<1>10. ASSUME ~(c.bytes > 0 /\ Total(c.copy) > MaxState) PROVE ScriptInv'
  <2> DEFINE d == changed("js")
             late == IF c.interrupted THEN [lateChanges EXCEPT ![r] = @ + 1] ELSE lateChanges
  <2>1. Set(r, d) /\ values' = c.copy /\ last' = [last EXCEPT ![c.key] = c.bytes] /\ lateChanges' = late
    BY <1>10 DEF StoreState
  <2>2. RunSound(d, MaxOutput) /\ Works(c, d) /\ d.script = "js" /\ d.interrupted = c.interrupted BY <1>8
  <2> HIDE DEF d
  <2>3. /\ call' \in [Run -> RunState] /\ MaxOutput' = MaxOutput /\ MaxState' = MaxState
        /\ \A t \in Run : RunSound(call'[t], MaxOutput)
        /\ call'[r] = d /\ \A t \in Run : t # r => call'[t] = call[t]
    BY <1>2, <2>1, <2>2, RunsStep
  <2>4. OutputsSound(outputs, call', config.passes) BY <1>2, <2>1, <2>2, OutputsStay
  <2>5. values' = w /\ last' = w BY <1>3, <1>6, <2>1
  <2>6. w \in [Key -> Nat] /\ BoundedState(w) /\ (c.bytes = 0 => Total(w) <= Total(values))
    <3> HIDE DEF c
    <3> QED BY <1>3, <1>5, StateChanges
  <2>7. Total(w) <= MaxState
    <3> HIDE DEF w, c
    <3>1. Total(w) \in Nat /\ Total(values) \in Nat BY <1>3, <2>6, StateCounts
    <3> QED BY <3>1, <1>3, <1>4, <1>5, <1>6, <1>10, <2>6
  <2>8. lateChanges[r] = 0 BY <1>1, <1>3 DEF ChangesOnce, Changing
  <2>9. late \in [Run -> Nat] /\ late[r] = (IF c.interrupted THEN 1 ELSE 0)
        /\ \A t \in Run : t # r => late[t] = lateChanges[t]
    <3> HIDE DEF c
    <3> QED BY <1>3, <2>8
  <2> HIDE DEF late, w
  <2>10. ASSUME NEW t \in Run PROVE ChangesOnce(late[t], call'[t]) /\ HoldsLock(t, call'[t], w, NoRun)
    <3>1. CASE t = r BY <3>1, <2>2, <2>3, <2>9 DEF ChangesOnce, HoldsLock, Changing
    <3>2. CASE t # r
      <4>1. call'[t] = call[t] /\ late[t] = lateChanges[t] BY <3>2, <2>3, <2>9
      <4>2. call[t].script # "locked" BY <3>2, <1>3, <1>6 DEF HoldsLock
      <4> QED BY <4>1, <4>2, <1>3 DEF HoldsLock
    <3> QED BY <3>1, <3>2
  <2>11. StateSound(w, w, NoRun, late, call', MaxState) BY <2>6, <2>7, <2>9, <2>10 DEF StateSound
  <2> QED BY <1>2, <1>7, <2>1, <2>3, <2>4, <2>5, <2>11 DEF ScriptInv
<1> QED BY <1>9, <1>10

-----------------------------------------------------------------------------
(* The steps of the node                                                   *)

\* A run whose result was taken
LEMMA RunEnds ==
    ASSUME NEW c, NEW max, RunSound(c, max), c.pc \in {"result", "failed"}
    PROVE  LET d == [c EXCEPT !.pc = "over"] IN
           /\ RunSound(d, max) /\ Works(c, d) /\ Locks(c, d)
           /\ d.pc = "over" /\ d.script = c.script /\ d.interrupted = c.interrupted
           /\ d.input = c.input /\ d.out = c.out /\ d.mark = c.mark
<1> DEFINE d == [c EXCEPT !.pc = "over"]
<1>1. c \in RunState BY DEF RunSound
<1>2. d \in RunState BY <1>1 DEF RunState
<1>3. /\ d.pc = "over" /\ d.script = c.script /\ d.interrupted = c.interrupted /\ d.key = c.key
      /\ d.input = c.input /\ d.out = c.out /\ d.mark = c.mark /\ d.bytes = c.bytes /\ d.copy = c.copy
  BY <1>1 DEF RunState
<1> HIDE DEF d
<1>4. RunSound(d, max) /\ Works(c, d) /\ Locks(c, d)
  BY <1>1, <1>2, <1>3 DEF RunSound, Works, Locks, Changing
<1> QED BY <1>3, <1>4 DEF d

\* The result of a run is taken: it may go to the output, or to the frames.
LEMMA TakenStep ==
    ASSUME ScriptInv, NEW r \in Run, call[r].pc \in {"result", "failed"},
           Set(r, [call[r] EXCEPT !.pc = "over"]), UNCHANGED stateVars, config' = config,
           OutputsSound(outputs', call', config.passes),
           FramesSound(frames', history', frameSeq', renumbered')
    PROVE  ScriptInv'
<1> DEFINE c == call[r]
           d == [c EXCEPT !.pc = "over"]
<1>1. RunSound(c, MaxOutput) BY DEF ScriptInv
<1>2. values' = values /\ last' = last /\ lock' = lock /\ lateChanges' = lateChanges BY DEF stateVars
<1>3. RunSound(d, MaxOutput) /\ Works(c, d) /\ Locks(c, d)
  <2> HIDE DEF c
  <2>1. c.pc \in {"result", "failed"} BY DEF c
  <2> QED BY <2>1, <1>1, RunEnds
<1>4. Set(r, d) OBVIOUS
<1> HIDE DEF d
<1>5. /\ call' \in [Run -> RunState] /\ MaxOutput' = MaxOutput /\ MaxState' = MaxState
      /\ \A s \in Run : RunSound(call'[s], MaxOutput)
  BY <1>3, <1>4, RunsStep
<1>6. HoldsLock(r, d, values, lock)
  <2>1. HoldsLock(r, c, values, lock) BY DEF ScriptInv, StateSound
  <2> QED BY <2>1, <1>3 DEF HoldsLock, Locks
<1>7. StateSound(values, last, lock, lateChanges, call', MaxState) BY <1>3, <1>4, <1>6, StateStays
<1>8. config \in Configs BY DEF ScriptInv
<1> QED BY <1>2, <1>5, <1>7, <1>8 DEF ScriptInv

\* A result is on its way: what the handler makes of it is the first and only
\* output of its run.
LEMMA SentStep ==
    ASSUME ScriptInv, NEW r \in Run, call[r].pc \in {"result", "failed"},
           Set(r, [call[r] EXCEPT !.pc = "over"]), UNCHANGED <<stateVars, config, frameVars>>,
           \/ UNCHANGED outputs
           \/ call[r].pc = "failed" /\ config.passes /\ Send(r, call[r].input, TRUE)
           \/ call[r].pc = "result" /\ call[r].mark = "none" /\ Send(r, call[r].out, FALSE)
    PROVE  ScriptInv'
<1> DEFINE c == call[r]
           d == [c EXCEPT !.pc = "over"]
<1>1. RunSound(c, MaxOutput) /\ c \in RunState BY DEF ScriptInv, RunSound
<1>2. UNCHANGED stateVars /\ config' = config /\ frames' = frames /\ history' = history /\ frameSeq' = frameSeq
      /\ renumbered' = renumbered
  BY DEF frameVars
<1>3. /\ RunSound(d, MaxOutput) /\ Works(c, d)
      /\ d.pc = "over" /\ d.script = c.script /\ d.interrupted = c.interrupted
      /\ d.input = c.input /\ d.out = c.out /\ d.mark = c.mark
  <2>1. c.pc \in {"result", "failed"} OBVIOUS
  <2> HIDE DEF c
  <2> QED BY <2>1, <1>1, RunEnds
<1>4. Set(r, d) OBVIOUS
<1>5. c.input \in Nat /\ c.out \in Nat
  <2> HIDE DEF c
  <2> QED BY <1>1 DEF RunState
<1> HIDE DEF d
<1>6. OutputsSound(outputs', call', config.passes)
  <2>1. CASE UNCHANGED outputs
    <3>1. OutputsSound(outputs, call', config.passes) BY <1>2, <1>3, <1>4, OutputsStay
    <3> QED BY <2>1, <3>1
  <2>2. CASE call[r].pc = "failed" /\ config.passes /\ Send(r, call[r].input, TRUE)
    <3> DEFINE e == [run |-> r, bytes |-> c.input, input |-> TRUE]
    <3>1. outputs' = Append(outputs, e) BY <2>2 DEF Send
    <3>2. e \in SentOutput /\ e.run = r BY <1>5 DEF SentOutput
    <3>3. Left(e, d, config.passes) BY <2>2, <1>1, <1>3 DEF Left, RunSound
    <3> HIDE DEF e
    <3>4. OutputsSound(Append(outputs, e), call', config.passes)
      BY <1>2, <1>3, <1>4, <2>2, <3>2, <3>3, OutputAdded
    <3> QED BY <3>1, <3>4
  <2>3. CASE call[r].pc = "result" /\ call[r].mark = "none" /\ Send(r, call[r].out, FALSE)
    <3> DEFINE e == [run |-> r, bytes |-> c.out, input |-> FALSE]
    <3>1. outputs' = Append(outputs, e) BY <2>3 DEF Send
    <3>2. e \in SentOutput /\ e.run = r BY <1>5 DEF SentOutput
    <3>3. Left(e, d, config.passes) BY <2>3, <1>1, <1>3 DEF Left, RunSound
    <3> HIDE DEF e
    <3>4. OutputsSound(Append(outputs, e), call', config.passes)
      BY <1>2, <1>3, <1>4, <2>3, <3>2, <3>3, OutputAdded
    <3> QED BY <3>1, <3>4
  <2> QED BY <2>1, <2>2, <2>3
<1>7. FramesSound(frames', history', frameSeq', renumbered') BY <1>2 DEF ScriptInv
<1> QED BY <1>2, <1>6, <1>7, TakenStep

\* A transform sends its result, or the input of a run that failed.
LEMMA TransformStep ==
    ASSUME ScriptInv, NEW r \in Run, Transform(r)
    PROVE  ScriptInv'
<1>1. /\ call[r].pc \in {"result", "failed"} /\ Set(r, [call[r] EXCEPT !.pc = "over"])
      /\ UNCHANGED <<stateVars, config, frameVars>>
  BY DEF Transform
<1>2. \/ UNCHANGED outputs
      \/ call[r].pc = "failed" /\ config.passes /\ Send(r, call[r].input, TRUE)
      \/ call[r].pc = "result" /\ call[r].mark = "none" /\ Send(r, call[r].out, FALSE)
  BY Zenon DEF Transform
<1> QED BY <1>1, <1>2, SentStep

\* A generator sends only results.
LEMMA GenerateStep ==
    ASSUME ScriptInv, NEW r \in Run, Generate(r)
    PROVE  ScriptInv'
<1>1. /\ call[r].pc \in {"result", "failed"} /\ Set(r, [call[r] EXCEPT !.pc = "over"])
      /\ UNCHANGED <<stateVars, config, frameVars>>
  BY DEF Generate
<1>2. \/ UNCHANGED outputs
      \/ call[r].pc = "result" /\ call[r].mark = "none" /\ Send(r, call[r].out, FALSE)
  <2>1. call[r].mark \in {"none", "drop", "error"}
    <3>1. call[r] \in RunState BY DEF ScriptInv
    <3> QED BY <3>1 DEF RunState
  <2> QED BY <2>1 DEF Generate
<1> QED BY <1>1, <1>2, SentStep

\* An analyzer adds a frame.
LEMMA AnalyzeStep ==
    ASSUME ScriptInv, NEW r \in Run, Analyze(r)
    PROVE  ScriptInv'
<1> DEFINE c == call[r]
           d == [c EXCEPT !.pc = "over"]
           f == [seq |-> frameSeq + 1, bytes |-> c.input]
<1>1. /\ c.pc \in {"result", "failed"} /\ Set(r, d) /\ UNCHANGED stateVars /\ config' = config
      /\ outputs' = outputs /\ renumbered' = renumbered
      /\ frameSeq' = frameSeq + 1 /\ frames' = Trim(Append(frames, f)) /\ history' = Append(history, f)
  BY DEF Analyze
<1>2. FramesSound(frames, history, frameSeq, renumbered) BY DEF ScriptInv
<1>3. RunSound(c, MaxOutput) /\ c \in RunState BY DEF ScriptInv, RunSound
<1>4. f \in FrameOf /\ f.seq = frameSeq + 1
  <2>1. frameSeq \in Nat BY <1>2 DEF FramesSound
  <2>2. c.input \in Nat
    <3> HIDE DEF c
    <3> QED BY <1>3 DEF RunState
  <2> HIDE DEF c
  <2> QED BY <2>1, <2>2 DEF FrameOf
<1> HIDE DEF f
<1>5. FramesSound(frames', history', frameSeq', renumbered') BY <1>1, <1>2, <1>4, FrameAdded
<1>6. OutputsSound(outputs', call', config.passes)
  <2>1. RunSound(d, MaxOutput) /\ Works(c, d)
    <3> HIDE DEF c
    <3> QED BY <1>1, <1>3, RunEnds
  <2> HIDE DEF d
  <2>2. OutputsSound(outputs, call', config.passes) BY <1>1, <2>1, OutputsStay
  <2> QED BY <2>2, <1>1
<1> QED BY <1>1, <1>5, <1>6, TakenStep

\* What the user does, or the end of the graph, leaves the runs alone.
LEMMA NodeStep ==
    ASSUME ScriptInv, UNCHANGED <<call, stateVars, config, outputs>>,
           FramesSound(frames', history', frameSeq', renumbered')
    PROVE  ScriptInv'
<1>1. /\ call' = call /\ config' = config /\ outputs' = outputs /\ values' = values /\ last' = last
      /\ lock' = lock /\ lateChanges' = lateChanges
  BY DEF stateVars
<1>2. MaxOutput' = MaxOutput /\ MaxState' = MaxState BY <1>1 DEF MaxOutput, MaxState
<1>3. /\ config \in Configs /\ call \in [Run -> RunState] /\ (\A r \in Run : RunSound(call[r], MaxOutput))
      /\ StateSound(values, last, lock, lateChanges, call, MaxState)
      /\ OutputsSound(outputs, call, config.passes)
  BY DEF ScriptInv
<1> QED BY <1>1, <1>2, <1>3 DEF ScriptInv

\* A node without frames
LEMMA NoFrames == FramesSound(<< >>, << >>, 0, FALSE)
<1>1. << >> \in Seq(FrameOf) /\ Len(<< >>) = 0 OBVIOUS
<1>2. BoundedFrames(<< >>) BY <1>1 DEF BoundedFrames
<1>3. Fits(<< >>) BY <1>1, ScriptAssumption DEF Fits
<1> QED BY <1>1, <1>2, <1>3 DEF FramesSound

\* The user clears the frames or the counters, or the graph stops.
LEMMA ClearStep ==
    ASSUME ScriptInv, ClearFrames \/ ResetCounters \/ StopGraph
    PROVE  ScriptInv'
<1>1. FramesSound(frames, history, frameSeq, renumbered) BY DEF ScriptInv
<1>2. CASE ClearFrames
  <2>1. FramesSound(frames', history', frameSeq', renumbered') BY <1>2, NoFrames DEF ClearFrames
  <2>2. UNCHANGED <<call, stateVars, config, outputs>> BY <1>2 DEF ClearFrames
  <2> QED BY <2>1, <2>2, NodeStep
<1>3. CASE ResetCounters
  <2>1. frames' = frames /\ history' = history /\ frameSeq' = 0 /\ renumbered' = TRUE
    BY <1>3 DEF ResetCounters
  <2>2. FramesSound(frames', history', frameSeq', renumbered') BY <1>1, <2>1 DEF FramesSound
  <2>3. UNCHANGED <<call, stateVars, config, outputs>> BY <1>3 DEF ResetCounters
  <2> QED BY <2>2, <2>3, NodeStep
<1>4. CASE StopGraph
  <2>1. FramesSound(frames', history', frameSeq', renumbered') BY <1>1, <1>4 DEF StopGraph, frameVars
  <2>2. UNCHANGED <<call, stateVars, config, outputs>> BY <1>4 DEF StopGraph
  <2> QED BY <2>1, <2>2, NodeStep
<1> QED BY <1>2, <1>3, <1>4

-----------------------------------------------------------------------------
(* The script node                                                         *)

\* The first state, in which an analyzer may have a frame
LEMMA ScriptStart == ScriptInit => ScriptInv
<1> SUFFICES ASSUME ScriptInit PROVE ScriptInv OBVIOUS
<1>1. config \in Configs /\ MaxOutput \in Nat /\ MaxState \in Nat BY LimitsAreNat DEF ScriptInit
<1>2. RunSound(NoCall, MaxOutput) BY <1>1 DEF RunSound, RunState, NoCall, Changing
<1>3. call = [r \in Run |-> NoCall] BY DEF ScriptInit
<1>4. call \in [Run -> RunState] /\ \A r \in Run : RunSound(call[r], MaxOutput) BY <1>2, <1>3 DEF RunSound
<1>5. StateSound(values, last, lock, lateChanges, call, MaxState)
  <2>1. values = [k \in Key |-> 0] /\ last = values /\ lateChanges = [r \in Run |-> 0] BY DEF ScriptInit
  <2>2. values \in [Key -> Nat] /\ BoundedState(values) /\ Total(values) = 0 BY <2>1, EmptyCounts
  <2>3. \A r \in Run : call[r].script = "none" BY <1>3 DEF NoCall
  <2>4. Total(values) <= MaxState BY <2>2, <1>1
  <2>5. \A r \in Run : ChangesOnce(lateChanges[r], call[r]) /\ HoldsLock(r, call[r], values, lock)
    BY <2>1, <2>3 DEF ChangesOnce, HoldsLock
  <2>6. lateChanges \in [Run -> Nat] BY <2>1
  <2> QED BY <2>1, <2>2, <2>4, <2>5, <2>6 DEF StateSound
<1>6. OutputsSound(outputs, call, config.passes)
  <2>1. outputs = << >> BY DEF ScriptInit
  <2> QED BY <2>1 DEF OutputsSound
<1>7. FramesSound(frames, history, frameSeq, renumbered)
  <2>1. history = frames /\ frameSeq = Len(frames) /\ renumbered = FALSE BY DEF ScriptInit
  <2>2. CASE config.type = "analyzer"
    <3> DEFINE f == [seq |-> 1, bytes |-> 1]
    <3>1. frames = <<f>> BY <2>2 DEF ScriptInit
    <3>2. f \in FrameOf /\ f.seq = 1 /\ f.bytes = 1 BY DEF FrameOf
    <3> HIDE DEF f
    <3>3. frames \in Seq(FrameOf) /\ Len(frames) = 1 /\ frames[1] = f BY <3>1, <3>2
    <3>4. BoundedFrames(frames) BY <3>2, <3>3 DEF BoundedFrames
    <3>5. Fits(frames) BY <3>3, ScriptAssumption DEF Fits
    <3> QED BY <2>1, <3>2, <3>3, <3>4, <3>5 DEF FramesSound
  <2>3. CASE config.type # "analyzer"
    <3>1. frames = << >> /\ Len(frames) = 0 BY <2>3 DEF ScriptInit
    <3> QED BY <2>1, <3>1, NoFrames
  <2> QED BY <2>2, <2>3
<1> QED BY <1>1, <1>4, <1>5, <1>6, <1>7 DEF ScriptInv

\* Every step of a script node keeps its invariant.
LEMMA ScriptStep == ScriptInv /\ [ScriptNext]_scriptVars => ScriptInv'
<1> SUFFICES ASSUME ScriptInv, [ScriptNext]_scriptVars PROVE ScriptInv' OBVIOUS
<1>1. ASSUME NEW r \in Run, Machine(r) PROVE ScriptInv'
  BY <1>1, OutputStep, ChangeStep, OutputThrowsStep, MarkStep, LockStep, StoreStep, EndStep DEF Machine
<1>2. ASSUME NEW r \in Run, Handler(r) PROVE ScriptInv'
  BY <1>2, BeginStep, ReturnsStep, TimeoutStep, TransformStep, GenerateStep, AnalyzeStep DEF Handler
<1>3. CASE ClearFrames \/ ResetCounters \/ StopGraph BY <1>3, ClearStep
<1>4. CASE UNCHANGED scriptVars
  <2>1. UNCHANGED <<call, stateVars, config, outputs>> /\ UNCHANGED frameVars BY <1>4 DEF scriptVars, nodeVars
  <2>2. FramesSound(frames', history', frameSeq', renumbered') BY <2>1 DEF frameVars, ScriptInv
  <2> QED BY <2>1, <2>2, NodeStep
<1> QED BY <1>1, <1>2, <1>3, <1>4 DEF ScriptNext

\* The invariant says what a node promises of its runs and its state.
LEMMA InvBoundsScript == ScriptInv => ScriptIsBounded
<1> SUFFICES ASSUME ScriptInv PROVE ScriptIsBounded OBVIOUS
<1>1. /\ StateSound(values, last, lock, lateChanges, call, MaxState)
      /\ OutputsSound(outputs, call, config.passes) /\ \A r \in Run : RunSound(call[r], MaxOutput)
  BY DEF ScriptInv
<1>2. values = last /\ Total(values) <= MaxState BY <1>1 DEF StateSound
<1>3. ASSUME NEW r \in Run PROVE lateChanges[r] <= 1 /\ call[r].out <= MaxOutput
  BY <1>1 DEF StateSound, ChangesOnce, RunSound
<1>4. DOMAIN outputs = 1 .. Len(outputs) BY <1>1 DEF OutputsSound
<1>5. \A i \in 1 .. Len(outputs) : Left(outputs[i], call[outputs[i].run], config.passes)
  BY <1>1 DEF OutputsSound
<1>6. \A i, j \in 1 .. Len(outputs) : outputs[j].run = outputs[i].run => i = j
  BY <1>1 DEF OutputsSound
<1> QED BY <1>2, <1>3, <1>4, <1>5, <1>6 DEF ScriptIsBounded, Left

\* ... and of its frames.
LEMMA InvKeepsNewest == ScriptInv => FramesAreNewest
<1> SUFFICES ASSUME ScriptInv PROVE FramesAreNewest OBVIOUS
<1> DEFINE n == Len(frames)
           m == Len(history)
           suffix(k) == SubSeq(history, m - k + 1, m)
<1>1. FramesSound(frames, history, frameSeq, renumbered) BY DEF ScriptInv
<1>2. /\ frames \in Seq(FrameOf) /\ history \in Seq(FrameOf) /\ n \in Nat /\ m \in Nat /\ n <= m
      /\ \A i \in 1 .. n : frames[i] = history[m - n + i]
  BY <1>1 DEF FramesSound
<1>3. frames = suffix(n)
  <2>1. 1 \in 1 .. n + 1 BY <1>2
  <2>2. Behind(frames, 1) = Behind(history, m - n + 1) BY <1>2, <2>1, SameEnd
  <2>3. Behind(frames, 1) = frames BY <1>2 DEF Behind
  <2> QED BY <2>2, <2>3 DEF Behind
<1>4. n <= FrameLimit /\ (n > 1 => FrameBytes(frames) <= FrameBytesLimit)
  <2>1. Fits(frames) BY <1>1 DEF FramesSound
  <2>2. BoundedFrames(frames)
    <3>1. PICK b \in Nat : \A i \in 1 .. m : history[i].bytes <= b BY <1>1 DEF FramesSound, BoundedFrames
    <3>2. \A i \in 1 .. n : m - n + i \in 1 .. m BY <1>2
    <3>3. \A i \in 1 .. n : frames[i].bytes <= b BY <1>2, <3>1, <3>2
    <3> QED BY <3>3 DEF BoundedFrames
  <2>3. FrameBytes(frames) \in Nat BY <1>2, <2>2, FramesCount
  <2> QED BY <1>2, <2>1, <2>3, ScriptAssumption DEF Fits
<1>5. ASSUME n < m PROVE ~Fits(suffix(n + 1))
  <2>1. ~Fits(Behind(history, m - n)) BY <1>1, <1>5 DEF FramesSound
  <2>2. m - (n + 1) + 1 = m - n BY <1>2
  <2>3. suffix(n + 1) = Behind(history, m - n) BY <2>2 DEF Behind
  <2> QED BY <2>1, <2>3
<1>6. ASSUME ~renumbered PROVE \A i \in DOMAIN frames : frames[i].seq = frameSeq - n + i
  BY <1>1, <1>2, <1>6 DEF FramesSound
<1> QED BY <1>3, <1>4, <1>5, <1>6 DEF FramesAreNewest

\* What is true of a script node in every state
THEOREM ScriptInductive == ScriptSpec => []ScriptInv
BY ScriptStart, ScriptStep, PTL DEF ScriptSpec

\* Runs at the same time, also those that go on after their timeout, keep a
\* script node within its limits, its state what they last set, its outputs
\* whole and unique and its frames the newest.
THEOREM NodeIsBoundedAlways == ScriptSpec => []NodeIsBounded
<1>1. ScriptInv => NodeIsBounded BY InvBoundsScript, InvKeepsNewest DEF NodeIsBounded
<1> QED BY <1>1, ScriptInductive, PTL

-----------------------------------------------------------------------------
(* Validation: what it means that a graph has no errors                    *)

NamedOnce(list, i) == list[i].id # "" /\ ~Again(list, i)

\* What a node has for itself: the port or the endpoint
ToolKey(node) ==
    IF ~(node.type \in DOMAIN RuntimeProviders /\ RuntimeProviders[node.type].owner) THEN << >>
    ELSE IF node.type = "serial.remote" THEN ToolEndpoint(node.config) ELSE PortKey(node.config)
RuntimeKey(node) ==
    IF ~(node.type \in DOMAIN RuntimeProviders /\ RuntimeProviders[node.type].owner) THEN << >>
    ELSE IF node.type = "serial.remote" THEN RuntimeEndpoint(node.config) ELSE PortKey(node.config)

ToolNode(node) ==
    node.type \in NodeTypes /\ (node.type = "serial.remote" => ToolRemoteErrors(node.config) = {})
RuntimeNode(node) ==
    node.type \in NodeTypes /\ (node.type = "serial.remote" => RuntimeRemoteErrors(node.config) = {})

\* The two tables of the kinds of nodes are the same.
LEMMA SameProviders == ToolProviders = RuntimeProviders
<1>1. \A t \in NodeTypes : ToolProviders[t] = RuntimeProviders[t]
  BY DEF ToolProviders, RuntimeProviders, NodeTypes, DeviceTypes, ScriptNodeTypes, ProtocolTypes
<1> QED BY <1>1 DEF ToolProviders, RuntimeProviders

\* Both know the same kinds of nodes.
LEMMA ProviderDomain == DOMAIN RuntimeProviders = NodeTypes
BY DEF RuntimeProviders

\* The errors of the nodes, for the tools
LEMMA ToolNodesRight ==
    ASSUME NEW g
    PROVE  AllNodeErrors(g, ToolProviders, ToolRemoteErrors) = {} <=>
               \A i \in DOMAIN g.nodes : NamedOnce(g.nodes, i) /\ ToolNode(g.nodes[i])
<1> DEFINE F(i) ==
        IF g.nodes[i].id = "" THEN {<<"", "empty id">>}
        ELSE IF Again(g.nodes, i) THEN {<<g.nodes[i].id, "duplicate">>}
        ELSE NodeErrors(g.nodes[i], ToolProviders, ToolRemoteErrors)
<1>1. AllNodeErrors(g, ToolProviders, ToolRemoteErrors) = UNION {F(i) : i \in DOMAIN g.nodes}
  BY DEF AllNodeErrors
<1>2. ASSUME NEW i \in DOMAIN g.nodes PROVE F(i) = {} <=> NamedOnce(g.nodes, i) /\ ToolNode(g.nodes[i])
  <2> DEFINE n == g.nodes[i]
             R == {<<n.id, what>> : what \in ToolRemoteErrors(n.config)}
  <2>1. NodeErrors(n, ToolProviders, ToolRemoteErrors) =
            When(n.type \notin DOMAIN ToolProviders, <<n.id, "provider">>) \cup (IF n.type = "serial.remote" THEN R ELSE {})
    BY DEF NodeErrors
  <2>2. R = {} <=> ToolRemoteErrors(n.config) = {} OBVIOUS
  <2>3. When(n.type \notin DOMAIN ToolProviders, <<n.id, "provider">>) = {} <=> n.type \in NodeTypes
    BY SameProviders, ProviderDomain DEF When
  <2> HIDE DEF R
  <2>4. NodeErrors(n, ToolProviders, ToolRemoteErrors) = {} <=> ToolNode(n)
    BY <2>1, <2>2, <2>3 DEF ToolNode
  <2> QED BY <2>4 DEF NamedOnce
<1> HIDE DEF F
<1>3. UNION {F(i) : i \in DOMAIN g.nodes} = {} <=> \A i \in DOMAIN g.nodes : F(i) = {} OBVIOUS
<1> QED BY <1>1, <1>2, <1>3

\* ... and for the runtime
LEMMA RuntimeNodesRight ==
    ASSUME NEW g
    PROVE  AllNodeErrors(g, RuntimeProviders, RuntimeRemoteErrors) = {} <=>
               \A i \in DOMAIN g.nodes : NamedOnce(g.nodes, i) /\ RuntimeNode(g.nodes[i])
<1> DEFINE F(i) ==
        IF g.nodes[i].id = "" THEN {<<"", "empty id">>}
        ELSE IF Again(g.nodes, i) THEN {<<g.nodes[i].id, "duplicate">>}
        ELSE NodeErrors(g.nodes[i], RuntimeProviders, RuntimeRemoteErrors)
<1>1. AllNodeErrors(g, RuntimeProviders, RuntimeRemoteErrors) = UNION {F(i) : i \in DOMAIN g.nodes}
  BY DEF AllNodeErrors
<1>2. ASSUME NEW i \in DOMAIN g.nodes PROVE F(i) = {} <=> NamedOnce(g.nodes, i) /\ RuntimeNode(g.nodes[i])
  <2> DEFINE n == g.nodes[i]
             R == {<<n.id, what>> : what \in RuntimeRemoteErrors(n.config)}
  <2>1. NodeErrors(n, RuntimeProviders, RuntimeRemoteErrors) =
            When(n.type \notin DOMAIN RuntimeProviders, <<n.id, "provider">>) \cup (IF n.type = "serial.remote" THEN R ELSE {})
    BY DEF NodeErrors
  <2>2. R = {} <=> RuntimeRemoteErrors(n.config) = {} OBVIOUS
  <2>3. When(n.type \notin DOMAIN RuntimeProviders, <<n.id, "provider">>) = {} <=> n.type \in NodeTypes
    BY ProviderDomain DEF When
  <2> HIDE DEF R
  <2>4. NodeErrors(n, RuntimeProviders, RuntimeRemoteErrors) = {} <=> RuntimeNode(n)
    BY <2>1, <2>2, <2>3 DEF RuntimeNode
  <2> QED BY <2>4 DEF NamedOnce
<1> HIDE DEF F
<1>3. UNION {F(i) : i \in DOMAIN g.nodes} = {} <=> \A i \in DOMAIN g.nodes : F(i) = {} OBVIOUS
<1> QED BY <1>1, <1>2, <1>3

\* The errors of the resources
LEMMA ToolResourcesApart ==
    ASSUME NEW g
    PROVE  ResourceErrors(g, ToolProviders, ToolEndpoint) = {} <=>
               \A k \in DOMAIN g.nodes : \A j \in 1 .. k - 1 :
                   ToolKey(g.nodes[k]) # << >> => ToolKey(g.nodes[j]) # ToolKey(g.nodes[k])
BY SameProviders DEF ResourceErrors, ToolKey

\* ... and for the runtime
LEMMA RuntimeResourcesApart ==
    ASSUME NEW g
    PROVE  ResourceErrors(g, RuntimeProviders, RuntimeEndpoint) = {} <=>
               \A k \in DOMAIN g.nodes : \A j \in 1 .. k - 1 :
                   RuntimeKey(g.nodes[k]) # << >> => RuntimeKey(g.nodes[j]) # RuntimeKey(g.nodes[k])
BY DEF ResourceErrors, RuntimeKey

\* A remote node that is right for the tools is right for the runtime, with
\* the same endpoint; the other way round when nothing is blank.
LEMMA RemoteAgree ==
    ASSUME NEW c
    PROVE  /\ ToolRemoteErrors(c) = {} => RuntimeRemoteErrors(c) = {}
           /\ RuntimeRemoteErrors(c) = {} /\ "" \notin {c.protocol, c.role} => ToolRemoteErrors(c) = {}
           /\ ToolRemoteErrors(c) = {} => ToolEndpoint(c) = RuntimeEndpoint(c)
<1> DEFINE I == {key \in DOMAIN Limits : IntError(c, key)}
           H == When(c.host \in {Absent, ""} \/ HasScheme(c.host), "host")
           T == When(ToolString(c.protocol, "raw-tcp") # "raw-tcp", "protocol")
           U == When(ToolString(c.role, "client") \notin {"client", "server"}, "role")
           V == When(RuntimeString(c.protocol, "raw-tcp") # "raw-tcp", "protocol")
           W == When(RuntimeString(c.role, "client") \notin {"client", "server"}, "role")
<1>1. ToolRemoteErrors(c) = I \cup T \cup U \cup H BY DEF ToolRemoteErrors, RemoteErrors
<1>2. RuntimeRemoteErrors(c) = I \cup V \cup W \cup H BY DEF RuntimeRemoteErrors, RemoteErrors
<1>3. T = {} => V = {} BY DEF When, ToolString, RuntimeString
<1>4. U = {} => W = {} /\ ToolString(c.role, "client") = RuntimeString(c.role, "client")
  BY DEF When, ToolString, RuntimeString
<1>5. "" \notin {c.protocol, c.role} => V = T /\ W = U BY DEF When, ToolString, RuntimeString
<1> HIDE DEF I, H, T, U, V, W
<1>6. ToolRemoteErrors(c) = {} => RuntimeRemoteErrors(c) = {} BY <1>1, <1>2, <1>3, <1>4
<1>7. RuntimeRemoteErrors(c) = {} /\ "" \notin {c.protocol, c.role} => ToolRemoteErrors(c) = {}
  BY <1>1, <1>2, <1>5
<1>8. ASSUME ToolRemoteErrors(c) = {} PROVE ToolEndpoint(c) = RuntimeEndpoint(c)
  <2>1. ToolEndpoint(c) = Endpoint(c, ToolString) BY <1>8 DEF ToolEndpoint
  <2>2. RuntimeEndpoint(c) = Endpoint(c, RuntimeString) BY <1>6, <1>8 DEF RuntimeEndpoint
  <2>3. ToolString(c.role, "client") = RuntimeString(c.role, "client") BY <1>1, <1>4, <1>8
  <2>4. Endpoint(c, ToolString) = Endpoint(c, RuntimeString) BY <2>3 DEF Endpoint
  <2> QED BY <2>1, <2>2, <2>4
<1> QED BY <1>6, <1>7, <1>8

\* A node with its errors and its key, for both
LEMMA NodesAgree ==
    ASSUME NEW n
    PROVE  /\ ToolNode(n) => RuntimeNode(n) /\ ToolKey(n) = RuntimeKey(n)
           /\ RuntimeNode(n) /\ ~Blank(n) => ToolNode(n)
BY RemoteAgree DEF ToolNode, RuntimeNode, ToolKey, RuntimeKey, Blank

-----------------------------------------------------------------------------
(* The errors of the edges                                                 *)

\* The node with an id is one of the nodes.
LEMMA NodeAtKnown ==
    ASSUME NEW g, NEW S, g.nodes \in Seq(S), NEW id \in Known(g)
    PROVE  \E i \in 1 .. Len(g.nodes) : g.nodes[i].id = id /\ NodeAt(g, id) = g.nodes[i]
<1> DEFINE N == {i \in 1 .. Len(g.nodes) : g.nodes[i].id = id}
<1>1. DOMAIN g.nodes = 1 .. Len(g.nodes) /\ Len(g.nodes) \in Nat OBVIOUS
<1>2. N # {} /\ N \in SUBSET Nat
  <2>1. \E i \in DOMAIN g.nodes : g.nodes[i].id = id BY DEF Known
  <2> QED BY <1>1, <2>1
<1>3. PICK i \in N : \A j \in N : i <= j BY <1>2, LeastNumber
<1>4. i \in DOMAIN g.nodes /\ g.nodes[i].id = id /\ \A j \in 1 .. i - 1 : g.nodes[j].id # id
  <2>1. i \in 1 .. Len(g.nodes) /\ g.nodes[i].id = id OBVIOUS
  <2>2. ASSUME NEW j \in 1 .. i - 1 PROVE j \notin N BY <1>3, <2>1
  <2>3. \A j \in 1 .. i - 1 : j \in 1 .. Len(g.nodes) BY <2>1, <1>1
  <2> QED BY <1>1, <2>1, <2>2, <2>3
<1> DEFINE k == First(g.nodes, id)
<1>5. k \in DOMAIN g.nodes /\ g.nodes[k].id = id BY <1>4, Zenon DEF First
<1> HIDE DEF k
<1>6. NodeAt(g, id) = g.nodes[k] BY DEF NodeAt, k
<1> QED BY <1>1, <1>5, <1>6

AllKnown(g) == \A i \in 1 .. Len(g.nodes) : g.nodes[i].type \in NodeTypes

\* Where every node is of a kind that is known, no edge lacks a provider.
LEMMA NoProviderError ==
    ASSUME NEW g, NEW S, g.nodes \in Seq(S), AllKnown(g), NEW e
    PROVE  "provider" \notin Connection(g, RuntimeProviders, e)
<1>1. ASSUME NEW id \in Known(g) PROVE NodeAt(g, id).type \in NodeTypes
  BY NodeAtKnown DEF AllKnown
<1> QED BY <1>1, ProviderDomain DEF Connection, When

\* The edges that are right
EdgeRight(g, i) == NamedOnce(g.edges, i) /\ Connection(g, RuntimeProviders, g.edges[i]) = {}

\* The errors of the edges, for the tools
LEMMA ToolEdgesRight ==
    ASSUME NEW g
    PROVE  LET check(e) == Connection(g, ToolProviders, e) IN
           EdgeErrors(g, check) = {} <=> \A i \in DOMAIN g.edges : EdgeRight(g, i)
<1> DEFINE check(e) == Connection(g, ToolProviders, e)
           F(i) ==
              IF g.edges[i].id = "" THEN {<<"", "empty id">>}
              ELSE IF Again(g.edges, i) THEN {<<g.edges[i].id, "duplicate">>}
              ELSE {<<g.edges[i].id, what>> : what \in Connection(g, ToolProviders, g.edges[i])}
<1>1. EdgeErrors(g, check) = UNION {F(i) : i \in DOMAIN g.edges}
  BY DEF EdgeErrors
<1>2. ASSUME NEW i \in DOMAIN g.edges PROVE F(i) = {} <=> EdgeRight(g, i)
  BY SameProviders DEF EdgeRight, NamedOnce
<1> HIDE DEF F
<1>3. UNION {F(i) : i \in DOMAIN g.edges} = {} <=> \A i \in DOMAIN g.edges : F(i) = {} OBVIOUS
<1> QED BY <1>1, <1>2, <1>3

\* ... and for the runtime, which says nothing of an edge without a provider
LEMMA RuntimeEdgesRight ==
    ASSUME NEW g, NEW S, g.nodes \in Seq(S), AllKnown(g)
    PROVE  LET check(e) == Connection(g, RuntimeProviders, e) \ {"provider"} IN
           EdgeErrors(g, check) = {} <=> \A i \in DOMAIN g.edges : EdgeRight(g, i)
<1> DEFINE check(e) == Connection(g, RuntimeProviders, e) \ {"provider"}
           F(i) ==
              IF g.edges[i].id = "" THEN {<<"", "empty id">>}
              ELSE IF Again(g.edges, i) THEN {<<g.edges[i].id, "duplicate">>}
              ELSE {<<g.edges[i].id, what>> : what \in Connection(g, RuntimeProviders, g.edges[i]) \ {"provider"}}
<1>1. EdgeErrors(g, check) = UNION {F(i) : i \in DOMAIN g.edges}
  BY DEF EdgeErrors
<1>2. ASSUME NEW i \in DOMAIN g.edges PROVE F(i) = {} <=> EdgeRight(g, i)
  <2>1. Connection(g, RuntimeProviders, g.edges[i]) \ {"provider"} = Connection(g, RuntimeProviders, g.edges[i])
    BY NoProviderError
  <2> QED BY <2>1 DEF EdgeRight, NamedOnce
<1> HIDE DEF F
<1>3. UNION {F(i) : i \in DOMAIN g.edges} = {} <=> \A i \in DOMAIN g.edges : F(i) = {} OBVIOUS
<1> QED BY <1>1, <1>2, <1>3

-----------------------------------------------------------------------------
(* Validation and start                                                    *)

ToolKeysApart(g) ==
    \A k \in DOMAIN g.nodes : \A j \in 1 .. k - 1 :
        ToolKey(g.nodes[k]) # << >> => ToolKey(g.nodes[j]) # ToolKey(g.nodes[k])
RuntimeKeysApart(g) ==
    \A k \in DOMAIN g.nodes : \A j \in 1 .. k - 1 :
        RuntimeKey(g.nodes[k]) # << >> => RuntimeKey(g.nodes[j]) # RuntimeKey(g.nodes[k])

\* What the tools take as valid
LEMMA ValidGraph ==
    ASSUME NEW g
    PROVE  LET h == Normalized(g) IN
           ToolErrors(g) = {} <=>
               /\ \A i \in DOMAIN h.nodes : NamedOnce(h.nodes, i) /\ ToolNode(h.nodes[i])
               /\ ToolKeysApart(h)
               /\ \A i \in DOMAIN h.edges : EdgeRight(h, i)
<1> DEFINE h == Normalized(g)
           check(e) == Connection(h, ToolProviders, e)
<1>1. ToolErrors(g) = AllNodeErrors(h, ToolProviders, ToolRemoteErrors)
          \cup ResourceErrors(h, ToolProviders, ToolEndpoint) \cup EdgeErrors(h, check)
  BY DEF ToolErrors
<1> HIDE DEF h
<1>2. EdgeErrors(h, check) = {} <=> \A i \in DOMAIN h.edges : EdgeRight(h, i) BY ToolEdgesRight
<1> DEFINE A == AllNodeErrors(h, ToolProviders, ToolRemoteErrors)
           R == ResourceErrors(h, ToolProviders, ToolEndpoint)
           E == EdgeErrors(h, check)
<1>3. A = {} <=> \A i \in DOMAIN h.nodes : NamedOnce(h.nodes, i) /\ ToolNode(h.nodes[i]) BY ToolNodesRight
<1>4. R = {} <=> ToolKeysApart(h) BY ToolResourcesApart DEF ToolKeysApart
<1>5. ToolErrors(g) = A \cup R \cup E BY <1>1
<1>6. E = {} <=> \A i \in DOMAIN h.edges : EdgeRight(h, i) BY <1>2
<1> HIDE DEF A, R, E
<1>7. ToolErrors(g) = {} <=> A = {} /\ R = {} /\ E = {} BY <1>5
<1>8. ToolErrors(g) = {} <=>
          /\ \A i \in DOMAIN h.nodes : NamedOnce(h.nodes, i) /\ ToolNode(h.nodes[i])
          /\ ToolKeysApart(h)
          /\ \A i \in DOMAIN h.edges : EdgeRight(h, i)
  BY <1>3, <1>4, <1>6, <1>7
<1> QED BY <1>8 DEF h

\* What the runtime starts
LEMMA StartedGraph ==
    ASSUME NEW h, NEW S, h.nodes \in Seq(S)
    PROVE  RuntimeErrors(h) = {} <=>
               /\ \A i \in DOMAIN h.nodes : NamedOnce(h.nodes, i) /\ RuntimeNode(h.nodes[i])
               /\ RuntimeKeysApart(h)
               /\ \A i \in DOMAIN h.edges : EdgeRight(h, i)
<1> DEFINE check(e) == Connection(h, RuntimeProviders, e) \ {"provider"}
           A == AllNodeErrors(h, RuntimeProviders, RuntimeRemoteErrors)
           R == ResourceErrors(h, RuntimeProviders, RuntimeEndpoint)
           E == EdgeErrors(h, check)
<1>1. RuntimeErrors(h) = A \cup R \cup E BY DEF RuntimeErrors
<1>3. A = {} <=> \A i \in DOMAIN h.nodes : NamedOnce(h.nodes, i) /\ RuntimeNode(h.nodes[i]) BY RuntimeNodesRight
<1>4. R = {} <=> RuntimeKeysApart(h) BY RuntimeResourcesApart DEF RuntimeKeysApart
<1>6. ASSUME AllKnown(h) PROVE E = {} <=> \A i \in DOMAIN h.edges : EdgeRight(h, i)
  BY <1>6, RuntimeEdgesRight
<1>7. (\A i \in DOMAIN h.nodes : RuntimeNode(h.nodes[i])) => AllKnown(h)
  <2>1. DOMAIN h.nodes = 1 .. Len(h.nodes) OBVIOUS
  <2> QED BY <2>1 DEF AllKnown, RuntimeNode
<1> HIDE DEF A, R, E
<1>8. RuntimeErrors(h) = {} <=> A = {} /\ R = {} /\ E = {} BY <1>1
<1> QED BY <1>3, <1>4, <1>6, <1>7, <1>8

\* A request keeps its shape, and its nodes in both validators.
LEMMA RequestShape ==
    ASSUME NEW g \in Graph
    PROVE  /\ Normalized(g).nodes = g.nodes /\ g.nodes \in Seq(NodeSpecs)
           /\ Normalized(g).edges \in Seq(EdgeSpecs)
<1>1. g.nodes \in Seq(NodeSpecs) /\ g.edges \in Seq(EdgeSpecs) BY DEF Graph
<1> DEFINE drawn == [i \in DOMAIN g.edges |-> Normal(g.edges[i])]
<1>2. Normalized(g).nodes = g.nodes /\ Normalized(g).edges = drawn BY DEF Normalized, Graph
<1>3. ASSUME NEW e \in EdgeSpecs PROVE Normal(e) \in EdgeSpecs BY DEF Normal, EdgeSpecs
<1>4. DOMAIN g.edges = 1 .. Len(g.edges) /\ \A i \in 1 .. Len(g.edges) : g.edges[i] \in EdgeSpecs BY <1>1
<1>5. drawn \in Seq(EdgeSpecs)
  <2>1. drawn \in [1 .. Len(g.edges) -> EdgeSpecs] BY <1>3, <1>4
  <2>2. Len(g.edges) \in Nat BY <1>1
  <2> HIDE DEF drawn
  <2> QED BY <2>1, <2>2
<1> QED BY <1>1, <1>2, <1>5

\* The two validators say the same of every request.
LEMMA Agree == graph \in Graph => ValidatorsAgree
<1> SUFFICES ASSUME graph \in Graph PROVE ValidatorsAgree OBVIOUS
<1> DEFINE h == Normalized(graph)
<1>1. h.nodes = graph.nodes /\ h.nodes \in Seq(NodeSpecs) BY RequestShape
<1>2. ToolErrors(graph) = {} <=>
          /\ \A i \in DOMAIN h.nodes : NamedOnce(h.nodes, i) /\ ToolNode(h.nodes[i])
          /\ ToolKeysApart(h)
          /\ \A i \in DOMAIN h.edges : EdgeRight(h, i)
  BY ValidGraph
<1>3. RuntimeErrors(h) = {} <=>
          /\ \A i \in DOMAIN h.nodes : NamedOnce(h.nodes, i) /\ RuntimeNode(h.nodes[i])
          /\ RuntimeKeysApart(h)
          /\ \A i \in DOMAIN h.edges : EdgeRight(h, i)
  BY <1>1, StartedGraph
<1> HIDE DEF h
<1>4. ASSUME \A i \in DOMAIN h.nodes : ToolNode(h.nodes[i])
      PROVE  ToolKeysApart(h) <=> RuntimeKeysApart(h)
  <2>1. \A i \in DOMAIN h.nodes : ToolKey(h.nodes[i]) = RuntimeKey(h.nodes[i]) BY <1>4, NodesAgree
  <2>2. DOMAIN h.nodes = 1 .. Len(h.nodes) /\ Len(h.nodes) \in Nat BY <1>1
  <2>3. \A k \in DOMAIN h.nodes : \A j \in 1 .. k - 1 : j \in DOMAIN h.nodes BY <2>2
  <2> QED BY <2>1, <2>3 DEF ToolKeysApart, RuntimeKeysApart
<1>5. ASSUME ToolErrors(graph) = {} PROVE RuntimeErrors(h) = {} BY <1>2, <1>3, <1>4, <1>5, NodesAgree
<1>6. ASSUME RuntimeErrors(h) = {}, \A i \in DOMAIN h.nodes : ~Blank(h.nodes[i]) PROVE ToolErrors(graph) = {}
  BY <1>2, <1>3, <1>4, <1>6, NodesAgree
<1>7. RuntimeErrors(StartRequest(graph)) = RuntimeErrors(h) BY DEF StartRequest, h
<1> QED BY <1>1, <1>5, <1>6, <1>7 DEF ValidatorsAgree

\* Every edge that a client adds is an edge of a request.
Requested == graph \in Graph

LEMMA DrawnGraph == ValidationSpec => []Requested
<1>1. Requested /\ [\E e \in EdgeSpecs : DrawEdge(e)]_graph => Requested'
  <2> SUFFICES ASSUME Requested, [\E e \in EdgeSpecs : DrawEdge(e)]_graph PROVE Requested' OBVIOUS
  <2>1. CASE UNCHANGED graph BY <2>1 DEF Requested
  <2>2. ASSUME NEW e \in EdgeSpecs, DrawEdge(e) PROVE Requested'
    <3>1. Append(graph.edges, e) \in Seq(EdgeSpecs) BY DEF Requested, Graph
    <3> QED BY <2>2, <3>1 DEF Requested, Graph, DrawEdge
  <2> QED BY <2>1, <2>2
<1>2. graph \in Graph => Requested BY DEF Requested
<1> QED BY <1>1, <1>2, PTL DEF ValidationSpec

\* What a client validates starts, and what does not start was not valid, but
\* for a blank protocol or role.
THEOREM ValidatorsAgreeAlways == ValidationSpec => []ValidatorsAgree
<1>1. Requested => ValidatorsAgree BY Agree DEF Requested
<1> QED BY <1>1, DrawnGraph, PTL

-----------------------------------------------------------------------------
(* Cycles, by closed sets                                                  *)

ClosedUnder(C, S) == \A f \in C : f.source \in S => f.target \in S
Reach(C, K, a, b) == \A S \in SUBSET K : a \in S /\ ClosedUnder(C, S) => b \in S
\* Every node of S is the target of an edge that comes from S.
Fed(C, S) == \A n \in S : \E e \in C : e.target = n /\ e.source \in S
Within(C, K) == \A e \in C : e.source \in K /\ e.target \in K

\* A way goes on along an edge.
LEMMA ReachOn ==
    ASSUME NEW C, NEW K, Within(C, K), NEW a \in K, NEW e \in C, Reach(C, K, a, e.source)
    PROVE  Reach(C, K, a, e.target)
BY DEF Reach, ClosedUnder

\* Two ways make one.
LEMMA ReachOver ==
    ASSUME NEW C, NEW K, NEW a, NEW b, NEW c, Reach(C, K, a, b), Reach(C, K, b, c)
    PROVE  Reach(C, K, a, c)
BY DEF Reach

\* An edge that closes a cycle: the nodes on the way from its target to its
\* source are fed.
LEMMA CycleIsFed ==
    ASSUME NEW C, NEW K, Within(C, K), NEW e \in C, Reach(C, K, e.target, e.source)
    PROVE  \E S \in SUBSET K : S # {} /\ Fed(C, S)
<1> DEFINE t == e.target
           s == e.source
           R == {n \in K : Reach(C, K, t, n)}
           D == {n \in R : Reach(C, K, n, s)}
<1>1. t \in K /\ s \in K BY DEF Within
<1>2. Reach(C, K, t, t) /\ Reach(C, K, s, s) BY DEF Reach
<1>3. t \in D /\ s \in D BY <1>1, <1>2
<1>4. ASSUME NEW n \in D PROVE \E f \in C : f.target = n /\ f.source \in D
  <2>1. CASE n = t BY <2>1, <1>3
  <2>2. CASE n # t
    <3> SUFFICES ASSUME \A f \in C : f.target = n => f.source \notin D PROVE FALSE OBVIOUS
    <3>1. ASSUME NEW f \in C, f.source \in R \ {n} PROVE f.target \in R \ {n}
      <4>1. f.source \in K /\ f.target \in K BY DEF Within
      <4>2. Reach(C, K, t, f.source) BY <3>1
      <4>3. f.target \in R BY <1>1, <4>1, <4>2, ReachOn
      <4>4. ASSUME f.target = n PROVE FALSE
        <5>1. Reach(C, K, f.source, f.source) BY DEF Reach
        <5>2. Reach(C, K, f.source, n) BY <4>1, <4>4, <5>1, ReachOn
        <5>3. Reach(C, K, f.source, s) BY <5>2, ReachOver
        <5> QED BY <3>1, <4>4, <5>3
      <4> QED BY <4>3, <4>4
    <3>2. ClosedUnder(C, R \ {n}) BY <3>1 DEF ClosedUnder
    <3>3. t \in R \ {n} /\ R \ {n} \in SUBSET K BY <1>1, <1>2, <2>2
    <3>4. Reach(C, K, t, n) OBVIOUS
    <3> HIDE DEF R, D
    <3>5. n \in R \ {n} BY <3>2, <3>3, <3>4 DEF Reach
    <3> QED BY <3>5
  <2> QED BY <2>1, <2>2
<1>5. D \in SUBSET K /\ D # {} BY <1>3
<1> HIDE DEF D
<1> QED BY <1>4, <1>5 DEF Fed

\* Where nodes are fed in a circle, an edge of them closes a cycle: a smallest
\* such set of nodes is all reached from each of them.
LEMMA FedIsCycle ==
    ASSUME NEW C, NEW K, IsFiniteSet(K), Within(C, K), NEW T \in SUBSET K, T # {}, Fed(C, T)
    PROVE  \E e \in C : Reach(C, K, e.target, e.source)
<1> DEFINE F == {S \in SUBSET K : S # {} /\ Fed(C, S)}
<1>1. PICK M \in F : \A S \in F : ~(S \subseteq M /\ S # M)
  <2>1. F # {} /\ F \subseteq FiniteSubsetsOf(K)
    <3>1. FiniteSubsetsOf(K) = SUBSET K BY FS_FiniteSubsetsOfFinite
    <3> QED BY <3>1
  <2>2. IsWellFoundedOn(StrictSubsetOrdering(K), FiniteSubsetsOf(K)) BY FS_StrictSubsetOrderingWellFounded
  <2> HIDE DEF F
  <2>3. PICK M \in F : \A S \in F : ~(<<S, M>> \in StrictSubsetOrdering(K)) BY <2>1, <2>2, WFMin, Zenon
  <2>4. \A S \in F : S \in SUBSET K BY DEF F
  <2>5. ASSUME NEW S \in F, S \subseteq M, S # M PROVE FALSE
    <3>1. <<S, M>> \in StrictSubsetOrdering(K) BY <2>4, <2>5 DEF StrictSubsetOrdering
    <3> QED BY <2>3, <3>1
  <2> QED BY <2>5
<1>2. M \in SUBSET K /\ M # {} /\ Fed(C, M) OBVIOUS
<1>3. PICK n \in M : TRUE BY <1>2
<1> DEFINE D == {m \in M : Reach(C, K, n, m)}
<1>4. n \in D /\ n \in K BY <1>2 DEF Reach
<1>5. Fed(C, M \ D)
  <2> SUFFICES ASSUME NEW m \in M \ D PROVE \E e \in C : e.target = m /\ e.source \in M \ D BY DEF Fed
  <2>1. PICK e \in C : e.target = m /\ e.source \in M BY <1>2 DEF Fed
  <2>2. ASSUME e.source \in D PROVE FALSE
    <3>1. Reach(C, K, n, e.source) BY <2>2
    <3>2. Reach(C, K, n, e.target) BY <1>4, <3>1, ReachOn
    <3> QED BY <2>1, <3>2
  <2> QED BY <2>1, <2>2
<1>6. M \ D = {}
  <2>1. M \ D \in SUBSET K /\ M \ D # M BY <1>2, <1>4
  <2> QED BY <1>1, <1>5, <2>1
<1>7. PICK e \in C : e.target = n /\ e.source \in M BY <1>2 DEF Fed
<1>8. Reach(C, K, n, e.source) BY <1>6, <1>7
<1> QED BY <1>7, <1>8

\* Every way to the same node stays among the nodes that the edges name.
LEMMA ReachWithin ==
    ASSUME NEW C, NEW K, NEW L, L \subseteq K, Within(C, L), NEW a \in L, NEW b
    PROVE  Reach(C, L, a, b) <=> Reach(C, K, a, b)
<1>1. ASSUME Reach(C, L, a, b), NEW S \in SUBSET K, a \in S, ClosedUnder(C, S) PROVE b \in S
  <2>1. ClosedUnder(C, S \cap L) BY <1>1 DEF ClosedUnder, Within
  <2> QED BY <1>1, <2>1 DEF Reach
<1>2. Reach(C, K, a, b) => Reach(C, L, a, b) BY DEF Reach
<1> QED BY <1>1, <1>2 DEF Reach

\* An edge that leads to where a way begins adds no way.
LEMMA ReachWithout ==
    ASSUME NEW C, NEW K, NEW e \in C
    PROVE  Reach(C \ {e}, K, e.target, e.source) <=> Reach(C, K, e.target, e.source)
BY DEF Reach, ClosedUnder

\* The nodes of a graph are finitely many.
LEMMA KnownFinite ==
    ASSUME NEW g, NEW S, g.nodes \in Seq(S)
    PROVE  IsFiniteSet(Known(g))
<1> DEFINE n == Len(g.nodes)
           f == [i \in 1 .. n |-> g.nodes[i].id]
           T == {g.nodes[i].id : i \in 1 .. n}
<1>1. n \in Nat /\ DOMAIN g.nodes = 1 .. n OBVIOUS
<1>2. IsFiniteSet(1 .. n) BY <1>1, FS_Interval
<1>3. f \in [1 .. n -> T] /\ \A t \in T : \E i \in 1 .. n : f[i] = t OBVIOUS
<1> HIDE DEF f, T
<1>4. f \in Surjection(1 .. n, T) BY <1>3, Fun_IsSurj
<1>5. IsFiniteSet(T) BY <1>2, <1>4, FS_Surjection
<1>6. Known(g) = T \ {""} BY <1>1 DEF Known, T
<1>7. IsFiniteSet(T \ {""}) BY <1>5, FS_Difference
<1> QED BY <1>6, <1>7

-----------------------------------------------------------------------------
(* The graphs that start                                                   *)

\* Each name is given once just when no two are the same.
LEMMA NamesUnique ==
    ASSUME NEW list, NEW S, list \in Seq(S)
    PROVE  (\A i \in DOMAIN list : NamedOnce(list, i)) <=> UniqueIds(list)
<1> DEFINE n == Len(list)
<1>1. DOMAIN list = 1 .. n /\ n \in Nat OBVIOUS
<1> HIDE DEF n
<1>2. ASSUME \A i \in 1 .. n : NamedOnce(list, i), NEW i \in 1 .. n, NEW j \in 1 .. n
      PROVE  list[i].id # "" /\ (i # j => list[i].id # list[j].id)
  <2>1. list[i].id # "" BY <1>2 DEF NamedOnce
  <2>2. ASSUME NEW k \in 1 .. n, NEW m \in 1 .. n, k < m PROVE list[k].id # list[m].id
    <3>1. k \in 1 .. m - 1 BY <1>1, <2>2
    <3>2. ~Again(list, m) BY <1>2 DEF NamedOnce
    <3> QED BY <3>1, <3>2 DEF Again
  <2>3. i # j => i < j \/ j < i BY <1>1
  <2> QED BY <2>1, <2>2, <2>3
<1>3. ASSUME UniqueIds(list), NEW i \in 1 .. n PROVE NamedOnce(list, i)
  <2>1. \A j \in 1 .. i - 1 : j \in 1 .. n /\ j # i BY <1>1
  <2>2. \A j \in 1 .. n : list[i].id # "" /\ (i # j => list[i].id # list[j].id) BY <1>1, <1>3 DEF UniqueIds
  <2> QED BY <2>1, <2>2 DEF NamedOnce, Again
<1> QED BY <1>1, <1>2, <1>3 DEF UniqueIds

\* The node with an id, where ids are unique
LEMMA TheNode ==
    ASSUME NEW g, NEW S, g.nodes \in Seq(S), UniqueIds(g.nodes)
    PROVE  /\ \A m \in Listed(g.nodes) : m.id \in Known(g) /\ NodeAt(g, m.id) = m
           /\ \A id \in Known(g) : NodeAt(g, id) \in Listed(g.nodes) /\ NodeAt(g, id).id = id
<1>1. DOMAIN g.nodes = 1 .. Len(g.nodes) OBVIOUS
<1>2. ASSUME NEW id \in Known(g) PROVE NodeAt(g, id) \in Listed(g.nodes) /\ NodeAt(g, id).id = id
  <2>1. PICK i \in 1 .. Len(g.nodes) : g.nodes[i].id = id /\ NodeAt(g, id) = g.nodes[i] BY NodeAtKnown
  <2> QED BY <1>1, <2>1 DEF Listed
<1>3. ASSUME NEW m \in Listed(g.nodes) PROVE m.id \in Known(g) /\ NodeAt(g, m.id) = m
  <2>1. PICK k \in DOMAIN g.nodes : m = g.nodes[k] BY DEF Listed
  <2>2. m.id \in Known(g) BY <2>1 DEF Known, UniqueIds
  <2>3. PICK i \in 1 .. Len(g.nodes) : g.nodes[i].id = m.id /\ NodeAt(g, m.id) = g.nodes[i]
    BY <2>2, NodeAtKnown
  <2>4. i = k BY <1>1, <2>1, <2>3 DEF UniqueIds
  <2> QED BY <2>1, <2>2, <2>3, <2>4
<1> QED BY <1>2, <1>3

\* The other edges, where ids are unique
LEMMA OtherEdges ==
    ASSUME NEW g, UniqueIds(g.edges), NEW e \in Listed(g.edges)
    PROVE  Others(g, e) = Listed(g.edges) \ {e}
<1>1. PICK k \in DOMAIN g.edges : e = g.edges[k] BY DEF Listed
<1>2. ASSUME NEW f \in Others(g, e) PROVE f \in Listed(g.edges) \ {e}
  BY <1>1 DEF Others, Listed
<1>3. ASSUME NEW f \in Listed(g.edges) \ {e} PROVE f \in Others(g, e)
  <2>1. PICK j \in DOMAIN g.edges : f = g.edges[j] BY DEF Listed
  <2>2. j # k BY <1>1, <2>1
  <2>3. f.id # e.id BY <1>1, <2>1, <2>2 DEF UniqueIds
  <2> QED BY <2>1, <2>3 DEF Others
<1> QED BY <1>2, <1>3

KeysApart(nodes) ==
    \A m, n \in Listed(nodes) : m # n /\ RuntimeKey(m) # << >> => RuntimeKey(m) # RuntimeKey(n)

\* Of two nodes it does not matter which one comes first.
LEMMA KeysUnordered ==
    ASSUME NEW g, NEW S, g.nodes \in Seq(S), UniqueIds(g.nodes)
    PROVE  RuntimeKeysApart(g) <=> KeysApart(g.nodes)
<1> DEFINE N == Len(g.nodes)
           key(i) == RuntimeKey(g.nodes[i])
<1>1. DOMAIN g.nodes = 1 .. N /\ N \in Nat OBVIOUS
<1>2. RuntimeKeysApart(g) <=> \A k \in 1 .. N : \A j \in 1 .. k - 1 : key(k) # << >> => key(j) # key(k)
  BY <1>1 DEF RuntimeKeysApart
<1>3. ASSUME RuntimeKeysApart(g), NEW m \in Listed(g.nodes), NEW n \in Listed(g.nodes), m # n, RuntimeKey(m) # << >>
      PROVE  RuntimeKey(m) # RuntimeKey(n)
  <2>1. PICK i \in 1 .. N, j \in 1 .. N : m = g.nodes[i] /\ n = g.nodes[j] BY <1>1 DEF Listed
  <2>2. i # j /\ key(i) # << >> BY <1>3, <2>1
  <2> HIDE DEF key, N
  <2>3. CASE i < j
    <3>1. i \in 1 .. j - 1 BY <1>1, <2>3
    <3>2. key(j) # << >> => key(i) # key(j) BY <1>2, <1>3, <3>1
    <3> QED BY <2>1, <2>2, <3>2 DEF key
  <2>4. CASE j < i
    <3>1. j \in 1 .. i - 1 BY <1>1, <2>4
    <3>2. key(j) # key(i) BY <1>2, <1>3, <2>2, <3>1
    <3> QED BY <2>1, <3>2 DEF key
  <2> QED BY <1>1, <2>2, <2>3, <2>4
<1>4. ASSUME KeysApart(g.nodes), NEW k \in 1 .. N, NEW j \in 1 .. k - 1, key(k) # << >> PROVE key(j) # key(k)
  <2>1. j \in 1 .. N /\ j # k BY <1>1
  <2>2. g.nodes[j] \in Listed(g.nodes) /\ g.nodes[k] \in Listed(g.nodes) BY <1>1, <2>1 DEF Listed
  <2>3. g.nodes[j] # g.nodes[k] BY <1>1, <2>1 DEF UniqueIds
  <2> QED BY <1>4, <2>2, <2>3 DEF KeysApart
<1> HIDE DEF key, N
<1> QED BY <1>2, <1>3, <1>4 DEF KeysApart

IsPort(n) == n.type \in {"serial.physical", "serial.virtual"}
Claims(n) == IsPort(n) /\ PortKey(n.config) # << >>

\* What a node of a known kind, rightly configured, has for itself
LEMMA KeyOfNode ==
    ASSUME NEW n, RuntimeNode(n)
    PROVE  /\ n.type = "serial.remote" =>
               /\ RuntimeKey(n) = RuntimeEndpoint(n.config)
               /\ RuntimeKey(n) = Endpoint(n.config, RuntimeString)
           /\ IsPort(n) => RuntimeKey(n) = PortKey(n.config)
           /\ n.type # "serial.remote" /\ ~IsPort(n) => RuntimeKey(n) = << >>
<1>1. n.type \in NodeTypes /\ DOMAIN RuntimeProviders = NodeTypes BY ProviderDomain DEF RuntimeNode
<1>2. RuntimeProviders[n.type].owner <=> n.type \in DeviceTypes
  BY <1>1 DEF RuntimeProviders, Provider, NodeTypes, DeviceTypes, ScriptNodeTypes, ProtocolTypes
<1>3. n.type \in DeviceTypes <=> n.type = "serial.remote" \/ IsPort(n) BY DEF DeviceTypes, IsPort
<1>4. IsPort(n) => n.type # "serial.remote" BY DEF IsPort
<1>5. n.type = "serial.remote" => RuntimeEndpoint(n.config) = Endpoint(n.config, RuntimeString)
  BY DEF RuntimeEndpoint, RuntimeNode
<1> QED BY <1>1, <1>2, <1>3, <1>4, <1>5 DEF RuntimeKey

\* The key of a port is its name.
LEMMA NameOfPort ==
    ASSUME NEW c
    PROVE  PortKey(c) = << >> \/ PortKey(c)[1] = "portName"
<1>1. PortKey(c) = << >> \/ PortKey(c) = <<"portName", c.portName>> BY DEF PortKey
<1>2. ASSUME PortKey(c) = <<"portName", c.portName>> PROVE PortKey(c)[1] = "portName" BY <1>2
<1> QED BY <1>1, <1>2

\* Nodes that are right one by one fit when they have nothing in common.
LEMMA NodesStart ==
    ASSUME NEW g, NEW S, g.nodes \in Seq(S), UniqueIds(g.nodes)
    PROVE  NodesFit(g.nodes) <=> (\A i \in DOMAIN g.nodes : RuntimeNode(g.nodes[i])) /\ RuntimeKeysApart(g)
<1> DEFINE L == Listed(g.nodes)
<1>1. (\A i \in DOMAIN g.nodes : RuntimeNode(g.nodes[i])) <=> \A n \in L : RuntimeNode(n) BY DEF Listed
<1>2. (\A n \in L : RuntimeNode(n)) <=>
          /\ \A n \in L : n.type \in DOMAIN RuntimeProviders
          /\ \A n \in {m \in L : m.type = "serial.remote"} : RuntimeRemoteErrors(n.config) = {}
  BY ProviderDomain DEF RuntimeNode
<1>3. RuntimeKeysApart(g) <=> KeysApart(g.nodes) BY KeysUnordered
<1> DEFINE RemotesApart == \A m, n \in L : m.type = "serial.remote" /\ n.type = "serial.remote" /\ m # n
                          => RuntimeEndpoint(m.config) # RuntimeEndpoint(n.config)
           PortsApart == \A m, n \in L : Claims(m) /\ Claims(n) /\ m # n => m.config.portName # n.config.portName
<1>4. NodesFit(g.nodes) <=> (\A n \in L : RuntimeNode(n)) /\ RemotesApart /\ PortsApart
  BY <1>2 DEF NodesFit, Claims, IsPort
<1> HIDE DEF L
<1>5. ASSUME \A n \in L : RuntimeNode(n), KeysApart(g.nodes) PROVE RemotesApart /\ PortsApart
  <2>1. ASSUME NEW m \in L, NEW n \in L, m.type = "serial.remote", n.type = "serial.remote", m # n
        PROVE  RuntimeEndpoint(m.config) # RuntimeEndpoint(n.config)
    <3>1. RuntimeKey(m) = RuntimeEndpoint(m.config) /\ RuntimeKey(n) = RuntimeEndpoint(n.config)
      BY <1>5, <2>1, KeyOfNode
    <3>2. RuntimeKey(m) # << >>
      <4>1. RuntimeKey(m) = Endpoint(m.config, RuntimeString) BY <1>5, <2>1, KeyOfNode
      <4> QED BY <4>1 DEF Endpoint
    <3> QED BY <1>5, <2>1, <3>1, <3>2 DEF KeysApart, L
  <2>2. ASSUME NEW m \in L, NEW n \in L, Claims(m), Claims(n), m # n
        PROVE  m.config.portName # n.config.portName
    <3>1. RuntimeKey(m) = PortKey(m.config) /\ RuntimeKey(n) = PortKey(n.config) BY <1>5, <2>2, KeyOfNode DEF Claims
    <3>2. PortKey(m.config) # PortKey(n.config) BY <1>5, <2>2, <3>1 DEF KeysApart, L, Claims
    <3> QED BY <2>2, <3>2 DEF Claims, PortKey
  <2> QED BY <2>1, <2>2
<1>6. ASSUME \A n \in L : RuntimeNode(n), RemotesApart, PortsApart, NEW m \in L, NEW n \in L, m # n, RuntimeKey(m) # << >>
      PROVE  RuntimeKey(m) # RuntimeKey(n)
  <2>1. ASSUME m.type = "serial.remote" PROVE RuntimeKey(m) # RuntimeKey(n)
    <3>1. RuntimeKey(m) = Endpoint(m.config, RuntimeString) BY <1>6, <2>1, KeyOfNode
    <3>2. ASSUME n.type = "serial.remote" PROVE RuntimeKey(m) # RuntimeKey(n) BY <1>6, <2>1, <3>2, KeyOfNode
    <3>3. ASSUME IsPort(n) PROVE RuntimeKey(m) # RuntimeKey(n)
      <4>1. RuntimeKey(n) = PortKey(n.config) BY <1>6, <3>3, KeyOfNode
      <4>2. RuntimeKey(m)[1] = "remote" BY <3>1 DEF Endpoint
      <4>3. RuntimeKey(n) = << >> \/ RuntimeKey(n)[1] = "portName" BY <4>1, NameOfPort
      <4> QED BY <1>6, <4>2, <4>3
    <3>4. ASSUME n.type # "serial.remote", ~IsPort(n) PROVE RuntimeKey(m) # RuntimeKey(n) BY <1>6, <3>4, KeyOfNode
    <3> QED BY <3>2, <3>3, <3>4
  <2>2. ASSUME IsPort(m) PROVE RuntimeKey(m) # RuntimeKey(n)
    <3>1. RuntimeKey(m) = PortKey(m.config) /\ Claims(m) BY <1>6, <2>2, KeyOfNode DEF Claims
    <3>2. ASSUME n.type = "serial.remote" PROVE RuntimeKey(m) # RuntimeKey(n)
      <4>1. RuntimeKey(n) = Endpoint(n.config, RuntimeString) BY <1>6, <3>2, KeyOfNode
      <4>2. RuntimeKey(n)[1] = "remote" BY <4>1 DEF Endpoint
      <4>3. RuntimeKey(m) = << >> \/ RuntimeKey(m)[1] = "portName" BY <3>1, NameOfPort
      <4> QED BY <1>6, <4>2, <4>3
    <3>3. ASSUME IsPort(n) PROVE RuntimeKey(m) # RuntimeKey(n)
      <4>1. RuntimeKey(n) = PortKey(n.config) BY <1>6, <3>3, KeyOfNode
      <4>2. PortKey(m.config) = <<"portName", m.config.portName>> BY <3>1 DEF Claims, PortKey
      <4>3. CASE PortKey(n.config) = << >> BY <1>6, <4>1, <4>3
      <4>4. ASSUME PortKey(n.config) # << >> PROVE RuntimeKey(m) # RuntimeKey(n)
        <5>1. PortKey(n.config) = <<"portName", n.config.portName>> BY <4>4 DEF PortKey
        <5>2. m.config.portName # n.config.portName BY <1>6, <3>1, <3>3, <4>4 DEF Claims
        <5> QED BY <3>1, <4>1, <4>2, <5>1, <5>2
      <4> QED BY <4>3, <4>4
    <3>4. ASSUME n.type # "serial.remote", ~IsPort(n) PROVE RuntimeKey(m) # RuntimeKey(n) BY <1>6, <3>4, KeyOfNode
    <3> QED BY <3>2, <3>3, <3>4
  <2>3. ASSUME m.type # "serial.remote", ~IsPort(m) PROVE RuntimeKey(m) # RuntimeKey(n) BY <1>6, <2>3, KeyOfNode
  <2> QED BY <2>1, <2>2, <2>3
<1> HIDE DEF RemotesApart, PortsApart
<1>7. ASSUME \A n \in L : RuntimeNode(n) PROVE KeysApart(g.nodes) <=> RemotesApart /\ PortsApart
  BY <1>5, <1>6, <1>7 DEF KeysApart, L
<1> QED BY <1>1, <1>3, <1>4, <1>7 DEF L

-----------------------------------------------------------------------------
(* The edges of a graph that starts                                        *)

\* An edge between handles that are there
Joined(g, e) ==
    /\ e.source \in Known(g) /\ e.target \in Known(g) /\ e.source # e.target
    /\ e.out \in RuntimeProviders[NodeAt(g, e.source).type].outputs
    /\ e.in \in RuntimeProviders[NodeAt(g, e.target).type].inputs
Alone(g, e) == \A f \in Listed(g.edges) \ {e} : ~(f.target = e.target /\ f.in = e.in)
Counted(g) == {e \in Listed(g.edges) : ~IntoMaster(g, e)}

\* What it means that an edge has no errors, once its nodes are of known kinds
LEMMA ConnectionRight ==
    ASSUME NEW g, NEW S, g.nodes \in Seq(S), AllKnown(g), UniqueIds(g.edges), NEW e \in Listed(g.edges)
    PROVE  Connection(g, RuntimeProviders, e) = {} <=>
               Joined(g, e) /\ Alone(g, e) /\ (e \in Counted(g) => ~ClosesCycle(g, e))
<1>1. ASSUME NEW id \in Known(g) PROVE NodeAt(g, id).type \in DOMAIN RuntimeProviders
  BY NodeAtKnown, ProviderDomain DEF AllKnown
<1>2. (\E f \in Others(g, e) : f.target = e.target /\ f.in = e.in) <=> ~Alone(g, e)
  BY OtherEdges DEF Alone
<1>3. e \in Counted(g) <=> ~IntoMaster(g, e) BY DEF Counted
<1> QED BY <1>1, <1>2, <1>3 DEF Connection, When, Joined

\* What the search for a cycle answers, where the edges are joined
LEMMA ClosesCycleReach ==
    ASSUME NEW g, UniqueIds(g.edges), Within(Counted(g), Known(g)), NEW e \in Counted(g)
    PROVE  ClosesCycle(g, e) <=> Reach(Counted(g), Known(g), e.target, e.source)
<1> DEFINE C == Counted(g) \ {e}
           L == {f.source : f \in C} \cup {f.target : f \in C} \cup {e.source, e.target}
<1>1. {f \in Others(g, e) : ~IntoMaster(g, f)} = C BY OtherEdges DEF Counted
<1>2. ClosesCycle(g, e) <=> Reach(C, L, e.target, e.source)
  BY <1>1 DEF ClosesCycle, Reach, ClosedUnder
<1>3. L \subseteq Known(g) /\ Within(C, L) /\ e.target \in L BY DEF Within
<1> HIDE DEF L
<1>4. Reach(C, L, e.target, e.source) <=> Reach(C, Known(g), e.target, e.source) BY <1>3, ReachWithin
<1>5. Reach(C, Known(g), e.target, e.source) <=> Reach(Counted(g), Known(g), e.target, e.source)
  BY ReachWithout
<1> QED BY <1>2, <1>4, <1>5

\* No edge closes a cycle just when there is none.
LEMMA NoCycleClosed ==
    ASSUME NEW g, NEW S, g.nodes \in Seq(S), UniqueIds(g.edges), Within(Counted(g), Known(g))
    PROVE  (\A e \in Counted(g) : ~ClosesCycle(g, e)) <=> Acyclic(g)
<1> DEFINE C == Counted(g)
           K == Known(g)
<1>1. Acyclic(g) <=> \A T \in SUBSET K : T # {} => ~Fed(C, T) BY DEF Acyclic, Counted, Fed
<1>2. IsFiniteSet(K) BY KnownFinite
<1>3. \A e \in C : ClosesCycle(g, e) <=> Reach(C, K, e.target, e.source) BY ClosesCycleReach
<1> HIDE DEF C, K
<1>4. Within(C, K) BY DEF C, K
<1>5. ASSUME NEW e \in C, Reach(C, K, e.target, e.source) PROVE \E T \in SUBSET K : T # {} /\ Fed(C, T)
  BY <1>4, <1>5, CycleIsFed
<1>6. ASSUME NEW T \in SUBSET K, T # {}, Fed(C, T) PROVE \E e \in C : Reach(C, K, e.target, e.source)
  BY <1>2, <1>4, <1>6, FedIsCycle
<1> QED BY <1>1, <1>3, <1>5, <1>6 DEF C

\* Edges that are right one by one fit, and close no cycle.
LEMMA EdgesStart ==
    ASSUME NEW g, NEW S, g.nodes \in Seq(S), AllKnown(g), UniqueIds(g.nodes), UniqueIds(g.edges)
    PROVE  (\A e \in Listed(g.edges) : Connection(g, RuntimeProviders, e) = {}) <=>
               EdgesFit(g.nodes, Listed(g.edges)) /\ Acyclic(g)
<1> DEFINE L == Listed(g.edges)
           N == Listed(g.nodes)
           Ends(e) == e.source # e.target /\ \E m, n \in N :
               /\ m.id = e.source /\ e.out \in RuntimeProviders[m.type].outputs
               /\ n.id = e.target /\ e.in \in RuntimeProviders[n.type].inputs
<1>1. \A e \in L : Connection(g, RuntimeProviders, e) = {} <=>
          Joined(g, e) /\ Alone(g, e) /\ (e \in Counted(g) => ~ClosesCycle(g, e))
  BY ConnectionRight
<1>2. ASSUME NEW e \in L PROVE Joined(g, e) <=> Ends(e)
  <2>1. \A m \in N : m.id \in Known(g) /\ NodeAt(g, m.id) = m BY TheNode
  <2>2. \A id \in Known(g) : NodeAt(g, id) \in N /\ NodeAt(g, id).id = id BY TheNode
  <2> HIDE DEF N
  <2>3. ASSUME Joined(g, e) PROVE Ends(e) BY <2>2, <2>3 DEF Joined
  <2>4. ASSUME Ends(e) PROVE Joined(g, e) BY <2>1, <2>4 DEF Joined
  <2> QED BY <2>3, <2>4
<1>3. (\A e \in L : Alone(g, e)) <=> \A e, f \in L : e # f => <<e.target, e.in>> # <<f.target, f.in>>
  BY DEF Alone
<1>4. EdgesFit(g.nodes, L) <=> (\A e \in L : Ends(e)) /\ \A e, f \in L : e # f => <<e.target, e.in>> # <<f.target, f.in>>
  BY DEF EdgesFit
<1>5. Counted(g) \subseteq L BY DEF Counted
<1> HIDE DEF Ends, N
<1>6. ASSUME \A e \in L : Joined(g, e) PROVE (\A e \in Counted(g) : ~ClosesCycle(g, e)) <=> Acyclic(g)
  <2>1. Within(Counted(g), Known(g)) BY <1>5, <1>6 DEF Within, Joined
  <2> QED BY <2>1, NoCycleClosed
<1> HIDE DEF L
<1>7. (\A e \in L : Connection(g, RuntimeProviders, e) = {}) <=>
          (\A e \in L : Joined(g, e)) /\ (\A e \in L : Alone(g, e)) /\ \A e \in Counted(g) : ~ClosesCycle(g, e)
  BY <1>1, <1>5
<1>8. (\A e \in L : Joined(g, e)) <=> \A e \in L : Ends(e) BY <1>2
<1> QED BY <1>3, <1>4, <1>6, <1>7, <1>8 DEF L

\* The runtime refuses just what cannot be routed.
LEMMA Exact == graph \in Graph => StartsExactly
<1> SUFFICES ASSUME graph \in Graph PROVE StartsExactly OBVIOUS
<1> DEFINE g == StartRequest(graph)
<1>1. g.nodes \in Seq(NodeSpecs) /\ g.edges \in Seq(EdgeSpecs) BY RequestShape DEF StartRequest
<1> HIDE DEF g
<1> DEFINE Nodes == \A i \in DOMAIN g.nodes : RuntimeNode(g.nodes[i])
           Joins == \A i \in DOMAIN g.edges : Connection(g, RuntimeProviders, g.edges[i]) = {}
<1>2. RuntimeErrors(g) = {} <=>
          /\ \A i \in DOMAIN g.nodes : NamedOnce(g.nodes, i) /\ RuntimeNode(g.nodes[i])
          /\ RuntimeKeysApart(g)
          /\ \A i \in DOMAIN g.edges : EdgeRight(g, i)
  BY <1>1, StartedGraph
<1>3. (\A i \in DOMAIN g.nodes : NamedOnce(g.nodes, i)) <=> UniqueIds(g.nodes) BY <1>1, NamesUnique
<1>4. (\A i \in DOMAIN g.edges : NamedOnce(g.edges, i)) <=> UniqueIds(g.edges) BY <1>1, NamesUnique
<1>5. (\A i \in DOMAIN g.edges : EdgeRight(g, i)) <=> UniqueIds(g.edges) /\ Joins BY <1>4 DEF EdgeRight
<1>6. RuntimeErrors(g) = {} <=> UniqueIds(g.nodes) /\ UniqueIds(g.edges) /\ Nodes /\ RuntimeKeysApart(g) /\ Joins
  BY <1>2, <1>3, <1>5
<1>7. ASSUME UniqueIds(g.nodes) PROVE NodesFit(g.nodes) <=> Nodes /\ RuntimeKeysApart(g) BY <1>1, <1>7, NodesStart
<1>8. ASSUME UniqueIds(g.nodes), UniqueIds(g.edges), Nodes
      PROVE  Joins <=> EdgesFit(g.nodes, Listed(g.edges)) /\ Acyclic(g)
  <2>1. AllKnown(g)
    <3>1. DOMAIN g.nodes = 1 .. Len(g.nodes) BY <1>1
    <3> QED BY <1>8, <3>1 DEF AllKnown, RuntimeNode
  <2>2. Joins <=> \A e \in Listed(g.edges) : Connection(g, RuntimeProviders, e) = {} BY DEF Listed
  <2>3. (\A e \in Listed(g.edges) : Connection(g, RuntimeProviders, e) = {}) <=>
            EdgesFit(g.nodes, Listed(g.edges)) /\ Acyclic(g)
    BY <1>1, <1>8, <2>1, EdgesStart
  <2> QED BY <2>2, <2>3
<1> HIDE DEF Nodes, Joins
<1>9. RuntimeErrors(g) = {} <=>
          /\ UniqueIds(g.nodes) /\ UniqueIds(g.edges)
          /\ NodesFit(g.nodes) /\ EdgesFit(g.nodes, Listed(g.edges))
          /\ Acyclic(g)
  BY <1>6, <1>7, <1>8
<1> QED BY <1>9 DEF StartsExactly, g

\* A graph starts just when its ids are unique, its nodes and edges fit and
\* every directed cycle goes through a master.
THEOREM StartsExactlyAlways == ValidationSpec => []StartsExactly
<1>1. Requested => StartsExactly BY Exact DEF Requested
<1> QED BY <1>1, DrawnGraph, PTL
=============================================================================
