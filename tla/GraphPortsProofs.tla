-------------------------- MODULE GraphPortsProofs --------------------------
(***************************************************************************)
(* What the start of a graph acquired is given back when it fails, nothing *)
(* is orphaned and a graph that runs has its ports, for any nodes, any     *)
(* number of starts and any terminals.                                     *)
(***************************************************************************)
EXTENDS GraphPorts, SequenceTheorems, TLAPS

RtType ==
    [status : {"idle", "running", "error", "stopped"}, owned : Seq(Nat), ownedV : Seq(Nat),
     resource : SUBSET Nat, cancelData : BOOLEAN, cancelAuto : BOOLEAN]
StarterType == [pc : StarterStates, node : Nat, id : Nat]
StopperType == [pc : StopperStates, data : BOOLEAN, auto : BOOLEAN, vports : Seq(Nat), ports : Seq(Nat)]
TerminalType == [pc : TerminalStates, port : Ports \cup {IdleTerminal.port}, id : Nat]

GpType ==
    /\ \A h \in handles : h.id \in Nat /\ h.by \in Runtimes \cup Terminals
    /\ nextID \in Nat
    /\ pairs \subseteq [id : Nat, owner : Runtimes]
    /\ graph \in Runtimes \cup {None}
    /\ rt \in [Runtimes -> RtType]
    /\ starter \in [Runtimes -> StarterType]
    /\ stopper \in [Runtimes \X Callers -> StopperType]
    /\ terminal \in [Terminals -> TerminalType]

Stop(r, c) == stopper[<<r, c>>]

\* The runtime, a stop of it or its start knows of the handle.
Holds(r, id) ==
    \/ id \in Range(rt[r].owned)
    \/ \E c \in Callers : id \in Range(Stop(r, c).ports)
    \/ starter[r].pc \in {"bind", "own"} /\ starter[r].id = id

\* The same for the virtual port of a node
HoldsPair(r, i) ==
    \/ i \in Range(rt[r].ownedV)
    \/ \E c \in Callers : i \in Range(Stop(r, c).vports)
    \/ starter[r].pc \in {"open", "undo", "bind", "own", "ownV"} /\ starter[r].node = i

\* The lists of the runtime are empty.
Given(r) == rt[r].owned = << >> /\ rt[r].ownedV = << >> /\ ~rt[r].cancelData /\ ~rt[r].cancelAuto

\* Numbers of handles are not given twice.
NumbersInv ==
    /\ \A g, h \in handles : g.id = h.id => g = h
    /\ \A h \in handles : h.id <= nextID
    /\ \A r \in Runtimes, id \in Nat : Holds(r, id) => id <= nextID
    /\ \A t \in Terminals : terminal[t].id <= nextID

\* A handle is known to the runtime that opened it, and to no other, or to
\* the terminal that did.
HandlesInv ==
    /\ \A h \in handles : \A r \in Runtimes : h.by = r <=> Holds(r, h.id)
    /\ \A h \in handles : \A t \in Terminals :
        /\ h.by = t => terminal[t].id = h.id /\ terminal[t].pc \in {"buffer", "using"}
        /\ terminal[t].id = h.id /\ terminal[t].pc \in {"buffer", "using"} => h.port \in TerminalPorts
    /\ \A t \in Terminals : terminal[t].pc \in {"open", "again"} => terminal[t].port \in TerminalPorts
    /\ \A k \in Runtimes \X Callers :
        stopper[k].pc = "buffer" => stopper[k].ports # << >> /\ ~HasHandle(Head(stopper[k].ports))

\* A virtual port is known to the runtime that created it, unless the backend
\* refused to delete it.
PairsInv ==
    /\ \A p, q \in pairs : p.id = q.id => p = q
    /\ \A p \in pairs : IsVirtual(p.id) /\ (p \in stuck \/ HoldsPair(p.owner, p.id))
    /\ \A r \in Runtimes : starter[r].pc \in {"create", "undo", "ownV"} => IsVirtual(starter[r].node)

BusInv(r) ==
    /\ r \in bus => rt[r].cancelData \/ \E c \in Callers : Stop(r, c).pc = "cancel" /\ Stop(r, c).data
    /\ r \in senders => rt[r].cancelAuto \/ \E c \in Callers : Stop(r, c).pc \in {"cancel", "cancelAuto"} /\ Stop(r, c).auto

\* What a stop has in its hands, and where a start that failed stops itself
StopsInv(r) ==
    /\ \A c \in Callers :
        /\ Stop(r, c).pc \in {"idle", "enter", "done"} => Stop(r, c).ports = << >> /\ Stop(r, c).vports = << >>
        /\ Stop(r, c).pc \in {"close", "buffer"} => Stop(r, c).vports = << >>
    /\ starter[r].pc \in {"unmap", "stop", "failed"} /\ rt[r].status = "stopped" => Given(r)
    /\ Stop(r, "start").pc # "idle" => starter[r].pc \in {"stop", "failed"}
    /\ Stop(r, "start").pc \notin {"idle", "enter"} => rt[r].status = "stopped"
    /\ starter[r].pc = "failed" => Stop(r, "start").pc = "done"
    /\ Stop(r, "api").pc # "idle" => starter[r].pc # "new"
    /\ graph = r => Stop(r, "api").pc = "idle" /\ starter[r].pc \notin {"new", "stop", "failed"}
    /\ starter[r].pc \notin {"new", "stop", "failed"} /\ Stop(r, "api").pc = "idle" /\ shutdown = "idle" => graph = r

FailedInv == GpType /\ NumbersInv /\ HandlesInv /\ PairsInv /\ \A r \in Runtimes : BusInv(r) /\ StopsInv(r)

\* Without overlap a start, the stop that follows it and the shutdown take turns.
TurnsInv(r) ==
    /\ Stop(r, "api").pc # "idle" => starter[r].pc = "started"
    /\ starter[r].pc \notin {"new", "stop", "failed"} /\ Stop(r, "api").pc = "idle" => graph = r
    /\ starter[r].pc = "new" \/ Stop(r, "api").pc \notin {"idle", "enter"} => Given(r)
    /\ rt[r].status = "stopped" => starter[r].pc \in {"stop", "failed"} \/ Stop(r, "api").pc \notin {"idle", "enter"}
    /\ shutdown \notin {"idle", "done"} => starter[r].pc \in {"new", "started", "failed"}
    /\ shutdown \in {"close", "pairs"} => Stop(r, "api").pc \in {"idle", "done"}

AlsoQuiet == shutdown \notin {"idle", "done"} => graph = None /\ \A t \in Terminals : terminal[t].pc \in {"idle", "using"}

\* A virtual port that is known is there: it is in the lists once.
ListsInv(r) ==
    /\ \A i \in Range(rt[r].ownedV) : i < starter[r].node
    /\ IsInjective(rt[r].ownedV) /\ \A c \in Callers : IsInjective(Stop(r, c).vports)
    /\ \A i \in Nat : IsVirtual(i) /\ HoldsPair(r, i) => \E p \in pairs : p.id = i /\ p.owner = r

OwnedInv == FailedInv /\ AlsoQuiet /\ \A r \in Runtimes : TurnsInv(r) /\ ListsInv(r)

Working == {"node", "create", "open", "undo", "bind", "own", "ownV", "subscribe", "auto", "started"}

\* The port of node i is open, or is one that a terminal may have closed.
HasPort(r, i) ==
    Nodes[i].endpoint \in TerminalPorts \/ \E h \in handles : h.port = Nodes[i].endpoint /\ h.id \in Range(rt[r].owned)

\* How far the start is
RunsInv(r) ==
    /\ starter[r].pc \in {"new", "begin"} => starter[r].node = 1
    /\ graph = r /\ starter[r].pc \in Working =>
        /\ rt[r].status = "running"
        /\ starter[r].pc \in {"auto", "started"} => r \in bus
        /\ starter[r].pc \in {"subscribe", "auto", "started"} => starter[r].node > Len(Nodes)
        /\ \A i \in DOMAIN Nodes : i < starter[r].node => HasPort(r, i) /\ (IsVirtual(i) => i \in Range(rt[r].ownedV))
        /\ starter[r].pc \in {"bind", "own"} =>
            \/ Node(r).endpoint \in TerminalPorts
            \/ \E h \in handles : h.port = Node(r).endpoint /\ h.id = starter[r].id
        /\ starter[r].pc = "ownV" => HasPort(r, starter[r].node)

RunningInv == OwnedInv /\ \A r \in Runtimes : RunsInv(r)

\* The handle is there until its ring is, or was closed before.
RingInv ==
    /\ BufferHasHandle
    /\ \A t \in Terminals : terminal[t].pc = "buffer" =>
        terminal[t].id \in early \/ \E h \in handles : h.id = terminal[t].id /\ h.by = t

-----------------------------------------------------------------------------
(* What a step makes of the parts of the state                             *)

StarterNow(r, pc, node, id) ==
    /\ starter' \in [Runtimes -> StarterType]
    /\ starter'[r].pc = pc /\ starter'[r].node = node /\ starter'[r].id = id
    /\ \A q \in Runtimes : q # r => starter'[q] = starter[q]

RtNow(r, status, owned, ownedV, data, auto) ==
    /\ rt' \in [Runtimes -> RtType]
    /\ rt'[r].status = status /\ rt'[r].owned = owned /\ rt'[r].ownedV = ownedV
    /\ rt'[r].cancelData = data /\ rt'[r].cancelAuto = auto
    /\ \A q \in Runtimes : q # r => rt'[q] = rt[q]

StopNow(k, pc, data, auto, vports, held) ==
    /\ stopper' \in [Runtimes \X Callers -> StopperType]
    /\ stopper'[k].pc = pc /\ stopper'[k].data = data /\ stopper'[k].auto = auto
    /\ stopper'[k].vports = vports /\ stopper'[k].ports = held
    /\ \A j \in Runtimes \X Callers : j # k => stopper'[j] = stopper[j]

TerminalNow(t, pc, port, id) ==
    /\ terminal' \in [Terminals -> TerminalType]
    /\ terminal'[t].pc = pc /\ terminal'[t].port = port /\ terminal'[t].id = id
    /\ \A u \in Terminals : u # t => terminal'[u] = terminal[u]

LEMMA Fields ==
  ASSUME GpType
  PROVE  /\ \A r \in Runtimes : /\ rt[r] \in RtType /\ rt[r].owned \in Seq(Nat) /\ rt[r].ownedV \in Seq(Nat)
                                /\ rt[r].cancelData \in BOOLEAN /\ rt[r].cancelAuto \in BOOLEAN
                                /\ starter[r] \in StarterType /\ starter[r].pc \in StarterStates
                                /\ starter[r].node \in Nat /\ starter[r].id \in Nat
         /\ \A k \in Runtimes \X Callers : /\ stopper[k] \in StopperType /\ stopper[k].pc \in StopperStates
                                           /\ stopper[k].data \in BOOLEAN /\ stopper[k].auto \in BOOLEAN
                                           /\ stopper[k].vports \in Seq(Nat) /\ stopper[k].ports \in Seq(Nat)
         /\ \A t \in Terminals : terminal[t] \in TerminalType /\ terminal[t].pc \in TerminalStates /\ terminal[t].id \in Nat
BY DEF GpType, RtType, StarterType, StopperType, TerminalType

LEMMA StarterBecomes ==
  ASSUME GpType, NEW r \in Runtimes, NEW pc \in StarterStates
  PROVE  /\ GoTo(r, pc) => StarterNow(r, pc, starter[r].node, starter[r].id)
         /\ NextNode(r) => StarterNow(r, "node", starter[r].node + 1, starter[r].id)
         /\ \A i \in Nat : starter' = [starter EXCEPT ![r].pc = pc, ![r].id = i] => StarterNow(r, pc, starter[r].node, i)
<1>1. starter \in [Runtimes -> StarterType] /\ starter[r] \in StarterType
  BY DEF GpType
<1>2. GoTo(r, pc) => StarterNow(r, pc, starter[r].node, starter[r].id)
  BY <1>1 DEF GoTo, StarterNow, StarterType
<1>3. NextNode(r) => StarterNow(r, "node", starter[r].node + 1, starter[r].id)
  BY <1>1 DEF NextNode, StarterNow, StarterType, StarterStates
<1>4. \A i \in Nat : starter' = [starter EXCEPT ![r].pc = pc, ![r].id = i] => StarterNow(r, pc, starter[r].node, i)
  <2> SUFFICES ASSUME NEW i \in Nat, starter' = [starter EXCEPT ![r].pc = pc, ![r].id = i]
               PROVE  StarterNow(r, pc, starter[r].node, i)
    OBVIOUS
  <2>1. starter' \in [Runtimes -> StarterType]
    BY <1>1 DEF StarterType
  <2>2. starter'[r].pc = pc /\ starter'[r].node = starter[r].node /\ starter'[r].id = i
    BY <1>1 DEF StarterType
  <2>3. \A q \in Runtimes : q # r => starter'[q] = starter[q]
    BY <1>1
  <2>4. QED
    BY <2>1, <2>2, <2>3 DEF StarterNow
<1>5. QED
  BY <1>2, <1>3, <1>4

LEMMA RtBecomes ==
  ASSUME GpType, NEW r \in Runtimes
  PROVE  LET Now(status, owned, ownedV, data, auto) == RtNow(r, status, owned, ownedV, data, auto) IN
         /\ rt' = rt => Now(rt[r].status, rt[r].owned, rt[r].ownedV, rt[r].cancelData, rt[r].cancelAuto)
         /\ \A s \in {"running", "error"} : rt' = [rt EXCEPT ![r].status = s] =>
                Now(s, rt[r].owned, rt[r].ownedV, rt[r].cancelData, rt[r].cancelAuto)
         /\ \A i \in Nat : rt' = [rt EXCEPT ![r].resource = @ \cup {i}] =>
                Now(rt[r].status, rt[r].owned, rt[r].ownedV, rt[r].cancelData, rt[r].cancelAuto)
         /\ \A i \in Nat : rt' = [rt EXCEPT ![r].owned = Append(@, i)] =>
                Now(rt[r].status, Append(rt[r].owned, i), rt[r].ownedV, rt[r].cancelData, rt[r].cancelAuto)
         /\ \A i \in Nat : rt' = [rt EXCEPT ![r].ownedV = Append(@, i)] =>
                Now(rt[r].status, rt[r].owned, Append(rt[r].ownedV, i), rt[r].cancelData, rt[r].cancelAuto)
         /\ rt' = [rt EXCEPT ![r].cancelData = TRUE] =>
                Now(rt[r].status, rt[r].owned, rt[r].ownedV, TRUE, rt[r].cancelAuto)
         /\ rt' = [rt EXCEPT ![r].cancelAuto = TRUE] =>
                Now(rt[r].status, rt[r].owned, rt[r].ownedV, rt[r].cancelData, TRUE)
         /\ rt' = [rt EXCEPT ![r] = [NewRuntime EXCEPT !.status = "stopped", !.resource = rt[r].resource]] =>
                Now("stopped", << >>, << >>, FALSE, FALSE)
<1>1. rt \in [Runtimes -> RtType] /\ rt[r] \in RtType /\ rt[r].owned \in Seq(Nat) /\ rt[r].ownedV \in Seq(Nat)
  BY Fields DEF GpType
<1>2. \A i \in Nat : Append(rt[r].owned, i) \in Seq(Nat) /\ Append(rt[r].ownedV, i) \in Seq(Nat)
  BY <1>1, AppendProperties
<1>3. rt' = rt => RtNow(r, rt[r].status, rt[r].owned, rt[r].ownedV, rt[r].cancelData, rt[r].cancelAuto)
  BY <1>1 DEF RtNow
<1>4. ASSUME NEW s \in {"running", "error"}, rt' = [rt EXCEPT ![r].status = s]
      PROVE  RtNow(r, s, rt[r].owned, rt[r].ownedV, rt[r].cancelData, rt[r].cancelAuto)
  BY <1>1, <1>4 DEF RtNow, RtType
<1>5. ASSUME NEW i \in Nat, rt' = [rt EXCEPT ![r].resource = @ \cup {i}]
      PROVE  RtNow(r, rt[r].status, rt[r].owned, rt[r].ownedV, rt[r].cancelData, rt[r].cancelAuto)
  BY <1>1, <1>5 DEF RtNow, RtType
<1>6. ASSUME NEW i \in Nat, rt' = [rt EXCEPT ![r].owned = Append(@, i)]
      PROVE  RtNow(r, rt[r].status, Append(rt[r].owned, i), rt[r].ownedV, rt[r].cancelData, rt[r].cancelAuto)
  <2> DEFINE s == Append(rt[r].owned, i)
  <2>1. s \in Seq(Nat) /\ rt' = [rt EXCEPT ![r].owned = s]
    BY <1>2, <1>6
  <2> HIDE DEF s
  <2>2. RtNow(r, rt[r].status, s, rt[r].ownedV, rt[r].cancelData, rt[r].cancelAuto)
    BY <1>1, <2>1 DEF RtNow, RtType
  <2>3. QED
    BY <2>2 DEF s
<1>7. ASSUME NEW i \in Nat, rt' = [rt EXCEPT ![r].ownedV = Append(@, i)]
      PROVE  RtNow(r, rt[r].status, rt[r].owned, Append(rt[r].ownedV, i), rt[r].cancelData, rt[r].cancelAuto)
  <2> DEFINE s == Append(rt[r].ownedV, i)
  <2>1. s \in Seq(Nat) /\ rt' = [rt EXCEPT ![r].ownedV = s]
    BY <1>2, <1>7
  <2> HIDE DEF s
  <2>2. RtNow(r, rt[r].status, rt[r].owned, s, rt[r].cancelData, rt[r].cancelAuto)
    BY <1>1, <2>1 DEF RtNow, RtType
  <2>3. QED
    BY <2>2 DEF s
<1>8. ASSUME rt' = [rt EXCEPT ![r].cancelData = TRUE]
      PROVE  RtNow(r, rt[r].status, rt[r].owned, rt[r].ownedV, TRUE, rt[r].cancelAuto)
  BY <1>1, <1>8 DEF RtNow, RtType
<1>9. ASSUME rt' = [rt EXCEPT ![r].cancelAuto = TRUE]
      PROVE  RtNow(r, rt[r].status, rt[r].owned, rt[r].ownedV, rt[r].cancelData, TRUE)
  BY <1>1, <1>9 DEF RtNow, RtType
<1>10. ASSUME rt' = [rt EXCEPT ![r] = [NewRuntime EXCEPT !.status = "stopped", !.resource = rt[r].resource]]
       PROVE  RtNow(r, "stopped", << >>, << >>, FALSE, FALSE)
  <2> DEFINE new == [NewRuntime EXCEPT !.status = "stopped", !.resource = rt[r].resource]
  <2>0. << >> \in Seq(Nat) /\ rt[r].resource \in SUBSET Nat
    BY <1>1 DEF RtType
  <2> DEFINE e == << >>
  <2>e. e \in Seq(Nat) /\ NewRuntime = [status |-> "idle", owned |-> e, ownedV |-> e, resource |-> {}, cancelData |-> FALSE, cancelAuto |-> FALSE]
    BY <2>0 DEF NewRuntime
  <2> HIDE DEF e
  <2>t. NewRuntime \in RtType
    BY <2>e DEF RtType
  <2>1. /\ new \in RtType /\ new.status = "stopped" /\ new.owned = e /\ new.ownedV = e
        /\ new.cancelData = FALSE /\ new.cancelAuto = FALSE
    BY <2>0, <2>e, <2>t DEF RtType
  <2>x. rt' = [rt EXCEPT ![r] = new]
    BY <1>10
  <2> HIDE DEF new
  <2>3. rt'[r] = new /\ rt' \in [Runtimes -> RtType] /\ \A q \in Runtimes : q # r => rt'[q] = rt[q]
    BY <1>1, <2>x, <2>1
  <2>4. QED
    BY <2>1, <2>3 DEF RtNow, e
<1>11. QED
  BY <1>3, <1>4, <1>5, <1>6, <1>7, <1>8, <1>9, <1>10

\* A list becomes shorter at its head.
LEMMA TailIs ==
  ASSUME NEW s \in Seq(Nat), s # << >>
  PROVE  /\ Tail(s) \in Seq(Nat) /\ Head(s) \in Nat /\ Head(s) \in Range(s)
         /\ \A x : x \in Range(s) <=> x = Head(s) \/ x \in Range(Tail(s))
         /\ IsInjective(s) => IsInjective(Tail(s)) /\ Head(s) \notin Range(Tail(s))
<1>1. /\ Len(s) \in Nat \ {0} /\ DOMAIN s = 1 .. Len(s) /\ Head(s) = s[1]
      /\ Tail(s) \in Seq(Nat) /\ Len(Tail(s)) = Len(s) - 1 /\ DOMAIN Tail(s) = 1 .. Len(s) - 1
      /\ \A i \in 1 .. Len(s) - 1 : Tail(s)[i] = s[i + 1]
  BY HeadTailProperties, EmptySeq, LenProperties
<1>2. ASSUME NEW x, x \in Range(s) PROVE x = Head(s) \/ x \in Range(Tail(s))
  <2>1. PICK i \in 1 .. Len(s) : x = s[i]
    BY <1>1, <1>2 DEF Range
  <2>2. i # 1 => i - 1 \in 1 .. Len(s) - 1 /\ Tail(s)[i - 1] = s[i]
    BY <1>1, <2>1
  <2>3. QED
    BY <1>1, <2>1, <2>2 DEF Range
<1>3. ASSUME NEW x, x = Head(s) \/ x \in Range(Tail(s)) PROVE x \in Range(s)
  <2>1. CASE x = Head(s)
    BY <1>1, <2>1 DEF Range
  <2>2. CASE x \in Range(Tail(s))
    <3>1. PICK i \in 1 .. Len(s) - 1 : x = Tail(s)[i]
      BY <1>1, <2>2 DEF Range
    <3>2. i + 1 \in 1 .. Len(s) /\ x = s[i + 1]
      BY <1>1, <3>1
    <3>3. QED
      BY <1>1, <3>2 DEF Range
  <2>3. QED
    BY <1>3, <2>1, <2>2
<1>4. ASSUME IsInjective(s) PROVE IsInjective(Tail(s)) /\ Head(s) \notin Range(Tail(s))
  <2>1. \A i, j \in 1 .. Len(s) : s[i] = s[j] => i = j
    BY <1>1, <1>4 DEF IsInjective
  <2>2. ASSUME NEW i \in 1 .. Len(s) - 1, NEW j \in 1 .. Len(s) - 1, Tail(s)[i] = Tail(s)[j] PROVE i = j
    <3>1. i + 1 \in 1 .. Len(s) /\ j + 1 \in 1 .. Len(s) /\ s[i + 1] = s[j + 1]
      BY <1>1, <2>2
    <3>2. i + 1 = j + 1
      BY <2>1, <3>1
    <3>3. QED
      BY <3>2
  <2>3. ASSUME NEW i \in 1 .. Len(s) - 1, Tail(s)[i] = Head(s) PROVE FALSE
    <3>1. i + 1 \in 1 .. Len(s) /\ 1 \in 1 .. Len(s) /\ s[i + 1] = s[1]
      BY <1>1, <2>3
    <3>2. i + 1 = 1
      BY <2>1, <3>1
    <3>3. QED
      BY <3>2
  <2>4. QED
    BY <1>1, <2>2, <2>3 DEF IsInjective, Range
<1>5. QED
  BY <1>1, <1>2, <1>3, <1>4

\* A list becomes longer at its end.
LEMMA AppendIs ==
  ASSUME NEW s \in Seq(Nat), NEW n \in Nat
  PROVE  /\ \A x : x \in Range(Append(s, n)) <=> x = n \/ x \in Range(s)
         /\ IsInjective(s) /\ n \notin Range(s) => IsInjective(Append(s, n))
<1> DEFINE a == Append(s, n)
<1>1. /\ Len(s) \in Nat /\ DOMAIN s = 1 .. Len(s) /\ DOMAIN a = 1 .. Len(s) + 1
      /\ a[Len(s) + 1] = n /\ \A i \in 1 .. Len(s) : a[i] = s[i]
  BY AppendProperties, LenProperties
<1> HIDE DEF a
<1>2. ASSUME NEW x PROVE x \in Range(a) <=> x = n \/ x \in Range(s)
  <2>1. ASSUME x \in Range(a) PROVE x = n \/ x \in Range(s)
    <3>1. PICK i \in 1 .. Len(s) + 1 : x = a[i]
      BY <1>1, <2>1 DEF Range
    <3>2. i \in 1 .. Len(s) \/ i = Len(s) + 1
      BY <1>1
    <3>3. QED
      BY <1>1, <3>1, <3>2 DEF Range
  <2>2. ASSUME x \in Range(s) PROVE x \in Range(a)
    <3>1. PICK i \in 1 .. Len(s) : x = s[i]
      BY <1>1, <2>2 DEF Range
    <3>2. i \in 1 .. Len(s) + 1 /\ x = a[i]
      BY <1>1, <3>1
    <3>3. QED
      BY <1>1, <3>2 DEF Range
  <2>3. n \in Range(a)
    <3>1. Len(s) + 1 \in 1 .. Len(s) + 1
      BY <1>1
    <3>2. QED
      BY <1>1, <3>1 DEF Range
  <2>4. QED
    BY <2>1, <2>2, <2>3
<1>3. ASSUME IsInjective(s), n \notin Range(s) PROVE IsInjective(a)
  <2>1. \A i \in 1 .. Len(s) : s[i] # n
    BY <1>1, <1>3 DEF Range
  <2>2. ASSUME NEW i \in 1 .. Len(s) + 1, NEW j \in 1 .. Len(s) + 1, a[i] = a[j] PROVE i = j
    <3>1. (i \in 1 .. Len(s) \/ i = Len(s) + 1) /\ (j \in 1 .. Len(s) \/ j = Len(s) + 1)
      BY <1>1
    <3>2. QED
      BY <1>1, <1>3, <2>1, <2>2, <3>1 DEF IsInjective
  <2>3. QED
    BY <1>1, <2>2 DEF IsInjective
<1>4. QED
  BY <1>2, <1>3 DEF a

LEMMA EmptyIs == (\A x : x \notin Range(<< >>)) /\ IsInjective(<< >>) /\ << >> \in Seq(Nat)
BY DEF Range, IsInjective

LEMMA StopBecomes ==
  ASSUME GpType, NEW k \in Runtimes \X Callers
  PROVE  LET Now(pc, data, auto, vports, held) == StopNow(k, pc, data, auto, vports, held)
             S == stopper[k] IN
         /\ \A pc \in StopperStates : stopper' = [stopper EXCEPT ![k].pc = pc] => Now(pc, S.data, S.auto, S.vports, S.ports)
         /\ \A pc \in StopperStates : stopper' = [stopper EXCEPT ![k].pc = pc, ![k].data = FALSE] =>
                Now(pc, FALSE, S.auto, S.vports, S.ports)
         /\ \A pc \in StopperStates : stopper' = [stopper EXCEPT ![k].pc = pc, ![k].auto = FALSE] =>
                Now(pc, S.data, FALSE, S.vports, S.ports)
         /\ \A pc \in StopperStates, data \in BOOLEAN, auto \in BOOLEAN, vports \in Seq(Nat), held \in Seq(Nat) :
                stopper' = [stopper EXCEPT ![k] = [pc |-> pc, data |-> data, auto |-> auto, vports |-> vports, ports |-> held]] =>
                Now(pc, data, auto, vports, held)
         /\ \A s \in Seq(Nat) : stopper' = [stopper EXCEPT ![k].vports = s] => Now(S.pc, S.data, S.auto, s, S.ports)
         /\ \A s \in Seq(Nat) : stopper' = [stopper EXCEPT ![k].ports = s] => Now(S.pc, S.data, S.auto, S.vports, s)
         /\ \A pc \in StopperStates, s \in Seq(Nat) :
                stopper' = [stopper EXCEPT ![k].pc = pc, ![k].ports = s] => Now(pc, S.data, S.auto, S.vports, s)
<1>1. stopper \in [Runtimes \X Callers -> StopperType] /\ stopper[k] \in StopperType
  BY DEF GpType
<1>2. ASSUME NEW pc \in StopperStates, NEW data \in BOOLEAN, NEW auto \in BOOLEAN, NEW vports \in Seq(Nat), NEW held \in Seq(Nat),
             stopper' = [stopper EXCEPT ![k] = [pc |-> pc, data |-> data, auto |-> auto, vports |-> vports, ports |-> held]]
      PROVE  StopNow(k, pc, data, auto, vports, held)
  BY <1>1, <1>2 DEF StopNow, StopperType
<1>3. ASSUME NEW pc \in StopperStates, stopper' = [stopper EXCEPT ![k].pc = pc]
      PROVE  StopNow(k, pc, stopper[k].data, stopper[k].auto, stopper[k].vports, stopper[k].ports)
  BY <1>1, <1>3 DEF StopNow, StopperType
<1>4. ASSUME NEW pc \in StopperStates, stopper' = [stopper EXCEPT ![k].pc = pc, ![k].data = FALSE]
      PROVE  StopNow(k, pc, FALSE, stopper[k].auto, stopper[k].vports, stopper[k].ports)
  BY <1>1, <1>4 DEF StopNow, StopperType
<1>5. ASSUME NEW pc \in StopperStates, stopper' = [stopper EXCEPT ![k].pc = pc, ![k].auto = FALSE]
      PROVE  StopNow(k, pc, stopper[k].data, FALSE, stopper[k].vports, stopper[k].ports)
  BY <1>1, <1>5 DEF StopNow, StopperType
<1>6. ASSUME NEW s \in Seq(Nat), stopper' = [stopper EXCEPT ![k].vports = s]
      PROVE  StopNow(k, stopper[k].pc, stopper[k].data, stopper[k].auto, s, stopper[k].ports)
  BY <1>1, <1>6 DEF StopNow, StopperType
<1>7. ASSUME NEW s \in Seq(Nat), stopper' = [stopper EXCEPT ![k].ports = s]
      PROVE  StopNow(k, stopper[k].pc, stopper[k].data, stopper[k].auto, stopper[k].vports, s)
  BY <1>1, <1>7 DEF StopNow, StopperType
<1>8. ASSUME NEW pc \in StopperStates, NEW s \in Seq(Nat), stopper' = [stopper EXCEPT ![k].pc = pc, ![k].ports = s]
      PROVE  StopNow(k, pc, stopper[k].data, stopper[k].auto, stopper[k].vports, s)
  BY <1>1, <1>8 DEF StopNow, StopperType
<1>9. QED
  BY <1>2, <1>3, <1>4, <1>5, <1>6, <1>7, <1>8

LEMMA TerminalBecomes ==
  ASSUME GpType, NEW t \in Terminals
  PROVE  /\ \A h : h.port \in Ports /\ h.id \in Nat /\ Use(t, h) => TerminalNow(t, "using", h.port, h.id)
         /\ \A p \in Ports : terminal' = [terminal EXCEPT ![t].pc = "open", ![t].port = p] =>
                TerminalNow(t, "open", p, terminal[t].id)
         /\ \A i \in Nat : terminal' = [terminal EXCEPT ![t].pc = "buffer", ![t].id = i] =>
                TerminalNow(t, "buffer", terminal[t].port, i)
         /\ \A pc \in TerminalStates : terminal' = [terminal EXCEPT ![t].pc = pc] =>
                TerminalNow(t, pc, terminal[t].port, terminal[t].id)
         /\ terminal' = [terminal EXCEPT ![t] = IdleTerminal] => TerminalNow(t, "idle", IdleTerminal.port, 0)
<1>1. terminal \in [Terminals -> TerminalType] /\ terminal[t] \in TerminalType
  BY DEF GpType
<1>2. ASSUME NEW h, h.port \in Ports, h.id \in Nat, Use(t, h) PROVE TerminalNow(t, "using", h.port, h.id)
  BY <1>1, <1>2 DEF Use, TerminalNow, TerminalType, TerminalStates
<1>3. ASSUME NEW p \in Ports, terminal' = [terminal EXCEPT ![t].pc = "open", ![t].port = p]
      PROVE  TerminalNow(t, "open", p, terminal[t].id)
  BY <1>1, <1>3 DEF TerminalNow, TerminalType, TerminalStates
<1>4. ASSUME NEW i \in Nat, terminal' = [terminal EXCEPT ![t].pc = "buffer", ![t].id = i]
      PROVE  TerminalNow(t, "buffer", terminal[t].port, i)
  BY <1>1, <1>4 DEF TerminalNow, TerminalType, TerminalStates
<1>5. ASSUME NEW pc \in TerminalStates, terminal' = [terminal EXCEPT ![t].pc = pc]
      PROVE  TerminalNow(t, pc, terminal[t].port, terminal[t].id)
  BY <1>1, <1>5 DEF TerminalNow, TerminalType
<1>6. terminal' = [terminal EXCEPT ![t] = IdleTerminal] => TerminalNow(t, "idle", IdleTerminal.port, 0)
  <2>1. IdleTerminal = [pc |-> "idle", port |-> IdleTerminal.port, id |-> 0]
    BY DEF IdleTerminal
  <2> DEFINE p == IdleTerminal.port
  <2>2. IdleTerminal = [pc |-> "idle", port |-> p, id |-> 0] /\ TerminalType = [pc : TerminalStates, port : Ports \cup {p}, id : Nat]
    BY <2>1 DEF TerminalType
  <2> HIDE DEF p
  <2>3. terminal' = [terminal EXCEPT ![t] = [pc |-> "idle", port |-> p, id |-> 0]] => TerminalNow(t, "idle", p, 0)
    BY <1>1, <2>2 DEF TerminalNow, TerminalStates
  <2>4. QED
    BY <2>2, <2>3 DEF p
<1>7. QED
  BY <1>2, <1>3, <1>4, <1>5, <1>6

\* Where the start of a graph only moves on
Way(r, pc, status) ==
    \/ starter[r].pc = "begin" /\ pc = "node" /\ status = "running"
    \/ starter[r].pc = "error" /\ pc = "unmap" /\ status = "error"
    \/ /\ status = rt[r].status
       /\ \/ /\ starter[r].pc = "node" /\ starter[r].node <= Len(Nodes)
             /\ pc = IF IsVirtual(starter[r].node) THEN "create" ELSE "open"
          \/ starter[r].pc \in {"node", "create", "auto"} /\ pc = "error"
          \/ starter[r].pc = "node" /\ starter[r].node > Len(Nodes) /\ pc = "subscribe"
          \/ starter[r].pc = "open" /\ pc = IF IsVirtual(starter[r].node) THEN "undo" ELSE "error"
          \/ starter[r].pc = "bind" /\ pc = "own"
          \/ starter[r].pc = "auto" /\ pc = "started"
          \/ starter[r].pc = "stop" /\ Stop(r, "start").pc = "done" /\ pc = "failed"

SameLists(r, status) == RtNow(r, status, rt[r].owned, rt[r].ownedV, rt[r].cancelData, rt[r].cancelAuto)

Moves(r) ==
    /\ \E pc \in StarterStates, status \in {"idle", "running", "error", "stopped"} :
        /\ Way(r, pc, status)
        /\ StarterNow(r, pc, starter[r].node, starter[r].id)
        /\ SameLists(r, status)
    /\ UNCHANGED <<ports, graph, bus, senders, stopper, terminal, shutdown>>

\* startAutoSenders, with a node that sends
Sends(r) ==
    /\ At(r, "auto")
    /\ StarterNow(r, "started", starter[r].node, starter[r].id)
    /\ RtNow(r, rt[r].status, rt[r].owned, rt[r].ownedV, rt[r].cancelData, TRUE)
    /\ senders' = senders \cup {r}
    /\ UNCHANGED <<ports, graph, bus, stopper, terminal, shutdown>>

Acquires(r) ==
    \/ CreateVirtual(r) \/ OpenNode(r) \/ UndoVirtual(r) \/ OwnPort(r) \/ OwnVirtual(r)
    \/ Subscribe(r) \/ Sends(r) \/ Unmap(r)

LEMMA MoveIs ==
  ASSUME GpType, NEW r \in Runtimes, NEW pc \in StarterStates, NEW status \in {"idle", "running", "error", "stopped"},
         Way(r, pc, status), GoTo(r, pc), SameLists(r, status),
         UNCHANGED <<ports, graph, bus, senders, stopper, terminal, shutdown>>
  PROVE  Moves(r)
BY StarterBecomes DEF Moves

LEMMA StartCases ==
  ASSUME GpType, NEW r \in Runtimes, StartStep(r)
  PROVE  Moves(r) \/ Acquires(r)
<1>t. rt[r].status \in {"idle", "running", "error", "stopped"} /\ (rt' = rt => SameLists(r, rt[r].status))
  BY Fields, RtBecomes DEF RtType, SameLists
<1>1. CASE Begin(r)
  <2>1. Way(r, "node", "running") /\ GoTo(r, "node") /\ SameLists(r, "running")
    BY <1>1, RtBecomes DEF Begin, Way, At, SameLists
  <2>2. QED
    BY <1>1, <2>1, MoveIs DEF Begin, StarterStates
<1>2. CASE CheckNode(r)
  <2> DEFINE pc == IF IsVirtual(starter[r].node) THEN "create" ELSE "open"
  <2>1. Way(r, pc, rt[r].status) /\ GoTo(r, pc) /\ SameLists(r, rt[r].status) /\ pc \in StarterStates
    BY <1>t, <1>2 DEF CheckNode, Way, At, StarterStates
  <2>2. UNCHANGED <<ports, graph, bus, senders, stopper, terminal, shutdown>>
    BY <1>2 DEF CheckNode
  <2> HIDE DEF pc
  <2>3. QED
    BY <1>t, <2>1, <2>2, MoveIs
<1>3. CASE RefuseNode(r) \/ CreateVirtualFails(r) \/ StartAutoSendersFails(r)
  <2>1. Way(r, "error", rt[r].status) /\ GoTo(r, "error") /\ SameLists(r, rt[r].status)
    BY <1>t, <1>3 DEF RefuseNode, CreateVirtualFails, StartAutoSendersFails, Way, At
  <2>2. UNCHANGED <<ports, graph, bus, senders, stopper, terminal, shutdown>>
    BY <1>3 DEF RefuseNode, CreateVirtualFails, StartAutoSendersFails
  <2>3. QED
    BY <1>t, <2>1, <2>2, MoveIs DEF StarterStates
<1>4. CASE OpenNodeFails(r)
  <2> DEFINE pc == IF IsVirtual(starter[r].node) THEN "undo" ELSE "error"
  <2>1. Way(r, pc, rt[r].status) /\ GoTo(r, pc) /\ SameLists(r, rt[r].status) /\ pc \in StarterStates
    BY <1>t, <1>4 DEF OpenNodeFails, Way, At, StarterStates
  <2>2. UNCHANGED <<ports, graph, bus, senders, stopper, terminal, shutdown>>
    BY <1>4 DEF OpenNodeFails
  <2> HIDE DEF pc
  <2>3. QED
    BY <1>t, <2>1, <2>2, MoveIs
<1>5. CASE BindNode(r)
  <2>1. Way(r, "own", rt[r].status) /\ GoTo(r, "own") /\ SameLists(r, rt[r].status)
    BY <1>5, Fields, RtBecomes DEF BindNode, Way, At, SameLists
  <2>2. QED
    BY <1>t, <1>5, <2>1, MoveIs DEF BindNode, StarterStates
<1>6. CASE NodesStarted(r)
  <2>1. Way(r, "subscribe", rt[r].status) /\ GoTo(r, "subscribe") /\ SameLists(r, rt[r].status)
    BY <1>t, <1>6 DEF NodesStarted, Way, At
  <2>2. QED
    BY <1>t, <1>6, <2>1, MoveIs DEF NodesStarted, StarterStates
<1>7. CASE StartAutoSenders(r)
  <2>1. CASE UNCHANGED <<rt, senders>>
    <3>1. Way(r, "started", rt[r].status) /\ GoTo(r, "started") /\ SameLists(r, rt[r].status)
      BY <1>t, <1>7, <2>1 DEF StartAutoSenders, Way, At
    <3>2. QED
      BY <1>t, <1>7, <2>1, <3>1, MoveIs DEF StartAutoSenders, StarterStates
  <2>2. CASE rt' = [rt EXCEPT ![r].cancelAuto = TRUE] /\ senders' = senders \cup {r}
    <3>1. StarterNow(r, "started", starter[r].node, starter[r].id)
      BY <1>7, StarterBecomes DEF StartAutoSenders, StarterStates
    <3>2. RtNow(r, rt[r].status, rt[r].owned, rt[r].ownedV, rt[r].cancelData, TRUE)
      BY <2>2, RtBecomes
    <3>3. QED
      BY <1>7, <2>2, <3>1, <3>2 DEF StartAutoSenders, Acquires, Sends
  <2>3. QED
    BY <1>7, <2>1, <2>2 DEF StartAutoSenders
<1>8. CASE SetError(r)
  <2>1. Way(r, "unmap", "error") /\ GoTo(r, "unmap") /\ SameLists(r, "error")
    BY <1>8, RtBecomes DEF SetError, Way, At, SameLists
  <2>2. QED
    BY <1>8, <2>1, MoveIs DEF SetError, StarterStates
<1>9. CASE StartFailed(r)
  <2>1. Way(r, "failed", rt[r].status) /\ GoTo(r, "failed") /\ SameLists(r, rt[r].status)
    BY <1>t, <1>9 DEF StartFailed, Way, At, Stop
  <2>2. QED
    BY <1>t, <1>9, <2>1, MoveIs DEF StartFailed, StarterStates
<1>10. QED
  BY <1>1, <1>2, <1>3, <1>4, <1>5, <1>6, <1>7, <1>8, <1>9 DEF StartStep, Acquires

\* The other steps of a start, and its call
LEMMA StartIs ==
  ASSUME GpType, NEW r \in Runtimes
  PROVE  LET s == starter[r] IN
         /\ CreateVirtual(r) => StarterNow(r, "open", s.node, s.id)
         /\ OpenNode(r) => StarterNow(r, "bind", s.node, nextID + 1)
         /\ UndoVirtual(r) => StarterNow(r, "error", s.node, s.id)
         /\ OwnPort(r) => /\ IF IsVirtual(s.node) THEN StarterNow(r, "ownV", s.node, s.id)
                             ELSE StarterNow(r, "node", s.node + 1, s.id)
                          /\ RtNow(r, rt[r].status, Append(rt[r].owned, s.id), rt[r].ownedV, rt[r].cancelData, rt[r].cancelAuto)
         /\ OwnVirtual(r) => /\ StarterNow(r, "node", s.node + 1, s.id)
                             /\ RtNow(r, rt[r].status, rt[r].owned, Append(rt[r].ownedV, s.node), rt[r].cancelData, rt[r].cancelAuto)
         /\ Subscribe(r) => /\ StarterNow(r, "auto", s.node, s.id)
                            /\ RtNow(r, rt[r].status, rt[r].owned, rt[r].ownedV, TRUE, rt[r].cancelAuto)
         /\ Unmap(r) => /\ StarterNow(r, "stop", s.node, s.id)
                        /\ StopNow(<<r, "start">>, "enter", Stop(r, "start").data, Stop(r, "start").auto,
                                   Stop(r, "start").vports, Stop(r, "start").ports)
         /\ StartSerialGraph(r) => StarterNow(r, "begin", s.node, s.id)
<1>f. starter[r].node \in Nat /\ starter[r].id \in Nat /\ nextID + 1 \in Nat /\ <<r, "start">> \in Runtimes \X Callers
  BY Fields DEF GpType, Callers
<1>1. CreateVirtual(r) => StarterNow(r, "open", starter[r].node, starter[r].id)
  BY StarterBecomes DEF CreateVirtual, StarterStates
<1>2. OpenNode(r) => StarterNow(r, "bind", starter[r].node, nextID + 1)
  BY <1>f, StarterBecomes DEF OpenNode, StarterStates
<1>3. UndoVirtual(r) => StarterNow(r, "error", starter[r].node, starter[r].id)
  BY StarterBecomes DEF UndoVirtual, StarterStates
<1>4. ASSUME OwnPort(r)
      PROVE  /\ IF IsVirtual(starter[r].node) THEN StarterNow(r, "ownV", starter[r].node, starter[r].id)
                ELSE StarterNow(r, "node", starter[r].node + 1, starter[r].id)
             /\ RtNow(r, rt[r].status, Append(rt[r].owned, starter[r].id), rt[r].ownedV, rt[r].cancelData, rt[r].cancelAuto)
  <2>1. rt' = [rt EXCEPT ![r].owned = Append(@, starter[r].id)]
    BY <1>4 DEF OwnPort
  <2>2. RtNow(r, rt[r].status, Append(rt[r].owned, starter[r].id), rt[r].ownedV, rt[r].cancelData, rt[r].cancelAuto)
    BY <1>f, <2>1, RtBecomes
  <2>3. QED
    BY <1>4, <2>2, StarterBecomes DEF OwnPort, StarterStates
<1>5. ASSUME OwnVirtual(r)
      PROVE  /\ StarterNow(r, "node", starter[r].node + 1, starter[r].id)
             /\ RtNow(r, rt[r].status, rt[r].owned, Append(rt[r].ownedV, starter[r].node), rt[r].cancelData, rt[r].cancelAuto)
  <2>1. rt' = [rt EXCEPT ![r].ownedV = Append(@, starter[r].node)]
    BY <1>5 DEF OwnVirtual
  <2>2. RtNow(r, rt[r].status, rt[r].owned, Append(rt[r].ownedV, starter[r].node), rt[r].cancelData, rt[r].cancelAuto)
    BY <1>f, <2>1, RtBecomes
  <2>3. QED
    BY <1>5, <2>2, StarterBecomes DEF OwnVirtual, StarterStates
<1>6. ASSUME Subscribe(r)
      PROVE  /\ StarterNow(r, "auto", starter[r].node, starter[r].id)
             /\ RtNow(r, rt[r].status, rt[r].owned, rt[r].ownedV, TRUE, rt[r].cancelAuto)
  <2>1. rt' = [rt EXCEPT ![r].cancelData = TRUE] /\ GoTo(r, "auto")
    BY <1>6 DEF Subscribe
  <2>2. QED
    BY <2>1, RtBecomes, StarterBecomes DEF StarterStates
<1>7. ASSUME Unmap(r)
      PROVE  /\ StarterNow(r, "stop", starter[r].node, starter[r].id)
             /\ StopNow(<<r, "start">>, "enter", Stop(r, "start").data, Stop(r, "start").auto,
                        Stop(r, "start").vports, Stop(r, "start").ports)
  <2>1. stopper' = [stopper EXCEPT ![<<r, "start">>].pc = "enter"] /\ GoTo(r, "stop")
    BY <1>7 DEF Unmap
  <2>2. QED
    BY <1>f, <2>1, StopBecomes, StarterBecomes DEF StarterStates, StopperStates, Stop
<1>8. StartSerialGraph(r) => StarterNow(r, "begin", starter[r].node, starter[r].id)
  BY StarterBecomes DEF StartSerialGraph, StarterStates
<1>9. QED
  BY <1>1, <1>2, <1>3, <1>4, <1>5, <1>6, <1>7, <1>8

\* Where a stop only moves on
StopMoves(k) ==
    /\ \E pc \in StopperStates :
        /\ \/ stopper[k].pc = "enter" /\ rt[k[1]].status = "stopped" /\ pc = "done"
           \/ stopper[k].pc = "pairs" /\ stopper[k].vports = << >> /\ pc = "close"
           \/ stopper[k].pc = "close" /\ stopper[k].ports = << >> /\ pc = "done"
        /\ StopNow(k, pc, stopper[k].data, stopper[k].auto, stopper[k].vports, stopper[k].ports)
    /\ UNCHANGED <<ports, graph, rt, bus, senders, starter, terminal, shutdown>>

LEMMA StopIs ==
  ASSUME GpType, NEW k \in Runtimes \X Callers
  PROVE  LET S == stopper[k]
             r == k[1] IN
         /\ StopAgain(k) \/ StopPairsDone(k) \/ StopDone(k) => StopMoves(k)
         /\ StopEnter(k) => /\ StopNow(k, "cancel", rt[r].cancelData, rt[r].cancelAuto, rt[r].ownedV, rt[r].owned)
                            /\ RtNow(r, "stopped", << >>, << >>, FALSE, FALSE)
         /\ CancelData(k) => StopNow(k, "cancelAuto", FALSE, S.auto, S.vports, S.ports)
         /\ CancelAuto(k) => StopNow(k, "pairs", S.data, FALSE, S.vports, S.ports)
         /\ StopPair(k) => StopNow(k, "pairs", S.data, S.auto, Tail(S.vports), S.ports)
         /\ StopClose(k) => IF HasHandle(Head(S.ports)) THEN StopNow(k, "buffer", S.data, S.auto, S.vports, S.ports)
                            ELSE StopNow(k, "close", S.data, S.auto, S.vports, Tail(S.ports))
         /\ StopBuffer(k) /\ S.ports # << >> => StopNow(k, "close", S.data, S.auto, S.vports, Tail(S.ports))
<1>f. /\ k[1] \in Runtimes /\ stopper[k].vports \in Seq(Nat) /\ stopper[k].ports \in Seq(Nat)
      /\ rt[k[1]].owned \in Seq(Nat) /\ rt[k[1]].ownedV \in Seq(Nat)
      /\ rt[k[1]].cancelData \in BOOLEAN /\ rt[k[1]].cancelAuto \in BOOLEAN
  BY Fields
<1>s. {"cancel", "cancelAuto", "pairs", "close", "buffer", "done"} \subseteq StopperStates
  BY DEF StopperStates
<1>1. StopAgain(k) \/ StopPairsDone(k) \/ StopDone(k) => StopMoves(k)
  <2>1. StopAgain(k) => StopMoves(k)
    BY <1>s, StopBecomes DEF StopAgain, StopMoves
  <2>2. StopPairsDone(k) => StopMoves(k)
    BY <1>s, StopBecomes DEF StopPairsDone, StopMoves
  <2>3. StopDone(k) => StopMoves(k)
    BY <1>s, StopBecomes DEF StopDone, StopMoves
  <2>4. QED
    BY <2>1, <2>2, <2>3
<1>2. ASSUME StopEnter(k)
      PROVE  /\ StopNow(k, "cancel", rt[k[1]].cancelData, rt[k[1]].cancelAuto, rt[k[1]].ownedV, rt[k[1]].owned)
             /\ RtNow(k[1], "stopped", << >>, << >>, FALSE, FALSE)
  <2>1. /\ stopper' = [stopper EXCEPT ![k] = [pc |-> "cancel", data |-> rt[k[1]].cancelData, auto |-> rt[k[1]].cancelAuto,
                                             vports |-> rt[k[1]].ownedV, ports |-> rt[k[1]].owned]]
        /\ rt' = [rt EXCEPT ![k[1]] = [NewRuntime EXCEPT !.status = "stopped", !.resource = rt[k[1]].resource]]
    BY <1>2 DEF StopEnter
  <2>2. QED
    BY <1>f, <1>s, <2>1, StopBecomes, RtBecomes
<1>3. CancelData(k) => StopNow(k, "cancelAuto", FALSE, stopper[k].auto, stopper[k].vports, stopper[k].ports)
  BY <1>s, StopBecomes DEF CancelData
<1>4. CancelAuto(k) => StopNow(k, "pairs", stopper[k].data, FALSE, stopper[k].vports, stopper[k].ports)
  BY <1>s, StopBecomes DEF CancelAuto
<1>5. ASSUME StopPair(k) PROVE StopNow(k, "pairs", stopper[k].data, stopper[k].auto, Tail(stopper[k].vports), stopper[k].ports)
  <2>1. stopper' = [stopper EXCEPT ![k].vports = Tail(stopper[k].vports)] /\ stopper[k].pc = "pairs"
    BY <1>5 DEF StopPair
  <2>2. Tail(stopper[k].vports) \in Seq(Nat)
    BY <1>f, <1>5, TailIs DEF StopPair
  <2>3. QED
    BY <2>1, <2>2, StopBecomes
<1>6. ASSUME StopClose(k)
      PROVE  IF HasHandle(Head(stopper[k].ports))
             THEN StopNow(k, "buffer", stopper[k].data, stopper[k].auto, stopper[k].vports, stopper[k].ports)
             ELSE StopNow(k, "close", stopper[k].data, stopper[k].auto, stopper[k].vports, Tail(stopper[k].ports))
  <2>1. Tail(stopper[k].ports) \in Seq(Nat) /\ stopper[k].pc = "close"
    BY <1>f, <1>6, TailIs DEF StopClose
  <2>2. CASE HasHandle(Head(stopper[k].ports))
    BY <1>6, <1>s, <2>2, StopBecomes DEF StopClose
  <2>3. CASE ~HasHandle(Head(stopper[k].ports))
    <3>1. stopper' = [stopper EXCEPT ![k].ports = Tail(stopper[k].ports)]
      BY <1>6, <2>3 DEF StopClose
    <3>2. QED
      BY <2>1, <2>3, <3>1, StopBecomes
  <2>4. QED
    BY <2>2, <2>3
<1>7. ASSUME StopBuffer(k), stopper[k].ports # << >>
      PROVE  StopNow(k, "close", stopper[k].data, stopper[k].auto, stopper[k].vports, Tail(stopper[k].ports))
  <2>1. stopper' = [stopper EXCEPT ![k].pc = "close", ![k].ports = Tail(stopper[k].ports)]
    BY <1>7 DEF StopBuffer
  <2>2. Tail(stopper[k].ports) \in Seq(Nat)
    BY <1>f, <1>7, TailIs
  <2>3. QED
    BY <1>s, <2>1, <2>2, StopBecomes
<1>8. QED
  BY <1>1, <1>2, <1>3, <1>4, <1>5, <1>6, <1>7

\* A stop begins: StopSerialGraph and stopAllSerialGraphs
LEMMA StopBegins ==
  ASSUME GpType, NEW r \in Runtimes, stopper' = [stopper EXCEPT ![<<r, "api">>].pc = "enter"]
  PROVE  StopNow(<<r, "api">>, "enter", Stop(r, "api").data, Stop(r, "api").auto, Stop(r, "api").vports, Stop(r, "api").ports)
BY StopBecomes DEF Stop, StopperStates, Callers

\* Nothing changes that belongs to a runtime.
Same(q) ==
    rt'[q] = rt[q] /\ starter'[q] = starter[q] /\ \A c \in Callers : stopper'[<<q, c>>] = stopper[<<q, c>>]

Starts(r) == StartSerialGraph(r) \/ Moves(r) \/ Acquires(r)
Uses(t) == TerminalStep(t) \/ ClosePort(t) \/ \E p \in TerminalPorts : OpenPortShares(t, p) \/ OpenPort(t, p)

LEMMA Cases ==
  ASSUME GpType, [Next]_vars
  PROVE  \/ \E r \in Runtimes : Starts(r) \/ StopSerialGraph(r)
         \/ \E r \in Runtimes, c \in Callers : StopStep(<<r, c>>)
         \/ \E t \in Terminals : Uses(t)
         \/ Cleanup \/ CleanupPorts \/ CleanupPairs \/ CleanupMaps \/ UNCHANGED vars
<1>1. CASE \E r \in Runtimes : StartSerialGraph(r) \/ StartStep(r) \/ StopSerialGraph(r)
  BY <1>1, StartCases DEF Starts
<1>2. CASE \E k \in Runtimes \X Callers : StopStep(k)
  <2>1. PICK k \in Runtimes \X Callers : StopStep(k)
    BY <1>2
  <2>2. k = <<k[1], k[2]>> /\ k[1] \in Runtimes /\ k[2] \in Callers
    OBVIOUS
  <2>3. StopStep(<<k[1], k[2]>>)
    BY <2>1, <2>2
  <2>4. QED
    BY <2>2, <2>3
<1>3. CASE \E t \in Terminals : Uses(t)
  BY <1>3
<1>4. QED
  BY <1>1, <1>2, <1>3 DEF Next, Uses, CleanupStep

LEMMA StartApart ==
  ASSUME GpType, NEW r \in Runtimes, Starts(r)
  PROVE  /\ \A q \in Runtimes : q # r => Same(q)
         /\ ~Unmap(r) => stopper' = stopper
         /\ stopper'[<<r, "api">>] = stopper[<<r, "api">>]
         /\ UNCHANGED <<buffers, terminal, shutdown>>
<1>0. (\A c \in Callers : <<r, c>> \in Runtimes \X Callers) /\ "start" \in Callers /\ "api" \in Callers
      /\ \A q \in Runtimes, c \in Callers : q # r => <<q, c>> # <<r, "start">>
  BY DEF Callers
<1>1. CASE StartSerialGraph(r)
  <2>1. StarterNow(r, "begin", starter[r].node, starter[r].id) /\ UNCHANGED <<rt, stopper, ports, terminal, shutdown>>
    BY <1>1, StartIs DEF StartSerialGraph
  <2>2. ~Unmap(r) \/ stopper' = stopper
    BY <2>1
  <2>3. QED
    BY <2>1 DEF StarterNow, Same, ports
<1>2. CASE Moves(r)
  BY <1>2 DEF Moves, SameLists, StarterNow, RtNow, Same, ports
<1>3. CASE Acquires(r)
  <2>1. CASE CreateVirtual(r) \/ OpenNode(r) \/ UndoVirtual(r)
    <3>1. /\ \E pc, node, id : StarterNow(r, pc, node, id)
          /\ UNCHANGED <<rt, stopper, buffers, terminal, shutdown>>
      BY <2>1, StartIs DEF CreateVirtual, OpenNode, UndoVirtual
    <3>2. QED
      BY <3>1 DEF StarterNow, Same
  <2>2. CASE OwnPort(r) \/ OwnVirtual(r) \/ Subscribe(r) \/ Sends(r)
    <3>1. /\ \E pc, node, id : StarterNow(r, pc, node, id)
          /\ \E s, o, v, d, a : RtNow(r, s, o, v, d, a)
          /\ UNCHANGED <<stopper, buffers, terminal, shutdown>>
      BY <2>2, StartIs DEF OwnPort, OwnVirtual, Subscribe, Sends, ports
    <3>2. QED
      BY <3>1 DEF StarterNow, RtNow, Same
  <2>3. CASE Unmap(r)
    <3>1. /\ \E pc, node, id : StarterNow(r, pc, node, id)
          /\ \E pc, d, a, v, p : StopNow(<<r, "start">>, pc, d, a, v, p)
          /\ UNCHANGED <<rt, buffers, terminal, shutdown>>
      BY <2>3, StartIs DEF Unmap, ports
    <3>2. QED
      BY <1>0, <2>3, <3>1 DEF StarterNow, StopNow, Same
  <2>4. QED
    BY <1>3, <2>1, <2>2, <2>3 DEF Acquires
<1>4. QED
  BY <1>1, <1>2, <1>3 DEF Starts

\* A stop has its own hands, and takes from its own runtime.
LEMMA StopApart ==
  ASSUME GpType, HandlesInv, NEW r \in Runtimes, NEW c \in Callers, StopStep(<<r, c>>)
  PROVE  /\ \A q \in Runtimes : q # r => Same(q)
         /\ \A d \in Callers : d # c => stopper'[<<r, d>>] = stopper[<<r, d>>]
         /\ stopper' \in [Runtimes \X Callers -> StopperType]
         /\ rt' \in [Runtimes -> RtType] /\ (~StopEnter(<<r, c>>) => rt' = rt)
         /\ UNCHANGED <<nextID, graph, starter, terminal, shutdown>>
<1> DEFINE k == <<r, c>>
<1>0. /\ k \in Runtimes \X Callers /\ k[1] = r
      /\ \A q \in Runtimes, d \in Callers : q # r \/ d # c => <<q, d>> \in Runtimes \X Callers /\ <<q, d>> # k
  OBVIOUS
<1>1. /\ \E pc, d, a, v, p : StopNow(k, pc, d, a, v, p)
      /\ UNCHANGED <<nextID, graph, starter, terminal, shutdown>>
  <2>1. CASE StopAgain(k) \/ StopPairsDone(k) \/ StopDone(k)
    BY <1>0, <2>1, StopIs DEF StopMoves, ports
  <2>2. CASE StopEnter(k) \/ CancelData(k) \/ CancelAuto(k) \/ StopPair(k)
    BY <1>0, <2>2, StopIs DEF StopEnter, CancelData, CancelAuto, StopPair, ports
  <2>3. CASE StopClose(k)
    BY <1>0, <2>3, StopIs DEF StopClose, ports
  <2>4. CASE StopBuffer(k)
    <3>1. stopper[k].ports # << >>
      BY <1>0, <2>4 DEF StopBuffer, HandlesInv
    <3>2. QED
      BY <1>0, <2>4, <3>1, StopIs DEF StopBuffer, ports
  <2>5. QED
    BY <2>1, <2>2, <2>3, <2>4 DEF StopStep
<1>2. /\ rt' \in [Runtimes -> RtType] /\ \A q \in Runtimes : q # r => rt'[q] = rt[q]
      /\ ~StopEnter(k) => rt' = rt
  <2>1. CASE StopEnter(k)
    BY <1>0, <2>1, StopIs DEF RtNow
  <2>2. CASE ~StopEnter(k)
    <3>1. rt' = rt
      BY <2>2 DEF StopStep, StopAgain, CancelData, CancelAuto, StopPair, StopPairsDone, StopClose, StopBuffer, StopDone
    <3>2. QED
      BY <3>1 DEF GpType
  <2>3. QED
    BY <2>1, <2>2
<1>3. stopper' \in [Runtimes \X Callers -> StopperType] /\ \A j \in Runtimes \X Callers : j # k => stopper'[j] = stopper[j]
  BY <1>1 DEF StopNow
<1>4. QED
  BY <1>0, <1>1, <1>2, <1>3 DEF Same

LEMMA TerminalIs ==
  ASSUME GpType, NEW t \in Terminals
  PROVE  LET T == terminal[t] IN
         /\ \A p \in TerminalPorts :
             /\ OpenPortShares(t, p) => \E h \in handles : h.port = p /\ TerminalNow(t, "using", p, h.id)
             /\ OpenPort(t, p) => TerminalNow(t, "open", p, T.id)
         /\ OpenPortOpens(t) => TerminalNow(t, "buffer", T.port, nextID + 1)
         /\ OpenPortFails(t) \/ ClosePortBuffer(t) => TerminalNow(t, "idle", IdleTerminal.port, 0)
         /\ OpenPortConflict(t) => TerminalNow(t, "again", T.port, T.id)
         /\ OpenPortAgain(t) /\ T.port \in TerminalPorts =>
             \/ TerminalNow(t, "idle", IdleTerminal.port, 0)
             \/ \E h \in handles : h.port = T.port /\ TerminalNow(t, "using", T.port, h.id)
         /\ OpenPortBuffer(t) => TerminalNow(t, "using", T.port, T.id)
         /\ ClosePort(t) => \/ HasHandle(T.id) /\ TerminalNow(t, "drop", T.port, T.id)
                            \/ TerminalNow(t, "idle", IdleTerminal.port, 0)
<1>0. TerminalPorts \subseteq Ports /\ nextID + 1 \in Nat
      /\ \A p : IsOpen(p) => HandleOf(p) \in handles /\ HandleOf(p).port = p /\ HandleOf(p).id \in Nat
  BY DEF Ports, GpType, IsOpen, HandleOf
<1>s. {"again", "using", "drop"} \subseteq TerminalStates
  BY DEF TerminalStates
<1>1. ASSUME NEW p \in TerminalPorts, OpenPortShares(t, p)
      PROVE  \E h \in handles : h.port = p /\ TerminalNow(t, "using", p, h.id)
  <2>1. IsOpen(p) /\ Use(t, HandleOf(p))
    BY <1>1 DEF OpenPortShares
  <2>2. PICK h \in handles : h.port = p /\ h.id \in Nat /\ Use(t, h)
    BY <1>0, <2>1
  <2>3. TerminalNow(t, "using", h.port, h.id)
    BY <1>0, <2>2, TerminalBecomes
  <2>4. QED
    BY <2>2, <2>3
<1>2. ASSUME NEW p \in TerminalPorts, OpenPort(t, p) PROVE TerminalNow(t, "open", p, terminal[t].id)
  BY <1>0, <1>2, TerminalBecomes DEF OpenPort
<1>3. OpenPortOpens(t) => TerminalNow(t, "buffer", terminal[t].port, nextID + 1)
  BY <1>0, TerminalBecomes DEF OpenPortOpens
<1>4. OpenPortFails(t) \/ ClosePortBuffer(t) => TerminalNow(t, "idle", IdleTerminal.port, 0)
  BY TerminalBecomes DEF OpenPortFails, ClosePortBuffer
<1>5. OpenPortConflict(t) => TerminalNow(t, "again", terminal[t].port, terminal[t].id)
  BY <1>s, TerminalBecomes DEF OpenPortConflict
<1>6. ASSUME OpenPortAgain(t), terminal[t].port \in TerminalPorts
      PROVE  \/ TerminalNow(t, "idle", IdleTerminal.port, 0)
             \/ \E h \in handles : h.port = terminal[t].port /\ TerminalNow(t, "using", terminal[t].port, h.id)
  <2>1. CASE IsOpen(terminal[t].port)
    <3>1. Use(t, HandleOf(terminal[t].port))
      BY <1>6, <2>1 DEF OpenPortAgain
    <3>2. QED
      BY <1>0, <1>6, <2>1, <3>1, TerminalBecomes
  <2>2. CASE ~IsOpen(terminal[t].port)
    BY <1>6, <2>2, TerminalBecomes DEF OpenPortAgain
  <2>3. QED
    BY <2>1, <2>2
<1>7. OpenPortBuffer(t) => TerminalNow(t, "using", terminal[t].port, terminal[t].id)
  BY <1>s, TerminalBecomes DEF OpenPortBuffer
<1>8. ASSUME ClosePort(t)
      PROVE  \/ HasHandle(terminal[t].id) /\ TerminalNow(t, "drop", terminal[t].port, terminal[t].id)
             \/ TerminalNow(t, "idle", IdleTerminal.port, 0)
  BY <1>8, <1>s, TerminalBecomes DEF ClosePort
<1>9. QED
  BY <1>1, <1>2, <1>3, <1>4, <1>5, <1>6, <1>7, <1>8

LEMMA TerminalApart ==
  ASSUME NEW t \in Terminals, Uses(t)
  PROVE  UNCHANGED <<pairs, graph, rt, bus, senders, starter, stopper, shutdown>>
BY DEF Uses, TerminalStep, OpenPortShares, OpenPort, OpenPortOpens, OpenPortFails, OpenPortConflict, OpenPortAgain,
       OpenPortBuffer, ClosePort, ClosePortBuffer, ports

LEMMA SameHolds ==
  ASSUME NEW q \in Runtimes, Same(q), NEW x
  PROVE  (Holds(q, x)' <=> Holds(q, x)) /\ (HoldsPair(q, x)' <=> HoldsPair(q, x))
BY DEF Same, Holds, HoldsPair, Stop

\* Steps of terminals and of the shutdown
LEMMA OthersSame ==
  ASSUME NEW q \in Runtimes, (\E t \in Terminals : Uses(t)) \/ CleanupPorts \/ CleanupPairs \/ CleanupMaps \/ UNCHANGED vars
  PROVE  Same(q)
BY TerminalApart DEF Same, CleanupPorts, CleanupPairs, CleanupMaps, vars

-----------------------------------------------------------------------------
(* Types, and what a runtime holds                                         *)

LEMMA StartTypes ==
  ASSUME GpType, NEW r \in Runtimes, Starts(r)
  PROVE  GpType'
<1>0. <<r, "start">> \in Runtimes \X Callers
  BY DEF Callers
<1>1. /\ starter' \in [Runtimes -> StarterType] /\ rt' \in [Runtimes -> RtType]
      /\ stopper' \in [Runtimes \X Callers -> StopperType] /\ terminal' = terminal
  <2>1. CASE StartSerialGraph(r)
    BY <2>1, StartIs DEF StarterNow, StartSerialGraph, GpType
  <2>2. CASE Moves(r)
    BY <2>2 DEF Moves, SameLists, StarterNow, RtNow, GpType
  <2>3. CASE CreateVirtual(r) \/ OpenNode(r) \/ UndoVirtual(r)
    <3>1. /\ \E pc, node, id : StarterNow(r, pc, node, id)
          /\ UNCHANGED <<rt, stopper, terminal>>
      BY <2>3, StartIs DEF CreateVirtual, OpenNode, UndoVirtual
    <3>2. QED
      BY <3>1 DEF StarterNow, GpType
  <2>4. CASE OwnPort(r) \/ OwnVirtual(r) \/ Subscribe(r) \/ Sends(r)
    <3>1. /\ \E pc, node, id : StarterNow(r, pc, node, id)
          /\ \E s, o, v, d, a : RtNow(r, s, o, v, d, a)
          /\ UNCHANGED <<stopper, terminal>>
      BY <2>4, StartIs DEF OwnPort, OwnVirtual, Subscribe, Sends
    <3>2. QED
      BY <3>1 DEF StarterNow, RtNow, GpType
  <2>5. CASE Unmap(r)
    <3>1. /\ \E pc, node, id : StarterNow(r, pc, node, id)
          /\ \E pc, d, a, v, p : StopNow(<<r, "start">>, pc, d, a, v, p)
          /\ UNCHANGED <<rt, terminal>>
      BY <2>5, StartIs DEF Unmap
    <3>2. QED
      BY <3>1 DEF StarterNow, StopNow, GpType
  <2>6. QED
    BY <2>1, <2>2, <2>3, <2>4, <2>5 DEF Starts, Acquires
<1>2. (\A h \in handles' : h.id \in Nat /\ h.by \in Runtimes \cup Terminals) /\ nextID' \in Nat
  <2>1. CASE OpenNode(r)
    BY <2>1 DEF OpenNode, ManagerOpen, GpType
  <2>2. CASE ~OpenNode(r)
    <3>1. UNCHANGED <<handles, nextID>>
      BY <2>2 DEF Starts, Acquires, StartSerialGraph, Moves, CreateVirtual, UndoVirtual, OwnPort, OwnVirtual, Subscribe, Sends, Unmap, ports
    <3>2. QED
      BY <3>1 DEF GpType
  <2>3. QED
    BY <2>1, <2>2
<1>3. pairs' \subseteq [id : Nat, owner : Runtimes]
  <2>1. CASE CreateVirtual(r)
    BY <2>1, Fields DEF CreateVirtual, GpType
  <2>2. CASE ~CreateVirtual(r)
    <3>1. pairs' \subseteq pairs
      BY <2>2 DEF Starts, Acquires, StartSerialGraph, Moves, OpenNode, UndoVirtual, OwnPort, OwnVirtual, Subscribe, Sends, Unmap, ports,
           DeletePair, DeletePairFails
    <3>2. QED
      BY <3>1 DEF GpType
  <2>3. QED
    BY <2>1, <2>2
<1>4. graph' \in Runtimes \cup {None}
  BY DEF Starts, Acquires, StartSerialGraph, Moves, CreateVirtual, OpenNode, UndoVirtual, OwnPort, OwnVirtual, Subscribe, Sends, Unmap, GpType
<1>5. terminal' \in [Terminals -> TerminalType]
  BY <1>1 DEF GpType
<1>6. QED
  BY <1>1, <1>2, <1>3, <1>4, <1>5 DEF GpType

LEMMA StopTypes ==
  ASSUME GpType, HandlesInv, NEW r \in Runtimes, NEW c \in Callers, StopStep(<<r, c>>)
  PROVE  GpType' /\ handles' \subseteq handles /\ pairs' \subseteq pairs
<1>1. handles' \subseteq handles /\ pairs' \subseteq pairs
  BY DEF StopStep, StopAgain, StopEnter, CancelData, CancelAuto, StopPair, StopPairsDone, StopClose, StopBuffer, StopDone, ports,
      DeletePair, DeletePairFails, Close
<1>2. QED
  BY <1>1, StopApart DEF GpType

LEMMA TerminalTypes ==
  ASSUME GpType, HandlesInv, NEW t \in Terminals, Uses(t)
  PROVE  GpType' /\ (\A u \in Terminals : u # t => terminal'[u] = terminal[u])
<1>0. terminal[t].pc \in {"open", "again"} => terminal[t].port \in TerminalPorts
  BY DEF HandlesInv
<1>1. \E pc, p, i : TerminalNow(t, pc, p, i)
  <2>1. CASE OpenPortAgain(t)
    BY <1>0, <2>1, TerminalIs DEF OpenPortAgain
  <2>2. CASE ClosePort(t)
    BY <2>2, TerminalIs
  <2>3. CASE \E p \in TerminalPorts : OpenPortShares(t, p) \/ OpenPort(t, p)
    BY <2>3, TerminalIs
  <2>4. CASE OpenPortOpens(t) \/ OpenPortFails(t) \/ ClosePortBuffer(t) \/ OpenPortConflict(t) \/ OpenPortBuffer(t)
    BY <2>4, TerminalIs
  <2>5. QED
    BY <2>1, <2>2, <2>3, <2>4 DEF Uses, TerminalStep
<1>2. (\A h \in handles' : h.id \in Nat /\ h.by \in Runtimes \cup Terminals) /\ nextID' \in Nat
  <2>1. CASE OpenPortOpens(t)
    BY <2>1 DEF OpenPortOpens, ManagerOpen, GpType
  <2>2. CASE ~OpenPortOpens(t)
    <3>1. handles' \subseteq handles /\ nextID' = nextID
      BY <2>2 DEF Uses, TerminalStep, OpenPortShares, OpenPort, OpenPortFails, OpenPortConflict, OpenPortAgain,
           OpenPortBuffer, ClosePort, ClosePortBuffer, ports, Close
    <3>2. QED
      BY <3>1 DEF GpType
  <2>3. QED
    BY <2>1, <2>2
<1>3. QED
  BY <1>1, <1>2, TerminalApart DEF TerminalNow, GpType

\* StopSerialGraph, and the shutdown
LEMMA ServiceTypes ==
  ASSUME GpType, (\E r \in Runtimes : StopSerialGraph(r)) \/ Cleanup \/ CleanupPorts \/ CleanupPairs \/ CleanupMaps
  PROVE  /\ GpType' /\ UNCHANGED <<nextID, rt, starter, terminal>>
         /\ handles' \subseteq handles /\ pairs' \subseteq pairs
         /\ \A q \in Runtimes, c \in Callers : stopper'[<<q, c>>] # stopper[<<q, c>>] =>
             /\ graph = q /\ c = "api"
             /\ StopNow(<<q, c>>, "enter", Stop(q, c).data, Stop(q, c).auto, Stop(q, c).vports, Stop(q, c).ports)
<1>1. CASE \E r \in Runtimes : StopSerialGraph(r)
  <2>1. PICK r \in Runtimes : StopSerialGraph(r)
    BY <1>1
  <2>2. /\ StopNow(<<r, "api">>, "enter", Stop(r, "api").data, Stop(r, "api").auto, Stop(r, "api").vports, Stop(r, "api").ports)
        /\ graph = r /\ graph' = None /\ UNCHANGED <<ports, rt, starter, terminal>>
    BY <2>1, StopBegins DEF StopSerialGraph
  <2>3. \A q \in Runtimes, c \in Callers : <<q, c>> \in Runtimes \X Callers /\ (<<q, c>> # <<r, "api">> \/ (q = r /\ c = "api"))
    OBVIOUS
  <2>4. QED
    BY <2>2, <2>3 DEF StopNow, GpType, ports
<1>2. CASE Cleanup
  <2>1. CASE graph = None
    BY <1>2, <2>1 DEF Cleanup, GpType, ports
  <2>2. CASE graph # None
    <3>1. PICK r \in Runtimes : r = graph
      BY <2>2 DEF GpType
    <3>2. /\ StopNow(<<r, "api">>, "enter", Stop(r, "api").data, Stop(r, "api").auto, Stop(r, "api").vports, Stop(r, "api").ports)
          /\ graph' = None /\ UNCHANGED <<ports, rt, starter, terminal>>
      BY <1>2, <2>2, <3>1, StopBegins DEF Cleanup
    <3>3. \A q \in Runtimes, c \in Callers : <<q, c>> \in Runtimes \X Callers /\ (<<q, c>> # <<r, "api">> \/ (q = r /\ c = "api"))
      OBVIOUS
    <3>4. QED
      BY <3>1, <3>2, <3>3 DEF StopNow, GpType, ports
  <2>3. QED
    BY <2>1, <2>2
<1>3. CASE CleanupPorts \/ CleanupPairs \/ CleanupMaps
  BY <1>3 DEF CleanupPorts, CleanupPairs, CleanupMaps, GpType
<1>4. QED
  BY <1>1, <1>2, <1>3

LEMMA TypeStep ==
  ASSUME GpType, HandlesInv, [Next]_vars
  PROVE  GpType'
<1>1. CASE UNCHANGED vars
  BY <1>1 DEF vars, ports, GpType
<1>2. QED
  BY <1>1, Cases, StartTypes, StopTypes, TerminalTypes, ServiceTypes

LEMMA TypeInit == Init => GpType
<1> SUFFICES ASSUME Init PROVE GpType
  OBVIOUS
<1>1. NewRuntime \in RtType /\ NotStopping \in StopperType
  BY EmptyIs DEF NewRuntime, NotStopping, RtType, StopperType, StopperStates
<1>2. IdleTerminal \in TerminalType
  <2> DEFINE p == CHOOSE p \in Ports : TRUE
  <2>1. IdleTerminal = [pc |-> "idle", port |-> p, id |-> 0]
    BY DEF IdleTerminal
  <2> HIDE DEF p
  <2>2. IdleTerminal.port = p
    BY <2>1
  <2>3. QED
    BY <2>1, <2>2 DEF TerminalType, TerminalStates
<1>3. \A r \in Runtimes : [pc |-> "new", node |-> 1, id |-> 0] \in StarterType
  BY DEF StarterType, StarterStates
<1>4. QED
  BY <1>1, <1>2, <1>3 DEF Init, GpType

\* A start holds the handle that it opens, and the virtual port that it
\* creates, from then on.
LEMMA StartHolds ==
  ASSUME GpType, NEW r \in Runtimes, Starts(r), NEW x \in Nat
  PROVE  /\ Holds(r, x)' => Holds(r, x) \/ (OpenNode(r) /\ x = nextID + 1)
         /\ Holds(r, x) => Holds(r, x)'
         /\ HoldsPair(r, x)' => HoldsPair(r, x) \/ (x = starter[r].node /\ (CreateVirtual(r) \/ ~IsVirtual(x)))
         /\ HoldsPair(r, x) /\ IsVirtual(x) => HoldsPair(r, x)' \/ (UndoVirtual(r) /\ x = starter[r].node)
<1>f. /\ rt[r].owned \in Seq(Nat) /\ rt[r].ownedV \in Seq(Nat) /\ starter[r].id \in Nat /\ starter[r].node \in Nat
      /\ <<r, "start">> \in Runtimes \X Callers /\ \A c \in Callers : c = "start" \/ <<r, c>> # <<r, "start">>
  BY Fields DEF Callers
<1>s. ~Unmap(r) => stopper' = stopper
  BY StartApart
<1> USE DEF Holds, HoldsPair, Stop
<1>1. CASE StartSerialGraph(r)
  BY <1>1, <1>s, StartIs DEF StartSerialGraph, StarterNow, At
<1>2. CASE Moves(r)
  <2>1. PICK pc, status : /\ Way(r, pc, status) /\ StarterNow(r, pc, starter[r].node, starter[r].id) /\ SameLists(r, status)
                          /\ stopper' = stopper
    BY <1>2 DEF Moves
  <2>2. /\ rt'[r].owned = rt[r].owned /\ rt'[r].ownedV = rt[r].ownedV
        /\ starter'[r].pc = pc /\ starter'[r].node = starter[r].node /\ starter'[r].id = starter[r].id
    BY <2>1 DEF SameLists, RtNow, StarterNow
  <2>3. /\ pc \in {"bind", "own"} <=> starter[r].pc \in {"bind", "own"}
        /\ pc \in {"open", "undo", "bind", "own", "ownV"} =>
            starter[r].pc \in {"open", "undo", "bind", "own", "ownV"} \/ ~IsVirtual(starter[r].node)
        /\ starter[r].pc \in {"open", "undo", "bind", "own", "ownV"} /\ IsVirtual(starter[r].node) =>
            pc \in {"open", "undo", "bind", "own", "ownV"}
    BY <2>1 DEF Way
  <2>4. QED
    BY <2>1, <2>2, <2>3
<1>3. CASE CreateVirtual(r)
  BY <1>3, <1>s, StartIs DEF CreateVirtual, StarterNow, At
<1>4. CASE OpenNode(r)
  BY <1>4, <1>s, StartIs DEF OpenNode, StarterNow, At
<1>5. CASE UndoVirtual(r)
  BY <1>5, <1>s, StartIs DEF UndoVirtual, StarterNow, At
<1>6. CASE OwnPort(r)
  <2>1. /\ rt'[r].owned = Append(rt[r].owned, starter[r].id) /\ rt'[r].ownedV = rt[r].ownedV /\ stopper' = stopper
        /\ starter[r].pc = "own"
    BY <1>6, StartIs DEF OwnPort, RtNow, At
  <2>2. \A y : y \in Range(rt'[r].owned) <=> y = starter[r].id \/ y \in Range(rt[r].owned)
    BY <1>f, <2>1, AppendIs
  <2>3. starter'[r].pc \in {"ownV", "node"}
    BY <1>6, StartIs DEF StarterNow
  <2>4. IsVirtual(starter[r].node) => starter'[r].pc = "ownV" /\ starter'[r].node = starter[r].node
    BY <1>6, StartIs DEF StarterNow
  <2>5. starter'[r].pc = "ownV" => IsVirtual(starter[r].node)
    BY <1>6, StartIs DEF StarterNow
  <2>6. Holds(r, x)' <=> Holds(r, x)
    BY <2>1, <2>2, <2>3
  <2>7. HoldsPair(r, x)' => HoldsPair(r, x)
    BY <2>1, <2>3, <2>4, <2>5
  <2>8. HoldsPair(r, x) /\ IsVirtual(x) => HoldsPair(r, x)'
    BY <2>1, <2>3, <2>4
  <2>9. QED
    BY <2>6, <2>7, <2>8
<1>7. CASE OwnVirtual(r)
  <2>1. /\ rt'[r].ownedV = Append(rt[r].ownedV, starter[r].node) /\ rt'[r].owned = rt[r].owned /\ stopper' = stopper
        /\ starter[r].pc = "ownV" /\ starter'[r].pc = "node"
    BY <1>7, StartIs DEF OwnVirtual, RtNow, StarterNow, At
  <2>2. \A y : y \in Range(rt'[r].ownedV) <=> y = starter[r].node \/ y \in Range(rt[r].ownedV)
    BY <1>f, <2>1, AppendIs
  <2>3. QED
    BY <2>1, <2>2
<1>8. CASE Subscribe(r) \/ Sends(r)
  <2>1. /\ rt'[r].ownedV = rt[r].ownedV /\ rt'[r].owned = rt[r].owned /\ stopper' = stopper
        /\ starter[r].pc \in {"subscribe", "auto"} /\ starter'[r].pc \in {"auto", "started"}
    BY <1>8, StartIs DEF Subscribe, Sends, RtNow, StarterNow, At
  <2>2. QED
    BY <2>1
<1>9. CASE Unmap(r)
  <2>1. /\ rt' = rt /\ starter[r].pc = "unmap" /\ starter'[r].pc = "stop"
        /\ \A c \in Callers : stopper'[<<r, c>>].ports = stopper[<<r, c>>].ports /\ stopper'[<<r, c>>].vports = stopper[<<r, c>>].vports
    <3>1. StopNow(<<r, "start">>, "enter", Stop(r, "start").data, Stop(r, "start").auto, Stop(r, "start").vports, Stop(r, "start").ports)
      BY <1>9, StartIs
    <3>2. \A c \in Callers : <<r, c>> \in Runtimes \X Callers
      BY DEF Callers
    <3>3. QED
      BY <1>9, <1>f, <3>1, <3>2, StartIs DEF Unmap, StarterNow, StopNow, At
  <2>2. QED
    BY <2>1
<1>10. QED
  BY <1>1, <1>2, <1>3, <1>4, <1>5, <1>6, <1>7, <1>8, <1>9 DEF Starts, Acquires

\* A stop takes over what the runtime holds, and lets go of what it closes.
LEMMA StopHolds ==
  ASSUME GpType, HandlesInv, NEW r \in Runtimes, StopsInv(r), NEW c \in Callers, StopStep(<<r, c>>), NEW x \in Nat
  PROVE  /\ Holds(r, x)' => Holds(r, x)
         /\ Holds(r, x) => Holds(r, x)' \/ ~HasHandle(x)
         /\ HoldsPair(r, x)' => HoldsPair(r, x)
         /\ HoldsPair(r, x) => HoldsPair(r, x)' \/ (StopPair(<<r, c>>) /\ x = Head(Stop(r, c).vports))
<1> DEFINE k == <<r, c>>
<1>0. /\ k \in Runtimes \X Callers /\ k[1] = r /\ stopper[k].ports \in Seq(Nat) /\ stopper[k].vports \in Seq(Nat)
      /\ starter' = starter
      /\ \A d \in Callers : d # c => stopper'[<<r, d>>] = stopper[<<r, d>>]
  BY Fields, StopApart
<1>e. \A y : y \notin Range(<< >>)
  BY EmptyIs
<1>1. CASE StopEnter(k)
  <2>1. /\ rt'[r].owned = << >> /\ rt'[r].ownedV = << >>
        /\ stopper'[k].ports = rt[r].owned /\ stopper'[k].vports = rt[r].ownedV
    BY <1>0, <1>1, StopIs DEF StopNow, RtNow
  <2>2. stopper[k].ports = << >> /\ stopper[k].vports = << >>
    BY <1>1 DEF StopEnter, StopsInv, Stop
  <2>3. QED
    BY <1>0, <1>e, <2>1, <2>2 DEF Holds, HoldsPair, Stop
<1>2. ASSUME rt' = rt, stopper'[k].ports = stopper[k].ports, stopper'[k].vports = stopper[k].vports
      PROVE  (Holds(r, x)' <=> Holds(r, x)) /\ (HoldsPair(r, x)' <=> HoldsPair(r, x))
  <2>1. \A d \in Callers : stopper'[<<r, d>>].ports = stopper[<<r, d>>].ports /\ stopper'[<<r, d>>].vports = stopper[<<r, d>>].vports
    BY <1>0, <1>2
  <2>2. QED
    BY <1>0, <1>2, <2>1 DEF Holds, HoldsPair, Stop
<1>3. CASE StopAgain(k) \/ StopPairsDone(k) \/ StopDone(k) \/ CancelData(k) \/ CancelAuto(k)
  <2>1. rt' = rt /\ stopper'[k].ports = stopper[k].ports /\ stopper'[k].vports = stopper[k].vports
    BY <1>0, <1>3, StopIs DEF StopMoves, StopNow, CancelData, CancelAuto
  <2>2. QED
    BY <1>2, <2>1
<1>4. CASE StopPair(k)
  <2>1. rt' = rt /\ stopper'[k].ports = stopper[k].ports /\ stopper'[k].vports = Tail(stopper[k].vports) /\ stopper[k].vports # << >>
    BY <1>0, <1>4, StopIs DEF StopNow, StopPair
  <2>2. \A y : y \in Range(stopper[k].vports) <=> y = Head(stopper[k].vports) \/ y \in Range(stopper'[k].vports)
    BY <1>0, <2>1, TailIs
  <2>3. QED
    BY <1>0, <1>4, <2>1, <2>2 DEF Holds, HoldsPair, Stop
<1>5. ASSUME rt' = rt, stopper[k].ports # << >>, ~HasHandle(Head(stopper[k].ports)),
             stopper'[k].ports = Tail(stopper[k].ports), stopper'[k].vports = stopper[k].vports
      PROVE  /\ Holds(r, x)' => Holds(r, x)
             /\ Holds(r, x) => Holds(r, x)' \/ ~HasHandle(x)
             /\ HoldsPair(r, x)' <=> HoldsPair(r, x)
  <2>1. \A y : y \in Range(stopper[k].ports) <=> y = Head(stopper[k].ports) \/ y \in Range(stopper'[k].ports)
    BY <1>0, <1>5, TailIs
  <2>2. QED
    BY <1>0, <1>5, <2>1 DEF Holds, HoldsPair, Stop
<1>6. CASE StopClose(k)
  <2>1. rt' = rt /\ stopper[k].ports # << >>
    BY <1>6 DEF StopClose
  <2>2. CASE HasHandle(Head(stopper[k].ports))
    <3>1. stopper'[k].ports = stopper[k].ports /\ stopper'[k].vports = stopper[k].vports
      BY <1>0, <1>6, <2>2, StopIs DEF StopNow
    <3>2. QED
      BY <1>2, <2>1, <3>1
  <2>3. CASE ~HasHandle(Head(stopper[k].ports))
    <3>1. stopper'[k].ports = Tail(stopper[k].ports) /\ stopper'[k].vports = stopper[k].vports
      BY <1>0, <1>6, <2>3, StopIs DEF StopNow
    <3>2. QED
      BY <1>5, <2>1, <2>3, <3>1
  <2>4. QED
    BY <2>2, <2>3
<1>7. CASE StopBuffer(k)
  <2>1. stopper[k].ports # << >> /\ ~HasHandle(Head(stopper[k].ports)) /\ rt' = rt
    BY <1>0, <1>7 DEF StopBuffer, HandlesInv
  <2>2. stopper'[k].ports = Tail(stopper[k].ports) /\ stopper'[k].vports = stopper[k].vports
    BY <1>0, <1>7, <2>1, StopIs DEF StopNow
  <2>3. QED
    BY <1>5, <2>1, <2>2
<1>8. QED
  BY <1>1, <1>3, <1>4, <1>2, <1>6, <1>7 DEF StopStep, Stop

LEMMA ServiceHolds ==
  ASSUME GpType, (\E r \in Runtimes : StopSerialGraph(r)) \/ Cleanup \/ CleanupPorts \/ CleanupPairs \/ CleanupMaps,
         NEW q \in Runtimes, NEW x \in Nat
  PROVE  (Holds(q, x)' <=> Holds(q, x)) /\ (HoldsPair(q, x)' <=> HoldsPair(q, x))
<1>1. \A c \in Callers : stopper'[<<q, c>>].ports = stopper[<<q, c>>].ports /\ stopper'[<<q, c>>].vports = stopper[<<q, c>>].vports
  BY ServiceTypes DEF StopNow, Stop
<1>2. rt' = rt /\ starter' = starter
  BY ServiceTypes
<1>3. QED
  BY <1>1, <1>2 DEF Holds, HoldsPair, Stop

\* What a step of anybody makes of a hold
LEMMA HoldsStep ==
  ASSUME GpType, HandlesInv, [Next]_vars, NEW q \in Runtimes, StopsInv(q), NEW x \in Nat
  PROVE  /\ Holds(q, x)' => Holds(q, x) \/ (OpenNode(q) /\ x = nextID + 1)
         /\ Holds(q, x) => Holds(q, x)' \/ ~HasHandle(x)
         /\ HoldsPair(q, x)' => HoldsPair(q, x) \/ (x = starter[q].node /\ (CreateVirtual(q) \/ ~IsVirtual(x)))
         /\ HoldsPair(q, x) /\ IsVirtual(x) =>
             \/ HoldsPair(q, x)'
             \/ UndoVirtual(q) /\ x = starter[q].node
             \/ \E c \in Callers : StopPair(<<q, c>>) /\ x = Head(Stop(q, c).vports)
<1>1. ASSUME NEW r \in Runtimes, Starts(r) PROVE r # q => Same(q)
  BY <1>1, StartApart
<1>2. ASSUME NEW r \in Runtimes, NEW c \in Callers, StopStep(<<r, c>>) PROVE r # q => Same(q)
  BY <1>2, StopApart
<1>3. CASE Same(q)
  BY <1>3, SameHolds
<1>4. CASE Starts(q)
  BY <1>4, StartHolds
<1>5. ASSUME NEW c \in Callers, StopStep(<<q, c>>)
      PROVE  /\ Holds(q, x)' => Holds(q, x)
             /\ Holds(q, x) => Holds(q, x)' \/ ~HasHandle(x)
             /\ HoldsPair(q, x)' => HoldsPair(q, x)
             /\ HoldsPair(q, x) => HoldsPair(q, x)' \/ (StopPair(<<q, c>>) /\ x = Head(Stop(q, c).vports))
  BY <1>5, StopHolds
<1>6. CASE (\E r \in Runtimes : StopSerialGraph(r)) \/ Cleanup \/ CleanupPorts \/ CleanupPairs \/ CleanupMaps
  BY <1>6, ServiceHolds
<1>7. CASE (\E t \in Terminals : Uses(t)) \/ UNCHANGED vars
  BY <1>3, <1>7, OthersSame
<1>8. QED
  BY <1>1, <1>2, <1>3, <1>4, <1>5, <1>6, <1>7, Cases

-----------------------------------------------------------------------------
(* Handles                                                                 *)

New(by) ==
    /\ nextID' = nextID + 1
    /\ \E h \in handles' : /\ handles' = handles \cup {h} /\ h.id = nextID + 1 /\ h.by = by
                           /\ by \in Runtimes => h.port = Node(by).endpoint
                           /\ by \in Terminals => h.port = terminal[by].port

LEMMA HandlesStep ==
  ASSUME GpType, HandlesInv, [Next]_vars
  PROVE  \/ handles' \subseteq handles /\ nextID' = nextID /\ \A r \in Runtimes : ~OpenNode(r)
         \/ \E r \in Runtimes : OpenNode(r) /\ New(r) /\ \A q \in Runtimes : q # r => ~OpenNode(q)
         \/ \E t \in Terminals : OpenPortOpens(t) /\ New(t) /\ \A r \in Runtimes : ~OpenNode(r)
<1>a. Runtimes \cap Terminals = {}
  BY CallersAssumption
<1>n. nextID \in Nat
  BY DEF GpType
<1>1. ASSUME NEW r \in Runtimes, OpenNode(r) PROVE New(r) /\ \A q \in Runtimes : q # r => ~OpenNode(q)
  <2>1. New(r)
    <3> DEFINE h == [id |-> nextID + 1, port |-> Node(r).endpoint, by |-> r]
    <3>1. nextID' = nextID + 1 /\ handles' = handles \cup {h}
      BY <1>1 DEF OpenNode, ManagerOpen
    <3>2. h.id = nextID + 1 /\ h.by = r /\ h.port = Node(r).endpoint /\ r \notin Terminals
      BY <1>a
    <3> HIDE DEF h
    <3>3. QED
      BY <3>1, <3>2 DEF New
  <2>2. ASSUME NEW q \in Runtimes, q # r PROVE ~OpenNode(q)
    <3>1. starter'[q] = starter[q]
      BY <1>1, <2>2, StartIs DEF StarterNow
    <3>2. OpenNode(q) => starter[q].pc = "open" /\ starter'[q].pc = "bind"
      BY StartIs DEF OpenNode, At, StarterNow
    <3>3. QED
      BY <3>1, <3>2
  <2>3. QED
    BY <2>1, <2>2
<1>2. ASSUME NEW t \in Terminals, OpenPortOpens(t) PROVE New(t) /\ \A r \in Runtimes : ~OpenNode(r)
  <2>1. New(t)
    <3> DEFINE h == [id |-> nextID + 1, port |-> terminal[t].port, by |-> t]
    <3>1. nextID' = nextID + 1 /\ handles' = handles \cup {h}
      BY <1>2 DEF OpenPortOpens, ManagerOpen
    <3>2. h.id = nextID + 1 /\ h.by = t /\ h.port = terminal[t].port /\ t \notin Runtimes
      BY <1>a
    <3> HIDE DEF h
    <3>3. QED
      BY <3>1, <3>2 DEF New
  <2>2. ASSUME NEW r \in Runtimes PROVE ~OpenNode(r)
    <3>1. OpenNode(r) => starter[r].pc = "open" /\ starter'[r].pc = "bind"
      BY StartIs DEF OpenNode, At, StarterNow
    <3>2. starter' = starter
      BY <1>2 DEF OpenPortOpens
    <3>3. QED
      BY <3>1, <3>2
  <2>3. QED
    BY <2>1, <2>2
<1>3. ASSUME \A r \in Runtimes : ~OpenNode(r), \A t \in Terminals : ~OpenPortOpens(t)
      PROVE  handles' \subseteq handles /\ nextID' = nextID
  <2>1. ASSUME NEW r \in Runtimes, Starts(r) PROVE UNCHANGED <<handles, nextID>>
    BY <1>3, <2>1 DEF Starts, Acquires, StartSerialGraph, Moves, CreateVirtual, UndoVirtual, OwnPort, OwnVirtual, Subscribe, Sends,
         Unmap, ports
  <2>2. ASSUME NEW r \in Runtimes, NEW c \in Callers, StopStep(<<r, c>>) PROVE handles' \subseteq handles /\ nextID' = nextID
    BY <2>2, StopTypes, StopApart
  <2>3. ASSUME NEW t \in Terminals, Uses(t) PROVE handles' \subseteq handles /\ nextID' = nextID
    BY <1>3, <2>3 DEF Uses, TerminalStep, OpenPortShares, OpenPort, OpenPortFails, OpenPortConflict, OpenPortAgain,
           OpenPortBuffer, ClosePort, ClosePortBuffer, ports, Close
  <2>4. CASE UNCHANGED vars
    BY <2>4 DEF vars, ports
  <2>5. QED
    BY <2>1, <2>2, <2>3, <2>4, Cases, ServiceTypes
<1>4. QED
  BY <1>1, <1>2, <1>3

\* What a step makes of a terminal
LEMMA TerminalStepIs ==
  ASSUME GpType, HandlesInv, [Next]_vars, NEW t \in Terminals
  PROVE  \/ terminal'[t] = terminal[t]
         \/ Uses(t)
<1>1. ASSUME NEW u \in Terminals, Uses(u), u # t PROVE terminal'[t] = terminal[t]
  BY <1>1, TerminalTypes
<1>2. CASE terminal' = terminal
  BY <1>2
<1>3. ASSUME NEW r \in Runtimes, Starts(r) PROVE terminal' = terminal
  BY <1>3, StartApart
<1>4. ASSUME NEW r \in Runtimes, NEW c \in Callers, StopStep(<<r, c>>) PROVE terminal' = terminal
  BY <1>4, StopApart
<1>5. QED
  BY <1>1, <1>2, <1>3, <1>4, Cases, ServiceTypes DEF vars

\* The steps of a terminal, as they are seen from the handles
LEMMA TerminalMoves ==
  ASSUME GpType, HandlesInv, NEW t \in Terminals, Uses(t)
  PROVE  /\ terminal'[t].id <= nextID' \/ terminal'[t].id = terminal[t].id \/ \E h \in handles : terminal'[t].id = h.id
         /\ terminal'[t].pc \in {"open", "again"} => terminal'[t].port \in TerminalPorts
         /\ terminal'[t].pc \in {"buffer", "using"} =>
             \/ OpenPortOpens(t) /\ terminal'[t].id = nextID + 1
             \/ \E h \in handles : h.port \in TerminalPorts /\ terminal'[t].id = h.id
             \/ terminal[t].pc = "buffer" /\ terminal'[t].id = terminal[t].id
         /\ terminal[t].pc \in {"buffer", "using"} =>
             \/ terminal'[t].pc \in {"buffer", "using"} /\ terminal'[t].id = terminal[t].id
             \/ handles' = Close(terminal[t].id)
<1>0. terminal[t].pc \in {"open", "again"} => terminal[t].port \in TerminalPorts
  BY DEF HandlesInv
<1>n. nextID + 1 \in Nat /\ terminal[t].id \in Nat
  BY Fields DEF GpType
<1>1. CASE \E p \in TerminalPorts : OpenPortShares(t, p) \/ OpenPort(t, p)
  BY <1>1, TerminalIs DEF OpenPortShares, OpenPort, TerminalNow
<1>2. CASE OpenPortOpens(t)
  <2>1. terminal[t].pc = "open" /\ nextID' = nextID + 1 /\ TerminalNow(t, "buffer", terminal[t].port, nextID + 1)
    BY <1>2, TerminalIs DEF OpenPortOpens, ManagerOpen
  <2>2. QED
    BY <1>n, <1>2, <2>1 DEF TerminalNow
<1>3. CASE OpenPortFails(t) \/ OpenPortConflict(t)
  <2>1. /\ terminal[t].pc = "open" /\ nextID' = nextID /\ nextID \in Nat
        /\ TerminalNow(t, "idle", IdleTerminal.port, 0) \/ TerminalNow(t, "again", terminal[t].port, terminal[t].id)
    BY <1>n, <1>3, TerminalIs DEF OpenPortFails, OpenPortConflict, ports, GpType
  <2>2. QED
    BY <1>0, <2>1 DEF TerminalNow
<1>4. CASE OpenPortAgain(t)
  <2>1. terminal[t].pc = "again" /\ terminal[t].port \in TerminalPorts /\ nextID' = nextID /\ nextID \in Nat
    BY <1>0, <1>4 DEF OpenPortAgain, ports, GpType
  <2>2. CASE TerminalNow(t, "idle", IdleTerminal.port, 0)
    BY <2>1, <2>2 DEF TerminalNow
  <2>3. ASSUME NEW h \in handles, h.port = terminal[t].port, TerminalNow(t, "using", terminal[t].port, h.id)
        PROVE  terminal'[t].pc = "using" /\ terminal'[t].id = h.id
    BY <2>3 DEF TerminalNow
  <2>4. QED
    BY <1>4, <2>1, <2>2, <2>3, TerminalIs
<1>5. CASE OpenPortBuffer(t)
  <2>1. terminal[t].pc = "buffer" /\ TerminalNow(t, "using", terminal[t].port, terminal[t].id)
    BY <1>5, TerminalIs DEF OpenPortBuffer
  <2>2. QED
    BY <2>1 DEF TerminalNow
<1>6. CASE ClosePort(t)
  <2>1. /\ terminal[t].pc = "using" /\ handles' = Close(terminal[t].id) /\ nextID' = nextID /\ nextID \in Nat
        /\ TerminalNow(t, "idle", IdleTerminal.port, 0) \/ TerminalNow(t, "drop", terminal[t].port, terminal[t].id)
    BY <1>6, TerminalIs DEF ClosePort, GpType
  <2>2. QED
    BY <2>1 DEF TerminalNow
<1>7. CASE ClosePortBuffer(t)
  <2>1. terminal[t].pc = "drop" /\ TerminalNow(t, "idle", IdleTerminal.port, 0) /\ nextID' = nextID /\ nextID \in Nat
    BY <1>7, TerminalIs DEF ClosePortBuffer, GpType
  <2>2. QED
    BY <2>1 DEF TerminalNow
<1>8. QED
  BY <1>1, <1>2, <1>3, <1>4, <1>5, <1>6, <1>7 DEF Uses, TerminalStep

LEMMA NumbersStep ==
  ASSUME GpType, NumbersInv, HandlesInv, \A r \in Runtimes : StopsInv(r), [Next]_vars
  PROVE  NumbersInv'
<1>n. nextID \in Nat /\ nextID' \in Nat /\ nextID <= nextID' /\ \A h \in handles : h.id \in Nat
  BY HandlesStep DEF New, GpType
<1>1. /\ \A g, h \in handles' : g.id = h.id => g = h
      /\ \A h \in handles' : h.id <= nextID'
  <2>1. CASE handles' \subseteq handles /\ nextID' = nextID
    BY <2>1 DEF NumbersInv
  <2>2. ASSUME NEW by, New(by) 
        PROVE  /\ \A g, h \in handles' : g.id = h.id => g = h
               /\ \A h \in handles' : h.id <= nextID'
    BY <1>n, <2>2 DEF New, NumbersInv
  <2>3. QED
    BY <2>1, <2>2, HandlesStep
<1>2. ASSUME NEW r \in Runtimes, NEW x \in Nat, Holds(r, x)' PROVE x <= nextID'
  <2>1. CASE Holds(r, x)
    BY <1>n, <2>1 DEF NumbersInv
  <2>2. CASE OpenNode(r) /\ x = nextID + 1
    BY <2>2, <1>n DEF OpenNode, ManagerOpen
  <2>3. QED
    BY <1>2, <2>1, <2>2, HoldsStep
<1>3. ASSUME NEW t \in Terminals PROVE terminal'[t].id <= nextID'
  <2>1. terminal[t].id <= nextID /\ terminal[t].id \in Nat /\ \A h \in handles : h.id <= nextID
    BY Fields DEF NumbersInv
  <2>2. terminal'[t].id <= nextID' \/ terminal'[t].id = terminal[t].id \/ \E h \in handles : terminal'[t].id = h.id
    BY TerminalStepIs, TerminalMoves
  <2>3. QED
    BY <1>n, <2>1, <2>2
<1>4. QED
  BY <1>1, <1>2, <1>3 DEF NumbersInv

\* What a step makes of a stop
LEMMA StopperStepIs ==
  ASSUME GpType, HandlesInv, [Next]_vars, NEW r \in Runtimes, NEW c \in Callers
  PROVE  \/ stopper'[<<r, c>>] = stopper[<<r, c>>]
         \/ StopStep(<<r, c>>)
         \/ /\ StopNow(<<r, c>>, "enter", Stop(r, c).data, Stop(r, c).auto, Stop(r, c).vports, Stop(r, c).ports)
            /\ ((c = "start" /\ Unmap(r)) \/ (c = "api" /\ graph = r))
<1>1. ASSUME NEW q \in Runtimes, Starts(q)
      PROVE  \/ stopper'[<<r, c>>] = stopper[<<r, c>>]
             \/ /\ StopNow(<<r, c>>, "enter", Stop(r, c).data, Stop(r, c).auto, Stop(r, c).vports, Stop(r, c).ports)
                /\ c = "start" /\ Unmap(r)
  <2>1. CASE q # r
    BY <1>1, <2>1, StartApart DEF Same
  <2>2. CASE q = r /\ c = "start" /\ Unmap(r)
    BY <2>2, StartIs
  <2>3. CASE q = r /\ (c # "start" \/ ~Unmap(r))
    BY <1>1, <2>3, StartApart DEF Callers
  <2>4. QED
    BY <2>1, <2>2, <2>3
<1>2. ASSUME NEW q \in Runtimes, NEW d \in Callers, StopStep(<<q, d>>)
      PROVE  stopper'[<<r, c>>] = stopper[<<r, c>>] \/ StopStep(<<r, c>>)
  <2>1. CASE q = r /\ d = c
    BY <1>2, <2>1
  <2>2. CASE q # r \/ d # c
    BY <1>2, <2>2, StopApart DEF Same
  <2>3. QED
    BY <2>1, <2>2
<1>3. CASE (\E t \in Terminals : Uses(t)) \/ UNCHANGED vars
  BY <1>3, OthersSame DEF Same
<1>4. CASE (\E q \in Runtimes : StopSerialGraph(q)) \/ Cleanup \/ CleanupPorts \/ CleanupPairs \/ CleanupMaps
  BY <1>4, ServiceTypes
<1>5. QED
  BY <1>1, <1>2, <1>3, <1>4, Cases

LEMMA HandlesInvStep ==
  ASSUME GpType, NumbersInv, HandlesInv, \A r \in Runtimes : StopsInv(r), [Next]_vars
  PROVE  HandlesInv'
<1>n. /\ nextID \in Nat /\ Runtimes \cap Terminals = {}
      /\ \A h \in handles : h.id \in Nat /\ h.id <= nextID
      /\ \A g, h \in handles : g.id = h.id => g = h
  BY CallersAssumption DEF GpType, NumbersInv
<1>o. \A r \in Runtimes, x \in Nat : Holds(r, x) => x <= nextID
  BY DEF NumbersInv
<1>1. ASSUME NEW h \in handles', NEW r \in Runtimes PROVE h.by = r <=> Holds(r, h.id)'
  <2>1. CASE h \in handles
    <3>1. (h.by = r <=> Holds(r, h.id)) /\ h.id # nextID + 1 /\ HasHandle(h.id) /\ h.id \in Nat
      BY <1>n, <2>1 DEF HandlesInv, HasHandle
    <3>2. /\ Holds(r, h.id)' => Holds(r, h.id) \/ (OpenNode(r) /\ h.id = nextID + 1)
          /\ Holds(r, h.id) => Holds(r, h.id)' \/ ~HasHandle(h.id)
      BY <3>1, HoldsStep
    <3>3. QED
      BY <3>1, <3>2
  <2>2. CASE h \notin handles
    <3>1. PICK by \in Runtimes \cup Terminals :
              /\ New(by)
              /\ (by \in Runtimes => OpenNode(by))
              /\ \A q \in Runtimes : q # by => ~OpenNode(q)
      <4>1. ASSUME NEW q \in Runtimes, OpenNode(q), New(q), \A s \in Runtimes : s # q => ~OpenNode(s)
            PROVE  \E by \in Runtimes \cup Terminals :
                     /\ New(by)
                     /\ (by \in Runtimes => OpenNode(by))
                     /\ \A o \in Runtimes : o # by => ~OpenNode(o)
        BY <4>1
      <4>2. ASSUME NEW t \in Terminals, New(t), \A q \in Runtimes : ~OpenNode(q)
            PROVE  \E by \in Runtimes \cup Terminals :
                     /\ New(by)
                     /\ (by \in Runtimes => OpenNode(by))
                     /\ \A o \in Runtimes : o # by => ~OpenNode(o)
        BY <1>n, <4>2
      <4>3. QED
        BY <2>2, <4>1, <4>2, HandlesStep
    <3>2. h.id = nextID + 1 /\ h.by = by /\ h.id \in Nat
      BY <1>n, <2>2, <3>1 DEF New
    <3>3. ~Holds(r, h.id)
      BY <1>n, <1>o, <3>2
    <3>4. Holds(r, h.id)' => OpenNode(r)
      BY <3>2, <3>3, HoldsStep
    <3>5. OpenNode(r) => Holds(r, h.id)'
      BY <3>2, StartIs DEF StarterNow, Holds
    <3>6. QED
      BY <1>n, <3>1, <3>2, <3>4, <3>5
  <2>3. QED
    BY <2>1, <2>2
<1>t. ASSUME NEW t \in Terminals
      PROVE  /\ terminal'[t].pc \in {"open", "again"} => terminal'[t].port \in TerminalPorts
             /\ terminal'[t].pc \in {"buffer", "using"} =>
                 \/ OpenPortOpens(t) /\ terminal'[t].id = nextID + 1
                 \/ \E h \in handles : h.port \in TerminalPorts /\ terminal'[t].id = h.id
                 \/ terminal[t].pc \in {"buffer", "using"} /\ terminal'[t].id = terminal[t].id
             /\ terminal[t].pc \in {"buffer", "using"} =>
                 \/ terminal'[t].pc \in {"buffer", "using"} /\ terminal'[t].id = terminal[t].id
                 \/ handles' = Close(terminal[t].id)
  <2>1. CASE terminal'[t] = terminal[t]
    BY <2>1 DEF HandlesInv
  <2>2. CASE Uses(t)
    BY <2>2, TerminalMoves
  <2>3. QED
    BY <2>1, <2>2, TerminalStepIs
<1>2. ASSUME NEW h \in handles', NEW t \in Terminals, h.by = t
      PROVE  terminal'[t].id = h.id /\ terminal'[t].pc \in {"buffer", "using"}
  <2>1. CASE h \in handles
    <3>1. terminal[t].id = h.id /\ terminal[t].pc \in {"buffer", "using"}
      BY <1>2, <2>1 DEF HandlesInv
    <3>2. handles' # Close(terminal[t].id)
      BY <3>1 DEF Close
    <3>3. QED
      BY <1>t, <3>1, <3>2
  <2>2. CASE h \notin handles
    <3>1. OpenPortOpens(t) /\ h.id = nextID + 1
      BY <1>n, <1>2, <2>2, HandlesStep DEF New
    <3>2. QED
      BY <3>1, TerminalIs DEF TerminalNow
  <2>3. QED
    BY <2>1, <2>2
<1>3. ASSUME NEW h \in handles', NEW t \in Terminals, terminal'[t].id = h.id, terminal'[t].pc \in {"buffer", "using"}
      PROVE  h.port \in TerminalPorts
  <2>1. CASE h \in handles
    <3>1. h.id # nextID + 1
      BY <1>n, <2>1
    <3>2. \/ \E g \in handles : g.port \in TerminalPorts /\ h.id = g.id
          \/ terminal[t].pc \in {"buffer", "using"} /\ h.id = terminal[t].id
      BY <1>t, <1>3, <3>1
    <3>3. QED
      BY <1>n, <2>1, <3>2 DEF HandlesInv
  <2>2. CASE h \notin handles
    <3>1. h.id = nextID + 1
      BY <2>2, HandlesStep DEF New
    <3>2. terminal[t].id <= nextID /\ terminal[t].id \in Nat
      BY Fields DEF NumbersInv
    <3>3. OpenPortOpens(t)
      BY <1>n, <1>t, <1>3, <3>1, <3>2
    <3>4. terminal[t].port \in TerminalPorts
      BY <3>3 DEF OpenPortOpens, HandlesInv
    <3>5. h.port = terminal[t].port
      <4>1. \A r \in Runtimes : ~OpenNode(r)
        BY <3>3, TerminalIs DEF OpenPortOpens, OpenNode, TerminalNow
      <4>2. PICK u \in Terminals : OpenPortOpens(u) /\ New(u)
        BY <2>2, <4>1, HandlesStep
      <4>3. u = t
        <5>1. u # t => terminal'[t] = terminal[t]
          BY <4>2, TerminalIs DEF TerminalNow
        <5>2. terminal[t].pc = "open" /\ terminal'[t].pc = "buffer"
          BY <3>3, TerminalIs DEF OpenPortOpens, TerminalNow
        <5>3. QED
          BY <5>1, <5>2
      <4>4. QED
        BY <2>2, <4>2, <4>3 DEF New
    <3>6. QED
      BY <3>4, <3>5
  <2>3. QED
    BY <2>1, <2>2
<1>4. ASSUME NEW r \in Runtimes, NEW c \in Callers, stopper'[<<r, c>>].pc = "buffer"
      PROVE  stopper'[<<r, c>>].ports # << >> /\ \A h \in handles' : h.id # Head(stopper'[<<r, c>>].ports)
  <2> DEFINE k == <<r, c>>
  <2>0. k \in Runtimes \X Callers /\ stopper[k].ports \in Seq(Nat)
    BY Fields
  <2>1. CASE stopper'[k] = stopper[k]
    <3>1. stopper[k].ports # << >> /\ ~HasHandle(Head(stopper[k].ports))
      BY <1>4, <2>0, <2>1 DEF HandlesInv
    <3> DEFINE x == Head(stopper[k].ports)
    <3>2. x \in Range(stopper[k].ports) /\ x \in Nat
      BY <2>0, <3>1, TailIs
    <3>3. Holds(r, x)
      BY <3>2 DEF Holds, Stop
    <3>4. x <= nextID
      BY <1>o, <3>2, <3>3
    <3> HIDE DEF x
    <3>5. \A h \in handles' : h.id # x
      BY <1>n, <3>1, <3>2, <3>4, HandlesStep DEF New, HasHandle, x
    <3>6. QED
      BY <2>1, <3>1, <3>5 DEF x
  <2>2. CASE StopStep(k)
    <3>1. StopClose(k) /\ HasHandle(Head(stopper[k].ports))
      BY <1>4, <2>0, <2>2, StopIs DEF StopStep, StopMoves, StopNow, HandlesInv, StopBuffer
    <3>2. stopper'[k].ports = stopper[k].ports
      BY <2>0, <3>1, StopIs DEF StopNow
    <3>3. stopper[k].ports # << >> /\ handles' = Close(Head(stopper[k].ports))
      BY <3>1 DEF StopClose
    <3>4. QED
      BY <3>2, <3>3 DEF Close
  <2>3. CASE StopNow(k, "enter", Stop(r, c).data, Stop(r, c).auto, Stop(r, c).vports, Stop(r, c).ports)
    BY <1>4, <2>3 DEF StopNow
  <2>4. QED
    BY <2>1, <2>2, <2>3, StopperStepIs
<1>5. ASSUME NEW k \in Runtimes \X Callers, stopper'[k].pc = "buffer"
      PROVE  stopper'[k].ports # << >> /\ \A h \in handles' : h.id # Head(stopper'[k].ports)
  <2>1. PICK r \in Runtimes, c \in Callers : k = <<r, c>>
    OBVIOUS
  <2>2. QED
    BY <1>4, <1>5, <2>1
<1>6. QED
  BY <1>1, <1>2, <1>3, <1>5, <1>t DEF HandlesInv, HasHandle


-----------------------------------------------------------------------------
(* The virtual ports                                                       *)

LEMMA StarterStepIs ==
  ASSUME GpType, HandlesInv, [Next]_vars, NEW r \in Runtimes
  PROVE  starter'[r] = starter[r] \/ Starts(r)
<1>1. CASE \E q \in Runtimes : Starts(q)
  BY <1>1, StartApart DEF Same
<1>2. CASE \E q \in Runtimes, c \in Callers : StopStep(<<q, c>>)
  BY <1>2, StopApart
<1>3. CASE (\E t \in Terminals : Uses(t)) \/ UNCHANGED vars
  BY <1>3, OthersSame DEF Same
<1>4. CASE (\E q \in Runtimes : StopSerialGraph(q)) \/ Cleanup \/ CleanupPorts \/ CleanupPairs \/ CleanupMaps
  BY <1>4, ServiceTypes
<1>5. QED
  BY <1>1, <1>2, <1>3, <1>4, Cases

LEMMA PairsStep ==
  ASSUME GpType, HandlesInv, [Next]_vars
  PROVE  pairs' \subseteq pairs \/ \E r \in Runtimes : CreateVirtual(r)
<1>1. ASSUME NEW r \in Runtimes, Starts(r) PROVE pairs' \subseteq pairs \/ CreateVirtual(r)
  BY <1>1 DEF Starts, StartSerialGraph, Moves, Acquires, Sends, OpenNode, UndoVirtual, DeletePair, DeletePairFails, OwnPort, OwnVirtual, Subscribe,
              Unmap, ports
<1>2. CASE \E r \in Runtimes, c \in Callers : StopStep(<<r, c>>)
  BY <1>2, StopTypes
<1>3. CASE (\E t \in Terminals : Uses(t)) \/ UNCHANGED vars
  BY <1>3, TerminalApart DEF vars, ports
<1>4. CASE (\E r \in Runtimes : StopSerialGraph(r)) \/ Cleanup \/ CleanupPorts \/ CleanupPairs \/ CleanupMaps
  BY <1>4, ServiceTypes
<1>5. QED
  BY <1>1, <1>2, <1>3, <1>4, Cases

\* What is recorded of the past is not taken back.
LEMMA StuckStep ==
  ASSUME GpType, [Next]_vars
  PROVE  stuck \subseteq stuck' /\ early \subseteq early'
<1>1. ASSUME NEW r \in Runtimes, StartSerialGraph(r) \/ StartStep(r) \/ StopSerialGraph(r)
      PROVE  stuck \subseteq stuck' /\ early' = early
  BY <1>1 DEF StartSerialGraph, StopSerialGraph, StartStep, Begin, CheckNode, RefuseNode, CreateVirtual, CreateVirtualFails,
       OpenNode, OpenNodeFails, UndoVirtual, DeletePair, DeletePairFails, BindNode, OwnPort, OwnVirtual, NodesStarted,
       Subscribe, StartAutoSenders, StartAutoSendersFails, SetError, Unmap, StartFailed, history
<1>2. ASSUME NEW k \in Runtimes \X Callers, StopStep(k) PROVE stuck \subseteq stuck' /\ early' = early
  BY <1>2 DEF StopStep, StopAgain, StopEnter, CancelData, CancelAuto, StopPair, DeletePair, DeletePairFails, StopPairsDone,
       StopClose, StopBuffer, StopDone, history
<1>3. ASSUME NEW t \in Terminals, TerminalStep(t) \/ ClosePort(t) \/ \E p \in TerminalPorts : OpenPortShares(t, p) \/ OpenPort(t, p)
      PROVE  stuck' = stuck /\ early \subseteq early'
  BY <1>3 DEF TerminalStep, OpenPortOpens, OpenPortFails, OpenPortConflict, OpenPortAgain, OpenPortBuffer,
       ClosePortBuffer, OpenPortShares, OpenPort, ClosePort, history
<1>4. CASE Cleanup \/ CleanupStep
  BY <1>4 DEF Cleanup, CleanupStep, CleanupPorts, CleanupPairs, CleanupMaps, history
<1>5. CASE UNCHANGED vars
  BY <1>5 DEF vars, history
<1>6. QED
  BY <1>1, <1>2, <1>3, <1>4, <1>5 DEF Next

LEMMA PairsInvStep ==
  ASSUME GpType, HandlesInv, PairsInv, \A r \in Runtimes : StopsInv(r), [Next]_vars
  PROVE  PairsInv'
<1>1. ASSUME NEW p \in pairs', NEW q \in pairs', p.id = q.id PROVE p = q
  <2>1. CASE p \in pairs /\ q \in pairs
    BY <1>1, <2>1 DEF PairsInv
  <2>2. CASE p \notin pairs \/ q \notin pairs
    BY <1>1, <2>2, PairsStep DEF CreateVirtual, HasPair
  <2>3. QED
    BY <2>1, <2>2
<1>2. ASSUME NEW p \in pairs', p \in pairs
      PROVE  IsVirtual(p.id) /\ p.owner \in Runtimes /\ (p \in stuck' \/ HoldsPair(p.owner, p.id)')
  <2>1. p.id \in Nat /\ p.owner \in Runtimes /\ IsVirtual(p.id) /\ (p \in stuck \/ HoldsPair(p.owner, p.id))
    BY <1>2 DEF GpType, PairsInv
  <2>2. CASE p \in stuck
    BY <2>1, <2>2, StuckStep
  <2>3. CASE UndoVirtual(p.owner) /\ p.id = starter[p.owner].node
    BY <1>2, <2>1, <2>3 DEF UndoVirtual, DeletePair, DeletePairFails
  <2>4. CASE \E c \in Callers : StopPair(<<p.owner, c>>) /\ p.id = Head(Stop(p.owner, c).vports)
    BY <1>2, <2>1, <2>4 DEF StopPair, DeletePair, DeletePairFails, Stop
  <2>5. QED
    BY <2>1, <2>2, <2>3, <2>4, HoldsStep
<1>3. ASSUME NEW p \in pairs', p \notin pairs PROVE IsVirtual(p.id) /\ p.owner \in Runtimes /\ HoldsPair(p.owner, p.id)'
  <2>1. PICK r \in Runtimes : CreateVirtual(r)
    BY <1>3, PairsStep
  <2>2. p.id = starter[r].node /\ p.owner = r /\ starter[r].pc = "create"
    BY <1>3, <2>1 DEF CreateVirtual, At
  <2>3. starter'[r].pc = "open" /\ starter'[r].node = p.id
    BY <2>1, <2>2, StartIs DEF StarterNow
  <2>4. QED
    BY <2>2, <2>3 DEF PairsInv, HoldsPair
<1>4. ASSUME NEW r \in Runtimes, starter'[r].pc \in {"create", "undo", "ownV"} PROVE IsVirtual(starter'[r].node)
  <2>1. CASE starter'[r] = starter[r]
    BY <1>4, <2>1 DEF PairsInv
  <2>2. CASE StartSerialGraph(r)
    BY <1>4, <2>2, StartIs DEF StarterNow
  <2>3. CASE Moves(r)
    BY <1>4, <2>3 DEF Moves, Way, StarterNow, PairsInv
  <2>4. CASE Acquires(r)
    BY <1>4, <2>4, StartIs DEF Acquires, StarterNow, Sends
  <2>5. QED
    BY <2>1, <2>2, <2>3, <2>4, StarterStepIs DEF Starts
<1>5. QED
  BY <1>1, <1>2, <1>3, <1>4 DEF PairsInv, IsVirtual

-----------------------------------------------------------------------------
(* Subscription, senders, and what the stops have                          *)

LEMMA StartStops ==
  ASSUME GpType, NEW r \in Runtimes, StopsInv(r), Starts(r)
  PROVE  StopsInv(r)'
<1>0. r # None /\ Stop(r, "start") = stopper[<<r, "start">>] /\ Stop(r, "api") = stopper[<<r, "api">>] /\ Callers = {"api", "start"}
  BY CallersAssumption DEF Stop, Callers
<1>1. CASE StartSerialGraph(r)
  <2>1. UNCHANGED <<rt, stopper, shutdown>> /\ graph' = r /\ starter'[r].pc = "begin" /\ starter[r].pc = "new"
    BY <1>1, StartIs DEF StartSerialGraph, StarterNow, At
  <2>2. QED
    BY <1>0, <2>1 DEF StopsInv, Stop, Given
<1>2. CASE Moves(r)
  <2>1. PICK pc \in StarterStates, status \in {"idle", "running", "error", "stopped"} :
            Way(r, pc, status) /\ StarterNow(r, pc, starter[r].node, starter[r].id) /\ SameLists(r, status)
    BY <1>2 DEF Moves
  <2>2. /\ UNCHANGED <<stopper, shutdown, graph>>
        /\ starter'[r].pc = pc /\ rt'[r].status = status /\ (Given(r)' <=> Given(r))
    BY <1>2, <2>1 DEF Moves, StarterNow, SameLists, RtNow, Given
  <2>3. QED
    BY <1>0, <2>1, <2>2 DEF StopsInv, Stop, Way
<1>3. CASE Acquires(r) /\ ~Unmap(r)
  <2>1. /\ UNCHANGED <<stopper, shutdown, graph>>
        /\ starter[r].pc \in {"create", "open", "undo", "own", "ownV", "subscribe", "auto"}
        /\ starter'[r].pc \notin {"new", "unmap", "stop", "failed"}
    BY <1>3, StartIs DEF Acquires, StarterNow, Sends, CreateVirtual, OpenNode, UndoVirtual, OwnPort, OwnVirtual, Subscribe, At
  <2>2. QED
    BY <1>0, <2>1 DEF StopsInv, Stop
<1>4. CASE Unmap(r)
  <2>1. starter[r].pc = "unmap" /\ graph' # r /\ UNCHANGED <<rt, shutdown>>
    BY <1>0, <1>4 DEF Unmap, At
  <2>3. /\ StarterNow(r, "stop", starter[r].node, starter[r].id)
        /\ StopNow(<<r, "start">>, "enter", Stop(r, "start").data, Stop(r, "start").auto, Stop(r, "start").vports, Stop(r, "start").ports)
    BY <1>4, StartIs
  <2>4. /\ starter'[r].pc = "stop"
        /\ stopper'[<<r, "start">>].pc = "enter" /\ stopper'[<<r, "api">>] = stopper[<<r, "api">>]
        /\ stopper'[<<r, "start">>].ports = stopper[<<r, "start">>].ports
        /\ stopper'[<<r, "start">>].vports = stopper[<<r, "start">>].vports
    BY <1>0, <2>3 DEF StarterNow, StopNow
  <2>2. QED
    BY <1>0, <2>1, <2>4 DEF StopsInv, Stop, Given
<1>5. QED
  BY <1>1, <1>2, <1>3, <1>4 DEF Starts

LEMMA StopStops ==
  ASSUME GpType, HandlesInv, NEW r \in Runtimes, StopsInv(r), NEW c \in Callers, StopStep(<<r, c>>)
  PROVE  StopsInv(r)'
<1> DEFINE k == <<r, c>>
<1>0. /\ Callers = {"api", "start"} /\ k \in Runtimes \X Callers
      /\ \A d \in Callers : d # c => stopper'[<<r, d>>] = stopper[<<r, d>>]
      /\ UNCHANGED <<graph, starter, shutdown>> /\ (~StopEnter(k) => rt' = rt)
  BY StopApart DEF Callers
<1>1. CASE StopMoves(k)
  <2>1. PICK pc \in StopperStates :
            /\ \/ stopper[k].pc = "enter" /\ rt[k[1]].status = "stopped" /\ pc = "done"
               \/ stopper[k].pc = "pairs" /\ stopper[k].vports = << >> /\ pc = "close"
               \/ stopper[k].pc = "close" /\ stopper[k].ports = << >> /\ pc = "done"
            /\ StopNow(k, pc, stopper[k].data, stopper[k].auto, stopper[k].vports, stopper[k].ports)
    BY <1>1 DEF StopMoves
  <2>2. stopper'[k].pc = pc /\ stopper'[k].vports = stopper[k].vports /\ stopper'[k].ports = stopper[k].ports /\ rt' = rt /\ k[1] = r
    BY <1>1, <2>1 DEF StopNow, StopMoves
  <2>3. QED
    BY <1>0, <2>1, <2>2 DEF StopsInv, Stop, Given
<1>2. CASE StopEnter(k)
  <2>1. /\ k[1] = r /\ stopper[k].pc = "enter" /\ StopNow(k, "cancel", rt[r].cancelData, rt[r].cancelAuto, rt[r].ownedV, rt[r].owned)
        /\ RtNow(r, "stopped", << >>, << >>, FALSE, FALSE)
    BY <1>0, <1>2, StopIs DEF StopEnter
  <2>3. stopper'[k].pc = "cancel" /\ rt'[r].status = "stopped" /\ Given(r)'
    BY <2>1 DEF StopNow, RtNow, Given
  <2>2. QED
    BY <1>0, <2>1, <2>3 DEF StopsInv, Stop
<1>3. CASE CancelData(k) \/ CancelAuto(k) \/ StopPair(k)
  <2>1. stopper[k].pc \in {"cancel", "cancelAuto", "pairs"} /\ stopper'[k].pc \in {"cancelAuto", "pairs"} /\ rt' = rt
    BY <1>3, StopIs DEF CancelData, CancelAuto, StopPair, StopNow
  <2>2. QED
    BY <1>0, <2>1 DEF StopsInv, Stop, Given
<1>4. CASE StopClose(k) \/ StopBuffer(k)
  <2>1. /\ stopper[k].pc \in {"close", "buffer"} /\ stopper'[k].pc \in {"close", "buffer"} /\ rt' = rt
        /\ stopper'[k].vports = stopper[k].vports
    BY <1>0, <1>4, StopIs DEF StopClose, StopBuffer, StopNow, HandlesInv
  <2>2. QED
    BY <1>0, <2>1 DEF StopsInv, Stop, Given
<1>5. QED
  BY <1>1, <1>2, <1>3, <1>4, StopIs DEF StopStep

LEMMA StopsInvStep ==
  ASSUME GpType, HandlesInv, \A q \in Runtimes : StopsInv(q), [Next]_vars, NEW r \in Runtimes
  PROVE  StopsInv(r)'
<1>0. r # None /\ Callers = {"api", "start"}
  BY CallersAssumption DEF Callers
<1>1. ASSUME Same(r), graph' = r => graph = r, shutdown' = "idle" => shutdown = "idle" /\ (graph = r => graph' = r)
      PROVE  StopsInv(r)'
  BY <1>0, <1>1 DEF Same, StopsInv, Stop, Given
<1>2. ASSUME NEW q \in Runtimes, Starts(q) PROVE StopsInv(r)'
  <2>1. CASE q = r
    BY <1>2, <2>1, StartStops
  <2>2. CASE q # r
    <3>1. Same(r) /\ shutdown' = shutdown
      BY <1>2, <2>2, StartApart
    <3>2. (graph' = r => graph = r) /\ (graph = r => graph' = r)
      <4>1. CASE StartSerialGraph(q)
        BY <1>0, <2>2, <4>1 DEF StartSerialGraph
      <4>2. CASE Unmap(q)
        BY <1>0, <2>2, <4>2 DEF Unmap
      <4>3. CASE Moves(q) \/ (Acquires(q) /\ ~Unmap(q))
        <5>1. graph' = graph
          BY <4>3 DEF Moves, Acquires, Sends, CreateVirtual, OpenNode, UndoVirtual, OwnPort, OwnVirtual, Subscribe
        <5>2. QED
          BY <5>1
      <4>4. QED
        BY <1>2, <4>1, <4>2, <4>3 DEF Starts
    <3>3. QED
      BY <1>1, <3>1, <3>2
  <2>3. QED
    BY <2>1, <2>2
<1>3. ASSUME NEW q \in Runtimes, NEW c \in Callers, StopStep(<<q, c>>) PROVE StopsInv(r)'
  <2>1. CASE q = r
    BY <1>3, <2>1, StopStops
  <2>2. CASE q # r
    BY <1>1, <1>3, <2>2, StopApart
  <2>3. QED
    BY <2>1, <2>2
<1>4. CASE \E t \in Terminals : Uses(t)
  BY <1>1, <1>4, TerminalApart DEF Same
<1>5. CASE (\E q \in Runtimes : StopSerialGraph(q)) \/ Cleanup
  <2>1. /\ UNCHANGED <<rt, starter>> /\ graph' = None
        /\ shutdown' = "idle" => shutdown = "idle" /\ \E q \in Runtimes : StopSerialGraph(q)
    BY <1>5, ServiceTypes DEF StopSerialGraph, Cleanup
  <2>2. CASE \A c \in Callers : stopper'[<<r, c>>] = stopper[<<r, c>>]
    <3>1. shutdown' = "idle" => graph # r
      <4>1. ASSUME NEW q \in Runtimes, StopSerialGraph(q), graph = r, StopsInv(r) PROVE FALSE
        <5>1. stopper' = [stopper EXCEPT ![<<r, "api">>].pc = "enter"] /\ Stop(r, "api").pc = "idle"
          BY <4>1 DEF StopSerialGraph, StopsInv
        <5>2. stopper'[<<r, "api">>].pc = "enter"
          BY <5>1, StopBegins DEF StopNow
        <5>3. QED
          BY <1>0, <2>2, <5>1, <5>2 DEF Stop
      <4>2. QED
        BY <2>1, <4>1
    <3>2. QED
      BY <1>0, <1>1, <2>1, <2>2, <3>1 DEF Same
  <2>3. CASE \E c \in Callers : stopper'[<<r, c>>] # stopper[<<r, c>>]
    <3>1. /\ graph = r /\ stopper'[<<r, "start">>] = stopper[<<r, "start">>]
          /\ StopNow(<<r, "api">>, "enter", Stop(r, "api").data, Stop(r, "api").auto, Stop(r, "api").vports, Stop(r, "api").ports)
      BY <1>0, <1>5, <2>3, ServiceTypes
    <3>2. QED
      BY <1>0, <2>1, <3>1 DEF StopsInv, Stop, StopNow, Given
  <2>4. QED
    BY <2>2, <2>3
<1>6. CASE CleanupPorts \/ CleanupPairs \/ CleanupMaps \/ UNCHANGED vars
  <2>1. Same(r)
    BY <1>6, OthersSame
  <2>2. graph' = graph \/ (graph' = None /\ shutdown' = "done")
    BY <1>6 DEF CleanupPorts, CleanupPairs, CleanupMaps, vars
  <2>3. shutdown' = "idle" => shutdown = "idle"
    BY <1>6 DEF CleanupPorts, CleanupPairs, CleanupMaps, vars
  <2>4. QED
    BY <1>0, <1>1, <2>1, <2>2, <2>3
<1>7. QED
  BY <1>2, <1>3, <1>4, <1>5, <1>6, Cases

LEMMA StartBus ==
  ASSUME GpType, NEW r \in Runtimes, StopsInv(r), BusInv(r), Starts(r)
  PROVE  BusInv(r)'
<1>0. Callers = {"api", "start"}
  BY DEF Callers
<1>1. CASE StartSerialGraph(r)
  BY <1>1 DEF StartSerialGraph, BusInv, Stop
<1>2. CASE Moves(r)
  <2>1. /\ UNCHANGED <<stopper, bus, senders>>
        /\ rt'[r].cancelData = rt[r].cancelData /\ rt'[r].cancelAuto = rt[r].cancelAuto
    BY <1>2 DEF Moves, SameLists, RtNow
  <2>2. QED
    BY <2>1 DEF BusInv, Stop
<1>3. CASE CreateVirtual(r) \/ OpenNode(r) \/ UndoVirtual(r)
  BY <1>3 DEF CreateVirtual, OpenNode, UndoVirtual, BusInv, Stop
<1>4. CASE OwnPort(r) \/ OwnVirtual(r)
  <2>1. /\ UNCHANGED <<stopper, bus, senders>>
        /\ rt'[r].cancelData = rt[r].cancelData /\ rt'[r].cancelAuto = rt[r].cancelAuto
    BY <1>4, StartIs DEF OwnPort, OwnVirtual, RtNow
  <2>2. QED
    BY <2>1 DEF BusInv, Stop
<1>5. CASE Subscribe(r)
  <2>1. /\ UNCHANGED <<stopper, senders>>
        /\ rt'[r].cancelData /\ rt'[r].cancelAuto = rt[r].cancelAuto
    BY <1>5, StartIs DEF Subscribe, RtNow
  <2>2. QED
    BY <2>1 DEF BusInv, Stop
<1>6. CASE Sends(r)
  <2>1. /\ UNCHANGED <<stopper, bus>>
        /\ rt'[r].cancelAuto /\ rt'[r].cancelData = rt[r].cancelData
    BY <1>6 DEF Sends, RtNow
  <2>2. QED
    BY <2>1 DEF BusInv, Stop
<1>7. CASE Unmap(r)
  <2>1. /\ UNCHANGED <<rt, bus, senders>> /\ stopper'[<<r, "api">>] = stopper[<<r, "api">>]
        /\ stopper[<<r, "start">>].pc = "idle"
    BY <1>7, StartIs DEF Unmap, At, StopNow, StopsInv, Stop, Callers
  <2>2. QED
    BY <1>0, <2>1 DEF BusInv, Stop
<1>8. QED
  BY <1>1, <1>2, <1>3, <1>4, <1>5, <1>6, <1>7 DEF Starts, Acquires

LEMMA StopBus ==
  ASSUME GpType, HandlesInv, NEW r \in Runtimes, BusInv(r), NEW c \in Callers, StopStep(<<r, c>>)
  PROVE  BusInv(r)'
<1> DEFINE k == <<r, c>>
<1>0. /\ k \in Runtimes \X Callers /\ k[1] = r
      /\ \A d \in Callers : d # c => stopper'[<<r, d>>] = stopper[<<r, d>>]
      /\ ~StopEnter(k) => rt' = rt
  BY StopApart
<1>1. CASE StopMoves(k)
  <2>1. /\ UNCHANGED <<rt, bus, senders>> /\ stopper[k].pc \notin {"cancel", "cancelAuto"}
    BY <1>1 DEF StopMoves
  <2>2. QED
    BY <1>0, <2>1 DEF BusInv, Stop
<1>2. CASE StopEnter(k)
  <2>1. /\ UNCHANGED <<bus, senders>> /\ stopper[k].pc = "enter" /\ stopper'[k].pc = "cancel"
        /\ stopper'[k].data = rt[r].cancelData /\ stopper'[k].auto = rt[r].cancelAuto
    BY <1>0, <1>2, StopIs DEF StopEnter, StopNow
  <2>2. QED
    BY <1>0, <2>1 DEF BusInv, Stop
<1>3. CASE CancelData(k)
  <2>1. /\ stopper[k].pc = "cancel" /\ stopper'[k].pc = "cancelAuto" /\ stopper'[k].auto = stopper[k].auto
        /\ UNCHANGED <<rt, senders>>
        /\ bus' = IF stopper[k].data THEN bus \ {r} ELSE bus
    BY <1>0, <1>3, StopIs DEF CancelData, StopNow
  <2>2. QED
    BY <1>0, <2>1 DEF BusInv, Stop
<1>4. CASE CancelAuto(k)
  <2>1. /\ stopper[k].pc = "cancelAuto" /\ UNCHANGED <<rt, bus>>
        /\ senders' = IF stopper[k].auto THEN senders \ {r} ELSE senders
    BY <1>0, <1>4, StopIs DEF CancelAuto, StopNow
  <2>2. QED
    BY <1>0, <2>1 DEF BusInv, Stop
<1>5. CASE StopPair(k) \/ StopClose(k) \/ StopBuffer(k)
  <2>1. stopper[k].pc \notin {"cancel", "cancelAuto"} /\ UNCHANGED <<rt, bus, senders>>
    BY <1>5 DEF StopPair, StopClose, StopBuffer
  <2>2. QED
    BY <1>0, <2>1 DEF BusInv, Stop
<1>6. QED
  BY <1>1, <1>2, <1>3, <1>4, <1>5, StopIs DEF StopStep

LEMMA BusInvStep ==
  ASSUME GpType, HandlesInv, \A q \in Runtimes : StopsInv(q) /\ BusInv(q), [Next]_vars, NEW r \in Runtimes
  PROVE  BusInv(r)'
<1>1. ASSUME Same(r), r \in bus' => r \in bus, r \in senders' => r \in senders
      PROVE  BusInv(r)'
  BY <1>1 DEF Same, BusInv, Stop
<1>2. ASSUME NEW q \in Runtimes, Starts(q) PROVE BusInv(r)'
  <2>1. CASE q = r
    BY <1>2, <2>1, StartBus
  <2>2. CASE q # r
    <3>1. bus' \subseteq bus \cup {q} /\ senders' \subseteq senders \cup {q}
      BY <1>2 DEF Starts, StartSerialGraph, Moves, Acquires, Sends, CreateVirtual, OpenNode, UndoVirtual, OwnPort, OwnVirtual,
           Subscribe, Unmap
    <3>2. QED
      BY <1>1, <1>2, <2>2, <3>1, StartApart
  <2>3. QED
    BY <2>1, <2>2
<1>3. ASSUME NEW q \in Runtimes, NEW c \in Callers, StopStep(<<q, c>>) PROVE BusInv(r)'
  <2>1. CASE q = r
    BY <1>3, <2>1, StopBus
  <2>2. CASE q # r
    <3>1. bus' \subseteq bus /\ senders' \subseteq senders
      BY <1>3 DEF StopStep, StopAgain, StopEnter, CancelData, CancelAuto, StopPair, StopPairsDone, StopClose, StopBuffer, StopDone
    <3>2. QED
      BY <1>1, <1>3, <2>2, <3>1, StopApart
  <2>3. QED
    BY <2>1, <2>2
<1>4. CASE \E t \in Terminals : Uses(t)
  BY <1>1, <1>4, TerminalApart DEF Same
<1>5. CASE (\E q \in Runtimes : StopSerialGraph(q)) \/ Cleanup
  <2>1. UNCHANGED <<rt, bus, senders>>
    BY <1>5 DEF StopSerialGraph, Cleanup
  <2>2. ASSUME NEW c \in Callers, stopper'[<<r, c>>] # stopper[<<r, c>>] PROVE Stop(r, c).pc = "idle"
    BY <1>5, <2>2, ServiceTypes DEF StopsInv
  <2>3. QED
    BY <2>1, <2>2 DEF BusInv, Stop
<1>6. CASE CleanupPorts \/ CleanupPairs \/ CleanupMaps \/ UNCHANGED vars
  <2>1. UNCHANGED <<bus, senders>>
    BY <1>6 DEF CleanupPorts, CleanupPairs, CleanupMaps, vars
  <2>2. QED
    BY <1>1, <1>6, <2>1, OthersSame
<1>7. QED
  BY <1>2, <1>3, <1>4, <1>5, <1>6, Cases

-----------------------------------------------------------------------------
(* A start that failed                                                     *)

LEMMA FailedInit == Init => FailedInv
<1> SUFFICES ASSUME Init PROVE FailedInv
  OBVIOUS
<1>1. GpType
  BY TypeInit
<1>2. /\ handles = {} /\ nextID = 0 /\ pairs = {} /\ graph = None /\ bus = {} /\ senders = {} /\ shutdown = "idle"
      /\ \A r \in Runtimes : /\ starter[r].pc = "new" /\ r # None
                             /\ rt[r].owned = << >> /\ rt[r].ownedV = << >> /\ ~rt[r].cancelData /\ ~rt[r].cancelAuto
      /\ \A k \in Runtimes \X Callers : stopper[k].pc = "idle" /\ stopper[k].vports = << >> /\ stopper[k].ports = << >>
      /\ \A t \in Terminals : terminal[t].pc = "idle" /\ terminal[t].id = 0
  BY CallersAssumption DEF Init, NewRuntime, NotStopping, IdleTerminal
<1>h. \A r \in Runtimes : \A x : ~Holds(r, x)
  BY <1>2, EmptyIs DEF Holds, Stop
<1>3. NumbersInv /\ HandlesInv /\ PairsInv
  BY <1>2, <1>h DEF NumbersInv, HandlesInv, PairsInv
<1>4. \A r \in Runtimes : BusInv(r) /\ StopsInv(r)
  BY <1>2 DEF BusInv, StopsInv, Stop, Callers
<1>5. QED
  BY <1>1, <1>3, <1>4 DEF FailedInv

LEMMA FailedStep ==
  ASSUME FailedInv, [Next]_vars
  PROVE  FailedInv'
<1> USE DEF FailedInv
<1>1. GpType'
  BY TypeStep
<1>2. NumbersInv'
  BY NumbersStep
<1>3. HandlesInv'
  BY HandlesInvStep
<1>4. PairsInv'
  BY PairsInvStep
<1>5. ASSUME NEW r \in Runtimes PROVE BusInv(r)' /\ StopsInv(r)'
  BY BusInvStep, StopsInvStep
<1>6. QED
  BY <1>1, <1>2, <1>3, <1>4, <1>5

\* A runtime whose lists are empty and whose calls are over holds nothing.
LEMMA NothingHeld ==
  ASSUME FailedInv, NEW r \in Runtimes, Given(r), ~InProgress(r),
         \A c \in Callers : Stop(r, c).pc \in {"idle", "done"}
  PROVE  Clean(r)
<1> USE DEF FailedInv
<1>1. \A c \in Callers : Stop(r, c).ports = << >> /\ Stop(r, c).vports = << >>
  BY DEF StopsInv
<1>2. starter[r].pc \in {"new", "started", "failed"}
  BY DEF InProgress
<1>3. \A x : ~Holds(r, x) /\ ~HoldsPair(r, x)
  BY <1>1, <1>2, EmptyIs DEF Holds, HoldsPair, Given
<1>4. r \notin bus /\ r \notin senders
  BY DEF BusInv, Given
<1>5. \A h \in handles : h.by # r
  BY <1>3 DEF HandlesInv
<1>6. \A p \in pairs \ stuck : p.owner # r
  BY <1>3 DEF PairsInv
<1>7. QED
  BY <1>4, <1>5, <1>6 DEF Clean

LEMMA FailedNow == FailedInv => FailedStartIsUndone
<1> SUFFICES ASSUME FailedInv PROVE FailedStartIsUndone
  OBVIOUS
<1> USE DEF FailedInv
<1>1. ASSUME NEW r \in Runtimes, At(r, "failed"), StopEnds(r) PROVE Clean(r)
  <2>1. Given(r) /\ ~InProgress(r)
    BY <1>1 DEF StopsInv, At, InProgress, Stop, Callers
  <2>2. \A c \in Callers : Stop(r, c).pc \in {"idle", "done"}
    BY <1>1 DEF StopEnds, Stop
  <2>3. QED
    BY <2>1, <2>2, NothingHeld
<1>2. StartedIsListed
  BY DEF StartedIsListed, At, StopsInv, Stop
<1>3. QED
  BY <1>1, <1>2 DEF FailedStartIsUndone, FailedStartIsClean

\* A start that fails at any of its steps (startResourceNodes and the error
\* path of StartSerialGraph) gives back what it acquired, also when a stop of
\* the same runtime or the shutdown runs in the middle of it, and takes only
\* itself out of the map.
THEOREM FailedStartIsUndoneAlways == Spec => []FailedStartIsUndone
<1>1. FailedInv /\ [Next]_vars => FailedInv'
  BY FailedStep
<1>2. QED
  BY <1>1, FailedInit, FailedNow, PTL DEF Spec

-----------------------------------------------------------------------------
(* Taking turns: calls that do not overlap                                 *)

LEMMA QuietStep ==
  ASSUME Overlap = FALSE, GpType, HandlesInv, AlsoQuiet, [Next]_vars
  PROVE  AlsoQuiet'
<1>1. CASE Cleanup
  <2>1. graph' = None /\ \A t \in Terminals : terminal'[t].pc \in {"idle", "using"}
    BY <1>1 DEF Cleanup, Quiet, Calling
  <2>2. QED
    BY <2>1 DEF AlsoQuiet
<1>2. CASE ~Cleanup
  <2>1. ASSUME shutdown' \notin {"idle", "done"} PROVE shutdown \notin {"idle", "done"} /\ graph' = None
    <3>1. ASSUME NEW r \in Runtimes, Starts(r) PROVE shutdown' = shutdown /\ (shutdown \notin {"idle", "done"} => graph' = None)
      <4>1. CASE StartSerialGraph(r)
        BY <4>1 DEF StartSerialGraph
      <4>2. CASE Unmap(r)
        BY <4>2 DEF Unmap, AlsoQuiet
      <4>3. CASE Moves(r) \/ (Acquires(r) /\ ~Unmap(r))
        <5>1. graph' = graph /\ shutdown' = shutdown
          BY <4>3 DEF Moves, Acquires, Sends, CreateVirtual, OpenNode, UndoVirtual, OwnPort, OwnVirtual, Subscribe
        <5>2. QED
          BY <5>1 DEF AlsoQuiet
      <4>4. QED
        BY <3>1, <4>1, <4>2, <4>3 DEF Starts
    <3>2. CASE \E r \in Runtimes, c \in Callers : StopStep(<<r, c>>)
      <4>1. UNCHANGED <<graph, shutdown>>
        BY <3>2, StopApart
      <4>2. QED
        BY <2>1, <4>1 DEF AlsoQuiet
    <3>3. CASE \E t \in Terminals : Uses(t)
      <4>1. UNCHANGED <<graph, shutdown>>
        BY <3>3, TerminalApart
      <4>2. QED
        BY <2>1, <4>1 DEF AlsoQuiet
    <3>4. CASE (\E r \in Runtimes : StopSerialGraph(r)) \/ CleanupPorts \/ CleanupPairs \/ CleanupMaps \/ UNCHANGED vars
      BY <2>1, <3>4 DEF AlsoQuiet, StopSerialGraph, CleanupPorts, CleanupPairs, CleanupMaps, vars
    <3>5. QED
      BY <1>2, <2>1, <3>1, <3>2, <3>3, <3>4, Cases
  <2>2. ASSUME NEW t \in Terminals, shutdown \notin {"idle", "done"} PROVE terminal'[t].pc \in {"idle", "using"}
    <3>1. terminal[t].pc \in {"idle", "using"}
      BY <2>2 DEF AlsoQuiet
    <3>2. CASE Uses(t)
      <4>1. \E p \in TerminalPorts : OpenPortShares(t, p)
        BY <2>2, <3>1, <3>2 DEF Uses, TerminalStep, OpenPortOpens, OpenPortFails, OpenPortConflict, OpenPortAgain, OpenPortBuffer,
             ClosePortBuffer, ClosePort, OpenPort
      <4>2. QED
        BY <4>1, TerminalIs DEF TerminalNow
    <3>3. QED
      BY <3>1, <3>2, TerminalStepIs
  <2>3. QED
    BY <2>1, <2>2 DEF AlsoQuiet
<1>3. QED
  BY <1>1, <1>2

LEMMA StartTurns ==
  ASSUME Overlap = FALSE, GpType, NEW r \in Runtimes, StopsInv(r), TurnsInv(r), Starts(r)
  PROVE  TurnsInv(r)'
<1>0. r # None /\ stopper'[<<r, "api">>] = stopper[<<r, "api">>] /\ shutdown' = shutdown
  BY CallersAssumption, StartApart
<1>1. CASE StartSerialGraph(r)
  <2>1. UNCHANGED rt /\ graph' = r /\ starter'[r].pc = "begin" /\ starter[r].pc = "new" /\ shutdown \in {"idle", "done"}
    BY <1>1, StartIs DEF StartSerialGraph, StarterNow, At
  <2>2. QED
    BY <1>0, <2>1 DEF TurnsInv, Stop, Given
<1>2. CASE Moves(r)
  <2>1. PICK pc \in StarterStates, status \in {"idle", "running", "error", "stopped"} :
            Way(r, pc, status) /\ StarterNow(r, pc, starter[r].node, starter[r].id) /\ SameLists(r, status)
    BY <1>2 DEF Moves
  <2>2. /\ graph' = graph /\ starter'[r].pc = pc /\ rt'[r].status = status /\ (Given(r)' <=> Given(r))
    BY <1>2, <2>1 DEF Moves, StarterNow, SameLists, RtNow, Given
  <2>3. starter[r].pc \notin {"new", "started", "failed"} /\ pc # "new" /\ (pc = "failed" <=> starter[r].pc = "stop") /\ pc # "stop"
    BY <2>1 DEF Way
  <2>4. status = "stopped" => rt[r].status = "stopped"
    BY <2>1 DEF Way
  <2>5. QED
    BY <1>0, <2>2, <2>3, <2>4 DEF TurnsInv, Stop
<1>3. CASE Acquires(r) /\ ~Unmap(r)
  <2>1. /\ graph' = graph /\ rt'[r].status = rt[r].status
        /\ starter[r].pc \in {"create", "open", "undo", "own", "ownV", "subscribe", "auto"}
        /\ starter'[r].pc \notin {"new", "unmap", "stop", "failed"}
    BY <1>3, StartIs DEF Acquires, StarterNow, RtNow, Sends, CreateVirtual, OpenNode, UndoVirtual, OwnPort, OwnVirtual, Subscribe, At
  <2>2. QED
    BY <1>0, <2>1 DEF TurnsInv, Stop
<1>4. CASE Unmap(r)
  <2>1. starter[r].pc = "unmap" /\ starter'[r].pc = "stop" /\ UNCHANGED rt
    BY <1>4, StartIs DEF Unmap, At, StarterNow
  <2>2. QED
    BY <1>0, <2>1 DEF TurnsInv, Stop, Given
<1>5. QED
  BY <1>1, <1>2, <1>3, <1>4 DEF Starts

LEMMA StopTurns ==
  ASSUME GpType, HandlesInv, NEW r \in Runtimes, StopsInv(r), TurnsInv(r), NEW c \in Callers, StopStep(<<r, c>>)
  PROVE  TurnsInv(r)'
<1> DEFINE k == <<r, c>>
<1>0. /\ k \in Runtimes \X Callers /\ k[1] = r
      /\ \A d \in Callers : d # c => stopper'[<<r, d>>] = stopper[<<r, d>>]
      /\ UNCHANGED <<graph, starter, shutdown>> /\ (~StopEnter(k) => rt' = rt)
  BY StopApart
<1>1. CASE StopEnter(k)
  <2>1. stopper[k].pc = "enter" /\ StopNow(k, "cancel", rt[r].cancelData, rt[r].cancelAuto, rt[r].ownedV, rt[r].owned)
        /\ RtNow(r, "stopped", << >>, << >>, FALSE, FALSE)
    BY <1>0, <1>1, StopIs DEF StopEnter
  <2>2. stopper'[k].pc = "cancel" /\ rt'[r].status = "stopped" /\ Given(r)'
    BY <2>1 DEF StopNow, RtNow, Given
  <2>3. c = "start" \/ c = "api"
    BY DEF Callers
  <2>4. CASE c = "start"
    BY <1>0, <2>1, <2>2, <2>4 DEF TurnsInv, StopsInv, Stop, Callers
  <2>5. CASE c = "api"
    BY <1>0, <2>1, <2>2, <2>5 DEF TurnsInv, Stop
  <2>6. QED
    BY <2>3, <2>4, <2>5
<1>2. CASE ~StopEnter(k)
  <2>1. rt' = rt
    BY <1>0, <1>2
  <2>2. CASE c = "start"
    BY <1>0, <2>1, <2>2 DEF TurnsInv, Stop, Given, Callers
  <2>3. CASE c = "api"
    <3>1. stopper[k].pc \notin {"idle", "enter", "done"}
      <4>1. stopper[k].pc \notin {"idle", "done"}
        BY <1>0 DEF StopStep, StopAgain, StopEnter, CancelData, CancelAuto, StopPair, StopPairsDone, StopClose, StopBuffer, StopDone
      <4>2. stopper[k].pc = "enter" => StopAgain(k)
        BY <1>0, <1>2 DEF StopStep, CancelData, CancelAuto, StopPair, StopPairsDone, StopClose, StopBuffer, StopDone
      <4>3. ~StopAgain(k)
        BY <1>0, <2>3 DEF StopAgain, TurnsInv, Stop
      <4>4. QED
        BY <4>1, <4>2, <4>3
    <3>2. stopper'[k].pc \notin {"idle", "enter"}
      <4>1. CASE StopMoves(k)
        BY <4>1 DEF StopMoves, StopNow
      <4>2. CASE CancelData(k) \/ CancelAuto(k) \/ StopPair(k) \/ StopClose(k)
        BY <1>0, <4>2, StopIs DEF StopNow
      <4>3. CASE StopBuffer(k)
        <5>1. stopper[k].ports # << >>
          BY <1>0, <4>3 DEF HandlesInv, StopBuffer
        <5>2. QED
          BY <1>0, <4>3, <5>1, StopIs DEF StopNow
      <4>4. QED
        BY <1>0, <1>2, <4>1, <4>2, <4>3, StopIs DEF StopStep
    <3>3. QED
      BY <1>0, <2>1, <2>3, <3>1, <3>2 DEF TurnsInv, Stop, Given
  <2>4. QED
    BY <2>2, <2>3 DEF Callers
<1>3. QED
  BY <1>1, <1>2

LEMMA TurnsStep ==
  ASSUME Overlap = FALSE, GpType, HandlesInv, AlsoQuiet, \A q \in Runtimes : StopsInv(q) /\ TurnsInv(q), [Next]_vars, NEW r \in Runtimes
  PROVE  TurnsInv(r)'
<1>0. r # None /\ "api" \in Callers
  BY CallersAssumption DEF Callers
<1>1. ASSUME Same(r), graph = r => graph' = r, shutdown' \in {shutdown, "idle", "done"} PROVE TurnsInv(r)'
  BY <1>0, <1>1 DEF Same, TurnsInv, Stop, Given
<1>2. ASSUME NEW q \in Runtimes, Starts(q) PROVE TurnsInv(r)'
  <2>1. CASE q = r
    BY <1>2, <2>1, StartTurns
  <2>2. CASE q # r
    <3>1. Same(r) /\ shutdown' = shutdown
      BY <1>2, <2>2, StartApart
    <3>2. graph = r => graph' = r
      <4>1. CASE StartSerialGraph(q)
        BY <1>0, <4>1 DEF StartSerialGraph
      <4>2. CASE Unmap(q)
        BY <2>2, <4>2 DEF Unmap
      <4>3. CASE Moves(q) \/ (Acquires(q) /\ ~Unmap(q))
        <5>1. graph' = graph
          BY <4>3 DEF Moves, Acquires, Sends, CreateVirtual, OpenNode, UndoVirtual, OwnPort, OwnVirtual, Subscribe
        <5>2. QED
          BY <5>1
      <4>4. QED
        BY <1>2, <4>1, <4>2, <4>3 DEF Starts
    <3>3. QED
      BY <1>1, <3>1, <3>2
  <2>3. QED
    BY <2>1, <2>2
<1>3. ASSUME NEW q \in Runtimes, NEW c \in Callers, StopStep(<<q, c>>) PROVE TurnsInv(r)'
  <2>1. CASE q = r
    BY <1>3, <2>1, StopTurns
  <2>2. CASE q # r
    BY <1>1, <1>3, <2>2, StopApart
  <2>3. QED
    BY <2>1, <2>2
<1>4. CASE \E t \in Terminals : Uses(t)
  BY <1>1, <1>4, TerminalApart DEF Same
<1>5. CASE (\E q \in Runtimes : StopSerialGraph(q)) \/ Cleanup
  <2>1. /\ UNCHANGED <<rt, starter>> /\ graph' = None
        /\ \/ Cleanup /\ shutdown' = "graphs" /\ \A q \in Runtimes : starter[q].pc \in {"new", "started", "failed"}
           \/ (\E q \in Runtimes : StopSerialGraph(q) /\ graph = q /\ starter[q].pc = "started")
              /\ shutdown' = shutdown /\ shutdown \in {"idle", "done"}
    BY <1>5, ServiceTypes DEF StopSerialGraph, Cleanup, Quiet, Starting, At
  <2>2. CASE graph = r
    <3>1. Stop(r, "api").pc = "idle" /\ starter[r].pc = "started"
      BY <2>1, <2>2 DEF StopsInv
    <3>2. stopper' = [stopper EXCEPT ![<<r, "api">>].pc = "enter"]
      BY <1>0, <1>5, <2>2 DEF StopSerialGraph, Cleanup
    <3>3. stopper'[<<r, "api">>].pc = "enter"
      BY <3>2, StopBegins DEF StopNow
    <3>4. QED
      BY <2>1, <3>1, <3>3 DEF TurnsInv, Stop, Given
  <2>3. CASE graph # r
    <3>1. stopper'[<<r, "api">>] = stopper[<<r, "api">>]
      BY <1>0, <1>5, <2>3, ServiceTypes
    <3>2. QED
      BY <2>1, <2>3, <3>1 DEF TurnsInv, Stop, Given
  <2>4. QED
    BY <2>2, <2>3
<1>6. CASE CleanupPorts
  <2>1. Same(r) /\ graph' = graph /\ shutdown = "graphs" /\ stopper[<<r, "api">>].pc \in {"idle", "done"}
    BY <1>6, OthersSame DEF CleanupPorts, GraphsStopped
  <2>2. QED
    BY <1>0, <2>1 DEF Same, TurnsInv, Stop, Given
<1>7. CASE CleanupPairs
  <2>1. Same(r) /\ graph' = graph /\ shutdown = "close"
    BY <1>7, OthersSame DEF CleanupPairs
  <2>2. QED
    BY <1>0, <2>1 DEF Same, TurnsInv, Stop, Given
<1>8. CASE CleanupMaps \/ UNCHANGED vars
  <2>1. Same(r) /\ graph' = graph
    BY <1>8, OthersSame DEF CleanupMaps, vars, AlsoQuiet
  <2>2. QED
    BY <1>1, <1>8, <2>1 DEF CleanupMaps, vars
<1>9. QED
  BY <1>2, <1>3, <1>4, <1>5, <1>6, <1>7, <1>8, Cases

\* Which runtime a step is of
LEMMA SameOr ==
  ASSUME GpType, HandlesInv, [Next]_vars, NEW r \in Runtimes
  PROVE  \/ Starts(r)
         \/ \E c \in Callers : StopStep(<<r, c>>)
         \/ /\ rt'[r] = rt[r] /\ starter'[r] = starter[r]
            /\ \A c \in Callers : stopper'[<<r, c>>].vports = stopper[<<r, c>>].vports /\ stopper'[<<r, c>>].ports = stopper[<<r, c>>].ports
<1>1. CASE \E q \in Runtimes : Starts(q)
  BY <1>1, StartApart DEF Same
<1>2. CASE \E q \in Runtimes, c \in Callers : StopStep(<<q, c>>)
  BY <1>2, StopApart DEF Same
<1>3. CASE (\E t \in Terminals : Uses(t)) \/ UNCHANGED vars
  BY <1>3, OthersSame DEF Same
<1>4. CASE (\E q \in Runtimes : StopSerialGraph(q)) \/ Cleanup \/ CleanupPorts \/ CleanupPairs \/ CleanupMaps
  BY <1>4, ServiceTypes DEF StopNow, Stop
<1>5. QED
  BY <1>1, <1>2, <1>3, <1>4, Cases

LEMMA ListsOrder ==
  ASSUME GpType, HandlesInv, [Next]_vars, NEW r \in Runtimes, ListsInv(r)
  PROVE  /\ \A i \in Range(rt'[r].ownedV) : i < starter'[r].node
         /\ IsInjective(rt'[r].ownedV) /\ \A c \in Callers : IsInjective(stopper'[<<r, c>>].vports)
<1>0. /\ starter[r].node \in Nat /\ rt[r].ownedV \in Seq(Nat)
      /\ \A i \in Range(rt[r].ownedV) : i < starter[r].node /\ i \in Nat
      /\ IsInjective(rt[r].ownedV) /\ \A c \in Callers : IsInjective(stopper[<<r, c>>].vports)
  <2>1. starter[r].node \in Nat /\ rt[r].ownedV \in Seq(Nat)
    BY Fields
  <2>2. \A i \in Range(rt[r].ownedV) : i \in Nat
    BY <2>1 DEF Range
  <2>3. QED
    BY <2>1, <2>2 DEF ListsInv, Stop
<1>1. CASE Starts(r)
  <2>1. \A c \in Callers : stopper'[<<r, c>>].vports = stopper[<<r, c>>].vports
    BY <1>1, StartApart, StartIs DEF StopNow, Stop, Callers
  <2>2. CASE OwnVirtual(r)
    <3>1. starter'[r].node = starter[r].node + 1 /\ rt'[r].ownedV = Append(rt[r].ownedV, starter[r].node)
      BY <2>2, StartIs DEF StarterNow, RtNow
    <3>2. \A i : i \in Range(rt'[r].ownedV) <=> i = starter[r].node \/ i \in Range(rt[r].ownedV)
      BY <1>0, <3>1, AppendIs
    <3>3. starter[r].node \notin Range(rt[r].ownedV)
      BY <1>0
    <3>4. IsInjective(rt'[r].ownedV)
      BY <1>0, <3>1, <3>3, AppendIs
    <3>5. QED
      BY <1>0, <2>1, <3>1, <3>2, <3>4
  <2>3. CASE ~OwnVirtual(r)
    <3>1. rt'[r].ownedV = rt[r].ownedV
      BY <1>1, <2>3, StartIs DEF Starts, StartSerialGraph, Moves, SameLists, Acquires, Sends, CreateVirtual, OpenNode, UndoVirtual,
           RtNow, Unmap
    <3>2. starter'[r].node = starter[r].node \/ starter'[r].node = starter[r].node + 1
      BY <1>1, <2>3, StartIs DEF Starts, Moves, Acquires, Sends, StarterNow
    <3>3. QED
      BY <1>0, <2>1, <3>1, <3>2
  <2>4. QED
    BY <2>2, <2>3
<1>2. ASSUME NEW c \in Callers, StopStep(<<r, c>>)
      PROVE  /\ \A i \in Range(rt'[r].ownedV) : i < starter'[r].node
             /\ IsInjective(rt'[r].ownedV) /\ \A d \in Callers : IsInjective(stopper'[<<r, d>>].vports)
  <2> DEFINE k == <<r, c>>
  <2>0. /\ k \in Runtimes \X Callers /\ k[1] = r /\ starter' = starter
        /\ \A d \in Callers : d # c => stopper'[<<r, d>>] = stopper[<<r, d>>]
        /\ (~StopEnter(k) => rt' = rt)
    BY <1>2, StopApart
  <2>1. CASE StopEnter(k)
    <3>1. stopper'[k].vports = rt[r].ownedV /\ rt'[r].ownedV = << >>
      BY <2>0, <2>1, StopIs DEF StopNow, RtNow
    <3>2. QED
      BY <1>0, <2>0, <3>1, EmptyIs
  <2>2. CASE StopPair(k)
    <3>1. stopper'[k].vports = Tail(stopper[k].vports) /\ stopper[k].vports # << >> /\ stopper[k].vports \in Seq(Nat)
      BY <2>0, <2>2, StopIs, Fields DEF StopNow, StopPair
    <3>2. IsInjective(stopper'[k].vports)
      BY <1>0, <3>1, TailIs
    <3>3. rt' = rt
      BY <2>2 DEF StopPair
    <3>4. QED
      BY <1>0, <2>0, <3>2, <3>3
  <2>3. CASE ~StopEnter(k) /\ ~StopPair(k)
    <3>1. stopper'[k].vports = stopper[k].vports
      <4>1. CASE StopMoves(k)
        BY <4>1 DEF StopMoves, StopNow
      <4>2. CASE CancelData(k) \/ CancelAuto(k) \/ StopClose(k)
        BY <2>0, <4>2, StopIs DEF StopNow
      <4>3. CASE StopBuffer(k)
        <5>1. stopper[k].ports # << >>
          BY <2>0, <4>3 DEF HandlesInv, StopBuffer
        <5>2. QED
          BY <2>0, <4>3, <5>1, StopIs DEF StopNow
      <4>4. QED
        BY <1>2, <2>0, <2>3, <4>1, <4>2, <4>3, StopIs DEF StopStep
    <3>2. QED
      BY <1>0, <2>0, <2>3, <3>1
  <2>4. QED
    BY <2>1, <2>2, <2>3
<1>3. CASE /\ rt'[r] = rt[r] /\ starter'[r] = starter[r]
           /\ \A c \in Callers : stopper'[<<r, c>>].vports = stopper[<<r, c>>].vports
  BY <1>0, <1>3
<1>4. QED
  BY <1>1, <1>2, <1>3, SameOr

\* When a stop has emptied the lists it alone holds what was in them.
LEMMA OneStops ==
  ASSUME NEW r \in Runtimes, StopsInv(r), TurnsInv(r), NEW c \in Callers, Stop(r, c).pc \notin {"idle", "enter"}
  PROVE  /\ Given(r) /\ starter[r].pc \in {"stop", "failed", "started"}
         /\ \A d \in Callers : d # c => Stop(r, d).vports = << >> /\ Stop(r, d).ports = << >>
<1>1. CASE c = "api"
  BY <1>1 DEF StopsInv, TurnsInv, Callers
<1>2. CASE c = "start"
  BY <1>2 DEF StopsInv, TurnsInv, Callers
<1>3. QED
  BY <1>1, <1>2 DEF Callers

LEMMA PairKept ==
  ASSUME GpType, HandlesInv, PairsInv, AlsoQuiet, \A q \in Runtimes : StopsInv(q) /\ TurnsInv(q) /\ ListsInv(q), [Next]_vars,
         NEW r \in Runtimes, NEW i \in Nat, IsVirtual(i), HoldsPair(r, i), HoldsPair(r, i)'
  PROVE  \E p \in pairs' : p.id = i /\ p.owner = r
<1>1. PICK p \in pairs : p.id = i /\ p.owner = r
  BY DEF ListsInv
<1>2. CASE pairs \subseteq pairs'
  BY <1>1, <1>2
<1>3. ASSUME NEW q \in Runtimes, UndoVirtual(q) PROVE p \in pairs'
  <2>1. starter[q].pc = "undo" /\ starter'[q].pc = "error" /\ starter[q].node \in Nat /\ UNCHANGED <<rt, stopper>>
    BY <1>3, StartIs, Fields DEF UndoVirtual, StarterNow, At
  <2>p. p.id # starter[q].node => p \in pairs'
    BY <1>1, <1>3 DEF UndoVirtual, DeletePair, DeletePairFails
  <2>2. CASE q # r
    <3>1. IsVirtual(starter[q].node) /\ HoldsPair(q, starter[q].node)
      BY <2>1 DEF PairsInv, HoldsPair
    <3>2. \E o \in pairs : o.id = starter[q].node /\ o.owner = q
      BY <2>1, <3>1 DEF ListsInv
    <3>3. QED
      BY <1>1, <2>p, <2>2, <3>2 DEF PairsInv
  <2>3. CASE q = r
    <3>1. \A c \in Callers : Stop(r, c).vports = << >>
      BY <2>1, <2>3 DEF StopsInv, TurnsInv, Callers
    <3>2. i \in Range(rt[r].ownedV)
      BY <2>1, <2>3, <3>1, EmptyIs DEF HoldsPair, Stop
    <3>3. i # starter[r].node
      BY <2>1, <2>3, <3>2 DEF ListsInv
    <3>4. QED
      BY <1>1, <2>p, <2>3, <3>3
  <2>4. QED
    BY <2>2, <2>3
<1>4. ASSUME NEW q \in Runtimes, NEW c \in Callers, StopPair(<<q, c>>) PROVE p \in pairs'
  <2> DEFINE k == <<q, c>>
  <2>0. /\ k \in Runtimes \X Callers /\ stopper[k].pc = "pairs" /\ stopper[k].vports # << >> /\ stopper[k].vports \in Seq(Nat)
        /\ UNCHANGED <<rt, starter>>
        /\ StopNow(k, "pairs", stopper[k].data, stopper[k].auto, Tail(stopper[k].vports), stopper[k].ports)
    BY <1>4, StopIs, Fields DEF StopPair
  <2>p. p.id # Head(stopper[k].vports) => p \in pairs'
    BY <1>1, <1>4 DEF StopPair, DeletePair, DeletePairFails
  <2>1. /\ Head(stopper[k].vports) \in Nat /\ Head(stopper[k].vports) \in Range(stopper[k].vports)
        /\ IsInjective(stopper[k].vports) => Head(stopper[k].vports) \notin Range(Tail(stopper[k].vports))
    BY <2>0, TailIs
  <2>2. CASE q # r
    <3>1. HoldsPair(q, Head(stopper[k].vports))
      BY <2>1 DEF HoldsPair, Stop
    <3>2. IsVirtual(Head(stopper[k].vports)) => \E o \in pairs : o.id = Head(stopper[k].vports) /\ o.owner = q
      BY <2>1, <3>1 DEF ListsInv
    <3>3. QED
      BY <1>1, <2>p, <2>2, <3>2 DEF PairsInv
  <2>3. CASE q = r
    <3>1. /\ Given(r) /\ starter[r].pc \in {"stop", "failed", "started"}
          /\ \A d \in Callers : d # c => Stop(r, d).vports = << >>
      BY <2>0, <2>3, OneStops DEF Stop
    <3>2. \A d \in Callers : d # c => stopper'[<<r, d>>].vports = << >>
      BY <2>0, <2>3, <3>1 DEF StopNow, Stop
    <3>3. i \in Range(stopper'[<<r, c>>].vports)
      BY <2>0, <3>1, <3>2, EmptyIs DEF HoldsPair, Stop, Given
    <3>4. i # Head(stopper[k].vports)
      BY <2>0, <2>1, <2>3, <3>3 DEF ListsInv, Stop, StopNow
    <3>5. QED
      BY <1>1, <2>p, <2>3, <3>4
  <2>4. QED
    BY <2>2, <2>3
<1>5. CASE CleanupPairs
  <2>1. /\ shutdown = "close" /\ Stop(r, "api").pc \in {"idle", "done"} /\ starter[r].pc \in {"new", "started", "failed"} /\ graph # r
    BY <1>5, CallersAssumption DEF CleanupPairs, TurnsInv, AlsoQuiet
  <2>2. Given(r) /\ \A c \in Callers : Stop(r, c).vports = << >>
    <3>1. CASE starter[r].pc \in {"new", "failed"}
      BY <2>1, <3>1 DEF TurnsInv, StopsInv, Callers
    <3>2. CASE starter[r].pc = "started"
      BY <2>1, <3>2 DEF TurnsInv, StopsInv, Callers
    <3>3. QED
      BY <2>1, <3>1, <3>2
  <2>3. ~HoldsPair(r, i)
    BY <2>1, <2>2, EmptyIs DEF HoldsPair, Given
  <2>4. QED
    BY <2>3
<1>6. \/ pairs \subseteq pairs' \/ (\E q \in Runtimes : UndoVirtual(q))
      \/ (\E q \in Runtimes, c \in Callers : StopPair(<<q, c>>)) \/ CleanupPairs
  <2>1. ASSUME NEW q \in Runtimes, Starts(q) PROVE pairs \subseteq pairs' \/ UndoVirtual(q)
    BY <2>1 DEF Starts, StartSerialGraph, Moves, Acquires, Sends, CreateVirtual, OpenNode, OwnPort, OwnVirtual, Subscribe, Unmap, ports
  <2>2. ASSUME NEW q \in Runtimes, NEW c \in Callers, StopStep(<<q, c>>) PROVE pairs' = pairs \/ StopPair(<<q, c>>)
    BY <2>2 DEF StopStep, StopAgain, StopEnter, CancelData, CancelAuto, StopPairsDone, StopClose, StopBuffer, StopDone, ports
  <2>3. CASE \E t \in Terminals : Uses(t)
    BY <2>3, TerminalApart
  <2>4. CASE (\E q \in Runtimes : StopSerialGraph(q)) \/ Cleanup \/ CleanupPorts \/ CleanupMaps \/ UNCHANGED vars
    BY <2>4 DEF StopSerialGraph, Cleanup, CleanupPorts, CleanupMaps, ports, vars
  <2>5. QED
    BY <2>1, <2>2, <2>3, <2>4, Cases
<1>7. QED
  BY <1>1, <1>2, <1>3, <1>4, <1>5, <1>6

LEMMA ListsStep ==
  ASSUME GpType, HandlesInv, PairsInv, AlsoQuiet, \A q \in Runtimes : StopsInv(q) /\ TurnsInv(q) /\ ListsInv(q), [Next]_vars,
         NEW r \in Runtimes
  PROVE  ListsInv(r)'
<1>1. ASSUME NEW i \in Nat, IsVirtual(i), HoldsPair(r, i)' PROVE \E p \in pairs' : p.id = i /\ p.owner = r
  <2>1. CASE HoldsPair(r, i)
    BY <1>1, <2>1, PairKept
  <2>2. CASE ~HoldsPair(r, i)
    <3>1. CreateVirtual(r) /\ i = starter[r].node
      BY <1>1, <2>2, HoldsStep
    <3>2. [id |-> i, owner |-> r] \in pairs'
      BY <3>1 DEF CreateVirtual
    <3>3. QED
      BY <3>2
  <2>3. QED
    BY <2>1, <2>2
<1>2. QED
  BY <1>1, ListsOrder DEF ListsInv, Stop, IsVirtual

-----------------------------------------------------------------------------
(* Nobody's ports                                                          *)

LEMMA OwnedInit == Init => OwnedInv
<1> SUFFICES ASSUME Init PROVE OwnedInv
  OBVIOUS
<1>1. FailedInv
  BY FailedInit
<1>2. /\ shutdown = "idle"
      /\ \A r \in Runtimes : /\ starter[r].pc = "new" /\ rt[r].status = "idle"
                             /\ rt[r].owned = << >> /\ rt[r].ownedV = << >> /\ ~rt[r].cancelData /\ ~rt[r].cancelAuto
      /\ \A k \in Runtimes \X Callers : stopper[k].pc = "idle" /\ stopper[k].vports = << >>
  BY DEF Init, NewRuntime, NotStopping
<1>3. AlsoQuiet /\ \A r \in Runtimes : TurnsInv(r)
  BY <1>2 DEF AlsoQuiet, TurnsInv, Stop, Callers, Given
<1>4. \A r \in Runtimes : ListsInv(r)
  BY <1>2, EmptyIs DEF ListsInv, Stop, HoldsPair
<1>5. QED
  BY <1>1, <1>3, <1>4 DEF OwnedInv

LEMMA OwnedStep ==
  ASSUME Overlap = FALSE, OwnedInv, [Next]_vars
  PROVE  OwnedInv'
<1> USE DEF OwnedInv, FailedInv
<1>1. FailedInv'
  BY FailedStep
<1>2. AlsoQuiet'
  BY QuietStep
<1>3. ASSUME NEW r \in Runtimes PROVE TurnsInv(r)' /\ ListsInv(r)'
  BY TurnsStep, ListsStep
<1>4. QED
  BY <1>1, <1>2, <1>3

\* Who has nothing left is not waited for.
LEMMA WillTake ==
  ASSUME OwnedInv, NEW r \in Runtimes, ~Given(r)
  PROVE  StopWillTake(r)
<1>1. StopsInv(r) /\ TurnsInv(r)
  BY DEF OwnedInv, FailedInv
<1>2. CASE starter[r].pc \in {"new", "failed"}
  BY <1>1, <1>2 DEF StopsInv, TurnsInv, Callers
<1>3. CASE starter[r].pc = "started"
  BY <1>1, <1>3 DEF TurnsInv, StopWillTake, Stop, Callers
<1>4. CASE starter[r].pc \notin {"new", "failed", "started"}
  BY <1>4 DEF StopWillTake, InProgress
<1>5. QED
  BY <1>2, <1>3, <1>4

LEMMA OwnedNow == OwnedInv => HandlesAreOwned /\ PairsAreOwned
<1> SUFFICES ASSUME OwnedInv PROVE HandlesAreOwned /\ PairsAreOwned
  OBVIOUS
<1>0. GpType /\ HandlesInv /\ PairsInv
  BY DEF OwnedInv, FailedInv
<1>1. ASSUME NEW h \in handles
      PROVE  \/ \E t \in Terminals : terminal[t].id = h.id /\ terminal[t].pc \in {"buffer", "using"}
             \/ \E r \in Runtimes :
                 \/ h.id \in Range(rt[r].owned) /\ StopWillTake(r)
                 \/ \E c \in Callers : h.id \in Range(stopper[<<r, c>>].ports)
                 \/ starter[r].pc \in {"bind", "own"} /\ starter[r].id = h.id
  <2>1. CASE h.by \in Terminals
    BY <1>0, <2>1 DEF HandlesInv
  <2>2. CASE h.by \in Runtimes
    <3>1. Holds(h.by, h.id)
      BY <1>0, <2>2 DEF HandlesInv
    <3>2. h.id \in Range(rt[h.by].owned) => StopWillTake(h.by)
      BY <2>2, WillTake, EmptyIs DEF Given
    <3>3. QED
      BY <2>2, <3>1, <3>2 DEF Holds, Stop
  <2>3. QED
    BY <1>0, <2>1, <2>2 DEF GpType
<1>2. ASSUME NEW p \in pairs \ stuck
      PROVE  \/ p.id \in Range(rt[p.owner].ownedV) /\ StopWillTake(p.owner)
             \/ \E c \in Callers : p.id \in Range(stopper[<<p.owner, c>>].vports)
             \/ starter[p.owner].pc \in {"open", "undo", "bind", "own", "ownV"} /\ starter[p.owner].node = p.id
  <2>1. p.owner \in Runtimes /\ HoldsPair(p.owner, p.id)
    BY <1>0 DEF GpType, PairsInv
  <2>2. p.id \in Range(rt[p.owner].ownedV) => StopWillTake(p.owner)
    BY <2>1, WillTake, EmptyIs DEF Given
  <2>3. QED
    BY <2>1, <2>2 DEF HoldsPair, Stop
<1>3. QED
  BY <1>1, <1>2 DEF HandlesAreOwned, PairsAreOwned

-----------------------------------------------------------------------------
(* A graph that runs                                                       *)

LEMMA HandleLost ==
  ASSUME GpType, [Next]_vars, NEW h \in handles, h \notin handles'
  PROVE  \/ \E q \in Runtimes, c \in Callers : StopClose(<<q, c>>) /\ h.id = Head(Stop(q, c).ports)
         \/ \E t \in Terminals : ClosePort(t) /\ h.id = terminal[t].id
         \/ CleanupPorts
<1>1. ASSUME NEW q \in Runtimes, Starts(q) \/ StopSerialGraph(q) PROVE FALSE
  BY <1>1 DEF Starts, StartSerialGraph, Moves, Acquires, Sends, CreateVirtual, OpenNode, ManagerOpen, UndoVirtual, OwnPort, OwnVirtual,
       Subscribe, Unmap, StopSerialGraph, ports
<1>2. ASSUME NEW q \in Runtimes, NEW c \in Callers, StopStep(<<q, c>>)
      PROVE  StopClose(<<q, c>>) /\ h.id = Head(Stop(q, c).ports)
  BY <1>2 DEF StopStep, StopAgain, StopEnter, CancelData, CancelAuto, StopPair, StopPairsDone, StopClose, StopBuffer, StopDone, Close,
       Stop, ports
<1>3. ASSUME NEW t \in Terminals, Uses(t) PROVE ClosePort(t) /\ h.id = terminal[t].id
  BY <1>3 DEF Uses, TerminalStep, OpenPortOpens, ManagerOpen, OpenPortFails, OpenPortConflict, OpenPortAgain, OpenPortBuffer,
       ClosePortBuffer, OpenPortShares, OpenPort, ClosePort, Close, ports
<1>4. CASE Cleanup \/ CleanupPairs \/ CleanupMaps \/ UNCHANGED vars
  BY <1>4 DEF Cleanup, CleanupPairs, CleanupMaps, vars, ports
<1>5. QED
  BY <1>1, <1>2, <1>3, <1>4, Cases

\* A handle that the graph in the map holds goes only to a terminal.
LEMMA HandleKept ==
  ASSUME OwnedInv, [Next]_vars, NEW r \in Runtimes, graph = r, graph' = r, NEW h \in handles, Holds(r, h.id)
  PROVE  h \in handles' \/ h.port \in TerminalPorts
<1>0. GpType /\ HandlesInv /\ AlsoQuiet /\ r # None /\ StopsInv(r) /\ h.by = r
  BY CallersAssumption DEF OwnedInv, FailedInv, HandlesInv
<1>1. ASSUME NEW q \in Runtimes, NEW c \in Callers, StopClose(<<q, c>>) PROVE h.id # Head(Stop(q, c).ports)
  <2>1. Stop(q, c).ports # << >> /\ Stop(q, c).ports \in Seq(Nat) /\ Stop(q, c).pc = "close"
    BY <1>0, <1>1, Fields DEF StopClose, Stop
  <2>2. q # r
    BY <1>0, <2>1 DEF StopsInv, Callers
  <2>3. Holds(q, Head(Stop(q, c).ports))
    BY <2>1, TailIs DEF Holds
  <2>4. QED
    BY <1>0, <2>2, <2>3 DEF HandlesInv
<1>2. ASSUME NEW t \in Terminals, ClosePort(t), h.id = terminal[t].id PROVE h.port \in TerminalPorts
  BY <1>0, <1>2 DEF ClosePort, HandlesInv
<1>3. ~CleanupPorts
  BY <1>0 DEF CleanupPorts, AlsoQuiet
<1>4. QED
  BY <1>0, <1>1, <1>2, <1>3, HandleLost

\* ... and so does a port of a node.
LEMMA PortKept ==
  ASSUME OwnedInv, [Next]_vars, NEW r \in Runtimes, graph = r, graph' = r, NEW i,
         \A x \in Range(rt[r].owned) : x \in Range(rt'[r].owned), HasPort(r, i)
  PROVE  HasPort(r, i)'
<1>1. CASE Nodes[i].endpoint \in TerminalPorts
  BY <1>1 DEF HasPort
<1>2. CASE Nodes[i].endpoint \notin TerminalPorts
  <2>1. PICK h \in handles : h.port = Nodes[i].endpoint /\ h.id \in Range(rt[r].owned)
    BY <1>2 DEF HasPort
  <2>2. h \in handles'
    BY <1>2, <2>1, HandleKept DEF Holds
  <2>3. QED
    BY <2>1, <2>2 DEF HasPort
<1>3. QED
  BY <1>1, <1>2

LEMMA StartRuns ==
  ASSUME OwnedInv, [Next]_vars, NEW r \in Runtimes, RunsInv(r), Starts(r)
  PROVE  RunsInv(r)'
<1>0. /\ GpType /\ r # None /\ starter[r].node \in Nat /\ starter[r].id \in Nat /\ Len(Nodes) \in Nat /\ DOMAIN Nodes = 1 .. Len(Nodes)
      /\ rt[r].owned \in Seq(Nat) /\ rt[r].ownedV \in Seq(Nat) /\ nextID \in Nat
      /\ PairsInv
  BY CallersAssumption, NodesAssumption, Fields DEF OwnedInv, FailedInv, GpType
<1>k. ASSUME graph = r, graph' = r, NEW i, HasPort(r, i), \A x \in Range(rt[r].owned) : x \in Range(rt'[r].owned)
      PROVE  HasPort(r, i)'
  BY <1>k, PortKept
<1>1. CASE StartSerialGraph(r)
  <2>1. starter'[r].pc = "begin" /\ starter[r].pc = "new" /\ starter'[r].node = starter[r].node
    BY <1>0, <1>1, StartIs DEF StartSerialGraph, StarterNow, At
  <2>2. QED
    BY <2>1 DEF RunsInv, Working
<1>2. CASE Moves(r)
  <2>1. PICK pc \in StarterStates, status \in {"idle", "running", "error", "stopped"} :
            Way(r, pc, status) /\ StarterNow(r, pc, starter[r].node, starter[r].id) /\ SameLists(r, status)
    BY <1>2 DEF Moves
  <2>2. /\ UNCHANGED <<graph, bus, handles>>
        /\ starter'[r].pc = pc /\ starter'[r].node = starter[r].node /\ starter'[r].id = starter[r].id /\ rt'[r].status = status
        /\ rt'[r].owned = rt[r].owned /\ rt'[r].ownedV = rt[r].ownedV
    BY <1>2, <2>1 DEF Moves, StarterNow, SameLists, RtNow, ports
  <2>3. pc \notin {"new", "begin"}
    BY <2>1 DEF Way
  <2>4. CASE graph = r /\ pc \in Working
    <3>1. starter[r].pc \in {"begin", "node", "open", "bind", "auto"} /\ (starter[r].pc # "begin" => status = rt[r].status)
      BY <2>1, <2>4 DEF Way, Working
    <3>2. CASE starter[r].pc = "begin"
      <4>1. pc = "node" /\ status = "running" /\ starter[r].node = 1
        BY <2>1, <3>2 DEF Way, RunsInv
      <4>2. QED
        BY <1>0, <2>2, <4>1 DEF RunsInv
    <3>3. CASE starter[r].pc # "begin"
      <4>1. /\ rt[r].status = "running"
            /\ \A i \in DOMAIN Nodes : i < starter[r].node => HasPort(r, i) /\ (IsVirtual(i) => i \in Range(rt[r].ownedV))
        BY <2>4, <3>1, <3>3 DEF RunsInv, Working
      <4>2. \A i : HasPort(r, i)' <=> HasPort(r, i)
        BY <2>2 DEF HasPort
      <4>3. /\ pc \in {"auto", "started"} => starter[r].pc = "auto"
            /\ pc = "subscribe" => starter[r].node > Len(Nodes)
            /\ pc \in {"bind", "own"} => starter[r].pc = "bind"
            /\ pc # "ownV"
        BY <2>1, <3>3 DEF Way
      <4>4. /\ pc \in {"auto", "started"} => r \in bus' /\ starter[r].node > Len(Nodes)
            /\ pc \in {"bind", "own"} => \/ Nodes[starter[r].node].endpoint \in TerminalPorts
                                         \/ \E h \in handles : h.port = Nodes[starter[r].node].endpoint /\ h.id = starter[r].id
        BY <2>2, <2>4, <4>3 DEF RunsInv, Working, Node
      <4>5. QED
        BY <2>2, <2>3, <3>1, <3>3, <4>1, <4>2, <4>3, <4>4 DEF RunsInv, Node, IsVirtual
    <3>4. QED
      BY <3>2, <3>3
  <2>5. CASE ~(graph = r /\ pc \in Working)
    BY <2>2, <2>3, <2>5 DEF RunsInv
  <2>6. QED
    BY <2>4, <2>5
<1>3. CASE UndoVirtual(r)
  <2>1. starter'[r].pc = "error"
    BY <1>0, <1>3, StartIs DEF StarterNow
  <2>2. QED
    BY <2>1 DEF RunsInv, Working
<1>4. CASE Unmap(r)
  <2>1. starter'[r].pc = "stop"
    BY <1>0, <1>4, StartIs DEF StarterNow
  <2>2. QED
    BY <2>1 DEF RunsInv, Working
<1>5. ASSUME CreateVirtual(r) \/ OpenNode(r) \/ OwnPort(r) \/ OwnVirtual(r) \/ Subscribe(r) \/ Sends(r), graph = r
      PROVE  RunsInv(r)'
  <2>0. /\ starter[r].pc \in Working /\ graph' = r
        /\ starter[r].pc \in {"create", "open", "own", "ownV", "subscribe", "auto"}
    BY <1>5 DEF CreateVirtual, OpenNode, OwnPort, OwnVirtual, Subscribe, Sends, At, Working
  <2>1. /\ rt[r].status = "running"
        /\ \A i \in DOMAIN Nodes : i < starter[r].node => HasPort(r, i) /\ (IsVirtual(i) => i \in Range(rt[r].ownedV))
    BY <1>5, <2>0 DEF RunsInv
  <2>2. CASE CreateVirtual(r)
    <3>1. starter'[r].pc = "open" /\ starter'[r].node = starter[r].node /\ UNCHANGED <<rt, handles>>
      BY <1>0, <2>2, StartIs DEF CreateVirtual, StarterNow
    <3>2. \A i : HasPort(r, i)' <=> HasPort(r, i)
      BY <3>1 DEF HasPort
    <3>3. QED
      BY <2>1, <3>1, <3>2 DEF RunsInv, IsVirtual
  <2>3. CASE OpenNode(r)
    <3>1. starter'[r].pc = "bind" /\ starter'[r].node = starter[r].node /\ starter'[r].id = nextID + 1 /\ UNCHANGED rt
      BY <1>0, <2>3, StartIs DEF OpenNode, StarterNow
    <3>2. \E h \in handles' : h.port = Node(r).endpoint /\ h.id = nextID + 1
      <4> DEFINE new == [id |-> nextID + 1, port |-> Node(r).endpoint, by |-> r]
      <4>1. new \in handles'
        BY <2>3 DEF OpenNode, ManagerOpen
      <4>2. new.port = Node(r).endpoint /\ new.id = nextID + 1
        OBVIOUS
      <4> HIDE DEF new
      <4>3. QED
        BY <4>1, <4>2
    <3>3. \A i : HasPort(r, i) => HasPort(r, i)'
      BY <1>5, <2>0, <1>k, <3>1
    <3>4. QED
      BY <2>1, <3>1, <3>2, <3>3 DEF RunsInv, IsVirtual, Node
  <2>4. CASE OwnPort(r)
    <3>1. /\ rt'[r].status = rt[r].status /\ rt'[r].owned = Append(rt[r].owned, starter[r].id) /\ rt'[r].ownedV = rt[r].ownedV
          /\ starter[r].pc = "own" /\ UNCHANGED handles
      BY <1>0, <2>4, StartIs DEF OwnPort, RtNow, At, ports
    <3>2. \A x : x \in Range(rt'[r].owned) <=> x = starter[r].id \/ x \in Range(rt[r].owned)
      BY <1>0, <3>1, AppendIs
    <3>3. \A i : HasPort(r, i) => HasPort(r, i)'
      BY <3>1, <3>2 DEF HasPort
    <3>4. ASSUME NEW n, n = starter[r].node PROVE HasPort(r, n)'
      <4>1. \/ Nodes[n].endpoint \in TerminalPorts
            \/ \E h \in handles : h.port = Nodes[n].endpoint /\ h.id = starter[r].id
        BY <1>5, <2>0, <3>1, <3>4 DEF RunsInv, Node
      <4>2. QED
        BY <3>1, <3>2, <4>1 DEF HasPort
    <3>5. IF IsVirtual(starter[r].node) THEN starter'[r].pc = "ownV" /\ starter'[r].node = starter[r].node
          ELSE starter'[r].pc = "node" /\ starter'[r].node = starter[r].node + 1
      BY <1>0, <2>4, StartIs DEF StarterNow
    <3>6. QED
      <4>1. /\ starter'[r].pc \in {"ownV", "node"} /\ rt'[r].status = "running"
            /\ starter'[r].pc = "ownV" => starter'[r].node = starter[r].node
        BY <2>1, <3>1, <3>5
      <4>2. ASSUME NEW i \in DOMAIN Nodes, i < starter'[r].node
            PROVE  HasPort(r, i)' /\ (IsVirtual(i) => i \in Range(rt'[r].ownedV))
        <5>1. CASE i < starter[r].node
          BY <2>1, <3>1, <3>3, <5>1
        <5>2. CASE i = starter[r].node
          BY <1>0, <3>4, <3>5, <4>2, <5>2
        <5>3. QED
          BY <1>0, <3>5, <4>2, <5>1, <5>2
      <4>3. ASSUME NEW n, n = starter'[r].node, starter'[r].pc = "ownV" PROVE HasPort(r, n)'
        BY <3>4, <4>1, <4>3
      <4>4. QED
        BY <4>1, <4>2, <4>3 DEF RunsInv, IsVirtual
  <2>5. CASE OwnVirtual(r)
    <3>1. /\ rt'[r].status = rt[r].status /\ rt'[r].owned = rt[r].owned /\ rt'[r].ownedV = Append(rt[r].ownedV, starter[r].node)
          /\ starter[r].pc = "ownV" /\ UNCHANGED handles /\ starter'[r].pc = "node" /\ starter'[r].node = starter[r].node + 1
      BY <1>0, <2>5, StartIs DEF OwnVirtual, RtNow, StarterNow, At, ports
    <3>2. \A x : x \in Range(rt'[r].ownedV) <=> x = starter[r].node \/ x \in Range(rt[r].ownedV)
      BY <1>0, <3>1, AppendIs
    <3>3. \A i : HasPort(r, i)' <=> HasPort(r, i)
      BY <3>1 DEF HasPort
    <3>4. HasPort(r, starter[r].node)
      BY <1>5, <2>0, <3>1 DEF RunsInv
    <3>5. QED
      BY <1>0, <2>1, <3>1, <3>2, <3>3, <3>4 DEF RunsInv, IsVirtual
  <2>6. CASE Subscribe(r)
    <3>1. /\ rt'[r].status = rt[r].status /\ rt'[r].owned = rt[r].owned /\ rt'[r].ownedV = rt[r].ownedV
          /\ starter[r].pc = "subscribe" /\ UNCHANGED handles /\ starter'[r].pc = "auto" /\ starter'[r].node = starter[r].node /\ r \in bus'
      BY <1>0, <2>6, StartIs DEF Subscribe, RtNow, StarterNow, At, ports
    <3>2. \A i : HasPort(r, i)' <=> HasPort(r, i)
      BY <3>1 DEF HasPort
    <3>3. starter[r].node > Len(Nodes)
      BY <1>5, <2>0, <3>1 DEF RunsInv
    <3>4. QED
      BY <2>1, <3>1, <3>2, <3>3 DEF RunsInv, IsVirtual
  <2>7. CASE Sends(r)
    <3>1. /\ rt'[r].status = rt[r].status /\ rt'[r].owned = rt[r].owned /\ rt'[r].ownedV = rt[r].ownedV
          /\ starter[r].pc = "auto" /\ UNCHANGED <<handles, bus>> /\ starter'[r].pc = "started" /\ starter'[r].node = starter[r].node
      BY <2>7 DEF Sends, RtNow, StarterNow, At, ports
    <3>2. \A i : HasPort(r, i)' <=> HasPort(r, i)
      BY <3>1 DEF HasPort
    <3>3. starter[r].node > Len(Nodes) /\ r \in bus
      BY <1>5, <2>0, <3>1 DEF RunsInv
    <3>4. QED
      BY <2>1, <3>1, <3>2, <3>3 DEF RunsInv, IsVirtual
  <2>8. QED
    BY <1>5, <2>2, <2>3, <2>4, <2>5, <2>6, <2>7
<1>6. ASSUME CreateVirtual(r) \/ OpenNode(r) \/ OwnPort(r) \/ OwnVirtual(r) \/ Subscribe(r) \/ Sends(r), graph # r
      PROVE  RunsInv(r)'
  <2>1. graph' # r
    BY <1>6 DEF CreateVirtual, OpenNode, OwnPort, OwnVirtual, Subscribe, Sends
  <2>2. starter'[r].pc \notin {"new", "begin"}
    BY <1>0, <1>6, StartIs DEF Sends, StarterNow
  <2>3. QED
    BY <2>1, <2>2 DEF RunsInv
<1>7. QED
  BY <1>1, <1>2, <1>3, <1>4, <1>5, <1>6 DEF Starts, Acquires

LEMMA RunsStep ==
  ASSUME RunningInv, [Next]_vars, NEW r \in Runtimes
  PROVE  RunsInv(r)'
<1>0. OwnedInv /\ RunsInv(r) /\ GpType /\ HandlesInv /\ StopsInv(r) /\ AlsoQuiet /\ r # None
  BY CallersAssumption DEF RunningInv, OwnedInv, FailedInv
<1>1. ASSUME starter'[r] = starter[r], graph' = r => graph = r /\ rt'[r] = rt[r] /\ (r \in bus => r \in bus')
      PROVE  RunsInv(r)'
  <2>1. CASE graph' = r /\ starter[r].pc \in Working
    <3>1. graph = r /\ rt'[r] = rt[r]
      BY <1>1, <2>1
    <3>2. \A i : HasPort(r, i) => HasPort(r, i)'
      BY <1>0, <2>1, <3>1, PortKept
    <3>3. ASSUME starter[r].pc \in {"bind", "own"}
          PROVE  \/ Nodes[starter[r].node].endpoint \in TerminalPorts
                 \/ \E h \in handles' : h.port = Nodes[starter[r].node].endpoint /\ h.id = starter[r].id
      <4>1. CASE Nodes[starter[r].node].endpoint \in TerminalPorts
        BY <4>1
      <4>2. CASE Nodes[starter[r].node].endpoint \notin TerminalPorts
        <5>1. PICK h \in handles : h.port = Nodes[starter[r].node].endpoint /\ h.id = starter[r].id
          BY <1>0, <2>1, <3>1, <3>3, <4>2 DEF RunsInv, Node
        <5>2. h \in handles'
          BY <1>0, <2>1, <3>1, <3>3, <4>2, <5>1, HandleKept DEF Holds
        <5>3. QED
          BY <5>1, <5>2
      <4>3. QED
        BY <4>1, <4>2
    <3>4. QED
      BY <1>0, <1>1, <2>1, <3>1, <3>2, <3>3 DEF RunsInv, IsVirtual, Node
  <2>2. CASE ~(graph' = r /\ starter[r].pc \in Working)
    BY <1>0, <1>1, <2>2 DEF RunsInv
  <2>3. QED
    BY <2>1, <2>2
<1>2. ASSUME NEW q \in Runtimes, Starts(q) PROVE RunsInv(r)'
  <2>1. CASE q = r
    BY <1>0, <1>2, <2>1, StartRuns
  <2>2. CASE q # r
    <3>1. rt'[r] = rt[r] /\ starter'[r] = starter[r]
      BY <1>0, <1>2, <2>2, StartApart DEF Same
    <3>2. (graph' = r => graph = r) /\ bus \subseteq bus'
      <4>1. CASE StartSerialGraph(q)
        BY <2>2, <4>1 DEF StartSerialGraph
      <4>2. CASE Unmap(q)
        BY <1>0, <2>2, <4>2 DEF Unmap
      <4>3. CASE Moves(q) \/ (Acquires(q) /\ ~Unmap(q))
        <5>1. graph' = graph /\ bus \subseteq bus'
          BY <4>3 DEF Moves, Acquires, Sends, CreateVirtual, OpenNode, UndoVirtual, OwnPort, OwnVirtual, Subscribe
        <5>2. QED
          BY <5>1
      <4>4. QED
        BY <1>2, <4>1, <4>2, <4>3 DEF Starts
    <3>3. QED
      BY <1>1, <3>1, <3>2
  <2>3. QED
    BY <2>1, <2>2
<1>3. ASSUME NEW q \in Runtimes, NEW c \in Callers, StopStep(<<q, c>>) PROVE RunsInv(r)'
  <2>1. UNCHANGED <<graph, starter>> /\ (q # r => rt'[r] = rt[r])
    BY <1>0, <1>3, StopApart DEF Same
  <2>2. graph = r => q # r
    <3>1. stopper[<<q, c>>].pc # "idle"
      BY <1>3 DEF StopStep, StopAgain, StopEnter, CancelData, CancelAuto, StopPair, StopPairsDone, StopClose, StopBuffer, StopDone
    <3>2. QED
      BY <1>0, <3>1 DEF StopsInv, Stop, Callers
  <2>3. q # r /\ r \in bus => r \in bus'
    BY <1>3 DEF StopStep, StopAgain, StopEnter, CancelData, CancelAuto, StopPair, StopPairsDone, StopClose, StopBuffer, StopDone
  <2>4. QED
    BY <1>1, <2>1, <2>2, <2>3
<1>4. CASE \E t \in Terminals : Uses(t)
  BY <1>1, <1>4, TerminalApart
<1>5. CASE (\E q \in Runtimes : StopSerialGraph(q)) \/ Cleanup \/ CleanupMaps
  BY <1>0, <1>1, <1>5 DEF StopSerialGraph, Cleanup, CleanupMaps
<1>6. CASE CleanupPorts \/ CleanupPairs \/ UNCHANGED vars
  BY <1>1, <1>6 DEF CleanupPorts, CleanupPairs, vars
<1>7. QED
  BY <1>0, <1>2, <1>3, <1>4, <1>5, <1>6, Cases

LEMMA RunningInit == Init => RunningInv
<1> SUFFICES ASSUME Init PROVE RunningInv
  OBVIOUS
<1>1. graph = None /\ \A r \in Runtimes : starter[r].node = 1 /\ r # None
  BY CallersAssumption DEF Init
<1>2. QED
  BY <1>1, OwnedInit DEF RunningInv, RunsInv

LEMMA RunningNow == RunningInv => RunningHasPorts
<1> SUFFICES ASSUME RunningInv, NEW r \in Runtimes, graph = r, At(r, "started")
             PROVE  /\ rt[r].status = "running" /\ r \in bus
                    /\ \A i \in DOMAIN Nodes :
                        /\ \/ \E h \in handles : h.port = Nodes[i].endpoint /\ h.id \in Range(rt[r].owned)
                           \/ Nodes[i].endpoint \in TerminalPorts
                        /\ IsVirtual(i) => [id |-> i, owner |-> r] \in pairs
  BY DEF RunningHasPorts
<1>0. /\ RunsInv(r) /\ ListsInv(r) /\ GpType /\ starter[r].node \in Nat
      /\ Len(Nodes) \in Nat /\ DOMAIN Nodes = 1 .. Len(Nodes)
  BY NodesAssumption, Fields DEF RunningInv, OwnedInv, FailedInv
<1>1. /\ rt[r].status = "running" /\ r \in bus /\ starter[r].node > Len(Nodes)
      /\ \A i \in DOMAIN Nodes : i < starter[r].node => HasPort(r, i) /\ (IsVirtual(i) => i \in Range(rt[r].ownedV))
  BY <1>0 DEF RunsInv, Working, At
<1>2. ASSUME NEW i \in DOMAIN Nodes PROVE HasPort(r, i) /\ (IsVirtual(i) => [id |-> i, owner |-> r] \in pairs)
  <2>1. i \in Nat /\ HasPort(r, i) /\ (IsVirtual(i) => i \in Range(rt[r].ownedV))
    BY <1>0, <1>1
  <2>2. ASSUME IsVirtual(i) PROVE [id |-> i, owner |-> r] \in pairs
    <3>1. PICK p \in pairs : p.id = i /\ p.owner = r
      BY <1>0, <2>1, <2>2 DEF ListsInv, HoldsPair
    <3>2. p = [id |-> i, owner |-> r]
      BY <1>0, <3>1 DEF GpType
    <3>3. QED
      BY <3>1, <3>2
  <2>3. QED
    BY <2>1, <2>2
<1>3. QED
  BY <1>1, <1>2 DEF HasPort

\* A graph whose start returned and that is in the map has every port of its
\* nodes, bar those that a terminal may close, and every virtual port: neither
\* the stop of the runtime before it nor a failed start takes one from it.
THEOREM RunningHasPortsAlways ==
  ASSUME Overlap = FALSE
  PROVE  Spec => []RunningHasPorts
<1>1. RunningInv /\ [Next]_vars => RunningInv'
  <2> SUFFICES ASSUME RunningInv, [Next]_vars PROVE RunningInv'
    OBVIOUS
  <2>1. OwnedInv'
    BY OwnedStep DEF RunningInv
  <2>2. ASSUME NEW r \in Runtimes PROVE RunsInv(r)'
    BY RunsStep
  <2>3. QED
    BY <2>1, <2>2 DEF RunningInv
<1>2. QED
  BY <1>1, RunningInit, RunningNow, PTL DEF Spec

-----------------------------------------------------------------------------
(* The rings of the handles                                                *)

\* The handle that a terminal has just opened waits for its ring.
LEMMA NewHandleStep ==
  ASSUME OwnedInv, RingInv, [Next]_vars, NEW t \in Terminals, terminal'[t].pc = "buffer", terminal'[t].id \notin early'
  PROVE  \E h \in handles' : h.id = terminal'[t].id /\ h.by = t
<1>0. /\ GpType /\ HandlesInv /\ AlsoQuiet /\ Runtimes \cap Terminals = {} /\ nextID \in Nat
  BY CallersAssumption DEF OwnedInv, FailedInv, GpType
<1>1. CASE OpenPortOpens(t)
  <2> DEFINE new == [id |-> nextID + 1, port |-> terminal[t].port, by |-> t]
  <2>1. new \in handles' /\ terminal'[t].id = nextID + 1
    BY <1>0, <1>1, TerminalIs DEF OpenPortOpens, ManagerOpen, TerminalNow
  <2>2. new.id = nextID + 1 /\ new.by = t
    OBVIOUS
  <2> HIDE DEF new
  <2>3. QED
    BY <2>1, <2>2
<1>2. CASE ~OpenPortOpens(t)
  <2>1. terminal'[t] = terminal[t]
    <3>1. CASE Uses(t)
      <4>1. ASSUME OpenPortAgain(t) PROVE FALSE
        <5>1. terminal[t].port \in TerminalPorts
          BY <1>0, <4>1 DEF OpenPortAgain, HandlesInv
        <5>2. QED
          BY <1>0, <4>1, <5>1, TerminalIs DEF TerminalNow
      <4>2. QED
        BY <1>0, <1>2, <3>1, <4>1, TerminalIs DEF Uses, TerminalStep, TerminalNow
    <3>2. QED
      BY <1>0, <3>1, TerminalStepIs
  <2>2. PICK h \in handles : h.id = terminal[t].id /\ h.by = t
    BY <1>0, <2>1, StuckStep DEF RingInv
  <2>3. h \in handles'
    <3>1. ASSUME NEW q \in Runtimes, NEW c \in Callers, StopClose(<<q, c>>) PROVE h.id # Head(Stop(q, c).ports)
      <4>1. Stop(q, c).ports # << >> /\ Stop(q, c).ports \in Seq(Nat)
        BY <1>0, <3>1, Fields DEF StopClose, Stop
      <4>2. Holds(q, Head(Stop(q, c).ports))
        BY <4>1, TailIs DEF Holds
      <4>3. h.by # q
        BY <1>0, <2>2
      <4>4. QED
        BY <1>0, <4>2, <4>3 DEF HandlesInv
    <3>2. ASSUME NEW u \in Terminals, ClosePort(u) PROVE h.id # terminal[u].id
      BY <2>1, <2>2, <3>2 DEF ClosePort, RingComes
    <3>3. ~CleanupPorts
      BY <1>0, <2>1 DEF CleanupPorts, AlsoQuiet
    <3>4. QED
      BY <1>0, <3>1, <3>2, <3>3, HandleLost
  <2>4. QED
    BY <2>1, <2>2, <2>3
<1>3. QED
  BY <1>1, <1>2

LEMMA HandleGoes ==
  ASSUME GpType, [Next]_vars, NEW id, HasHandle(id), ~HasHandle(id)'
  PROVE  RingGoes(id)'
<1>1. PICK h \in handles : h.id = id /\ h \notin handles'
  BY DEF HasHandle
<1>2. ASSUME NEW q \in Runtimes, NEW c \in Callers, StopClose(<<q, c>>), id = Head(Stop(q, c).ports) PROVE RingGoes(id)'
  <2> DEFINE k == <<q, c>>
  <2>1. StopNow(k, "buffer", stopper[k].data, stopper[k].auto, stopper[k].vports, stopper[k].ports)
    BY <1>2, StopIs DEF Stop
  <2>2. stopper'[k].pc = "buffer" /\ Head(stopper'[k].ports) = id /\ k \in Runtimes \X Callers
    BY <1>2, <2>1 DEF StopNow, Stop
  <2> HIDE DEF k
  <2>3. QED
    BY <2>2 DEF RingGoes
<1>3. ASSUME NEW t \in Terminals, ClosePort(t), id = terminal[t].id PROVE RingGoes(id)'
  <2>1. terminal' = [terminal EXCEPT ![t].pc = "drop"]
    BY <1>3 DEF ClosePort
  <2>2. TerminalNow(t, "drop", terminal[t].port, terminal[t].id)
    BY <2>1, TerminalBecomes DEF TerminalStates
  <2>3. QED
    BY <1>3, <2>2 DEF TerminalNow, RingGoes
<1>4. CASE CleanupPorts
  BY <1>4 DEF CleanupPorts, RingGoes
<1>5. QED
  BY <1>1, <1>2, <1>3, <1>4, HandleLost

LEMMA BuffersStep ==
  ASSUME GpType, [Next]_vars, NEW id \in buffers', id \notin buffers
  PROVE  \E t \in Terminals : OpenPortBuffer(t) /\ id = terminal[t].id
<1>1. ASSUME NEW q \in Runtimes, Starts(q) \/ StopSerialGraph(q) PROVE FALSE
  BY <1>1 DEF Starts, StartSerialGraph, Moves, Acquires, Sends, CreateVirtual, OpenNode, UndoVirtual, OwnPort, OwnVirtual,
       Subscribe, Unmap, StopSerialGraph, ports
<1>2. ASSUME NEW q \in Runtimes, NEW c \in Callers, StopStep(<<q, c>>) PROVE FALSE
  BY <1>2 DEF StopStep, StopAgain, StopEnter, CancelData, CancelAuto, StopPair, StopPairsDone, StopClose, StopBuffer, StopDone, ports
<1>3. ASSUME NEW t \in Terminals, Uses(t) PROVE OpenPortBuffer(t) /\ id = terminal[t].id
  BY <1>3 DEF Uses, TerminalStep, OpenPortOpens, OpenPortFails, OpenPortConflict, OpenPortAgain, OpenPortBuffer,
       ClosePortBuffer, OpenPortShares, OpenPort, ClosePort, ports
<1>4. CASE Cleanup \/ CleanupPorts \/ CleanupPairs \/ CleanupMaps \/ UNCHANGED vars
  BY <1>4 DEF Cleanup, CleanupPorts, CleanupPairs, CleanupMaps, vars, ports
<1>5. QED
  BY <1>1, <1>2, <1>3, <1>4, Cases

LEMMA UserStep ==
  ASSUME OwnedInv, [Next]_vars, NEW id \in buffers, id \in buffers', RingGoes(id)
  PROVE  RingGoes(id)'
<1>0. GpType /\ HandlesInv /\ \A r \in Runtimes : StopsInv(r)
  BY DEF OwnedInv, FailedInv
<1>1. CASE HasHandle(id)
  <2>1. CASE HasHandle(id)'
    BY <2>1 DEF RingGoes
  <2>2. CASE ~HasHandle(id)'
    BY <1>0, <1>1, <2>2, HandleGoes
  <2>3. QED
    BY <2>1, <2>2
<1>2. CASE shutdown \notin {"idle", "done"}
  <2>1. ~CleanupMaps
    BY DEF CleanupMaps
  <2>2. shutdown' \notin {"idle", "done"}
    <3>1. CASE (\E q \in Runtimes : Starts(q)) \/ (\E q \in Runtimes, c \in Callers : StopStep(<<q, c>>)) \/ (\E t \in Terminals : Uses(t))
      BY <1>0, <1>2, <3>1, StartApart, StopApart, TerminalApart
    <3>2. CASE (\E q \in Runtimes : StopSerialGraph(q)) \/ Cleanup \/ CleanupPorts \/ CleanupPairs \/ UNCHANGED vars
      BY <1>2, <3>2 DEF StopSerialGraph, Cleanup, CleanupPorts, CleanupPairs, vars
    <3>3. QED
      BY <1>0, <2>1, <3>1, <3>2, Cases
  <2>3. QED
    BY <2>2 DEF RingGoes
<1>3. ASSUME NEW t \in Terminals, terminal[t].id = id, terminal[t].pc = "drop" PROVE RingGoes(id)'
  <2>1. CASE Uses(t)
    <3>1. ClosePortBuffer(t)
      BY <1>3, <2>1 DEF Uses, TerminalStep, OpenPortOpens, OpenPortFails, OpenPortConflict, OpenPortAgain, OpenPortBuffer,
         OpenPortShares, OpenPort, ClosePort
    <3>2. QED
      BY <1>3, <3>1 DEF ClosePortBuffer
  <2>2. CASE terminal'[t] = terminal[t]
    BY <1>3, <2>2 DEF RingGoes
  <2>3. QED
    BY <1>0, <2>1, <2>2, TerminalStepIs
<1>4. ASSUME NEW r \in Runtimes, NEW c \in Callers, stopper[<<r, c>>].pc = "buffer", Head(stopper[<<r, c>>].ports) = id
      PROVE  RingGoes(id)'
  <2> DEFINE k == <<r, c>>
  <2>1. CASE stopper'[k] = stopper[k]
    <3>1. k \in Runtimes \X Callers /\ stopper'[k].pc = "buffer" /\ Head(stopper'[k].ports) = id
      BY <1>4, <2>1
    <3> HIDE DEF k
    <3>2. QED
      BY <3>1 DEF RingGoes
  <2>2. CASE StopStep(k)
    <3>1. StopBuffer(k)
      BY <1>4, <2>2 DEF StopStep, StopAgain, StopEnter, CancelData, CancelAuto, StopPair, StopPairsDone, StopClose, StopDone
    <3>2. QED
      BY <1>4, <3>1 DEF StopBuffer
  <2>3. CASE (c = "start" /\ Unmap(r)) \/ (c = "api" /\ graph = r)
    BY <1>0, <1>4, <2>3 DEF StopsInv, Stop, Unmap, At
  <2>4. QED
    BY <1>0, <2>1, <2>2, <2>3, StopperStepIs
<1>5. (\E k \in Runtimes \X Callers : stopper[k].pc = "buffer" /\ Head(stopper[k].ports) = id) =>
          \E r \in Runtimes, c \in Callers : stopper[<<r, c>>].pc = "buffer" /\ Head(stopper[<<r, c>>].ports) = id
  OBVIOUS
<1>6. QED
  BY <1>1, <1>2, <1>3, <1>4, <1>5 DEF RingGoes

LEMMA RingStep ==
  ASSUME OwnedInv, RingInv, [Next]_vars
  PROVE  RingInv'
<1>0. GpType
  BY DEF OwnedInv, FailedInv
<1>1. ASSUME NEW id \in buffers', id \notin early' PROVE RingGoes(id)'
  <2>1. CASE id \in buffers
    <3>1. RingGoes(id)
      BY <1>0, <1>1, <2>1, StuckStep DEF RingInv, BufferHasHandle
    <3>2. QED
      BY <2>1, <3>1, UserStep
  <2>2. CASE id \notin buffers
    <3>1. PICK t \in Terminals : OpenPortBuffer(t) /\ id = terminal[t].id
      BY <1>0, <2>2, BuffersStep
    <3>2. HasHandle(id) /\ handles' = handles
      BY <1>1, <3>1 DEF OpenPortBuffer, RingInv, HasHandle, history
    <3>3. QED
      BY <3>2 DEF RingGoes, HasHandle
  <2>3. QED
    BY <2>1, <2>2
<1>2. BufferHasHandle'
  BY <1>1 DEF BufferHasHandle
<1>3. QED
  BY <1>2, NewHandleStep DEF RingInv

\* "StopSerialGraph stops one graph and releases every graph-owned resource":
\* so it does, bar a virtual port that the backend refused to delete, as long
\* as no stop or shutdown meets a call in progress.
THEOREM StoppedIsCleanAlways ==
  ASSUME Overlap = FALSE
  PROVE  Spec => []StoppedIsClean
<1>1. OwnedInv => StoppedIsClean
  <2> SUFFICES ASSUME OwnedInv, NEW r \in Runtimes,
                      ~InProgress(r), StopEnds(r), stopper[<<r, "api">>].pc = "done"
               PROVE  Clean(r)
    BY DEF StoppedIsClean
  <2>1. \A c \in Callers : Stop(r, c).pc \in {"idle", "done"}
    BY DEF StopEnds, Stop
  <2>2. FailedInv /\ TurnsInv(r) /\ Stop(r, "api").pc = "done"
    BY DEF OwnedInv, Stop
  <2>3. Given(r)
    BY <2>2 DEF TurnsInv
  <2>4. QED
    BY <2>1, <2>2, <2>3, NothingHeld
<1>2. OwnedInv /\ [Next]_vars => OwnedInv'
  BY OwnedStep
<1>3. QED
  BY <1>1, <1>2, OwnedInit, PTL DEF Spec

\* Nothing is orphaned: while no stop or shutdown meets a call in progress,
\* every open handle has somebody who can still close it, every virtual port
\* that the backend did not refuse to delete somebody who will delete it, and
\* no ring outlives its handle but one that was stored after the handle was
\* closed (StartSerialGraph, StopSerialGraph and cleanup beside OpenPort and
\* ClosePort of any terminals).
THEOREM NothingOrphanedAlways ==
  ASSUME Overlap = FALSE
  PROVE  Spec => []NothingOrphaned
<1>1. Init => OwnedInv /\ RingInv
  <2>1. Init => RingInv
    BY DEF Init, IdleTerminal, RingInv, BufferHasHandle
  <2>2. QED
    BY <2>1, OwnedInit
<1>2. OwnedInv /\ RingInv /\ [Next]_vars => OwnedInv' /\ RingInv'
  BY OwnedStep, RingStep
<1>3. OwnedInv /\ RingInv => NothingOrphaned
  BY OwnedNow DEF NothingOrphaned, RingInv
<1>4. QED
  BY <1>1, <1>2, <1>3, PTL DEF Spec

=============================================================================
