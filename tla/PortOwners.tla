----------------------------- MODULE PortOwners -----------------------------
(***************************************************************************)
(* Who owns a serial port: the terminals (manager/manager.go), the Modbus  *)
(* and FECbus sessions (OpenSession, CloseSession and CloseAll are the     *)
(* same code in both), the bridges and virtual ports                       *)
(* (virtualserial/manager.go), and service.go, which asks the others       *)
(* before it lets one of them open a port, and cleans up after all.        *)
(*                                                                         *)
(* A virtual port is a pair of devices, the port of its name and a hidden  *)
(* peer, which everybody but a terminal opens in its place.  The operating *)
(* system opens a device for one owner at a time.  Monitors and graphs     *)
(* have modules of their own; ids of sessions and bridges are distinct.    *)
(***************************************************************************)
EXTENDS Naturals, Sequences, FiniteSets

CONSTANTS
    Callers,      \* calls that open a terminal or a session
    Bridgers,     \* calls that create a bridge
    Real,         \* names of real ports
    Virtual       \* names of virtual ports

Names == Real \cup Virtual
Device == Names \X {"port", "peer"}
Sessions == {"modbus", "fecbus"}
Kinds == {"terminal"} \cup Sessions

VARIABLES
    table,        \* per kind, what it owns: [name, device]
    bridges,      \* the bridges: [names, devices]
    pairs,        \* the virtual ports that the manager knows
    running,      \* the virtual ports that exist
    held,         \* devices that are open
    opening,      \* where each call that opens a terminal or a session is
    bridging,     \* where each call that creates a bridge is
    closing,      \* devices taken from a table, to be closed: [device, by]
    cleaned,      \* steps of cleanup that are done
    raced,        \* ghost: virtual ports that two calls worked on at the same time
    spanned,      \* ghost: was a call under way when cleanup began?
    stuck         \* ghost: pairs whose Stop failed when all were stopped

tables == <<table, bridges, pairs>>
ghosts == <<raced, spanned, stuck>>
poVars == <<tables, running, held, opening, bridging, closing, cleaned, ghosts>>

NoCall == [pc |-> "idle"]
Busy(c) == opening[c].pc # "idle"
WorkedOn(n) == \E c \in Callers : Busy(c) /\ opening[c].name = n
Bridging(b, n) == bridging[b].pc # "idle" /\ n \in {bridging[b].names[1], bridging[b].names[2]}

PoInit ==
    /\ table = [k \in Kinds |-> {}] /\ bridges = {} /\ pairs = {} /\ running = {}
    /\ held = {} /\ closing = {} /\ cleaned = 0
    /\ opening = [c \in Callers |-> NoCall] /\ bridging = [b \in Bridgers |-> NoCall]
    /\ raced = {} /\ spanned = FALSE /\ stuck = {}

-----------------------------------------------------------------------------
(* The operating system, and virtualserial/manager.go                      *)

Exists(d) == d \in (running \X {"port", "peer"}) \cup (Real \X {"port"})
CanOpen(d) == Exists(d) /\ d \notin held

\* A bridge is started under the lock of the manager: who asks the manager for
\* anything waits until both ports are open, or the second one is not.
LockFree == \A b \in Bridgers : bridging[b].pc # "second"

\* EndpointFor: the hidden peer of a virtual port, else the port itself
EndpointFor(n) == <<n, IF n \in pairs THEN "peer" ELSE "port">>

\* A name is used again when nobody holds a device of its former pair.
CreatePort(n) ==
    /\ cleaned = 0 /\ LockFree /\ n \notin pairs \cup running
    /\ held \cap {<<n, "port">>, <<n, "peer">>} = {}
    /\ pairs' = pairs \cup {n} /\ running' = running \cup {n}
    /\ UNCHANGED <<table, bridges, held, opening, bridging, closing, cleaned, ghosts>>

\* A pair that cannot be stopped stays in the table, and runs.
DeletePair(n) ==
    /\ n \in pairs /\ LockFree
    /\ pairs' = pairs \ {n} /\ running' = running \ {n}
    /\ UNCHANGED <<table, bridges, held, opening, bridging, closing, cleaned, ghosts>>

InUse(k, n) == \E e \in table[k] : e.name = n
BridgeInUse(n) == \E b \in bridges : n \in b.names

DeleteBridge(b) ==
    /\ b \in bridges /\ LockFree
    /\ bridges' = bridges \ {b} /\ held' = held \ b.devices
    /\ UNCHANGED <<table, pairs, running, opening, bridging, closing, cleaned, ghosts>>

-----------------------------------------------------------------------------
(* service.go: what is asked before a port is opened, in this order        *)

Guards ==
    [terminal |-> <<"terminal", "modbus", "fecbus">>,
     modbus |-> <<"terminal", "fecbus", "bridge">>,
     fecbus |-> <<"terminal", "modbus", "bridge">>]

\* Calls begin before the cleanup (CreatePort and CreateBridge likewise): what
\* is opened by a later call is the next cleanup's.  Two calls race for a name
\* when one begins while the other is under way, bridges among themselves apart.
Begin(c, k, n) ==
    /\ cleaned = 0 /\ ~Busy(c)
    /\ opening' = [opening EXCEPT ![c] = [pc |-> "ask", kind |-> k, name |-> n, ask |-> Guards[k]]]
    /\ raced' = raced \cup {x \in Virtual : x = n /\ (WorkedOn(x) \/ \E b \in Bridgers : Bridging(b, x))}
    /\ UNCHANGED <<tables, running, held, bridging, closing, cleaned, spanned, stuck>>

Return(c) == opening' = [opening EXCEPT ![c] = NoCall]

\* One table is asked; the terminals give back the handle they have.
Ask(c) ==
    LET call == opening[c] IN
    /\ call.pc = "ask" /\ call.ask # << >>
    /\ Head(call.ask) = "bridge" => LockFree
    /\ IF IF Head(call.ask) = "bridge" THEN BridgeInUse(call.name) ELSE InUse(Head(call.ask), call.name)
       THEN Return(c)
       ELSE opening' = [opening EXCEPT ![c].ask = Tail(@)]
    /\ UNCHANGED <<tables, running, held, bridging, closing, cleaned, ghosts>>

Asked(c, k) == opening[c].pc = "ask" /\ opening[c].ask = << >> /\ opening[c].kind \in k

\* The device a session will open is looked up, and goes with the request.
Resolve(c) ==
    /\ Asked(c, Sessions) /\ LockFree
    /\ opening' = [opening EXCEPT ![c] =
            [pc |-> "table", kind |-> @.kind, name |-> @.name, device |-> EndpointFor(@.name)]]
    /\ UNCHANGED <<tables, running, held, bridging, closing, cleaned, ghosts>>

-----------------------------------------------------------------------------
(* manager.go: a terminal is opened under the lock                         *)

OpenHandle(c) ==
    LET n == opening[c].name
        d == <<n, "port">>
    IN  /\ Asked(c, {"terminal"})
        /\ ~InUse("terminal", n) /\ CanOpen(d)
        /\ held' = held \cup {d}
        /\ table' = [table EXCEPT !["terminal"] = @ \cup {[name |-> n, device |-> d]}]
        /\ Return(c)
        /\ UNCHANGED <<bridges, pairs, running, bridging, closing, cleaned, ghosts>>

\* The port is open or cannot be opened.
OpenHandleFails(c) ==
    /\ Asked(c, {"terminal"})
    /\ Return(c)
    /\ UNCHANGED <<tables, running, held, bridging, closing, cleaned, ghosts>>

CloseHandle(e) ==
    /\ e \in table["terminal"]
    /\ table' = [table EXCEPT !["terminal"] = @ \ {e}]
    /\ held' = held \ {e.device}
    /\ UNCHANGED <<bridges, pairs, running, opening, bridging, closing, cleaned, ghosts>>

-----------------------------------------------------------------------------
(* OpenSession and CloseSession of the two session managers                *)

\* The table is looked at before the port is opened without the lock,
CheckTable(c) ==
    /\ opening[c].pc = "table"
    /\ IF InUse(opening[c].kind, opening[c].name) THEN Return(c)
       ELSE opening' = [opening EXCEPT ![c].pc = "open"]
    /\ UNCHANGED <<tables, running, held, bridging, closing, cleaned, ghosts>>

OpenDevice(c) ==
    /\ opening[c].pc = "open" /\ CanOpen(opening[c].device)
    /\ held' = held \cup {opening[c].device}
    /\ opening' = [opening EXCEPT ![c].pc = "opened"]
    /\ UNCHANGED <<tables, running, bridging, closing, cleaned, ghosts>>

OpenDeviceFails(c) ==
    /\ opening[c].pc = "open"
    /\ Return(c)
    /\ UNCHANGED <<tables, running, held, bridging, closing, cleaned, ghosts>>

Store(c) ==
    LET e == [name |-> opening[c].name, device |-> opening[c].device]
    IN  table' = [table EXCEPT ![opening[c].kind] = @ \cup {e}]

\* mutant: the table is not looked at again
StoreUnchecked(c) ==
    /\ opening[c].pc = "opened"
    /\ Store(c) /\ Return(c)
    /\ UNCHANGED <<bridges, pairs, running, held, bridging, closing, cleaned, ghosts>>

\* and again before the session is stored.
StoreSession(c) ==
    /\ opening[c].pc = "opened" /\ ~InUse(opening[c].kind, opening[c].name)
    /\ Store(c) /\ Return(c)
    /\ UNCHANGED <<bridges, pairs, running, held, bridging, closing, cleaned, ghosts>>

\* mutant: the port of the loser stays open
DropSessionLeaks(c) ==
    /\ opening[c].pc = "opened" /\ InUse(opening[c].kind, opening[c].name)
    /\ Return(c)
    /\ UNCHANGED <<tables, running, held, bridging, closing, cleaned, ghosts>>

\* The loser of two calls closes its port.
DropSession(c) ==
    /\ opening[c].pc = "opened" /\ InUse(opening[c].kind, opening[c].name)
    /\ held' = held \ {opening[c].device}
    /\ Return(c)
    /\ UNCHANGED <<tables, running, bridging, closing, cleaned, ghosts>>

\* A session leaves the table before its port is closed.
CloseSession(k, e) ==
    /\ e \in table[k]
    /\ table' = [table EXCEPT ![k] = @ \ {e}]
    /\ closing' = closing \cup {[device |-> e.device, by |-> "client"]}
    /\ UNCHANGED <<bridges, pairs, running, held, opening, bridging, cleaned, ghosts>>

CloseDevice(x) ==
    /\ x \in closing
    /\ closing' = closing \ {x} /\ held' = held \ {x.device}
    /\ UNCHANGED <<tables, running, opening, bridging, cleaned, ghosts>>

-----------------------------------------------------------------------------
(* CreateBridge of service.go asks the sessions, without a lock, and then  *)
(* CreateBridge of the manager opens both ports under its own.             *)

\* mutant: the FECbus sessions are not asked
BridgeGuardsModbus(n, m) == << <<"modbus", n>>, <<"modbus", m>> >>

BridgeGuards(n, m) == << <<"modbus", n>>, <<"modbus", m>>, <<"fecbus", n>>, <<"fecbus", m>> >>

BeginBridge(b, n, m) ==
    /\ cleaned = 0 /\ bridging[b].pc = "idle" /\ n # m
    /\ bridging' = [bridging EXCEPT ![b] = [pc |-> "ask", names |-> <<n, m>>, ask |-> BridgeGuards(n, m)]]
    /\ raced' = raced \cup {x \in Virtual : x \in {n, m} /\ WorkedOn(x)}
    /\ UNCHANGED <<tables, running, held, opening, closing, cleaned, spanned, stuck>>

ReturnBridge(b) == bridging' = [bridging EXCEPT ![b] = NoCall]

\* PortInUse of one of the session managers for one of the ports
AskSession(b) ==
    LET call == bridging[b] IN
    /\ call.pc = "ask" /\ call.ask # << >>
    /\ IF InUse(Head(call.ask)[1], Head(call.ask)[2])
       THEN ReturnBridge(b)
       ELSE bridging' = [bridging EXCEPT ![b].ask = Tail(@)]
    /\ UNCHANGED <<tables, running, held, opening, closing, cleaned, ghosts>>

\* The lock is taken, both devices are looked up, and the first is opened,
OpenFirst(b) ==
    LET call == bridging[b]
        d == EndpointFor(call.names[1])
    IN  /\ call.pc = "ask" /\ call.ask = << >> /\ LockFree /\ CanOpen(d)
        /\ held' = held \cup {d}
        /\ bridging' = [bridging EXCEPT ![b] =
                [pc |-> "second", names |-> call.names, first |-> d, second |-> EndpointFor(call.names[2])]]
        /\ UNCHANGED <<tables, running, opening, closing, cleaned, ghosts>>

\* or cannot be, or the id is that of another bridge;
OpenFirstFails(b) ==
    /\ bridging[b].pc = "ask" /\ bridging[b].ask = << >> /\ LockFree
    /\ ReturnBridge(b)
    /\ UNCHANGED <<tables, running, held, opening, closing, cleaned, ghosts>>

\* then the second: the bridge is stored, and the lock given back.
OpenSecond(b) ==
    LET call == bridging[b] IN
    /\ call.pc = "second" /\ CanOpen(call.second)
    /\ held' = held \cup {call.second}
    /\ bridges' = bridges \cup {[names |-> {call.names[1], call.names[2]},
                                 devices |-> {call.first, call.second}]}
    /\ ReturnBridge(b)
    /\ UNCHANGED <<table, pairs, running, opening, closing, cleaned, ghosts>>

\* When it cannot be opened the first is closed.
OpenSecondFails(b) ==
    /\ bridging[b].pc = "second"
    /\ held' = held \ {bridging[b].first}
    /\ ReturnBridge(b)
    /\ UNCHANGED <<tables, running, opening, closing, cleaned, ghosts>>

-----------------------------------------------------------------------------
(* cleanup of service.go                                                   *)

\* CloseAll of the terminals, the Modbus and the FECbus sessions, one after
\* the other: the table is emptied, then what was in it is closed.
CloseAll(k) ==
    /\ <<"terminal", "modbus", "fecbus">>[cleaned + 1] = k
    /\ \A x \in closing : x.by # "cleanup"
    /\ table' = [table EXCEPT ![k] = {}]
    /\ closing' = closing \cup {[device |-> e.device, by |-> "cleanup"] : e \in table[k]}
    /\ cleaned' = cleaned + 1
    /\ spanned' = (spanned \/ (\E c \in Callers : Busy(c)) \/ \E b \in Bridgers : bridging[b].pc # "idle")
    /\ UNCHANGED <<bridges, pairs, running, held, opening, bridging, raced, stuck>>

\* Cleanup of the virtual ports stops the bridges and the pairs, and forgets
\* also a pair that could not be stopped.
CleanupVirtual(fails) ==
    /\ cleaned = 3 /\ LockFree /\ \A x \in closing : x.by # "cleanup"
    /\ cleaned' = 4
    /\ bridges' = {} /\ held' = held \ UNION {b.devices : b \in bridges}
    /\ pairs' = {} /\ running' = running \ (pairs \ fails) /\ stuck' = stuck \cup fails
    /\ UNCHANGED <<table, opening, bridging, closing, raced, spanned>>

-----------------------------------------------------------------------------
Opens(c) ==
    \/ Ask(c) \/ Resolve(c) \/ OpenHandle(c) \/ OpenHandleFails(c) \/ CheckTable(c)
    \/ OpenDevice(c) \/ OpenDeviceFails(c) \/ StoreSession(c) \/ DropSession(c)

OpensBridge(b) ==
    AskSession(b) \/ OpenFirst(b) \/ OpenFirstFails(b) \/ OpenSecond(b) \/ OpenSecondFails(b)

PoNext ==
    \/ \E c \in Callers : Opens(c) \/ \E k \in Kinds, n \in Names : Begin(c, k, n)
    \/ \E n \in Virtual : CreatePort(n) \/ DeletePair(n)
    \/ \E b \in Bridgers : OpensBridge(b) \/ \E n, m \in Names : BeginBridge(b, n, m)
    \/ \E b \in bridges : DeleteBridge(b)
    \/ \E e \in table["terminal"] : CloseHandle(e)
    \/ \E k \in Sessions : \E e \in table[k] : CloseSession(k, e)
    \/ \E x \in closing : CloseDevice(x)
    \/ cleaned < 3 /\ \E k \in Kinds : CloseAll(k)
    \/ \E fails \in SUBSET pairs : CleanupVirtual(fails)

PoSpec == PoInit /\ [][PoNext]_poVars

-----------------------------------------------------------------------------
(* Properties                                                              *)

\* The devices that a table, a bridge, a call under way or a session on its
\* way out knows of
Owned ==
    (UNION {{e.device : e \in table[k]} : k \in Kinds})
    \cup (UNION {b.devices : b \in bridges})
    \cup {x.device : x \in closing}
    \cup {opening[c].device : c \in {x \in Callers : opening[x].pc = "opened"}}
    \cup {bridging[b].first : b \in {x \in Bridgers : bridging[x].pc = "second"}}

\* Every open device has an owner that will close it, whoever opens, closes
\* and cleans up at the same time; and after "cleanup releases every resource
\* owned by the serial service" nothing is open and no pair runs, but for a
\* pair whose Stop failed and for what calls under way opened meanwhile.
NothingIsLost ==
    /\ held \subseteq Owned
    /\ cleaned = 4 /\ ~spanned /\ closing = {} => held = {} /\ running \subseteq stuck

\* A port has one owner.  The guards ask before they act, so a call that
\* meets another one may open the port of a virtual name while the other one
\* opens its peer; what is open for two owners was raced for: one of them was
\* asked for while the other was being opened.
OneOwner ==
    /\ \A k \in Kinds : \A e, f \in table[k] : e.name = f.name => e = f
    /\ \A n \in Names, k \in Sessions :
        InUse(k, n) /\ (InUse("terminal", n) \/ BridgeInUse(n)) => n \in raced
=============================================================================
