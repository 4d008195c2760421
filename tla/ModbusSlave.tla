---------------------------- MODULE ModbusSlave ----------------------------
(***************************************************************************)
(* One session of modbus/session.go as a simulated slave: startSlave,      *)
(* stopSlave and close, the slave loop with the requests it reads from the *)
(* line, the calls that edit the simulated units, and the master           *)
(* transactions that share the port with it.                               *)
(*                                                                         *)
(* Every call of the manager first looks the session up (get) and then     *)
(* works on the object it found, which may have been closed in between.    *)
(* A data model is one value; field model of the session mirrors a unit    *)
(* and is read nowhere, so it is left out, as are the byte counters.       *)
(***************************************************************************)
EXTENDS Naturals, FiniteSets

CONSTANTS
    Callers,        \* clients of the manager
    Loops,          \* slave loops, by the order they are started in: 1..n
    Units,          \* unit ids, numbers from 1
    Models,         \* contents of a unit
    NoWrite,        \* a request that writes nothing
    Absent,         \* no such unit
    None            \* no loop

ASSUME ModelAssumption ==
    /\ Loops = 1 .. Cardinality(Loops)
    /\ Units \subseteq Nat \ {0} /\ 1 \in Units
    /\ NoWrite \notin Models /\ Absent \notin Models
    /\ None \notin Loops

VARIABLES
    listed,         \* the session is in the manager's table
    port,           \* s.port is set
    handle,         \* the serial port is open
    status,         \* s.status
    slaveRunning,   \* s.slaveRunning
    current,        \* the loop of s.slaveStop and s.slaveDone, or None
    slaveUnits,     \* s.slaveUnits: content per unit, or Absent
    slaveUnitID,    \* s.slaveUnitID, 0 where there is none
    loop,           \* the goroutines of slaveLoop
    stop,           \* how often each stop channel has been closed
    call,           \* where each caller is
    transactionMu,  \* holder of s.transactionMu during a transaction, or None
    overlapped      \* history: was a loop started before the last one ended?

session == <<listed, port, handle, status>>
slave == <<slaveRunning, current>>
data == <<slaveUnits, slaveUnitID>>
slaveVars == <<session, slave, data, loop, stop, call, transactionMu, overlapped>>

Requests == Models \cup {NoWrite}
IdleCall == [pc |-> "idle", loop |-> None, closing |-> FALSE]
LoopAt(pc) == [pc |-> pc, unit |-> 0, base |-> Absent]
Alive(l) == loop[l].pc \notin {"none", "ended"}

\* The shape of the state; a caller knows the loop it stops or waits for.
SlaveTypeOK ==
    /\ listed \in BOOLEAN /\ port \in BOOLEAN /\ handle \in BOOLEAN
    /\ status \in {"open", "running", "error", "closed"}
    /\ slaveRunning \in BOOLEAN
    /\ current \in Loops \cup {None}
    /\ slaveUnits \in [Units -> Models \cup {Absent}]
    /\ slaveUnitID \in Units \cup {0}
    /\ loop \in [Loops -> [pc : {"none", "check", "reading", "readErr", "frame", "set", "write", "fail", "ended"},
                           unit : Units \cup {0}, base : Models \cup {Absent}]]
    /\ stop \in [Loops -> Nat]
    /\ call \in [Callers -> [pc : {"idle", "got", "stop", "close", "wait", "closing", "handle", "master"},
                             loop : Loops \cup {None}, closing : BOOLEAN]]
    /\ \A c \in Callers : call[c].pc \in {"close", "wait"} <=> call[c].loop # None
    /\ transactionMu \in Callers \cup {None} /\ overlapped \in BOOLEAN

SlaveInit ==
    /\ listed = TRUE /\ port = TRUE /\ handle = TRUE /\ status = "open"
    /\ slaveRunning = FALSE /\ current = None
    /\ slaveUnits = [u \in Units |-> Absent] /\ slaveUnitID = 0
    /\ loop = [l \in Loops |-> LoopAt("none")]
    /\ stop = [l \in Loops |-> 0]
    /\ call = [c \in Callers |-> IdleCall]
    /\ transactionMu = None /\ overlapped = FALSE

-----------------------------------------------------------------------------
(* The manager                                                             *)

Goto(c, pc) == call' = [call EXCEPT ![c].pc = pc]
Return(c) == call' = [call EXCEPT ![c] = IdleCall]

\* get: the caller holds on to the session it found
Get(c) ==
    /\ call[c].pc = "idle" /\ listed
    /\ Goto(c, "got")
    /\ UNCHANGED <<session, slave, data, loop, stop, transactionMu, overlapped>>

\* CloseSession and CloseAll take the session from the table and close it.
CloseSession(c) ==
    /\ call[c].pc = "idle" /\ listed
    /\ listed' = FALSE
    /\ call' = [call EXCEPT ![c] = [pc |-> "stop", loop |-> None, closing |-> TRUE]]
    /\ UNCHANGED <<port, handle, status, slave, data, loop, stop, transactionMu, overlapped>>

-----------------------------------------------------------------------------
(* startSlave, stopSlave and close                                         *)

\* The smallest unit id, 0 where there is none
FirstUnitID(units) ==
    LET present == {u \in Units : units[u] # Absent} IN
    IF present = {} THEN 0 ELSE CHOOSE u \in present : \A v \in present : u <= v

\* Goroutines are numbered in the order they are started in.
CanStart(l) == ~slaveRunning /\ loop[l].pc = "none" /\ \A k \in 1 .. l - 1 : loop[k].pc # "none"

\* startSlave waits for a transaction to end; the simulated units are those
\* of the request, at least one.
StartSlave(c, units, l) ==
    /\ call[c].pc = "got" /\ transactionMu = None
    /\ port /\ status # "closed" /\ CanStart(l)
    /\ slaveUnits' = units /\ slaveUnitID' = FirstUnitID(units)
    /\ slaveRunning' = TRUE /\ status' = "running" /\ current' = l
    /\ loop' = [loop EXCEPT ![l] = LoopAt("check")]
    /\ overlapped' = (overlapped \/ \E k \in Loops : Alive(k))
    /\ Return(c)
    /\ UNCHANGED <<listed, port, handle, stop, transactionMu>>

\* Refused on a closed session and where a slave runs
StartSlaveRefused(c) ==
    /\ call[c].pc = "got" /\ transactionMu = None
    /\ ~port \/ status = "closed" \/ slaveRunning
    /\ Return(c)
    /\ UNCHANGED <<session, slave, data, loop, stop, transactionMu, overlapped>>

CallStop(c) ==
    /\ call[c].pc = "got"
    /\ Goto(c, "stop")
    /\ UNCHANGED <<session, slave, data, loop, stop, transactionMu, overlapped>>

\* What a caller does after stopSlave: close goes on, StopSlave returns.
AfterStop(c) == IF call[c].closing
                THEN [pc |-> "closing", loop |-> None, closing |-> TRUE]
                ELSE IdleCall

\* stopSlave takes the channels of the loop under the lock,
StopSlave(c) ==
    /\ call[c].pc = "stop" /\ slaveRunning
    /\ slaveRunning' = FALSE /\ status' = "open" /\ current' = None
    /\ call' = [call EXCEPT ![c].pc = "close", ![c].loop = current]
    /\ UNCHANGED <<listed, port, handle, data, loop, stop, transactionMu, overlapped>>

StopSlaveIdle(c) ==
    /\ call[c].pc = "stop" /\ ~slaveRunning
    /\ call' = [call EXCEPT ![c] = AfterStop(c)]
    /\ UNCHANGED <<session, slave, data, loop, stop, transactionMu, overlapped>>

\* mutant: the stop channel is not closed
CloseStopForgets(c) ==
    /\ call[c].pc = "close"
    /\ Goto(c, "wait")
    /\ UNCHANGED <<session, slave, data, loop, stop, transactionMu, overlapped>>

\* closes the stop channel without it,
CloseStop(c) ==
    /\ call[c].pc = "close"
    /\ stop' = [stop EXCEPT ![call[c].loop] = @ + 1]
    /\ Goto(c, "wait")
    /\ UNCHANGED <<session, slave, data, loop, transactionMu, overlapped>>

\* and waits for the loop to end, or for a second.
StopWait(c) ==
    /\ call[c].pc = "wait"
    /\ call' = [call EXCEPT ![c] = AfterStop(c)]
    /\ UNCHANGED <<session, slave, data, loop, stop, transactionMu, overlapped>>

\* close marks the session, then closes the port.
CloseMark(c) ==
    /\ call[c].pc = "closing"
    /\ status' = "closed" /\ port' = FALSE
    /\ Goto(c, "handle")
    /\ UNCHANGED <<listed, handle, slave, data, loop, stop, transactionMu, overlapped>>

\* mutant: close forgets the port but does not close it
ClosePortLeaks(c) ==
    /\ call[c].pc = "handle"
    /\ Return(c)
    /\ UNCHANGED <<session, slave, data, loop, stop, transactionMu, overlapped>>

ClosePort(c) ==
    /\ call[c].pc = "handle"
    /\ handle' = FALSE
    /\ Return(c)
    /\ UNCHANGED <<listed, port, status, slave, data, loop, stop, transactionMu, overlapped>>

-----------------------------------------------------------------------------
(* Master transactions                                                     *)

\* mutant: no test for a slave that runs
MasterBeginAnyway(c) ==
    /\ call[c].pc = "got" /\ transactionMu = None
    /\ port /\ status # "closed"
    /\ transactionMu' = c
    /\ Goto(c, "master")
    /\ UNCHANGED <<session, slave, data, loop, stop, overlapped>>

MasterBegin(c) ==
    /\ call[c].pc = "got" /\ transactionMu = None
    /\ port /\ status # "closed" /\ ~slaveRunning
    /\ transactionMu' = c
    /\ Goto(c, "master")
    /\ UNCHANGED <<session, slave, data, loop, stop, overlapped>>

MasterRefused(c) ==
    /\ call[c].pc = "got" /\ transactionMu = None
    /\ ~port \/ status = "closed" \/ slaveRunning
    /\ Return(c)
    /\ UNCHANGED <<session, slave, data, loop, stop, transactionMu, overlapped>>

MasterEnd(c) ==
    /\ call[c].pc = "master"
    /\ transactionMu' = None
    /\ Return(c)
    /\ UNCHANGED <<session, slave, data, loop, stop, overlapped>>

-----------------------------------------------------------------------------
(* Edits of the simulated units                                            *)

Edit(c, units, id) ==
    /\ call[c].pc = "got"
    /\ slaveUnits' = units /\ slaveUnitID' = id
    /\ Return(c)
    /\ UNCHANGED <<session, slave, loop, stop, transactionMu, overlapped>>

\* setDataModel: the first unit, or unit 1 where there is none
SetDataModel(c, model) ==
    LET id == IF slaveUnitID = 0 THEN 1 ELSE slaveUnitID IN
    Edit(c, [slaveUnits EXCEPT ![id] = model], id)

AddSlaveUnit(c, u, model) ==
    Edit(c, [slaveUnits EXCEPT ![u] = model], IF slaveUnitID = 0 THEN u ELSE slaveUnitID)

RemoveSlaveUnit(c, u) ==
    LET units == [slaveUnits EXCEPT ![u] = Absent] IN
    Edit(c, units, IF slaveUnitID = u THEN FirstUnitID(units) ELSE slaveUnitID)

UpdateSlaveUnitData(c, u, model) ==
    Edit(c, [slaveUnits EXCEPT ![u] = model], slaveUnitID)

-----------------------------------------------------------------------------
(* slaveLoop                                                               *)

LoopTo(l, pc) == loop' = [loop EXCEPT ![l].pc = pc]

\* readFrame looks at the stop channel and at the port before every read.
LoopCheck(l) ==
    /\ loop[l].pc = "check"
    /\ LoopTo(l, IF stop[l] > 0 THEN "ended" ELSE IF port THEN "reading" ELSE "readErr")
    /\ UNCHANGED <<session, slave, data, stop, call, transactionMu, overlapped>>

\* The read of the port: nothing yet (or a timeout of readFrame),
LoopReadNothing(l) ==
    /\ loop[l].pc = "reading" /\ handle
    /\ LoopTo(l, "check")
    /\ UNCHANGED <<session, slave, data, stop, call, transactionMu, overlapped>>

\* a frame,
LoopReadFrame(l, u) ==
    /\ loop[l].pc = "reading" /\ handle
    /\ loop' = [loop EXCEPT ![l] = [LoopAt("frame") EXCEPT !.unit = u]]
    /\ UNCHANGED <<session, slave, data, stop, call, transactionMu, overlapped>>

\* or an error.
LoopReadError(l) ==
    /\ loop[l].pc = "reading"
    /\ LoopTo(l, "readErr")
    /\ UNCHANGED <<session, slave, data, stop, call, transactionMu, overlapped>>

\* An error counts only where the loop was not told to stop.
LoopReadFails(l) ==
    /\ loop[l].pc = "readErr"
    /\ LoopTo(l, IF stop[l] > 0 THEN "ended" ELSE "fail")
    /\ UNCHANGED <<session, slave, data, stop, call, transactionMu, overlapped>>

\* The model of the unit is cloned under the lock,
LoopClone(l) ==
    /\ loop[l].pc = "frame"
    /\ loop' = [loop EXCEPT ![l] =
            IF slaveUnits[@.unit] = Absent THEN LoopAt("write")
            ELSE [pc |-> "set", unit |-> @.unit, base |-> slaveUnits[@.unit]]]
    /\ UNCHANGED <<session, slave, data, stop, call, transactionMu, overlapped>>

\* BuildSlaveResponse: a write changes the clone, a read does not.
Applied(l, request) == IF request = NoWrite THEN loop[l].base ELSE request

\* the request is applied to it without the lock, and the clone is stored.
LoopSet(l, request) ==
    /\ loop[l].pc = "set"
    /\ slaveUnits' = [slaveUnits EXCEPT ![loop[l].unit] = Applied(l, request)]
    /\ loop' = [loop EXCEPT ![l] = LoopAt("write")]
    /\ UNCHANGED <<session, slave, slaveUnitID, stop, call, transactionMu, overlapped>>

\* The answer, also to a unit that is not simulated, is written.
LoopWrite(l) ==
    /\ loop[l].pc = "write" /\ port /\ handle
    /\ loop' = [loop EXCEPT ![l] = LoopAt("check")]
    /\ UNCHANGED <<session, slave, data, stop, call, transactionMu, overlapped>>

LoopWriteFails(l) ==
    /\ loop[l].pc = "write"
    /\ loop' = [loop EXCEPT ![l] = LoopAt("fail")]
    /\ UNCHANGED <<session, slave, data, stop, call, transactionMu, overlapped>>

\* setError, by whatever loop
SetError(l) ==
    /\ loop[l].pc = "fail"
    /\ status' = "error" /\ slaveRunning' = FALSE
    /\ loop' = [loop EXCEPT ![l] = LoopAt("ended")]
    /\ UNCHANGED <<listed, port, handle, current, data, stop, call, transactionMu, overlapped>>

-----------------------------------------------------------------------------
Contents == [Units -> Models \cup {Absent}]

CallerStep(c) ==
    \/ CallStop(c) \/ StopSlave(c) \/ StopSlaveIdle(c) \/ CloseStop(c) \/ StopWait(c)
    \/ CloseMark(c) \/ ClosePort(c)
    \/ StartSlaveRefused(c) \/ MasterBegin(c) \/ MasterRefused(c) \/ MasterEnd(c)
    \/ \E units \in {x \in Contents : FirstUnitID(x) # 0}, l \in Loops : StartSlave(c, units, l)
    \/ \E model \in Models : SetDataModel(c, model)
    \/ \E u \in Units : RemoveSlaveUnit(c, u)
    \/ \E u \in Units, model \in Models : AddSlaveUnit(c, u, model)
    \/ \E u \in Units, model \in Models : UpdateSlaveUnitData(c, u, model)

LoopStep(l) ==
    \/ LoopCheck(l) \/ LoopReadNothing(l) \/ LoopReadError(l) \/ LoopReadFails(l)
    \/ LoopClone(l) \/ LoopWrite(l) \/ LoopWriteFails(l) \/ SetError(l)
    \/ \E u \in Units : LoopReadFrame(l, u)
    \/ \E request \in Requests : LoopSet(l, request)

SlaveNext ==
    \/ \E c \in Callers : Get(c) \/ CloseSession(c) \/ CallerStep(c)
    \/ \E l \in Loops : LoopStep(l)

SlaveSpec == SlaveInit /\ [][SlaveNext]_slaveVars

\* A call that is under way goes on, as does the goroutine of a loop; nobody
\* has to call.  A call of the port returns.
SlaveFairness ==
    /\ \A c \in Callers : WF_slaveVars(CallerStep(c))
    /\ \A l \in Loops : WF_slaveVars(LoopStep(l))

SlaveLiveSpec == SlaveSpec /\ SlaveFairness

-----------------------------------------------------------------------------
(* Properties                                                              *)

\* "cannot run master transaction while slave simulation is running": a
\* transaction shares the port only with a loop on its way out.
MasterAlone ==
    \A l \in Loops :
        ~overlapped /\ transactionMu # None /\ Alive(l) =>
            \/ loop[l].pc = "fail" \/ stop[l] > 0
            \/ \E c \in Callers : call[c].loop = l

\* The slave that the session knows and the loops that run are the same, with
\* any calls and failures at the same time.  While the session says that a
\* slave runs, its loop is there to answer and nobody has told it to stop.  A
\* loop that was not told to stop can be: the session knows it, or a caller is
\* about to close its channel; unless a slave was started while an earlier loop
\* was on its way out, because stopSlave frees the session before it waits, and
\* waits a second at most: setError of the old loop then stops the session from
\* knowing the new one.  No stop channel is closed twice, which would panic.
\* And the unit that setDataModel edits is a simulated one, or there is none,
\* whoever edits the units while a loop stores its clone of one.
SlaveIsSound ==
    /\ slaveRunning => current # None /\ Alive(current) /\ stop[current] = 0
    /\ \A l \in Loops :
          ~overlapped /\ Alive(l) /\ stop[l] = 0 =>
              \/ slaveRunning /\ current = l
              \/ \E c \in Callers : call[c].loop = l
    /\ \A l \in Loops : stop[l] <= 1
    /\ slaveUnitID # 0 => slaveUnits[slaveUnitID] # Absent

\* CloseSession ends every loop of the session and closes its port,
Quiet == ~handle /\ \A l \in Loops : ~Alive(l)
CloseQuiets == ~listed ~> Quiet

\* and that is for good, also against a StartSlave that comes in the middle of
\* it, by a client that looked the session up before.
StaysQuiet == [][~listed /\ Quiet => Quiet']_slaveVars
=============================================================================
