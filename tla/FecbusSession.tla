---------------------------- MODULE FecbusSession ----------------------------
(***************************************************************************)
(* One session of fecbus/session.go: the master transactions of            *)
(* sendRequest, the simulated slave (startSlave, stopSlave, slaveLoop),    *)
(* the calls that edit its units, and the frame history all of them write. *)
(*                                                                         *)
(* Every call of the manager looks the session up (get) and works on the   *)
(* object it found, which may have been closed in between.  A frame that   *)
(* is read is its target address; what a transaction makes of an answer is *)
(* modelled in FecbusMaster.  A record of the history is its number.       *)
(***************************************************************************)
EXTENDS Naturals, Sequences, SequencesExt, FiniteSets

CONSTANTS
    Callers,        \* clients of the manager
    Loops,          \* slave loops, in the order they are started in: 1..n
    Addresses,      \* addresses a unit is given, numbers from 1
    MaxAddress,     \* 63: the last address a frame can carry
    Units,          \* contents of a unit: [payload, auto, broadcast]
    Absent,         \* no such unit
    None,           \* no loop
    MaxRetries,     \* bound on the retries of a request
    MaxHistory,     \* maxHistory
    MaxSeq          \* bound: frames recorded

\* None is told from a loop and from a caller.
ASSUME FecbusAssumption == None \notin Loops \cup Callers /\ MaxHistory \in Nat

VARIABLES
    listed,         \* the session is in the manager's table
    port,           \* s.port is set
    handle,         \* the serial port is open
    status,         \* s.status
    slaveRunning,   \* s.slaveRunning
    current,        \* the loop of s.slaveStop and s.slaveDone, or None
    slaveUnits,     \* s.slaveUnits: content per address, or Absent
    loop,           \* the goroutines of slaveLoop
    stop,           \* how often each stop channel has been closed
    call,           \* where each caller is
    transactionMu,  \* holder of s.transactionMu during a request, or None
    history,        \* s.history: the numbers of its records
    nextSeq,        \* s.nextSeq
    overlapped      \* ghost: did something start while a loop was on its way out?

session == <<listed, port, handle, status>>
slave == <<slaveRunning, current>>
frames == <<history, nextSeq>>
vars == <<session, slave, slaveUnits, loop, stop, call, transactionMu, frames, overlapped>>

Idle == [pc |-> "idle", loop |-> None, closing |-> FALSE, left |-> 0, seq |-> 0]
LoopAt(pc) == [pc |-> pc, target |-> 0, todo |-> << >>, seq |-> 0]
Alive(l) == loop[l].pc \notin {"none", "ended"}

\* A loop that the session has let go of, or that has failed, but that runs
OnItsWayOut(l) == Alive(l) /\ ~(slaveRunning /\ current = l)

\* The shape of the state; a caller knows the loop it stops or waits for.
TypeOK ==
    /\ listed \in BOOLEAN /\ port \in BOOLEAN /\ handle \in BOOLEAN
    /\ status \in {"open", "running", "error", "closed"}
    /\ slaveRunning \in BOOLEAN /\ current \in Loops \cup {None}
    /\ slaveUnits \in [Addresses -> Units \cup {Absent}]
    /\ \A l \in Loops : loop[l].todo \in Seq([address : Addresses, unit : Units]) /\ stop[l] \in Nat
    /\ \A c \in Callers : call[c].pc \in {"close", "wait"} <=> call[c].loop # None
    /\ transactionMu \in Callers \cup {None}
    /\ history \in Seq(1 .. nextSeq) /\ Len(history) <= MaxHistory /\ nextSeq \in 0 .. MaxSeq

\* A session is opened with one unit that answers every request.
Init ==
    /\ listed = TRUE /\ port = TRUE /\ handle = TRUE /\ status = "open"
    /\ slaveRunning = FALSE /\ current = None
    /\ slaveUnits \in [Addresses -> Units \cup {Absent}]
    /\ \E a \in Addresses : \A b \in Addresses :
        IF a = b THEN slaveUnits[b] # Absent /\ slaveUnits[b].auto /\ slaveUnits[b].broadcast
                 ELSE slaveUnits[b] = Absent
    /\ loop = [l \in Loops |-> LoopAt("none")]
    /\ stop = [l \in Loops |-> 0]
    /\ call = [c \in Callers |-> Idle]
    /\ transactionMu = None /\ overlapped = FALSE
    /\ history = << >> /\ nextSeq = 0

-----------------------------------------------------------------------------
(* The manager and the frame history                                       *)

Goto(c, pc) == call' = [call EXCEPT ![c].pc = pc]
Return(c) == call' = [call EXCEPT ![c] = Idle]

\* get: the caller holds on to the session it found
Get(c) ==
    /\ call[c].pc = "idle" /\ listed
    /\ Goto(c, "got")
    /\ UNCHANGED <<session, slave, slaveUnits, loop, stop, transactionMu, frames, overlapped>>

\* CloseSession and CloseAll take the session from the table and close it.
CloseSession(c) ==
    /\ call[c].pc = "idle" /\ listed
    /\ listed' = FALSE
    /\ call' = [call EXCEPT ![c].pc = "stop", ![c].closing = TRUE]
    /\ UNCHANGED <<port, handle, status, slave, slaveUnits, loop, stop, transactionMu, frames, overlapped>>

\* recordFrame draws the number of a record without the lock ...
Number == nextSeq < MaxSeq /\ nextSeq' = nextSeq + 1

\* ... and stores the record with it, where the oldest makes room.
Store(seq) ==
    LET all == Append(history, seq) IN
    /\ history' = SubSeq(all, Len(all) - (IF Len(all) > MaxHistory THEN MaxHistory ELSE Len(all)) + 1, Len(all))
    /\ UNCHANGED nextSeq

ClearFrames(c) ==
    /\ call[c].pc = "got"
    /\ history' = << >>
    /\ Return(c)
    /\ UNCHANGED <<session, slave, slaveUnits, loop, stop, transactionMu, nextSeq, overlapped>>

-----------------------------------------------------------------------------
(* startSlave, stopSlave and close                                         *)

\* Goroutines are numbered in the order they are started in.
NextLoop(l) == loop[l].pc = "none" /\ \A k \in 1 .. l - 1 : loop[k].pc # "none"

\* normalizeSlaveUnit: a unit that would never answer gets the status answer.
Normal(unit) == [unit EXCEPT !.auto = @ \/ unit.payload = "none"]

\* startSlave waits for a request to end; the units are those it was given,
\* at least one.
StartSlave(c, given, l) ==
    /\ call[c].pc = "got" /\ transactionMu = None
    /\ port /\ status # "closed" /\ ~slaveRunning /\ NextLoop(l)
    /\ slaveUnits' = [a \in Addresses |-> IF given[a] = Absent THEN Absent ELSE Normal(given[a])]
    /\ slaveRunning' = TRUE /\ status' = "running" /\ current' = l
    /\ loop' = [loop EXCEPT ![l] = LoopAt("check")]
    /\ overlapped' = (overlapped \/ \E k \in Loops : OnItsWayOut(k))
    /\ Return(c)
    /\ UNCHANGED <<listed, port, handle, stop, transactionMu, frames>>

\* Refused on a closed session and where a slave runs, as a request is
Refused(c) ==
    /\ call[c].pc = "got" /\ transactionMu = None
    /\ ~port \/ status = "closed" \/ slaveRunning
    /\ Return(c)
    /\ UNCHANGED <<session, slave, slaveUnits, loop, stop, transactionMu, frames, overlapped>>

\* A call of StopSlave, or one of close
Stopping(c) == call[c].pc \in {"got", "stop"}

\* What a caller does after stopSlave: close goes on, StopSlave returns.
AfterStop(c) == IF call[c].closing THEN [Idle EXCEPT !.pc = "closing", !.closing = TRUE] ELSE Idle

\* mutant: the session keeps its channels and its flag until the loop is gone
StopSlaveKeeps(c) ==
    /\ Stopping(c) /\ slaveRunning
    /\ call' = [call EXCEPT ![c].pc = "close", ![c].loop = current]
    /\ UNCHANGED <<session, slave, slaveUnits, loop, stop, transactionMu, frames, overlapped>>

\* stopSlave takes the channels of the loop under the lock,
StopSlave(c) ==
    /\ Stopping(c) /\ slaveRunning
    /\ slaveRunning' = FALSE /\ status' = "open" /\ current' = None
    /\ call' = [call EXCEPT ![c].pc = "close", ![c].loop = current]
    /\ UNCHANGED <<listed, port, handle, slaveUnits, loop, stop, transactionMu, frames, overlapped>>

StopSlaveIdle(c) ==
    /\ Stopping(c) /\ ~slaveRunning
    /\ call' = [call EXCEPT ![c] = AfterStop(c)]
    /\ UNCHANGED <<session, slave, slaveUnits, loop, stop, transactionMu, frames, overlapped>>

\* closes the stop channel without it,
CloseStop(c) ==
    /\ call[c].pc = "close"
    /\ stop' = [stop EXCEPT ![call[c].loop] = @ + 1]
    /\ Goto(c, "wait")
    /\ UNCHANGED <<session, slave, slaveUnits, loop, transactionMu, frames, overlapped>>

\* and waits for the loop to end, or for a second.
StopWait(c) ==
    /\ call[c].pc = "wait"
    /\ call' = [call EXCEPT ![c] = AfterStop(c)]
    /\ UNCHANGED <<session, slave, slaveUnits, loop, stop, transactionMu, frames, overlapped>>

\* close marks the session, then closes the port.
CloseMark(c) ==
    /\ call[c].pc = "closing"
    /\ status' = "closed" /\ port' = FALSE
    /\ Goto(c, "handle")
    /\ UNCHANGED <<listed, handle, slave, slaveUnits, loop, stop, transactionMu, frames, overlapped>>

ClosePort(c) ==
    /\ call[c].pc = "handle"
    /\ handle' = FALSE
    /\ Return(c)
    /\ UNCHANGED <<listed, port, status, slave, slaveUnits, loop, stop, transactionMu, frames, overlapped>>

-----------------------------------------------------------------------------
(* sendRequest                                                             *)

\* mutant: no test for a slave that runs
SendBeginAnyway(c, retries) ==
    /\ call[c].pc = "got" /\ transactionMu = None
    /\ port /\ status # "closed"
    /\ transactionMu' = c
    /\ call' = [call EXCEPT ![c].pc = "write", ![c].left = retries]
    /\ overlapped' = (overlapped \/ \E l \in Loops : OnItsWayOut(l))
    /\ UNCHANGED <<session, slave, slaveUnits, loop, stop, frames>>

SendBegin(c, retries) ==
    /\ call[c].pc = "got" /\ transactionMu = None
    /\ port /\ status # "closed" /\ ~slaveRunning
    /\ transactionMu' = c
    /\ call' = [call EXCEPT ![c].pc = "write", ![c].left = retries]
    /\ overlapped' = (overlapped \/ \E l \in Loops : OnItsWayOut(l))
    /\ UNCHANGED <<session, slave, slaveUnits, loop, stop, frames>>

\* An attempt writes the request and records it, written or not.
SendWrite(c, next) ==
    /\ call[c].pc = "write"
    /\ next = "sent" => port /\ handle
    /\ Number
    /\ call' = [call EXCEPT ![c].pc = next, ![c].seq = nextSeq + 1]
    /\ UNCHANGED <<session, slave, slaveUnits, loop, stop, transactionMu, history, overlapped>>

SendEnds(c) == transactionMu' = None /\ Return(c)

\* The next attempt, or the end of the request
SendFails(c) ==
    \/ /\ call[c].left > 0
       /\ call' = [call EXCEPT ![c].pc = "write", ![c].left = @ - 1, ![c].seq = 0]
       /\ UNCHANGED transactionMu
    \/ call[c].left = 0 /\ SendEnds(c)

\* A request that expects no answer ends here.
SendRecord(c) ==
    /\ call[c].pc \in {"sent", "unsent"}
    /\ Store(call[c].seq)
    /\ \/ call[c].pc = "unsent" /\ SendFails(c)
       \/ call[c].pc = "sent" /\ SendEnds(c)
       \/ /\ call[c].pc = "sent"
          /\ call' = [call EXCEPT ![c].pc = "read", ![c].seq = 0]
          /\ UNCHANGED transactionMu
    /\ UNCHANGED <<session, slave, slaveUnits, loop, stop, overlapped>>

\* readFrame returns a frame,
SendRead(c) ==
    /\ call[c].pc = "read" /\ port /\ handle
    /\ Number
    /\ call' = [call EXCEPT ![c].pc = "answered", ![c].seq = nextSeq + 1]
    /\ UNCHANGED <<session, slave, slaveUnits, loop, stop, transactionMu, history, overlapped>>

\* or an error: the deadline, the port, or the session that is closed.
SendReadFails(c) ==
    /\ call[c].pc = "read"
    /\ SendFails(c)
    /\ UNCHANGED <<session, slave, slaveUnits, loop, stop, frames, overlapped>>

\* The frame is recorded, then compared with the request.
SendAnswered(c) ==
    /\ call[c].pc = "answered"
    /\ Store(call[c].seq)
    /\ SendEnds(c) \/ SendFails(c)
    /\ UNCHANGED <<session, slave, slaveUnits, loop, stop, overlapped>>

-----------------------------------------------------------------------------
(* The simulated units                                                     *)

\* setSlaveUnit takes any address,
SetSlaveUnit(c, a, unit) ==
    /\ call[c].pc = "got"
    /\ slaveUnits' = [slaveUnits EXCEPT ![a] = Normal(unit)]
    /\ Return(c)
    /\ UNCHANGED <<session, slave, loop, stop, transactionMu, frames, overlapped>>

\* removeSlaveUnit only one that a frame can carry.
RemoveSlaveUnit(c, a) ==
    /\ call[c].pc = "got" /\ a <= MaxAddress /\ slaveUnits[a] # Absent
    /\ slaveUnits' = [slaveUnits EXCEPT ![a] = Absent]
    /\ Return(c)
    /\ UNCHANGED <<session, slave, loop, stop, transactionMu, frames, overlapped>>

-----------------------------------------------------------------------------
(* slaveLoop                                                               *)

LoopTo(l, pc) == loop' = [loop EXCEPT ![l].pc = pc]

\* readFrame looks at the stop channel and at the port before every read.
LoopCheck(l) ==
    /\ loop[l].pc = "check"
    /\ LoopTo(l, IF stop[l] > 0 THEN "ended" ELSE IF port THEN "reading" ELSE "readErr")
    /\ UNCHANGED <<session, slave, slaveUnits, stop, call, transactionMu, frames, overlapped>>

\* Nothing yet, part of a frame, or the timeout of readFrame
LoopReadNothing(l) ==
    /\ loop[l].pc = "reading" /\ handle
    /\ LoopTo(l, "check")
    /\ UNCHANGED <<session, slave, slaveUnits, stop, call, transactionMu, frames, overlapped>>

\* A frame, for everybody (0) or for one address
LoopReadFrame(l, target) ==
    /\ loop[l].pc = "reading" /\ handle
    /\ Number
    /\ loop' = [loop EXCEPT ![l] = [pc |-> "frame", target |-> target, todo |-> << >>, seq |-> nextSeq + 1]]
    /\ UNCHANGED <<session, slave, slaveUnits, stop, call, transactionMu, history, overlapped>>

LoopReadError(l) ==
    /\ loop[l].pc = "reading"
    /\ LoopTo(l, "readErr")
    /\ UNCHANGED <<session, slave, slaveUnits, stop, call, transactionMu, frames, overlapped>>

\* An error counts only where the loop was not told to stop.
LoopReadFails(l) ==
    /\ loop[l].pc = "readErr"
    /\ LoopTo(l, IF stop[l] > 0 THEN "ended" ELSE "fail")
    /\ UNCHANGED <<session, slave, slaveUnits, stop, call, transactionMu, frames, overlapped>>

\* matchingSlaveUnits, on a copy of the units: the one the frame is for, or
\* those that accept a broadcast, in the order of their addresses
Matching(target) ==
    LET accepts(a) == /\ slaveUnits[a] # Absent
                      /\ \/ a = target
                         \/ target = 0 /\ slaveUnits[a].broadcast
        order == SetToSortSeq({a \in Addresses : accepts(a)}, <)
    IN  [i \in DOMAIN order |-> [address |-> order[i], unit |-> slaveUnits[order[i]]]]

\* The frame is recorded; the units are read after that, under the lock again.
LoopRecord(l) ==
    /\ loop[l].pc = "frame"
    /\ Store(loop[l].seq)
    /\ loop' = [loop EXCEPT ![l].pc = "match", ![l].seq = 0]
    /\ UNCHANGED <<session, slave, slaveUnits, stop, call, transactionMu, overlapped>>

LoopMatch(l) ==
    /\ loop[l].pc = "match"
    /\ loop' = [loop EXCEPT ![l].pc = "answer", ![l].todo = Matching(loop[l].target), ![l].target = 0]
    /\ UNCHANGED <<session, slave, slaveUnits, stop, call, transactionMu, frames, overlapped>>

LoopDone(l) ==
    /\ loop[l].pc = "answer" /\ loop[l].todo = << >>
    /\ loop' = [loop EXCEPT ![l] = LoopAt("check")]
    /\ UNCHANGED <<session, slave, slaveUnits, stop, call, transactionMu, frames, overlapped>>

\* buildSlaveAnswer: an answer, an error that is recorded, or no answer
Answers(unit) ==
    CASE unit.payload = "long" -> "error"
      [] unit.payload = "short" \/ unit.auto -> "answer"
      [] OTHER -> "none"

\* The unit at the head of the list is worked off.
Turn(l) == loop[l].pc = "answer" /\ loop[l].todo # << >>
NextUnit(l, pc, seq) == loop' = [loop EXCEPT ![l].pc = pc, ![l].seq = seq, ![l].todo = Tail(@)]

LoopSkips(l) ==
    /\ Turn(l) /\ Answers(Head(loop[l].todo).unit) = "none"
    /\ NextUnit(l, "answer", 0)
    /\ UNCHANGED <<session, slave, slaveUnits, stop, call, transactionMu, frames, overlapped>>

\* What is recorded: that there is no answer to build, or the answer written
LoopAnswer(l) ==
    /\ Turn(l)
    /\ LET head == Head(loop[l].todo) IN
       \/ Answers(head.unit) = "error"
       \/ Answers(head.unit) = "answer" /\ head.address <= MaxAddress /\ port /\ handle
    /\ Number
    /\ NextUnit(l, "record", nextSeq + 1)
    /\ UNCHANGED <<session, slave, slaveUnits, stop, call, transactionMu, history, overlapped>>

\* The answer cannot be encoded, which is so for an address beyond 63, or the
\* write fails.
LoopAnswerFails(l) ==
    /\ Turn(l) /\ Answers(Head(loop[l].todo).unit) = "answer"
    /\ loop' = [loop EXCEPT ![l] = LoopAt("fail")]
    /\ UNCHANGED <<session, slave, slaveUnits, stop, call, transactionMu, frames, overlapped>>

LoopAnswerRecord(l) ==
    /\ loop[l].pc = "record"
    /\ Store(loop[l].seq)
    /\ loop' = [loop EXCEPT ![l].pc = "answer", ![l].seq = 0]
    /\ UNCHANGED <<session, slave, slaveUnits, stop, call, transactionMu, overlapped>>

\* setError, by whatever loop
SetError(l) ==
    /\ loop[l].pc = "fail"
    /\ status' = "error" /\ slaveRunning' = FALSE
    /\ loop' = [loop EXCEPT ![l] = LoopAt("ended")]
    /\ UNCHANGED <<listed, port, handle, current, slaveUnits, stop, call, transactionMu, frames, overlapped>>

-----------------------------------------------------------------------------
Contents == [Addresses -> Units \cup {Absent}]

CallerStep(c) ==
    \/ StopSlave(c) \/ StopSlaveIdle(c) \/ CloseStop(c) \/ StopWait(c)
    \/ CloseMark(c) \/ ClosePort(c) \/ Refused(c) \/ ClearFrames(c)
    \/ SendRecord(c) \/ SendRead(c) \/ SendReadFails(c) \/ SendAnswered(c)
    \/ \E retries \in 0 .. MaxRetries : SendBegin(c, retries)
    \/ \E next \in {"sent", "unsent"} : SendWrite(c, next)
    \/ \E given \in {x \in Contents : \E a \in Addresses : x[a] # Absent}, l \in Loops : StartSlave(c, given, l)
    \/ \E a \in Addresses, unit \in Units : SetSlaveUnit(c, a, unit)
    \/ \E a \in Addresses : RemoveSlaveUnit(c, a)

LoopStep(l) ==
    \/ LoopCheck(l) \/ LoopReadNothing(l) \/ LoopReadError(l) \/ LoopReadFails(l)
    \/ LoopRecord(l) \/ LoopMatch(l) \/ LoopDone(l) \/ LoopSkips(l) \/ LoopAnswer(l)
    \/ LoopAnswerFails(l) \/ LoopAnswerRecord(l) \/ SetError(l)
    \/ \E target \in {0} \cup {a \in Addresses : a <= MaxAddress} : LoopReadFrame(l, target)

Next ==
    \/ \E c \in Callers : Get(c) \/ CloseSession(c) \/ CallerStep(c)
    \/ \E l \in Loops : LoopStep(l)

Spec == Init /\ [][Next]_vars

-----------------------------------------------------------------------------
(* Properties                                                              *)

\* While the session says that a slave runs, its loop is there to answer and
\* nobody has told it to stop; and no stop channel is closed twice, which
\* would panic, whoever stops, closes and starts at the same time.
SlaveIsServed ==
    /\ slaveRunning => current # None /\ Alive(current) /\ stop[current] = 0
    /\ \A l \in Loops : stop[l] <= 1

\* recordFrame numbers a record without the lock it stores it with, so two
\* that record at once may store in the wrong order.  That takes a loop which
\* stopSlave gave up waiting for: a request and a slave that runs keep each
\* other out, and then the history is in the order of its numbers.
HistoryInOrder ==
    ~overlapped => \A i, j \in DOMAIN history : i < j => history[i] < history[j]
=============================================================================
