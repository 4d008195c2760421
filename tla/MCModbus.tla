------------------------------ MODULE MCModbus ------------------------------
(***************************************************************************)
(* Modbus and a monitor on small instances.  A behaviour is of one of five *)
(* parts: a scan of registers, a session that simulates a slave with its   *)
(* callers, the line under the master, the PDUs of a master and a unit, or *)
(* a monitor session with its callers.  The other parts keep still.        *)
(***************************************************************************)
EXTENDS RegisterScan, ModbusSlave, ModbusMaster, TLC

CONSTANTS
    u1, u2, x, y,                                                 \* units and items
    ByteBits, PlcStep, MaxCoils, MaxRegisters, MaxGraphRegisters, MaxExchanges, \* of ModbusData
    Sessions, IDs, IdOf, Users, FrameLimit, MaxReads              \* of MonitorSession

VARIABLES
    part,       \* the part that moves
    model, graphNode, request, reply, exchanges,
    sessions, auto, virtuals, deviceA, deviceB, ses, starter, fwd, user, ended, reads, kept, overlappedStart

dataVars == <<model, graphNode, request, reply, exchanges>>
monitorVars ==
    <<sessions, auto, virtuals, deviceA, deviceB, ses, starter, fwd, user, ended, reads, kept, overlappedStart>>

\* Two things to ask of one unit, and another unit
MCRequest == {[unit |-> u1, item |-> x], [unit |-> u1, item |-> y], [unit |-> u2, item |-> x]}

-----------------------------------------------------------------------------
(* Requests and data models of part "data": addresses at both ends of the  *)
(* address space and of the PLC numbers of every table, quantities at and  *)
(* beyond what fits a byte count.                                          *)

Places ==
    {[mode |-> "zero-based", first |-> a] : a \in {0, 63}} \cup
    {[mode |-> "plc", first |-> a] : a \in {0, 1, 12, 37, 49, 60}}

Functions ==
    {[op |-> "read", function |-> "readCoils", table |-> "coils"],
     [op |-> "read", function |-> "readDiscreteInputs", table |-> "discrete"],
     [op |-> "read", function |-> "readInputRegisters", table |-> "input"],
     [op |-> "read", function |-> "readHoldingRegisters", table |-> "holding"],
     [op |-> "set", function |-> "writeSingleCoil", table |-> "coils"],
     [op |-> "set", function |-> "writeSingleRegister", table |-> "holding"],
     [op |-> "write", function |-> "writeMultipleCoils", table |-> "coils"],
     [op |-> "write", function |-> "writeMultipleRegisters", table |-> "holding"]}

Bits(n) == [i \in 1 .. n |-> IF i % 3 = 1 THEN 1 ELSE 0]
Registers(n) == [i \in 1 .. n |-> 8 * i + 1]

Payloads(f) ==
    CASE f.op = "read" -> {[quantity |-> n] : n \in {0, 3, 4, 21, 22}}
      [] f.op = "set" -> {[value |-> v] : v \in {0, 9}}
      [] f.function = "writeMultipleCoils" -> {[values |-> Bits(n)] : n \in {0, 18, 19}}
      [] f.function = "writeMultipleRegisters" -> {[values |-> Registers(n)] : n \in {0, 3, 4}}

MCRequests == UNION {{f @@ place @@ payload : place \in Places, payload \in Payloads(f)} : f \in Functions}

MCModels ==
    {[t \in {"coils", "discrete", "input", "holding"} |-> [a \in 0 .. 63 |->
        IF t \in {"coils", "discrete"} THEN (IF a % 3 = 0 THEN 1 ELSE 0) ELSE (5 * a + 1) % 64]]}

Data == INSTANCE ModbusData WITH Requests <- MCRequests, Models <- MCModels
Monitor == INSTANCE MonitorSession WITH overlapped <- overlappedStart

OneId == [s \in Sessions |-> "m1"]

-----------------------------------------------------------------------------
\* The parts that keep still are in one of their initial states.
SlaveStill == SlaveInit
MasterStill == MasterInit /\ mode = "rtu" /\ retries = 0
DataStill == Data!Init /\ ~graphNode
ScanStill ==
    /\ first = 0 /\ last = 0 /\ size = 1 /\ nonZero = {} /\ address = 0
    /\ ranges = << >> /\ found = {} /\ done = FALSE

MCInit ==
    /\ Monitor!Init
    /\ \/ part = "scan" /\ ScanInit /\ SlaveStill /\ MasterStill /\ DataStill
       \/ part \in {"slave", "monitor"} /\ ScanStill /\ SlaveInit /\ MasterStill /\ DataStill
       \/ part = "master" /\ ScanStill /\ SlaveStill /\ MasterInit /\ DataStill
       \/ part = "data" /\ ScanStill /\ SlaveStill /\ MasterStill /\ Data!Init

MCNext ==
    \/ part = "scan" /\ ScanNext /\ UNCHANGED <<part, slaveVars, masterVars, dataVars, monitorVars>>
    \/ part = "slave" /\ SlaveNext /\ UNCHANGED <<part, scanVars, masterVars, dataVars, monitorVars>>
    \/ part = "master" /\ MasterNext /\ UNCHANGED <<part, scanVars, slaveVars, dataVars, monitorVars>>
    \/ part = "data" /\ Data!Next /\ UNCHANGED <<part, scanVars, slaveVars, masterVars, monitorVars>>
    \/ part = "monitor" /\ Monitor!Next /\ UNCHANGED <<part, scanVars, slaveVars, masterVars, dataVars>>

mcVars == <<part, scanVars, slaveVars, masterVars, dataVars, monitorVars>>

\* The fairness of ModbusSlave, ModbusMaster and MonitorSession
MCFairness ==
    /\ \A c \in Callers : WF_slaveVars(part = "slave" /\ CallerStep(c))
    /\ \A l \in Loops : WF_slaveVars(part = "slave" /\ LoopStep(l))
    /\ WF_masterVars(part = "master" /\ Master)
    /\ WF_masterVars(part = "master" /\ ReadFails)
    /\ Monitor!Fairness

MCSpec == MCInit /\ [][MCNext]_mcVars /\ MCFairness

-----------------------------------------------------------------------------
\* A transaction is one step of the tables of a unit: see ModbusData.
DataIsExact == Data!DataIsExact

Unfinished ==
    \/ part = "slave" /\ ~listed /\ ~Quiet
    \/ part = "master" /\ pc # "idle"

\* CloseSession ends every loop and closes the port (CloseQuiets), for good
\* (StaysQuiet), and every transaction returns (TransactionEnds).
EverythingEnds == (Unfinished ~> ~Unfinished) /\ StaysQuiet

\* A stop of a monitor returns, and a failure of one direction ends both: see
\* MonitorSession.
StopsAndFailuresEnd == Monitor!StopsAndFailuresEnd
=============================================================================
