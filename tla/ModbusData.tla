----------------------------- MODULE ModbusData -----------------------------
(***************************************************************************)
(* The bytes of one Modbus transaction: the PDU a master builds from the   *)
(* fields of a request (modbus/protocol.go and BuildMasterPDU), what a     *)
(* simulated unit does with it (BuildSlaveResponse of datamodel.go, or the *)
(* Modbus slave node of a graph, which answers zeros), and what the master *)
(* makes of the answer (ParseResponse).  Frames and their check sums are   *)
(* in ModbusMaster.                                                        *)
(*                                                                         *)
(* Numbers keep a width, but a smaller one: a byte has ByteBits bits, and  *)
(* an address, a quantity and a register have two bytes.  A bit is 0 or 1. *)
(* The maps of a data model give zero where they have no entry, so they    *)
(* are total functions here.                                               *)
(***************************************************************************)
EXTENDS Integers, Sequences, FiniteSetsExt

CONSTANTS
    ByteBits,           \* 8
    PlcStep,            \* item numbers between two tables: 10000
    MaxCoils,           \* coils that one request writes: 1968
    MaxRegisters,       \* registers that one request writes: 123
    MaxGraphRegisters,  \* registers that a graph node answers: 125
    Requests,           \* the requests of a master
    Models,             \* the data models a simulation starts with
    MaxExchanges        \* bound: transactions

VARIABLES
    model,      \* the DataModel of the unit
    graphNode,  \* the unit is a Modbus slave node of a graph
    request,    \* the last request
    reply,      \* the ParsedResponse, or Failed
    exchanges

vars == <<model, graphNode, request, reply, exchanges>>

Byte == 2 ^ ByteBits
Word == Byte * Byte
On == (Byte - 1) * Byte         \* 0xff00

BitFunctions == {"readCoils", "readDiscreteInputs"}
RegisterFunctions == {"readHoldingRegisters", "readInputRegisters"}
ReadFunctions == BitFunctions \cup RegisterFunctions
SingleFunctions == {"writeSingleCoil", "writeSingleRegister"}
MultipleFunctions == {"writeMultipleCoils", "writeMultipleRegisters"}

\* The table that a function works on
TableOf(f) ==
    CASE f \in {"readCoils", "writeSingleCoil", "writeMultipleCoils"} -> "coils"
      [] f = "readDiscreteInputs" -> "discrete"
      [] f = "readInputRegisters" -> "input"
      [] OTHER -> "holding"

PDU(f, data) == [function |-> f, exception |-> FALSE, data |-> data]
Failed == [kind |-> "failed"]

-----------------------------------------------------------------------------
(* Conversions                                                             *)

Low(n) == n % Byte
U16(v) == <<(v \div Byte) % Byte, v % Byte>>
BeU16(data, i) == data[i] * Byte + data[i + 1]
From(data, i) == SubSeq(data, i, Len(data))

U16s(values) == [i \in 1 .. 2 * Len(values) |-> U16(values[(i + 1) \div 2])[2 - (i % 2)]]
BytesToU16s(data) == [i \in 1 .. Len(data) \div 2 |-> BeU16(data, 2 * i - 1)]

PackBits(bits) ==
    [b \in 1 .. (Len(bits) + ByteBits - 1) \div ByteBits |->
        LET Here == {i \in DOMAIN bits : (i - 1) \div ByteBits = b - 1} IN
        MapThenSumSet(LAMBDA i : bits[i] * 2 ^ ((i - 1) % ByteBits), Here)]

UnpackBits(data, n) ==
    [i \in 1 .. n |-> (data[(i - 1) \div ByteBits + 1] \div 2 ^ ((i - 1) % ByteBits)) % 2]

-----------------------------------------------------------------------------
(* The request of the master                                               *)

PlcBase(f) ==
    PlcStep * (CASE TableOf(f) = "coils" -> 0 [] TableOf(f) = "discrete" -> 1
                 [] TableOf(f) = "input" -> 3 [] TableOf(f) = "holding" -> 4)

AddressValid(r) ==
    r.mode = "plc" => r.first >= PlcBase(r.function) + 1 /\ r.first < PlcBase(r.function) + PlcStep

ProtocolAddress(r) == IF r.mode = "plc" THEN r.first - PlcBase(r.function) - 1 ELSE r.first

\* BuildMasterPDU, for a request it accepts
CanBuild(r) ==
    /\ AddressValid(r)
    /\ r.function \in ReadFunctions => r.quantity > 0
    /\ r.function = "writeMultipleCoils" => Len(r.values) \in 1 .. MaxCoils
    /\ r.function = "writeMultipleRegisters" => Len(r.values) \in 1 .. MaxRegisters

Packed(r) == IF r.function = "writeMultipleCoils" THEN PackBits(r.values) ELSE U16s(r.values)

SingleValue(r) ==
    IF r.function = "writeSingleCoil" /\ r.value # 0 THEN On ELSE r.value

BuildMasterPDU(r) ==
    LET address == U16(ProtocolAddress(r)) IN
    PDU(r.function,
        CASE r.function \in ReadFunctions -> address \o U16(r.quantity)
          [] r.function \in SingleFunctions -> address \o U16(SingleValue(r))
          [] r.function \in MultipleFunctions ->
                address \o U16(Len(r.values)) \o <<Low(Len(Packed(r)))>> \o Packed(r))

-----------------------------------------------------------------------------
(* The unit                                                                *)

Exception(pdu) == [pdu EXCEPT !.exception = TRUE, !.data = <<3>>]

\* readBoolRange and readU16Range: the address is uint16 and wraps around.
ReadRange(f, a, n) == [i \in 1 .. n |-> model[TableOf(f)][(a + i - 1) % Word]]

\* WriteCoils and WriteHoldingRegisters
WriteRange(f, a, values) ==
    [model EXCEPT ![TableOf(f)] = [c \in DOMAIN @ |->
        IF (c - a) % Word < Len(values) THEN values[((c - a) % Word) + 1] ELSE @[c]]]

ReadAnswer(pdu, values) ==
    LET bytes == IF pdu.function \in BitFunctions THEN PackBits(values) ELSE U16s(values) IN
    PDU(pdu.function, <<Low(Len(bytes))>> \o bytes)

\* The cells that a write request sets, parseMultipleCoils and
\* parseMultipleRegisters
SetBy(pdu) ==
    CASE pdu.function = "writeSingleCoil" -> <<IF BeU16(pdu.data, 3) = On THEN 1 ELSE 0>>
      [] pdu.function = "writeSingleRegister" -> <<BeU16(pdu.data, 3)>>
      [] pdu.function = "writeMultipleCoils" ->
            SubSeq(UnpackBits(From(pdu.data, 6), pdu.data[5] * ByteBits), 1, BeU16(pdu.data, 3))
      [] pdu.function = "writeMultipleRegisters" -> BytesToU16s(From(pdu.data, 6))

WellFormed(pdu) ==
    LET data == pdu.data IN
    CASE pdu.function \in ReadFunctions -> Len(data) = 4 /\ BeU16(data, 3) > 0
      [] pdu.function = "writeSingleCoil" -> Len(data) = 4 /\ BeU16(data, 3) \in {0, On}
      [] pdu.function = "writeSingleRegister" -> Len(data) = 4
      [] pdu.function = "writeMultipleCoils" ->
            /\ Len(data) >= 6 /\ Len(data) - 5 = data[5] /\ data[5] > 0
            /\ BeU16(data, 3) \in 1 .. data[5] * ByteBits
      [] pdu.function = "writeMultipleRegisters" ->
            /\ Len(data) >= 6 /\ Len(data) - 5 = data[5]
            /\ BeU16(data, 3) > 0 /\ data[5] = 2 * BeU16(data, 3)

\* BuildSlaveResponse: the answer, and the model it leaves
SlaveAnswer(pdu) ==
    LET address == BeU16(pdu.data, 1) IN
    CASE ~WellFormed(pdu) -> Exception(pdu)
      [] WellFormed(pdu) /\ pdu.function \in ReadFunctions ->
            ReadAnswer(pdu, ReadRange(pdu.function, address, BeU16(pdu.data, 3)))
      [] OTHER -> [pdu EXCEPT !.data = SubSeq(@, 1, 4)]

SlaveModel(pdu) ==
    IF WellFormed(pdu) /\ pdu.function \notin ReadFunctions
    THEN WriteRange(pdu.function, BeU16(pdu.data, 1), SetBy(pdu))
    ELSE model

\* graphModbusSlaveResponse: zeros, whatever was written
GraphAnswer(pdu) ==
    LET quantity == BeU16(pdu.data, 3)
        zeros == [i \in 1 .. quantity |-> 0]
        tooMany == pdu.function \in RegisterFunctions /\ quantity > MaxGraphRegisters IN
    CASE Len(pdu.data) < 4 -> Exception(pdu)
      [] Len(pdu.data) >= 4 /\ pdu.function \in ReadFunctions ->
            IF quantity = 0 \/ tooMany THEN Exception(pdu) ELSE ReadAnswer(pdu, zeros)
      [] OTHER -> [pdu EXCEPT !.data = SubSeq(@, 1, 4)]

-----------------------------------------------------------------------------
(* The answer                                                              *)

\* mutant: the byte count is not compared with what came
ReadAnswerFitsAnyway(pdu) == Len(pdu.data) > 0

ReadAnswerFits(pdu) ==
    /\ Len(pdu.data) > 0 /\ Len(pdu.data) - 1 = pdu.data[1]
    /\ pdu.function \in RegisterFunctions => pdu.data[1] % 2 = 0

\* ParseResponse
ParseResponse(pdu) ==
    CASE pdu.exception -> [kind |-> "exception", code |-> pdu.data[1]]
      [] ~pdu.exception /\ pdu.function \in ReadFunctions /\ ReadAnswerFits(pdu) ->
            [kind |-> "values", values |->
                IF pdu.function \in BitFunctions
                THEN UnpackBits(From(pdu.data, 2), pdu.data[1] * ByteBits)
                ELSE BytesToU16s(From(pdu.data, 2))]
      [] ~pdu.exception /\ pdu.function \notin ReadFunctions /\ Len(pdu.data) = 4 ->
            [kind |-> "done", address |-> BeU16(pdu.data, 1), rest |-> BeU16(pdu.data, 3)]
      [] OTHER -> Failed

-----------------------------------------------------------------------------
PerTable(bits, registers) ==
    [t \in {"coils", "discrete", "input", "holding"} |->
        IF t \in {"coils", "discrete"} THEN bits ELSE registers]

Zeros == [a \in 0 .. Word - 1 |-> 0]

Init ==
    /\ graphNode \in BOOLEAN
    /\ model \in IF graphNode THEN {PerTable(Zeros, Zeros)} ELSE Models
    /\ request = [op |-> "none"] /\ reply = Failed /\ exchanges = 0

Exchange(pdu) ==
    /\ exchanges < MaxExchanges /\ exchanges' = exchanges + 1
    /\ reply' = ParseResponse(IF graphNode THEN GraphAnswer(pdu) ELSE SlaveAnswer(pdu))
    /\ model' = IF graphNode THEN model ELSE SlaveModel(pdu)
    /\ UNCHANGED graphNode

\* A transaction; a request that cannot be encoded is not sent.
Transact(r) ==
    /\ request' = r
    /\ \/ CanBuild(r) /\ Exchange(BuildMasterPDU(r))
       \/ /\ ~CanBuild(r) /\ exchanges < MaxExchanges
          /\ exchanges' = exchanges + 1 /\ reply' = Failed
          /\ UNCHANGED <<model, graphNode>>

\* A master of another make sends a PDU whose length is wrong.
TransactRaw(r) ==
    /\ ~graphNode /\ CanBuild(r)
    /\ request' = [r EXCEPT !.op = "raw"]
    /\ LET pdu == BuildMasterPDU(r) IN
       \/ Exchange([pdu EXCEPT !.data = SubSeq(@, 1, Len(@) - 1)])
       \/ Exchange([pdu EXCEPT !.data = Append(@, 1)])

Next == \E r \in Requests : Transact(r) \/ TransactRaw(r)

Spec == Init /\ [][Next]_vars

-----------------------------------------------------------------------------
(* The tables that a unit is to its master                                 *)

\* The answer to a read of bits is filled up to a byte; the bits behind the
\* last one that was asked for are off.
Asked(r, values) ==
    IF r.quantity <= Len(values) /\ \A i \in r.quantity + 1 .. Len(values) : values[i] = 0
    THEN SubSeq(values, 1, r.quantity) ELSE values

\* What the answer tells of the cells that were written: their number, or the
\* value of the one
Confirmed(r) ==
    IF r.op = "set" /\ reply.rest = SingleValue(r) THEN 1
    ELSE IF r.op = "set" THEN -1 ELSE reply.rest

Told ==
    CASE reply.kind \in {"failed", "exception"} -> [kind |-> "refused"]
      [] reply.kind = "values" -> [reply EXCEPT !.values = Asked(request, @)]
      [] reply.kind = "done" ->
            [kind |-> "done", first |-> reply.address, cells |-> Confirmed(request)]

Tables == INSTANCE ModbusTables WITH
    Space <- Word,
    Numbers <- [coils |-> 1, discrete |-> PlcStep + 1, input |-> 3 * PlcStep + 1,
                holding |-> 4 * PlcStep + 1],
    Items <- PlcStep - 1,
    ReadLimit <- [kept \in BOOLEAN |->
        PerTable((Byte - 1) * ByteBits, IF kept THEN (Byte - 1) \div 2 ELSE MaxGraphRegisters)],
    WriteLimit <- PerTable(MaxCoils, MaxRegisters),
    table <- model, keeps <- ~graphNode, reply <- Told

\* A transaction is one step of the tables: a master reads exactly the cells
\* it named and never others or a part of them, a write changes exactly the
\* cells it names and is confirmed for those, and all else is refused and
\* changes nothing: a read of more than an answer can count (the byte count of
\* the answer wraps around), a PLC number of another table, a malformed PDU.
DataIsExact == Tables!Spec
=============================================================================
