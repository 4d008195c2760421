---------------------------- MODULE ModbusTables ----------------------------
(***************************************************************************)
(* What a simulated unit promises to a master: four tables of cells.  A    *)
(* request names cells by table and address, or by their PLC item number;  *)
(* it is answered by exactly those cells, or changes exactly those cells,  *)
(* or is refused and changes nothing.  No frame, no byte and no function   *)
(* code is mentioned here.                                                 *)
(***************************************************************************)
EXTENDS Integers, Sequences

CONSTANTS
    Space,          \* number of addresses of a table; a register is below it too
    Numbers,        \* first PLC item number of each table
    Items,          \* number of PLC items of a table
    ReadLimit,      \* cells of each table that one answer holds, by keeps
    WriteLimit      \* cells of each table that one request writes

VARIABLES
    table,          \* cells of each table
    keeps,          \* the unit keeps what is written to it
    request,        \* the last request
    reply           \* what the master was told

vars == <<table, keeps, request, reply>>

Refused == [kind |-> "refused"]

First(r) == IF r.mode = "plc" THEN r.first - Numbers[r.table] ELSE r.first
Named(r) == r.mode = "plc" => r.first \in Numbers[r.table] .. Numbers[r.table] + Items - 1

\* Addresses are uint16 and go on at zero behind the last one.
Cells(r, n) == [i \in 1 .. n |-> (First(r) + i - 1) % Space]

Served(r) ==
    /\ r.op \in {"read", "set", "write"} /\ Named(r)
    /\ r.op = "read" => r.quantity \in 1 .. ReadLimit[keeps][r.table]
    /\ r.op = "write" => Len(r.values) \in 1 .. WriteLimit[r.table]

\* A coil is on or off.
Stored(r, value) == IF r.table = "coils" THEN IF value = 0 THEN 0 ELSE 1 ELSE value

Values(r) == IF r.op = "set" THEN <<r.value>> ELSE r.values

Written(r) ==
    [table EXCEPT ![r.table] = [a \in DOMAIN @ |->
        IF \E i \in DOMAIN Values(r) : Cells(r, Len(Values(r)))[i] = a
        THEN Stored(r, Values(r)[CHOOSE i \in DOMAIN Values(r) : Cells(r, Len(Values(r)))[i] = a])
        ELSE @[a]]]

ReadCells(r) ==
    /\ r.op = "read" /\ Served(r)
    /\ reply' = [kind |-> "values",
                 values |-> [i \in 1 .. r.quantity |-> table[r.table][Cells(r, r.quantity)[i]]]]
    /\ UNCHANGED table

WriteCells(r) ==
    /\ r.op \in {"set", "write"} /\ Served(r)
    /\ table' = IF keeps THEN Written(r) ELSE table
    /\ reply' = [kind |-> "done", first |-> First(r), cells |-> Len(Values(r))]

Refuse(r) == ~Served(r) /\ reply' = Refused /\ UNCHANGED table

NoRequest == [op |-> "none"]

Init == request = NoRequest /\ reply = Refused

Next ==
    /\ request' # NoRequest /\ UNCHANGED keeps
    /\ ReadCells(request') \/ WriteCells(request') \/ Refuse(request')

Spec == Init /\ [][Next]_vars
=============================================================================
