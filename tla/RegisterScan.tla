---------------------------- MODULE RegisterScan ----------------------------
(***************************************************************************)
(* scanRegisters of modbus/session.go: a range of registers is read chunk  *)
(* by chunk and the registers that are not zero are listed.  Addresses are *)
(* uint16: after the chunk that holds the last address of all, the next    *)
(* address wraps around to zero.                                           *)
(*                                                                         *)
(* Each chunk is one readRegisters, a transaction with the device that may *)
(* fail or be answered by an exception (an answer without values).  A      *)
(* device that answers gives the registers it was asked for, and they do   *)
(* not change during the scan.                                             *)
(***************************************************************************)
EXTENDS Integers, Sequences

CONSTANTS
    Space,         \* number of addresses: 2^16 in the code
    MaxSize,       \* largest chunk: 125
    DefaultSize    \* chunk size where the request has none: 16

ASSUME SpaceAssumption ==
    /\ Space \in Nat /\ MaxSize \in Nat /\ DefaultSize \in Nat
    /\ 0 < DefaultSize /\ DefaultSize <= MaxSize /\ MaxSize < Space

Address == 0 .. Space - 1
Outcome == {"values", "exception", "error"}

VARIABLES
    first, last,   \* StartAddress and EndAddress of the request
    size,          \* ChunkSize
    nonZero,       \* the registers of the device that are not zero
    address,       \* loop variable
    ranges,        \* result.Ranges: [address, quantity], outcome is history
    found,         \* the addresses of result.Values
    done

scanVars == <<first, last, size, nonZero, address, ranges, found, done>>

\* The shape of the state.
ScanTypeOK ==
    /\ first \in Address /\ last \in Address /\ first <= last
    /\ size \in 1 .. MaxSize
    /\ nonZero \subseteq Address /\ found \subseteq Address
    /\ address \in Address
    /\ ranges \in Seq([address : Address, quantity : 1 .. MaxSize, outcome : Outcome])
    /\ done \in BOOLEAN

\* ChunkSize of the request, by the defaults of scanRegisters
ChunkSize(requested) ==
    IF requested = 0 THEN DefaultSize ELSE IF requested > MaxSize THEN MaxSize ELSE requested

\* A range whose end lies before its start is refused.
ScanInit ==
    /\ first \in Address /\ last \in Address /\ first <= last
    /\ \E requested \in Address : size = ChunkSize(requested)
    /\ nonZero \in SUBSET Address
    /\ address = first
    /\ ranges = << >> /\ found = {} /\ done = FALSE

Remaining == last - address + 1

\* The size of the next chunk; remaining is a uint32 and does not wrap.
Quantity == IF size > Remaining THEN Remaining ELSE size

\* uint16 addition
Plus(a, n) == (a + n) % Space

\* The registers of a chunk that are not zero
InChunk(a, n) == {Plus(a, i) : i \in 0 .. n - 1} \cap nonZero

\* mutant: no test for the wrap around
LastChunkNoWrap == Plus(address, Quantity) > last

LastChunk == Plus(address, Quantity) = 0 \/ Plus(address, Quantity) > last

ScanChunk(outcome) ==
    /\ ~done
    /\ ranges' = Append(ranges, [address |-> address, quantity |-> Quantity, outcome |-> outcome])
    /\ found' = IF outcome = "values" THEN found \cup InChunk(address, Quantity) ELSE found
    /\ done' = LastChunk
    /\ address' = IF LastChunk THEN address ELSE Plus(address, Quantity)
    /\ UNCHANGED <<first, last, size, nonZero>>

ScanNext == \E outcome \in Outcome : ScanChunk(outcome)

ScanSpec == ScanInit /\ [][ScanNext]_scanVars

-----------------------------------------------------------------------------
(* Properties                                                              *)

EndOf(r) == r.address + r.quantity

\* The chunks lie one after the other, from the first address to the last
\* one when the scan is over: none is read twice, left out, or outside of
\* the request, also where the range ends at the last address of all.
Tiles ==
    /\ \A k \in DOMAIN ranges : ranges[k].address = IF k = 1 THEN first ELSE EndOf(ranges[k - 1])
    /\ done => ranges # << >> /\ EndOf(ranges[Len(ranges)]) = last + 1

\* Exactly the registers of the request that are not zero are listed, but
\* for those of chunks that failed: a failure costs no other chunk.
Covers(k, a) == ranges[k].address <= a /\ a < EndOf(ranges[k])
FoundExactly ==
    found = {a \in nonZero : \E k \in DOMAIN ranges : ranges[k].outcome = "values" /\ Covers(k, a)}

\* A scan of registers is exact, whatever its chunks come to: see above.
ScansExactly == Tiles /\ FoundExactly
=============================================================================
