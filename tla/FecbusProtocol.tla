---------------------------- MODULE FecbusProtocol ----------------------------
(***************************************************************************)
(* The bytes of a FECbus frame: fecbus/protocol.go and the function codes  *)
(* of fecbus/function.go.  A frame is a record of its fields, a message a  *)
(* sequence of bytes; what cannot be encoded or decoded is Error.          *)
(***************************************************************************)
EXTENDS Integers, Sequences, SequencesExt, Bitwise

CONSTANT Error

Boundary == 126                     \* 0x7E
minFrameBytes == 11
maxDataBytes == 8
StatusAnswer == 15                  \* FunctionStatusAnswer
Byte == 0 .. 255

-----------------------------------------------------------------------------
(* function.go                                                             *)

NamedFunctions == 0 .. 7 \cup {15} \cup 17 .. 20 \cup 33 .. 45
CustomFunctions == 8 .. 14 \cup 21 .. 31 \cup 46 .. 127
IsFunctionAllowed(code) == code \in NamedFunctions \cup CustomFunctions

-----------------------------------------------------------------------------
(* protocol.go                                                             *)

ValidFrame(f) ==
    /\ f.type \in {0, 1}
    /\ f.target <= 63 /\ f.priority <= 3
    /\ f.source \in 1 .. 63 /\ f.number \in 1 .. 63
    /\ f.group <= 127
    /\ Len(f.data) \in 1 .. maxDataBytes
    /\ f.group <= 1 => IsFunctionAllowed(f.data[1])

\* The eight rounds CRC16 makes for a byte, with the polynomial 0xA001: what
\* is above the byte is shifted down and not looked at.
CRCRound(crc, i) == IF crc % 2 = 1 THEN (crc \div 2) ^^ 40961 ELSE crc \div 2
CRCRounds == [b \in Byte |-> FoldLeft(CRCRound, b, <<1, 2, 3, 4, 5, 6, 7, 8>>)]
CRCByte(crc, b) == (crc \div 256) ^^ CRCRounds[(crc % 256) ^^ b]
CRC16(bytes) == FoldLeft(CRCByte, 65535, bytes)

EncodeFrame(f) ==
    IF ~ValidFrame(f) THEN Error
    ELSE LET body == <<Boundary, f.type, f.target, f.priority, f.source, f.number, f.group, Len(f.data)>> \o f.data
         IN  body \o <<CRC16(body) % 256, CRC16(body) \div 256, Boundary>>

\* mutant: the check sum is not compared
DecodeFrameUnchecked(raw) ==
    LET n == Len(raw)
        f == [type |-> raw[2], target |-> raw[3], priority |-> raw[4], source |-> raw[5],
              number |-> raw[6], group |-> raw[7], data |-> SubSeq(raw, 9, n - 3)]
    IN  IF n >= minFrameBytes /\ n = 11 + raw[8] /\ ValidFrame(f) THEN f ELSE Error

DecodeFrame(raw) ==
    LET n == Len(raw)
        f == [type |-> raw[2], target |-> raw[3], priority |-> raw[4], source |-> raw[5],
              number |-> raw[6], group |-> raw[7], data |-> SubSeq(raw, 9, n - 3)]
        whole == /\ n >= minFrameBytes
                 /\ raw[1] = Boundary /\ raw[n] = Boundary
                 /\ raw[8] \in 1 .. maxDataBytes /\ n = 11 + raw[8]
                 /\ CRC16(SubSeq(raw, 1, n - 3)) = raw[n - 2] + 256 * raw[n - 1]
                 /\ ValidFrame(f)
    IN  IF whole THEN f ELSE Error

\* The place of the first boundary from i on, 0 where there is none
BoundaryFrom(buf, i) ==
    LET at == {k \in i .. Len(buf) : buf[k] = Boundary}
    IN  IF at = {} THEN 0 ELSE CHOOSE k \in at : \A j \in at : k <= j

\* ExtractFrame: what lies between the first two boundaries, << >> where
\* there are not two, Error where that is too short; and what is behind it.
ExtractFrame(buf) ==
    LET start == BoundaryFrom(buf, 1)
        end == BoundaryFrom(buf, start + 1)
        frame == SubSeq(buf, start, end)
    IN  IF start = 0 THEN [frame |-> << >>, rest |-> << >>]
        ELSE IF end = 0 THEN [frame |-> << >>, rest |-> SubSeq(buf, start, Len(buf))]
        ELSE [frame |-> IF Len(frame) < minFrameBytes THEN Error ELSE frame,
              rest |-> SubSeq(buf, end + 1, Len(buf))]

BuildStatusAnswer(request, status) ==
    LET f == [type |-> 1, target |-> request.source, priority |-> 3,
              source |-> IF request.target = 0 THEN 1 ELSE request.target,
              number |-> request.number, group |-> 0, data |-> <<StatusAnswer, status>>]
    IN  IF ValidFrame(f) THEN f ELSE Error

BuildData(function, payload) ==
    IF IsFunctionAllowed(function) /\ Len(payload) < maxDataBytes THEN <<function>> \o payload ELSE Error

\* requestFrame of session.go: the defaults of a request
RequestFrame(f) ==
    LET type == IF f.type \in {0, 1} THEN f.type ELSE 0
    IN  [f EXCEPT !.type = type,
                  !.source = IF @ = 0 THEN 1 ELSE @,
                  !.target = IF @ = 0 /\ type = 1 THEN 1 ELSE @,
                  !.number = IF @ = 0 THEN 1 ELSE @]

\* matchesAnswer of session.go
MatchesAnswer(request, response) ==
    /\ response.type = 1
    /\ response.target = request.source /\ response.source = request.target
    /\ response.number = request.number

-----------------------------------------------------------------------------
(* Properties of a frame, stated for a run that picks one                  *)

Damaged(raw, i, b) == [raw EXCEPT ![i] = b]

\* A frame that is encoded is decoded to itself; with one byte damaged, or
\* without its end, it is refused; and a frame that validateFrameFields
\* refuses is not sent.
CodecExact(f) ==
    LET raw == EncodeFrame(f) IN
    IF raw = Error THEN ~ValidFrame(f)
    ELSE /\ DecodeFrame(raw) = f
         /\ \A i \in 1 .. Len(raw), b \in {0, 1, 2, 125, 255} :
                b # raw[i] => DecodeFrame(Damaged(raw, i, b)) = Error
         /\ \A i \in 1 .. Len(raw) - 1 : DecodeFrame(SubSeq(raw, 1, i)) = Error

\* The status answer a slave sends is taken for the answer to the request,
\* by its numbers and, but for a broadcast, by its addresses.
StatusAnswerMatches(f, status) ==
    ValidFrame(f) /\ f.type = 0 =>
        LET answer == BuildStatusAnswer(f, status) IN
        answer # Error /\ (MatchesAnswer(f, answer) <=> f.target # 0)

\* "ExtractFrame returns the first complete frame from buf" (protocol.go:174)
ExtractsFirst(f) ==
    LET raw == EncodeFrame(f) IN
    raw # Error => ExtractFrame(raw) = [frame |-> raw, rest |-> << >>]
=============================================================================
