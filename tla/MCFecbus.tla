------------------------------ MODULE MCFecbus ------------------------------
(***************************************************************************)
(* FECbus on small instances.  A behaviour is of one of three parts: the   *)
(* session with its callers and its slave, the line under the master, or   *)
(* one frame and its bytes; the other parts keep still.                    *)
(***************************************************************************)
EXTENDS FecbusSession, FecbusMaster, TLC

CONSTANTS
    Error      \* of FecbusProtocol

VARIABLES
    part,       \* the part that moves
    frame       \* the frame of part "bytes"

Bytes == INSTANCE FecbusProtocol

\* A unit that answers every request, one that answers another function only,
\* and one whose answer is too long
MCUnits ==
    {[payload |-> "none", auto |-> TRUE, broadcast |-> TRUE],
     [payload |-> "other", auto |-> FALSE, broadcast |-> TRUE],
     [payload |-> "long", auto |-> FALSE, broadcast |-> FALSE]}

MCSymmetry == Permutations(Callers) \cup Permutations(Devices)

\* Fields at and beyond their limits; function 16 is reserved, and 126 is a
\* custom function whose code is the boundary byte.
MCFrames ==
    [type : {0, 1, 2}, target : {0, 2, 64}, priority : {3, 4}, source : {0, 1, 63}, number : {63, 64},
     group : {0, 2, 128}, data : {<<>>, <<1>>, <<16>>, <<126, 7>>, <<1, 2, 3, 4, 5, 6, 7, 8>>,
                                 <<1, 2, 3, 4, 5, 6, 7, 8, 9>>}]

MCInit ==
    /\ Init /\ FecInit
    /\ \/ part \in {"session", "line"} /\ frame = << >>
       \/ part = "bytes" /\ frame \in MCFrames

MCNext ==
    \/ /\ part = "session" /\ Next
       /\ UNCHANGED <<part, frame, fecVars>>
    \/ /\ part = "line" /\ FecNext
       /\ UNCHANGED <<part, frame, vars>>

MCSpec == MCInit /\ [][MCNext]_<<vars, part, frame, fecVars>>

BytesSpec == MCInit /\ part = "bytes" /\ [][FALSE]_<<vars, part, frame, fecVars>>

-----------------------------------------------------------------------------
\* A frame is decoded to what was encoded, nothing else is, and the status
\* answer of a slave is an answer to the request: see FecbusProtocol.
CodecIsExact ==
    part = "bytes" =>
        Bytes!CodecExact(frame) /\ \A code \in {1, 255} : Bytes!StatusAnswerMatches(frame, code)

\* "ExtractFrame returns the first complete frame from buf" (protocol.go:174)
ExtractsFirstFrame == part = "bytes" => Bytes!ExtractsFirst(frame)
=============================================================================
