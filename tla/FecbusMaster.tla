---------------------------- MODULE FecbusMaster ----------------------------
(***************************************************************************)
(* sendRequest and readFrame of fecbus/session.go: a request is written,   *)
(* frames are read until the deadline, and the answer is told by its       *)
(* addresses and its message number; and the line to the devices, which    *)
(* keeps what they send until it is read.                                  *)
(*                                                                         *)
(* The line carries boundaries and the bodies between them.  A body with a *)
(* 0x7E among its bytes is two parts with a boundary between them: nothing *)
(* is escaped (FecbusProtocol has the bytes).  The check sum of a frame    *)
(* that is not whole is taken to be wrong.                                 *)
(***************************************************************************)
EXTENDS Naturals, Sequences, SequencesExt

CONSTANTS
    Devices,      \* the addresses of the devices
    Numbers,      \* the message numbers of requests; 1 where a request has none
    Nothing,      \* no request, no answer, no result
    RetryLimit,   \* bound on the retries
    MaxRequests,  \* bound: requests sent, which tells them apart
    MaxPending,   \* bound: requests a device has not answered yet
    MaxLine,      \* bound: tokens on the line
    MaxBuf        \* maxFrameBytes, in tokens

\* Requests are numbered.
ASSUME RequestAssumption == MaxRequests \in Nat

VARIABLES
    fecPc,        \* "idle", "write" or "read"
    fecReq,       \* the request of the transaction: [device, number, id, answer]
    fecLeft,      \* retries left
    fecBuf,       \* buf of readFrame
    fecLine,      \* received by the operating system, not read yet
    fecPending,   \* requests that were sent and not answered
    fecResult,    \* what the last transaction returned: [req, answerTo], or Nothing
    fecCount,     \* requests made so far
    fecGivenUp    \* ghost: [device, number] of attempts that left an answer behind

fecVars == <<fecPc, fecReq, fecLeft, fecBuf, fecLine, fecPending, fecResult, fecCount, fecGivenUp>>

Request == [device : Devices, number : Numbers, id : 1 .. MaxRequests, answer : BOOLEAN]

\* The tokens of the answer to a request, whose bytes may hold a boundary
Body(r, part) == [answerTo |-> r, part |-> part]
Boundary == Body(Nothing, "7E")
Whole(r) == <<Boundary, Body(r, "whole"), Boundary>>
Cut(r) == <<Boundary, Body(r, "first"), Boundary, Body(r, "second"), Boundary>>

\* The shape of the state
FecTypeOK ==
    /\ fecPc \in {"idle", "write", "read"}
    /\ fecReq \in Request \cup {Nothing} /\ fecLeft \in 0 .. RetryLimit
    /\ Len(fecBuf) <= MaxBuf /\ Len(fecLine) <= MaxLine
    /\ fecPending \in Seq(Request) /\ fecCount \in 0 .. MaxRequests
    /\ fecGivenUp \subseteq [device : Devices, number : Numbers]

FecInit ==
    /\ fecPc = "idle" /\ fecReq = Nothing /\ fecLeft = 0 /\ fecBuf = << >>
    /\ fecLine = << >> /\ fecPending = << >> /\ fecResult = Nothing
    /\ fecCount = 0 /\ fecGivenUp = {}

-----------------------------------------------------------------------------
(* ExtractFrame and DecodeFrame on tokens                                  *)

Boundaries(s) == {i \in DOMAIN s : s[i] = Boundary}
FirstOf(S) == IF S = {} THEN 0 ELSE CHOOSE i \in S : \A j \in S : i <= j

\* The first two boundaries, 0 where there is none
Start(s) == FirstOf(Boundaries(s))
End(s) == FirstOf(Boundaries(s) \ {Start(s)})

\* What lies between them is a frame, by its length and its check sum.
IsFrame(s) == End(s) = Start(s) + 2 /\ s[Start(s) + 1].part = "whole"

-----------------------------------------------------------------------------
(* sendRequest                                                             *)

\* One transaction at a time: transactionMu
Begin(device, number, answer, retries) ==
    /\ fecPc = "idle" /\ fecCount < MaxRequests
    /\ fecPc' = "write" /\ fecCount' = fecCount + 1 /\ fecLeft' = retries /\ fecResult' = Nothing
    /\ fecReq' = [device |-> device, number |-> number, id |-> fecCount + 1, answer |-> answer]
    /\ UNCHANGED <<fecBuf, fecLine, fecPending, fecGivenUp>>

Returns(answerTo) ==
    /\ fecPc' = "idle" /\ fecReq' = Nothing /\ fecLeft' = 0 /\ fecBuf' = << >>
    /\ fecResult' = [req |-> fecReq, answerTo |-> answerTo]

\* Some answers are still to come, or to be read.
LeftBehind ==
    {[device |-> r.device, number |-> r.number] : r \in Range(fecPending')
        \cup {t.answerTo : t \in {fecLine'[i] : i \in DOMAIN fecLine' \ Boundaries(fecLine')}}}

\* The next attempt, or the error of the last one
AttemptFails ==
    /\ fecGivenUp' = fecGivenUp \cup LeftBehind
    /\ \/ /\ fecLeft > 0
          /\ fecPc' = "write" /\ fecLeft' = fecLeft - 1 /\ fecBuf' = << >>
          /\ UNCHANGED <<fecReq, fecResult>>
       \/ fecLeft = 0 /\ Returns(Nothing)

\* The request reaches its device or is lost on the way.  A request that
\* expects no answer ends with it, and an answer to it is left behind.
Write ==
    /\ fecPc = "write"
    /\ \/ Len(fecPending) < MaxPending /\ fecPending' = Append(fecPending, fecReq)
       \/ UNCHANGED fecPending
    /\ UNCHANGED fecLine
    /\ \/ /\ fecReq.answer
          /\ fecPc' = "read"
          /\ UNCHANGED <<fecReq, fecLeft, fecBuf, fecResult, fecGivenUp>>
       \/ /\ ~fecReq.answer
          /\ Returns(Nothing) /\ fecGivenUp' = fecGivenUp \cup LeftBehind
    /\ UNCHANGED fecCount

WriteFails ==
    /\ fecPc = "write"
    /\ UNCHANGED <<fecLine, fecPending, fecCount>>
    /\ AttemptFails

\* mutant: any answer of the device will do
AcceptAnyNumber(r) ==
    \/ r.device = fecReq.device /\ Returns(r) /\ fecGivenUp' = fecGivenUp \cup LeftBehind
    \/ r.device # fecReq.device /\ AttemptFails

\* matchesAnswer; what is on the line behind the answer stays there.
Accept(r) ==
    LET matches == r.device = fecReq.device /\ r.number = fecReq.number IN
    \/ matches /\ Returns(r) /\ fecGivenUp' = fecGivenUp \cup LeftBehind
    \/ ~matches /\ AttemptFails

\* readFrame goes on with what is behind the boundaries it used up.
GoOn(s) ==
    /\ fecBuf' = s
    /\ UNCHANGED <<fecPc, fecReq, fecLeft, fecResult, fecGivenUp>>

\* One read of the port returns some of what is on the line.  What is in
\* front of the first boundary is dropped once there is a second, and where a
\* frame was found all that was read behind it is.
ReadPort(n) ==
    LET s == fecBuf \o SubSeq(fecLine, 1, n) IN
    /\ fecPc = "read" /\ n <= Len(fecLine)
    /\ fecLine' = SubSeq(fecLine, n + 1, Len(fecLine))
    /\ UNCHANGED <<fecPending, fecCount>>
    /\ \/ Len(s) > MaxBuf /\ AttemptFails
       \/ Len(s) <= MaxBuf /\ End(s) = 0 /\ GoOn(s)
       \/ Len(s) <= MaxBuf /\ End(s) # 0 /\ IsFrame(s) /\ Accept(s[Start(s) + 1].answerTo)
       \/ Len(s) <= MaxBuf /\ End(s) # 0 /\ ~IsFrame(s) /\ GoOn(SubSeq(s, End(s) + 1, Len(s)))

\* The deadline comes, the port fails, or the session is closed.
ReadFails ==
    /\ fecPc = "read"
    /\ UNCHANGED <<fecLine, fecPending, fecCount>>
    /\ AttemptFails

-----------------------------------------------------------------------------
(* The devices                                                             *)

Emit(tokens) ==
    /\ Len(fecLine) + Len(tokens) <= MaxLine
    /\ fecLine' = fecLine \o tokens
    /\ UNCHANGED <<fecPc, fecReq, fecLeft, fecBuf, fecResult, fecCount, fecGivenUp>>

\* The answer to the oldest request, of which noise may cost a token
Answer ==
    /\ fecPending # << >>
    /\ fecPending' = Tail(fecPending)
    /\ \E tokens \in {Whole(Head(fecPending)), Cut(Head(fecPending))} :
        Emit(tokens) \/ \E i \in DOMAIN tokens : Emit(RemoveAt(tokens, i))

\* A stray boundary
Noise == Emit(<<Boundary>>) /\ UNCHANGED fecPending

-----------------------------------------------------------------------------
FecNext ==
    \/ \E d \in Devices, number \in Numbers, answer \in BOOLEAN, retries \in 0 .. RetryLimit :
            Begin(d, number, answer, retries)
    \/ Write \/ WriteFails \/ ReadFails
    \/ \E n \in 1 .. MaxLine : ReadPort(n)
    \/ Answer \/ Noise

FecSpec == FecInit /\ [][FecNext]_fecVars

-----------------------------------------------------------------------------
(* Properties                                                              *)

\* "sends one FECbus frame and optionally waits for a matching answer": the
\* answer a transaction returns is to what it asked, however frames were cut,
\* joined or disturbed on the line, unless an attempt with the same address
\* and the same message number left an answer behind, which is so for every
\* client that leaves the number to its default of 1.
AnswerIsForRequest ==
    fecResult # Nothing /\ fecResult.answerTo # Nothing
        => \/ fecResult.answerTo = fecResult.req
           \/ [device |-> fecResult.req.device, number |-> fecResult.req.number] \in fecGivenUp
=============================================================================
