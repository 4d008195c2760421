---------------------------- MODULE ModbusMaster ----------------------------
(***************************************************************************)
(* masterRequest of modbus/session.go: write a request, read frames until  *)
(* the deadline, try again; and the line to the devices.  What the devices *)
(* send is kept by the operating system until it is read, also beyond the  *)
(* end of a transaction.                                                   *)
(*                                                                         *)
(* A frame is sent in two parts, which is enough for a read to return less *)
(* than a frame or more than one: what readFrame makes of that differs     *)
(* between the two frame modes.  The second part ends the frame (CRC, or   *)
(* CR LF).                                                                 *)
(***************************************************************************)
EXTENDS Naturals, Sequences

CONSTANTS
    Request,      \* records: the unit that is asked, and the item it is asked for
    Nothing,
    MaxRetries,   \* bound on the retries a session is configured with
    MaxPending,   \* bound: requests a device has not answered yet
    MaxLine,      \* bound: parts on the line
    MaxBuf        \* maxFrameBytes, in parts

ASSUME LineAssumption ==
    /\ MaxRetries \in Nat /\ MaxPending \in Nat /\ MaxLine \in Nat /\ MaxBuf \in Nat
    /\ 2 <= MaxBuf

Part == [answerTo : Request, part : {1, 2}]

VARIABLES
    mode,       \* frame mode of the session
    retries,    \* Retries of the session
    pc,         \* "idle", "write" or "read"
    req,        \* the request of the transaction
    attempt,    \* attempts made before this one
    buf,        \* buf of readFrame
    line,       \* received by the operating system, not read yet
    pending,    \* requests that were sent and not answered
    result,     \* what the last transaction returned: [req, answerTo], or Nothing
    late        \* history: did an attempt give up before its answer was read?

masterVars == <<mode, retries, pc, req, attempt, buf, line, pending, result, late>>

\* The shape of the state; a transaction makes at most retries + 1 attempts.
MasterTypeOK ==
    /\ mode \in {"rtu", "ascii"} /\ retries \in 0 .. MaxRetries
    /\ pc \in {"idle", "write", "read"}
    /\ req \in Request \cup {Nothing}
    /\ pc # "idle" => req # Nothing /\ attempt \in 0 .. retries
    /\ buf \in Seq(Part) /\ Len(buf) <= MaxBuf
    /\ line \in Seq(Part) /\ pending \in Seq(Request)
    /\ result = Nothing \/ result \in [req : Request, answerTo : Request \cup {Nothing}]
    /\ late \in BOOLEAN

MasterInit ==
    /\ mode \in {"rtu", "ascii"} /\ retries \in 0 .. MaxRetries
    /\ pc = "idle" /\ req = Nothing /\ attempt = 0
    /\ buf = << >> /\ line = << >> /\ pending = << >>
    /\ result = Nothing /\ late = FALSE

-----------------------------------------------------------------------------
(* masterRequest                                                           *)

\* One transaction at a time: transactionMu
Begin(r) ==
    /\ pc = "idle"
    /\ pc' = "write" /\ req' = r /\ attempt' = 0 /\ result' = Nothing
    /\ UNCHANGED <<mode, retries, buf, line, pending, late>>

\* The session is closed or runs a slave, or the request cannot be encoded.
Refused(r) ==
    /\ pc = "idle"
    /\ result' = [req |-> r, answerTo |-> Nothing]
    /\ UNCHANGED <<mode, retries, pc, req, attempt, buf, line, pending, late>>

Returns(answerTo) ==
    /\ pc' = "idle" /\ req' = Nothing /\ attempt' = 0 /\ buf' = << >>
    /\ result' = [req |-> req, answerTo |-> answerTo]

TryAgain ==
    /\ pc' = "write" /\ attempt' = attempt + 1 /\ buf' = << >>
    /\ UNCHANGED <<req, result>>

GivesUp == late' = (late \/ pending # << >> \/ line' # << >>)

\* continue: the next attempt, or the error of the last one
AttemptFails ==
    /\ GivesUp
    /\ \/ attempt < retries /\ TryAgain
       \/ attempt >= retries /\ Returns(Nothing)

\* The request reaches its device or is lost on the way.
Write ==
    /\ pc = "write"
    /\ \/ Len(pending) < MaxPending /\ pending' = Append(pending, req)
       \/ UNCHANGED pending
    /\ pc' = "read"
    /\ UNCHANGED <<mode, retries, req, attempt, buf, line, result, late>>

WriteFails ==
    /\ pc = "write"
    /\ UNCHANGED <<mode, retries, line, pending>>
    /\ AttemptFails

\* mutant: nothing is compared with the check sum
IsFrameUnchecked(s) == Len(s) > 0

\* Two parts that are one frame, by its check sum
IsFrame(s) == Len(s) = 2 /\ s[1].part = 1 /\ s[2].part = 2 /\ s[1].answerTo = s[2].answerTo

\* The end of the first frame in the buffer, 0 where there is none
FrameEnd(s) ==
    IF \E i \in DOMAIN s : s[i].part = 2
    THEN CHOOSE i \in DOMAIN s : s[i].part = 2 /\ \A j \in 1 .. i - 1 : s[j].part # 2
    ELSE 0

\* A frame was decoded: it must be of the unit that was asked, and its PDU
\* must be a response.
Accept(r) ==
    \/ r.unit = req.unit /\ Returns(r) /\ UNCHANGED late
    \/ AttemptFails

\* readFrame of an RTU session decodes all it has read, and goes on where
\* that is not one frame.
DecodeRTU(s) ==
    \/ IsFrame(s) /\ Accept(s[1].answerTo)
    \/ ~IsFrame(s) /\ buf' = s /\ UNCHANGED <<pc, req, attempt, result, late>>

\* readFrame of an ASCII session takes what is before the first line end,
\* drops what it has read behind it, and fails where that is not a frame.
DecodeASCII(s) ==
    LET end == FrameEnd(s) IN
    \/ end = 0 /\ buf' = s /\ UNCHANGED <<pc, req, attempt, result, late>>
    \/ end # 0 /\ IsFrame(SubSeq(s, 1, end)) /\ Accept(s[1].answerTo)
    \/ end # 0 /\ ~IsFrame(SubSeq(s, 1, end)) /\ AttemptFails

\* One read of the port returns some of what is on the line.
ReadPort(n) ==
    LET s == buf \o SubSeq(line, 1, n) IN
    /\ pc = "read" /\ n <= Len(line)
    /\ line' = SubSeq(line, n + 1, Len(line))
    /\ \/ Len(s) > MaxBuf /\ AttemptFails
       \/ Len(s) <= MaxBuf /\ mode = "rtu" /\ DecodeRTU(s)
       \/ Len(s) <= MaxBuf /\ mode = "ascii" /\ DecodeASCII(s)
    /\ UNCHANGED <<mode, retries, pending>>

\* The deadline comes, the port fails, or the session is closed.
ReadFails ==
    /\ pc = "read"
    /\ UNCHANGED <<mode, retries, line, pending>>
    /\ AttemptFails

-----------------------------------------------------------------------------
(* The devices                                                             *)

\* The answer to the oldest request; noise may cost a part of it.
Answer(parts) ==
    /\ pending # << >> /\ Len(line) + Len(parts) <= MaxLine
    /\ line' = line \o [i \in DOMAIN parts |-> [answerTo |-> Head(pending), part |-> parts[i]]]
    /\ pending' = Tail(pending)
    /\ UNCHANGED <<mode, retries, pc, req, attempt, buf, result, late>>

-----------------------------------------------------------------------------
Master ==
    \/ Write \/ WriteFails \/ ReadFails
    \/ \E n \in 1 .. MaxLine : ReadPort(n)

MasterNext ==
    \/ \E r \in Request : Begin(r) \/ Refused(r)
    \/ Master
    \/ \E parts \in {<<1, 2>>, <<1>>, <<2>>} : Answer(parts)

MasterSpec == MasterInit /\ [][MasterNext]_masterVars

\* A transaction goes on: a write returns, and the deadline comes.
MasterLiveSpec == MasterSpec /\ WF_masterVars(Master) /\ WF_masterVars(ReadFails)

-----------------------------------------------------------------------------
(* Properties                                                              *)

\* "runs one master request/response transaction": as long as no attempt
\* gave up on an answer that came later, what a transaction returns is the
\* answer to what it asked, however noise cut the frames before: readFrame
\* leaves nothing on the line for the next transaction.  Once there was a
\* late answer it may be returned for the next request of the same unit.
AnswerIsForRequest ==
    ~late /\ result # Nothing /\ result.answerTo # Nothing => result.answerTo = result.req

\* Every transaction returns.
TransactionEnds == pc # "idle" ~> pc = "idle"
=============================================================================
