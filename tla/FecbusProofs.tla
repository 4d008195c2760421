---------------------------- MODULE FecbusProofs ----------------------------
(***************************************************************************)
(* While a session says that its slave runs, the slave is there, and what  *)
(* it records is in the order of its numbers, for any clients and loops;   *)
(* and the answer that its master returns is to what it asked, for any     *)
(* devices, numbers and retries.                                           *)
(***************************************************************************)
EXTENDS FecbusSession, FecbusMaster, SequenceTheorems, WellFoundedInduction, TLAPS

Requesting == {"write", "sent", "unsent", "read", "answered"}
CallPoints == {"idle", "got", "stop", "close", "wait", "closing", "handle"} \cup Requesting
LoopPoints == {"none", "check", "reading", "readErr", "fail", "frame", "match", "answer", "record", "ended"}

CallType == [pc : CallPoints, loop : Loops \cup {None}, closing : BOOLEAN, left : Nat, seq : Nat]

\* A loop is a record; what it has to answer is left open.
LoopShape(r) ==
    /\ r = [pc |-> r.pc, target |-> r.target, todo |-> r.todo, seq |-> r.seq]
    /\ r.pc \in LoopPoints /\ r.seq \in Nat

Shape ==
    /\ call \in [Callers -> CallType]
    /\ loop = [l \in Loops |-> loop[l]]
    /\ \A l \in Loops : LoopShape(loop[l])
    /\ stop \in [Loops -> Nat]
    /\ slaveRunning \in BOOLEAN

\* A stop channel is closed by who took it out of the session, and by no
\* other: it is open while the session has it, and until that caller closes it.
StopInv ==
    /\ slaveRunning => /\ current \in Loops /\ Alive(current) /\ stop[current] = 0
                       /\ \A c \in Callers : call[c].pc = "close" => call[c].loop # current
    /\ \A c \in Callers : call[c].pc = "close" =>
        /\ call[c].loop \in Loops /\ loop[call[c].loop].pc # "none" /\ stop[call[c].loop] = 0
        /\ \A d \in Callers : call[d].pc = "close" /\ call[d].loop = call[c].loop => c = d
    /\ \A l \in Loops : stop[l] <= 1 /\ (loop[l].pc = "none" => stop[l] = 0)

ServedInv == Shape /\ StopInv /\ nextSeq \in Nat

\* A request runs where its caller holds the lock.
MuInv == \A c \in Callers : call[c].pc \in Requesting <=> transactionMu = c

\* Until a loop overlaps with what follows it, one loop or one request runs.
AloneInv ==
    ~overlapped => /\ \A k, l \in Loops : Alive(k) /\ Alive(l) => k = l
                   /\ transactionMu # None => \A l \in Loops : ~Alive(l)

\* A number that was drawn, and comes after all that are stored
Latest(seq) == seq \in 1 .. nextSeq /\ \A i \in DOMAIN history : history[i] < seq

Bounded == \A i \in DOMAIN history : history[i] <= nextSeq
Sorted == \A i, j \in DOMAIN history : i < j => history[i] < history[j]

Pending == {"frame", "record"}
Drawn == {"sent", "unsent", "answered"}

OrderInv ==
    /\ nextSeq \in Nat /\ history \in Seq(Nat)
    /\ ~overlapped =>
        /\ Bounded /\ Sorted
        /\ \A l \in Loops : loop[l].pc \in Pending => Latest(loop[l].seq)
        /\ \A c \in Callers : call[c].pc \in Drawn => Latest(call[c].seq)

InOrderInv == ServedInv /\ MuInv /\ AloneInv /\ OrderInv

-----------------------------------------------------------------------------
(* What a step makes of its caller or of its loop                          *)

Now(c, pc, l, seq) ==
    /\ call' \in [Callers -> CallType]
    /\ \A d \in Callers : d # c => call'[d] = call[d]
    /\ call'[c].pc = pc /\ call'[c].loop = l /\ call'[c].seq = seq

LEMMA CallTypes ==
  /\ Idle \in CallType /\ Idle.pc = "idle" /\ Idle.loop = None /\ Idle.seq = 0
  /\ \A x \in CallType : x.pc \in CallPoints /\ x.loop \in Loops \cup {None} /\ x.left \in Nat /\ x.seq \in Nat
BY DEF Idle, CallType, CallPoints

LEMMA CallBecomes ==
  ASSUME Shape, NEW c \in Callers, NEW x \in CallType, call' = [call EXCEPT ![c] = x]
  PROVE  Now(c, x.pc, x.loop, x.seq)
BY DEF Shape, Now

LEMMA CallGoes ==
  ASSUME Shape, NEW c \in Callers, NEW pc \in CallPoints, Goto(c, pc)
  PROVE  Now(c, pc, call[c].loop, call[c].seq)
BY DEF Shape, Now, Goto, CallType

LEMMA CallNumbered ==
  ASSUME Shape, NEW c \in Callers, NEW pc \in CallPoints, NEW seq \in Nat,
         call' = [call EXCEPT ![c].pc = pc, ![c].seq = seq]
  PROVE  Now(c, pc, call[c].loop, seq)
BY DEF Shape, Now, CallType

LEMMA CallStops ==
  ASSUME Shape, NEW c \in Callers, NEW l \in Loops \cup {None},
         call' = [call EXCEPT ![c].pc = "close", ![c].loop = l]
  PROVE  Now(c, "close", l, call[c].seq)
BY DEF Shape, Now, CallType, CallPoints

LoopNow(l, pc, seq) ==
    /\ loop' = [k \in Loops |-> loop'[k]]
    /\ \A k \in Loops : LoopShape(loop'[k])
    /\ \A k \in Loops : k # l => loop'[k] = loop[k]
    /\ loop'[l].pc = pc /\ loop'[l].seq = seq

LEMMA LoopGoes ==
  ASSUME Shape, NEW l \in Loops, NEW pc \in LoopPoints, LoopTo(l, pc)
  PROVE  LoopNow(l, pc, loop[l].seq)
BY DEF Shape, LoopTo, LoopShape, LoopNow

LEMMA LoopBecomes ==
  ASSUME Shape, NEW l \in Loops, NEW x, LoopShape(x), loop' = [loop EXCEPT ![l] = x]
  PROVE  LoopNow(l, x.pc, x.seq)
BY DEF Shape, LoopNow

\* Several fields of one loop are changed at once.
LEMMA UpdateTwo ==
  ASSUME NEW f, NEW S, f = [k \in S |-> f[k]], NEW l \in S, NEW p, NEW q,
         f[l] = [pc |-> f[l].pc, target |-> f[l].target, todo |-> f[l].todo, seq |-> f[l].seq],
         NEW g, g = [f EXCEPT ![l].pc = p, ![l].seq = q]
  PROVE  g = [k \in S |-> g[k]] /\ (\A k \in S : k # l => g[k] = f[k])
         /\ g[l] = [pc |-> p, target |-> f[l].target, todo |-> f[l].todo, seq |-> q]
<1>1. g = [k \in S |-> g[k]] /\ \A k \in S : k # l => g[k] = f[k]
  OBVIOUS
<1>2. g[l] = [pc |-> p, target |-> f[l].target, todo |-> f[l].todo, seq |-> q]
  OBVIOUS
<1>3. QED
  BY <1>1, <1>2

LEMMA UpdateMatch ==
  ASSUME NEW f, NEW S, f = [k \in S |-> f[k]], NEW l \in S, NEW p, NEW w, NEW z,
         f[l] = [pc |-> f[l].pc, target |-> f[l].target, todo |-> f[l].todo, seq |-> f[l].seq],
         NEW g, g = [f EXCEPT ![l].pc = p, ![l].todo = w, ![l].target = z]
  PROVE  g = [k \in S |-> g[k]] /\ (\A k \in S : k # l => g[k] = f[k])
         /\ g[l] = [pc |-> p, target |-> z, todo |-> w, seq |-> f[l].seq]
<1>1. g = [k \in S |-> g[k]] /\ \A k \in S : k # l => g[k] = f[k]
  OBVIOUS
<1>2. g[l] = [pc |-> p, target |-> z, todo |-> w, seq |-> f[l].seq]
  OBVIOUS
<1>3. QED
  BY <1>1, <1>2

LEMMA UpdateTurn ==
  ASSUME NEW f, NEW S, f = [k \in S |-> f[k]], NEW l \in S, NEW p, NEW q,
         f[l] = [pc |-> f[l].pc, target |-> f[l].target, todo |-> f[l].todo, seq |-> f[l].seq],
         NEW g, g = [f EXCEPT ![l].pc = p, ![l].seq = q, ![l].todo = Tail(@)]
  PROVE  g = [k \in S |-> g[k]] /\ (\A k \in S : k # l => g[k] = f[k])
         /\ g[l] = [pc |-> p, target |-> f[l].target, todo |-> Tail(f[l].todo), seq |-> q]
<1>1. g = [k \in S |-> g[k]] /\ \A k \in S : k # l => g[k] = f[k]
  OBVIOUS
<1>2. g[l] = [pc |-> p, target |-> f[l].target, todo |-> Tail(f[l].todo), seq |-> q]
  OBVIOUS
<1>3. QED
  BY <1>1, <1>2

LEMMA LoopIs ==
  ASSUME Shape, NEW l \in Loops, NEW pc \in LoopPoints, NEW seq \in Nat, NEW target, NEW todo,
         loop' = [k \in Loops |-> loop'[k]], \A k \in Loops : k # l => loop'[k] = loop[k],
         loop'[l] = [pc |-> pc, target |-> target, todo |-> todo, seq |-> seq]
  PROVE  LoopNow(l, pc, seq)
<1>1. LoopShape(loop'[l]) /\ loop'[l].pc = pc /\ loop'[l].seq = seq
  BY DEF LoopShape
<1>2. QED
  BY <1>1 DEF Shape, LoopNow

LEMMA LoopNumbered ==
  ASSUME Shape, NEW l \in Loops, NEW pc \in LoopPoints, NEW seq \in Nat,
         loop' = [loop EXCEPT ![l].pc = pc, ![l].seq = seq]
  PROVE  LoopNow(l, pc, seq)
<1>1. loop = [k \in Loops |-> loop[k]]
      /\ loop[l] = [pc |-> loop[l].pc, target |-> loop[l].target, todo |-> loop[l].todo, seq |-> loop[l].seq]
  BY DEF Shape, LoopShape
<1>2. loop' = [k \in Loops |-> loop'[k]] /\ (\A k \in Loops : k # l => loop'[k] = loop[k])
      /\ loop'[l] = [pc |-> pc, target |-> loop[l].target, todo |-> loop[l].todo, seq |-> seq]
  BY ONLY <1>1, UpdateTwo, l \in Loops, loop' = [loop EXCEPT ![l].pc = pc, ![l].seq = seq]
<1>3. QED
  BY <1>2, LoopIs

LEMMA LoopMatched ==
  ASSUME Shape, NEW l \in Loops, LoopMatch(l)
  PROVE  LoopNow(l, "answer", loop[l].seq)
<1>1. loop = [k \in Loops |-> loop[k]] /\ loop[l].seq \in Nat /\ "answer" \in LoopPoints
      /\ loop[l] = [pc |-> loop[l].pc, target |-> loop[l].target, todo |-> loop[l].todo, seq |-> loop[l].seq]
  BY DEF Shape, LoopShape, LoopPoints
<1> DEFINE t == Matching(loop[l].target)
<1>2. loop' = [loop EXCEPT ![l].pc = "answer", ![l].todo = t, ![l].target = 0]
  BY DEF LoopMatch
<1> HIDE DEF t
<1>3. loop' = [k \in Loops |-> loop'[k]] /\ (\A k \in Loops : k # l => loop'[k] = loop[k])
      /\ loop'[l] = [pc |-> "answer", target |-> 0, todo |-> t, seq |-> loop[l].seq]
  BY ONLY <1>1, <1>2, UpdateMatch, l \in Loops
<1>4. QED
  BY <1>1, <1>3, LoopIs

LEMMA LoopTurns ==
  ASSUME Shape, NEW l \in Loops, NEW pc \in LoopPoints, NEW seq \in Nat, NextUnit(l, pc, seq)
  PROVE  LoopNow(l, pc, seq)
<1>1. loop = [k \in Loops |-> loop[k]]
      /\ loop[l] = [pc |-> loop[l].pc, target |-> loop[l].target, todo |-> loop[l].todo, seq |-> loop[l].seq]
  BY DEF Shape, LoopShape
<1>2. loop' = [loop EXCEPT ![l].pc = pc, ![l].seq = seq, ![l].todo = Tail(@)]
  BY DEF NextUnit
<1>3. loop' = [k \in Loops |-> loop'[k]] /\ (\A k \in Loops : k # l => loop'[k] = loop[k])
      /\ loop'[l] = [pc |-> pc, target |-> loop[l].target, todo |-> Tail(loop[l].todo), seq |-> seq]
  BY ONLY <1>1, <1>2, UpdateTurn, l \in Loops
<1>4. QED
  BY <1>3, LoopIs

LEMMA LoopAts ==
  ASSUME NEW pc \in LoopPoints
  PROVE  LoopShape(LoopAt(pc)) /\ LoopAt(pc).pc = pc /\ LoopAt(pc).seq = 0
BY DEF LoopShape, LoopAt

\* What a step of a loop does to the rest of the session, and to the history:
\* it leaves the history alone, draws a number or stores the one it has.
LoopEffect(l, pc, seq) ==
    /\ LoopNow(l, pc, seq)
    /\ loop[l].pc \notin {"none", "ended"}
    /\ UNCHANGED <<current, stop, call, transactionMu, overlapped>>
    /\ \/ slaveRunning' = slaveRunning /\ (pc = "ended" => stop[l] > 0)
       \/ slaveRunning' = FALSE
    /\ \/ pc \notin Pending /\ UNCHANGED frames
       \/ pc \in Pending /\ Number /\ UNCHANGED history /\ seq = nextSeq + 1
       \/ pc \notin Pending /\ loop[l].pc \in Pending /\ Store(loop[l].seq)

LEMMA LoopSteps ==
  ASSUME Shape, nextSeq \in Nat, NEW l \in Loops, LoopStep(l)
  PROVE  \E pc \in LoopPoints \ {"none"}, seq \in Nat : LoopEffect(l, pc, seq)
<1>s. loop[l].seq \in Nat /\ stop[l] \in Nat
  BY DEF Shape, LoopShape
<1> USE DEF Pending, frames, slave
<1>1. CASE LoopCheck(l)
  <2> DEFINE pc == IF stop[l] > 0 THEN "ended" ELSE IF port THEN "reading" ELSE "readErr"
  <2>1. LoopNow(l, pc, loop[l].seq) /\ pc \in LoopPoints \ {"none"} /\ pc \notin Pending /\ (pc = "ended" => stop[l] > 0)
    BY <1>1, LoopGoes DEF LoopCheck, LoopPoints
  <2> HIDE DEF pc
  <2>2. QED
    BY <1>1, <1>s, <2>1 DEF LoopCheck, LoopEffect
<1>2. CASE LoopReadNothing(l)
  <2>1. LoopNow(l, "check", loop[l].seq)
    BY <1>2, LoopGoes DEF LoopReadNothing, LoopPoints
  <2>2. LoopEffect(l, "check", loop[l].seq)
    BY <1>2, <2>1 DEF LoopReadNothing, LoopEffect
  <2>3. QED
    BY <1>s, <2>2 DEF LoopPoints
<1>3. ASSUME NEW target, LoopReadFrame(l, target) PROVE \E pc \in LoopPoints \ {"none"}, seq \in Nat : LoopEffect(l, pc, seq)
  <2> DEFINE x == [pc |-> "frame", target |-> target, todo |-> << >>, seq |-> nextSeq + 1]
  <2>1. LoopShape(x) /\ x.pc = "frame" /\ x.seq = nextSeq + 1
    BY DEF LoopShape, LoopPoints
  <2>2. loop' = [loop EXCEPT ![l] = x]
    BY <1>3 DEF LoopReadFrame
  <2> HIDE DEF x
  <2>3. LoopNow(l, "frame", nextSeq + 1)
    BY <2>1, <2>2, LoopBecomes
  <2>4. LoopEffect(l, "frame", nextSeq + 1)
    BY <1>3, <2>3 DEF LoopReadFrame, LoopEffect
  <2>5. QED
    BY <2>4 DEF LoopPoints
<1>4. CASE LoopReadError(l)
  <2>1. LoopNow(l, "readErr", loop[l].seq)
    BY <1>4, LoopGoes DEF LoopReadError, LoopPoints
  <2>2. LoopEffect(l, "readErr", loop[l].seq)
    BY <1>4, <2>1 DEF LoopReadError, LoopEffect
  <2>3. QED
    BY <1>s, <2>2 DEF LoopPoints
<1>5. CASE LoopReadFails(l)
  <2> DEFINE pc == IF stop[l] > 0 THEN "ended" ELSE "fail"
  <2>1. LoopNow(l, pc, loop[l].seq) /\ pc \in LoopPoints \ {"none"} /\ pc \notin Pending /\ (pc = "ended" => stop[l] > 0)
    BY <1>5, LoopGoes DEF LoopReadFails, LoopPoints
  <2> HIDE DEF pc
  <2>2. QED
    BY <1>5, <1>s, <2>1 DEF LoopReadFails, LoopEffect
<1>6. CASE LoopRecord(l)
  <2>1. LoopNow(l, "match", 0)
    BY <1>6, LoopNumbered DEF LoopRecord, LoopPoints
  <2>2. LoopEffect(l, "match", 0)
    BY <1>6, <2>1 DEF LoopRecord, LoopEffect
  <2>3. QED
    BY <2>2 DEF LoopPoints
<1>7. CASE LoopMatch(l)
  <2>1. LoopEffect(l, "answer", loop[l].seq)
    BY <1>7, LoopMatched DEF LoopMatch, LoopEffect
  <2>2. QED
    BY <1>s, <2>1 DEF LoopPoints
<1>8. CASE LoopDone(l)
  <2>1. LoopNow(l, "check", 0)
    BY <1>8, LoopBecomes, LoopAts DEF LoopDone, LoopPoints
  <2>2. LoopEffect(l, "check", 0)
    BY <1>8, <2>1 DEF LoopDone, LoopEffect
  <2>3. QED
    BY <2>2 DEF LoopPoints
<1>9. CASE LoopSkips(l)
  <2>1. LoopNow(l, "answer", 0)
    BY <1>9, LoopTurns DEF LoopSkips, LoopPoints
  <2>2. LoopEffect(l, "answer", 0)
    BY <1>9, <2>1 DEF LoopSkips, LoopEffect, Turn
  <2>3. QED
    BY <2>2 DEF LoopPoints
<1>10. CASE LoopAnswer(l)
  <2>1. LoopNow(l, "record", nextSeq + 1)
    BY <1>10, LoopTurns DEF LoopAnswer, LoopPoints
  <2>2. LoopEffect(l, "record", nextSeq + 1)
    BY <1>10, <2>1 DEF LoopAnswer, LoopEffect, Turn
  <2>3. QED
    BY <2>2 DEF LoopPoints
<1>11. CASE LoopAnswerFails(l)
  <2>1. LoopNow(l, "fail", 0)
    BY <1>11, LoopBecomes, LoopAts DEF LoopAnswerFails, LoopPoints
  <2>2. LoopEffect(l, "fail", 0)
    BY <1>11, <2>1 DEF LoopAnswerFails, LoopEffect, Turn
  <2>3. QED
    BY <2>2 DEF LoopPoints
<1>12. CASE LoopAnswerRecord(l)
  <2>1. LoopNow(l, "answer", 0)
    BY <1>12, LoopNumbered DEF LoopAnswerRecord, LoopPoints
  <2>2. LoopEffect(l, "answer", 0)
    BY <1>12, <2>1 DEF LoopAnswerRecord, LoopEffect
  <2>3. QED
    BY <2>2 DEF LoopPoints
<1>13. CASE SetError(l)
  <2>1. LoopNow(l, "ended", 0)
    BY <1>13, LoopBecomes, LoopAts DEF SetError, LoopPoints
  <2>2. LoopEffect(l, "ended", 0)
    BY <1>13, <2>1 DEF SetError, LoopEffect
  <2>3. QED
    BY <2>2 DEF LoopPoints
<1>14. QED
  BY <1>1, <1>2, <1>3, <1>4, <1>5, <1>6, <1>7, <1>8, <1>9, <1>10, <1>11, <1>12, <1>13 DEF LoopStep

\* What a step of a caller does that neither starts nor stops anything: its
\* request goes on or ends, and it leaves the history alone, clears it, draws
\* a number or stores the one it has.
CallEffect(c, pc, seq) ==
    /\ Now(c, pc, call'[c].loop, seq) /\ pc # "close"
    /\ UNCHANGED <<slaveRunning, current, loop, stop, overlapped>>
    /\ \/ (pc \in Requesting <=> call[c].pc \in Requesting) /\ UNCHANGED transactionMu
       \/ pc \notin Requesting /\ call[c].pc \in Requesting /\ transactionMu' = None
    /\ \/ pc \notin Drawn /\ nextSeq' = nextSeq /\ (history' = history \/ history' = << >>)
       \/ pc \in Drawn /\ Number /\ UNCHANGED history /\ seq = nextSeq + 1
       \/ pc \notin Drawn /\ call[c].pc \in Drawn /\ Store(call[c].seq)

LEMMA CallReturns ==
  ASSUME Shape, NEW c \in Callers, Return(c)
  PROVE  Now(c, "idle", None, 0)
BY CallBecomes, CallTypes DEF Return

\* The next attempt, or the end
LEMMA SendFailed ==
  ASSUME Shape, NEW c \in Callers, SendFails(c)
  PROVE  \/ Now(c, "write", call[c].loop, 0) /\ UNCHANGED transactionMu
         \/ Now(c, "idle", None, 0) /\ transactionMu' = None
<1>1. CASE call[c].left > 0 /\ call' = [call EXCEPT ![c].pc = "write", ![c].left = @ - 1, ![c].seq = 0]
  <2>1. call[c].left - 1 \in Nat
    BY <1>1, CallTypes DEF Shape
  <2>2. Now(c, "write", call[c].loop, 0)
    BY <1>1, <2>1 DEF Shape, Now, CallType, CallPoints, Requesting
  <2>3. QED
    BY <1>1, <2>2, CallReturns DEF SendFails, SendEnds
<1>2. CASE SendEnds(c)
  BY <1>2, CallReturns DEF SendEnds
<1>3. QED
  BY <1>1, <1>2, CallReturns DEF SendFails, SendEnds

LEMMA AfterStopIs ==
  ASSUME NEW c \in Callers
  PROVE  AfterStop(c) \in CallType /\ AfterStop(c).pc \in {"idle", "closing"} /\ AfterStop(c).seq = 0
<1>1. Idle \in CallType /\ Idle.pc = "idle" /\ Idle.seq = 0
  BY CallTypes
<1>2. ASSUME NEW r \in CallType
      PROVE  /\ [r EXCEPT !.pc = "closing", !.closing = TRUE] \in CallType
             /\ [r EXCEPT !.pc = "closing", !.closing = TRUE].pc = "closing"
             /\ [r EXCEPT !.pc = "closing", !.closing = TRUE].seq = r.seq
  BY DEF CallType, CallPoints
<1>3. QED
  BY <1>1, <1>2 DEF AfterStop

LEMMA CallSteps ==
  ASSUME Shape, nextSeq \in Nat, NEW c \in Callers, Get(c) \/ CloseSession(c) \/ CallerStep(c)
  PROVE  \/ \E pc \in CallPoints, seq \in Nat : CallEffect(c, pc, seq)
         \/ StopSlave(c) \/ CloseStop(c)
         \/ \E retries \in 0 .. MaxRetries : SendBegin(c, retries)
         \/ \E given \in Contents, l \in Loops : StartSlave(c, given, l)
<1> DEFINE Effect == \E pc \in CallPoints, seq \in Nat : CallEffect(c, pc, seq)
<1> USE DEF frames, session, slave
<1>s. call[c].seq \in Nat /\ call[c] \in CallType
  BY CallTypes DEF Shape
<1>n. ASSUME NEW pc \in CallPoints, NEW l, NEW seq \in Nat, Now(c, pc, l, seq)
      PROVE  Now(c, pc, call'[c].loop, seq)
  BY <1>n DEF Now
<1>p. /\ \A x \in {"idle", "got", "stop", "closing", "handle"} : x \in CallPoints /\ x \notin Requesting /\ x \notin Drawn
      /\ \A x \in {"write", "read"} : x \in CallPoints /\ x \in Requesting /\ x \notin Drawn
      /\ \A x \in Drawn : x \in CallPoints /\ x \in Requesting /\ x # "close"
      /\ "close" \notin Requesting /\ "wait" \notin Requesting
  BY DEF CallPoints, Requesting, Drawn
<1>1. CASE Get(c)
  <2>1. Now(c, "got", call[c].loop, call[c].seq)
    BY <1>1, <1>p, CallGoes DEF Get
  <2>2. CallEffect(c, "got", call[c].seq)
    BY <1>1, <1>n, <1>p, <1>s, <2>1 DEF CallEffect, Get
  <2>3. QED
    BY <1>p, <1>s, <2>2
<1>2. CASE CloseSession(c)
  <2>1. Now(c, "stop", call[c].loop, call[c].seq)
    BY <1>2, <1>s DEF CloseSession, Shape, Now, CallType, CallPoints
  <2>2. CallEffect(c, "stop", call[c].seq)
    BY <1>2, <1>n, <1>p, <1>s, <2>1 DEF CallEffect, CloseSession
  <2>3. QED
    BY <1>p, <1>s, <2>2
<1>3. CASE StopSlaveIdle(c) \/ StopWait(c)
  <2> DEFINE x == AfterStop(c)
  <2>1. x \in CallType /\ x.pc \in {"idle", "closing"} /\ x.seq = 0 /\ call' = [call EXCEPT ![c] = x]
    BY <1>3, AfterStopIs DEF StopSlaveIdle, StopWait
  <2> HIDE DEF x
  <2>2. Now(c, x.pc, x.loop, 0)
    BY <2>1, CallBecomes
  <2>3. call[c].pc \notin Requesting
    BY <1>3 DEF StopSlaveIdle, StopWait, Stopping, Requesting
  <2>4. CallEffect(c, x.pc, 0)
    BY <1>3, <1>n, <1>p, <2>1, <2>2, <2>3 DEF CallEffect, StopSlaveIdle, StopWait
  <2>5. QED
    BY <1>p, <2>1, <2>4
<1>4. CASE CloseMark(c)
  <2>1. Now(c, "handle", call[c].loop, call[c].seq)
    BY <1>4, <1>p, CallGoes DEF CloseMark
  <2>2. CallEffect(c, "handle", call[c].seq)
    BY <1>4, <1>n, <1>p, <1>s, <2>1 DEF CallEffect, CloseMark
  <2>3. QED
    BY <1>p, <1>s, <2>2
<1>5. CASE ClosePort(c) \/ Refused(c) \/ ClearFrames(c)
           \/ (\E a \in Addresses, unit \in Units : SetSlaveUnit(c, a, unit)) \/ (\E a \in Addresses : RemoveSlaveUnit(c, a))
  <2>1. Now(c, "idle", None, 0) /\ call[c].pc \in {"got", "handle"}
    BY <1>5, CallReturns DEF ClosePort, Refused, ClearFrames, SetSlaveUnit, RemoveSlaveUnit
  <2>2. UNCHANGED <<slaveRunning, current, loop, stop, overlapped, transactionMu, nextSeq>>
        /\ (history' = history \/ history' = << >>)
    BY <1>5 DEF ClosePort, Refused, ClearFrames, SetSlaveUnit, RemoveSlaveUnit
  <2>3. CallEffect(c, "idle", 0)
    BY <1>n, <1>p, <2>1, <2>2 DEF CallEffect
  <2>4. QED
    BY <1>p, <2>3
<1>6. ASSUME NEW next \in {"sent", "unsent"}, SendWrite(c, next) PROVE Effect
  <2> DEFINE q == nextSeq + 1
  <2>0. next \in Drawn /\ next \in CallPoints /\ q \in Nat
        /\ call' = [call EXCEPT ![c].pc = next, ![c].seq = q]
        /\ Number /\ history' = history /\ call[c].pc = "write" /\ transactionMu' = transactionMu
        /\ UNCHANGED <<slaveRunning, current, loop, stop, overlapped>>
    BY <1>6, <1>p DEF SendWrite, Drawn
  <2>d. q = nextSeq + 1
    OBVIOUS
  <2> HIDE DEF q
  <2>1. Now(c, next, call[c].loop, q)
    BY <2>0, CallNumbered
  <2>2. CallEffect(c, next, q)
    <3>1. Now(c, next, call'[c].loop, q) /\ next # "close"
      BY <1>p, <2>0, <2>1 DEF Now
    <3>2. next \in Requesting <=> call[c].pc \in Requesting
      BY <1>p, <2>0
    <3>3. QED
      BY <2>0, <2>d, <3>1, <3>2 DEF CallEffect
  <2>3. QED
    BY <2>0, <2>2
<1>7. CASE SendRecord(c)
  <2>1. PICK pc, l :
            /\ pc \in {"write", "read", "idle"} /\ Now(c, pc, l, 0)
            /\ pc # "idle" => UNCHANGED transactionMu
            /\ pc = "idle" => transactionMu' = None
    <3>1. CASE SendFails(c)
      BY <3>1, SendFailed
    <3>2. CASE SendEnds(c)
      BY <3>2, CallReturns DEF SendEnds
    <3>3. CASE call' = [call EXCEPT ![c].pc = "read", ![c].seq = 0] /\ UNCHANGED transactionMu
      BY <3>3, <1>p, CallNumbered
    <3>4. QED
      BY <1>7, <3>1, <3>2, <3>3 DEF SendRecord
  <2>2. call[c].pc \in Drawn /\ Store(call[c].seq) /\ UNCHANGED <<slaveRunning, current, loop, stop, overlapped>>
    BY <1>7 DEF SendRecord, Drawn
  <2>3. CallEffect(c, pc, 0)
    BY <1>n, <1>p, <2>1, <2>2 DEF CallEffect
  <2>4. QED
    BY <1>p, <2>1, <2>3
<1>8. CASE SendRead(c)
  <2> DEFINE q == nextSeq + 1
  <2>0. "answered" \in Drawn /\ "answered" \in CallPoints /\ q \in Nat
        /\ call' = [call EXCEPT ![c].pc = "answered", ![c].seq = q]
        /\ Number /\ history' = history /\ call[c].pc = "read" /\ transactionMu' = transactionMu
        /\ UNCHANGED <<slaveRunning, current, loop, stop, overlapped>>
    BY <1>8, <1>p DEF SendRead, Drawn
  <2>d. q = nextSeq + 1
    OBVIOUS
  <2> HIDE DEF q
  <2>1. Now(c, "answered", call[c].loop, q)
    BY <2>0, CallNumbered
  <2>2. CallEffect(c, "answered", q)
    <3>1. Now(c, "answered", call'[c].loop, q) /\ "answered" # "close"
      BY <1>p, <2>0, <2>1 DEF Now
    <3>2. "answered" \in Requesting <=> call[c].pc \in Requesting
      BY <1>p, <2>0
    <3>3. QED
      BY <2>0, <2>d, <3>1, <3>2 DEF CallEffect
  <2>3. QED
    BY <2>0, <2>2
<1>9. CASE SendReadFails(c)
  <2>1. PICK pc, l :
            /\ pc \in {"write", "idle"} /\ Now(c, pc, l, 0)
            /\ pc # "idle" => UNCHANGED transactionMu
            /\ pc = "idle" => transactionMu' = None
    BY <1>9, SendFailed DEF SendReadFails
  <2>2. call[c].pc \in Requesting /\ UNCHANGED <<slaveRunning, current, loop, stop, overlapped, history, nextSeq>>
    BY <1>9, <1>p DEF SendReadFails
  <2>3. CallEffect(c, pc, 0)
    BY <1>n, <1>p, <2>1, <2>2 DEF CallEffect
  <2>4. QED
    BY <1>p, <2>1, <2>3
<1>10. CASE SendAnswered(c)
  <2>1. PICK pc, l :
            /\ pc \in {"write", "idle"} /\ Now(c, pc, l, 0)
            /\ pc # "idle" => UNCHANGED transactionMu
            /\ pc = "idle" => transactionMu' = None
    BY <1>10, SendFailed, CallReturns DEF SendAnswered, SendEnds
  <2>2. call[c].pc \in Drawn /\ Store(call[c].seq) /\ UNCHANGED <<slaveRunning, current, loop, stop, overlapped>>
    BY <1>10 DEF SendAnswered, Drawn
  <2>3. CallEffect(c, pc, 0)
    BY <1>n, <1>p, <2>1, <2>2 DEF CallEffect
  <2>4. QED
    BY <1>p, <2>1, <2>3
<1>11. QED
  BY <1>1, <1>2, <1>3, <1>4, <1>5, <1>6, <1>7, <1>8, <1>9, <1>10 DEF CallerStep, Contents

-----------------------------------------------------------------------------
(* The slave that a session says it runs                                   *)

\* A loop is started, and no caller knows of it yet.
LEMMA Started ==
  ASSUME Shape, NEW c \in Callers, NEW given, NEW l \in Loops, StartSlave(c, given, l)
  PROVE  /\ Now(c, "idle", None, 0) /\ LoopNow(l, "check", 0) /\ loop[l].pc = "none"
         /\ slaveRunning' = TRUE /\ current' = l /\ ~slaveRunning /\ stop' = stop
<1>1. LoopNow(l, "check", 0)
  BY LoopBecomes, LoopAts DEF StartSlave, LoopPoints
<1>2. QED
  BY <1>1, CallReturns DEF StartSlave, NextLoop

LEMMA ShapeInit == Init => Shape
<1> SUFFICES ASSUME Init PROVE Shape
  OBVIOUS
<1>1. call \in [Callers -> CallType]
  BY CallTypes DEF Init
<1>2. loop = [l \in Loops |-> loop[l]] /\ \A l \in Loops : loop[l] = LoopAt("none")
  BY DEF Init
<1>3. \A l \in Loops : LoopShape(loop[l])
  BY <1>2, LoopAts DEF LoopPoints
<1>4. stop \in [Loops -> Nat]
  BY DEF Init
<1>5. slaveRunning \in BOOLEAN
  BY Zenon DEF Init
<1>6. QED
  BY <1>1, <1>2, <1>3, <1>4, <1>5 DEF Shape

LEMMA LoopKept == ASSUME Shape, loop' = loop PROVE (loop = [l \in Loops |-> loop[l]])' /\ \A l \in Loops : LoopShape(loop'[l])
BY DEF Shape

LEMMA StopLoopStep ==
  ASSUME Shape, StopInv, NEW l \in Loops, NEW pc \in LoopPoints \ {"none"}, NEW seq \in Nat, LoopEffect(l, pc, seq)
  PROVE  Shape' /\ StopInv'
<1>1. Shape'
  <2>1. slaveRunning' \in BOOLEAN
    BY DEF LoopEffect, Shape
  <2>2. (call \in [Callers -> CallType])' /\ (stop \in [Loops -> Nat])'
    BY DEF LoopEffect, Shape
  <2>3. QED
    BY <2>1, <2>2 DEF LoopEffect, LoopNow, Shape
<1>2. \A k \in Loops : /\ loop'[k].pc = "none" <=> loop[k].pc = "none"
                       /\ Alive(k)' <=> Alive(k) /\ ~(k = l /\ pc = "ended")
  BY DEF LoopEffect, LoopNow, Alive
<1>3. ASSUME slaveRunning'
      PROVE  /\ current' \in Loops /\ Alive(current)' /\ stop'[current'] = 0
             /\ \A c \in Callers : call'[c].pc = "close" => call'[c].loop # current'
  <2>1. slaveRunning' = slaveRunning /\ (pc = "ended" => stop[l] > 0) /\ current' = current /\ stop' = stop /\ call' = call
    BY <1>3 DEF LoopEffect
  <2>2. current \in Loops /\ Alive(current) /\ stop[current] = 0
        /\ \A c \in Callers : call[c].pc = "close" => call[c].loop # current
    BY <1>3, <2>1 DEF StopInv
  <2>3. Alive(current)'
    <3>1. \A k \in Loops : k = current => Alive(k)'
      BY <1>2, <2>1, <2>2
    <3>2. QED
      BY <3>1, <2>1, <2>2 DEF Alive
  <2>4. QED
    BY <2>1, <2>2, <2>3
<1>4. \A c \in Callers : call'[c].pc = "close" =>
        /\ call'[c].loop \in Loops /\ loop'[call'[c].loop].pc # "none" /\ stop'[call'[c].loop] = 0
        /\ \A d \in Callers : call'[d].pc = "close" /\ call'[d].loop = call'[c].loop => c = d
  BY <1>2 DEF LoopEffect, StopInv
<1>5. \A k \in Loops : stop'[k] <= 1 /\ (loop'[k].pc = "none" => stop'[k] = 0)
  BY <1>2 DEF LoopEffect, StopInv
<1>6. QED
  BY <1>1, <1>3, <1>4, <1>5 DEF StopInv

LEMMA StopCallStep ==
  ASSUME Shape, StopInv, NEW c \in Callers
  PROVE  /\ \A pc \in CallPoints, seq \in Nat : CallEffect(c, pc, seq) => Shape' /\ StopInv'
         /\ StopSlave(c) => Shape' /\ StopInv'
         /\ CloseStop(c) => Shape' /\ StopInv'
         /\ \A retries \in 0 .. MaxRetries : SendBegin(c, retries) => Shape' /\ StopInv'
         /\ \A given \in Contents, l \in Loops : StartSlave(c, given, l) => Shape' /\ StopInv'
<1>1. ASSUME call' \in [Callers -> CallType], \A d \in Callers : d # c => call'[d] = call[d], call'[c].pc # "close",
             UNCHANGED <<slaveRunning, current, loop, stop>>
      PROVE  Shape' /\ StopInv'
  <2>1. Shape'
    BY <1>1, LoopKept DEF Shape
  <2>2. \A d \in Callers : call'[d].pc = "close" => call'[d] = call[d]
    BY <1>1
  <2>3. QED
    BY <1>1, <2>1, <2>2 DEF StopInv, Alive
<1>2. ASSUME NEW pc \in CallPoints, NEW seq \in Nat, CallEffect(c, pc, seq) PROVE Shape' /\ StopInv'
  BY <1>1, <1>2 DEF CallEffect, Now
<1>3. ASSUME StopSlave(c) PROVE Shape' /\ StopInv'
  <2>1. slaveRunning /\ current \in Loops
    BY <1>3 DEF StopSlave, StopInv
  <2>2. Now(c, "close", current, call[c].seq)
    BY <1>3, <2>1, CallStops DEF StopSlave
  <2>3. slaveRunning' = FALSE /\ loop' = loop /\ stop' = stop
    BY <1>3 DEF StopSlave
  <2>4. Shape'
    BY <2>2, <2>3, LoopKept DEF Shape, Now
  <2>5. Alive(current) /\ stop[current] = 0 /\ \A d \in Callers : call[d].pc = "close" => call[d].loop # current
    BY <2>1 DEF StopInv
  <2>6. loop[current].pc # "none"
    BY <2>5 DEF Alive
  <2>7. \A d \in Callers : call'[d].pc = "close" =>
          IF d = c THEN call'[d].loop = current ELSE call[d].pc = "close" /\ call'[d].loop = call[d].loop
    BY <2>2 DEF Now
  <2>8. QED
    BY <2>1, <2>3, <2>4, <2>5, <2>6, <2>7 DEF StopInv
<1>4. ASSUME CloseStop(c) PROVE Shape' /\ StopInv'
  <2> DEFINE l == call[c].loop
  <2>1. l \in Loops /\ loop[l].pc # "none" /\ stop[l] = 0
        /\ \A d \in Callers : call[d].pc = "close" /\ call[d].loop = l => c = d
    BY <1>4 DEF CloseStop, StopInv
  <2>2. Now(c, "wait", l, call[c].seq)
    BY <1>4, CallGoes DEF CloseStop, CallPoints
  <2>3. stop' = [stop EXCEPT ![l] = stop[l] + 1] /\ UNCHANGED <<slaveRunning, current, loop>> /\ call[c].pc = "close"
    BY <1>4 DEF CloseStop, slave
  <2> HIDE DEF l
  <2>4. stop'[l] = 1 /\ (\A k \in Loops : k # l => stop'[k] = stop[k]) /\ stop' \in [Loops -> Nat]
    BY <2>1, <2>3 DEF Shape
  <2>5. Shape'
    BY <2>2, <2>3, <2>4, LoopKept DEF Shape, Now
  <2>6. \A d \in Callers : call'[d].pc = "close" => d # c /\ call'[d] = call[d] /\ call[d].loop # l
    BY <2>1, <2>2 DEF Now
  <2>7. slaveRunning => current # l
    BY <2>3 DEF StopInv, l
  <2>8. QED
    BY <2>1, <2>3, <2>4, <2>5, <2>6, <2>7 DEF StopInv, Alive
<1>5. ASSUME NEW retries \in 0 .. MaxRetries, SendBegin(c, retries) PROVE Shape' /\ StopInv'
  <2>1. call' \in [Callers -> CallType] /\ (\A d \in Callers : d # c => call'[d] = call[d]) /\ call'[c].pc # "close"
    <3>1. call' = [call EXCEPT ![c].pc = "write", ![c].left = retries] /\ retries \in Nat
      BY <1>5 DEF SendBegin
    <3>2. call[c] \in CallType /\ "write" \in CallPoints
      BY DEF Shape, CallPoints, Requesting
    <3>3. call' = [call EXCEPT ![c] = [call[c] EXCEPT !.pc = "write", !.left = retries]]
      BY <3>1
    <3>4. [call[c] EXCEPT !.pc = "write", !.left = retries] \in CallType
          /\ [call[c] EXCEPT !.pc = "write", !.left = retries].pc = "write"
      BY <3>1, <3>2 DEF CallType
    <3>5. QED
      BY <3>3, <3>4 DEF Shape
  <2>2. QED
    BY <2>1, <1>1, <1>5 DEF SendBegin, slave
<1>6. ASSUME NEW given \in Contents, NEW l \in Loops, StartSlave(c, given, l) PROVE Shape' /\ StopInv'
  <2>1. /\ Now(c, "idle", None, 0) /\ LoopNow(l, "check", 0) /\ loop[l].pc = "none"
        /\ slaveRunning' = TRUE /\ current' = l /\ ~slaveRunning /\ stop' = stop
    BY <1>6, Started
  <2>2. Shape'
    BY <2>1 DEF Shape, Now, LoopNow
  <2>3. \A d \in Callers : call'[d].pc = "close" => call'[d] = call[d] /\ call[d].loop # l
    BY <2>1 DEF Now, StopInv
  <2>4. stop[l] = 0 /\ Alive(l)' /\ \A k \in Loops : k # l => loop'[k] = loop[k]
    BY <2>1 DEF StopInv, LoopNow, Alive
  <2>5. QED
    BY <2>1, <2>2, <2>3, <2>4 DEF StopInv, Alive, LoopNow
<1>7. QED
  BY <1>2, <1>3, <1>4, <1>5, <1>6

LEMMA CountStep ==
  ASSUME Shape, nextSeq \in Nat, [Next]_vars
  PROVE  nextSeq' \in Nat
<1>1. ASSUME NEW c \in Callers, Get(c) \/ CloseSession(c) \/ CallerStep(c) PROVE nextSeq' \in Nat
  BY <1>1, CallSteps DEF CallEffect, Number, Store, StopSlave, CloseStop, SendBegin, StartSlave, frames
<1>2. ASSUME NEW l \in Loops, LoopStep(l) PROVE nextSeq' \in Nat
  BY <1>2, LoopSteps DEF LoopEffect, Number, Store, frames
<1>3. QED
  BY <1>1, <1>2 DEF Next, vars, frames

LEMMA ServedInit == Init => ServedInv
<1> SUFFICES ASSUME Init PROVE ServedInv
  OBVIOUS
<1>1. slaveRunning = FALSE /\ (\A c \in Callers : call[c] = Idle) /\ \A l \in Loops : stop[l] = 0
  BY DEF Init
<1>2. \A c \in Callers : call[c].pc # "close"
  BY <1>1, CallTypes
<1>3. StopInv
  BY <1>1, <1>2 DEF StopInv
<1>4. nextSeq \in Nat
  BY DEF Init
<1>5. QED
  BY <1>3, <1>4, ShapeInit DEF ServedInv

LEMMA ServedStep == ServedInv /\ [Next]_vars => ServedInv'
<1> SUFFICES ASSUME ServedInv, [Next]_vars PROVE Shape' /\ StopInv'
  BY CountStep DEF ServedInv
<1> USE DEF ServedInv
<1>1. ASSUME NEW c \in Callers, Get(c) \/ CloseSession(c) \/ CallerStep(c) PROVE Shape' /\ StopInv'
  BY <1>1, CallSteps, StopCallStep
<1>2. ASSUME NEW l \in Loops, LoopStep(l) PROVE Shape' /\ StopInv'
  BY <1>2, LoopSteps, StopLoopStep
<1>3. CASE UNCHANGED vars
  BY <1>3 DEF vars, slave, Shape, StopInv, Alive
<1>4. QED
  BY <1>1, <1>2, <1>3 DEF Next

\* While a session says that its slave runs, the loop is there and is not told
\* to stop, and no stop channel is closed twice (startSlave, stopSlave, close
\* and setError), for any clients and loops.
THEOREM SlaveIsServedAlways == Spec => []SlaveIsServed
<1>1. Init => ServedInv
  BY ServedInit
<1>2. ServedInv /\ [Next]_vars => ServedInv'
  BY ServedStep
<1>3. ServedInv => SlaveIsServed
  BY FecbusAssumption DEF ServedInv, StopInv, SlaveIsServed
<1>4. QED
  BY <1>1, <1>2, <1>3, PTL DEF Spec

-----------------------------------------------------------------------------
(* The order of the history                                                *)

\* The history ends with the record that is stored, and the oldest go.
LEMMA StoreKeepsOrder ==
  ASSUME nextSeq \in Nat, history \in Seq(Nat), NEW seq \in Nat, Store(seq)
  PROVE  /\ history' \in Seq(Nat) /\ nextSeq' = nextSeq
         /\ Bounded /\ Sorted /\ Latest(seq) => Bounded' /\ Sorted'
<1> DEFINE all == Append(history, seq)
           n == IF Len(all) > MaxHistory THEN MaxHistory ELSE Len(all)
           m == Len(all) - n
<1>1. all \in Seq(Nat) /\ Len(all) = Len(history) + 1 /\ Len(history) \in Nat
      /\ \A i \in 1 .. Len(all) : all[i] = IF i = Len(all) THEN seq ELSE history[i]
  OBVIOUS
<1>h. DOMAIN history = 1 .. Len(history) /\ \A i \in 1 .. Len(history) : history[i] \in Nat
  OBVIOUS
<1>2. history' = SubSeq(all, m + 1, Len(all)) /\ nextSeq' = nextSeq
  BY DEF Store
<1> HIDE DEF all
<1>l. Len(all) \in Nat
  BY <1>1
<1>3. m \in Nat /\ m <= Len(all)
  <2>1. n \in Nat /\ n <= Len(all)
    BY ONLY <1>l, FecbusAssumption
  <2> HIDE DEF n
  <2>2. QED
    BY <2>1, <1>l
<1> HIDE DEF m
<1>4. \A i \in m + 1 .. Len(all) : all[i] \in Nat
  BY <1>1, <1>3
<1>5. history' \in Seq(Nat) /\ Len(history') = Len(all) - m
      /\ \A i \in 1 .. Len(all) - m : history'[i] = all[m + i]
  <2>1. m + 1 \in Int /\ Len(all) \in Int
    BY <1>1, <1>3
  <2>2. /\ SubSeq(all, m + 1, Len(all)) \in Seq(Nat)
        /\ Len(SubSeq(all, m + 1, Len(all))) = IF m + 1 <= Len(all) THEN Len(all) - (m + 1) + 1 ELSE 0
        /\ \A i \in 1 .. Len(all) - (m + 1) + 1 : SubSeq(all, m + 1, Len(all))[i] = all[m + 1 + i - 1]
    BY <1>4, <2>1, SubSeqProperties
  <2>3. Len(all) - (m + 1) + 1 = Len(all) - m /\ (\A i \in Int : m + 1 + i - 1 = m + i)
        /\ (~(m + 1 <= Len(all)) => Len(all) - m = 0)
    BY <1>1, <1>3
  <2>4. Len(history') = Len(all) - m
    BY <1>2, <2>2, <2>3
  <2>5. \A i \in 1 .. Len(all) - m : history'[i] = all[m + i]
    <3> SUFFICES ASSUME NEW i \in 1 .. Len(all) - m PROVE history'[i] = all[m + i]
      OBVIOUS
    <3>1. history'[i] = all[m + 1 + i - 1]
      BY <1>2, <2>2, <2>3
    <3>2. m + 1 + i - 1 = m + i
      BY <1>3, <1>l
    <3>3. QED
      BY <3>1, <3>2
  <2>6. QED
    BY <1>2, <2>2, <2>4, <2>5
<1>6. DOMAIN history' = 1 .. Len(all) - m
  BY <1>5
<1>7. ASSUME Bounded, Sorted, Latest(seq) PROVE Bounded' /\ Sorted'
  <2>0. \A i \in 1 .. Len(all) : i # Len(all) => i \in DOMAIN history
    BY <1>1, <1>h
  <2>1. \A i \in 1 .. Len(all) : all[i] <= nextSeq
    <3> SUFFICES ASSUME NEW i \in 1 .. Len(all) PROVE all[i] <= nextSeq
      OBVIOUS
    <3>1. CASE i = Len(all)
      BY <1>1, <1>7, <3>1 DEF Latest
    <3>2. CASE i # Len(all)
      BY <1>1, <1>7, <2>0, <3>2 DEF Bounded
    <3>3. QED
      BY <3>1, <3>2
  <2>2. \A i, j \in 1 .. Len(all) : i < j => all[i] < all[j]
    <3> SUFFICES ASSUME NEW i \in 1 .. Len(all), NEW j \in 1 .. Len(all), i < j PROVE all[i] < all[j]
      OBVIOUS
    <3>1. i \in DOMAIN history /\ all[i] = history[i]
      BY <1>1, <1>h
    <3>2. CASE j = Len(all)
      BY <1>1, <1>7, <3>1, <3>2 DEF Latest
    <3>3. CASE j # Len(all)
      <4>1. j \in DOMAIN history /\ all[j] = history[j]
        BY <1>1, <2>0, <3>3
      <4>2. QED
        BY <1>7, <3>1, <4>1 DEF Sorted
    <3>4. QED
      BY <3>2, <3>3
  <2>3. Bounded'
    <3> SUFFICES ASSUME NEW i \in 1 .. Len(all) - m PROVE all[m + i] <= nextSeq
      BY <1>2, <1>5, <1>6 DEF Bounded
    <3>1. m + i \in 1 .. Len(all)
      BY <1>1, <1>3
    <3>2. QED
      BY <2>1, <3>1
  <2>4. Sorted'
    <3> SUFFICES ASSUME NEW i \in 1 .. Len(all) - m, NEW j \in 1 .. Len(all) - m, i < j PROVE all[m + i] < all[m + j]
      BY <1>5, <1>6 DEF Sorted
    <3>1. m + i \in 1 .. Len(all) /\ m + j \in 1 .. Len(all) /\ m + i < m + j
      BY <1>1, <1>3
    <3>2. QED
      BY <2>2, <3>1
  <2>5. QED
    BY <2>3, <2>4
<1>8. QED
  BY <1>2, <1>5, <1>7

LEMMA MuStep ==
  ASSUME Shape, nextSeq \in Nat, MuInv, [Next]_vars
  PROVE  MuInv'
<1>n. None \notin Callers
  BY FecbusAssumption
<1>1. ASSUME NEW c \in Callers, Get(c) \/ CloseSession(c) \/ CallerStep(c) PROVE MuInv'
  <2>1. ASSUME NEW pc \in CallPoints, NEW seq \in Nat, CallEffect(c, pc, seq) PROVE MuInv'
    BY <1>n, <2>1 DEF CallEffect, Now, MuInv
  <2>2. CASE StopSlave(c)
    <3>1. \A d \in Callers : call'[d].pc \in Requesting <=> call[d].pc \in Requesting
      <4>1. call[c].pc \notin Requesting
        BY <2>2 DEF StopSlave, Stopping, Requesting
      <4>2. call'[c].pc \notin Requesting /\ \A d \in Callers : d # c => call'[d] = call[d]
        <5>1. call' = [call EXCEPT ![c].pc = "close", ![c].loop = current]
          BY <2>2 DEF StopSlave
        <5>2. QED
          BY <5>1 DEF Shape, CallType, Requesting
      <4>3. QED
        BY <4>1, <4>2
    <3>2. QED
      BY <2>2, <3>1 DEF StopSlave, MuInv
  <2>3. CASE CloseStop(c)
    <3>1. Now(c, "wait", call[c].loop, call[c].seq) /\ call[c].pc = "close" /\ transactionMu' = transactionMu
      BY <2>3, CallGoes DEF CloseStop, CallPoints
    <3>2. QED
      BY <3>1 DEF Now, MuInv, Requesting
  <2>4. ASSUME NEW retries \in 0 .. MaxRetries, SendBegin(c, retries) PROVE MuInv'
    <3>1. call'[c].pc \in Requesting /\ (\A d \in Callers : d # c => call'[d] = call[d])
      <4>1. call' = [call EXCEPT ![c].pc = "write", ![c].left = retries]
        BY <2>4 DEF SendBegin
      <4>2. QED
        BY <4>1 DEF Shape, CallType, Requesting
    <3>2. transactionMu = None /\ transactionMu' = c
      BY <2>4 DEF SendBegin
    <3>3. QED
      BY <1>n, <3>1, <3>2 DEF MuInv
  <2>5. ASSUME NEW given \in Contents, NEW l \in Loops, StartSlave(c, given, l) PROVE MuInv'
    <3>1. Now(c, "idle", None, 0) /\ call[c].pc = "got" /\ transactionMu' = transactionMu
      BY <2>5, Started DEF StartSlave
    <3>2. QED
      BY <3>1 DEF Now, MuInv, Requesting
  <2>6. QED
    BY <1>1, <2>1, <2>2, <2>3, <2>4, <2>5, CallSteps
<1>2. ASSUME NEW l \in Loops, LoopStep(l) PROVE MuInv'
  BY <1>2, LoopSteps DEF LoopEffect, MuInv
<1>3. CASE UNCHANGED vars
  BY <1>3 DEF vars, MuInv
<1>4. QED
  BY <1>1, <1>2, <1>3 DEF Next

\* What starts while nothing is on its way out is alone.
LEMMA AloneStep ==
  ASSUME Shape, nextSeq \in Nat, AloneInv, [Next]_vars
  PROVE  AloneInv' /\ (~overlapped' => ~overlapped)
<1>1. ASSUME NEW c \in Callers, Get(c) \/ CloseSession(c) \/ CallerStep(c) PROVE AloneInv' /\ (~overlapped' => ~overlapped)
  <2>1. ASSUME loop' = loop, overlapped' = overlapped, transactionMu' \in {transactionMu, None}
        PROVE  AloneInv' /\ (~overlapped' => ~overlapped)
    BY <2>1 DEF AloneInv, Alive
  <2>2. ASSUME NEW pc \in CallPoints, NEW seq \in Nat, CallEffect(c, pc, seq) PROVE AloneInv' /\ (~overlapped' => ~overlapped)
    BY <2>1, <2>2 DEF CallEffect
  <2>3. CASE StopSlave(c) \/ CloseStop(c)
    BY <2>1, <2>3 DEF StopSlave, CloseStop
  <2>4. ASSUME NEW retries \in 0 .. MaxRetries, SendBegin(c, retries) PROVE AloneInv' /\ (~overlapped' => ~overlapped)
    <3>1. loop' = loop /\ (~overlapped' => ~overlapped /\ \A l \in Loops : ~Alive(l))
      BY <2>4 DEF SendBegin, OnItsWayOut
    <3>2. QED
      BY <3>1 DEF AloneInv, Alive
  <2>5. ASSUME NEW given \in Contents, NEW l \in Loops, StartSlave(c, given, l)
        PROVE  AloneInv' /\ (~overlapped' => ~overlapped)
    <3>1. ~overlapped' => ~overlapped /\ \A k \in Loops : ~Alive(k)
      BY <2>5 DEF StartSlave, OnItsWayOut
    <3>2. \A k \in Loops : k # l => loop'[k] = loop[k]
      BY <2>5, Started DEF LoopNow
    <3>3. transactionMu' = None
      BY <2>5 DEF StartSlave
    <3>4. QED
      BY <3>1, <3>2, <3>3 DEF AloneInv, Alive
  <2>6. QED
    BY <1>1, <2>2, <2>3, <2>4, <2>5, CallSteps
<1>2. ASSUME NEW l \in Loops, LoopStep(l) PROVE AloneInv' /\ (~overlapped' => ~overlapped)
  <2>1. PICK pc \in LoopPoints \ {"none"}, seq \in Nat : LoopEffect(l, pc, seq)
    BY <1>2, LoopSteps
  <2>2. \A k \in Loops : Alive(k)' => Alive(k)
    BY <2>1 DEF LoopEffect, LoopNow, Alive
  <2>3. transactionMu' = transactionMu /\ overlapped' = overlapped
    BY <2>1 DEF LoopEffect
  <2>4. QED
    BY <2>2, <2>3 DEF AloneInv
<1>3. CASE UNCHANGED vars
  BY <1>3 DEF vars, AloneInv, Alive
<1>4. QED
  BY <1>1, <1>2, <1>3 DEF Next

\* A number is drawn after all that were drawn before.
LEMMA Drawing ==
  ASSUME nextSeq \in Nat, history \in Seq(Nat), Number, history' = history, Bounded, Sorted
  PROVE  /\ Bounded' /\ Sorted'
         /\ \A q : q = nextSeq + 1 \/ Latest(q) => Latest(q)'
<1>1. nextSeq' = nextSeq + 1
  BY DEF Number
<1>h. \A i \in DOMAIN history : history[i] \in Nat
  OBVIOUS
<1>2. Bounded'
  BY <1>1, <1>h DEF Bounded
<1>3. Sorted'
  BY DEF Sorted
<1>4. ASSUME NEW q, q = nextSeq + 1 PROVE Latest(q)'
  <2>1. \A i \in DOMAIN history : history[i] < q
    BY <1>4, <1>h DEF Bounded
  <2>2. QED
    BY <1>1, <1>4, <2>1 DEF Latest
<1>5. ASSUME NEW q, Latest(q) PROVE Latest(q)'
  BY <1>1, <1>5 DEF Latest
<1>6. QED
  BY <1>2, <1>3, <1>4, <1>5

\* A loop that records is alone, as nothing overlapped.
LEMMA OrderLoop ==
  ASSUME Shape, MuInv, AloneInv, OrderInv, NEW l \in Loops, NEW pc \in LoopPoints \ {"none"}, NEW seq \in Nat,
         LoopEffect(l, pc, seq)
  PROVE  OrderInv'
<1>1. LoopNow(l, pc, seq) /\ Alive(l) /\ overlapped' = overlapped /\ call' = call
  BY DEF LoopEffect, Alive
<1>2. \A k \in Loops : k # l => loop'[k] = loop[k]
  BY <1>1 DEF LoopNow
<1>3. CASE pc \notin Pending /\ UNCHANGED frames
  BY <1>1, <1>2, <1>3 DEF frames, OrderInv, Bounded, Sorted, Latest, LoopNow
<1>4. CASE pc \in Pending /\ Number /\ UNCHANGED history /\ seq = nextSeq + 1
  <2>1. nextSeq' \in Nat /\ history' \in Seq(Nat)
    BY <1>4 DEF Number, OrderInv
  <2>2. ASSUME ~overlapped
        PROVE  /\ Bounded' /\ Sorted'
               /\ \A k \in Loops : loop'[k].pc \in Pending => Latest(loop[k].seq)'
               /\ \A c \in Callers : call'[c].pc \in Drawn => Latest(call[c].seq)'
    <3>1. Bounded' /\ Sorted' /\ \A q : q = nextSeq + 1 \/ Latest(q) => Latest(q)'
      BY <1>4, <2>2, Drawing DEF OrderInv
    <3>2. \A k \in Loops : loop'[k].pc \in Pending => loop'[k].seq = nextSeq + 1 \/ Latest(loop'[k].seq)
      BY <1>1, <1>2, <1>4, <2>2 DEF OrderInv, LoopNow, Latest
    <3>3. \A c \in Callers : call'[c].pc \in Drawn => Latest(call'[c].seq)
      BY <1>1, <2>2 DEF OrderInv, Latest
    <3>4. QED
      BY <3>1, <3>2, <3>3
  <2>3. QED
    BY <1>1, <2>1, <2>2 DEF OrderInv
<1>5. CASE pc \notin Pending /\ loop[l].pc \in Pending /\ Store(loop[l].seq)
  <2>0. loop[l].seq \in Nat
    BY DEF Shape, LoopShape
  <2>1. /\ history' \in Seq(Nat) /\ nextSeq' = nextSeq
        /\ Bounded /\ Sorted /\ Latest(loop[l].seq) => Bounded' /\ Sorted'
    BY <1>5, <2>0, StoreKeepsOrder DEF OrderInv
  <2>2. ASSUME ~overlapped
        PROVE  /\ Bounded' /\ Sorted'
               /\ \A k \in Loops : loop'[k].pc \notin Pending
               /\ \A c \in Callers : call'[c].pc \notin Drawn
    <3>1. Bounded' /\ Sorted'
      BY <1>5, <2>1, <2>2 DEF OrderInv
    <3>2. \A k \in Loops : k # l => loop[k].pc \notin Pending
      BY <1>1, <2>2 DEF AloneInv, Alive, Pending
    <3>3. \A c \in Callers : call[c].pc \notin Requesting
      <4>1. transactionMu = None
        BY <1>1, <2>2 DEF AloneInv
      <4>2. QED
        BY <4>1, FecbusAssumption DEF MuInv
    <3>4. QED
      BY <1>1, <1>2, <1>5, <3>1, <3>2, <3>3 DEF LoopNow, Drawn, Requesting
  <2>3. QED
    BY <1>1, <2>1, <2>2 DEF OrderInv
<1>6. QED
  BY <1>3, <1>4, <1>5 DEF LoopEffect

\* A request that records has the lock, and no loop runs.
LEMMA OrderCaller ==
  ASSUME Shape, MuInv, AloneInv, OrderInv, NEW c \in Callers, NEW pc \in CallPoints, NEW seq \in Nat,
         CallEffect(c, pc, seq)
  PROVE  OrderInv'
<1>1. Now(c, pc, call'[c].loop, seq) /\ overlapped' = overlapped /\ loop' = loop
  BY DEF CallEffect
<1>2. \A d \in Callers : d # c => call'[d] = call[d]
  BY <1>1 DEF Now
<1>3. CASE pc \notin Drawn /\ nextSeq' = nextSeq /\ (history' = history \/ history' = << >>)
  <2>1. history' \in Seq(Nat)
    <3>1. << >> \in Seq(Nat)
      OBVIOUS
    <3>2. QED
      BY <1>3, <3>1 DEF OrderInv
  <2>2. ASSUME ~overlapped
        PROVE  Bounded' /\ Sorted' /\ \A q : Latest(q) => Latest(q)'
    BY <1>3, <2>2 DEF OrderInv, Bounded, Sorted, Latest
  <2>3. ASSUME ~overlapped
        PROVE  /\ \A l \in Loops : loop'[l].pc \in Pending => Latest(loop'[l].seq)
               /\ \A d \in Callers : call'[d].pc \in Drawn => Latest(call'[d].seq)
    BY <1>1, <1>2, <1>3, <2>3 DEF OrderInv, Latest, Now
  <2>4. ASSUME ~overlapped
        PROVE  /\ \A l \in Loops : loop'[l].pc \in Pending => Latest(loop[l].seq)'
               /\ \A d \in Callers : call'[d].pc \in Drawn => Latest(call[d].seq)'
    BY <2>2, <2>3, <2>4
  <2>5. QED
    BY <1>1, <1>3, <2>1, <2>2, <2>4 DEF OrderInv
<1>4. CASE pc \in Drawn /\ Number /\ UNCHANGED history /\ seq = nextSeq + 1
  <2>1. nextSeq' \in Nat /\ history' \in Seq(Nat)
    BY <1>4 DEF Number, OrderInv
  <2>2. ASSUME ~overlapped
        PROVE  /\ Bounded' /\ Sorted'
               /\ \A l \in Loops : loop'[l].pc \in Pending => Latest(loop[l].seq)'
               /\ \A d \in Callers : call'[d].pc \in Drawn => Latest(call[d].seq)'
    <3>1. Bounded' /\ Sorted' /\ \A q : q = nextSeq + 1 \/ Latest(q) => Latest(q)'
      BY <1>4, <2>2, Drawing DEF OrderInv
    <3>2. \A d \in Callers : call'[d].pc \in Drawn => call'[d].seq = nextSeq + 1 \/ Latest(call'[d].seq)
      BY <1>1, <1>2, <1>4, <2>2 DEF OrderInv, Now, Latest
    <3>3. \A l \in Loops : loop'[l].pc \in Pending => Latest(loop'[l].seq)
      BY <1>1, <2>2 DEF OrderInv, Latest
    <3>4. QED
      BY <3>1, <3>2, <3>3
  <2>3. QED
    BY <1>1, <2>1, <2>2 DEF OrderInv
<1>5. CASE pc \notin Drawn /\ call[c].pc \in Drawn /\ Store(call[c].seq)
  <2>0. call[c].seq \in Nat
    BY CallTypes DEF Shape
  <2>1. /\ history' \in Seq(Nat) /\ nextSeq' = nextSeq
        /\ Bounded /\ Sorted /\ Latest(call[c].seq) => Bounded' /\ Sorted'
    BY <1>5, <2>0, StoreKeepsOrder DEF OrderInv
  <2>m. transactionMu = c /\ c # None /\ \A d \in Callers : d # c => call[d].pc \notin Requesting
    BY <1>5, FecbusAssumption DEF MuInv, Drawn, Requesting
  <2>2. ASSUME ~overlapped
        PROVE  /\ Bounded' /\ Sorted'
               /\ \A l \in Loops : loop'[l].pc \notin Pending
               /\ \A d \in Callers : call'[d].pc \notin Drawn
    <3>1. Bounded' /\ Sorted'
      BY <1>5, <2>1, <2>2 DEF OrderInv
    <3>2. \A l \in Loops : loop[l].pc \notin Pending
      BY <2>2, <2>m DEF AloneInv, Alive, Pending
    <3>3. \A d \in Callers : call'[d].pc \notin Drawn
      BY <1>1, <1>2, <1>5, <2>m DEF Now, Drawn, Requesting
    <3>4. QED
      BY <1>1, <3>1, <3>2, <3>3
  <2>3. QED
    BY <1>1, <2>1, <2>2 DEF OrderInv
<1>6. QED
  BY <1>3, <1>4, <1>5 DEF CallEffect

LEMMA OrderStep ==
  ASSUME Shape, MuInv, AloneInv, OrderInv, [Next]_vars
  PROVE  OrderInv'
<1>0. nextSeq \in Nat /\ (~overlapped' => ~overlapped)
  BY AloneStep DEF OrderInv
<1>q. ASSUME UNCHANGED frames,
             \A l \in Loops : loop'[l].pc \in Pending => loop'[l] = loop[l],
             \A c \in Callers : call'[c].pc \in Drawn => call'[c] = call[c]
      PROVE  OrderInv'
  BY <1>0, <1>q DEF frames, OrderInv, Bounded, Sorted, Latest
<1>1. ASSUME NEW c \in Callers, Get(c) \/ CloseSession(c) \/ CallerStep(c) PROVE OrderInv'
  <2>1. ASSUME call'[c].pc \notin Drawn, \A d \in Callers : d # c => call'[d] = call[d], UNCHANGED <<frames, loop>>
        PROVE  OrderInv'
    BY <1>q, <2>1
  <2>2. CASE StopSlave(c)
    <3>1. call' = [call EXCEPT ![c].pc = "close", ![c].loop = current]
      BY <2>2 DEF StopSlave
    <3>2. call'[c].pc \notin Drawn /\ \A d \in Callers : d # c => call'[d] = call[d]
      BY <3>1 DEF Shape, CallType, Drawn
    <3>3. QED
      BY <2>1, <2>2, <3>2 DEF StopSlave
  <2>3. CASE CloseStop(c)
    <3>1. Now(c, "wait", call[c].loop, call[c].seq)
      BY <2>3, CallGoes DEF CloseStop, CallPoints
    <3>2. QED
      BY <2>1, <2>3, <3>1 DEF CloseStop, Now, Drawn
  <2>4. ASSUME NEW retries \in 0 .. MaxRetries, SendBegin(c, retries) PROVE OrderInv'
    <3>1. call' = [call EXCEPT ![c].pc = "write", ![c].left = retries]
      BY <2>4 DEF SendBegin
    <3>2. call'[c].pc \notin Drawn /\ \A d \in Callers : d # c => call'[d] = call[d]
      BY <3>1 DEF Shape, CallType, Drawn
    <3>3. QED
      BY <2>1, <2>4, <3>2 DEF SendBegin
  <2>5. ASSUME NEW given \in Contents, NEW l \in Loops, StartSlave(c, given, l) PROVE OrderInv'
    <3>1. Now(c, "idle", None, 0) /\ LoopNow(l, "check", 0) /\ UNCHANGED frames
      BY <2>5, Started DEF StartSlave
    <3>2. QED
      BY <3>1, <1>q DEF Now, LoopNow, Drawn, Pending
  <2>6. QED
    BY <1>0, <1>1, <2>2, <2>3, <2>4, <2>5, CallSteps, OrderCaller
<1>2. ASSUME NEW l \in Loops, LoopStep(l) PROVE OrderInv'
  BY <1>0, <1>2, LoopSteps, OrderLoop
<1>3. CASE UNCHANGED vars
  BY <1>q, <1>3 DEF vars
<1>4. QED
  BY <1>1, <1>2, <1>3 DEF Next

\* The frames are stored in the order of their numbers, as long as nothing
\* starts while a loop that stopSlave gave up waiting for still runs: a
\* request and a slave keep each other out (recordFrame draws the number of a
\* frame and stores it in two steps), for any clients and loops.
THEOREM HistoryInOrderAlways == Spec => []HistoryInOrder
<1>1. Init => InOrderInv
  <2> SUFFICES ASSUME Init PROVE InOrderInv
    OBVIOUS
  <2>1. (\A c \in Callers : call[c] = Idle) /\ \A l \in Loops : loop[l] = LoopAt("none")
    BY DEF Init
  <2>2. \A l \in Loops : loop[l].pc = "none"
    BY <2>1 DEF LoopAt
  <2>3. \A c \in Callers : call[c].pc = "idle"
    BY <2>1, CallTypes
  <2>4. transactionMu = None /\ history = << >> /\ nextSeq = 0
    BY DEF Init
  <2>5. MuInv /\ AloneInv
    BY <2>2, <2>3, <2>4, FecbusAssumption DEF MuInv, Requesting, AloneInv, Alive
  <2>6. OrderInv
    BY <2>2, <2>3, <2>4 DEF OrderInv, Bounded, Sorted, Pending, Drawn
  <2>7. QED
    BY <2>5, <2>6, ServedInit DEF InOrderInv
<1>2. InOrderInv /\ [Next]_vars => InOrderInv'
  <2> SUFFICES ASSUME InOrderInv, [Next]_vars PROVE InOrderInv'
    OBVIOUS
  <2>1. ServedInv /\ Shape /\ nextSeq \in Nat /\ MuInv /\ AloneInv /\ OrderInv
    BY DEF InOrderInv, ServedInv
  <2>2. QED
    BY <2>1, ServedStep, MuStep, AloneStep, OrderStep DEF InOrderInv
<1>3. InOrderInv => HistoryInOrder
  BY DEF InOrderInv, OrderInv, Sorted, HistoryInOrder
<1>4. QED
  BY <1>1, <1>2, <1>3, PTL DEF Spec
-----------------------------------------------------------------------------
(* A request and its answer                                                *)

Key(r) == [device |-> r.device, number |-> r.number]

\* What the devices have of a request and send for it is of the transaction
\* that runs, or its address and number are known to be left behind.
Known(r) == Key(r) \in fecGivenUp \/ (fecPc # "idle" /\ r = fecReq)
KnownRequest == {r \in Request : Known(r)}

Token == [answerTo : Request \cup {Nothing}, part : {"7E", "whole", "first", "second"}]
KnownToken == {t \in Token : t = Boundary \/ t.answerTo \in KnownRequest}

FecTypes ==
    /\ fecPc \in {"idle", "write", "read"} /\ fecCount \in Nat
    /\ fecPc # "idle" => fecReq \in Request

FecInv ==
    /\ FecTypes
    /\ fecPending \in Seq(KnownRequest)
    /\ fecLine \in Seq(KnownToken) /\ fecBuf \in Seq(KnownToken)
    /\ AnswerIsForRequest

\* A nonempty set of numbers has a smallest.
LEMMA LeastOf ==
    ASSUME NEW S \in SUBSET Nat, S # {}
    PROVE  \E i \in S : \A j \in S : i <= j
<1>1. PICK i \in S : \A j \in S : <<j, i>> \notin OpToRel(<, Nat)
  BY NatLessThanWellFounded, WFMin, Zenon
<1>2. ASSUME NEW j \in S PROVE i <= j
  <2>1. j \in Nat /\ i \in Nat /\ ~(j < i)
    BY <1>1 DEF OpToRel
  <2> QED
    BY <2>1
<1> QED
  BY <1>2

LEMMA FecStart == FecInit => FecInv
<1> SUFFICES ASSUME FecInit PROVE FecInv
  OBVIOUS
<1>1. << >> \in Seq(KnownRequest) /\ << >> \in Seq(KnownToken)
  OBVIOUS
<1>2. FecTypes /\ AnswerIsForRequest
  BY DEF FecInit, FecTypes, AnswerIsForRequest
<1> QED
  BY <1>1, <1>2 DEF FecInit, FecInv

LEMMA BoundaryKnown == Boundary \in KnownToken
BY DEF Boundary, Body, KnownToken, Token

\* The second boundary comes behind the first.
LEMMA TwoBoundaries ==
    ASSUME NEW S, NEW s \in Seq(S), End(s) # 0
    PROVE  Start(s) \in 1 .. Len(s) /\ End(s) \in 1 .. Len(s)
<1>1. Boundaries(s) \in SUBSET Nat /\ Boundaries(s) \subseteq 1 .. Len(s)
  BY DEF Boundaries
<1>2. ASSUME NEW T \in SUBSET Nat, T # {} PROVE FirstOf(T) \in T
  <2>1. PICK i \in T : \A j \in T : i <= j
    BY <1>2, LeastOf
  <2> QED
    BY <1>2, <2>1 DEF FirstOf
<1>3. End(s) \in Boundaries(s)
  <2>1. Boundaries(s) \ {Start(s)} # {}
    BY DEF End, FirstOf
  <2>2. Boundaries(s) \ {Start(s)} \in SUBSET Nat
    BY <1>1
  <2> QED
    BY <1>2, <2>1, <2>2 DEF End
<1>4. Start(s) \in Boundaries(s)
  BY <1>1, <1>2, <1>3 DEF Start
<1> QED
  BY <1>1, <1>3, <1>4

\* What lies between two boundaries and is whole is an answer.
LEMMA FrameInside ==
    ASSUME NEW s \in Seq(KnownToken), End(s) # 0, IsFrame(s)
    PROVE  s[Start(s) + 1].answerTo \in KnownRequest
<1>1. Start(s) \in 1 .. Len(s) /\ Start(s) + 2 \in 1 .. Len(s)
  BY TwoBoundaries DEF IsFrame
<1>2. Start(s) + 1 \in 1 .. Len(s)
  BY <1>1
<1>3. s[Start(s) + 1] \in KnownToken /\ s[Start(s) + 1].part = "whole"
  BY <1>2 DEF IsFrame
<1> QED
  BY <1>3 DEF KnownToken, Boundary, Body

\* Everything that is left when a transaction ends, or an attempt gives up,
\* is known by its address and number.
LEMMA AllLeftBehind ==
    ASSUME FecInv,
           \/ fecPending' = fecPending
           \/ fecPending' = Append(fecPending, fecReq) /\ fecPc = "write",
           fecLine' \in Seq(KnownToken), fecGivenUp' = fecGivenUp \cup LeftBehind
    PROVE  fecPending' \in Seq(KnownRequest') /\ fecLine' \in Seq(KnownToken')
<1>1. fecPending' \in Seq(Request)
  <2>1. fecPending \in Seq(Request)
    BY DEF FecInv, KnownRequest
  <2>2. CASE fecPending' = fecPending
    BY <2>1, <2>2
  <2>3. CASE fecPending' = Append(fecPending, fecReq) /\ fecPc = "write"
    BY <2>1, <2>3 DEF FecInv, FecTypes
  <2> QED
    BY <2>2, <2>3
<1>2. ASSUME NEW i \in 1 .. Len(fecPending') PROVE fecPending'[i] \in KnownRequest'
  <2>1. fecPending'[i] \in Request
    BY <1>1
  <2>2. fecPending'[i] \in Range(fecPending')
    BY <1>1 DEF Range
  <2>3. Key(fecPending'[i]) \in fecGivenUp'
    BY <2>2 DEF LeftBehind, Key
  <2> QED
    BY <2>1, <2>3 DEF KnownRequest, Known, Key
<1>3. ASSUME NEW i \in 1 .. Len(fecLine') PROVE fecLine'[i] \in KnownToken'
  <2>1. fecLine'[i] \in KnownToken
    OBVIOUS
  <2>2. CASE fecLine'[i] = Boundary
    BY <2>1, <2>2 DEF KnownToken, Token, Boundary, Body, Request
  <2>3. CASE fecLine'[i] # Boundary
    <3>1. i \in DOMAIN fecLine' \ Boundaries(fecLine')
      BY <2>3 DEF Boundaries
    <3>2. Key(fecLine'[i].answerTo) \in fecGivenUp'
      BY <3>1 DEF LeftBehind, Key
    <3>3. fecLine'[i] \in Token /\ fecLine'[i].answerTo \in Request
      BY <2>1, <2>3 DEF KnownToken, KnownRequest
    <3>4. fecLine'[i].answerTo \in KnownRequest'
      BY <3>2, <3>3 DEF KnownRequest, Known, Key
    <3> QED
      BY <3>3, <3>4 DEF KnownToken, Token, Request
  <2> QED
    BY <2>2, <2>3
<1>4. fecPending' \in Seq(KnownRequest')
  BY <1>1, <1>2
<1>5. fecLine' \in Seq(KnownToken')
  BY <1>3
<1> QED
  BY <1>4, <1>5

\* An attempt that fails: the next one, or the error.
LEMMA FecFailed ==
    ASSUME FecInv, AttemptFails, fecPc \in {"write", "read"}, fecPending' = fecPending,
           fecLine' \in Seq(KnownToken), fecCount' = fecCount
    PROVE  FecInv'
<1>1. fecPending' \in Seq(KnownRequest') /\ fecLine' \in Seq(KnownToken')
  BY AllLeftBehind DEF AttemptFails
<1>2. fecBuf' = << >>
  BY DEF AttemptFails, Returns
<1>3. FecTypes'
  <2>1. CASE fecPc' = "write" /\ UNCHANGED <<fecReq, fecResult>>
    BY <2>1 DEF FecInv, FecTypes, Request
  <2>2. CASE Returns(Nothing)
    BY <2>2 DEF Returns, FecInv, FecTypes, Request
  <2> QED
    BY <2>1, <2>2 DEF AttemptFails
<1>4. AnswerIsForRequest'
  <2>1. CASE fecPc' = "write" /\ UNCHANGED <<fecReq, fecResult>>
    BY <2>1 DEF FecInv, AnswerIsForRequest, AttemptFails
  <2>2. CASE Returns(Nothing)
    BY <2>2 DEF Returns, AnswerIsForRequest
  <2> QED
    BY <2>1, <2>2 DEF AttemptFails
<1> QED
  BY <1>1, <1>2, <1>3, <1>4 DEF FecInv

\* A frame ends the transaction where it matches the request: then it is the
\* answer to it, or to another with the same address and number.
LEMMA FecAccepted ==
    ASSUME FecInv, fecPc = "read", NEW r \in KnownRequest, Accept(r),
           fecPending' = fecPending, fecLine' \in Seq(KnownToken), fecCount' = fecCount
    PROVE  FecInv'
<1>1. CASE AttemptFails
  BY <1>1, FecFailed
<1>2. CASE r.device = fecReq.device /\ r.number = fecReq.number /\ Returns(r) /\ fecGivenUp' = fecGivenUp \cup LeftBehind
  <2>1. fecPending' \in Seq(KnownRequest') /\ fecLine' \in Seq(KnownToken')
    BY <1>2, AllLeftBehind
  <2>2. fecPc' = "idle" /\ fecBuf' = << >> /\ fecResult' = [req |-> fecReq, answerTo |-> r]
    BY <1>2 DEF Returns
  <2>3. FecTypes' /\ fecBuf' \in Seq(KnownToken')
    BY <2>2 DEF FecInv, FecTypes
  <2>4. r = fecReq \/ [device |-> fecReq.device, number |-> fecReq.number] \in fecGivenUp'
    BY <1>2 DEF KnownRequest, Known, Key
  <2>5. AnswerIsForRequest'
    BY <2>2, <2>4 DEF AnswerIsForRequest
  <2> QED
    BY <2>1, <2>2, <2>3, <2>5 DEF FecInv
<1> QED
  BY <1>1, <1>2 DEF Accept

\* A step that leaves the transaction and what is left behind alone: what was
\* known stays known.
LEMMA FecQuiet ==
    ASSUME FecInv, UNCHANGED <<fecGivenUp, fecReq, fecResult, fecCount>>, fecPc # "idle", fecPc' \in {"write", "read"},
           fecPending' \in Seq(KnownRequest), fecLine' \in Seq(KnownToken), fecBuf' \in Seq(KnownToken)
    PROVE  FecInv'
<1>1. KnownRequest' = KnownRequest
  BY DEF KnownRequest, Known, Key, Request
<1>2. KnownToken' = KnownToken
  BY <1>1 DEF KnownToken, Token, Boundary, Body, Request
<1>3. FecTypes' /\ AnswerIsForRequest'
  BY DEF FecInv, FecTypes, AnswerIsForRequest, Request
<1> QED
  BY <1>1, <1>2, <1>3 DEF FecInv

LEMMA FecReadStep ==
    ASSUME FecInv, NEW n \in 1 .. MaxLine, ReadPort(n)
    PROVE  FecInv'
<1> DEFINE s == fecBuf \o SubSeq(fecLine, 1, n)
<1>1. /\ fecPc = "read" /\ n <= Len(fecLine) /\ fecLine' = SubSeq(fecLine, n + 1, Len(fecLine))
      /\ fecPending' = fecPending /\ fecCount' = fecCount
  BY DEF ReadPort
<1>2. s \in Seq(KnownToken) /\ fecLine' \in Seq(KnownToken)
  BY <1>1 DEF FecInv
<1>3. \/ AttemptFails \/ GoOn(s)
      \/ End(s) # 0 /\ IsFrame(s) /\ Accept(s[Start(s) + 1].answerTo)
      \/ GoOn(SubSeq(s, End(s) + 1, Len(s))) /\ End(s) # 0
  BY DEF ReadPort
<1> HIDE DEF s
<1>4. CASE AttemptFails
  BY <1>1, <1>2, <1>4, FecFailed
<1>5. ASSUME NEW t \in Seq(KnownToken), GoOn(t) PROVE FecInv'
  BY <1>1, <1>2, <1>5, FecQuiet DEF GoOn, FecInv
<1>6. CASE End(s) # 0 /\ IsFrame(s) /\ Accept(s[Start(s) + 1].answerTo)
  <2>1. s[Start(s) + 1].answerTo \in KnownRequest
    BY <1>2, <1>6, FrameInside
  <2> QED
    BY <1>1, <1>2, <1>6, <2>1, FecAccepted
<1>7. CASE GoOn(SubSeq(s, End(s) + 1, Len(s))) /\ End(s) # 0
  <2>1. SubSeq(s, End(s) + 1, Len(s)) \in Seq(KnownToken)
    BY <1>2, <1>7, TwoBoundaries
  <2> QED
    BY <1>5, <1>7, <2>1
<1> QED
  BY <1>2, <1>3, <1>4, <1>5, <1>6, <1>7

\* The tokens of an answer, and of one that noise has cut, are of its request.
LEMMA TokensKnown ==
    ASSUME NEW r \in KnownRequest, NEW tokens \in {Whole(r), Cut(r)}
    PROVE  /\ tokens \in Seq(KnownToken)
           /\ \A i \in DOMAIN tokens : RemoveAt(tokens, i) \in Seq(KnownToken)
<1>1. \A part \in {"whole", "first", "second"} : Body(r, part) \in KnownToken
  BY DEF Body, KnownToken, Token, KnownRequest
<1>2. tokens \in Seq(KnownToken)
  <2>1. CASE tokens = <<Boundary, Body(r, "whole"), Boundary>>
    BY <2>1, <1>1, BoundaryKnown
  <2>2. CASE tokens = <<Boundary, Body(r, "first"), Boundary, Body(r, "second"), Boundary>>
    BY <2>2, <1>1, BoundaryKnown
  <2> QED
    BY <2>1, <2>2 DEF Whole, Cut
<1>3. ASSUME NEW i \in DOMAIN tokens PROVE RemoveAt(tokens, i) \in Seq(KnownToken)
  BY <1>2 DEF RemoveAt
<1> QED
  BY <1>2, <1>3

\* What the devices send, they send for what is known.
LEMMA FecEmitted ==
    ASSUME FecInv, NEW tokens \in Seq(KnownToken), Emit(tokens), fecPending' \in Seq(KnownRequest)
    PROVE  FecInv'
<1>1. fecLine' \in Seq(KnownToken)
  BY DEF Emit, FecInv
<1>2. UNCHANGED <<fecPc, fecReq, fecBuf, fecResult, fecCount, fecGivenUp>>
  BY DEF Emit
<1>3. KnownRequest' = KnownRequest
  BY <1>2 DEF KnownRequest, Known, Key, Request
<1>4. KnownToken' = KnownToken
  BY <1>3 DEF KnownToken, Token, Boundary, Body, Request
<1> QED
  BY <1>1, <1>2, <1>3, <1>4 DEF FecInv, FecTypes, AnswerIsForRequest, Request

LEMMA FecWriteStep == ASSUME FecInv, Write PROVE FecInv'
<1>1. /\ fecPc = "write" /\ fecLine' = fecLine /\ fecCount' = fecCount /\ fecReq \in KnownRequest
      /\ (fecPending' = fecPending \/ fecPending' = Append(fecPending, fecReq))
  BY DEF Write, FecInv, FecTypes, KnownRequest, Known
<1>2. fecPending' \in Seq(KnownRequest)
  BY <1>1 DEF FecInv
<1>3. CASE fecPc' = "read" /\ UNCHANGED <<fecReq, fecLeft, fecBuf, fecResult, fecGivenUp>>
  BY <1>1, <1>2, <1>3, FecQuiet DEF FecInv
<1>4. CASE Returns(Nothing) /\ fecGivenUp' = fecGivenUp \cup LeftBehind
  <2>1. fecPending' \in Seq(KnownRequest') /\ fecLine' \in Seq(KnownToken')
    BY <1>1, <1>4, AllLeftBehind DEF FecInv
  <2>2. fecPc' = "idle" /\ fecBuf' = << >> /\ fecResult'.answerTo = Nothing
    BY <1>4 DEF Returns
  <2> QED
    BY <1>1, <2>1, <2>2 DEF FecInv, FecTypes, AnswerIsForRequest
<1> QED
  BY <1>3, <1>4 DEF Write

\* Between transactions everything that is on its way was left behind.
LEMMA FecBeginStep ==
    ASSUME FecInv, NEW d \in Devices, NEW number \in Numbers, NEW answer \in BOOLEAN, NEW retries,
           Begin(d, number, answer, retries), MaxRequests \in Nat
    PROVE  FecInv'
<1>1. /\ fecPc = "idle" /\ fecPc' = "write" /\ fecResult' = Nothing /\ fecCount' = fecCount + 1 /\ fecCount < MaxRequests
      /\ fecReq' = [device |-> d, number |-> number, id |-> fecCount + 1, answer |-> answer]
      /\ UNCHANGED <<fecBuf, fecLine, fecPending, fecGivenUp>>
  BY DEF Begin
<1>2. FecTypes'
  BY <1>1 DEF FecInv, FecTypes, Request
<1>3. KnownRequest \subseteq KnownRequest'
  BY <1>1 DEF KnownRequest, Known, Key, Request
<1>4. KnownToken \subseteq KnownToken'
  BY <1>3 DEF KnownToken, Token, Boundary, Body, Request
<1>5. fecPending' \in Seq(KnownRequest') /\ fecLine' \in Seq(KnownToken') /\ fecBuf' \in Seq(KnownToken')
  BY <1>1, <1>3, <1>4 DEF FecInv
<1> QED
  BY <1>1, <1>2, <1>5 DEF FecInv, AnswerIsForRequest

LEMMA FecStep == FecInv /\ [FecNext]_fecVars => FecInv'
<1> SUFFICES ASSUME FecInv, [FecNext]_fecVars PROVE FecInv'
  OBVIOUS
<1>1. CASE UNCHANGED fecVars
  <2>1. KnownRequest' = KnownRequest
    BY <1>1 DEF fecVars, KnownRequest, Known, Key, Request
  <2>2. KnownToken' = KnownToken
    BY <2>1 DEF KnownToken, Token, Boundary, Body, Request
  <2> QED
    BY <1>1, <2>1, <2>2 DEF fecVars, FecInv, FecTypes, AnswerIsForRequest, Request
<1>2. ASSUME NEW d \in Devices, NEW number \in Numbers, NEW answer \in BOOLEAN, NEW retries \in 0 .. RetryLimit,
             Begin(d, number, answer, retries)
      PROVE  FecInv'
  BY <1>2, FecBeginStep, RequestAssumption
<1>3. CASE Write
  BY <1>3, FecWriteStep
<1>4. CASE WriteFails \/ ReadFails
  BY <1>4, FecFailed DEF WriteFails, ReadFails, FecInv
<1>5. ASSUME NEW n \in 1 .. MaxLine, ReadPort(n) PROVE FecInv'
  BY <1>5, FecReadStep
<1>6. CASE Answer
  <2>1. fecPending # << >> /\ fecPending' = Tail(fecPending) /\ fecPending \in Seq(KnownRequest)
    BY <1>6 DEF Answer, FecInv
  <2>2. Head(fecPending) \in KnownRequest /\ fecPending' \in Seq(KnownRequest)
    BY <2>1
  <2>3. PICK tokens \in {Whole(Head(fecPending)), Cut(Head(fecPending))} :
            Emit(tokens) \/ \E i \in DOMAIN tokens : Emit(RemoveAt(tokens, i))
    BY <1>6 DEF Answer
  <2> QED
    BY <2>2, <2>3, TokensKnown, FecEmitted
<1>7. CASE Noise
  <2>1. <<Boundary>> \in Seq(KnownToken)
    BY BoundaryKnown
  <2> QED
    BY <1>7, <2>1, FecEmitted DEF Noise, FecInv
<1> QED
  BY <1>1, <1>2, <1>3, <1>4, <1>5, <1>6, <1>7 DEF FecNext

\* AnswerIsForRequest of the FECbus master, for any devices, message numbers
\* and retries, any number of requests and any length of the line: sendRequest
\* returns the answer to what it asked, or one to a request with the same
\* address and message number that an attempt left behind (fecbus/session.go,
\* sendRequest, readFrame and matchesAnswer).
THEOREM FecAnswerIsForRequest == FecSpec => []AnswerIsForRequest
<1>1. FecSpec => []FecInv
  BY FecStart, FecStep, PTL DEF FecSpec
<1>2. FecInv => AnswerIsForRequest
  BY DEF FecInv
<1> QED
  BY <1>1, <1>2, PTL
=============================================================================
