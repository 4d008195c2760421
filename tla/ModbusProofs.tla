---------------------------- MODULE ModbusProofs ----------------------------
(***************************************************************************)
(* Modbus for every value of the constants.  A scan of registers tiles its *)
(* range, for any number of addresses and any device.  A transaction       *)
(* returns the answer to what it asked.  The slave that a session knows is *)
(* the one that runs, with any clients, loops and units.                   *)
(*                                                                         *)
(* The invariant of the scan adds to its two properties where the loop     *)
(* variable stands: at the end of the last chunk, and never past the end   *)
(* of the request.                                                         *)
(***************************************************************************)
EXTENDS RegisterScan, ModbusSlave, ModbusMaster, SequenceTheorems, WellFoundedInduction, TLAPS

\* Where the next chunk begins
Frontier == IF ranges = << >> THEN first ELSE EndOf(ranges[Len(ranges)])

ScanInv ==
    /\ ScanTypeOK
    /\ first <= address /\ address <= last
    /\ ~done => address = Frontier
    /\ Tiles
    /\ FoundExactly

-----------------------------------------------------------------------------
(* Arithmetic of one chunk                                                 *)

\* A uint16 that does not overflow is left alone.
LEMMA ModSmall == ASSUME NEW x \in Nat, NEW n \in Nat, 0 < n, x < n PROVE x % n = x
  BY SMT

\* The address after the last one is zero.
LEMMA ModSelf == ASSUME NEW n \in Nat, 0 < n PROVE n % n = 0
  BY SMT

\* A chunk is not empty, ends within the request, and is recognised as the
\* last one if and only if it ends at the end of the request.
LEMMA OneChunk ==
    ASSUME ScanTypeOK, first <= address, address <= last
    PROVE  /\ Quantity \in 1 .. MaxSize
           /\ address + Quantity <= last + 1
           /\ LastChunk => address + Quantity = last + 1
           /\ ~LastChunk => Plus(address, Quantity) = address + Quantity /\ address + Quantity <= last
<1>1. /\ address \in Nat /\ last \in Nat /\ Space \in Nat /\ last < Space /\ 0 < Space
      /\ size \in 1 .. MaxSize /\ MaxSize \in Nat
  BY SpaceAssumption DEF ScanTypeOK, Address
<1>2. /\ Quantity \in 1 .. MaxSize
      /\ address + Quantity <= last + 1
  BY <1>1 DEF Quantity, Remaining
<1> HIDE DEF Quantity
<1>3. CASE address + Quantity < Space
  <2>1. Plus(address, Quantity) = address + Quantity
    BY <1>1, <1>2, <1>3, ModSmall DEF Plus
  <2> QED
    BY <1>1, <1>2, <2>1 DEF LastChunk
<1>4. CASE address + Quantity = Space
  <2>1. Plus(address, Quantity) = 0
    BY <1>1, <1>4, ModSelf DEF Plus
  <2> QED
    BY <1>1, <1>2, <1>4, <2>1 DEF LastChunk
<1> QED
  BY <1>1, <1>2, <1>3, <1>4

\* The registers of a chunk that does not wrap around
LEMMA ChunkRegisters ==
    ASSUME ScanTypeOK, NEW a \in Nat, NEW n \in Nat, a + n <= Space
    PROVE  InChunk(a, n) = {x \in nonZero : a <= x /\ x < a + n}
<1>1. Space \in Nat /\ 0 < Space /\ \A x \in nonZero : x \in Nat
  BY SpaceAssumption DEF ScanTypeOK, Address
<1>2. \A i \in 0 .. n - 1 : Plus(a, i) = a + i
  BY <1>1, ModSmall DEF Plus
<1>3. \A x \in nonZero : a <= x /\ x < a + n => x - a \in 0 .. n - 1 /\ Plus(a, x - a) = x
  BY <1>1, <1>2
<1> QED
  BY <1>1, <1>2, <1>3 DEF InChunk

-----------------------------------------------------------------------------
(* The invariant                                                           *)

LEMMA ScanStart == ScanInit => ScanInv
<1> SUFFICES ASSUME ScanInit PROVE ScanInv
  OBVIOUS
<1>1. ScanTypeOK
  <2>1. PICK requested \in Address : size = ChunkSize(requested)
    BY DEF ScanInit
  <2>2. size \in 1 .. MaxSize
    BY <2>1, SpaceAssumption DEF ChunkSize, Address
  <2>3. ranges \in Seq([address : Address, quantity : 1 .. MaxSize, outcome : Outcome])
    BY DEF ScanInit
  <2>4. /\ first \in Address /\ last \in Address /\ first <= last /\ nonZero \subseteq Address
        /\ address \in Address /\ found \subseteq Address /\ done \in BOOLEAN
    BY DEF ScanInit
  <2> QED
    BY <2>2, <2>3, <2>4 DEF ScanTypeOK
<1>2. Tiles /\ FoundExactly
  BY DEF ScanInit, Tiles, FoundExactly
<1> QED
  BY <1>1, <1>2 DEF ScanInv, ScanInit, Frontier, ScanTypeOK, Address

\* One iteration of the loop preserves the invariant.
LEMMA ScanStep ==
    ASSUME ScanInv, NEW outcome \in Outcome, ScanChunk(outcome)
    PROVE  ScanInv'
<1> DEFINE r == [address |-> address, quantity |-> Quantity, outcome |-> outcome]
<1> DEFINE n == Len(ranges)
<1>1. /\ ScanTypeOK /\ first <= address /\ address <= last /\ ~done
      /\ address = Frontier /\ Tiles /\ FoundExactly
      /\ ranges' = Append(ranges, r)
      /\ UNCHANGED <<first, last, size, nonZero>>
  BY DEF ScanInv, ScanChunk
<1>2. /\ Quantity \in 1 .. MaxSize
      /\ address + Quantity <= last + 1
      /\ LastChunk => address + Quantity = last + 1
      /\ ~LastChunk => Plus(address, Quantity) = address + Quantity /\ address + Quantity <= last
  BY <1>1, OneChunk
<1>3. /\ Space \in Nat /\ MaxSize \in Nat /\ address \in Nat /\ last \in Nat /\ first \in Nat
      /\ last < Space /\ first < Space /\ address < Space
  BY <1>1, SpaceAssumption DEF ScanTypeOK, Address
<1>4. /\ n \in Nat
      /\ ranges \in Seq([address : Address, quantity : 1 .. MaxSize, outcome : Outcome])
      /\ r \in [address : Address, quantity : 1 .. MaxSize, outcome : Outcome]
  BY <1>1, <1>2 DEF ScanTypeOK
<1> HIDE DEF Quantity, LastChunk
<1>5. /\ Len(ranges') = n + 1 /\ DOMAIN ranges' = 1 .. n + 1 /\ DOMAIN ranges = 1 .. n
      /\ ranges' \in Seq([address : Address, quantity : 1 .. MaxSize, outcome : Outcome])
      /\ ranges'[n + 1] = r
      /\ \A k \in 1 .. n : ranges'[k] = ranges[k]
  BY <1>1, <1>4
<1>6. ranges = << >> <=> n = 0
  BY <1>4
<1>7. EndOf(r) = address + Quantity /\ r.address = address /\ r.outcome = outcome
  BY DEF EndOf
<1> HIDE DEF r, n
<1>8. address' = IF LastChunk THEN address ELSE address + Quantity
  BY <1>2 DEF ScanChunk
<1>9. done' = LastChunk
  BY DEF ScanChunk
<1>10. first' <= address' /\ address' <= last' /\ address' \in Address
  BY <1>1, <1>2, <1>3, <1>8 DEF Address
<1>11. Frontier' = address + Quantity
  BY <1>5, <1>7, <1>4, <1>6 DEF Frontier, EndOf
<1>12. ~done' => address' = Frontier'
  BY <1>8, <1>9, <1>11
<1>13. Tiles'
  <2>1. \A k \in 1 .. n : ranges[k].address = IF k = 1 THEN first ELSE EndOf(ranges[k - 1])
    BY <1>1, <1>5 DEF Tiles
  <2>2. ASSUME NEW k \in 1 .. n + 1
        PROVE  ranges'[k].address = IF k = 1 THEN first ELSE EndOf(ranges'[k - 1])
    <3>1. CASE k <= n
      BY <3>1, <2>1, <1>4, <1>5 DEF EndOf
    <3>2. CASE k = n + 1
      <4>1. CASE n = 0
        BY <4>1, <3>2, <1>1, <1>5, <1>6, <1>7 DEF Frontier
      <4>2. CASE n # 0
        <5>1. Frontier = EndOf(ranges[n]) /\ n \in 1 .. n /\ k - 1 = n
          BY <4>2, <3>2, <1>4, <1>6 DEF Frontier, n
        <5> QED
          BY <5>1, <4>2, <3>2, <1>1, <1>4, <1>5, <1>7 DEF EndOf
      <4> QED
        BY <4>1, <4>2
    <3> QED
      BY <3>1, <3>2, <1>4
  <2>3. done' => ranges' # << >> /\ EndOf(ranges'[n + 1]) = last + 1
    <3>1. ranges' # << >>
      BY <1>4, <1>5
    <3> QED
      BY <3>1, <1>2, <1>5, <1>7, <1>9 DEF EndOf
  <2> QED
    BY <2>2, <2>3, <1>1, <1>5 DEF Tiles, EndOf
<1>14. FoundExactly'
  <2> DEFINE Old == {a \in nonZero : \E k \in 1 .. n : ranges[k].outcome = "values" /\ Covers(k, a)}
  <2> DEFINE New == {a \in nonZero : outcome = "values" /\ address <= a /\ a < address + Quantity}
  <2>1. found = Old
    BY <1>1, <1>5 DEF FoundExactly
  <2>2. found' = found \cup New
    <3>1. InChunk(address, Quantity) = {x \in nonZero : address <= x /\ x < address + Quantity}
      BY <1>1, <1>2, <1>3, ChunkRegisters
    <3>2. found' = IF outcome = "values" THEN found \cup InChunk(address, Quantity) ELSE found
      BY DEF ScanChunk
    <3> QED
      BY <3>1, <3>2
  <2> DEFINE Holds(k, a) ==
        ranges'[k].outcome = "values" /\ ranges'[k].address <= a /\ a < EndOf(ranges'[k])
  <2>3. ASSUME NEW a \in nonZero
        PROVE  (\E k \in 1 .. n + 1 : Holds(k, a)) <=> a \in Old \cup New
    <3>1. \A k \in 1 .. n : Holds(k, a) <=> ranges[k].outcome = "values" /\ Covers(k, a)
      BY <1>5 DEF Covers
    <3>2. Holds(n + 1, a) <=> outcome = "values" /\ address <= a /\ a < address + Quantity
      BY <1>5, <1>7
    <3>3. \A k \in 1 .. n + 1 : k \in 1 .. n \/ k = n + 1
      BY <1>4
    <3>4. n + 1 \in 1 .. n + 1 /\ \A k \in 1 .. n : k \in 1 .. n + 1
      BY <1>4
    <3> HIDE DEF Holds
    <3>5. (\E k \in 1 .. n + 1 : Holds(k, a)) <=> Holds(n + 1, a) \/ \E k \in 1 .. n : Holds(k, a)
      BY <3>3, <3>4
    <3> QED
      BY <3>1, <3>2, <3>5
  <2>4. found' = {a \in nonZero : \E k \in 1 .. n + 1 : Holds(k, a)}
    <3> HIDE DEF Holds
    <3>1. Old \subseteq nonZero /\ New \subseteq nonZero
      OBVIOUS
    <3> HIDE DEF Old, New
    <3> QED
      BY <2>1, <2>2, <2>3, <3>1
  <2>5. FoundExactly' <=> found' = {a \in nonZero' : \E k \in DOMAIN ranges' : Holds(k, a)}
    BY DEF FoundExactly, Covers
  <2> QED
    BY <2>4, <2>5, <1>1, <1>5
<1>15. ScanTypeOK'
  <2>1. found' \subseteq nonZero /\ found' \subseteq Address
    BY <1>14, <1>1 DEF FoundExactly, ScanTypeOK
  <2>2. done' \in BOOLEAN
    BY <1>9 DEF LastChunk
  <2>3. /\ first \in Address /\ last \in Address /\ first <= last /\ size \in 1 .. MaxSize
        /\ nonZero \subseteq Address
    BY <1>1 DEF ScanTypeOK
  <2> QED
    BY <2>1, <2>2, <2>3, <1>1, <1>5, <1>10 DEF ScanTypeOK
<1> QED
  BY <1>10, <1>12, <1>13, <1>14, <1>15 DEF ScanInv

\* The invariant holds of every reachable state.
THEOREM ScanInductive == ScanSpec => []ScanInv
<1>1. ASSUME ScanInv, [ScanNext]_scanVars PROVE ScanInv'
  <2>1. CASE ScanNext
    <3>1. PICK outcome \in Outcome : ScanChunk(outcome)
      BY <2>1 DEF ScanNext
    <3> QED
      BY <1>1, <3>1, ScanStep
  <2>2. CASE UNCHANGED scanVars
    BY <1>1, <2>2 DEF scanVars, ScanInv, ScanTypeOK, Tiles, FoundExactly, Frontier, Covers, EndOf
  <2> QED
    BY <1>1, <2>1, <2>2
<1> QED
  BY <1>1, ScanStart, PTL DEF ScanSpec

\* scanRegisters reads every address of the request once and no other, also
\* at the end of the address space.
THEOREM ScanTiles == ScanSpec => []Tiles
  BY ScanInductive, PTL DEF ScanInv

\* What scanRegisters lists is exactly what is not zero in the chunks that
\* could be read.
THEOREM ScanFinds == ScanSpec => []FoundExactly
  BY ScanInductive, PTL DEF ScanInv

\* Both together: what the client of scanRegisters may rely on.
THEOREM Scans == ScanSpec => []ScansExactly
  BY ScanTiles, ScanFinds, PTL DEF ScansExactly


\* A nonempty set of numbers has a smallest.
LEMMA LeastOf ==
    ASSUME NEW S \in SUBSET Nat, S # {}
    PROVE  \E i \in S : \A j \in S : i <= j
<1>1. PICK i \in S : \A j \in S : <<j, i>> \notin OpToRel(<, Nat)
  BY NatLessThanWellFounded, WFMin, Zenon
<1>2. ASSUME NEW j \in S PROVE i <= j
  <2>1. j \in Nat /\ i \in Nat /\ ~(j < i)
    BY <1>1 DEF OpToRel
  <2> QED
    BY <2>1
<1> QED
  BY <1>2

-----------------------------------------------------------------------------
(* A transaction                                                           *)

PartOf(r, i) == [answerTo |-> r, part |-> i]

\* What a device answers to a request, in the parts that noise leaves of it
Parts(r) == {<< >>, <<PartOf(r, 1)>>, <<PartOf(r, 2)>>, <<PartOf(r, 1), PartOf(r, 2)>>}

\* While no attempt gave up on an answer, the line has what belongs to the
\* transaction: the request that the device has not answered, or what is left
\* of its answer; and nothing before the request is written and after the
\* transaction has returned.
LineIsMine ==
    ~late =>
        \/ pending = << >> /\ line = << >> /\ buf = << >>
        \/ pc = "read" /\ pending = <<req>> /\ line = << >> /\ buf = << >>
        \/ pc = "read" /\ pending = << >> /\ buf \o line \in Parts(req)

LineTypes ==
    /\ buf \in Seq(Part) /\ line \in Seq(Part)
    /\ pending \in Seq(Request) /\ pc \in {"idle", "write", "read"} /\ late \in BOOLEAN
    /\ pc # "idle" => req \in Request

LineInv == LineTypes /\ LineIsMine /\ AnswerIsForRequest

LEMMA LineStart == MasterInit => LineInv
<1> SUFFICES ASSUME MasterInit PROVE LineInv
  OBVIOUS
<1>1. << >> \in Seq(Part) /\ << >> \in Seq(Request)
  OBVIOUS
<1>2. LineTypes
  BY <1>1 DEF MasterInit, LineTypes
<1> QED
  BY <1>2 DEF MasterInit, LineInv, LineIsMine, AnswerIsForRequest

\* What is left of an answer is one part or two, of the request.
LEMMA PartsAre ==
    ASSUME NEW r, NEW x \in Parts(r)
    PROVE  Len(x) <= 2 /\ (Len(x) = 2 => x[1].answerTo = r)
<1>1. CASE x = << >>
  BY <1>1
<1>2. CASE x = <<PartOf(r, 1)>> \/ x = <<PartOf(r, 2)>>
  BY <1>2
<1>3. CASE x = <<PartOf(r, 1), PartOf(r, 2)>>
  BY <1>3 DEF PartOf
<1> QED
  BY <1>1, <1>2, <1>3 DEF Parts

\* A read moves what it takes from the line into the buffer.
LEMMA ReadMoves ==
    ASSUME NEW b \in Seq(Part), NEW l \in Seq(Part), NEW n \in Nat, n <= Len(l)
    PROVE  /\ b \o SubSeq(l, 1, n) \in Seq(Part) /\ SubSeq(l, n + 1, Len(l)) \in Seq(Part)
           /\ (b \o SubSeq(l, 1, n)) \o SubSeq(l, n + 1, Len(l)) = b \o l
<1> DEFINE s == b \o SubSeq(l, 1, n)
<1> DEFINE r == SubSeq(l, n + 1, Len(l))
<1>1. SubSeq(l, 1, n) \in Seq(Part) /\ Len(SubSeq(l, 1, n)) = n
  OBVIOUS
<1>2. \A i \in 1 .. n : SubSeq(l, 1, n)[i] = l[i]
  OBVIOUS
<1>3. r \in Seq(Part) /\ Len(r) = Len(l) - n
  OBVIOUS
<1>4. \A i \in 1 .. Len(l) - n : r[i] = l[n + i]
  OBVIOUS
<1>5. s \in Seq(Part) /\ Len(s) = Len(b) + n
  BY <1>1
<1>6. /\ \A i \in 1 .. Len(b) : s[i] = b[i]
      /\ \A i \in 1 .. n : s[Len(b) + i] = l[i]
  BY <1>1, <1>2
<1> HIDE DEF s, r
<1>8. s \o r \in Seq(Part) /\ Len(s \o r) = Len(b) + Len(l) /\ Len(b) \in Nat /\ Len(l) \in Nat
  <2>1. Len(b) \in Nat /\ Len(l) \in Nat
    OBVIOUS
  <2>2. s \o r \in Seq(Part) /\ Len(s \o r) = Len(s) + Len(r)
    BY <1>3, <1>5, ConcatProperties, Zenon
  <2>3. Len(s) + Len(r) = Len(b) + Len(l)
    BY <1>3, <1>5, <2>1
  <2>4. Len(s \o r) = Len(b) + Len(l)
    BY <2>2, <2>3, Zenon
  <2> QED
    BY <2>1, <2>2, <2>4, Zenon
<1>9. b \o l \in Seq(Part) /\ Len(b \o l) = Len(b) + Len(l)
  OBVIOUS
<1>10. ASSUME NEW i \in 1 .. Len(b) + Len(l) PROVE (s \o r)[i] = (b \o l)[i]
  <2>1. CASE i \in 1 .. Len(b)
    <3>1. (s \o r)[i] = s[i] /\ (b \o l)[i] = b[i]
      BY <2>1, <1>3, <1>5
    <3> QED
      BY <2>1, <3>1, <1>6
  <2>2. CASE i \in Len(b) + 1 .. Len(b) + n
    <3>1. i - Len(b) \in 1 .. n /\ i = Len(b) + (i - Len(b)) /\ i \in 1 .. Len(s)
      BY <2>2, <1>5, <1>8
    <3>2. (s \o r)[i] = s[i] /\ (b \o l)[i] = l[i - Len(b)]
      BY <2>2, <3>1, <1>3, <1>5
    <3>3. s[i] = l[i - Len(b)]
      BY <3>1, <1>6
    <3> QED
      BY <3>2, <3>3
  <2>3. CASE i \in Len(b) + n + 1 .. Len(b) + Len(l)
    <3>1. i - Len(s) \in 1 .. Len(l) - n /\ n + (i - Len(s)) = i - Len(b)
      BY <2>3, <1>5, <1>8
    <3>2. (s \o r)[i] = r[i - Len(s)]
      BY <2>3, <3>1, <1>3, <1>5
    <3>3. r[i - Len(s)] = l[i - Len(b)]
      BY <3>1, <1>4
    <3>4. (b \o l)[i] = l[i - Len(b)]
      BY <2>3
    <3> QED
      BY <3>2, <3>3, <3>4
  <2> QED
    BY <2>1, <2>2, <2>3, <1>8
<1>7. s \o r = b \o l
  BY <1>8, <1>9, <1>10, SeqEqual
<1> QED
  BY <1>3, <1>5, <1>7 DEF s, r

\* An attempt that fails leaves the line to the next one: empty, or with an
\* answer that comes late.
LEMMA FailedAttempt ==
    ASSUME LineInv, AttemptFails, pc \in {"write", "read"}, pending' = pending, line' \in Seq(Part)
    PROVE  LineInv'
<1> USE DEF LineInv
<1>1. buf' = << >> /\ late' = (late \/ pending # << >> \/ line' # << >>)
  BY DEF AttemptFails, TryAgain, Returns, GivesUp
<1>2. \/ pc' = "write" /\ req' = req /\ result' = result
      \/ pc' = "idle" /\ result'.answerTo = Nothing
  <2>1. CASE TryAgain
    BY <2>1 DEF TryAgain
  <2>2. CASE Returns(Nothing)
    BY <2>2 DEF Returns
  <2> QED
    BY <2>1, <2>2 DEF AttemptFails
<1>3. LineTypes'
  BY <1>1, <1>2 DEF LineTypes
<1>4. LineIsMine'
  BY <1>1 DEF LineIsMine
<1>5. AnswerIsForRequest'
  BY <1>1, <1>2 DEF AnswerIsForRequest, LineTypes
<1> QED
  BY <1>3, <1>4, <1>5

\* A frame that was read whole is the answer to the request, and nothing of
\* it is left on the line.
LEMMA WholeAnswer ==
    ASSUME LineInv, ~late, pc = "read", NEW n \in 1 .. MaxLine, n <= Len(line),
           NEW s, s = buf \o SubSeq(line, 1, n),
           NEW k \in Nat, k <= Len(s), IsFrame(SubSeq(s, 1, k))
    PROVE  /\ SubSeq(line, n + 1, Len(line)) = << >> /\ pending = << >>
           /\ s[1].answerTo = req
<1> DEFINE rest == SubSeq(line, n + 1, Len(line))
<1> USE DEF LineInv
<1>1. buf \in Seq(Part) /\ line \in Seq(Part) /\ n \in Nat
  BY DEF LineTypes
<1>2. s \in Seq(Part) /\ rest \in Seq(Part) /\ s \o rest = buf \o line
  <2>1. /\ buf \o SubSeq(line, 1, n) \in Seq(Part) /\ rest \in Seq(Part)
        /\ (buf \o SubSeq(line, 1, n)) \o rest = buf \o line
    BY <1>1, ReadMoves
  <2> QED
    BY <2>1
<1>3. k = 2
  BY <1>2 DEF IsFrame
<1>4. line # << >>
  BY <1>1
<1>5. pending = << >> /\ s \o rest \in Parts(req)
  BY <1>2, <1>4 DEF LineIsMine
<1> HIDE DEF rest
<1>6. Len(s) + Len(rest) = Len(s \o rest) /\ Len(s) \in Nat /\ Len(rest) \in Nat
  BY <1>2
<1>7. Len(s \o rest) <= 2
  BY <1>5, PartsAre
<1>8. Len(rest) = 0 /\ Len(s) = 2
  BY <1>3, <1>6, <1>7
<1>9. rest = << >>
  BY <1>2, <1>8
<1>10. s \in Parts(req)
  BY <1>2, <1>5, <1>9
<1>11. s[1].answerTo = req
  BY <1>8, <1>10, PartsAre
<1> QED
  BY <1>5, <1>9, <1>11 DEF rest

\* A frame that was decoded ends the transaction, or the attempt.
LEMMA Accepted ==
    ASSUME LineInv, pc = "read", NEW n \in 1 .. MaxLine, n <= Len(line),
           NEW s, s = buf \o SubSeq(line, 1, n), NEW k \in Nat, k <= Len(s), IsFrame(SubSeq(s, 1, k)),
           line' = SubSeq(line, n + 1, Len(line)), pending' = pending, Accept(s[1].answerTo)
    PROVE  LineInv'
<1> USE DEF LineInv
<1>1. line' \in Seq(Part)
  BY DEF LineTypes
<1>2. CASE AttemptFails
  BY <1>1, <1>2, FailedAttempt
<1>3. CASE Returns(s[1].answerTo) /\ UNCHANGED late
  <2>1. /\ pc' = "idle" /\ req' = Nothing /\ buf' = << >> /\ late' = late
        /\ result' = [req |-> req, answerTo |-> s[1].answerTo]
    BY <1>3 DEF Returns
  <2>2. LineTypes'
    BY <1>1, <2>1 DEF LineTypes
  <2>3. ~late => line' = << >> /\ pending = << >> /\ s[1].answerTo = req
    BY WholeAnswer
  <2>4. LineIsMine'
    BY <2>1, <2>3 DEF LineIsMine
  <2>5. AnswerIsForRequest'
    BY <2>1, <2>3 DEF AnswerIsForRequest
  <2> QED
    BY <2>2, <2>4, <2>5
<1> QED
  BY <1>2, <1>3 DEF Accept

\* readFrame goes on with what it has read.
LEMMA GoesOn ==
    ASSUME LineInv, pc = "read", NEW n \in 1 .. MaxLine, n <= Len(line),
           NEW s, s = buf \o SubSeq(line, 1, n),
           line' = SubSeq(line, n + 1, Len(line)), buf' = s,
           UNCHANGED <<pending, pc, req, result, late>>
    PROVE  LineInv'
<1> USE DEF LineInv
<1>1. buf \in Seq(Part) /\ line \in Seq(Part) /\ n \in Nat
  BY DEF LineTypes
<1>2. s \in Seq(Part) /\ line' \in Seq(Part) /\ s \o line' = buf \o line
  <2> DEFINE rest == SubSeq(line, n + 1, Len(line))
  <2>1. /\ buf \o SubSeq(line, 1, n) \in Seq(Part) /\ rest \in Seq(Part)
        /\ (buf \o SubSeq(line, 1, n)) \o rest = buf \o line
    BY <1>1, ReadMoves
  <2> QED
    BY <2>1
<1>3. LineTypes' /\ AnswerIsForRequest'
  BY <1>2 DEF LineTypes, AnswerIsForRequest
<1>4. line # << >>
  BY <1>1
<1>5. LineIsMine'
  BY <1>2, <1>4 DEF LineIsMine
<1> QED
  BY <1>3, <1>5

LEMMA EndInside ==
    ASSUME NEW s \in Seq(Part), FrameEnd(s) # 0
    PROVE  FrameEnd(s) \in Nat /\ FrameEnd(s) <= Len(s)
<1> DEFINE ends == {i \in DOMAIN s : s[i].part = 2}
<1>1. ends \in SUBSET Nat /\ ends # {}
  BY DEF FrameEnd
<1>2. PICK i \in ends : \A j \in ends : i <= j
  BY <1>1, LeastOf
<1>3. i \in DOMAIN s /\ s[i].part = 2 /\ \A j \in 1 .. i - 1 : s[j].part # 2
  BY <1>2
<1>4. FrameEnd(s) \in DOMAIN s
  BY <1>3 DEF FrameEnd
<1> QED
  BY <1>4

LEMMA ReadStep ==
    ASSUME LineInv, NEW n \in 1 .. MaxLine, ReadPort(n)
    PROVE  LineInv'
<1> DEFINE s == buf \o SubSeq(line, 1, n)
<1>1. /\ pc = "read" /\ n <= Len(line) /\ line' = SubSeq(line, n + 1, Len(line)) /\ pending' = pending
      /\ line' \in Seq(Part) /\ s \in Seq(Part) /\ n \in Nat
  <2>1. /\ pc = "read" /\ n <= Len(line) /\ line' = SubSeq(line, n + 1, Len(line)) /\ pending' = pending
    BY DEF ReadPort
  <2> QED
    BY <2>1, ReadMoves DEF LineInv, LineTypes
<1>2. AttemptFails \/ DecodeRTU(s) \/ DecodeASCII(s)
  BY DEF ReadPort
<1>0. s = buf \o SubSeq(line, 1, n)
  OBVIOUS
<1> HIDE DEF s
<1>3. CASE AttemptFails
  BY <1>1, <1>3, FailedAttempt
<1>4. CASE buf' = s /\ UNCHANGED <<pc, req, attempt, result, late>>
  BY <1>0, <1>1, <1>4, GoesOn
<1>5. CASE IsFrame(s) /\ Accept(s[1].answerTo)
  <2>1. SubSeq(s, 1, Len(s)) = s /\ Len(s) \in Nat
    <3>1. SubSeq(s, 1, Len(s)) \in Seq(Part) /\ Len(SubSeq(s, 1, Len(s))) = Len(s)
          /\ \A i \in 1 .. Len(s) : SubSeq(s, 1, Len(s))[i] = s[i]
      BY <1>1
    <3> QED
      BY <1>1, <3>1, SeqEqual
  <2>2. IsFrame(SubSeq(s, 1, Len(s)))
    BY <1>5, <2>1
  <2>3. PICK k \in Nat : k <= Len(s) /\ IsFrame(SubSeq(s, 1, k))
    BY <2>1, <2>2
  <2> QED
    BY <1>0, <1>1, <1>5, <2>3, Accepted
<1>6. CASE FrameEnd(s) # 0 /\ IsFrame(SubSeq(s, 1, FrameEnd(s))) /\ Accept(s[1].answerTo)
  <2>1. FrameEnd(s) \in Nat /\ FrameEnd(s) <= Len(s)
    BY <1>1, <1>6, EndInside
  <2> QED
    BY <1>0, <1>1, <1>6, <2>1, Accepted
<1> QED
  BY <1>2, <1>3, <1>4, <1>5, <1>6 DEF DecodeRTU, DecodeASCII

LEMMA LineStep == LineInv /\ [MasterNext]_masterVars => LineInv'
<1> SUFFICES ASSUME LineInv, [MasterNext]_masterVars PROVE LineInv'
  OBVIOUS
<1>1. CASE UNCHANGED masterVars
  BY <1>1 DEF masterVars, LineInv, LineTypes, LineIsMine, AnswerIsForRequest
<1>2. ASSUME NEW r \in Request, Begin(r) PROVE LineInv'
  BY <1>2 DEF Begin, LineInv, LineTypes, LineIsMine, AnswerIsForRequest
<1>3. ASSUME NEW r \in Request, Refused(r) PROVE LineInv'
  BY <1>3 DEF Refused, LineInv, LineTypes, LineIsMine, AnswerIsForRequest
<1>4. CASE Write
  <2>1. CASE pending' = Append(pending, req)
    <3>1. ~late => pending = << >> /\ line = << >> /\ buf = << >>
      BY <1>4 DEF Write, LineInv, LineIsMine
    <3>2. pending' \in Seq(Request)
      BY <1>4, <2>1 DEF Write, LineInv, LineTypes
    <3>3. ~late => pending' = <<req>>
      BY <2>1, <3>1
    <3> QED
      BY <1>4, <3>1, <3>2, <3>3 DEF Write, LineInv, LineTypes, LineIsMine, AnswerIsForRequest
  <2>2. CASE UNCHANGED pending
    BY <1>4, <2>2 DEF Write, LineInv, LineTypes, LineIsMine, AnswerIsForRequest
  <2> QED
    BY <1>4, <2>1, <2>2 DEF Write
<1>5. CASE WriteFails \/ ReadFails
  <2>1. AttemptFails /\ pc \in {"write", "read"} /\ pending' = pending /\ line' = line
    BY <1>5 DEF WriteFails, ReadFails
  <2> QED
    BY <2>1, FailedAttempt DEF LineInv, LineTypes
<1>6. ASSUME NEW n \in 1 .. MaxLine, ReadPort(n) PROVE LineInv'
  BY <1>6, ReadStep
<1>7. ASSUME NEW parts \in {<< 1, 2 >>, << 1 >>, << 2 >>}, Answer(parts) PROVE LineInv'
  <2> DEFINE tokens == [i \in DOMAIN parts |-> [answerTo |-> Head(pending), part |-> parts[i]]]
  <2>1. Head(pending) \in Request /\ pending # << >>
    BY <1>7 DEF Answer, LineInv, LineTypes
  <2>2. tokens \in {<<PartOf(Head(pending), 1), PartOf(Head(pending), 2)>>, <<PartOf(Head(pending), 1)>>,
                    <<PartOf(Head(pending), 2)>>}
    BY DEF PartOf
  <2>3. tokens \in Seq(Part)
    <3>1. PartOf(Head(pending), 1) \in Part /\ PartOf(Head(pending), 2) \in Part
      BY <2>1 DEF PartOf, Part
    <3>2. CASE tokens = <<PartOf(Head(pending), 1), PartOf(Head(pending), 2)>>
      BY <3>1, <3>2
    <3>3. CASE tokens = <<PartOf(Head(pending), 1)>> \/ tokens = <<PartOf(Head(pending), 2)>>
      BY <3>1, <3>3
    <3> QED
      BY <2>2, <3>2, <3>3
  <2>4. line' = line \o tokens /\ pending' = Tail(pending) /\ UNCHANGED <<pc, req, buf, result, late>>
    BY <1>7 DEF Answer
  <2> HIDE DEF tokens
  <2>5. line' \in Seq(Part) /\ pending' \in Seq(Request)
    BY <2>1, <2>3, <2>4 DEF LineInv, LineTypes
  <2>6. LineTypes' /\ AnswerIsForRequest'
    BY <2>4, <2>5 DEF LineInv, LineTypes, AnswerIsForRequest
  <2>7. LineIsMine'
    <3> SUFFICES ASSUME ~late PROVE pc = "read" /\ pending' = << >> /\ buf \o line' \in Parts(req)
      BY <2>4 DEF LineIsMine
    <3>1. pc = "read" /\ pending = <<req>> /\ line = << >> /\ buf = << >>
      BY <2>1 DEF LineInv, LineIsMine
    <3>2. tokens \in Parts(req)
      BY <2>2, <3>1 DEF Parts
    <3>3. buf \o line' = tokens
      BY <2>3, <2>4, <3>1
    <3> QED
      BY <2>4, <3>1, <3>2, <3>3
  <2> QED
    BY <2>6, <2>7 DEF LineInv
<1> QED
  BY <1>1, <1>2, <1>3, <1>4, <1>5, <1>6, <1>7 DEF MasterNext, Master

\* AnswerIsForRequest of the Modbus master, for any units, requests and
\* number of retries, and any length of the line: masterRequest returns the
\* answer to what it asked, unless an attempt gave up on an answer that came
\* after it (session.go, masterRequest and readFrame, which empties the line).
THEOREM AnswerIsForRequestAlways == MasterSpec => []AnswerIsForRequest
<1>1. MasterSpec => []LineInv
  BY LineStart, LineStep, PTL DEF MasterSpec
<1>2. LineInv => AnswerIsForRequest
  BY DEF LineInv
<1> QED
  BY <1>1, <1>2, PTL

-----------------------------------------------------------------------------
(* The slave                                                               *)

CallPoints == {"idle", "got", "stop", "close", "wait", "closing", "handle", "master"}
CallType == [pc : CallPoints, loop : Loops \cup {None}, closing : BOOLEAN]
LoopPoints == {"none", "check", "reading", "readErr", "frame", "set", "write", "fail", "ended"}
LoopType == [pc : LoopPoints, unit : Units \cup {0}, base : Models \cup {Absent}]

\* A stop channel is closed by who took it out of the session, and by no
\* other: it is open while the session has it and until that caller closes it,
\* and closed before anybody waits for the loop.
StopInv ==
    /\ slaveRunning => /\ current \in Loops /\ Alive(current) /\ stop[current] = 0
                       /\ \A c \in Callers : call[c].pc = "close" => call[c].loop # current
    /\ \A c \in Callers : call[c].pc = "close" =>
        /\ loop[call[c].loop].pc # "none" /\ stop[call[c].loop] = 0
        /\ \A d \in Callers : call[d].pc = "close" /\ call[d].loop = call[c].loop => c = d
    /\ \A c \in Callers : call[c].pc = "wait" => stop[call[c].loop] > 0
    /\ \A l \in Loops : stop[l] <= 1 /\ (loop[l].pc = "none" => stop[l] = 0)

\* Who knows of a loop that was not told to stop
KnownInv ==
    /\ ~overlapped => \A k, l \in Loops : Alive(k) /\ Alive(l) => k = l
    /\ \A l \in Loops : ~overlapped /\ Alive(l) /\ stop[l] = 0 =>
          \/ slaveRunning /\ current = l
          \/ \E c \in Callers : call[c].loop = l
    /\ transactionMu # None => ~slaveRunning

\* The clone that a loop is about to store is the model of a unit.
OneUnit(r) ==
    /\ r.pc = "frame" => r.unit \in Units
    /\ r.pc = "set" => r.base \in Models

UnitInv ==
    /\ slaveUnitID # 0 => slaveUnits[slaveUnitID] # Absent
    /\ \A l \in Loops : OneUnit(loop[l])

SlaveInv == SlaveTypeOK /\ StopInv /\ KnownInv /\ UnitInv

\* The unit that startSlave and removeSlaveUnit choose is one of the units.
LEMMA FirstUnit ==
  ASSUME NEW units \in Contents
  PROVE  /\ FirstUnitID(units) \in Units \cup {0}
         /\ FirstUnitID(units) # 0 => units[FirstUnitID(units)] # Absent
<1> DEFINE present == {u \in Units : units[u] # Absent}
<1>1. CASE present = {}
  BY <1>1 DEF FirstUnitID
<1>2. CASE present # {}
  <2>1. present \in SUBSET Nat
    BY ModelAssumption
  <2>2. \E u \in present : \A v \in present : u <= v
    BY <1>2, <2>1, LeastOf
  <2>3. FirstUnitID(units) = CHOOSE u \in present : \A v \in present : u <= v
    BY <1>2 DEF FirstUnitID
  <2> HIDE DEF present
  <2>4. FirstUnitID(units) \in present
    BY <2>2, <2>3
  <2> QED
    BY <2>4 DEF present
<1> QED
  BY <1>1, <1>2

-----------------------------------------------------------------------------
(* What a step makes of its caller or of its loop                          *)

Now(c, pcNow, l) ==
    /\ call' \in [Callers -> CallType]
    /\ \A d \in Callers : d # c => call'[d] = call[d]
    /\ call'[c].pc = pcNow /\ call'[c].loop = l

LoopNow(l, pcNow) ==
    /\ loop' \in [Loops -> LoopType]
    /\ \A k \in Loops : k # l => loop'[k] = loop[k]
    /\ loop'[l].pc = pcNow
    /\ OneUnit(loop'[l])

LEMMA Types ==
  ASSUME SlaveTypeOK
  PROVE  /\ call \in [Callers -> CallType] /\ loop \in [Loops -> LoopType]
         /\ \A c \in Callers : call[c].pc \notin {"close", "wait"} => call[c].loop = None
         /\ \A c \in Callers : call[c].pc \in {"close", "wait"} => call[c].loop \in Loops
         /\ None \notin Loops
BY ModelAssumption DEF SlaveTypeOK, CallType, CallPoints, LoopType, LoopPoints

LEMMA CallGoes ==
  ASSUME SlaveTypeOK, NEW c \in Callers, NEW p \in CallPoints, Goto(c, p)
  PROVE  Now(c, p, call[c].loop)
<1>1. call \in [Callers -> CallType]
  BY Types
<1> QED
  BY <1>1 DEF Now, Goto, CallType

LEMMA CallBecomes ==
  ASSUME SlaveTypeOK, NEW c \in Callers, NEW x \in CallType, call' = [call EXCEPT ![c] = x]
  PROVE  Now(c, x.pc, x.loop)
<1>1. call \in [Callers -> CallType]
  BY Types
<1> QED
  BY <1>1 DEF Now

LEMMA CallReturns ==
  ASSUME SlaveTypeOK, NEW c \in Callers, Return(c)
  PROVE  Now(c, "idle", None)
<1>1. IdleCall \in CallType /\ IdleCall.pc = "idle" /\ IdleCall.loop = None
  BY DEF IdleCall, CallType, CallPoints
<1> QED
  BY <1>1, CallBecomes DEF Return

LEMMA CallAfterStop ==
  ASSUME SlaveTypeOK, NEW c \in Callers, call' = [call EXCEPT ![c] = AfterStop(c)]
  PROVE  \E p \in {"idle", "closing"} : Now(c, p, None)
<1>1. /\ AfterStop(c) \in CallType /\ AfterStop(c).pc \in {"idle", "closing"} /\ AfterStop(c).loop = None
  BY DEF AfterStop, IdleCall, CallType, CallPoints
<1> QED
  BY <1>1, CallBecomes

LEMMA LoopGoes ==
  ASSUME SlaveTypeOK, NEW l \in Loops, NEW p \in LoopPoints \ {"frame", "set"}, LoopTo(l, p)
  PROVE  LoopNow(l, p)
<1>1. loop \in [Loops -> LoopType]
  BY Types
<1> QED
  BY <1>1 DEF LoopNow, LoopTo, LoopType, OneUnit

LEMMA LoopBecomes ==
  ASSUME SlaveTypeOK, NEW l \in Loops, NEW x \in LoopType, OneUnit(x),
         loop' = [loop EXCEPT ![l] = x]
  PROVE  LoopNow(l, x.pc)
<1>1. loop \in [Loops -> LoopType]
  BY Types
<1> QED
  BY <1>1 DEF LoopNow

LEMMA LoopAts ==
  ASSUME NEW p \in LoopPoints
  PROVE  LoopAt(p) \in LoopType /\ LoopAt(p).pc = p /\ (p \notin {"frame", "set"} => OneUnit(LoopAt(p)))
BY DEF LoopAt, LoopType, OneUnit

\* What a step leaves of the type of the session, where caller and loop are
\* what the lemmas above say.
LEMMA TypeStep ==
  ASSUME SlaveTypeOK, call' \in [Callers -> CallType], loop' \in [Loops -> LoopType],
         \A c \in Callers : call'[c].pc \in {"close", "wait"} <=> call'[c].loop # None,
         listed' \in BOOLEAN, port' \in BOOLEAN, handle' \in BOOLEAN,
         status' \in {"open", "running", "error", "closed"},
         slaveRunning' \in BOOLEAN, current' \in Loops \cup {None},
         slaveUnits' \in Contents, slaveUnitID' \in Units \cup {0},
         stop' \in [Loops -> Nat], transactionMu' \in Callers \cup {None}, overlapped' \in BOOLEAN
  PROVE  SlaveTypeOK'
BY DEF SlaveTypeOK, CallType, CallPoints, LoopType, LoopPoints, Contents

-----------------------------------------------------------------------------
(* The steps of callers                                                    *)

\* What a step of a caller does that neither starts nor stops anything
Quietly(c, p) ==
    /\ Now(c, p, None) /\ p \in CallPoints \ {"close", "wait"} /\ call[c].pc # "close"
    /\ UNCHANGED <<slaveRunning, current, loop, stop, overlapped>>
    /\ listed' \in BOOLEAN /\ port' \in BOOLEAN /\ handle' \in BOOLEAN
    /\ status' \in {"open", "running", "error", "closed"}
    /\ \/ UNCHANGED transactionMu
       \/ transactionMu' = None
       \/ transactionMu' \in Callers /\ ~slaveRunning
    /\ slaveUnits' \in Contents /\ slaveUnitID' \in Units \cup {0}
    /\ slaveUnitID' # 0 => slaveUnits'[slaveUnitID'] # Absent

LEMMA QuietStep ==
  ASSUME SlaveInv, NEW c \in Callers, NEW p, Quietly(c, p)
  PROVE  SlaveInv'
<1> USE DEF SlaveInv
<1>1. SlaveTypeOK'
  <2>1. call' \in [Callers -> CallType] /\ \A d \in Callers : call'[d].pc \in {"close", "wait"} <=> call'[d].loop # None
    BY DEF Quietly, Now, SlaveTypeOK
  <2>2. loop' \in [Loops -> LoopType]
    BY Types DEF Quietly
  <2>3. /\ slaveRunning' \in BOOLEAN /\ current' \in Loops \cup {None}
        /\ stop' \in [Loops -> Nat] /\ transactionMu' \in Callers \cup {None} /\ overlapped' \in BOOLEAN
    BY DEF Quietly, SlaveTypeOK
  <2> QED
    BY <2>1, <2>2, <2>3, TypeStep DEF Quietly
<1>2. \A d \in Callers : call'[d].pc \in {"close", "wait"} => d # c /\ call'[d] = call[d]
  BY DEF Quietly, Now
<1>3. \A d \in Callers : call[d].loop # None => \/ call'[d] = call[d]
                                                \/ stop[call[d].loop] > 0
  BY Types DEF Quietly, Now, StopInv
<1>4. StopInv'
  BY <1>2 DEF StopInv, Quietly, Alive
<1>5. KnownInv'
  <2>1. ASSUME NEW l \in Loops, ~overlapped, Alive(l), stop[l] = 0
        PROVE  (slaveRunning /\ current = l) \/ \E d \in Callers : call'[d].loop = l
    <3>1. CASE slaveRunning /\ current = l
      BY <3>1
    <3>2. CASE \E d \in Callers : call[d].loop = l
      BY <2>1, <3>2, <1>3, Types
    <3> QED
      BY <2>1, <3>1, <3>2 DEF KnownInv
  <2> QED
    BY <2>1 DEF KnownInv, Quietly, Alive
<1>6. UnitInv'
  BY DEF UnitInv, Quietly, OneUnit
<1> QED
  BY <1>1, <1>4, <1>5, <1>6

LEMMA StopStep ==
  ASSUME SlaveInv, NEW c \in Callers, StopSlave(c)
  PROVE  SlaveInv'
<1> USE DEF SlaveInv
<1>0. /\ slaveRunning /\ current \in Loops /\ Alive(current) /\ stop[current] = 0
      /\ call[c].pc = "stop" /\ slaveRunning' = FALSE
      /\ UNCHANGED <<loop, stop, overlapped, transactionMu, slaveUnits, slaveUnitID>>
      /\ \A d \in Callers : call[d].pc = "close" => call[d].loop # current
  BY DEF StopSlave, StopInv, data
<1>1. Now(c, "close", current)
  <2>1. call \in [Callers -> CallType]
    BY Types
  <2> QED
    BY <1>0, <2>1 DEF StopSlave, Now, CallType, CallPoints
<1>2. SlaveTypeOK'
  <2>1. call' \in [Callers -> CallType] /\ \A d \in Callers : call'[d].pc \in {"close", "wait"} <=> call'[d].loop # None
    BY <1>0, <1>1, Types DEF Now, SlaveTypeOK
  <2>2. loop' \in [Loops -> LoopType]
    BY <1>0, Types
  <2>3. /\ listed' \in BOOLEAN /\ port' \in BOOLEAN /\ handle' \in BOOLEAN /\ status' = "open"
        /\ slaveRunning' \in BOOLEAN /\ current' \in Loops \cup {None} /\ slaveUnits' \in Contents
        /\ slaveUnitID' \in Units \cup {0}
        /\ stop' \in [Loops -> Nat] /\ transactionMu' \in Callers \cup {None} /\ overlapped' \in BOOLEAN
    BY DEF StopSlave, SlaveTypeOK, data, Contents
  <2> QED
    BY <2>1, <2>2, <2>3, TypeStep
<1>3. StopInv'
  <2>1. \A d \in Callers : call'[d].pc = "close" => (d = c /\ call'[d].loop = current) \/ (d # c /\ call'[d] = call[d])
    BY <1>1 DEF Now
  <2>2. \A d \in Callers : call'[d].pc = "wait" => d # c /\ call'[d] = call[d]
    BY <1>1 DEF Now
  <2>3. loop[current].pc # "none"
    BY <1>0 DEF Alive
  <2>4. \A d \in Callers : call'[d].pc = "close" =>
            /\ loop[call'[d].loop].pc # "none" /\ stop[call'[d].loop] = 0
            /\ \A e \in Callers : call'[e].pc = "close" /\ call'[e].loop = call'[d].loop => d = e
    BY <1>0, <2>1, <2>3 DEF StopInv
  <2> QED
    BY <1>0, <2>2, <2>4 DEF StopInv
<1>4. KnownInv'
  <2>1. ASSUME NEW l \in Loops, ~overlapped, Alive(l), stop[l] = 0
        PROVE  \E d \in Callers : call'[d].loop = l
    <3>1. CASE current = l
      BY <3>1, <1>1 DEF Now
    <3>2. CASE \E d \in Callers : call[d].loop = l
      <4>1. PICK d \in Callers : call[d].loop = l
        BY <3>2
      <4>2. d # c
        BY <4>1, <1>0, Types
      <4> QED
        BY <4>1, <4>2, <1>1 DEF Now
    <3> QED
      BY <2>1, <3>1, <3>2 DEF KnownInv
  <2> QED
    BY <1>0, <2>1 DEF KnownInv, Alive
<1>5. UnitInv'
  BY <1>0 DEF UnitInv, OneUnit
<1> QED
  BY <1>2, <1>3, <1>4, <1>5

LEMMA ChannelStep ==
  ASSUME SlaveInv, NEW c \in Callers, CloseStop(c)
  PROVE  SlaveInv'
<1> USE DEF SlaveInv
<1> DEFINE k == call[c].loop
<1>0. /\ call[c].pc = "close" /\ k \in Loops /\ stop[k] = 0 /\ loop[k].pc # "none"
      /\ slaveRunning => current # k
      /\ \A d \in Callers : call[d].pc = "close" /\ call[d].loop = k => c = d
      /\ stop' = [stop EXCEPT ![k] = stop[k] + 1]
      /\ UNCHANGED <<session, slave, data, loop, transactionMu, overlapped>>
  BY Types DEF CloseStop, StopInv
<1>1. Now(c, "wait", k)
  BY CallGoes DEF CloseStop, CallPoints
<1>2. stop' \in [Loops -> Nat] /\ stop'[k] = 1 /\ \A l \in Loops : l # k => stop'[l] = stop[l]
  BY <1>0 DEF SlaveTypeOK
<1> HIDE DEF k
<1>3. SlaveTypeOK'
  <2>1. call' \in [Callers -> CallType] /\ \A d \in Callers : call'[d].pc \in {"close", "wait"} <=> call'[d].loop # None
    BY <1>0, <1>1, Types DEF Now, SlaveTypeOK
  <2>2. loop' \in [Loops -> LoopType]
    BY <1>0, Types
  <2>3. /\ listed' \in BOOLEAN /\ port' \in BOOLEAN /\ handle' \in BOOLEAN
        /\ status' \in {"open", "running", "error", "closed"}
        /\ slaveRunning' \in BOOLEAN /\ current' \in Loops \cup {None} /\ slaveUnits' \in Contents
        /\ slaveUnitID' \in Units \cup {0}
        /\ transactionMu' \in Callers \cup {None} /\ overlapped' \in BOOLEAN
    BY <1>0 DEF SlaveTypeOK, session, slave, data, Contents
  <2> QED
    BY <1>2, <2>1, <2>2, <2>3, TypeStep
<1>4. StopInv'
  <2>1. \A d \in Callers : call'[d].pc = "close" => d # c /\ call'[d] = call[d] /\ call[d].loop # k /\ call[d].loop \in Loops
    BY <1>0, <1>1, Types DEF Now
  <2>2. \A d \in Callers : call'[d].pc = "wait" => (d = c /\ call'[d].loop = k) \/ call'[d] = call[d]
    BY <1>1 DEF Now
  <2>3. \A d \in Callers : call'[d].pc = "close" =>
            /\ loop[call'[d].loop].pc # "none" /\ stop'[call'[d].loop] = 0
            /\ \A e \in Callers : call'[e].pc = "close" /\ call'[e].loop = call'[d].loop => d = e
    BY <1>2, <2>1 DEF StopInv
  <2>4. \A d \in Callers : call'[d].pc = "wait" => stop'[call'[d].loop] > 0
    BY <1>2, <2>2, Types DEF StopInv
  <2>5. slaveRunning' => /\ current' \in Loops /\ Alive(current)' /\ stop'[current'] = 0
                         /\ \A d \in Callers : call'[d].pc = "close" => call'[d].loop # current'
    BY <1>0, <1>2, <2>1 DEF StopInv, slave, Alive
  <2>6. \A l \in Loops : stop'[l] <= 1 /\ (loop'[l].pc = "none" => stop'[l] = 0)
    BY <1>0, <1>2 DEF StopInv
  <2> QED
    BY <1>0, <2>3, <2>4, <2>5, <2>6 DEF StopInv
<1>5. KnownInv'
  <2>1. \A d \in Callers : call'[d].loop = call[d].loop
    BY <1>1 DEF Now, k
  <2>2. \A l \in Loops : stop'[l] = 0 => stop[l] = 0
    BY <1>2 DEF SlaveTypeOK
  <2> QED
    BY <1>0, <2>1, <2>2 DEF KnownInv, Alive, slave
<1>6. UnitInv'
  BY <1>0 DEF UnitInv, OneUnit, data
<1> QED
  BY <1>3, <1>4, <1>5, <1>6

LEMMA StartStep ==
  ASSUME SlaveInv, NEW c \in Callers, NEW units \in Contents, NEW l \in Loops, StartSlave(c, units, l)
  PROVE  SlaveInv'
<1> USE DEF SlaveInv
<1>0. /\ call[c].pc = "got" /\ transactionMu = None /\ loop[l].pc = "none" /\ stop[l] = 0
      /\ slaveRunning' = TRUE /\ current' = l /\ UNCHANGED <<stop, transactionMu>>
      /\ overlapped' = (overlapped \/ \E k \in Loops : Alive(k))
      /\ slaveUnits' = units /\ slaveUnitID' = FirstUnitID(units)
  BY DEF StartSlave, CanStart, StopInv
<1>1. Now(c, "idle", None)
  BY CallReturns DEF StartSlave
<1>2. LoopNow(l, "check")
  BY LoopBecomes, LoopAts DEF StartSlave, LoopPoints
<1>3. SlaveTypeOK'
  <2>1. call' \in [Callers -> CallType] /\ \A d \in Callers : call'[d].pc \in {"close", "wait"} <=> call'[d].loop # None
    BY <1>0, <1>1, Types DEF Now, SlaveTypeOK
  <2>2. loop' \in [Loops -> LoopType]
    BY <1>2 DEF LoopNow
  <2>3. /\ listed' \in BOOLEAN /\ port' \in BOOLEAN /\ handle' \in BOOLEAN
        /\ status' \in {"open", "running", "error", "closed"}
        /\ slaveRunning' \in BOOLEAN /\ current' \in Loops \cup {None} /\ slaveUnits' \in Contents
        /\ slaveUnitID' \in Units \cup {0} /\ stop' \in [Loops -> Nat]
        /\ transactionMu' \in Callers \cup {None} /\ overlapped' \in BOOLEAN
    BY <1>0, FirstUnit DEF SlaveTypeOK, StartSlave
  <2> QED
    BY <2>1, <2>2, <2>3, TypeStep
<1>4. /\ \A d \in Callers : call'[d].pc \in {"close", "wait"} => d # c /\ call'[d] = call[d] /\ call[d].loop \in Loops
      /\ \A k \in Loops : k # l => loop'[k] = loop[k]
      /\ loop'[l].pc = "check"
      /\ \A d \in Callers : call[d].loop # None => call'[d] = call[d]
  BY <1>0, <1>1, <1>2, Types DEF Now, LoopNow
<1>5. StopInv'
  <2>1. \A d \in Callers : call'[d].pc = "close" => call'[d].loop # l
    BY <1>0, <1>4 DEF StopInv
  <2>2. \A d \in Callers : call'[d].pc = "close" =>
            /\ loop'[call'[d].loop].pc # "none" /\ stop'[call'[d].loop] = 0
            /\ \A e \in Callers : call'[e].pc = "close" /\ call'[e].loop = call'[d].loop => d = e
    BY <1>0, <1>4, <2>1 DEF StopInv
  <2>3. \A d \in Callers : call'[d].pc = "wait" => stop'[call'[d].loop] > 0
    BY <1>0, <1>4 DEF StopInv
  <2>4. \A k \in Loops : stop'[k] <= 1 /\ (loop'[k].pc = "none" => stop'[k] = 0)
    BY <1>0, <1>4 DEF StopInv
  <2>5. l \in Loops /\ loop'[l].pc \notin {"none", "ended"} /\ stop'[l] = 0
    BY <1>0, <1>4
  <2> QED
    BY <1>0, <2>1, <2>2, <2>3, <2>4, <2>5 DEF StopInv, Alive
<1>6. KnownInv'
  <2>1. ~overlapped' => \A k \in Loops : k # l => ~(loop'[k].pc \notin {"none", "ended"})
    BY <1>0, <1>4 DEF Alive
  <2> QED
    BY <1>0, <2>1 DEF KnownInv, Alive
<1>7. UnitInv'
  BY <1>0, <1>2, <1>4, FirstUnit DEF UnitInv, OneUnit, LoopNow
<1> QED
  BY <1>3, <1>5, <1>6, <1>7

\* Edits of the units leave the first one among them.
LEMMA EditStep ==
  ASSUME SlaveInv, NEW c \in Callers, NEW units \in Contents, NEW id \in Units \cup {0},
         id # 0 => units[id] # Absent, Edit(c, units, id)
  PROVE  SlaveInv'
<1>1. Now(c, "idle", None)
  BY CallReturns DEF Edit, SlaveInv
<1>2. Quietly(c, "idle")
  BY <1>1 DEF Quietly, Edit, session, slave, SlaveInv, SlaveTypeOK, CallPoints
<1> QED
  BY <1>2, QuietStep

LEMMA Edits ==
  ASSUME SlaveInv, NEW c \in Callers, NEW u \in Units, NEW m \in Models
  PROVE  /\ SetDataModel(c, m) => SlaveInv'
         /\ AddSlaveUnit(c, u, m) => SlaveInv'
         /\ UpdateSlaveUnitData(c, u, m) => SlaveInv'
<1>1. /\ slaveUnits \in Contents /\ slaveUnitID \in Units \cup {0}
      /\ slaveUnitID # 0 => slaveUnits[slaveUnitID] # Absent
      /\ m # Absent /\ 1 \in Units /\ 0 \notin Units
  BY ModelAssumption DEF SlaveInv, SlaveTypeOK, UnitInv, Contents
<1>2. ASSUME NEW id \in Units
      PROVE  /\ [slaveUnits EXCEPT ![id] = m] \in Contents
             /\ [slaveUnits EXCEPT ![id] = m][id] # Absent
             /\ slaveUnitID # 0 => [slaveUnits EXCEPT ![id] = m][slaveUnitID] # Absent
  BY <1>1 DEF Contents
<1>3. ASSUME SetDataModel(c, m) PROVE SlaveInv'
  <2>1. PICK id \in Units : Edit(c, [slaveUnits EXCEPT ![id] = m], id)
    BY <1>1, <1>3 DEF SetDataModel
  <2> QED
    BY <1>2, <2>1, EditStep
<1>4. ASSUME AddSlaveUnit(c, u, m) PROVE SlaveInv'
  <2> DEFINE id == IF slaveUnitID = 0 THEN u ELSE slaveUnitID
  <2>1. Edit(c, [slaveUnits EXCEPT ![u] = m], id)
    BY <1>4 DEF AddSlaveUnit
  <2>2. id \in Units \cup {0} /\ (id # 0 => [slaveUnits EXCEPT ![u] = m][id] # Absent)
    BY <1>1, <1>2
  <2> HIDE DEF id
  <2> QED
    BY <1>2, <2>1, <2>2, EditStep
<1>5. ASSUME UpdateSlaveUnitData(c, u, m) PROVE SlaveInv'
  <2>1. Edit(c, [slaveUnits EXCEPT ![u] = m], slaveUnitID)
    BY <1>5 DEF UpdateSlaveUnitData
  <2> QED
    BY <1>1, <1>2, <2>1, EditStep
<1> QED
  BY <1>3, <1>4, <1>5

LEMMA RemoveStep ==
  ASSUME SlaveInv, NEW c \in Callers, NEW u \in Units, RemoveSlaveUnit(c, u)
  PROVE  SlaveInv'
<1>1. /\ slaveUnits \in Contents /\ slaveUnitID \in Units \cup {0}
      /\ slaveUnitID # 0 => slaveUnits[slaveUnitID] # Absent
  BY DEF SlaveInv, SlaveTypeOK, UnitInv, Contents
<1> DEFINE units == [slaveUnits EXCEPT ![u] = Absent]
<1> DEFINE id == IF slaveUnitID = u THEN FirstUnitID(units) ELSE slaveUnitID
<1>2. Edit(c, units, id)
  BY DEF RemoveSlaveUnit
<1>4. units \in Contents /\ \A v \in Units : v # u => units[v] = slaveUnits[v]
  BY <1>1 DEF Contents
<1> HIDE DEF units
<1>5. id \in Units \cup {0} /\ (id # 0 => units[id] # Absent)
  BY <1>1, <1>4, FirstUnit
<1> HIDE DEF id
<1> QED
  BY <1>2, <1>4, <1>5, EditStep

LEMMA CallStep ==
  ASSUME SlaveInv, NEW c \in Callers, Get(c) \/ CloseSession(c) \/ CallerStep(c)
  PROVE  SlaveInv'
<1>0. SlaveTypeOK /\ call[c] \in CallType /\ (call[c].pc \notin {"close", "wait"} => call[c].loop = None)
  BY Types DEF SlaveInv
<1>1. /\ listed \in BOOLEAN /\ port \in BOOLEAN /\ handle \in BOOLEAN
      /\ status \in {"open", "running", "error", "closed"}
      /\ slaveUnits \in Contents /\ slaveUnitID \in Units \cup {0}
      /\ slaveUnitID # 0 => slaveUnits[slaveUnitID] # Absent
  BY DEF SlaveInv, SlaveTypeOK, UnitInv, Contents
<1> USE DEF session, slave, data
<1>2. CASE Get(c)
  <2>1. Now(c, "got", None)
    BY <1>0, <1>2, CallGoes DEF Get, CallPoints
  <2> QED
    BY <1>1, <1>2, <2>1, QuietStep DEF Get, Quietly, CallPoints
<1>3. CASE CloseSession(c)
  <2> DEFINE x == [pc |-> "stop", loop |-> None, closing |-> TRUE]
  <2>1. x \in CallType /\ x.pc = "stop" /\ x.loop = None /\ call' = [call EXCEPT ![c] = x]
    BY <1>3 DEF CloseSession, CallType, CallPoints
  <2> HIDE DEF x
  <2>2. Now(c, "stop", None)
    BY <1>0, <2>1, CallBecomes
  <2> QED
    BY <1>1, <1>3, <2>2, QuietStep DEF CloseSession, Quietly, CallPoints
<1>4. CASE CallStop(c)
  <2>1. Now(c, "stop", None)
    BY <1>0, <1>4, CallGoes DEF CallStop, CallPoints
  <2> QED
    BY <1>1, <1>4, <2>1, QuietStep DEF CallStop, Quietly, CallPoints
<1>5. CASE StopSlaveIdle(c) \/ StopWait(c)
  <2>1. PICK p \in {"idle", "closing"} : Now(c, p, None)
    BY <1>0, <1>5, CallAfterStop DEF StopSlaveIdle, StopWait
  <2> QED
    BY <1>1, <1>5, <2>1, QuietStep DEF StopSlaveIdle, StopWait, Quietly, CallPoints
<1>6. CASE CloseMark(c)
  <2>1. Now(c, "handle", None)
    BY <1>0, <1>6, CallGoes DEF CloseMark, CallPoints
  <2> QED
    BY <1>1, <1>6, <2>1, QuietStep DEF CloseMark, Quietly, CallPoints
<1>7. CASE ClosePort(c) \/ StartSlaveRefused(c) \/ MasterRefused(c) \/ MasterEnd(c)
  <2>1. Now(c, "idle", None) /\ call[c].pc # "close"
    BY <1>0, <1>7, CallReturns DEF ClosePort, StartSlaveRefused, MasterRefused, MasterEnd
  <2>2. /\ UNCHANGED <<slaveRunning, current, loop, stop, overlapped, listed, port, status, slaveUnits, slaveUnitID>>
        /\ UNCHANGED handle \/ handle' = FALSE
        /\ UNCHANGED transactionMu \/ transactionMu' = None
    BY <1>7 DEF ClosePort, StartSlaveRefused, MasterRefused, MasterEnd
  <2> QED
    BY <1>1, <2>1, <2>2, QuietStep DEF Quietly, CallPoints
<1>8. CASE MasterBegin(c)
  <2>1. Now(c, "master", None)
    BY <1>0, <1>8, CallGoes DEF MasterBegin, CallPoints
  <2> QED
    BY <1>1, <1>8, <2>1, QuietStep DEF MasterBegin, Quietly, CallPoints
<1>9. CASE StopSlave(c) \/ CloseStop(c)
  BY <1>9, StopStep, ChannelStep
<1>10. CASE \E units \in {x \in Contents : FirstUnitID(x) # 0}, l \in Loops : StartSlave(c, units, l)
  BY <1>10, StartStep
<1>11. CASE \E m \in Models : SetDataModel(c, m)
  <2>1. PICK m \in Models : SetDataModel(c, m)
    BY <1>11
  <2>2. 1 \in Units
    BY ModelAssumption
  <2> QED
    BY <2>1, <2>2, Edits
<1>12. CASE \E u \in Units : RemoveSlaveUnit(c, u)
  <2>1. PICK u \in Units : RemoveSlaveUnit(c, u)
    BY <1>12
  <2> QED
    BY <2>1, RemoveStep
<1>13. CASE \E u \in Units, m \in Models : AddSlaveUnit(c, u, m) \/ UpdateSlaveUnitData(c, u, m)
  BY <1>13, Edits
<1> QED
  BY <1>2, <1>3, <1>4, <1>5, <1>6, <1>7, <1>8, <1>9, <1>10, <1>11, <1>12, <1>13 DEF CallerStep

-----------------------------------------------------------------------------
(* The steps of loops                                                      *)

\* What a step of a loop does to the rest of the session: a loop ends when it
\* was told to, or when it has failed, and the session then knows of none.
LoopEffect(l, p) ==
    /\ LoopNow(l, p) /\ p # "none" /\ Alive(l)
    /\ UNCHANGED <<listed, port, handle, current, stop, call, transactionMu, overlapped, slaveUnitID>>
    /\ \/ UNCHANGED <<slaveRunning, status>> /\ (p = "ended" => stop[l] > 0)
       \/ slaveRunning' = FALSE /\ status' = "error" /\ p = "ended"
    /\ slaveUnits' \in Contents
    /\ \A u \in Units : slaveUnits[u] # Absent => slaveUnits'[u] # Absent

LEMMA LoopEffects ==
  ASSUME SlaveInv, NEW l \in Loops, LoopStep(l)
  PROVE  \E p \in LoopPoints : LoopEffect(l, p)
<1> USE DEF session, slave, data
<1>0. SlaveTypeOK /\ loop[l] \in LoopType /\ stop[l] \in Nat /\ slaveUnits \in Contents
      /\ OneUnit(loop[l])
  BY Types DEF SlaveInv, SlaveTypeOK, UnitInv, Contents
<1>p. \A p \in {"check", "reading", "readErr", "write", "fail", "ended"} : p \in LoopPoints \ {"frame", "set"} /\ p # "none"
  BY DEF LoopPoints
<1>1. CASE LoopCheck(l)
  <2> DEFINE p == IF stop[l] > 0 THEN "ended" ELSE IF port THEN "reading" ELSE "readErr"
  <2>1. LoopNow(l, p) /\ p \in {"reading", "readErr", "ended"} /\ (p = "ended" => stop[l] > 0)
    BY <1>0, <1>1, <1>p, LoopGoes DEF LoopCheck
  <2> HIDE DEF p
  <2> QED
    BY <1>0, <1>1, <1>p, <2>1 DEF LoopCheck, LoopEffect, Alive
<1>2. CASE LoopReadNothing(l)
  <2>1. LoopNow(l, "check")
    BY <1>0, <1>2, <1>p, LoopGoes DEF LoopReadNothing
  <2> QED
    BY <1>0, <1>2, <1>p, <2>1 DEF LoopReadNothing, LoopEffect, Alive
<1>3. CASE LoopReadError(l)
  <2>1. LoopNow(l, "readErr")
    BY <1>0, <1>3, <1>p, LoopGoes DEF LoopReadError
  <2> QED
    BY <1>0, <1>3, <1>p, <2>1 DEF LoopReadError, LoopEffect, Alive
<1>4. CASE LoopReadFails(l)
  <2> DEFINE p == IF stop[l] > 0 THEN "ended" ELSE "fail"
  <2>1. LoopNow(l, p) /\ p \in {"fail", "ended"} /\ (p = "ended" => stop[l] > 0)
    BY <1>0, <1>4, <1>p, LoopGoes DEF LoopReadFails
  <2> HIDE DEF p
  <2> QED
    BY <1>0, <1>4, <1>p, <2>1 DEF LoopReadFails, LoopEffect, Alive
<1>5. CASE LoopClone(l)
  <2>1. CASE slaveUnits[loop[l].unit] = Absent
    <3>1. loop' = [loop EXCEPT ![l] = LoopAt("write")]
      BY <1>5, <2>1 DEF LoopClone
    <3>2. LoopNow(l, "write")
      BY <1>0, <1>p, <3>1, LoopBecomes, LoopAts
    <3> QED
      BY <1>0, <1>5, <1>p, <3>2 DEF LoopClone, LoopEffect, Alive
  <2>2. CASE slaveUnits[loop[l].unit] # Absent
    <3> DEFINE x == [pc |-> "set", unit |-> loop[l].unit, base |-> slaveUnits[loop[l].unit]]
    <3>1. loop' = [loop EXCEPT ![l] = x]
      BY <1>5, <2>2 DEF LoopClone
    <3>2. loop[l].unit \in Units
      BY <1>5 DEF LoopClone, SlaveInv, UnitInv, OneUnit
    <3>3. x \in LoopType /\ x.pc = "set" /\ OneUnit(x)
      BY <1>0, <2>2, <3>2 DEF LoopType, LoopPoints, Contents, OneUnit
    <3> HIDE DEF x
    <3>4. LoopNow(l, "set")
      BY <1>0, <3>1, <3>3, LoopBecomes
    <3> QED
      BY <1>0, <1>5, <3>4 DEF LoopClone, LoopEffect, Alive, LoopPoints
  <2> QED
    BY <2>1, <2>2
<1>6. CASE LoopWrite(l)
  <2>1. LoopNow(l, "check")
    BY <1>0, <1>6, <1>p, LoopBecomes, LoopAts DEF LoopWrite
  <2> QED
    BY <1>0, <1>6, <1>p, <2>1 DEF LoopWrite, LoopEffect, Alive
<1>7. CASE LoopWriteFails(l)
  <2>1. LoopNow(l, "fail")
    BY <1>0, <1>7, <1>p, LoopBecomes, LoopAts DEF LoopWriteFails
  <2> QED
    BY <1>0, <1>7, <1>p, <2>1 DEF LoopWriteFails, LoopEffect, Alive
<1>8. CASE SetError(l)
  <2>1. LoopNow(l, "ended")
    BY <1>0, <1>8, <1>p, LoopBecomes, LoopAts DEF SetError
  <2> QED
    BY <1>0, <1>8, <1>p, <2>1 DEF SetError, LoopEffect, Alive
<1>9. ASSUME NEW u \in Units, LoopReadFrame(l, u) PROVE \E p \in LoopPoints : LoopEffect(l, p)
  <2> DEFINE x == [LoopAt("frame") EXCEPT !.unit = u]
  <2>1. x \in LoopType /\ x.pc = "frame" /\ OneUnit(x)
    BY DEF LoopAt, LoopType, LoopPoints, OneUnit
  <2>2. loop' = [loop EXCEPT ![l] = x]
    BY <1>9 DEF LoopReadFrame
  <2> HIDE DEF x
  <2>3. LoopNow(l, "frame")
    BY <1>0, <2>1, <2>2, LoopBecomes
  <2> QED
    BY <1>0, <1>9, <2>3 DEF LoopReadFrame, LoopEffect, Alive, LoopPoints
<1>10. ASSUME NEW r \in Requests, LoopSet(l, r) PROVE \E p \in LoopPoints : LoopEffect(l, p)
  <2>1. LoopNow(l, "write")
    BY <1>0, <1>10, <1>p, LoopBecomes, LoopAts DEF LoopSet
  <2>2. Applied(l, r) \in Models /\ Absent \notin Models
    BY <1>0, <1>10, ModelAssumption DEF LoopSet, Applied, Requests, OneUnit
  <2>3. slaveUnits' \in Contents /\ \A u \in Units : slaveUnits[u] # Absent => slaveUnits'[u] # Absent
    <3> DEFINE m == Applied(l, r)
    <3>1. slaveUnits' = [slaveUnits EXCEPT ![loop[l].unit] = m]
      BY <1>10 DEF LoopSet
    <3> HIDE DEF m
    <3>2. m \in Models /\ m # Absent
      BY <2>2 DEF m
    <3> QED
      BY <1>0, <3>1, <3>2 DEF Contents
  <2> QED
    BY <1>0, <1>10, <1>p, <2>1, <2>3 DEF LoopSet, LoopEffect, Alive
<1> QED
  BY <1>1, <1>2, <1>3, <1>4, <1>5, <1>6, <1>7, <1>8, <1>9, <1>10 DEF LoopStep

LEMMA LoopEffectStep ==
  ASSUME SlaveInv, NEW l \in Loops, NEW p \in LoopPoints, LoopEffect(l, p)
  PROVE  SlaveInv'
<1> USE DEF SlaveInv
<1>1. SlaveTypeOK'
  <2>1. call' \in [Callers -> CallType] /\ \A d \in Callers : call'[d].pc \in {"close", "wait"} <=> call'[d].loop # None
    BY Types DEF LoopEffect, SlaveTypeOK
  <2>2. loop' \in [Loops -> LoopType]
    BY DEF LoopEffect, LoopNow
  <2>3. /\ listed' \in BOOLEAN /\ port' \in BOOLEAN /\ handle' \in BOOLEAN
        /\ status' \in {"open", "running", "error", "closed"}
        /\ slaveRunning' \in BOOLEAN /\ current' \in Loops \cup {None}
        /\ slaveUnitID' \in Units \cup {0} /\ stop' \in [Loops -> Nat]
        /\ transactionMu' \in Callers \cup {None} /\ overlapped' \in BOOLEAN
    BY DEF LoopEffect, SlaveTypeOK
  <2> QED
    BY <2>1, <2>2, <2>3, TypeStep DEF LoopEffect
<1>2. \A k \in Loops : /\ loop'[k].pc = "none" <=> loop[k].pc = "none"
                       /\ loop'[k].pc \notin {"none", "ended"} <=> Alive(k) /\ ~(k = l /\ p = "ended")
  BY DEF LoopEffect, LoopNow, Alive
<1>3. /\ call' = call /\ stop' = stop /\ current' = current /\ overlapped' = overlapped /\ transactionMu' = transactionMu
      /\ slaveRunning' => slaveRunning /\ (p = "ended" => stop[l] > 0)
  BY DEF LoopEffect
<1>4. StopInv'
  <2>1. slaveRunning' => /\ current' \in Loops /\ loop'[current'].pc \notin {"none", "ended"} /\ stop'[current'] = 0
                         /\ \A c \in Callers : call'[c].pc = "close" => call'[c].loop # current'
    BY <1>2, <1>3 DEF StopInv
  <2>2. \A c \in Callers : call'[c].pc = "close" => call[c].loop \in Loops
    BY <1>3, Types
  <2> QED
    BY <1>2, <1>3, <2>1, <2>2 DEF StopInv, Alive
<1>5. KnownInv'
  <2>1. ~overlapped => \A k, m \in Loops : loop'[k].pc \notin {"none", "ended"} /\ loop'[m].pc \notin {"none", "ended"} => k = m
    BY <1>2 DEF KnownInv
  <2>2. ASSUME NEW k \in Loops, ~overlapped, loop'[k].pc \notin {"none", "ended"}, stop[k] = 0
        PROVE  (slaveRunning' /\ current = k) \/ \E c \in Callers : call[c].loop = k
    <3>1. Alive(k) /\ ~(k = l /\ p = "ended")
      BY <1>2, <2>2
    <3>2. k = l
      BY <2>2, <3>1 DEF KnownInv, LoopEffect
    <3>3. slaveRunning' = slaveRunning
      BY <3>1, <3>2 DEF LoopEffect
    <3> QED
      BY <2>2, <3>1, <3>3 DEF KnownInv
  <2> QED
    BY <1>3, <2>1, <2>2 DEF KnownInv, Alive
<1>6. UnitInv'
  <2>1. slaveUnitID' # 0 => slaveUnits'[slaveUnitID'] # Absent
    BY DEF LoopEffect, UnitInv, SlaveTypeOK
  <2>2. \A k \in Loops : OneUnit(loop'[k])
    BY DEF LoopEffect, LoopNow, UnitInv
  <2> QED
    BY <2>1, <2>2 DEF UnitInv, OneUnit
<1> QED
  BY <1>1, <1>4, <1>5, <1>6

LEMMA SlaveStart == SlaveInit => SlaveInv
<1> SUFFICES ASSUME SlaveInit PROVE SlaveInv
  OBVIOUS
<1>1. IdleCall \in CallType /\ IdleCall.pc = "idle" /\ IdleCall.loop = None
  BY DEF IdleCall, CallType, CallPoints
<1>2. LoopAt("none") \in LoopType /\ LoopAt("none").pc = "none"
  BY LoopAts DEF LoopPoints
<1>3. /\ call \in [Callers -> CallType] /\ \A c \in Callers : call[c].pc = "idle" /\ call[c].loop = None
      /\ loop \in [Loops -> LoopType] /\ \A l \in Loops : loop[l].pc = "none"
  BY <1>1, <1>2 DEF SlaveInit
<1>4. SlaveTypeOK
  BY <1>3 DEF SlaveInit, SlaveTypeOK, CallType, CallPoints, LoopType, LoopPoints
<1>5. StopInv /\ KnownInv /\ UnitInv
  BY <1>3 DEF SlaveInit, StopInv, KnownInv, UnitInv, OneUnit, Alive
<1> QED
  BY <1>4, <1>5 DEF SlaveInv

LEMMA SlaveStep == SlaveInv /\ [SlaveNext]_slaveVars => SlaveInv'
<1> SUFFICES ASSUME SlaveInv, [SlaveNext]_slaveVars PROVE SlaveInv'
  OBVIOUS
<1>1. CASE \E c \in Callers : Get(c) \/ CloseSession(c) \/ CallerStep(c)
  BY <1>1, CallStep
<1>2. CASE \E l \in Loops : LoopStep(l)
  BY <1>2, LoopEffects, LoopEffectStep
<1>3. CASE UNCHANGED slaveVars
  BY <1>3 DEF slaveVars, session, slave, data, SlaveInv, SlaveTypeOK, StopInv, KnownInv, UnitInv, OneUnit, Alive
<1> QED
  BY <1>1, <1>2, <1>3 DEF SlaveNext

\* The invariant holds of every reachable state.
THEOREM SlaveInductive == SlaveSpec => []SlaveInv
  BY SlaveStart, SlaveStep, PTL DEF SlaveSpec

\* SlaveIsSound, for any callers, loops and units: the slave that a session
\* knows is the one that runs, a stop channel is closed once, and the unit
\* that setDataModel edits is there (startSlave, stopSlave, close, slaveLoop).
THEOREM SlaveIsSoundAlways == SlaveSpec => []SlaveIsSound
<1>1. SlaveInv => SlaveIsSound
  BY Types DEF SlaveInv, StopInv, KnownInv, UnitInv, SlaveIsSound
<1> QED
  BY <1>1, SlaveInductive, PTL

\* MasterAlone: masterRequest refuses to run beside a slave, and the loop that
\* is still there is on its way out.
THEOREM MasterAloneAlways == SlaveSpec => []MasterAlone
<1>1. SlaveInv => MasterAlone
  BY DEF SlaveInv, SlaveTypeOK, KnownInv, MasterAlone
<1> QED
  BY <1>1, SlaveInductive, PTL

=============================================================================
