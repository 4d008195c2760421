-------------------------- MODULE AlgorithmProofs --------------------------
(***************************************************************************)
(* Two algorithms for every input: the ring buffer and the search for a    *)
(* cycle.                                                                  *)
(*                                                                         *)
(* As long as every base was Total() when it was used, the ring keeps      *)
(* exactly the newest bytes of its stream and returns them at their        *)
(* offsets, for every capacity, any number of appending goroutines and     *)
(* every sequence of payload lengths, resets and queries.  Whatever the    *)
(* bases, its memory is bounded and Query reads within it.                 *)
(*                                                                         *)
(* The cycle search is exact for every graph.  The inductive invariant     *)
(* says what the search knows: everything on the stack or visited is       *)
(* reachable from the target, what is visited has its successors on the    *)
(* stack or visited, and the source has not been visited.                  *)
(***************************************************************************)
EXTENDS RingBuffer, CycleCheck, WellFoundedInduction, SequenceTheorems, FunctionTheorems, FiniteSetTheorems, TLAPS

-----------------------------------------------------------------------------
(* The ring: the inductive invariant                                       *)

\* The lock is held exactly by the goroutine in its eviction loop, never
\* while Query copies.
Locking ==
    /\ \A a \in Appenders : appender[a].pc = "evict" <=> writer = a
    /\ query.pc = "copy" => writer = Nobody /\ query.idx > 0

\* Total() counts the bytes.
Seen == total = arrived

\* The chunks are pieces of the stream, each at its offset, in order.
Ordered ==
    /\ \A i \in DOMAIN chunks :
        chunks[i].len > 0 /\ chunks[i].base >= 0 /\ chunks[i].first = chunks[i].base
    /\ \A i, j \in DOMAIN chunks : i < j => End(chunks[i]) <= chunks[j].base

\* The chunks join, but for one gap that a payload larger than the ring makes
\* before its chunk, until the eviction loop has dropped everything older.
Joined ==
    /\ \A i \in 2 .. Len(chunks) - 1 : chunks[i].base = End(chunks[i - 1])
    /\ \A n \in DOMAIN chunks : n = Len(chunks) =>
        /\ End(chunks[n]) = total
        /\ chunks[n].len <= Capacity
        /\ n = 1 => retained = chunks[n].len
        /\ n > 1 =>
            /\ retained = End(chunks[n - 1]) - chunks[1].base + chunks[n].len
            /\ \/ chunks[n].base = End(chunks[n - 1])
               \/ chunks[n].len = Capacity

\* Nothing is dropped before the ring is full, and it is full before more is.
Filled ==
    /\ chunks = << >> => retained = 0 /\ (total = 0 \/ Capacity = 0)
    /\ chunks # << >> => Capacity > 0 /\ (chunks[1].base = 0 \/ retained >= Capacity)
    /\ writer = Nobody => retained <= Capacity

\* The position of the copying loop of Query and what it has copied.
Copying ==
    /\ query.pc = "copy" =>
        /\ query.got >= 0 /\ query.remaining >= 0
        /\ query.offset + query.got + query.remaining <= total
        /\ query.remaining > 0 =>
            /\ query.idx \in DOMAIN chunks
            /\ chunks[query.idx].base + query.off = query.offset + query.got
            /\ query.off >= 0 /\ query.off < chunks[query.idx].len
    /\ \A i \in DOMAIN query.pieces :
        /\ query.pieces[i].offset = query.offset + query.pieces[i].at
        /\ query.pieces[i].first = query.pieces[i].offset
    /\ query.pc = "done" => query.remaining = 0

\* What holds as long as no base was stale
RingInv == TypeOK /\ Locking /\ Seen /\ Ordered /\ Joined /\ Filled /\ Copying

IInv == TypeOK /\ Locking /\ (~stale => RingInv)

\* In the initial states the ring is empty.
LEMMA InitInv == Init => IInv
  <1> SUFFICES ASSUME Init PROVE IInv
    OBVIOUS
  <1> USE DEF Init, NoAppend, NoQuery
  <1>a. stale \in BOOLEAN OBVIOUS
  <1>b. chunks \in Seq(Chunk) /\ << >> \in Seq(Piece) OBVIOUS
  <1>c. query \in QueryStates BY <1>b DEF QueryStates
  <1>d. appender \in [Appenders -> AppenderStates] BY DEF AppenderStates
  <1>1. TypeOK BY <1>a, <1>b, <1>c, <1>d DEF TypeOK
  <1>2. Locking /\ Seen BY NobodyAssumption DEF Locking, Seen
  <1>3. Ordered /\ Joined /\ Filled BY SizeAssumption DEF Ordered, Joined, Filled
  <1>4. Copying BY DEF Copying
  <1> QED BY <1>1, <1>2, <1>3, <1>4 DEF IInv, RingInv

-----------------------------------------------------------------------------
(* Steps.                                                                  *)

\* What TypeOK says of the elements an action copies.
ElementTypes ==
    /\ \A i \in DOMAIN chunks :
        chunks[i].base \in Int /\ chunks[i].first \in Nat /\ chunks[i].len \in Nat
    /\ \A a \in Appenders : appender[a].base \in Nat /\ appender[a].len \in Nat
    /\ query.offset \in Nat /\ query.remaining \in Int /\ query.idx \in Nat
    /\ query.off \in Int /\ query.got \in Int /\ query.pieces \in Seq(Piece)
    /\ Len(chunks) \in Nat /\ DOMAIN chunks = 1 .. Len(chunks)

\* The parts of a well typed state are well typed.
LEMMA Elements == ASSUME TypeOK PROVE ElementTypes
  <1>1. \A i \in DOMAIN chunks : chunks[i] \in Chunk BY DEF TypeOK
  <1>2. \A a \in Appenders : appender[a] \in AppenderStates BY DEF TypeOK
  <1>3. query \in QueryStates BY DEF TypeOK
  <1>4. \A i \in DOMAIN chunks :
          chunks[i].base \in Int /\ chunks[i].first \in Nat /\ chunks[i].len \in Nat
    BY <1>1 DEF Chunk
  <1>5. \A a \in Appenders : appender[a].base \in Nat /\ appender[a].len \in Nat
    BY <1>2 DEF AppenderStates
  <1>6. /\ query.offset \in Nat /\ query.remaining \in Int /\ query.idx \in Nat
        /\ query.off \in Int /\ query.got \in Int /\ query.pieces \in Seq(Piece)
    BY <1>3 DEF QueryStates
  <1>7. Len(chunks) \in Nat /\ DOMAIN chunks = 1 .. Len(chunks) BY DEF TypeOK
  <1> QED BY <1>4, <1>5, <1>6, <1>7 DEF ElementTypes

\* A chunk cut at its old end, or to Capacity, is a chunk.
LEMMA NewChunkType ==
  ASSUME TypeOK, NEW a \in Appenders
  PROVE  /\ NewChunk(a) \in Chunk
         /\ NewChunk(a).len = MinOf(appender[a].len, Capacity)
         /\ End(NewChunk(a)) = appender[a].base + appender[a].len
         /\ NewChunk(a).first - NewChunk(a).base = arrived - appender[a].base
         /\ NewChunk(a).base >= appender[a].base
         /\ appender[a].len <= Capacity => NewChunk(a).base = appender[a].base
  <1> DEFINE b == appender[a].base
             n == appender[a].len
  <1>1. b \in Nat /\ n \in Nat /\ arrived \in Nat
    BY Elements DEF ElementTypes, TypeOK
  <1>2. CASE n > Capacity
    <2>1. NewChunk(a) = [base |-> b + (n - Capacity), first |-> arrived + (n - Capacity),
                         len |-> n - (n - Capacity)]
      BY <1>2 DEF NewChunk, Dropped
    <2> QED BY <1>1, <1>2, <2>1, SizeAssumption DEF Chunk, MinOf, End
  <1>3. CASE ~(n > Capacity)
    <2>1. NewChunk(a) = [base |-> b, first |-> arrived, len |-> n]
      BY <1>3 DEF NewChunk
    <2> QED BY <1>1, <1>3, <2>1, SizeAssumption DEF Chunk, MinOf, End
  <1> QED BY <1>2, <1>3

\* Every step keeps the state well typed.
LEMMA TypeStep == ASSUME TypeOK, Locking, [Next]_vars PROVE TypeOK'
  <1>a. TypeOK /\ (query.pc = "copy" => query.idx > 0) BY DEF Locking
  <1>0. ElementTypes BY <1>a, Elements
  <1>b. << >> \in Seq(Piece) OBVIOUS
  <1> USE <1>0, <1>a, SizeAssumption DEF ElementTypes, ring, history
  <1>1. ASSUME NEW a \in Appenders, NEW n \in Lengths, TakeBase(a, n) PROVE TypeOK'
    <2>1. appender' \in [Appenders -> AppenderStates]
      BY <1>1 DEF TakeBase, TypeOK, AppenderStates
    <2> QED BY <1>1, <2>1 DEF TakeBase, TypeOK
  <1>2. ASSUME NEW a \in Appenders, AppendNothing(a) PROVE TypeOK'
    <2>1. appender' \in [Appenders -> AppenderStates]
      BY <1>2 DEF AppendNothing, TypeOK, AppenderStates, NoAppend
    <2>2. total' \in Nat /\ arrived' \in Nat
      BY <1>2 DEF AppendNothing, TypeOK, Count, MaxOf
    <2>3. stale' \in BOOLEAN BY <1>2 DEF AppendNothing, Count
    <2> QED BY <1>2, <2>1, <2>2, <2>3 DEF AppendNothing, TypeOK
  <1>3. ASSUME NEW a \in Appenders, AppendBegin(a) PROVE TypeOK'
    <2>1. appender' \in [Appenders -> AppenderStates]
      BY <1>3 DEF AppendBegin, TypeOK, AppenderStates
    <2>2. NewChunk(a) \in Chunk /\ NewChunk(a).len \in Nat
      BY NewChunkType DEF Chunk
    <2>3. chunks' \in Seq(Chunk)
      BY <1>3, <2>2 DEF AppendBegin, TypeOK
    <2>4. total' \in Nat /\ arrived' \in Nat
      BY <1>3, SMTT(30) DEF AppendBegin, TypeOK, Count, MaxOf
    <2>6. stale' \in BOOLEAN BY <1>3 DEF AppendBegin, Count
    <2>5. retained' \in Int /\ writer' \in Appenders \cup {Nobody} /\ query' = query
      BY <1>3, <2>2 DEF AppendBegin, TypeOK
    <2> QED BY <2>1, <2>3, <2>4, <2>5, <2>6 DEF TypeOK
  <1>4. ASSUME NEW a \in Appenders, EvictOldest(a) PROVE TypeOK'
    <2>1. chunks' \in Seq(Chunk) /\ 1 \in DOMAIN chunks
      BY <1>4 DEF EvictOldest, TypeOK, MustEvict
    <2>2. retained' \in Int BY <1>4, <2>1 DEF EvictOldest, TypeOK
    <2> QED BY <1>4, <2>1, <2>2 DEF EvictOldest, TypeOK
  <1>5. ASSUME NEW a \in Appenders, TrimOldest(a) PROVE TypeOK'
    <2>1. 1 \in DOMAIN chunks
      BY <1>5 DEF TrimOldest, TypeOK, MustEvict
    <2>2. Excess \in Nat
      BY <1>5 DEF TrimOldest, TypeOK, MustEvict, Excess
    <2>3. Dropped(chunks[1], Excess) \in Chunk
      BY <1>5, <2>1, <2>2, SMTT(30) DEF TrimOldest, Dropped, Chunk
    <2>4. chunks' \in Seq(Chunk)
      <3> DEFINE d == Dropped(chunks[1], Excess)
      <3>1. d \in Chunk /\ chunks \in Seq(Chunk) BY <2>3 DEF TypeOK
      <3> HIDE DEF d
      <3>2. [chunks EXCEPT ![1] = d] \in Seq(Chunk) BY <2>1, <3>1, ExceptSeq
      <3> QED BY <1>5, <3>2 DEF TrimOldest, d
    <2> QED BY <1>5, <2>2, <2>4 DEF TrimOldest, TypeOK
  <1>6. ASSUME NEW a \in Appenders, AppendEnd(a) PROVE TypeOK'
    <2>1. appender' \in [Appenders -> AppenderStates]
      BY <1>6 DEF AppendEnd, TypeOK, AppenderStates, NoAppend
    <2> QED BY <1>6, <2>1 DEF AppendEnd, TypeOK
  <1>7. ASSUME Reset PROVE TypeOK'
    BY <1>7 DEF Reset, TypeOK
  <1>8. ASSUME NEW o \in Offsets, NEW n \in Counts, QueryRefused(o, n) PROVE TypeOK'
    <2>1. Clamped(o) \in Nat /\ n \in Int BY QueryAssumption DEF Clamped
    <2>2. query' \in QueryStates
      <3>1. query' = [pc |-> "refused", offset |-> Clamped(o), remaining |-> n, idx |-> 0,
                      off |-> 0, got |-> 0, pieces |-> << >>]
        BY <1>8 DEF QueryRefused, NoQuery
      <3> QED BY <2>1, <1>b, <3>1 DEF QueryStates
    <2> QED BY <1>8, <2>2 DEF QueryRefused, TypeOK
  <1>9. ASSUME NEW o \in Offsets, NEW n \in Counts, NEW i \in DOMAIN chunks,
               QueryBegin(o, n, i) PROVE TypeOK'
    <2>1. Clamped(o) \in Nat /\ n \in Int /\ MinOf(n, total - Clamped(o)) \in Int
      BY QueryAssumption DEF Clamped, MinOf, TypeOK
    <2>2. Clamped(o) - chunks[i].base \in Int /\ i \in Nat BY <2>1
    <2>3. query' \in QueryStates
      <3>1. query' = [pc |-> "copy", offset |-> Clamped(o),
                      remaining |-> MinOf(n, total - Clamped(o)), idx |-> i,
                      off |-> Clamped(o) - chunks[i].base, got |-> 0, pieces |-> << >>]
        BY <1>9 DEF QueryBegin, NoQuery
      <3> QED BY <2>1, <2>2, <1>b, <3>1 DEF QueryStates
    <2> QED BY <1>9, <2>3 DEF QueryBegin, TypeOK
  <1>10. ASSUME QueryCopy PROVE TypeOK'
    <2>1. query.idx \in DOMAIN chunks BY <1>10 DEF QueryCopy, CopyLeft
    <2>2. Available \in Int BY <2>1 DEF Available, MinOf
    <2>3. CurrentPiece \in Piece BY <2>1, <2>2 DEF CurrentPiece, Piece
    <2> DEFINE ps == Append(query.pieces, CurrentPiece)
    <2>4. ps \in Seq(Piece) BY <2>3
    <2> HIDE DEF ps
    <2>5. query' = [pc |-> "copy", offset |-> query.offset,
                    remaining |-> query.remaining - Available, idx |-> query.idx + 1,
                    off |-> 0, got |-> query.got + Available, pieces |-> ps]
      BY <1>10 DEF QueryCopy, TypeOK, QueryStates, ps
    <2>6. query' \in QueryStates BY <2>2, <2>4, <2>5 DEF QueryStates
    <2> QED BY <1>10, <2>6 DEF QueryCopy, TypeOK
  <1>11. ASSUME QueryEnd PROVE TypeOK'
    <2>0. query' = [pc |-> "done", offset |-> query.offset, remaining |-> query.remaining,
                    idx |-> 0, off |-> 0, got |-> query.got, pieces |-> query.pieces]
      BY <1>11 DEF QueryEnd, TypeOK, QueryStates
    <2>1. query' \in QueryStates BY <2>0 DEF QueryStates
    <2> QED BY <1>11, <2>1 DEF QueryEnd, TypeOK
  <1>12. ASSUME QueryReturn PROVE TypeOK'
    <2>1. query' \in QueryStates BY <1>12, <1>b DEF QueryReturn, QueryStates, NoQuery
    <2> QED BY <1>12, <2>1 DEF QueryReturn, TypeOK
  <1>13. CASE UNCHANGED vars
    BY <1>13 DEF vars, TypeOK
  <1> QED
    BY ONLY [Next]_vars, <1>1, <1>2, <1>3, <1>4, <1>5, <1>6, <1>7, <1>8, <1>9, <1>10,
       <1>11, <1>12, <1>13 DEF Next, AppenderStep, QueryStep

\* The chunks after AppendBegin.
LEMMA Appended ==
  ASSUME TypeOK, NEW a \in Appenders, AppendBegin(a)
  PROVE  /\ Len(chunks') = Len(chunks) + 1
         /\ DOMAIN chunks' = 1 .. Len(chunks) + 1
         /\ \A i \in 1 .. Len(chunks) : chunks'[i] = chunks[i]
         /\ chunks'[Len(chunks) + 1] = NewChunk(a)
  <1>1. chunks \in Seq(Chunk) /\ NewChunk(a) \in Chunk BY NewChunkType DEF TypeOK
  <1>2. chunks' = Append(chunks, NewChunk(a)) BY DEF AppendBegin
  <1> QED BY <1>1, <1>2, AppendProperties

\* The chunks after EvictOldest.
LEMMA Evicted ==
  ASSUME TypeOK, NEW a \in Appenders, EvictOldest(a)
  PROVE  /\ Len(chunks) > 0 /\ Len(chunks') = Len(chunks) - 1
         /\ DOMAIN chunks' = 1 .. Len(chunks) - 1
         /\ \A i \in 1 .. Len(chunks) - 1 : chunks'[i] = chunks[i + 1]
  <1>1. chunks \in Seq(Chunk) /\ chunks # << >> /\ chunks' = Tail(chunks)
    BY DEF TypeOK, EvictOldest, MustEvict
  <1> QED BY <1>1, HeadTailProperties

\* The chunks after TrimOldest.
LEMMA Trimmed ==
  ASSUME TypeOK, NEW a \in Appenders, TrimOldest(a)
  PROVE  /\ Len(chunks) > 0 /\ Len(chunks') = Len(chunks)
         /\ DOMAIN chunks' = 1 .. Len(chunks)
         /\ \A i \in 2 .. Len(chunks) : chunks'[i] = chunks[i]
         /\ chunks'[1].base = chunks[1].base + Excess
         /\ chunks'[1].first = chunks[1].first + Excess
         /\ chunks'[1].len = chunks[1].len - Excess
  <1>1. chunks \in Seq(Chunk) /\ chunks # << >>
    BY DEF TypeOK, TrimOldest, MustEvict
  <1>2. chunks' = [chunks EXCEPT ![1] = Dropped(chunks[1], Excess)]
    BY DEF TrimOldest
  <1> QED BY <1>1, <1>2 DEF Dropped

\* An append whose base is not stale counts its bytes on top of the others.
LEMMA Counting ==
  ASSUME TypeOK, NEW a \in Appenders, Count(a), ~stale'
  PROVE  /\ ~stale /\ appender[a].base = total /\ appender[a].len \in Nat
         /\ total' = total + appender[a].len /\ arrived' = arrived + appender[a].len
  <1>1. ~stale /\ appender[a].base = total BY DEF Count
  <1>2. appender[a].len \in Nat /\ total \in Nat BY Elements DEF ElementTypes, TypeOK
  <1> QED BY <1>1, <1>2 DEF Count, MaxOf

\* A base once stale stays so.
LEMMA Monotone == ASSUME TypeOK, [Next]_vars, ~stale' PROVE ~stale
  <1> USE DEF ring, history
  <1>1. ASSUME NEW a \in Appenders, AppenderStep(a) PROVE ~stale
    <2>1. CASE AppendNothing(a) \/ AppendBegin(a)
      BY <2>1, Counting DEF AppendNothing, AppendBegin
    <2>2. CASE ~(AppendNothing(a) \/ AppendBegin(a))
      BY <1>1, <2>2 DEF AppenderStep, TakeBase, EvictOldest, TrimOldest, AppendEnd
    <2> QED BY <2>1, <2>2
  <1>2. CASE Reset BY <1>2 DEF Reset
  <1>3. CASE QueryStep
    BY <1>3 DEF QueryStep, QueryRefused, QueryBegin, QueryCopy, QueryEnd, QueryReturn
  <1>4. CASE UNCHANGED vars BY <1>4 DEF vars
  <1> QED BY <1>1, <1>2, <1>3, <1>4 DEF Next

\* Where no base is stale, Total() counts the bytes.
LEMMA StaleStep == ASSUME TypeOK, Seen, [Next]_vars, ~stale' PROVE Seen'
  <1> USE DEF ring, history, Seen, TypeOK
  <1>1. ASSUME NEW a \in Appenders, AppenderStep(a) PROVE Seen'
    <2>1. CASE AppendNothing(a) \/ AppendBegin(a)
      BY <2>1, Counting DEF AppendNothing, AppendBegin
    <2>2. CASE ~(AppendNothing(a) \/ AppendBegin(a))
      BY <1>1, <2>2 DEF AppenderStep, TakeBase, EvictOldest, TrimOldest, AppendEnd
    <2> QED BY <2>1, <2>2
  <1>2. CASE Reset BY <1>2 DEF Reset
  <1>3. CASE QueryStep
    BY <1>3 DEF QueryStep, QueryRefused, QueryBegin, QueryCopy, QueryEnd, QueryReturn
  <1>4. CASE UNCHANGED vars BY <1>4 DEF vars
  <1> QED BY <1>1, <1>2, <1>3, <1>4 DEF Next

\* Every step respects the lock.
LEMMA LockingStep == ASSUME TypeOK, Locking, [Next]_vars PROVE Locking'
  <1>0. ElementTypes BY Elements
  <1> USE <1>0, NobodyAssumption
      DEF ring, history, Locking, TypeOK, ElementTypes, AppenderStates
  <1>1. ASSUME NEW a \in Appenders, NEW n \in Lengths, TakeBase(a, n) PROVE Locking'
    BY <1>1 DEF TakeBase, CanRLock
  <1>2. ASSUME NEW a \in Appenders, AppendNothing(a) PROVE Locking'
    BY <1>2 DEF AppendNothing, NoAppend, CanLock
  <1>3. ASSUME NEW a \in Appenders, AppendBegin(a) PROVE Locking'
    BY <1>3 DEF AppendBegin, CanLock
  <1>4. ASSUME NEW a \in Appenders, EvictOldest(a) PROVE Locking'
    BY <1>4 DEF EvictOldest
  <1>5. ASSUME NEW a \in Appenders, TrimOldest(a) PROVE Locking'
    BY <1>5 DEF TrimOldest
  <1>6. ASSUME NEW a \in Appenders, AppendEnd(a) PROVE Locking'
    BY <1>6 DEF AppendEnd, NoAppend
  <1>7. ASSUME Reset PROVE Locking'
    BY <1>7 DEF Reset, CanLock
  <1>8. ASSUME NEW o \in Offsets, NEW n \in Counts, QueryRefused(o, n) PROVE Locking'
    BY <1>8 DEF QueryRefused, NoQuery
  <1>9. ASSUME NEW o \in Offsets, NEW n \in Counts, NEW i \in DOMAIN chunks,
               QueryBegin(o, n, i) PROVE Locking'
    BY <1>9 DEF QueryBegin, NoQuery, CanRLock
  <1>10. ASSUME QueryCopy PROVE Locking'
    BY <1>10 DEF QueryCopy
  <1>11. ASSUME QueryEnd PROVE Locking'
    BY <1>11 DEF QueryEnd, QueryStates
  <1>12. ASSUME QueryReturn PROVE Locking'
    BY <1>12 DEF QueryReturn, NoQuery
  <1>13. CASE UNCHANGED vars
    BY <1>13 DEF vars
  <1> QED
    BY ONLY [Next]_vars, <1>1, <1>2, <1>3, <1>4, <1>5, <1>6, <1>7, <1>8, <1>9, <1>10,
       <1>11, <1>12, <1>13 DEF Next, AppenderStep, QueryStep

\* The ring's own parts of the invariant.
RingParts == Ordered /\ Joined /\ Filled

\* Between two Appends the chunks join without a gap, and retained spans them.
LEMMA NoGap ==
  ASSUME RingInv, writer = Nobody
  PROVE  /\ \A i \in 2 .. Len(chunks) : chunks[i].base = End(chunks[i - 1])
         /\ chunks # << >> => retained = total - chunks[1].base
         /\ chunks # << >> => End(chunks[Len(chunks)]) = total
         /\ retained = MinOf(total, Capacity)
  <1>0. TypeOK /\ Ordered /\ Joined /\ Filled /\ ElementTypes
    BY Elements DEF RingInv
  <1> DEFINE n == Len(chunks)
  <1>1. CASE chunks = << >>
    BY <1>0, <1>1, SizeAssumption DEF Filled, MinOf, TypeOK
  <1>2. CASE chunks # << >>
    <2>1. n \in DOMAIN chunks /\ 1 \in DOMAIN chunks /\ n >= 1
      BY <1>0, <1>2 DEF ElementTypes, TypeOK
    <2>2. n > 1 => n - 1 \in DOMAIN chunks /\ End(chunks[n - 1]) > chunks[1].base
      <3> SUFFICES ASSUME n > 1 PROVE n - 1 \in DOMAIN chunks /\ End(chunks[n - 1]) > chunks[1].base
        OBVIOUS
      <3>1. n \in Nat /\ n - 1 \in DOMAIN chunks BY <1>0, <2>1 DEF ElementTypes
      <3> DEFINE m == n - 1
      <3>2. /\ chunks[m].len \in Nat /\ chunks[m].len > 0 /\ chunks[m].base \in Int
            /\ chunks[1].len \in Nat /\ chunks[1].len > 0 /\ chunks[1].base \in Int
        BY <1>0, <2>1, <3>1 DEF ElementTypes, Ordered
      <3>3. 1 < m => End(chunks[1]) <= chunks[m].base
        BY <1>0, <2>1, <3>1 DEF Ordered
      <3>6. n \in Nat BY <3>1
      <3>4. m = 1 \/ 1 < m
        <4> HIDE DEF n
        <4> QED BY ONLY <3>6, n > 1
      <3> HIDE DEF m
      <3>5. End(chunks[m]) > chunks[1].base BY <3>2, <3>3, <3>4 DEF End
      <3> QED BY <3>1, <3>5 DEF m
    <2>3. retained <= Capacity BY <1>0 DEF Filled
    <2>a. /\ End(chunks[n]) = total
          /\ n = 1 => retained = chunks[n].len
          /\ n > 1 =>
              /\ retained = End(chunks[n - 1]) - chunks[1].base + chunks[n].len
              /\ chunks[n].base = End(chunks[n - 1]) \/ chunks[n].len = Capacity
      BY <1>0, <2>1 DEF Joined
    <2>b. /\ chunks[n].len \in Nat /\ chunks[n].base \in Int /\ chunks[1].base \in Int
          /\ n > 1 => End(chunks[n - 1]) \in Int
          /\ retained \in Int /\ total \in Nat /\ Capacity \in Nat /\ n \in Nat
      <3>1. n \in Nat BY <1>0 DEF ElementTypes
      <3>2. retained \in Int /\ total \in Nat /\ Capacity \in Nat
        BY <1>0, SizeAssumption DEF TypeOK
      <3>3. \A i \in DOMAIN chunks : End(chunks[i]) \in Int /\ chunks[i].base \in Int
        BY <1>0 DEF ElementTypes, End
      <3>4. chunks[n].len \in Nat BY <1>0, <2>1 DEF ElementTypes
      <3> QED BY <2>1, <2>2, <3>1, <3>2, <3>3, <3>4
    <2>4. n > 1 => chunks[n].base = End(chunks[n - 1])
      BY <2>a, <2>b, <2>2, <2>3
    <2>5. \A i \in 2 .. n : chunks[i].base = End(chunks[i - 1])
      BY <1>0, <2>4 DEF Joined, ElementTypes
    <2>6. retained = total - chunks[1].base /\ End(chunks[n]) = total
      <3>1. CASE n = 1 BY <2>a, <2>b, <3>1 DEF End
      <3>2. CASE n > 1
        <4>1. retained = chunks[n].base - chunks[1].base + chunks[n].len
          BY <2>a, <2>4, <3>2
        <4> QED BY <2>a, <2>b, <4>1 DEF End
      <3>4. n \in Nat BY <2>b
      <3>5. n >= 1 BY <2>1
      <3>3. n = 1 \/ n > 1
        <4> HIDE DEF n
        <4> QED BY ONLY <3>4, <3>5
      <3> QED BY <3>1, <3>2, <3>3
    <2>7. retained = MinOf(total, Capacity)
      BY <1>0, <1>2, <2>1, <2>3, <2>6, SizeAssumption
         DEF Filled, Ordered, MinOf, ElementTypes, TypeOK
    <2> QED BY <2>5, <2>6, <2>7
  <1> QED BY <1>1, <1>2

\* AppendBegin adds a chunk at the end of the stream.
LEMMA AppendBeginParts ==
  ASSUME RingInv, NEW a \in Appenders, AppendBegin(a), ~stale'
  PROVE  RingParts'
  <1>0. TypeOK /\ Seen /\ Ordered /\ Joined /\ Filled /\ ElementTypes
    BY Elements DEF RingInv
  <1> DEFINE n == Len(chunks)
             c == NewChunk(a)
  <1>1. /\ Len(chunks') = n + 1 /\ DOMAIN chunks' = 1 .. n + 1
        /\ \A i \in 1 .. n : chunks'[i] = chunks[i]
        /\ chunks'[n + 1] = c
    BY <1>0, Appended
  <1>2. writer = Nobody /\ n \in Nat /\ DOMAIN chunks = 1 .. n /\ Capacity > 0
    BY <1>0 DEF AppendBegin, CanLock, ElementTypes
  <1>3. /\ appender[a].base = total /\ total = arrived
        /\ appender[a].len \in Nat /\ appender[a].len > 0
    BY <1>0, Counting DEF Seen, AppendBegin
  <1>4. total' = total + appender[a].len
    BY <1>0, Counting DEF AppendBegin
  <1>5. /\ c.base \in Int /\ c.first \in Nat /\ c.len \in Nat
        /\ c.len = MinOf(appender[a].len, Capacity)
        /\ End(c) = total' /\ c.first = c.base /\ c.base >= total
        /\ appender[a].len <= Capacity => c.base = total
    BY <1>0, <1>3, <1>4, NewChunkType DEF Chunk, TypeOK
  <1>6. c.len > 0 /\ c.len <= Capacity /\ (c.base = total \/ c.len = Capacity)
    BY <1>2, <1>3, <1>5, SizeAssumption DEF MinOf
  <1>7. retained' = retained + c.len BY DEF AppendBegin
  <1>8. /\ \A i \in 2 .. n : chunks[i].base = End(chunks[i - 1])
        /\ n > 0 => retained = total - chunks[1].base /\ End(chunks[n]) = total
        /\ n = 0 => chunks = << >> /\ retained = 0
        /\ retained = MinOf(total, Capacity)
    BY <1>0, <1>2, NoGap DEF Filled, TypeOK
  <1>9. \A i \in 1 .. n : /\ chunks[i].base \in Int /\ chunks[i].first \in Nat
                          /\ chunks[i].len \in Nat /\ End(chunks[i]) <= total
    <2> SUFFICES ASSUME NEW i \in 1 .. n
        PROVE  /\ chunks[i].base \in Int /\ chunks[i].first \in Nat
               /\ chunks[i].len \in Nat /\ End(chunks[i]) <= total
      OBVIOUS
    <2>1. /\ chunks[i].base \in Int /\ chunks[i].first \in Nat /\ chunks[i].len \in Nat
          /\ chunks[n].base \in Int /\ chunks[n].len \in Nat /\ chunks[n].len > 0
      BY <1>0, <1>2 DEF ElementTypes, Ordered
    <2>2. i < n => End(chunks[i]) <= chunks[n].base BY <1>0, <1>2 DEF Ordered
    <2>0. n \in Nat BY <1>2
    <2>3. i = n \/ i < n BY ONLY <2>0, i \in 1 .. n
    <2>4. n > 0 BY ONLY <2>0, i \in 1 .. n
    <2>5. End(chunks[n]) = total BY <1>8, <2>4
    <2>6. CASE i = n BY <1>0, <2>1, <2>5, <2>6 DEF TypeOK
    <2>7. CASE i < n
      <3>1. End(chunks[i]) <= chunks[n].base BY <2>2, <2>7
      <3>2. chunks[n].base < total BY ONLY <2>1, <2>5 DEF End
      <3> QED BY ONLY <1>0, <2>1, <3>1, <3>2 DEF End, TypeOK
    <2> QED BY ONLY <2>3, <2>6, <2>7
  <1>10. Ordered'
    <2>1. ASSUME NEW i \in DOMAIN chunks' PROVE
            chunks'[i].len > 0 /\ chunks'[i].base >= 0 /\ chunks'[i].first = chunks'[i].base
      <3>1. CASE i = n + 1 BY <1>0, <1>1, <1>5, <1>6, <3>1 DEF TypeOK
      <3>2. CASE i \in 1 .. n BY <1>0, <1>1, <1>2, <3>2 DEF Ordered
      <3> QED BY <1>1, <1>2, <2>1, <3>1, <3>2
    <2>2. ASSUME NEW i \in DOMAIN chunks', NEW j \in DOMAIN chunks', i < j
          PROVE  End(chunks'[i]) <= chunks'[j].base
      <3>1. i \in 1 .. n BY <1>1, <1>2, <2>2
      <3>2. CASE j = n + 1
        <4>1. End(chunks[i]) <= total /\ End(chunks[i]) \in Int BY <1>9, <3>1 DEF End
        <4> QED BY <1>0, <1>1, <1>5, <3>1, <3>2, <4>1 DEF TypeOK
      <3>3. CASE j \in 1 .. n BY <1>0, <1>1, <1>2, <2>2, <3>1, <3>3 DEF Ordered
      <3> QED BY <1>1, <1>2, <2>2, <3>2, <3>3
    <2> QED BY <2>1, <2>2 DEF Ordered, End
  <1>11. Joined'
    <2>1. ASSUME NEW i \in 2 .. Len(chunks') - 1 PROVE chunks'[i].base = End(chunks'[i - 1])
      BY <1>1, <1>2, <1>8, <2>1
    <2>2. n = 0 => retained' = c.len BY <1>7, <1>8, <1>5
    <2>3. n > 0 => /\ retained' = End(chunks[n]) - chunks[1].base + c.len
                   /\ c.base = End(chunks[n]) \/ c.len = Capacity
      BY <1>6, <1>7, <1>8
    <2>4. n > 0 => chunks'[n] = chunks[n] /\ chunks'[1] = chunks[1] BY <1>1, <1>2
    <2> QED BY <1>1, <1>2, <1>5, <1>6, <2>1, <2>2, <2>3, <2>4 DEF Joined, End
  <1>12. Filled'
    <2>1. chunks' # << >> /\ writer' # Nobody
      BY <1>1, <1>2, NobodyAssumption DEF AppendBegin
    <2>2. CASE n = 0
      <3>1. total = 0 BY <1>0, <1>2, <1>8, <2>2 DEF Filled
      <3>2. chunks'[1] = c BY <1>1, <2>2
      <3> QED BY <1>2, <1>5, <1>6, <1>7, <1>8, <2>1, <2>2, <3>1, <3>2, SizeAssumption DEF Filled
    <2>3. CASE n > 0
      <3>1. chunks'[1] = chunks[1] /\ chunks # << >> BY <1>1, <1>2, <2>3
      <3>2. chunks[1].base = 0 \/ retained >= Capacity BY <1>0, <3>1 DEF Filled
      <3> QED BY <1>0, <1>2, <1>5, <1>7, <2>1, <3>1, <3>2, SizeAssumption DEF Filled, TypeOK
    <2> QED BY <1>2, <2>2, <2>3
  <1> QED BY <1>10, <1>11, <1>12 DEF RingParts

\* EvictOldest drops the oldest chunk.
LEMMA EvictOldestParts ==
  ASSUME RingInv, NEW a \in Appenders, EvictOldest(a)
  PROVE  RingParts'
  <1>0. TypeOK /\ Locking /\ Ordered /\ Joined /\ Filled /\ ElementTypes
    BY Elements DEF RingInv
  <1> DEFINE n == Len(chunks)
  <1>1. /\ n > 0 /\ Len(chunks') = n - 1 /\ DOMAIN chunks' = 1 .. n - 1
        /\ \A i \in 1 .. n - 1 : chunks'[i] = chunks[i + 1]
    BY <1>0, Evicted
  <1>2. n \in Nat BY <1>0 DEF ElementTypes
  <1>a. DOMAIN chunks = 1 .. n BY <1>0 DEF ElementTypes
  <1>3. /\ total' = total /\ retained' = retained - chunks[1].len
        /\ retained - Capacity >= chunks[1].len /\ writer = a /\ writer' = a
        /\ chunks # << >>
    BY <1>0, SizeAssumption DEF EvictOldest, Excess, MustEvict, ElementTypes, TypeOK
  <1>4. 1 \in 1 .. n /\ n \in 1 .. n BY ONLY <1>1, <1>2
  <1>5. \A i \in 1 .. n : /\ chunks[i].base \in Int /\ chunks[i].first \in Nat
                          /\ chunks[i].len \in Nat /\ chunks[i].len > 0
                          /\ End(chunks[i]) \in Int
    BY <1>0, <1>a DEF ElementTypes, Ordered, End
  <1>6. retained \in Int /\ Capacity \in Nat /\ total \in Nat /\ Capacity > 0
    BY <1>0, <1>3, SizeAssumption DEF TypeOK, Filled
  <1>7. /\ End(chunks[n]) = total /\ chunks[n].len <= Capacity
        /\ n = 1 => retained = chunks[n].len
        /\ n > 1 =>
            /\ retained = End(chunks[n - 1]) - chunks[1].base + chunks[n].len
            /\ chunks[n].base = End(chunks[n - 1]) \/ chunks[n].len = Capacity
    BY <1>0, <1>a, <1>4 DEF Joined
  <1>8. n # 1
    <2> SUFFICES ASSUME n = 1 PROVE FALSE
      OBVIOUS
    <2>1. retained = chunks[1].len /\ chunks[1].len > 0 /\ chunks[1].len \in Nat
      BY <1>4, <1>5, <1>7
    <2> QED BY ONLY <1>3, <1>6, <2>1
  <1>9. n > 1 /\ 2 \in 1 .. n /\ n - 1 \in 1 .. n BY ONLY <1>2, <1>1, <1>8
  <1>10. Ordered'
    <2>1. \A i \in 1 .. n - 1 : i + 1 \in 1 .. n BY ONLY <1>2
    <2>2. ASSUME NEW i \in DOMAIN chunks' PROVE
            chunks'[i].len > 0 /\ chunks'[i].base >= 0 /\ chunks'[i].first = chunks'[i].base
      BY <1>0, <1>1, <1>a, <2>1, <2>2 DEF Ordered
    <2>3. ASSUME NEW i \in DOMAIN chunks', NEW j \in DOMAIN chunks', i < j
          PROVE  End(chunks'[i]) <= chunks'[j].base
      <3>1. i \in 1 .. n - 1 /\ j \in 1 .. n - 1 BY <1>1
      <3>2. i + 1 < j + 1 BY ONLY <1>2, <2>3, <3>1
      <3> QED BY <1>0, <1>1, <1>a, <2>1, <3>1, <3>2 DEF Ordered
    <2> QED BY <2>2, <2>3 DEF Ordered, End
  <1>11. Joined'
    <2>1. ASSUME NEW i \in 2 .. Len(chunks') - 1 PROVE chunks'[i].base = End(chunks'[i - 1])
      <3>1. i \in 2 .. n - 2 BY <1>1, <2>1
      <3>2. i + 1 \in 2 .. n - 1 /\ i \in 1 .. n - 1 /\ i - 1 \in 1 .. n - 1 /\ (i - 1) + 1 = i
            /\ (i + 1) - 1 = i
        BY ONLY <1>2, <3>1
      <3>3. chunks[i + 1].base = End(chunks[i]) BY <1>0, <3>2 DEF Joined
      <3> QED BY <1>1, <3>2, <3>3
    <2>2. chunks'[n - 1] = chunks[n] /\ chunks'[1] = chunks[2]
      <3>1. (n - 1) + 1 = n /\ n - 1 \in 1 .. n - 1 /\ 1 \in 1 .. n - 1 BY ONLY <1>2, <1>9
      <3> QED BY <1>1, <3>1
    <2>3. CASE n = 2
      <3>1. retained = End(chunks[1]) - chunks[1].base + chunks[2].len
        BY <1>7, <1>9, <2>3
      <3>2. retained' = chunks[2].len
        <4>1. chunks[1].base \in Int /\ chunks[1].len \in Nat /\ chunks[2].len \in Nat
          BY <1>4, <1>5, <1>9
        <4> QED BY ONLY <1>3, <3>1, <4>1 DEF End
      <3> QED BY <1>1, <1>3, <1>7, <2>1, <2>2, <2>3, <3>2 DEF Joined, End
    <2>4. CASE n > 2
      <3>1. 2 \in 2 .. n - 1 BY ONLY <1>2, <2>4
      <3>2. chunks[2].base = End(chunks[1]) BY <1>0, <3>1 DEF Joined
      <3>3. retained' = End(chunks[n - 1]) - chunks[2].base + chunks[n].len
        <4>1. /\ chunks[1].base \in Int /\ chunks[1].len \in Nat /\ chunks[2].base \in Int
              /\ End(chunks[n - 1]) \in Int /\ chunks[n].len \in Nat
          BY <1>4, <1>5, <1>9
        <4>2. retained = End(chunks[n - 1]) - chunks[1].base + chunks[n].len
          BY <1>7, <1>9
        <4>3. chunks[2].base = chunks[1].base + chunks[1].len BY <3>2 DEF End
        <4> DEFINE e == End(chunks[n - 1])
                   b1 == chunks[1].base
                   l1 == chunks[1].len
                   l == chunks[n].len
        <4>4. /\ e \in Int /\ b1 \in Int /\ l1 \in Int /\ l \in Int
              /\ retained' = retained - l1 /\ retained = e - b1 + l
              /\ chunks[2].base = b1 + l1
          BY <1>3, <4>1, <4>2, <4>3
        <4> HIDE DEF e, b1, l1, l, n
        <4>5. (e - b1 + l) - l1 = e - (b1 + l1) + l BY ONLY <4>4
        <4>6. retained' = e - chunks[2].base + l BY ONLY <4>4, <4>5
        <4> QED BY <4>6 DEF e, l
      <3>4. chunks'[(n - 1) - 1] = chunks[n - 1]
        <4>1. (n - 1) - 1 \in 1 .. n - 1 /\ ((n - 1) - 1) + 1 = n - 1 BY ONLY <1>2, <2>4
        <4> QED BY <1>1, <4>1
      <3>5. chunks[n].base = End(chunks[n - 1]) \/ chunks[n].len = Capacity BY <1>7, <1>9
      <3> QED BY <1>1, <1>3, <1>7, <2>1, <2>2, <2>4, <3>3, <3>4, <3>5 DEF Joined, End
    <2>5. n = 2 \/ n > 2
      <3> HIDE DEF n
      <3> QED BY ONLY <1>2, <1>9
    <2> QED BY <2>3, <2>4, <2>5
  <1>12. Filled'
    <2>1. retained' >= Capacity BY <1>3, <1>4, <1>5, <1>6
    <2>2. chunks' # << >> BY <1>1, <1>2, <1>9
    <2> QED BY <1>3, <1>6, <2>1, <2>2, NobodyAssumption DEF Filled
  <1> QED BY <1>10, <1>11, <1>12 DEF RingParts

\* TrimOldest cuts the oldest chunk at its old end.
LEMMA TrimOldestParts ==
  ASSUME RingInv, NEW a \in Appenders, TrimOldest(a)
  PROVE  RingParts'
  <1>0. TypeOK /\ Locking /\ Ordered /\ Joined /\ Filled /\ ElementTypes
    BY Elements DEF RingInv
  <1> DEFINE n == Len(chunks)
  <1>1. /\ n > 0 /\ Len(chunks') = n /\ DOMAIN chunks' = 1 .. n
        /\ \A i \in 2 .. n : chunks'[i] = chunks[i]
        /\ chunks'[1].base = chunks[1].base + Excess
        /\ chunks'[1].first = chunks[1].first + Excess
        /\ chunks'[1].len = chunks[1].len - Excess
    BY <1>0, Trimmed
  <1>2. n \in Nat BY <1>0 DEF ElementTypes
  <1>a. DOMAIN chunks = 1 .. n BY <1>0 DEF ElementTypes
  <1>3. /\ total' = total /\ retained' = retained - Excess /\ Excess = retained - Capacity
        /\ chunks[1].len > Excess /\ Excess > 0 /\ writer = a /\ writer' = a
        /\ chunks # << >>
    BY DEF TrimOldest, Excess, MustEvict
  <1>4. 1 \in 1 .. n /\ n \in 1 .. n BY ONLY <1>1, <1>2
  <1>5. \A i \in 1 .. n : /\ chunks[i].base \in Int /\ chunks[i].first \in Nat
                          /\ chunks[i].len \in Nat /\ chunks[i].len > 0
                          /\ End(chunks[i]) \in Int
    BY <1>0, <1>a DEF ElementTypes, Ordered, End
  <1>6. /\ retained \in Int /\ Capacity \in Nat /\ total \in Nat /\ Capacity > 0
        /\ Excess \in Int
    BY <1>0, <1>3, SizeAssumption DEF TypeOK, Filled
  <1>7. /\ End(chunks[n]) = total /\ chunks[n].len <= Capacity
        /\ n = 1 => retained = chunks[n].len
        /\ n > 1 =>
            /\ retained = End(chunks[n - 1]) - chunks[1].base + chunks[n].len
            /\ chunks[n].base = End(chunks[n - 1]) \/ chunks[n].len = Capacity
    BY <1>0, <1>a, <1>4 DEF Joined
  <1>8. n # 1
    <2> SUFFICES ASSUME n = 1 PROVE FALSE
      OBVIOUS
    <2>1. retained = chunks[1].len /\ chunks[1].len <= Capacity /\ chunks[1].len \in Nat
      BY <1>4, <1>5, <1>7
    <2> QED BY ONLY <1>3, <1>6, <2>1
  <1>9. n > 1 /\ 2 \in 1 .. n /\ n - 1 \in 1 .. n BY ONLY <1>2, <1>1, <1>8
  <1>b. chunks[1].base \in Int /\ chunks[1].len \in Nat BY <1>4, <1>5
  <1>c. End(chunks'[1]) = End(chunks[1])
    BY ONLY <1>1, <1>6, <1>b DEF End
  <1>d. \A i \in 1 .. n : End(chunks'[i]) = End(chunks[i])
    <2> SUFFICES ASSUME NEW i \in 1 .. n PROVE End(chunks'[i]) = End(chunks[i])
      OBVIOUS
    <2>1. i = 1 \/ i \in 2 .. n BY ONLY <1>2, i \in 1 .. n
    <2> QED BY <1>1, <1>c, <2>1
  <1>10. Ordered'
    <2>1. ASSUME NEW i \in DOMAIN chunks' PROVE
            chunks'[i].len > 0 /\ chunks'[i].base >= 0 /\ chunks'[i].first = chunks'[i].base
      <3>0. i \in 1 .. n BY <1>1
      <3>1. i = 1 \/ i \in 2 .. n BY ONLY <1>2, <3>0
      <3>2. chunks[1].base >= 0 /\ chunks[1].first = chunks[1].base BY <1>0, <1>a, <1>4 DEF Ordered
      <3>3. CASE i = 1
        <4>1. chunks'[1].len > 0 /\ chunks'[1].base >= 0 BY ONLY <1>1, <1>3, <1>6, <1>b, <3>2
        <4> QED BY <1>1, <3>2, <3>3, <4>1
      <3>4. CASE i \in 2 .. n BY <1>0, <1>a, <1>1, <3>0, <3>4 DEF Ordered
      <3> QED BY ONLY <3>1, <3>3, <3>4
    <2>2. ASSUME NEW i \in DOMAIN chunks', NEW j \in DOMAIN chunks', i < j
          PROVE  End(chunks'[i]) <= chunks'[j].base
      <3>1. i \in 1 .. n /\ j \in 1 .. n BY <1>1
      <3>2. j \in 2 .. n BY ONLY <1>2, <2>2, <3>1
      <3>3. chunks'[j] = chunks[j] BY <1>1, <3>2
      <3> QED BY <1>0, <1>a, <1>d, <2>2, <3>1, <3>3 DEF Ordered
    <2> QED BY <2>1, <2>2 DEF Ordered, End
  <1>11. Joined'
    <2>1. ASSUME NEW i \in 2 .. Len(chunks') - 1 PROVE chunks'[i].base = End(chunks'[i - 1])
      <3>1. i \in 2 .. n - 1 BY <1>1
      <3>2. i \in 2 .. n /\ i - 1 \in 1 .. n BY ONLY <1>2, <3>1
      <3> QED BY <1>0, <1>1, <1>d, <3>1, <3>2 DEF Joined
    <2>2. n \in 2 .. n BY ONLY <1>2, <1>9
    <2>3. chunks'[n] = chunks[n] BY <1>1, <2>2
    <2>4. End(chunks'[n - 1]) = End(chunks[n - 1]) /\ End(chunks'[n]) = total' BY <1>3, <1>7, <1>9, <1>d, <1>4
    <2>5. retained' = End(chunks'[n - 1]) - chunks'[1].base + chunks'[n].len
      <3>1. End(chunks[n - 1]) \in Int /\ chunks[n].len \in Nat BY <1>4, <1>5, <1>9
      <3>2. retained = End(chunks[n - 1]) - chunks[1].base + chunks[n].len BY <1>7, <1>9
      <3>3. retained' = End(chunks[n - 1]) - (chunks[1].base + Excess) + chunks[n].len
        <4>1. retained' = retained - Excess BY <1>3
        <4>2. retained \in Int /\ Excess \in Int BY <1>6
        <4> HIDE DEF n
        <4> QED BY ONLY <4>1, <4>2, <1>b, <3>1, <3>2
      <3> QED BY <1>1, <2>3, <2>4, <3>3
    <2>6. chunks[n].base = End(chunks[n - 1]) \/ chunks[n].len = Capacity BY <1>7, <1>9
    <2> QED BY <1>1, <1>7, <1>8, <2>1, <2>3, <2>4, <2>5, <2>6 DEF Joined, End
  <1>12. Filled'
    <2>1. retained' = Capacity BY ONLY <1>3, <1>6
    <2>2. chunks' # << >> BY <1>1, <1>2
    <2> QED BY <1>3, <1>6, <2>1, <2>2, NobodyAssumption DEF Filled
  <1> QED BY <1>10, <1>11, <1>12 DEF RingParts

\* Every step keeps the ring's parts of the invariant.
LEMMA RingStep == ASSUME RingInv, [Next]_vars, ~stale' PROVE RingParts'
  <1>0. TypeOK /\ Locking /\ Ordered /\ Joined /\ Filled /\ ElementTypes
    BY Elements DEF RingInv
  <1> USE <1>0 DEF ring, history, RingParts, Ordered, Joined, Filled, End
  <1>1. ASSUME NEW a \in Appenders, NEW n \in Lengths, TakeBase(a, n) PROVE RingParts'
    BY <1>1 DEF TakeBase
  <1>2. ASSUME NEW a \in Appenders, AppendNothing(a) PROVE RingParts'
    <2>1. total' = total + appender[a].len
      BY <1>2, Counting DEF AppendNothing
    <2>2. appender[a].len = 0 \/ Capacity = 0 BY <1>2 DEF AppendNothing
    <2>3. CASE appender[a].len = 0
      <3>1. total' = total BY <2>1, <2>3 DEF TypeOK
      <3> QED BY <1>2, <3>1 DEF AppendNothing
    <2>4. CASE Capacity = 0
      <3>1. chunks = << >> /\ chunks' = << >> /\ retained' = retained
        BY <1>2, <2>4 DEF AppendNothing
      <3>2. DOMAIN chunks' = {} /\ Len(chunks') = 0 BY <3>1
      <3>3. Ordered' /\ Joined' BY <3>2
      <3>4. Filled' BY <1>2, <2>4, <3>1 DEF AppendNothing
      <3> QED BY <3>3, <3>4
    <2> QED BY <2>2, <2>3, <2>4
  <1>3. ASSUME NEW a \in Appenders, AppendBegin(a) PROVE RingParts'
    BY <1>3, AppendBeginParts
  <1>4. ASSUME NEW a \in Appenders, EvictOldest(a) PROVE RingParts'
    BY <1>4, EvictOldestParts
  <1>5. ASSUME NEW a \in Appenders, TrimOldest(a) PROVE RingParts'
    BY <1>5, TrimOldestParts
  <1>6. ASSUME NEW a \in Appenders, AppendEnd(a) PROVE RingParts'
    <2>1. retained <= Capacity
      BY <1>6, SizeAssumption DEF AppendEnd, MustEvict, Excess, TypeOK
    <2> QED BY <1>6, <2>1 DEF AppendEnd
  <1>7. ASSUME Reset PROVE RingParts'
    <2>1. chunks' = << >> /\ total' = 0 /\ retained' = 0 BY <1>7 DEF Reset
    <2>2. DOMAIN chunks' = {} /\ Len(chunks') = 0 BY <2>1
    <2>3. Ordered' /\ Joined' BY <2>2
    <2>4. Filled' BY <2>1, SizeAssumption
    <2> QED BY <2>3, <2>4
  <1>8. ASSUME NEW o \in Offsets, NEW n \in Counts, QueryRefused(o, n) PROVE RingParts'
    BY <1>8 DEF QueryRefused
  <1>9. ASSUME NEW o \in Offsets, NEW n \in Counts, NEW i \in DOMAIN chunks,
               QueryBegin(o, n, i) PROVE RingParts'
    BY <1>9 DEF QueryBegin
  <1>10. ASSUME QueryCopy PROVE RingParts'
    BY <1>10 DEF QueryCopy
  <1>11. ASSUME QueryEnd PROVE RingParts'
    BY <1>11 DEF QueryEnd
  <1>12. ASSUME QueryReturn PROVE RingParts'
    BY <1>12 DEF QueryReturn
  <1>13. CASE UNCHANGED vars
    BY <1>13 DEF vars
  <1> QED
    BY ONLY [Next]_vars, <1>1, <1>2, <1>3, <1>4, <1>5, <1>6, <1>7, <1>8, <1>9, <1>10,
       <1>11, <1>12, <1>13 DEF Next, AppenderStep, QueryStep

\* Every step keeps the part of the invariant that is about Query.
LEMMA CopyingStep == ASSUME RingInv, [Next]_vars PROVE Copying'
  <1>0. TypeOK /\ Locking /\ Ordered /\ Copying /\ ElementTypes
    BY Elements DEF RingInv
  <1>a. ASSUME query' = query, chunks' = chunks \/ query.pc # "copy",
               total' = total \/ query.pc # "copy"
        PROVE  Copying'
    BY <1>0, <1>a DEF Copying
  <1> USE DEF ring, history
  <1>1. ASSUME NEW a \in Appenders, NEW n \in Lengths, TakeBase(a, n) PROVE Copying'
    BY <1>1, <1>a DEF TakeBase
  <1>2. ASSUME NEW a \in Appenders, AppendNothing(a) PROVE Copying'
    BY <1>2, <1>a DEF AppendNothing, CanLock
  <1>3. ASSUME NEW a \in Appenders, AppendBegin(a) PROVE Copying'
    BY <1>3, <1>a DEF AppendBegin, CanLock
  <1>4. ASSUME NEW a \in Appenders, EvictOldest(a) PROVE Copying'
    BY <1>0, <1>4, <1>a, NobodyAssumption DEF EvictOldest, Locking
  <1>5. ASSUME NEW a \in Appenders, TrimOldest(a) PROVE Copying'
    BY <1>0, <1>5, <1>a, NobodyAssumption DEF TrimOldest, Locking
  <1>6. ASSUME NEW a \in Appenders, AppendEnd(a) PROVE Copying'
    BY <1>6, <1>a DEF AppendEnd
  <1>7. ASSUME Reset PROVE Copying'
    BY <1>7, <1>a DEF Reset, CanLock
  <1>8. ASSUME NEW o \in Offsets, NEW n \in Counts, QueryRefused(o, n) PROVE Copying'
    <2>1. query'.pc = "refused" /\ query'.pieces = << >>
      BY <1>8 DEF QueryRefused, NoQuery
    <2> QED BY <2>1 DEF Copying
  <1>9. ASSUME NEW o \in Offsets, NEW n \in Counts, NEW i \in DOMAIN chunks,
               QueryBegin(o, n, i) PROVE Copying'
    <2> DEFINE p == Clamped(o)
    <2>1. p \in Nat /\ n \in Int BY QueryAssumption DEF Clamped
    <2>2. /\ query' = [pc |-> "copy", offset |-> p, remaining |-> MinOf(n, total - p),
                       idx |-> i, off |-> p - chunks[i].base, got |-> 0, pieces |-> << >>]
          /\ chunks' = chunks /\ total' = total
      BY <1>9 DEF QueryBegin, NoQuery
    <2>3. n > 0 /\ p < total /\ \E j \in DOMAIN chunks : IsStart(j, p) /\ chunks[j].base <= p
      BY <1>9, <2>1, <1>0 DEF QueryBegin, Nothing, TypeOK
    <2>4. PICK j \in DOMAIN chunks : IsStart(j, p) /\ chunks[j].base <= p BY <2>3
    <2>5. IsStart(i, p) BY <1>9 DEF QueryBegin
    <2>6. i = j
      <3>1. i \in Nat /\ j \in Nat BY <1>0 DEF ElementTypes
      <3>a. End(chunks[i]) > p /\ End(chunks[j]) > p
        BY ONLY <2>4, <2>5 DEF IsStart
      <3>b. ElementTypes /\ i \in DOMAIN chunks /\ j \in DOMAIN chunks
        BY <1>0
      <3>c. End(chunks[i]) \in Int /\ End(chunks[j]) \in Int
        BY ONLY <3>b DEF ElementTypes, End
      <3>2. End(chunks[i]) > p /\ End(chunks[j]) > p /\ End(chunks[i]) \in Int /\ End(chunks[j]) \in Int
        BY ONLY <3>a, <3>c
      <3>3. ~(i < j) BY <1>0, <2>1, <2>4, <3>1, <3>2, SMTT(30) DEF IsStart, ElementTypes
      <3>4. ~(j < i) BY <1>0, <2>1, <2>5, <3>1, <3>2, SMTT(30) DEF IsStart, ElementTypes
      <3> QED BY ONLY <3>1, <3>3, <3>4
    <2>7. /\ chunks[i].base <= p /\ p < chunks[i].base + chunks[i].len
          /\ chunks[i].base \in Int /\ chunks[i].len \in Nat /\ i \in Nat /\ i > 0
      BY <1>0, <2>4, <2>5, <2>6 DEF IsStart, End, ElementTypes
    <2>8. total \in Nat BY <1>0 DEF TypeOK
    <2> HIDE DEF p
    <2>9. /\ MinOf(n, total - p) >= 0 /\ p + 0 + MinOf(n, total - p) <= total
          /\ chunks[i].base + (p - chunks[i].base) = p + 0
          /\ p - chunks[i].base >= 0 /\ p - chunks[i].base < chunks[i].len
      BY ONLY <2>1, <2>3, <2>7, <2>8 DEF MinOf
    <2> QED BY <2>2, <2>7, <2>9 DEF Copying
  <1>10. ASSUME QueryCopy PROVE Copying'
    <2> DEFINE k == query.idx
               c == chunks[k]
               av == Available
               ps == query.pieces
    <2>1. /\ query.pc = "copy" /\ query.remaining > 0
          /\ k \in DOMAIN chunks
          /\ c.base + query.off = query.offset + query.got
          /\ query.off >= 0 /\ query.off < c.len
          /\ query.got >= 0
          /\ query.offset + query.got + query.remaining <= total
          /\ writer = Nobody
      BY <1>0, <1>10 DEF QueryCopy, CopyLeft, Copying, Locking
    <2>2. /\ c.base \in Int /\ c.first \in Nat /\ c.len \in Nat /\ c.first = c.base
          /\ query.off \in Int /\ query.offset \in Nat /\ query.got \in Int
          /\ query.remaining \in Int /\ total \in Nat /\ k \in Nat /\ k > 0
      BY <1>0, <2>1 DEF ElementTypes, TypeOK, Ordered
    <2>3. /\ av \in Int /\ av > 0 /\ av <= query.remaining
          /\ av < query.remaining => av = c.len - query.off
      BY ONLY <2>1, <2>2 DEF Available, MinOf
    <2>4. /\ query' = [query EXCEPT !.remaining = @ - av, !.got = @ + av, !.idx = @ + 1,
                         !.off = 0, !.pieces = Append(@, CurrentPiece)]
          /\ chunks' = chunks /\ total' = total
      BY <1>10 DEF QueryCopy
    <2>5. /\ query'.pc = "copy" /\ query'.offset = query.offset
          /\ query'.remaining = query.remaining - av /\ query'.got = query.got + av
          /\ query'.idx = k + 1 /\ query'.off = 0
          /\ query'.pieces = Append(ps, CurrentPiece)
      BY <1>0, <2>1, <2>4 DEF TypeOK, QueryStates
    <2>6. /\ CurrentPiece.offset = query.offset + CurrentPiece.at
          /\ CurrentPiece.first = CurrentPiece.offset
      BY <2>1, <2>2 DEF CurrentPiece
    <2>7. ps \in Seq(Piece) /\ CurrentPiece \in Piece
      BY <1>0, <2>2, <2>3 DEF ElementTypes, CurrentPiece, Piece
    <2>8. ASSUME NEW x \in DOMAIN query'.pieces
          PROVE  /\ query'.pieces[x].offset = query'.offset + query'.pieces[x].at
                 /\ query'.pieces[x].first = query'.pieces[x].offset
      <3>1. /\ Len(query'.pieces) = Len(ps) + 1 /\ DOMAIN query'.pieces = 1 .. Len(ps) + 1
            /\ Len(ps) \in Nat /\ DOMAIN ps = 1 .. Len(ps)
            /\ \A y \in 1 .. Len(ps) : query'.pieces[y] = ps[y]
            /\ query'.pieces[Len(ps) + 1] = CurrentPiece
        BY <2>5, <2>7, AppendProperties
      <3>2. CASE x \in 1 .. Len(ps) BY <1>0, <2>5, <3>1, <3>2 DEF Copying
      <3>3. CASE x = Len(ps) + 1 BY <2>5, <2>6, <3>1, <3>3
      <3> QED BY <2>8, <3>1, <3>2, <3>3
    <2>9. query'.remaining > 0 =>
            /\ query'.idx \in DOMAIN chunks'
            /\ chunks'[query'.idx].base + query'.off = query'.offset + query'.got
            /\ query'.off >= 0 /\ query'.off < chunks'[query'.idx].len
      <3> SUFFICES ASSUME query'.remaining > 0
          PROVE /\ k + 1 \in DOMAIN chunks
                /\ chunks[k + 1].base = query.offset + (query.got + av)
                /\ chunks[k + 1].base \in Int
                /\ 0 < chunks[k + 1].len
        BY <2>4, <2>5
      <3>1. av = c.len - query.off BY <2>2, <2>3, <2>5
      <3>2. End(c) = query.offset + query.got + av BY <2>1, <2>2, <2>3, <3>1 DEF End
      <3>3. End(c) < total BY <2>1, <2>2, <2>3, <2>5, <3>2
      <3>4. chunks # << >> /\ End(chunks[Len(chunks)]) = total
        BY <2>1, NoGap, <1>0 DEF TypeOK, ElementTypes
      <3>5. k # Len(chunks) /\ DOMAIN chunks = 1 .. Len(chunks) /\ Len(chunks) \in Nat
        BY <1>0, <3>3, <3>4, <2>2 DEF ElementTypes, End
      <3>6. k + 1 \in 2 .. Len(chunks) /\ (k + 1) - 1 = k BY <2>1, <2>2, <3>5, SMTT(30)
      <3>7. chunks[k + 1].base = End(chunks[k]) BY <3>6, NoGap, <2>1
      <3>8. k + 1 \in DOMAIN chunks BY <3>5, <3>6
      <3>9. chunks[k + 1].base \in Int /\ 0 < chunks[k + 1].len
        BY <1>0, <3>8 DEF ElementTypes, Ordered
      <3> QED BY <2>2, <2>3, <3>2, <3>7, <3>8, <3>9
    <2>10. /\ query'.got >= 0 /\ query'.remaining >= 0 /\ query'.idx > 0
           /\ query'.offset + query'.got + query'.remaining <= total'
      <3>1. query'.idx = k + 1 /\ query'.remaining = query.remaining - av
            /\ query'.got = query.got + av /\ query'.offset = query.offset /\ total' = total
        BY ONLY <2>4, <2>5
      <3> HIDE DEF av
      <3> QED BY ONLY <2>1, <2>2, <2>3, <3>1, SMTT(30)
    <2> QED BY <2>5, <2>8, <2>9, <2>10 DEF Copying
  <1>11. ASSUME QueryEnd PROVE Copying'
    <2>1. /\ query'.pc = "done" /\ query'.remaining = query.remaining
          /\ query'.pieces = query.pieces /\ query'.offset = query.offset
      BY <1>0, <1>11 DEF QueryEnd, TypeOK, QueryStates
    <2>2. query.remaining = 0
      BY <1>0, <1>11 DEF QueryEnd, CopyLeft, Copying, ElementTypes
    <2> QED BY <1>0, <2>1, <2>2 DEF Copying
  <1>12. ASSUME QueryReturn PROVE Copying'
    <2>1. query'.pc = "idle" /\ query'.pieces = << >> BY <1>12 DEF QueryReturn, NoQuery
    <2> QED BY <2>1 DEF Copying
  <1>13. CASE UNCHANGED vars
    BY <1>13, <1>a DEF vars
  <1> QED
    BY ONLY [Next]_vars, <1>1, <1>2, <1>3, <1>4, <1>5, <1>6, <1>7, <1>8, <1>9, <1>10,
       <1>11, <1>12, <1>13 DEF Next, AppenderStep, QueryStep

-----------------------------------------------------------------------------
(* Theorems.                                                               *)

\* The invariant holds in every state, whoever appends, resets and queries.
THEOREM Inductive == Spec => []IInv
  <1>1. ASSUME IInv, [Next]_vars PROVE IInv'
    <2>1. TypeOK' /\ Locking' BY <1>1, TypeStep, LockingStep DEF IInv
    <2>2. ASSUME ~stale' PROVE RingInv'
      <3>1. ~stale BY <1>1, <2>2, Monotone DEF IInv
      <3>2. RingInv /\ TypeOK /\ Seen BY <1>1, <3>1 DEF IInv, RingInv
      <3>3. Seen' BY <1>1, <2>2, <3>2, StaleStep
      <3>4. RingParts' /\ Copying' BY <1>1, <2>2, <3>2, RingStep, CopyingStep
      <3> QED BY <2>1, <3>3, <3>4 DEF RingInv, RingParts
    <2> QED BY <2>1, <2>2 DEF IInv
  <1> QED BY InitInv, <1>1, PTL DEF Spec

\* The state keeps its shape.
THEOREM TypeCorrect == Spec => []TypeOK
  <1>1. IInv => TypeOK BY DEF IInv
  <1> QED BY Inductive, <1>1, PTL

\* Total() is the number of bytes the stream has seen.
THEOREM Counted == Spec => []TotalSeen
  <1>1. IInv => TotalSeen
    BY DEF IInv, RingInv, Seen, TotalSeen
  <1> QED BY Inductive, <1>1, PTL

\* Append retains exactly the newest bytes, each at its offset, for every
\* capacity and every sequence of payload lengths.
THEOREM KeepsNewest == Spec => []RetainsNewest
  <1>1. ASSUME IInv PROVE RetainsNewest
    <2> SUFFICES ASSUME writer = Nobody, ~stale PROVE RetainsNewest
      BY DEF RetainsNewest
    <2>a. RingInv BY <1>1 DEF IInv
    <2>0. TypeOK /\ Ordered /\ ElementTypes BY <2>a, Elements DEF RingInv
    <2>1. /\ \A i \in 2 .. Len(chunks) : chunks[i].base = End(chunks[i - 1])
          /\ chunks # << >> => retained = total - chunks[1].base
          /\ chunks # << >> => End(chunks[Len(chunks)]) = total
          /\ retained = MinOf(total, Capacity)
      BY <2>a, NoGap
    <2>2. chunks # << >> => chunks[1].base = total - retained
      <3> SUFFICES ASSUME chunks # << >> PROVE chunks[1].base = total - retained
        OBVIOUS
      <3>1. 1 \in DOMAIN chunks BY <2>0 DEF TypeOK, ElementTypes
      <3> QED BY <2>0, <2>1, <3>1, SMTT(30) DEF TypeOK, ElementTypes
    <2>3. \A i \in DOMAIN chunks :
            /\ chunks[i].len > 0
            /\ chunks[i].base = chunks[i].first
            /\ i > 1 => chunks[i].base = End(chunks[i - 1])
      BY <2>0, <2>1 DEF Ordered, ElementTypes
    <2> QED BY <2>1, <2>2, <2>3 DEF RetainsNewest
  <1> QED BY Inductive, <1>1, PTL

\* Query returns the bytes of the stream from the requested offset on, all
\* that were asked for or all there were.
THEOREM Exact == Spec => []SnapshotExact
  <1>1. ASSUME IInv, ~stale PROVE SnapshotExact
    BY <1>1 DEF IInv, RingInv, Copying, SnapshotExact
  <1>2. IInv => SnapshotExact BY <1>1 DEF SnapshotExact
  <1> QED BY Inductive, <1>2, PTL

\* An offset within the newest Capacity bytes lies in a chunk: the chunks
\* cover them without a gap (the first chunk that ends behind the offset
\* exists because the order of the natural numbers is well founded).
LEMMA Covered ==
  ASSUME RingInv, writer = Nobody, NEW p \in Nat, p < total, p >= total - Capacity
  PROVE  /\ chunks # << >> /\ chunks[1].base <= p
         /\ \E i \in DOMAIN chunks : IsStart(i, p) /\ chunks[i].base <= p
  <1>0. TypeOK /\ Ordered /\ Filled /\ ElementTypes BY Elements DEF RingInv
  <1> DEFINE n == Len(chunks)
  <1>1. chunks # << >>
    BY <1>0, SizeAssumption DEF Filled, TypeOK
  <1>2. /\ \A i \in 2 .. n : chunks[i].base = End(chunks[i - 1])
        /\ retained = total - chunks[1].base /\ End(chunks[n]) = total
        /\ retained = MinOf(total, Capacity)
    BY <1>1, NoGap
  <1>3. n \in Nat /\ DOMAIN chunks = 1 .. n /\ n \in 1 .. n /\ 1 \in 1 .. n
    BY <1>0, <1>1 DEF ElementTypes, TypeOK
  <1>4. chunks[1].base <= p
    BY <1>0, <1>2, <1>3, SizeAssumption, SMTT(30) DEF MinOf, TypeOK, ElementTypes
  <1>5. \E i \in 1 .. n : End(chunks[i]) > p /\ \A j \in 1 .. i - 1 : End(chunks[j]) <= p
    <2> DEFINE T == {i \in 1 .. n : End(chunks[i]) > p}
    <2>1. T \subseteq Nat /\ T # {} BY <1>2, <1>3
    <2>2. PICK i \in T : \A j \in T : ~(<<j, i>> \in OpToRel(<, Nat))
      BY <2>1, NatLessThanWellFounded, WFMin
    <2>3. \A j \in T : ~(j < i) BY <2>1, <2>2 DEF OpToRel
    <2>4. ASSUME NEW j \in 1 .. i - 1 PROVE End(chunks[j]) <= p
      <3>1. j \in 1 .. n /\ j < i BY <1>3, <2>4
      <3>2. ~(End(chunks[j]) > p) BY <2>3, <3>1
      <3>3. End(chunks[j]) \in Int
        <4>1. ElementTypes /\ j \in DOMAIN chunks BY <1>0, <1>3, <3>1
        <4> QED BY ONLY <4>1, SMTT(30) DEF ElementTypes, End
      <3> QED BY ONLY <3>2, <3>3, p \in Nat
    <2> QED BY <2>4
  <1>6. PICK i \in 1 .. n : End(chunks[i]) > p /\ \A j \in 1 .. i - 1 : End(chunks[j]) <= p
    BY <1>5
  <1>7. IsStart(i, p) BY <1>3, <1>6 DEF IsStart
  <1>8. chunks[i].base <= p
    <2>1. CASE i = 1 BY <1>4, <2>1
    <2>2. CASE i # 1
      <3>1. i \in 2 .. n /\ i - 1 \in 1 .. i - 1 BY <1>3, <2>2
      <3> QED BY <1>2, <1>6, <3>1
    <2> QED BY <2>1, <2>2
  <1> QED BY <1>1, <1>3, <1>4, <1>7, <1>8

\* Query never refuses a byte that is among the newest Capacity bytes.
THEOREM Reachable == Spec => RefusedOnlyEvicted
  <1>1. ASSUME RingInv, NEW o \in Offsets, NEW n \in Counts, QueryRefused(o, n)
        PROVE  n <= 0 \/ Clamped(o) >= total \/ Clamped(o) < total - Capacity
    <2> DEFINE p == Clamped(o)
    <2>1. p \in Nat /\ n \in Int BY QueryAssumption DEF Clamped
    <2>2. total \in Nat /\ Capacity \in Nat BY <1>1, SizeAssumption DEF RingInv, TypeOK
    <2>3. writer = Nobody /\ Nothing(p, n) BY <1>1 DEF QueryRefused, CanRLock
    <2> HIDE DEF p
    <2> SUFFICES ASSUME n > 0, p < total, p >= total - Capacity PROVE FALSE
      BY <2>1, <2>2 DEF p
    <2>4. /\ chunks # << >> /\ chunks[1].base <= p
          /\ \E i \in DOMAIN chunks : IsStart(i, p) /\ chunks[i].base <= p
      BY <1>1, <2>1, <2>3, Covered
    <2>5. chunks[1].base \in Int
      BY <1>1, <2>4, Elements DEF RingInv, ElementTypes, TypeOK
    <2> QED BY <2>1, <2>2, <2>3, <2>4, <2>5 DEF Nothing
  <1>2. IInv => RefusalJustified
    BY <1>1 DEF IInv, RefusalJustified
  <1> QED BY Inductive, <1>2, PTL DEF RefusedOnlyEvicted

-----------------------------------------------------------------------------
(* The ring: what it holds                                                 *)

\* The first n bytes of chunk i
Row(i, n) == {i} \X (1 .. n)

\* A byte is of one of the chunks.
LEMMA InBytes ==
  ASSUME NEW c, NEW x
  PROVE  x \in BytesIn(c) <=> \E i \in DOMAIN c : x \in Row(i, c[i].len)
  BY DEF BytesIn, Row

\* n bytes are n.
LEMMA RowSize ==
  ASSUME NEW i, NEW n \in Nat
  PROVE  IsFiniteSet(Row(i, n)) /\ Cardinality(Row(i, n)) = n
  <1>1. IsFiniteSet({i}) /\ Cardinality({i}) = 1 BY FS_Singleton
  <1>2. IsFiniteSet(1 .. n) /\ Cardinality(1 .. n) = n
    <2>1. 1 \in Int /\ n \in Int OBVIOUS
    <2>2. IsFiniteSet(1 .. n) /\ Cardinality(1 .. n) = IF 1 > n THEN 0 ELSE n - 1 + 1 BY <2>1, FS_Interval
    <2> QED BY <2>2
  <1>3. IsFiniteSet(Row(i, n)) /\ Cardinality(Row(i, n)) = Cardinality({i}) * Cardinality(1 .. n)
    BY <1>1, <1>2, FS_Product, Zenon DEF Row
  <1> QED BY <1>1, <1>2, <1>3

\* Sets that have nothing in common add up.
LEMMA Disjoint ==
  ASSUME NEW S, NEW T, IsFiniteSet(S), IsFiniteSet(T), S \cap T = {}
  PROVE  IsFiniteSet(S \cup T) /\ Cardinality(S \cup T) = Cardinality(S) + Cardinality(T)
  <1>1. Cardinality(S \cap T) = 0 BY FS_EmptySet
  <1>2. Cardinality(S) \in Nat /\ Cardinality(T) \in Nat BY FS_CardinalityType
  <1>3. IsFiniteSet(S \cup T) /\ Cardinality(S \cup T) = Cardinality(S) + Cardinality(T) - Cardinality(S \cap T)
    BY FS_Union, Zenon
  <1> QED BY <1>1, <1>2, <1>3

\* One chunk more.
LEMMA BytesAppended ==
  ASSUME NEW c, NEW d, NEW n \in Nat, NEW w \in Nat, DOMAIN c = 1 .. n, DOMAIN d = 1 .. n + 1,
         \A i \in 1 .. n : d[i] = c[i], d[n + 1].len = w, IsFiniteSet(BytesIn(c))
  PROVE  IsFiniteSet(BytesIn(d)) /\ Cardinality(BytesIn(d)) = Cardinality(BytesIn(c)) + w
  <1>1. BytesIn(d) = BytesIn(c) \cup Row(n + 1, w)
    <2>1. ASSUME NEW x \in BytesIn(d) PROVE x \in BytesIn(c) \cup Row(n + 1, w)
      <3>1. PICK i \in 1 .. n + 1 : x \in Row(i, d[i].len) BY <2>1, InBytes
      <3>2. CASE i = n + 1 BY <3>1, <3>2
      <3>3. CASE i # n + 1
        <4>1. i \in 1 .. n /\ d[i] = c[i] BY <3>3
        <4> QED BY <3>1, <4>1, InBytes
      <3> QED BY <3>2, <3>3
    <2>2. ASSUME NEW x \in BytesIn(c) PROVE x \in BytesIn(d)
      <3>1. PICK i \in 1 .. n : x \in Row(i, c[i].len) BY <2>2, InBytes
      <3>2. i \in 1 .. n + 1 /\ d[i] = c[i] OBVIOUS
      <3> QED BY <3>1, <3>2, InBytes
    <2>3. Row(n + 1, w) \subseteq BytesIn(d)
      <3>1. n + 1 \in 1 .. n + 1 OBVIOUS
      <3> QED BY <3>1, InBytes
    <2> QED BY <2>1, <2>2, <2>3
  <1>2. BytesIn(c) \cap Row(n + 1, w) = {}
    <2> SUFFICES ASSUME NEW x \in BytesIn(c), x \in Row(n + 1, w) PROVE FALSE OBVIOUS
    <2>1. PICK i \in 1 .. n : x \in Row(i, c[i].len) BY InBytes
    <2>2. x[1] = i /\ x[1] = n + 1 BY <2>1 DEF Row
    <2> QED BY <2>2
  <1>3. IsFiniteSet(Row(n + 1, w)) /\ Cardinality(Row(n + 1, w)) = w BY RowSize
  <1> QED BY <1>1, <1>2, <1>3, Disjoint

\* The bytes of the first chunk, and those of the others.
LEMMA BytesOfFirst ==
  ASSUME NEW c, 1 \in DOMAIN c, NEW w \in Nat, c[1].len = w, IsFiniteSet(BytesIn(c))
  PROVE  /\ IsFiniteSet(BytesIn(c) \ Row(1, w))
         /\ Cardinality(BytesIn(c)) = Cardinality(BytesIn(c) \ Row(1, w)) + w
         /\ Cardinality(BytesIn(c) \ Row(1, w)) \in Nat
  <1> DEFINE rest == BytesIn(c) \ Row(1, w)
  <1>1. IsFiniteSet(rest) BY FS_Subset
  <1>2. Row(1, w) \subseteq BytesIn(c) BY InBytes
  <1>3. BytesIn(c) = rest \cup Row(1, w) /\ rest \cap Row(1, w) = {} BY <1>2
  <1>4. IsFiniteSet(Row(1, w)) /\ Cardinality(Row(1, w)) = w BY RowSize
  <1>5. Cardinality(rest) \in Nat BY <1>1, FS_CardinalityType
  <1> HIDE DEF rest
  <1>6. Cardinality(BytesIn(c)) = Cardinality(rest) + w BY <1>1, <1>3, <1>4, Disjoint
  <1> QED BY <1>1, <1>5, <1>6 DEF rest

\* The first chunk is cut.
LEMMA BytesTrimmed ==
  ASSUME NEW c, NEW d, 1 \in DOMAIN c, DOMAIN d = DOMAIN c, NEW v \in Nat, NEW w \in Nat,
         c[1].len = w, d[1].len = v, \A i \in DOMAIN c : i # 1 => d[i] = c[i], IsFiniteSet(BytesIn(c))
  PROVE  IsFiniteSet(BytesIn(d)) /\ Cardinality(BytesIn(d)) = Cardinality(BytesIn(c)) - w + v
  <1> DEFINE rest == BytesIn(c) \ Row(1, w)
  <1>1. ASSUME NEW x PROVE x \in rest <=> \E i \in DOMAIN c : i # 1 /\ x \in Row(i, c[i].len)
    <2>1. ASSUME NEW i \in DOMAIN c, i # 1, x \in Row(i, c[i].len) PROVE x \notin Row(1, w)
      BY <2>1 DEF Row
    <2> QED BY <2>1, InBytes
  <1>2. ASSUME NEW x PROVE x \in BytesIn(d) <=> x \in Row(1, v) \/ x \in rest
    BY <1>1, InBytes
  <1>3. BytesIn(d) = rest \cup Row(1, v) BY <1>2
  <1>4. rest \cap Row(1, v) = {}
    <2> SUFFICES ASSUME NEW x \in rest, x \in Row(1, v) PROVE FALSE OBVIOUS
    <2>1. PICK i \in DOMAIN c : i # 1 /\ x \in Row(i, c[i].len) BY <1>1
    <2> QED BY <2>1 DEF Row
  <1>5. /\ IsFiniteSet(rest) /\ Cardinality(rest) \in Nat
        /\ Cardinality(BytesIn(c)) = Cardinality(rest) + w BY BytesOfFirst
  <1>6. IsFiniteSet(Row(1, v)) /\ Cardinality(Row(1, v)) = v BY RowSize
  <1> HIDE DEF rest
  <1>7. IsFiniteSet(BytesIn(d)) /\ Cardinality(BytesIn(d)) = Cardinality(rest) + v
    BY <1>3, <1>4, <1>5, <1>6, Disjoint
  <1> QED BY <1>5, <1>7

\* The first chunk goes, and the others move up.
LEMMA BytesEvicted ==
  ASSUME NEW c, NEW d, NEW n \in Nat, DOMAIN c = 1 .. n + 1, DOMAIN d = 1 .. n, NEW w \in Nat,
         c[1].len = w, \A i \in 1 .. n : d[i] = c[i + 1], IsFiniteSet(BytesIn(c))
  PROVE  IsFiniteSet(BytesIn(d)) /\ Cardinality(BytesIn(d)) = Cardinality(BytesIn(c)) - w
  <1> DEFINE rest == BytesIn(c) \ Row(1, w)
             f == [x \in BytesIn(d) |-> <<x[1] + 1, x[2]>>]
  <1>0. 1 \in DOMAIN c OBVIOUS
  <1>1. ASSUME NEW x \in BytesIn(d)
        PROVE  f[x] \in rest /\ x[1] \in Int /\ x = <<x[1], x[2]>> /\ f[x] = <<x[1] + 1, x[2]>>
    <2>1. PICK i \in 1 .. n : x \in Row(i, d[i].len) BY <1>1, InBytes
    <2>2. x[1] = i /\ x[2] \in 1 .. d[i].len /\ x = <<x[1], x[2]>> BY <2>1 DEF Row
    <2>3. i + 1 \in 1 .. n + 1 /\ i + 1 # 1 /\ d[i] = c[i + 1] OBVIOUS
    <2>4. f[x] = <<i + 1, x[2]>> BY <2>2
    <2>5. f[x] \in Row(i + 1, c[i + 1].len) BY <2>2, <2>3, <2>4 DEF Row
    <2>6. f[x] \notin Row(1, w) BY <2>3, <2>4 DEF Row
    <2>7. f[x] \in BytesIn(c) BY <2>3, <2>5, InBytes
    <2> QED BY <2>2, <2>4, <2>6, <2>7
  <1>2. ASSUME NEW y \in rest PROVE \E x \in BytesIn(d) : f[x] = y
    <2>1. PICK i \in 1 .. n + 1 : y \in Row(i, c[i].len) BY <1>2, InBytes
    <2>2. y = <<i, y[2]>> /\ y[2] \in 1 .. c[i].len BY <2>1 DEF Row
    <2>3. i # 1 BY <1>2, <2>1
    <2>4. i - 1 \in 1 .. n /\ c[i] = d[i - 1]
      <3>1. i - 1 \in 1 .. n /\ i - 1 + 1 = i BY <2>3
      <3> QED BY <3>1
    <2> DEFINE x == <<i - 1, y[2]>>
    <2>5. x \in Row(i - 1, d[i - 1].len) BY <2>2, <2>4 DEF Row
    <2>6. x \in BytesIn(d) BY <2>4, <2>5, InBytes
    <2>7. f[x] = <<i - 1 + 1, y[2]>> BY <2>6
    <2> QED BY <2>2, <2>6, <2>7
  <1>3. ASSUME NEW x \in BytesIn(d), NEW y \in BytesIn(d), f[x] = f[y] PROVE x = y
    <2>1. x[1] + 1 = y[1] + 1 /\ x[2] = y[2] /\ x[1] \in Int /\ y[1] \in Int BY <1>1, <1>3
    <2>2. x[1] = y[1] BY <2>1
    <2> QED BY <2>1, <2>2, <1>1
  <1>4. f \in [BytesIn(d) -> rest] BY <1>1
  <1> HIDE DEF f
  <1>5. f \in Bijection(BytesIn(d), rest)
    BY <1>2, <1>3, <1>4, Fun_IsBij
  <1>6. ExistsBijection(rest, BytesIn(d))
    BY <1>5, Fun_ExistsBijSymmetric DEF ExistsBijection
  <1>7. /\ IsFiniteSet(rest) /\ Cardinality(rest) \in Nat
        /\ Cardinality(BytesIn(c)) = Cardinality(rest) + w
    BY <1>0, BytesOfFirst
  <1> HIDE DEF rest
  <1>8. IsFiniteSet(BytesIn(d)) /\ Cardinality(BytesIn(d)) = Cardinality(rest)
    BY <1>6, <1>7, FS_Bijection, Zenon
  <1> QED BY <1>7, <1>8

-----------------------------------------------------------------------------
\* The ring holds as many bytes as retained says, whatever bases the appenders
\* used.
Held ==
  /\ \A i \in DOMAIN chunks : chunks[i].len > 0
  /\ IsFiniteSet(BytesIn(chunks)) /\ retained = Cardinality(BytesIn(chunks))
  /\ writer = Nobody => retained <= Capacity

\* The copying loop of Query stands within a chunk, or at the beginning of one.
Standing ==
  query.pc = "copy" =>
    /\ query.off >= 0
    /\ query.idx \in DOMAIN chunks => query.off < chunks[query.idx].len

\* No chunks, no bytes.
LEMMA NothingHeld == ASSUME NEW c, c = << >> PROVE IsFiniteSet(BytesIn(c)) /\ Cardinality(BytesIn(c)) = 0
  <1>1. BytesIn(c) = {} BY DEF BytesIn
  <1> QED BY <1>1, FS_EmptySet

\* A new ring holds nothing.
LEMMA HeldStart == Init => Held /\ Standing
  <1> SUFFICES ASSUME Init PROVE Held /\ Standing OBVIOUS
  <1>1. chunks = << >> /\ DOMAIN chunks = {} /\ retained = 0 /\ query.pc = "idle" BY DEF Init, NoQuery
  <1> QED BY <1>1, NothingHeld, SizeAssumption DEF Held, Standing

\* Append and its eviction loop count what they store and drop.
LEMMA HeldStep == ASSUME TypeOK, Locking, Held, [Next]_vars PROVE Held'
  <1>0. ElementTypes BY Elements
  <1>a. retained \in Int /\ Capacity \in Nat BY SizeAssumption DEF TypeOK
  <1>1. ASSUME UNCHANGED <<chunks, retained, writer>> PROVE Held'
    BY <1>1 DEF Held
  <1>2. ASSUME NEW a \in Appenders, AppendBegin(a) PROVE Held'
    <2>1. appender[a].len > 0 /\ Capacity > 0 /\ writer' = a /\ retained' = retained + NewChunk(a).len
      BY <1>2 DEF AppendBegin
    <2>2. NewChunk(a).len \in Nat /\ NewChunk(a).len > 0
      <3>1. NewChunk(a).len = MinOf(appender[a].len, Capacity) /\ appender[a].len \in Nat
        BY <1>0, NewChunkType DEF ElementTypes
      <3> QED BY <3>1, <2>1, <1>a DEF MinOf
    <2>3. /\ Len(chunks) \in Nat /\ DOMAIN chunks = 1 .. Len(chunks) /\ DOMAIN chunks' = 1 .. Len(chunks) + 1
          /\ \A i \in 1 .. Len(chunks) : chunks'[i] = chunks[i]
          /\ chunks'[Len(chunks) + 1] = NewChunk(a)
      BY <1>0, <1>2, Appended DEF ElementTypes
    <2>4. \A i \in DOMAIN chunks' : chunks'[i].len > 0
      <3> SUFFICES ASSUME NEW i \in 1 .. Len(chunks) + 1 PROVE chunks'[i].len > 0 BY <2>3
      <3>1. CASE i = Len(chunks) + 1 BY <3>1, <2>2, <2>3
      <3>2. CASE i # Len(chunks) + 1
        <4>1. i \in 1 .. Len(chunks) BY <3>2, <2>3
        <4> QED BY <4>1, <2>3 DEF Held
      <3> QED BY <3>1, <3>2
    <2>5. IsFiniteSet(BytesIn(chunks')) /\ Cardinality(BytesIn(chunks')) = Cardinality(BytesIn(chunks)) + NewChunk(a).len
      <3>1. IsFiniteSet(BytesIn(chunks)) BY DEF Held
      <3> QED BY <2>2, <2>3, <3>1, BytesAppended
    <2> QED
      <3>1. writer' # Nobody BY <2>1, NobodyAssumption
      <3> QED BY <2>1, <2>4, <2>5, <3>1 DEF Held
  <1>3. ASSUME NEW a \in Appenders, EvictOldest(a) PROVE Held'
    <2>1. writer' = a /\ retained' = retained - chunks[1].len BY <1>3 DEF EvictOldest
    <2> DEFINE n == Len(chunks) - 1
    <2>2. /\ n \in Nat /\ DOMAIN chunks = 1 .. n + 1 /\ DOMAIN chunks' = 1 .. n
          /\ \A i \in 1 .. n : chunks'[i] = chunks[i + 1]
      <3>1. /\ Len(chunks) > 0 /\ DOMAIN chunks' = 1 .. n
            /\ \A i \in 1 .. n : chunks'[i] = chunks[i + 1]
        BY <1>3, Evicted
      <3>2. Len(chunks) \in Nat /\ DOMAIN chunks = 1 .. Len(chunks) BY <1>0 DEF ElementTypes
      <3>3. n \in Nat /\ Len(chunks) = n + 1 BY <3>1, <3>2
      <3> QED BY <3>1, <3>2, <3>3
    <2> HIDE DEF n
    <2>3. chunks[1].len \in Nat BY <2>2, <1>0 DEF ElementTypes
    <2>4. \A i \in DOMAIN chunks' : chunks'[i].len > 0
      <3> SUFFICES ASSUME NEW i \in 1 .. n PROVE chunks'[i].len > 0 BY <2>2
      <3>1. i + 1 \in DOMAIN chunks BY <2>2
      <3> QED BY <3>1, <2>2 DEF Held
    <2>5. IsFiniteSet(BytesIn(chunks')) /\ Cardinality(BytesIn(chunks')) = Cardinality(BytesIn(chunks)) - chunks[1].len
      <3>1. IsFiniteSet(BytesIn(chunks)) BY DEF Held
      <3> QED BY <2>2, <2>3, <3>1, BytesEvicted
    <2> QED
      <3>1. writer' # Nobody BY <2>1, NobodyAssumption
      <3> QED BY <2>1, <2>4, <2>5, <3>1 DEF Held
  <1>4. ASSUME NEW a \in Appenders, TrimOldest(a) PROVE Held'
    <2>1. writer' = a /\ retained' = retained - Excess /\ chunks[1].len > Excess /\ Excess > 0 /\ Excess \in Int
      BY <1>4, <1>a DEF TrimOldest, MustEvict, Excess
    <2>2. /\ 1 \in DOMAIN chunks /\ DOMAIN chunks' = DOMAIN chunks
          /\ \A i \in DOMAIN chunks : i # 1 => chunks'[i] = chunks[i]
          /\ chunks'[1].len = chunks[1].len - Excess
      <3>1. /\ Len(chunks) > 0 /\ DOMAIN chunks' = 1 .. Len(chunks)
            /\ \A i \in 2 .. Len(chunks) : chunks'[i] = chunks[i]
            /\ chunks'[1].len = chunks[1].len - Excess
        BY <1>4, Trimmed
      <3>2. Len(chunks) \in Nat /\ DOMAIN chunks = 1 .. Len(chunks) BY <1>0 DEF ElementTypes
      <3>3. \A i \in 1 .. Len(chunks) : i # 1 => i \in 2 .. Len(chunks) BY <3>2
      <3> QED BY <3>1, <3>2, <3>3
    <2>3. chunks[1].len \in Nat /\ chunks'[1].len \in Nat /\ chunks'[1].len > 0
      <3>1. chunks[1].len \in Nat BY <2>2, <1>0 DEF ElementTypes
      <3> QED BY <3>1, <2>1, <2>2
    <2>4. \A i \in DOMAIN chunks' : chunks'[i].len > 0
      BY <2>2, <2>3 DEF Held
    <2>5. /\ IsFiniteSet(BytesIn(chunks'))
          /\ Cardinality(BytesIn(chunks')) = Cardinality(BytesIn(chunks)) - chunks[1].len + chunks'[1].len
      <3>1. IsFiniteSet(BytesIn(chunks)) BY DEF Held
      <3> QED BY <2>2, <2>3, <3>1, BytesTrimmed
    <2>6. retained' = Cardinality(BytesIn(chunks'))
      <3>1. retained = Cardinality(BytesIn(chunks)) BY DEF Held
      <3> QED BY <1>a, <2>1, <2>2, <2>3, <2>5, <3>1
    <2> QED
      <3>1. writer' # Nobody BY <2>1, NobodyAssumption
      <3> QED BY <2>1, <2>4, <2>5, <2>6, <3>1 DEF Held
  <1>5. ASSUME NEW a \in Appenders, AppendEnd(a) PROVE Held'
    <2>1. UNCHANGED <<chunks, retained>> /\ ~MustEvict BY <1>5 DEF AppendEnd, ring
    <2>2. retained <= Capacity
      <3>1. CASE Excess <= 0 BY <3>1, <1>a DEF Excess
      <3>2. CASE chunks = << >> BY <3>2, <1>a, NothingHeld DEF Held
      <3>3. Excess \in Int BY <1>a DEF Excess
      <3> QED BY <2>1, <3>1, <3>2, <3>3 DEF MustEvict
    <2> QED BY <2>1, <2>2 DEF Held
  <1>6. CASE Reset
    <2>1. chunks' = << >> /\ DOMAIN chunks' = {} /\ retained' = 0 BY <1>6 DEF Reset
    <2> QED BY <1>a, <2>1, NothingHeld DEF Held
  <1>7. ASSUME NEW a \in Appenders, AppenderStep(a) PROVE Held'
    <2>1. ASSUME NEW n \in Lengths, TakeBase(a, n) PROVE Held' BY <2>1, <1>1 DEF TakeBase, ring
    <2>2. CASE AppendNothing(a) BY <2>2, <1>1 DEF AppendNothing
    <2> QED BY <1>2, <1>3, <1>4, <1>5, <1>7, <2>1, <2>2 DEF AppenderStep
  <1>8. CASE QueryStep
    BY <1>1, <1>8 DEF QueryStep, QueryRefused, QueryBegin, QueryCopy, QueryEnd, QueryReturn, ring
  <1>9. CASE UNCHANGED vars BY <1>1, <1>9 DEF vars, ring
  <1> QED BY <1>6, <1>7, <1>8, <1>9 DEF Next

\* Query begins within the chunk that it has found, and holds the lock.
LEMMA StandingStep == ASSUME TypeOK, Locking, Held, Standing, [Next]_vars PROVE Standing'
  <1>0. ElementTypes BY Elements
  <1>1. ASSUME UNCHANGED <<chunks, query>> PROVE Standing' BY <1>1 DEF Standing
  <1>2. ASSUME query.pc # "copy", UNCHANGED query PROVE Standing' BY <1>2 DEF Standing
  <1>3. ASSUME query'.pc # "copy" PROVE Standing' BY <1>3 DEF Standing
  <1>4. ASSUME NEW o \in Offsets, NEW n \in Counts, NEW i \in DOMAIN chunks, QueryBegin(o, n, i) PROVE Standing'
    <2>1. /\ IsStart(i, Clamped(o)) /\ UNCHANGED chunks
          /\ query'.idx = i /\ query'.off = Clamped(o) - chunks[i].base
      BY <1>4 DEF QueryBegin, NoQuery, ring
    <2>2. PICK j \in DOMAIN chunks : IsStart(j, Clamped(o)) /\ chunks[j].base <= Clamped(o)
      BY <1>4 DEF QueryBegin, Nothing
    <2>3. Clamped(o) \in Int BY QueryAssumption DEF Clamped
    <2>4. \A k \in DOMAIN chunks : End(chunks[k]) \in Int /\ chunks[k].base \in Int /\ chunks[k].len \in Nat
      BY <1>0 DEF ElementTypes, End
    <2>5. i = j
      <3>1. i \in 1 .. Len(chunks) /\ j \in 1 .. Len(chunks) /\ Len(chunks) \in Nat BY <1>0, <2>2 DEF ElementTypes
      <3>2. CASE i < j
        <4>1. i \in 1 .. j - 1 BY <3>1, <3>2
        <4> QED BY <4>1, <2>1, <2>2, <2>3, <2>4 DEF IsStart
      <3>3. CASE j < i
        <4>1. j \in 1 .. i - 1 BY <3>1, <3>3
        <4> QED BY <4>1, <2>1, <2>2, <2>3, <2>4 DEF IsStart
      <3> QED BY <3>1, <3>2, <3>3
    <2>6. chunks[i].base <= Clamped(o) /\ chunks[i].base + chunks[i].len > Clamped(o)
      BY <2>1, <2>2, <2>5 DEF IsStart, End
    <2>7. query'.off >= 0 /\ query'.off < chunks[i].len BY <2>1, <2>3, <2>4, <2>6
    <2> QED BY <2>1, <2>7 DEF Standing
  <1>5. CASE QueryCopy
    <2>1. query'.off = 0 /\ UNCHANGED chunks BY <1>5 DEF QueryCopy, ring, TypeOK, QueryStates
    <2> QED BY <2>1 DEF Standing, Held
  <1>6. ASSUME NEW a \in Appenders, AppenderStep(a) PROVE Standing'
    <2>1. ASSUME NEW n \in Lengths, TakeBase(a, n) PROVE Standing' BY <2>1, <1>1 DEF TakeBase, ring
    <2>2. CASE AppendNothing(a) BY <2>2, <1>1 DEF AppendNothing
    <2>3. CASE AppendBegin(a) BY <2>3, <1>2 DEF AppendBegin, CanLock
    <2>4. CASE EvictOldest(a) \/ TrimOldest(a)
      <3>1. writer = a /\ UNCHANGED query BY <2>4 DEF EvictOldest, TrimOldest
      <3>2. query.pc # "copy" BY <3>1, NobodyAssumption DEF Locking
      <3> QED BY <3>1, <3>2, <1>2
    <2>5. CASE AppendEnd(a) BY <2>5, <1>1 DEF AppendEnd, ring
    <2> QED BY <1>6, <2>1, <2>2, <2>3, <2>4, <2>5 DEF AppenderStep
  <1>7. CASE Reset BY <1>7, <1>2 DEF Reset, CanLock
  <1>8. ASSUME NEW o \in Offsets, NEW n \in Counts, QueryRefused(o, n) PROVE Standing'
    BY <1>8, <1>3 DEF QueryRefused, NoQuery
  <1>9. CASE QueryEnd BY <1>9, <1>3 DEF QueryEnd, TypeOK, QueryStates
  <1>10. CASE QueryReturn BY <1>10, <1>3 DEF QueryReturn, NoQuery
  <1>11. CASE UNCHANGED vars BY <1>1, <1>11 DEF vars, ring
  <1> QED BY <1>4, <1>5, <1>6, <1>7, <1>8, <1>9, <1>10, <1>11 DEF Next, QueryStep

\* Whatever bases the appenders used, and with any number of them: retained is
\* the number of bytes that the ring holds, within its capacity when Append
\* returns, and Query reads within the chunks.
THEOREM MemorySound == Spec => []MemoryIsSound
  <1>1. Init => IInv /\ Held /\ Standing BY InitInv, HeldStart
  <1>2. ASSUME IInv, Held, Standing, [Next]_vars PROVE Held' /\ Standing'
    BY <1>2, HeldStep, StandingStep DEF IInv
  <1>3. ASSUME IInv, Held, Standing PROVE MemoryIsSound
    <2>0. ElementTypes /\ Locking BY <1>3, Elements DEF IInv
    <2>1. ASSUME query.pc = "copy", CopyLeft
          PROVE  /\ query.idx \in DOMAIN chunks /\ query.off >= 0 /\ query.off < chunks[query.idx].len /\ Available > 0
      <3>1. query.idx \in DOMAIN chunks /\ query.remaining > 0 /\ query.remaining \in Int
        BY <2>0, <2>1 DEF Locking, ElementTypes, CopyLeft
      <3>2. query.off >= 0 /\ query.off < chunks[query.idx].len BY <1>3, <2>1, <3>1 DEF Standing
      <3>3. query.off \in Int /\ chunks[query.idx].len \in Nat BY <2>0, <3>1 DEF ElementTypes
      <3>4. Available > 0 BY <3>1, <3>2, <3>3 DEF Available, MinOf
      <3> QED BY <3>1, <3>2, <3>4
    <2> QED BY <1>3, <2>1 DEF MemoryIsSound, SlicesInBounds, Held
  <1> QED BY Inductive, <1>1, <1>2, <1>3, PTL DEF Spec

-----------------------------------------------------------------------------
(* The search for a cycle                                                  *)

\* The node the search starts at
Aim == Target(draft)

\* What the search found is reachable.
FoundReachable == \A n \in pending \cup visited : Reaches(Aim, n)
\* What the search has visited is no dead end of it.
VisitedPushed == result # "cycle" => \A n \in visited : Successors(n) \subseteq visited \cup pending
\* The search began at the target and has not met the source.
StartsAtTarget == result # "cycle" => Aim \in pending \cup visited
SourceNotVisited == Source(draft) \notin visited
\* The two answers.
CycleFound == result = "cycle" => Reaches(Aim, Source(draft))
NothingLeft == result = "none" => pending = {}

SearchInv ==
    /\ SearchTypeOK /\ FoundReachable /\ VisitedPushed /\ StartsAtTarget
    /\ SourceNotVisited /\ CycleFound /\ NothingLeft

\* One more edge: the successors of what the target reaches are reachable.
LEMMA ReachesNext ==
    ASSUME NEW n \in Vertex, Reaches(Aim, n), NEW q \in Successors(n)
    PROVE  Reaches(Aim, q)
<1>1. PICK e \in others : ~IntoTerminal(e) /\ Source(e) = n /\ Target(e) = q
  BY DEF Successors
<1>2. SUFFICES ASSUME NEW S \in SUBSET Vertex, Aim \in S, Closed(S)
               PROVE  q \in S
  BY DEF Reaches
<1>3. n \in S
  BY <1>2 DEF Reaches
<1> QED
  BY <1>1, <1>2, <1>3 DEF Closed

LEMMA SuccessorsTyped == SearchTypeOK => \A n \in Vertex : Successors(n) \subseteq Vertex
BY DEF SearchTypeOK, Successors, Arc, Target, Source

\* The initial state of graphRuntimeCreatesCycle satisfies the invariant.
LEMMA SearchStart == SearchInit => SearchInv
<1> SUFFICES ASSUME SearchInit PROVE SearchInv
  OBVIOUS
<1>1. SearchTypeOK
  BY DEF SearchInit, SearchTypeOK, Arc, Target
<1>2. Reaches(Aim, Aim)
  BY DEF Reaches
<1> QED
  BY <1>1, <1>2 DEF SearchInit, SearchInv, FoundReachable, VisitedPushed, StartsAtTarget, SourceNotVisited,
     CycleFound, NothingLeft, Aim

\* Every step of the search preserves the invariant.
LEMMA SearchStep == SearchInv /\ [SearchNext]_searchVars => SearchInv'
<1> SUFFICES ASSUME SearchInv, [SearchNext]_searchVars PROVE SearchInv'
  OBVIOUS
<1> USE DEF SearchInv
<1>1. \A n : Successors(n)' = Successors(n) /\ Aim' = Aim /\ Source(draft)' = Source(draft)
      /\ (Reaches(Aim, n)' <=> Reaches(Aim, n))
  <2>1. draft' = draft /\ others' = others
    BY DEF SearchNext, Skip, Found, Visit, Exhausted, searchVars
  <2> QED
    BY <2>1 DEF Successors, Aim, Source, Target, IntoTerminal, Reaches, Closed
<1>2. ASSUME NEW n \in Vertex, Skip(n) PROVE SearchInv'
  <2>1. SearchTypeOK'
    BY <1>2 DEF Skip, SearchTypeOK
  <2>2. pending' \cup visited' = pending \cup visited /\ visited' = visited /\ result' = result
        /\ result = "searching"
    BY <1>2 DEF Skip
  <2> QED
    BY <1>1, <2>1, <2>2 DEF FoundReachable, VisitedPushed, StartsAtTarget, SourceNotVisited,
       CycleFound, NothingLeft
<1>3. ASSUME NEW n \in Vertex, Found(n) PROVE SearchInv'
  <2>1. SearchTypeOK'
    BY <1>3 DEF Found, SearchTypeOK
  <2>2. Reaches(Aim, Source(draft))
    BY <1>3 DEF Found, FoundReachable
  <2> QED
    BY <1>1, <1>3, <2>1, <2>2 DEF Found, FoundReachable, VisitedPushed, StartsAtTarget, SourceNotVisited,
       CycleFound, NothingLeft
<1>4. ASSUME NEW n \in Vertex, Visit(n) PROVE SearchInv'
  <2>1. SearchTypeOK'
    BY <1>4, SuccessorsTyped DEF Visit, SearchTypeOK
  <2>2. pending' = (pending \ {n}) \cup Successors(n) /\ visited' = visited \cup {n} /\ n \in pending
        /\ result = "searching" /\ result' = result /\ n # Source(draft)
    BY <1>4 DEF Visit
  <2>3. FoundReachable'
    <3>1. \A q \in Successors(n) : Reaches(Aim, q)
      BY <2>2, ReachesNext DEF FoundReachable
    <3> QED
      BY <1>1, <2>2, <3>1 DEF FoundReachable
  <2>4. VisitedPushed'
    <3>1. \A m \in visited : Successors(m) \subseteq visited \cup pending
      BY <2>2 DEF VisitedPushed
    <3> QED
      BY <1>1, <2>2, <3>1 DEF VisitedPushed
  <2> QED
    BY <1>1, <2>1, <2>2, <2>3, <2>4 DEF StartsAtTarget, SourceNotVisited, CycleFound, NothingLeft
<1>5. ASSUME Exhausted PROVE SearchInv'
  <2>1. SearchTypeOK'
    BY <1>5 DEF Exhausted, SearchTypeOK
  <2> QED
    BY <1>1, <1>5, <2>1 DEF Exhausted, FoundReachable, VisitedPushed, StartsAtTarget,
       SourceNotVisited, CycleFound, NothingLeft
<1>6. ASSUME UNCHANGED searchVars PROVE SearchInv'
  <2>1. SearchTypeOK'
    BY <1>6 DEF searchVars, SearchTypeOK
  <2> QED
    BY <1>1, <1>6, <2>1 DEF searchVars, FoundReachable, VisitedPushed, StartsAtTarget,
       SourceNotVisited, CycleFound, NothingLeft
<1> QED
  BY <1>2, <1>3, <1>4, <1>5, <1>6 DEF SearchNext

\* What the invariant says about the answers: after an exhausted search the
\* visited nodes are a closed set with the target and without the source.
LEMMA SearchAnswers == SearchInv => SearchIsExact
<1> SUFFICES ASSUME SearchInv, result = "none" PROVE ~Reaches(Aim, Source(draft))
  BY DEF SearchInv, SearchTypeOK, SearchIsExact, CycleFound, Aim
<1> USE DEF SearchInv
<1>1. Aim \in visited /\ Source(draft) \notin visited /\ visited \in SUBSET Vertex
  BY DEF StartsAtTarget, NothingLeft, SourceNotVisited, SearchTypeOK
<1>2. Closed(visited)
  BY DEF Closed, VisitedPushed, NothingLeft, Successors
<1> QED
  BY <1>1, <1>2 DEF Reaches

\* The invariant holds throughout the search.
THEOREM SearchInductive == SearchSpec => []SearchInv
BY SearchStart, SearchStep, PTL DEF SearchSpec

\* For every graph, every set of masters and every order of the search,
\* graphRuntimeCreatesCycle answers whether the edge closes a cycle.
THEOREM SearchExact == SearchSpec => []SearchIsExact
BY SearchInductive, SearchAnswers, PTL

\* The variables of the search keep their types.
THEOREM SearchTyped == SearchSpec => []SearchTypeOK
<1>1. SearchInv => SearchTypeOK
  BY DEF SearchInv
<1> QED
  BY <1>1, SearchInductive, PTL
=============================================================================
