----------------------------- MODULE RingBuffer -----------------------------
(***************************************************************************)
(* The in-memory ring of received bytes, buffer/ring.go, with its callers: *)
(* the serial:data subscription of the service (one read loop per ring,    *)
(* service.go) and appendBuffer / clearBuffer of a graph node (any number  *)
(* of goroutines, graph_runtime.go).                                       *)
(*                                                                         *)
(* A caller reads Total() and appends with that base in a second critical  *)
(* section.  Append and Query are loops run under the ring's lock; every   *)
(* iteration is a step here, and the lock is held in between.              *)
(*                                                                         *)
(* A byte is identified by its place in the order of the appends since the *)
(* last Reset, so the data of a chunk is the interval first .. first + len *)
(* - 1.  A chunk whose base was taken before another Append or a Reset has *)
(* a base that is not its place: variable stale remembers that.            *)
(***************************************************************************)
EXTENDS Integers, Sequences, FiniteSets

CONSTANTS
    Appenders,      \* the goroutines that append to this ring
    Nobody,         \* no goroutine holds the write lock
    Capacity,       \* capacity of the ring in bytes
    Lengths,        \* the lengths of the payloads
    Offsets, Counts,\* the arguments of Query
    MaxBytes        \* bound: no append begins once Total() is so much

ASSUME NobodyAssumption == Nobody \notin Appenders
ASSUME SizeAssumption == Capacity \in Nat /\ Lengths \subseteq Nat /\ MaxBytes \in Nat
ASSUME QueryAssumption == Offsets \subseteq Int /\ Counts \subseteq Int

VARIABLES
    chunks,    \* r.chunks
    total,     \* r.total
    retained,  \* r.retained
    writer,    \* who holds r.mu for writing
    appender,  \* locals of the appending goroutines
    query,     \* locals and result of one caller of Query
    arrived,   \* history: bytes appended since the ring was made or reset
    stale      \* history: was a base ever used that was no longer Total()?

ring == <<chunks, total, retained>>
history == <<arrived, stale>>
vars == <<ring, writer, appender, query, history>>

Chunk == [base : Int, first : Nat, len : Nat]
Piece == [offset : Int, first : Int, len : Int, at : Int]
AppenderStates == [pc : {"idle", "append", "evict"}, base : Nat, len : Nat]
QueryStates ==
    [pc : {"idle", "refused", "copy", "done"}, offset : Nat, remaining : Int,
     idx : Nat, off : Int, got : Int, pieces : Seq(Piece)]

\* The shape of the state.
TypeOK ==
    /\ chunks \in Seq(Chunk)
    /\ total \in Nat /\ retained \in Int
    /\ writer \in Appenders \cup {Nobody}
    /\ appender \in [Appenders -> AppenderStates]
    /\ query \in QueryStates
    /\ arrived \in Nat /\ stale \in BOOLEAN

NoAppend == [pc |-> "idle", base |-> 0, len |-> 0]
NoQuery ==
    [pc |-> "idle", offset |-> 0, remaining |-> 0, idx |-> 0, off |-> 0,
     got |-> 0, pieces |-> << >>]

Init ==
    /\ chunks = << >> /\ total = 0 /\ retained = 0
    /\ writer = Nobody
    /\ appender = [a \in Appenders |-> NoAppend]
    /\ query = NoQuery
    /\ arrived = 0 /\ stale = FALSE

\* r.mu: a caller may read unless somebody writes, and write if it is free.
CanRLock == writer = Nobody
CanLock == writer = Nobody /\ query.pc \in {"idle", "refused", "done"}

MaxOf(x, y) == IF x > y THEN x ELSE y
MinOf(x, y) == IF x < y THEN x ELSE y
End(c) == c.base + c.len

\* A chunk without its k oldest bytes.
Dropped(c, k) == [base |-> c.base + k, first |-> c.first + k, len |-> c.len - k]

-----------------------------------------------------------------------------
(* Append                                                                  *)

\* The caller reads Total() for the base of the chunk it will append.
TakeBase(a, n) ==
    /\ appender[a].pc = "idle" /\ CanRLock
    /\ total < MaxBytes
    /\ appender' = [appender EXCEPT ![a] = [pc |-> "append", base |-> total, len |-> n]]
    /\ UNCHANGED <<ring, writer, query, history>>

\* The chunk of a's payload, cut to the newest Capacity bytes.
NewChunk(a) ==
    LET c == [base |-> appender[a].base, first |-> arrived, len |-> appender[a].len]
    IN  IF c.len > Capacity THEN Dropped(c, c.len - Capacity) ELSE c

\* What every Append counts, stored or not.
Count(a) ==
    /\ total' = MaxOf(total, appender[a].base + appender[a].len)
    /\ arrived' = arrived + appender[a].len
    /\ stale' = (stale \/ appender[a].base # total)

\* Append of nothing, or to a ring that keeps nothing.
AppendNothing(a) ==
    /\ appender[a].pc = "append" /\ CanLock
    /\ appender[a].len = 0 \/ Capacity = 0
    /\ Count(a)
    /\ appender' = [appender EXCEPT ![a] = NoAppend]
    /\ UNCHANGED <<chunks, retained, writer, query>>

\* Append up to its eviction loop.
AppendBegin(a) ==
    /\ appender[a].pc = "append" /\ CanLock
    /\ appender[a].len > 0 /\ Capacity > 0
    /\ Count(a)
    /\ chunks' = Append(chunks, NewChunk(a))
    /\ retained' = retained + NewChunk(a).len
    /\ writer' = a
    /\ appender' = [appender EXCEPT ![a] = [pc |-> "evict", base |-> 0, len |-> 0]]
    /\ UNCHANGED query

Excess == retained - Capacity
MustEvict == Excess > 0 /\ chunks # << >>

\* mutant: the oldest chunk goes also when a part of it would do
EvictOldestGreedy(a) ==
    /\ writer = a /\ MustEvict
    /\ retained' = retained - chunks[1].len
    /\ chunks' = Tail(chunks)
    /\ UNCHANGED <<total, writer, appender, query, history>>

\* The oldest chunk goes as a whole.
EvictOldest(a) ==
    /\ writer = a /\ MustEvict
    /\ chunks[1].len <= Excess
    /\ retained' = retained - chunks[1].len
    /\ chunks' = Tail(chunks)
    /\ UNCHANGED <<total, writer, appender, query, history>>

\* mutant: the chunk is cut and retained is not adjusted by as much
TrimOldestMiscounts(a) ==
    /\ writer = a /\ MustEvict
    /\ chunks[1].len > Excess
    /\ retained' = retained - chunks[1].len
    /\ chunks' = [chunks EXCEPT ![1] = Dropped(chunks[1], Excess)]
    /\ UNCHANGED <<total, writer, appender, query, history>>

\* The oldest chunk loses its oldest bytes.
TrimOldest(a) ==
    /\ writer = a /\ MustEvict
    /\ chunks[1].len > Excess
    /\ retained' = retained - Excess
    /\ chunks' = [chunks EXCEPT ![1] = Dropped(chunks[1], Excess)]
    /\ UNCHANGED <<total, writer, appender, query, history>>

AppendEnd(a) ==
    /\ writer = a /\ ~MustEvict
    /\ writer' = Nobody
    /\ appender' = [appender EXCEPT ![a] = NoAppend]
    /\ UNCHANGED <<ring, query, history>>

-----------------------------------------------------------------------------
(* Reset and Query                                                         *)

Reset ==
    /\ CanLock
    /\ chunks' = << >> /\ total' = 0 /\ retained' = 0
    /\ arrived' = 0
    /\ UNCHANGED <<writer, appender, query, stale>>

\* A negative offset means the beginning.
Clamped(o) == IF o < 0 THEN 0 ELSE o

\* The first chunk that ends after o.
IsStart(i, o) ==
    /\ i \in DOMAIN chunks
    /\ End(chunks[i]) > o
    /\ \A j \in 1 .. i - 1 : End(chunks[j]) <= o

\* mutant: the offset of the oldest retained byte counts as evicted
NothingAtOldest(o, n) ==
    \/ n <= 0
    \/ o >= total
    \/ chunks = << >>
    \/ chunks # << >> /\ o <= chunks[1].base
    \/ ~ \E i \in DOMAIN chunks : IsStart(i, o) /\ chunks[i].base <= o

\* Query returns no data: nothing is asked for, the offset is not there yet,
\* was evicted, or lies between two chunks.
Nothing(o, n) ==
    \/ n <= 0
    \/ o >= total
    \/ chunks = << >>
    \/ chunks # << >> /\ o < chunks[1].base
    \/ ~ \E i \in DOMAIN chunks : IsStart(i, o) /\ chunks[i].base <= o

QueryRefused(o, n) ==
    /\ query.pc = "idle" /\ CanRLock
    /\ Nothing(Clamped(o), n)
    /\ query' = [NoQuery EXCEPT !.pc = "refused", !.offset = Clamped(o), !.remaining = n]
    /\ UNCHANGED <<ring, writer, appender, history>>

\* Query up to its copying loop, from chunk i on.
QueryBegin(o, n, i) ==
    /\ query.pc = "idle" /\ CanRLock
    /\ ~ Nothing(Clamped(o), n)
    /\ IsStart(i, Clamped(o))
    /\ query' = [NoQuery EXCEPT !.pc = "copy", !.offset = Clamped(o),
                    !.remaining = MinOf(n, total - Clamped(o)),
                    !.idx = i, !.off = Clamped(o) - chunks[i].base]
    /\ UNCHANGED <<ring, writer, appender, history>>

CopyLeft == query.remaining > 0 /\ query.idx <= Len(chunks)
Available == MinOf(chunks[query.idx].len - query.off, query.remaining)

\* mutant: the data is taken from the beginning of the chunk
CurrentPieceFromStart ==
    [offset |-> chunks[query.idx].base + query.off,
     first |-> chunks[query.idx].first,
     len |-> Available, at |-> query.got]

\* The part of the current chunk that goes into the result.
CurrentPiece ==
    [offset |-> chunks[query.idx].base + query.off,
     first |-> chunks[query.idx].first + query.off,
     len |-> Available, at |-> query.got]

QueryCopy ==
    /\ query.pc = "copy" /\ CopyLeft
    /\ query' = [query EXCEPT !.remaining = @ - Available, !.got = @ + Available,
                    !.idx = @ + 1, !.off = 0, !.pieces = Append(@, CurrentPiece)]
    /\ UNCHANGED <<ring, writer, appender, history>>

QueryEnd ==
    /\ query.pc = "copy" /\ ~CopyLeft
    /\ query' = [query EXCEPT !.pc = "done", !.idx = 0, !.off = 0]
    /\ UNCHANGED <<ring, writer, appender, history>>

\* The caller takes the snapshot away.
QueryReturn ==
    /\ query.pc \in {"refused", "done"}
    /\ query' = NoQuery
    /\ UNCHANGED <<ring, writer, appender, history>>

-----------------------------------------------------------------------------
AppenderStep(a) ==
    \/ \E n \in Lengths : TakeBase(a, n)
    \/ AppendNothing(a)
    \/ AppendBegin(a)
    \/ EvictOldest(a)
    \/ TrimOldest(a)
    \/ AppendEnd(a)

QueryStep ==
    \/ \E o \in Offsets, n \in Counts :
        \/ QueryRefused(o, n)
        \/ \E i \in DOMAIN chunks : QueryBegin(o, n, i)
    \/ QueryCopy
    \/ QueryEnd
    \/ QueryReturn

Next ==
    \/ \E a \in Appenders : AppenderStep(a)
    \/ Reset
    \/ QueryStep

Spec == Init /\ [][Next]_vars

-----------------------------------------------------------------------------
(* Properties                                                              *)

\* "Total: total bytes seen by the stream": Total() is the number of bytes
\* appended since the ring was made or reset.  The base of every chunk, and
\* with it every offset a reader pages by, depends on it.  As long as every
\* base was Total() when it was used: that is so for the ring of a terminal,
\* which one read loop appends to and nobody resets; the goroutines of a
\* graph may come between Total() and Append of each other.
TotalSeen == ~stale => total = arrived

\* Between two Appends the ring holds exactly the newest
\* MinOf(total, Capacity) bytes of the stream, each at its offset, without a
\* gap: the eviction loop of Append neither drops a byte too many nor keeps
\* one too many, also when one payload is larger than the ring.
RetainsNewest ==
    writer = Nobody /\ ~stale =>
        /\ retained = MinOf(total, Capacity)
        /\ chunks # << >> =>
            /\ chunks[1].base = total - retained
            /\ End(chunks[Len(chunks)]) = total
        /\ \A i \in DOMAIN chunks :
            /\ chunks[i].len > 0
            /\ chunks[i].base = chunks[i].first
            /\ i > 1 => chunks[i].base = End(chunks[i - 1])

\* What Query has copied is, byte for byte, the stream from the requested
\* offset on, and a finished snapshot is complete: it has all the bytes asked
\* for, or all there were ("bytes in [Offset, Offset+len(Data))").
SnapshotExact ==
    ~stale =>
        /\ \A p \in {query.pieces[i] : i \in DOMAIN query.pieces} :
            /\ p.offset = query.offset + p.at
            /\ p.first = p.offset
        /\ query.pc = "done" => query.remaining = 0

\* What a Query that returns no data may mean.
RefusalJustified ==
    \A o \in Offsets, n \in Counts :
        QueryRefused(o, n) =>
            \/ stale
            \/ n <= 0
            \/ Clamped(o) >= total
            \/ Clamped(o) < total - Capacity

\* Query refuses to return data only when none is asked for, when the offset
\* is not there yet, or when the byte is not among the newest Capacity bytes:
\* no byte that the ring still holds is out of a reader's reach.
RefusedOnlyEvicted == [][RefusalJustified]_vars

\* The copying loop of Query never slices a chunk out of its bounds, with any
\* number of appenders and resets (a slice out of bounds panics in Go).
SlicesInBounds ==
    query.pc = "copy" /\ CopyLeft =>
        /\ query.idx \in DOMAIN chunks
        /\ query.off >= 0
        /\ query.off < chunks[query.idx].len
        /\ Available > 0

\* The bytes in a sequence of chunks, each by its chunk and its place there
BytesIn(c) == UNION {{i} \X (1 .. c[i].len) : i \in DOMAIN c}

\* Memory is bounded and nothing is read beside it, with any number of
\* appenders and resets and whatever bases the appenders used: retained is the
\* number of bytes in the chunks, within Capacity between two Appends, and the
\* copying loop of Query never slices a chunk out of its bounds, which panics.
MemoryIsSound ==
    /\ retained = Cardinality(BytesIn(chunks))
    /\ writer = Nobody => retained <= Capacity
    /\ SlicesInBounds
=============================================================================
