----------------------------- MODULE ScriptNode -----------------------------
(***************************************************************************)
(* A script node of a serial graph: script_runtime.go, which runs the      *)
(* script of the node on every input, and the transform, the analyzer and  *)
(* the generator of graph_runtime.go, which do something with the result.  *)
(*                                                                         *)
(* Every run has a JavaScript machine, an output and a result of its own   *)
(* and shares the state of the node with the other runs.  The handler      *)
(* waits for its run, but not longer than the timeout; the machine         *)
(* (goja, external) then sees the interrupt between two instructions and   *)
(* finishes a call of Go that it is in.  Bytes are counted, not named, and *)
(* so is a key of the state, by the bytes of its value.                    *)
(***************************************************************************)
EXTENDS Integers, Sequences, FiniteSets

CONSTANTS
    Configs,       \* nodes: [type, empty, limits (of output and state), passes]
    Run,           \* inputs, or ticks of the generator
    Key,           \* keys of the state
    MaxCalls,      \* bound: calls of a script to output and state, per type of node
    Sizes,         \* bytes of an output and of a value
    InputSizes,    \* bytes of an input, per type of node
    DefaultLimit,  \* bytes of output, and of state, when the node has no limit
    FrameLimit, FrameBytesLimit,
    NoRun

ScriptTypes == {"transform", "analyzer", "generator"}

ASSUME ScriptAssumption ==
    /\ Configs \subseteq [type : ScriptTypes, empty : BOOLEAN, limits : Int \X Int, passes : BOOLEAN]
    /\ NoRun \notin Run /\ IsFiniteSet(Key)
    /\ Sizes \subseteq Nat /\ \A t \in ScriptTypes : InputSizes[t] \subseteq Nat
    /\ DefaultLimit \in Nat /\ FrameLimit \in Nat \ {0} /\ FrameBytesLimit \in Nat

VARIABLES
    config,        \* the node
    call,          \* the runs: what the handler and the machine do, and the result
    values,        \* the state of the node: bytes by key, 0 when it is not there
    lock,          \* the run that has the lock of the state
    stopped,       \* is the graph stopped, and the generator at its end?
    ended,
    outputs,       \* what went to the output of the node: [run, bytes, input]
    frames,        \* the frames of the node: [seq, bytes]
    frameSeq,
    last,          \* ghost: the last change of each key that was not refused
    lateChanges,   \* ghost: the changes of the state by each run after its timeout
    history,       \* ghost: all frames since the frames were cleared
    renumbered     \* ghost: were the counters reset since then?

stateVars == <<values, lock, last, lateChanges>>
frameVars == <<frames, frameSeq, history, renumbered>>
nodeVars == <<config, stopped, ended, outputs, frameVars>>
scriptVars == <<call, stateVars, nodeVars>>

Limit(configured) == IF configured <= 0 THEN DefaultLimit ELSE configured
MaxOutput == Limit(config.limits[1])
MaxState == Limit(config.limits[2])

\* The bytes of the values, counted as pairs of a key and a place
Total(state) == Cardinality(UNION {{k} \X (1 .. state[k]) : k \in Key})

-----------------------------------------------------------------------------
NoKey == << >>
NoCall ==
    [pc |-> "none", script |-> "none", interrupted |-> FALSE, input |-> 0, calls |-> 0,
     key |-> NoKey, bytes |-> 0, copy |-> NoKey, out |-> 0, mark |-> "none"]

\* Earlier runs of an analyzer have left a frame.
ScriptInit ==
    /\ config \in Configs
    /\ call = [r \in Run |-> NoCall]
    /\ values = [k \in Key |-> 0] /\ last = values
    /\ lock = NoRun /\ lateChanges = [r \in Run |-> 0]
    /\ stopped = FALSE /\ ended = FALSE /\ outputs = << >>
    /\ frames = (IF config.type = "analyzer" THEN <<[seq |-> 1, bytes |-> 1]>> ELSE << >>) /\ history = frames
    /\ frameSeq = Len(frames) /\ renumbered = FALSE

Waits(r) == call[r].pc = "wait"
Runs(r) == call[r].script = "js"
Set(r, c) == call' = [call EXCEPT ![r] = c]

-----------------------------------------------------------------------------
(* run                                                                     *)

\* Inputs of a node are handled concurrently; the generator runs its script,
\* waits for the result and only then for the next tick.
Begin(r, bytes) ==
    /\ call[r].pc = "none"
    /\ config.type = "generator" => ~ended /\ \A s \in Run : ~Waits(s) /\ call[s].pc # "failed"
    /\ Set(r, IF config.empty
              THEN [call[r] EXCEPT !.pc = "failed", !.input = bytes]
              ELSE [call[r] EXCEPT !.pc = "wait", !.script = "js", !.input = bytes])
    /\ UNCHANGED <<stateVars, nodeVars>>

\* An interrupted script does nothing more.
Calls(r) == Runs(r) /\ ~call[r].interrupted
CountedCall(r) == Calls(r) /\ call[r].calls < MaxCalls[config.type]

\* An error is thrown into the script, which may catch it.
Thrown == {"js", "threw"}

\* output.bytes, output.hex and output.text, which an analyzer has not
Output(r, bytes) ==
    /\ CountedCall(r) /\ config.type # "analyzer"
    /\ call[r].out + bytes <= MaxOutput
    /\ Set(r, [call[r] EXCEPT !.out = @ + bytes, !.calls = @ + 1])
    /\ UNCHANGED <<stateVars, nodeVars>>

\* The output is too large, or what is given does not convert to bytes.
OutputThrows(r) ==
    /\ CountedCall(r) /\ config.type # "analyzer"
    /\ \E s \in Thrown : Set(r, [call[r] EXCEPT !.script = s, !.calls = @ + 1])
    /\ UNCHANGED <<stateVars, nodeVars>>

\* drop() or error(), which counts when there are both; field() only adds to
\* the text of a frame.
Mark(r) ==
    /\ Calls(r) /\ call[r].mark = "none"
    /\ \E m \in {"drop", "error"} : Set(r, [call[r] EXCEPT !.mark = m])
    /\ UNCHANGED <<stateVars, nodeVars>>

\* state.set, and state.delete with no bytes
ChangeState(r, k, bytes) ==
    /\ CountedCall(r)
    /\ Set(r, [call[r] EXCEPT !.script = "lock", !.key = k, !.bytes = bytes, !.calls = @ + 1])
    /\ UNCHANGED <<stateVars, nodeVars>>

\* The lock is taken, and the map is copied.
LockState(r) ==
    /\ call[r].script = "lock" /\ lock = NoRun
    /\ lock' = r
    /\ Set(r, [call[r] EXCEPT !.script = "locked", !.copy = [values EXCEPT ![call[r].key] = call[r].bytes]])
    /\ UNCHANGED <<values, last, lateChanges, nodeVars>>

\* The copy becomes the state when it is not too large.
StoreState(r) ==
    LET c == call[r]
        changed(s) == [c EXCEPT !.script = s, !.key = NoKey, !.bytes = 0, !.copy = NoKey]
    IN  /\ c.script = "locked"
        /\ lock' = NoRun
        /\ IF c.bytes > 0 /\ Total(c.copy) > MaxState
           THEN /\ \E s \in Thrown : Set(r, changed(s))
                /\ UNCHANGED <<values, last, lateChanges>>
           ELSE /\ Set(r, changed("js"))
                /\ values' = c.copy /\ last' = [last EXCEPT ![c.key] = c.bytes]
                /\ lateChanges' = IF c.interrupted THEN [lateChanges EXCEPT ![r] = @ + 1] ELSE lateChanges
        /\ UNCHANGED nodeVars

ScriptEnds(r) ==
    /\ Calls(r)
    /\ \E end \in {"ended", "threw"} : Set(r, [call[r] EXCEPT !.script = end])
    /\ UNCHANGED <<stateVars, nodeVars>>

SeesInterrupt(r) ==
    /\ Runs(r) /\ call[r].interrupted
    /\ Set(r, [call[r] EXCEPT !.script = "threw"])
    /\ UNCHANGED <<stateVars, nodeVars>>

RunReturns(r) ==
    /\ Waits(r) /\ call[r].script \in {"ended", "threw"}
    /\ Set(r, [call[r] EXCEPT !.pc = IF call[r].script = "ended" THEN "result" ELSE "failed"])
    /\ UNCHANGED <<stateVars, nodeVars>>

\* mutant: a run that times out returns what it has so far
TimeoutKeeps(r) ==
    /\ Waits(r)
    /\ Set(r, [call[r] EXCEPT !.pc = "result", !.interrupted = TRUE])
    /\ UNCHANGED <<stateVars, nodeVars>>

\* When the script has ended as well, select takes either.
Timeout(r) ==
    /\ Waits(r)
    /\ Set(r, [call[r] EXCEPT !.pc = "failed", !.interrupted = TRUE])
    /\ UNCHANGED <<stateVars, nodeVars>>

-----------------------------------------------------------------------------
(* What the node does with the result                                      *)

Send(r, bytes, input) == outputs' = Append(outputs, [run |-> r, bytes |-> bytes, input |-> input])

\* handleScriptTransform
Transform(r) ==
    /\ config.type = "transform" /\ call[r].pc \in {"result", "failed"}
    /\ Set(r, [call[r] EXCEPT !.pc = "over"])
    /\ CASE call[r].pc = "failed" /\ config.passes -> Send(r, call[r].input, TRUE)
         [] call[r].pc = "result" /\ call[r].mark = "none" /\ call[r].out > 0 -> Send(r, call[r].out, FALSE)
         [] OTHER -> UNCHANGED outputs
    /\ UNCHANGED <<stateVars, config, stopped, ended, frameVars>>

\* runScriptGenerator ends with the first error.
Generate(r) ==
    /\ config.type = "generator" /\ call[r].pc \in {"result", "failed"}
    /\ Set(r, [call[r] EXCEPT !.pc = "over"])
    /\ LET bad == call[r].pc = "failed" \/ call[r].mark = "error" IN
       /\ ended' = (ended \/ bad)
       /\ IF bad \/ call[r].mark = "drop" \/ call[r].out = 0 \/ stopped
          THEN UNCHANGED outputs
          ELSE Send(r, call[r].out, FALSE)
    /\ UNCHANGED <<stateVars, config, stopped, frameVars>>

\* What appendFrame, appendProtocolFrame and appendScriptFrame keep
FrameBytes(fs) == Cardinality(UNION {{i} \X (1 .. fs[i].bytes) : i \in DOMAIN fs})
Fits(fs) == Len(fs) <= FrameLimit /\ (FrameBytes(fs) > FrameBytesLimit => Len(fs) <= 1)

\* The loop drops the oldest frames, until the rest fits for the first time.
Behind(fs, i) == SubSeq(fs, i, Len(fs))
FirstThatFits(fs) ==
    CHOOSE i \in 1 .. Len(fs) + 1 : Fits(Behind(fs, i)) /\ \A j \in 1 .. i - 1 : ~Fits(Behind(fs, j))
Trim(fs) == Behind(fs, FirstThatFits(fs))

\* handleScriptAnalyzer: also an input whose script failed is a frame.
Analyze(r) ==
    LET frame == [seq |-> frameSeq + 1, bytes |-> call[r].input] IN
    /\ config.type = "analyzer" /\ call[r].pc \in {"result", "failed"}
    /\ Set(r, [call[r] EXCEPT !.pc = "over"])
    /\ frameSeq' = frame.seq /\ frames' = Trim(Append(frames, frame)) /\ history' = Append(history, frame)
    /\ UNCHANGED <<stateVars, config, stopped, ended, outputs, renumbered>>

ClearFrames ==
    /\ frames' = << >> /\ history' = << >> /\ frameSeq' = 0 /\ renumbered' = FALSE
    /\ UNCHANGED <<call, stateVars, config, stopped, ended, outputs>>

\* The numbers of the frames start again too; the frames, if any, are kept.
ResetCounters ==
    /\ frames # << >>
    /\ frameSeq' = 0 /\ renumbered' = TRUE
    /\ UNCHANGED <<call, stateVars, config, stopped, ended, outputs, frames, history>>

\* Only the generator looks.
StopGraph ==
    /\ config.type = "generator"
    /\ stopped' = TRUE /\ ended' = TRUE
    /\ UNCHANGED <<call, stateVars, config, outputs, frameVars>>

-----------------------------------------------------------------------------
Machine(r) ==
    \/ \E bytes \in Sizes : Output(r, bytes)
    \/ \E k \in Key, bytes \in Sizes \cup {0} : ChangeState(r, k, bytes)
    \/ OutputThrows(r) \/ Mark(r) \/ LockState(r) \/ StoreState(r) \/ ScriptEnds(r) \/ SeesInterrupt(r)

Handler(r) ==
    \/ \E bytes \in InputSizes[config.type] : Begin(r, bytes)
    \/ RunReturns(r) \/ Timeout(r) \/ Transform(r) \/ Generate(r) \/ Analyze(r)

ScriptNext == (\E r \in Run : Machine(r) \/ Handler(r)) \/ ClearFrames \/ ResetCounters \/ StopGraph

ScriptSpec == ScriptInit /\ [][ScriptNext]_scriptVars

-----------------------------------------------------------------------------
(* Properties                                                              *)

\* "Script runtime applies timeout, maximum output bytes, and maximum state
\* bytes limits": whatever runs at the same time, and whatever goes on after
\* its timeout, the state is what the scripts last set and within its limit,
\* and a run changes it once at most after it has timed out.  An output
\* leaves the node whole, once, within its limit and only from a script that
\* came to its end; a failed one leaves the input, if the node is told to
\* pass it.
ScriptIsBounded ==
    /\ values = last /\ Total(values) <= MaxState
    /\ \A r \in Run : lateChanges[r] <= 1 /\ call[r].out <= MaxOutput
    /\ \A i \in DOMAIN outputs :
        LET e == outputs[i]
            from == call[e.run]
        IN  /\ \A j \in DOMAIN outputs : outputs[j].run = e.run => i = j
            /\ IF e.input
               THEN e.bytes = from.input /\ config.passes /\ (from.script = "ended" => from.interrupted)
               ELSE e.bytes = from.out /\ from.script = "ended" /\ ~from.interrupted /\ from.mark = "none"

\* The frames of a node are the newest, as many as its limits allow; the
\* newest is kept however large it is.  They are numbered one after the
\* other, until the counters are reset, which lets the numbers start again
\* beside the frames that have them.
FramesAreNewest ==
    LET suffix(n) == SubSeq(history, Len(history) - n + 1, Len(history)) IN
    /\ frames = suffix(Len(frames))
    /\ Len(frames) <= FrameLimit /\ (Len(frames) > 1 => FrameBytes(frames) <= FrameBytesLimit)
    /\ Len(frames) < Len(history) => ~Fits(suffix(Len(frames) + 1))
    /\ ~renumbered => \A i \in DOMAIN frames : frames[i].seq = frameSeq - Len(frames) + i

\* Both: a script node keeps to its limits, its timeout and the state that its
\* runs share, and has the newest of its frames.
NodeIsBounded == ScriptIsBounded /\ FramesAreNewest
=============================================================================
