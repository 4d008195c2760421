--------------------------- MODULE MonitorSession ---------------------------
(***************************************************************************)
(* Serial monitors: monitor/manager.go and the auto virtual monitors of    *)
(* service.go.  A session opens a real port (A) and the peer of a virtual  *)
(* port made for it (B), and two goroutines forward bytes between them and *)
(* capture each payload as a frame.                                        *)
(*                                                                         *)
(* Sessions are the objects made by StartAutoVirtualMonitor; several may   *)
(* be started under one monitor id.  All want the same real port, which    *)
(* the operating system gives to one at a time; every virtual port has an  *)
(* id of its own (it contains the time).                                   *)
(***************************************************************************)
EXTENDS Integers, Sequences, FiniteSets

CONSTANTS
    Sessions, IDs,  \* session objects and monitor ids
    IdOf,           \* the monitor id of a session
    None,           \* nil
    Users,          \* callers of StopMonitor and DeleteMonitor
    FrameLimit,     \* defaultFrameLimit
    MaxReads        \* bound on the payloads read

ASSUME IdAssumption == IdOf \in [Sessions -> IDs] /\ None \notin Sessions
ASSUME LimitAssumption == FrameLimit \in Nat \ {0} /\ MaxReads \in Nat

VARIABLES
    sessions,  \* Manager.sessions
    auto,      \* Service.autoMonitorVirtuals, a virtual port named by its session
    virtuals,  \* the virtual ports that exist
    deviceA,   \* the session that has the real port open
    deviceB,   \* the sessions that have the peer of their virtual port open
    ses,       \* fields of the session objects
    starter,   \* StartAutoVirtualMonitor of a session
    fwd,       \* the forward goroutines
    user,      \* calls of StopMonitor and DeleteMonitor
    ended,     \* sessions found to have been started by a call that is over
    reads,     \* history: payloads read
    kept,      \* history: sessions whose virtual port could not be deleted
    overlapped \* history: sessions of which a call overlapped with a start

devices == <<deviceA, deviceB>>
maps == <<sessions, auto>>
history == <<kept, overlapped>>
vars == <<maps, virtuals, devices, ses, starter, fwd, user, ended, reads, history>>

Directions == {"ab", "ba"}
SessionStates ==
    [status : {"stopped", "running", "error"}, ports : BOOLEAN, stopped : BOOLEAN,
     wg : 0 .. 2, nextSeq : Nat, frames : Seq(Nat \X Directions)]
StarterStates ==
    {"new", "create", "insert", "openA", "openB", "closeA", "setError", "unmap", "undo",
     "run", "fork", "record", "started", "failed"}
FwdStates == {"none", "read", "write", "append", "fail", "closeA", "closeB", "done"}
UserStates == {"idle", "enter", "closeA", "closeB", "wait", "virtual", "deleteV", "forget"}

\* The shape of the state.
TypeOK ==
    /\ sessions \in [IDs -> Sessions \cup {None}] /\ auto \in [IDs -> Sessions \cup {None}]
    /\ virtuals \subseteq Sessions
    /\ deviceA \in Sessions \cup {None} /\ deviceB \subseteq Sessions
    /\ ses \in [Sessions -> SessionStates]
    /\ starter \in [Sessions -> StarterStates]
    /\ fwd \in [Sessions \X Directions -> FwdStates]
    /\ user \in [Users -> [pc : UserStates, s : Sessions \cup {None}, v : Sessions \cup {None}]]
    /\ ended \subseteq Sessions /\ reads \in 0 .. MaxReads
    /\ kept \subseteq Sessions /\ overlapped \subseteq Sessions

NewSession ==
    [status |-> "stopped", ports |-> FALSE, stopped |-> FALSE, wg |-> 0, nextSeq |-> 0, frames |-> << >>]
IdleUser == [pc |-> "idle", s |-> None, v |-> None]

Init ==
    /\ sessions = [i \in IDs |-> None] /\ auto = [i \in IDs |-> None]
    /\ virtuals = {} /\ deviceA = None /\ deviceB = {}
    /\ ses = [s \in Sessions |-> NewSession]
    /\ starter = [s \in Sessions |-> "new"]
    /\ fwd = [k \in Sessions \X Directions |-> "none"]
    /\ user = [u \in Users |-> IdleUser]
    /\ ended = {} /\ reads = 0
    /\ kept = {} /\ overlapped = {}

-----------------------------------------------------------------------------
(* Start                                                                   *)

InProgress(s) == starter[s] \notin {"new", "started", "failed"}
GoTo(s, pc) == starter' = [starter EXCEPT ![s] = pc]

\* The sessions of an id that are being started, or stopped
Starting(i) == {t \in Sessions : IdOf[t] = i /\ InProgress(t)}
WorksOn(u, s) == user[u].pc # "idle" /\ user[u].s = s
Stopping(i) == {t \in Sessions : IdOf[t] = i /\ \E u \in Users : WorksOn(u, t)}

\* A call for the sessions S begins while calls for those of T are under way.
Overlaps(S, T) == overlapped' = IF T = {} THEN overlapped ELSE overlapped \cup S \cup T

\* The virtual port is created before the session.
StartAutoVirtualMonitor(s) ==
    /\ starter[s] = "new"
    /\ Overlaps({s}, Starting(IdOf[s]) \cup Stopping(IdOf[s]))
    /\ GoTo(s, "create")
    /\ UNCHANGED <<maps, virtuals, devices, ses, fwd, user, ended, reads, kept>>

CreateVirtual(s) ==
    /\ starter[s] = "create"
    /\ virtuals' = virtuals \cup {s}
    /\ GoTo(s, "insert")
    /\ UNCHANGED <<maps, devices, ses, fwd, user, ended, reads, history>>

CreateVirtualFails(s) ==
    /\ starter[s] = "create"
    /\ GoTo(s, "failed")
    /\ UNCHANGED <<maps, virtuals, devices, ses, fwd, user, ended, reads, history>>

\* portInUseLocked looks at running sessions only.
PortInUse == \E i \in IDs : sessions[i] # None /\ ses[sessions[i]].status = "running"

InsertSession(s) ==
    /\ starter[s] = "insert"
    /\ sessions[IdOf[s]] = None /\ ~PortInUse
    /\ sessions' = [sessions EXCEPT ![IdOf[s]] = s]
    /\ GoTo(s, "openA")
    /\ UNCHANGED <<auto, virtuals, devices, ses, fwd, user, ended, reads, history>>

\* The id or the port is taken here, or the port is open elsewhere.
InsertRefused(s) ==
    /\ starter[s] = "insert"
    /\ GoTo(s, "undo")
    /\ UNCHANGED <<maps, virtuals, devices, ses, fwd, user, ended, reads, history>>

OpenA(s) ==
    /\ starter[s] = "openA" /\ deviceA = None
    /\ deviceA' = s
    /\ GoTo(s, "openB")
    /\ UNCHANGED <<maps, virtuals, deviceB, ses, fwd, user, ended, reads, history>>

OpenAFails(s) ==
    /\ starter[s] = "openA"
    /\ GoTo(s, "setError")
    /\ UNCHANGED <<maps, virtuals, devices, ses, fwd, user, ended, reads, history>>

OpenB(s) ==
    /\ starter[s] = "openB" /\ s \in virtuals
    /\ deviceB' = deviceB \cup {s}
    /\ GoTo(s, "run")
    /\ UNCHANGED <<maps, virtuals, deviceA, ses, fwd, user, ended, reads, history>>

OpenBFails(s) ==
    /\ starter[s] = "openB"
    /\ GoTo(s, "closeA")
    /\ UNCHANGED <<maps, virtuals, devices, ses, fwd, user, ended, reads, history>>

CloseA(s) == deviceA' = IF deviceA = s THEN None ELSE deviceA

StartClosesA(s) ==
    /\ starter[s] = "closeA"
    /\ CloseA(s)
    /\ GoTo(s, "setError")
    /\ UNCHANGED <<maps, virtuals, deviceB, ses, fwd, user, ended, reads, history>>

SetError(s) ==
    /\ starter[s] = "setError"
    /\ ses' = [ses EXCEPT ![s].status = "error"]
    /\ GoTo(s, "unmap")
    /\ UNCHANGED <<maps, virtuals, devices, fwd, user, ended, reads, history>>

\* The failed Start deletes the entry of its id, whatever is there.
UnmapFailed(s) ==
    /\ starter[s] = "unmap"
    /\ sessions' = [sessions EXCEPT ![IdOf[s]] = None]
    /\ GoTo(s, "undo")
    /\ UNCHANGED <<auto, virtuals, devices, ses, fwd, user, ended, reads, history>>

\* mutant: the virtual port of a failed start is left behind
UndoVirtualForgets(s) ==
    /\ starter[s] = "undo"
    /\ GoTo(s, "failed")
    /\ UNCHANGED <<maps, virtuals, devices, ses, fwd, user, ended, reads, history>>

UndoVirtual(s) ==
    /\ starter[s] = "undo"
    /\ virtuals' = virtuals \ {s}
    /\ GoTo(s, "failed")
    /\ UNCHANGED <<maps, devices, ses, fwd, user, ended, reads, history>>

\* The backend cannot stop the port: the error is discarded, and nobody
\* records the port, which stays.
UndoVirtualFails(s) ==
    /\ starter[s] = "undo" /\ s \in virtuals
    /\ kept' = kept \cup {s}
    /\ GoTo(s, "failed")
    /\ UNCHANGED <<maps, virtuals, devices, ses, fwd, user, ended, reads, overlapped>>

\* Both ports are open: the session runs, whatever happened to it meanwhile.
SetRunning(s) ==
    /\ starter[s] = "run"
    /\ ses' = [ses EXCEPT ![s].ports = TRUE, ![s].status = "running"]
    /\ GoTo(s, "fork")
    /\ UNCHANGED <<maps, virtuals, devices, fwd, user, ended, reads, history>>

\* wg.Add and the two goroutines, after the lock was given back
Fork(s) ==
    /\ starter[s] = "fork"
    /\ ses' = [ses EXCEPT ![s].wg = 2]
    /\ fwd' = [k \in DOMAIN fwd |-> IF k[1] = s THEN "read" ELSE fwd[k]]
    /\ GoTo(s, "record")
    /\ UNCHANGED <<maps, virtuals, devices, user, ended, reads, history>>

\* autoMonitorVirtuals learns of the virtual port last.
RecordVirtual(s) ==
    /\ starter[s] = "record"
    /\ auto' = [auto EXCEPT ![IdOf[s]] = s]
    /\ GoTo(s, "started")
    /\ UNCHANGED <<sessions, virtuals, devices, ses, fwd, user, ended, reads, history>>

-----------------------------------------------------------------------------
(* The forward goroutines                                                  *)

HasPort(s, d) == IF d = "ab" THEN deviceA = s ELSE s \in deviceB
Peer(d) == IF d = "ab" THEN "ba" ELSE "ab"
FwdGoTo(s, d, pc) == fwd' = [fwd EXCEPT ![<<s, d>>] = pc]

\* The goroutine returns: wg.Done.
Exit(s, d) ==
    /\ FwdGoTo(s, d, "done")
    /\ ses' = [ses EXCEPT ![s].wg = @ - 1]

Read(s, d) ==
    /\ fwd[<<s, d>>] = "read" /\ HasPort(s, d) /\ reads < MaxReads
    /\ reads' = reads + 1
    /\ FwdGoTo(s, d, "write")
    /\ UNCHANGED <<maps, virtuals, devices, ses, starter, user, ended, history>>

\* A read fails because the port was closed, or for a reason of its own.
ReadFails(s, d) ==
    /\ fwd[<<s, d>>] = "read" /\ ~ses[s].stopped /\ s \notin ended
    /\ FwdGoTo(s, d, "fail")
    /\ UNCHANGED <<maps, virtuals, devices, ses, starter, user, ended, reads, history>>

\* It is an end without a word once stopCh is closed.
ReadStopped(s, d) ==
    /\ fwd[<<s, d>>] = "read" /\ ses[s].stopped
    /\ Exit(s, d)
    /\ UNCHANGED <<maps, virtuals, devices, starter, user, ended, reads, history>>

\* So it is once the context is done: that of the call that started the
\* session, which ends some time after the call has returned.
ReadContextDone(s, d) ==
    /\ fwd[<<s, d>>] = "read" /\ ~ses[s].stopped /\ starter[s] = "started"
    /\ ended' = ended \cup {s}
    /\ Exit(s, d)
    /\ UNCHANGED <<maps, virtuals, devices, starter, user, reads, history>>

Write(s, d) ==
    /\ fwd[<<s, d>>] = "write" /\ HasPort(s, Peer(d))
    /\ FwdGoTo(s, d, "append")
    /\ UNCHANGED <<maps, virtuals, devices, ses, starter, user, ended, reads, history>>

WriteFails(s, d) ==
    /\ fwd[<<s, d>>] = "write"
    /\ FwdGoTo(s, d, "fail")
    /\ UNCHANGED <<maps, virtuals, devices, ses, starter, user, ended, reads, history>>

\* The newest FrameLimit frames
Newest(f) == IF Len(f) > FrameLimit THEN SubSeq(f, Len(f) - FrameLimit + 1, Len(f)) ELSE f

\* mutant: a full history loses the newest frame
AppendFrameDropsNewest(s, d) ==
    /\ fwd[<<s, d>>] = "append"
    /\ ses' = [ses EXCEPT ![s].nextSeq = @ + 1,
                          ![s].frames = IF Len(@) < FrameLimit THEN Append(@, <<ses[s].nextSeq + 1, d>>) ELSE @]
    /\ FwdGoTo(s, d, "read")
    /\ UNCHANGED <<maps, virtuals, devices, starter, user, ended, reads, history>>

AppendFrame(s, d) ==
    /\ fwd[<<s, d>>] = "append"
    /\ ses' = [ses EXCEPT ![s].nextSeq = @ + 1,
                          ![s].frames = Newest(Append(@, <<ses[s].nextSeq + 1, d>>))]
    /\ FwdGoTo(s, d, "read")
    /\ UNCHANGED <<maps, virtuals, devices, starter, user, ended, reads, history>>

\* mutant: fail() reports no error
FailKeepsStatus(s, d) ==
    /\ fwd[<<s, d>>] = "fail" /\ ses[s].status # "stopped"
    /\ IF ses[s].ports
       THEN /\ ses' = [ses EXCEPT ![s].stopped = TRUE, ![s].ports = FALSE]
            /\ FwdGoTo(s, d, "closeA")
       ELSE /\ ses' = [ses EXCEPT ![s].stopped = TRUE, ![s].wg = @ - 1]
            /\ FwdGoTo(s, d, "done")
    /\ UNCHANGED <<maps, virtuals, devices, starter, user, ended, reads, history>>

\* fail() of a session that is not stopped yet: it takes the ports, if the
\* other goroutine has not done so before.
Fail(s, d) ==
    /\ fwd[<<s, d>>] = "fail" /\ ses[s].status # "stopped"
    /\ IF ses[s].ports
       THEN /\ ses' = [ses EXCEPT ![s].status = "error", ![s].stopped = TRUE, ![s].ports = FALSE]
            /\ FwdGoTo(s, d, "closeA")
       ELSE /\ ses' = [ses EXCEPT ![s].status = "error", ![s].stopped = TRUE, ![s].wg = @ - 1]
            /\ FwdGoTo(s, d, "done")
    /\ UNCHANGED <<maps, virtuals, devices, starter, user, ended, reads, history>>

\* mutant: fail() waits for the goroutines, as stop() does, and is one itself
FailStoppedWaits(s, d) ==
    /\ fwd[<<s, d>>] = "fail" /\ ses[s].status = "stopped" /\ ses[s].wg = 0
    /\ Exit(s, d)
    /\ UNCHANGED <<maps, virtuals, devices, starter, user, ended, reads, history>>

FailStopped(s, d) ==
    /\ fwd[<<s, d>>] = "fail" /\ ses[s].status = "stopped"
    /\ Exit(s, d)
    /\ UNCHANGED <<maps, virtuals, devices, starter, user, ended, reads, history>>

FailClosesA(s, d) ==
    /\ fwd[<<s, d>>] = "closeA"
    /\ CloseA(s)
    /\ FwdGoTo(s, d, "closeB")
    /\ UNCHANGED <<maps, virtuals, deviceB, ses, starter, user, ended, reads, history>>

FailClosesB(s, d) ==
    /\ fwd[<<s, d>>] = "closeB"
    /\ deviceB' = deviceB \ {s}
    /\ Exit(s, d)
    /\ UNCHANGED <<maps, virtuals, deviceA, starter, user, ended, reads, history>>

-----------------------------------------------------------------------------
(* StopMonitor, DeleteMonitor and ClearFrames                              *)

StopMonitor(u, i) ==
    /\ user[u].pc = "idle" /\ sessions[i] # None
    /\ Overlaps({sessions[i]}, Starting(i))
    /\ user' = [user EXCEPT ![u] = [pc |-> "enter", s |-> sessions[i], v |-> None]]
    /\ UNCHANGED <<maps, virtuals, devices, ses, starter, fwd, ended, reads, kept>>

DeleteMonitor(u, i) ==
    /\ user[u].pc = "idle" /\ sessions[i] # None
    /\ Overlaps({sessions[i]}, Starting(i))
    /\ user' = [user EXCEPT ![u] = [pc |-> "enter", s |-> sessions[i], v |-> None]]
    /\ sessions' = [sessions EXCEPT ![i] = None]
    /\ UNCHANGED <<auto, virtuals, devices, ses, starter, fwd, ended, reads, kept>>

UserAt(u, pc) == user[u].pc = pc
UserGoTo(u, pc) == user' = [user EXCEPT ![u].pc = pc]
Idle(s) == ses[s].status = "stopped" \/ (ses[s].status = "error" /\ ~ses[s].ports)

StopIdle(u) ==
    /\ UserAt(u, "enter") /\ Idle(user[u].s)
    /\ UserGoTo(u, "virtual")
    /\ UNCHANGED <<maps, virtuals, devices, ses, starter, fwd, ended, reads, history>>

StopEnter(u) ==
    /\ UserAt(u, "enter") /\ ~Idle(user[u].s)
    /\ ses' = [ses EXCEPT ![user[u].s].status = "stopped", ![user[u].s].stopped = TRUE, ![user[u].s].ports = FALSE]
    /\ UserGoTo(u, "closeA")
    /\ UNCHANGED <<maps, virtuals, devices, starter, fwd, ended, reads, history>>

StopClosesA(u) ==
    /\ UserAt(u, "closeA")
    /\ CloseA(user[u].s)
    /\ UserGoTo(u, "closeB")
    /\ UNCHANGED <<maps, virtuals, deviceB, ses, starter, fwd, ended, reads, history>>

StopClosesB(u) ==
    /\ UserAt(u, "closeB")
    /\ deviceB' = deviceB \ {user[u].s}
    /\ UserGoTo(u, "wait")
    /\ UNCHANGED <<maps, virtuals, deviceA, ses, starter, fwd, ended, reads, history>>

\* wg.Wait
StopWait(u) ==
    /\ UserAt(u, "wait") /\ ses[user[u].s].wg = 0
    /\ UserGoTo(u, "virtual")
    /\ UNCHANGED <<maps, virtuals, devices, ses, starter, fwd, ended, reads, history>>

\* cleanupAutoMonitorVirtual: look up, delete, and forget what was looked up.
FindVirtual(u) ==
    LET v == auto[IdOf[user[u].s]] IN
    /\ UserAt(u, "virtual")
    /\ user' = [user EXCEPT ![u] = IF v = None THEN IdleUser ELSE [@ EXCEPT !.pc = "deleteV", !.v = v]]
    /\ UNCHANGED <<maps, virtuals, devices, ses, starter, fwd, ended, reads, history>>

DeleteVirtual(u) ==
    /\ UserAt(u, "deleteV")
    /\ virtuals' = virtuals \ {user[u].v}
    /\ UserGoTo(u, "forget")
    /\ UNCHANGED <<maps, devices, ses, starter, fwd, ended, reads, history>>

\* The backend cannot stop the port: the call returns the error, the port
\* stays and is still the one recorded for the id.
DeleteVirtualFails(u) ==
    /\ UserAt(u, "deleteV") /\ user[u].v \in virtuals
    /\ kept' = kept \cup {user[u].v}
    /\ user' = [user EXCEPT ![u] = IdleUser]
    /\ UNCHANGED <<maps, virtuals, devices, ses, starter, fwd, ended, reads, overlapped>>

ForgetVirtual(u) ==
    LET i == IdOf[user[u].s] IN
    /\ UserAt(u, "forget")
    /\ auto' = IF auto[i] = user[u].v THEN [auto EXCEPT ![i] = None] ELSE auto
    /\ user' = [user EXCEPT ![u] = IdleUser]
    /\ UNCHANGED <<sessions, virtuals, devices, ses, starter, fwd, ended, reads, history>>

ClearFrames(i) ==
    /\ sessions[i] # None
    /\ ses' = [ses EXCEPT ![sessions[i]].frames = << >>, ![sessions[i]].nextSeq = 0]
    /\ UNCHANGED <<maps, virtuals, devices, starter, fwd, user, ended, reads, history>>

-----------------------------------------------------------------------------
StartStep(s) ==
    \/ CreateVirtual(s) \/ CreateVirtualFails(s) \/ InsertSession(s) \/ InsertRefused(s)
    \/ OpenA(s) \/ OpenAFails(s) \/ OpenB(s) \/ OpenBFails(s) \/ StartClosesA(s)
    \/ SetError(s) \/ UnmapFailed(s) \/ UndoVirtual(s) \/ UndoVirtualFails(s)
    \/ SetRunning(s) \/ Fork(s) \/ RecordVirtual(s)

FwdStep(s, d) ==
    \/ Write(s, d) \/ WriteFails(s, d) \/ AppendFrame(s, d)
    \/ Fail(s, d) \/ FailStopped(s, d) \/ FailClosesA(s, d) \/ FailClosesB(s, d)

UserStep(u) ==
    \/ StopIdle(u) \/ StopEnter(u) \/ StopClosesA(u) \/ StopClosesB(u) \/ StopWait(u)
    \/ FindVirtual(u) \/ DeleteVirtual(u) \/ DeleteVirtualFails(u) \/ ForgetVirtual(u)

Next ==
    \/ \E s \in Sessions : StartAutoVirtualMonitor(s) \/ StartStep(s)
    \/ \E s \in Sessions, d \in Directions : Read(s, d) \/ ReadFails(s, d) \/ ReadStopped(s, d) \/ ReadContextDone(s, d)
                                           \/ FwdStep(s, d)
    \/ \E u \in Users : UserStep(u)
    \/ \E u \in Users, i \in IDs : StopMonitor(u, i) \/ DeleteMonitor(u, i)
    \/ \E i \in IDs : ClearFrames(i)

\* What a goroutine does without waiting for bytes from an open port.
FwdReacts(s, d) ==
    \/ FwdStep(s, d)
    \/ /\ ~HasPort(s, d)
       /\ ReadStopped(s, d) \/ ReadContextDone(s, d) \/ ReadFails(s, d)

\* Calls go on, and a read or write of a closed port returns.
Fairness ==
    /\ \A s \in Sessions : WF_vars(StartStep(s))
    /\ \A s \in Sessions, d \in Directions : WF_vars(FwdReacts(s, d))
    /\ \A u \in Users : WF_vars(UserStep(u))

Spec == Init /\ [][Next]_vars
LiveSpec == Spec /\ Fairness

-----------------------------------------------------------------------------
(* Properties                                                              *)

Closing(s) ==
    \/ \E u \in Users : user[u].s = s /\ user[u].pc \in {"enter", "closeA", "closeB"}
    \/ \E d \in Directions : fwd[<<s, d>>] \in {"closeA", "closeB"}

\* Calls for one monitor id may overlap: a session whose own calls never did
\* with a start of its id is what the code promises, whatever becomes of the
\* others.
Lone(s) == s \notin overlapped

\* The ports of a session are open only while it can be stopped by its id,
\* is starting, or somebody is closing them: "Delete stops and removes a
\* session" must not leave a session that runs and is in no map.
NoOrphanPorts ==
    \A s \in Sessions : Lone(s) /\ (deviceA = s \/ s \in deviceB) =>
        \/ sessions[IdOf[s]] = s /\ ses[s].ports
        \/ InProgress(s) \/ Closing(s)

\* Every virtual port can still be deleted: its start is under way, a stop
\* is looking for it or has found it, or its session is listed.  One that the
\* backend could not stop is left over.
NoOrphanVirtual ==
    \A s \in virtuals : Lone(s) /\ s \notin kept =>
        \/ InProgress(s)
        \/ auto[IdOf[s]] = s /\ (sessions[IdOf[s]] = s \/ \E u \in Users : user[u].s = s)

\* What a session has opened can be given back, whoever stops, deletes or
\* fails it meanwhile and whatever the other sessions of its id do, unless
\* its own calls overlapped with a start or its virtual port cannot be stopped.
NothingStaysOpen == NoOrphanPorts /\ NoOrphanVirtual

\* Once StopMonitor or DeleteMonitor returned, a stopped session captures and
\* forwards nothing any more: its goroutines have ended (stop waits for them).
StoppedIsQuiet ==
    \A s \in Sessions :
        /\ Lone(s) /\ ses[s].status = "stopped" /\ ~InProgress(s)
        /\ \A u \in Users : user[u].s # s
        => /\ \A d \in Directions : fwd[<<s, d>>] \in {"none", "done"}
           /\ deviceA # s /\ s \notin deviceB

\* Status running is true: both ports are open and both goroutines serve,
\* or one of them is about to report its failure; and the external tool has
\* its virtual port, which only the stop of this very session takes away
\* (cleanupAutoMonitorVirtual looks it up by id).  Unless a read failed after
\* the call that started the session was over: then forward returns without
\* a word and the session keeps its status.
RunningIsServed ==
    \A s \in Sessions : Lone(s) /\ ses[s].status = "running" /\ starter[s] = "started" /\ s \notin ended =>
        /\ deviceA = s /\ s \in deviceB
        /\ \A d \in Directions : fwd[<<s, d>>] \in {"read", "write", "append", "fail"}
        /\ sessions[IdOf[s]] = s /\ (\A u \in Users : user[u].s # s) => s \in virtuals

\* The status of a session is what its goroutines and ports are, unless its
\* own calls overlapped with a start.
StatusIsTrue == RunningIsServed /\ StoppedIsQuiet

\* "Delete stops and removes a session": one that was started and runs is
\* listed, or somebody is stopping it.
DeletedIsStopped ==
    \A s \in Sessions : starter[s] = "started" /\ ses[s].status = "running" =>
        sessions[IdOf[s]] = s \/ \E u \in Users : user[u].s = s

\* The history is the newest frames, without a gap in their numbers, up to
\* the limit, also across ClearFrames between two captures.
FramesNewest ==
    \A s \in Sessions :
        LET f == ses[s].frames IN
        /\ Len(f) = IF ses[s].nextSeq < FrameLimit THEN ses[s].nextSeq ELSE FrameLimit
        /\ \A k \in DOMAIN f : f[k][1] = ses[s].nextSeq - Len(f) + k

\* StopMonitor and DeleteMonitor return: the goroutines they wait for end,
\* also one that is just failing (fail does not wait for itself).
StopReturns == \A u \in Users : (user[u].pc = "enter") ~> (user[u].pc = "idle")

\* A failure of one direction that is reported ends the other one and closes
\* both ports.
FailureEndsBoth ==
    \A s \in Sessions :
        (\E d \in Directions : fwd[<<s, d>>] = "fail") ~>
            ((\A d \in Directions : fwd[<<s, d>>] = "done") /\ deviceA # s /\ s \notin deviceB)

\* Nobody waits for good: neither a stop nor the other end of a failed pair.
StopsAndFailuresEnd == StopReturns /\ FailureEndsBoth
=============================================================================
