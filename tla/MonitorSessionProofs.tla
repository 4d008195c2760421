------------------------ MODULE MonitorSessionProofs ------------------------
(***************************************************************************)
(* What a serial monitor opens can be given back, its status is what its   *)
(* goroutines and ports are, and its history is the newest frames, for any *)
(* sessions, ids and callers, with a limit of any size.  Calls for one id  *)
(* may overlap: the first two are about the sessions whose own calls never *)
(* overlapped with a start (Lone), next to others of which they did.       *)
(***************************************************************************)
EXTENDS MonitorSession, SequenceTheorems, TLAPS

SesType ==
    [status : {"stopped", "running", "error"}, ports : BOOLEAN, stopped : BOOLEAN,
     wg : Int, nextSeq : Nat, frames : Seq(Nat \X Directions)]

MonitorType ==
    /\ sessions \in [IDs -> Sessions \cup {None}] /\ auto \in [IDs -> Sessions \cup {None}]
    /\ virtuals \subseteq Sessions
    /\ deviceA \in Sessions \cup {None} /\ deviceB \subseteq Sessions
    /\ ses \in [Sessions -> SesType]
    /\ starter \in [Sessions -> StarterStates]
    /\ fwd \in [Sessions \X Directions -> FwdStates]
    /\ user \in [Users -> [pc : UserStates, s : Sessions \cup {None}, v : Sessions \cup {None}]]
    /\ \A u \in Users : user[u].pc # "idle" => user[u].s \in Sessions
    /\ ended \subseteq Sessions /\ kept \subseteq Sessions /\ overlapped \subseteq Sessions

Serving == {"read", "write", "append", "fail"}
Active == Serving \cup {"closeA", "closeB"}

Late == {"fork", "record", "started"}
Listed == {"openA", "openB", "closeA", "setError", "unmap", "run", "fork", "record"}

Runs(s) == ses[s].status = "running"
At(s, pcs) == \E u \in Users : user[u].s = s /\ user[u].pc \in pcs

\* The fields of a session go with its start and with its goroutines, which
\* wg counts.
FieldsInv(s) ==
    /\ starter[s] \notin Late =>
        ~ses[s].ports /\ ~ses[s].stopped /\ fwd[<<s, "ab">>] = "none" /\ fwd[<<s, "ba">>] = "none"
    /\ starter[s] = "fork" => Runs(s) /\ fwd[<<s, "ab">>] = "none" /\ fwd[<<s, "ba">>] = "none"
    /\ starter[s] \in {"record", "started"} => \A d \in Directions :
        /\ fwd[<<s, d>>] # "none"
        /\ Runs(s) => fwd[<<s, d>>] \in Serving \/ (fwd[<<s, d>>] = "done" /\ s \in ended)
    /\ starter[s] \in Late => (ses[s].ports <=> Runs(s)) /\ (ses[s].stopped <=> ~Runs(s))
    /\ ses[s].wg = (IF fwd[<<s, "ab">>] \in Active THEN 1 ELSE 0) + (IF fwd[<<s, "ba">>] \in Active THEN 1 ELSE 0)

\* A session that runs has both ports, and one that does not has a port only
\* where it starts or where somebody is about to close that port.
PortsInv(s) ==
    /\ deviceA = s => starter[s] \in {"openB", "closeA", "run"} \cup Late
    /\ s \in deviceB => starter[s] \in {"run"} \cup Late
    /\ starter[s] = "openB" => deviceA = s
    /\ starter[s] = "run" \/ (starter[s] \in Late /\ Runs(s)) => deviceA = s /\ s \in deviceB
    /\ starter[s] \in Late /\ ~Runs(s) =>
        /\ deviceA = s => At(s, {"closeA"}) \/ \E d \in Directions : fwd[<<s, d>>] = "closeA"
        /\ s \in deviceB =>
            At(s, {"closeA", "closeB"}) \/ \E d \in Directions : fwd[<<s, d>>] \in {"closeA", "closeB"}

\* Who stops a session stays until its goroutines have ended.
QuietInv(s) ==
    starter[s] \in Late /\ ses[s].status = "stopped" => ses[s].wg = 0 \/ At(s, {"closeA", "closeB", "wait"})

LocalInv(s) == FieldsInv(s) /\ PortsInv(s) /\ QuietInv(s)

\* The maps and the calls name sessions of their id.
IdsInv ==
    /\ \A i \in IDs : sessions[i] # None => IdOf[sessions[i]] = i
    /\ \A i \in IDs : auto[i] # None => IdOf[auto[i]] = i
    /\ \A u \in Users : user[u].pc \in {"deleteV", "forget"} =>
            user[u].v \in Sessions /\ IdOf[user[u].v] = IdOf[user[u].s]

\* The entry of an id is that of the start under way, and stays there.
ListedInv(s) ==
    /\ starter[s] \in Listed => sessions[IdOf[s]] = s
    /\ sessions[IdOf[s]] = s => starter[s] \in Listed \cup {"started"}
    /\ sessions[IdOf[s]] = s /\ starter[s] = "started" => auto[IdOf[s]] \in {s, None}
    /\ starter[s] \in Late /\ Runs(s) => sessions[IdOf[s]] = s \/ At(s, {"enter"})

\* The virtual port is there while the session runs, and is known to whoever
\* can delete it.
VirtualInv(s) ==
    /\ starter[s] = "run" \/ (starter[s] \in Late /\ Runs(s)) => s \in virtuals
    /\ s \in virtuals =>
        /\ starter[s] \notin {"new", "create"}
        /\ starter[s] = "failed" => s \in kept
        /\ starter[s] = "started" /\ s \notin kept =>
            auto[IdOf[s]] = s /\ (sessions[IdOf[s]] = s \/ At(s, UserStates \ {"idle"}))

\* A call works on a session that was started, and whose virtual port is the
\* one it finds.
UserInv(u) ==
    user[u].pc # "idle" =>
        /\ starter[user[u].s] = "started"
        /\ user[u].pc # "enter" => ~Runs(user[u].s)
        /\ auto[IdOf[user[u].s]] \in {user[u].s, None}
        /\ user[u].pc \in {"deleteV", "forget"} => user[u].v = user[u].s
        /\ user[u].pc = "forget" => user[u].s \notin virtuals

\* Another start for the id of a session makes no progress while that session
\* is listed, and none is under way while it is started or stopped; a caller
\* that works for its id works on it, while it is listed or stopped.
TurnsInv(t) ==
    /\ \A s \in Sessions : s # t /\ IdOf[s] = IdOf[t] /\ InProgress(s) =>
        /\ ~InProgress(t) /\ \A u \in Users : ~WorksOn(u, t)
        /\ sessions[IdOf[t]] = t => starter[s] \notin Listed
    /\ \A s \in Sessions, u \in Users : IdOf[s] = IdOf[t] /\ WorksOn(u, s) =>
        /\ ~InProgress(t)
        /\ s # t => sessions[IdOf[t]] # t /\ \A w \in Users : ~WorksOn(w, t)
        /\ s = t => sessions[IdOf[t]] \in {t, None}

\* What holds of a session whose own calls never overlapped with a start
LoneInv(s) == LocalInv(s) /\ ListedInv(s) /\ VirtualInv(s) /\ TurnsInv(s)

MonitorInv ==
    /\ MonitorType /\ IdsInv
    /\ \A s \in Sessions : Lone(s) => LoneInv(s)
    /\ \A u \in Users : Lone(user[u].s) => UserInv(u)

-----------------------------------------------------------------------------
(* What a step makes of the fields of a session                            *)

\* The fields of session s become these, its history and the other sessions
\* stay as they are.
Fields(s, status, ports, stopped, wg) ==
    /\ ses' \in [Sessions -> SesType]
    /\ \A t \in Sessions : t # s => ses'[t] = ses[t]
    /\ ses'[s].status = status /\ ses'[s].ports = ports /\ ses'[s].stopped = stopped /\ ses'[s].wg = wg
    /\ ses'[s].nextSeq = ses[s].nextSeq /\ ses'[s].frames = ses[s].frames

LEMMA SesFields ==
  ASSUME MonitorType, NEW s \in Sessions
  PROVE  /\ ses[s].status \in {"stopped", "running", "error"} /\ ses[s].ports \in BOOLEAN
         /\ ses[s].stopped \in BOOLEAN /\ ses[s].wg \in Int
         /\ ses[s].nextSeq \in Nat /\ ses[s].frames \in Seq(Nat \X Directions)
BY DEF MonitorType, SesType

LEMMA SesBecomes ==
  ASSUME MonitorType, NEW s \in Sessions,
         NEW status \in {"stopped", "running", "error"}, NEW ports \in BOOLEAN, NEW stopped \in BOOLEAN, NEW wg \in Int
  PROVE  /\ ses' = [ses EXCEPT ![s].status = status] => Fields(s, status, ses[s].ports, ses[s].stopped, ses[s].wg)
         /\ ses' = [ses EXCEPT ![s].ports = ports, ![s].status = status] => Fields(s, status, ports, ses[s].stopped, ses[s].wg)
         /\ ses' = [ses EXCEPT ![s].wg = wg] => Fields(s, ses[s].status, ses[s].ports, ses[s].stopped, wg)
         /\ ses' = [ses EXCEPT ![s].status = status, ![s].stopped = stopped, ![s].ports = ports] =>
                Fields(s, status, ports, stopped, ses[s].wg)
         /\ ses' = [ses EXCEPT ![s].status = status, ![s].stopped = stopped, ![s].wg = wg] =>
                Fields(s, status, ses[s].ports, stopped, wg)
<1>1. ses[s] \in SesType /\ ses \in [Sessions -> SesType]
  BY DEF MonitorType
<1>2. ASSUME ses' = [ses EXCEPT ![s].status = status] PROVE Fields(s, status, ses[s].ports, ses[s].stopped, ses[s].wg)
  BY <1>1, <1>2 DEF Fields, SesType
<1>3. ASSUME ses' = [ses EXCEPT ![s].ports = ports, ![s].status = status]
      PROVE  Fields(s, status, ports, ses[s].stopped, ses[s].wg)
  BY <1>1, <1>3 DEF Fields, SesType
<1>4. ASSUME ses' = [ses EXCEPT ![s].wg = wg] PROVE Fields(s, ses[s].status, ses[s].ports, ses[s].stopped, wg)
  BY <1>1, <1>4 DEF Fields, SesType
<1>5. ASSUME ses' = [ses EXCEPT ![s].status = status, ![s].stopped = stopped, ![s].ports = ports]
      PROVE  Fields(s, status, ports, stopped, ses[s].wg)
  BY <1>1, <1>5 DEF Fields, SesType
<1>6. ASSUME ses' = [ses EXCEPT ![s].status = status, ![s].stopped = stopped, ![s].wg = wg]
      PROVE  Fields(s, status, ses[s].ports, stopped, wg)
  BY <1>1, <1>6 DEF Fields, SesType
<1>7. QED
  BY <1>2, <1>3, <1>4, <1>5, <1>6

Started(s, pc) ==
    /\ starter' \in [Sessions -> StarterStates]
    /\ starter'[s] = pc /\ \A t \in Sessions : t # s => starter'[t] = starter[t]

LEMMA StarterGoes ==
  ASSUME MonitorType, NEW s \in Sessions, NEW pc \in StarterStates, GoTo(s, pc)
  PROVE  Started(s, pc)
BY DEF MonitorType, GoTo, Started

FwdNow(s, d, pc) ==
    /\ fwd' \in [Sessions \X Directions -> FwdStates]
    /\ fwd'[<<s, d>>] = pc
    /\ \A t \in Sessions, e \in Directions : t # s \/ e # d => fwd'[<<t, e>>] = fwd[<<t, e>>]

LEMMA FwdGoes ==
  ASSUME MonitorType, NEW s \in Sessions, NEW d \in Directions, NEW pc \in FwdStates, FwdGoTo(s, d, pc)
  PROVE  FwdNow(s, d, pc)
<1>1. <<s, d>> \in Sessions \X Directions /\ fwd' = [fwd EXCEPT ![<<s, d>>] = pc] /\ fwd \in [Sessions \X Directions -> FwdStates]
  BY DEF MonitorType, FwdGoTo
<1>2. \A t \in Sessions, e \in Directions : t # s \/ e # d => <<t, e>> # <<s, d>> /\ <<t, e>> \in Sessions \X Directions
  OBVIOUS
<1>3. QED
  BY <1>1, <1>2 DEF FwdNow

UserNow(u, pc, s, v) ==
    /\ user' \in [Users -> [pc : UserStates, s : Sessions \cup {None}, v : Sessions \cup {None}]]
    /\ user'[u].pc = pc /\ user'[u].s = s /\ user'[u].v = v
    /\ \A w \in Users : w # u => user'[w] = user[w]

LEMMA UserGoes ==
  ASSUME MonitorType, NEW u \in Users, NEW pc \in UserStates, UserGoTo(u, pc)
  PROVE  UserNow(u, pc, user[u].s, user[u].v)
BY DEF MonitorType, UserGoTo, UserNow

LEMMA UserBecomes ==
  ASSUME MonitorType, NEW u \in Users, NEW pc \in UserStates, NEW s \in Sessions \cup {None}, NEW v \in Sessions \cup {None},
         user' = [user EXCEPT ![u] = [pc |-> pc, s |-> s, v |-> v]]
  PROVE  UserNow(u, pc, s, v)
BY DEF MonitorType, UserNow

LEMMA UserFinds ==
  ASSUME MonitorType, NEW u \in Users, NEW v \in Sessions,
         user' = [user EXCEPT ![u] = [@ EXCEPT !.pc = "deleteV", !.v = v]]
  PROVE  UserNow(u, "deleteV", user[u].s, v)
BY DEF MonitorType, UserNow, UserStates

\* The newest frames are the last ones.
LEMMA NewestIs ==
  ASSUME NEW S, NEW f \in Seq(S)
  PROVE  LET m == IF Len(f) > FrameLimit THEN Len(f) - FrameLimit ELSE 0 IN
         /\ Newest(f) \in Seq(S) /\ Len(Newest(f)) = Len(f) - m
         /\ \A k \in 1 .. Len(f) - m : Newest(f)[k] = f[m + k]
<1>1. CASE Len(f) > FrameLimit
  <2> DEFINE m == Len(f) - FrameLimit
  <2>1. m \in Nat /\ Len(f) \in Nat /\ Newest(f) = SubSeq(f, m + 1, Len(f)) /\ m + 1 <= Len(f)
    BY <1>1, LimitAssumption DEF Newest
  <2> HIDE DEF m
  <2>2. \A i \in m + 1 .. Len(f) : f[i] \in S
    BY <2>1
  <2>3. /\ SubSeq(f, m + 1, Len(f)) \in Seq(S)
        /\ Len(SubSeq(f, m + 1, Len(f))) = Len(f) - (m + 1) + 1
        /\ \A i \in 1 .. Len(f) - (m + 1) + 1 : SubSeq(f, m + 1, Len(f))[i] = f[m + 1 + i - 1]
    BY <2>1, <2>2, SubSeqProperties
  <2>4. Len(f) - (m + 1) + 1 = Len(f) - m
    BY <2>1
  <2>5. \A k \in 1 .. Len(f) - m : Newest(f)[k] = f[m + k]
    <3> SUFFICES ASSUME NEW k \in 1 .. Len(f) - m PROVE Newest(f)[k] = f[m + k]
      OBVIOUS
    <3>1. Newest(f)[k] = f[m + 1 + k - 1] /\ k \in Int
      BY <2>1, <2>3, <2>4
    <3>2. m + 1 + k - 1 = m + k
      BY <2>1, <3>1
    <3>3. QED
      BY <3>1, <3>2
  <2>6. Newest(f) \in Seq(S) /\ Len(Newest(f)) = Len(f) - m
    BY <2>1, <2>3, <2>4
  <2>7. QED
    BY <1>1, <2>5, <2>6 DEF m
<1>2. CASE ~(Len(f) > FrameLimit)
  BY <1>2 DEF Newest
<1>3. QED
  BY <1>1, <1>2

-----------------------------------------------------------------------------
(* What a step leaves alone                                                *)

\* A step of another session, or of a caller that works on another one
Apart(t) ==
    /\ starter'[t] = starter[t]
    /\ ses'[t].status = ses[t].status /\ ses'[t].ports = ses[t].ports
    /\ ses'[t].stopped = ses[t].stopped /\ ses'[t].wg = ses[t].wg
    /\ \A d \in Directions : fwd'[<<t, d>>] = fwd[<<t, d>>]
    /\ deviceA' = t <=> deviceA = t
    /\ t \in deviceB' <=> t \in deviceB
    /\ t \in ended' <=> t \in ended

HistoryGrows == kept \subseteq kept' /\ overlapped \subseteq overlapped'

LEMMA StillLone == ASSUME HistoryGrows, NEW t, Lone(t)' PROVE Lone(t)
BY DEF HistoryGrows, Lone

History(t) == ses'[t].nextSeq = ses[t].nextSeq /\ ses'[t].frames = ses[t].frames

StartOf(s) == StartAutoVirtualMonitor(s) \/ StartStep(s)
FwdOf(s, d) == Read(s, d) \/ ReadFails(s, d) \/ ReadStopped(s, d) \/ ReadContextDone(s, d) \/ FwdStep(s, d)
UserOf(u) == UserStep(u) \/ \E i \in IDs : StopMonitor(u, i) \/ DeleteMonitor(u, i)

LEMMA StartApart ==
  ASSUME MonitorType, NEW s \in Sessions, StartOf(s)
  PROVE  /\ MonitorType' /\ UNCHANGED <<user, ended>> /\ HistoryGrows
         /\ \A t \in Sessions : t # s => Apart(t) /\ (t \in virtuals' <=> t \in virtuals)
         /\ \A t \in Sessions : History(t)
<1>t. /\ sessions \in [IDs -> Sessions \cup {None}] /\ auto \in [IDs -> Sessions \cup {None}]
      /\ virtuals \subseteq Sessions /\ deviceA \in Sessions \cup {None} /\ deviceB \subseteq Sessions
      /\ ses \in [Sessions -> SesType] /\ fwd \in [Sessions \X Directions -> FwdStates]
      /\ user \in [Users -> [pc : UserStates, s : Sessions \cup {None}, v : Sessions \cup {None}]]
      /\ ended \subseteq Sessions /\ starter \in [Sessions -> StarterStates] /\ None \notin Sessions
  BY IdAssumption DEF MonitorType
<1>p. PICK pc \in StarterStates : GoTo(s, pc)
  BY DEF StartOf, StartAutoVirtualMonitor, StartStep, CreateVirtual, CreateVirtualFails, InsertSession, InsertRefused,
         OpenA, OpenAFails, OpenB, OpenBFails, StartClosesA, SetError, UnmapFailed, UndoVirtual, UndoVirtualFails, SetRunning, Fork,
         RecordVirtual, StarterStates
<1>g. Started(s, pc)
  BY <1>p, StarterGoes
<1>1. UNCHANGED <<user, ended>>
  BY DEF StartOf, StartAutoVirtualMonitor, StartStep, CreateVirtual, CreateVirtualFails, InsertSession, InsertRefused,
         OpenA, OpenAFails, OpenB, OpenBFails, StartClosesA, SetError, UnmapFailed, UndoVirtual, UndoVirtualFails, SetRunning, Fork,
         RecordVirtual
<1>2. /\ (sessions \in [IDs -> Sessions \cup {None}])' /\ (auto \in [IDs -> Sessions \cup {None}])'
  BY <1>t DEF StartOf, StartAutoVirtualMonitor, StartStep, CreateVirtual, CreateVirtualFails, InsertSession, InsertRefused,
         OpenA, OpenAFails, OpenB, OpenBFails, StartClosesA, SetError, UnmapFailed, UndoVirtual, UndoVirtualFails, SetRunning, Fork,
         RecordVirtual, maps
<1>3. /\ (virtuals \subseteq Sessions)' /\ (deviceB \subseteq Sessions)'
      /\ \A t \in Sessions : t # s => (t \in deviceB' <=> t \in deviceB) /\ (t \in virtuals' <=> t \in virtuals)
  BY <1>t DEF StartOf, StartAutoVirtualMonitor, StartStep, CreateVirtual, CreateVirtualFails, InsertSession, InsertRefused,
         OpenA, OpenAFails, OpenB, OpenBFails, StartClosesA, SetError, UnmapFailed, UndoVirtual, UndoVirtualFails, SetRunning, Fork,
         RecordVirtual, devices
<1>4. /\ (deviceA \in Sessions \cup {None})'
      /\ \A t \in Sessions : t # s => (deviceA' = t <=> deviceA = t)
  BY <1>t DEF StartOf, StartAutoVirtualMonitor, StartStep, CreateVirtual, CreateVirtualFails, InsertSession, InsertRefused,
         OpenA, OpenAFails, OpenB, OpenBFails, StartClosesA, SetError, UnmapFailed, UndoVirtual, UndoVirtualFails, SetRunning, Fork,
         RecordVirtual, devices, CloseA
<1>5. \/ ses' = ses
      \/ \E status \in {"stopped", "running", "error"}, ports \in BOOLEAN, stopped \in BOOLEAN, wg \in Int :
            Fields(s, status, ports, stopped, wg)
  <2>1. CASE SetError(s)
    <3>1. Fields(s, "error", ses[s].ports, ses[s].stopped, ses[s].wg)
      BY <2>1, SesBecomes, SesFields DEF SetError
    <3>2. QED
      BY <3>1, SesFields
  <2>2. CASE SetRunning(s)
    <3>1. Fields(s, "running", TRUE, ses[s].stopped, ses[s].wg)
      BY <2>2, SesBecomes, SesFields DEF SetRunning
    <3>2. QED
      BY <3>1, SesFields
  <2>3. CASE Fork(s)
    <3>0. 2 \in Int /\ ses' = [ses EXCEPT ![s].wg = 2]
      BY <2>3 DEF Fork
    <3>1. Fields(s, ses[s].status, ses[s].ports, ses[s].stopped, 2)
      BY <3>0, SesBecomes, SesFields
    <3>2. QED
      BY <3>1, SesFields
  <2>4. QED
    BY <2>1, <2>2, <2>3
       DEF StartOf, StartAutoVirtualMonitor, StartStep, CreateVirtual, CreateVirtualFails, InsertSession, InsertRefused,
           OpenA, OpenAFails, OpenB, OpenBFails, StartClosesA, UnmapFailed, UndoVirtual, UndoVirtualFails, RecordVirtual
<1>6. (ses \in [Sessions -> SesType])' /\ (\A t \in Sessions : t # s => ses'[t] = ses[t]) /\ \A t \in Sessions : History(t)
  BY <1>t, <1>5 DEF Fields, History
<1>7. /\ (fwd \in [Sessions \X Directions -> FwdStates])'
      /\ \A t \in Sessions, d \in Directions : t # s => fwd'[<<t, d>>] = fwd[<<t, d>>]
  <2>1. CASE Fork(s)
    <3>1. fwd' = [k \in Sessions \X Directions |-> IF k[1] = s THEN "read" ELSE fwd[k]]
      BY <1>t, <2>1 DEF Fork
    <3>2. QED
      BY <1>t, <3>1 DEF FwdStates
  <2>2. CASE fwd' = fwd
    BY <1>t, <2>2
  <2>3. QED
    BY <2>1, <2>2
       DEF StartOf, StartAutoVirtualMonitor, StartStep, CreateVirtual, CreateVirtualFails, InsertSession, InsertRefused,
           OpenA, OpenAFails, OpenB, OpenBFails, StartClosesA, UnmapFailed, UndoVirtual, UndoVirtualFails, RecordVirtual, SetError, SetRunning
<1>h. HistoryGrows /\ (kept \subseteq Sessions)' /\ (overlapped \subseteq Sessions)'
  <2>1. kept \subseteq Sessions /\ overlapped \subseteq Sessions
    BY DEF MonitorType
  <2>2. CASE StartAutoVirtualMonitor(s)
    BY <2>1, <2>2 DEF StartAutoVirtualMonitor, Overlaps, Starting, Stopping, HistoryGrows
  <2>3. CASE UndoVirtualFails(s)
    BY <2>1, <2>3 DEF UndoVirtualFails, HistoryGrows
  <2>4. CASE UNCHANGED history
    BY <2>1, <2>4 DEF history, HistoryGrows
  <2>5. QED
    BY <2>2, <2>3, <2>4
       DEF StartOf, StartStep, CreateVirtual, CreateVirtualFails, InsertSession, InsertRefused, OpenA, OpenAFails, OpenB,
           OpenBFails, StartClosesA, SetError, UnmapFailed, UndoVirtual, SetRunning, Fork, RecordVirtual
<1>8. MonitorType'
  BY <1>t, <1>g, <1>1, <1>2, <1>3, <1>4, <1>6, <1>7, <1>h DEF Started, MonitorType
<1>9. QED
  BY <1>g, <1>1, <1>3, <1>4, <1>6, <1>7, <1>8, <1>h DEF Started, Apart

\* A capture adds a frame to the history of its session, and no more.
LEMMA AppendFields ==
  ASSUME MonitorType, NEW s \in Sessions, NEW d \in Directions, AppendFrame(s, d)
  PROVE  /\ ses' \in [Sessions -> SesType] /\ \A t \in Sessions : t # s => ses'[t] = ses[t]
         /\ ses'[s].status = ses[s].status /\ ses'[s].ports = ses[s].ports
         /\ ses'[s].stopped = ses[s].stopped /\ ses'[s].wg = ses[s].wg
         /\ ses'[s].nextSeq = ses[s].nextSeq + 1
         /\ ses'[s].frames = Newest(Append(ses[s].frames, <<ses[s].nextSeq + 1, d>>))
<1> DEFINE f == Newest(Append(ses[s].frames, <<ses[s].nextSeq + 1, d>>))
<1>1. f \in Seq(Nat \X Directions)
  <2>1. <<ses[s].nextSeq + 1, d>> \in Nat \X Directions /\ ses[s].frames \in Seq(Nat \X Directions)
    BY SesFields
  <2>2. Append(ses[s].frames, <<ses[s].nextSeq + 1, d>>) \in Seq(Nat \X Directions)
    BY <2>1, AppendProperties
  <2>3. QED
    BY <2>2, NewestIs
<1>2. ses' = [ses EXCEPT ![s].nextSeq = ses[s].nextSeq + 1, ![s].frames = f]
  BY DEF AppendFrame
<1>3. ses \in [Sessions -> SesType] /\ ses[s].nextSeq + 1 \in Nat
  BY SesFields DEF MonitorType
<1> HIDE DEF f
<1>4. QED
  <2>1. /\ ses' \in [Sessions -> SesType] /\ \A t \in Sessions : t # s => ses'[t] = ses[t]
        /\ ses'[s].status = ses[s].status /\ ses'[s].ports = ses[s].ports
        /\ ses'[s].stopped = ses[s].stopped /\ ses'[s].wg = ses[s].wg
        /\ ses'[s].nextSeq = ses[s].nextSeq + 1 /\ ses'[s].frames = f
    BY <1>1, <1>2, <1>3 DEF SesType
  <2>2. QED
    BY <2>1 DEF f

LEMMA ClearedFields ==
  ASSUME MonitorType, NEW s \in Sessions, ses' = [ses EXCEPT ![s].frames = << >>, ![s].nextSeq = 0]
  PROVE  /\ ses' \in [Sessions -> SesType] /\ \A t \in Sessions : t # s => ses'[t] = ses[t]
         /\ ses'[s].status = ses[s].status /\ ses'[s].ports = ses[s].ports
         /\ ses'[s].stopped = ses[s].stopped /\ ses'[s].wg = ses[s].wg
         /\ ses'[s].nextSeq = 0 /\ ses'[s].frames = << >>
<1>1. << >> \in Seq(Nat \X Directions) /\ 0 \in Nat
  OBVIOUS
<1>2. ses \in [Sessions -> SesType]
  BY DEF MonitorType
<1>3. QED
  BY <1>1, <1>2 DEF SesType

\* What a step of a goroutine makes of its session
LEMMA FwdFields ==
  ASSUME MonitorType, NEW s \in Sessions, NEW d \in Directions, FwdOf(s, d)
  PROVE  \/ AppendFrame(s, d)
         \/ ses' = ses
         \/ \E status \in {"stopped", "running", "error"}, ports \in BOOLEAN, stopped \in BOOLEAN, wg \in Int :
                Fields(s, status, ports, stopped, wg)
<1>x. ses[s].wg - 1 \in Int
  BY SesFields
<1>1. CASE Exit(s, d)
  <2>1. Fields(s, ses[s].status, ses[s].ports, ses[s].stopped, ses[s].wg - 1)
    <3>1. ses' = [ses EXCEPT ![s].wg = ses[s].wg - 1]
      BY <1>1 DEF Exit
    <3>2. QED
      BY <1>x, <3>1, SesBecomes, SesFields
  <2>2. QED
    BY <1>x, <2>1, SesFields
<1>2. CASE ses' = [ses EXCEPT ![s].status = "error", ![s].stopped = TRUE, ![s].ports = FALSE]
  <2>1. Fields(s, "error", FALSE, TRUE, ses[s].wg)
    BY <1>2, SesBecomes, SesFields
  <2>2. QED
    BY <2>1, SesFields
<1>3. CASE ses' = [ses EXCEPT ![s].status = "error", ![s].stopped = TRUE, ![s].wg = @ - 1]
  <2>1. Fields(s, "error", ses[s].ports, TRUE, ses[s].wg - 1)
    BY <1>x, <1>3, SesBecomes, SesFields
  <2>2. QED
    BY <1>x, <2>1, SesFields
<1>4. QED
  BY <1>1, <1>2, <1>3 DEF FwdOf, Read, ReadFails, ReadStopped, ReadContextDone, FwdStep, Write, WriteFails, Fail,
                          FailStopped, FailClosesA, FailClosesB

LEMMA FwdApart ==
  ASSUME MonitorType, NEW s \in Sessions, NEW d \in Directions, FwdOf(s, d)
  PROVE  /\ MonitorType' /\ UNCHANGED <<maps, virtuals, starter, user, history>>
         /\ \A t \in Sessions : t # s => Apart(t)
         /\ \A t \in Sessions : History(t) \/ (t = s /\ AppendFrame(s, d))
<1>t. /\ deviceA \in Sessions \cup {None} /\ deviceB \subseteq Sessions
      /\ ses \in [Sessions -> SesType] /\ ended \subseteq Sessions /\ None \notin Sessions
  BY IdAssumption DEF MonitorType
<1>p. PICK pc \in FwdStates : FwdGoTo(s, d, pc)
  BY DEF FwdOf, Read, ReadFails, ReadStopped, ReadContextDone, FwdStep, Write, WriteFails, AppendFrame, Fail,
         FailStopped, FailClosesA, FailClosesB, Exit, FwdStates
<1>g. FwdNow(s, d, pc)
  BY <1>p, FwdGoes
<1>1. UNCHANGED <<maps, virtuals, starter, user, history>>
  BY DEF FwdOf, Read, ReadFails, ReadStopped, ReadContextDone, FwdStep, Write, WriteFails, AppendFrame, Fail,
         FailStopped, FailClosesA, FailClosesB
<1>2. /\ (deviceB \subseteq Sessions)' /\ \A t \in Sessions : t # s => (t \in deviceB' <=> t \in deviceB)
  BY <1>t DEF FwdOf, Read, ReadFails, ReadStopped, ReadContextDone, FwdStep, Write, WriteFails, AppendFrame, Fail,
              FailStopped, FailClosesA, FailClosesB, devices
<1>3. /\ (deviceA \in Sessions \cup {None})' /\ \A t \in Sessions : t # s => (deviceA' = t <=> deviceA = t)
  BY <1>t DEF FwdOf, Read, ReadFails, ReadStopped, ReadContextDone, FwdStep, Write, WriteFails, AppendFrame, Fail,
              FailStopped, FailClosesA, FailClosesB, devices, CloseA
<1>4. /\ (ended \subseteq Sessions)' /\ \A t \in Sessions : t # s => (t \in ended' <=> t \in ended)
  BY <1>t DEF FwdOf, Read, ReadFails, ReadStopped, ReadContextDone, FwdStep, Write, WriteFails, AppendFrame, Fail,
              FailStopped, FailClosesA, FailClosesB
<1>5. /\ (ses \in [Sessions -> SesType])' /\ \A t \in Sessions : t # s => ses'[t] = ses[t]
      /\ \A t \in Sessions : History(t) \/ (t = s /\ AppendFrame(s, d))
  <2>1. CASE AppendFrame(s, d)
    BY <1>t, <2>1, AppendFields DEF History
  <2>2. CASE ses' = ses
    BY <1>t, <2>2 DEF History
  <2>3. ASSUME NEW status \in {"stopped", "running", "error"}, NEW ports \in BOOLEAN, NEW stopped \in BOOLEAN, NEW wg \in Int,
               Fields(s, status, ports, stopped, wg)
        PROVE  /\ (ses \in [Sessions -> SesType])' /\ \A t \in Sessions : t # s => ses'[t] = ses[t]
               /\ \A t \in Sessions : History(t)
    BY <2>3 DEF Fields, History
  <2>4. QED
    BY <2>1, <2>2, <2>3, FwdFields
<1>6. MonitorType'
  BY <1>g, <1>1, <1>2, <1>3, <1>4, <1>5 DEF FwdNow, MonitorType, maps, history
<1>7. QED
  BY <1>g, <1>1, <1>2, <1>3, <1>4, <1>5, <1>6 DEF FwdNow, Apart

\* A caller steps: its own record changes, and the session that it works on.
LEMMA UserMoves ==
  ASSUME MonitorType, NEW u \in Users, UserOf(u)
  PROVE  \E pc \in UserStates, s \in Sessions \cup {None}, v \in Sessions \cup {None} :
            UserNow(u, pc, s, v) /\ (pc # "idle" => s \in Sessions)
<1>t. /\ user[u].s \in Sessions \cup {None} /\ user[u].v \in Sessions \cup {None}
      /\ auto \in [IDs -> Sessions \cup {None}] /\ sessions \in [IDs -> Sessions \cup {None}]
  BY DEF MonitorType
<1>i. UserNow(u, "idle", None, None) \/ user' # [user EXCEPT ![u] = IdleUser]
  BY UserBecomes DEF IdleUser, UserStates
<1>1. ASSUME NEW pc \in UserStates, UserGoTo(u, pc), user[u].pc # "idle"
      PROVE  \E p \in UserStates, s \in Sessions \cup {None}, v \in Sessions \cup {None} :
                UserNow(u, p, s, v) /\ (p # "idle" => s \in Sessions)
  <2>1. UserNow(u, pc, user[u].s, user[u].v)
    BY <1>1, UserGoes
  <2>2. QED
    BY <1>t, <1>1, <2>1 DEF MonitorType
<1>2. CASE StopIdle(u) \/ StopEnter(u) \/ StopClosesA(u) \/ StopClosesB(u) \/ StopWait(u) \/ DeleteVirtual(u)
  BY <1>1, <1>2 DEF StopIdle, StopEnter, StopClosesA, StopClosesB, StopWait, DeleteVirtual, DeleteVirtualFails, UserAt, UserStates
<1>3. CASE FindVirtual(u)
  <2> DEFINE v == auto[IdOf[user[u].s]]
  <2>1. user[u].s \in Sessions /\ v \in Sessions \cup {None}
    BY <1>3, <1>t, IdAssumption DEF FindVirtual, UserAt, MonitorType
  <2>2. CASE v = None
    BY <1>3, <1>i, <2>2 DEF FindVirtual, UserStates
  <2>3. CASE v # None
    <3>1. user' = [user EXCEPT ![u] = [@ EXCEPT !.pc = "deleteV", !.v = v]]
      BY <1>3, <2>3 DEF FindVirtual
    <3>2. UserNow(u, "deleteV", user[u].s, v)
      BY <2>1, <2>3, <3>1, UserFinds
    <3>3. QED
      BY <2>1, <3>2 DEF UserStates
  <2>4. QED
    BY <2>2, <2>3
<1>4. CASE ForgetVirtual(u) \/ DeleteVirtualFails(u)
  BY <1>4, <1>i DEF ForgetVirtual, DeleteVirtualFails, UserStates
<1>5. ASSUME NEW i \in IDs, StopMonitor(u, i) \/ DeleteMonitor(u, i)
      PROVE  \E s \in Sessions : UserNow(u, "enter", s, None)
  BY <1>t, <1>5, UserBecomes DEF StopMonitor, DeleteMonitor, UserStates
<1>6. QED
  BY <1>2, <1>3, <1>4, <1>5 DEF UserOf, UserStep, UserStates


LEMMA EnterFields ==
  ASSUME MonitorType, NEW u \in Users, StopEnter(u)
  PROVE  user[u].s \in Sessions /\ Fields(user[u].s, "stopped", FALSE, TRUE, ses[user[u].s].wg)
<1>1. PICK s \in Sessions : s = user[u].s
  BY DEF StopEnter, UserAt, MonitorType
<1>2. ses' = [ses EXCEPT ![s].status = "stopped", ![s].stopped = TRUE, ![s].ports = FALSE]
  BY <1>1 DEF StopEnter
<1>3. Fields(s, "stopped", FALSE, TRUE, ses[s].wg)
  BY <1>2, SesBecomes, SesFields
<1>4. QED
  BY <1>1, <1>3

LEMMA UserApart ==
  ASSUME MonitorType, NEW u \in Users, UserOf(u)
  PROVE  /\ MonitorType' /\ UNCHANGED <<starter, fwd, ended>> /\ HistoryGrows
         /\ \A t \in Sessions : t # user[u].s => Apart(t)
         /\ \A t \in Sessions : History(t)
<1>t. /\ sessions \in [IDs -> Sessions \cup {None}] /\ auto \in [IDs -> Sessions \cup {None}]
      /\ virtuals \subseteq Sessions /\ deviceA \in Sessions \cup {None} /\ deviceB \subseteq Sessions
      /\ ses \in [Sessions -> SesType] /\ None \notin Sessions
  BY IdAssumption DEF MonitorType
<1>m. PICK pc \in UserStates, s \in Sessions \cup {None}, v \in Sessions \cup {None} :
        UserNow(u, pc, s, v) /\ (pc # "idle" => s \in Sessions)
  BY UserMoves
<1>1. UNCHANGED <<starter, fwd, ended>>
  BY DEF UserOf, UserStep, StopIdle, StopEnter, StopClosesA, StopClosesB, StopWait, FindVirtual, DeleteVirtual, DeleteVirtualFails,
         ForgetVirtual, StopMonitor, DeleteMonitor
<1>2. /\ (sessions \in [IDs -> Sessions \cup {None}])' /\ (auto \in [IDs -> Sessions \cup {None}])'
  BY <1>t DEF UserOf, UserStep, StopIdle, StopEnter, StopClosesA, StopClosesB, StopWait, FindVirtual, DeleteVirtual, DeleteVirtualFails,
         ForgetVirtual, StopMonitor, DeleteMonitor, maps
<1>3. /\ (virtuals \subseteq Sessions)' /\ (deviceB \subseteq Sessions)'
      /\ \A t \in Sessions : t # user[u].s => (t \in deviceB' <=> t \in deviceB)
  BY <1>t DEF UserOf, UserStep, StopIdle, StopEnter, StopClosesA, StopClosesB, StopWait, FindVirtual, DeleteVirtual, DeleteVirtualFails,
         ForgetVirtual, StopMonitor, DeleteMonitor, devices, UserAt
<1>4. /\ (deviceA \in Sessions \cup {None})' /\ \A t \in Sessions : t # user[u].s => (deviceA' = t <=> deviceA = t)
  BY <1>t DEF UserOf, UserStep, StopIdle, StopEnter, StopClosesA, StopClosesB, StopWait, FindVirtual, DeleteVirtual, DeleteVirtualFails,
         ForgetVirtual, StopMonitor, DeleteMonitor, devices, CloseA
<1>5. /\ (ses \in [Sessions -> SesType])' /\ \A t \in Sessions : t # user[u].s => ses'[t] = ses[t]
      /\ \A t \in Sessions : History(t)
  <2>1. CASE StopEnter(u)
    BY <2>1, EnterFields DEF Fields, History
  <2>2. CASE ses' = ses
    BY <1>t, <2>2 DEF History
  <2>3. QED
    BY <2>1, <2>2 DEF UserOf, UserStep, StopIdle, StopClosesA, StopClosesB, StopWait, FindVirtual, DeleteVirtual, DeleteVirtualFails,
         ForgetVirtual, StopMonitor, DeleteMonitor
<1>h. HistoryGrows /\ (kept \subseteq Sessions)' /\ (overlapped \subseteq Sessions)'
  <2>1. kept \subseteq Sessions /\ overlapped \subseteq Sessions
    BY DEF MonitorType
  <2>2. CASE UNCHANGED history
    BY <2>1, <2>2 DEF history, HistoryGrows
  <2>3. CASE DeleteVirtualFails(u)
    BY <1>t, <2>1, <2>3 DEF DeleteVirtualFails, HistoryGrows
  <2>4. ASSUME NEW i \in IDs, StopMonitor(u, i) \/ DeleteMonitor(u, i)
        PROVE  HistoryGrows /\ (kept \subseteq Sessions)' /\ (overlapped \subseteq Sessions)'
    BY <1>t, <2>1, <2>4 DEF StopMonitor, DeleteMonitor, Overlaps, Starting, HistoryGrows
  <2>5. QED
    BY <2>2, <2>3, <2>4 DEF UserOf, UserStep, StopIdle, StopEnter, StopClosesA, StopClosesB, StopWait, FindVirtual,
                            DeleteVirtual, ForgetVirtual
<1>6. \A w \in Users : user'[w].pc # "idle" => user'[w].s \in Sessions
  BY <1>m DEF UserNow, MonitorType
<1>7. MonitorType'
  <2>1. (user \in [Users -> [pc : UserStates, s : Sessions \cup {None}, v : Sessions \cup {None}]])'
    BY <1>m DEF UserNow
  <2>2. QED
    BY <1>1, <1>2, <1>3, <1>4, <1>5, <1>6, <1>h, <2>1 DEF MonitorType
<1>8. QED
  BY <1>1, <1>3, <1>4, <1>5, <1>7, <1>h DEF Apart

\* ClearFrames leaves everything but one history alone.
LEMMA ClearApart ==
  ASSUME MonitorType, NEW i \in IDs, ClearFrames(i)
  PROVE  /\ MonitorType' /\ UNCHANGED <<maps, virtuals, starter, fwd, user, ended, history>>
         /\ \A t \in Sessions : Apart(t)
         /\ \A t \in Sessions : History(t) \/ (ses'[t].nextSeq = 0 /\ ses'[t].frames = << >>)
<1>1. PICK s \in Sessions : ses' = [ses EXCEPT ![s].frames = << >>, ![s].nextSeq = 0]
  BY DEF ClearFrames, MonitorType
<1>2. /\ ses' \in [Sessions -> SesType] /\ \A t \in Sessions : t # s => ses'[t] = ses[t]
      /\ ses'[s].status = ses[s].status /\ ses'[s].ports = ses[s].ports
      /\ ses'[s].stopped = ses[s].stopped /\ ses'[s].wg = ses[s].wg
      /\ ses'[s].nextSeq = 0 /\ ses'[s].frames = << >>
  BY <1>1, ClearedFields
<1>3. UNCHANGED <<sessions, auto, starter, fwd, user, ended, virtuals, deviceA, deviceB, kept, overlapped>>
  BY DEF ClearFrames, maps, devices, history
<1>4. MonitorType'
  BY <1>2, <1>3 DEF MonitorType
<1>5. QED
  BY <1>2, <1>3, <1>4 DEF Apart, History, maps, history

LEMMA IdleTypes == IdleUser = [pc |-> "idle", s |-> None, v |-> None] /\ NewSession \in SesType /\ NewSession.wg = 0
                   /\ NewSession.nextSeq = 0 /\ NewSession.frames = << >> /\ NewSession.status = "stopped"
                   /\ ~NewSession.ports /\ ~NewSession.stopped
BY DEF IdleUser, NewSession, SesType

LEMMA TypeInit == Init => MonitorType
<1> SUFFICES ASSUME Init PROVE MonitorType
  OBVIOUS
<1>1. \A u \in Users : user[u] = IdleUser
  BY DEF Init
<1>2. user \in [Users -> [pc : UserStates, s : Sessions \cup {None}, v : Sessions \cup {None}]]
  BY IdleTypes DEF Init, UserStates
<1>3. ses \in [Sessions -> SesType]
  BY IdleTypes DEF Init
<1>4. starter \in [Sessions -> StarterStates] /\ fwd \in [Sessions \X Directions -> FwdStates]
  BY DEF Init, StarterStates, FwdStates
<1>5. /\ sessions \in [IDs -> Sessions \cup {None}] /\ auto \in [IDs -> Sessions \cup {None}]
      /\ virtuals \subseteq Sessions /\ deviceA \in Sessions \cup {None} /\ deviceB \subseteq Sessions /\ ended \subseteq Sessions
      /\ kept \subseteq Sessions /\ overlapped \subseteq Sessions
  BY DEF Init
<1>6. \A u \in Users : user[u].pc = "idle"
  BY <1>1, IdleTypes
<1>7. QED
  BY <1>2, <1>3, <1>4, <1>5, <1>6 DEF MonitorType

\* Every step is one of a start, of a goroutine or of a caller, or it clears
\* a history.
LEMMA NextSteps ==
  ASSUME Next
  PROVE  \/ \E s \in Sessions : StartOf(s)
         \/ \E s \in Sessions, d \in Directions : FwdOf(s, d)
         \/ \E u \in Users : UserOf(u)
         \/ \E i \in IDs : ClearFrames(i)
BY DEF Next, StartOf, FwdOf, UserOf

LEMMA TypeStep == MonitorType /\ [Next]_vars => MonitorType'
<1>1. ASSUME MonitorType, UNCHANGED vars PROVE MonitorType'
  BY <1>1 DEF vars, maps, devices, history, MonitorType
<1>2. QED
  BY <1>1, NextSteps, StartApart, FwdApart, UserApart, ClearApart

-----------------------------------------------------------------------------
(* The history                                                             *)

FramesInv(s) ==
    LET f == ses[s].frames IN
    /\ Len(f) = IF ses[s].nextSeq < FrameLimit THEN ses[s].nextSeq ELSE FrameLimit
    /\ \A k \in 1 .. Len(f) : f[k][1] = ses[s].nextSeq - Len(f) + k

\* A capture makes room for itself where the limit is reached.
LEMMA AppendKeeps ==
  ASSUME MonitorType, NEW s \in Sessions, NEW d \in Directions, AppendFrame(s, d), FramesInv(s)
  PROVE  FramesInv(s)'
<1> DEFINE f == ses[s].frames
           n == ses[s].nextSeq
           g == Append(f, <<n + 1, d>>)
           m == IF Len(g) > FrameLimit THEN Len(g) - FrameLimit ELSE 0
<1>1. f \in Seq(Nat \X Directions) /\ n \in Nat /\ FrameLimit \in Nat \ {0}
  BY SesFields, LimitAssumption
<1>2. ses'[s].nextSeq = n + 1 /\ ses'[s].frames = Newest(g)
  BY AppendFields
<1>3. Len(f) = (IF n < FrameLimit THEN n ELSE FrameLimit) /\ \A k \in 1 .. Len(f) : f[k][1] = n - Len(f) + k
  BY DEF FramesInv
<1> HIDE DEF f, n
<1>4. /\ g \in Seq(Nat \X Directions) /\ Len(g) = Len(f) + 1 /\ Len(f) \in Nat
      /\ \A k \in 1 .. Len(g) : g[k] = IF k = Len(g) THEN <<n + 1, d>> ELSE f[k]
  BY <1>1
<1> HIDE DEF g
<1>5. /\ Len(Newest(g)) = Len(g) - m /\ \A k \in 1 .. Len(g) - m : Newest(g)[k] = g[m + k]
  BY <1>4, NewestIs
<1>6. m \in Nat /\ Len(g) - m = (IF n + 1 < FrameLimit THEN n + 1 ELSE FrameLimit)
      /\ n + 1 - (Len(g) - m) = n - Len(f) + m
  BY <1>1, <1>3, <1>4
<1> HIDE DEF m
<1>7. ASSUME NEW k \in 1 .. Len(g) - m PROVE Newest(g)[k][1] = n + 1 - (Len(g) - m) + k
  <2>1. m + k \in 1 .. Len(g) /\ Newest(g)[k] = g[m + k]
    BY <1>4, <1>5, <1>6
  <2>2. CASE m + k = Len(g)
    BY <1>1, <1>4, <1>6, <2>1, <2>2
  <2>3. CASE m + k # Len(g)
    <3>1. m + k \in 1 .. Len(f) /\ Newest(g)[k] = f[m + k]
      BY <1>4, <1>6, <2>1, <2>3
    <3>2. Newest(g)[k][1] = n - Len(f) + (m + k)
      BY <1>3, <3>1
    <3>3. QED
      BY <1>1, <1>4, <1>6, <3>2
  <2>4. QED
    BY <2>2, <2>3
<1>8. Len(ses'[s].frames) = IF ses'[s].nextSeq < FrameLimit THEN ses'[s].nextSeq ELSE FrameLimit
  BY <1>2, <1>5, <1>6
<1>9. \A k \in 1 .. Len(ses'[s].frames) : ses'[s].frames[k][1] = ses'[s].nextSeq - Len(ses'[s].frames) + k
  <2>1. Len(ses'[s].frames) = Len(g) - m
    BY <1>2, <1>5
  <2>2. ASSUME NEW k \in 1 .. Len(g) - m PROVE ses'[s].frames[k][1] = ses'[s].nextSeq - (Len(g) - m) + k
    <3>1. Newest(g)[k][1] = n + 1 - (Len(g) - m) + k
      BY <1>7
    <3>2. n \in Int /\ Len(g) \in Int /\ m \in Int
      BY <1>1, <1>4, <1>6
    <3>3. QED
      BY <1>2, <3>1, <3>2
  <2>3. QED
    BY <2>1, <2>2
<1>10. QED
  BY <1>8, <1>9 DEF FramesInv

\* The history of a monitor is its newest frames, numbered without a gap, up
\* to the limit and also after it was cleared (appendFrame and ClearFrames),
\* for any limit.
THEOREM FramesNewestAlways == Spec => []FramesNewest
<1> DEFINE Inv == MonitorType /\ \A s \in Sessions : FramesInv(s)
<1>1. Init => Inv
  <2> SUFFICES ASSUME Init PROVE \A s \in Sessions : FramesInv(s)
    BY TypeInit
  <2>1. \A s \in Sessions : ses[s].nextSeq = 0 /\ ses[s].frames = << >>
    BY IdleTypes DEF Init
  <2>2. QED
    BY <2>1, LimitAssumption DEF FramesInv
<1>2. Inv /\ [Next]_vars => Inv'
  <2> SUFFICES ASSUME Inv, [Next]_vars, NEW t \in Sessions PROVE FramesInv(t)'
    BY TypeStep
  <2>1. ASSUME History(t) PROVE FramesInv(t)'
    BY <2>1 DEF History, FramesInv
  <2>2. ASSUME ses'[t].nextSeq = 0, ses'[t].frames = << >> PROVE FramesInv(t)'
    BY <2>2, LimitAssumption DEF FramesInv
  <2>3. CASE UNCHANGED vars
    BY <2>1, <2>3 DEF vars, History
  <2>4. QED
    BY <2>1, <2>2, <2>3, NextSteps, StartApart, FwdApart, UserApart, ClearApart, AppendKeeps
<1>3. Inv => FramesNewest
  <2> SUFFICES ASSUME Inv, NEW s \in Sessions
               PROVE  LET f == ses[s].frames IN
                      /\ Len(f) = IF ses[s].nextSeq < FrameLimit THEN ses[s].nextSeq ELSE FrameLimit
                      /\ \A k \in DOMAIN f : f[k][1] = ses[s].nextSeq - Len(f) + k
    BY DEF FramesNewest
  <2>1. DOMAIN ses[s].frames = 1 .. Len(ses[s].frames)
    BY SesFields
  <2>2. QED
    BY <2>1 DEF FramesInv
<1>4. QED
  BY <1>1, <1>2, <1>3, PTL DEF Spec

-----------------------------------------------------------------------------
(* The sessions                                                            *)

\* What others do leaves a session as it is.
LEMMA LocalApart ==
  ASSUME MonitorType, NEW t \in Sessions, LocalInv(t), Apart(t),
         \A pcs \in SUBSET {"closeA", "closeB", "wait"} : At(t, pcs) => At(t, pcs)'
  PROVE  LocalInv(t)'
<1>1. FieldsInv(t)'
  BY DEF LocalInv, FieldsInv, Apart, Runs, Directions
<1>2. PortsInv(t)'
  BY DEF LocalInv, PortsInv, Apart, Runs, Directions
<1>3. QuietInv(t)'
  BY DEF LocalInv, QuietInv, Apart
<1>4. QED
  BY <1>1, <1>2, <1>3 DEF LocalInv

\* A start goes on before its goroutines are there.
LEMMA StartLocal ==
  ASSUME MonitorType, NEW s \in Sessions, StartOf(s), LocalInv(s), VirtualInv(s)
  PROVE  LocalInv(s)'
<1>n. s # None /\ MonitorType' /\ user' = user /\ ended' = ended
  BY StartApart, IdAssumption
<1> USE DEF LocalInv, FieldsInv, PortsInv, QuietInv, Runs, Late, Directions, Active, Serving
<1>1. ASSUME NEW pc \in StarterStates \ Late, Started(s, pc), starter[s] \notin Late,
             UNCHANGED <<ses, fwd, deviceB>>,
             deviceA' = s => pc \in {"openB", "closeA", "run"},
             pc \in {"openB", "run"} => deviceA' = s,
             s \in deviceB <=> pc = "run"
      PROVE  LocalInv(s)'
  BY <1>1 DEF Started
<1>2. CASE \/ StartAutoVirtualMonitor(s) \/ CreateVirtual(s) \/ CreateVirtualFails(s) \/ InsertSession(s)
           \/ InsertRefused(s) \/ UnmapFailed(s) \/ UndoVirtual(s) \/ UndoVirtualFails(s) \/ OpenAFails(s)
  BY <1>1, <1>2, StarterGoes DEF StartAutoVirtualMonitor, CreateVirtual, CreateVirtualFails, InsertSession, InsertRefused,
         UnmapFailed, UndoVirtual, UndoVirtualFails, OpenAFails, devices, StarterStates
<1>3. CASE OpenA(s)
  <2>1. Started(s, "openB")
    BY <1>3, StarterGoes DEF OpenA, StarterStates
  <2>2. s \notin deviceB
    BY <1>3 DEF OpenA
  <2>3. QED
    BY <1>1, <1>3, <2>1, <2>2 DEF OpenA, StarterStates
<1>4. CASE OpenB(s)
  <2>1. Started(s, "run")
    BY <1>4, StarterGoes DEF OpenB, StarterStates
  <2>2. starter[s] = "openB" /\ deviceA = s /\ UNCHANGED <<deviceA, ses, fwd>> /\ deviceB' = deviceB \cup {s}
    BY <1>4 DEF OpenB
  <2>3. QED
    BY <2>1, <2>2 DEF Started
<1>5. CASE OpenBFails(s)
  <2>1. Started(s, "closeA")
    BY <1>5, StarterGoes DEF OpenBFails, StarterStates
  <2>2. QED
    BY <1>1, <1>5, <2>1 DEF OpenBFails, StarterStates, devices
<1>6. CASE StartClosesA(s)
  <2>1. Started(s, "setError")
    BY <1>6, StarterGoes DEF StartClosesA, StarterStates
  <2>2. QED
    BY <1>n, <1>1, <1>6, <2>1 DEF StartClosesA, StarterStates, CloseA
<1>7. CASE SetError(s)
  <2>1. Started(s, "unmap")
    BY <1>7, StarterGoes DEF SetError, StarterStates
  <2>2. Fields(s, "error", ses[s].ports, ses[s].stopped, ses[s].wg)
    BY <1>7, SesBecomes, SesFields DEF SetError
  <2>3. QED
    BY <1>7, <2>1, <2>2 DEF Started, Fields, SetError, devices
<1>8. CASE SetRunning(s)
  <2>1. Started(s, "fork")
    BY <1>8, StarterGoes DEF SetRunning, StarterStates
  <2>2. Fields(s, "running", TRUE, ses[s].stopped, ses[s].wg)
    BY <1>8, SesBecomes, SesFields DEF SetRunning
  <2>3. QED
    BY <1>8, <2>1, <2>2 DEF Started, Fields, SetRunning, devices
<1>9. CASE Fork(s)
  <2>1. Started(s, "record")
    BY <1>9, StarterGoes DEF Fork, StarterStates
  <2>2. Fields(s, ses[s].status, ses[s].ports, ses[s].stopped, 2)
    <3>1. 2 \in Int /\ ses' = [ses EXCEPT ![s].wg = 2]
      BY <1>9 DEF Fork
    <3>2. QED
      BY <3>1, SesBecomes, SesFields
  <2>3. \A d \in Directions : fwd'[<<s, d>>] = "read"
    <3>1. fwd' = [k \in Sessions \X Directions |-> IF k[1] = s THEN "read" ELSE fwd[k]]
      BY <1>9 DEF Fork, MonitorType
    <3>2. QED
      BY <3>1
  <2>4. QED
    BY <1>9, <2>1, <2>2, <2>3 DEF Started, Fields, Fork, devices
<1>10. CASE RecordVirtual(s)
  <2>1. Started(s, "started")
    BY <1>10, StarterGoes DEF RecordVirtual, StarterStates
  <2>2. starter[s] = "record" /\ UNCHANGED <<deviceA, deviceB, ses, fwd>>
    BY <1>10 DEF RecordVirtual, devices
  <2>3. FieldsInv(s)'
    BY <1>n, <2>1, <2>2 DEF Started
  <2>4. PortsInv(s)'
    BY <1>n, <2>1, <2>2 DEF Started, At
  <2>5. QuietInv(s)'
    BY <1>n, <2>1, <2>2 DEF Started, At
  <2>6. QED
    BY <2>3, <2>4, <2>5
<1>11. QED
  BY <1>2, <1>3, <1>4, <1>5, <1>6, <1>7, <1>8, <1>9, <1>10 DEF StartOf, StartStep

\* A goroutine reports a failure and closes the ports, or ends.
LEMMA FwdLocal ==
  ASSUME MonitorType, NEW s \in Sessions, NEW d \in Directions, FwdOf(s, d), LocalInv(s)
  PROVE  LocalInv(s)'
<1>n. s # None /\ MonitorType' /\ user' = user /\ starter' = starter
  BY FwdApart, IdAssumption
<1>w. ses[s].wg - 1 \in Int /\ ses[s].wg \in Int
  BY SesFields
<1> USE DEF LocalInv, FieldsInv, PortsInv, QuietInv, Runs, Late, Directions, Active, Serving
<1>p. fwd[<<s, d>>] \in Active => starter[s] \in {"record", "started"}
  BY DEF StarterStates
<1>1. ASSUME NEW pc \in Serving, FwdNow(s, d, pc), fwd[<<s, d>>] \in Serving,
             ses'[s].status = ses[s].status, ses'[s].ports = ses[s].ports, ses'[s].stopped = ses[s].stopped, ses'[s].wg = ses[s].wg,
             UNCHANGED <<deviceA, deviceB, ended>>
      PROVE  LocalInv(s)'
  <2>1. FieldsInv(s)'
    BY <1>n, <1>p, <1>1 DEF FwdNow
  <2>2. PortsInv(s)'
    BY <1>n, <1>p, <1>1 DEF FwdNow, At
  <2>3. QuietInv(s)'
    BY <1>n, <1>1 DEF At
  <2>4. QED
    BY <2>1, <2>2, <2>3
<1>2. CASE Read(s, d) \/ ReadFails(s, d) \/ Write(s, d) \/ WriteFails(s, d)
  <2>1. PICK pc \in Serving : FwdGoTo(s, d, pc)
    BY <1>2 DEF Read, ReadFails, Write, WriteFails
  <2>2. FwdNow(s, d, pc)
    BY <2>1, FwdGoes DEF FwdStates
  <2>3. QED
    BY <1>1, <1>2, <2>2 DEF Read, ReadFails, Write, WriteFails, devices
<1>3. CASE AppendFrame(s, d)
  <2>1. FwdNow(s, d, "read")
    BY <1>3, FwdGoes DEF AppendFrame, FwdStates
  <2>2. fwd[<<s, d>>] = "append" /\ UNCHANGED <<deviceA, deviceB, ended>>
    BY ONLY <1>3 DEF AppendFrame, devices
  <2>3. ses'[s].status = ses[s].status /\ ses'[s].ports = ses[s].ports /\ ses'[s].stopped = ses[s].stopped
       /\ ses'[s].wg = ses[s].wg
    BY ONLY <1>n, <1>3, MonitorType, AppendFields, s \in Sessions, d \in Directions
  <2>4. QED
    BY <1>1, <2>1, <2>2, <2>3
<1>4. ASSUME FwdNow(s, d, "done"), fwd[<<s, d>>] \in Active, UNCHANGED deviceA,
             deviceB' = deviceB \/ (deviceB' = deviceB \ {s} /\ ~Runs(s)),
             Fields(s, ses[s].status, ses[s].ports, ses[s].stopped, ses[s].wg - 1),
             ended \subseteq ended', Runs(s) => s \in ended',
             fwd[<<s, d>>] = "closeB" => s \notin deviceB', fwd[<<s, d>>] # "closeA"
      PROVE  LocalInv(s)'
  <2>1. FieldsInv(s)'
    BY <1>n, <1>p, <1>w, <1>4 DEF FwdNow, Fields
  <2>2. PortsInv(s)'
    BY <1>n, <1>p, <1>4 DEF FwdNow, Fields, At
  <2>3. QuietInv(s)'
    BY <1>n, <1>p, <1>w, <1>4, <2>1 DEF Fields, At
  <2>4. QED
    BY <2>1, <2>2, <2>3
<1>e. ASSUME Exit(s, d) PROVE FwdNow(s, d, "done") /\ Fields(s, ses[s].status, ses[s].ports, ses[s].stopped, ses[s].wg - 1)
  <2>1. ses' = [ses EXCEPT ![s].wg = ses[s].wg - 1]
    BY <1>e DEF Exit
  <2>2. QED
    BY <1>e, <1>w, <2>1, FwdGoes, SesBecomes, SesFields DEF Exit, FwdStates
<1>5. CASE ReadStopped(s, d) \/ ReadContextDone(s, d) \/ FailStopped(s, d)
  BY <1>p, <1>4, <1>5, <1>e DEF ReadStopped, ReadContextDone, FailStopped, devices
<1>6. CASE FailClosesB(s, d)
  <2>1. ~Runs(s)
    BY <1>6, <1>p DEF FailClosesB
  <2>2. QED
    BY <1>4, <1>6, <1>e, <2>1 DEF FailClosesB
<1>7. CASE FailClosesA(s, d)
  <2>1. FwdNow(s, d, "closeB") /\ ~Runs(s) /\ fwd[<<s, d>>] = "closeA" /\ starter[s] \in {"record", "started"}
    BY <1>7, <1>p, FwdGoes DEF FailClosesA, FwdStates
  <2>2. deviceA' # s /\ UNCHANGED <<deviceB, ses, ended>>
    BY <1>n, <1>7 DEF FailClosesA, CloseA
  <2>3. FieldsInv(s)'
    BY <1>n, <2>1, <2>2 DEF FwdNow
  <2>4. PortsInv(s)'
    BY <1>n, <2>1, <2>2 DEF FwdNow, At
  <2>5. QuietInv(s)'
    BY <1>n, <2>2 DEF At
  <2>6. QED
    BY <2>3, <2>4, <2>5
<1>8. CASE Fail(s, d)
  <2>1. fwd[<<s, d>>] = "fail" /\ ses[s].status # "stopped" /\ UNCHANGED <<deviceA, deviceB, ended>> /\ starter[s] \in {"record", "started"}
    BY <1>8, <1>p DEF Fail, devices
  <2>2. CASE ses[s].ports
    <3>1. FwdNow(s, d, "closeA")
      BY <1>8, <2>2, FwdGoes DEF Fail, FwdStates
    <3>2. Fields(s, "error", FALSE, TRUE, ses[s].wg)
      <4>1. ses' = [ses EXCEPT ![s].status = "error", ![s].stopped = TRUE, ![s].ports = FALSE]
        BY <1>8, <2>2 DEF Fail
      <4>2. QED
        BY <4>1, SesBecomes, SesFields
    <3>3. FieldsInv(s)'
      BY <1>n, <1>w, <2>1, <3>1, <3>2 DEF FwdNow, Fields
    <3>4. PortsInv(s)'
      BY <1>n, <2>1, <3>1, <3>2 DEF FwdNow, Fields
    <3>5. QuietInv(s)'
      BY <3>2 DEF Fields
    <3>6. QED
      BY <3>3, <3>4, <3>5
  <2>3. CASE ~ses[s].ports
    <3>1. FwdNow(s, d, "done")
      BY <1>8, <2>3, FwdGoes DEF Fail, FwdStates
    <3>2. Fields(s, "error", ses[s].ports, TRUE, ses[s].wg - 1)
      <4>1. ses' = [ses EXCEPT ![s].status = "error", ![s].stopped = TRUE, ![s].wg = ses[s].wg - 1]
        BY <1>8, <2>3 DEF Fail
      <4>2. QED
        BY <1>w, <4>1, SesBecomes, SesFields
    <3>3. FieldsInv(s)'
      BY <1>n, <1>w, <2>1, <2>3, <3>1, <3>2 DEF FwdNow, Fields
    <3>4. PortsInv(s)'
      BY <1>n, <2>1, <2>3, <3>1, <3>2 DEF FwdNow, Fields, At
    <3>5. QuietInv(s)'
      BY <3>2 DEF Fields
    <3>6. QED
      BY <3>3, <3>4, <3>5
  <2>4. QED
    BY <2>2, <2>3
<1>9. QED
  BY <1>2, <1>3, <1>5, <1>6, <1>7, <1>8 DEF FwdOf, FwdStep

LEMMA AtKept ==
  ASSUME NEW u \in Users, \A w \in Users : w # u => user'[w] = user[w], NEW t, NEW pcs, user[u].pc \notin pcs \/ user[u].s # t
  PROVE  At(t, pcs) => At(t, pcs)'
BY DEF At

\* A caller stops a session and closes its ports before it waits for the
\* goroutines.
LEMMA UserLocal ==
  ASSUME MonitorType, NEW u \in Users, UserOf(u), NEW t \in Sessions, LocalInv(t), user[u].s = t => UserInv(u)
  PROVE  LocalInv(t)'
<1>n. t # None /\ UNCHANGED <<starter, fwd, ended>>
  BY UserApart, IdAssumption
<1>o. \A w \in Users : w # u => user'[w] = user[w]
  BY UserMoves DEF UserNow
<1> USE DEF LocalInv, FieldsInv, PortsInv, QuietInv, Runs, Late, Directions, Active, Serving
<1>1. CASE t # user[u].s
  BY <1>o, <1>1, UserApart, AtKept, LocalApart
<1>2. CASE t = user[u].s /\ user[u].pc \notin {"closeA", "closeB", "wait"} /\ ~StopEnter(u)
  <2>1. UNCHANGED <<deviceA, deviceB, ses>>
    BY <1>2 DEF UserOf, UserStep, StopIdle, StopClosesA, StopClosesB, StopWait, FindVirtual, DeleteVirtual, DeleteVirtualFails, ForgetVirtual,
                StopMonitor, DeleteMonitor, UserAt, devices
  <2>2. Apart(t)
    BY <1>n, <2>1 DEF Apart
  <2>3. \A pcs \in SUBSET {"closeA", "closeB", "wait"} : At(t, pcs) => At(t, pcs)'
    BY <1>o, <1>2, AtKept
  <2>4. QED
    BY ONLY MonitorType, t \in Sessions, LocalInv(t), <2>2, <2>3, LocalApart
<1>s. t = user[u].s /\ user[u].pc # "idle" => starter[t] = "started" /\ (user[u].pc # "enter" => ~Runs(t))
  BY DEF UserInv
<1>3. CASE t = user[u].s /\ StopEnter(u)
  <2>1. UserNow(u, "closeA", t, user[u].v)
    BY <1>3, UserGoes DEF StopEnter, UserStates
  <2>2. Fields(t, "stopped", FALSE, TRUE, ses[t].wg) /\ UNCHANGED <<deviceA, deviceB>> /\ starter[t] = "started"
    BY <1>3, <1>s, EnterFields DEF StopEnter, devices, UserAt
  <2>3. At(t, {"closeA"})' /\ At(t, {"closeA", "closeB"})' /\ At(t, {"closeA", "closeB", "wait"})'
    BY <2>1 DEF At, UserNow
  <2>4. FieldsInv(t)'
    BY <1>n, <2>2 DEF Fields
  <2>5. PortsInv(t)'
    BY <1>n, <2>2, <2>3 DEF Fields
  <2>6. QuietInv(t)'
    BY <2>3
  <2>7. QED
    BY <2>4, <2>5, <2>6
<1>4. CASE t = user[u].s /\ StopClosesA(u)
  <2>1. UserNow(u, "closeB", t, user[u].v)
    BY <1>4, UserGoes DEF StopClosesA, UserStates
  <2>2. deviceA' # t /\ UNCHANGED <<deviceB, ses>> /\ starter[t] = "started" /\ ~Runs(t)
    BY <1>n, <1>4, <1>s DEF StopClosesA, CloseA, UserAt
  <2>3. At(t, {"closeA", "closeB"})' /\ At(t, {"closeA", "closeB", "wait"})'
    BY <2>1 DEF At, UserNow
  <2>4. FieldsInv(t)'
    BY <1>n, <2>2
  <2>5. PortsInv(t)'
    BY <1>n, <2>2, <2>3
  <2>6. QuietInv(t)'
    BY <2>3
  <2>7. QED
    BY <2>4, <2>5, <2>6
<1>5. CASE t = user[u].s /\ StopClosesB(u)
  <2>1. UserNow(u, "wait", t, user[u].v)
    BY <1>5, UserGoes DEF StopClosesB, UserStates
  <2>2. t \notin deviceB' /\ UNCHANGED <<deviceA, ses>> /\ starter[t] = "started" /\ ~Runs(t) /\ user[u].pc = "closeB"
    BY <1>5, <1>s DEF StopClosesB, UserAt
  <2>3. At(t, {"closeA", "closeB", "wait"})' /\ (At(t, {"closeA"}) => At(t, {"closeA"})')
    BY <1>o, <2>1, <2>2 DEF At, UserNow
  <2>4. FieldsInv(t)'
    BY <1>n, <2>2
  <2>5. PortsInv(t)'
    BY <1>n, <2>2, <2>3
  <2>6. QuietInv(t)'
    BY <2>3
  <2>7. QED
    BY <2>4, <2>5, <2>6
<1>6. CASE t = user[u].s /\ StopWait(u)
  <2>1. UNCHANGED <<deviceA, deviceB, ses>> /\ ses[t].wg = 0 /\ user[u].pc = "wait"
    BY <1>6 DEF StopWait, UserAt, devices
  <2>2. (At(t, {"closeA"}) => At(t, {"closeA"})') /\ (At(t, {"closeA", "closeB"}) => At(t, {"closeA", "closeB"})')
    BY <1>o, <2>1, AtKept
  <2>3. FieldsInv(t)'
    BY <1>n, <2>1
  <2>4. PortsInv(t)'
    BY <1>n, <2>1, <2>2
  <2>5. QuietInv(t)'
    BY <2>1
  <2>6. QED
    BY <2>3, <2>4, <2>5
<1>7. CASE user[u].pc \in {"closeA", "closeB", "wait"}
  <2>1. StopClosesA(u) \/ StopClosesB(u) \/ StopWait(u)
    BY <1>7 DEF UserOf, UserStep, StopIdle, StopEnter, FindVirtual, DeleteVirtual, DeleteVirtualFails, ForgetVirtual, StopMonitor, DeleteMonitor,
                UserAt, StopClosesA, StopClosesB, StopWait
  <2>2. QED
    BY <1>1, <1>4, <1>5, <1>6, <2>1
<1>8. QED
  BY <1>1, <1>2, <1>3, <1>7

-----------------------------------------------------------------------------
(* The maps and the calls                                                  *)

\* A call for an id changes the entry of another session only in that it
\* records a virtual port.
LEMMA StartMaps ==
  ASSUME MonitorType, IdsInv, NEW s \in Sessions, StartOf(s)
  PROVE  /\ IdsInv'
         /\ \A t \in Sessions : t # s =>
                \/ sessions'[IdOf[t]] = t <=> sessions[IdOf[t]] = t
                \/ starter[s] = "unmap" /\ IdOf[t] = IdOf[s] /\ sessions'[IdOf[t]] = None
         /\ \A i \in IDs : sessions'[i] # sessions[i] => i = IdOf[s] /\ InProgress(s)
         /\ \A t \in Sessions :
                auto'[IdOf[t]] = auto[IdOf[t]] \/ (RecordVirtual(s) /\ IdOf[t] = IdOf[s] /\ auto'[IdOf[t]] = s)
         /\ starter[s] # "started" /\ (~InProgress(s) => StartAutoVirtualMonitor(s))
<1>t. /\ sessions \in [IDs -> Sessions \cup {None}] /\ auto \in [IDs -> Sessions \cup {None}]
      /\ IdOf \in [Sessions -> IDs] /\ None \notin Sessions /\ \A t \in Sessions : IdOf[t] \in IDs
  BY IdAssumption DEF MonitorType
<1>u. user' = user
  BY StartApart
<1> USE DEF StartOf, StartStep, CreateVirtual, CreateVirtualFails, InsertRefused, OpenA, OpenAFails, OpenB, OpenBFails,
            StartClosesA, SetError, UndoVirtual, UndoVirtualFails, SetRunning, Fork, maps
<1>1. CASE InsertSession(s)
  <2>1. sessions' = [sessions EXCEPT ![IdOf[s]] = s] /\ sessions[IdOf[s]] = None /\ auto' = auto /\ starter[s] = "insert"
    BY <1>1 DEF InsertSession
  <2>2. QED
    BY <1>t, <1>u, <2>1 DEF IdsInv, InProgress
<1>2. CASE UnmapFailed(s)
  <2>1. sessions' = [sessions EXCEPT ![IdOf[s]] = None] /\ auto' = auto /\ starter[s] = "unmap"
    BY <1>2 DEF UnmapFailed
  <2>2. QED
    BY <1>t, <1>u, <2>1 DEF IdsInv, InProgress
<1>3. CASE RecordVirtual(s)
  <2>1. auto' = [auto EXCEPT ![IdOf[s]] = s] /\ sessions' = sessions /\ starter[s] = "record"
    BY <1>3 DEF RecordVirtual
  <2>2. QED
    BY <1>t, <1>u, <1>3, <2>1 DEF IdsInv, InProgress
<1>4. CASE StartAutoVirtualMonitor(s)
  BY <1>u, <1>4 DEF StartAutoVirtualMonitor, IdsInv
<1>5. CASE UNCHANGED maps /\ starter[s] \notin {"new", "started", "failed"}
  BY <1>u, <1>5 DEF IdsInv, InProgress
<1>6. QED
  BY <1>1, <1>2, <1>3, <1>4, <1>5

\* No goroutine and no caller makes a session run.
LEMMA FwdRuns ==
  ASSUME MonitorType, NEW s \in Sessions, NEW d \in Directions, FwdOf(s, d), NEW t \in Sessions, Runs(t)'
  PROVE  Runs(t)
<1>1. CASE t # s
  BY <1>1, FwdApart DEF Apart, Runs
<1>2. CASE t = s
  <2>1. CASE Exit(s, d)
    <3>1. ses' = [ses EXCEPT ![s].wg = ses[s].wg - 1] /\ ses[s].wg - 1 \in Int
      BY <2>1, SesFields DEF Exit
    <3>2. QED
      BY <1>2, <3>1, SesBecomes, SesFields DEF Fields, Runs
  <2>2. CASE AppendFrame(s, d)
    BY <1>2, <2>2, AppendFields DEF Runs
  <2>3. CASE Fail(s, d)
    <3>1. ses'[s].status = "error"
      BY <2>3 DEF Fail, MonitorType, SesType
    <3>2. QED
      BY <1>2, <3>1 DEF Runs
  <2>4. QED
    BY <1>2, <2>1, <2>2, <2>3 DEF FwdOf, Read, ReadFails, ReadStopped, ReadContextDone, FwdStep, Write, WriteFails,
         FailStopped, FailClosesA, FailClosesB, Runs
<1>3. QED
  BY <1>1, <1>2

LEMMA UserMaps ==
  ASSUME MonitorType, IdsInv, NEW u \in Users, UserOf(u)
  PROVE  /\ IdsInv' /\ virtuals' \subseteq virtuals
         /\ \A i \in IDs : auto'[i] \in {auto[i], None} /\ sessions'[i] \in {sessions[i], None}
         /\ \A t \in Sessions : Runs(t)' => Runs(t)
<1>t. /\ sessions \in [IDs -> Sessions \cup {None}] /\ auto \in [IDs -> Sessions \cup {None}] /\ None \notin Sessions
  BY IdAssumption DEF MonitorType
<1> USE DEF UserOf, UserStep, StopIdle, StopEnter, StopClosesA, StopClosesB, StopWait, FindVirtual, DeleteVirtual, DeleteVirtualFails,
            ForgetVirtual, StopMonitor, DeleteMonitor, maps
<1>1. virtuals' \subseteq virtuals
  OBVIOUS
<1>2. \A i \in IDs : auto'[i] \in {auto[i], None}
  BY <1>t
<1>3. \A i \in IDs : sessions'[i] \in {sessions[i], None}
  BY <1>t
<1>4. \A t \in Sessions : Runs(t)' => Runs(t)
  BY EnterFields DEF Fields, Runs
<1>5. ASSUME NEW w \in Users, user'[w].pc \in {"deleteV", "forget"}
      PROVE  user'[w].v \in Sessions /\ IdOf[user'[w].v] = IdOf[user'[w].s]
  <2>1. CASE user'[w] = user[w]
    BY <1>5, <2>1 DEF IdsInv
  <2>2. CASE w = u /\ FindVirtual(u)
    <3>1. PICK t \in Sessions : t = user[u].s /\ IdOf[t] \in IDs
      BY <2>2, IdAssumption DEF UserAt, MonitorType
    <3>2. CASE auto[IdOf[t]] = None
      <4>1. user' = [user EXCEPT ![u] = [pc |-> "idle", s |-> None, v |-> None]]
        BY <2>2, <3>1, <3>2 DEF IdleUser
      <4>2. user'[u].pc = "idle"
        BY <4>1 DEF MonitorType
      <4>3. QED
        BY <1>5, <2>2, <4>2
    <3>3. CASE auto[IdOf[t]] # None
      <4>1. user' = [user EXCEPT ![u] = [@ EXCEPT !.pc = "deleteV", !.v = auto[IdOf[t]]]]
            /\ auto[IdOf[t]] \in Sessions /\ IdOf[auto[IdOf[t]]] = IdOf[t]
        BY <1>t, <2>2, <3>1, <3>3 DEF IdsInv
      <4>2. UserNow(u, "deleteV", user[u].s, auto[IdOf[t]])
        BY <4>1, UserFinds
      <4>3. QED
        BY <2>2, <3>1, <4>1, <4>2 DEF UserNow
    <3>4. QED
      BY <3>2, <3>3
  <2>3. CASE w = u /\ DeleteVirtual(u)
    <3>1. UserNow(u, "forget", user[u].s, user[u].v) /\ user[u].pc = "deleteV"
      BY <2>3, UserGoes DEF UserAt, UserStates
    <3>2. QED
      BY <2>3, <3>1 DEF UserNow, IdsInv
  <2>4. CASE w = u /\ ~FindVirtual(u) /\ ~DeleteVirtual(u)
    <3>1. PICK pc \in UserStates \ {"deleteV", "forget"} : user'[u].pc = pc
      <4>1. ASSUME NEW pc \in UserStates \ {"deleteV", "forget"}, UserGoTo(u, pc)
            PROVE  \E q \in UserStates \ {"deleteV", "forget"} : user'[u].pc = q
        BY <4>1, UserGoes DEF UserNow
      <4>2. CASE user' = [user EXCEPT ![u] = IdleUser]
        <5>1. user' = [user EXCEPT ![u] = [pc |-> "idle", s |-> None, v |-> None]]
          BY <4>2 DEF IdleUser
        <5>2. user'[u].pc = "idle"
          BY <5>1 DEF MonitorType
        <5>3. QED
          BY <5>2 DEF UserStates
      <4>3. ASSUME NEW i \in IDs, StopMonitor(u, i) \/ DeleteMonitor(u, i)
            PROVE  user'[u].pc = "enter"
        BY <4>3 DEF MonitorType
      <4>4. QED
        BY <2>4, <4>1, <4>2, <4>3 DEF UserStates
    <3>2. QED
      BY <1>5, <2>4, <3>1
  <2>5. QED
    BY <2>1, <2>2, <2>3, <2>4, UserMoves DEF UserNow
<1>6. IdsInv'
  BY <1>2, <1>3, <1>5 DEF IdsInv
<1>7. QED
  BY <1>1, <1>2, <1>3, <1>4, <1>6

\* Where a caller goes: it begins with the session of an id, goes on with it,
\* or is done.
LEMMA UserTurns ==
  ASSUME MonitorType, NEW u \in Users, UserOf(u)
  PROVE  \/ user'[u].pc = "idle" /\ (FindVirtual(u) \/ ForgetVirtual(u) \/ DeleteVirtualFails(u))
         \/ user[u].pc # "idle" /\ user'[u].pc # "idle" /\ user'[u].s = user[u].s /\ UNCHANGED sessions
         \/ \E i \in IDs : /\ StopMonitor(u, i) \/ DeleteMonitor(u, i)
                           /\ UserNow(u, "enter", sessions[i], None) /\ user[u].pc = "idle" /\ sessions[i] \in Sessions
<1>1. ASSUME NEW i \in IDs, StopMonitor(u, i) \/ DeleteMonitor(u, i)
      PROVE  UserNow(u, "enter", sessions[i], None) /\ user[u].pc = "idle" /\ sessions[i] \in Sessions
  BY <1>1, UserBecomes DEF StopMonitor, DeleteMonitor, UserStates, MonitorType
<1>2. CASE StopIdle(u) \/ StopEnter(u) \/ StopClosesA(u) \/ StopClosesB(u) \/ StopWait(u) \/ DeleteVirtual(u)
  <2>1. PICK pc \in UserStates \ {"idle"} : UserGoTo(u, pc)
    BY <1>2 DEF StopIdle, StopEnter, StopClosesA, StopClosesB, StopWait, DeleteVirtual, UserStates
  <2>2. QED
    BY <1>2, <2>1, UserGoes
       DEF UserNow, StopIdle, StopEnter, StopClosesA, StopClosesB, StopWait, DeleteVirtual, DeleteVirtualFails, UserAt, maps
<1>3. CASE FindVirtual(u)
  <2> DEFINE v == auto[IdOf[user[u].s]]
  <2>1. user[u].pc = "virtual" /\ UNCHANGED sessions
    BY <1>3 DEF FindVirtual, UserAt, maps
  <2>2. CASE v = None
    <3>1. UserNow(u, "idle", None, None)
      BY <1>3, <2>2, UserBecomes DEF FindVirtual, IdleUser, UserStates
    <3>2. QED
      BY <1>3, <3>1 DEF UserNow
  <2>3. CASE v # None
    <3>1. user[u].s \in Sessions /\ v \in Sessions
      BY <2>1, <2>3, IdAssumption DEF MonitorType
    <3>2. UserNow(u, "deleteV", user[u].s, v)
      BY <1>3, <2>3, <3>1, UserFinds DEF FindVirtual
    <3>3. QED
      BY <2>1, <3>2 DEF UserNow
  <2>4. QED
    BY <2>2, <2>3
<1>4. CASE ForgetVirtual(u) \/ DeleteVirtualFails(u)
  <2>1. UserNow(u, "idle", None, None)
    BY <1>4, UserBecomes DEF ForgetVirtual, DeleteVirtualFails, IdleUser, UserStates
  <2>2. QED
    BY <1>4, <2>1 DEF UserNow
<1>5. QED
  BY <1>1, <1>2, <1>3, <1>4 DEF UserOf, UserStep

\* A call that begins next to others of its id marks their sessions and its
\* own.
LEMMA Marks ==
  ASSUME MonitorInv, NEW t \in Sessions, Lone(t)'
  PROVE  /\ \A s \in Sessions : StartAutoVirtualMonitor(s) /\ IdOf[s] = IdOf[t] =>
                /\ ~InProgress(t) /\ \A u \in Users : ~WorksOn(u, t)
                /\ s = t => \A r \in Sessions : IdOf[r] = IdOf[t] => ~InProgress(r) /\ \A u \in Users : ~WorksOn(u, r)
         /\ \A u \in Users, i \in IDs : (StopMonitor(u, i) \/ DeleteMonitor(u, i)) /\ IdOf[t] = i =>
                /\ ~InProgress(t)
                /\ sessions[i] = t => \A r \in Sessions : IdOf[r] = i => ~InProgress(r)
BY DEF StartAutoVirtualMonitor, StopMonitor, DeleteMonitor, Overlaps, Starting, Stopping, Lone

\* The calls of a session that never overlapped with a start of its id stay
\* apart from the others.
LEMMA TurnsStep ==
  ASSUME MonitorInv, [Next]_vars, NEW t \in Sessions, Lone(t), Lone(t)'
  PROVE  TurnsInv(t)'
<1>t. /\ MonitorType /\ IdsInv /\ TurnsInv(t) /\ ListedInv(t)
      /\ sessions \in [IDs -> Sessions \cup {None}] /\ None \notin Sessions /\ \A s \in Sessions : IdOf[s] \in IDs
  BY IdAssumption DEF MonitorInv, LoneInv, MonitorType
<1>1. ASSUME NEW s \in Sessions, StartOf(s) PROVE TurnsInv(t)'
  <2>1. user' = user /\ (\A r \in Sessions : r # s => starter'[r] = starter[r])
        /\ (~InProgress(s) => StartAutoVirtualMonitor(s))
    BY <1>t, <1>1, StartApart, StartMaps DEF Apart
  <2>2. /\ \A r \in Sessions : r # s => (InProgress(r)' <=> InProgress(r))
        /\ \A r \in Sessions, u \in Users : WorksOn(u, r)' <=> WorksOn(u, r)
    BY <2>1 DEF InProgress, WorksOn
  <2>3. ASSUME NEW r \in Sessions, r # t, IdOf[r] = IdOf[t], InProgress(r)'
        PROVE  /\ ~InProgress(t)' /\ \A u \in Users : ~WorksOn(u, t)'
               /\ sessions'[IdOf[t]] = t => starter'[r] \notin Listed
    <3>1. CASE r # s /\ t # s
      <4>1. sessions'[IdOf[t]] = t => sessions[IdOf[t]] = t
        BY <1>t, <1>1, <3>1, StartMaps
      <4>2. QED
        BY <1>t, <2>1, <2>2, <2>3, <3>1, <4>1 DEF TurnsInv
    <3>2. CASE t = s
      <4>1. InProgress(r)
        BY <2>2, <2>3, <3>2
      <4>2. ~InProgress(s)
        BY <1>t, <2>3, <3>2, <4>1 DEF TurnsInv
      <4>3. QED
        BY <2>1, <2>3, <3>2, <4>1, <4>2, Marks
    <3>3. CASE r = s
      <4>1. ~InProgress(t) /\ \A u \in Users : ~WorksOn(u, t)
        BY <1>t, <2>1, <2>3, <3>3, Marks DEF TurnsInv
      <4>2. sessions'[IdOf[t]] = t => sessions[IdOf[t]] = t
        BY <1>t, <1>1, <2>3, <3>3, StartMaps
      <4>3. sessions'[IdOf[t]] = t => ~InsertSession(s)
        BY <1>t, <2>3, <3>3 DEF InsertSession
      <4>4. ~InsertSession(s) /\ starter'[s] \in Listed => starter[s] \in Listed /\ InProgress(s)
        <5>1. \A pc \in StarterStates : GoTo(s, pc) => starter'[s] = pc
          BY <1>t, StarterGoes DEF Started
        <5>2. QED
          BY <1>1, <5>1 DEF StartOf, StartStep, StartAutoVirtualMonitor, CreateVirtual, CreateVirtualFails, InsertRefused,
             OpenA, OpenAFails, OpenB, OpenBFails, StartClosesA, SetError, UnmapFailed, UndoVirtual, UndoVirtualFails,
             SetRunning, Fork, RecordVirtual, StarterStates, Listed, InProgress
      <4>5. QED
        BY <1>t, <2>2, <2>3, <3>3, <4>1, <4>2, <4>3, <4>4 DEF TurnsInv
    <3>4. QED
      BY <3>1, <3>2, <3>3
  <2>4. ASSUME NEW r \in Sessions, NEW u \in Users, IdOf[r] = IdOf[t], WorksOn(u, r)'
        PROVE  /\ ~InProgress(t)'
               /\ r # t => sessions'[IdOf[t]] # t /\ \A w \in Users : ~WorksOn(w, t)'
               /\ r = t => sessions'[IdOf[t]] \in {t, None}
    <3>1. /\ ~InProgress(t)
          /\ r # t => sessions[IdOf[t]] # t /\ \A w \in Users : ~WorksOn(w, t)
          /\ r = t => sessions[IdOf[t]] \in {t, None}
      BY <1>t, <2>2, <2>4 DEF TurnsInv
    <3>2. t # s
      BY <2>1, <2>2, <2>4, <3>1, Marks
    <3>3. sessions'[IdOf[t]] = t => sessions[IdOf[t]] = t
      BY <1>t, <1>1, <3>2, StartMaps
    <3>4. r = t => sessions'[IdOf[t]] = sessions[IdOf[t]]
      <4>1. r = t /\ IdOf[s] = IdOf[t] => ~InProgress(s)
        BY <1>t, <2>2, <2>4, <3>2 DEF TurnsInv
      <4>2. QED
        BY <1>t, <1>1, <4>1, StartMaps
    <3>5. QED
      BY <2>2, <3>1, <3>2, <3>3, <3>4
  <2>5. QED
    BY <2>3, <2>4 DEF TurnsInv
<1>2. ASSUME NEW u \in Users, UserOf(u) PROVE TurnsInv(t)'
  <2>1. starter' = starter /\ \A r \in Sessions : InProgress(r)' <=> InProgress(r)
    BY <1>t, <1>2, UserApart DEF InProgress
  <2>2. \A w \in Users, r \in Sessions : w # u => (WorksOn(w, r)' <=> WorksOn(w, r))
    BY <1>t, <1>2, UserMoves DEF UserNow, WorksOn
  <2>m. sessions'[IdOf[t]] \in {sessions[IdOf[t]], None}
    BY <1>t, <1>2, UserMaps
  <2>3. ASSUME \A r \in Sessions : WorksOn(u, r)' => WorksOn(u, r) PROVE TurnsInv(t)'
    <3>1. \A w \in Users, r \in Sessions : WorksOn(w, r)' => WorksOn(w, r)
      BY <2>2, <2>3
    <3>2. QED
      BY <1>t, <2>1, <2>m, <3>1 DEF TurnsInv
  <2>4. ASSUME NEW i \in IDs, StopMonitor(u, i) \/ DeleteMonitor(u, i), UserNow(u, "enter", sessions[i], None),
               user[u].pc = "idle", sessions[i] \in Sessions
        PROVE  TurnsInv(t)'
    <3>1. PICK x \in Sessions : x = sessions[i] /\ IdOf[x] = i
      BY <1>t, <2>4 DEF IdsInv
    <3>2. \A w \in Users, r \in Sessions : WorksOn(w, r)' <=> WorksOn(w, r) \/ (w = u /\ r = x)
      BY <2>2, <2>4, <3>1 DEF UserNow, WorksOn
    <3>3. i = IdOf[t] => ~InProgress(t) /\ (x = t => \A r \in Sessions : IdOf[r] = i => ~InProgress(r))
      BY <2>4, <3>1, Marks
    <3>4. ASSUME NEW r \in Sessions, r # t, IdOf[r] = IdOf[t], InProgress(r)
          PROVE  /\ ~InProgress(t) /\ \A w \in Users : ~WorksOn(w, t)'
                 /\ sessions'[IdOf[t]] = t => starter[r] \notin Listed
      BY <1>t, <2>m, <3>1, <3>2, <3>3, <3>4 DEF TurnsInv
    <3>5. ASSUME NEW r \in Sessions, NEW w \in Users, IdOf[r] = IdOf[t], WorksOn(w, r)'
          PROVE  /\ ~InProgress(t)
                 /\ r # t => sessions'[IdOf[t]] # t /\ \A v \in Users : ~WorksOn(v, t)'
                 /\ r = t => sessions'[IdOf[t]] \in {t, None}
      <4>1. CASE WorksOn(w, r)
        BY <1>t, <2>m, <3>1, <3>2, <3>5, <4>1 DEF TurnsInv
      <4>2. CASE w = u /\ r = x
        <5>1. IdOf[t] = i /\ sessions[IdOf[t]] = x
          BY <3>1, <3>5, <4>2
        <5>2. x # t => \A v \in Users : ~WorksOn(v, t)
          BY <1>t, <5>1 DEF TurnsInv
        <5>3. QED
          BY <1>t, <2>m, <3>2, <3>3, <4>2, <5>1, <5>2
      <4>3. QED
        BY <3>2, <3>5, <4>1, <4>2
    <3>6. QED
      BY <2>1, <3>4, <3>5 DEF TurnsInv
  <2>5. ASSUME user'[u].pc = "idle" \/ (user[u].pc # "idle" /\ user'[u].s = user[u].s) PROVE TurnsInv(t)'
    BY <2>3, <2>5 DEF WorksOn
  <2>6. QED
    BY <1>t, <1>2, <2>4, <2>5, UserTurns
<1>3. ASSUME UNCHANGED <<starter, user, sessions>> PROVE TurnsInv(t)'
  BY <1>t, <1>3 DEF TurnsInv, InProgress, WorksOn
<1>4. QED
  BY <1>t, <1>1, <1>2, <1>3, NextSteps, FwdApart, ClearApart DEF vars, maps

\* The entry of a start that is under way is its own.
LEMMA ListedStep ==
  ASSUME MonitorInv, [Next]_vars, NEW t \in Sessions, Lone(t), Lone(t)'
  PROVE  ListedInv(t)'
<1>t. MonitorType /\ IdsInv /\ TurnsInv(t) /\ ListedInv(t) /\ LocalInv(t) /\ t # None /\ IdOf[t] \in IDs
  BY IdAssumption DEF MonitorInv, LoneInv
<1>1. ASSUME NEW s \in Sessions, StartOf(s) PROVE ListedInv(t)'
  <2>0. user' = user
    BY <1>t, <1>1, StartApart
  <2>1. CASE t # s
    <3>1. Apart(t) /\ (sessions'[IdOf[t]] = t <=> sessions[IdOf[t]] = t)
          /\ (auto'[IdOf[t]] = auto[IdOf[t]] \/ (RecordVirtual(s) /\ IdOf[t] = IdOf[s]))
      <4>1. starter[s] = "unmap" /\ IdOf[t] = IdOf[s] => sessions[IdOf[t]] # t
        BY <1>t, <2>1 DEF TurnsInv, InProgress, Listed
      <4>2. QED
        BY <1>t, <1>1, <2>1, <4>1, StartApart, StartMaps
    <3>2. RecordVirtual(s) /\ IdOf[t] = IdOf[s] => sessions[IdOf[t]] # t
      BY <1>t, <2>1 DEF RecordVirtual, TurnsInv, InProgress, Listed
    <3>3. At(t, {"enter"}) => At(t, {"enter"})'
      BY <2>0 DEF At
    <3>4. QED
      BY <1>t, <2>1, <3>1, <3>2, <3>3 DEF ListedInv, Apart, Runs
  <2>2. CASE t = s
    <3> USE DEF ListedInv, Listed, Late
    <3>1. ASSUME NEW pc \in StarterStates, Started(s, pc),
                 pc \in Listed \cup {"started"} => sessions'[IdOf[s]] = s /\ (pc = "started" => auto'[IdOf[s]] = s),
                 pc \notin Listed \cup {"started"} => sessions'[IdOf[s]] # s
          PROVE  ListedInv(s)'
      BY <3>1 DEF Started
    <3>g. /\ \A pc \in StarterStates : GoTo(s, pc) => Started(s, pc)
          /\ sessions \in [IDs -> Sessions \cup {None}] /\ auto \in [IDs -> Sessions \cup {None}]
      BY <1>t, StarterGoes DEF MonitorType
    <3>2. CASE \/ StartAutoVirtualMonitor(s) \/ CreateVirtual(s) \/ CreateVirtualFails(s) \/ InsertRefused(s)
               \/ UndoVirtual(s) \/ UndoVirtualFails(s)
      <4>1. PICK pc \in {"create", "insert", "failed", "undo"} : GoTo(s, pc)
        BY <3>2 DEF StartAutoVirtualMonitor, CreateVirtual, CreateVirtualFails, InsertRefused, UndoVirtual, UndoVirtualFails
      <4>2. sessions' = sessions /\ starter[s] \in {"new", "create", "insert", "undo"}
        BY <3>2 DEF StartAutoVirtualMonitor, CreateVirtual, CreateVirtualFails, InsertRefused, UndoVirtual, UndoVirtualFails, maps
      <4>3. pc \in StarterStates /\ pc \notin Listed \cup {"started"} /\ sessions[IdOf[s]] # s
        BY <1>t, <2>2, <4>1, <4>2 DEF StarterStates
      <4>4. Started(s, pc)
        BY <3>g, <4>1, <4>3
      <4>5. QED
        BY <2>2, <3>1, <4>2, <4>3, <4>4
    <3>3. CASE OpenA(s) \/ OpenAFails(s) \/ OpenB(s) \/ OpenBFails(s) \/ StartClosesA(s) \/ SetError(s) \/ SetRunning(s) \/ Fork(s)
      <4>1. PICK pc \in {"openB", "setError", "run", "closeA", "unmap", "fork", "record"} : GoTo(s, pc)
        BY <3>3 DEF OpenA, OpenAFails, OpenB, OpenBFails, StartClosesA, SetError, SetRunning, Fork
      <4>2. sessions' = sessions /\ starter[s] \in Listed
        BY <3>3 DEF OpenA, OpenAFails, OpenB, OpenBFails, StartClosesA, SetError, SetRunning, Fork, maps
      <4>3. pc \in StarterStates /\ pc \in Listed /\ pc # "started" /\ sessions[IdOf[s]] = s
        BY <1>t, <2>2, <4>1, <4>2 DEF StarterStates
      <4>4. Started(s, pc)
        BY <3>g, <4>1, <4>3
      <4>5. QED
        BY <2>2, <3>1, <4>2, <4>3, <4>4
    <3>4. CASE InsertSession(s)
      BY <1>t, <2>2, <3>1, <3>4, <3>g DEF InsertSession, StarterStates
    <3>5. CASE UnmapFailed(s)
      BY <1>t, <2>2, <3>1, <3>5, <3>g DEF UnmapFailed, StarterStates
    <3>6. CASE RecordVirtual(s)
      BY <1>t, <2>0, <2>2, <3>1, <3>6, <3>g DEF RecordVirtual, StarterStates
    <3>7. QED
      BY <1>1, <2>2, <3>2, <3>3, <3>4, <3>5, <3>6 DEF StartOf, StartStep
  <2>3. QED
    BY <2>1, <2>2
<1>2. ASSUME NEW u \in Users, UserOf(u) PROVE ListedInv(t)'
  <2>1. starter' = starter /\ IdsInv' /\ MonitorType' /\ (Runs(t)' => Runs(t))
        /\ auto'[IdOf[t]] \in {auto[IdOf[t]], None} /\ sessions'[IdOf[t]] \in {sessions[IdOf[t]], None}
    BY <1>t, <1>2, UserApart, UserMaps
  <2>2. sessions[IdOf[t]] = t /\ sessions'[IdOf[t]] # t => At(t, {"enter"})' /\ starter[t] \notin Listed
    <3> SUFFICES ASSUME sessions[IdOf[t]] = t, sessions'[IdOf[t]] # t PROVE At(t, {"enter"})' /\ starter[t] \notin Listed
      OBVIOUS
    <3>1. PICK i \in IDs : DeleteMonitor(u, i) /\ UserNow(u, "enter", sessions[i], None)
      BY <1>t, <1>2, UserTurns DEF StopMonitor, maps, FindVirtual, ForgetVirtual, DeleteVirtualFails
    <3>2. IdOf[t] = i
      BY <1>t, <3>1 DEF DeleteMonitor, MonitorType
    <3>3. ~InProgress(t)
      BY <3>1, <3>2, Marks
    <3>4. QED
      BY <3>1, <3>2, <3>3 DEF UserNow, At, InProgress, Listed
  <2>3. Runs(t)' /\ At(t, {"enter"}) => At(t, {"enter"})'
    <3>1. user[u].s = t /\ user[u].pc = "enter" /\ Runs(t)' => FALSE
      <4>1. user[u].pc = "enter" => StopIdle(u) \/ StopEnter(u)
        BY <1>2 DEF UserOf, UserStep, StopClosesA, StopClosesB, StopWait, FindVirtual, DeleteVirtual, DeleteVirtualFails, ForgetVirtual,
                    StopMonitor, DeleteMonitor, UserAt
      <4>2. StopIdle(u) /\ user[u].s = t => ~Runs(t)
        BY DEF StopIdle, Idle, Runs
      <4>3. StopEnter(u) /\ user[u].s = t => ~Runs(t)'
        BY <1>t, EnterFields DEF Fields, Runs
      <4>4. QED
        BY <2>1, <4>1, <4>2, <4>3
    <3>2. \A w \in Users : w # u => user'[w] = user[w]
      BY <1>t, <1>2, UserMoves DEF UserNow
    <3>3. QED
      BY <3>1, <3>2 DEF At
  <2>4. QED
    BY <1>t, <2>1, <2>2, <2>3 DEF ListedInv, Listed, Late
<1>3. ASSUME UNCHANGED <<sessions, auto, starter, user>>, Runs(t)' => Runs(t) PROVE ListedInv(t)'
  BY <1>t, <1>3 DEF ListedInv, At
<1>4. CASE UNCHANGED vars
  BY <1>3, <1>4 DEF vars, maps, Runs
<1>5. ASSUME NEW s \in Sessions, NEW d \in Directions, FwdOf(s, d) PROVE ListedInv(t)'
  BY <1>t, <1>3, <1>5, FwdApart, FwdRuns DEF maps
<1>6. ASSUME NEW i \in IDs, ClearFrames(i) PROVE ListedInv(t)'
  BY <1>t, <1>3, <1>6, ClearApart DEF maps, Apart, Runs
<1>7. QED
  BY <1>1, <1>2, <1>4, <1>5, <1>6, NextSteps

\* A virtual port stays where its session runs, and is not lost sight of.
LEMMA VirtualStep ==
  ASSUME MonitorInv, [Next]_vars, NEW t \in Sessions, Lone(t), Lone(t)'
  PROVE  VirtualInv(t)'
<1>t. /\ MonitorType /\ IdsInv /\ TurnsInv(t) /\ ListedInv(t) /\ VirtualInv(t) /\ t # None /\ IdOf[t] \in IDs
      /\ auto \in [IDs -> Sessions \cup {None}] /\ virtuals \subseteq Sessions
  BY IdAssumption DEF MonitorInv, LoneInv, MonitorType
<1>1. ASSUME NEW s \in Sessions, StartOf(s) PROVE VirtualInv(t)'
  <2>0. user' = user /\ kept \subseteq kept'
    BY <1>t, <1>1, StartApart DEF HistoryGrows
  <2>1. CASE t # s
    <3>1. Apart(t) /\ (t \in virtuals' <=> t \in virtuals) /\ (sessions'[IdOf[t]] = t <=> sessions[IdOf[t]] = t)
          /\ (auto'[IdOf[t]] = auto[IdOf[t]] \/ (RecordVirtual(s) /\ IdOf[t] = IdOf[s]))
      <4>1. starter[s] = "unmap" /\ IdOf[t] = IdOf[s] => sessions[IdOf[t]] # t
        BY <1>t, <2>1 DEF TurnsInv, InProgress, Listed
      <4>2. QED
        BY <1>t, <1>1, <2>1, <4>1, StartApart, StartMaps
    <3>2. At(t, UserStates \ {"idle"}) => At(t, UserStates \ {"idle"})'
      BY <2>0 DEF At
    <3>3. RecordVirtual(s) /\ IdOf[t] = IdOf[s] => sessions[IdOf[t]] # t /\ ~At(t, UserStates \ {"idle"})
      <4>1. RecordVirtual(s) => starter[s] \in Listed /\ InProgress(s)
        BY DEF RecordVirtual, Listed, InProgress
      <4>2. QED
        BY <1>t, <2>1, <4>1 DEF TurnsInv, WorksOn, At
    <3>4. QED
      BY <1>t, <2>0, <3>1, <3>2, <3>3 DEF VirtualInv, Apart, Runs, Late
  <2>2. CASE t = s
    <3>g. \A pc \in StarterStates : GoTo(s, pc) => Started(s, pc)
      BY <1>t, StarterGoes
    <3>1. ASSUME NEW pc \in {"create", "insert", "openA", "openB", "closeA", "setError", "unmap", "undo", "failed"}, GoTo(s, pc),
                 pc = "create" => s \notin virtuals', pc = "failed" => s \notin virtuals' \/ s \in kept'
          PROVE  VirtualInv(t)'
      <4>1. Started(s, pc)
        BY <3>g, <3>1 DEF StarterStates
      <4>2. QED
        BY <2>2, <3>1, <4>1 DEF Started, VirtualInv, Late
    <3>2. CASE \/ StartAutoVirtualMonitor(s) \/ CreateVirtual(s) \/ CreateVirtualFails(s) \/ InsertSession(s) \/ InsertRefused(s)
               \/ OpenA(s) \/ OpenAFails(s) \/ OpenBFails(s) \/ StartClosesA(s) \/ SetError(s) \/ UnmapFailed(s) \/ UndoVirtual(s)
               \/ UndoVirtualFails(s)
      <4>1. PICK pc \in {"create", "insert", "openA", "openB", "closeA", "setError", "unmap", "undo", "failed"} : GoTo(s, pc)
        BY <3>2 DEF StartAutoVirtualMonitor, CreateVirtual, CreateVirtualFails, InsertSession, InsertRefused,
             OpenA, OpenAFails, OpenBFails, StartClosesA, SetError, UnmapFailed, UndoVirtual, UndoVirtualFails
      <4>2. Started(s, pc)
        BY <3>g, <4>1 DEF StarterStates
      <4>3. CASE starter[s] \in {"new", "create"}
        BY <1>t, <2>2, <3>2, <4>2, <4>3
           DEF StartAutoVirtualMonitor, CreateVirtual, CreateVirtualFails, InsertSession, InsertRefused, OpenA, OpenAFails,
               OpenBFails, StartClosesA, SetError, UnmapFailed, UndoVirtual, UndoVirtualFails, VirtualInv, Late, GoTo, Started
      <4>4. CASE starter[s] \notin {"new", "create"}
        <5>1. pc # "create" /\ (pc = "failed" => s \notin virtuals' \/ s \in kept')
          BY <1>t, <3>2, <4>2, <4>4 DEF StartAutoVirtualMonitor, CreateVirtual, CreateVirtualFails, InsertSession,
             InsertRefused, OpenA, OpenAFails, OpenBFails, StartClosesA, SetError, UnmapFailed, UndoVirtual, UndoVirtualFails, GoTo, Started,
             MonitorType
        <5>2. QED
          BY <3>1, <4>1, <5>1
      <4>5. QED
        BY <4>3, <4>4
    <3>3. CASE OpenB(s)
      <4>1. Started(s, "run") /\ virtuals' = virtuals /\ s \in virtuals
        BY <3>3, <3>g DEF OpenB, StarterStates
      <4>2. QED
        BY <2>2, <4>1 DEF Started, VirtualInv, Late
    <3>4. CASE SetRunning(s)
      <4>1. Started(s, "fork") /\ virtuals' = virtuals /\ starter[s] = "run"
        BY <3>4, <3>g DEF SetRunning, StarterStates
      <4>2. QED
        BY <1>t, <2>2, <4>1 DEF Started, VirtualInv, Late
    <3>5. CASE Fork(s)
      <4>1. Started(s, "record") /\ virtuals' = virtuals /\ starter[s] = "fork"
        BY <3>5, <3>g DEF Fork, StarterStates
      <4>2. ses'[s].status = ses[s].status
        <5>1. ses' = [ses EXCEPT ![s].wg = 2] /\ 2 \in Int
          BY <3>5 DEF Fork
        <5>2. QED
          BY <1>t, <5>1, SesBecomes, SesFields DEF Fields
      <4>3. QED
        BY <1>t, <2>2, <4>1, <4>2 DEF Started, VirtualInv, Late, Runs
    <3>6. CASE RecordVirtual(s)
      <4>1. Started(s, "started") /\ UNCHANGED <<virtuals, sessions, ses>> /\ starter[s] = "record"
        BY <3>6, <3>g DEF RecordVirtual, StarterStates
      <4>2. auto'[IdOf[t]] = t /\ sessions[IdOf[t]] = t
        BY <1>t, <2>2, <3>6, <4>1 DEF RecordVirtual, ListedInv, Listed
      <4>3. QED
        BY <1>t, <2>2, <4>1, <4>2 DEF Started, VirtualInv, Late, Runs
    <3>7. QED
      BY <1>1, <2>2, <3>2, <3>3, <3>4, <3>5, <3>6 DEF StartOf, StartStep
  <2>3. QED
    BY <2>1, <2>2
<1>2. ASSUME NEW u \in Users, UserOf(u) PROVE VirtualInv(t)'
  <2>u. /\ user[u].s = t => UserInv(u)
        /\ \A w \in Users : w # u => user'[w] = user[w]
        /\ kept \subseteq kept'
    BY <1>t, <1>2, UserMoves, UserApart DEF MonitorInv, UserNow, HistoryGrows
  <2>x. ASSUME user[u].pc # "idle", user[u].s # t, IdOf[user[u].s] = IdOf[t]
        PROVE  ~InProgress(t) /\ sessions[IdOf[t]] # t /\ \A pcs \in SUBSET (UserStates \ {"idle"}) : ~At(t, pcs)
    BY <1>t, <2>x DEF TurnsInv, WorksOn, At, MonitorType
  <2>1. starter' = starter /\ (Runs(t)' => Runs(t)) /\ virtuals' \subseteq virtuals
        /\ auto'[IdOf[t]] \in {auto[IdOf[t]], None} /\ sessions'[IdOf[t]] \in {sessions[IdOf[t]], None}
    BY <1>t, <1>2, UserApart, UserMaps
  <2>2. t \in virtuals /\ t \notin virtuals' => starter[t] # "run" /\ ~(starter[t] \in Late /\ Runs(t))
    <3> SUFFICES ASSUME t \in virtuals, t \notin virtuals' PROVE starter[t] # "run" /\ ~(starter[t] \in Late /\ Runs(t))
      OBVIOUS
    <3>1. DeleteVirtual(u)
      BY <1>2 DEF UserOf, UserStep, StopIdle, StopEnter, StopClosesA, StopClosesB, StopWait, FindVirtual,
                  DeleteVirtualFails, ForgetVirtual, StopMonitor, DeleteMonitor
    <3>2. user[u].pc = "deleteV" /\ t = user[u].v /\ IdOf[user[u].s] = IdOf[t]
      BY <1>t, <3>1 DEF DeleteVirtual, UserAt, IdsInv
    <3>3. CASE user[u].s = t
      BY <2>u, <3>2, <3>3 DEF UserInv
    <3>4. CASE user[u].s # t
      <4>1. ~InProgress(t) /\ sessions[IdOf[t]] # t /\ ~At(t, {"enter"})
        BY <2>x, <3>2, <3>4 DEF UserStates
      <4>2. QED
        BY <1>t, <4>1 DEF ListedInv, InProgress
    <3>5. QED
      BY <3>3, <3>4
  <2>3. ASSUME t \in virtuals', starter[t] = "started", t \notin kept'
        PROVE  auto'[IdOf[t]] = t /\ (sessions'[IdOf[t]] = t \/ At(t, UserStates \ {"idle"})')
    <3>0. auto[IdOf[t]] = t /\ (sessions[IdOf[t]] = t \/ At(t, UserStates \ {"idle"}))
      BY <1>t, <2>u, <2>1, <2>3 DEF VirtualInv
    <3>f. ForgetVirtual(u) => user[u].s # t /\ auto'[IdOf[t]] = auto[IdOf[t]]
      <4> SUFFICES ASSUME ForgetVirtual(u) PROVE user[u].s # t /\ auto'[IdOf[t]] = auto[IdOf[t]]
        OBVIOUS
      <4>1. user[u].pc = "forget" /\ user[u].s \in Sessions
            /\ auto' = IF auto[IdOf[user[u].s]] = user[u].v THEN [auto EXCEPT ![IdOf[user[u].s]] = None] ELSE auto
        BY <1>t DEF ForgetVirtual, UserAt, MonitorType
      <4>2. user[u].s # t
        BY <2>u, <2>1, <2>3, <4>1 DEF UserInv
      <4>3. IdOf[user[u].s] # IdOf[t]
        <5>1. IdOf[user[u].s] = IdOf[t] => sessions[IdOf[t]] # t /\ ~At(t, UserStates \ {"idle"})
          BY <2>x, <4>1, <4>2
        <5>2. QED
          BY <3>0, <5>1
      <4>4. QED
        BY <1>t, <4>1, <4>2, <4>3
    <3>1. auto'[IdOf[t]] = t
      <4>1. ~ForgetVirtual(u) => auto' = auto
        BY <1>2 DEF UserOf, UserStep, StopIdle, StopEnter, StopClosesA, StopClosesB, StopWait, FindVirtual, DeleteVirtual, DeleteVirtualFails,
                    StopMonitor, DeleteMonitor, maps
      <4>2. QED
        BY <3>0, <3>f, <4>1
    <3>2. sessions[IdOf[t]] = t /\ sessions'[IdOf[t]] # t => At(t, UserStates \ {"idle"})'
      <4> SUFFICES ASSUME sessions[IdOf[t]] = t, sessions'[IdOf[t]] # t PROVE At(t, UserStates \ {"idle"})'
        OBVIOUS
      <4>1. PICK i \in IDs : DeleteMonitor(u, i) /\ UserNow(u, "enter", sessions[i], None)
        BY <1>t, <1>2, UserTurns DEF StopMonitor, maps, FindVirtual, ForgetVirtual, DeleteVirtualFails
      <4>2. sessions[i] = t
        BY <1>t, <4>1 DEF DeleteMonitor, MonitorType
      <4>3. QED
        BY <4>1, <4>2 DEF UserNow, At, UserStates
    <3>3. user[u].s = t /\ user[u].pc # "idle" => At(t, UserStates \ {"idle"})' \/ sessions'[IdOf[t]] = t
      <4> SUFFICES ASSUME user[u].s = t, user[u].pc # "idle" PROVE At(t, UserStates \ {"idle"})'
        OBVIOUS
      <4>0. ~DeleteVirtualFails(u)
        BY <2>u, <2>3 DEF DeleteVirtualFails, UserAt, UserInv
      <4>1. ~(FindVirtual(u) /\ user'[u].pc = "idle")
        <5>1. FindVirtual(u) => user' = [user EXCEPT ![u] = [@ EXCEPT !.pc = "deleteV", !.v = auto[IdOf[t]]]]
          BY <1>t, <3>0 DEF FindVirtual
        <5>2. FindVirtual(u) => user'[u].pc = "deleteV"
          BY <1>t, <5>1 DEF MonitorType
        <5>3. QED
          BY <5>2
      <4>2. user'[u].s = t /\ user'[u].pc # "idle"
        BY <1>t, <1>2, <3>f, <4>0, <4>1, UserTurns DEF UserNow
      <4>3. user'[u].pc \in UserStates
        BY <1>t, <1>2, UserApart DEF MonitorType
      <4>4. QED
        BY <4>2, <4>3 DEF At
    <3>4. ASSUME NEW w \in Users, w # u, user[w].s = t, user[w].pc \in UserStates \ {"idle"}
          PROVE  At(t, UserStates \ {"idle"})'
      BY <2>u, <3>4 DEF At
    <3>5. QED
      BY <3>0, <3>1, <3>2, <3>3, <3>4 DEF At
  <2>4. QED
    BY <1>t, <2>u, <2>1, <2>2, <2>3 DEF VirtualInv, Late
<1>3. ASSUME UNCHANGED <<sessions, auto, virtuals, starter, user, kept>>, Runs(t)' => Runs(t) PROVE VirtualInv(t)'
  BY <1>t, <1>3 DEF VirtualInv, At
<1>4. CASE UNCHANGED vars
  BY <1>3, <1>4 DEF vars, maps, history, Runs
<1>5. ASSUME NEW s \in Sessions, NEW d \in Directions, FwdOf(s, d) PROVE VirtualInv(t)'
  BY <1>t, <1>3, <1>5, FwdApart, FwdRuns DEF maps, history
<1>6. ASSUME NEW i \in IDs, ClearFrames(i) PROVE VirtualInv(t)'
  BY <1>t, <1>3, <1>6, ClearApart DEF maps, history, Apart, Runs
<1>7. QED
  BY <1>1, <1>2, <1>4, <1>5, <1>6, NextSteps

\* A caller finds the virtual port of the session that it works on.
LEMMA UserInvStep ==
  ASSUME MonitorInv, [Next]_vars, NEW w \in Users, Lone(user[w].s)',
         \A t \in Sessions : Lone(t)' => Lone(t)
  PROVE  UserInv(w)'
<1>t. /\ MonitorType /\ IdsInv /\ (Lone(user[w].s) => UserInv(w)) /\ (user[w].pc # "idle" => user[w].s \in Sessions)
      /\ auto \in [IDs -> Sessions \cup {None}] /\ None \notin Sessions /\ \A t \in Sessions : IdOf[t] \in IDs
  BY IdAssumption DEF MonitorInv, MonitorType
<1>l. \A t \in Sessions : t = user[w].s /\ user'[w].s = t => UserInv(w) /\ TurnsInv(t) /\ Lone(t)
  BY <1>t DEF MonitorInv, LoneInv
<1>0. ASSUME user' = user, UNCHANGED starter,
             \A x \in Sessions : (Runs(x)' => Runs(x)) /\ auto'[IdOf[x]] \in {auto[IdOf[x]], None},
             virtuals' \subseteq virtuals
      PROVE  UserInv(w)'
  <2> SUFFICES ASSUME user[w].pc # "idle" PROVE UserInv(w)'
    BY <1>0 DEF UserInv
  <2>1. PICK t \in Sessions : t = user[w].s
    BY <1>t
  <2>2. (Runs(t)' => Runs(t)) /\ auto'[IdOf[t]] \in {auto[IdOf[t]], None} /\ (t \in virtuals' => t \in virtuals)
    BY <1>0, <2>1 DEF Runs
  <2>3. QED
    BY <1>t, <1>l, <1>0, <2>1, <2>2 DEF UserInv
<1>1. ASSUME NEW s \in Sessions, StartOf(s) PROVE UserInv(w)'
  <2>0. user' = user /\ starter[s] # "started"
    BY <1>t, <1>1, StartApart, StartMaps
  <2> SUFFICES ASSUME user[w].pc # "idle" PROVE UserInv(w)'
    BY <2>0 DEF UserInv
  <2>1. PICK t \in Sessions : t = user[w].s
    BY <1>t
  <2>2. starter[t] = "started" /\ t # s /\ TurnsInv(t) /\ UserInv(w)
    BY <2>0, <2>1, <1>l DEF UserInv
  <2>3. Apart(t) /\ (t \in virtuals' <=> t \in virtuals)
    BY <1>t, <1>1, <2>2, StartApart
  <2>4. auto'[IdOf[t]] = auto[IdOf[t]]
    <3>1. RecordVirtual(s) => IdOf[t] # IdOf[s]
      BY <2>1, <2>2 DEF RecordVirtual, TurnsInv, InProgress, WorksOn
    <3>2. QED
      BY <1>t, <1>1, <2>0, <3>1, StartMaps
  <2>5. QED
    BY <1>t, <2>0, <2>1, <2>2, <2>3, <2>4 DEF UserInv, Apart, Runs
<1>2. ASSUME NEW u \in Users, UserOf(u), w # u PROVE UserInv(w)'
  <2>1. user'[w] = user[w] /\ starter' = starter
    BY <1>t, <1>2, UserMoves, UserApart DEF UserNow
  <2> SUFFICES ASSUME user[w].pc # "idle" PROVE UserInv(w)'
    BY <2>1 DEF UserInv
  <2>2. PICK t \in Sessions : t = user[w].s
    BY <1>t
  <2>3. (Runs(t)' => Runs(t)) /\ virtuals' \subseteq virtuals /\ auto'[IdOf[t]] \in {auto[IdOf[t]], None}
    BY <1>t, <1>2, UserMaps
  <2>4. QED
    BY <1>t, <1>l, <2>1, <2>2, <2>3 DEF UserInv, Runs
<1>3. ASSUME UserOf(w) PROVE UserInv(w)'
  <2>1. starter' = starter /\ \A t \in Sessions : Lone(t)' => Lone(t)
    BY <1>t, <1>3, UserApart
  <2>2. ASSUME NEW i \in IDs, StopMonitor(w, i) \/ DeleteMonitor(w, i), UserNow(w, "enter", sessions[i], None),
               sessions[i] \in Sessions
        PROVE  UserInv(w)'
    <3>1. PICK t \in Sessions : t = sessions[i] /\ IdOf[t] = i
      BY <1>t, <2>2 DEF IdsInv
    <3>l. Lone(t)' /\ Lone(t)
      BY <1>t, <2>2, <3>1 DEF UserNow
    <3>2. ~InProgress(t) /\ ListedInv(t) /\ auto' = auto
      BY <2>2, <3>1, <3>l, Marks DEF StopMonitor, DeleteMonitor, MonitorInv, LoneInv, maps
    <3>3. starter[t] = "started" /\ auto[IdOf[t]] \in {t, None}
      BY <3>1, <3>2 DEF ListedInv, Listed, InProgress
    <3>4. QED
      BY <2>1, <2>2, <3>1, <3>2, <3>3 DEF UserInv, UserNow
  <2>3. ASSUME user[w].pc # "idle", user'[w].pc # "idle", user'[w].s = user[w].s PROVE UserInv(w)'
    <3>1. PICK t \in Sessions : t = user[w].s
      BY <1>t, <2>3
    <3>u. UserInv(w)
      BY <1>l, <2>3, <3>1
    <3>2. starter[t] = "started" /\ auto[IdOf[t]] \in {t, None} /\ (user[w].pc # "enter" => ~Runs(t))
      BY <2>3, <3>1, <3>u DEF UserInv
    <3>3. (Runs(t)' => Runs(t)) /\ virtuals' \subseteq virtuals /\ auto'[IdOf[t]] \in {auto[IdOf[t]], None}
      BY <1>t, <1>3, UserMaps
    <3>4. auto'[IdOf[t]] \in {t, None}
      BY <3>2, <3>3
    <3>5. ~Runs(t)'
      <4>1. CASE StopEnter(w)
        BY <1>t, <3>1, <4>1, EnterFields DEF Fields, Runs
      <4>2. CASE StopIdle(w)
        BY <3>1, <3>3, <4>2 DEF StopIdle, Idle, Runs
      <4>3. CASE user[w].pc # "enter"
        BY <3>2, <3>3, <4>3
      <4>4. QED
        BY <1>3, <2>3, <4>1, <4>2, <4>3 DEF UserOf, UserStep, StopClosesA, StopClosesB, StopWait, FindVirtual, DeleteVirtual, DeleteVirtualFails,
             ForgetVirtual, StopMonitor, DeleteMonitor, UserAt
    <3>6. user'[w].pc \in {"deleteV", "forget"} =>
            user'[w].v = t /\ (user'[w].pc = "forget" => t \notin virtuals')
      <4>1. CASE StopIdle(w) \/ StopEnter(w) \/ StopClosesA(w) \/ StopClosesB(w) \/ StopWait(w)
        <5>1. PICK pc \in UserStates \ {"deleteV", "forget"} : UserGoTo(w, pc)
          BY <4>1 DEF StopIdle, StopEnter, StopClosesA, StopClosesB, StopWait, UserStates
        <5>2. QED
          BY <1>t, <5>1, UserGoes DEF UserNow
      <4>2. CASE FindVirtual(w)
        <5>1. auto[IdOf[t]] = t
          <6>1. auto[IdOf[t]] = None => user'[w].pc = "idle"
            <7>1. auto[IdOf[t]] = None => user' = [user EXCEPT ![w] = [pc |-> "idle", s |-> None, v |-> None]]
              BY <3>1, <4>2 DEF FindVirtual, IdleUser
            <7>2. QED
              BY <1>t, <7>1 DEF MonitorType
          <6>2. QED
            BY <2>3, <3>2, <6>1
        <5>2. user' = [user EXCEPT ![w] = [@ EXCEPT !.pc = "deleteV", !.v = t]]
          BY <1>t, <3>1, <4>2, <5>1 DEF FindVirtual
        <5>3. QED
          BY <1>t, <5>2, UserFinds DEF UserNow
      <4>3. CASE DeleteVirtual(w)
        <5>1. UserNow(w, "forget", user[w].s, user[w].v) /\ user[w].v = t /\ virtuals' = virtuals \ {t}
          BY <1>t, <3>1, <3>u, <4>3, UserGoes DEF DeleteVirtual, UserAt, UserInv, UserStates
        <5>2. QED
          BY <5>1 DEF UserNow
      <4>4. CASE ForgetVirtual(w) \/ DeleteVirtualFails(w)
        <5>1. user'[w].pc = "idle"
          BY <1>t, <4>4 DEF ForgetVirtual, DeleteVirtualFails, IdleUser, MonitorType
        <5>2. QED
          BY <2>3, <5>1
      <4>5. QED
        BY <1>3, <2>3, <4>1, <4>2, <4>3, <4>4 DEF UserOf, UserStep, StopMonitor, DeleteMonitor
    <3>7. QED
      BY <2>1, <2>3, <3>1, <3>2, <3>4, <3>5, <3>6 DEF UserInv, Runs
  <2>4. user'[w].pc = "idle" => UserInv(w)'
    BY DEF UserInv
  <2>5. QED
    BY <1>t, <1>3, <2>2, <2>3, <2>4, UserTurns
<1>4. CASE UNCHANGED vars
  BY <1>0, <1>4 DEF vars, maps, Runs
<1>5. ASSUME NEW s \in Sessions, NEW d \in Directions, FwdOf(s, d) PROVE UserInv(w)'
  BY <1>0, <1>t, <1>5, FwdApart, FwdRuns DEF maps
<1>6. ASSUME NEW i \in IDs, ClearFrames(i) PROVE UserInv(w)'
  BY <1>0, <1>t, <1>6, ClearApart DEF maps, Apart, Runs
<1>7. QED
  BY <1>1, <1>2, <1>3, <1>4, <1>5, <1>6, NextSteps

LEMMA MonitorInit == Init => MonitorInv
<1> SUFFICES ASSUME Init PROVE MonitorInv
  OBVIOUS
<1>1. /\ \A s \in Sessions : ses[s] = NewSession /\ starter[s] = "new"
      /\ \A s \in Sessions, d \in Directions : fwd[<<s, d>>] = "none"
      /\ \A i \in IDs : sessions[i] = None /\ auto[i] = None
      /\ \A u \in Users : user[u] = IdleUser
      /\ deviceA = None /\ deviceB = {} /\ virtuals = {} /\ None \notin Sessions /\ \A s \in Sessions : IdOf[s] \in IDs
  BY IdAssumption DEF Init
<1>2. ASSUME NEW s \in Sessions PROVE LocalInv(s) /\ ListedInv(s) /\ VirtualInv(s)
  <2>1. FieldsInv(s)
    BY <1>1, IdleTypes DEF FieldsInv, Late, Active, Serving, Directions
  <2>2. PortsInv(s) /\ QuietInv(s) /\ ListedInv(s) /\ VirtualInv(s)
    BY <1>1 DEF PortsInv, QuietInv, ListedInv, VirtualInv, Late, Listed
  <2>3. QED
    BY <2>1, <2>2 DEF LocalInv
<1>3. \A u \in Users : user[u].pc = "idle"
  BY <1>1, IdleTypes
<1>4. \A s \in Sessions : TurnsInv(s)
  BY <1>1, <1>3 DEF TurnsInv, InProgress, WorksOn
<1>5. QED
  BY <1>1, <1>2, <1>3, <1>4, TypeInit DEF MonitorInv, LoneInv, UserInv, IdsInv

LEMMA MonitorStep ==
  ASSUME MonitorInv, [Next]_vars
  PROVE  MonitorInv'
<1>t. MonitorType /\ IdsInv /\ \A s \in Sessions : Lone(s) => LoneInv(s)
  BY DEF MonitorInv
<1>h. HistoryGrows
  <2>1. CASE UNCHANGED history
    BY <2>1 DEF HistoryGrows, history
  <2>2. QED
    BY <1>t, <2>1, NextSteps, StartApart, FwdApart, UserApart, ClearApart DEF vars
<1>l. \A t \in Sessions : Lone(t)' => Lone(t)
  BY <1>h, StillLone
<1>1. IdsInv'
  BY <1>t, NextSteps, StartMaps, FwdApart, UserMaps, ClearApart DEF vars, maps, IdsInv
<1>2. ASSUME NEW t \in Sessions, Lone(t) PROVE LocalInv(t)'
  <2>t. LocalInv(t) /\ VirtualInv(t)
    BY <1>t, <1>2 DEF LoneInv
  <2>1. ASSUME user' = user, Apart(t) PROVE LocalInv(t)'
    BY <1>t, <2>t, <2>1, LocalApart DEF At
  <2>2. ASSUME NEW s \in Sessions, StartOf(s) PROVE LocalInv(t)'
    BY <1>t, <2>t, <2>1, <2>2, StartApart, StartLocal
  <2>3. ASSUME NEW s \in Sessions, NEW d \in Directions, FwdOf(s, d) PROVE LocalInv(t)'
    BY <1>t, <2>t, <2>1, <2>3, FwdApart, FwdLocal
  <2>4. ASSUME NEW u \in Users, UserOf(u) PROVE LocalInv(t)'
    BY <1>t, <1>2, <2>t, <2>4, UserLocal DEF MonitorInv
  <2>5. ASSUME NEW i \in IDs, ClearFrames(i) PROVE LocalInv(t)'
    BY <1>t, <2>1, <2>5, ClearApart
  <2>6. CASE UNCHANGED vars
    BY <2>1, <2>6 DEF vars, devices, Apart
  <2>7. QED
    BY <2>2, <2>3, <2>4, <2>5, <2>6, NextSteps
<1>3. ASSUME NEW t \in Sessions, Lone(t)' PROVE LoneInv(t)'
  BY <1>l, <1>2, <1>3, TurnsStep, ListedStep, VirtualStep DEF LoneInv
<1>4. ASSUME NEW w \in Users, Lone(user[w].s)' PROVE UserInv(w)'
  BY <1>l, <1>4, UserInvStep
<1>5. QED
  BY <1>t, <1>1, <1>3, <1>4, TypeStep DEF MonitorInv

LEMMA MonitorInvAlways == Spec => []MonitorInv
<1>1. MonitorInv /\ [Next]_vars => MonitorInv'
  BY MonitorStep
<1>2. QED
  BY <1>1, MonitorInit, PTL DEF Spec

\* Whatever a session has opened can be given back: its ports are open only
\* while it is listed, is starting, or somebody closes them, and its virtual
\* port can be deleted by whoever stops it (StartAutoVirtualMonitor, Stop,
\* Delete, fail and cleanupAutoMonitorVirtual).  Calls may overlap: it holds of
\* the sessions whose own calls did not with a start of their id, next to
\* others, and of the virtual ports that could be stopped.
THEOREM NothingStaysOpenAlways == Spec => []NothingStaysOpen
<1>1. ASSUME MonitorInv PROVE NothingStaysOpen
  <2>t. \A s \in Sessions :
            starter[s] \in StarterStates /\ (Lone(s) => LocalInv(s) /\ ListedInv(s) /\ VirtualInv(s))
    BY <1>1 DEF MonitorInv, LoneInv, MonitorType
  <2>1. NoOrphanPorts
    <3> SUFFICES ASSUME NEW s \in Sessions, Lone(s), deviceA = s \/ s \in deviceB
                 PROVE  (sessions[IdOf[s]] = s /\ ses[s].ports) \/ InProgress(s) \/ Closing(s)
      BY DEF NoOrphanPorts
    <3>1. starter[s] \in {"openB", "closeA", "run", "fork", "record", "started"}
      BY <2>t DEF LocalInv, PortsInv, Late
    <3>2. CASE starter[s] # "started"
      BY <3>1, <3>2 DEF InProgress
    <3>3. CASE starter[s] = "started" /\ Runs(s)
      <4>1. ses[s].ports /\ (sessions[IdOf[s]] = s \/ At(s, {"enter"}))
        BY <2>t, <3>3 DEF LocalInv, FieldsInv, ListedInv, Late
      <4>2. At(s, {"enter"}) => Closing(s)
        BY DEF At, Closing
      <4>3. QED
        BY <4>1, <4>2
    <3>4. CASE starter[s] = "started" /\ ~Runs(s)
      <4>1. \/ At(s, {"closeA"}) \/ At(s, {"closeA", "closeB"})
            \/ \E d \in Directions : fwd[<<s, d>>] \in {"closeA", "closeB"}
        BY <2>t, <3>4 DEF LocalInv, PortsInv, Late
      <4>2. QED
        BY <4>1 DEF At, Closing
    <3>5. QED
      BY <3>2, <3>3, <3>4
  <2>2. NoOrphanVirtual
    <3> SUFFICES ASSUME NEW s \in virtuals, Lone(s), s \notin kept
                 PROVE  InProgress(s) \/ (auto[IdOf[s]] = s /\ (sessions[IdOf[s]] = s \/ \E u \in Users : user[u].s = s))
      BY DEF NoOrphanVirtual
    <3>1. s \in Sessions
      BY <1>1 DEF MonitorInv, MonitorType
    <3>2. QED
      BY <2>t, <3>1 DEF VirtualInv, InProgress, At
  <2>3. QED
    BY <2>1, <2>2 DEF NothingStaysOpen
<1>2. QED
  BY <1>1, MonitorInvAlways, PTL

\* The status of a session is what its goroutines and ports are: one that
\* runs has both ports, its goroutines and its virtual port, and one that was
\* stopped captures and forwards nothing once Stop or Delete returned (stop
\* waits for the goroutines), whatever overlapping calls made of the other
\* sessions of its id.
THEOREM StatusIsTrueAlways == Spec => []StatusIsTrue
<1>1. ASSUME MonitorInv PROVE StatusIsTrue
  <2>t. MonitorType /\ \A s \in Sessions : Lone(s) => LocalInv(s) /\ VirtualInv(s)
    BY <1>1 DEF MonitorInv, LoneInv
  <2>1. ASSUME NEW s \in Sessions, Lone(s), ses[s].status = "running", starter[s] = "started", s \notin ended
        PROVE  /\ deviceA = s /\ s \in deviceB /\ s \in virtuals
               /\ \A d \in Directions : fwd[<<s, d>>] \in {"read", "write", "append", "fail"}
    BY <2>t, <2>1 DEF LocalInv, FieldsInv, PortsInv, VirtualInv, Late, Runs, Serving
  <2>2. ASSUME NEW s \in Sessions, Lone(s), ses[s].status = "stopped", ~InProgress(s), \A u \in Users : user[u].s # s
        PROVE  /\ \A d \in Directions : fwd[<<s, d>>] \in {"none", "done"}
               /\ deviceA # s /\ s \notin deviceB
    <3>a. \A pcs : ~At(s, pcs)
      BY <2>2 DEF At
    <3>1. CASE starter[s] \in {"new", "failed"}
      BY <2>t, <2>2, <3>1 DEF LocalInv, FieldsInv, PortsInv, Late, Directions
    <3>2. CASE starter[s] = "started"
      <4>1. ~Runs(s) /\ ses[s].wg = 0
        BY <2>t, <2>2, <3>2, <3>a DEF LocalInv, QuietInv, Late, Runs
      <4>2. fwd[<<s, "ab">>] \notin Active /\ fwd[<<s, "ba">>] \notin Active
        BY <2>t, <2>2, <4>1 DEF LocalInv, FieldsInv
      <4>3. \A d \in Directions : fwd[<<s, d>>] \notin Active /\ fwd[<<s, d>>] \in FwdStates
        BY <2>t, <2>2, <4>2 DEF Directions, MonitorType
      <4>4. \A d \in Directions : fwd[<<s, d>>] \in {"none", "done"}
        BY <4>3 DEF FwdStates, Active, Serving
      <4>5. deviceA # s /\ s \notin deviceB
        BY <2>t, <2>2, <3>2, <3>a, <4>1, <4>4 DEF LocalInv, PortsInv, Late
      <4>6. QED
        BY <4>4, <4>5
    <3>3. QED
      BY <2>2, <3>1, <3>2 DEF InProgress
  <2>3. QED
    BY <2>1, <2>2 DEF StatusIsTrue, RunningIsServed, StoppedIsQuiet
<1>2. QED
  BY <1>1, MonitorInvAlways, PTL

=============================================================================
