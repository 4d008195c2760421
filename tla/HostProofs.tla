----------------------------- MODULE HostProofs -----------------------------
(***************************************************************************)
(* Around the protocols: saving a file implements AtomicRegister, and what *)
(* is saved can be loaded, for any number of calls, paths and contents; a  *)
(* port has one owner, and every open device has one that will close it,   *)
(* for any clients and any ports; and an event reaches those that were     *)
(* subscribed, for any subscriptions, publishers and number of events.     *)
(* The modules are put in an order that is one, for any dependencies, and  *)
(* start and stop in it, whatever fails on the way.                        *)
(***************************************************************************)
EXTENDS
    AtomicSave, PortOwners, EventBus, AppLifecycle,
    SequenceTheorems, FunctionTheorems, FiniteSetTheorems, TLAPS

-----------------------------------------------------------------------------
(* Saving                                                                  *)

Points == {"idle", "create", "write", "close", "chmod", "rename", "remove"}
Jobs == [pc : Points, path : Path \cup {NoFile}, value : Value \cup {NoFile}, remember : BOOLEAN]

\* A call that goes on was asked to save a content to a workspace or to the
\* configuration, or to remember the path of a workspace; and the temporary
\* file that it closes, sets the mode of and renames has all of it.
JobInv(j, t) ==
    /\ j.pc # "idle" => j.path \in Path /\ j.value \in Value
    /\ j.pc # "idle" /\ j.path # StatePath => j.value \in Content
    /\ j.pc # "idle" /\ j.path = StatePath => j.value \in Workspaces
    /\ j.pc # "idle" /\ j.remember => j.path \in Workspaces
    /\ j.pc \in {"close", "chmod", "rename"} => t = j.value

FileInv(f) ==
    /\ f \in [Path -> Value \cup {NoFile}]
    /\ f[StatePath] \in Workspaces \cup {NoFile}
    /\ \A p \in Path \ {StatePath} : f[p] \in Content \cup {NoFile}

Temps == Value \cup {NoFile, Partial}

SaveInv ==
    /\ FileInv(file)
    /\ job \in [Saver -> Jobs]
    /\ temp \in [Saver -> Temps]
    /\ \A s \in Saver : JobInv(job[s], temp[s])

\* A call with nothing to do has nothing to be kept.
LEMMA IdleInv == ASSUME NEW t PROVE NoJob \in Jobs /\ NoJob.pc = "idle" /\ JobInv(NoJob, t)
<1>1. NoJob \in Jobs
  BY DEF NoJob, Jobs, Points
<1>a. NoJob.pc = "idle"
  BY DEF NoJob
<1>2. NoJob.pc \notin {"close", "chmod", "rename"}
  BY <1>a
<1>3. QED
  BY <1>1, <1>a, <1>2 DEF JobInv

\* SaveInit establishes the invariant.
LEMMA InitInv == SaveInit => SaveInv
<1> SUFFICES ASSUME SaveInit PROVE SaveInv
  OBVIOUS
<1>1. FileInv(file)
  <2>1. StatePath \in Path
    BY DEF Path
  <2>2. QED
    BY <2>1 DEF SaveInit, FileInv
<1>2. job \in [Saver -> Jobs] /\ temp \in [Saver -> Temps]
  BY IdleInv DEF SaveInit, Temps
<1>3. ASSUME NEW s \in Saver PROVE JobInv(job[s], temp[s])
  <2>1. job[s] = NoJob
    BY DEF SaveInit
  <2>2. QED
    BY <2>1, IdleInv
<1>4. QED
  BY <1>1, <1>2, <1>3 DEF SaveInv

\* A step of one call that changes no file has to be looked at for that call
\* only.
LEMMA LocalStep ==
  ASSUME SaveInv, NEW s \in Saver, NEW j \in Jobs, NEW t \in Temps, JobInv(j, t),
         job' = [job EXCEPT ![s] = j], temp' = [temp EXCEPT ![s] = t], file' = file
  PROVE  SaveInv'
<1>1. FileInv(file)' /\ (job \in [Saver -> Jobs])' /\ (temp \in [Saver -> Temps])'
  BY DEF SaveInv, FileInv
<1>2. ASSUME NEW r \in Saver PROVE JobInv(job[r], temp[r])'
  <2>1. CASE r = s
    <3>1. job'[r] = j /\ temp'[r] = t
      BY <2>1 DEF SaveInv
    <3>2. QED
      BY <3>1 DEF JobInv
  <2>2. CASE r # s
    <3>1. job'[r] = job[r] /\ temp'[r] = temp[r]
      BY <2>2 DEF SaveInv
    <3>2. QED
      BY <3>1 DEF JobInv, SaveInv
  <2>3. QED
    BY <2>1, <2>2
<1>3. QED
  BY <1>1, <1>2 DEF SaveInv

\* What a call is asked to save is of the kinds that the invariant knows.
LEMMA AskStep ==
  ASSUME SaveInv, NEW s \in Saver, NEW p \in Path, NEW v \in Value, NEW r \in BOOLEAN,
         p # StatePath => v \in Content,
         p = StatePath => v \in Workspaces,
         r => p \in Workspaces,
         job' = [job EXCEPT ![s] = Job(p, v, r)], temp' = temp, file' = file
  PROVE  SaveInv'
<1> DEFINE j == Job(p, v, r)
<1>1. j \in Jobs /\ j.pc = "create" /\ j.path = p /\ j.value = v /\ j.remember = r
  BY DEF Job, Jobs, Points
<1>2. JobInv(j, temp[s])
  <2> HIDE DEF j
  <2> QED
    BY <1>1 DEF JobInv
<1>3. temp[s] \in Temps /\ temp' = [temp EXCEPT ![s] = temp[s]]
  BY DEF SaveInv
<1>4. QED
  BY <1>1, <1>2, <1>3, LocalStep

\* A call moves on: its next step, with the temporary file it has then.
LEMMA MoveStep ==
  ASSUME SaveInv, NEW s \in Saver, NEW pc \in Points, NEW t \in Temps, job[s].pc # "idle",
         pc \in {"close", "chmod", "rename"} => t = job[s].value,
         Step(s, pc), temp' = [temp EXCEPT ![s] = t], file' = file
  PROVE  SaveInv'
<1> DEFINE j == [job[s] EXCEPT !.pc = pc]
<1>1. job[s] \in Jobs /\ JobInv(job[s], temp[s])
  BY DEF SaveInv
<1>2. j \in Jobs /\ j.pc = pc /\ j.path = job[s].path /\ j.value = job[s].value /\ j.remember = job[s].remember
  BY <1>1 DEF Jobs
<1>3. JobInv(j, t)
  BY <1>1, <1>2 DEF JobInv
<1>4. job' = [job EXCEPT ![s] = j]
  BY DEF Step
<1>5. QED
  BY <1>2, <1>3, <1>4, LocalStep

\* A call ends.
LEMMA EndStep ==
  ASSUME SaveInv, NEW s \in Saver, NEW t \in Temps, EndJob(s), temp' = [temp EXCEPT ![s] = t], file' = file
  PROVE  SaveInv'
  BY IdleInv, LocalStep DEF EndJob

\* A file is replaced by all of what was asked for.
LEMMA RenameStep ==
  ASSUME SaveInv, NEW s \in Saver, Rename(s)
  PROVE  SaveInv'
<1> DEFINE p == job[s].path
           v == job[s].value
           j == IF job[s].remember THEN Job(StatePath, p, FALSE) ELSE NoJob
<1>1. p \in Path /\ v \in Value /\ (p # StatePath => v \in Content) /\ (p = StatePath => v \in Workspaces)
      /\ (job[s].remember => p \in Workspaces) /\ temp[s] = v
  BY DEF SaveInv, JobInv, Rename, At
<1>2. file' = [file EXCEPT ![p] = v] /\ job' = [job EXCEPT ![s] = j] /\ temp' = [temp EXCEPT ![s] = NoFile]
  BY <1>1 DEF Rename, EndJob
<1>3. j \in Jobs /\ JobInv(j, NoFile)
  <2>1. CASE job[s].remember
    <3>1. j \in Jobs /\ j.pc = "create" /\ j.path = StatePath /\ j.value = p /\ j.remember = FALSE
      BY <1>1, <2>1 DEF Job, Jobs, Points, Path, Value
    <3>2. p \in Workspaces /\ p \in Value /\ StatePath \in Path
      BY <1>1, <2>1 DEF Path, Value
    <3> HIDE DEF j
    <3>3. QED
      BY <3>1, <3>2 DEF JobInv
  <2>2. CASE ~job[s].remember
    BY <2>2, IdleInv
  <2>3. QED
    BY <2>1, <2>2
<1> HIDE DEF p, v, j
<1>4. FileInv(file)'
  BY <1>1, <1>2 DEF FileInv, SaveInv, Path
<1>5. (job \in [Saver -> Jobs])' /\ (temp \in [Saver -> Temps])'
  BY <1>2, <1>3 DEF SaveInv, Temps
<1>6. ASSUME NEW r \in Saver PROVE JobInv(job[r], temp[r])'
  <2>1. CASE r = s
    BY <2>1, <1>2, <1>3 DEF SaveInv
  <2>2. CASE r # s
    <3>1. job'[r] = job[r] /\ temp'[r] = temp[r] /\ JobInv(job[r], temp[r])
      BY <2>2, <1>2 DEF SaveInv
    <3>2. QED
      BY <3>1 DEF JobInv
  <2>3. QED
    BY <2>1, <2>2
<1>7. QED
  BY <1>4, <1>5, <1>6 DEF SaveInv

\* Every step of the calls, and the end of the program, keep the invariant.
LEMMA StepInv == SaveInv /\ [SaveNext]_saveVars => SaveInv'
<1> SUFFICES ASSUME SaveInv, [SaveNext]_saveVars PROVE SaveInv'
  OBVIOUS
<1>1. CASE UNCHANGED saveVars
  BY <1>1 DEF saveVars, SaveInv, FileInv, JobInv
<1>2. CASE Crash
  <2>1. ASSUME NEW s \in Saver PROVE JobInv(job[s], temp[s])'
    <3>1. job'[s] = NoJob
      BY <1>2 DEF Crash
    <3>2. QED
      BY <3>1, IdleInv
  <2>2. (job \in [Saver -> Jobs])' /\ (temp \in [Saver -> Temps])'
    BY <1>2, IdleInv DEF Crash, Temps
  <2>3. FileInv(file)'
    BY <1>2 DEF Crash, SaveInv, FileInv
  <2>4. QED
    BY <2>1, <2>2, <2>3 DEF SaveInv
<1>3. ASSUME NEW s \in Saver, NEW v \in Content, SaveConfig(s, v) PROVE SaveInv'
  BY <1>3, AskStep, SaveAssumption DEF SaveConfig, Path, Value
<1>4. ASSUME NEW s \in Saver, NEW p \in Workspaces, NEW v \in Content, SaveWorkspace(s, p, v) \/ ExportWorkspace(s, p, v)
      PROVE SaveInv'
  <2>1. p \in Path /\ p # StatePath /\ v \in Value /\ TRUE \in BOOLEAN /\ FALSE \in BOOLEAN
    BY SaveAssumption DEF Path, Value
  <2>2. CASE SaveWorkspace(s, p, v)
    BY <2>1, <2>2, AskStep DEF SaveWorkspace
  <2>3. CASE ExportWorkspace(s, p, v)
    BY <2>1, <2>3, AskStep DEF ExportWorkspace
  <2>4. QED
    BY <1>4, <2>2, <2>3
<1>5. ASSUME NEW s \in Saver, NEW p \in Workspaces, RememberLastWorkspace(s, p) PROVE SaveInv'
  BY <1>5, AskStep, SaveAssumption DEF RememberLastWorkspace, Path, Value
<1>6. ASSUME NEW s \in Saver, Writes(s) PROVE SaveInv'
  <2> DEFINE same(t) == temp' = [temp EXCEPT ![s] = t]
  <2>0. temp[s] \in Temps /\ (temp' = temp => same(temp[s])) /\ Partial \in Temps /\ NoFile \in Temps
    BY DEF SaveInv, Temps
  <2>1. CASE CreateTemp(s)
    BY <2>0, <2>1, MoveStep DEF CreateTemp, At, Points
  <2>2. CASE CreateFails(s) \/ RemoveTemp(s)
    BY <2>0, <2>2, EndStep DEF CreateFails, RemoveTemp
  <2>3. CASE WriteTemp(s)
    <3>1. job[s].pc = "write" /\ job[s].value \in Temps
      BY <2>3 DEF WriteTemp, At, SaveInv, JobInv, Temps
    <3>2. QED
      BY <2>3, <3>1, MoveStep DEF WriteTemp, Points
  <2>4. CASE WriteFails(s) \/ StepFails(s)
    BY <2>0, <2>4, MoveStep DEF WriteFails, StepFails, At, Points
  <2>5. CASE CloseTemp(s) \/ Chmod(s)
    <3>1. job[s].pc \in {"close", "chmod"} /\ temp[s] = job[s].value
      BY <2>5 DEF CloseTemp, Chmod, At, SaveInv, JobInv
    <3>2. QED
      BY <2>0, <2>5, <3>1, MoveStep DEF CloseTemp, Chmod, Points
  <2>6. CASE Rename(s)
    BY <2>6, RenameStep
  <2>7. QED
    BY <1>6, <2>1, <2>2, <2>3, <2>4, <2>5, <2>6 DEF Writes
<1>7. QED
  BY <1>1, <1>2, <1>3, <1>4, <1>5, <1>6 DEF SaveNext

\* The invariant holds in every state.
THEOREM Inductive == SaveSpec => []SaveInv
  BY InitInv, StepInv, PTL DEF SaveSpec

\* Load and LoadLastWorkspace do not fail and a workspace has all of what one
\* call saved, whatever failed and wherever the program ended.
THEOREM Loads == SaveSpec => []LoadsAfterCrash
<1>1. SaveInv => LoadsAfterCrash
  <2> SUFFICES ASSUME SaveInv PROVE LoadsAfterCrash
    OBVIOUS
  <2>1. file[ConfigPath] # Partial /\ file[StatePath] # Partial
        /\ \A p \in Workspaces : file[p] \in Content \cup {NoFile}
    BY SaveAssumption DEF SaveInv, FileInv, Path, Value
  <2>2. Load # "error"
    BY <2>1 DEF Load
  <2>3. LoadLastWorkspace # "error"
    BY <2>1 DEF LoadLastWorkspace
  <2>4. QED
    BY <2>1, <2>2, <2>3 DEF LoadsAfterCrash
<1>2. QED
  BY <1>1, Inductive, PTL

-----------------------------------------------------------------------------
\* What the register is asked for
Requests == [s \in Saver |-> Asking(s)]
Nothing == [path |-> NoFile, value |-> NoFile, remember |-> FALSE]

\* A step of one call changes what that call asks for.
LEMMA RequestsStep ==
  ASSUME NEW s \in Saver, NEW j, job \in [Saver -> Jobs], job' = [job EXCEPT ![s] = j]
  PROVE  Requests' = [Requests EXCEPT ![s] = Asking(s)'] /\ job'[s] = j
<1>1. \A r \in Saver : r # s => job'[r] = job[r]
  OBVIOUS
<1>2. \A r \in Saver : r # s => Asking(r)' = Asking(r)
  BY <1>1 DEF Asking
<1>3. QED
  BY <1>2 DEF Requests

\* A call that is given up, or has failed, asks for nothing.
LEMMA GivenUp ==
  ASSUME NEW s \in Saver, NEW j, job \in [Saver -> Jobs], job' = [job EXCEPT ![s] = j],
         j.pc \in {"idle", "remove"}, file' = file
  PROVE  Register!GiveUp(s)
<1>1. Asking(s)' = Nothing
  BY RequestsStep DEF Asking, Nothing
<1>2. Requests' = [Requests EXCEPT ![s] = Nothing]
  BY <1>1, RequestsStep
<1>3. QED
  BY <1>2 DEF Register!GiveUp, Register!Nothing, Requests, Nothing

\* A call that goes on asks for what it did before.
LEMMA GoesOn ==
  ASSUME NEW s \in Saver, NEW pc, job \in [Saver -> Jobs], Step(s, pc), file' = file,
         job[s].pc \notin {"idle", "remove"}, pc \notin {"idle", "remove"}
  PROVE  UNCHANGED Register!vars
<1>1. job' = [job EXCEPT ![s] = [job[s] EXCEPT !.pc = pc]] /\ job[s] \in Jobs
  BY DEF Step
<1>2. job'[s].pc = pc /\ job'[s].path = job[s].path /\ job'[s].value = job[s].value
      /\ job'[s].remember = job[s].remember
  BY <1>1 DEF Jobs
<1>3. Asking(s)' = Asking(s)
  BY <1>2 DEF Asking
<1>4. Requests' = [Requests EXCEPT ![s] = Asking(s)]
  BY <1>1, <1>3, RequestsStep
<1>5. Requests' = Requests
  BY <1>4 DEF Requests
<1>6. QED
  BY <1>5 DEF Register!vars, Requests

\* A call begins by asking.
LEMMA Asks ==
  ASSUME NEW s \in Saver, NEW p \in Path, NEW v \in Value, NEW r \in BOOLEAN,
         job \in [Saver -> Jobs], At(s, "idle"), job' = [job EXCEPT ![s] = Job(p, v, r)], file' = file
  PROVE  Register!Next
<1>1. Asking(s) = Nothing /\ Requests[s] = Asking(s)
  BY DEF Asking, Nothing, At, Requests
<1>2. Asking(s)' = [path |-> p, value |-> v, remember |-> r]
  BY RequestsStep DEF Asking, Job
<1>3. Requests' = [Requests EXCEPT ![s] = [path |-> p, value |-> v, remember |-> r]]
  BY <1>2, RequestsStep
<1>4. Register!Ask(s, p, v, r)
  BY <1>1, <1>3 DEF Register!Ask, Register!Nothing, Requests, Nothing
<1>5. QED
  BY <1>4 DEF Register!Next

\* The rename is the step in which the file changes.
LEMMA Puts ==
  ASSUME SaveInv, NEW s \in Saver, Rename(s)
  PROVE  Register!Put(s)
<1> DEFINE p == job[s].path
           v == job[s].value
           j == IF job[s].remember THEN Job(StatePath, p, FALSE) ELSE NoJob
           next == IF job[s].remember THEN [path |-> StatePath, value |-> p, remember |-> FALSE] ELSE Nothing
<1>1. p # NoFile /\ temp[s] = v /\ job \in [Saver -> Jobs]
  BY SaveAssumption DEF SaveInv, JobInv, Rename, At
<1>2. file' = [file EXCEPT ![p] = v] /\ job' = [job EXCEPT ![s] = j]
  BY <1>1 DEF Rename, EndJob
<1>3. Asking(s)' = next
  <2>1. job'[s] = j
    BY <1>1, <1>2
  <2>2. CASE job[s].remember
    <3>1. job'[s] = Job(StatePath, p, FALSE)
      BY <2>1, <2>2
    <3>2. Asking(s)' = [path |-> StatePath, value |-> p, remember |-> FALSE]
      BY <3>1 DEF Asking, Job
    <3>3. QED
      BY <2>2, <3>2
  <2>3. CASE ~job[s].remember
    <3>1. job'[s].pc = "idle"
      BY <2>1, <2>3 DEF NoJob
    <3>2. Asking(s)' = Nothing
      BY <3>1 DEF Asking, Nothing
    <3>3. QED
      BY <2>3, <3>2
  <2>4. QED
    BY <2>2, <2>3
<1>4. Requests' = [Requests EXCEPT ![s] = next]
  BY <1>1, <1>2, <1>3, RequestsStep
<1>5. Requests[s] = [path |-> p, value |-> v, remember |-> job[s].remember]
  BY DEF Requests, Asking, Rename, At
<1>6. Requests[s] # Nothing
  BY <1>1, <1>5 DEF Nothing
<1>7. Requests[s].path = p /\ Requests[s].value = v /\ Requests[s].remember = job[s].remember
  BY <1>5
<1>8. next = IF Requests[s].remember
             THEN [path |-> StatePath, value |-> Requests[s].path, remember |-> FALSE] ELSE Nothing
  BY <1>7
<1>9. file' = [file EXCEPT ![Requests[s].path] = Requests[s].value]
  BY <1>2, <1>7
<1> HIDE DEF next
<1>10. QED
  BY <1>4, <1>6, <1>8, <1>9 DEF Register!Put, Register!Nothing, Requests, Nothing

\* Saving a file implements the register: "so a crash never leaves a
\* half-written config".
THEOREM Implements == SaveSpec => SaveIsAtomic
<1>1. SaveInit => Register!Init
  BY DEF SaveInit, Register!Init, Register!Nothing, Asking, NoJob
<1>2. SaveInv /\ [SaveNext]_saveVars => [Register!Next]_(Register!vars)
  <2> SUFFICES ASSUME SaveInv, [SaveNext]_saveVars PROVE Register!Next \/ UNCHANGED Register!vars
    OBVIOUS
  <2>0. job \in [Saver -> Jobs]
    BY DEF SaveInv
  <2>1. CASE UNCHANGED saveVars
    BY <2>1 DEF saveVars, Register!vars, Asking
  <2>2. CASE Crash
    BY <2>2 DEF Crash, Register!Next, Register!Crash, Register!Nothing, Asking, NoJob
  <2>3. ASSUME NEW s \in Saver, NEW v \in Content, SaveConfig(s, v) PROVE Register!Next
    BY <2>0, <2>3, Asks DEF SaveConfig, Path, Value
  <2>4. ASSUME NEW s \in Saver, NEW p \in Workspaces, NEW v \in Content,
               SaveWorkspace(s, p, v) \/ ExportWorkspace(s, p, v)
        PROVE  Register!Next
    BY <2>0, <2>4, Asks DEF SaveWorkspace, ExportWorkspace, Path, Value
  <2>5. ASSUME NEW s \in Saver, NEW p \in Workspaces, RememberLastWorkspace(s, p) PROVE Register!Next
    BY <2>0, <2>5, Asks DEF RememberLastWorkspace, Path, Value
  <2>6. ASSUME NEW s \in Saver, Writes(s) PROVE Register!Next \/ UNCHANGED Register!vars
    <3>1. CASE CreateTemp(s) \/ WriteTemp(s) \/ CloseTemp(s) \/ Chmod(s)
      BY <2>0, <3>1, GoesOn DEF CreateTemp, WriteTemp, CloseTemp, Chmod, At
    <3>2. CASE CreateFails(s) \/ RemoveTemp(s)
      <4>1. Register!GiveUp(s)
        BY <2>0, <3>2, GivenUp, IdleInv DEF CreateFails, RemoveTemp, EndJob
      <4>2. QED
        BY <4>1 DEF Register!Next
    <3>3. CASE WriteFails(s) \/ StepFails(s)
      <4> DEFINE j == [job[s] EXCEPT !.pc = "remove"]
      <4>1. job' = [job EXCEPT ![s] = j] /\ file' = file /\ j.pc = "remove"
        BY <2>0, <3>3 DEF WriteFails, StepFails, Step, Jobs
      <4>2. Register!GiveUp(s)
        BY <2>0, <4>1, GivenUp
      <4>3. QED
        BY <4>2 DEF Register!Next
    <3>4. CASE Rename(s)
      BY <3>4, Puts DEF Register!Next
    <3>5. QED
      BY <2>6, <3>1, <3>2, <3>3, <3>4 DEF Writes
  <2>7. QED
    BY <2>1, <2>2, <2>3, <2>4, <2>5, <2>6 DEF SaveNext
<1>3. QED
  BY <1>1, <1>2, Inductive, PTL DEF SaveSpec, SaveIsAtomic

-----------------------------------------------------------------------------
(* Owners of ports                                                         *)

\* The devices that a port of this name may be: only a virtual one has a peer.
DeviceOf(n, d) == d = <<n, "port">> \/ (n \in Virtual /\ d = <<n, "peer">>)

\* What is left to ask: the ends of the sequences of Guards
Questions ==
    {<<"terminal", "modbus", "fecbus">>, <<"modbus", "fecbus">>, <<"fecbus">>,
     <<"terminal", "fecbus", "bridge">>, <<"fecbus", "bridge">>, <<"bridge">>,
     <<"terminal", "modbus", "bridge">>, <<"modbus", "bridge">>, << >>}

Guarded == [pc : {"ask"}, kind : Kinds, name : Names, ask : Questions]
Under == [pc : {"table", "open", "opened"}, kind : Sessions, name : Names, device : Device]
Calls == {NoCall} \cup Guarded \cup Under

AskingBridge == [pc : {"ask"}, names : Names \X Names, ask : Seq(Sessions \X Names)]
Starting == [pc : {"second"}, names : Names \X Names, first : Device, second : Device]
BridgeCalls == {NoCall} \cup AskingBridge \cup Starting

Entries == [name : Names, device : Device]

PoType ==
    /\ table \in [Kinds -> SUBSET Entries]
    /\ bridges \subseteq [names : SUBSET Names, devices : SUBSET Device]
    /\ pairs \subseteq Virtual
    /\ running \subseteq Virtual
    /\ opening \in [Callers -> Calls]
    /\ bridging \in [Bridgers -> BridgeCalls]
    /\ closing \subseteq [device : Device, by : {"client", "cleanup"}]
    /\ cleaned \in 0..4
    /\ spanned \in BOOLEAN

\* The bridges that are being started: the first port is open, and the lock held.
Half == {b \in Bridgers : bridging[b].pc = "second"}

\* What is opened for a name is a device of that name.
Named ==
    /\ \A k \in Kinds : \A e \in table[k] : DeviceOf(e.name, e.device)
    /\ \A e \in table["terminal"] : e.device = <<e.name, "port">>
    /\ \A b \in bridges : \A n \in b.names \ Virtual : <<n, "port">> \in b.devices
    /\ \A c \in Callers : opening[c] \in Under => DeviceOf(opening[c].name, opening[c].device)
    /\ \A b \in Half :
        /\ bridging[b].names[1] \notin Virtual => bridging[b].first = <<bridging[b].names[1], "port">>
        /\ bridging[b].names[2] \notin Virtual => bridging[b].second = <<bridging[b].names[2], "port">>

Opened == {c \in Callers : opening[c].pc = "opened"}

\* What is owned is open, and owned once.
Exclusive ==
    /\ \A k \in Kinds : \A e \in table[k] : e.device \in held
    /\ \A b \in bridges : b.devices \subseteq held
    /\ \A x \in closing : x.device \in held
    /\ \A c \in Opened : opening[c].device \in held
    /\ \A k, l \in Kinds : \A e \in table[k], f \in table[l] : e.device = f.device => k = l /\ e = f
    /\ \A k \in Kinds : \A e \in table[k] :
        /\ \A b \in bridges : e.device \notin b.devices
        /\ \A x \in closing : e.device # x.device
        /\ \A c \in Opened : e.device # opening[c].device
    /\ \A b \in bridges :
        /\ \A a \in bridges : a = b \/ a.devices \cap b.devices = {}
        /\ \A x \in closing : x.device \notin b.devices
        /\ \A c \in Opened : opening[c].device \notin b.devices
    /\ \A x, y \in closing : x.device = y.device => x = y
    /\ \A x \in closing : \A c \in Opened : x.device # opening[c].device
    /\ \A c, d \in Opened : opening[c].device = opening[d].device => c = d
    /\ \A b \in Half :
        /\ bridging[b].first \in held
        /\ \A k \in Kinds : \A e \in table[k] : e.device # bridging[b].first
        /\ \A a \in bridges : bridging[b].first \notin a.devices
        /\ \A x \in closing : x.device # bridging[b].first
        /\ \A c \in Opened : opening[c].device # bridging[b].first
        /\ \A a \in Half : a = b

\* A call has still to ask g.
ToAsk(c, g) == opening[c].pc = "ask" /\ \E i \in DOMAIN opening[c].ask : opening[c].ask[i] = g

\* Two calls for a name that was not raced for do not meet, and what one of
\* them was told is still so.
Told ==
    \A c \in Callers : Busy(c) /\ opening[c].name \in Virtual \ raced =>
        /\ \A b \in Bridgers : ~Bridging(b, opening[c].name)
        /\ \A d \in Callers : Busy(d) /\ opening[d].name = opening[c].name => c = d
        /\ opening[c].kind = "terminal" =>
            \A k \in Sessions : ToAsk(c, k) \/ ~InUse(k, opening[c].name)
        /\ opening[c].kind \in Sessions =>
            /\ ToAsk(c, "terminal") \/ ~InUse("terminal", opening[c].name)
            /\ ToAsk(c, "bridge") \/ ~BridgeInUse(opening[c].name)

\* A bridge call has still to ask a session manager of a name.
BridgeToAsk(b, k, n) == bridging[b].pc = "ask" /\ \E i \in DOMAIN bridging[b].ask : bridging[b].ask[i] = <<k, n>>

\* And what a bridge was told is still so.
BridgeTold ==
    \A n \in Virtual \ raced, b \in Bridgers : Bridging(b, n) =>
        \A k \in Sessions : BridgeToAsk(b, k, n) \/ ~InUse(k, n)

OneName == \A k \in Kinds : \A e, f \in table[k] : e.name = f.name => e = f

\* A session of a name that nobody raced for has it alone.
Apart ==
    \A n \in Virtual \ raced : \A k \in Sessions :
        InUse(k, n) => ~InUse("terminal", n) /\ ~BridgeInUse(n)

OwnersInv == PoType /\ Named /\ Exclusive /\ Told /\ BridgeTold /\ OneName /\ Apart

\* How far the cleanup is, when no call was under way as it began
Swept ==
    /\ cleaned > 0 /\ ~spanned => (\A c \in Callers : ~Busy(c)) /\ \A b \in Bridgers : bridging[b].pc = "idle"
    /\ ~spanned => /\ cleaned > 0 => table["terminal"] = {}
                   /\ cleaned > 1 => table["modbus"] = {}
                   /\ cleaned > 2 => table["fecbus"] = {}
    /\ cleaned = 4 => (~spanned => bridges = {}) /\ pairs = {}
    /\ running \subseteq pairs \cup stuck

LossInv == PoType /\ held \subseteq Owned /\ Swept

-----------------------------------------------------------------------------
(* Types                                                                   *)

\* A question less is left to ask.
LEMMA TailOfQuestions ==
  ASSUME NEW q \in Questions, q # << >>
  PROVE  /\ Tail(q) \in Questions /\ Head(q) \in {"terminal", "modbus", "fecbus", "bridge"}
         /\ \A g : (\E i \in DOMAIN q : q[i] = g) => g = Head(q) \/ \E i \in DOMAIN Tail(q) : Tail(q)[i] = g
<1>1. CASE q = <<"terminal", "modbus", "fecbus">>
  BY <1>1 DEF Questions
<1>2. CASE q = <<"modbus", "fecbus">>
  BY <1>2 DEF Questions
<1>3. CASE q = <<"fecbus">>
  BY <1>3 DEF Questions
<1>4. CASE q = <<"terminal", "fecbus", "bridge">>
  BY <1>4 DEF Questions
<1>5. CASE q = <<"fecbus", "bridge">>
  BY <1>5 DEF Questions
<1>6. CASE q = <<"bridge">>
  BY <1>6 DEF Questions
<1>7. CASE q = <<"terminal", "modbus", "bridge">>
  BY <1>7 DEF Questions
<1>8. CASE q = <<"modbus", "bridge">>
  BY <1>8 DEF Questions
<1>9. QED
  BY <1>1, <1>2, <1>3, <1>4, <1>5, <1>6, <1>7, <1>8 DEF Questions

\* What a call asks of whom, when it begins
LEMMA FirstQuestions ==
  ASSUME NEW k \in Kinds
  PROVE  /\ Guards[k] \in Questions
         /\ k = "terminal" => \A g \in Sessions : \E i \in DOMAIN Guards[k] : Guards[k][i] = g
         /\ k \in Sessions => \A g \in {"terminal", "bridge"} : \E i \in DOMAIN Guards[k] : Guards[k][i] = g
<1>1. CASE k = "terminal"
  <2>1. Guards[k] = <<"terminal", "modbus", "fecbus">>
    BY <1>1 DEF Guards
  <2>2. QED
    BY <1>1, <2>1 DEF Questions, Sessions
<1>2. CASE k = "modbus"
  <2>1. Guards[k] = <<"terminal", "fecbus", "bridge">>
    BY <1>2 DEF Guards
  <2>2. QED
    BY <1>2, <2>1 DEF Questions, Sessions
<1>3. CASE k = "fecbus"
  <2>1. Guards[k] = <<"terminal", "modbus", "bridge">>
    BY <1>3 DEF Guards
  <2>2. QED
    BY <1>3, <2>1 DEF Questions, Sessions
<1>4. QED
  BY <1>1, <1>2, <1>3 DEF Kinds, Sessions

\* The kinds of call can be told by where they are.
LEMMA CallKinds ==
  /\ NoCall.pc = "idle"
  /\ \A x \in Guarded : x.pc = "ask"
  /\ \A x \in Under : x.pc \in {"table", "open", "opened"}
  /\ \A x \in Calls : x.pc \in {"idle", "ask", "table", "open", "opened"}
  /\ \A x \in Calls : x.pc = "idle" => x = NoCall
  /\ \A x \in Calls : x.pc = "ask" => x \in Guarded
  /\ \A x \in Calls : x.pc \in {"table", "open", "opened"} => x \in Under
BY DEF Calls, NoCall, Guarded, Under

\* A call moves, and the others stay where they are.
Moves(c, x) == x \in Calls /\ opening' = [opening EXCEPT ![c] = x]

LEMMA MoveCall ==
  ASSUME PoType, NEW c \in Callers, NEW x, Moves(c, x)
  PROVE  /\ opening' \in [Callers -> Calls] /\ opening'[c] = x
         /\ \A d \in Callers : d # c => opening'[d] = opening[d]
BY DEF PoType, Moves

\* Where the steps of a call take it
LEMMA CallSteps ==
  ASSUME PoType, NEW c \in Callers
  PROVE  /\ Return(c) => Moves(c, NoCall)
         /\ \A k \in Kinds, n \in Names : Begin(c, k, n) =>
                Moves(c, [pc |-> "ask", kind |-> k, name |-> n, ask |-> Guards[k]])
         /\ Ask(c) => \/ Return(c)
                      \/ /\ Moves(c, [opening[c] EXCEPT !.ask = Tail(opening[c].ask)])
                         /\ opening[c].ask \in Questions \ {<< >>}
         /\ Resolve(c) => /\ opening[c] \in Guarded /\ opening[c].name \in Names
                          /\ Moves(c, [pc |-> "table", kind |-> opening[c].kind, name |-> opening[c].name,
                                       device |-> EndpointFor(opening[c].name)])
         /\ CheckTable(c) => Return(c) \/ Moves(c, [opening[c] EXCEPT !.pc = "open"])
         /\ OpenDevice(c) => Moves(c, [opening[c] EXCEPT !.pc = "opened"])
<1>0. opening[c] \in Calls
  BY DEF PoType
<1>n. NoCall \in Calls
  BY DEF Calls
<1>1. Return(c) => Moves(c, NoCall)
  BY <1>n DEF Return, Moves
<1>2. ASSUME NEW k \in Kinds, NEW n \in Names, Begin(c, k, n)
      PROVE  Moves(c, [pc |-> "ask", kind |-> k, name |-> n, ask |-> Guards[k]])
  <2>1. [pc |-> "ask", kind |-> k, name |-> n, ask |-> Guards[k]] \in Guarded
    BY FirstQuestions DEF Guarded
  <2>2. QED
    BY <2>1, <1>2 DEF Begin, Moves, Calls
<1>3. ASSUME Ask(c), ~Return(c)
      PROVE  /\ Moves(c, [opening[c] EXCEPT !.ask = Tail(opening[c].ask)])
             /\ opening[c].ask \in Questions \ {<< >>}
  <2>1. opening[c] \in Guarded /\ opening[c].ask # << >>
    BY <1>0, <1>3, CallKinds DEF Ask
  <2>2. opening[c].ask \in Questions \ {<< >>}
    BY <2>1 DEF Guarded
  <2>3. Tail(opening[c].ask) \in Questions
    BY <2>2, TailOfQuestions
  <2>4. [opening[c] EXCEPT !.ask = Tail(opening[c].ask)] \in Guarded
    BY <2>1, <2>3 DEF Guarded
  <2>5. opening' = [opening EXCEPT ![c] = [opening[c] EXCEPT !.ask = Tail(opening[c].ask)]]
    BY <1>3 DEF Ask
  <2>6. QED
    BY <2>2, <2>4, <2>5 DEF Moves, Calls
<1>4. ASSUME Resolve(c)
      PROVE  /\ opening[c] \in Guarded /\ opening[c].name \in Names
             /\ Moves(c, [pc |-> "table", kind |-> opening[c].kind, name |-> opening[c].name,
                          device |-> EndpointFor(opening[c].name)])
  <2>1. opening[c] \in Guarded /\ opening[c].kind \in Sessions
    BY <1>0, <1>4, CallKinds DEF Resolve, Asked
  <2>2. opening[c].name \in Names
    BY <2>1 DEF Guarded
  <2>3. EndpointFor(opening[c].name) \in Device
    BY <2>2 DEF EndpointFor, Device
  <2>4. [pc |-> "table", kind |-> opening[c].kind, name |-> opening[c].name,
         device |-> EndpointFor(opening[c].name)] \in Under
    BY <2>1, <2>2, <2>3 DEF Under
  <2>5. QED
    BY <2>1, <2>2, <2>4, <1>4 DEF Resolve, Moves, Calls
<1>5. ASSUME CheckTable(c), ~Return(c)
      PROVE  Moves(c, [opening[c] EXCEPT !.pc = "open"])
  <2>1. opening[c] \in Under
    BY <1>0, <1>5, CallKinds DEF CheckTable
  <2>2. [opening[c] EXCEPT !.pc = "open"] \in Under
    BY <2>1 DEF Under
  <2>3. QED
    BY <2>2, <1>5 DEF CheckTable, Moves, Calls
<1>6. ASSUME OpenDevice(c)
      PROVE  Moves(c, [opening[c] EXCEPT !.pc = "opened"])
  <2>1. opening[c] \in Under
    BY <1>0, <1>6, CallKinds DEF OpenDevice
  <2>2. [opening[c] EXCEPT !.pc = "opened"] \in Under
    BY <2>1 DEF Under
  <2>3. QED
    BY <2>2, <1>6 DEF OpenDevice, Moves, Calls
<1>7. QED
  BY <1>1, <1>2, <1>3, <1>4, <1>5, <1>6

\* What is stored is an entry.
LEMMA StoredEntry ==
  ASSUME PoType, NEW c \in Callers, opening[c].pc = "opened"
  PROVE  /\ opening[c] \in Under /\ opening[c].kind \in Sessions
         /\ opening[c].name \in Names /\ opening[c].device \in Device
         /\ [name |-> opening[c].name, device |-> opening[c].device] \in Entries
BY CallKinds DEF PoType, Under, Entries

\* The kinds of bridge call can be told by where they are.
LEMMA BridgeKinds ==
  /\ \A x \in AskingBridge : x.pc = "ask"
  /\ \A x \in Starting : x.pc = "second"
  /\ \A x \in BridgeCalls : x.pc \in {"idle", "ask", "second"}
  /\ \A x \in BridgeCalls : x.pc = "ask" => x \in AskingBridge
  /\ \A x \in BridgeCalls : x.pc = "second" => x \in Starting
BY DEF BridgeCalls, NoCall, AskingBridge, Starting

\* A bridge call moves, and the others stay where they are.
MovesBridge(b, x) == x \in BridgeCalls /\ bridging' = [bridging EXCEPT ![b] = x]

LEMMA MoveBridge ==
  ASSUME PoType, NEW b \in Bridgers, NEW x, MovesBridge(b, x)
  PROVE  /\ bridging' \in [Bridgers -> BridgeCalls] /\ bridging'[b] = x
         /\ \A a \in Bridgers : a # b => bridging'[a] = bridging[a]
BY DEF PoType, MovesBridge

\* A step of a bridge call leaves everything else.
BridgeSteps(b) == OpensBridge(b) \/ \E n, m \in Names : BeginBridge(b, n, m)

LEMMA BridgeFrame ==
  ASSUME NEW b \in Bridgers, BridgeSteps(b)
  PROVE  /\ UNCHANGED <<table, pairs, running, opening, closing, cleaned, spanned, stuck>>
         /\ raced \subseteq raced'
BY DEF BridgeSteps, OpensBridge, BeginBridge, AskSession, OpenFirst, OpenFirstFails, OpenSecond, OpenSecondFails,
       tables, ghosts

\* Where the steps of a bridge call take it
LEMMA BridgeCallSteps ==
  ASSUME PoType, NEW b \in Bridgers
  PROVE  /\ ReturnBridge(b) => MovesBridge(b, NoCall)
         /\ \A n, m \in Names : BeginBridge(b, n, m) =>
                MovesBridge(b, [pc |-> "ask", names |-> <<n, m>>, ask |-> BridgeGuards(n, m)])
         /\ AskSession(b) => \/ ReturnBridge(b)
                             \/ /\ bridging[b] \in AskingBridge /\ bridging[b].ask # << >>
                                /\ ~InUse(Head(bridging[b].ask)[1], Head(bridging[b].ask)[2])
                                /\ MovesBridge(b, [bridging[b] EXCEPT !.ask = Tail(bridging[b].ask)])
         /\ OpenFirst(b) => /\ bridging[b] \in AskingBridge
                            /\ MovesBridge(b, [pc |-> "second", names |-> bridging[b].names,
                                               first |-> EndpointFor(bridging[b].names[1]),
                                               second |-> EndpointFor(bridging[b].names[2])])
<1>0. bridging[b] \in BridgeCalls /\ NoCall \in BridgeCalls
  BY DEF PoType, BridgeCalls
<1>1. ReturnBridge(b) => MovesBridge(b, NoCall)
  BY <1>0 DEF ReturnBridge, MovesBridge
<1>2. ASSUME NEW n \in Names, NEW m \in Names, BeginBridge(b, n, m)
      PROVE  MovesBridge(b, [pc |-> "ask", names |-> <<n, m>>, ask |-> BridgeGuards(n, m)])
  <2>1. BridgeGuards(n, m) \in Seq(Sessions \X Names)
    BY DEF BridgeGuards, Sessions
  <2>2. [pc |-> "ask", names |-> <<n, m>>, ask |-> BridgeGuards(n, m)] \in AskingBridge
    BY <2>1 DEF AskingBridge
  <2>3. QED
    BY <2>2, <1>2 DEF BeginBridge, MovesBridge, BridgeCalls
<1>3. ASSUME AskSession(b), ~ReturnBridge(b)
      PROVE  /\ bridging[b] \in AskingBridge /\ bridging[b].ask # << >>
             /\ ~InUse(Head(bridging[b].ask)[1], Head(bridging[b].ask)[2])
             /\ MovesBridge(b, [bridging[b] EXCEPT !.ask = Tail(bridging[b].ask)])
  <2>1. bridging[b] \in AskingBridge /\ bridging[b].ask # << >>
    BY <1>0, <1>3, BridgeKinds DEF AskSession
  <2>2. Tail(bridging[b].ask) \in Seq(Sessions \X Names)
    BY <2>1 DEF AskingBridge
  <2>3. [bridging[b] EXCEPT !.ask = Tail(bridging[b].ask)] \in AskingBridge
    BY <2>1, <2>2 DEF AskingBridge
  <2>4. bridging' = [bridging EXCEPT ![b] = [bridging[b] EXCEPT !.ask = Tail(bridging[b].ask)]]
        /\ ~InUse(Head(bridging[b].ask)[1], Head(bridging[b].ask)[2])
    BY <1>3 DEF AskSession
  <2>5. QED
    BY <2>1, <2>3, <2>4 DEF MovesBridge, BridgeCalls
<1>4. ASSUME OpenFirst(b)
      PROVE  /\ bridging[b] \in AskingBridge
             /\ MovesBridge(b, [pc |-> "second", names |-> bridging[b].names,
                                first |-> EndpointFor(bridging[b].names[1]),
                                second |-> EndpointFor(bridging[b].names[2])])
  <2>1. bridging[b] \in AskingBridge
    BY <1>0, <1>4, BridgeKinds DEF OpenFirst
  <2>2. bridging[b].names[1] \in Names /\ bridging[b].names[2] \in Names /\ bridging[b].names \in Names \X Names
    BY <2>1 DEF AskingBridge
  <2>3. EndpointFor(bridging[b].names[1]) \in Device /\ EndpointFor(bridging[b].names[2]) \in Device
    BY <2>2 DEF EndpointFor, Device
  <2>4. [pc |-> "second", names |-> bridging[b].names, first |-> EndpointFor(bridging[b].names[1]),
         second |-> EndpointFor(bridging[b].names[2])] \in Starting
    BY <2>2, <2>3 DEF Starting
  <2>5. QED
    BY <2>1, <2>4, <1>4 DEF OpenFirst, MovesBridge, BridgeCalls
<1>5. QED
  BY <1>1, <1>2, <1>3, <1>4

LEMMA TypeInit == PoInit => PoType
<1>1. NoCall \in Calls
  BY DEF Calls
<1>2. ASSUME PoInit PROVE opening \in [Callers -> Calls] /\ bridging \in [Bridgers -> BridgeCalls]
  BY <1>1, <1>2 DEF PoInit, BridgeCalls
<1>3. ASSUME PoInit PROVE table \in [Kinds -> SUBSET Entries]
  <2>1. table = [k \in Kinds |-> {}]
    BY <1>3 DEF PoInit
  <2>2. QED
    BY <2>1
<1>4. PoInit => bridges = {} /\ pairs = {} /\ running = {} /\ closing = {}
  BY DEF PoInit
<1>5. PoInit => cleaned \in 0..4 /\ spanned \in BOOLEAN
  <2>1. PoInit => cleaned \in 0..4
    BY DEF PoInit
  <2>2. PoInit => spanned \in BOOLEAN
    BY Zenon DEF PoInit
  <2>3. QED
    BY <2>1, <2>2
<1>6. \A S : {} \subseteq S
  OBVIOUS
<1>7. QED
  BY <1>2, <1>3, <1>4, <1>5, <1>6, Zenon DEF PoType

LEMMA EndpointNamed ==
  ASSUME PoType, NEW n \in Names
  PROVE  DeviceOf(n, EndpointFor(n)) /\ EndpointFor(n) \in Device
BY DEF PoType, EndpointFor, DeviceOf, Device

LEMMA TypeStep == PoType /\ [PoNext]_poVars => PoType'
<1> SUFFICES ASSUME PoType, [PoNext]_poVars PROVE PoType'
  OBVIOUS
<1> USE DEF PoType, tables, ghosts
<1>1. ASSUME NEW c \in Callers, Opens(c) PROVE PoType'
  <2>1. opening' \in [Callers -> Calls]
    BY <1>1, CallSteps, MoveCall DEF Opens, OpenHandle, OpenHandleFails, OpenDeviceFails, StoreSession, DropSession
  <2>2. bridges' = bridges /\ pairs' = pairs /\ running' = running /\ closing' = closing /\ cleaned' = cleaned
        /\ spanned' = spanned /\ bridging' = bridging
    BY <1>1 DEF Opens, Ask, Resolve, CheckTable, OpenDevice, OpenHandle, OpenHandleFails, OpenDeviceFails,
                StoreSession, DropSession
  <2>3. table' \in [Kinds -> SUBSET Entries]
    <3>1. CASE OpenHandle(c)
      <4>1. opening[c] \in Guarded
        BY <3>1, CallKinds DEF OpenHandle, Asked
      <4>2. [name |-> opening[c].name, device |-> <<opening[c].name, "port">>] \in Entries
        BY <4>1 DEF Guarded, Entries, Device
      <4>3. QED
        BY <3>1, <4>2 DEF OpenHandle, Kinds
    <3>2. CASE StoreSession(c)
      BY <3>2, StoredEntry DEF StoreSession, Store, Kinds
    <3>3. CASE table' = table
      BY <3>3
    <3>4. QED
      BY <1>1, <3>1, <3>2, <3>3
      DEF Opens, Ask, Resolve, CheckTable, OpenDevice, OpenHandleFails, OpenDeviceFails, DropSession
  <2>4. QED
    BY <2>1, <2>2, <2>3
<1>2. ASSUME NEW c \in Callers, NEW k \in Kinds, NEW n \in Names, Begin(c, k, n) PROVE PoType'
  <2>1. opening' \in [Callers -> Calls]
    BY <1>2, CallSteps, MoveCall
  <2>2. QED
    BY <1>2, <2>1 DEF Begin
<1>3. ASSUME NEW n \in Virtual, CreatePort(n) \/ DeletePair(n) PROVE PoType'
  BY <1>3 DEF CreatePort, DeletePair
<1>4. ASSUME NEW b \in Bridgers, BridgeSteps(b) PROVE PoType'
  <2>1. bridging' \in [Bridgers -> BridgeCalls]
    BY <1>4, BridgeCallSteps, MoveBridge
    DEF BridgeSteps, OpensBridge, OpenFirstFails, OpenSecond, OpenSecondFails
  <2>2. bridges' \subseteq [names : SUBSET Names, devices : SUBSET Device]
    <3>1. CASE OpenSecond(b)
      <4>1. bridging[b] \in Starting
        BY <3>1, BridgeKinds DEF OpenSecond
      <4>2. [names |-> {bridging[b].names[1], bridging[b].names[2]}, devices |-> {bridging[b].first, bridging[b].second}]
            \in [names : SUBSET Names, devices : SUBSET Device]
        BY <4>1 DEF Starting
      <4>3. QED
        BY <3>1, <4>2 DEF OpenSecond
    <3>2. CASE bridges' = bridges
      BY <3>2
    <3>3. QED
      BY <1>4, <3>1, <3>2
      DEF BridgeSteps, OpensBridge, BeginBridge, AskSession, OpenFirst, OpenFirstFails, OpenSecondFails
  <2>3. QED
    BY <1>4, <2>1, <2>2, BridgeFrame
<1>5. ASSUME NEW b \in bridges, DeleteBridge(b) PROVE PoType'
  BY <1>5 DEF DeleteBridge
<1>6. ASSUME NEW e \in table["terminal"], CloseHandle(e) PROVE PoType'
  BY <1>6 DEF CloseHandle, Kinds
<1>7. ASSUME NEW k \in Sessions, NEW e \in table[k], CloseSession(k, e) PROVE PoType'
  <2>1. [device |-> e.device, by |-> "client"] \in [device : Device, by : {"client", "cleanup"}]
    BY DEF Entries, Kinds
  <2>2. QED
    BY <1>7, <2>1 DEF CloseSession, Kinds
<1>8. ASSUME NEW x \in closing, CloseDevice(x) PROVE PoType'
  BY <1>8 DEF CloseDevice
<1>9. ASSUME cleaned < 3, NEW k \in Kinds, CloseAll(k) PROVE PoType'
  <2>1. {[device |-> e.device, by |-> "cleanup"] : e \in table[k]} \subseteq [device : Device, by : {"client", "cleanup"}]
    BY DEF Entries
  <2>2. cleaned' \in 0..4
    BY <1>9 DEF CloseAll
  <2>3. QED
    BY <1>9, <2>1, <2>2 DEF CloseAll
<1>10. ASSUME NEW fails \in SUBSET pairs, CleanupVirtual(fails) PROVE PoType'
  BY <1>10 DEF CleanupVirtual
<1>11. CASE UNCHANGED poVars
  BY <1>11 DEF poVars
<1>12. QED
  BY <1>1, <1>2, <1>3, <1>4, <1>5, <1>6, <1>7, <1>8, <1>9, <1>10, <1>11 DEF PoNext, BridgeSteps

-----------------------------------------------------------------------------
(* Every open device has an owner.                                         *)

Knows(d) ==
    \/ \E k \in Kinds : \E e \in table[k] : e.device = d
    \/ \E b \in bridges : d \in b.devices
    \/ \E x \in closing : x.device = d
    \/ \E c \in Opened : opening[c].device = d
    \/ \E b \in Half : bridging[b].first = d

LEMMA OwnedMeans ==
  ASSUME NEW d
  PROVE  (d \in Owned <=> Knows(d)) /\ ((d \in Owned)' <=> Knows(d)')
<1>1. d \in Owned <=> Knows(d)
  BY DEF Owned, Knows, Opened, Half
<1>2. (d \in Owned)' <=> Knows(d)'
  BY DEF Owned, Knows, Opened, Half
<1>3. QED
  BY <1>1, <1>2

\* A call that is not in the middle of its step keeps what it has opened.
LEMMA OpenedStays ==
  ASSUME PoType, NEW c \in Callers, NEW x, Moves(c, x)
  PROVE  /\ c \in Opened' <=> x.pc = "opened"
         /\ \A d \in Callers : d # c => (d \in Opened' <=> d \in Opened) /\ opening'[d] = opening[d]
         /\ opening'[c] = x
BY MoveCall DEF Opened

LEMMA KeptStep ==
  ASSUME PoType, held \subseteq Owned, [PoNext]_poVars
  PROVE  (held \subseteq Owned)'
<1> SUFFICES ASSUME NEW d \in held' PROVE Knows(d)'
  BY OwnedMeans
<1>0. d \in held => Knows(d)
  BY OwnedMeans
<1>h. \A b \in Half : bridging' = bridging => b \in Half' /\ bridging'[b].first = bridging[b].first
  BY DEF Half
<1>t. table \in [Kinds -> SUBSET Entries]
  BY DEF PoType
<1>1. ASSUME NEW c \in Callers, Opens(c) PROVE Knows(d)'
  <2>1. ASSUME NEW x, Moves(c, x), opening[c].pc # "opened", table' = table, bridges' = bridges,
               closing' = closing, held' = held, bridging' = bridging
        PROVE  Knows(d)'
    BY <2>1, <1>0, <1>h, OpenedStays DEF Knows, Opened
  <2>2. CASE Ask(c)
    BY <2>1, <2>2, CallSteps DEF Ask, tables
  <2>3. CASE Resolve(c)
    BY <2>1, <2>3, CallSteps DEF Resolve, Asked, tables
  <2>4. CASE CheckTable(c)
    BY <2>1, <2>4, CallSteps DEF CheckTable, tables
  <2>5. CASE OpenHandleFails(c) \/ OpenDeviceFails(c)
    BY <2>1, <2>5, CallSteps DEF OpenHandleFails, OpenDeviceFails, Asked, tables
  <2>6. CASE OpenDevice(c)
    <3>1. Moves(c, [opening[c] EXCEPT !.pc = "opened"]) /\ opening[c] \in Under
      BY <2>6, CallSteps, CallKinds DEF OpenDevice, PoType
    <3>2. c \in Opened' /\ opening'[c].device = opening[c].device
      BY <3>1, OpenedStays DEF Under
    <3>3. \A x \in Opened : x \in Opened' /\ opening'[x].device = opening[x].device
      BY <3>1, <3>2, OpenedStays DEF Opened
    <3>4. QED
      BY <2>6, <3>2, <3>3, <1>0, <1>h DEF OpenDevice, Knows, tables
  <2>7. CASE OpenHandle(c)
    <3>1. \A x \in Opened : x \in Opened' /\ opening'[x].device = opening[x].device
      BY <2>7, CallSteps, OpenedStays DEF OpenHandle, Asked, Opened
    <3>2. /\ \A k \in Kinds : table[k] \subseteq table'[k]
          /\ \E e \in table'["terminal"] : e.device = <<opening[c].name, "port">>
      <4> DEFINE f == [name |-> opening[c].name, device |-> <<opening[c].name, "port">>]
      <4>1. f.device = <<opening[c].name, "port">>
        OBVIOUS
      <4>2. table' = [table EXCEPT !["terminal"] = table["terminal"] \cup {f}]
        BY <2>7 DEF OpenHandle
      <4> HIDE DEF f
      <4>3. QED
        BY <4>1, <4>2, <1>t DEF Kinds
    <3>3. QED
      BY <2>7, <3>1, <3>2, <1>0, <1>h DEF OpenHandle, Knows, Kinds
  <2>8. CASE StoreSession(c)
    <3>0. Moves(c, NoCall)
      BY <2>8, CallSteps DEF StoreSession
    <3>1. \A x \in Opened : x # c => x \in Opened' /\ opening'[x].device = opening[x].device
      BY <3>0, OpenedStays DEF Opened
    <3>2. /\ \A k \in Kinds : table[k] \subseteq table'[k]
          /\ \E k \in Kinds : \E e \in table'[k] : e.device = opening[c].device
      <4> DEFINE f == [name |-> opening[c].name, device |-> opening[c].device]
      <4>1. f.device = opening[c].device
        OBVIOUS
      <4>2. table' = [table EXCEPT ![opening[c].kind] = table[opening[c].kind] \cup {f}] /\ opening[c].kind \in Kinds
        BY <2>8, StoredEntry DEF StoreSession, Store, Kinds
      <4> HIDE DEF f
      <4>3. QED
        BY <4>1, <4>2, <1>t
    <3>3. QED
      BY <2>8, <3>1, <3>2, <1>0, <1>h DEF StoreSession, Knows
  <2>9. CASE DropSession(c)
    <3>0. Moves(c, NoCall)
      BY <2>9, CallSteps DEF DropSession
    <3>1. \A x \in Opened : x # c => x \in Opened' /\ opening'[x].device = opening[x].device
      BY <3>0, OpenedStays DEF Opened
    <3>2. QED
      BY <2>9, <3>1, <1>0, <1>h DEF DropSession, Knows, tables
  <2>10. QED
    BY <1>1, <2>2, <2>3, <2>4, <2>5, <2>6, <2>7, <2>8, <2>9 DEF Opens
<1>2. ASSUME NEW c \in Callers, NEW k \in Kinds, NEW n \in Names, Begin(c, k, n) PROVE Knows(d)'
  <2>1. \A x \in Opened : x \in Opened' /\ opening'[x].device = opening[x].device
    BY <1>2, CallSteps, OpenedStays DEF Begin, Busy, Opened
  <2>2. QED
    BY <1>2, <2>1, <1>0, <1>h DEF Begin, Knows, tables
<1>o. \A x \in Opened : opening' = opening => x \in Opened' /\ opening'[x].device = opening[x].device
  BY DEF Opened
<1>3. ASSUME NEW n \in Virtual, CreatePort(n) \/ DeletePair(n) PROVE Knows(d)'
  BY <1>3, <1>0, <1>h, <1>o DEF CreatePort, DeletePair, Knows
<1>4. ASSUME NEW b \in Bridgers, BridgeSteps(b) PROVE Knows(d)'
  <2>0. \A x \in Opened : x \in Opened' /\ opening'[x].device = opening[x].device
    BY <1>4, <1>o, BridgeFrame
  <2>f. table' = table /\ closing' = closing
    BY <1>4, BridgeFrame
  <2>1. \A a \in Half : a # b => a \in Half' /\ bridging'[a].first = bridging[a].first
    BY <1>4 DEF BridgeSteps, OpensBridge, BeginBridge, AskSession, OpenFirst, OpenFirstFails, OpenSecond,
                OpenSecondFails, ReturnBridge, Half, PoType
  <2>2. CASE OpenSecond(b)
    <3> DEFINE g == [names |-> {bridging[b].names[1], bridging[b].names[2]},
                     devices |-> {bridging[b].first, bridging[b].second}]
    <3>1. g \in bridges' /\ g.devices = {bridging[b].first, bridging[b].second} /\ bridges \subseteq bridges'
          /\ held' = held \cup {bridging[b].second}
      BY <2>2 DEF OpenSecond
    <3> HIDE DEF g
    <3>2. QED
      BY <3>1, <2>0, <2>1, <2>f, <1>0 DEF Knows
  <2>3. CASE OpenFirst(b)
    <3> DEFINE x == [pc |-> "second", names |-> bridging[b].names, first |-> EndpointFor(bridging[b].names[1]),
                     second |-> EndpointFor(bridging[b].names[2])]
    <3>1. x.pc = "second" /\ x.first = EndpointFor(bridging[b].names[1]) /\ MovesBridge(b, x)
      BY <2>3, BridgeCallSteps
    <3> HIDE DEF x
    <3>2. b \in Half' /\ bridging'[b].first = EndpointFor(bridging[b].names[1])
      BY <3>1, MoveBridge DEF Half
    <3>3. bridges' = bridges /\ held' = held \cup {EndpointFor(bridging[b].names[1])} /\ b \notin Half
      BY <2>3 DEF OpenFirst, tables, Half
    <3>4. QED
      BY <3>2, <3>3, <2>0, <2>1, <2>f, <1>0 DEF Knows
  <2>4. CASE OpenSecondFails(b)
    <3>1. bridges' = bridges /\ held' = held \ {bridging[b].first}
      BY <2>4 DEF OpenSecondFails, tables
    <3>2. QED
      BY <3>1, <2>0, <2>1, <2>f, <1>0 DEF Knows
  <2>5. CASE AskSession(b) \/ OpenFirstFails(b) \/ \E n, m \in Names : BeginBridge(b, n, m)
    <3>1. bridges' = bridges /\ held' = held /\ b \notin Half
      BY <2>5 DEF AskSession, OpenFirstFails, BeginBridge, tables, Half
    <3>2. QED
      BY <3>1, <2>0, <2>1, <2>f, <1>0 DEF Knows
  <2>6. QED
    BY <1>4, <2>2, <2>3, <2>4, <2>5 DEF BridgeSteps, OpensBridge
<1>5. ASSUME NEW b \in bridges, DeleteBridge(b) PROVE Knows(d)'
  BY <1>5, <1>0, <1>h, <1>o DEF DeleteBridge, Knows
<1>6. ASSUME NEW e \in table["terminal"], CloseHandle(e) PROVE Knows(d)'
  <2>1. \A k \in Kinds : table'[k] = table[k] \ {e} \/ table'[k] = table[k]
    BY <1>6, <1>t DEF CloseHandle, Kinds
  <2>2. QED
    BY <1>6, <2>1, <1>0, <1>h, <1>o DEF CloseHandle, Knows
<1>7. ASSUME NEW k \in Sessions, NEW e \in table[k], CloseSession(k, e) PROVE Knows(d)'
  <2>1. \A l \in Kinds : table'[l] = table[l] \ {e} \/ table'[l] = table[l]
    BY <1>7, <1>t DEF CloseSession
  <2>2. \E x \in closing' : x.device = e.device
    <3>1. [device |-> e.device, by |-> "client"] \in closing'
      BY <1>7 DEF CloseSession
    <3>2. QED
      BY <3>1
  <2>3. QED
    BY <1>7, <2>1, <2>2, <1>0, <1>h, <1>o DEF CloseSession, Knows
<1>8. ASSUME NEW x \in closing, CloseDevice(x) PROVE Knows(d)'
  BY <1>8, <1>0, <1>h, <1>o DEF CloseDevice, Knows, tables
<1>9. ASSUME cleaned < 3, NEW k \in Kinds, CloseAll(k) PROVE Knows(d)'
  <2>1. \A l \in Kinds : l # k => table'[l] = table[l]
    BY <1>9, <1>t DEF CloseAll
  <2>2. \A e \in table[k] : \E x \in closing' : x.device = e.device
    <3>1. ASSUME NEW e \in table[k] PROVE \E x \in closing' : x.device = e.device
      <4>1. [device |-> e.device, by |-> "cleanup"] \in closing'
        BY <1>9 DEF CloseAll
      <4>2. QED
        BY <4>1
    <3>2. QED
      BY <3>1
  <2>3. closing \subseteq closing' /\ held' = held /\ bridges' = bridges /\ opening' = opening
        /\ bridging' = bridging
    BY <1>9 DEF CloseAll
  <2>4. QED
    BY <2>1, <2>2, <2>3, <1>0, <1>h, <1>o DEF Knows
<1>10. ASSUME NEW fails \in SUBSET pairs, CleanupVirtual(fails) PROVE Knows(d)'
  BY <1>10, <1>0, <1>h, <1>o DEF CleanupVirtual, Knows
<1>11. CASE UNCHANGED poVars
  BY <1>11, <1>0, <1>h, <1>o DEF poVars, tables, Knows
<1>12. QED
  BY <1>1, <1>2, <1>3, <1>4, <1>5, <1>6, <1>7, <1>8, <1>9, <1>10, <1>11 DEF PoNext, BridgeSteps

-----------------------------------------------------------------------------
(* What the cleanup leaves                                                 *)

\* Only a call that opens fills a table, and no call begins after the cleanup.
LEMMA SweptStep ==
  ASSUME PoType, Swept, [PoNext]_poVars
  PROVE  Swept'
<1>t. table \in [Kinds -> SUBSET Entries] /\ cleaned \in 0..4 /\ spanned \in BOOLEAN
  BY DEF PoType
<1>k. Kinds = {"terminal", "modbus", "fecbus"}
  BY DEF Kinds, Sessions
<1>1. ASSUME NEW c \in Callers, Opens(c) PROVE Swept'
  <2>1. Busy(c)
    BY <1>1 DEF Opens, Ask, Resolve, OpenHandle, OpenHandleFails, CheckTable, OpenDevice, OpenDeviceFails,
                StoreSession, DropSession, Asked, Busy
  <2>2. bridges' = bridges /\ pairs' = pairs /\ running' = running /\ cleaned' = cleaned
        /\ spanned' = spanned /\ stuck' = stuck /\ bridging' = bridging
    BY <1>1 DEF Opens, Ask, Resolve, CheckTable, OpenDevice, OpenHandle, OpenHandleFails, OpenDeviceFails,
                StoreSession, DropSession, tables, ghosts
  <2>3. ~(cleaned > 0 /\ ~spanned)
    BY <2>1 DEF Swept
  <2>4. QED
    BY <2>2, <2>3, <1>t DEF Swept
<1>2. ASSUME NEW c \in Callers, NEW k \in Kinds, NEW n \in Names, Begin(c, k, n) PROVE Swept'
  BY <1>2, <1>t DEF Begin, Swept, tables
<1>3. ASSUME NEW n \in Virtual, CreatePort(n) \/ DeletePair(n) PROVE Swept'
  BY <1>3, <1>t DEF CreatePort, DeletePair, Swept, ghosts, Busy
<1>4. ASSUME NEW b \in Bridgers, BridgeSteps(b) PROVE Swept'
  <2>1. UNCHANGED <<table, pairs, running, opening, cleaned, spanned, stuck>>
    BY <1>4, BridgeFrame
  <2>2. \A c \in Callers : Busy(c)' = Busy(c)
    BY <2>1 DEF Busy
  <2>3. CASE cleaned > 0 /\ ~spanned
    <3>1. bridging[b].pc = "idle"
      BY <2>3 DEF Swept
    <3>2. QED
      BY <1>4, <3>1, <2>3 DEF BridgeSteps, OpensBridge, BeginBridge, AskSession, OpenFirst, OpenFirstFails, OpenSecond,
                              OpenSecondFails
  <2>4. CASE ~(cleaned > 0 /\ ~spanned)
    BY <2>1, <2>2, <2>4, <1>t DEF Swept
  <2>5. QED
    BY <2>3, <2>4
<1>5. ASSUME NEW b \in bridges, DeleteBridge(b) PROVE Swept'
  BY <1>5, <1>t DEF DeleteBridge, Swept, ghosts, Busy
<1>6. ASSUME NEW e \in table["terminal"], CloseHandle(e) PROVE Swept'
  <2>1. table'["modbus"] = table["modbus"] /\ table'["fecbus"] = table["fecbus"]
        /\ table'["terminal"] \subseteq table["terminal"]
    BY <1>6, <1>t, <1>k DEF CloseHandle
  <2>2. QED
    BY <1>6, <2>1, <1>t DEF CloseHandle, Swept, ghosts, Busy
<1>7. ASSUME NEW k \in Sessions, NEW e \in table[k], CloseSession(k, e) PROVE Swept'
  <2>1. \A l \in Kinds : table'[l] \subseteq table[l]
    BY <1>7, <1>t DEF CloseSession
  <2>2. QED
    BY <1>7, <2>1, <1>t, <1>k DEF CloseSession, Swept, ghosts, Busy
<1>8. ASSUME NEW x \in closing, CloseDevice(x) PROVE Swept'
  BY <1>8, <1>t DEF CloseDevice, Swept, tables, ghosts, Busy
<1>9. ASSUME cleaned < 3, NEW k \in Kinds, CloseAll(k) PROVE Swept'
  <2>1. table'[k] = {} /\ \A l \in Kinds : l # k => table'[l] = table[l]
    BY <1>9, <1>t DEF CloseAll
  <2>2. cleaned' = cleaned + 1 /\ bridges' = bridges /\ pairs' = pairs /\ running' = running /\ stuck' = stuck
        /\ opening' = opening /\ bridging' = bridging
        /\ spanned' = (spanned \/ (\E c \in Callers : Busy(c)) \/ \E b \in Bridgers : bridging[b].pc # "idle")
    BY <1>9 DEF CloseAll
  <2>3. (cleaned = 0 => k = "terminal") /\ (cleaned = 1 => k = "modbus") /\ (cleaned = 2 => k = "fecbus")
    BY <1>9, <1>t DEF CloseAll
  <2>4. \A c \in Callers : Busy(c)' = Busy(c)
    BY <2>2 DEF Busy
  <2>5. running' \subseteq pairs' \cup stuck' /\ cleaned' # 4
    BY <1>9, <2>2, <1>t DEF Swept
  <2>6. ~spanned' => ~spanned /\ (\A c \in Callers : ~Busy(c)') /\ \A b \in Bridgers : bridging'[b].pc = "idle"
    BY <2>2, <2>4
  <2>7. ~spanned' => /\ cleaned' > 0 => table'["terminal"] = {}
                     /\ cleaned' > 1 => table'["modbus"] = {}
                     /\ cleaned' > 2 => table'["fecbus"] = {}
    <3>1. CASE cleaned = 0
      BY <3>1, <2>1, <2>2, <2>3
    <3>2. CASE cleaned = 1
      BY <3>2, <2>1, <2>2, <2>3, <2>6, <1>k DEF Swept
    <3>3. CASE cleaned = 2
      BY <3>3, <2>1, <2>2, <2>3, <2>6, <1>k DEF Swept
    <3>4. QED
      BY <3>1, <3>2, <3>3, <1>9, <1>t
  <2>8. QED
    BY <2>5, <2>6, <2>7 DEF Swept
<1>10. ASSUME NEW fails \in SUBSET pairs, CleanupVirtual(fails) PROVE Swept'
  BY <1>10, <1>t DEF CleanupVirtual, Swept, Busy
<1>11. CASE UNCHANGED poVars
  BY <1>11 DEF poVars, tables, ghosts, Swept, Busy
<1>12. QED
  BY <1>1, <1>2, <1>3, <1>4, <1>5, <1>6, <1>7, <1>8, <1>9, <1>10, <1>11 DEF PoNext, BridgeSteps

LEMMA LossStep == LossInv /\ [PoNext]_poVars => LossInv'
BY TypeStep, KeptStep, SweptStep DEF LossInv

\* Every open device has an owner that will close it, and after the cleanup
\* nothing is open, for any clients and any ports (manager.go, OpenSession and
\* CloseSession of the session managers, and cleanup of service.go).
THEOREM NothingIsLostAlways == PoSpec => []NothingIsLost
<1>1. PoInit => LossInv
  <2>1. PoInit => Swept
    BY DEF PoInit, Swept, Busy
  <2>2. QED
    BY <2>1, TypeInit DEF PoInit, LossInv
<1>2. LossInv => NothingIsLost
  <2> SUFFICES ASSUME LossInv, cleaned = 4, ~spanned, closing = {} PROVE held = {} /\ running \subseteq stuck
    BY DEF LossInv, NothingIsLost
  <2>1. Opened = {} /\ Half = {}
    BY DEF LossInv, Swept, Opened, Busy, Half
  <2>2. \A d : ~Knows(d)
    BY <2>1 DEF LossInv, Swept, Knows, Kinds, Sessions
  <2>3. QED
    BY <2>2, OwnedMeans DEF LossInv, Swept
<1>3. QED
  BY <1>1, <1>2, LossStep, PTL DEF PoSpec

-----------------------------------------------------------------------------
(* Names                                                                   *)

LEMMA Stored ==
  ASSUME PoType, NEW c \in Callers, StoreSession(c)
  PROVE  /\ opening[c] \in Under /\ opening[c].kind \in Sessions /\ opening[c].kind \in Kinds
         /\ opening[c].name \in Names /\ opening[c].device \in Device
         /\ ~InUse(opening[c].kind, opening[c].name)
         /\ \A l \in Kinds : l # opening[c].kind => table'[l] = table[l]
         /\ \E f : /\ f.name = opening[c].name /\ f.device = opening[c].device
                   /\ table'[opening[c].kind] = table[opening[c].kind] \cup {f}
         /\ Moves(c, NoCall)
<1> DEFINE f == [name |-> opening[c].name, device |-> opening[c].device]
<1>1. f.name = opening[c].name /\ f.device = opening[c].device
  OBVIOUS
<1>2. table' = [table EXCEPT ![opening[c].kind] = table[opening[c].kind] \cup {f}] /\ opening[c].pc = "opened"
      /\ ~InUse(opening[c].kind, opening[c].name)
  BY DEF StoreSession, Store
<1>3. Moves(c, NoCall)
  BY CallSteps DEF StoreSession
<1> HIDE DEF f
<1>4. opening[c].kind \in Kinds
  BY <1>2, StoredEntry DEF Kinds
<1>5. table'[opening[c].kind] = table[opening[c].kind] \cup {f}
      /\ \A l \in Kinds : l # opening[c].kind => table'[l] = table[l]
  BY <1>2, <1>4 DEF PoType
<1>6. QED
  BY <1>1, <1>2, <1>3, <1>4, <1>5, StoredEntry

LEMMA Handled ==
  ASSUME PoType, NEW c \in Callers, OpenHandle(c)
  PROVE  /\ opening[c] \in Guarded /\ opening[c].name \in Names /\ opening[c].kind = "terminal"
         /\ ~InUse("terminal", opening[c].name)
         /\ \A l \in Kinds : l # "terminal" => table'[l] = table[l]
         /\ \E f : /\ f.name = opening[c].name /\ f.device = <<opening[c].name, "port">>
                   /\ table'["terminal"] = table["terminal"] \cup {f}
         /\ Moves(c, NoCall)
<1>1. opening[c] \in Guarded
  BY CallKinds DEF OpenHandle, Asked, PoType
<1>2. opening[c].name \in Names /\ opening[c].kind = "terminal"
  BY <1>1 DEF Guarded, OpenHandle, Asked
<1> DEFINE f == [name |-> opening[c].name, device |-> <<opening[c].name, "port">>]
<1>f. f.name = opening[c].name /\ f.device = <<opening[c].name, "port">>
  OBVIOUS
<1>3. table' = [table EXCEPT !["terminal"] = table["terminal"] \cup {f}]
  BY DEF OpenHandle
<1>4. ~InUse("terminal", opening[c].name) /\ Moves(c, NoCall)
  BY CallSteps DEF OpenHandle
<1> HIDE DEF f
<1>5. table'["terminal"] = table["terminal"] \cup {f} /\ \A l \in Kinds : l # "terminal" => table'[l] = table[l]
  BY <1>3 DEF PoType, Kinds
<1>6. QED
  BY <1>1, <1>2, <1>f, <1>4, <1>5

\* What steps leave in the tables, but for the two that store.
LEMMA TablesShrink ==
  ASSUME PoType, [PoNext]_poVars,
         \A c \in Callers : ~StoreSession(c) /\ ~OpenHandle(c)
  PROVE  \A k \in Kinds : table'[k] \subseteq table[k]
<1>t. table \in [Kinds -> SUBSET Entries]
  BY DEF PoType
<1>1. ASSUME NEW c \in Callers, Opens(c) PROVE table' = table
  BY <1>1 DEF Opens, Ask, Resolve, OpenHandleFails, CheckTable, OpenDevice, OpenDeviceFails, DropSession, tables
<1>2. ASSUME NEW c \in Callers, NEW k \in Kinds, NEW n \in Names, Begin(c, k, n) PROVE table' = table
  BY <1>2 DEF Begin, tables
<1>3. ASSUME NEW n \in Virtual, CreatePort(n) \/ DeletePair(n) PROVE table' = table
  BY <1>3 DEF CreatePort, DeletePair
<1>4. ASSUME NEW b \in Bridgers, BridgeSteps(b) PROVE table' = table
  BY <1>4, BridgeFrame
<1>5. ASSUME NEW b \in bridges, DeleteBridge(b) PROVE table' = table
  BY <1>5 DEF DeleteBridge
<1>6. ASSUME NEW e \in table["terminal"], CloseHandle(e) PROVE \A k \in Kinds : table'[k] \subseteq table[k]
  BY <1>6, <1>t DEF CloseHandle
<1>7. ASSUME NEW k \in Sessions, NEW e \in table[k], CloseSession(k, e)
      PROVE \A l \in Kinds : table'[l] \subseteq table[l]
  BY <1>7, <1>t DEF CloseSession
<1>8. ASSUME NEW x \in closing, CloseDevice(x) PROVE table' = table
  BY <1>8 DEF CloseDevice, tables
<1>9. ASSUME NEW k \in Kinds, CloseAll(k) PROVE \A l \in Kinds : table'[l] \subseteq table[l]
  BY <1>9, <1>t DEF CloseAll
<1>10. ASSUME NEW fails \in SUBSET pairs, CleanupVirtual(fails) PROVE table' = table
  BY <1>10 DEF CleanupVirtual
<1>11. CASE UNCHANGED poVars
  BY <1>11 DEF poVars, tables
<1>12. QED
  BY <1>1, <1>2, <1>3, <1>4, <1>5, <1>6, <1>7, <1>8, <1>9, <1>10, <1>11 DEF PoNext, BridgeSteps

\* A name is looked for before it is stored.
LEMMA OneNameStep ==
  ASSUME PoType, OneName, [PoNext]_poVars
  PROVE  OneName'
<1>1. ASSUME NEW c \in Callers, OpenHandle(c) PROVE OneName'
  <2>1. PICK f : f.name = opening[c].name /\ table'["terminal"] = table["terminal"] \cup {f}
    BY <1>1, Handled
  <2>2. \A e, g \in table'["terminal"] : e.name = g.name => e = g
    BY <1>1, <2>1, Handled DEF OneName, InUse, Kinds
  <2>3. QED
    BY <1>1, <2>2, Handled DEF OneName
<1>2. ASSUME NEW c \in Callers, StoreSession(c) PROVE OneName'
  <2>1. PICK f : f.name = opening[c].name /\ table'[opening[c].kind] = table[opening[c].kind] \cup {f}
    BY <1>2, Stored
  <2>2. \A e, g \in table'[opening[c].kind] : e.name = g.name => e = g
    BY <1>2, <2>1, Stored DEF OneName, InUse
  <2>3. QED
    BY <1>2, <2>2, Stored DEF OneName
<1>3. QED
  BY <1>1, <1>2, TablesShrink DEF OneName

\* A bridge is made of the devices that were opened for its names.
LEMMA Bridged ==
  ASSUME PoType, NEW b \in Bridgers, OpenSecond(b)
  PROVE  /\ bridging[b] \in Starting /\ b \in Half /\ MovesBridge(b, NoCall)
         /\ \E g : /\ bridges' = bridges \cup {g}
                   /\ g.names = {bridging[b].names[1], bridging[b].names[2]}
                   /\ g.devices = {bridging[b].first, bridging[b].second}
<1> DEFINE g == [names |-> {bridging[b].names[1], bridging[b].names[2]},
                 devices |-> {bridging[b].first, bridging[b].second}]
<1>1. /\ g.names = {bridging[b].names[1], bridging[b].names[2]}
      /\ g.devices = {bridging[b].first, bridging[b].second}
  OBVIOUS
<1>2. bridges' = bridges \cup {g} /\ MovesBridge(b, NoCall) /\ bridging[b].pc = "second"
  BY BridgeCallSteps DEF OpenSecond
<1>3. bridging[b] \in Starting
  BY <1>2, BridgeKinds DEF PoType
<1> HIDE DEF g
<1>4. QED
  BY <1>1, <1>2, <1>3 DEF Half

LEMMA BridgesShrink ==
  ASSUME PoType, [PoNext]_poVars,
         \A b \in Bridgers : ~OpenSecond(b)
  PROVE  bridges' \subseteq bridges
<1>1. ASSUME NEW c \in Callers, Opens(c) PROVE bridges' = bridges
  BY <1>1 DEF Opens, Ask, Resolve, OpenHandle, OpenHandleFails, CheckTable, OpenDevice, OpenDeviceFails,
              StoreSession, DropSession, tables
<1>2. ASSUME NEW c \in Callers, NEW k \in Kinds, NEW n \in Names, Begin(c, k, n) PROVE bridges' = bridges
  BY <1>2 DEF Begin, tables
<1>3. ASSUME NEW b \in Bridgers, BridgeSteps(b) PROVE bridges' = bridges
  BY <1>3 DEF BridgeSteps, OpensBridge, BeginBridge, AskSession, OpenFirst, OpenFirstFails, OpenSecondFails, tables
<1>4. QED
  BY <1>1, <1>2, <1>3 DEF PoNext, BridgeSteps, CreatePort, DeletePair, DeleteBridge, CloseHandle, CloseSession,
                          CloseDevice, CloseAll, CleanupVirtual, poVars, tables

\* Only a bridge call moves a bridge call.
LEMMA BridgingStays ==
  ASSUME [PoNext]_poVars, \A b \in Bridgers : ~BridgeSteps(b)
  PROVE  bridging' = bridging /\ Half' = Half
<1>1. ASSUME NEW c \in Callers, Opens(c) PROVE bridging' = bridging
  BY <1>1 DEF Opens, Ask, Resolve, OpenHandle, OpenHandleFails, CheckTable, OpenDevice, OpenDeviceFails,
              StoreSession, DropSession
<1>2. bridging' = bridging
  BY <1>1 DEF PoNext, BridgeSteps, Begin, CreatePort, DeletePair, DeleteBridge, CloseHandle, CloseSession,
              CloseDevice, CloseAll, CleanupVirtual, poVars
<1>3. QED
  BY <1>2 DEF Half

\* Where a call may have got to: it has been given its device, or has none.
LEMMA UnderStep ==
  ASSUME PoType, [PoNext]_poVars, NEW c \in Callers, opening'[c] \in Under
  PROVE  \/ opening[c] \in Under /\ opening'[c].name = opening[c].name /\ opening'[c].device = opening[c].device
         \/ opening'[c].name \in Names /\ opening'[c].device = EndpointFor(opening'[c].name)
<1> DEFINE Same == opening[c] \in Under /\ opening'[c].name = opening[c].name /\ opening'[c].device = opening[c].device
           Given == opening'[c].name \in Names /\ opening'[c].device = EndpointFor(opening'[c].name)
<1>0. opening'[c].pc \in {"table", "open", "opened"}
  BY CallKinds
<1>1. ASSUME NEW d \in Callers, NEW x, Moves(d, x), x.pc \notin {"table", "open", "opened"} PROVE Same
  <2>1. d # c
    BY <1>1, <1>0, MoveCall
  <2>2. QED
    BY <1>1, <2>1, MoveCall
<1>2. ASSUME NEW d \in Callers, NEW x, Moves(d, x), opening[d] \in Under, x.name = opening[d].name, x.device = opening[d].device
      PROVE Same
  <2>1. opening'[d] = x /\ (d # c => opening'[c] = opening[c])
    BY <1>2, MoveCall
  <2>2. QED
    BY <1>2, <2>1
<1>3. ASSUME NEW d \in Callers, Opens(d) PROVE Same \/ Given
  <2>1. CASE Return(d)
    BY <2>1, <1>1, CallSteps, CallKinds
  <2>2. CASE Ask(d) /\ ~Return(d)
    <3>1. opening[d] \in Guarded
      BY <2>2, CallKinds DEF Ask, PoType
    <3> DEFINE x == [opening[d] EXCEPT !.ask = Tail(opening[d].ask)]
    <3>2. x.pc = "ask" /\ Moves(d, x)
      BY <2>2, <3>1, CallSteps DEF Guarded
    <3> HIDE DEF x
    <3>3. QED
      BY <3>2, <1>1
  <2>3. CASE Resolve(d)
    <3> DEFINE x == [pc |-> "table", kind |-> opening[d].kind, name |-> opening[d].name,
                     device |-> EndpointFor(opening[d].name)]
    <3>1. x.name \in Names /\ x.device = EndpointFor(x.name) /\ Moves(d, x)
      BY <2>3, CallSteps
    <3> HIDE DEF x
    <3>2. opening'[d] = x /\ (d # c => opening'[c] = opening[c])
      BY <3>1, MoveCall
    <3>3. QED
      BY <3>1, <3>2
  <2>4. CASE (CheckTable(d) /\ ~Return(d)) \/ OpenDevice(d)
    <3>1. opening[d] \in Under
      BY <2>4, CallKinds DEF CheckTable, OpenDevice, PoType
    <3>2. PICK x : /\ Moves(d, x) /\ x.name = opening[d].name /\ x.device = opening[d].device
      <4>1. CASE CheckTable(d) /\ ~Return(d)
        <5> DEFINE x == [opening[d] EXCEPT !.pc = "open"]
        <5>1. x.name = opening[d].name /\ x.device = opening[d].device /\ Moves(d, x)
          BY <4>1, <3>1, CallSteps DEF Under
        <5> HIDE DEF x
        <5>2. QED
          BY <5>1
      <4>2. CASE OpenDevice(d)
        <5> DEFINE x == [opening[d] EXCEPT !.pc = "opened"]
        <5>1. x.name = opening[d].name /\ x.device = opening[d].device /\ Moves(d, x)
          BY <4>2, <3>1, CallSteps DEF Under
        <5> HIDE DEF x
        <5>2. QED
          BY <5>1
      <4>3. QED
        BY <4>1, <4>2, <2>4
    <3>3. QED
      BY <3>1, <3>2, <1>2
  <2>5. QED
    BY <1>3, <2>1, <2>2, <2>3, <2>4
    DEF Opens, OpenHandle, OpenHandleFails, OpenDeviceFails, StoreSession, DropSession
<1>4. ASSUME NEW d \in Callers, NEW k \in Kinds, NEW n \in Names, Begin(d, k, n) PROVE Same \/ Given
  <2> DEFINE x == [pc |-> "ask", kind |-> k, name |-> n, ask |-> Guards[k]]
  <2>1. Moves(d, x) /\ x.pc = "ask"
    BY <1>4, CallSteps
  <2> HIDE DEF x
  <2>2. QED
    BY <2>1, <1>1
<1>5. CASE opening' = opening
  BY <1>5
<1>6. QED
  BY <1>3, <1>4, <1>5, BridgeFrame
  DEF PoNext, BridgeSteps, CreatePort, DeletePair, DeleteBridge, CloseHandle, CloseSession,
      CloseDevice, CloseAll, CleanupVirtual, poVars

\* A port is opened by its name, or a virtual one by its peer.
LEMMA NamedStep ==
  ASSUME PoType, Named, [PoNext]_poVars
  PROVE  Named'
<1>1. /\ \A k \in Kinds : \A e \in table'[k] : DeviceOf(e.name, e.device)
      /\ \A e \in table'["terminal"] : e.device = <<e.name, "port">>
  <2>1. ASSUME NEW c \in Callers, OpenHandle(c)
        PROVE  /\ \A k \in Kinds : \A e \in table'[k] : DeviceOf(e.name, e.device)
               /\ \A e \in table'["terminal"] : e.device = <<e.name, "port">>
    <3>1. PICK f : f.name = opening[c].name /\ f.device = <<opening[c].name, "port">>
                   /\ table'["terminal"] = table["terminal"] \cup {f}
      BY <2>1, Handled
    <3>2. QED
      BY <2>1, <3>1, Handled DEF Named, DeviceOf
  <2>2. ASSUME NEW c \in Callers, StoreSession(c)
        PROVE  /\ \A k \in Kinds : \A e \in table'[k] : DeviceOf(e.name, e.device)
               /\ \A e \in table'["terminal"] : e.device = <<e.name, "port">>
    <3>1. PICK f : f.name = opening[c].name /\ f.device = opening[c].device
                   /\ table'[opening[c].kind] = table[opening[c].kind] \cup {f}
      BY <2>2, Stored
    <3>2. DeviceOf(opening[c].name, opening[c].device) /\ opening[c].kind # "terminal"
      BY <2>2, Stored DEF Named, Sessions
    <3>3. QED
      BY <2>2, <3>1, <3>2, Stored DEF Named, Kinds
  <2>3. CASE \A c \in Callers : ~OpenHandle(c) /\ ~StoreSession(c)
    BY <2>3, TablesShrink DEF Named, Kinds
  <2>4. QED
    BY <2>1, <2>2, <2>3
<1>2. \A b \in bridges' : \A n \in b.names \ Virtual : <<n, "port">> \in b.devices
  <2>1. ASSUME NEW b \in Bridgers, OpenSecond(b)
        PROVE  \A a \in bridges' : \A x \in a.names \ Virtual : <<x, "port">> \in a.devices
    <3>1. PICK g : /\ bridges' = bridges \cup {g}
                   /\ g.names = {bridging[b].names[1], bridging[b].names[2]}
                   /\ g.devices = {bridging[b].first, bridging[b].second}
      BY <2>1, Bridged
    <3>2. \A x \in g.names \ Virtual : <<x, "port">> \in g.devices
      BY <2>1, <3>1, Bridged DEF Named
    <3>3. QED
      BY <3>1, <3>2 DEF Named
  <2>2. QED
    BY <2>1, BridgesShrink DEF Named
<1>b. ASSUME NEW b \in Half'
      PROVE  /\ bridging'[b].names[1] \notin Virtual => bridging'[b].first = <<bridging'[b].names[1], "port">>
             /\ bridging'[b].names[2] \notin Virtual => bridging'[b].second = <<bridging'[b].names[2], "port">>
  <2>0. b \in Bridgers /\ bridging'[b].pc = "second"
    BY <1>b DEF Half
  <2>1. CASE bridging'[b] = bridging[b]
    BY <1>b, <2>1 DEF Named, Half
  <2>2. CASE OpenFirst(b)
    <3> DEFINE x == [pc |-> "second", names |-> bridging[b].names, first |-> EndpointFor(bridging[b].names[1]),
                     second |-> EndpointFor(bridging[b].names[2])]
    <3>1. x.names = bridging[b].names /\ x.first = EndpointFor(bridging[b].names[1])
          /\ x.second = EndpointFor(bridging[b].names[2]) /\ MovesBridge(b, x)
      BY <2>0, <2>2, BridgeCallSteps
    <3> HIDE DEF x
    <3>2. bridging'[b] = x
      BY <2>0, <3>1, MoveBridge
    <3>3. \A y : y \notin Virtual => EndpointFor(y) = <<y, "port">>
      BY DEF EndpointFor, PoType
    <3>4. QED
      BY <3>1, <3>2, <3>3
  <2>3. CASE BridgeSteps(b) /\ ~OpenFirst(b)
    <3>1. \A n, m \in Names : ~BeginBridge(b, n, m)
      <4>1. ASSUME NEW n \in Names, NEW m \in Names, BeginBridge(b, n, m) PROVE FALSE
        <5>1. [pc |-> "ask", names |-> <<n, m>>, ask |-> BridgeGuards(n, m)].pc = "ask"
          OBVIOUS
        <5>2. QED
          BY <2>0, <4>1, <5>1, BridgeCallSteps, MoveBridge
      <4>2. QED
        BY <4>1
    <3>2. ~ReturnBridge(b)
      BY <2>0, BridgeCallSteps, MoveBridge, CallKinds
    <3>3. ~AskSession(b)
      <4>1. ASSUME AskSession(b) PROVE FALSE
        <5>1. bridging[b] \in AskingBridge
              /\ MovesBridge(b, [bridging[b] EXCEPT !.ask = Tail(bridging[b].ask)])
          BY <2>0, <3>2, <4>1, BridgeCallSteps
        <5>2. [bridging[b] EXCEPT !.ask = Tail(bridging[b].ask)].pc = "ask"
          BY <5>1 DEF AskingBridge
        <5>3. QED
          BY <2>0, <5>1, <5>2, MoveBridge
      <4>2. QED
        BY <4>1
    <3>4. QED
      BY <2>3, <3>1, <3>2, <3>3 DEF BridgeSteps, OpensBridge, OpenFirstFails, OpenSecond, OpenSecondFails
  <2>4. CASE \E a \in Bridgers \ {b} : BridgeSteps(a)
    <3>1. bridging'[b] = bridging[b]
      BY <2>0, <2>4 DEF BridgeSteps, OpensBridge, BeginBridge, AskSession, OpenFirst, OpenFirstFails, OpenSecond,
                  OpenSecondFails, ReturnBridge, PoType
    <3>2. QED
      BY <3>1, <2>1
  <2>5. QED
    BY <2>0, <2>1, <2>2, <2>3, <2>4, BridgingStays
<1>3. ASSUME NEW c \in Callers, opening'[c] \in Under PROVE DeviceOf(opening'[c].name, opening'[c].device)
  BY <1>3, UnderStep, EndpointNamed DEF Named
<1>4. QED
  BY <1>1, <1>2, <1>b, <1>3 DEF Named, DeviceOf, Under

-----------------------------------------------------------------------------
(* What is open has one owner.                                             *)

\* The calls that have a device open still have it, and no other has.
SameOpened ==
    \A c \in Callers : (c \in Opened' <=> c \in Opened) /\ (c \in Opened => opening'[c].device = opening[c].device)

LEMMA OpenedStep ==
  ASSUME PoType, [PoNext]_poVars,
         \A c \in Callers : ~OpenDevice(c) /\ ~StoreSession(c) /\ ~DropSession(c)
  PROVE  SameOpened
<1>1. ASSUME NEW c \in Callers, NEW x, Moves(c, x), x.pc # "opened", opening[c].pc # "opened" PROVE SameOpened
  BY <1>1, OpenedStays DEF Opened, SameOpened
<1>2. ASSUME NEW c \in Callers, Opens(c) PROVE SameOpened
  <2>1. CASE Ask(c)
    <3>1. opening[c] \in Guarded
      BY <2>1, CallKinds DEF Ask, PoType
    <3> DEFINE x == [opening[c] EXCEPT !.ask = Tail(opening[c].ask)]
    <3>2. x.pc = "ask" /\ (Moves(c, x) \/ Return(c))
      BY <2>1, <3>1, CallSteps DEF Guarded
    <3> HIDE DEF x
    <3>3. QED
      BY <2>1, <3>2, <1>1, CallSteps, CallKinds DEF Ask
  <2>2. CASE Resolve(c)
    <3> DEFINE x == [pc |-> "table", kind |-> opening[c].kind, name |-> opening[c].name,
                     device |-> EndpointFor(opening[c].name)]
    <3>1. x.pc = "table" /\ Moves(c, x)
      BY <2>2, CallSteps
    <3> HIDE DEF x
    <3>2. QED
      BY <2>2, <3>1, <1>1 DEF Resolve, Asked
  <2>3. CASE CheckTable(c)
    <3>1. opening[c] \in Under
      BY <2>3, CallKinds DEF CheckTable, PoType
    <3> DEFINE x == [opening[c] EXCEPT !.pc = "open"]
    <3>2. x.pc = "open" /\ (Moves(c, x) \/ Return(c))
      BY <2>3, <3>1, CallSteps DEF Under
    <3> HIDE DEF x
    <3>3. QED
      BY <2>3, <3>2, <1>1, CallSteps, CallKinds DEF CheckTable
  <2>4. CASE OpenHandle(c) \/ OpenHandleFails(c) \/ OpenDeviceFails(c)
    BY <2>4, <1>1, CallSteps, CallKinds DEF OpenHandle, OpenHandleFails, OpenDeviceFails, Asked
  <2>5. QED
    BY <1>2, <2>1, <2>2, <2>3, <2>4 DEF Opens
<1>3. ASSUME NEW c \in Callers, NEW k \in Kinds, NEW n \in Names, Begin(c, k, n) PROVE SameOpened
  <2> DEFINE x == [pc |-> "ask", kind |-> k, name |-> n, ask |-> Guards[k]]
  <2>1. Moves(c, x) /\ x.pc = "ask"
    BY <1>3, CallSteps
  <2> HIDE DEF x
  <2>2. QED
    BY <1>3, <2>1, <1>1 DEF Begin, Busy
<1>4. CASE opening' = opening
  BY <1>4 DEF SameOpened, Opened
<1>5. QED
  BY <1>2, <1>3, <1>4, BridgeFrame
  DEF PoNext, BridgeSteps, CreatePort, DeletePair, DeleteBridge, CloseHandle, CloseSession,
      CloseDevice, CloseAll, CleanupVirtual, poVars

\* A call opens a device, or ends with one that it had open.
LEMMA OpenedByCall ==
  ASSUME PoType, NEW c \in Callers
  PROVE  /\ OpenDevice(c) => /\ c \in Opened' /\ opening'[c].device = opening[c].device
                             /\ \A d \in Callers : d # c => (d \in Opened' <=> d \in Opened)
                             /\ \A d \in Opened : opening'[d].device = opening[d].device
         /\ StoreSession(c) \/ DropSession(c) =>
                /\ c \in Opened /\ Opened' = Opened \ {c}
                /\ \A d \in Opened' : opening'[d].device = opening[d].device
<1>1. ASSUME OpenDevice(c)
      PROVE  /\ c \in Opened' /\ opening'[c].device = opening[c].device
             /\ \A d \in Callers : d # c => (d \in Opened' <=> d \in Opened)
             /\ \A d \in Opened : opening'[d].device = opening[d].device
  <2>1. opening[c] \in Under /\ opening[c].pc = "open"
    BY <1>1, CallKinds DEF OpenDevice, PoType
  <2> DEFINE x == [opening[c] EXCEPT !.pc = "opened"]
  <2>2. x.pc = "opened" /\ x.device = opening[c].device /\ Moves(c, x)
    BY <1>1, <2>1, CallSteps DEF Under
  <2> HIDE DEF x
  <2>3. QED
    BY <2>1, <2>2, OpenedStays DEF Opened
<1>2. ASSUME StoreSession(c) \/ DropSession(c)
      PROVE  /\ c \in Opened /\ Opened' = Opened \ {c}
             /\ \A d \in Opened' : opening'[d].device = opening[d].device
  <2>1. Moves(c, NoCall) /\ c \in Opened
    BY <1>2, CallSteps DEF StoreSession, DropSession, Opened
  <2>2. \A d \in Callers : d \in Opened' <=> d \in Opened /\ d # c
    BY <2>1, OpenedStays, CallKinds
  <2>3. QED
    BY <2>1, <2>2, OpenedStays DEF Opened
<1>3. QED
  BY <1>1, <1>2

\* When owners go, and what is left to the others stays open, all is as before.
LEMMA ExclusiveShrinks ==
  ASSUME Exclusive,
         \A k \in Kinds : \A e \in table'[k] : e \in table[k] /\ e.device \in held',
         \A b \in bridges' : b \in bridges /\ b.devices \subseteq held',
         \A x \in closing' : x \in closing /\ x.device \in held',
         \A c \in Opened' : c \in Opened /\ opening'[c].device = opening[c].device /\ opening[c].device \in held',
         \A b \in Half' : b \in Half /\ bridging'[b].first = bridging[b].first /\ bridging[b].first \in held'
  PROVE  Exclusive'
<1>1. /\ \A k \in Kinds : \A e \in table'[k] : e.device \in held'
      /\ \A b \in bridges' : b.devices \subseteq held'
      /\ \A x \in closing' : x.device \in held'
      /\ \A c \in Opened' : opening'[c].device \in held'
  OBVIOUS
<1>2. \A k, l \in Kinds : \A e \in table'[k], f \in table'[l] : e.device = f.device => k = l /\ e = f
  BY DEF Exclusive
<1>3. \A k \in Kinds : \A e \in table'[k] :
        /\ \A b \in bridges' : e.device \notin b.devices
        /\ \A x \in closing' : e.device # x.device
        /\ \A c \in Opened' : e.device # opening'[c].device
  BY DEF Exclusive
<1>4. \A b \in bridges' :
        /\ \A a \in bridges' : a = b \/ a.devices \cap b.devices = {}
        /\ \A x \in closing' : x.device \notin b.devices
        /\ \A c \in Opened' : opening'[c].device \notin b.devices
  BY DEF Exclusive
<1>5. \A x, y \in closing' : x.device = y.device => x = y
  BY DEF Exclusive
<1>6. \A x \in closing' : \A c \in Opened' : x.device # opening'[c].device
  BY DEF Exclusive
<1>7. \A c, d \in Opened' : opening'[c].device = opening'[d].device => c = d
  BY DEF Exclusive
<1>8. \A b \in Half' :
        /\ bridging'[b].first \in held'
        /\ \A k \in Kinds : \A e \in table'[k] : e.device # bridging'[b].first
        /\ \A a \in bridges' : bridging'[b].first \notin a.devices
        /\ \A x \in closing' : x.device # bridging'[b].first
        /\ \A c \in Opened' : opening'[c].device # bridging'[b].first
        /\ \A a \in Half' : a = b
  BY DEF Exclusive
<1>9. QED
  BY <1>1, <1>2, <1>3, <1>4, <1>5, <1>6, <1>7, <1>8 DEF Exclusive

\* What is opened was not open.
LEMMA OpeningExclusive ==
  ASSUME PoType, Exclusive, [PoNext]_poVars
  PROVE  /\ \A c \in Callers : OpenHandle(c) \/ OpenDevice(c) \/ StoreSession(c) => Exclusive'
         /\ \A b \in Bridgers : OpenFirst(b) \/ OpenSecond(b) => Exclusive'
<1>h. ASSUME NEW c \in Callers, OpenHandle(c) \/ OpenDevice(c) \/ StoreSession(c)
      PROVE  Half' = Half /\ bridging' = bridging
  BY <1>h DEF OpenHandle, OpenDevice, StoreSession, Half
<1>1. ASSUME NEW c \in Callers, OpenHandle(c) PROVE Exclusive'
  <2>1. PICK f : f.device = <<opening[c].name, "port">> /\ table'["terminal"] = table["terminal"] \cup {f}
    BY <1>1, Handled
  <2>2. f.device \notin held /\ held' = held \cup {f.device} /\ bridges' = bridges /\ closing' = closing
    BY <1>1, <2>1 DEF OpenHandle, CanOpen
  <2>3. \A l \in Kinds : l # "terminal" => table'[l] = table[l]
    BY <1>1, Handled
  <2>4. SameOpened
    <3>1. Moves(c, NoCall) /\ opening[c].pc = "ask" /\ NoCall.pc # "opened"
      BY <1>1, Handled, CallKinds DEF OpenHandle, Asked
    <3>2. QED
      BY <3>1, OpenedStays DEF SameOpened, Opened
  <2>5. QED
    BY <1>1, <1>h, <2>1, <2>2, <2>3, <2>4 DEF Exclusive, SameOpened, Opened, Half
<1>2. ASSUME NEW c \in Callers, OpenDevice(c) PROVE Exclusive'
  <2>1. opening[c].device \notin held /\ held' = held \cup {opening[c].device}
        /\ table' = table /\ bridges' = bridges /\ closing' = closing
    BY <1>2 DEF OpenDevice, CanOpen, tables
  <2>2. QED
    BY <1>2, <1>h, <2>1, OpenedByCall DEF Exclusive, Opened, Half
<1>3. ASSUME NEW c \in Callers, StoreSession(c) PROVE Exclusive'
  <2>1. PICK f : f.device = opening[c].device /\ table'[opening[c].kind] = table[opening[c].kind] \cup {f}
    BY <1>3, Stored
  <2>2. held' = held /\ bridges' = bridges /\ closing' = closing
    BY <1>3 DEF StoreSession
  <2>3. opening[c].kind \in Kinds /\ \A l \in Kinds : l # opening[c].kind => table'[l] = table[l]
    BY <1>3, Stored
  <2>4. c \in Opened /\ Opened' = Opened \ {c} /\ \A d \in Opened' : opening'[d].device = opening[d].device
    BY <1>3, OpenedByCall
  <2>5. \A b \in Half' :
            /\ bridging'[b].first \in held'
            /\ \A k \in Kinds : \A e \in table'[k] : e.device # bridging'[b].first
            /\ \A a \in bridges' : bridging'[b].first \notin a.devices
            /\ \A x \in closing' : x.device # bridging'[b].first
            /\ \A d \in Opened' : opening'[d].device # bridging'[b].first
            /\ \A a \in Half' : a = b
    BY <1>3, <1>h, <2>1, <2>2, <2>3, <2>4 DEF Exclusive
  <2>6. /\ \A k \in Kinds : \A e \in table'[k] : e.device \in held'
        /\ \A k, l \in Kinds : \A e \in table'[k], g \in table'[l] : e.device = g.device => k = l /\ e = g
    BY <2>1, <2>2, <2>3, <2>4 DEF Exclusive
  <2>7. \A k \in Kinds : \A e \in table'[k] :
            /\ \A b \in bridges' : e.device \notin b.devices
            /\ \A x \in closing' : e.device # x.device
            /\ \A d \in Opened' : e.device # opening'[d].device
    BY <2>1, <2>2, <2>3, <2>4 DEF Exclusive
  <2>8. QED
    BY <2>2, <2>4, <2>5, <2>6, <2>7 DEF Exclusive
<1>4. ASSUME NEW b \in Bridgers, OpenFirst(b) PROVE Exclusive'
  <2> DEFINE x == [pc |-> "second", names |-> bridging[b].names, first |-> EndpointFor(bridging[b].names[1]),
                   second |-> EndpointFor(bridging[b].names[2])]
             d == EndpointFor(bridging[b].names[1])
  <2>1. x.pc = "second" /\ x.first = d /\ MovesBridge(b, x)
    BY <1>4, BridgeCallSteps
  <2>2. d \notin held /\ held' = held \cup {d} /\ UNCHANGED <<table, bridges, closing, opening>>
    BY <1>4 DEF OpenFirst, CanOpen, tables
  <2> HIDE DEF x, d
  <2>3. Half = {} /\ Half' = {b} /\ bridging'[b].first = d
    BY <1>4, <2>1, MoveBridge DEF Half, OpenFirst, LockFree
  <2>4. Opened' = Opened
    BY <2>2 DEF Opened
  <2>5. QED
    BY <2>2, <2>3, <2>4 DEF Exclusive
<1>5. ASSUME NEW b \in Bridgers, OpenSecond(b) PROVE Exclusive'
  <2> DEFINE f == bridging[b].first
             d == bridging[b].second
  <2>1. PICK g : bridges' = bridges \cup {g} /\ g.devices = {f, d}
    BY <1>5, Bridged
  <2>2. d \notin held /\ held' = held \cup {d} /\ UNCHANGED <<table, closing, opening>>
    BY <1>5 DEF OpenSecond, CanOpen
  <2>3. b \in Half /\ Half' = {}
    <3>1. b \in Half /\ bridging'[b].pc = "idle" /\ \A a \in Bridgers : a # b => bridging'[a] = bridging[a]
      BY <1>5, Bridged, MoveBridge, CallKinds
    <3>2. QED
      BY <3>1 DEF Half, Exclusive
  <2>4. Opened' = Opened
    BY <2>2 DEF Opened
  <2>5. f \in held
    BY <2>3 DEF Exclusive
  <2> HIDE DEF d
  <2>6. QED
    BY <2>1, <2>2, <2>3, <2>4, <2>5 DEF Exclusive
<1>6. QED
  BY <1>1, <1>2, <1>3, <1>4, <1>5

\* What is closed leaves its owner, and no other had it.
LEMMA ClosingExclusive ==
  ASSUME PoType, Exclusive, [PoNext]_poVars
  PROVE  /\ \A c \in Callers : DropSession(c) => Exclusive'
         /\ \A b \in Bridgers : OpenSecondFails(b) => Exclusive'
         /\ \A b \in bridges : DeleteBridge(b) => Exclusive'
         /\ \A e \in table["terminal"] : CloseHandle(e) => Exclusive'
         /\ \A k \in Sessions : \A e \in table[k] : CloseSession(k, e) => Exclusive'
         /\ \A x \in closing : CloseDevice(x) => Exclusive'
         /\ \A k \in Kinds : CloseAll(k) => Exclusive'
         /\ \A fails \in SUBSET pairs : CleanupVirtual(fails) => Exclusive'
<1>t. table \in [Kinds -> SUBSET Entries]
  BY DEF PoType
<1>o. (opening' = opening => Opened' = Opened) /\ (bridging' = bridging => Half' = Half)
  BY DEF Opened, Half
<1>1. ASSUME NEW c \in Callers, DropSession(c) PROVE Exclusive'
  <2>1. c \in Opened /\ Opened' = Opened \ {c} /\ \A d \in Opened' : opening'[d].device = opening[d].device
    BY <1>1, OpenedByCall
  <2>2. held' = held \ {opening[c].device} /\ table' = table /\ bridges' = bridges /\ closing' = closing
        /\ bridging' = bridging
    BY <1>1 DEF DropSession, tables
  <2>3. QED
    BY <1>o, <2>1, <2>2, ExclusiveShrinks DEF Exclusive
<1>2. ASSUME NEW b \in bridges, DeleteBridge(b) PROVE Exclusive'
  <2>1. held' = held \ b.devices /\ table' = table /\ bridges' = bridges \ {b} /\ closing' = closing /\ opening' = opening
        /\ bridging' = bridging
    BY <1>2 DEF DeleteBridge
  <2>2. QED
    BY <1>o, <2>1, ExclusiveShrinks DEF Exclusive
<1>3. ASSUME NEW e \in table["terminal"], CloseHandle(e) PROVE Exclusive'
  <2>1. held' = held \ {e.device} /\ bridges' = bridges /\ closing' = closing /\ opening' = opening
        /\ bridging' = bridging
    BY <1>3 DEF CloseHandle
  <2>2. table'["terminal"] = table["terminal"] \ {e} /\ \A k \in Kinds : k # "terminal" => table'[k] = table[k]
    BY <1>3, <1>t DEF CloseHandle, Kinds
  <2>3. QED
    BY <1>o, <2>1, <2>2, ExclusiveShrinks DEF Exclusive, Kinds
<1>4. ASSUME NEW k \in Sessions, NEW e \in table[k], CloseSession(k, e) PROVE Exclusive'
  <2> DEFINE x == [device |-> e.device, by |-> "client"]
  <2>1. x.device = e.device /\ closing' = closing \cup {x}
    BY <1>4 DEF CloseSession
  <2> HIDE DEF x
  <2>2. held' = held /\ bridges' = bridges /\ opening' = opening /\ bridging' = bridging
    BY <1>4 DEF CloseSession
  <2>3. k \in Kinds /\ table'[k] = table[k] \ {e} /\ \A l \in Kinds : l # k => table'[l] = table[l]
    BY <1>4, <1>t DEF CloseSession, Kinds
  <2>4. QED
    BY <1>o, <2>1, <2>2, <2>3 DEF Exclusive
<1>5. ASSUME NEW x \in closing, CloseDevice(x) PROVE Exclusive'
  <2>1. held' = held \ {x.device} /\ table' = table /\ bridges' = bridges /\ closing' = closing \ {x} /\ opening' = opening
        /\ bridging' = bridging
    BY <1>5 DEF CloseDevice, tables
  <2>2. QED
    BY <1>o, <2>1, ExclusiveShrinks DEF Exclusive
<1>6. ASSUME NEW k \in Kinds, CloseAll(k) PROVE Exclusive'
  <2>1. held' = held /\ bridges' = bridges /\ opening' = opening /\ bridging' = bridging
    BY <1>6 DEF CloseAll
  <2>2. table'[k] = {} /\ \A l \in Kinds : l # k => table'[l] = table[l]
    BY <1>6, <1>t DEF CloseAll
  <2>3. \A x \in closing' : x \in closing \/ \E e \in table[k] : x.device = e.device
    <3>1. ASSUME NEW e \in table[k] PROVE [device |-> e.device, by |-> "cleanup"].device = e.device
      OBVIOUS
    <3>2. \A x \in closing' : x \in closing \/ \E e \in table[k] : x = [device |-> e.device, by |-> "cleanup"]
      BY <1>6 DEF CloseAll
    <3>3. QED
      BY <3>1, <3>2
  <2>4. \A x \in closing' : x \in closing \/ x = [device |-> x.device, by |-> "cleanup"]
    BY <1>6 DEF CloseAll
  <2>5. \A x, y \in closing' : x.device = y.device => x = y
    <3> SUFFICES ASSUME NEW x \in closing', NEW y \in closing', x.device = y.device PROVE x = y
      OBVIOUS
    <3>1. CASE x \in closing /\ y \in closing
      BY <3>1 DEF Exclusive
    <3>2. CASE x \notin closing /\ y \notin closing
      BY <3>2, <2>4
    <3>3. ~(x \in closing /\ y \notin closing) /\ ~(x \notin closing /\ y \in closing)
      BY <2>3 DEF Exclusive
    <3>4. QED
      BY <3>1, <3>2, <3>3
  <2>6. QED
    BY <1>o, <2>1, <2>2, <2>3, <2>5 DEF Exclusive
<1>7. ASSUME NEW fails \in SUBSET pairs, CleanupVirtual(fails) PROVE Exclusive'
  <2>1. held' = held \ UNION {b.devices : b \in bridges} /\ table' = table /\ bridges' = {} /\ closing' = closing
        /\ opening' = opening /\ bridging' = bridging
    BY <1>7 DEF CleanupVirtual
  <2>2. QED
    BY <1>o, <2>1, ExclusiveShrinks DEF Exclusive
<1>8. ASSUME NEW b \in Bridgers, OpenSecondFails(b) PROVE Exclusive'
  <2>1. held' = held \ {bridging[b].first} /\ UNCHANGED <<table, bridges, closing, opening>>
    BY <1>8 DEF OpenSecondFails, tables
  <2>2. b \in Half /\ Half' = {}
    <3>1. b \in Half /\ bridging'[b].pc = "idle" /\ \A a \in Bridgers : a # b => bridging'[a] = bridging[a]
      BY <1>8, BridgeCallSteps, MoveBridge, CallKinds DEF OpenSecondFails, Half
    <3>2. QED
      BY <3>1 DEF Half, Exclusive
  <2>3. QED
    BY <1>o, <2>1, <2>2, ExclusiveShrinks DEF Exclusive
<1>9. QED
  BY <1>1, <1>2, <1>3, <1>4, <1>5, <1>6, <1>7, <1>8

LEMMA ExclusiveStep ==
  ASSUME PoType, Exclusive, [PoNext]_poVars
  PROVE  Exclusive'
<1>1. ASSUME SameOpened, table' = table, bridges' = bridges, closing' = closing, held' = held,
             \A b \in Half' : b \in Half /\ bridging'[b].first = bridging[b].first
      PROVE  Exclusive'
  BY <1>1, ExclusiveShrinks DEF Exclusive, SameOpened, Opened
<1>h. bridging' = bridging => \A b \in Half' : b \in Half /\ bridging'[b].first = bridging[b].first
  BY DEF Half
<1>2. ASSUME NEW c \in Callers, Opens(c) PROVE Exclusive'
  <2>1. CASE OpenHandle(c) \/ OpenDevice(c) \/ StoreSession(c) \/ DropSession(c)
    BY <2>1, OpeningExclusive, ClosingExclusive
  <2>2. CASE Ask(c) \/ Resolve(c) \/ CheckTable(c) \/ OpenHandleFails(c) \/ OpenDeviceFails(c)
    <3>1. table' = table /\ bridges' = bridges /\ closing' = closing /\ held' = held /\ bridging' = bridging
      BY <2>2 DEF Ask, Resolve, CheckTable, OpenHandleFails, OpenDeviceFails, tables
    <3>2. CASE \A d \in Callers : ~OpenDevice(d) /\ ~StoreSession(d) /\ ~DropSession(d)
      BY <3>1, <3>2, <1>1, <1>h, OpenedStep
    <3>3. QED
      BY <3>2, OpeningExclusive, ClosingExclusive
  <2>3. QED
    BY <1>2, <2>1, <2>2 DEF Opens
<1>3. ASSUME NEW c \in Callers, NEW k \in Kinds, NEW n \in Names, Begin(c, k, n) PROVE Exclusive'
  <2>1. table' = table /\ bridges' = bridges /\ closing' = closing /\ held' = held /\ bridging' = bridging
    BY <1>3 DEF Begin, tables
  <2>2. CASE \A d \in Callers : ~OpenDevice(d) /\ ~StoreSession(d) /\ ~DropSession(d)
    BY <2>1, <2>2, <1>1, <1>h, OpenedStep
  <2>3. QED
    BY <2>2, OpeningExclusive, ClosingExclusive
<1>4. ASSUME NEW n \in Virtual, CreatePort(n) \/ DeletePair(n) PROVE Exclusive'
  <2>1. table' = table /\ bridges' = bridges /\ closing' = closing /\ held' = held /\ opening' = opening
        /\ bridging' = bridging
    BY <1>4 DEF CreatePort, DeletePair
  <2>2. SameOpened
    BY <2>1 DEF SameOpened, Opened
  <2>3. QED
    BY <2>1, <2>2, <1>1, <1>h
<1>5. CASE UNCHANGED poVars
  BY <1>5, <1>1, <1>h DEF poVars, tables, SameOpened, Opened
<1>6. ASSUME NEW b \in Bridgers, BridgeSteps(b) PROVE Exclusive'
  <2>1. CASE OpenFirst(b) \/ OpenSecond(b) \/ OpenSecondFails(b)
    BY <2>1, OpeningExclusive, ClosingExclusive
  <2>2. CASE AskSession(b) \/ OpenFirstFails(b) \/ \E n, m \in Names : BeginBridge(b, n, m)
    <3>1. bridges' = bridges /\ held' = held /\ table' = table /\ closing' = closing /\ opening' = opening
      BY <1>6, <2>2, BridgeFrame DEF AskSession, OpenFirstFails, BeginBridge, tables
    <3>2. SameOpened
      BY <3>1 DEF SameOpened, Opened
    <3>3. PICK x : MovesBridge(b, x) /\ x.pc # "second"
      <4>1. CASE ReturnBridge(b)
        BY <4>1, BridgeCallSteps, CallKinds
      <4>2. CASE AskSession(b) /\ ~ReturnBridge(b)
        <5> DEFINE x == [bridging[b] EXCEPT !.ask = Tail(bridging[b].ask)]
        <5>1. MovesBridge(b, x) /\ x.pc = "ask"
          BY <4>2, BridgeCallSteps DEF AskingBridge
        <5> HIDE DEF x
        <5>2. QED
          BY <5>1
      <4>3. ASSUME NEW n \in Names, NEW m \in Names, BeginBridge(b, n, m) PROVE \E x : MovesBridge(b, x) /\ x.pc # "second"
        <5> DEFINE x == [pc |-> "ask", names |-> <<n, m>>, ask |-> BridgeGuards(n, m)]
        <5>1. MovesBridge(b, x) /\ x.pc = "ask"
          BY <4>3, BridgeCallSteps
        <5> HIDE DEF x
        <5>2. QED
          BY <5>1
      <4>4. QED
        BY <2>2, <4>1, <4>2, <4>3 DEF OpenFirstFails
    <3>4. \A a \in Half' : a \in Half /\ bridging'[a].first = bridging[a].first
      BY <3>3, MoveBridge DEF Half
    <3>5. QED
      BY <3>1, <3>2, <3>4, <1>1
  <2>3. QED
    BY <1>6, <2>1, <2>2 DEF BridgeSteps, OpensBridge
<1>7. QED
  BY <1>2, <1>3, <1>4, <1>5, <1>6, OpeningExclusive, ClosingExclusive DEF PoNext, BridgeSteps

-----------------------------------------------------------------------------
(* What a call was told stays so.                                          *)

\* A call that goes on is for the same name; what it has still to ask, it had
\* to ask before or has asked just now.
LEMMA CallGoesOn ==
  ASSUME PoType, [PoNext]_poVars, NEW c \in Callers, Busy(c)', Busy(c)
  PROVE  /\ opening'[c].name = opening[c].name /\ opening'[c].kind = opening[c].kind
         /\ \A g : ToAsk(c, g) /\ ~ToAsk(c, g)' =>
                IF g = "bridge" THEN ~BridgeInUse(opening[c].name) /\ UNCHANGED bridges
                ELSE ~InUse(g, opening[c].name) /\ UNCHANGED table
<1> DEFINE Goes == /\ opening'[c].name = opening[c].name /\ opening'[c].kind = opening[c].kind
                   /\ \A g : ToAsk(c, g) /\ ~ToAsk(c, g)' =>
                        IF g = "bridge" THEN ~BridgeInUse(opening[c].name) /\ UNCHANGED bridges
                        ELSE ~InUse(g, opening[c].name) /\ UNCHANGED table
<1>1. CASE opening'[c] = opening[c]
  BY <1>1 DEF ToAsk
<1>2. CASE Return(c)
  BY <1>2, CallSteps, MoveCall, CallKinds DEF Busy
<1>3. CASE Ask(c) /\ ~Return(c)
  <2>1. opening[c] \in Guarded /\ opening[c].ask \in Questions /\ opening[c].ask # << >> /\ opening[c].pc = "ask"
    BY <1>3, CallKinds, CallSteps DEF Ask, PoType
  <2> DEFINE x == [opening[c] EXCEPT !.ask = Tail(opening[c].ask)]
  <2>2. x.pc = "ask" /\ x.name = opening[c].name /\ x.kind = opening[c].kind /\ x.ask = Tail(opening[c].ask)
    BY <2>1 DEF Guarded
  <2>3. Moves(c, x)
    BY <1>3, CallSteps
  <2> HIDE DEF x
  <2>4. opening'[c] = x
    BY <2>3, MoveCall
  <2>5. ASSUME NEW g, ToAsk(c, g), ~ToAsk(c, g)' PROVE g = Head(opening[c].ask)
    <3> DEFINE q == opening[c].ask
               t == Tail(q)
    <3>1. \E i \in DOMAIN q : q[i] = g
      BY <2>5 DEF ToAsk
    <3>2. opening'[c].ask = t /\ opening'[c].pc = "ask"
      BY <2>2, <2>4
    <3>3. ~\E i \in DOMAIN t : t[i] = g
      <4> HIDE DEF t
      <4> QED
        BY <2>5, <3>2 DEF ToAsk
    <3>4. q \in Questions /\ q # << >>
      BY <2>1
    <3> HIDE DEF q
    <3>5. g = Head(q)
      BY <3>1, <3>3, <3>4, TailOfQuestions
    <3>6. QED
      BY <3>5 DEF q
  <2>6. /\ IF Head(opening[c].ask) = "bridge" THEN ~BridgeInUse(opening[c].name) ELSE ~InUse(Head(opening[c].ask), opening[c].name)
        /\ UNCHANGED <<table, bridges>>
    BY <1>3 DEF Ask, tables
  <2>7. QED
    BY <2>2, <2>4, <2>5, <2>6
<1>4. CASE Resolve(c)
  <2> DEFINE x == [pc |-> "table", kind |-> opening[c].kind, name |-> opening[c].name,
                   device |-> EndpointFor(opening[c].name)]
  <2>1. x.name = opening[c].name /\ x.kind = opening[c].kind /\ Moves(c, x)
    BY <1>4, CallSteps
  <2> HIDE DEF x
  <2>2. opening'[c] = x
    BY <2>1, MoveCall
  <2>3. \A g : ~ToAsk(c, g)
    BY <1>4 DEF Resolve, Asked, ToAsk
  <2>4. QED
    BY <2>1, <2>2, <2>3
<1>5. CASE (CheckTable(c) /\ ~Return(c)) \/ OpenDevice(c)
  <2>1. opening[c] \in Under
    BY <1>5, CallKinds DEF CheckTable, OpenDevice, PoType
  <2>2. \A p : [opening[c] EXCEPT !.pc = p].name = opening[c].name /\ [opening[c] EXCEPT !.pc = p].kind = opening[c].kind
    BY <2>1 DEF Under
  <2>3. \E p : opening'[c] = [opening[c] EXCEPT !.pc = p]
    BY <1>5, CallSteps, MoveCall
  <2>4. \A g : ~ToAsk(c, g)
    BY <2>1, CallKinds DEF ToAsk
  <2>5. QED
    BY <2>2, <2>3, <2>4
<1>6. CASE \E d \in Callers \ {c} : Opens(d)
  <2>1. ASSUME NEW d \in Callers \ {c}, Opens(d) PROVE opening'[c] = opening[c]
    BY <2>1 DEF Opens, Ask, Resolve, OpenHandle, OpenHandleFails, CheckTable, OpenDevice, OpenDeviceFails,
                StoreSession, DropSession, Return, PoType
  <2>2. QED
    BY <2>1, <1>1, <1>6
<1>7. CASE \E d \in Callers, k \in Kinds, n \in Names : Begin(d, k, n)
  BY <1>7, <1>1 DEF Begin, PoType
<1>8. CASE opening' = opening
  BY <1>8, <1>1
<1>9. QED
  BY <1>1, <1>2, <1>3, <1>4, <1>5, <1>6, <1>7, <1>8, BridgeFrame
  DEF PoNext, Opens, OpenHandle, OpenHandleFails, OpenDeviceFails, StoreSession, DropSession,
      BridgeSteps, CreatePort, DeletePair, DeleteBridge, CloseHandle, CloseSession,
      CloseDevice, CloseAll, CleanupVirtual, poVars

\* A call that begins has everything to ask.
LEMMA CallBegins ==
  ASSUME PoType, [PoNext]_poVars, NEW c \in Callers, Busy(c)', ~Busy(c)
  PROVE  \E k \in Kinds, n \in Names :
            /\ Begin(c, k, n)
            /\ opening'[c].name = n /\ opening'[c].kind = k
            /\ k = "terminal" => \A g \in Sessions : ToAsk(c, g)'
            /\ k \in Sessions => ToAsk(c, "terminal")' /\ ToAsk(c, "bridge")'
<1>1. ASSUME NEW d \in Callers, Opens(d) PROVE FALSE
  <2>1. Busy(d)
    BY <1>1 DEF Opens, Ask, Resolve, OpenHandle, OpenHandleFails, CheckTable, OpenDevice, OpenDeviceFails,
                StoreSession, DropSession, Asked, Busy
  <2>2. d # c => opening'[c] = opening[c]
    BY <1>1 DEF Opens, Ask, Resolve, OpenHandle, OpenHandleFails, CheckTable, OpenDevice, OpenDeviceFails,
                StoreSession, DropSession, Return, PoType
  <2>3. QED
    BY <2>1, <2>2 DEF Busy
<1>2. ASSUME opening' = opening PROVE FALSE
  BY <1>2 DEF Busy
<1>3. PICK d \in Callers, k \in Kinds, n \in Names : Begin(d, k, n)
  BY <1>1, <1>2, BridgeFrame
  DEF PoNext, BridgeSteps, CreatePort, DeletePair, DeleteBridge, CloseHandle, CloseSession,
      CloseDevice, CloseAll, CleanupVirtual, poVars
<1>4. d = c
  BY <1>3 DEF Begin, PoType, Busy
<1> DEFINE x == [pc |-> "ask", kind |-> k, name |-> n, ask |-> Guards[k]]
<1>5. x.pc = "ask" /\ x.kind = k /\ x.name = n /\ x.ask = Guards[k] /\ Moves(c, x)
  BY <1>3, <1>4, CallSteps
<1> HIDE DEF x
<1>6. opening'[c] = x
  BY <1>5, MoveCall
<1>7. \A g : (\E i \in DOMAIN Guards[k] : Guards[k][i] = g) => ToAsk(c, g)'
  BY <1>5, <1>6 DEF ToAsk
<1>8. QED
  BY <1>3, <1>4, <1>5, <1>6, <1>7, FirstQuestions

\* raced only grows.
LEMMA RacedGrows ==
  ASSUME PoType, [PoNext]_poVars
  PROVE  raced \subseteq raced'
<1>1. ASSUME NEW c \in Callers, Opens(c) PROVE raced' = raced
  BY <1>1 DEF Opens, Ask, Resolve, OpenHandle, OpenHandleFails, CheckTable, OpenDevice, OpenDeviceFails,
              StoreSession, DropSession, ghosts
<1>2. ASSUME NEW c \in Callers, NEW k \in Kinds, NEW n \in Names, Begin(c, k, n) PROVE raced \subseteq raced'
  BY <1>2 DEF Begin
<1>3. QED
  BY <1>1, <1>2, BridgeFrame DEF PoNext, BridgeSteps, CreatePort, DeletePair, DeleteBridge, CloseHandle, CloseSession,
      CloseDevice, CloseAll, CleanupVirtual, poVars, ghosts

\* The name that a step puts in a table, if it does: that of a call that has
\* nothing left to ask.
LEMMA Fills ==
  ASSUME PoType, [PoNext]_poVars, NEW k \in Kinds, NEW n, InUse(k, n)', ~InUse(k, n)
  PROVE  \E c \in Callers : /\ Busy(c) /\ opening[c].kind = k /\ opening[c].name = n
                            /\ \A g : ~ToAsk(c, g)
                            /\ bridges' = bridges
                            /\ \A l \in Kinds : l # k => table'[l] = table[l]
<1>1. ASSUME NEW c \in Callers, OpenHandle(c)
      PROVE  /\ Busy(c) /\ opening[c].kind = k /\ opening[c].name = n
             /\ \A g : ~ToAsk(c, g)
             /\ bridges' = bridges
             /\ \A l \in Kinds : l # k => table'[l] = table[l]
  <2>1. PICK f : f.name = opening[c].name /\ table'["terminal"] = table["terminal"] \cup {f}
    BY <1>1, Handled
  <2>2. k = "terminal" /\ opening[c].name = n
    BY <1>1, <2>1, Handled DEF InUse
  <2>3. QED
    BY <1>1, <2>2, Handled DEF OpenHandle, Asked, ToAsk, Busy
<1>2. ASSUME NEW c \in Callers, StoreSession(c)
      PROVE  /\ Busy(c) /\ opening[c].kind = k /\ opening[c].name = n
             /\ \A g : ~ToAsk(c, g)
             /\ bridges' = bridges
             /\ \A l \in Kinds : l # k => table'[l] = table[l]
  <2>1. PICK f : f.name = opening[c].name /\ table'[opening[c].kind] = table[opening[c].kind] \cup {f}
    BY <1>2, Stored
  <2>2. k = opening[c].kind /\ opening[c].name = n
    BY <1>2, <2>1, Stored DEF InUse
  <2>3. QED
    BY <1>2, <2>2, Stored DEF StoreSession, ToAsk, Busy
<1>3. QED
  BY <1>1, <1>2, TablesShrink DEF InUse

\* And the names that a step makes a bridge of: those of a bridge call that
\* has nothing left to ask.
LEMMA Bridges ==
  ASSUME PoType, [PoNext]_poVars, NEW n, BridgeInUse(n)', ~BridgeInUse(n)
  PROVE  \E b \in Bridgers : /\ Bridging(b, n) /\ table' = table
                             /\ \A k : ~BridgeToAsk(b, k, n)
<1>1. PICK b \in Bridgers : OpenSecond(b)
  BY BridgesShrink DEF BridgeInUse
<1>2. n \in {bridging[b].names[1], bridging[b].names[2]}
  BY <1>1, Bridged DEF BridgeInUse
<1>3. QED
  BY <1>1, <1>2 DEF OpenSecond, Bridging, BridgeToAsk

\* A bridge call that goes on is for the same names, and what it has still to
\* ask, it had to ask before or has asked just now; one that begins has
\* everything to ask, and no other call of its names is under way if they are
\* not raced for.
LEMMA BridgeGoesOn ==
  ASSUME PoType, [PoNext]_poVars, NEW b \in Bridgers, NEW n \in Virtual, Bridging(b, n)', n \notin raced'
  PROVE  \/ /\ Bridging(b, n)
            /\ \A k \in Sessions : BridgeToAsk(b, k, n) /\ ~BridgeToAsk(b, k, n)' =>
                    ~InUse(k, n) /\ table' = table
         \/ /\ \A k \in Sessions : BridgeToAsk(b, k, n)'
            /\ ~WorkedOn(n) /\ opening' = opening
<1> DEFINE On == /\ Bridging(b, n)
                 /\ \A k \in Sessions : BridgeToAsk(b, k, n) /\ ~BridgeToAsk(b, k, n)' =>
                        ~InUse(k, n) /\ table' = table
           Begins == /\ \A k \in Sessions : BridgeToAsk(b, k, n)'
                     /\ ~WorkedOn(n) /\ opening' = opening
<1>0. bridging'[b].pc # "idle"
  BY DEF Bridging
<1>1. CASE bridging'[b] = bridging[b]
  BY <1>1 DEF Bridging, BridgeToAsk
<1>2. ASSUME NEW x \in Names, NEW y \in Names, BeginBridge(b, x, y) PROVE Begins
  <2> DEFINE z == [pc |-> "ask", names |-> <<x, y>>, ask |-> BridgeGuards(x, y)]
  <2>1. z.pc = "ask" /\ z.names = <<x, y>> /\ z.ask = BridgeGuards(x, y) /\ MovesBridge(b, z)
    BY <1>2, BridgeCallSteps
  <2> HIDE DEF z
  <2>2. bridging'[b] = z
    BY <2>1, MoveBridge
  <2>3. n \in {x, y}
    BY <2>1, <2>2 DEF Bridging
  <2>4. \A k \in Sessions : \E i \in DOMAIN BridgeGuards(x, y) : BridgeGuards(x, y)[i] = <<k, n>>
    <3>1. BridgeGuards(x, y)[1] = <<"modbus", x>> /\ BridgeGuards(x, y)[2] = <<"modbus", y>>
          /\ BridgeGuards(x, y)[3] = <<"fecbus", x>> /\ BridgeGuards(x, y)[4] = <<"fecbus", y>>
          /\ 1 \in DOMAIN BridgeGuards(x, y) /\ 2 \in DOMAIN BridgeGuards(x, y)
          /\ 3 \in DOMAIN BridgeGuards(x, y) /\ 4 \in DOMAIN BridgeGuards(x, y)
      BY DEF BridgeGuards
    <3>2. QED
      BY <3>1, <2>3 DEF Sessions
  <2>5. \A k \in Sessions : BridgeToAsk(b, k, n)'
    BY <2>1, <2>2, <2>4 DEF BridgeToAsk
  <2>6. ~WorkedOn(n) /\ opening' = opening
    BY <1>2, <2>3 DEF BeginBridge
  <2>7. QED
    BY <2>5, <2>6
<1>3. CASE AskSession(b) /\ ~ReturnBridge(b)
  <2> DEFINE q == bridging[b].ask
             z == [bridging[b] EXCEPT !.ask = Tail(q)]
  <2>1. bridging[b] \in AskingBridge /\ q # << >> /\ ~InUse(Head(q)[1], Head(q)[2]) /\ MovesBridge(b, z)
    BY <1>3, BridgeCallSteps
  <2>2. z.pc = "ask" /\ z.names = bridging[b].names /\ z.ask = Tail(q) /\ bridging[b].pc = "ask"
    BY <2>1 DEF AskingBridge
  <2>3. bridging'[b] = z
    BY <2>1, MoveBridge
  <2>4. q \in Seq(Sessions \X Names) /\ table' = table
    BY <1>3, <2>1 DEF AskingBridge, AskSession, tables
  <2> HIDE DEF z
  <2>5. Bridging(b, n)
    BY <2>2, <2>3 DEF Bridging
  <2>6. ASSUME NEW k \in Sessions, BridgeToAsk(b, k, n), ~BridgeToAsk(b, k, n)' PROVE ~InUse(k, n)
    <3>1. PICK i \in DOMAIN q : q[i] = <<k, n>>
      BY <2>6 DEF BridgeToAsk
    <3>2. ~\E j \in DOMAIN Tail(q) : Tail(q)[j] = <<k, n>>
      BY <2>2, <2>3, <2>6 DEF BridgeToAsk
    <3> HIDE DEF q
    <3>3. i = 1
      <4>1. ASSUME i # 1 PROVE FALSE
        <5>1. i - 1 \in DOMAIN Tail(q) /\ Tail(q)[i - 1] = q[i]
          BY <2>1, <2>4, <3>1, <4>1
        <5>2. QED
          BY <5>1, <3>1, <3>2
      <4>2. QED
        BY <4>1
    <3>4. Head(q) = <<k, n>>
      BY <3>1, <3>3, <2>1, <2>4
    <3>5. QED
      BY <3>4, <2>1
  <2>7. QED
    BY <2>4, <2>5, <2>6
<1>4. CASE OpenFirst(b)
  <2> DEFINE z == [pc |-> "second", names |-> bridging[b].names, first |-> EndpointFor(bridging[b].names[1]),
                   second |-> EndpointFor(bridging[b].names[2])]
  <2>1. z.names = bridging[b].names /\ MovesBridge(b, z)
    BY <1>4, BridgeCallSteps
  <2> HIDE DEF z
  <2>2. bridging'[b] = z
    BY <2>1, MoveBridge
  <2>3. Bridging(b, n)
    BY <1>4, <2>1, <2>2 DEF Bridging, OpenFirst
  <2>4. \A k : ~BridgeToAsk(b, k, n)
    BY <1>4 DEF OpenFirst, BridgeToAsk
  <2>5. QED
    BY <2>3, <2>4
<1>5. ~ReturnBridge(b)
  BY <1>0, BridgeCallSteps, MoveBridge, CallKinds
<1>6. CASE \E a \in Bridgers \ {b} : BridgeSteps(a)
  <2>1. bridging'[b] = bridging[b]
    BY <1>6 DEF BridgeSteps, OpensBridge, BeginBridge, AskSession, OpenFirst, OpenFirstFails, OpenSecond,
                OpenSecondFails, ReturnBridge, PoType
  <2>2. QED
    BY <2>1, <1>1
<1>7. QED
  BY <1>1, <1>2, <1>3, <1>4, <1>5, <1>6, BridgingStays
  DEF BridgeSteps, OpensBridge, OpenFirstFails, OpenSecond, OpenSecondFails

\* Two calls meet only for a name that is raced for.
LEMMA MeetStep ==
  ASSUME PoType, Told, [PoNext]_poVars,
         NEW c \in Callers, Busy(c)', opening'[c].name \in Virtual \ raced',
         NEW d \in Callers, Busy(d)', opening'[d].name = opening'[c].name
  PROVE  c = d
<1>0. opening'[c].name \notin raced
  BY RacedGrows
<1>1. ASSUME NEW x \in Callers, NEW y \in Callers, x # y, Busy(x)', ~Busy(x), Busy(y)', opening'[y].name = opening'[x].name,
             opening'[x].name \in Virtual
      PROVE  opening'[x].name \in raced'
  <2>1. PICK k \in Kinds, n \in Names : Begin(x, k, n) /\ opening'[x].name = n
    BY <1>1, CallBegins
  <2>2. opening'[y] = opening[y]
    BY <1>1, <2>1 DEF Begin, PoType
  <2>3. Busy(y) /\ opening[y].name = n
    BY <1>1, <2>1, <2>2 DEF Busy
  <2>4. QED
    BY <1>1, <2>1, <2>3 DEF Begin, WorkedOn
<1>2. CASE Busy(c) /\ Busy(d)
  <2>1. opening'[c].name = opening[c].name /\ opening'[d].name = opening[d].name
    BY <1>2, CallGoesOn
  <2>2. QED
    BY <1>2, <1>0, <2>1 DEF Told
<1>3. QED
  BY <1>1, <1>2

\* Nor does one meet a bridge call.
LEMMA MeetBridge ==
  ASSUME PoType, Told, [PoNext]_poVars,
         NEW c \in Callers, Busy(c)', NEW n \in Virtual, n \notin raced', n = opening'[c].name,
         NEW b \in Bridgers, Bridging(b, n)'
  PROVE  FALSE
<1>0. n \notin raced
  BY RacedGrows
<1>1. CASE ~Busy(c)
  <2>1. PICK k \in Kinds, m \in Names : Begin(c, k, m) /\ n = m
    BY <1>1, CallBegins
  <2>2. bridging' = bridging
    BY <2>1 DEF Begin
  <2>3. \E a \in Bridgers : Bridging(a, n)
    BY <2>2 DEF Bridging
  <2>4. QED
    BY <1>0, <2>1, <2>3 DEF Begin
<1>2. CASE Busy(c)
  <2>1. n = opening[c].name
    BY <1>2, CallGoesOn
  <2>2. ~Bridging(b, n) /\ WorkedOn(n)
    BY <1>0, <1>2, <2>1 DEF Told, WorkedOn
  <2>3. QED
    BY <1>0, <2>2, BridgeGoesOn
<1>3. QED
  BY <1>1, <1>2

\* What a call was told is still so when it does what it asked for.
LEMMA ToldStep ==
  ASSUME PoType, Told, [PoNext]_poVars
  PROVE  Told'
<1> SUFFICES ASSUME NEW c \in Callers, Busy(c)', opening'[c].name \in Virtual \ raced'
             PROVE  /\ opening'[c].kind = "terminal" =>
                        \A k \in Sessions : ToAsk(c, k)' \/ ~InUse(k, opening[c].name)'
                    /\ opening'[c].kind \in Sessions =>
                        /\ ToAsk(c, "terminal")' \/ ~InUse("terminal", opening[c].name)'
                        /\ ToAsk(c, "bridge")' \/ ~BridgeInUse(opening[c].name)'
  <2>1. ASSUME NEW c \in Callers, Busy(c)', opening'[c].name \in Virtual \ raced', NEW b \in Bridgers
        PROVE  ~Bridging(b, opening[c].name)'
    <3>1. PICK n \in Virtual : n \notin raced' /\ n = opening'[c].name
      BY <2>1
    <3>2. ~Bridging(b, n)'
      BY <2>1, <3>1, MeetBridge
    <3>3. QED
      BY <3>1, <3>2 DEF Bridging
  <2>2. QED
    BY <2>1, MeetStep DEF Told
<1>1. CASE ~Busy(c)
  BY <1>1, CallBegins DEF Sessions
<1>2. CASE Busy(c)
  <2> DEFINE n == opening[c].name
             j == opening[c].kind
  <2>1. n \in Virtual \ raced /\ opening'[c].name = n /\ opening'[c].kind = j
    BY <1>2, RacedGrows, CallGoesOn
  <2>2. /\ \A b \in Bridgers : ~Bridging(b, n)
        /\ \A d \in Callers : Busy(d) /\ opening[d].name = n => c = d
        /\ j = "terminal" => \A k \in Sessions : ToAsk(c, k) \/ ~InUse(k, n)
        /\ j \in Sessions => /\ ToAsk(c, "terminal") \/ ~InUse("terminal", n)
                             /\ ToAsk(c, "bridge") \/ ~BridgeInUse(n)
    BY <1>2, <2>1 DEF Told
  <2>3. ASSUME NEW k \in Kinds, k # j, ToAsk(c, k) \/ ~InUse(k, n), ~ToAsk(c, k)' PROVE ~InUse(k, n)'
    <3>1. CASE ToAsk(c, k)
      BY <1>2, <2>3, <3>1, CallGoesOn DEF InUse, Kinds, Sessions
    <3>2. CASE ~InUse(k, n)
      <4>1. ASSUME InUse(k, n)' PROVE FALSE
        <5>1. PICK d \in Callers : Busy(d) /\ opening[d].kind = k /\ opening[d].name = n
          BY <2>1, <3>2, <4>1, Fills DEF InUse
        <5>2. QED
          BY <5>1, <2>2, <2>3
      <4>2. QED
        BY <4>1
    <3>3. QED
      BY <2>3, <3>1, <3>2
  <2>4. ASSUME ToAsk(c, "bridge") \/ ~BridgeInUse(n), ~ToAsk(c, "bridge")' PROVE ~BridgeInUse(n)'
    <3>1. CASE ToAsk(c, "bridge")
      BY <1>2, <2>4, <3>1, CallGoesOn DEF BridgeInUse
    <3>2. CASE ~BridgeInUse(n)
      <4>1. PICK m : m = n /\ (\A b \in Bridgers : ~Bridging(b, m)) /\ ~BridgeInUse(m)
        BY <2>2, <3>2
      <4>2. ~BridgeInUse(m)'
        BY <4>1, Bridges
      <4>3. QED
        BY <2>1, <4>1, <4>2 DEF BridgeInUse
    <3>3. QED
      BY <2>4, <3>1, <3>2
  <2>5. QED
    BY <2>1, <2>2, <2>3, <2>4 DEF Kinds, Sessions
<1>3. QED
  BY <1>1, <1>2

\* What a bridge call was told is still so when it opens its ports.
LEMMA BridgeToldStep ==
  ASSUME PoType, Told, BridgeTold, [PoNext]_poVars
  PROVE  BridgeTold'
<1> SUFFICES ASSUME NEW n \in Virtual, n \notin raced', NEW b \in Bridgers, Bridging(b, n)', NEW k \in Sessions,
                    ~BridgeToAsk(b, k, n)', InUse(k, n)'
             PROVE  FALSE
  BY DEF BridgeTold
<1>0. n \notin raced /\ k \in Kinds
  BY RacedGrows DEF Kinds
<1>1. Bridging(b, n) /\ (BridgeToAsk(b, k, n) => ~InUse(k, n) /\ table' = table)
  BY BridgeGoesOn
<1>2. CASE BridgeToAsk(b, k, n)
  BY <1>1, <1>2 DEF InUse
<1>3. CASE ~BridgeToAsk(b, k, n)
  <2>1. ~InUse(k, n)
    BY <1>0, <1>1, <1>3 DEF BridgeTold
  <2>2. PICK c \in Callers : Busy(c) /\ opening[c].name = n
    BY <1>0, <2>1, Fills
  <2>3. QED
    BY <1>0, <1>1, <2>2 DEF Told
<1>4. QED
  BY <1>2, <1>3

LEMMA ApartStep ==
  ASSUME PoType, Told, BridgeTold, Apart, [PoNext]_poVars
  PROVE  Apart'
<1> SUFFICES ASSUME NEW n \in Virtual, n \notin raced', NEW k \in Sessions, InUse(k, n)'
             PROVE  ~InUse("terminal", n)' /\ ~BridgeInUse(n)'
  BY DEF Apart
<1>0. n \notin raced /\ k \in Kinds /\ k # "terminal" /\ "terminal" \in Kinds
  BY RacedGrows DEF Kinds, Sessions
<1>1. CASE InUse(k, n)
  <2>1. ~InUse("terminal", n) /\ ~BridgeInUse(n)
    BY <1>0, <1>1 DEF Apart
  <2>2. ASSUME InUse("terminal", n)' PROVE FALSE
    <3>1. PICK c \in Callers : Busy(c) /\ opening[c].kind = "terminal" /\ opening[c].name = n /\ \A g : ~ToAsk(c, g)
      BY <1>0, <2>1, <2>2, Fills
    <3>2. QED
      BY <1>0, <1>1, <3>1 DEF Told
  <2>3. ASSUME BridgeInUse(n)' PROVE FALSE
    <3>1. PICK b \in Bridgers : Bridging(b, n) /\ ~BridgeToAsk(b, k, n)
      BY <2>1, <2>3, Bridges
    <3>2. QED
      BY <1>0, <1>1, <3>1 DEF BridgeTold
  <2>4. QED
    BY <2>2, <2>3
<1>2. CASE ~InUse(k, n)
  <2>1. PICK c \in Callers : /\ Busy(c) /\ opening[c].kind = k /\ opening[c].name = n
                             /\ \A g : ~ToAsk(c, g)
                             /\ bridges' = bridges
                             /\ \A l \in Kinds : l # k => table'[l] = table[l]
    BY <1>0, <1>2, Fills
  <2>2. ~InUse("terminal", n) /\ ~BridgeInUse(n)
    BY <1>0, <2>1 DEF Told
  <2>3. QED
    BY <1>0, <2>1, <2>2 DEF InUse, BridgeInUse
<1>3. QED
  BY <1>1, <1>2

LEMMA OwnersStep == OwnersInv /\ [PoNext]_poVars => OwnersInv'
BY TypeStep, NamedStep, ExclusiveStep, ToldStep, BridgeToldStep, OneNameStep, ApartStep DEF OwnersInv

LEMMA OwnersInvAlways == PoSpec => []OwnersInv
<1>1. PoInit => OwnersInv
  <2> SUFFICES ASSUME PoInit PROVE OwnersInv
    OBVIOUS
  <2>1. PoType
    BY TypeInit
  <2>2. (\A k \in Kinds : table[k] = {}) /\ bridges = {} /\ closing = {} /\ \A c \in Callers : opening[c] = NoCall
    BY DEF PoInit
  <2>3. (\A c \in Callers : opening[c] \notin Under /\ opening[c].pc = "idle") /\ Half = {}
        /\ \A b \in Bridgers : bridging[b].pc = "idle"
    BY <2>2, CallKinds DEF PoInit, Half
  <2>4. Named
    BY <2>2, <2>3 DEF Named, Kinds
  <2>5. Exclusive
    BY <2>2, <2>3 DEF Exclusive, Opened
  <2>6. Told /\ BridgeTold /\ OneName /\ Apart
    BY <2>2, <2>3 DEF Told, BridgeTold, Bridging, OneName, Apart, Busy, InUse, Kinds, Sessions
  <2>7. QED
    BY <2>1, <2>4, <2>5, <2>6 DEF OwnersInv
<1>2. QED
  BY <1>1, OwnersStep, PTL DEF PoSpec

\* A device that a table, a bridge, a call or a session on its way out knows
\* of is open, and no other of them knows of it: nobody closes the port of
\* another (CloseSession, CloseAll and the loser of OpenSession).
THEOREM OwnedOnce == PoSpec => []Exclusive
<1>1. OwnersInv => Exclusive
  BY DEF OwnersInv
<1>2. QED
  BY <1>1, OwnersInvAlways, PTL

\* A port has one owner, but for a virtual one that two calls raced for (the
\* guards of service.go, and the second look of OpenSession), for any clients
\* and any ports.
THEOREM OneOwnerAlways == PoSpec => []OneOwner
<1>1. OwnersInv => OneOwner
  <2> SUFFICES ASSUME OwnersInv, NEW n \in Names, NEW k \in Sessions, InUse(k, n), InUse("terminal", n) \/ BridgeInUse(n)
               PROVE  n \in raced
    BY DEF OwnersInv, OneOwner, OneName
  <2>1. n \in Virtual => n \in raced
    BY DEF OwnersInv, Apart
  <2>2. ASSUME n \notin Virtual PROVE FALSE
    <3>1. PICK e \in table[k] : e.name = n
      BY DEF InUse
    <3>2. e.device = <<n, "port">> /\ k \in Kinds /\ k # "terminal" /\ "terminal" \in Kinds
      BY <2>2, <3>1 DEF OwnersInv, Named, DeviceOf, Kinds, Sessions
    <3>3. CASE InUse("terminal", n)
      BY <3>2, <3>3 DEF OwnersInv, Named, Exclusive, InUse
    <3>4. CASE BridgeInUse(n)
      <4>1. PICK b \in bridges : n \in b.names
        BY <3>4 DEF BridgeInUse
      <4>2. <<n, "port">> \in b.devices
        BY <2>2, <4>1 DEF OwnersInv, Named
      <4>3. QED
        BY <3>1, <3>2, <4>2 DEF OwnersInv, Exclusive
    <3>5. QED
      BY <3>3, <3>4
  <2>3. QED
    BY <2>1, <2>2
<1>2. QED
  BY <1>1, OwnersInvAlways, PTL
-----------------------------------------------------------------------------
(* The event bus                                                           *)

Receiver == Handler \cup {Bridge}

\* The event of a publisher: it is the number of a publication, and those it
\* still calls are those that were subscribed then and have not been called.
TodoOf(todo, called, subscribed) ==
    /\ Len(todo) = Len(subscribed) - Len(called)
    /\ \A i \in 1 .. Len(todo) : todo[i] = subscribed[Len(called) + i]

BusTypes ==
    /\ subs \in Seq(Handler) /\ bridge \in {<< >>, <<Bridge>>}
    /\ events \in Nat
    /\ calls \in Seq(Seq(Receiver)) /\ Len(calls) = events
    /\ subscribedAt \in Seq(Seq(Receiver)) /\ Len(subscribedAt) = events
    /\ publishing \in [Publisher -> [event : Nat, todo : Seq(Receiver)]]

\* Two publishers are not at the same event.
OwnEvent ==
    \A p, q \in Publisher : p # q /\ publishing[p].event # 0 => publishing[p].event # publishing[q].event

Publishing ==
    \A p \in Publisher :
        /\ publishing[p].event <= events
        /\ publishing[p].event = 0 => publishing[p].todo = << >>
        /\ publishing[p].event # 0 => TodoOf(publishing[p].todo, calls[publishing[p].event], subscribedAt[publishing[p].event])

\* Who was called is who was subscribed, in that order, and everybody once
\* the publisher has gone on.
CalledSoFar ==
    \A e \in 1 .. events :
        /\ Len(calls[e]) <= Len(subscribedAt[e])
        /\ \A i \in 1 .. Len(calls[e]) : calls[e][i] = subscribedAt[e][i]
        /\ ~Running(e) => Len(calls[e]) = Len(subscribedAt[e])

BusInv == BusTypes /\ OwnEvent /\ Publishing /\ CalledSoFar

\* A bus without subscriptions and events satisfies the invariant.
LEMMA BusStart == BusInit => BusInv
<1> SUFFICES ASSUME BusInit PROVE BusInv
  OBVIOUS
<1>1. BusTypes
  BY DEF BusInit, BusTypes, NoEvent
<1> QED
  BY <1>1 DEF BusInit, BusInv, OwnEvent, Publishing, CalledSoFar, NoEvent

\* What is left when a subscription is taken out are subscriptions.
LEMMA Removed ==
    ASSUME NEW S, NEW s \in Seq(S), NEW i \in DOMAIN s
    PROVE  RemoveAt(s, i) \in Seq(S)
BY DEF RemoveAt

\* What Publish copies under the lock: the subscriptions, then the bridge.
LEMMA CopyTyped ==
    ASSUME NEW s \in Seq(Handler), NEW b \in {<< >>, <<Bridge>>}
    PROVE  s \o b \in Seq(Receiver)
<1>1. Handler \subseteq Receiver /\ Bridge \in Receiver
  BY DEF Receiver
<1>2. s \in Seq(Receiver)
  BY <1>1
<1>3. b \in Seq(Receiver)
  <2>1. << >> \in Seq(Receiver)
    OBVIOUS
  <2>2. <<Bridge>> \in Seq(Receiver)
    BY <1>1
  <2> QED
    BY <2>1, <2>2
<1> QED
  BY <1>2, <1>3

\* Subscribing, cancelling and setting the bridge touch no event.
LEMMA SubscriptionSteps ==
    ASSUME BusInv,
           \/ \E h \in Handler : Subscribe(h) \/ Cancel(h)
           \/ \E b \in {<< >>, <<Bridge>>} : BridgeToFrontend(b)
    PROVE  BusInv'
<1> USE DEF BusInv
<1>1. UNCHANGED <<publishing, events, calls, subscribedAt>>
  BY DEF Subscribe, Cancel, BridgeToFrontend
<1>2. subs' \in Seq(Handler)
  <2>1. CASE \E h \in Handler : Subscribe(h)
    BY <2>1 DEF Subscribe, BusTypes
  <2>2. CASE \E h \in Handler : Cancel(h)
    BY <2>2, Removed DEF Cancel, BusTypes
  <2>3. CASE \E b \in {<< >>, <<Bridge>>} : BridgeToFrontend(b)
    BY <2>3 DEF BridgeToFrontend, BusTypes
  <2> QED
    BY <2>1, <2>2, <2>3
<1>3. bridge' \in {<< >>, <<Bridge>>}
  BY DEF BusTypes, Subscribe, Cancel, BridgeToFrontend
<1>4. BusTypes'
  BY <1>1, <1>2, <1>3 DEF BusTypes
<1>5. OwnEvent' /\ Publishing' /\ CalledSoFar'
  BY <1>1 DEF OwnEvent, Publishing, CalledSoFar, Running, TodoOf
<1> QED
  BY <1>4, <1>5

\* A publication is an event of its own, which nobody was called for yet.
LEMMA PublishStep ==
    ASSUME BusInv, NEW p \in Publisher, Publish(p)
    PROVE  BusInv'
<1> DEFINE copy == subs \o bridge
<1> DEFINE e == events + 1
<1> USE DEF BusInv
<1>1. copy \in Seq(Receiver) /\ events \in Nat /\ e \in Nat /\ << >> \in Seq(Receiver)
  <2>1. copy \in Seq(Receiver)
    BY CopyTyped DEF BusTypes
  <2>2. events \in Nat /\ e \in Nat
    BY DEF BusTypes
  <2>3. << >> \in Seq(Receiver)
    OBVIOUS
  <2> QED
    BY <2>1, <2>2, <2>3
<1>2. /\ events' = e /\ calls' = Append(calls, << >>) /\ subscribedAt' = Append(subscribedAt, copy)
      /\ publishing' = [publishing EXCEPT ![p] = [event |-> e, todo |-> copy]]
      /\ subs' = subs /\ bridge' = bridge
  BY DEF Publish
<1> HIDE DEF copy
<1>3. BusTypes'
  <2>1. calls' \in Seq(Seq(Receiver)) /\ Len(calls') = e
    BY <1>1, <1>2 DEF BusTypes
  <2>2. subscribedAt' \in Seq(Seq(Receiver)) /\ Len(subscribedAt') = e
    BY <1>1, <1>2 DEF BusTypes
  <2>3. publishing' \in [Publisher -> [event : Nat, todo : Seq(Receiver)]]
    BY <1>1, <1>2 DEF BusTypes
  <2> QED
    BY <1>1, <1>2, <2>1, <2>2, <2>3 DEF BusTypes
<1>4. \A f \in 1 .. events : calls'[f] = calls[f] /\ subscribedAt'[f] = subscribedAt[f]
  BY <1>1, <1>2 DEF BusTypes
<1>5. calls'[e] = << >> /\ subscribedAt'[e] = copy
  BY <1>1, <1>2 DEF BusTypes
<1>6. publishing'[p] = [event |-> e, todo |-> copy]
  BY <1>2 DEF BusTypes
<1>7. \A q \in Publisher \ {p} : publishing'[q] = publishing[q]
  BY <1>2 DEF BusTypes
<1>8. \A q \in Publisher : publishing[q].event \in Nat /\ publishing[q].event <= events
  BY DEF BusTypes, Publishing
<1>9. OwnEvent'
  BY <1>1, <1>6, <1>7, <1>8 DEF OwnEvent
<1>10. Publishing'
  <2> SUFFICES ASSUME NEW q \in Publisher
               PROVE  /\ publishing'[q].event <= events'
                      /\ publishing'[q].event = 0 => publishing'[q].todo = << >>
                      /\ publishing'[q].event # 0 =>
                          TodoOf(publishing'[q].todo, calls'[publishing'[q].event], subscribedAt'[publishing'[q].event])
    BY DEF Publishing
  <2>1. CASE q = p
    <3>1. Len(copy) = Len(copy) - Len(<< >>) /\ \A i \in 1 .. Len(copy) : copy[i] = copy[Len(<< >>) + i]
      BY <1>1
    <3>2. TodoOf(copy, << >>, copy)
      BY <3>1 DEF TodoOf
    <3>3. publishing'[q].event = e /\ publishing'[q].todo = copy
      BY <2>1, <1>6
    <3>4. e # 0 /\ e <= e
      BY <1>1
    <3> HIDE DEF e
    <3> QED
      BY <1>2, <1>5, <3>2, <3>3, <3>4
  <2>2. CASE q # p
    <3>1. publishing'[q] = publishing[q]
      BY <2>2, <1>7
    <3>2. publishing[q].event # 0 =>
            /\ publishing[q].event \in 1 .. events
            /\ calls'[publishing[q].event] = calls[publishing[q].event]
            /\ subscribedAt'[publishing[q].event] = subscribedAt[publishing[q].event]
      BY <1>1, <1>4, <1>8
    <3>3. publishing'[q].event <= events'
      BY <1>1, <1>2, <1>8, <3>1
    <3> QED
      BY <3>1, <3>2, <3>3 DEF Publishing
  <2> QED
    BY <2>1, <2>2
<1>11. CalledSoFar'
  <2> SUFFICES ASSUME NEW f \in 1 .. e
               PROVE  /\ Len(calls'[f]) <= Len(subscribedAt'[f])
                      /\ \A i \in 1 .. Len(calls'[f]) : calls'[f][i] = subscribedAt'[f][i]
                      /\ ~Running(f)' => Len(calls'[f]) = Len(subscribedAt'[f])
    BY <1>2 DEF CalledSoFar
  <2>1. CASE f = e
    <3>1. Running(f)'
      BY <2>1, <1>6 DEF Running
    <3> QED
      BY <2>1, <3>1, <1>1, <1>5
  <2>2. CASE f \in 1 .. events
    <3>1. Running(f) => Running(f)'
      <4> SUFFICES ASSUME NEW q \in Publisher, publishing[q].event = f PROVE Running(f)'
        BY DEF Running
      <4>1. q # p
        BY <2>2 DEF Publish, NoEvent
      <4> QED
        BY <4>1, <1>7 DEF Running
    <3> QED
      BY <2>2, <3>1, <1>4 DEF CalledSoFar
  <2> QED
    BY <2>1, <2>2, <1>1
<1> QED
  BY <1>3, <1>9, <1>10, <1>11

LEMMA OneFurther ==
    ASSUME NEW a \in Nat, NEW b, b = a + 1, NEW i \in Nat
    PROVE  a + (i + 1) = b + i
OBVIOUS

LEMMA OneFewer ==
    ASSUME NEW a \in Nat, NEW b \in Nat, NEW c, NEW t \in Nat \ {0}, t = b - a, c = a + 1
    PROVE  c <= b
OBVIOUS

LEMMA RecordRest ==
    ASSUME NEW r, NEW n, NEW s, NEW t, r = [event |-> n, todo |-> s]
    PROVE  [r EXCEPT !.todo = t] = [event |-> n, todo |-> t]
OBVIOUS

\* The next handler of an event is called, and that is the one that was
\* subscribed next.
LEMMA CallStep ==
    ASSUME BusInv, NEW p \in Publisher, Call(p)
    PROVE  BusInv'
<1> DEFINE e == publishing[p].event
<1> DEFINE todo == publishing[p].todo
<1> DEFINE rest == IF Len(todo) = 1 THEN NoEvent ELSE [event |-> e, todo |-> Tail(todo)]
<1> USE DEF BusInv
<1>1. todo \in Seq(Receiver) /\ todo # << >> /\ e \in 1 .. events /\ events \in Nat /\ Len(todo) \in Nat \ {0}
  <2>1. publishing[p] \in [event : Nat, todo : Seq(Receiver)] /\ todo # << >> /\ events \in Nat
    BY DEF Call, BusTypes
  <2>2. e <= events /\ e # 0
    BY <2>1 DEF Publishing
  <2> QED
    BY <2>1, <2>2
<1>2. /\ calls' = [calls EXCEPT ![e] = Append(calls[e], Head(todo))]
      /\ publishing' = [publishing EXCEPT ![p] = rest]
      /\ UNCHANGED <<subs, bridge, events, subscribedAt>>
  <2>1. publishing[p] = [event |-> e, todo |-> todo]
    BY DEF BusTypes
  <2>2. calls' = [calls EXCEPT ![e] = Append(calls[e], Head(todo))]
    BY DEF Call
  <2>3. [publishing[p] EXCEPT !.todo = Tail(todo)] = [event |-> e, todo |-> Tail(todo)]
    <3> HIDE DEF e, todo, rest, BusInv
    <3> QED
      BY <2>1, RecordRest
  <2>4. publishing' = [publishing EXCEPT ![p] =
            IF Len(todo) = 1 THEN NoEvent ELSE [publishing[p] EXCEPT !.todo = Tail(todo)]]
    BY DEF Call
  <2>5. publishing' = [publishing EXCEPT ![p] = rest]
    BY <2>3, <2>4
  <2> QED
    BY <2>2, <2>5 DEF Call
<1>3. calls[e] \in Seq(Receiver) /\ subscribedAt[e] \in Seq(Receiver) /\ Head(todo) \in Receiver
  BY <1>1 DEF BusTypes
<1>4. /\ Len(todo) = Len(subscribedAt[e]) - Len(calls[e])
      /\ \A i \in 1 .. Len(todo) : todo[i] = subscribedAt[e][Len(calls[e]) + i]
  BY <1>1 DEF Publishing, TodoOf
<1>5. /\ publishing'[p] = rest
      /\ \A q \in Publisher \ {p} : publishing'[q] = publishing[q]
  BY <1>2 DEF BusTypes
<1>6. /\ calls'[e] = Append(calls[e], Head(todo))
      /\ \A f \in (1 .. events) \ {e} : calls'[f] = calls[f]
  BY <1>1, <1>2 DEF BusTypes
<1>7. Len(calls'[e]) = Len(calls[e]) + 1 /\ Len(calls[e]) \in Nat /\ Len(subscribedAt[e]) \in Nat
  BY <1>3, <1>6
<1>13. /\ calls'[e][Len(calls[e]) + 1] = todo[1]
       /\ \A i \in 1 .. Len(calls[e]) : calls'[e][i] = calls[e][i]
  BY <1>1, <1>3, <1>6
<1>8. BusTypes'
  <2>1. calls' \in Seq(Seq(Receiver)) /\ Len(calls') = events
    BY <1>1, <1>2, <1>3 DEF BusTypes
  <2>2. rest \in [event : Nat, todo : Seq(Receiver)]
    BY <1>1 DEF NoEvent
  <2>3. publishing' \in [Publisher -> [event : Nat, todo : Seq(Receiver)]]
    BY <1>2, <2>2 DEF BusTypes
  <2> QED
    BY <1>2, <2>1, <2>3 DEF BusTypes
<1>9. \A q \in Publisher \ {p} : publishing[q].event # e
  BY <1>1 DEF OwnEvent
<1>10. OwnEvent'
  <2>1. publishing'[p].event \in {0, e}
    BY <1>5 DEF NoEvent
  <2> QED
    BY <1>5, <1>9, <2>1 DEF OwnEvent
<1>11. Publishing'
  <2> SUFFICES ASSUME NEW q \in Publisher
               PROVE  /\ publishing'[q].event <= events'
                      /\ publishing'[q].event = 0 => publishing'[q].todo = << >>
                      /\ publishing'[q].event # 0 =>
                          TodoOf(publishing'[q].todo, calls'[publishing'[q].event], subscribedAt'[publishing'[q].event])
    BY DEF Publishing
  <2>1. CASE q = p /\ Len(todo) = 1
    BY <2>1, <1>1, <1>2, <1>5 DEF NoEvent
  <2>2. CASE q = p /\ Len(todo) # 1
    <3>1. publishing'[q] = [event |-> e, todo |-> Tail(todo)]
      BY <2>2, <1>5
    <3>2. Len(Tail(todo)) = Len(subscribedAt[e]) - Len(calls'[e])
      <4>1. Len(Tail(todo)) = Len(todo) - 1
        BY <1>1
      <4> HIDE DEF todo, e
      <4> QED
        BY <4>1, <1>1, <1>4, <1>7
    <3>3. ASSUME NEW i \in 1 .. Len(Tail(todo))
          PROVE  Tail(todo)[i] = subscribedAt[e][Len(calls'[e]) + i]
      <4>1. Tail(todo)[i] = todo[i + 1] /\ i + 1 \in 1 .. Len(todo)
        BY <1>1
      <4>2. todo[i + 1] = subscribedAt[e][Len(calls[e]) + (i + 1)]
        BY <1>4, <4>1
      <4>3. Len(calls[e]) + (i + 1) = Len(calls'[e]) + i
        <5>1. i \in Nat
          OBVIOUS
        <5> QED
          BY <5>1, <1>7, OneFurther
      <4> QED
        BY <4>1, <4>2, <4>3
    <3>4. TodoOf(Tail(todo), calls'[e], subscribedAt[e])
      BY <3>2, <3>3 DEF TodoOf
    <3>5. publishing'[q].event = e /\ publishing'[q].todo = Tail(todo)
      BY <3>1
    <3>6. subscribedAt' = subscribedAt /\ events' = events
      BY <1>2
    <3> HIDE DEF todo, e, rest
    <3> QED
      BY <1>1, <3>4, <3>5, <3>6
  <2>3. CASE q # p
    <3>1. publishing'[q] = publishing[q] /\ publishing[q].event # e
      BY <2>3, <1>5, <1>9
    <3>2. publishing[q].event # 0 => publishing[q].event \in (1 .. events) \ {e}
      BY <3>1, <1>1 DEF BusTypes, Publishing
    <3>3. publishing[q].event # 0 => calls'[publishing[q].event] = calls[publishing[q].event]
      BY <3>2, <1>6
    <3>4. subscribedAt' = subscribedAt /\ events' = events
      BY <1>2
    <3> QED
      BY <3>1, <3>3, <3>4 DEF Publishing
  <2> QED
    BY <2>1, <2>2, <2>3
<1>12. CalledSoFar'
  <2> SUFFICES ASSUME NEW f \in 1 .. events
               PROVE  /\ Len(calls'[f]) <= Len(subscribedAt[f])
                      /\ \A i \in 1 .. Len(calls'[f]) : calls'[f][i] = subscribedAt[f][i]
                      /\ ~Running(f)' => Len(calls'[f]) = Len(subscribedAt[f])
    BY <1>2 DEF CalledSoFar
  <2>1. CASE f = e
    <3>1. Len(todo) = Len(subscribedAt[e]) - Len(calls[e]) /\ todo[1] = subscribedAt[e][Len(calls[e]) + 1]
      <4>1. 1 \in 1 .. Len(todo)
        BY <1>1
      <4> HIDE DEF e, todo, rest
      <4> QED
        BY <1>4, <4>1
    <3>2. Len(calls'[e]) <= Len(subscribedAt[e])
      BY <1>1, <1>4, <1>7, OneFewer
    <3>3. ASSUME NEW i \in 1 .. Len(calls'[e]) PROVE calls'[e][i] = subscribedAt[e][i]
      <4>1. CASE i \in 1 .. Len(calls[e])
        BY <4>1, <1>1, <1>13 DEF CalledSoFar
      <4>2. CASE i = Len(calls[e]) + 1
        BY <4>2, <1>13, <3>1
      <4> QED
        BY <4>1, <4>2, <1>7
    <3>4. ~Running(f)' => Len(todo) = 1
      BY <1>5, <2>1 DEF Running
    <3>5. ~Running(f)' => Len(calls'[e]) = Len(subscribedAt[e])
      <4> HIDE DEF e, todo, rest
      <4> QED
        BY <3>1, <3>4, <1>7
    <3>6. subscribedAt' = subscribedAt
      BY <1>2
    <3> HIDE DEF e, todo, rest
    <3> QED
      BY <2>1, <3>2, <3>3, <3>5, <3>6
  <2>2. CASE f # e
    <3>1. Running(f) => Running(f)'
      <4> SUFFICES ASSUME NEW q \in Publisher, publishing[q].event = f PROVE Running(f)'
        BY DEF Running
      <4> QED
        BY <2>2, <1>5 DEF Running
    <3> QED
      BY <2>2, <3>1, <1>6 DEF CalledSoFar
  <2> QED
    BY <2>1, <2>2
<1> QED
  BY <1>8, <1>10, <1>11, <1>12

\* A publisher that has nobody to call goes on.
LEMMA UnheardStep ==
    ASSUME BusInv, NEW p \in Publisher, Unheard(p)
    PROVE  BusInv'
<1> DEFINE e == publishing[p].event
<1> USE DEF BusInv
<1>1. /\ publishing' = [publishing EXCEPT ![p] = NoEvent]
      /\ UNCHANGED <<subs, bridge, events, calls, subscribedAt>>
  BY DEF Unheard
<1>2. publishing'[p] = NoEvent /\ \A q \in Publisher \ {p} : publishing'[q] = publishing[q]
  BY <1>1 DEF BusTypes
<1>3. NoEvent \in [event : Nat, todo : Seq(Receiver)]
  BY DEF NoEvent
<1>4. BusTypes'
  BY <1>1, <1>3 DEF BusTypes
<1>5. OwnEvent'
  BY <1>2 DEF OwnEvent, NoEvent
<1>6. Publishing'
  <2> SUFFICES ASSUME NEW q \in Publisher
               PROVE  /\ publishing'[q].event <= events'
                      /\ publishing'[q].event = 0 => publishing'[q].todo = << >>
                      /\ publishing'[q].event # 0 =>
                          TodoOf(publishing'[q].todo, calls'[publishing'[q].event], subscribedAt'[publishing'[q].event])
    BY DEF Publishing
  <2>1. CASE q = p
    BY <2>1, <1>1, <1>2 DEF NoEvent, BusTypes
  <2>2. CASE q # p
    <3>1. publishing'[q] = publishing[q]
      BY <2>2, <1>2
    <3> QED
      BY <3>1, <1>1 DEF Publishing
  <2> QED
    BY <2>1, <2>2
<1>7. CalledSoFar'
  <2> SUFFICES ASSUME NEW f \in 1 .. events, ~Running(f)'
               PROVE  Len(calls[f]) = Len(subscribedAt[f])
    BY <1>1 DEF CalledSoFar
  <2>0. /\ e \in Nat /\ e # 0 /\ TodoOf(publishing[p].todo, calls[e], subscribedAt[e]) /\ Len(publishing[p].todo) = 0
        /\ calls[f] \in Seq(Receiver) /\ subscribedAt[f] \in Seq(Receiver)
    BY DEF Unheard, Publishing, BusTypes
  <2>1. CASE f = e
    <3>1. Len(calls[f]) \in Nat /\ Len(subscribedAt[f]) \in Nat
      BY <2>0
    <3>2. 0 = Len(subscribedAt[f]) - Len(calls[f])
      BY <2>0, <2>1 DEF TodoOf
    <3> QED
      BY <3>1, <3>2
  <2>2. CASE f # e
    <3>1. ~Running(f)
      BY <1>2, <2>2 DEF Running
    <3> QED
      BY <3>1 DEF CalledSoFar
  <2> QED
    BY <2>1, <2>2
<1> QED
  BY <1>4, <1>5, <1>6, <1>7

LEMMA BusStep == BusInv /\ [BusNext]_busVars => BusInv'
<1> SUFFICES ASSUME BusInv, [BusNext]_busVars PROVE BusInv'
  OBVIOUS
<1>1. CASE UNCHANGED busVars
  BY <1>1 DEF busVars, BusInv, BusTypes, OwnEvent, Publishing, TodoOf, CalledSoFar, Running
<1>2. CASE \E p \in Publisher : Publish(p) \/ Call(p) \/ Unheard(p)
  BY <1>2, PublishStep, CallStep, UnheardStep
<1>3. CASE (\E h \in Handler : Subscribe(h) \/ Cancel(h)) \/ \E b \in {<< >>, <<Bridge>>} : BridgeToFrontend(b)
  BY <1>3, SubscriptionSteps
<1> QED
  BY <1>1, <1>2, <1>3 DEF BusNext

LEMMA BusDelivers == BusInv => DeliveredExactly
<1> SUFFICES ASSUME BusInv, NEW e \in 1 .. events
             PROVE  IsPrefix(calls[e], subscribedAt[e]) /\ (~Running(e) => calls[e] = subscribedAt[e])
  BY DEF DeliveredExactly
<1> DEFINE c == calls[e]
<1> DEFINE a == subscribedAt[e]
<1>1. c \in Seq(Receiver) /\ a \in Seq(Receiver)
  BY DEF BusInv, BusTypes
<1>2. Len(c) <= Len(a) /\ (\A i \in 1 .. Len(c) : c[i] = a[i]) /\ (~Running(e) => Len(c) = Len(a))
  BY DEF BusInv, CalledSoFar
<1> HIDE DEF c, a
<1>3. SubSeq(c, 1, Len(c)) = SubSeq(a, 1, Len(c))
  <2>1. /\ SubSeq(c, 1, Len(c)) \in Seq(Receiver) /\ Len(SubSeq(c, 1, Len(c))) = Len(c)
        /\ \A i \in 1 .. Len(c) : SubSeq(c, 1, Len(c))[i] = c[i]
    BY <1>1
  <2>2. /\ SubSeq(a, 1, Len(c)) \in Seq(Receiver) /\ Len(SubSeq(a, 1, Len(c))) = Len(c)
        /\ \A i \in 1 .. Len(c) : SubSeq(a, 1, Len(c))[i] = a[i]
    BY <1>1, <1>2
  <2> QED
    BY <1>2, <2>1, <2>2, SeqEqual
<1>4. ~Running(e) => c = a
  BY <1>1, <1>2, SeqEqual
<1>5. IsPrefix(c, a)
  BY <1>2, <1>3 DEF IsPrefix
<1> QED
  BY <1>4, <1>5 DEF c, a

\* DeliveredExactly of the event bus, for any publishers and subscriptions
\* and any number of events: Publish calls those that were subscribed when it
\* took its copy, once and in order, whoever subscribes, cancels and
\* publishes meanwhile (bus.go, Publish and the cancel function).
THEOREM DeliveredExactlyAlways == BusSpec => []DeliveredExactly
<1>1. BusSpec => []BusInv
  BY BusStart, BusStep, PTL DEF BusSpec
<1> QED
  BY <1>1, BusDelivers, PTL

-----------------------------------------------------------------------------
(* The order of the modules                                                *)

\* What a sequence holds, and that it holds it once.
Elems(s) == {s[i] : i \in 1 .. Len(s)}
Once(s) == \A i, j \in 1 .. Len(s) : s[i] = s[j] => i = j

\* What m still waits for: what has no place yet, or has just got it.
Awaited(d, m, v, o) == {n \in d[m] : n \notin Elems(o) \/ (m \in v /\ n = o[Len(o)])}

\* The types.
OrderTypes ==
    /\ deps \in [Module -> SUBSET (Module \cup {Missing})]
    /\ sorting \in {"manifests", "missing", "roots", "sorting", "sorted", "cycle"}
    /\ toVisit \subseteq Module /\ indegree \in [Module -> Int]
    /\ queue \in Seq(Module) /\ order \in Seq(Module)

\* The loops before the queue is worked on
CountInv ==
    /\ sorting \in {"manifests", "missing"} => queue = << >>
    /\ sorting \in {"manifests", "missing", "roots"} => order = << >>
    /\ sorting = "manifests" =>
        \A m \in Module : m \notin toVisit => deps[m] \subseteq Module /\ indegree[m] = Cardinality(deps[m])
    /\ sorting = "missing" => \E m \in Module : ~(deps[m] \subseteq Module)

\* The number counted for a module is that of what it waits for, and it is
\* queued, once, when there is none.
DegreeInv ==
    sorting \notin {"manifests", "missing"} =>
        /\ \A m \in Module : deps[m] \subseteq Module /\ indegree[m] = Cardinality(Awaited(deps, m, toVisit, order))
        /\ \A m \in Module :
            m \in Elems(queue) \cup Elems(order) <=> indegree[m] = 0 /\ ~(sorting = "roots" /\ m \in toVisit)
        /\ sorting = "sorting" => \A m \in toVisit : Len(order) > 0 /\ order[Len(order)] \in deps[m]

\* Nobody has two places, and all have one after those they depend on.
PlaceInv ==
    /\ Once(queue) /\ Once(order) /\ Elems(queue) \cap Elems(order) = {}
    /\ \A i \in 1 .. Len(order) : deps[order[i]] \subseteq {order[j] : j \in 1 .. i - 1}

\* It answers when there is nothing left to work on.
AnswerInv ==
    sorting \in {"sorted", "cycle"} =>
        queue = << >> /\ toVisit = {} /\ (sorting = "sorted" <=> Len(order) = Cardinality(Module))

SortInv == OrderTypes /\ CountInv /\ DegreeInv /\ PlaceInv /\ AnswerInv

-----------------------------------------------------------------------------
\* Sequences whose elements differ.
LEMMA NoElems == Elems(<< >>) = {} /\ Once(<< >>)
  BY DEF Elems, Once

\* Append adds an element.
LEMMA ElemsAppend ==
    ASSUME NEW S, NEW s \in Seq(S), NEW x \in S
    PROVE  /\ Append(s, x) \in Seq(S) /\ Len(Append(s, x)) = Len(s) + 1 /\ Len(s) \in Nat
           /\ \A i \in 1 .. Len(s) : Append(s, x)[i] = s[i]
           /\ Append(s, x)[Len(s) + 1] = x
           /\ Elems(Append(s, x)) = Elems(s) \cup {x}
           /\ Once(s) /\ x \notin Elems(s) => Once(Append(s, x))
<1> DEFINE t == Append(s, x)
<1>1. /\ t \in Seq(S) /\ Len(t) = Len(s) + 1 /\ Len(s) \in Nat
      /\ \A i \in 1 .. Len(s) : t[i] = s[i]
      /\ t[Len(s) + 1] = x
  BY AppendProperties
<1> HIDE DEF t
<1>2. 1 .. Len(t) = 1 .. Len(s) \cup {Len(s) + 1}
  BY <1>1
<1>3. Elems(t) = Elems(s) \cup {x}
  BY <1>1, <1>2 DEF Elems
<1>4. ASSUME Once(s), x \notin Elems(s), NEW i \in 1 .. Len(t), NEW j \in 1 .. Len(t), t[i] = t[j] PROVE i = j
  BY <1>1, <1>2, <1>4 DEF Elems, Once
<1> QED
  BY <1>1, <1>3, <1>4 DEF t, Once

\* And Tail takes the first away.
LEMMA ElemsTail ==
    ASSUME NEW S, NEW s \in Seq(S), s # << >>
    PROVE  /\ Head(s) \in S /\ Tail(s) \in Seq(S)
           /\ Elems(s) = Elems(Tail(s)) \cup {Head(s)}
           /\ Once(s) => Once(Tail(s)) /\ Head(s) \notin Elems(Tail(s))
<1> DEFINE t == Tail(s)
           n == Len(s) - 1
<1>1. Head(s) \in S /\ Head(s) = s[1] /\ t \in Seq(S) /\ Len(t) = n /\ n \in Nat /\ Len(s) = n + 1
  BY HeadTailProperties
<1>2. \A i \in 1 .. n : t[i] = s[i + 1]
  BY HeadTailProperties
<1> HIDE DEF t, n
<1>3. Elems(s) = Elems(t) \cup {s[1]}
  <2>1. ASSUME NEW i \in 1 .. n + 1 PROVE s[i] \in Elems(t) \cup {s[1]}
    <3>1. CASE i # 1
      <4>1. i - 1 \in 1 .. n /\ i - 1 + 1 = i
        BY <3>1, <1>1
      <4>2. s[i] = t[i - 1]
        BY <4>1, <1>2
      <4> QED
        BY <4>1, <4>2, <1>1 DEF Elems
    <3> QED
      BY <3>1
  <2>2. ASSUME NEW i \in 1 .. n PROVE t[i] \in Elems(s)
    <3>1. i + 1 \in 1 .. n + 1
      BY <1>1
    <3> QED
      BY <3>1, <1>1, <1>2 DEF Elems
  <2>3. s[1] \in Elems(s)
    <3>1. 1 \in 1 .. n + 1
      BY <1>1
    <3> QED
      BY <3>1, <1>1 DEF Elems
  <2> QED
    BY <2>1, <2>2, <2>3, <1>1 DEF Elems
<1>4. ASSUME Once(s) PROVE Once(t) /\ s[1] \notin Elems(t)
  <2>1. ASSUME NEW i \in 1 .. n, NEW j \in 1 .. n, t[i] = t[j] PROVE i = j
    <3>1. i + 1 \in 1 .. Len(s) /\ j + 1 \in 1 .. Len(s) /\ s[i + 1] = s[j + 1]
      BY <2>1, <1>1, <1>2
    <3>2. i + 1 = j + 1
      BY <3>1, <1>4 DEF Once
    <3> QED
      BY <3>2
  <2>2. ASSUME NEW i \in 1 .. n PROVE s[1] # t[i]
    <3>1. i + 1 \in 1 .. Len(s) /\ 1 \in 1 .. Len(s) /\ i + 1 # 1
      BY <1>1
    <3> QED
      BY <3>1, <1>2, <1>4 DEF Once
  <2> QED
    BY <2>1, <2>2, <1>1 DEF Once, Elems
<1> QED
  BY <1>1, <1>3, <1>4 DEF t

\* A sequence without repetition is as long as it has elements.
LEMMA ElemsCount ==
    ASSUME NEW S, NEW s \in Seq(S), Once(s)
    PROVE  IsFiniteSet(Elems(s)) /\ Cardinality(Elems(s)) = Len(s)
<1> DEFINE n == Len(s)
<1>1. n \in Nat /\ s \in [1 .. n -> Elems(s)]
  BY DEF Elems
<1>2. s \in Bijection(1 .. n, Elems(s))
  <2>1. \A a, b \in 1 .. n : s[a] = s[b] => a = b
    BY DEF Once
  <2>2. \A t \in Elems(s) : \E a \in 1 .. n : s[a] = t
    BY DEF Elems
  <2> QED
    BY <1>1, <2>1, <2>2, Fun_IsBij
<1>3. ExistsBijection(1 .. n, Elems(s))
  BY <1>2 DEF ExistsBijection
<1> QED
  BY <1>1, <1>3, FS_CountingElements, FS_NatBijection

\* Before the first manifest is read.
LEMMA OrderStart == OrderInit => SortInv
<1> SUFFICES ASSUME OrderInit PROVE SortInv
  OBVIOUS
<1>1. queue = << >> /\ order = << >> /\ sorting = "manifests" /\ toVisit = Module /\ Len(order) = 0
  BY DEF OrderInit, SortStart
<1>2. OrderTypes
  BY <1>1 DEF OrderInit, SortStart, OrderTypes
<1>3. PlaceInv
  BY <1>1, NoElems DEF PlaceInv
<1> QED
  BY <1>1, <1>2, <1>3 DEF SortInv, CountInv, DegreeInv, AnswerInv

\* Every step of the loops keeps the invariant.
LEMMA OrderStep == SortInv /\ [OrderNext]_orderVars => SortInv'
<1> SUFFICES ASSUME SortInv, [OrderNext]_orderVars PROVE SortInv'
  OBVIOUS
<1> USE DEF sortVars
<1>0. OrderTypes /\ CountInv /\ DegreeInv /\ PlaceInv /\ AnswerInv
  BY DEF SortInv
<1>1. ASSUME NEW m \in Module, CountDependencies(m) PROVE SortInv'
  <2>0. /\ sorting = "manifests" /\ UNCHANGED <<deps, sorting, queue, order>> /\ deps[m] \subseteq Module
        /\ indegree' = [indegree EXCEPT ![m] = Cardinality(deps[m])] /\ toVisit' = toVisit \ {m}
    BY <1>1 DEF CountDependencies
  <2>1. IsFiniteSet(deps[m])
    BY <2>0, ModuleAssumption, FS_Subset
  <2>2. Cardinality(deps[m]) \in Int
    BY <2>1, FS_CardinalityType
  <2>3. OrderTypes'
    BY <1>0, <2>0, <2>2 DEF OrderTypes
  <2>4. CountInv'
    BY <1>0, <2>0 DEF CountInv, OrderTypes
  <2> QED
    BY <1>0, <2>0, <2>3, <2>4 DEF SortInv, DegreeInv, PlaceInv, AnswerInv
<1>2. ASSUME NEW m \in Module, DependencyMissing(m) PROVE SortInv'
  BY <1>0, <1>2 DEF DependencyMissing, SortInv, OrderTypes, CountInv, DegreeInv, PlaceInv, AnswerInv
<1>3. CASE ManifestsRead
  <2>0. /\ sorting = "manifests" /\ sorting' = "roots" /\ toVisit = {} /\ toVisit' = Module
        /\ UNCHANGED <<deps, indegree, queue, order>> /\ queue = << >> /\ order = << >>
    BY <1>0, <1>3 DEF ManifestsRead, CountInv
  <2>1. \A m \in Module : Awaited(deps, m, Module, order) = deps[m]
    BY <2>0, NoElems DEF Awaited
  <2>2. DegreeInv'
    BY <1>0, <2>0, <2>1, NoElems DEF DegreeInv, CountInv
  <2> QED
    BY <1>0, <2>0, <2>2 DEF SortInv, OrderTypes, CountInv, PlaceInv, AnswerInv
<1>4. ASSUME NEW m \in Module, Visit(m) PROVE SortInv'
  <2>0. /\ sorting = "roots" /\ UNCHANGED <<deps, sorting, indegree, order>> /\ order = << >> /\ m \in toVisit
        /\ toVisit' = toVisit \ {m} /\ queue' = IF indegree[m] = 0 THEN Append(queue, m) ELSE queue
    BY <1>0, <1>4 DEF Visit, CountInv
  <2>1. \A x \in Module : Awaited(deps, x, toVisit, order) = Awaited(deps, x, toVisit', order)
    BY <2>0, NoElems DEF Awaited
  <2>2. m \notin Elems(queue)
    BY <1>0, <2>0 DEF DegreeInv
  <2>3. /\ queue' \in Seq(Module) /\ Once(queue')
        /\ Elems(queue') = Elems(queue) \cup (IF indegree[m] = 0 THEN {m} ELSE {})
    <3>1. queue \in Seq(Module) /\ Once(queue)
      BY <1>0 DEF OrderTypes, PlaceInv
    <3> QED
      BY <2>0, <2>2, <3>1, ElemsAppend
  <2>4. OrderTypes' /\ CountInv' /\ AnswerInv'
    BY <1>0, <2>0, <2>3 DEF OrderTypes, CountInv, AnswerInv
  <2>5. PlaceInv'
    BY <1>0, <2>0, <2>3, NoElems DEF PlaceInv
  <2>6. DegreeInv'
    BY <1>0, <2>0, <2>1, <2>3, NoElems DEF DegreeInv
  <2> QED
    BY <2>4, <2>5, <2>6 DEF SortInv
<1>5. CASE RootsQueued
  BY <1>0, <1>5 DEF RootsQueued, SortInv, OrderTypes, CountInv, DegreeInv, PlaceInv, AnswerInv
<1>6. CASE Take
  <2> DEFINE h == Head(queue)
  <2>0. /\ sorting = "sorting" /\ toVisit = {} /\ queue # << >> /\ UNCHANGED <<deps, sorting, indegree>>
        /\ order' = Append(order, h) /\ queue' = Tail(queue) /\ toVisit' = Dependents(h)
    BY <1>6 DEF Take
  <2>1. queue \in Seq(Module) /\ order \in Seq(Module) /\ Once(queue) /\ Once(order)
    BY <1>0 DEF OrderTypes, PlaceInv
  <2>2. /\ h \in Module /\ queue' \in Seq(Module) /\ Elems(queue) = Elems(queue') \cup {h}
        /\ Once(queue') /\ h \notin Elems(queue')
    BY <2>0, <2>1, ElemsTail
  <2>3. h \notin Elems(order)
    BY <1>0, <2>2 DEF PlaceInv
  <2> HIDE DEF h
  <2>4. /\ order' \in Seq(Module) /\ Len(order') = Len(order) + 1 /\ Len(order) \in Nat
        /\ \A i \in 1 .. Len(order) : order'[i] = order[i]
        /\ order'[Len(order) + 1] = h /\ Elems(order') = Elems(order) \cup {h} /\ Once(order')
    BY <2>0, <2>1, <2>2, <2>3, ElemsAppend
  <2>5. deps[h] \subseteq Elems(order)
    <3>1. indegree[h] = 0 /\ indegree[h] = Cardinality(Awaited(deps, h, toVisit, order)) /\ deps[h] \subseteq Module
      BY <1>0, <2>0, <2>2 DEF DegreeInv
    <3>2. IsFiniteSet(Awaited(deps, h, toVisit, order))
      BY <3>1, ModuleAssumption, FS_Subset DEF Awaited
    <3>3. Awaited(deps, h, toVisit, order) = {}
      BY <3>1, <3>2, FS_EmptySet
    <3> QED
      BY <3>3 DEF Awaited
  <2>6. \A x \in Module : Awaited(deps, x, toVisit', order') = Awaited(deps, x, toVisit, order)
    BY <2>0, <2>3, <2>4 DEF Awaited, Dependents
  <2>7. OrderTypes' /\ CountInv' /\ AnswerInv'
    BY <1>0, <2>0, <2>2, <2>4 DEF OrderTypes, CountInv, AnswerInv, Dependents
  <2>8. DegreeInv'
    <3>1. \A x \in toVisit' : Len(order') > 0 /\ order'[Len(order')] \in deps[x]
      BY <2>0, <2>4 DEF Dependents
    <3>2. Elems(queue') \cup Elems(order') = Elems(queue) \cup Elems(order)
      BY <2>2, <2>4
    <3> QED
      BY <1>0, <2>0, <2>6, <3>1, <3>2 DEF DegreeInv
  <2>9. PlaceInv'
    <3>1. ASSUME NEW i \in 1 .. Len(order') PROVE deps[order'[i]] \subseteq {order'[j] : j \in 1 .. i - 1}
      <4>1. CASE i = Len(order) + 1
        <5>1. order'[i] = h /\ i - 1 = Len(order)
          BY <4>1, <2>4
        <5> QED
          BY <5>1, <2>4, <2>5 DEF Elems
      <4>2. CASE i # Len(order) + 1
        <5>1. i \in 1 .. Len(order) /\ order'[i] = order[i] /\ \A j \in 1 .. i - 1 : order'[j] = order[j]
          BY <4>2, <2>4
        <5>2. deps[order[i]] \subseteq {order[j] : j \in 1 .. i - 1}
          BY <1>0, <5>1 DEF PlaceInv
        <5> QED
          BY <5>1, <5>2
      <4> QED
        BY <4>1, <4>2
    <3>2. Elems(queue') \cap Elems(order') = {}
      BY <1>0, <2>2, <2>4 DEF PlaceInv
    <3> QED
      BY <2>0, <2>2, <2>4, <3>1, <3>2 DEF PlaceInv
  <2> QED
    BY <2>7, <2>8, <2>9 DEF SortInv
<1>7. ASSUME NEW x \in Module, Free(x) PROVE SortInv'
  <2>0. /\ sorting = "sorting" /\ x \in toVisit /\ UNCHANGED <<deps, sorting, order>> /\ toVisit' = toVisit \ {x}
        /\ indegree' = [indegree EXCEPT ![x] = indegree[x] - 1]
        /\ queue' = IF indegree[x] = 1 THEN Append(queue, x) ELSE queue
    BY <1>7 DEF Free
  <2>1. queue \in Seq(Module) /\ order \in Seq(Module) /\ Once(queue) /\ indegree \in [Module -> Int]
    BY <1>0 DEF OrderTypes, PlaceInv
  <2> DEFINE l == order[Len(order)]
             A(v) == Awaited(deps, x, v, order)
  <2>2. Len(order) > 0 /\ l \in deps[x] /\ l \in Elems(order) /\ deps[x] \subseteq Module
    <3>1. Len(order) > 0 /\ l \in deps[x] /\ deps[x] \subseteq Module
      BY <1>0, <2>0 DEF DegreeInv
    <3>2. Len(order) \in 1 .. Len(order)
      BY <2>1, <3>1
    <3> QED
      BY <3>1, <3>2 DEF Elems
  <2>3. l \in A(toVisit) /\ A(toVisit') = A(toVisit) \ {l}
    BY <2>0, <2>2 DEF Awaited
  <2>4. IsFiniteSet(A(toVisit)) /\ indegree[x] = Cardinality(A(toVisit))
    <3>1. A(toVisit) \subseteq Module
      BY <2>2 DEF Awaited
    <3> QED
      BY <1>0, <2>0, <3>1, ModuleAssumption, FS_Subset DEF DegreeInv
  <2>5. indegree[x] \in Nat /\ indegree[x] # 0 /\ Cardinality(A(toVisit')) = indegree[x] - 1
    <3>1. indegree[x] \in Nat /\ indegree[x] # 0
      BY <2>3, <2>4, FS_CardinalityType, FS_EmptySet
    <3>2. Cardinality(A(toVisit) \ {l}) = Cardinality(A(toVisit)) - 1
      BY <2>3, <2>4, FS_RemoveElement
    <3> QED
      BY <2>3, <2>4, <3>1, <3>2
  <2>6. ASSUME NEW y \in Module, y # x
        PROVE  Awaited(deps, y, toVisit', order) = Awaited(deps, y, toVisit, order) /\ indegree'[y] = indegree[y]
    BY <2>0, <2>1, <2>6 DEF Awaited
  <2>7. indegree'[x] = indegree[x] - 1 /\ indegree' \in [Module -> Int]
    BY <2>0, <2>1, <2>5
  <2>8. x \notin Elems(queue) /\ x \notin Elems(order)
    BY <1>0, <2>0, <2>5 DEF DegreeInv
  <2>9. /\ queue' \in Seq(Module) /\ Once(queue')
        /\ Elems(queue') = Elems(queue) \cup (IF indegree[x] = 1 THEN {x} ELSE {})
    BY <2>0, <2>1, <2>8, ElemsAppend
  <2>10. OrderTypes' /\ CountInv' /\ AnswerInv'
    BY <1>0, <2>0, <2>7, <2>9 DEF OrderTypes, CountInv, AnswerInv
  <2>11. PlaceInv'
    <3>1. Elems(queue') \cap Elems(order) = {}
      BY <1>0, <2>8, <2>9 DEF PlaceInv
    <3>2. /\ Once(order) /\ order' = order /\ deps' = deps
          /\ \A i \in 1 .. Len(order) : deps[order[i]] \subseteq {order[j] : j \in 1 .. i - 1}
      BY <1>0, <2>0 DEF PlaceInv
    <3>3. Once(queue') /\ Once(order') /\ Elems(queue') \cap Elems(order') = {}
      BY <2>9, <3>1, <3>2
    <3>4. \A i \in 1 .. Len(order') : deps'[order'[i]] \subseteq {order'[j] : j \in 1 .. i - 1}
      BY <3>2
    <3> QED
      BY <3>3, <3>4 DEF PlaceInv
  <2>12. DegreeInv'
    <3>1. ASSUME NEW y \in Module
          PROVE  deps[y] \subseteq Module /\ indegree'[y] = Cardinality(Awaited(deps, y, toVisit', order))
      <4>1. deps[y] \subseteq Module /\ indegree[y] = Cardinality(Awaited(deps, y, toVisit, order))
        BY <1>0, <2>0 DEF DegreeInv
      <4>2. CASE y = x
        BY <4>1, <4>2, <2>5, <2>7
      <4>3. CASE y # x
        BY <4>1, <4>3, <2>6
      <4> QED
        BY <4>2, <4>3
    <3>2. ASSUME NEW y \in Module PROVE y \in Elems(queue') \cup Elems(order) <=> indegree'[y] = 0
      <4>1. y \in Elems(queue) \cup Elems(order) <=> indegree[y] = 0
        BY <1>0, <2>0 DEF DegreeInv
      <4>2. CASE y = x
        BY <4>2, <2>5, <2>7, <2>8, <2>9
      <4>3. CASE y # x
        BY <4>1, <4>3, <2>6, <2>9
      <4> QED
        BY <4>2, <4>3
    <3>3. \A y \in toVisit' : Len(order) > 0 /\ order[Len(order)] \in deps[y]
      BY <1>0, <2>0 DEF DegreeInv
    <3> QED
      BY <2>0, <3>1, <3>2, <3>3 DEF DegreeInv
  <2> QED
    BY <2>10, <2>11, <2>12 DEF SortInv
<1>8. CASE EndSort
  BY <1>0, <1>8 DEF EndSort, SortInv, OrderTypes, CountInv, DegreeInv, PlaceInv, AnswerInv
<1>9. CASE UNCHANGED orderVars
  BY <1>0, <1>9 DEF orderVars, SortInv, OrderTypes, CountInv, DegreeInv, PlaceInv, AnswerInv
<1> QED
  BY <1>1, <1>2, <1>3, <1>4, <1>5, <1>6, <1>7, <1>8, <1>9 DEF OrderNext

\* The modules that have no place when the queue is empty wait for one another.
LEMMA OrderAnswers == SortInv => OrderIsExact
<1> SUFFICES ASSUME SortInv PROVE OrderIsExact
  OBVIOUS
<1>0. OrderTypes /\ CountInv /\ DegreeInv /\ PlaceInv /\ AnswerInv
  BY DEF SortInv
<1>1. /\ order \in Seq(Module) /\ Once(order) /\ Elems(order) \subseteq Module
      /\ IsFiniteSet(Elems(order)) /\ Cardinality(Elems(order)) = Len(order)
  <2>1. order \in Seq(Module) /\ Once(order)
    BY <1>0 DEF OrderTypes, PlaceInv
  <2>2. Elems(order) \subseteq Module
    BY <2>1 DEF Elems
  <2> QED
    BY <2>1, <2>2, ElemsCount
<1>2. CASE sorting = "sorted"
  <2>1. Len(order) = Cardinality(Module)
    BY <1>0, <1>2 DEF AnswerInv
  <2>2. Elems(order) = Module
    BY <1>1, <2>1, ModuleAssumption, FS_Subset
  <2>3. order \in [1 .. Cardinality(Module) -> Module] /\ DOMAIN order = 1 .. Len(order)
    BY <1>1, <2>1
  <2> QED
    BY <1>0, <1>2, <2>1, <2>2, <2>3 DEF OrderIsExact, Sorted, PlaceInv, Elems
<1>3. CASE sorting = "cycle"
  <2> DEFINE S == Module \ Elems(order)
  <2>1. S # {}
    <3>1. Len(order) # Cardinality(Module)
      BY <1>0, <1>3 DEF AnswerInv
    <3> QED
      BY <1>1, <3>1
  <2>2. ASSUME NEW m \in S PROVE deps[m] \cap S # {}
    <3>1. queue = << >> /\ toVisit = {}
      BY <1>0, <1>3 DEF AnswerInv
    <3>2. m \notin Elems(queue) \cup Elems(order)
      BY <3>1, NoElems
    <3>3. /\ indegree[m] # 0 /\ deps[m] \subseteq Module
          /\ indegree[m] = Cardinality(Awaited(deps, m, toVisit, order))
      BY <1>0, <1>3, <3>2 DEF DegreeInv
    <3>4. Awaited(deps, m, toVisit, order) # {}
      BY <3>3, FS_EmptySet
    <3> QED
      BY <3>1, <3>3, <3>4 DEF Awaited
  <2> QED
    BY <1>3, <2>1, <2>2 DEF OrderIsExact
<1> QED
  BY <1>0, <1>2, <1>3 DEF OrderIsExact, CountInv

\* orderLocked answers for every set of manifests, and for every order in
\* which Go visits a map, with an order that names a module after those it
\* depends on; and it has none only when there is none.
THEOREM OrderExact == OrderSpec => []OrderIsExact
  BY OrderStart, OrderStep, OrderAnswers, PTL DEF OrderSpec

-----------------------------------------------------------------------------
(* The start and the end of the modules                                    *)

\* The first k of an order.
Upto(o, k) == {o[j] : j \in 1 .. k}

\* Who has an order has a sorted one and stands in it.
StarterStates(d) ==
    {Idle}
    \cup [pc : {"init", "start"}, order : OrdersOf(d), at : 1 .. Size + 1]
    \cup [pc : {"undo init", "undo start"}, order : OrdersOf(d), at : 0 .. Size]
    \cup [pc : {"undo stopped", "undo dispose"}, order : OrdersOf(d), at : 1 .. Size]
    \cup [pc : {"started"}, order : OrdersOf(d), at : {Size + 1}]
    \cup [pc : {"failed"}, order : OrdersOf(d), at : {0}]
StopperStates(d) ==
    {Idle}
    \cup [pc : {"stop", "dispose"}, order : OrdersOf(d), at : 0 .. Size]
    \cup [pc : {"stopped"}, order : OrdersOf(d), at : 1 .. Size]
    \cup [pc : {"done"}, order : OrdersOf(d), at : {0}]

LifeTypes ==
    /\ deps \in [Module -> SUBSET Module] /\ Serial \in deps[Server]
    /\ initialised \subseteq Module /\ up \subseteq Module
    /\ overlapped \in BOOLEAN
    /\ starter \in StarterStates(deps) /\ stopper \in StopperStates(deps)
    /\ stopper.pc = "idle" => ~overlapped

\* What runs, and what is initialised, is what the starter says
StarterInv ==
    /\ starter.pc \in {"idle", "init", "undo init", "failed"} => up = {}
    /\ starter.pc \in {"start", "undo stopped", "undo dispose"} => up = Upto(starter.order, starter.at - 1)
    /\ starter.pc = "undo start" => up = Upto(starter.order, starter.at)
    /\ starter.pc = "started" => up = Module
    /\ starter.pc = "idle" => initialised = {}
    /\ starter.pc = "init" => initialised \subseteq Upto(starter.order, starter.at - 1)
    /\ starter.pc = "undo init" => initialised \subseteq Upto(starter.order, starter.at)

\* or, when the shutdown has begun, what the stopper says.
StopperInv ==
    /\ starter.pc \in {"started", "failed"}
    /\ stopper.pc = "stop" => up = {} \/ up = Upto(stopper.order, stopper.at)
    /\ stopper.pc = "stopped" => up = {} \/ up = Upto(stopper.order, stopper.at - 1)
    /\ stopper.pc \in {"dispose", "done"} => up = {}
    /\ stopper.pc = "dispose" => initialised \subseteq Upto(stopper.order, stopper.at)
    /\ stopper.pc = "done" => initialised = {}

\* The MCP server waits for its requests, and the serial module runs on.
Waiting ==
    /\ Serial \in up
    /\ \/ starter.pc = "undo stopped" /\ Current(starter) = Server
       \/ stopper.pc = "stopped" /\ Current(stopper) = Server

\* Requests are served by a server that runs, and ports are open in a serial
\* module that runs, but for requests that were not waited for.
ServedInv ==
    /\ Server \notin up /\ ~Waiting => requests \subseteq late
    /\ Serial \notin up => ports \subseteq late

\* What runs has what it depends on.
Closed == \A m \in up : deps[m] \subseteq up

\* The invariant: a shutdown that overlaps the start promises none of it.
LifeInv ==
    /\ LifeTypes
    /\ ~overlapped =>
        /\ stopper.pc = "idle" => StarterInv
        /\ stopper.pc # "idle" => StopperInv
        /\ ServedInv

-----------------------------------------------------------------------------
\* The registry has a number of modules.
LEMMA SizeType == Size \in Nat
  BY ModuleAssumption, FS_CardinalityType DEF Size

\* A module comes after those it depends on.
LEMMA SortedUpto ==
    ASSUME NEW d \in [Module -> SUBSET Module], NEW o \in OrdersOf(d)
    PROVE  /\ Size \in Nat /\ Upto(o, 0) = {} /\ Upto(o, Size) = Module
           /\ \A k \in 1 .. Size :
                /\ o[k] \in Module /\ o[k] \notin Upto(o, k - 1) /\ Upto(o, k) = Upto(o, k - 1) \cup {o[k]}
                /\ d[o[k]] \subseteq Upto(o, k - 1)
           /\ \A k \in 0 .. Size : Upto(o, k) \subseteq Module /\ \A m \in Upto(o, k) : d[m] \subseteq Upto(o, k)
<1>1. Size \in Nat
  BY ModuleAssumption, FS_CardinalityType DEF Size
<1>2. /\ o \in [1 .. Size -> Module] /\ \A m \in Module : \E i \in 1 .. Size : o[i] = m
      /\ \A i \in 1 .. Size : d[o[i]] \subseteq Upto(o, i - 1)
  BY DEF OrdersOf, Sorted, Size, Upto
<1>3. Upto(o, 0) = {} /\ Upto(o, Size) = Module
  BY <1>1, <1>2 DEF Upto
<1>4. \A i, j \in 1 .. Size : o[i] = o[j] => i = j
  <2>1. IsFiniteSet(1 .. Size) /\ Cardinality(1 .. Size) = Size
    <3>1. IsFiniteSet(1 .. Size) /\ Cardinality(1 .. Size) = IF 1 > Size THEN 0 ELSE Size - 1 + 1
      BY <1>1, FS_Interval
    <3> QED
      BY <1>1, <3>1
  <2>2. o \in Surjection(1 .. Size, Module)
    BY <1>2 DEF Surjection
  <2>3. o \in Injection(1 .. Size, Module)
    BY <2>1, <2>2, FS_SurjSameCardinalityImpliesInj DEF Size
  <2> QED
    BY <2>3 DEF Injection, IsInjective
<1>5. ASSUME NEW k \in 1 .. Size
      PROVE  /\ o[k] \in Module /\ o[k] \notin Upto(o, k - 1) /\ Upto(o, k) = Upto(o, k - 1) \cup {o[k]}
             /\ d[o[k]] \subseteq Upto(o, k - 1)
  <2>1. 1 .. k = 1 .. k - 1 \cup {k} /\ \A j \in 1 .. k - 1 : j \in 1 .. Size /\ j # k
    BY <1>1
  <2> QED
    BY <1>2, <1>4, <2>1 DEF Upto
<1>6. ASSUME NEW k \in 0 .. Size
      PROVE  Upto(o, k) \subseteq Module /\ \A m \in Upto(o, k) : d[m] \subseteq Upto(o, k)
  <2>1. ASSUME NEW i \in 1 .. k PROVE o[i] \in Module /\ d[o[i]] \subseteq Upto(o, k)
    <3>1. i \in 1 .. Size /\ 1 .. i - 1 \subseteq 1 .. k
      BY <1>1
    <3>2. Upto(o, i - 1) \subseteq Upto(o, k)
      BY <3>1 DEF Upto
    <3> QED
      BY <1>2, <3>1, <3>2
  <2> QED
    BY <2>1 DEF Upto
<1> QED
  BY <1>1, <1>3, <1>5, <1>6

\* What the place of the starter and of the stopper says of their orders.
LEMMA StarterStands ==
    ASSUME LifeTypes
    PROVE  /\ starter = [pc |-> starter.pc, order |-> starter.order, at |-> starter.at]
           /\ starter.pc # "idle" => starter.order \in OrdersOf(deps)
           /\ starter.pc \in {"init", "start"} => starter.at \in 1 .. Size + 1
           /\ starter.pc \in {"undo init", "undo start"} => starter.at \in 0 .. Size
           /\ starter.pc \in {"undo stopped", "undo dispose"} => starter.at \in 1 .. Size
           /\ starter.pc \in {"idle", "init", "undo init", "start", "undo start",
                              "undo stopped", "undo dispose", "started", "failed"}
<1>1. starter \in StarterStates(deps)
  BY DEF LifeTypes
<1>2. CASE starter = Idle
  BY <1>2 DEF Idle
<1>3. CASE starter \in [pc : {"init", "start"}, order : OrdersOf(deps), at : 1 .. Size + 1]
  BY <1>3
<1>4. CASE starter \in [pc : {"undo init", "undo start"}, order : OrdersOf(deps), at : 0 .. Size]
  BY <1>4
<1>5. CASE starter \in [pc : {"undo stopped", "undo dispose"}, order : OrdersOf(deps), at : 1 .. Size]
  BY <1>5
<1>6. CASE starter \in [pc : {"started"}, order : OrdersOf(deps), at : {Size + 1}]
  BY <1>6
<1>7. CASE starter \in [pc : {"failed"}, order : OrdersOf(deps), at : {0}]
  BY <1>7
<1> QED
  BY <1>1, <1>2, <1>3, <1>4, <1>5, <1>6, <1>7 DEF StarterStates

\* The same of the stopper.
LEMMA StopperStands ==
    ASSUME LifeTypes
    PROVE  /\ stopper = [pc |-> stopper.pc, order |-> stopper.order, at |-> stopper.at]
           /\ stopper.pc # "idle" => stopper.order \in OrdersOf(deps)
           /\ stopper.pc \in {"stop", "dispose"} => stopper.at \in 0 .. Size
           /\ stopper.pc = "stopped" => stopper.at \in 1 .. Size
           /\ stopper.pc \in {"idle", "stop", "stopped", "dispose", "done"}
<1>1. stopper \in StopperStates(deps)
  BY DEF LifeTypes
<1>2. CASE stopper = Idle
  BY <1>2 DEF Idle
<1>3. CASE stopper \in [pc : {"stop", "dispose"}, order : OrdersOf(deps), at : 0 .. Size]
  BY <1>3
<1>4. CASE stopper \in [pc : {"stopped"}, order : OrdersOf(deps), at : 1 .. Size]
  BY <1>4
<1>5. CASE stopper \in [pc : {"done"}, order : OrdersOf(deps), at : {0}]
  BY <1>5
<1> QED
  BY <1>1, <1>2, <1>3, <1>4, <1>5 DEF StopperStates

\* Whatever runs, runs on what it depends on; and the server is not the
\* serial module.
LEMMA Runs ==
    ASSUME LifeInv, ~overlapped
    PROVE  Closed /\ (Server \in up => Serial \in up)
<1>1. LifeTypes /\ deps \in [Module -> SUBSET Module] /\ Serial \in deps[Server]
  BY DEF LifeInv, LifeTypes
<1>2. \/ up = {} \/ up = Module
      \/ \E o \in OrdersOf(deps), k \in 0 .. Size : up = Upto(o, k)
  <2>1. CASE stopper.pc = "idle"
    <3>1. StarterInv
      BY <2>1 DEF LifeInv
    <3>2. CASE starter.pc \in {"start", "undo stopped", "undo dispose"}
      <4>1. Size \in Nat /\ starter.order \in OrdersOf(deps)
        BY <1>1, <3>2, SizeType, StarterStands
      <4>2. starter.at \in 1 .. Size + 1
        <5>1. \/ starter.at \in 1 .. Size + 1
              \/ starter.at \in 1 .. Size
          BY <1>1, <3>2, StarterStands
        <5> QED
          BY <4>1, <5>1
      <4>3. starter.at - 1 \in 0 .. Size
        BY <4>1, <4>2
      <4> QED
        BY <3>1, <3>2, <4>1, <4>3 DEF StarterInv
    <3>3. CASE starter.pc = "undo start"
      BY <1>1, <3>1, <3>3, StarterStands DEF StarterInv
    <3> QED
      BY <1>1, <3>1, <3>2, <3>3, StarterStands DEF StarterInv
  <2>2. CASE stopper.pc # "idle"
    <3>1. StopperInv
      BY <2>2 DEF LifeInv
    <3>2. CASE stopper.pc = "stopped"
      <4>1. stopper.at \in 1 .. Size /\ Size \in Nat /\ stopper.order \in OrdersOf(deps)
        BY <1>1, <3>2, SizeType, StopperStands
      <4>2. stopper.at - 1 \in 0 .. Size
        BY <4>1
      <4> QED
        BY <3>1, <3>2, <4>1, <4>2 DEF StopperInv
    <3>3. CASE stopper.pc = "stop"
      <4>1. stopper.order \in OrdersOf(deps) /\ stopper.at \in 0 .. Size
        BY <1>1, <2>2, <3>3, StopperStands
      <4> QED
        BY <3>1, <3>3, <4>1 DEF StopperInv
    <3> QED
      BY <1>1, <2>2, <3>1, <3>2, <3>3, StopperStands DEF StopperInv
  <2> QED
    BY <2>1, <2>2
<1>3. Closed
  BY <1>1, <1>2, SortedUpto DEF Closed
<1> QED
  BY <1>1, <1>3 DEF Closed

\* The starter acts while the shutdown has not begun, or the two overlap.
LEMMA StarterActs ==
    ASSUME LifeInv, ~overlapped, starter.pc \notin {"started", "failed"}
    PROVE  stopper.pc = "idle" /\ StarterInv /\ ServedInv
  BY DEF LifeInv, StopperInv

\* A step of the starter to a place there is in its order.
LEMMA StarterGoes ==
    ASSUME LifeTypes, starter.pc # "idle", NEW p, NEW k, StarterTo(p, k),
           \/ p \in {"init", "start"} /\ k \in 1 .. Size + 1
           \/ p \in {"undo init", "undo start"} /\ k \in 0 .. Size
           \/ p \in {"undo stopped", "undo dispose"} /\ k \in 1 .. Size
           \/ p = "started" /\ k = Size + 1
           \/ p = "failed" /\ k = 0
    PROVE  /\ starter' \in StarterStates(deps)
           /\ starter'.pc = p /\ starter'.order = starter.order /\ starter'.at = k
<1>1. starter.order \in OrdersOf(deps)
  BY StarterStands
<1>2. starter' = [pc |-> p, order |-> starter.order, at |-> k]
  <2>1. starter = [pc |-> starter.pc, order |-> starter.order, at |-> starter.at]
    BY StarterStands
  <2>2. starter' = [starter EXCEPT !.pc = p, !.at = k]
    BY DEF StarterTo
  <2> QED
    BY <2>1, <2>2
<1> QED
  BY <1>1, <1>2 DEF StarterStates

\* A step of the stopper to a place there is in its order.
LEMMA StopperGoes ==
    ASSUME LifeTypes, stopper.pc # "idle", NEW p, NEW k, StopperTo(p, k),
           \/ p \in {"stop", "dispose"} /\ k \in 0 .. Size
           \/ p = "stopped" /\ k \in 1 .. Size
           \/ p = "done" /\ k = 0
    PROVE  /\ stopper' \in StopperStates(deps)
           /\ stopper'.pc = p /\ stopper'.order = stopper.order /\ stopper'.at = k
<1>1. stopper.order \in OrdersOf(deps)
  BY StopperStands
<1>2. stopper' = [pc |-> p, order |-> stopper.order, at |-> k]
  <2>1. stopper = [pc |-> stopper.pc, order |-> stopper.order, at |-> stopper.at]
    BY StopperStands
  <2>2. stopper' = [stopper EXCEPT !.pc = p, !.at = k]
    BY DEF StopperTo
  <2> QED
    BY <2>1, <2>2
<1> QED
  BY <1>1, <1>2 DEF StopperStates

\* The last of those that run goes first, and the server before the serial
\* module.
LEMMA GoesLast ==
    ASSUME LifeTypes, NEW o \in OrdersOf(deps), NEW k \in 1 .. Size, up' = up \ {o[k]}
    PROVE  /\ up' \subseteq Module
           /\ up = Upto(o, k) => up' = Upto(o, k - 1)
           /\ up = Upto(o, k - 1) => up' = up
           /\ up = {} => up' = {}
           /\ up = Upto(o, k) /\ Server \in up /\ o[k] = Server => Serial \in up'
<1>1. deps \in [Module -> SUBSET Module] /\ Serial \in deps[Server] /\ up \subseteq Module
  BY DEF LifeTypes
<1>2. /\ o[k] \in Module /\ o[k] \notin Upto(o, k - 1) /\ Upto(o, k) = Upto(o, k - 1) \cup {o[k]}
      /\ deps[o[k]] \subseteq Upto(o, k - 1)
  BY <1>1, SortedUpto
<1> QED
  BY <1>1, <1>2

\* Nothing runs at first.
LEMMA LifeStart == AppInit => LifeInv
<1> SUFFICES ASSUME AppInit PROVE LifeInv
  OBVIOUS
<1>1. Size \in Nat
  BY SizeType
<1>2. starter = Idle /\ stopper = Idle /\ up = {} /\ initialised = {} /\ requests = {} /\ ports = {} /\ overlapped = FALSE
  BY DEF AppInit, NothingRuns
<1>3. LifeTypes
  BY <1>2 DEF AppInit, LifeTypes, StarterStates, StopperStates, Idle
<1> QED
  BY <1>2, <1>3 DEF LifeInv, StarterInv, ServedInv, Idle

\* The invariant says what LifecycleIsClean does.
LEMMA LifeDelivers == LifeInv => LifecycleIsClean
<1> SUFFICES ASSUME LifeInv, ~overlapped
             PROVE  /\ \A m \in up : deps[m] \subseteq up
                    /\ starter.pc \in {"undo init", "failed"} /\ starter.at = 0 /\ stopper = Idle =>
                        up = {} /\ (ports \subseteq late)
                    /\ starter.pc = "undo init" /\ starter.at = 0 => initialised = {}
                    /\ stopper.pc = "done" => initialised = {} /\ up = {} /\ ports \subseteq late
  BY DEF LifecycleIsClean
<1>1. \A m \in up : deps[m] \subseteq up
  BY Runs DEF Closed
<1>2. ASSUME starter.pc \in {"undo init", "failed"}, stopper = Idle PROVE up = {} /\ ports \subseteq late
  <2>1. up = {}
    BY <1>2 DEF LifeInv, StarterInv, Idle
  <2> QED
    BY <2>1 DEF LifeInv, ServedInv
<1>3. ASSUME starter.pc = "undo init", starter.at = 0 PROVE initialised = {}
  <2>1. starter.order \in OrdersOf(deps) /\ deps \in [Module -> SUBSET Module]
    BY <1>3, StarterStands DEF LifeInv, LifeTypes
  <2>2. Upto(starter.order, 0) = {}
    BY <2>1, SortedUpto
  <2> QED
    BY <1>3, <2>2 DEF LifeInv, StarterInv, StopperInv
<1>4. ASSUME stopper.pc = "done" PROVE initialised = {} /\ up = {} /\ ports \subseteq late
  BY <1>4 DEF LifeInv, StopperInv, ServedInv
<1> QED
  BY <1>1, <1>2, <1>3, <1>4

\* A step of the starter keeps the types.
LEMMA StarterKeepsTypes ==
    ASSUME LifeTypes, starter' \in StarterStates(deps), initialised' \subseteq Module, up' \subseteq Module,
           UNCHANGED <<deps, stopper, overlapped>>
    PROVE  LifeTypes'
  BY DEF LifeTypes

\* A step of the stopper keeps them.
LEMMA StopperKeepsTypes ==
    ASSUME LifeTypes, stopper' \in StopperStates(deps), stopper'.pc # "idle",
           initialised' \subseteq Module, up' \subseteq Module, UNCHANGED <<deps, starter, overlapped>>
    PROVE  LifeTypes'
  BY DEF LifeTypes

\* InitAll and its rollback.
LEMMA InitStep ==
    ASSUME LifeInv, BeginInit \/ BeginStart \/ InitModule \/ InitFails \/ UndoInit
    PROVE  LifeInv'
<1>0. LifeTypes /\ deps \in [Module -> SUBSET Module] /\ Size \in Nat /\ initialised \subseteq Module /\ up \subseteq Module
  BY SizeType DEF LifeInv, LifeTypes
<1>1. CASE BeginInit
  <2>1. PICK o \in OrdersOf(deps) : starter' = [pc |-> "init", order |-> o, at |-> 1]
    BY <1>1 DEF BeginInit, Order
  <2>2. /\ starter.pc = "idle" /\ UNCHANGED <<deps, resources, stopper, overlapped>>
        /\ starter'.pc = "init"
    BY <1>1, <2>1 DEF BeginInit, Order
  <2>3. 1 \in 1 .. Size + 1
    BY <1>0
  <2>4. starter' \in StarterStates(deps)
    BY <2>1, <2>3 DEF StarterStates
  <2>5. LifeTypes'
    BY <1>0, <2>2, <2>4, StarterKeepsTypes DEF resources
  <2>6. ASSUME ~overlapped PROVE stopper.pc = "idle" /\ StarterInv' /\ ServedInv'
    <3>1. stopper.pc = "idle" /\ StarterInv /\ ServedInv
      BY <2>2, <2>6, StarterActs
    <3>2. StarterInv'
      BY <2>2, <3>1 DEF StarterInv, resources
    <3>3. ServedInv'
      BY <2>2, <3>1 DEF ServedInv, Waiting, resources
    <3> QED
      BY <3>1, <3>2, <3>3
  <2> QED
    BY <2>2, <2>5, <2>6 DEF LifeInv
<1>2. CASE BeginStart
  <2>1. PICK o \in OrdersOf(deps) : starter' = [pc |-> "start", order |-> o, at |-> 1]
    BY <1>2 DEF BeginStart, Order
  <2>2. /\ starter.pc = "init" /\ UNCHANGED <<deps, resources, stopper, overlapped>>
        /\ starter'.pc = "start" /\ starter'.order = o /\ starter'.at = 1
    BY <1>2, <2>1 DEF BeginStart, Order
  <2>3. 1 \in 1 .. Size + 1
    BY <1>0
  <2>4. starter' \in StarterStates(deps)
    BY <2>1, <2>3 DEF StarterStates
  <2>5. LifeTypes'
    BY <1>0, <2>2, <2>4, StarterKeepsTypes DEF resources
  <2>6. ASSUME ~overlapped PROVE stopper.pc = "idle" /\ StarterInv' /\ ServedInv'
    <3>1. stopper.pc = "idle" /\ StarterInv /\ ServedInv
      BY <2>2, <2>6, StarterActs
    <3>2. StarterInv'
      <4>1. up = {} /\ Upto(o, 0) = {}
        BY <1>0, <2>1, <2>2, <3>1, SortedUpto DEF StarterInv
      <4>2. up' = Upto(starter'.order, starter'.at - 1)
        BY <2>2, <4>1 DEF resources
      <4> QED
        BY <2>2, <4>2 DEF StarterInv
    <3>3. ServedInv'
      BY <2>2, <3>1 DEF ServedInv, Waiting, resources
    <3> QED
      BY <3>1, <3>2, <3>3
  <2> QED
    BY <2>2, <2>5, <2>6 DEF LifeInv
<1>3. CASE InitModule
  <2> DEFINE k == starter.at
             o == starter.order
  <2>1. /\ starter.pc = "init" /\ k <= Size /\ o \in OrdersOf(deps) /\ k \in 1 .. Size + 1
        /\ initialised' = initialised \cup {o[k]} /\ StarterTo("init", k + 1)
        /\ UNCHANGED <<deps, up, stopper, requests, ports, late, overlapped>>
    BY <1>0, <1>3, StarterStands DEF InitModule, Current
  <2>2. k \in 1 .. Size /\ k + 1 \in 1 .. Size + 1 /\ (k + 1) - 1 = k
    BY <1>0, <2>1
  <2>3. starter' \in StarterStates(deps) /\ starter'.pc = "init" /\ starter'.order = o /\ starter'.at = k + 1
    BY <1>0, <2>1, <2>2, StarterGoes
  <2>4. o[k] \in Module /\ Upto(o, k) = Upto(o, k - 1) \cup {o[k]}
    BY <1>0, <2>1, <2>2, SortedUpto
  <2>5. LifeTypes'
    BY <1>0, <2>1, <2>3, <2>4, StarterKeepsTypes
  <2>6. ASSUME ~overlapped PROVE stopper.pc = "idle" /\ StarterInv' /\ ServedInv'
    <3>1. stopper.pc = "idle" /\ StarterInv /\ ServedInv
      BY <2>1, <2>6, StarterActs
    <3>2. StarterInv'
      <4>1. initialised' \subseteq Upto(starter'.order, starter'.at - 1)
        BY <2>1, <2>2, <2>3, <2>4, <3>1 DEF StarterInv
      <4> QED
        BY <2>1, <2>3, <3>1, <4>1 DEF StarterInv
    <3>3. ServedInv'
      BY <2>1, <2>3, <3>1 DEF ServedInv, Waiting
    <3> QED
      BY <3>1, <3>2, <3>3
  <2> QED
    BY <2>1, <2>5, <2>6 DEF LifeInv
<1>4. CASE InitFails \/ UndoInit
  <2> DEFINE k == starter.at
             o == starter.order
  <2>1. /\ starter.pc \in {"init", "undo init"} /\ o \in OrdersOf(deps)
        /\ Dispose(o[k]) /\ StarterTo("undo init", k - 1) /\ UNCHANGED <<deps, stopper, overlapped>>
    BY <1>0, <1>4, StarterStands DEF InitFails, UndoInit, Current
  <2>2. k \in 1 .. Size /\ k - 1 \in 0 .. Size
    <3>1. CASE InitFails
      <4>1. starter.pc = "init" /\ k <= Size
        BY <3>1 DEF InitFails
      <4>2. k \in 1 .. Size + 1
        BY <1>0, <4>1, StarterStands
      <4> QED
        BY <1>0, <4>1, <4>2
    <3>2. CASE UndoInit
      <4>1. starter.pc = "undo init" /\ k > 0
        BY <3>2 DEF UndoInit
      <4>2. k \in 0 .. Size
        BY <1>0, <4>1, StarterStands
      <4>3. \A j \in 0 .. Size : j > 0 => j \in 1 .. Size /\ j - 1 \in 0 .. Size
        BY <1>0
      <4> QED
        BY <4>1, <4>2, <4>3
    <3> QED
      BY <1>4, <3>1, <3>2
  <2>3. starter' \in StarterStates(deps) /\ starter'.pc = "undo init" /\ starter'.order = o /\ starter'.at = k - 1
    BY <1>0, <2>1, <2>2, StarterGoes
  <2>4. /\ initialised' = initialised \ {o[k]} /\ up' = up \ {o[k]} /\ ports' \in {{}, ports}
        /\ UNCHANGED <<requests, late>>
    BY <2>1 DEF Dispose
  <2>5. LifeTypes'
    BY <1>0, <2>1, <2>3, <2>4, StarterKeepsTypes
  <2>6. ASSUME ~overlapped PROVE stopper.pc = "idle" /\ StarterInv' /\ ServedInv'
    <3>1. stopper.pc = "idle" /\ StarterInv /\ ServedInv
      BY <2>1, <2>6, StarterActs
    <3>2. up = {} /\ up' = {}
      BY <2>1, <2>4, <3>1 DEF StarterInv
    <3>3. initialised \subseteq Upto(o, k)
      <4>1. Upto(o, k) = Upto(o, k - 1) \cup {o[k]}
        BY <1>0, <2>1, <2>2, SortedUpto
      <4> QED
        BY <2>1, <3>1, <4>1 DEF StarterInv
    <3>4. Upto(o, k) = Upto(o, k - 1) \cup {o[k]}
      BY <1>0, <2>1, <2>2, SortedUpto
    <3>5. initialised' \subseteq Upto(starter'.order, starter'.at)
      BY <2>3, <2>4, <3>3, <3>4
    <3>6. StarterInv'
      BY <2>3, <3>2, <3>5 DEF StarterInv
    <3>7. ServedInv'
      BY <2>1, <2>4, <3>1, <3>2 DEF ServedInv, Waiting
    <3> QED
      BY <3>1, <3>6, <3>7
  <2> QED
    BY <2>1, <2>5, <2>6 DEF LifeInv
<1> QED
  BY <1>1, <1>2, <1>3, <1>4

\* StartAll, and its rollback but for the steps of a module.
LEMMA StartAllStep ==
    ASSUME LifeInv, StartModule \/ StartFails \/ EndStart
    PROVE  LifeInv'
<1> DEFINE k == starter.at
           o == starter.order
<1>0. LifeTypes /\ deps \in [Module -> SUBSET Module] /\ Size \in Nat /\ initialised \subseteq Module /\ up \subseteq Module
  BY SizeType DEF LifeInv, LifeTypes
<1>1. CASE StartModule
  <2>1. /\ starter.pc = "start" /\ k <= Size /\ o \in OrdersOf(deps) /\ k \in 1 .. Size + 1
        /\ up' = up \cup {o[k]} /\ initialised' = initialised \cup {o[k]} /\ StarterTo("start", k + 1)
        /\ UNCHANGED <<deps, stopper, requests, ports, late, overlapped>>
    BY <1>0, <1>1, StarterStands DEF StartModule, Current
  <2>2. k \in 1 .. Size /\ k + 1 \in 1 .. Size + 1 /\ (k + 1) - 1 = k
    BY <1>0, <2>1
  <2>3. starter' \in StarterStates(deps) /\ starter'.pc = "start" /\ starter'.order = o /\ starter'.at = k + 1
    BY <1>0, <2>1, <2>2, StarterGoes
  <2>4. o[k] \in Module /\ Upto(o, k) = Upto(o, k - 1) \cup {o[k]}
    BY <1>0, <2>1, <2>2, SortedUpto
  <2>5. LifeTypes'
    BY <1>0, <2>1, <2>3, <2>4, StarterKeepsTypes
  <2>6. ASSUME ~overlapped PROVE stopper.pc = "idle" /\ StarterInv' /\ ServedInv'
    <3>1. stopper.pc = "idle" /\ StarterInv /\ ServedInv
      BY <2>1, <2>6, StarterActs
    <3>2. StarterInv'
      <4>1. up' = Upto(starter'.order, starter'.at - 1)
        BY <2>1, <2>2, <2>3, <2>4, <3>1 DEF StarterInv
      <4> QED
        BY <2>3, <4>1 DEF StarterInv
    <3>3. ServedInv'
      BY <2>1, <2>3, <3>1 DEF ServedInv, Waiting
    <3> QED
      BY <3>1, <3>2, <3>3
  <2> QED
    BY <2>1, <2>5, <2>6 DEF LifeInv
<1>2. CASE StartFails
  <2>1. /\ starter.pc = "start" /\ k <= Size /\ o \in OrdersOf(deps) /\ k \in 1 .. Size + 1
        /\ StarterTo("undo start", k - 1) /\ UNCHANGED <<deps, resources, stopper, overlapped>>
    BY <1>0, <1>2, StarterStands DEF StartFails
  <2>2. k - 1 \in 0 .. Size
    <3>1. \A j \in 1 .. Size + 1 : j - 1 \in 0 .. Size
      BY <1>0
    <3> QED
      BY <2>1, <3>1
  <2>3. starter' \in StarterStates(deps) /\ starter'.pc = "undo start" /\ starter'.order = o /\ starter'.at = k - 1
    BY <1>0, <2>1, <2>2, StarterGoes
  <2>4. LifeTypes'
    BY <1>0, <2>1, <2>3, StarterKeepsTypes DEF resources
  <2>5. ASSUME ~overlapped PROVE stopper.pc = "idle" /\ StarterInv' /\ ServedInv'
    <3>1. stopper.pc = "idle" /\ StarterInv /\ ServedInv
      BY <2>1, <2>5, StarterActs
    <3>2. StarterInv'
      <4>1. up' = Upto(starter'.order, starter'.at)
        BY <2>1, <2>3, <3>1 DEF StarterInv, resources
      <4> QED
        BY <2>3, <4>1 DEF StarterInv
    <3>3. ServedInv'
      BY <2>1, <2>3, <3>1 DEF ServedInv, Waiting, resources
    <3> QED
      BY <3>1, <3>2, <3>3
  <2> QED
    BY <2>1, <2>4, <2>5 DEF LifeInv
<1>3. CASE EndStart
  <2>0. UNCHANGED <<deps, resources, stopper, overlapped>>
    BY <1>3 DEF EndStart
  <2>1. CASE starter.pc = "start" /\ k > Size /\ StarterTo("started", k)
    <3>1. k \in 1 .. Size + 1 /\ o \in OrdersOf(deps)
      BY <1>0, <2>1, StarterStands
    <3>2. k = Size + 1 /\ k - 1 = Size
      BY <1>0, <2>1, <3>1
    <3>3. starter' \in StarterStates(deps) /\ starter'.pc = "started"
      BY <1>0, <2>1, <3>2, StarterGoes
    <3>4. LifeTypes'
      BY <1>0, <2>0, <3>3, StarterKeepsTypes DEF resources
    <3>5. ASSUME ~overlapped PROVE stopper.pc = "idle" /\ StarterInv' /\ ServedInv'
      <4>1. stopper.pc = "idle" /\ StarterInv /\ ServedInv
        BY <2>1, <3>5, StarterActs
      <4>2. Upto(o, Size) = Module
        BY <1>0, <3>1, SortedUpto
      <4>3. up' = Module
        BY <2>0, <2>1, <3>2, <4>1, <4>2 DEF StarterInv, resources
      <4>4. ServedInv'
        BY <2>0, <4>3, ServerAssumption DEF ServedInv
      <4> QED
        BY <3>3, <4>1, <4>3, <4>4 DEF StarterInv
    <3> QED
      BY <2>0, <3>4, <3>5 DEF LifeInv
  <2>2. CASE starter.pc \in {"undo init", "undo start"} /\ k = 0 /\ StarterTo("failed", 0)
    <3>1. o \in OrdersOf(deps)
      BY <1>0, <2>2, StarterStands
    <3>2. starter' \in StarterStates(deps) /\ starter'.pc = "failed"
      BY <1>0, <2>2, StarterGoes
    <3>3. LifeTypes'
      BY <1>0, <2>0, <3>2, StarterKeepsTypes DEF resources
    <3>4. ASSUME ~overlapped PROVE stopper.pc = "idle" /\ StarterInv' /\ ServedInv'
      <4>1. stopper.pc = "idle" /\ StarterInv /\ ServedInv
        BY <2>2, <3>4, StarterActs
      <4>2. Upto(o, 0) = {}
        BY <1>0, <3>1, SortedUpto
      <4>3. up = {} /\ up' = {}
        BY <2>0, <2>2, <4>1, <4>2 DEF StarterInv, resources
      <4>4. ServedInv'
        BY <2>0, <2>2, <4>1, <4>3 DEF ServedInv, Waiting, resources
      <4> QED
        BY <3>2, <4>1, <4>3, <4>4 DEF StarterInv
    <3> QED
      BY <2>0, <3>3, <3>4 DEF LifeInv
  <2> QED
    BY <1>3, <2>1, <2>2 DEF EndStart
<1> QED
  BY <1>1, <1>2, <1>3

\* The rollback of StartAll: a module is stopped, and then disposed.
LEMMA UndoStep ==
    ASSUME LifeInv, UndoStart \/ UndoStopped \/ UndoDispose
    PROVE  LifeInv'
<1> DEFINE k == starter.at
           o == starter.order
<1>0. LifeTypes /\ deps \in [Module -> SUBSET Module] /\ Size \in Nat /\ initialised \subseteq Module /\ up \subseteq Module
  BY SizeType DEF LifeInv, LifeTypes
<1>1. starter.pc \in {"undo start", "undo stopped", "undo dispose"}
  BY DEF UndoStart, UndoStopped, UndoDispose
<1>2. o \in OrdersOf(deps) /\ k \in 1 .. Size
  <2>1. CASE UndoStart
    <3>1. starter.pc = "undo start" /\ k > 0
      BY <2>1 DEF UndoStart
    <3>2. k \in 0 .. Size /\ o \in OrdersOf(deps)
      BY <1>0, <3>1, StarterStands
    <3>3. \A j \in 0 .. Size : j > 0 => j \in 1 .. Size
      BY <1>0
    <3> QED
      BY <3>1, <3>2, <3>3
  <2>2. CASE UndoStopped \/ UndoDispose
    <3>1. starter.pc \in {"undo stopped", "undo dispose"}
      BY <2>2 DEF UndoStopped, UndoDispose
    <3> QED
      BY <1>0, <3>1, StarterStands
  <2> QED
    BY <2>1, <2>2
<1>3. k - 1 \in 0 .. Size /\ k \in 0 .. Size
  <2>1. \A j \in 1 .. Size : j - 1 \in 0 .. Size /\ j \in 0 .. Size
    BY <1>0
  <2> QED
    BY <1>2, <2>1
<1>4. ASSUME ~overlapped PROVE stopper.pc = "idle" /\ StarterInv /\ ServedInv
  BY <1>1, <1>4, StarterActs
<1>5. /\ o[k] \in Module /\ o[k] \notin Upto(o, k - 1) /\ Upto(o, k) = Upto(o, k - 1) \cup {o[k]}
  BY <1>0, <1>2, SortedUpto
<1>6. CASE UndoStart
  <2>1. /\ starter.pc = "undo start" /\ Stop(o[k]) /\ StarterTo("undo stopped", k)
        /\ UNCHANGED <<deps, stopper, overlapped>>
    BY <1>6 DEF UndoStart, Current
  <2>2. /\ up' = up \ {o[k]} /\ ports' = (IF o[k] = Serial THEN {} ELSE ports)
        /\ UNCHANGED <<initialised, requests, late>>
    BY <2>1 DEF Stop
  <2>3. /\ starter' \in StarterStates(deps)
        /\ starter'.pc = "undo stopped" /\ starter'.order = o /\ starter'.at = k
    BY <1>0, <1>2, <2>1, StarterGoes
  <2>4. LifeTypes'
    BY <1>0, <2>1, <2>2, <2>3, StarterKeepsTypes
  <2>5. ASSUME ~overlapped PROVE stopper.pc = "idle" /\ StarterInv' /\ ServedInv'
    <3>1. stopper.pc = "idle" /\ StarterInv /\ ServedInv
      BY <1>4, <2>5
    <3>2. up = Upto(o, k)
      BY <2>1, <3>1 DEF StarterInv
    <3>3. up' = Upto(o, k - 1) /\ (Server \in up /\ o[k] = Server => Serial \in up')
      BY <1>0, <1>2, <2>2, <3>2, GoesLast
    <3>4. StarterInv'
      <4>1. up' = Upto(starter'.order, starter'.at - 1)
        BY <2>3, <3>3
      <4> QED
        BY <2>3, <4>1 DEF StarterInv
    <3>5. ServedInv'
      <4>1. ASSUME Server \notin up', ~Waiting' PROVE requests' \subseteq late'
        <5>1. Server \notin up
          <6>1. CASE o[k] = Server
            BY <2>3, <3>3, <4>1, <6>1 DEF Waiting, Current
          <6>2. CASE o[k] # Server
            BY <2>2, <4>1, <6>2
          <6> QED
            BY <6>1, <6>2
        <5>2. ~Waiting
          BY <2>1, <3>1 DEF Waiting
        <5> QED
          BY <2>2, <3>1, <5>1, <5>2 DEF ServedInv
      <4>2. ASSUME Serial \notin up' PROVE ports' \subseteq late'
        BY <2>2, <3>1, <4>2 DEF ServedInv
      <4> QED
        BY <4>1, <4>2 DEF ServedInv
    <3> QED
      BY <3>1, <3>4, <3>5
  <2> QED
    BY <2>1, <2>4, <2>5 DEF LifeInv
<1>7. CASE UndoStopped
  <2>1. /\ starter.pc = "undo stopped" /\ Stopped(o[k]) /\ StarterTo("undo dispose", k)
        /\ UNCHANGED <<deps, stopper, overlapped>>
    BY <1>7 DEF UndoStopped, Current
  <2>2. late' = (IF o[k] = Server THEN late \cup requests ELSE late) /\ UNCHANGED <<initialised, up, requests, ports>>
    BY <2>1 DEF Stopped
  <2>3. /\ starter' \in StarterStates(deps)
        /\ starter'.pc = "undo dispose" /\ starter'.order = o /\ starter'.at = k
    BY <1>0, <1>2, <2>1, StarterGoes
  <2>4. LifeTypes'
    BY <1>0, <2>1, <2>2, <2>3, StarterKeepsTypes
  <2>5. ASSUME ~overlapped PROVE stopper.pc = "idle" /\ StarterInv' /\ ServedInv'
    <3>1. stopper.pc = "idle" /\ StarterInv /\ ServedInv
      BY <1>4, <2>5
    <3>2. StarterInv'
      <4>1. up' = Upto(starter'.order, starter'.at - 1)
        BY <2>1, <2>2, <2>3, <3>1 DEF StarterInv
      <4> QED
        BY <2>3, <4>1 DEF StarterInv
    <3>3. ServedInv'
      <4>1. ASSUME Server \notin up' PROVE requests' \subseteq late'
        <5>1. CASE o[k] = Server
          BY <2>2, <5>1
        <5>2. CASE o[k] # Server
          <6>1. ~Waiting
            BY <3>1, <5>2 DEF Waiting, Current
          <6> QED
            BY <2>2, <3>1, <4>1, <5>2, <6>1 DEF ServedInv
        <5> QED
          BY <5>1, <5>2
      <4>2. ASSUME Serial \notin up' PROVE ports' \subseteq late'
        BY <2>2, <3>1, <4>2 DEF ServedInv
      <4> QED
        BY <4>1, <4>2 DEF ServedInv
    <3> QED
      BY <3>1, <3>2, <3>3
  <2> QED
    BY <2>1, <2>4, <2>5 DEF LifeInv
<1>8. CASE UndoDispose
  <2>1. /\ starter.pc = "undo dispose" /\ Dispose(o[k]) /\ StarterTo("undo start", k - 1)
        /\ UNCHANGED <<deps, stopper, overlapped>>
    BY <1>8 DEF UndoDispose, Current
  <2>2. /\ initialised' = initialised \ {o[k]} /\ up' = up \ {o[k]} /\ ports' \in {{}, ports}
        /\ UNCHANGED <<requests, late>>
    BY <2>1 DEF Dispose
  <2>3. /\ starter' \in StarterStates(deps)
        /\ starter'.pc = "undo start" /\ starter'.order = o /\ starter'.at = k - 1
    BY <1>0, <1>3, <2>1, StarterGoes
  <2>4. LifeTypes'
    BY <1>0, <2>1, <2>2, <2>3, StarterKeepsTypes
  <2>5. ASSUME ~overlapped PROVE stopper.pc = "idle" /\ StarterInv' /\ ServedInv'
    <3>1. stopper.pc = "idle" /\ StarterInv /\ ServedInv
      BY <1>4, <2>5
    <3>2. up = Upto(o, k - 1) /\ up' = up
      BY <1>5, <2>1, <2>2, <3>1 DEF StarterInv
    <3>3. StarterInv'
      <4>1. up' = Upto(starter'.order, starter'.at)
        BY <2>3, <3>2
      <4> QED
        BY <2>3, <4>1 DEF StarterInv
    <3>4. ~Waiting
      BY <2>1, <3>1 DEF Waiting
    <3>5. ServedInv'
      BY <2>2, <3>1, <3>2, <3>4 DEF ServedInv
    <3> QED
      BY <3>1, <3>3, <3>5
  <2> QED
    BY <2>1, <2>4, <2>5 DEF LifeInv
<1> QED
  BY <1>6, <1>7, <1>8

\* The shutdown begins: StopAll, and then DisposeAll.
LEMMA ShutdownStep ==
    ASSUME LifeInv, BeginStop \/ BeginDispose \/ EndStop
    PROVE  LifeInv'
<1>0. LifeTypes /\ deps \in [Module -> SUBSET Module] /\ Size \in Nat /\ initialised \subseteq Module /\ up \subseteq Module
  BY SizeType DEF LifeInv, LifeTypes
<1>00. Size \in 0 .. Size /\ 0 \in 0 .. Size
  BY <1>0
<1>1. CASE BeginStop
  <2>1. PICK o \in OrdersOf(deps) : stopper' = [pc |-> "stop", order |-> o, at |-> Size]
    BY <1>1 DEF BeginStop
  <2>2. /\ stopper.pc = "idle" /\ overlapped' = (starter.pc \notin {"started", "failed"})
        /\ UNCHANGED <<deps, resources, starter>>
        /\ stopper'.pc = "stop" /\ stopper'.order = o /\ stopper'.at = Size
    BY <1>1, <2>1 DEF BeginStop
  <2>3. stopper' \in StopperStates(deps)
    BY <2>1, <1>00 DEF StopperStates
  <2>4. LifeTypes'
    BY <1>0, <2>2, <2>3 DEF LifeTypes, resources
  <2>5. ASSUME ~overlapped' PROVE StopperInv' /\ ServedInv'
    <3>1. ~overlapped /\ starter.pc \in {"started", "failed"}
      BY <1>0, <2>2, <2>5 DEF LifeTypes
    <3>2. StarterInv /\ ServedInv
      BY <2>2, <3>1 DEF LifeInv
    <3>3. up = {} \/ up = Upto(o, Size)
      BY <1>0, <2>1, <3>1, <3>2, SortedUpto DEF StarterInv
    <3>4. StopperInv'
      <4>1. up' = {} \/ up' = Upto(stopper'.order, stopper'.at)
        BY <2>2, <3>3 DEF resources
      <4> QED
        BY <2>2, <3>1, <4>1 DEF StopperInv
    <3>5. ServedInv'
      BY <2>2, <3>1, <3>2 DEF ServedInv, Waiting, resources
    <3> QED
      BY <3>4, <3>5
  <2> QED
    BY <2>2, <2>4, <2>5 DEF LifeInv
<1>2. CASE BeginDispose
  <2>1. PICK o \in OrdersOf(deps) : stopper' = [pc |-> "dispose", order |-> o, at |-> Size]
    BY <1>2 DEF BeginDispose
  <2>2. /\ stopper.pc = "stop" /\ stopper.at = 0
        /\ UNCHANGED <<deps, resources, starter, overlapped>>
        /\ stopper'.pc = "dispose" /\ stopper'.order = o /\ stopper'.at = Size
    BY <1>2, <2>1 DEF BeginDispose
  <2>3. stopper' \in StopperStates(deps)
    BY <2>1, <1>00 DEF StopperStates
  <2>4. LifeTypes'
    BY <1>0, <2>2, <2>3, StopperKeepsTypes DEF resources
  <2>5. ASSUME ~overlapped PROVE StopperInv' /\ ServedInv'
    <3>1. StopperInv /\ ServedInv
      BY <2>2, <2>5 DEF LifeInv
    <3>2. stopper.order \in OrdersOf(deps)
      BY <1>0, <2>2, StopperStands
    <3>3. up = {} /\ Upto(o, Size) = Module
      BY <1>0, <2>1, <2>2, <3>1, <3>2, SortedUpto DEF StopperInv
    <3>4. StopperInv'
      <4>1. up' = {} /\ initialised' \subseteq Upto(stopper'.order, stopper'.at)
        BY <1>0, <2>2, <3>3 DEF resources
      <4> QED
        BY <2>2, <3>1, <4>1 DEF StopperInv
    <3>5. ServedInv'
      BY <2>2, <3>1, <3>3 DEF ServedInv, Waiting, resources
    <3> QED
      BY <3>4, <3>5
  <2> QED
    BY <2>2, <2>4, <2>5 DEF LifeInv
<1>3. CASE EndStop
  <2>1. /\ stopper.pc = "dispose" /\ stopper.at = 0 /\ StopperTo("done", 0)
        /\ UNCHANGED <<deps, resources, starter, overlapped>>
    BY <1>3 DEF EndStop
  <2>2. stopper' \in StopperStates(deps) /\ stopper'.pc = "done"
    BY <1>0, <2>1, StopperGoes
  <2>3. LifeTypes'
    BY <1>0, <2>1, <2>2, StopperKeepsTypes DEF resources
  <2>4. ASSUME ~overlapped PROVE StopperInv' /\ ServedInv'
    <3>1. StopperInv /\ ServedInv
      BY <2>1, <2>4 DEF LifeInv
    <3>2. stopper.order \in OrdersOf(deps)
      BY <1>0, <2>1, StopperStands
    <3>3. up = {} /\ initialised = {}
      BY <1>0, <2>1, <3>1, <3>2, SortedUpto DEF StopperInv
    <3>4. StopperInv'
      BY <2>1, <2>2, <3>1, <3>3 DEF StopperInv, resources
    <3>5. ServedInv'
      BY <2>1, <3>1, <3>3 DEF ServedInv, Waiting, resources
    <3> QED
      BY <3>4, <3>5
  <2> QED
    BY <2>1, <2>2, <2>3, <2>4 DEF LifeInv
<1> QED
  BY <1>1, <1>2, <1>3

\* The steps of StopAll and DisposeAll for a module.
LEMMA StopperStep ==
    ASSUME LifeInv, StopModule \/ ModuleStopped \/ DisposeModule
    PROVE  LifeInv'
<1> DEFINE k == stopper.at
           o == stopper.order
<1>0. LifeTypes /\ deps \in [Module -> SUBSET Module] /\ Size \in Nat /\ initialised \subseteq Module /\ up \subseteq Module
  BY SizeType DEF LifeInv, LifeTypes
<1>1. stopper.pc \in {"stop", "stopped", "dispose"}
  BY DEF StopModule, ModuleStopped, DisposeModule
<1>2. o \in OrdersOf(deps) /\ k \in 1 .. Size
  <2>1. CASE StopModule \/ DisposeModule
    <3>1. stopper.pc \in {"stop", "dispose"} /\ k > 0
      BY <2>1 DEF StopModule, DisposeModule
    <3>2. k \in 0 .. Size /\ o \in OrdersOf(deps)
      BY <1>0, <3>1, StopperStands
    <3>3. \A j \in 0 .. Size : j > 0 => j \in 1 .. Size
      BY <1>0
    <3> QED
      BY <3>1, <3>2, <3>3
  <2>2. CASE ModuleStopped
    <3>1. stopper.pc = "stopped"
      BY <2>2 DEF ModuleStopped
    <3> QED
      BY <1>0, <3>1, StopperStands
  <2> QED
    BY <2>1, <2>2
<1>3. k - 1 \in 0 .. Size
  <2>1. \A j \in 1 .. Size : j - 1 \in 0 .. Size
    BY <1>0
  <2> QED
    BY <1>2, <2>1
<1>4. ASSUME ~overlapped PROVE StopperInv /\ ServedInv /\ starter.pc \in {"started", "failed"}
  BY <1>1, <1>4 DEF LifeInv, StopperInv
<1>5. /\ o[k] \in Module /\ o[k] \notin Upto(o, k - 1) /\ Upto(o, k) = Upto(o, k - 1) \cup {o[k]}
  BY <1>0, <1>2, SortedUpto
<1>6. CASE StopModule
  <2>1. /\ stopper.pc = "stop" /\ Stop(o[k]) /\ StopperTo("stopped", k)
        /\ UNCHANGED <<deps, starter, overlapped>>
    BY <1>6 DEF StopModule, Current
  <2>2. /\ up' = up \ {o[k]} /\ ports' = (IF o[k] = Serial THEN {} ELSE ports)
        /\ UNCHANGED <<initialised, requests, late>>
    BY <2>1 DEF Stop
  <2>3. /\ stopper' \in StopperStates(deps)
        /\ stopper'.pc = "stopped" /\ stopper'.order = o /\ stopper'.at = k
    BY <1>0, <1>2, <2>1, StopperGoes
  <2>4. LifeTypes'
    BY <1>0, <2>1, <2>2, <2>3, StopperKeepsTypes
  <2>5. ASSUME ~overlapped PROVE StopperInv' /\ ServedInv'
    <3>1. StopperInv /\ ServedInv /\ starter.pc \in {"started", "failed"}
      BY <1>4, <2>5
    <3>2. up = {} \/ up = Upto(o, k)
      BY <2>1, <3>1 DEF StopperInv
    <3>3. (up' = {} \/ up' = Upto(o, k - 1)) /\ (Server \in up /\ o[k] = Server => Serial \in up')
      BY <1>0, <1>2, <2>2, <3>2, GoesLast
    <3>4. StopperInv'
      <4>1. up' = {} \/ up' = Upto(stopper'.order, stopper'.at - 1)
        BY <2>3, <3>3
      <4> QED
        BY <2>1, <2>3, <3>1, <4>1 DEF StopperInv
    <3>5. ServedInv'
      <4>1. ASSUME Server \notin up', ~Waiting' PROVE requests' \subseteq late'
        <5>1. Server \notin up
          <6>1. CASE o[k] = Server
            BY <2>3, <3>3, <4>1, <6>1 DEF Waiting, Current
          <6>2. CASE o[k] # Server
            BY <2>2, <4>1, <6>2
          <6> QED
            BY <6>1, <6>2
        <5>2. ~Waiting
          BY <2>1, <3>1 DEF Waiting
        <5> QED
          BY <2>2, <3>1, <5>1, <5>2 DEF ServedInv
      <4>2. ASSUME Serial \notin up' PROVE ports' \subseteq late'
        BY <2>2, <3>1, <4>2 DEF ServedInv
      <4> QED
        BY <4>1, <4>2 DEF ServedInv
    <3> QED
      BY <3>4, <3>5
  <2> QED
    BY <2>1, <2>3, <2>4, <2>5 DEF LifeInv
<1>7. CASE ModuleStopped
  <2>1. /\ stopper.pc = "stopped" /\ Stopped(o[k]) /\ StopperTo("stop", k - 1)
        /\ UNCHANGED <<deps, starter, overlapped>>
    BY <1>7 DEF ModuleStopped, Current
  <2>2. late' = (IF o[k] = Server THEN late \cup requests ELSE late) /\ UNCHANGED <<initialised, up, requests, ports>>
    BY <2>1 DEF Stopped
  <2>3. /\ stopper' \in StopperStates(deps)
        /\ stopper'.pc = "stop" /\ stopper'.order = o /\ stopper'.at = k - 1
    BY <1>0, <1>3, <2>1, StopperGoes
  <2>4. LifeTypes'
    BY <1>0, <2>1, <2>2, <2>3, StopperKeepsTypes
  <2>5. ASSUME ~overlapped PROVE StopperInv' /\ ServedInv'
    <3>1. StopperInv /\ ServedInv /\ starter.pc \in {"started", "failed"}
      BY <1>4, <2>5
    <3>2. StopperInv'
      <4>1. up' = {} \/ up' = Upto(stopper'.order, stopper'.at)
        BY <2>1, <2>2, <2>3, <3>1 DEF StopperInv
      <4> QED
        BY <2>1, <2>3, <3>1, <4>1 DEF StopperInv
    <3>3. ServedInv'
      <4>1. ASSUME Server \notin up' PROVE requests' \subseteq late'
        <5>1. CASE o[k] = Server
          BY <2>2, <5>1
        <5>2. CASE o[k] # Server
          <6>1. ~Waiting
            BY <3>1, <5>2 DEF Waiting, Current
          <6> QED
            BY <2>2, <3>1, <4>1, <5>2, <6>1 DEF ServedInv
        <5> QED
          BY <5>1, <5>2
      <4>2. ASSUME Serial \notin up' PROVE ports' \subseteq late'
        BY <2>2, <3>1, <4>2 DEF ServedInv
      <4> QED
        BY <4>1, <4>2 DEF ServedInv
    <3> QED
      BY <3>2, <3>3
  <2> QED
    BY <2>1, <2>3, <2>4, <2>5 DEF LifeInv
<1>8. CASE DisposeModule
  <2>1. /\ stopper.pc = "dispose" /\ Dispose(o[k]) /\ StopperTo("dispose", k - 1)
        /\ UNCHANGED <<deps, starter, overlapped>>
    BY <1>8 DEF DisposeModule, Current
  <2>2. /\ initialised' = initialised \ {o[k]} /\ up' = up \ {o[k]} /\ ports' \in {{}, ports}
        /\ UNCHANGED <<requests, late>>
    BY <2>1 DEF Dispose
  <2>3. /\ stopper' \in StopperStates(deps)
        /\ stopper'.pc = "dispose" /\ stopper'.order = o /\ stopper'.at = k - 1
    BY <1>0, <1>3, <2>1, StopperGoes
  <2>4. LifeTypes'
    BY <1>0, <2>1, <2>2, <2>3, StopperKeepsTypes
  <2>5. ASSUME ~overlapped PROVE StopperInv' /\ ServedInv'
    <3>1. StopperInv /\ ServedInv /\ starter.pc \in {"started", "failed"}
      BY <1>4, <2>5
    <3>2. up = {} /\ up' = {} /\ initialised \subseteq Upto(o, k)
      BY <2>1, <2>2, <3>1 DEF StopperInv
    <3>3. StopperInv'
      <4>1. initialised' \subseteq Upto(stopper'.order, stopper'.at)
        BY <1>5, <2>2, <2>3, <3>2
      <4> QED
        BY <2>1, <2>3, <3>1, <3>2, <4>1 DEF StopperInv
    <3>4. ~Waiting
      BY <2>1, <3>1 DEF Waiting
    <3>5. ServedInv'
      BY <2>2, <3>1, <3>2, <3>4 DEF ServedInv
    <3> QED
      BY <3>3, <3>5
  <2> QED
    BY <2>1, <2>3, <2>4, <2>5 DEF LifeInv
<1> QED
  BY <1>6, <1>7, <1>8

\* The MCP server at work.
LEMMA RequestStep ==
    ASSUME LifeInv, NEW r \in Request, Arrive(r) \/ OpensPort(r) \/ Answered(r)
    PROVE  LifeInv'
<1>1. UNCHANGED <<deps, initialised, up, starter, stopper, late, overlapped>>
  BY DEF Arrive, OpensPort, Answered
<1>2. LifeTypes'
  BY <1>1 DEF LifeInv, LifeTypes
<1>3. ASSUME ~overlapped, StarterInv PROVE StarterInv'
  BY <1>1, <1>3 DEF StarterInv
<1>4. ASSUME ~overlapped, StopperInv PROVE StopperInv'
  BY <1>1, <1>4 DEF StopperInv
<1>5. ASSUME ~overlapped PROVE ServedInv'
  <2>1. Waiting' = Waiting
    BY <1>1 DEF Waiting, Current
  <2>2. ServedInv
    BY <1>5 DEF LifeInv
  <2>3. CASE Arrive(r)
    <3>1. Server \in up /\ ports' = ports
      BY <2>3 DEF Arrive
    <3> QED
      BY <1>1, <2>2, <3>1 DEF ServedInv
  <2>4. CASE OpensPort(r)
    <3>1. r \in requests /\ requests' = requests /\ ports' = ports \cup {r}
      BY <2>4 DEF OpensPort
    <3>2. ASSUME Serial \notin up PROVE Server \notin up /\ ~Waiting
      BY <1>5, <3>2, Runs DEF Waiting
    <3> QED
      BY <1>1, <2>1, <2>2, <3>1, <3>2 DEF ServedInv
  <2>5. CASE Answered(r)
    <3>1. requests' = requests \ {r} /\ ports' = ports
      BY <2>5 DEF Answered
    <3> QED
      BY <1>1, <2>1, <2>2, <3>1 DEF ServedInv
  <2> QED
    BY <2>3, <2>4, <2>5
<1> QED
  BY <1>1, <1>2, <1>3, <1>4, <1>5 DEF LifeInv

\* Every step keeps the invariant.
LEMMA LifeStep == LifeInv /\ [AppNext]_appVars => LifeInv'
<1> SUFFICES ASSUME LifeInv, [AppNext]_appVars PROVE LifeInv'
  OBVIOUS
<1>1. CASE UNCHANGED appVars
  BY <1>1 DEF appVars, LifeInv, LifeTypes, StarterInv, StopperInv, ServedInv, Waiting, Current
<1>2. CASE AppNext
  BY <1>2, InitStep, StartAllStep, UndoStep, ShutdownStep, StopperStep, RequestStep DEF AppNext
<1> QED
  BY <1>1, <1>2

\* What runs is the first part of a sorted order, from InitAll to DisposeAll
\* (registry.go), for any modules, dependencies and requests.
THEOREM LifeInductive == AppSpec => []LifeInv
  BY LifeStart, LifeStep, PTL DEF AppSpec

\* LifecycleIsClean, for any modules and any sorted orders, each call with its
\* own, and any number of requests: a module runs only while those it depends
\* on run, whichever Init or Start fails; a failed start leaves nothing that
\* runs; and the shutdown leaves no module and no port, but for those of
\* requests that outlived its wait (registry.go, and server.go of the MCP
\* server).
THEOREM LifecycleIsCleanAlways == AppSpec => []LifecycleIsClean
  BY LifeInductive, LifeDelivers, PTL
=============================================================================
