----------------------------- MODULE AtomicSave -----------------------------
(***************************************************************************)
(* Schema.Save (config.go) and writeAtomic (workspace/service.go): a       *)
(* temporary file is written, closed and renamed.  SaveWorkspace writes    *)
(* the workspace and then the file that names the last workspace.          *)
(*                                                                         *)
(* Any step may fail, and the program may end between any two.  The data   *)
(* is not synced: when the machine loses power as well, the system may     *)
(* keep the new name without the bytes, and nothing is promised.           *)
(***************************************************************************)
CONSTANTS
    Saver,        \* calls under way at the same time
    Workspaces,   \* paths of workspaces
    ConfigPath, StatePath,
    Content,      \* what is saved; the state file holds the path of a workspace
    NoFile,       \* there is no file
    Partial       \* a file that was not written to its end

Path == Workspaces \cup {ConfigPath, StatePath}
Value == Content \cup Workspaces

ASSUME SaveAssumption ==
    /\ NoFile \notin Path \cup Value /\ Partial \notin Value \cup {NoFile}
    /\ ConfigPath \notin Workspaces /\ StatePath \notin Workspaces \cup {ConfigPath}

VARIABLES
    file,         \* the contents of the files
    job,          \* what each call does: [pc, path, value, remember]
    temp          \* the temporary file of each call

saveVars == <<file, job, temp>>

NoJob == [pc |-> "idle", path |-> NoFile, value |-> NoFile, remember |-> FALSE]
Job(p, v, remember) == [pc |-> "create", path |-> p, value |-> v, remember |-> remember]

SaveInit ==
    /\ file = [p \in Path |-> NoFile]
    /\ job = [s \in Saver |-> NoJob]
    /\ temp = [s \in Saver |-> NoFile]

At(s, pc) == job[s].pc = pc
Step(s, pc) == job' = [job EXCEPT ![s].pc = pc]
EndJob(s) == job' = [job EXCEPT ![s] = NoJob]

-----------------------------------------------------------------------------
(* Calls                                                                   *)

SaveConfig(s, v) ==
    /\ At(s, "idle") /\ job' = [job EXCEPT ![s] = Job(ConfigPath, v, FALSE)]
    /\ UNCHANGED <<file, temp>>

SaveWorkspace(s, p, v) ==
    /\ At(s, "idle") /\ job' = [job EXCEPT ![s] = Job(p, v, TRUE)]
    /\ UNCHANGED <<file, temp>>

ExportWorkspace(s, p, v) ==
    /\ At(s, "idle") /\ job' = [job EXCEPT ![s] = Job(p, v, FALSE)]
    /\ UNCHANGED <<file, temp>>

\* A workspace is remembered, whether or not there is a file of that path.
RememberLastWorkspace(s, p) ==
    /\ At(s, "idle")
    /\ job' = [job EXCEPT ![s] = Job(StatePath, p, FALSE)]
    /\ UNCHANGED <<file, temp>>

-----------------------------------------------------------------------------
(* writeAtomic                                                             *)

CreateTemp(s) ==
    /\ At(s, "create") /\ Step(s, "write")
    /\ temp' = [temp EXCEPT ![s] = Partial]
    /\ UNCHANGED file

\* The directory or the temporary file cannot be created.
CreateFails(s) ==
    /\ At(s, "create") /\ EndJob(s)
    /\ UNCHANGED <<file, temp>>

WriteTemp(s) ==
    /\ At(s, "write") /\ Step(s, "close")
    /\ temp' = [temp EXCEPT ![s] = job[s].value]
    /\ UNCHANGED file

\* mutant: the error of a write that stopped half way is dropped
WriteFailsGoesOn(s) ==
    /\ At(s, "write") /\ Step(s, "close")
    /\ UNCHANGED <<file, temp>>

WriteFails(s) ==
    /\ At(s, "write") /\ Step(s, "remove")
    /\ UNCHANGED <<file, temp>>

\* Only a workspace has its mode set.
CloseTemp(s) ==
    /\ At(s, "close")
    /\ Step(s, IF job[s].path = ConfigPath THEN "rename" ELSE "chmod")
    /\ UNCHANGED <<file, temp>>

Chmod(s) == At(s, "chmod") /\ Step(s, "rename") /\ UNCHANGED <<file, temp>>

StepFails(s) ==
    /\ At(s, "close") \/ At(s, "chmod") \/ At(s, "rename")
    /\ Step(s, "remove")
    /\ UNCHANGED <<file, temp>>

\* The workspace has its new content whether or not it is remembered then.
Rename(s) ==
    /\ At(s, "rename")
    /\ file' = [file EXCEPT ![job[s].path] = temp[s]]
    /\ temp' = [temp EXCEPT ![s] = NoFile]
    /\ IF job[s].remember
       THEN job' = [job EXCEPT ![s] = Job(StatePath, job[s].path, FALSE)]
       ELSE EndJob(s)

\* The deferred removal.  When it fails, as after a crash, the temporary file
\* stays, and nobody looks at it again.
RemoveTemp(s) ==
    /\ At(s, "remove") /\ EndJob(s)
    /\ temp' = [temp EXCEPT ![s] = NoFile]
    /\ UNCHANGED file

-----------------------------------------------------------------------------
(* The program ends and is started again.                                  *)

Crash ==
    /\ job' = [s \in Saver |-> NoJob]
    /\ temp' = [s \in Saver |-> NoFile]
    /\ UNCHANGED file

\* Load of the configuration: no file is the default, what cannot be parsed
\* an error.
Load ==
    CASE file[ConfigPath] = NoFile -> "default"
      [] file[ConfigPath] = Partial -> "error"
      [] OTHER -> "loaded"

\* LoadLastWorkspace; a workspace that is gone is not an error.
LoadLastWorkspace ==
    LET last == file[StatePath] IN
    CASE last = NoFile -> "none"
      [] last = Partial -> "error"
      [] last \notin {NoFile, Partial} -> IF file[last] = NoFile THEN "gone" ELSE "found"

-----------------------------------------------------------------------------
Writes(s) ==
    \/ CreateTemp(s) \/ CreateFails(s) \/ WriteTemp(s) \/ WriteFails(s) \/ CloseTemp(s)
    \/ Chmod(s) \/ StepFails(s) \/ Rename(s) \/ RemoveTemp(s)

SaveNext ==
    \/ \E s \in Saver : Writes(s)
    \/ \E s \in Saver, v \in Content : SaveConfig(s, v)
    \/ \E s \in Saver, p \in Workspaces, v \in Content : SaveWorkspace(s, p, v) \/ ExportWorkspace(s, p, v)
    \/ \E s \in Saver, p \in Workspaces : RememberLastWorkspace(s, p)
    \/ Crash

SaveSpec == SaveInit /\ [][SaveNext]_saveVars

-----------------------------------------------------------------------------
(* Properties                                                              *)

Asking(s) ==
    IF job[s].pc \in {"idle", "remove"}
    THEN [path |-> NoFile, value |-> NoFile, remember |-> FALSE]
    ELSE [path |-> job[s].path, value |-> job[s].value, remember |-> job[s].remember]

Register == INSTANCE AtomicRegister WITH asked <- [s \in Saver |-> Asking(s)]

\* "so a crash never leaves a half-written config": whatever fails, and
\* wherever the program ends, saving a file is one step that replaces all of
\* it, by what one call asked for.
SaveIsAtomic == Register!Init /\ [][Register!Next]_(Register!vars)

\* Load and LoadLastWorkspace read what was saved: no crash and no failure
\* makes them fail, and a workspace file has all of what one call saved.  The
\* workspace that is remembered may be missing ("gone").
LoadsAfterCrash ==
    /\ Load # "error" /\ LoadLastWorkspace # "error"
    /\ \A p \in Workspaces : file[p] \in Content \cup {NoFile}
=============================================================================
