--------------------------- MODULE AtomicRegister ---------------------------
(***************************************************************************)
(* What saving a file promises: "writes the schema to path atomically so a *)
(* crash never leaves a half-written config" (config.go).  A file changes  *)
(* in one step, to all of what somebody asked to save, or not at all; a    *)
(* saved workspace is then asked to be remembered.                         *)
(***************************************************************************)
CONSTANTS
    Saver,        \* calls under way at the same time
    Path,         \* files that are saved
    StatePath,    \* the file that names the last workspace
    Value,        \* contents
    NoFile        \* content of a file that does not exist

VARIABLES
    file,         \* the contents of the files
    asked         \* what each call is saving: [path, value, remember], or Nothing

vars == <<file, asked>>

Nothing == [path |-> NoFile, value |-> NoFile, remember |-> FALSE]

Init == file = [p \in Path |-> NoFile] /\ asked = [s \in Saver |-> Nothing]

Ask(s, p, v, remember) ==
    /\ asked[s] = Nothing
    /\ asked' = [asked EXCEPT ![s] = [path |-> p, value |-> v, remember |-> remember]]
    /\ UNCHANGED file

Put(s) ==
    LET a == asked[s] IN
    /\ a # Nothing
    /\ file' = [file EXCEPT ![a.path] = a.value]
    /\ asked' = [asked EXCEPT ![s] =
            IF a.remember THEN [path |-> StatePath, value |-> a.path, remember |-> FALSE] ELSE Nothing]

GiveUp(s) == asked' = [asked EXCEPT ![s] = Nothing] /\ UNCHANGED file

\* The program ends, and is started again.
Crash == asked' = [s \in Saver |-> Nothing] /\ UNCHANGED file

Next ==
    \/ \E s \in Saver : Put(s) \/ GiveUp(s)
    \/ \E s \in Saver, p \in Path, v \in Value, remember \in BOOLEAN : Ask(s, p, v, remember)
    \/ Crash

Spec == Init /\ [][Next]_vars
=============================================================================
