------------------------------- MODULE MCHost -------------------------------
(***************************************************************************)
(* What surrounds the serial protocols, on small instances: the owners of  *)
(* ports, the ring of received bytes, the files that are saved, the start  *)
(* and end of the modules, the order they are called in, and the event     *)
(* bus.  A behaviour is of one of these parts, and the others keep still.  *)
(***************************************************************************)
EXTENDS AtomicSave, EventBus, AppLifecycle, PortOwners, RingBuffer, TLC

VARIABLE part     \* the part that moves

appOwnVars == <<initialised, up, starter, stopper, requests, ports, late, overlapped>>
busAndFiles == <<saveVars, busVars>>

\* Offsets before, in and behind the ring.
SomeOffsets == {-1, 0, 2, 4}

\* The calls that open a port can be swapped, and so are the appenders.
Symmetry == Permutations(Callers) \cup Permutations(Appenders)

\* Two calls that open a port, or a call and a bridge, at a time; the theorems
\* of HostProofs are about any number.
TwoCalls == Cardinality({c \in Callers : Busy(c)}) + Cardinality({b \in Bridgers : bridging[b].pc # "idle"}) <= 2

-----------------------------------------------------------------------------
MCInit ==
    /\ PoInit /\ Init /\ SaveInit /\ BusInit /\ NothingRuns /\ SortStart
    /\ \/ part \in {"owners", "ring", "files", "bus"} /\ deps = [m \in Module |-> {}]
       \/ part = "lifecycle" /\ AppInit
       \/ part = "order" /\ OrderInit

MCNext ==
    \/ part = "owners" /\ PoNext /\ TwoCalls' /\ UNCHANGED <<part, vars, appVars, sortVars, busAndFiles>>
    \/ part = "ring" /\ Next /\ UNCHANGED <<part, poVars, appVars, sortVars, busAndFiles>>
    \/ part = "files" /\ SaveNext /\ UNCHANGED <<part, poVars, vars, appVars, sortVars, busVars>>
    \/ part = "lifecycle" /\ AppNext /\ UNCHANGED <<part, poVars, vars, sortVars, busAndFiles>>
    \/ part = "order" /\ OrderNext /\ UNCHANGED <<part, poVars, vars, appOwnVars, busAndFiles>>
    \/ part = "bus" /\ BusNext /\ UNCHANGED <<part, poVars, vars, appVars, sortVars, saveVars>>

MCSpec == MCInit /\ [][MCNext]_<<part, poVars, vars, appVars, sortVars, busAndFiles>>
=============================================================================
