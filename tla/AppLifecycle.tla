---------------------------- MODULE AppLifecycle ----------------------------
(***************************************************************************)
(* The start and the end of the application: Build (app.go) drives the     *)
(* module registry (module/registry.go) from two callbacks, the event      *)
(* ApplicationStarted and the shutdown, which may overlap: the registry    *)
(* takes only a read lock while it calls its modules.                      *)
(*                                                                         *)
(* One module is the serial module, which owns ports, and one the MCP      *)
(* server, which depends on it and whose requests open ports; the others   *)
(* are any modules.  InitAll, StartAll, StopAll and DisposeAll each ask    *)
(* for an order and are given any sorted one here; orderLocked, which      *)
(* finds some of them, is ModuleOrder.                                     *)
(***************************************************************************)
EXTENDS ModuleOrder

CONSTANTS
    Serial, Server,    \* the serial module and the MCP server
    Request            \* requests to the MCP server

ASSUME ServerAssumption == Serial \in Module /\ Server \in Module

VARIABLES
    initialised,  \* modules with something to dispose
    up,           \* modules that were started and not stopped
    starter,      \* the callback that starts the modules: [pc, order, at]
    stopper,      \* the shutdown
    requests,     \* requests that the MCP server works on
    ports,        \* requests whose port is open in the serial module
    late,         \* ghost: the requests that outlived the 2 s of a shutdown
    overlapped    \* ghost: did the shutdown begin before the start had ended?

appVars == <<deps, initialised, up, starter, stopper, requests, ports, late, overlapped>>
resources == <<initialised, up, requests, ports, late>>

Size == Cardinality(Module)
OrdersOf(d) == {o \in [1 .. Size -> Module] : Sorted(d, o)}

-----------------------------------------------------------------------------
Idle == [pc |-> "idle", order |-> << >>, at |-> 0]
Current(t) == t.order[t.at]

NothingRuns ==
    /\ initialised = {} /\ up = {} /\ starter = Idle /\ stopper = Idle
    /\ requests = {} /\ ports = {} /\ late = {} /\ overlapped = FALSE

\* The registry has an order, or nothing is started.
AppInit ==
    /\ deps \in [Module -> SUBSET Module] /\ Serial \in deps[Server]
    /\ OrdersOf(deps) # {}
    /\ NothingRuns

\* Dispose of the serial module closes its ports, and so does its Stop.
Dispose(m) ==
    /\ initialised' = initialised \ {m} /\ up' = up \ {m}
    /\ ports' = IF m = Serial THEN {} ELSE ports
    /\ UNCHANGED <<requests, late>>

\* Stop of the MCP server closes its listener, and waits for the requests,
\* but for 2 s at most.
Stop(m) ==
    /\ up' = up \ {m}
    /\ ports' = IF m = Serial THEN {} ELSE ports
    /\ UNCHANGED <<initialised, requests, late>>

Stopped(m) ==
    /\ late' = IF m = Server THEN late \cup requests ELSE late
    /\ UNCHANGED <<initialised, up, requests, ports>>

-----------------------------------------------------------------------------
(* InitAll and StartAll                                                    *)

StarterTo(pc, at) == starter' = [starter EXCEPT !.pc = pc, !.at = at]

\* InitAll and StartAll ask for an order, each for its own.
Order(pc, next) ==
    /\ starter.pc = pc
    /\ \E o \in OrdersOf(deps) : starter' = [pc |-> next, order |-> o, at |-> 1]
    /\ UNCHANGED <<deps, resources, stopper, overlapped>>
BeginInit == Order("idle", "init")
BeginStart == starter.at > Size /\ Order("init", "start")

InitModule ==
    /\ starter.pc = "init" /\ starter.at <= Size
    /\ initialised' = initialised \cup {Current(starter)}
    /\ StarterTo("init", starter.at + 1)
    /\ UNCHANGED <<deps, up, stopper, requests, ports, late, overlapped>>

\* The module that failed is disposed, and then those before it.
InitFails ==
    /\ starter.pc = "init" /\ starter.at <= Size
    /\ Dispose(Current(starter)) /\ StarterTo("undo init", starter.at - 1)
    /\ UNCHANGED <<deps, stopper, overlapped>>

UndoInit ==
    /\ starter.pc = "undo init" /\ starter.at > 0
    /\ Dispose(Current(starter)) /\ StarterTo("undo init", starter.at - 1)
    /\ UNCHANGED <<deps, stopper, overlapped>>

StartModule ==
    /\ starter.pc = "start" /\ starter.at <= Size
    /\ up' = up \cup {Current(starter)} /\ initialised' = initialised \cup {Current(starter)}
    /\ StarterTo("start", starter.at + 1)
    /\ UNCHANGED <<deps, stopper, requests, ports, late, overlapped>>

\* The module that failed, and those behind it, are left initialised.
StartFails ==
    /\ starter.pc = "start" /\ starter.at <= Size
    /\ StarterTo("undo start", starter.at - 1)
    /\ UNCHANGED <<deps, resources, stopper, overlapped>>

UndoStart ==
    /\ starter.pc = "undo start" /\ starter.at > 0
    /\ Stop(Current(starter)) /\ StarterTo("undo stopped", starter.at)
    /\ UNCHANGED <<deps, stopper, overlapped>>

UndoStopped ==
    /\ starter.pc = "undo stopped"
    /\ Stopped(Current(starter)) /\ StarterTo("undo dispose", starter.at)
    /\ UNCHANGED <<deps, stopper, overlapped>>

UndoDispose ==
    /\ starter.pc = "undo dispose"
    /\ Dispose(Current(starter)) /\ StarterTo("undo start", starter.at - 1)
    /\ UNCHANGED <<deps, stopper, overlapped>>

EndStart ==
    /\ \/ starter.pc = "start" /\ starter.at > Size /\ StarterTo("started", starter.at)
       \/ starter.pc \in {"undo init", "undo start"} /\ starter.at = 0 /\ StarterTo("failed", 0)
    /\ UNCHANGED <<deps, resources, stopper, overlapped>>

-----------------------------------------------------------------------------
(* shutdownRegistryOnce: StopAll and DisposeAll                            *)

StopperTo(pc, at) == stopper' = [stopper EXCEPT !.pc = pc, !.at = at]

\* mutant: modules are stopped from the first to the last
BeginStopForward ==
    /\ stopper.pc = "idle"
    /\ \E o \in OrdersOf(deps) : stopper' = [pc |-> "stop", order |-> [i \in DOMAIN o |-> o[Size + 1 - i]], at |-> Size]
    /\ overlapped' = (starter.pc \notin {"started", "failed"})
    /\ UNCHANGED <<deps, resources, starter>>

BeginStop ==
    /\ stopper.pc = "idle"
    /\ \E o \in OrdersOf(deps) : stopper' = [pc |-> "stop", order |-> o, at |-> Size]
    /\ overlapped' = (starter.pc \notin {"started", "failed"})
    /\ UNCHANGED <<deps, resources, starter>>

\* An error of Stop is kept, and the next module is stopped.
StopModule ==
    /\ stopper.pc = "stop" /\ stopper.at > 0
    /\ Stop(Current(stopper)) /\ StopperTo("stopped", stopper.at)
    /\ UNCHANGED <<deps, starter, overlapped>>

ModuleStopped ==
    /\ stopper.pc = "stopped"
    /\ Stopped(Current(stopper)) /\ StopperTo("stop", stopper.at - 1)
    /\ UNCHANGED <<deps, starter, overlapped>>

BeginDispose ==
    /\ stopper.pc = "stop" /\ stopper.at = 0
    /\ \E o \in OrdersOf(deps) : stopper' = [pc |-> "dispose", order |-> o, at |-> Size]
    /\ UNCHANGED <<deps, resources, starter, overlapped>>

DisposeModule ==
    /\ stopper.pc = "dispose" /\ stopper.at > 0
    /\ Dispose(Current(stopper)) /\ StopperTo("dispose", stopper.at - 1)
    /\ UNCHANGED <<deps, starter, overlapped>>

EndStop ==
    /\ stopper.pc = "dispose" /\ stopper.at = 0
    /\ StopperTo("done", 0)
    /\ UNCHANGED <<deps, resources, starter, overlapped>>

-----------------------------------------------------------------------------
(* The MCP server at work                                                  *)

Arrive(r) ==
    /\ Server \in up /\ r \notin requests \cup late
    /\ requests' = requests \cup {r}
    /\ UNCHANGED <<deps, initialised, up, starter, stopper, ports, late, overlapped>>

\* The request opens a port, which stays open when it is answered.
OpensPort(r) ==
    /\ r \in requests /\ ports' = ports \cup {r}
    /\ UNCHANGED <<deps, initialised, up, starter, stopper, requests, late, overlapped>>

Answered(r) ==
    /\ r \in requests /\ requests' = requests \ {r}
    /\ UNCHANGED <<deps, initialised, up, starter, stopper, ports, late, overlapped>>

-----------------------------------------------------------------------------
AppNext ==
    \/ BeginInit \/ BeginStart \/ InitModule \/ InitFails \/ UndoInit
    \/ StartModule \/ StartFails \/ UndoStart \/ UndoStopped \/ UndoDispose \/ EndStart
    \/ BeginStop \/ StopModule \/ ModuleStopped \/ BeginDispose \/ DisposeModule \/ EndStop
    \/ \E r \in Request : Arrive(r) \/ OpensPort(r) \/ Answered(r)

AppSpec == AppInit /\ [][AppNext]_appVars

-----------------------------------------------------------------------------
(* Properties                                                              *)

\* A module runs only while those it depends on run, through start, rollback
\* and shutdown; a start that failed leaves nothing that runs, and one that
\* failed in InitAll nothing that is initialised; and the shutdown
\* leaves no module and no port, but for what a request opened that outlived
\* the wait of shutdownHTTPServer.  A shutdown that overlaps the start promises
\* none of this.
LifecycleIsClean ==
    ~overlapped =>
        /\ \A m \in up : deps[m] \subseteq up
        /\ starter.pc \in {"undo init", "failed"} /\ starter.at = 0 /\ stopper = Idle =>
            up = {} /\ (ports \subseteq late)
        /\ starter.pc = "undo init" /\ starter.at = 0 => initialised = {}
        /\ stopper.pc = "done" => initialised = {} /\ up = {} /\ ports \subseteq late
=============================================================================
