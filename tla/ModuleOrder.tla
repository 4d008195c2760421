---------------------------- MODULE ModuleOrder ----------------------------
(***************************************************************************)
(* The order of the modules: orderLocked (module/registry.go), Kahn's      *)
(* algorithm, one step for each iteration of its loops.                    *)
(*                                                                         *)
(* The modules are in a map, which is visited in any order, and so are the *)
(* dependents of a module, which are listed in the order of such a visit.  *)
(***************************************************************************)
EXTENDS Integers, Sequences, FiniteSets

CONSTANTS
    Module,
    Missing    \* an id that no module has

ASSUME ModuleAssumption == IsFiniteSet(Module) /\ Missing \notin Module

VARIABLES
    deps,       \* the dependencies in the manifests
    sorting,    \* the loop that runs, or the answer
    toVisit,    \* what it has still to visit
    indegree,
    queue,
    order

sortVars == <<sorting, toVisit, indegree, queue, order>>
orderVars == <<deps, sortVars>>

\* Every module once, after those it depends on.
Sorted(d, o) ==
    /\ o \in [1 .. Cardinality(Module) -> Module]
    /\ \A m \in Module : \E i \in DOMAIN o : o[i] = m
    /\ \A i \in DOMAIN o : d[o[i]] \subseteq {o[j] : j \in 1 .. i - 1}

SortStart ==
    /\ sorting = "manifests" /\ toVisit = Module
    /\ indegree = [m \in Module |-> 0] /\ queue = << >> /\ order = << >>

OrderInit == deps \in [Module -> SUBSET (Module \cup {Missing})] /\ SortStart

\* A manifest is read.
CountDependencies(m) ==
    /\ sorting = "manifests" /\ m \in toVisit /\ deps[m] \subseteq Module
    /\ indegree' = [indegree EXCEPT ![m] = Cardinality(deps[m])]
    /\ toVisit' = toVisit \ {m}
    /\ UNCHANGED <<deps, sorting, queue, order>>

DependencyMissing(m) ==
    /\ sorting = "manifests" /\ m \in toVisit /\ ~(deps[m] \subseteq Module)
    /\ sorting' = "missing"
    /\ UNCHANGED <<deps, toVisit, indegree, queue, order>>

ManifestsRead ==
    /\ sorting = "manifests" /\ toVisit = {}
    /\ sorting' = "roots" /\ toVisit' = Module
    /\ UNCHANGED <<deps, indegree, queue, order>>

Visit(m) ==
    /\ sorting = "roots" /\ m \in toVisit
    /\ toVisit' = toVisit \ {m}
    /\ queue' = IF indegree[m] = 0 THEN Append(queue, m) ELSE queue
    /\ UNCHANGED <<deps, sorting, indegree, order>>

RootsQueued ==
    /\ sorting = "roots" /\ toVisit = {}
    /\ sorting' = "sorting"
    /\ UNCHANGED <<deps, toVisit, indegree, queue, order>>

Dependents(m) == {x \in Module : m \in deps[x]}

Take ==
    /\ sorting = "sorting" /\ toVisit = {} /\ queue # << >>
    /\ order' = Append(order, Head(queue)) /\ queue' = Tail(queue)
    /\ toVisit' = Dependents(Head(queue))
    /\ UNCHANGED <<deps, sorting, indegree>>

\* mutant: a module is queued when one dependency is left
FreeEarly(x) ==
    /\ sorting = "sorting" /\ x \in toVisit
    /\ toVisit' = toVisit \ {x}
    /\ indegree' = [indegree EXCEPT ![x] = @ - 1]
    /\ queue' = IF indegree[x] = 2 THEN Append(queue, x) ELSE queue
    /\ UNCHANGED <<deps, sorting, order>>

\* A dependent of the module that was taken has a dependency less to wait for.
Free(x) ==
    /\ sorting = "sorting" /\ x \in toVisit
    /\ toVisit' = toVisit \ {x}
    /\ indegree' = [indegree EXCEPT ![x] = @ - 1]
    /\ queue' = IF indegree[x] = 1 THEN Append(queue, x) ELSE queue
    /\ UNCHANGED <<deps, sorting, order>>

\* All have a place, or there is a cycle.
EndSort ==
    /\ sorting = "sorting" /\ toVisit = {} /\ queue = << >>
    /\ sorting' = IF Len(order) = Cardinality(Module) THEN "sorted" ELSE "cycle"
    /\ UNCHANGED <<deps, toVisit, indegree, queue, order>>

OrderNext ==
    \/ \E m \in Module : CountDependencies(m) \/ DependencyMissing(m) \/ Visit(m) \/ Free(m)
    \/ ManifestsRead \/ RootsQueued \/ Take \/ EndSort

OrderSpec == OrderInit /\ [][OrderNext]_orderVars

-----------------------------------------------------------------------------
\* The registry has an order exactly if no dependency is missing and the
\* dependencies have no cycle: what it answers is an order; and when it has
\* none, a dependency is missing, or there are modules that wait for one
\* another, so that none of them can be the first.
OrderIsExact ==
    /\ sorting = "sorted" => Sorted(deps, order)
    /\ sorting = "missing" => \E m \in Module : ~(deps[m] \subseteq Module)
    /\ sorting = "cycle" => \E S \in (SUBSET Module) \ {{}} : \A m \in S : deps[m] \cap S # {}
=============================================================================
