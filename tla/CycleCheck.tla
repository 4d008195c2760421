----------------------------- MODULE CycleCheck -----------------------------
(***************************************************************************)
(* graphRuntimeCreatesCycle of graph_runtime.go: the search that decides   *)
(* whether an edge of a graph closes a directed cycle.  validateGraph-     *)
(* RuntimeEdge calls it for every edge, with the other edges of the        *)
(* request; edges into the rx input of a protocol master do not count.     *)
(*                                                                         *)
(* The stack of the search is a set here: a node that is on it twice is    *)
(* skipped the second time, and any node may be taken next, the last one   *)
(* pushed among them.                                                      *)
(***************************************************************************)
CONSTANTS
    Vertex,    \* ids of the nodes
    Terminal   \* protocol masters: edges into their rx input do not count

ASSUME TerminalAssumption == Terminal \subseteq Vertex

Arc == Vertex \X Vertex
Source(e) == e[1]
Target(e) == e[2]

VARIABLES
    draft,    \* the edge in question
    others,   \* the other edges of the request
    pending,  \* the stack of the search
    visited,
    result    \* "searching", or the value returned

searchVars == <<draft, others, pending, visited, result>>

\* graphRuntimeEdgeTargetsTerminalProtocolInput: the only input of a master
\* is rx, so the target decides.
IntoTerminal(e) == Target(e) \in Terminal

\* The nodes the search goes on to from a node
Successors(n) == {Target(e) : e \in {f \in others : ~IntoTerminal(f) /\ Source(f) = n}}

\* The shape of the state.
SearchTypeOK ==
    /\ draft \in Arc /\ others \subseteq Arc
    /\ pending \subseteq Vertex /\ visited \subseteq Vertex
    /\ result \in {"searching", "cycle", "none"}

SearchInit ==
    /\ draft \in {e \in Arc : ~IntoTerminal(e)}
    /\ others \in SUBSET Arc
    /\ pending = {Target(draft)} /\ visited = {}
    /\ result = "searching"

\* A node that was visited before is skipped.
Skip(n) ==
    /\ result = "searching" /\ n \in pending /\ n \in visited
    /\ pending' = pending \ {n}
    /\ UNCHANGED <<draft, others, visited, result>>

Found(n) ==
    /\ result = "searching" /\ n \in pending /\ n \notin visited
    /\ n = Source(draft)
    /\ pending' = pending \ {n}
    /\ result' = "cycle"
    /\ UNCHANGED <<draft, others, visited>>

\* mutant: edges into masters count
VisitAllEdges(n) ==
    /\ result = "searching" /\ n \in pending /\ n \notin visited
    /\ n # Source(draft)
    /\ visited' = visited \cup {n}
    /\ pending' = (pending \ {n}) \cup {Target(e) : e \in {f \in others : Source(f) = n}}
    /\ UNCHANGED <<draft, others, result>>

Visit(n) ==
    /\ result = "searching" /\ n \in pending /\ n \notin visited
    /\ n # Source(draft)
    /\ visited' = visited \cup {n}
    /\ pending' = (pending \ {n}) \cup Successors(n)
    /\ UNCHANGED <<draft, others, result>>

Exhausted ==
    /\ result = "searching" /\ pending = {}
    /\ result' = "none"
    /\ UNCHANGED <<draft, others, pending, visited>>

SearchNext == (\E n \in Vertex : Skip(n) \/ Found(n) \/ Visit(n)) \/ Exhausted

SearchSpec == SearchInit /\ [][SearchNext]_searchVars

-----------------------------------------------------------------------------
(* Properties                                                              *)

\* Reachability along the edges that count: n is in every set that contains
\* m and that no such edge leaves.
Closed(S) == \A e \in others : ~IntoTerminal(e) /\ Source(e) \in S => Target(e) \in S
Reaches(m, n) == \A S \in SUBSET Vertex : m \in S /\ Closed(S) => n \in S

\* The search is exact: an edge is refused only if its target reaches its
\* source, and no such edge is let through, whatever the order of the search.
SearchIsExact ==
    result # "searching" => (result = "cycle" <=> Reaches(Target(draft), Source(draft)))
=============================================================================
