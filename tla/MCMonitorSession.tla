-------------------------- MODULE MCMonitorSession --------------------------
(* Sessions started under one monitor id.                                  *)
EXTENDS MonitorSession, TLC

CONSTANTS s1, s2
SameId == [s \in Sessions |-> "m1"]
Symmetry == Permutations({s1, s2})

\* A second payload is read only while one session was started.
FewReads == reads <= 1 \/ \E s \in Sessions : starter[s] = "new"

MCSpec == Init /\ [][Next /\ FewReads']_vars
=============================================================================
