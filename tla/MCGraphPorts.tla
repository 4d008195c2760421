---------------------------- MODULE MCGraphPorts ----------------------------
(* Instances of GraphPorts: a physical and a virtual node.                 *)
EXTENDS GraphPorts, TLC

TwoNodes == << [port |-> "com1", endpoint |-> "com1"], [port |-> "vcom", endpoint |-> "peer"] >>
OneVirtual == << [port |-> "vcom", endpoint |-> "peer"] >>

\* The runtimes are alike, and so are the terminals.
Symmetry == Permutations(Runtimes) \cup Permutations(Terminals)
=============================================================================
