---------------------------- MODULE MCRemoteNode ----------------------------
(* RemoteNode for TLC: model values, and the symmetry of connections and   *)
(* writers (sound for the safety runs only).                               *)
EXTENDS RemoteNodeInv, TLC

Symmetry == Permutations(Conns) \cup Permutations(Writers)
=============================================================================
