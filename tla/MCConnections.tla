--------------------------- MODULE MCConnections ---------------------------
(* The command server's sockets with a handful of connections. *)
EXTENDS Connections, TLC

Symmetry == Permutations(Conns)
=============================================================================
