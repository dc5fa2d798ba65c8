---------------------------- MODULE MCTcpServer ----------------------------
(* TcpServer for TLC: which address a client gets does not matter. *)
EXTENDS TcpServer, TLC

Symmetry == Permutations(Client)

=============================================================================
