--------------------------- MODULE MCSocketMuxer ---------------------------
(***************************************************************************)
(* SocketMuxer for TLC: the connection objects are interchangeable (the    *)
(* places of the pool are not: they are in the order of their addresses).  *)
(***************************************************************************)
EXTENDS SocketMuxer

Symmetry == Permutations(Conns)
=============================================================================
