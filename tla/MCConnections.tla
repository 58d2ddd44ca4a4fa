--------------------------- MODULE MCConnections ---------------------------
(* TLC instances of Connections: one user, one or three keys, one server,   *)
(* three or four requests.  Requests are interchangeable.                   *)
EXTENDS Connections, TLC

ReqSymmetry == Permutations(Reqs)
=============================================================================
