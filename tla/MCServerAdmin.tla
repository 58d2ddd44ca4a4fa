--------------------------- MODULE MCServerAdmin ---------------------------
(* TLC instance of ServerAdmin.  Requests are interchangeable.              *)
EXTENDS ServerAdmin, TLC

ReqSymmetry == Permutations(Reqs)
=============================================================================
