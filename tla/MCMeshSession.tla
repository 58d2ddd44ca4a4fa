--------------------------- MODULE MCMeshSession ---------------------------
(* TLC instance of MeshSession: two users with two connections, and a few   *)
(* requests.                                                                *)
EXTENDS MeshSession, TLC

Symmetry == Permutations(Reqs) \cup Permutations(Users) \cup Permutations(Peers)

\* A bound: behaviours are followed while no user has two things on record.
FewMishaps == \A u \in Users : Cardinality(excused[u]) <= 1
=============================================================================
