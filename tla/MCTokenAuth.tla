---------------------------- MODULE MCTokenAuth ----------------------------
(* TLC instance of TokenAuth: two handlers, and the life times of the cache *)
(* in small units.                                                          *)
EXTENDS TokenAuth, TLC

Symmetry == Permutations(Handlers)
=============================================================================
