---------------------------- MODULE MCWGManager ----------------------------
(* TLC instance of WGManager: two clients, the two usable addresses of a    *)
(* small subnet, one mesh address both may be given.                        *)
EXTENDS WGManager, TLC

KeySymmetry == Permutations(Keys)
=============================================================================
