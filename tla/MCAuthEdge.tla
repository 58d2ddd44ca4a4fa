----------------------------- MODULE MCAuthEdge -----------------------------
(* TLC instance of AuthEdge.  In units of a tick: two requests per address,  *)
(* refilled one a tick; one per token, refilled in two; one per user.        *)
EXTENDS AuthEdge, TLC

MCKeys == {"ip", "token", "user"}
MCFull == [ip |-> 2, token |-> 2, user |-> 1]
MCCost == [ip |-> 1, token |-> 2, user |-> 1]
MCRate == [ip |-> 1, token |-> 1, user |-> 1]
MCIdle == [ip |-> 2, token |-> 1, user |-> 0]
MCStall == [ip |-> 1, token |-> 0, user |-> 0]

ReqSymmetry == Permutations(Reqs)
=============================================================================
