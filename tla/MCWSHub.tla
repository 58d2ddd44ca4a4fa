------------------------------ MODULE MCWSHub ------------------------------
(* TLC instances of WSHub: one or two connections, channels of capacity one *)
(* so that they fill up, one BroadcastToUsers beside Run.                   *)
EXTENDS WSHub
=============================================================================
