------------------------------ MODULE MCProxy ------------------------------
(* TLC instance of Proxy over ExitNodes.                                    *)
EXTENDS Proxy
=============================================================================
