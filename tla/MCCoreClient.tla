---------------------------- MODULE MCCoreClient ----------------------------
(* TLC instance of CoreClient: two calls for one key, with the retry count  *)
(* and the threshold of the code.                                           *)
EXTENDS CoreClient
=============================================================================
