--------------------------- MODULE MCPoolBreaker ---------------------------
(* TLC instance of IPPool and BreakerRecovery: the two objects that a       *)
(* process keeps behind a mutex each, side by side; they share nothing.     *)
(* Offsets 0..6, four of them usable besides network and gateway; the       *)
(* code's threshold of five and up to six attempts under way, so that late  *)
(* answers outnumber the threshold.                                         *)
EXTENDS IPPool, BreakerRecovery

both == <<vars, recoveryVars>>

PoolBreakerInit == Init /\ RecoveryInit

PoolBreakerNext ==
    \/ Next /\ UNCHANGED recoveryVars
    \/ RecoveryNext /\ UNCHANGED vars

\* Each runs on as it does alone (FairSpec, RecoveryFairSpec).
PoolBreakerSpec ==
    /\ PoolBreakerInit /\ [][PoolBreakerNext]_both
    /\ WF_both(UNCHANGED recoveryVars /\ (AllocateHit \/ AllocateMiss))
    /\ WF_both(UNCHANGED vars /\ Attempt) /\ WF_both(UNCHANGED vars /\ Succeed)
    /\ WF_both(UNCHANGED vars /\ Fail) /\ WF_both(UNCHANGED vars /\ Elapse)
=============================================================================
