-------------------------- MODULE BreakerRecovery --------------------------
(***************************************************************************)
(* One breaker under a stream of attempts that never ends: the requests of *)
(* users and the stats-sync job, which calls every core each minute        *)
(* (jobs.go).  The core fails and recovers; an attempt made while it is    *)
(* down fails, however late the failure shows, one made while it is up     *)
(* succeeds, however late the answer comes.                                *)
(***************************************************************************)
EXTENDS Breaker

CONSTANT MaxInFlight    \* bound: concurrent attempts

ASSUME MaxInFlightAssumption == MaxInFlight \in Nat \ {0}

VARIABLES up,           \* the core answers
          good,         \* attempts under way that will succeed
          doomed        \* attempts under way that will fail

recoveryVars == <<breaker, up, good, doomed>>

RecoveryInit == BreakerInit /\ up = TRUE /\ good = 0 /\ doomed = 0

\* One iteration of coreDoWithRetry's loop gets past cb.allow.
Attempt ==
    /\ good + doomed < MaxInFlight
    /\ Allow
    /\ good' = IF up THEN good + 1 ELSE good
    /\ doomed' = IF up THEN doomed ELSE doomed + 1
    /\ UNCHANGED up

Succeed ==
    /\ good > 0
    /\ RecordSuccess
    /\ good' = good - 1
    /\ UNCHANGED <<up, doomed>>

Fail ==
    /\ doomed > 0
    /\ RecordFailure
    /\ doomed' = doomed - 1
    /\ UNCHANGED <<up, good>>

\* The core goes away or comes back (external).
CoreChanges == up' = ~up /\ UNCHANGED <<breaker, good, doomed>>

Elapse == TimePasses /\ UNCHANGED <<up, good, doomed>>

RecoveryNext == Attempt \/ Succeed \/ Fail \/ CoreChanges \/ Elapse

RecoverySpec == RecoveryInit /\ [][RecoveryNext]_recoveryVars

(***************************************************************************)
(* Attempts keep coming (stats-sync), every attempt ends (the client has a *)
(* 10 s timeout), and time passes.                                         *)
(***************************************************************************)
RecoveryFairSpec ==
    /\ RecoverySpec
    /\ WF_recoveryVars(Attempt) /\ WF_recoveryVars(Succeed)
    /\ WF_recoveryVars(Fail) /\ WF_recoveryVars(Elapse)
-----------------------------------------------------------------------------
\* Types of the breaker and of the attempts under way.
RecoveryTypeOK ==
    /\ BreakerTypeOK
    /\ up \in BOOLEAN
    /\ good \in Nat /\ doomed \in Nat
    /\ good + doomed <= MaxInFlight

(***************************************************************************)
(* A single failure during a half-open trial opens the breaker again, also *)
(* when the failure is a late one: half-open keeps the count at the        *)
(* threshold (core_client.go:177-193 against 202-210).                     *)
(***************************************************************************)
TrialFailureReopens ==
    [][state = "half-open" /\ doomed' < doomed => state' = "open"]_recoveryVars

(***************************************************************************)
(* A core that is back for good is used again for good: no order of late   *)
(* failures and trials leaves the breaker open for ever.                   *)
(***************************************************************************)
BreakerRecovers == <>[]up => <>[](state = "closed")
=============================================================================
