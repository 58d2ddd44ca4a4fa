------------------------------ MODULE Breaker ------------------------------
(***************************************************************************)
(* The circuit breaker that the control plane keeps per VPN core           *)
(* (circuitBreaker in internal/control/core_client.go).  Each method holds *)
(* cb.mu, so each is one action; the modules that call them interleave     *)
(* attempts of any number of goroutines (BreakerRecovery, CoreClient).     *)
(***************************************************************************)
EXTENDS Integers

CONSTANT Threshold      \* cbFailureThreshold

ASSUME ThresholdAssumption == Threshold \in Nat \ {0}

VARIABLES state,        \* cb.state
          failures,     \* cb.failures
          elapsed       \* more than cbResetTimeout since lastFailedAt

breaker == <<state, failures, elapsed>>

BreakerInit ==
    /\ state = "closed"
    /\ failures = 0
    /\ elapsed = TRUE

\* A breaker that starts its half-open trial with a clean slate.
AllowMutant ==
    \/ state # "open" /\ UNCHANGED breaker
    \/ /\ state = "open" /\ elapsed
       /\ state' = "half-open"
       /\ failures' = 0
       /\ UNCHANGED elapsed

\* A breaker without a half-open state.
AllowStuckMutant == state # "open" /\ UNCHANGED breaker

\* allow returns true; half-open lets everybody through.
Allow ==
    \/ state # "open" /\ UNCHANGED breaker
    \/ /\ state = "open" /\ elapsed
       /\ state' = "half-open"
       /\ UNCHANGED <<failures, elapsed>>

\* allow returns false.
Denied == state = "open" /\ ~elapsed

\* A success that closes the breaker and keeps the count.
RecordSuccessMutant ==
    /\ state' = "closed"
    /\ UNCHANGED <<failures, elapsed>>

RecordSuccess ==
    /\ failures' = 0
    /\ state' = "closed"
    /\ UNCHANGED elapsed

\* The count stops at the threshold, the only value it is compared with.
CountedUp == IF failures < Threshold THEN failures + 1 ELSE failures

RecordFailure ==
    /\ failures' = CountedUp
    /\ elapsed' = FALSE
    /\ state' = IF failures' >= Threshold THEN "open" ELSE state

\* cbResetTimeout goes by without a failure.
TimePasses == ~elapsed /\ elapsed' = TRUE /\ UNCHANGED <<state, failures>>
-----------------------------------------------------------------------------
BreakerTypeOK ==
    /\ state \in {"closed", "open", "half-open"}
    /\ failures \in 0 .. Threshold
    /\ elapsed \in BOOLEAN

(***************************************************************************)
(* The state and the counter tell the same story in every interleaving of  *)
(* successes, failures and trials (core_client.go:195-210): closed means   *)
(* fewer failures than the threshold since the last success, open and      *)
(* half-open mean the threshold was reached.                               *)
(***************************************************************************)
BreakerConsistent == state = "closed" <=> failures < Threshold
=============================================================================
