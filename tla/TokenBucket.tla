---------------------------- MODULE TokenBucket ----------------------------
(***************************************************************************)
(* What a rate limiter promises: per key a bucket that is full at first,   *)
(* is refilled at a fixed rate and pays for every request that passes.  A  *)
(* request is refused exactly when the bucket cannot pay.  Nothing is ever *)
(* forgotten; RateLimit.tla shows that the limiters, which drop idle keys  *)
(* to save memory, cannot be told from this.                               *)
(***************************************************************************)
EXTENDS Integers

CONSTANTS Keys,
          Full,             \* capacity of each key's bucket
          Cost,             \* what one request takes
          Rate              \* what one unit of time brings

VARIABLES level,        \* contents of each key's bucket
          verdict       \* the key last asked for, and whether it could pay

vars == <<level, verdict>>

Refilled(k, n) == IF n + Rate[k] > Full[k] THEN Full[k] ELSE n + Rate[k]

Init ==
    /\ level = [k \in Keys |-> Full[k]]
    /\ verdict = <<>>

Pass(k) ==
    /\ level[k] >= Cost[k]
    /\ level' = [level EXCEPT ![k] = @ - Cost[k]]
    /\ verdict' = <<k, TRUE>>

Refuse(k) ==
    /\ level[k] < Cost[k]
    /\ verdict' = <<k, FALSE>>
    /\ UNCHANGED level

Tick ==
    /\ level' = [k \in Keys |-> Refilled(k, level[k])]
    /\ UNCHANGED verdict

Next == (\E k \in Keys : Pass(k) \/ Refuse(k)) \/ Tick

Spec == Init /\ [][Next]_vars
=============================================================================
