----------------------------- MODULE RateLimit -----------------------------
(***************************************************************************)
(* The three rate limiters: per IP address (api/ratelimit.go), per refresh *)
(* token (api/refresh_ratelimit.go) and per user (control/user_ratelimit.  *)
(* go).  Each is a map from keys to entries under a mutex: a rate.Limiter  *)
(* of the library golang.org/x/time/rate and the time it was last asked    *)
(* for.  A clean-up goroutine deletes entries not asked for in a while.    *)
(* The limiters differ in one thing: the two later ones ask the limiter    *)
(* with the mutex held, the first only looks it up (getLimiter) and asks   *)
(* it after the mutex is released.                                         *)
(*                                                                         *)
(* A limiter object is known by its key and a number.  Its contents are    *)
(* counted in fractions of a token, Cost[k] of them make one; times count  *)
(* ticks.                                                                  *)
(***************************************************************************)
EXTENDS Integers

CONSTANTS Keys,
          Reqs,             \* requests that may hold a limiter
          Ids,              \* to tell the limiters of a key apart
          Full, Cost, Rate, \* burst, one token, refill per tick
          Idle,             \* entries not asked for any longer than this go
          Stall,            \* longest time between getLimiter and Allow
          NoEntry, NoObj

ASSUME BucketAssumption ==
    /\ Ids # {} /\ NoObj \notin Keys \X Ids
    /\ NoEntry \notin [obj : Ids, seen : Nat]
    /\ Cost \in [Keys -> Nat \ {0}] /\ Full \in [Keys -> Nat]
    /\ Rate \in [Keys -> Nat] /\ Idle \in [Keys -> Nat] /\ Stall \in [Keys -> Nat]

\* By the time an entry is deleted its limiter is full again.  The code has
\* 20/s, burst 40, 180 s; 1/30 s, burst 10, 1800 s; 0.5/s, burst 3, 600 s.
ASSUME CleanupAssumption ==
    \A k \in Keys : Stall[k] <= Idle[k] /\ Rate[k] * (Idle[k] + 1 - Stall[k]) >= Full[k]

VARIABLES entry,        \* the maps: per key its limiter object and idle time
          lim,          \* contents of the limiter objects
          held,         \* the limiter a request has looked up and not yet asked
          stalled,      \* for how long
          verdict       \* the key last asked for, and whether it passed

limitVars == <<entry, lim, held, stalled, verdict>>

LimitInit ==
    /\ entry = [k \in Keys |-> NoEntry]
    /\ lim = [k \in Keys |-> [i \in Ids |-> Full[k]]]
    /\ held = [r \in Reqs |-> NoObj]
    /\ stalled = [r \in Reqs |-> 0]
    /\ verdict = <<>>
-----------------------------------------------------------------------------
(***************************************************************************)
(* The library (external).  It refills a limiter when it is asked, by the  *)
(* time that has passed; here every tick does.                             *)
(***************************************************************************)
Topped(k, n) == IF n + Rate[k] > Full[k] THEN Full[k] ELSE n + Rate[k]
Passes(k, n) == n >= Cost[k]
Asked(k, n) == IF Passes(k, n) THEN n - Cost[k] ELSE n
-----------------------------------------------------------------------------
InUse(k) == {i \in Ids : \/ entry[k] # NoEntry /\ entry[k].obj = i
                         \/ \E r \in Reqs : held[r] = <<k, i>>}

\* The entry for k, made if there is none, and its limiter.
Entered(k) ==
    IF entry[k] = NoEntry THEN [obj |-> CHOOSE i \in Ids : i \notin InUse(k), seen |-> 0]
    ELSE [obj |-> entry[k].obj, seen |-> 0]

Limiter(k) == IF entry[k] = NoEntry THEN Full[k] ELSE lim[k][entry[k].obj]

\* ipLimiter.getLimiter.
getLimiter(r, k) ==
    /\ entry' = [entry EXCEPT ![k] = Entered(k)]
    /\ lim' = [lim EXCEPT ![k][Entered(k).obj] = Limiter(k)]
    /\ held' = [held EXCEPT ![r] = <<k, Entered(k).obj>>]
    /\ UNCHANGED <<stalled, verdict>>

\* Allow on the limiter looked up before.
AllowHeld(r, k) ==
    LET i == held[r][2]
    IN  /\ verdict' = <<k, Passes(k, lim[k][i])>>
        /\ lim' = [lim EXCEPT ![k][i] = Asked(k, @)]
        /\ held' = [held EXCEPT ![r] = NoObj]
        /\ stalled' = [stalled EXCEPT ![r] = 0]
        /\ UNCHANGED entry

\* refreshLimiter.Allow and userRateLimiter.Allow.
Allow(k) ==
    /\ verdict' = <<k, Passes(k, Limiter(k))>>
    /\ entry' = [entry EXCEPT ![k] = Entered(k)]
    /\ lim' = [lim EXCEPT ![k][Entered(k).obj] = Asked(k, Limiter(k))]
    /\ UNCHANGED <<held, stalled>>

\* Entries are kept one tick less than they should.
ExpiredMutant(k) == entry[k] # NoEntry /\ entry[k].seen >= Idle[k]

Expired(k) == entry[k] # NoEntry /\ entry[k].seen > Idle[k]

\* One deletion of cleanup.
cleanup(k) ==
    /\ Expired(k)
    /\ entry' = [entry EXCEPT ![k] = NoEntry]
    /\ UNCHANGED <<lim, held, stalled, verdict>>

\* Idle times are told apart up to the one at which an entry may go.
Older(k) ==
    IF entry[k] = NoEntry \/ Expired(k) THEN entry[k]
    ELSE [obj |-> entry[k].obj, seen |-> entry[k].seen + 1]

LimitTick ==
    /\ \A r \in Reqs : held[r] # NoObj => stalled[r] < Stall[held[r][1]]
    /\ lim' = [k \in Keys |-> [i \in Ids |-> Topped(k, lim[k][i])]]
    /\ entry' = [k \in Keys |-> Older(k)]
    /\ stalled' = [r \in Reqs |-> IF held[r] = NoObj THEN 0 ELSE stalled[r] + 1]
    /\ UNCHANGED <<held, verdict>>
-----------------------------------------------------------------------------
(***************************************************************************)
(* What the bucket of a key holds: a deleted entry stands for a full one.  *)
(***************************************************************************)
level == [k \in Keys |-> Limiter(k)]

Bucket == INSTANCE TokenBucket

(***************************************************************************)
(* Deleting idle entries, and asking a limiter outside the mutex that      *)
(* guards the map, changes no answer: the limiters implement token buckets *)
(* that never forget (ratelimit.go:54-66, 77; refresh_ratelimit.go:53-79;  *)
(* user_ratelimit.go:36-62).                                               *)
(***************************************************************************)
ImplementsTokenBucket == Bucket!Spec
=============================================================================
