----------------------------- MODULE EdgeProofs -----------------------------
(***************************************************************************)
(* Proofs about AuthEdge: the rate limiters implement token buckets that   *)
(* never forget, and trust is earned, for any keys, rates, life times,     *)
(* requests and extensions.                                                *)
(*                                                                         *)
(* That deleting an entry goes unnoticed needs two facts.  A request that  *)
(* holds a limiter looked it up after anyone before it, so the entry is no *)
(* older than the request's wait (HoldersRecent): an entry old enough to   *)
(* be deleted is held by nobody.  And what a limiter has been refilled     *)
(* since it was last asked covers the time its entry has been idle, less   *)
(* the longest wait (Owed): such an entry's limiter is full.               *)
(*                                                                         *)
(* The last part is about the WebSocket hub (WSHub), which the same server *)
(* serves behind the limiters: it closes a channel once, and its count of  *)
(* a user's connections is never below what it has registered.             *)
(***************************************************************************)
EXTENDS AuthEdge, WSHub, FiniteSetTheorems, TLAPS

LimitTypeOK ==
    /\ entry \in [Keys -> {NoEntry} \cup [obj : Ids, seen : Nat]]
    /\ lim \in [Keys -> [Ids -> Nat]]
    /\ held \in [Reqs -> {NoObj} \cup (Keys \X Ids)]
    /\ stalled \in [Reqs -> Nat]
    /\ pc \in [Reqs -> {"idle", "allow", "token", "user", "origin", "exchange", "register"}]

\* No limiter holds more than its burst, no entry is older than it can get.
Bounded ==
    \A k \in Keys :
        /\ \A i \in Ids : lim[k][i] <= Full[k]
        /\ entry[k] # NoEntry => entry[k].seen <= Idle[k] + 1

HoldsIP ==
    \A r \in Reqs :
        IF pc[r] = "allow" THEN held[r] \in {"ip"} \X Ids
        ELSE held[r] = NoObj /\ stalled[r] = 0

HoldersRecent ==
    \A r \in Reqs : held[r] # NoObj =>
        /\ entry[held[r][1]] # NoEntry
        /\ entry[held[r][1]].obj = held[r][2]
        /\ entry[held[r][1]].seen <= stalled[r]
        /\ stalled[r] <= Stall[held[r][1]]

Owed ==
    \A k \in Keys : entry[k] # NoEntry /\ entry[k].seen > Stall[k] =>
        \/ lim[k][entry[k].obj] = Full[k]
        \/ lim[k][entry[k].obj] >= Rate[k] * (entry[k].seen - Stall[k])

LimitInv == LimitTypeOK /\ Bounded /\ HoldsIP /\ HoldersRecent /\ Owed
-----------------------------------------------------------------------------
(***************************************************************************)
(* Looking up a key.                                                       *)
(***************************************************************************)
\* What BucketAssumption says of one key.
LEMMA KeyConstants ==
    ASSUME NEW k \in Keys
    PROVE  /\ Cost[k] \in Nat \ {0} /\ Full[k] \in Nat /\ Rate[k] \in Nat
           /\ Idle[k] \in Nat /\ Stall[k] \in Nat /\ Stall[k] <= Idle[k]
BY BucketAssumption, CleanupAssumption

\* The entry made or found names a limiter that nobody holds by another name.
LEMMA EnteredEntry ==
    ASSUME LimitInv, NEW k \in Keys
    PROVE  /\ Entered(k) \in [obj : Ids, seen : Nat]
           /\ Entered(k) # NoEntry
           /\ Entered(k).seen = 0
           /\ entry[k] # NoEntry => Entered(k).obj = entry[k].obj
           /\ Limiter(k) \in Nat /\ Limiter(k) <= Full[k]
<1>1. CASE entry[k] = NoEntry
  <2>0. ASSUME NEW r \in Reqs, NEW i \in Ids, held[r] = <<k, i>>
        PROVE  FALSE
    <3>1. <<k, i>> \in Keys \X Ids /\ <<k, i>>[1] = k
      OBVIOUS
    <3>2. held[r] # NoObj
      BY <2>0, <3>1, BucketAssumption
    <3> QED
      BY <1>1, <2>0, <3>1, <3>2 DEF LimitInv, HoldersRecent
  <2>1. InUse(k) = {}
    BY <1>1, <2>0 DEF InUse
  <2>2. (CHOOSE i \in Ids : i \notin InUse(k)) \in Ids
    BY <2>1, BucketAssumption
  <2>3. PICK c \in Ids : Entered(k) = [obj |-> c, seen |-> 0]
    BY <1>1, <2>2 DEF Entered
  <2> QED
    BY <1>1, <2>3, BucketAssumption, KeyConstants DEF Limiter
<1>2. CASE entry[k] # NoEntry
  <2>1. entry[k] \in [obj : Ids, seen : Nat]
    BY <1>2 DEF LimitInv, LimitTypeOK
  <2> QED
    BY <1>2, <2>1, BucketAssumption DEF Entered, Limiter, LimitInv, LimitTypeOK, Bounded
<1> QED
  BY <1>1, <1>2

\* What a limiter has left after it was asked.
LEMMA AskedRange ==
    ASSUME NEW k \in Keys, NEW n \in Nat, n <= Full[k]
    PROVE  Asked(k, n) \in Nat /\ Asked(k, n) <= n
BY KeyConstants DEF Asked, Passes
-----------------------------------------------------------------------------
(***************************************************************************)
(* The operations of RateLimit preserve LimitInv.                          *)
(***************************************************************************)
LEMMA LookUpKeeps ==
    ASSUME LimitInv, NEW r \in Reqs, pc[r] = "idle",
           pc' = [pc EXCEPT ![r] = "allow"], getLimiter(r, "ip")
    PROVE  LimitInv'
<1> DEFINE e == Entered("ip")
<1>0. "ip" \in Keys
  BY EdgeAssumption
<1>1. /\ e \in [obj : Ids, seen : Nat] /\ e # NoEntry /\ e.seen = 0
      /\ entry["ip"] # NoEntry => e.obj = entry["ip"].obj
      /\ Limiter("ip") \in Nat /\ Limiter("ip") <= Full["ip"]
  BY <1>0, EnteredEntry
<1>2. /\ entry' = [entry EXCEPT !["ip"] = e]
      /\ lim' = [lim EXCEPT !["ip"] = [lim["ip"] EXCEPT ![e.obj] = Limiter("ip")]]
      /\ held' = [held EXCEPT ![r] = <<"ip", e.obj>>]
      /\ stalled' = stalled
  BY DEF getLimiter
<1> HIDE DEF e
<1>3. LimitTypeOK'
  BY <1>0, <1>1, <1>2 DEF LimitInv, LimitTypeOK
<1>4. Bounded'
  BY <1>0, <1>1, <1>2, KeyConstants DEF LimitInv, LimitTypeOK, Bounded
<1>5. HoldsIP'
  BY <1>0, <1>1, <1>2 DEF LimitInv, LimitTypeOK, HoldsIP
<1>6. HoldersRecent'
  BY <1>0, <1>1, <1>2, KeyConstants, BucketAssumption
     DEF LimitInv, LimitTypeOK, HoldersRecent, HoldsIP
<1>7. Owed'
  BY <1>0, <1>1, <1>2, KeyConstants DEF LimitInv, LimitTypeOK, Owed
<1> QED
  BY <1>3, <1>4, <1>5, <1>6, <1>7 DEF LimitInv
\* Allow on the limiter a request holds.
LEMMA AllowHeldKeeps ==
    ASSUME LimitInv, NEW r \in Reqs, pc[r] = "allow", AllowHeld(r, "ip"),
           NEW l \in {"idle", "token", "user", "origin"}, pc' = [pc EXCEPT ![r] = l]
    PROVE  LimitInv'
<1> DEFINE i == held[r][2]
<1>0. "ip" \in Keys
  BY EdgeAssumption
<1>1. held[r] = <<"ip", i>> /\ i \in Ids /\ held[r] # NoObj
  BY <1>0, BucketAssumption DEF LimitInv, HoldsIP
<1>2. /\ entry["ip"] # NoEntry /\ entry["ip"].obj = i
      /\ entry["ip"].seen <= stalled[r] /\ stalled[r] <= Stall["ip"]
  BY <1>1 DEF LimitInv, HoldersRecent
<1>3. lim["ip"][i] \in Nat /\ lim["ip"][i] <= Full["ip"]
  BY <1>0, <1>1 DEF LimitInv, LimitTypeOK, Bounded
<1>4. Asked("ip", lim["ip"][i]) \in Nat /\ Asked("ip", lim["ip"][i]) <= Full["ip"]
  BY <1>0, <1>3, AskedRange, KeyConstants
<1>5. /\ entry' = entry
      /\ lim' = [lim EXCEPT !["ip"] = [lim["ip"] EXCEPT ![i] = Asked("ip", lim["ip"][i])]]
      /\ held' = [held EXCEPT ![r] = NoObj]
      /\ stalled' = [stalled EXCEPT ![r] = 0]
  BY DEF AllowHeld
<1> HIDE DEF i
<1>6. LimitTypeOK' /\ Bounded'
  BY <1>0, <1>1, <1>4, <1>5 DEF LimitInv, LimitTypeOK, Bounded
<1>7. HoldsIP'
  BY <1>5 DEF LimitInv, LimitTypeOK, HoldsIP
<1>8. HoldersRecent'
  BY <1>5 DEF LimitInv, LimitTypeOK, HoldersRecent
<1>9. Owed'
  <2> SUFFICES ASSUME NEW k \in Keys, entry[k] # NoEntry, entry[k].seen > Stall[k]
               PROVE  lim'[k] = lim[k]
    BY <1>5 DEF LimitInv, LimitTypeOK, Owed
  <2>1. entry[k] \in [obj : Ids, seen : Nat] /\ Stall[k] \in Nat
    BY KeyConstants DEF LimitInv, LimitTypeOK
  <2>2. stalled[r] \in Nat
    BY DEF LimitInv, LimitTypeOK
  <2>3. k # "ip"
    BY <1>2, <2>1, <2>2
  <2> QED
    BY <1>5, <2>3 DEF LimitInv, LimitTypeOK
<1> QED
  BY <1>6, <1>7, <1>8, <1>9 DEF LimitInv

\* Looking the limiter up and Allow in one go.
LEMMA AllowKeeps ==
    ASSUME LimitInv, NEW r \in Reqs, pc[r] # "allow", NEW k \in Keys, Allow(k),
           NEW l \in {"idle", "origin"}, pc' = [pc EXCEPT ![r] = l]
    PROVE  LimitInv'
<1> DEFINE e == Entered(k)
           n == Asked(k, Limiter(k))
<1>1. /\ e \in [obj : Ids, seen : Nat] /\ e # NoEntry /\ e.seen = 0
      /\ entry[k] # NoEntry => e.obj = entry[k].obj
  BY EnteredEntry
<1>2. n \in Nat /\ n <= Full[k]
  BY EnteredEntry, AskedRange, KeyConstants
<1>3. /\ entry' = [entry EXCEPT ![k] = e]
      /\ lim' = [lim EXCEPT ![k] = [lim[k] EXCEPT ![e.obj] = n]]
      /\ held' = held /\ stalled' = stalled
  BY DEF Allow
<1> HIDE DEF e, n
<1>4. LimitTypeOK' /\ Bounded'
  BY <1>1, <1>2, <1>3, KeyConstants DEF LimitInv, LimitTypeOK, Bounded
<1>5. HoldsIP'
  BY <1>3 DEF LimitInv, LimitTypeOK, HoldsIP
<1>6. HoldersRecent'
  BY <1>1, <1>3 DEF LimitInv, LimitTypeOK, HoldersRecent
<1>7. Owed'
  BY <1>1, <1>3, KeyConstants DEF LimitInv, LimitTypeOK, Owed
<1> QED
  BY <1>4, <1>5, <1>6, <1>7 DEF LimitInv

\* An entry that may be deleted is held by nobody, and its limiter is full.
LEMMA ExpiredIsFull ==
    ASSUME LimitInv, NEW k \in Keys, Expired(k)
    PROVE  /\ lim[k][entry[k].obj] = Full[k]
           /\ \A r \in Reqs : held[r] # NoObj => held[r][1] # k
<1>1. entry[k] # NoEntry /\ entry[k] \in [obj : Ids, seen : Nat] /\ entry[k].seen > Idle[k]
  BY DEF LimitInv, LimitTypeOK, Expired
<1>2. entry[k].seen = Idle[k] + 1
  BY <1>1, KeyConstants DEF LimitInv, Bounded
<1>3. lim[k][entry[k].obj] \in Nat /\ lim[k][entry[k].obj] <= Full[k]
  BY <1>1 DEF LimitInv, LimitTypeOK, Bounded
<1>4. /\ Rate[k] * (entry[k].seen - Stall[k]) >= Full[k]
      /\ Rate[k] * (entry[k].seen - Stall[k]) \in Int
  <2>1. entry[k].seen - Stall[k] = Idle[k] + 1 - Stall[k]
    BY <1>1, <1>2, KeyConstants
  <2>2. Rate[k] * (Idle[k] + 1 - Stall[k]) >= Full[k]
    BY CleanupAssumption
  <2>3. Rate[k] * (Idle[k] + 1 - Stall[k]) \in Int
    BY KeyConstants
  <2> QED
    BY <2>1, <2>2, <2>3
<1>5. lim[k][entry[k].obj] = Full[k]
  <2>1. \/ lim[k][entry[k].obj] = Full[k]
        \/ lim[k][entry[k].obj] >= Rate[k] * (entry[k].seen - Stall[k])
    BY <1>1, <1>2, KeyConstants DEF LimitInv, Owed
  <2> DEFINE p == Rate[k] * (entry[k].seen - Stall[k])
  <2> HIDE DEF p
  <2>2. p \in Int /\ p >= Full[k]
    BY <1>4 DEF p
  <2>3. lim[k][entry[k].obj] = Full[k] \/ lim[k][entry[k].obj] >= p
    BY <2>1 DEF p
  <2> QED
    BY <1>3, <2>2, <2>3, KeyConstants
<1>6. ASSUME NEW r \in Reqs, held[r] # NoObj, held[r][1] = k
      PROVE  FALSE
  BY <1>1, <1>2, <1>6, KeyConstants DEF LimitInv, HoldersRecent, LimitTypeOK
<1> QED
  BY <1>5, <1>6

\* Deleting entries that have been idle for long.
LEMMA CleanupKeeps ==
    ASSUME LimitInv, NEW k \in Keys, cleanup(k), pc' = pc
    PROVE  LimitInv'
<1>1. /\ entry' = [entry EXCEPT ![k] = NoEntry]
      /\ lim' = lim /\ held' = held /\ stalled' = stalled /\ Expired(k)
  BY DEF cleanup
<1>2. \A r \in Reqs : held[r] # NoObj => held[r][1] # k
  BY <1>1, ExpiredIsFull
<1>3. LimitTypeOK' /\ Bounded' /\ HoldsIP'
  BY <1>1 DEF LimitInv, LimitTypeOK, Bounded, HoldsIP
<1>4. HoldersRecent'
  BY <1>1, <1>2 DEF LimitInv, LimitTypeOK, HoldersRecent
<1>5. Owed'
  BY <1>1 DEF LimitInv, LimitTypeOK, Owed
<1> QED
  BY <1>3, <1>4, <1>5 DEF LimitInv
\* What one tick brings, added to what is owed.
LEMMA OneTick ==
    ASSUME NEW rate \in Nat, NEW wait \in Int, NEW n \in Nat, n >= rate * wait
    PROVE  n + rate >= rate * (wait + 1)
<1>1. rate * (wait + 1) = rate * wait + rate
  OBVIOUS
<1> QED
  BY <1>1

\* Time passes for entries, limiters and requests.
LEMMA TickKeeps ==
    ASSUME LimitInv, LimitTick, pc' = pc
    PROVE  LimitInv'
<1>1. /\ lim' = [k \in Keys |-> [i \in Ids |-> Topped(k, lim[k][i])]]
      /\ entry' = [k \in Keys |-> Older(k)]
      /\ stalled' = [r \in Reqs |-> IF held[r] = NoObj THEN 0 ELSE stalled[r] + 1]
      /\ held' = held
      /\ \A r \in Reqs : held[r] # NoObj => stalled[r] < Stall[held[r][1]]
  BY DEF LimitTick
<1>2. ASSUME NEW k \in Keys, NEW i \in Ids
      PROVE  /\ lim[k][i] \in Nat /\ lim[k][i] <= Full[k]
             /\ lim'[k][i] = Topped(k, lim[k][i])
             /\ Topped(k, lim[k][i]) \in Nat /\ Topped(k, lim[k][i]) <= Full[k]
  <2>1. lim[k][i] \in Nat /\ lim[k][i] <= Full[k]
    BY DEF LimitInv, LimitTypeOK, Bounded
  <2> QED
    BY <1>1, <2>1, KeyConstants DEF Topped
<1>3. ASSUME NEW k \in Keys
      PROVE  /\ entry[k] = NoEntry => entry'[k] = NoEntry
             /\ entry[k] # NoEntry =>
                  /\ entry[k] \in [obj : Ids, seen : Nat]
                  /\ entry'[k] \in [obj : Ids, seen : Nat]
                  /\ entry'[k] # NoEntry
                  /\ entry'[k].obj = entry[k].obj
                  /\ \/ entry'[k].seen = entry[k].seen
                     \/ entry'[k].seen = entry[k].seen + 1
                  /\ entry'[k].seen <= Idle[k] + 1
  <2>1. entry[k] # NoEntry => entry[k] \in [obj : Ids, seen : Nat] /\ entry[k].seen <= Idle[k] + 1
    BY DEF LimitInv, LimitTypeOK, Bounded
  <2>2. entry'[k] = Older(k)
    BY <1>1
  <2> QED
    BY <2>1, <2>2, KeyConstants, BucketAssumption DEF Older, Expired
<1>4. LimitTypeOK'
  <2>1. lim' \in [Keys -> [Ids -> Nat]]
    BY <1>1, <1>2
  <2>2. entry' \in [Keys -> {NoEntry} \cup [obj : Ids, seen : Nat]]
    <3>1. \A k \in Keys : Older(k) \in {NoEntry} \cup [obj : Ids, seen : Nat]
      BY <1>1, <1>3
    <3> QED
      BY <1>1, <3>1
  <2> QED
    BY <1>1, <2>1, <2>2 DEF LimitInv, LimitTypeOK
<1>5. Bounded'
  BY <1>2, <1>3 DEF Bounded
<1>6. HoldsIP'
  BY <1>1, BucketAssumption, EdgeAssumption DEF LimitInv, HoldsIP, LimitTypeOK
<1>7. HoldersRecent'
  <2> SUFFICES ASSUME NEW r \in Reqs, held[r] # NoObj
               PROVE  /\ entry'[held[r][1]] # NoEntry
                      /\ entry'[held[r][1]].obj = held[r][2]
                      /\ entry'[held[r][1]].seen <= stalled[r] + 1
                      /\ stalled[r] + 1 <= Stall[held[r][1]]
    BY <1>1 DEF HoldersRecent
  <2>1. held[r][1] \in Keys /\ stalled[r] \in Nat
    BY DEF LimitInv, LimitTypeOK
  <2> QED
    BY <1>1, <1>3, <2>1, KeyConstants, SMTT(60) DEF LimitInv, HoldersRecent
<1>8. Owed'
  <2> SUFFICES ASSUME NEW k \in Keys, entry'[k] # NoEntry, entry'[k].seen > Stall[k]
               PROVE  \/ lim'[k][entry'[k].obj] = Full[k]
                      \/ lim'[k][entry'[k].obj] >= Rate[k] * (entry'[k].seen - Stall[k])
    BY DEF Owed
  <2> DEFINE n == lim[k][entry[k].obj]
             w == entry[k].seen - Stall[k]
  <2>1. entry[k] # NoEntry /\ entry[k].obj \in Ids /\ entry[k].seen \in Nat
    BY <1>3
  <2>2. n \in Nat /\ n <= Full[k] /\ lim'[k][entry'[k].obj] = Topped(k, n)
    BY <1>2, <1>3, <2>1
  <2>3. w \in Int /\ (entry'[k].seen - Stall[k] = w \/ entry'[k].seen - Stall[k] = w + 1)
    BY <1>3, <2>1, KeyConstants
  <2>4. Topped(k, n) = Full[k] \/ Topped(k, n) = n + Rate[k]
    BY DEF Topped
  <2>5. CASE n = Full[k]
    BY <2>2, <2>5, KeyConstants DEF Topped
  <2>6. CASE w = 0
    <3>1. entry'[k].seen - Stall[k] = 1
      BY <1>3, <2>1, <2>3, <2>6, KeyConstants
    <3> QED
      BY <2>2, <2>4, <3>1, KeyConstants
  <2>7. CASE w # 0 /\ n # Full[k]
    <3>1. entry[k].seen > Stall[k]
      BY <1>3, <2>1, <2>3, <2>7, KeyConstants
    <3>2. n >= Rate[k] * w
      BY <2>1, <2>7, <3>1 DEF LimitInv, Owed
    <3>3. n + Rate[k] >= Rate[k] * (w + 1)
      BY <2>2, <2>3, <3>2, OneTick, KeyConstants
    <3> HIDE DEF n, w
    <3>4. n + Rate[k] >= Rate[k] * w
      BY <2>2, <2>3, <3>2, KeyConstants
    <3> QED
      BY <2>2, <2>3, <2>4, <3>3, <3>4, KeyConstants
  <2> QED
    BY <2>5, <2>6, <2>7
<1> QED
  BY <1>4, <1>5, <1>6, <1>7,
     <1>8 DEF LimitInv-----------------------------------------------------------------------------
(***************************************************************************)
(* What the actions of AuthEdge do to the limiters.                        *)
(***************************************************************************)
\* Steps that leave the limiters alone and hold none.
Elsewhere(r) ==
    /\ pc[r] \notin {"allow"} /\ UNCHANGED limitVars
    /\ \E l \in {"idle", "exchange", "register"} : pc' = [pc EXCEPT ![r] = l]

\* Steps that concern no limiter.
LEMMA ElsewhereKeeps ==
    ASSUME LimitInv, NEW r \in Reqs, Elsewhere(r)
    PROVE  LimitInv'
<1>1. PICK l \in {"idle", "exchange", "register"} : pc' = [pc EXCEPT ![r] = l]
  BY DEF Elsewhere
<1>2. /\ entry' = entry /\ lim' = lim /\ held' = held /\ stalled' = stalled
      /\ pc[r] # "allow"
  BY DEF Elsewhere, limitVars
<1>3. LimitTypeOK' /\ HoldsIP'
  BY <1>1, <1>2 DEF LimitInv, LimitTypeOK, HoldsIP
<1> QED
  BY <1>2, <1>3 DEF LimitInv, Bounded, HoldersRecent, Owed

\* Every step is one of RateLimit's operations, or leaves the limiters alone.
LEMMA EdgeSteps ==
    ASSUME LimitInv, Next
    PROVE  \/ \E r \in Reqs : pc[r] = "idle" /\ pc' = [pc EXCEPT ![r] = "allow"] /\ getLimiter(r, "ip")
           \/ \E r \in Reqs : /\ pc[r] = "allow" /\ AllowHeld(r, "ip")
                              /\ \E l \in {"idle", "token", "user", "origin"} : pc' = [pc EXCEPT ![r] = l]
           \/ \E r \in Reqs, k \in Keys : /\ pc[r] # "allow" /\ Allow(k)
                                          /\ \E l \in {"idle", "origin"} : pc' = [pc EXCEPT ![r] = l]
           \/ \E r \in Reqs : Elsewhere(r)
           \/ UNCHANGED <<limitVars, pc>>
           \/ \E k \in Keys : cleanup(k) /\ pc' = pc
           \/ LimitTick /\ pc' = pc
<1>0. {"token", "user"} \subseteq Keys
  BY EdgeAssumption
<1>1. ASSUME NEW r \in Reqs, Arrive(r)
      PROVE  pc[r] = "idle" /\ pc' = [pc EXCEPT ![r] = "allow"] /\ getLimiter(r, "ip")
  BY <1>1 DEF Arrive, Goto
<1>2. ASSUME NEW r \in Reqs, RateLimitMiddleware(r)
      PROVE  /\ pc[r] = "allow" /\ AllowHeld(r, "ip")
             /\ \E l \in {"idle", "token", "user", "origin"} : pc' = [pc EXCEPT ![r] = l]
  BY <1>2 DEF RateLimitMiddleware, Done, Goto, Route
<1>3. ASSUME NEW r \in Reqs, RefreshRateLimitMiddleware(r) \/ ConnectLimiter(r)
      PROVE  \E k \in Keys : /\ pc[r] # "allow" /\ Allow(k)
                             /\ \E l \in {"idle", "origin"} : pc' = [pc EXCEPT ![r] = l]
  BY <1>0, <1>3 DEF RefreshRateLimitMiddleware, ConnectLimiter, Done, Goto
<1>4. ASSUME NEW r \in Reqs,
             \/ NoToken(r) \/ CheckOrigin(r) \/ OriginRefused(r) \/ exchangeAuthentikToken(r)
             \/ ExchangeFails(r) \/ Register(r) \/ RegisterFails(r)
      PROVE  Elsewhere(r)
  BY <1>4 DEF NoToken, CheckOrigin, OriginRefused, exchangeAuthentikToken, ExchangeFails,
              Register, RegisterFails, Done, Goto, Elsewhere, limitVars
<1>5. ASSUME NEW e \in Extensions, SetRevoked(e)
      PROVE  UNCHANGED <<limitVars, pc>>
  BY <1>5 DEF SetRevoked
<1>6. ASSUME NEW k \in Keys, cleanup(k), UNCHANGED edgeVars
      PROVE  pc' = pc
  BY <1>6 DEF edgeVars
<1>7. ASSUME LimitTick, UNCHANGED edgeVars
      PROVE  pc' = pc
  BY <1>7 DEF edgeVars
<1>8. ASSUME NEW r \in Reqs, Step(r)
      PROVE  \/ Arrive(r) \/ RateLimitMiddleware(r)
             \/ RefreshRateLimitMiddleware(r) \/ ConnectLimiter(r)
             \/ NoToken(r) \/ CheckOrigin(r) \/ OriginRefused(r) \/ exchangeAuthentikToken(r)
             \/ ExchangeFails(r) \/ Register(r) \/ RegisterFails(r)
  BY <1>8 DEF Step
<1>9. CASE \E r \in Reqs : Step(r)
  <2>1. PICK r \in Reqs : Step(r)
    BY <1>9
  <2> QED
    BY <2>1, <1>1, <1>2, <1>3, <1>4, <1>8, Zenon
<1>10. CASE \/ \E e \in Extensions : SetRevoked(e)
            \/ \E k \in Keys : cleanup(k) /\ UNCHANGED edgeVars
            \/ LimitTick /\ UNCHANGED edgeVars
  BY <1>5, <1>6, <1>7, <1>10
<1> QED
  BY <1>9, <1>10 DEF Next

\* At first there is no entry and nobody waits.
LEMMA LimitInvInit == Init => LimitInv
<1> SUFFICES ASSUME Init PROVE LimitInv
  OBVIOUS
<1>1. /\ entry = [k \in Keys |-> NoEntry] /\ held = [r \in Reqs |-> NoObj]
      /\ lim = [k \in Keys |-> [i \in Ids |-> Full[k]]]
      /\ stalled = [r \in Reqs |-> 0] /\ pc = [r \in Reqs |-> "idle"]
  BY DEF Init, LimitInit
<1>2. \A k \in Keys : Full[k] \in Nat
  BY KeyConstants
<1> QED
  BY <1>1, <1>2 DEF LimitInv, LimitTypeOK, Bounded, HoldsIP, HoldersRecent, Owed

\* Every step keeps it.
LEMMA LimitInvNext == LimitInv /\ [Next]_vars => LimitInv'
<1> SUFFICES ASSUME LimitInv, [Next]_vars PROVE LimitInv'
  OBVIOUS
<1>1. CASE Next
  <2>1. ASSUME UNCHANGED <<limitVars, pc>> PROVE LimitInv'
    BY <2>1 DEF limitVars, LimitInv, LimitTypeOK, Bounded, HoldsIP, HoldersRecent, Owed
  <2> QED
    BY <1>1, <2>1, EdgeSteps, LookUpKeeps, AllowHeldKeeps, AllowKeeps, ElsewhereKeeps,
       CleanupKeeps, TickKeeps
<1>2. CASE UNCHANGED vars
  BY <1>2 DEF vars, limitVars, edgeVars, LimitInv, LimitTypeOK, Bounded, HoldsIP, HoldersRecent,
     Owed
<1> QED
  BY <1>1, <1>2

\* It holds, always.
LEMMA LimitInvariant == Spec => []LimitInv
BY LimitInvInit, LimitInvNext,
   PTL DEF Spec-----------------------------------------------------------------------------
(***************************************************************************)
(* The refinement, one lemma per operation.                                *)
(***************************************************************************)
LEMMA LookUpStutters ==
    ASSUME LimitInv, NEW r \in Reqs, getLimiter(r, "ip")
    PROVE  UNCHANGED <<level, verdict>>
<1>0. "ip" \in Keys
  BY EdgeAssumption
<1> DEFINE e == Entered("ip")
<1>1. e.obj \in Ids /\ e # NoEntry /\ (entry["ip"] # NoEntry => e.obj = entry["ip"].obj)
  BY <1>0, EnteredEntry
<1>2. /\ entry' = [entry EXCEPT !["ip"] = e] /\ verdict' = verdict
      /\ lim' = [lim EXCEPT !["ip"] = [lim["ip"] EXCEPT ![e.obj] = Limiter("ip")]]
  BY DEF getLimiter
<1> HIDE DEF e
<1>3. ASSUME NEW k \in Keys
      PROVE  Limiter(k)' = Limiter(k)
  BY <1>0, <1>1, <1>2 DEF Limiter, LimitInv, LimitTypeOK
<1> QED
  BY <1>2, <1>3 DEF level

\* Allow on the limiter a request holds is Allow on its bucket.
LEMMA AllowHeldRefines ==
    ASSUME LimitInv, NEW r \in Reqs, pc[r] = "allow", AllowHeld(r, "ip")
    PROVE  Bucket!Next
<1> DEFINE i == held[r][2]
<1>0. "ip" \in Keys
  BY EdgeAssumption
<1>1. held[r] = <<"ip", i>> /\ i \in Ids /\ held[r] # NoObj
  BY <1>0, BucketAssumption DEF LimitInv, HoldsIP
<1>2. entry["ip"] # NoEntry /\ entry["ip"].obj = i
  BY <1>1 DEF LimitInv, HoldersRecent
<1>3. /\ entry' = entry /\ verdict' = <<"ip", Passes("ip", lim["ip"][i])>>
      /\ lim' = [lim EXCEPT !["ip"] = [lim["ip"] EXCEPT ![i] = Asked("ip", lim["ip"][i])]]
  BY DEF AllowHeld
<1> HIDE DEF i
<1>4. level["ip"] = lim["ip"][i] /\ level["ip"] \in Nat /\ Cost["ip"] \in Nat
  BY <1>0, <1>1, <1>2, KeyConstants DEF level, Limiter, LimitInv, LimitTypeOK
<1>5. ASSUME NEW k \in Keys
      PROVE  Limiter(k)' = IF k = "ip" THEN Asked("ip", lim["ip"][i]) ELSE Limiter(k)
  BY <1>0, <1>1, <1>2, <1>3 DEF Limiter, LimitInv, LimitTypeOK
<1>6. level' = [level EXCEPT !["ip"] = Asked("ip", lim["ip"][i])]
  BY <1>0, <1>5 DEF level
<1>7. CASE Passes("ip", lim["ip"][i])
  <2>1. Asked("ip", lim["ip"][i]) = level["ip"] - Cost["ip"] /\ level["ip"] >= Cost["ip"]
    BY <1>4, <1>7 DEF Asked, Passes
  <2>2. verdict' = <<"ip", TRUE>>
    BY <1>3, <1>7 DEF Passes
  <2>3. level' = [level EXCEPT !["ip"] = level["ip"] - Cost["ip"]]
    BY <1>6, <2>1
  <2> QED
    BY <1>0, <2>1, <2>2, <2>3 DEF Bucket!Next, Bucket!Pass
<1>8. CASE ~Passes("ip", lim["ip"][i])
  <2>1. Asked("ip", lim["ip"][i]) = level["ip"] /\ level["ip"] < Cost["ip"]
    BY <1>4, <1>8 DEF Asked, Passes
  <2>2. verdict' = <<"ip", FALSE>>
    <3>1. Passes("ip", lim["ip"][i]) = FALSE
      BY <1>8 DEF Passes
    <3> QED
      BY <1>3, <3>1, Zenon
  <2>3. level' = level
    BY <1>0, <1>6, <2>1 DEF level
  <2> QED
    BY <1>0, <2>1, <2>2, <2>3 DEF Bucket!Next, Bucket!Refuse
<1> QED
  BY <1>7, <1>8

\* Looking the limiter up and Allow is Allow on the bucket.
LEMMA AllowRefines ==
    ASSUME LimitInv, NEW k \in Keys, Allow(k)
    PROVE  Bucket!Next
<1> DEFINE e == Entered(k)
           n == Limiter(k)
<1>1. e.obj \in Ids /\ e # NoEntry /\ n \in Nat /\ Cost[k] \in Nat
  BY EnteredEntry, KeyConstants
<1>2. /\ entry' = [entry EXCEPT ![k] = e] /\ verdict' = <<k, Passes(k, n)>>
      /\ lim' = [lim EXCEPT ![k] = [lim[k] EXCEPT ![e.obj] = Asked(k, n)]]
  BY DEF Allow
<1>3. level[k] = n
  BY DEF level
<1> HIDE DEF e, n
<1>4. ASSUME NEW j \in Keys
      PROVE  Limiter(j)' = IF j = k THEN Asked(k, n) ELSE Limiter(j)
  BY <1>1, <1>2 DEF Limiter, LimitInv, LimitTypeOK
<1>5. level' = [level EXCEPT ![k] = Asked(k, n)]
  BY <1>4 DEF level
<1>6. CASE Passes(k, n)
  <2>1. Asked(k, n) = level[k] - Cost[k] /\ level[k] >= Cost[k]
    BY <1>1, <1>3, <1>6 DEF Asked, Passes
  <2>2. verdict' = <<k, TRUE>>
    BY <1>2, <1>6 DEF Passes
  <2>3. level' = [level EXCEPT ![k] = level[k] - Cost[k]]
    BY <1>5, <2>1
  <2> QED
    BY <2>1, <2>2, <2>3 DEF Bucket!Next, Bucket!Pass
<1>7. CASE ~Passes(k, n)
  <2>1. Asked(k, n) = level[k] /\ level[k] < Cost[k]
    BY <1>1, <1>3, <1>7 DEF Asked, Passes
  <2>2. verdict' = <<k, FALSE>>
    <3>1. Passes(k, n) = FALSE
      BY <1>7 DEF Passes
    <3> QED
      BY <1>2, <3>1, Zenon
  <2>3. level' = level
    BY <1>5, <2>1 DEF level
  <2> QED
    BY <2>1, <2>2, <2>3 DEF Bucket!Next, Bucket!Refuse
<1> QED
  BY <1>6, <1>7

\* Deleting entries goes unnoticed.
LEMMA CleanupStutters ==
    ASSUME LimitInv, NEW k \in Keys, cleanup(k)
    PROVE  UNCHANGED <<level, verdict>>
<1>1. /\ entry' = [entry EXCEPT ![k] = NoEntry] /\ Expired(k)
      /\ lim' = lim /\ verdict' = verdict
  BY DEF cleanup
<1>2. Limiter(k) = Full[k]
  BY <1>1, ExpiredIsFull DEF Limiter
<1>3. ASSUME NEW j \in Keys
      PROVE  Limiter(j)' = Limiter(j)
  BY <1>1, <1>2 DEF Limiter, LimitInv, LimitTypeOK
<1> QED
  BY <1>1, <1>3 DEF level

\* Time refills limiters as it refills buckets.
LEMMA TickRefines ==
    ASSUME LimitInv, LimitTick
    PROVE  Bucket!Next
<1>1. /\ lim' = [k \in Keys |-> [i \in Ids |-> Topped(k, lim[k][i])]]
      /\ entry' = [k \in Keys |-> Older(k)] /\ verdict' = verdict
  BY DEF LimitTick
<1>2. ASSUME NEW k \in Keys
      PROVE  Limiter(k)' = Bucket!Refilled(k, Limiter(k))
  <2>1. CASE entry[k] = NoEntry
    <3>1. entry'[k] = NoEntry
      BY <1>1, <2>1 DEF Older
    <3> QED
      BY <2>1, <3>1, KeyConstants DEF Limiter, Bucket!Refilled
  <2>2. CASE entry[k] # NoEntry
    <3>1. entry[k] \in [obj : Ids, seen : Nat]
      BY <2>2 DEF LimitInv, LimitTypeOK
    <3>2. entry'[k] # NoEntry /\ entry'[k].obj = entry[k].obj
      BY <1>1, <2>2, <3>1, BucketAssumption DEF Older
    <3> QED
      BY <1>1, <2>2, <3>1, <3>2 DEF Limiter, Topped, Bucket!Refilled
  <2> QED
    BY <2>1, <2>2
<1>3. level' = [k \in Keys |-> Bucket!Refilled(k, level[k])]
  BY <1>2 DEF level
<1> QED
  BY <1>1, <1>3 DEF Bucket!Next, Bucket!Tick

(***************************************************************************)
(* The limiters implement token buckets that never forget: looking a       *)
(* limiter up outside the mutex that guards the map and deleting entries   *)
(* that have been idle changes no answer (ratelimit.go, refresh_ratelimit. *)
(* go, user_ratelimit.go), provided an entry outlives its refill.          *)
(***************************************************************************)
THEOREM LimitersAreBuckets == Spec => ImplementsTokenBucket
<1>1. Init => Bucket!Init
  <2> SUFFICES ASSUME Init PROVE Bucket!Init
    OBVIOUS
  <2>1. entry = [k \in Keys |-> NoEntry] /\ verdict = <<>>
    BY DEF Init, LimitInit
  <2>2. level = [k \in Keys |-> Full[k]]
    BY <2>1 DEF level, Limiter
  <2> QED
    BY <2>1, <2>2 DEF Bucket!Init
<1>2. LimitInv /\ [Next]_vars => [Bucket!Next]_(Bucket!vars)
  <2> SUFFICES ASSUME LimitInv, [Next]_vars PROVE Bucket!Next \/ UNCHANGED <<level, verdict>>
    BY DEF Bucket!vars
  <2>1. ASSUME UNCHANGED limitVars PROVE UNCHANGED <<level, verdict>>
    BY <2>1 DEF limitVars, level, Limiter
  <2>2. CASE Next
    BY <2>1, <2>2, EdgeSteps, LookUpStutters, AllowHeldRefines, AllowRefines,
       CleanupStutters, TickRefines DEF Elsewhere
  <2>3. CASE UNCHANGED vars
    BY <2>1, <2>3 DEF vars
  <2> QED
    BY <2>2, <2>3
<1> QED
  BY <1>1, <1>2, LimitInvariant, PTL DEF Spec, ImplementsTokenBucket,
     Bucket!Spec-----------------------------------------------------------------------------
(***************************************************************************)
(* Trust.                                                                  *)
(***************************************************************************)
\* A request about to register comes from an extension a code was exchanged
\* for, every origin with a row was registered by such a request, and one that
\* is barred is revoked.
TrustInv ==
    /\ trust \in [Extensions -> {"unknown", "trusted", "revoked"}]
    /\ pc \in [Reqs -> {"idle", "allow", "token", "user", "origin", "exchange", "register"}]
    /\ job \in [Reqs -> {"none", "refresh", "callback", "connect"} \cup Extensions]
    /\ \A r \in Reqs : pc[r] = "register" => job[r] \in earned \cap Extensions
    /\ \A e \in Extensions : trust[e] # "unknown" => e \in earned
    /\ \A e \in Extensions \cap barred : trust[e] = "revoked"

\* Every step keeps trust earned.
LEMMA TrustInvNext == TrustInv /\ [Next]_vars => TrustInv'
<1> SUFFICES ASSUME TrustInv, [Next]_vars PROVE TrustInv'
  OBVIOUS
<1>1. ASSUME NEW r \in Reqs, Arrive(r) PROVE TrustInv'
  BY <1>1 DEF Arrive, Goto, trustVars, TrustInv
<1>2. ASSUME NEW r \in Reqs, RateLimitMiddleware(r) PROVE TrustInv'
  BY <1>2 DEF RateLimitMiddleware, Done, Goto, Route, NoJob, trustVars, TrustInv
<1>3. ASSUME NEW r \in Reqs, RefreshRateLimitMiddleware(r) \/ ConnectLimiter(r) PROVE TrustInv'
  BY <1>3 DEF RefreshRateLimitMiddleware, ConnectLimiter, Done, Goto, NoJob, trustVars, TrustInv
<1>4. ASSUME NEW r \in Reqs,
             \/ NoToken(r) \/ OriginRefused(r) \/ ExchangeFails(r) \/ RegisterFails(r)
      PROVE  TrustInv'
  BY <1>4 DEF NoToken, OriginRefused, ExchangeFails, RegisterFails, Done, Goto, NoJob,
              trustVars, TrustInv
<1>5. ASSUME NEW r \in Reqs, CheckOrigin(r) PROVE TrustInv'
  BY <1>5 DEF CheckOrigin, Goto, NoJob, trustVars, TrustInv
<1>6. ASSUME NEW r \in Reqs, exchangeAuthentikToken(r) PROVE TrustInv'
  BY <1>6 DEF exchangeAuthentikToken, Done, Goto, NoJob, TrustInv
<1>7. ASSUME NEW r \in Reqs, Register(r) PROVE TrustInv'
  BY <1>7 DEF Register, Registered, Done, Goto, NoJob, TrustInv
<1>8. ASSUME NEW e \in Extensions, SetRevoked(e) PROVE TrustInv'
  BY <1>8 DEF SetRevoked, TrustInv
<1>9. ASSUME UNCHANGED edgeVars PROVE TrustInv'
  BY <1>9 DEF edgeVars, TrustInv
<1> QED
  BY <1>1, <1>2, <1>3, <1>4, <1>5, <1>6, <1>7, <1>8, <1>9 DEF Next, Step, vars

(***************************************************************************)
(* An extension is trusted only after a code was exchanged for it, and a   *)
(* revoked one only once it is pardoned, whatever Callbacks and            *)
(* revocations cross (oauth.go:429-444, trusted_extension.go:39-51).       *)
(***************************************************************************)
THEOREM EdgeTrustIsEarned == Spec => []TrustIsEarned
<1>1. Init => TrustInv
  BY DEF Init, NoJob, TrustInv
<1>2. TrustInv => TrustIsEarned
  BY DEF TrustInv, TrustIsEarned, IsTrusted
<1> QED
  BY <1>1, <1>2, TrustInvNext, PTL DEF Spec
-----------------------------------------------------------------------------
(***************************************************************************)
(* The WebSocket hub (WSHub), which stands behind the same edge.           *)
(*                                                                         *)
(* A registered client's channel is open, because UnregisterClient and     *)
(* Prune remove the clients whose channels they close in the same locked   *)
(* section; a connection is registered at most once (FirstTime); and as a  *)
(* Lock section waits for the scans, the clients a scan has still to visit *)
(* stay registered (ScansLocked).                                          *)
(***************************************************************************)
HubTypes ==
    /\ clients \in SUBSET Conns /\ closed \in SUBSET Conns
    /\ user \in [Conns -> Users]
    /\ stage \in [Conns -> {"new", "register", "reading", "unregister", "done"}]
    /\ phase \in [Broadcasters -> {"idle", "scan", "prune", "register", "unregister"}]
    /\ left \in [Broadcasters -> SUBSET Conns]
    /\ dead \in [Broadcasters -> SUBSET Conns]

\* Run holds one connection while it registers or unregisters it.
OneTaken == phase[Run] \in {"register", "unregister"} => \E c \in Conns : taken = {c}

FirstTime ==
    /\ \A c \in Conns : stage[c] \in {"new", "register"} => c \notin clients \cup closed
    /\ phase[Run] = "register" =>
        \A c \in taken : c \notin clients \cup closed /\ stage[c] \notin {"new", "register"}

ScansLocked == \A b \in Broadcasters : phase[b] = "scan" => left[b] \subseteq clients

HubInv ==
    /\ HubTypes /\ OneTaken /\ FirstTime /\ ScansLocked
    /\ clients \cap closed = {} /\ ~panicked

\* The hub starts empty.
LEMMA InitHub == HubInit => HubInv
BY DEF HubInit, HubInv, HubTypes, OneTaken, FirstTime, ScansLocked, Broadcasters

\* Starting to go over clients under RLock.
LEMMA ScanKeeps ==
    ASSUME HubInv, NEW b \in Broadcasters, NEW S \in SUBSET clients, Scan(b, S),
           UNCHANGED <<clients, userConns, user, stage, buffer, closed, writing, panicked, taken>>
    PROVE  HubInv'
<1> USE DEF HubInv, HubTypes, OneTaken, FirstTime, ScansLocked
<1>1. PICK l \in {"idle", "scan"} : phase' = [phase EXCEPT ![b] = l]
  BY DEF Scan, Enter
<1>2. left' = [left EXCEPT ![b] = S] /\ UNCHANGED dead
  BY DEF Scan
<1> QED
  BY <1>1, <1>2 DEF Broadcasters

\* Every step keeps the registered channels open.
LEMMA HubStep ==
    ASSUME HubInv, [HubNext]_hubVars
    PROVE  HubInv'
<1> USE DEF HubInv, HubTypes, OneTaken, FirstTime, ScansLocked, hub, channels, scans
<1>0. Run \in Broadcasters
  BY DEF Broadcasters
<1>1. ASSUME NEW c \in Conns, Accept(c) PROVE HubInv'
  <2>1. PICK l \in {"register", "done"} : stage' = [stage EXCEPT ![c] = l]
    BY <1>1 DEF Accept, SetStage
  <2> QED
    BY <1>1, <2>1 DEF Accept
<1>2. ASSUME NEW c \in Conns, ReceiveRegister(c) PROVE HubInv'
  BY <1>0, <1>2 DEF ReceiveRegister, SetStage, Enter
<1>3. ASSUME NEW c \in Conns, ReadEnds(c) PROVE HubInv'
  BY <1>3 DEF ReadEnds, SetStage
<1>4. ASSUME NEW c \in Conns, ReceiveUnregister(c) PROVE HubInv'
  BY <1>0, <1>4 DEF ReceiveUnregister, SetStage, Enter
<1>5. ASSUME NEW c \in Conns, Write(c) PROVE HubInv'
  BY <1>5 DEF Write
<1>6. CASE RegisterClient
  BY <1>0, <1>6 DEF RegisterClient, Unlocked, Enter
<1>7. CASE UnregisterClient
  BY <1>0, <1>7
  DEF UnregisterClient, Unlocked, Enter, StillRegistered, Removed, Close
<1>8. CASE Broadcast
  BY <1>8 DEF Broadcast
<1>9. CASE RunBroadcast
  BY <1>0, <1>9, ScanKeeps DEF RunBroadcast
<1>10. ASSUME NEW n \in Notifiers, BroadcastToUsers(n) PROVE HubInv'
  BY <1>10, ScanKeeps DEF BroadcastToUsers, Broadcasters
<1>11. ASSUME NEW b \in Broadcasters, Visit(b) PROVE HubInv'
  <2>1. PICK c \in left[b] :
            /\ left' = [left EXCEPT ![b] = left[b] \ {c}]
            /\ panicked' = (panicked \/ c \in closed)
            /\ dead' = dead \/ dead' = [dead EXCEPT ![b] = dead[b] \cup {c}]
    BY <1>11 DEF Visit
  <2>2. PICK l \in {"scan", "prune", "idle"} : phase' = [phase EXCEPT ![b] = l]
    BY <1>11 DEF Visit, AfterScan, Enter
  <2>3. phase[b] = "scan" /\ c \in clients /\ c \in Conns
    BY <1>11, <2>1 DEF Visit
  <2>4. ~panicked'
    BY <2>1, <2>3
  <2> QED
    BY <1>11, <2>1, <2>2, <2>3, <2>4 DEF Visit
<1>12. ASSUME NEW b \in Broadcasters, Prune(b) PROVE HubInv'
  <2>1. /\ closed' = closed \cup (dead[b] \cap clients) /\ clients' = clients \ (dead[b] \cap clients)
        /\ panicked' = (panicked \/ (dead[b] \cap clients) \cap closed # {})
        /\ dead' = [dead EXCEPT ![b] = {}] /\ phase' = [phase EXCEPT ![b] = "idle"]
        /\ phase[b] = "prune" /\ Unlocked
        /\ UNCHANGED <<user, stage, taken, left>>
    BY <1>12 DEF Prune, Pruned, Close, Enter
  <2>2. ~panicked'
    BY <2>1
  <2>3. \A d \in Broadcasters : phase'[d] # "scan"
    BY <2>1 DEF Unlocked
  <2> QED
    BY <2>1, <2>2, <2>3
<1>13. CASE UNCHANGED hubVars
  BY <1>13 DEF hubVars
<1> QED
  BY <1>1, <1>2, <1>3, <1>4, <1>5, <1>6, <1>7, <1>8, <1>9, <1>10, <1>11, <1>12, <1>13 DEF HubNext

\* The hub's invariant holds throughout.
LEMMA HubInvariant == HubSpec => []HubInv
BY InitHub, HubStep, PTL DEF HubSpec

\* Nobody sends on a closed channel or closes one twice, although Run and every
\* BroadcastToUsers close those of the clients they find dead (ws_hub.go:60-71,
\* 90-99, 163-172).
THEOREM HubNeverPanics == HubSpec => []NoPanic
<1>1. HubInv => NoPanic
  BY DEF HubInv, NoPanic
<1> QED
  BY <1>1, HubInvariant, PTL

\* The clients of a user when one connection comes or goes.
LEMMA ClientCount ==
    ASSUME NEW S \in SUBSET Conns, NEW c \in Conns
    PROVE  /\ Cardinality(S) \in Nat
           /\ c \notin S => Cardinality(S \cup {c}) = Cardinality(S) + 1
           /\ c \in S => Cardinality(S \ {c}) = Cardinality(S) - 1 /\ Cardinality(S \ {c}) \in Nat
<1>1. IsFiniteSet(S) /\ Cardinality(S) \in Nat
  BY ConnsAssumption, FS_Subset, FS_CardinalityType
<1>2. c \notin S => Cardinality(S \cup {c}) = Cardinality(S) + 1
  BY <1>1, FS_AddElement
<1>3. c \in S => Cardinality(S \ {c}) = Cardinality(S) - 1
  BY <1>1, FS_RemoveElement
<1>4. IsFiniteSet(S \ {c}) /\ Cardinality(S \ {c}) \in Nat
  BY <1>1, FS_Subset, FS_CardinalityType
<1> QED
  BY <1>1, <1>2, <1>3, <1>4

CountsCover ==
    /\ userConns \in [Users -> Nat]
    /\ \A u \in Users : Cardinality(ClientsOf(u)) <= userConns[u]

\* Every step keeps the counts at or above the registered connections.
LEMMA CountedStep ==
    ASSUME HubInv, CountsCover, [HubNext]_hubVars
    PROVE  CountsCover'
<1>0. \A u \in Users : ClientsOf(u) \in SUBSET Conns
  BY DEF HubInv, HubTypes, ClientsOf
<1>c. \A u \in Users : /\ Cardinality(ClientsOf(u)) <= userConns[u] /\ userConns[u] \in Nat
                       /\ Cardinality(ClientsOf(u)) \in Nat
  <2>1. \A u \in Users : Cardinality(ClientsOf(u)) \in Nat
    BY <1>0, ConnsAssumption, FS_Subset, FS_CardinalityType
  <2> QED
    BY <2>1 DEF CountsCover
<1>1. CASE RegisterClient
  <2>1. PICK c \in Conns : taken = {c}
    BY <1>1 DEF RegisterClient, HubInv, OneTaken
  <2>2. /\ clients' = clients \cup {c} /\ user' = user /\ user[c] \in Users /\ c \notin clients
        /\ userConns' = [userConns EXCEPT ![user[c]] = userConns[user[c]] + 1]
    BY <1>1, <2>1 DEF RegisterClient, Counted, HubInv, HubTypes, FirstTime, CountsCover
  <2>3. \A u \in Users : ClientsOf(u)' =
            IF user[c] = u THEN ClientsOf(u) \cup {c} ELSE ClientsOf(u)
    BY <2>2 DEF ClientsOf
  <2>4. c \notin ClientsOf(user[c])
    BY <2>2 DEF ClientsOf
  <2>5. Cardinality(ClientsOf(user[c]) \cup {c}) = Cardinality(ClientsOf(user[c])) + 1
    BY <1>0, <2>2, <2>4, ClientCount
  <2>6. userConns' \in [Users -> Nat]
    BY <2>2 DEF CountsCover
  <2>7. ASSUME NEW u \in Users PROVE Cardinality(ClientsOf(u)') <= userConns'[u]
    <3>1. CASE user[c] = u
      <4>1. Cardinality(ClientsOf(u)') = Cardinality(ClientsOf(u)) + 1
        BY <2>3, <2>5, <3>1
      <4>2. userConns'[u] = userConns[u] + 1
        BY <2>2, <3>1 DEF CountsCover
      <4> QED
        BY <1>c, <4>1, <4>2
    <3>2. CASE user[c] # u
      <4>1. Cardinality(ClientsOf(u)') = Cardinality(ClientsOf(u))
        BY <2>3, <3>2
      <4>2. userConns'[u] = userConns[u]
        BY <2>2, <3>2 DEF CountsCover
      <4> QED
        BY <1>c, <4>1, <4>2
    <3> QED
      BY <3>1, <3>2
  <2> QED
    BY <2>6, <2>7 DEF CountsCover
<1>2. CASE UnregisterClient
  <2>1. PICK c \in Conns : taken = {c}
    BY <1>2 DEF UnregisterClient, HubInv, OneTaken
  <2>2. CASE c \in clients
    <3>1. /\ clients' = clients \ {c} /\ user' = user /\ user[c] \in Users
          /\ userConns' = [userConns EXCEPT ![user[c]] = userConns[user[c]] - 1]
      BY <1>2, <2>1, <2>2
      DEF UnregisterClient, StillRegistered, Removed, HubInv, HubTypes, CountsCover
    <3>2. \A u \in Users : ClientsOf(u)' =
              IF user[c] = u THEN ClientsOf(u) \ {c} ELSE ClientsOf(u)
      BY <3>1 DEF ClientsOf
    <3>3. c \in ClientsOf(user[c])
      BY <2>2, <3>1 DEF ClientsOf
    <3>4. /\ Cardinality(ClientsOf(user[c]) \ {c}) = Cardinality(ClientsOf(user[c])) - 1
          /\ Cardinality(ClientsOf(user[c]) \ {c}) \in Nat
      BY <1>0, <3>1, <3>3, ClientCount
    <3>5. userConns[user[c]] - 1 \in Nat
      BY <1>c, <3>1, <3>4
    <3>6. userConns' \in [Users -> Nat]
      BY <3>1, <3>5 DEF CountsCover
    <3>7. ASSUME NEW u \in Users PROVE Cardinality(ClientsOf(u)') <= userConns'[u]
      <4>1. CASE user[c] = u
        <5>1. Cardinality(ClientsOf(u)') = Cardinality(ClientsOf(u)) - 1
          BY <3>2, <3>4, <4>1
        <5>2. userConns'[u] = userConns[u] - 1
          BY <3>1, <4>1 DEF CountsCover
        <5> QED
          BY <1>c, <5>1, <5>2
      <4>2. CASE user[c] # u
        <5>1. Cardinality(ClientsOf(u)') = Cardinality(ClientsOf(u))
          BY <3>2, <4>2
        <5>2. userConns'[u] = userConns[u]
          BY <3>1, <4>2 DEF CountsCover
        <5> QED
          BY <1>c, <5>1, <5>2
      <4> QED
        BY <4>1, <4>2
    <3> QED
      BY <3>6, <3>7 DEF CountsCover
  <2>3. CASE c \notin clients
    <3>1. UNCHANGED <<clients, user, userConns>>
      BY <1>2, <2>1, <2>3
      DEF UnregisterClient, StillRegistered, Removed, HubInv, HubTypes, CountsCover
    <3> QED
      BY <3>1 DEF CountsCover, ClientsOf
  <2> QED
    BY <2>2, <2>3
<1>3. ASSUME NEW b \in Broadcasters, Prune(b) PROVE CountsCover'
  <2>1. clients' \subseteq clients /\ UNCHANGED <<user, userConns>>
    BY <1>3 DEF Prune, CountsAfterPrune
  <2>2. ASSUME NEW u \in Users PROVE Cardinality(ClientsOf(u)') <= userConns'[u]
    <3>1. ClientsOf(u)' \subseteq ClientsOf(u)
      BY <2>1 DEF ClientsOf
    <3>2. IsFiniteSet(ClientsOf(u))
      BY <1>0, ConnsAssumption, FS_Subset
    <3>3. /\ Cardinality(ClientsOf(u)') <= Cardinality(ClientsOf(u))
          /\ Cardinality(ClientsOf(u)') \in Nat
      BY <3>1, <3>2, FS_Subset, FS_CardinalityType
    <3> QED
      BY <1>c, <2>1, <3>3
  <2> QED
    BY <2>1, <2>2 DEF CountsCover
<1>4. CASE UNCHANGED <<clients, userConns, user>>
  BY <1>4 DEF CountsCover, ClientsOf
<1>5. RegisterClient \/ UnregisterClient \/ (\E b \in Broadcasters : Prune(b))
      \/ UNCHANGED <<clients, userConns, user>>
  BY DEF HubNext, Accept, ReceiveRegister, ReadEnds, ReceiveUnregister,
         Write, Broadcast, RunBroadcast, BroadcastToUsers, Visit,
         hubVars, hub
<1> QED
  BY <1>1, <1>2, <1>3, <1>4, <1>5

\* The per-user count never drops below the connections really registered,
\* however unregistration and pruning cross (ws_hub.go:60-71, 90-99), for any
\* finite set of connections.
THEOREM HubNeverUndercounts == HubSpec => []NeverUndercounted
<1>1. HubInit => CountsCover
  <2> SUFFICES ASSUME HubInit PROVE CountsCover
    OBVIOUS
  <2>1. userConns \in [Users -> Nat] /\ \A u \in Users : ClientsOf(u) = {} /\ userConns[u] = 0
    BY DEF HubInit, ClientsOf
  <2>2. \A u \in Users : Cardinality(ClientsOf(u)) = 0
    BY <2>1, FS_EmptySet
  <2> QED
    BY <2>1, <2>2 DEF CountsCover
<1>2. CountsCover => NeverUndercounted
  BY DEF CountsCover, NeverUndercounted
<1>3. HubInv /\ CountsCover /\ [HubNext]_hubVars => CountsCover'
  BY CountedStep
<1> QED
  BY <1>1, <1>2, <1>3, HubInvariant, PTL DEF HubSpec
=============================================================================
