-------------------------- MODULE TokenAuthProofs --------------------------
(***************************************************************************)
(* Proofs about TokenAuth, for all tokens, handlers, endpoints and times.  *)
(* One inductive invariant carries all four properties: it says how far    *)
(* into the future an entry of the cache may reach, given what the         *)
(* provider holds of its token, and what an answer in flight still says.   *)
(*                                                                         *)
(* The last part is about what stands behind the token: the proxy and the  *)
(* exit nodes it dials through (Proxy, ExitNodes).                         *)
(***************************************************************************)
EXTENDS TokenAuth, Proxy, FiniteSetTheorems, TLAPS

\* Attempts are younger than their timeout, and the past is past.
TimesBounded ==
    /\ \A t \in Tokens : revokedAt[t] <= now
    /\ upSince <= now
    /\ \A h \in Handlers : Asking(h) => started[h] <= now /\ now <= started[h] + Timeout

\* What an answer in flight says was so when the question was asked, or later.
RepliesTrue ==
    \A h \in Handlers :
        /\ pc[h] \in {"check", "lookup", "asking"} => tok[h] \in Tokens
        /\ ~ Asking(h) => reply[h] = "none"
        /\ reply[h] = "inactive" => tok[h] \notin idp
        /\ reply[h] = "active" /\ tok[h] \notin idp => started[h] <= revokedAt[tok[h]]

\* How long a positive entry can live.
ClaimsBounded ==
    \A t \in Tokens : cache[t].state = "claims" =>
        /\ exp[t] > 0 => cache[t].expiresAt + Leeway <= exp[t]
        /\ t \in idp => cache[t].expiresAt <= now + PositiveTTL
        /\ t \notin idp => cache[t].expiresAt <= revokedAt[t] + PositiveTTL + Timeout

\* How long an outage can be remembered.
FailuresBounded ==
    \A t \in Tokens : cache[t].state = "err" =>
        /\ cache[t].expiresAt <= now + NegativeTTL
        /\ t \in idp /\ ~ Expired(t) /\ up =>
            cache[t].expiresAt <= upSince + Timeout + NegativeTTL

\* Nothing vouches for a token that was evicted, until the provider does.
OutStays ==
    \A t \in Tokens : session[t] = "out" =>
        /\ cache[t].state # "claims"
        /\ \A h \in Handlers : tok[h] = t => reply[h] # "active"

IInv ==
    /\ TypeOK /\ TimesBounded /\ RepliesTrue
    /\ ClaimsBounded /\ FailuresBounded /\ OutStays
-----------------------------------------------------------------------------
\* exp claims and entries are times.
LEMMA Times ==
    ASSUME TypeOK, NEW t \in Tokens
    PROVE  exp[t] \in Nat /\ cache[t].expiresAt \in Nat /\ now \in Nat
<1>1. exp[t] \in Expiries /\ cache[t] \in Entry /\ now \in 0 .. MaxTime
  BY DEF TypeOK
<1>2. Expiries \subseteq Nat
  BY TimeAssumption
<1>3. exp[t] \in Nat
  BY <1>1, <1>2, Zenon
<1>4. cache[t].expiresAt \in Nat
  BY <1>1 DEF Entry
<1>5. now \in Nat
  BY <1>1, SMT
<1> QED
  BY <1>3, <1>4, <1>5

\* introspectionCache.set stores one entry and otherwise at most removes some.
LEMMA SetEntry ==
    ASSUME TypeOK, NEW t \in Tokens, NEW s \in {"claims", "err"},
           NEW ttl \in Nat, Set(t, s, ttl)
    PROVE  /\ cache' \in [Tokens -> Entry]
           /\ \A k \in Tokens :
                \/ cache'[k] = Absent
                \/ k = t /\ cache'[k] = [state |-> s, expiresAt |-> now + ttl]
                \/ k # t /\ cache'[k] = cache[k]
<1> DEFINE e == [state |-> s, expiresAt |-> now + ttl]
           entries == [cache EXCEPT ![t] = e]
           large == Cardinality({k \in Tokens : entries[k].state # "none"}) > MaxEntries
<1>1. cache' = [k \in Tokens |->
                    IF large /\ now > entries[k].expiresAt THEN Absent ELSE entries[k]]
  BY DEF Set
<1>2. now \in Nat /\ cache \in [Tokens -> Entry]
  BY TimeAssumption DEF TypeOK
<1>3. e \in Entry /\ Absent \in Entry
  BY <1>2 DEF Entry, Absent
<1>4. \A k \in Tokens : entries[k] = IF k = t THEN e ELSE cache[k]
  BY <1>2
<1>5. \A k \in Tokens : cache'[k] = Absent \/ cache'[k] = entries[k]
  BY <1>1
<1> HIDE DEF entries, large, e
<1>6. cache' \in [Tokens -> Entry]
  BY <1>1, <1>2, <1>3, <1>4
<1> QED
  BY <1>4, <1>5, <1>6 DEF e

\* Entries keep their bounds as long as nothing they depend on changes.
LEMMA CacheUntouched ==
    ASSUME IInv, UNCHANGED <<now, fixed, cache, provider>>
    PROVE  ClaimsBounded' /\ FailuresBounded'
  BY DEF IInv, ClaimsBounded, FailuresBounded, Expired, fixed, provider

\* The invariant holds at the start, with an empty cache and nothing asked.
LEMMA InitInv == Init => IInv
  BY TimeAssumption DEF Init, IInv, TypeOK, TimesBounded, RepliesTrue, ClaimsBounded,
     FailuresBounded, OutStays, Entry, Absent, Asking, Expired

\* Every step preserves it.
LEMMA StepInv == IInv /\ [Next]_vars => IInv'
<1> SUFFICES ASSUME IInv, [Next]_vars PROVE IInv'
  OBVIOUS
<1> USE TimeAssumption DEF IInv
<1>0. CASE UNCHANGED vars
  BY <1>0 DEF vars, TypeOK, TimesBounded, RepliesTrue, ClaimsBounded,
     FailuresBounded, OutStays, Asking, Expired
<1>1. ASSUME NEW h \in Handlers, Begin(h) PROVE IInv'
  <2>1. TypeOK'
    BY <1>1 DEF Begin, fixed, provider, attempt, TypeOK
  <2>2. TimesBounded'
    BY <1>1 DEF Begin, fixed, provider, attempt, TypeOK, TimesBounded, Asking
  <2>3. RepliesTrue'
    BY <1>1 DEF Begin, fixed, provider, attempt, TypeOK, RepliesTrue, TimesBounded,
         Asking
  <2>4. ClaimsBounded' /\ FailuresBounded'
    BY <1>1, CacheUntouched DEF Begin
  <2>5. OutStays'
    BY <1>1 DEF Begin, fixed, provider, attempt, TypeOK, OutStays, RepliesTrue, Asking
  <2> QED BY <2>1, <2>2, <2>3, <2>4, <2>5
<1>2. ASSUME NEW h \in Handlers, Check(h) PROVE IInv'
  <2>1. TypeOK'
    BY <1>2 DEF Check, ProxyRefuses, Finish, LocallyValid, fixed, provider, attempt, TypeOK
  <2>2. TimesBounded'
    BY <1>2 DEF Check, ProxyRefuses, Finish, LocallyValid, fixed, provider, attempt, TypeOK,
         TimesBounded, Asking
  <2>3. RepliesTrue'
    BY <1>2 DEF Check, ProxyRefuses, Finish, LocallyValid, fixed, provider, attempt, TypeOK,
         RepliesTrue, TimesBounded, Asking
  <2>4. ClaimsBounded' /\ FailuresBounded'
    BY <1>2, CacheUntouched DEF Check
  <2>5. OutStays'
    BY <1>2 DEF Check, ProxyRefuses, Finish, LocallyValid, fixed, provider, attempt, TypeOK,
         OutStays, RepliesTrue, Asking
  <2> QED BY <2>1, <2>2, <2>3, <2>4, <2>5
<1>3. ASSUME NEW h \in Handlers, Hit(h) PROVE IInv'
  <2>1. TypeOK'
    BY <1>3 DEF Hit, Finish, fixed, provider, attempt, TypeOK
  <2>2. TimesBounded'
    BY <1>3 DEF Hit, Finish, fixed, provider, attempt, TypeOK, TimesBounded, Asking
  <2>3. RepliesTrue'
    BY <1>3 DEF Hit, Finish, fixed, provider, attempt, TypeOK, RepliesTrue,
         TimesBounded, Asking
  <2>4. ClaimsBounded' /\ FailuresBounded'
    BY <1>3, CacheUntouched DEF Hit
  <2>5. OutStays'
    BY <1>3 DEF Hit, Finish, fixed, provider, attempt, TypeOK, OutStays,
         RepliesTrue, Asking
  <2> QED BY <2>1, <2>2, <2>3, <2>4, <2>5
<1>4. ASSUME NEW h \in Handlers, Miss(h) PROVE IInv'
  <2>1. TypeOK'
    BY <1>4 DEF Miss, Ask, fixed, provider, attempt, TypeOK
  <2>2. TimesBounded'
    BY <1>4 DEF Miss, Ask, fixed, provider, attempt, TypeOK, TimesBounded, Asking
  <2>3. RepliesTrue'
    BY <1>4 DEF Miss, Ask, fixed, provider, attempt, TypeOK, RepliesTrue,
         TimesBounded, Asking
  <2>4. ClaimsBounded' /\ FailuresBounded'
    BY <1>4, CacheUntouched DEF Miss
  <2>5. OutStays'
    BY <1>4 DEF Miss, Ask, fixed, provider, attempt, TypeOK, OutStays, RepliesTrue,
         Asking
  <2> QED BY <2>1, <2>2, <2>3, <2>4, <2>5
<1>5. ASSUME NEW h \in Handlers, Succeed(h) PROVE IInv'
  <2>t. tok[h] \in Tokens /\ now \in Nat
    BY <1>5 DEF Succeed, TypeOK, RepliesTrue, Asking
  <2>e. exp[tok[h]] \in Nat
    BY <2>t DEF TypeOK
  <2>0. /\ tok[h] \in Tokens /\ now \in Nat /\ TTL(tok[h]) \in Int
        /\ TTL(tok[h]) <= PositiveTTL
        /\ exp[tok[h]] > 0 => now + TTL(tok[h]) + Leeway <= exp[tok[h]]
    BY <2>t, <2>e DEF TTL
  <2>s. /\ cache' \in [Tokens -> Entry]
        /\ \A k \in Tokens :
            \/ cache'[k] = Absent
            \/ /\ k = tok[h]
               /\ cache'[k] = [state |-> "claims", expiresAt |-> now + TTL(tok[h])]
            \/ cache'[k] = cache[k]
    <3>1. CASE TTL(tok[h]) <= 0
      BY <1>5, <3>1 DEF Succeed, TypeOK
    <3>2. CASE ~ (TTL(tok[h]) <= 0)
      <4>1. Set(tok[h], "claims", TTL(tok[h])) /\ TTL(tok[h]) \in Nat
        BY <1>5, <2>0, <3>2 DEF Succeed
      <4> QED BY <4>1, <2>0, SetEntry
    <3> QED BY <3>1, <3>2
  <2>1. TypeOK'
    BY <1>5, <2>0, <2>s DEF Succeed, Finish, fixed, provider, attempt, TypeOK
  <2>2. TimesBounded'
    BY <1>5, <2>0, <2>s DEF Succeed, Finish, fixed, provider, attempt, TypeOK,
         TimesBounded, Asking
  <2>3. RepliesTrue'
    BY <1>5, <2>0, <2>s DEF Succeed, Finish, fixed, provider, attempt, TypeOK,
         RepliesTrue, TimesBounded, Asking
  <2>4. ClaimsBounded'
    BY <1>5, <2>0, <2>s DEF Succeed, Finish, fixed, provider, attempt, TypeOK,
         ClaimsBounded, RepliesTrue, TimesBounded, Asking, Entry, Absent
  <2>5. FailuresBounded'
    BY <1>5, <2>0, <2>s DEF Succeed, Finish, fixed, provider, attempt, TypeOK,
         FailuresBounded, RepliesTrue, TimesBounded, Asking, Entry, Expired, Absent
  <2>6. OutStays'
    BY <1>5, <2>0, <2>s DEF Succeed, Finish, fixed, provider, attempt, TypeOK,
         OutStays, RepliesTrue, Asking, Absent
  <2> QED BY <2>1, <2>2, <2>3, <2>4, <2>5, <2>6
<1>6. ASSUME NEW h \in Handlers, NextEndpoint(h) PROVE IInv'
  <2>1. TypeOK'
    BY <1>6 DEF NextEndpoint, Ask, fixed, provider, attempt, TypeOK, Last
  <2>2. TimesBounded'
    BY <1>6 DEF NextEndpoint, Ask, fixed, provider, attempt, TypeOK, TimesBounded,
         Asking
  <2>3. RepliesTrue'
    BY <1>6 DEF NextEndpoint, Ask, fixed, provider, attempt, TypeOK, RepliesTrue,
         TimesBounded, Asking
  <2>4. ClaimsBounded' /\ FailuresBounded'
    BY <1>6, CacheUntouched DEF NextEndpoint
  <2>5. OutStays'
    BY <1>6 DEF NextEndpoint, Ask, fixed, provider, attempt, TypeOK, OutStays,
         RepliesTrue, Asking
  <2> QED BY <2>1, <2>2, <2>3, <2>4, <2>5
<1>7. ASSUME NEW h \in Handlers, Fail(h) PROVE IInv'
  <2>0. tok[h] \in Tokens /\ now \in Nat
    BY <1>7 DEF Fail, TypeOK, RepliesTrue, Asking
  <2>s. /\ cache' \in [Tokens -> Entry]
        /\ \A k \in Tokens :
            \/ cache'[k] = Absent
            \/ /\ k = tok[h]
               /\ cache'[k] = [state |-> "err", expiresAt |-> now + NegativeTTL]
            \/ cache'[k] = cache[k]
    BY <1>7, <2>0, SetEntry DEF Fail, FailureTTL
  <2>1. TypeOK'
    BY <1>7, <2>0, <2>s DEF Fail, Finish, fixed, provider, attempt, TypeOK
  <2>2. TimesBounded'
    BY <1>7, <2>0, <2>s DEF Fail, Finish, fixed, provider, attempt, TypeOK,
         TimesBounded, Asking
  <2>3. RepliesTrue'
    BY <1>7, <2>0, <2>s DEF Fail, Finish, fixed, provider, attempt, TypeOK,
         RepliesTrue, TimesBounded, Asking
  <2>4. ClaimsBounded'
    BY <1>7, <2>0, <2>s DEF Fail, Finish, fixed, provider, attempt, TypeOK,
         ClaimsBounded, RepliesTrue, TimesBounded, Asking, Entry, Absent
  <2>5. FailuresBounded'
    BY <1>7, <2>0, <2>s, SMTT(60) DEF Fail, Finish, fixed, provider, attempt, TypeOK,
         FailuresBounded, RepliesTrue, TimesBounded, Asking, Entry, Expired, Absent,
         Failed, Unreachable
  <2>6. OutStays'
    BY <1>7, <2>0, <2>s DEF Fail, Finish, fixed, provider, attempt, TypeOK,
         OutStays, RepliesTrue, Asking, Absent
  <2> QED BY <2>1, <2>2, <2>3, <2>4, <2>5, <2>6
<1>8. ASSUME NEW h \in Handlers, Answer(h) PROVE IInv'
  <2>1. TypeOK'
    BY <1>8 DEF Answer, fixed, provider, attempt, TypeOK
  <2>2. TimesBounded'
    BY <1>8 DEF Answer, fixed, provider, attempt, TypeOK, TimesBounded, Asking
  <2>3. RepliesTrue'
    BY <1>8 DEF Answer, fixed, provider, attempt, TypeOK, RepliesTrue, TimesBounded,
         Asking
  <2>4. ClaimsBounded' /\ FailuresBounded'
    BY <1>8, CacheUntouched DEF Answer
  <2>5. OutStays'
    BY <1>8 DEF Answer, fixed, provider, attempt, TypeOK, OutStays, RepliesTrue, Asking
  <2> QED BY <2>1, <2>2, <2>3, <2>4, <2>5
<1>9. ASSUME NEW t \in Tokens, Logout(t) PROVE IInv'
  <2>1. TypeOK'
    BY <1>9 DEF Logout, Evicted, fixed, provider, attempt, TypeOK, Entry, Absent
  <2>2. TimesBounded'
    BY <1>9 DEF Logout, Evicted, fixed, provider, attempt, TypeOK, TimesBounded, Asking
  <2>3. RepliesTrue'
    BY <1>9 DEF Logout, Evicted, fixed, provider, attempt, TypeOK, RepliesTrue,
         TimesBounded, Asking
  <2>4. ClaimsBounded'
    BY <1>9 DEF Logout, Evicted, fixed, provider, attempt, TypeOK, ClaimsBounded,
         RepliesTrue, TimesBounded, Asking, Entry, Absent
  <2>5. FailuresBounded'
    BY <1>9 DEF Logout, Evicted, fixed, provider, attempt, TypeOK, FailuresBounded,
         RepliesTrue, TimesBounded, Asking, Entry, Expired, Absent
  <2>6. OutStays'
    BY <1>9 DEF Logout, Evicted, Confirmed, fixed, provider, attempt, TypeOK, OutStays,
         RepliesTrue, Asking, Absent
  <2> QED BY <2>1, <2>2, <2>3, <2>4, <2>5, <2>6
<1>10. ASSUME NEW t \in Tokens, Revoke(t) PROVE IInv'
  <2>1. TypeOK'
    BY <1>10 DEF Revoke, fixed, provider, attempt, TypeOK
  <2>2. TimesBounded'
    BY <1>10 DEF Revoke, fixed, provider, attempt, TypeOK, TimesBounded, Asking
  <2>3. RepliesTrue'
    BY <1>10 DEF Revoke, fixed, provider, attempt, TypeOK, RepliesTrue, TimesBounded,
         Asking
  <2>4. ClaimsBounded'
    BY <1>10 DEF Revoke, fixed, provider, attempt, TypeOK, ClaimsBounded,
         RepliesTrue, TimesBounded, Asking, Entry
  <2>5. FailuresBounded'
    BY <1>10 DEF Revoke, fixed, provider, attempt, TypeOK, FailuresBounded,
         RepliesTrue, TimesBounded, Asking, Entry, Expired
  <2>6. OutStays'
    BY <1>10 DEF Revoke, fixed, provider, attempt, TypeOK, OutStays, RepliesTrue,
         Asking
  <2> QED BY <2>1, <2>2, <2>3, <2>4, <2>5, <2>6
<1>11. CASE Outage
  <2>1. TypeOK'
    BY <1>11 DEF Outage, fixed, provider, attempt, TypeOK
  <2>2. TimesBounded'
    BY <1>11 DEF Outage, fixed, provider, attempt, TypeOK, TimesBounded, Asking
  <2>3. RepliesTrue'
    BY <1>11 DEF Outage, fixed, provider, attempt, TypeOK, RepliesTrue, TimesBounded,
         Asking
  <2>4. ClaimsBounded'
    BY <1>11 DEF Outage, fixed, provider, attempt, TypeOK, ClaimsBounded,
         RepliesTrue, TimesBounded, Asking, Entry
  <2>5. FailuresBounded'
    BY <1>11 DEF Outage, fixed, provider, attempt, TypeOK, FailuresBounded,
         RepliesTrue, TimesBounded, Asking, Entry, Expired
  <2>6. OutStays'
    BY <1>11 DEF Outage, fixed, provider, attempt, TypeOK, OutStays, RepliesTrue,
         Asking
  <2> QED BY <2>1, <2>2, <2>3, <2>4, <2>5, <2>6
<1>12. CASE Tick
  <2>1. TypeOK'
    BY <1>12 DEF Tick, fixed, provider, attempt, TypeOK
  <2>2. TimesBounded'
    BY <1>12 DEF Tick, fixed, provider, attempt, TypeOK, TimesBounded, Asking
  <2>3. RepliesTrue'
    BY <1>12 DEF Tick, fixed, provider, attempt, TypeOK, RepliesTrue, TimesBounded,
         Asking
  <2>4. ClaimsBounded'
    BY <1>12 DEF Tick, fixed, provider, attempt, TypeOK, ClaimsBounded, RepliesTrue,
         TimesBounded, Asking, Entry
  <2>5. FailuresBounded'
    <3>1. now \in Nat /\ now' = now + 1 /\ \A t \in Tokens : exp[t] \in Nat
      BY <1>12, Times DEF Tick, TypeOK
    <3>2. \A t \in Tokens : Expired(t) => Expired(t)'
      BY <1>12, <3>1 DEF Tick, fixed, Expired
    <3>3. \A t \in Tokens : cache[t].expiresAt \in Nat
      BY DEF TypeOK, Entry
    <3> QED
      BY <1>12, <3>1, <3>2, <3>3 DEF Tick, fixed, provider, FailuresBounded
  <2>6. OutStays'
    BY <1>12 DEF Tick, fixed, provider, attempt, TypeOK, OutStays, RepliesTrue, Asking
  <2> QED BY <2>1, <2>2, <2>3, <2>4, <2>5, <2>6
<1> QED
  BY <1>0, <1>1, <1>2, <1>3, <1>4, <1>5, <1>6, <1>7, <1>8, <1>9, <1>10, <1>11,
       <1>12 DEF Next

\* So it always holds.
LEMMA Invariance == Spec => []IInv
  BY InitInv, StepInv, PTL DEF Spec

\* Introspection accepts a token because the cache serves it, or because the
\* provider has just said so and exp has not passed.
LEMMA AcceptedBy ==
    ASSUME IInv, Next, NEW h \in Handlers, Introspects(h, "accepted")
    PROVE  /\ tok[h] \in Tokens
           /\ \/ Served(tok[h])
              \/ Asking(h) /\ reply[h] = "active" /\ ~ Expired(tok[h])
<1> USE DEF IInv, TypeOK, Introspects
<1>1. tok[h] \in Tokens
  BY DEF RepliesTrue
<1>2. ASSUME NEW g \in Handlers, Begin(g) \/ Check(g) \/ Miss(g) \/ NextEndpoint(g)
                                   \/ Fail(g) \/ Answer(g)
      PROVE  FALSE
  BY <1>2 DEF Begin, Check, Miss, NextEndpoint, Fail, Answer, ProxyRefuses, Finish, Asking
<1>3. ASSUME NEW t \in Tokens, Logout(t) \/ Revoke(t) PROVE FALSE
  BY <1>3 DEF Logout, Revoke
<1>4. ~ (Outage \/ Tick)
  BY DEF Outage, Tick
<1>5. ASSUME NEW g \in Handlers, Hit(g) PROVE Served(tok[h])
  BY <1>5 DEF Hit, Finish
<1>6. ASSUME NEW g \in Handlers, Succeed(g)
      PROVE  Asking(h) /\ reply[h] = "active" /\ ~ Expired(tok[h])
  BY <1>6 DEF Succeed, Finish
<1> QED
  BY <1>1, <1>2, <1>3, <1>4, <1>5, <1>6 DEF Next

\* It refuses one because the cache says so, or because the last endpoint
\* has failed.
LEMMA RefusedBy ==
    ASSUME IInv, Next, NEW h \in Handlers, Introspects(h, "refused")
    PROVE  /\ tok[h] \in Tokens
           /\ \/ Usable(tok[h]) /\ cache[tok[h]].state = "err"
              \/ Asking(h) /\ Failed(h)
<1> USE DEF IInv, TypeOK, Introspects
<1>1. tok[h] \in Tokens
  BY DEF RepliesTrue
<1>2. ASSUME NEW g \in Handlers, Begin(g) \/ Check(g) \/ Miss(g) \/ NextEndpoint(g)
                                   \/ Succeed(g) \/ Answer(g)
      PROVE  FALSE
  BY <1>2 DEF Begin, Check, Miss, NextEndpoint, Succeed, Answer, ProxyRefuses, Finish, Asking
<1>3. ASSUME NEW t \in Tokens, Logout(t) \/ Revoke(t) PROVE FALSE
  BY <1>3 DEF Logout, Revoke
<1>4. ~ (Outage \/ Tick)
  BY DEF Outage, Tick
<1>5. ASSUME NEW g \in Handlers, Hit(g)
      PROVE  Usable(tok[h]) /\ cache[tok[h]].state = "err"
  BY <1>1, <1>5 DEF Hit, Finish, Served, Usable, Entry
<1>6. ASSUME NEW g \in Handlers, Fail(g) PROVE Asking(h) /\ Failed(h)
  BY <1>6 DEF Fail, Finish
<1> QED
  BY <1>1, <1>2, <1>3, <1>4, <1>5, <1>6 DEF Next
-----------------------------------------------------------------------------
(***************************************************************************)
(* The cache, the handlers and the provider keep their types; no request   *)
(* goes past the last endpoint.                                            *)
(***************************************************************************)
THEOREM TokenTypeOK == Spec => []TypeOK
  BY Invariance, PTL DEF IInv

(***************************************************************************)
(* Introspection never accepts a token at or past its exp, for any life    *)
(* times and a positive leeway.                                            *)
(***************************************************************************)
THEOREM TokenExpiry == Spec => ExpiredNotAccepted
<1>1. ASSUME IInv, [Next]_vars
      PROVE  [\A h \in Handlers : Introspects(h, "accepted") => ~ Expired(tok[h])]_vars
  <2> SUFFICES ASSUME Next, NEW h \in Handlers, Introspects(h, "accepted")
               PROVE  ~ Expired(tok[h])
    BY <1>1
  <2>1. CASE Served(tok[h])
    <3>1. tok[h] \in Tokens
      BY <1>1, AcceptedBy
    <3>2. now \in Nat /\ exp[tok[h]] \in Nat /\ cache[tok[h]].expiresAt \in Nat
      BY <1>1, <3>1, Times DEF IInv
    <3> QED
      BY <1>1, <2>1, <3>1, <3>2, TimeAssumption
      DEF IInv, ClaimsBounded, Served, Usable, Expired
  <2> QED
    BY <1>1, <2>1, AcceptedBy
<1> QED
  BY <1>1, Invariance, PTL DEF Spec, ExpiredNotAccepted

(***************************************************************************)
(* Introspection stops accepting a revoked token after maxPositiveTTL and  *)
(* one request timeout, whatever look-ups are under way.                   *)
(***************************************************************************)
THEOREM TokenRevocation == Spec => RevocationTakesEffect
<1>1. ASSUME IInv, [Next]_vars
      PROVE  [\A h \in Handlers :
                Introspects(h, "accepted") /\ tok[h] \notin idp =>
                    now <= revokedAt[tok[h]] + PositiveTTL + Timeout]_vars
  <2> SUFFICES ASSUME Next, NEW h \in Handlers,
                      Introspects(h, "accepted"), tok[h] \notin idp
               PROVE  now <= revokedAt[tok[h]] + PositiveTTL + Timeout
    BY <1>1
  <2>1. tok[h] \in Tokens
    BY <1>1, AcceptedBy
  <2>2. /\ now \in Nat /\ revokedAt[tok[h]] \in Nat
        /\ started[h] \in Nat /\ cache[tok[h]].expiresAt \in Nat
    BY <1>1, <2>1, TimeAssumption DEF IInv, TypeOK, Entry
  <2>3. CASE Served(tok[h])
    BY <1>1, <2>1, <2>2, <2>3, TimeAssumption DEF IInv, ClaimsBounded, Served, Usable
  <2>4. CASE Asking(h) /\ reply[h] = "active"
    BY <1>1, <2>2, <2>4, TimeAssumption DEF IInv, TimesBounded, RepliesTrue
  <2> QED
    BY <1>1, <2>3, <2>4, AcceptedBy
<1> QED
  BY <1>1, Invariance, PTL DEF Spec, RevocationTakesEffect

(***************************************************************************)
(* After a Logout introspection accepts the token only if the provider has *)
(* confirmed it once more, whatever look-ups were under way.               *)
(***************************************************************************)
THEOREM TokenLogout == Spec => LogoutForcesRecheck
<1>1. ASSUME IInv, [Next]_vars
      PROVE  [\A h \in Handlers :
                Introspects(h, "accepted") => session[tok[h]] # "out"]_vars
  <2> SUFFICES ASSUME Next, NEW h \in Handlers, Introspects(h, "accepted")
               PROVE  session[tok[h]] # "out"
    BY <1>1
  <2> QED
    BY <1>1, AcceptedBy DEF IInv, OutStays, Served
<1> QED
  BY <1>1, Invariance, PTL DEF Spec, LogoutForcesRecheck

(***************************************************************************)
(* A valid token is refused for an outage no longer than one request       *)
(* timeout and negativeTTL after the provider is back.                     *)
(***************************************************************************)
THEOREM TokenOutage == Spec => OutageForgotten
<1>1. ASSUME IInv, [Next]_vars
      PROVE  [\A h \in Handlers :
                Introspects(h,
                "refused") /\ tok[h] \in idp /\ up /\ ~ Expired(tok[h]) =>
                    now <= upSince + Timeout + NegativeTTL]_vars
  <2> SUFFICES ASSUME Next, NEW h \in Handlers, Introspects(h, "refused"),
                      tok[h] \in idp, up, ~ Expired(tok[h])
               PROVE  now <= upSince + Timeout + NegativeTTL
    BY <1>1
  <2>1. tok[h] \in Tokens
    BY <1>1, RefusedBy
  <2>2. /\ now \in Nat /\ upSince \in Nat
        /\ started[h] \in Nat /\ cache[tok[h]].expiresAt \in Nat
    BY <1>1, <2>1, TimeAssumption DEF IInv, TypeOK, Entry
  <2>3. CASE Usable(tok[h]) /\ cache[tok[h]].state = "err"
    BY <1>1, <2>1, <2>2, <2>3, TimeAssumption DEF IInv, FailuresBounded, Usable
  <2>4. CASE Asking(h) /\ Failed(h)
    <3>1. started[h] <= upSince
      BY <1>1, <2>4 DEF IInv, RepliesTrue, Failed, Unreachable
    <3> QED
      BY <1>1, <2>2, <2>4, <3>1, TimeAssumption DEF IInv, TimesBounded
  <2> QED
    BY <1>1, <2>3, <2>4, RefusedBy
<1> QED
  BY <1>1, Invariance, PTL DEF Spec, OutageForgotten
-----------------------------------------------------------------------------
(***************************************************************************)
(* Exit nodes and the proxy (Proxy), which asks TokenAuth's handlers who   *)
(* its caller is.                                                          *)
(*                                                                         *)
(* A selection whose user is not on record as moved was checked against a  *)
(* row that is still what it was; the same for a selection SetExitNode has *)
(* checked and not yet written (PickSound).                                *)
(***************************************************************************)
\* Somebody offers u what s names.
Offered(u, s) ==
    \E n \in ListExitNodes(u) :
        member[n].addr = s.addr /\ Scheme(member[n].offer) = s.scheme

PickSound == \A u \in Users : pick[u] # NoSel /\ u \notin late => Offered(u, pick[u])
SelSound  == \A u \in Users : sel[u] # NoSel /\ u \notin moved => Offered(u, sel[u])

ExitTypes ==
    /\ member = [u \in Users |-> member[u]]
    /\ sel = [u \in Users |-> sel[u]] /\ pick = [u \in Users |-> pick[u]]

ExitInv == ExitTypes /\ PickSound /\ SelSound

\* What is offered stays offered to those who do not rest on the row that changes.
LEMMA ChangeKeeps ==
    ASSUME ExitTypes, NEW n \in Users, NEW row, Change(n, row), NEW u \in Users, NEW s,
           Offered(u, s), IsMember(n) => u # n /\ s.addr # member[n].addr
    PROVE  Offered(u, s)'
<1>1. member' = [member EXCEPT ![n] = row]
  BY DEF Change
<1>2. PICK e \in Users : /\ IsMember(u) /\ IsMember(e) /\ Visible(u, e) /\ FullTunnel(e)
                         /\ member[e].addr = s.addr /\ Scheme(member[e].offer) = s.scheme
  BY DEF Offered, ListExitNodes
<1>3. e # n /\ u # n
  BY <1>2 DEF IsMember
<1>4. member'[e] = member[e] /\ member'[u] = member[u]
  BY <1>1, <1>3 DEF ExitTypes
<1> QED
  BY <1>2, <1>4
  DEF Offered, ListExitNodes, IsMember, Visible, FullTunnel

\* A row that changes puts the selections that rest on it on record.
LEMMA ChangeStep ==
    ASSUME ExitInv, NEW n \in Users, NEW row, Change(n, row)
    PROVE  ExitInv'
<1>1. ExitTypes'
  BY DEF ExitInv, ExitTypes, Change
<1>2. UNCHANGED <<sel, pick>>
  BY DEF Change
<1>3. ASSUME NEW u \in Users, pick'[u] # NoSel, u \notin late' PROVE Offered(u, pick[u])'
  <2>1. u \notin late /\ (IsMember(n) => u \notin Resting(n, pick))
    BY <1>3 DEF Change
  <2>2. Offered(u, pick[u])
    BY <1>2, <1>3, <2>1 DEF ExitInv, PickSound
  <2>3. IsMember(n) => u # n /\ pick[u].addr # member[n].addr
    BY <1>2, <1>3, <2>1 DEF Resting
  <2> QED
    BY <1>2, <2>2, <2>3, ChangeKeeps DEF ExitInv, Offered
<1>4. ASSUME NEW u \in Users, sel'[u] # NoSel, u \notin moved' PROVE Offered(u, sel[u])'
  <2>1. u \notin moved /\ (IsMember(n) => u \notin Resting(n, sel))
    BY <1>4 DEF Change
  <2>2. Offered(u, sel[u])
    BY <1>2, <1>4, <2>1 DEF ExitInv, SelSound
  <2>3. IsMember(n) => u # n /\ sel[u].addr # member[n].addr
    BY <1>2, <1>4, <2>1 DEF Resting
  <2> QED
    BY <1>2, <2>2, <2>3, ChangeKeeps DEF ExitInv, Offered
<1> QED
  BY <1>1, <1>3, <1>4 DEF ExitInv, PickSound, SelSound

\* Every step keeps the selections sound.
LEMMA ExitInvStep ==
    ASSUME ExitInv, [ProxyNext]_allVars
    PROVE  ExitInv'
<1>0. ASSUME UNCHANGED member PROVE \A v \in Users : \A q : Offered(v, q) => Offered(v, q)'
  BY <1>0 DEF Offered, ListExitNodes, IsMember, Visible, FullTunnel
<1>1. ASSUME NEW n \in Users, Activate(n) \/ Leave(n) \/ RegisterExitNode(n)
                              \/ DeregisterExitNode(n)
      PROVE  ExitInv'
  <2>1. \E row : Change(n, row)
    BY <1>1 DEF Activate, Leave, RegisterExitNode, DeregisterExitNode
  <2> QED
    BY <2>1, ChangeStep
<1>2. ASSUME NEW u \in Users, SetExitNode(u) PROVE ExitInv'
  <2>1. PICK req : /\ \E n \in ListExitNodes(u) : Matches(n, req)
                   /\ pick' = [pick EXCEPT ![u] = req]
                   /\ UNCHANGED <<member, sel, moved, late>>
    BY <1>2 DEF SetExitNode
  <2>2. Offered(u, req)
    BY <2>1 DEF Offered, Matches
  <2>3. ExitTypes' /\ pick'[u] = req /\ \A v \in Users \ {u} : pick'[v] = pick[v]
    BY <2>1 DEF ExitInv, ExitTypes
  <2>4. \A v \in Users : \A q : Offered(v, q) => Offered(v, q)'
    BY <1>0, <2>1
  <2>5. PickSound'
    BY <2>1, <2>2, <2>3, <2>4 DEF ExitInv, PickSound, Offered
  <2>6. SelSound'
    BY <2>1, <2>4 DEF ExitInv, SelSound, Offered
  <2> QED
    BY <2>3, <2>5, <2>6 DEF ExitInv
<1>3. ASSUME NEW u \in Users, SetUserExitNode(u) PROVE ExitInv'
  <2>1. /\ sel' = [sel EXCEPT ![u] = pick[u]] /\ pick' = [pick EXCEPT ![u] = NoSel]
        /\ moved' = IF u \in late THEN moved \cup {u} ELSE moved \ {u}
        /\ late' = late \ {u} /\ pick[u] # NoSel /\ UNCHANGED member
    BY <1>3 DEF SetUserExitNode
  <2>2. /\ ExitTypes' /\ pick'[u] = NoSel /\ sel'[u] = pick[u]
        /\ \A v \in Users \ {u} : pick'[v] = pick[v] /\ sel'[v] = sel[v]
    BY <2>1 DEF ExitInv, ExitTypes
  <2>3. \A v \in Users : \A q : Offered(v, q) => Offered(v, q)'
    BY <1>0, <2>1
  <2>4. PickSound'
    BY <2>1, <2>2, <2>3 DEF ExitInv, PickSound, Offered
  <2>5. SelSound'
    BY <2>1, <2>2, <2>3 DEF ExitInv, PickSound, SelSound, Offered
  <2> QED
    BY <2>2, <2>4, <2>5 DEF ExitInv
<1>4. ASSUME NEW u \in Users, ClearExitNode(u) PROVE ExitInv'
  <2>1. /\ sel' = [sel EXCEPT ![u] = NoSel] /\ moved' = moved \ {u}
        /\ UNCHANGED <<member, pick, late>>
    BY <1>4 DEF ClearExitNode
  <2>2. /\ ExitTypes' /\ sel'[u] = NoSel /\ \A v \in Users \ {u} : sel'[v] = sel[v]
    BY <2>1 DEF ExitInv, ExitTypes
  <2>3. \A v \in Users : \A q : Offered(v, q) => Offered(v, q)'
    BY <1>0, <2>1
  <2>4. PickSound'
    BY <2>1, <2>3 DEF ExitInv, PickSound, Offered
  <2>5. SelSound'
    BY <2>1, <2>2, <2>3 DEF ExitInv, SelSound, Offered
  <2> QED
    BY <2>2, <2>4, <2>5 DEF ExitInv
<1>5. CASE UNCHANGED <<member, sel, pick, moved, late>>
  BY <1>5
  DEF ExitInv, ExitTypes, PickSound, SelSound, Offered,
      ListExitNodes, IsMember, Visible, FullTunnel
<1>6. (\E u \in Users : ExitStep(u)) \/ UNCHANGED <<member, sel, pick, moved, late>>
  BY DEF ProxyNext, allVars, exitVars, ServeHTTP, Run, Refuse,
         dialTarget, Hijack, Return, releaseSlot, Reply, UpEnds,
         DownEnds, UpBreaks, DownBreaks, PeerEnds, Deadline
<1> QED
  BY <1>1, <1>2, <1>3, <1>4, <1>5, <1>6 DEF ExitStep

\* A selection names a full-tunnel exit its user may use, with the scheme it
\* speaks, unless the node's row changed after it was checked or the selection
\* is older than the check (exit_node_handler.go:160-178).
THEOREM SelectionsAreSound == ProxySpec => []SelectionSound
<1>1. ProxyInit => ExitInv
  BY DEF ProxyInit, ExitInit, ExitInv, ExitTypes, PickSound, SelSound
<1>2. ExitInv => SelectionSound
  BY DEF ExitInv, SelSound, Offered, SelectionSound
<1> QED
  BY <1>1, <1>2, ExitInvStep, PTL DEF ProxySpec

-----------------------------------------------------------------------------
(***************************************************************************)
(* The proxy's slots.                                                      *)
(***************************************************************************)
\* The requests of u under way.
Serving(u) == {c \in Conns : stage[c] # "idle" /\ user[c] = u}

ProxyTypes ==
    /\ active \in [Users -> Nat]
    /\ stage \in [Conns -> {"idle", "check", "reply", "dialed", "tunnel", "release"}]
    /\ user = [c \in Conns |-> user[c]]
    /\ \A c \in Conns : stage[c] # "idle" => user[c] \in Users

Balanced == ProxyTypes /\ \A u \in Users : active[u] = Cardinality(Serving(u))

\* The requests of a user when one comes or goes.
LEMMA ServingCount ==
    ASSUME NEW S \in SUBSET Conns, NEW c \in Conns
    PROVE  /\ Cardinality(S) \in Nat
           /\ c \notin S => Cardinality(S \cup {c}) = Cardinality(S) + 1
           /\ c \in S => Cardinality(S \ {c}) = Cardinality(S) - 1 /\ Cardinality(S \ {c}) \in Nat
<1>1. IsFiniteSet(S) /\ Cardinality(S) \in Nat
  BY ConnsAssumption, FS_Subset, FS_CardinalityType
<1>2. c \notin S => Cardinality(S \cup {c}) = Cardinality(S) + 1
  BY <1>1, FS_AddElement
<1>3. c \in S => Cardinality(S \ {c}) = Cardinality(S) - 1
  BY <1>1, FS_RemoveElement
<1>4. IsFiniteSet(S \ {c}) /\ Cardinality(S \ {c}) \in Nat
  BY <1>1, FS_Subset, FS_CardinalityType
<1> QED
  BY <1>1, <1>2, <1>3, <1>4

\* acquireSlot counts the request it lets in.
LEMMA AcquireKeeps ==
    ASSUME Balanced, NEW c \in Conns, ServeHTTP(c)
    PROVE  Balanced'
<1>1. PICK u \in Users : /\ active' = [active EXCEPT ![u] = active[u] + 1]
                         /\ user' = [user EXCEPT ![c] = u]
  BY CallerAssumption DEF ServeHTTP
<1>2. stage[c] = "idle" /\ stage' = [stage EXCEPT ![c] = "check"]
  BY DEF ServeHTTP, SetStage
<1>3. ProxyTypes'
  BY <1>1, <1>2 DEF Balanced, ProxyTypes
<1>4. c \notin Serving(u) /\ Serving(u) \in SUBSET Conns
  BY <1>2 DEF Serving
<1>5. Serving(u)' = Serving(u) \cup {c} /\ \A v \in Users \ {u} : Serving(v)' = Serving(v)
  BY <1>1, <1>2 DEF Serving, Balanced, ProxyTypes
<1>6. Cardinality(Serving(u) \cup {c}) = Cardinality(Serving(u)) + 1
  BY <1>4, ServingCount
<1>7. active'[u] = Cardinality(Serving(u)')
  <2>1. Cardinality(Serving(u)') = Cardinality(Serving(u)) + 1
    BY <1>5, <1>6
  <2> QED
    BY <1>1, <2>1 DEF Balanced, ProxyTypes
<1>8. \A v \in Users \ {u} : active'[v] = Cardinality(Serving(v)')
  <2>1. \A v \in Users \ {u} : active'[v] = active[v]
    BY <1>1 DEF Balanced, ProxyTypes
  <2> QED
    BY <1>5, <2>1 DEF Balanced
<1> QED
  BY <1>3, <1>7, <1>8 DEF Balanced

\* releaseSlot uncounts it, once.
LEMMA ReleaseKeeps ==
    ASSUME Balanced, NEW c \in Conns, releaseSlot(c)
    PROVE  Balanced'
<1>0. PICK u \in Users : user[c] = u
  BY DEF releaseSlot, Balanced, ProxyTypes
<1>1. /\ active' = [active EXCEPT ![u] = IF active[u] > 1 THEN active[u] - 1 ELSE 0]
      /\ stage' = [stage EXCEPT ![c] = "idle"] /\ stage[c] = "release"
      /\ \E v : user' = [user EXCEPT ![c] = v]
  BY <1>0 DEF releaseSlot, SetStage
<1>2. u \in Users /\ c \in Serving(u) /\ Serving(u) \in SUBSET Conns
  BY <1>0, <1>1 DEF Serving, Balanced, ProxyTypes
<1>3. ProxyTypes'
  <2>1. active' \in [Users -> Nat]
    BY <1>1, <1>2 DEF Balanced, ProxyTypes
  <2> QED
    BY <1>1, <2>1 DEF Balanced, ProxyTypes
<1>4. Serving(u)' = Serving(u) \ {c} /\ \A v \in Users \ {u} : Serving(v)' = Serving(v)
  BY <1>0, <1>1 DEF Serving, Balanced, ProxyTypes
<1>5. /\ Cardinality(Serving(u)) \in Nat /\ Cardinality(Serving(u) \ {c}) \in Nat
      /\ Cardinality(Serving(u) \ {c}) = Cardinality(Serving(u)) - 1
  BY <1>2, ServingCount
<1>6. active'[u] = Cardinality(Serving(u)')
  <2>1. Cardinality(Serving(u)') = Cardinality(Serving(u)) - 1 /\ Cardinality(Serving(u)) >= 1
    BY <1>4, <1>5
  <2>2. active[u] = Cardinality(Serving(u)) /\ active'[u] = IF active[u] > 1 THEN active[u] - 1 ELSE 0
    BY <1>1, <1>2 DEF Balanced, ProxyTypes
  <2> QED
    BY <1>5, <2>1, <2>2
<1>7. \A v \in Users \ {u} : active'[v] = Cardinality(Serving(v)')
  <2>1. \A v \in Users \ {u} : active'[v] = active[v]
    BY <1>1, <1>2 DEF Balanced, ProxyTypes
  <2> QED
    BY <1>4, <2>1 DEF Balanced
<1> QED
  BY <1>3, <1>6, <1>7 DEF Balanced

\* The other steps of a request leave it under way.
LEMMA OthersKeep ==
    ASSUME Balanced, NEW c \in Conns,
           UNCHANGED <<active, user>>, stage[c] # "idle",
           NEW l \in {"check", "reply", "dialed", "tunnel", "release"},
           stage' = [stage EXCEPT ![c] = l]
    PROVE  Balanced'
<1>1. ProxyTypes'
  BY DEF Balanced, ProxyTypes
<1>2. \A u \in Users : Serving(u)' = Serving(u)
  BY DEF Serving, Balanced, ProxyTypes
<1> QED
  BY <1>1, <1>2 DEF Balanced

\* A user's slots in use are exactly the user's requests under way: none is
\* lost or freed twice on any way out (proxy.go:100-106, 329-346), for any
\* finite number of requests.
THEOREM SlotsAreBalanced == ProxySpec => []SlotsBalanced
<1>1. ProxyInit => Balanced
  <2> SUFFICES ASSUME ProxyInit PROVE Balanced
    OBVIOUS
  <2>1. ProxyTypes /\ \A u \in Users : active[u] = 0 /\ Serving(u) = {}
    BY DEF ProxyInit, ProxyTypes, Serving
  <2>2. \A u \in Users : Cardinality(Serving(u)) = 0
    BY <2>1, FS_EmptySet
  <2> QED
    BY <2>1, <2>2 DEF Balanced
<1>2. ASSUME Balanced, [ProxyNext]_allVars PROVE Balanced'
  <2>1. ASSUME NEW c \in Conns, ServeHTTP(c) PROVE Balanced'
    BY <1>2, <2>1, AcquireKeeps
  <2>2. ASSUME NEW c \in Conns, releaseSlot(c) PROVE Balanced'
    BY <1>2, <2>2, ReleaseKeeps
  <2>3. ASSUME NEW c \in Conns, Refuse(c) \/ dialTarget(c) \/ Reply(c)
                                \/ Hijack(c) \/ Return(c)
        PROVE  Balanced'
    <3>1. UNCHANGED <<active, user>> /\ stage[c] # "idle"
      BY <2>3 DEF Refuse, dialTarget, Reply, Hijack, Return
    <3>2. \E l \in {"check", "reply", "dialed", "tunnel", "release"} :
              stage' = [stage EXCEPT ![c] = l]
      BY <2>3 DEF Refuse, Refused, dialTarget, Reply, Hijack,
                  Return, SetStage
    <3> QED
      BY <1>2, <3>1, <3>2, OthersKeep
  <2>4. CASE UNCHANGED <<active, stage, user>>
    BY <1>2, <2>4 DEF Balanced, ProxyTypes, Serving
  <2>5. \/ \E c \in Conns :
            \/ ServeHTTP(c) \/ releaseSlot(c) \/ Refuse(c)
            \/ dialTarget(c) \/ Reply(c) \/ Hijack(c) \/ Return(c)
        \/ UNCHANGED <<active, stage, user>>
    BY <1>2 DEF ProxyNext, allVars, proxyVars, Run, UpEnds, DownEnds,
                UpBreaks, DownBreaks, PeerEnds, Deadline
  <2> QED
    BY <2>1, <2>2, <2>3, <2>4, <2>5
<1>3. Balanced => SlotsBalanced
  BY DEF Balanced, Serving, SlotsBalanced
<1> QED
  BY <1>1, <1>2, <1>3, PTL DEF ProxySpec
=============================================================================
