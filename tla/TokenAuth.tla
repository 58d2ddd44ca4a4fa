----------------------------- MODULE TokenAuth -----------------------------
(***************************************************************************)
(* Token validation: internal/auth (introspection.go, introspection_cache  *)
(* .go, middleware.go), its use by the proxy, and Logout of oauth.go.      *)
(*                                                                         *)
(* A JWT is checked locally; a JWE, and a JWT that fails that check, is    *)
(* introspected at the identity provider, one endpoint after the other,    *)
(* and the outcome is cached: success for at most PositiveTTL and not      *)
(* beyond the token's own exp, failure for NegativeTTL.  A handler serves  *)
(* one request after the other.  Reading the clock, computing the time to  *)
(* live and storing the entry is one step: nothing blocks in between.      *)
(*                                                                         *)
(* Whether a JWT's key is in the key set is left open (jwks.go is not      *)
(* modelled).  Tokens carry the expected issuer and a subject.             *)
(***************************************************************************)
EXTENDS Integers, FiniteSets

CONSTANTS Tokens, Handlers, NoToken,
          Kinds,            \* which kinds of token there are, of "jwe", "jwt"
          Expiries,         \* the exp claims there are, 0 = none
          Endpoints,        \* candidate introspection URLs, 3 in the code
          PositiveTTL,      \* maxPositiveTTL
          NegativeTTL,
          Leeway,           \* expLeeway
          Skew,             \* jwt.WithAcceptableSkew
          Timeout,          \* of one introspection request
          MaxEntries,       \* 2048 in the code
          MaxTime           \* bound on the clock

ASSUME TimeAssumption ==
    /\ Expiries \subseteq Nat /\ Kinds \subseteq {"jwe", "jwt"}
    /\ {PositiveTTL, NegativeTTL, Leeway, Skew, Timeout, MaxEntries, MaxTime} \subseteq Nat
    /\ NoToken \notin Tokens /\ Leeway > 0 /\ Endpoints \in Nat \ {0}

VARIABLES now,          \* the clock
          exp, kind,    \* of each token
          cache,        \* globalIntrospectionCache.entries
          pc, tok,      \* where a handler is, or its last verdict, and the token
                        \* it checks
          url,          \* the endpoint it asks
          started,      \* when it asked
          reply,        \* what the provider has answered
          idp,          \* tokens the provider holds active
          revokedAt,    \* when a token ceased to be active
          up, upSince,  \* whether the provider can be reached, and since when
          session       \* "in", "out" once Logout has evicted the token, "again"
                        \* when the provider has confirmed it after that

vars == <<now, exp, kind, cache, pc, tok, url, started, reply, idp, revokedAt,
          up, upSince, session>>
fixed    == <<exp, kind>>
provider == <<idp, revokedAt, up, upSince>>
attempt  == <<url, started, reply>>

\* An absent entry is one of state "none".
Entry == [state : {"none", "claims", "err"}, expiresAt : Nat]
Absent == [state |-> "none", expiresAt |-> 0]

Init ==
    /\ now = 0
    /\ exp \in [Tokens -> Expiries]
    /\ kind \in [Tokens -> Kinds]
    /\ cache = [t \in Tokens |-> Absent]
    /\ pc = [h \in Handlers |-> "idle"]
    /\ tok = [h \in Handlers |-> NoToken]
    /\ url = [h \in Handlers |-> 1]
    /\ started = [h \in Handlers |-> 0]
    /\ reply = [h \in Handlers |-> "none"]
    /\ idp = Tokens
    /\ revokedAt = [t \in Tokens |-> 0]
    /\ up = TRUE /\ upSince = 0
    /\ session = [t \in Tokens |-> "in"]

Asking(h) == pc[h] = "asking"

\* get: the entry that counts now.
Usable(t) == cache[t].state # "none" /\ now <= cache[t].expiresAt
Served(t) == Usable(t) /\ cache[t].state = "claims"

Expired(t) == exp[t] > 0 /\ now >= exp[t]
-----------------------------------------------------------------------------
(***************************************************************************)
(* The cache.                                                              *)
(***************************************************************************)
\* A life time that follows the token's alone.
TTLMutant(t) == IF exp[t] > 0 THEN exp[t] - now - Leeway ELSE PositiveTTL

\* A life time that does not look at the token's.
TTLBlindMutant(t) == PositiveTTL

TTL(t) ==
    LET remaining == exp[t] - now - Leeway
    IN  IF exp[t] > 0 /\ remaining < PositiveTTL THEN remaining ELSE PositiveTTL

\* set, with the clean-up of a cache that has grown too large.
Set(t, s, ttl) ==
    LET entries == [cache EXCEPT ![t] = [state |-> s, expiresAt |-> now + ttl]]
        large   == Cardinality({k \in Tokens : entries[k].state # "none"}) > MaxEntries
    IN  cache' = [k \in Tokens |->
                    IF large /\ now > entries[k].expiresAt THEN Absent ELSE entries[k]]

\* A failure kept as long as a success.
FailureTTLMutant == PositiveTTL

FailureTTL == NegativeTTL

\* A logout that evicts nothing.
EvictedMutant(t) == cache

Evicted(t) == [cache EXCEPT ![t] = Absent]
-----------------------------------------------------------------------------
(***************************************************************************)
(* A request with a token, from the API, a WebSocket or the proxy.         *)
(***************************************************************************)
Begin(h) ==
    /\ pc[h] \in {"idle", "accepted", "refused"}
    /\ \E t \in Tokens :
        /\ tok' = [tok EXCEPT ![h] = t]
        /\ pc' = [pc EXCEPT ![h] = IF kind[t] = "jwe" THEN "lookup" ELSE "check"]
    /\ UNCHANGED <<now, fixed, cache, attempt, provider, session>>

\* The request is over.
Finish(h, verdict) ==
    /\ pc' = [pc EXCEPT ![h] = verdict]
    /\ tok' = [tok EXCEPT ![h] = NoToken]
    /\ url' = [url EXCEPT ![h] = 1]
    /\ started' = [started EXCEPT ![h] = 0]
    /\ reply' = [reply EXCEPT ![h] = "none"]

\* jwt.Parse with its validation.
LocallyValid(t) == exp[t] = 0 \/ now < exp[t] + Skew

\* The proxy's authenticate has no fallback for a JWT.
ProxyRefuses(h) == Finish(h, "refused")

\* A JWT that passes is accepted.  One that does not, for its time or its key,
\* is introspected, but refused by the proxy.
Check(h) ==
    /\ pc[h] = "check"
    /\ \/ /\ LocallyValid(tok[h])
          /\ Finish(h, "accepted")
       \/ ProxyRefuses(h)
       \/ /\ pc' = [pc EXCEPT ![h] = "lookup"]
          /\ UNCHANGED <<tok, attempt>>
    /\ UNCHANGED <<now, fixed, cache, provider, session>>

\* IntrospectTokenCached finds an entry ...
Hit(h) ==
    /\ pc[h] = "lookup" /\ Usable(tok[h])
    /\ Finish(h, IF Served(tok[h]) THEN "accepted" ELSE "refused")
    /\ UNCHANGED <<now, fixed, cache, provider, session>>

Ask(h, n) ==
    /\ url' = [url EXCEPT ![h] = n]
    /\ started' = [started EXCEPT ![h] = now]
    /\ reply' = [reply EXCEPT ![h] = "none"]

\* ... or asks the first endpoint.
Miss(h) ==
    /\ pc[h] = "lookup" /\ ~ Usable(tok[h])
    /\ pc' = [pc EXCEPT ![h] = "asking"]
    /\ Ask(h, 1)
    /\ UNCHANGED <<now, fixed, cache, tok, provider, session>>

\* An answer that holds a token active, and the code's own look at exp.
Succeed(h) ==
    /\ Asking(h) /\ reply[h] = "active" /\ ~ Expired(tok[h])
    /\ IF TTL(tok[h]) <= 0 THEN UNCHANGED cache
       ELSE Set(tok[h], "claims", TTL(tok[h]))
    /\ Finish(h, "accepted")
    /\ UNCHANGED <<now, fixed, provider, session>>

\* No answer in time, an error status, or one that cannot be read.
Unreachable(h) == ~ up \/ started[h] <= upSince

Failed(h) ==
    \/ Unreachable(h)
    \/ reply[h] = "inactive"
    \/ reply[h] = "active" /\ Expired(tok[h])

Last(h) == url[h] = Endpoints

\* Whatever the failure, the next endpoint is asked.
NextEndpoint(h) ==
    /\ Asking(h) /\ Failed(h) /\ ~ Last(h)
    /\ Ask(h, url[h] + 1)
    /\ UNCHANGED <<now, fixed, cache, pc, tok, provider, session>>

Fail(h) ==
    /\ Asking(h) /\ Failed(h) /\ Last(h)
    /\ Set(tok[h], "err", FailureTTL)
    /\ Finish(h, "refused")
    /\ UNCHANGED <<now, fixed, provider, session>>

\* A confirmation of t is on its way to the handler that asked for it.
Confirmed(t) == \E h \in Handlers : tok[h] = t /\ reply[h] = "active"

\* Logout evicts the token and answers.  The request to revoke it leaves from a
\* goroutine of its own and may come later (Revoke), fail, or never be made.
Logout(t) ==
    /\ cache' = Evicted(t)
    /\ session' = [session EXCEPT ![t] = IF Confirmed(t) THEN "again" ELSE "out"]
    /\ UNCHANGED <<now, fixed, pc, tok, attempt, provider>>
-----------------------------------------------------------------------------
(***************************************************************************)
(* The identity provider, the network and the clock.                       *)
(***************************************************************************)
Answer(h) ==
    /\ up /\ Asking(h) /\ reply[h] = "none"
    /\ reply' = [reply EXCEPT ![h] = IF tok[h] \in idp THEN "active" ELSE "inactive"]
    /\ session' = [t \in Tokens |-> IF t = tok[h] /\ t \in idp /\ session[t] = "out"
                                    THEN "again" ELSE session[t]]
    /\ UNCHANGED <<now, fixed, cache, pc, tok, url, started, provider>>

\* Logout's revocation request arrives, or a session ends at the provider.
Revoke(t) ==
    /\ t \in idp
    /\ idp' = idp \ {t}
    /\ revokedAt' = [revokedAt EXCEPT ![t] = now]
    /\ UNCHANGED <<now, fixed, cache, pc, tok, attempt, up, upSince, session>>

Outage ==
    /\ up' = ~ up
    /\ upSince' = IF up THEN upSince ELSE now
    /\ UNCHANGED <<now, fixed, cache, pc, tok, attempt, idp, revokedAt, session>>

\* A request is over when its timeout is.
Tick ==
    /\ now < MaxTime
    /\ \A h \in Handlers : Asking(h) => now < started[h] + Timeout
    /\ now' = now + 1
    /\ UNCHANGED <<fixed, cache, pc, tok, attempt, provider, session>>

Next ==
    \/ \E h \in Handlers :
        \/ Begin(h) \/ Check(h) \/ Hit(h) \/ Miss(h)
        \/ Succeed(h) \/ NextEndpoint(h) \/ Fail(h) \/ Answer(h)
    \/ \E t \in Tokens : Logout(t) \/ Revoke(t)
    \/ Outage \/ Tick

Spec == Init /\ [][Next]_vars
-----------------------------------------------------------------------------
\* Types of the cache, the handlers and the provider.
TypeOK ==
    /\ now \in 0 .. MaxTime
    /\ exp \in [Tokens -> Expiries] /\ kind \in [Tokens -> Kinds]
    /\ cache \in [Tokens -> Entry]
    /\ pc \in [Handlers -> {"idle", "check", "lookup", "asking", "accepted", "refused"}]
    /\ tok \in [Handlers -> Tokens \cup {NoToken}]
    /\ url \in [Handlers -> 1 .. Endpoints]
    /\ started \in [Handlers -> 0 .. MaxTime]
    /\ reply \in [Handlers -> {"none", "active", "inactive"}]
    /\ idp \subseteq Tokens /\ session \in [Tokens -> {"in", "out", "again"}]
    /\ revokedAt \in [Tokens -> 0 .. MaxTime]
    /\ up \in BOOLEAN /\ upSince \in 0 .. MaxTime

\* h accepts (refuses) its token by introspection, from the cache or not.
Introspects(h, verdict) == pc[h] \in {"lookup", "asking"} /\ pc'[h] = verdict

(***************************************************************************)
(* "expired tokens never come back as valid" (introspection_cache.go:92):  *)
(* however long an entry has been in the cache, introspection accepts no   *)
(* token at or past its exp.                                               *)
(***************************************************************************)
ExpiredNotAccepted ==
    [][\A h \in Handlers : Introspects(h, "accepted") => ~ Expired(tok[h])]_vars

(***************************************************************************)
(* Introspection accepts a revoked token no longer than the longest life   *)
(* of an entry and one request timeout after the revocation: a late        *)
(* answer, refreshed entries and concurrent look-ups do not prolong it.    *)
(* (A JWT that passes the local check, middleware.go:95, is accepted until *)
(* its exp; nobody asks the provider.)                                     *)
(***************************************************************************)
RevocationTakesEffect ==
    [][\A h \in Handlers :
        Introspects(h, "accepted") /\ tok[h] \notin idp =>
            now <= revokedAt[tok[h]] + PositiveTTL + Timeout]_vars

(***************************************************************************)
(* InvalidateIntrospection (introspection_cache.go:78): after a Logout,    *)
(* introspection accepts the token only if the provider has confirmed it   *)
(* once more.  No entry survives the eviction, and none comes back by a    *)
(* look-up that was under way, unless it held its answer already.          *)
(***************************************************************************)
LogoutForcesRecheck ==
    [][\A h \in Handlers :
        Introspects(h, "accepted") => session[tok[h]] # "out"]_vars


(***************************************************************************)
(* "negative results for a very short window" (introspection_cache.go:20): *)
(* an outage is forgotten.  A valid token is refused for it no longer than *)
(* one request timeout and NegativeTTL after the provider is back.         *)
(***************************************************************************)
OutageForgotten ==
    [][\A h \in Handlers :
        Introspects(h, "refused") /\ tok[h] \in idp /\ up /\ ~ Expired(tok[h]) =>
            now <= upSince + Timeout + NegativeTTL]_vars
=============================================================================
