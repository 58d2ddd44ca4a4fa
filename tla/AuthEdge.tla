------------------------------ MODULE AuthEdge ------------------------------
(***************************************************************************)
(* The public edge of the control plane: what a request passes before a    *)
(* handler acts on it.  Every request meets the limiter of its IP address, *)
(* a token refresh also that of its token, a Connect that of its user      *)
(* (RateLimit.tla).  Refresh and Callback (oauth.go) then check where the  *)
(* request comes from and exchange a token or a code at Authentik; a       *)
(* Callback that succeeds makes the browser extension it came from trusted *)
(* (trusted_extension.go: trust on first use).  All requests modelled      *)
(* share an IP address, a refresh token and a user: the keys "ip", "token" *)
(* and "user".  A request starts over when it is done.                     *)
(***************************************************************************)
EXTENDS RateLimit

CONSTANTS Extensions,       \* origins of browser extensions
          AllowList         \* ALLOWED_EXTENSION_ORIGINS; {} means trust on first use

ASSUME EdgeAssumption ==
    /\ {"ip", "token", "user"} \subseteq Keys
    /\ Extensions \cap {"web", "none", "own", "refresh", "callback", "connect"} = {}

VARIABLES pc, job,      \* where a request is and what it asks for
          trust,        \* trusted_extension_origins
          earned,       \* ghost: extensions a code was exchanged for
          barred        \* ghost: extensions revoked and not pardoned since

edgeVars == <<pc, job, trust, earned, barred>>
vars == <<limitVars, edgeVars>>
trustVars == <<trust, earned, barred>>

\* Origin or Referer: a page of the web client, an extension, or neither.
Origins == {"web", "none"} \cup Extensions

\* A request is at pc; job is its kind, from "exchange" on its origin if that
\* is to become trusted.
NoJob == "none"

Init ==
    /\ LimitInit
    /\ pc = [r \in Reqs |-> "idle"]
    /\ job = [r \in Reqs |-> NoJob]
    /\ trust = [e \in Extensions |-> "unknown"]
    /\ earned = {} /\ barred = {}

\* A request goes on to l with j, or is answered.
Goto(r, l, j) ==
    /\ pc' = [pc EXCEPT ![r] = l]
    /\ job' = [job EXCEPT ![r] = j]

Done(r) == Goto(r, "idle", NoJob)
-----------------------------------------------------------------------------
\* A request arrives and looks up the limiter of its address.
Arrive(r) ==
    /\ pc[r] = "idle"
    /\ \E kind \in {"refresh", "callback", "connect"} : Goto(r, "allow", kind)
    /\ getLimiter(r, "ip")
    /\ UNCHANGED trustVars

\* The route decides which limiter or handler is next.
Route(kind) ==
    CASE kind = "refresh"  -> "token"
      [] kind = "connect"  -> "user"
      [] OTHER -> "origin"

RateLimitMiddleware(r) ==
    /\ pc[r] = "allow"
    /\ AllowHeld(r, "ip")
    /\ IF verdict'[2] THEN Goto(r, Route(job[r]), job[r]) ELSE Done(r)
    /\ UNCHANGED trustVars

RefreshRateLimitMiddleware(r) ==
    /\ pc[r] = "token"
    /\ Allow("token")
    /\ IF verdict'[2] THEN Goto(r, "origin", job[r]) ELSE Done(r)
    /\ UNCHANGED trustVars

\* A body without a token is passed on uncounted, and answered 400 (or 403).
NoToken(r) ==
    /\ pc[r] = "token"
    /\ Done(r)
    /\ UNCHANGED <<limitVars, trustVars>>

\* Connect's own check; what it does then is in Connections.tla.
ConnectLimiter(r) ==
    /\ pc[r] = "user"
    /\ Allow("user")
    /\ Done(r)
    /\ UNCHANGED trustVars
-----------------------------------------------------------------------------
(***************************************************************************)
(* oauth.go.                                                               *)
(***************************************************************************)
IsTrusted(e) == trust[e] = "trusted"

isAllowedOrigin(o) ==
    IF o \in Extensions
    THEN IF AllowList # {} THEN o \in AllowList ELSE IsTrusted(o)
    ELSE o = "web"

\* PKCE stands in for the origin check of a Callback.
csrfCheck(kind, o, pkce) == (kind = "callback" /\ pkce) \/ isAllowedOrigin(o)

\* The configured callback page ("own"), or a page of an allowed origin.
isAllowedRedirectURI(u) == u = "own" \/ isAllowedOrigin(u)

\* Refresh and Callback up to their call of Authentik, for requests that are
\* well formed.
CheckOrigin(r) ==
    /\ pc[r] = "origin"
    /\ \E o \in Origins, redirect \in {"own"} \cup Origins, pkce \in BOOLEAN :
        /\ csrfCheck(job[r], o, pkce)
        /\ job[r] = "callback" => isAllowedRedirectURI(redirect)
        /\ Goto(r, "exchange",
                IF job[r] = "callback" /\ o \in Extensions /\ AllowList = {} THEN o ELSE NoJob)
    /\ UNCHANGED <<limitVars, trustVars>>

\* The origin or the redirect is not allowed, the table could not be read, or
\* the request is malformed.
OriginRefused(r) ==
    /\ pc[r] = "origin"
    /\ Done(r)
    /\ UNCHANGED <<limitVars, trustVars>>

\* An answer 200 within 15 s; a Callback then remembers where it came from.
exchangeAuthentikToken(r) ==
    /\ pc[r] = "exchange"
    /\ IF job[r] \in Extensions
       THEN Goto(r, "register", job[r]) /\ earned' = earned \cup {job[r]}
       ELSE Done(r) /\ UNCHANGED earned
    /\ UNCHANGED <<limitVars, trust, barred>>

\* Any other answer, or none: it is passed on, or 502.
ExchangeFails(r) ==
    /\ pc[r] = "exchange"
    /\ Done(r)
    /\ UNCHANGED <<limitVars, trustVars>>

\* An upsert that resets the whole row.
RegisteredMutant(t) == "trusted"

\* A row that is there only counts the visit.
Registered(t) == IF t = "unknown" THEN "trusted" ELSE t

Register(r) ==
    /\ pc[r] = "register"
    /\ trust' = [trust EXCEPT ![job[r]] = Registered(@)]
    /\ Done(r)
    /\ UNCHANGED <<limitVars, earned, barred>>

\* The row cannot be written in 2 s, or the origin came as Referer only.
RegisterFails(r) ==
    /\ pc[r] = "register"
    /\ Done(r)
    /\ UNCHANGED <<limitVars, trustVars>>

\* The administrator's tool; it has no effect on an origin without a row.
SetRevoked(e) ==
    /\ trust[e] # "unknown"
    /\ \E revoked \in BOOLEAN :
        /\ trust' = [trust EXCEPT ![e] = IF revoked THEN "revoked" ELSE "trusted"]
        /\ barred' = IF revoked THEN barred \cup {e} ELSE barred \ {e}
    /\ UNCHANGED <<limitVars, pc, job, earned>>
-----------------------------------------------------------------------------
Step(r) ==
    \/ Arrive(r) \/ RateLimitMiddleware(r)
    \/ RefreshRateLimitMiddleware(r) \/ NoToken(r) \/ ConnectLimiter(r)
    \/ CheckOrigin(r) \/ OriginRefused(r) \/ exchangeAuthentikToken(r) \/ ExchangeFails(r)
    \/ Register(r) \/ RegisterFails(r)

Next ==
    \/ \E r \in Reqs : Step(r)
    \/ \E e \in Extensions : SetRevoked(e)
    \/ \E k \in Keys : cleanup(k) /\ UNCHANGED edgeVars
    \/ LimitTick /\ UNCHANGED edgeVars

Spec == Init /\ [][Next]_vars
-----------------------------------------------------------------------------
(***************************************************************************)
(* An extension is trusted only after a code was exchanged for it, and one *)
(* that was revoked stays out until it is pardoned, whatever Callbacks are *)
(* under way meanwhile: "Revoked origins are NOT un-revoked automatically" *)
(* (trusted_extension.go:39-51).                                           *)
(***************************************************************************)
TrustIsEarned ==
    \A e \in Extensions : IsTrusted(e) => e \in earned /\ e \notin barred
=============================================================================
