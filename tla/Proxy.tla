------------------------------- MODULE Proxy -------------------------------
(***************************************************************************)
(* The HTTP CONNECT proxy of internal/proxy/proxy.go over the exit-node    *)
(* selections of ExitNodes.tla.  A request takes one of its user's slots,  *)
(* has its target checked, dials it directly or through the selected exit, *)
(* and becomes a tunnel of two copying goroutines; it gives the slot back  *)
(* on every way out.  Only authenticated requests are modelled (who is, is *)
(* TokenAuth.tla's subject).  A request starts over when it is done.       *)
(*                                                                         *)
(* Of a connection it matters whether it is open, has come to its end (the *)
(* other side closed or broke it, or the deadline passed), or was closed   *)
(* here.  The bytes copied are left out.                                   *)
(***************************************************************************)
EXTENDS ExitNodes

CONSTANTS Conns,            \* requests the proxy serves at a time (the bound)
          MaxConns          \* PROXY_MAX_CONNS_PER_USER

ASSUME ConnsAssumption == IsFiniteSet(Conns)
ASSUME SlotAssumption == MaxConns \in Nat \ {0}

VARIABLES active,       \* slots in use; an absent key is 0
          stage, user,
          target, client,   \* the two connections of a request
          upward, downward  \* its goroutines: client to target, target to client

proxyVars == <<active, stage, user, target, client, upward, downward>>
allVars == <<exitVars, proxyVars>>
conns == <<target, client, upward, downward>>

ProxyInit ==
    /\ ExitInit
    /\ active = [u \in Users |-> 0]
    /\ stage = [c \in Conns |-> "idle"]
    /\ user = [c \in Conns |-> CHOOSE u \in Users : TRUE]
    /\ target = [c \in Conns |-> "none"]
    /\ client = [c \in Conns |-> "none"]
    /\ upward = [c \in Conns |-> "none"]
    /\ downward = [c \in Conns |-> "none"]

SetStage(c, l) == stage' = [stage EXCEPT ![c] = l]
-----------------------------------------------------------------------------
\* acquireSlot; one who finds no slot is answered 429 and changes nothing.
ServeHTTP(c) ==
    /\ stage[c] = "idle"
    /\ \E u \in Callers :
        /\ active[u] < MaxConns
        /\ active' = [active EXCEPT ![u] = @ + 1]
        /\ user' = [user EXCEPT ![c] = u]
    /\ SetStage(c, "check")
    /\ UNCHANGED <<conns, exitVars>>

\* A return before the release is deferred.
RefusedMutant == "idle"

Refused == "release"

\* The target is no host:port, or isPrivateTarget.
Refuse(c) ==
    /\ stage[c] = "check"
    /\ SetStage(c, Refused)
    /\ UNCHANGED <<active, user, conns, exitVars>>

\* Only selections with this scheme are chained.
Chained(u) == sel[u] # NoSel /\ sel[u].scheme = "http-connect"

\* The selection is read (a subject that is no id of the users table finds
\* none), and the target or the exit's proxy dialled, for at most 10 s.
dialTarget(c) ==
    /\ stage[c] = "check"
    /\ \/ /\ \E known \in BOOLEAN :
              SetStage(c, IF known /\ Chained(user[c]) THEN "reply" ELSE "dialed")
          /\ target' = [target EXCEPT ![c] = "open"]
       \/ SetStage(c, "release") /\ UNCHANGED target
    /\ UNCHANGED <<active, user, client, upward, downward, exitVars>>

\* The exit's answer to CONNECT; nothing limits how long it may take.
Reply(c) ==
    /\ stage[c] = "reply"
    /\ \/ SetStage(c, "dialed") /\ UNCHANGED target
       \/ SetStage(c, "release") /\ target' = [target EXCEPT ![c] = "none"]
    /\ UNCHANGED <<active, user, client, upward, downward, exitVars>>

\* Deadlines, Hijack, 200; the deferred Close if it fails.
Hijack(c) ==
    /\ stage[c] = "dialed"
    /\ \/ /\ client' = [client EXCEPT ![c] = "open"]
          /\ upward' = [upward EXCEPT ![c] = "copy"]
          /\ downward' = [downward EXCEPT ![c] = "copy"]
          /\ SetStage(c, "tunnel")
          /\ UNCHANGED target
       \/ /\ target' = [target EXCEPT ![c] = "none"]
          /\ SetStage(c, "release")
          /\ UNCHANGED <<client, upward, downward>>
    /\ UNCHANGED <<active, user, exitVars>>
-----------------------------------------------------------------------------
(***************************************************************************)
(* The tunnel.                                                             *)
(***************************************************************************)
Over(conn) == conn \in {"ended", "closed"}

\* Closing only the connection to the target.
closeAllMutant(c) ==
    /\ target' = [target EXCEPT ![c] = "closed"]
    /\ UNCHANGED client

closeAll(c) ==
    /\ target' = [target EXCEPT ![c] = "closed"]
    /\ client' = [client EXCEPT ![c] = "closed"]

\* io.Copy returns: its source is over.
UpEnds(c) ==
    /\ upward[c] = "copy" /\ Over(client[c])
    /\ upward' = [upward EXCEPT ![c] = "done"]
    /\ closeAll(c)
    /\ UNCHANGED <<active, stage, user, downward, exitVars>>

DownEnds(c) ==
    /\ downward[c] = "copy" /\ Over(target[c])
    /\ downward' = [downward EXCEPT ![c] = "done"]
    /\ closeAll(c)
    /\ UNCHANGED <<active, stage, user, upward, exitVars>>

\* Or it had something to write and its sink is over.
UpBreaks(c) ==
    /\ upward[c] = "copy" /\ Over(target[c])
    /\ upward' = [upward EXCEPT ![c] = "done"]
    /\ closeAll(c)
    /\ UNCHANGED <<active, stage, user, downward, exitVars>>

DownBreaks(c) ==
    /\ downward[c] = "copy" /\ Over(client[c])
    /\ downward' = [downward EXCEPT ![c] = "done"]
    /\ closeAll(c)
    /\ UNCHANGED <<active, stage, user, upward, exitVars>>

\* The other side of a connection closes or breaks it (external).
Ended(state) == IF state = "open" THEN "ended" ELSE state

PeerEnds(c) ==
    /\ stage[c] = "tunnel"
    /\ \/ client[c] = "open" /\ client' = [client EXCEPT ![c] = Ended(@)] /\ UNCHANGED target
       \/ target[c] = "open" /\ target' = [target EXCEPT ![c] = Ended(@)] /\ UNCHANGED client
    /\ UNCHANGED <<active, stage, user, upward, downward, exitVars>>

\* Two hours have passed.
Deadline(c) ==
    /\ stage[c] = "tunnel" /\ "open" \in {client[c], target[c]}
    /\ client' = [client EXCEPT ![c] = Ended(@)]
    /\ target' = [target EXCEPT ![c] = Ended(@)]
    /\ UNCHANGED <<active, stage, user, upward, downward, exitVars>>

\* wg.Wait is over; the deferred calls close what is open.
Return(c) ==
    /\ stage[c] = "tunnel" /\ upward[c] = "done" /\ downward[c] = "done"
    /\ target' = [target EXCEPT ![c] = "none"]
    /\ client' = [client EXCEPT ![c] = "none"]
    /\ upward' = [upward EXCEPT ![c] = "none"]
    /\ downward' = [downward EXCEPT ![c] = "none"]
    /\ SetStage(c, "release")
    /\ UNCHANGED <<active, user, exitVars>>

releaseSlot(c) ==
    /\ stage[c] = "release"
    /\ active' = [active EXCEPT ![user[c]] = IF @ > 1 THEN @ - 1 ELSE 0]
    /\ user' = [user EXCEPT ![c] = CHOOSE u \in Users : TRUE]
    /\ SetStage(c, "idle")
    /\ UNCHANGED <<conns, exitVars>>
-----------------------------------------------------------------------------
\* What the request's goroutines do without waiting for anybody for ever.
Run(c) ==
    \/ Refuse(c) \/ dialTarget(c) \/ Hijack(c) \/ Return(c) \/ releaseSlot(c)

ProxyNext ==
    \/ \E c \in Conns :
        \/ ServeHTTP(c) \/ Run(c) \/ Reply(c)
        \/ UpEnds(c) \/ DownEnds(c) \/ UpBreaks(c) \/ DownBreaks(c)
        \/ PeerEnds(c) \/ Deadline(c)
    \/ \E u \in Users : ExitStep(u) /\ UNCHANGED proxyVars

ProxySpec == ProxyInit /\ [][ProxyNext]_allVars

(***************************************************************************)
(* Goroutines run on and dialling times out; a copy whose source is over   *)
(* returns from its Read.  Clients, targets and exits owe nothing.         *)
(***************************************************************************)
ProxyFairSpec ==
    /\ ProxySpec
    /\ \A c \in Conns : WF_allVars(Run(c)) /\ WF_allVars(UpEnds(c)) /\ WF_allVars(DownEnds(c))
-----------------------------------------------------------------------------
(***************************************************************************)
(* A user's slots in use are exactly the user's requests under way: none   *)
(* is lost or freed twice on any way out (proxy.go:100-106, 329-346).      *)
(***************************************************************************)
SlotsBalanced ==
    \A u \in Users :
        active[u] = Cardinality({c \in Conns : stage[c] # "idle" /\ user[c] = u})

(***************************************************************************)
(* When one direction of a tunnel has ended, the tunnel ends and its slot  *)
(* comes back, without waiting for the two-hour deadline or for the other  *)
(* side (proxy.go:161-189: closeAll).                                      *)
(***************************************************************************)
HalfCloseEndsTunnel ==
    \A c \in Conns :
        (stage[c] = "tunnel" /\ "done" \in {upward[c], downward[c]}) ~> (stage[c] = "idle")
=============================================================================
