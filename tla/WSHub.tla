------------------------------- MODULE WSHub -------------------------------
(***************************************************************************)
(* internal/control/ws_hub.go: the WebSocket hub.  Its processes are the   *)
(* goroutine in Run, one HandleWS and one writer goroutine per connection, *)
(* and the handlers that call Broadcast and BroadcastToUsers.              *)
(*                                                                         *)
(* A section under h.mu.Lock is one action.  A section under RLock goes    *)
(* over the clients one at a time, because several run side by side and    *)
(* the writers drain the send channels meanwhile.  A Lock section waits    *)
(* for them, and keeps new ones out while it waits (sync.RWMutex).         *)
(* Messages are only counted.                                              *)
(***************************************************************************)
EXTENDS Integers, FiniteSets

CONSTANTS Conns,        \* WebSocket connections, each used once (the bound)
          Users,
          Notifiers,    \* goroutines in BroadcastToUsers
          Run,          \* the goroutine in Run
          MaxGlobal,    \* cfg.WSMaxGlobal, 0 = unlimited
          MaxForUser,   \* cfg.WSMaxForGroups, 0 = unlimited
          SendCap,      \* capacity of client.send (64)
          QueueCap      \* capacity of h.broadcast (256)

ASSUME LimitsAssumption == MaxGlobal \in Nat /\ MaxForUser \in Nat
ASSUME CapsAssumption == SendCap \in Nat \ {0} /\ QueueCap \in Nat \ {0}
ASSUME ConnsAssumption == IsFiniteSet(Conns)
ASSUME RunAssumption == Run \notin Notifiers

VARIABLES clients,      \* h.clients
          userConns,    \* h.userConns
          queue,        \* messages in h.broadcast
          user,         \* whose connection it is
          stage,        \* where HandleWS is, per connection
          buffer,       \* messages in client.send
          closed,       \* connections whose client.send is closed
          writing,      \* connections whose writer goroutine still writes
          phase,        \* where Run and each BroadcastToUsers are
          taken,        \* the connection Run has received ({} or one)
          left,         \* clients it has still to visit
          dead,         \* clients it found with a full channel
          panicked      \* a send on, or a second close of, a closed channel

hubVars == <<clients, userConns, queue, user, stage, buffer, closed, writing, phase,
             taken, left, dead, panicked>>
hub      == <<clients, userConns>>
channels == <<buffer, closed, writing, panicked>>
scans    == <<left, dead>>

Broadcasters == Notifiers \cup {Run}

HubInit ==
    /\ clients = {}
    /\ userConns = [u \in Users |-> 0]
    /\ queue = 0
    /\ user \in [Conns -> Users]
    /\ stage = [c \in Conns |-> "new"]
    /\ buffer = [c \in Conns |-> 0]
    /\ closed = {} /\ writing = {}
    /\ phase = [b \in Broadcasters |-> "idle"]
    /\ taken = {}
    /\ left = [b \in Broadcasters |-> {}]
    /\ dead = [b \in Broadcasters |-> {}]
    /\ panicked = FALSE

\* h.mu can be taken for writing, or for reading.
Unlocked == \A b \in Broadcasters : phase[b] # "scan"
Readable == \A b \in Broadcasters : phase[b] \in {"idle", "scan"}

SetStage(c, l) == stage' = [stage EXCEPT ![c] = l]
Enter(b, l) == phase' = [phase EXCEPT ![b] = l]

Close(S) ==
    /\ closed' = closed \cup S
    /\ panicked' = (panicked \/ S \cap closed # {})
-----------------------------------------------------------------------------
(***************************************************************************)
(* HandleWS.                                                               *)
(***************************************************************************)
CanAccept(u) ==
    /\ MaxGlobal > 0 => Cardinality(clients) < MaxGlobal
    /\ MaxForUser > 0 => userConns[u] < MaxForUser

\* The token has been checked; a refused connection is closed.
Accept(c) ==
    /\ stage[c] = "new"
    /\ SetStage(c, IF CanAccept(user[c]) THEN "register" ELSE "done")
    /\ UNCHANGED <<hub, queue, user, channels, phase, taken, scans>>

\* Run receives from h.register; HandleWS goes on to start its writer.
ReceiveRegister(c) ==
    /\ stage[c] = "register" /\ phase[Run] = "idle"
    /\ Enter(Run, "register")
    /\ taken' = {c}
    /\ writing' = writing \cup {c}
    /\ SetStage(c, "reading")
    /\ UNCHANGED <<hub, queue, user, buffer, closed, panicked, scans>>

\* A count that only knows whether the user is there.
CountedMutant(u) == 1

Counted(u) == userConns[u] + 1

RegisterClient ==
    /\ phase[Run] = "register" /\ Unlocked
    /\ clients' = clients \cup taken
    /\ userConns' = [u \in Users |->
            IF \E c \in taken : user[c] = u THEN Counted(u) ELSE userConns[u]]
    /\ Enter(Run, "idle")
    /\ taken' = {}
    /\ UNCHANGED <<queue, user, stage, channels, scans>>

\* conn.Read fails: the peer left, or sent nothing for 60 s.
ReadEnds(c) ==
    /\ stage[c] = "reading"
    /\ SetStage(c, "unregister")
    /\ UNCHANGED <<hub, queue, user, channels, phase, taken, scans>>

\* Run receives from h.unregister; HandleWS returns.
ReceiveUnregister(c) ==
    /\ stage[c] = "unregister" /\ phase[Run] = "idle"
    /\ Enter(Run, "unregister")
    /\ taken' = {c}
    /\ SetStage(c, "done")
    /\ UNCHANGED <<hub, queue, user, channels, scans>>

StillRegistered == taken \cap clients

Removed == StillRegistered

UnregisterClient ==
    /\ phase[Run] = "unregister" /\ Unlocked
    /\ clients' = clients \ Removed
    /\ Close(StillRegistered)
    /\ userConns' = [u \in Users |->
            IF \E c \in StillRegistered : user[c] = u
            THEN userConns[u] - 1 ELSE userConns[u]]
    /\ Enter(Run, "idle")
    /\ taken' = {}
    /\ UNCHANGED <<queue, user, stage, buffer, writing, scans>>

\* The writer takes a message; a failing write ends it.
Write(c) ==
    /\ c \in writing /\ buffer[c] > 0
    /\ buffer' = [buffer EXCEPT ![c] = @ - 1]
    /\ writing' \in {writing, writing \ {c}}
    /\ UNCHANGED <<hub, queue, user, stage, closed, panicked, phase, taken, scans>>
-----------------------------------------------------------------------------
(***************************************************************************)
(* Broadcasting.                                                           *)
(***************************************************************************)
\* Broadcast; with a full channel the message is dropped.
Broadcast ==
    /\ queue < QueueCap
    /\ queue' = queue + 1
    /\ UNCHANGED <<hub, user, stage, channels, phase, taken, scans>>

Scan(b, S) ==
    /\ phase[b] = "idle" /\ Readable
    /\ Enter(b, IF S = {} THEN "idle" ELSE "scan")
    /\ left' = [left EXCEPT ![b] = S]
    /\ UNCHANGED dead

\* Run receives from h.broadcast.
RunBroadcast ==
    /\ queue > 0
    /\ queue' = queue - 1
    /\ Scan(Run, clients)
    /\ UNCHANGED <<hub, user, stage, channels, taken>>

BroadcastToUsers(n) ==
    /\ \E U \in SUBSET Users :
        /\ \E c \in clients : user[c] \in U
        /\ Scan(n, {c \in clients : user[c] \in U})
    /\ UNCHANGED <<hub, queue, user, stage, channels, taken>>

\* A scan that forgets RUnlock when it found dead clients.
AfterScanMutant(b) == IF dead'[b] # {} THEN "scan" ELSE "idle"

AfterScan(b) == IF dead'[b] # {} THEN "prune" ELSE "idle"

\* Non-blocking send to one client.
Visit(b) ==
    /\ phase[b] = "scan"
    /\ \E c \in left[b] :
        /\ left' = [left EXCEPT ![b] = @ \ {c}]
        /\ panicked' = (panicked \/ c \in closed)
        /\ IF buffer[c] < SendCap
           THEN buffer' = [buffer EXCEPT ![c] = @ + 1] /\ UNCHANGED dead
           ELSE dead' = [dead EXCEPT ![b] = @ \cup {c}] /\ UNCHANGED buffer
    /\ Enter(b, IF left'[b] # {} THEN "scan" ELSE AfterScan(b))
    /\ UNCHANGED <<hub, queue, user, stage, closed, writing, taken>>

\* Clients that somebody else may have removed by now.
PrunedMutant(b) == dead[b]

Pruned(b) == dead[b] \cap clients

\* Only the clients map loses the dead ones.
CountsAfterPrune(b) == userConns

Prune(b) ==
    /\ phase[b] = "prune" /\ Unlocked
    /\ Close(Pruned(b))
    /\ clients' = clients \ Pruned(b)
    /\ userConns' = CountsAfterPrune(b)
    /\ dead' = [dead EXCEPT ![b] = {}]
    /\ Enter(b, "idle")
    /\ UNCHANGED <<queue, user, stage, buffer, writing, taken, left>>
-----------------------------------------------------------------------------
HubNext ==
    \/ \E c \in Conns :
        \/ Accept(c) \/ ReceiveRegister(c) \/ ReadEnds(c) \/ ReceiveUnregister(c)
        \/ Write(c)
    \/ RegisterClient \/ UnregisterClient
    \/ Broadcast \/ RunBroadcast
    \/ \E n \in Notifiers : BroadcastToUsers(n)
    \/ \E b \in Broadcasters : Visit(b) \/ Prune(b)

HubSpec == HubInit /\ [][HubNext]_hubVars

(***************************************************************************)
(* A goroutine under way runs on, a waiting Lock included.  Run's select   *)
(* picks among the ready cases at random, so a case that is ready again    *)
(* and again is taken.  Nothing makes reading end: the 60 s limit starts   *)
(* anew with every message (ws_hub.go:255).                                *)
(***************************************************************************)
HubFairSpec ==
    /\ HubSpec
    /\ \A c \in Conns :
        SF_hubVars(ReceiveRegister(c)) /\ SF_hubVars(ReceiveUnregister(c))
    /\ WF_hubVars(RegisterClient) /\ WF_hubVars(UnregisterClient)
    /\ \A b \in Broadcasters : WF_hubVars(Visit(b)) /\ WF_hubVars(Prune(b))
-----------------------------------------------------------------------------
\* Types of the hub's fields and of the goroutines' local state.
HubTypeOK ==
    /\ clients \in SUBSET Conns
    /\ userConns \in [Users -> Nat]
    /\ queue \in 0 .. QueueCap
    /\ user \in [Conns -> Users]
    /\ stage \in [Conns -> {"new", "register", "reading", "unregister", "done"}]
    /\ buffer \in [Conns -> 0 .. SendCap]
    /\ closed \in SUBSET Conns /\ writing \in SUBSET Conns
    /\ phase \in [Broadcasters -> {"idle", "scan", "prune", "register", "unregister"}]
    /\ taken \in SUBSET Conns
    /\ left \in [Broadcasters -> SUBSET Conns]
    /\ dead \in [Broadcasters -> SUBSET Conns]
    /\ panicked \in BOOLEAN

ClientsOf(u) == {c \in clients : user[c] = u}

(***************************************************************************)
(* Nobody sends on a closed channel or closes one twice, which would take  *)
(* the process down, although Run and every BroadcastToUsers close the     *)
(* channels of the clients they find dead (ws_hub.go:60-71, 90-99,         *)
(* 163-172).                                                               *)
(***************************************************************************)
NoPanic == ~panicked

(***************************************************************************)
(* The per-user count never drops below the connections really registered, *)
(* so a user who is at the limit is never let in by a wrong count, however *)
(* unregistration and pruning cross (ws_hub.go:60-71, 90-99).              *)
(***************************************************************************)
NeverUndercounted ==
    \A u \in Users : Cardinality(ClientsOf(u)) <= userConns[u]

(***************************************************************************)
(* The hub keeps serving: a handler that hands its connection over is not  *)
(* left waiting on the unbuffered channels (ws_hub.go:235, 237), however   *)
(* busy the broadcasts are.  Its connection gets on the hub's list, and    *)
(* when reading has ended the handler returns and the list lets it go.     *)
(***************************************************************************)
HubServes ==
    \A c \in Conns :
        /\ stage[c] = "register" ~> c \in clients
        /\ stage[c] = "unregister" ~> stage[c] = "done" /\ c \notin clients
=============================================================================
