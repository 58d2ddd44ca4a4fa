---------------------------- MODULE Connections ----------------------------
(***************************************************************************)
(* The control plane: the HTTP handlers of internal/control/handler.go     *)
(* that open and close VPN connections and the background jobs of jobs.go, *)
(* interleaved over one database and the VPN cores they call.              *)
(*                                                                         *)
(* A request runs its handler once, one action per database statement or   *)
(* core call, because nothing locks between two of them.  A row of the     *)
(* peers table is named by the Connect request that inserted it; its user, *)
(* server and key are that request's.  A core is the set of keys it        *)
(* routes (WGManager.tla: AddPeer refuses a key it has, RemovePeer answers *)
(* for any key).  How CallCore* retries is CoreClient.tla's subject.  Here *)
(* a call succeeds, fails, or fails although the core has acted; and the   *)
(* attempts that timed out may still be executed, after the call has       *)
(* returned and after whatever the control plane has done since (late).    *)
(*                                                                         *)
(* Ops are the operations issued, Env what the environment does:           *)
(*   "core"    core calls may fail before or after they take effect, and   *)
(*             leave attempts behind                                       *)
(*   "cancel"  a client may go away, or a job's context expire, which      *)
(*             fails the later database statements but not the core calls  *)
(*   "crash"   the process may die between any two steps                   *)
(*   "dup"     a connection may be closed by several requests, or again    *)
(* What connecting and closing do to meshes is in MeshSession.tla.         *)
(***************************************************************************)
EXTENDS Integers, FiniteSets

CONSTANTS Users, Servers, Keys,
          Reqs,             \* the requests of one behaviour (the bound)
          MaxPeers,         \* vpn_servers.max_peers
          MaxDevices,       \* MAX_DEVICES_PER_USER, 0 = unlimited
          MaxLate,          \* attempts of one call that may come late: up to
                            \* coreMaxRetries = 3 in the code
          Ops, Env

ASSUME LimitAssumption == MaxPeers \in Nat /\ MaxDevices \in Nat /\ MaxLate \in Nat
ASSUME FiniteAssumption == IsFiniteSet(Reqs) /\ IsFiniteSet(Keys)
ASSUME SomeAssumption == Users # {} /\ Servers # {} /\ Keys # {}

VARIABLES peers,        \* state of the row a Connect request inserts
          current,      \* vpn_servers.current_peers
          core,         \* the keys each core routes
          late,         \* attempts under way to a core whose call has returned
          users,        \* the users table: "ok", "banned" or "deleted"
          pc,           \* where each request is
          op,           \* what each request does
          conn,         \* the connection a Connect asks for
          todo,         \* rows a closing request has still to close
          now,          \* the row it is closing ({} or one row)
          gone,         \* requests whose context is cancelled
          sync,         \* stats-sync: peers listed per server, -1 if none
          lost,         \* ghost: keys a failed call or a late attempt has left
                        \* on each core
          struck,       \* ghost: keys a late attempt has taken off it
          raced,        \* ghost: Connects that passed the device limit while
                        \* another of the user was past it and not recorded
          slipped       \* ghost: Connects under way when their user was banned,
                        \* and rows whose ban was cut short

vars == <<peers, current, core, late, users, pc, op, conn, todo, now, gone, sync,
          lost, struck, raced, slipped>>
ghosts == <<lost, struck, raced, slipped>>
cores  == <<core, late>>
database == <<peers, current, users>>
control  == <<op, conn, todo, now, gone, sync>>

RowState == {"none", "active", "inactive", "deleted"}
Conn     == [user : Users, server : Servers, key : Keys]
ConnectPC == {"lookup", "limit", "reserve", "add", "create", "undo", "release"}
ClosePC   == {"list", "todo", "remove", "count", "retire"}
AnyConn  == CHOOSE c \in Conn : TRUE

\* What a core can be asked.
Attempts == {"add", "remove"} \X Keys

Init ==
    /\ peers = [r \in Reqs |-> "none"]
    /\ current = [s \in Servers |-> 0]
    /\ core = [s \in Servers |-> {}]
    /\ late = [s \in Servers |-> [a \in Attempts |-> 0]]
    /\ users = [u \in Users |-> "ok"]
    /\ pc = [r \in Reqs |-> "new"]
    /\ op = [r \in Reqs |-> "none"]
    /\ conn = [r \in Reqs |-> AnyConn]
    /\ todo = [r \in Reqs |-> {}]
    /\ now = [r \in Reqs |-> {}]
    /\ gone = {}
    /\ sync = [s \in Servers |-> -1]
    /\ lost = [s \in Servers |-> {}]
    /\ struck = [s \in Servers |-> {}]
    /\ raced = {} /\ slipped = {}

Goto(r, l) == pc' = [pc EXCEPT ![r] = l]
-----------------------------------------------------------------------------
(***************************************************************************)
(* The queries of internal/repo.                                           *)
(***************************************************************************)
Active == {id \in Reqs : peers[id] = "active"}
ActiveOf(u)   == {id \in Active : conn[id].user = u}
ActiveOn(s)   == {id \in Active : conn[id].server = s}

GetActiveByUserAndPublicKey(u, k) == {id \in ActiveOf(u) : conn[id].key = k}

CountByUser(u) == Cardinality(ActiveOf(u))

\* A limit check that lets one more through.
HasSlotMutant(s) == current[s] <= MaxPeers

\* The WHERE clause of ReserveSlot.
HasSlot(s) == current[s] < MaxPeers

\* UpdatePeerCount(-1).
Decremented(s) == [current EXCEPT ![s] = IF @ > 0 THEN @ - 1 ELSE 0]

\* What the schema asks of a new row: its user exists, and (server_id,
\* public_key) is unique among the active ones.
Insertable(c) ==
    /\ users[c.user] # "deleted"
    /\ ~\E id \in ActiveOn(c.server) : conn[id].key = c.key

\* A core that takes a key it already has.
CoreAcceptsMutant(s, k) == TRUE

CoreAccepts(s, k) == k \notin core[s]

CoreFaulty == "core" \in Env

\* A call that has returned may leave attempts behind.
LeaveAttempts(s, a) ==
    \E n \in IF CoreFaulty THEN 0 .. MaxLate ELSE {0} :
        late' = [late EXCEPT ![s][a] = @ + n]

\* The key is taken off, or the call fails and it is not.
CallCoreRemovePeer(s, k) ==
    /\ \/ /\ core' = [core EXCEPT ![s] = @ \ {k}]
          /\ lost' = [lost EXCEPT ![s] = @ \ {k}]
       \/ /\ CoreFaulty /\ UNCHANGED core
          /\ lost' = [lost EXCEPT ![s] = @ \cup (core[s] \cap {k})]
    /\ LeaveAttempts(s, <<"remove", k>>)

\* A core executes an attempt nobody waits for (external).
LateAttempt(s) ==
    /\ \E k \in Keys, what \in {"add", "remove"} :
        /\ late[s][<<what, k>>] > 0
        /\ late' = [late EXCEPT ![s][<<what, k>>] = @ - 1]
        /\ \/ /\ what = "add" /\ CoreAccepts(s, k)
              /\ core' = [core EXCEPT ![s] = @ \cup {k}]
              /\ lost' = [lost EXCEPT ![s] = @ \cup {k}]
              /\ UNCHANGED struck
           \/ /\ what = "add" /\ ~CoreAccepts(s, k)
              /\ UNCHANGED <<core, lost, struck>>
           \/ /\ what = "remove"
              /\ core' = [core EXCEPT ![s] = @ \ {k}]
              /\ lost' = [lost EXCEPT ![s] = @ \ {k}]
              /\ struck' = [struck EXCEPT ![s] = @ \cup (core[s] \cap {k})]
    /\ UNCHANGED <<database, pc, control, raced, slipped>>
-----------------------------------------------------------------------------
(***************************************************************************)
(* Connect.                                                                *)
(***************************************************************************)
\* A check that was forgotten.
BannedCheckMutant(u) == users[u] # "deleted"

\* BannedCheck, on the user loaded when the request was authenticated.
BannedCheck(u) == users[u] = "ok"

Connect(r) ==
    /\ pc[r] = "new" /\ "connect" \in Ops
    /\ \E c \in Conn :
        /\ BannedCheck(c.user)
        /\ conn' = [conn EXCEPT ![r] = c]
    /\ op' = [op EXCEPT ![r] = "connect"]
    /\ Goto(r, "lookup")
    /\ UNCHANGED <<database, cores, todo, now, gone, sync, ghosts>>

\* Idempotency: an active row for the key is answered as it is.  A failing
\* query does not stop the request.
ConnectLookup(r) ==
    /\ pc[r] = "lookup"
    /\ LET c == conn[r] IN
       IF r \notin gone /\ GetActiveByUserAndPublicKey(c.user, c.key) # {}
       THEN Goto(r, "done")
       ELSE Goto(r, "limit")
    /\ UNCHANGED <<database, cores, control, ghosts>>

\* Connects of u past the limit whose row is not there yet.
Unrecorded(u) ==
    {q \in Reqs : conn[q].user = u /\ pc[q] \in {"reserve", "add", "create"}}

\* A limit that lets one more device through.
OverLimitMutant(r) ==
    MaxDevices > 0 /\ (r \in gone \/ CountByUser(conn[r].user) > MaxDevices)

OverLimit(r) ==
    MaxDevices > 0 /\ (r \in gone \/ CountByUser(conn[r].user) >= MaxDevices)

ConnectLimit(r) ==
    /\ pc[r] = "limit"
    /\ IF OverLimit(r) THEN Goto(r, "done") /\ UNCHANGED raced
       ELSE /\ Goto(r, "reserve")
            /\ raced' = IF MaxDevices > 0 /\ Unrecorded(conn[r].user) # {}
                        THEN raced \cup {r} ELSE raced
    /\ UNCHANGED <<database, cores, control, lost, struck, slipped>>

\* The server row was read without a lock; ReserveSlot tests and increments.
ConnectReserve(r) ==
    /\ pc[r] = "reserve"
    /\ LET s == conn[r].server IN
       IF r \notin gone /\ HasSlot(s)
       THEN /\ current' = [current EXCEPT ![s] = @ + 1]
            /\ Goto(r, "add")
       ELSE /\ Goto(r, "done")
            /\ UNCHANGED current
    /\ UNCHANGED <<peers, users, cores, control, ghosts>>

\* CallCoreAddPeer.
ConnectAdd(r) ==
    /\ pc[r] = "add"
    /\ LET s == conn[r].server
           k == conn[r].key
       IN  \/ /\ CoreAccepts(s, k)
              /\ core' = [core EXCEPT ![s] = @ \cup {k}]
              /\ Goto(r, "create")
              /\ UNCHANGED lost
           \/ /\ CoreFaulty \/ ~CoreAccepts(s, k)
              /\ UNCHANGED <<core, lost>>
              /\ Goto(r, "release")
           \/ /\ CoreFaulty /\ CoreAccepts(s, k)
              /\ core' = [core EXCEPT ![s] = @ \cup {k}]
              /\ lost' = [lost EXCEPT ![s] = @ \cup {k}]
              /\ Goto(r, "release")
    /\ LeaveAttempts(conn[r].server, <<"add", conn[r].key>>)
    /\ UNCHANGED <<database, control, struck, raced, slipped>>

\* peerRepo.Create; from here the slot belongs to the row.
ConnectCreate(r) ==
    /\ pc[r] = "create"
    /\ IF r \notin gone /\ Insertable(conn[r])
       THEN /\ peers' = [peers EXCEPT ![r] = "active"]
            /\ Goto(r, "done")
       ELSE /\ Goto(r, "undo")
            /\ UNCHANGED peers
    /\ UNCHANGED <<current, users, cores, control, ghosts>>

\* A roll-back that forgets the core.
ConnectUndoMutant(r) ==
    /\ pc[r] = "undo"
    /\ Goto(r, "release")
    /\ UNCHANGED <<database, cores, control, ghosts>>

ConnectUndo(r) ==
    /\ pc[r] = "undo"
    /\ CallCoreRemovePeer(conn[r].server, conn[r].key)
    /\ Goto(r, "release")
    /\ UNCHANGED <<database, control, struck, raced, slipped>>

\* A failed Connect that keeps its slot.
SlotBackMutant(r) == UNCHANGED current

\* The deferred UpdatePeerCount(-1).
SlotBack(r) ==
    IF r \in gone THEN UNCHANGED current
    ELSE current' = Decremented(conn[r].server)

ConnectRelease(r) ==
    /\ pc[r] = "release"
    /\ SlotBack(r)
    /\ Goto(r, "done")
    /\ UNCHANGED <<peers, users, cores, control, ghosts>>
-----------------------------------------------------------------------------
(***************************************************************************)
(* Closing connections: Disconnect, AdminForceDisconnectPeer,              *)
(* DeleteConnection, AdminBanUser and the peer-cleanup job.                *)
(***************************************************************************)
\* Who may be closed: without "dup", an active row nobody else is closing.
MayClose(id) ==
    /\ peers[id] \in {"active", "inactive"}
    /\ "dup" \in Env \/ (peers[id] = "active"
                         /\ \A q \in Reqs : id \notin todo[q] \cup now[q])

Closing(r, kind, ids) ==
    /\ pc[r] = "new" /\ kind \in Ops
    /\ op' = [op EXCEPT ![r] = kind]
    /\ todo' = [todo EXCEPT ![r] = ids]
    /\ Goto(r, "todo")
    /\ UNCHANGED <<database, cores, conn, now, gone, sync, ghosts>>

\* The row is looked up whether it is still active or not.
Disconnect(r) ==
    \E id \in Reqs : MayClose(id) /\ Closing(r, "disconnect", {id})

AdminForceDisconnectPeer(r) ==
    \E id \in Reqs : MayClose(id) /\ Closing(r, "force", {id})

\* Only an active row is removed from the core and counted down.
DeleteConnection(r) ==
    \E id \in Reqs :
        /\ MayClose(id)
        /\ IF peers[id] = "active" THEN Closing(r, "delete", {id})
           ELSE /\ pc[r] = "new" /\ "delete" \in Ops
                /\ op' = [op EXCEPT ![r] = "delete"]
                /\ now' = [now EXCEPT ![r] = {id}]
                /\ Goto(r, "retire")
                /\ UNCHANGED <<database, cores, conn, todo, gone, sync, ghosts>>

\* ListStale: any active rows may have had no handshake for long enough.
PeerCleanup(r) ==
    \E ids \in SUBSET Active :
        /\ ids # {}
        /\ \A id \in ids : MayClose(id)
        /\ Closing(r, "cleanup", ids)

\* userRepo.Ban, the first statement of AdminBanUser.
AdminBanUser(r) ==
    /\ pc[r] = "new" /\ "ban" \in Ops
    /\ \E u \in Users :
        /\ users' = [users EXCEPT ![u] = IF @ = "ok" THEN "banned" ELSE @]
        /\ conn' = [conn EXCEPT ![r].user = u]
        /\ slipped' = slipped \cup {q \in Reqs : conn[q].user = u /\ pc[q] \in ConnectPC}
    /\ op' = [op EXCEPT ![r] = "ban"]
    /\ Goto(r, "list")
    /\ UNCHANGED <<peers, current, cores, todo, now, gone, sync, lost, struck, raced>>

\* ListByUser; an error leaves nothing to close.
BanList(r) ==
    /\ pc[r] = "list"
    /\ LET ids == IF r \in gone THEN {} ELSE ActiveOf(conn[r].user) IN
       /\ todo' = [todo EXCEPT ![r] = ids]
       /\ Goto(r, IF ids = {} THEN "done" ELSE "todo")
    /\ UNCHANGED <<database, cores, op, conn, now, gone, sync, ghosts>>

\* The next row, and serverRepo.GetByID of its server: only if that answers
\* are the core and the counter told.
CloseNext(r) ==
    /\ pc[r] = "todo"
    /\ \E id \in todo[r] :
        /\ now' = [now EXCEPT ![r] = {id}]
        /\ todo' = [todo EXCEPT ![r] = @ \ {id}]
    /\ Goto(r, IF r \in gone THEN "retire" ELSE "remove")
    /\ UNCHANGED <<database, cores, op, conn, gone, sync, ghosts>>

CloseRemove(r) ==
    /\ pc[r] = "remove"
    /\ \E id \in now[r] : CallCoreRemovePeer(conn[id].server, conn[id].key)
    /\ Goto(r, "count")
    /\ UNCHANGED <<database, control, struck, raced, slipped>>

CloseCount(r) ==
    /\ pc[r] = "count"
    /\ IF r \in gone THEN UNCHANGED current
       ELSE \E id \in now[r] : current' = Decremented(conn[id].server)
    /\ Goto(r, "retire")
    /\ UNCHANGED <<peers, users, cores, control, ghosts>>

\* Deactivate, or Delete for DeleteConnection.
Retired(r, id) ==
    IF op[r] = "delete" THEN "deleted"
    ELSE IF peers[id] = "active" THEN "inactive" ELSE peers[id]

CloseRetire(r) ==
    /\ pc[r] = "retire"
    /\ peers' = [id \in Reqs |-> IF id \in now[r] /\ r \notin gone
                                 THEN Retired(r, id) ELSE peers[id]]
    /\ now' = [now EXCEPT ![r] = {}]
    /\ Goto(r, IF todo[r] = {} THEN "done" ELSE "todo")
    /\ UNCHANGED <<current, users, cores, op, conn, todo, gone, sync, ghosts>>

AdminUnbanUser(r) ==
    /\ pc[r] = "new" /\ "unban" \in Ops
    /\ \E u \in Users :
        users' = [users EXCEPT ![u] = IF @ = "banned" THEN "ok" ELSE @]
    /\ op' = [op EXCEPT ![r] = "unban"]
    /\ Goto(r, "done")
    /\ UNCHANGED <<peers, current, cores, conn, todo, now, gone, sync, ghosts>>

\* The user goes with its peers (ON DELETE CASCADE); no core is told.  Who
\* logs in again is a new user.
AdminDeleteUser(r) ==
    /\ pc[r] = "new" /\ "deleteuser" \in Ops
    /\ \E u \in Users :
        /\ users' = [users EXCEPT ![u] = "deleted"]
        /\ peers' = [id \in Reqs |-> IF peers[id] # "none" /\ conn[id].user = u
                                     THEN "deleted" ELSE peers[id]]
    /\ op' = [op EXCEPT ![r] = "deleteuser"]
    /\ Goto(r, "done")
    /\ UNCHANGED <<current, cores, conn, todo, now, gone, sync, ghosts>>

Banning(q, u) == op[q] = "ban" /\ conn[q].user = u /\ pc[q] # "done"

\* The client closes its HTTP connection, or the cleanup's 60 s are over.
ContextDone(r) ==
    /\ "cancel" \in Env
    /\ pc[r] \in ConnectPC \cup ClosePC /\ r \notin gone
    /\ gone' = gone \cup {r}
    /\ slipped' = IF op[r] = "ban" THEN slipped \cup ActiveOf(conn[r].user) ELSE slipped
    /\ UNCHANGED <<database, cores, pc, op, conn, todo, now, sync, lost, struck, raced>>

\* The control process dies with everything it was doing (external).
Crash ==
    /\ "crash" \in Env
    /\ \E r \in Reqs : pc[r] \notin {"new", "done"}
    /\ pc' = [r \in Reqs |-> IF pc[r] = "new" THEN "new" ELSE "done"]
    /\ todo' = [r \in Reqs |-> {}]
    /\ now' = [r \in Reqs |-> {}]
    /\ sync' = [s \in Servers |-> -1]
    /\ slipped' = slipped \cup {id \in Active : \E q \in Reqs : Banning(q, conn[id].user)}
    /\ UNCHANGED <<database, cores, op, conn, gone, lost, struck, raced>>
-----------------------------------------------------------------------------
(***************************************************************************)
(* The stats-sync job: CallCoreListPeers, then SetPeerCount.  A round in   *)
(* which either fails changes nothing, as if it had come later.            *)
(***************************************************************************)
SyncList(s) ==
    /\ "sync" \in Ops /\ sync[s] = -1
    /\ sync' = [sync EXCEPT ![s] = Cardinality(core[s])]
    /\ UNCHANGED <<database, cores, pc, op, conn, todo, now, gone, ghosts>>

\* A resynchronisation that only ever raises the counter.
SetPeerCountMutant(s, n) ==
    [current EXCEPT ![s] = IF n > @ THEN n ELSE @]

SetPeerCount(s, n) == [current EXCEPT ![s] = n]

SyncSet(s) ==
    /\ sync[s] # -1
    /\ current' = SetPeerCount(s, sync[s])
    /\ sync' = [sync EXCEPT ![s] = -1]
    /\ UNCHANGED <<peers, users, cores, pc, op, conn, todo, now, gone, ghosts>>
-----------------------------------------------------------------------------
Begin(r) ==
    \/ Connect(r) \/ Disconnect(r) \/ AdminForceDisconnectPeer(r)
    \/ DeleteConnection(r) \/ PeerCleanup(r)
    \/ AdminBanUser(r) \/ AdminUnbanUser(r) \/ AdminDeleteUser(r)

Step(r) ==
    \/ ConnectLookup(r) \/ ConnectLimit(r) \/ ConnectReserve(r)
    \/ ConnectAdd(r) \/ ConnectCreate(r) \/ ConnectUndo(r) \/ ConnectRelease(r)
    \/ BanList(r) \/ CloseNext(r) \/ CloseRemove(r) \/ CloseCount(r) \/ CloseRetire(r)

Next ==
    \/ \E r \in Reqs : Begin(r) \/ Step(r) \/ ContextDone(r)
    \/ \E s \in Servers : SyncList(s) \/ SyncSet(s) \/ LateAttempt(s)
    \/ Crash

Spec == Init /\ [][Next]_vars

(***************************************************************************)
(* A started handler runs to its end (every call it makes returns or times *)
(* out), and the ticker of stats-sync keeps firing.                        *)
(***************************************************************************)
FairSpec ==
    /\ Spec
    /\ \A r \in Reqs : WF_vars(Step(r))
    /\ \A s \in Servers : WF_vars(SyncList(s)) /\ WF_vars(SyncSet(s))
-----------------------------------------------------------------------------
LateOK ==
    /\ late \in [Servers -> [Attempts -> Nat]]
    /\ struck \in [Servers -> SUBSET Keys]

\* Types of the tables and of the requests; the peer count never goes negative.
TypeOK ==
    /\ peers \in [Reqs -> RowState]
    /\ current \in [Servers -> Nat]
    /\ core \in [Servers -> SUBSET Keys]
    /\ users \in [Users -> {"ok", "banned", "deleted"}]
    /\ pc \in [Reqs -> {"new", "done"} \cup ConnectPC \cup ClosePC]
    /\ op \in [Reqs -> {"none", "connect", "disconnect", "force", "delete",
                        "cleanup", "ban", "unban", "deleteuser"}]
    /\ conn \in [Reqs -> Conn]
    /\ todo \in [Reqs -> SUBSET Reqs]
    /\ now \in [Reqs -> SUBSET Reqs]
    /\ gone \in SUBSET Reqs
    /\ sync \in [Servers -> Nat \cup {-1}]
    /\ lost \in [Servers -> SUBSET Keys]
    /\ LateOK
    /\ raced \in SUBSET Reqs /\ slipped \in SUBSET Reqs

\* Slots reserved by a Connect that has not reached its end.
Holding(s) ==
    {r \in Reqs : conn[r].server = s /\ pc[r] \in {"add", "create", "undo", "release"}}

\* Active rows already counted down by the request that closes them.
CountedDown(s) ==
    {id \in ActiveOn(s) : \E q \in Reqs : pc[q] = "retire" /\ id \in now[q]}

(***************************************************************************)
(* current_peers is exactly the active connections plus the slots held by  *)
(* Connects under way, through every failure of a core call and every      *)
(* rollback (handler.go:414-455).                                          *)
(***************************************************************************)
SlotsAccounted ==
    \A s \in Servers :
        current[s] + Cardinality(CountedDown(s)) =
            Cardinality(ActiveOn(s)) + Cardinality(Holding(s))

(***************************************************************************)
(* Never more active connections on a server than max_peers: "Atomically   *)
(* reserve a slot (prevents TOCTOU race on capacity)" (handler.go:413).  A *)
(* connection whose close has been counted does not count any more.        *)
(***************************************************************************)
CapacityRespected ==
    \A s \in Servers : Cardinality(ActiveOn(s) \ CountedDown(s)) <= MaxPeers

(***************************************************************************)
(* An active connection that nobody is closing is routed by its core: two  *)
(* Connects and a Disconnect for one key never undo each other's core call *)
(* (the rollback at handler.go:449 against a concurrent success).  Only a  *)
(* removal executed after its call had returned (core_client.go:216-251)   *)
(* can take the key of a later connection off.                             *)
(***************************************************************************)
ActiveOnCore ==
    \A id \in Active :
        (\A q \in Reqs : id \notin todo[q] \cup now[q]) =>
            conn[id].key \in core[conn[id].server] \cup struck[conn[id].server]

(***************************************************************************)
(* A core routes no key the database does not account for: a key on a core *)
(* belongs to an active row or to a Connect that will insert or remove it, *)
(* or else a core call for it failed and the failure was ignored           *)
(* (handler.go:433-453, 526), or an attempt to add it came late.           *)
(***************************************************************************)
NoGhostPeer ==
    \A s \in Servers : \A k \in core[s] :
        \/ k \in lost[s]
        \/ \E id \in ActiveOn(s) : conn[id].key = k
        \/ \E r \in Reqs : /\ conn[r].server = s /\ conn[r].key = k
                            /\ pc[r] \in {"create", "undo"}

(***************************************************************************)
(* A user has more active devices than MAX_DEVICES_PER_USER only by        *)
(* Connects that passed the check while another was past it: every device  *)
(* over the limit is one of those (handler.go:376-388).                    *)
(***************************************************************************)
DeviceLimit ==
    MaxDevices > 0 => \A u \in Users : Cardinality(ActiveOf(u) \ raced) <= MaxDevices

(***************************************************************************)
(* Once AdminBanUser has answered, the user's only active connections are  *)
(* those of Connects that were under way when it began, unless it was cut  *)
(* short (handler.go:920-939).                                             *)
(***************************************************************************)
BanIsFinal ==
    \A u \in Users :
        users[u] = "banned" /\ (\A q \in Reqs : ~Banning(q, u)) => ActiveOf(u) \subseteq slipped

(***************************************************************************)
(* The peer counts heal: when the requests have ceased, stats-sync brings  *)
(* current_peers back to what the cores route, whatever leaked before      *)
(* (jobs.go:56-59).                                                        *)
(***************************************************************************)
CountsHeal ==
    <>[](\A s \in Servers : current[s] = Cardinality(core[s]))
=============================================================================
