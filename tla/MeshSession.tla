---------------------------- MODULE MeshSession ----------------------------
(***************************************************************************)
(* Session meshes: internal/control/mesh_handler.go and internal/repo/     *)
(* mesh.go, with the parts of Connect, Disconnect and the jobs that touch  *)
(* them.  A user's session mesh is a /24 of its own; its one member is the *)
(* owner (joining and creating by hand answer 410), whose address is the   *)
(* first host of the /24, so a mesh address is named by its subnet.  The   *)
(* address is routed to the owner's VPN connection by the WireGuard        *)
(* manager of this node (WGManager.tla).                                   *)
(*                                                                         *)
(* A request runs once, one action per database statement or call of the   *)
(* manager; any of them may fail (StatementFails and the actions that say  *)
(* so) and then has no effect.  A row of mesh_networks is named by the     *)
(* request that inserts it.  Only ensureAutoMesh takes a lock, one per     *)
(* user.  Rows are inserted with a valid country and is_active, which      *)
(* nothing changes, so the branch that deletes invalid meshes is never     *)
(* taken.                                                                  *)
(***************************************************************************)
EXTENDS Integers, FiniteSets

CONSTANTS Users,
          Peers,            \* VPN connections, one public key each
          Reqs,             \* the requests of one behaviour (the bound)
          LateUsers,        \* users with late attempts of core calls (a bound)
          MaxSubnet,        \* subnets of 10.200.0.0/16, 254 in the code
          NoMember, NoPeer  \* no mesh_members row; a row whose peer_id is NULL

ASSUME SubnetAssumption == MaxSubnet \in Nat \ {0}
ASSUME NobodyAssumption == NoMember # NoPeer /\ {NoMember, NoPeer} \cap Peers = {}

VARIABLES owner,        \* whose connection a peer is
          mesh,         \* state of the mesh_networks row a request inserts
          subnet,       \* its subnet, as soon as one has been picked
          link,         \* peer_id of the owner's mesh_members row
          fresh,        \* meshes whose updated_at is within two hours
          active,       \* peers.is_active
          device,       \* peers on this node's WireGuard interface
          routed,       \* the mesh address the kernel routes to a peer, or 0
          lock,         \* h.autoMeshLocks: the request that holds it ({} or one)
          pc, user,     \* where a request is, and whose it is
          cur,          \* the mesh it works on ({} or one)
          hand,         \* the peers it has still to work on
          excused       \* what has happened to a user that the code does
                        \* not make up for (a history variable)

vars == <<owner, mesh, subnet, link, fresh, active, device, routed, lock, pc,
          user, cur, hand, excused>>
tables == <<mesh, subnet, link, fresh, active>>
wg     == <<device, routed>>
fixed  == <<owner, user>>

Subnets == 1 .. MaxSubnet
Live == {m \in Reqs : mesh[m] = "live"}
SessionOf(u) == {m \in Live : user[m] = u}
\* nextAvailableMeshIPTx: with one member always the first host of the subnet.
MeshIP(m) == subnet[m]
InFlight(u) == {r \in Reqs : user[r] = u /\ pc[r] \notin {"new", "done"}}

\* No mesh yet; the connections may all be open.
Init ==
    /\ owner \in [Peers -> Users]
    /\ mesh = [r \in Reqs |-> "none"]
    /\ subnet = [r \in Reqs |-> 0]
    /\ link = [r \in Reqs |-> NoMember]
    /\ fresh = {}
    /\ active \in {{}, Peers} /\ device = active
    /\ routed = [p \in Peers |-> 0]
    /\ lock = [u \in Users |-> {}]
    /\ pc = [r \in Reqs |-> "new"]
    /\ user \in [Reqs -> Users]
    /\ cur = [r \in Reqs |-> {}]
    /\ hand = [r \in Reqs |-> {}]
    /\ excused = [u \in Users |-> {}]

\* A request goes on with a mesh and peers at hand; at its end it has neither.
Move(r, l, ms, ps) ==
    /\ pc' = [pc EXCEPT ![r] = l]
    /\ cur' = [cur EXCEPT ![r] = IF l = "done" THEN {} ELSE ms]
    /\ hand' = [hand EXCEPT ![r] = IF l = "done" THEN {} ELSE ps]

Goto(r, l) == Move(r, l, cur[r], hand[r])
Excuse(u, what) == excused' = [excused EXCEPT ![u] = @ \cup what]

\* A request arrives; a user with two at a time is on record.
Begin(r, l, ps, faults) ==
    /\ pc[r] = "new"
    /\ Move(r, l, {}, ps)
    /\ Excuse(user[r], faults \cup IF InFlight(user[r]) = {} THEN {} ELSE {"overlap"})
    /\ UNCHANGED <<owner, user, lock>>

(***************************************************************************)
(* The WireGuard manager of this node (WGManager.tla).                     *)
(***************************************************************************)
\* AddMeshIP takes the address from any other peer that has it.
Routed(p, n) ==
    [q \in Peers |-> IF q = p THEN n ELSE IF routed[q] = n THEN 0 ELSE routed[q]]

\* RemoveMeshIP fails for a peer that is not on the interface.
Unrouted(ps) == [q \in Peers |-> IF q \in ps THEN 0 ELSE routed[q]]
-----------------------------------------------------------------------------
(***************************************************************************)
(* ActivateNode and AutoMesh: ensureAutoMesh under the user's lock ...     *)
(***************************************************************************)
Activate(r) ==
    /\ Begin(r, "lock", {}, {})
    /\ UNCHANGED <<tables, wg>>

\* A lock per request instead of one per user.
MayLockMutant(r) == TRUE

MayLock(r) == lock[user[r]] = {}

Lock(r) ==
    /\ pc[r] = "lock" /\ MayLock(r)
    /\ lock' = [lock EXCEPT ![user[r]] = {r}]
    /\ Goto(r, "list")
    /\ UNCHANGED <<tables, wg, fixed, excused>>

\* The deferred Unlock.
Leave(r, l) ==
    /\ lock' = [lock EXCEPT ![user[r]] = {}]
    /\ Goto(r, l)

\* meshRepo.ListByUser; after an error ensureAutoMesh goes on as if there were none.
List(r) ==
    /\ pc[r] = "list"
    /\ LET ms == SessionOf(user[r]) IN
       \/ /\ Move(r, IF ms = {} THEN "subnet" ELSE "member", ms, {})
          /\ UNCHANGED excused
       \/ /\ Goto(r, "subnet")
          /\ Excuse(user[r], {"blind"})
    /\ UNCHANGED <<tables, wg, fixed, lock>>

\* GetMember.
Member(r) ==
    /\ pc[r] = "member"
    /\ Goto(r, IF \E m \in cur[r] \cap Live : link[m] # NoMember THEN "touch" ELSE "join")
    /\ UNCHANGED <<tables, wg, fixed, lock, excused>>

\* AddMember's transaction: the mesh is there, and UNIQUE(mesh_id, user_id).
AddMember(r) ==
    /\ \E m \in cur[r] \cap Live :
        /\ link[m] = NoMember
        /\ link' = [link EXCEPT ![m] = NoPeer]
    /\ UNCHANGED <<mesh, subnet, fresh, active>>

Join(r) ==
    /\ pc[r] = "join"
    /\ \/ AddMember(r) /\ Goto(r, "touch") /\ UNCHANGED lock
       \/ Leave(r, "done") /\ UNCHANGED tables
    /\ UNCHANGED <<wg, fixed, excused>>

\* TouchSession, and UpdateSessionOrigin when the address of the user changed.
Touched(r) == fresh \cup (cur[r] \cap Live)

Touch(r) ==
    /\ pc[r] = "touch"
    /\ fresh' = Touched(r)
    /\ Leave(r, "attach")
    /\ UNCHANGED <<mesh, subnet, link, active, wg, fixed, excused>>

\* A subnet picked without looking at the meshes there are.
FirstUnusedMutant(n) == n = 1

FirstUnused(n) ==
    LET unused == Subnets \ {subnet[m] : m \in Live}
    IN  n \in unused /\ \A k \in unused : n <= k

\* Meshes with that subnet which NextAvailableSubnet does not see: about to
\* be inserted, or deleted while a request still works on them.
Unseen(n) ==
    {m \in Reqs : subnet[m] = n /\ (pc[m] = "create" \/ \E q \in Reqs : m \in cur[q])}

\* countryFromIP, which may fail whatever it has cached, and NextAvailableSubnet.
\* Who gets the subnet of an unseen mesh is on record, and so is its owner.
PickSubnet(r) ==
    /\ pc[r] = "subnet"
    /\ \/ /\ \E n \in Subnets :
                /\ FirstUnused(n)
                /\ subnet' = [subnet EXCEPT ![r] = n]
                /\ excused' = [u \in Users |->
                       IF Unseen(n) # {} /\ u \in {user[m] : m \in Unseen(n) \cup {r}}
                       THEN excused[u] \cup {"raced"} ELSE excused[u]]
          /\ Goto(r, "create")
          /\ UNCHANGED lock
       \/ /\ Leave(r, "done")
          /\ UNCHANGED <<subnet, excused>>
    /\ UNCHANGED <<mesh, link, fresh, active, wg, fixed>>

\* CreateSession's INSERT, against the unique index on session owners.
Create(r) ==
    /\ pc[r] = "create"
    /\ IF SessionOf(user[r]) = {}
       THEN /\ mesh' = [mesh EXCEPT ![r] = "live"]
            /\ fresh' = fresh \cup {r}
            /\ Move(r, "enrol", {r}, {})
       ELSE /\ Goto(r, "load")
            /\ UNCHANGED <<mesh, fresh>>
    /\ UNCHANGED <<subnet, link, active, wg, fixed, lock, excused>>

\* The mesh that is in the way, by GetSessionByOwner.
LoadExisting(r) ==
    /\ pc[r] = "load"
    /\ LET ms == SessionOf(user[r]) IN
       IF ms = {} THEN Leave(r, "done")
       ELSE Move(r, "enrol", ms, {}) /\ UNCHANGED lock
    /\ UNCHANGED <<tables, wg, fixed, excused>>

Enrol(r) ==
    /\ pc[r] = "enrol"
    /\ \/ AddMember(r) /\ Leave(r, "attach")
       \/ Goto(r, "rollback") /\ UNCHANGED <<tables, lock>>
    /\ UNCHANGED <<wg, fixed, excused>>

\* A failed activation that leaves the mesh.
UndoneMutant(r) == {}

Undone(r) == cur[r]

\* Delete, cascading to the members.
Deleted(ms) ==
    /\ mesh' = [m \in Reqs |-> IF m \in ms \cap Live THEN "gone" ELSE mesh[m]]
    /\ link' = [m \in Reqs |-> IF m \in ms THEN NoMember ELSE link[m]]
    /\ fresh' = fresh \ ms
    /\ UNCHANGED <<subnet, active>>

Rollback(r) ==
    /\ pc[r] = "rollback"
    /\ Deleted(Undone(r))
    /\ Leave(r, "done")
    /\ UNCHANGED <<wg, fixed, excused>>

(***************************************************************************)
(* ... and attachMemberToActivePeer without it.                            *)
(***************************************************************************)
Attach(r) ==
    /\ pc[r] = "attach"
    /\ LET ps == {p \in active : owner[p] = user[r]} IN
       Move(r, IF ps = {} THEN "done" ELSE "route", cur[r], ps)
    /\ UNCHANGED <<tables, wg, fixed, lock, excused>>

\* AddMeshIP; a peer it fails for, such as one that is not on the interface,
\* is skipped.
AttachRoute(r) ==
    /\ pc[r] = "route"
    /\ \E p \in hand[r], m \in cur[r] :
        \/ /\ p \in device
           /\ routed' = Routed(p, MeshIP(m))
           /\ Move(r, "link", cur[r], {p})
        \/ /\ Move(r, IF hand[r] = {p} THEN "done" ELSE "route",
                     cur[r], hand[r] \ {p})
           /\ UNCHANGED routed
    /\ UNCHANGED <<tables, device, fixed, lock, excused>>

\* UpdateMemberPeer.
LinkTo(r) ==
    /\ link' = [m \in Reqs |-> IF m \in cur[r] /\ link[m] # NoMember
                               THEN CHOOSE p \in hand[r] : TRUE ELSE link[m]]
    /\ UNCHANGED <<mesh, subnet, fresh, active>>

AttachLink(r) ==
    /\ pc[r] = "link"
    /\ LinkTo(r)
    /\ Goto(r, "done")
    /\ UNCHANGED <<wg, fixed, lock, excused>>
-----------------------------------------------------------------------------
(***************************************************************************)
(* DeactivateNode, and DeleteAutoMesh or LeaveMesh by the owner.           *)
(***************************************************************************)
Deactivate(r) ==
    /\ \E l \in {"unlist", "unlist all"} : Begin(r, l, {}, {})
    /\ UNCHANGED <<tables, wg>>

Unlist(r) ==
    /\ pc[r] \in {"unlist", "unlist all"}
    /\ LET ms == SessionOf(user[r])
           l  == IF pc[r] = "unlist" THEN "member of" ELSE "members"
       IN  Move(r, IF ms = {} THEN "done" ELSE l, ms, {})
    /\ UNCHANGED <<tables, wg, fixed, lock, excused>>

\* GetMember or ListMembers.  DeactivateNode skips a mesh it is no member of.
Members(r) ==
    /\ pc[r] \in {"member of", "members"}
    /\ LET ls == {link[m] : m \in cur[r]}
           skip == pc[r] = "member of" /\ ls = {NoMember}
       IN  Move(r, IF skip THEN "done" ELSE "unroute",
                cur[r], ls \ {NoMember, NoPeer})
    /\ UNCHANGED <<tables, wg, fixed, lock, excused>>

\* A node that is switched off without touching the interface.
ToUnrouteMutant(r) == {}

ToUnroute(r) == hand[r] \cap device

Unroute(r) ==
    /\ pc[r] = "unroute"
    /\ routed' = Unrouted(ToUnroute(r))
    /\ Goto(r, "drop")
    /\ UNCHANGED <<tables, device, fixed, lock, excused>>

Drop(r) ==
    /\ pc[r] = "drop"
    /\ Deleted(cur[r])
    /\ Goto(r, "done")
    /\ UNCHANGED <<wg, fixed, lock, excused>>
-----------------------------------------------------------------------------
(***************************************************************************)
(* A VPN connection comes and goes.                                        *)
(***************************************************************************)
\* Connect has inserted its row; attachPeerToMeshSessions is next.  The core
\* that took the key is this node's or another one's.
Connect(r) ==
    /\ \E p \in Peers \ (active \cup device), local \in BOOLEAN :
        /\ owner[p] = user[r]
        /\ active' = active \cup {p}
        /\ device' = IF local THEN device \cup {p} ELSE device
        /\ Begin(r, "sessions", {p}, IF local THEN {} ELSE {"remote"})
    /\ UNCHANGED <<mesh, subnet, link, fresh, routed>>

\* meshRepo.ListByUser and GetMember.
Sessions(r) ==
    /\ pc[r] = "sessions"
    /\ LET ms == {m \in SessionOf(user[r]) : link[m] # NoMember} IN
       Move(r, IF ms = {} THEN "done" ELSE "relink", ms, hand[r])
    /\ UNCHANGED <<tables, wg, fixed, lock, excused>>

Relink(r) ==
    /\ pc[r] = "relink"
    /\ LinkTo(r)
    /\ Goto(r, "reroute")
    /\ UNCHANGED <<wg, fixed, lock, excused>>

Reroute(r) ==
    /\ pc[r] = "reroute"
    /\ \E p \in hand[r], m \in cur[r] :
        routed' = IF p \in device THEN Routed(p, MeshIP(m)) ELSE routed
    /\ Goto(r, "done")
    /\ UNCHANGED <<tables, device, fixed, lock, excused>>

\* Disconnect and the other handlers that close: CallCoreRemovePeer, which
\* may fail.  The peer-cleanup job goes straight to retiring the row.
Disconnect(r) ==
    /\ \E p \in active, l \in {"detach", "retire"} :
        /\ owner[p] = user[r]
        /\ Begin(r, l, {p}, {})
        /\ \/ device' = device \ {p} /\ routed' = Unrouted({p})
           \/ UNCHANGED wg
    /\ UNCHANGED tables

\* detachPeerFromMeshSessions: RemoveMeshIP ...
Detach(r) ==
    /\ pc[r] = "detach"
    /\ routed' = Unrouted(ToUnroute(r))
    /\ Goto(r, "clear")
    /\ UNCHANGED <<tables, device, fixed, lock, excused>>

\* ... and ClearMemberPeerByPeerID.
Clear(r) ==
    /\ pc[r] = "clear"
    /\ link' = [m \in Reqs |-> IF link[m] \in hand[r] THEN NoPeer ELSE link[m]]
    /\ Goto(r, "retire")
    /\ UNCHANGED <<mesh, subnet, fresh, active, wg, fixed, lock, excused>>

Retire(r) ==
    /\ pc[r] = "retire"
    /\ active' = active \ hand[r]
    /\ Goto(r, "done")
    /\ UNCHANGED <<mesh, subnet, link, fresh, wg, fixed, lock, excused>>
-----------------------------------------------------------------------------
(***************************************************************************)
(* A statement or a call of the manager fails, above all because the       *)
(* client has gone and the request's context is cancelled.                 *)
(***************************************************************************)
\* Errors the code drops, going on to the next label with its work half done.
Dropped ==
    {<<"link", "done">>, <<"member of", "drop">>, <<"members", "drop">>, <<"unroute", "drop">>,
     <<"drop", "done">>, <<"sessions", "done">>, <<"relink", "reroute">>, <<"reroute", "done">>,
     <<"detach", "clear">>, <<"clear", "retire">>}

StatementFails(r) ==
    /\ \/ pc[r] \in {"create", "load"} /\ Leave(r, "done") /\ UNCHANGED excused
       \/ pc[r] = "member" /\ Goto(r, "join") /\ UNCHANGED <<lock, excused>>
       \/ pc[r] = "touch" /\ Leave(r, "attach") /\ UNCHANGED excused
       \/ pc[r] = "rollback" /\ Leave(r, "done") /\ Excuse(user[r], {"kept"})
       \/ /\ pc[r] \in {"attach", "unlist", "unlist all", "member of", "retire"}
          /\ Goto(r, "done") /\ UNCHANGED <<lock, excused>>
       \/ /\ \E l \in {d[2] : d \in Dropped} : <<pc[r], l>> \in Dropped /\ Goto(r, l)
          /\ Excuse(user[r], {"cut"}) /\ UNCHANGED lock
    /\ UNCHANGED <<tables, wg, fixed>>

\* An attempt of a call of the core that was given up runs late (CoreClient.tla):
\* the key is put on this node's interface, or taken from it.
LateAttempt(p) ==
    /\ owner[p] \in LateUsers
    /\ \/ p \in device /\ device' = device \ {p} /\ routed' = Unrouted({p})
       \/ p \notin device /\ device' = device \cup {p} /\ UNCHANGED routed
    /\ Excuse(owner[p], {"late"})
    /\ UNCHANGED <<tables, fixed, lock, pc, cur, hand>>
-----------------------------------------------------------------------------
\* Two hours without a heartbeat, and the session-mesh-cleanup job, which
\* tells no interface.
Ages(m) ==
    /\ m \in fresh
    /\ fresh' = fresh \ {m}
    /\ UNCHANGED <<mesh, subnet, link, active, wg, fixed, lock, pc, cur, hand, excused>>

DeleteStaleSessions ==
    /\ Live \ fresh # {}
    /\ Deleted(Live \ fresh)
    /\ excused' = [u \in Users |-> IF SessionOf(u) \ fresh = {} THEN excused[u]
                                   ELSE excused[u] \cup {"reclaimed"}]
    /\ UNCHANGED <<wg, fixed, lock, pc, cur, hand>>

Step(r) ==
    \/ Lock(r) \/ List(r) \/ Member(r) \/ Join(r) \/ Touch(r)
    \/ PickSubnet(r) \/ Create(r) \/ LoadExisting(r) \/ Enrol(r) \/ Rollback(r)
    \/ Attach(r) \/ AttachRoute(r) \/ AttachLink(r)
    \/ Unlist(r) \/ Members(r) \/ Unroute(r) \/ Drop(r)
    \/ Sessions(r) \/ Relink(r) \/ Reroute(r)
    \/ Detach(r) \/ Clear(r) \/ Retire(r)

Next ==
    \/ \E r \in Reqs :
        \/ Activate(r) \/ Deactivate(r) \/ Connect(r) \/ Disconnect(r)
        \/ Step(r) \/ StatementFails(r) \/ Ages(r)
    \/ \E p \in Peers : LateAttempt(p)
    \/ DeleteStaleSessions

Spec == Init /\ [][Next]_vars
-----------------------------------------------------------------------------
\* Types of the tables, the interface and the requests.
TypeOK ==
    /\ owner \in [Peers -> Users] /\ user \in [Reqs -> Users]
    /\ mesh \in [Reqs -> {"none", "live", "gone"}]
    /\ subnet \in [Reqs -> 0 .. MaxSubnet]
    /\ link \in [Reqs -> Peers \cup {NoMember, NoPeer}]
    /\ fresh \subseteq Live
    /\ active \subseteq Peers /\ device \subseteq Peers
    /\ routed \in [Peers -> 0 .. MaxSubnet]
    /\ lock \in [Users -> SUBSET Reqs]
    /\ cur \in [Reqs -> SUBSET Reqs] /\ hand \in [Reqs -> SUBSET Peers]
    /\ excused \in [Users -> SUBSET {"overlap", "blind", "remote", "reclaimed", "raced",
                                     "kept", "cut", "late"}]

(***************************************************************************)
(* The rollback of ensureAutoMesh (mesh_handler.go:588) only takes back    *)
(* what the same call created: it never deletes a mesh its user is a       *)
(* member of, which CreateSession may have found instead of created.  The  *)
(* lock makes it so; a failed ListByUser unmakes it.                       *)
(***************************************************************************)
RollbackSparesMembers ==
    [][\A r \in Reqs :
        pc[r] = "rollback" /\ pc'[r] = "done" /\ "blind" \notin excused[user[r]] =>
            \A m \in Live : mesh'[m] # "live" => link[m] = NoMember]_vars

(***************************************************************************)
(* No mesh is left without its member when its owner's requests are over,  *)
(* however activations cross with deactivations and clean-ups and whatever *)
(* else fails, unless the rollback itself did (mesh_handler.go:588).       *)
(***************************************************************************)
MeshHasMember ==
    \A m \in Live :
        InFlight(user[m]) = {} /\ "kept" \notin excused[user[m]] => link[m] # NoMember

(***************************************************************************)
(* A mesh address is routed only to the connection that its owner's        *)
(* membership names: deleting a mesh or closing a connection leaves no     *)
(* route behind.  For a user whose requests came one at a time, on this    *)
(* node only, whose mesh the clean-up job has not taken, and with whom no  *)
(* error was dropped and no subnet shared; whatever happens to others.     *)
(***************************************************************************)
NoStrayRoute ==
    \A p \in Peers :
        routed[p] # 0 /\ excused[owner[p]] = {} /\ InFlight(owner[p]) = {} =>
            \E m \in SessionOf(owner[p]) : MeshIP(m) = routed[p] /\ link[m] = p

(***************************************************************************)
(* A membership that names a connection on this node is served: the mesh   *)
(* address is routed to it, and nobody else's activation, connection or    *)
(* clean-up has taken it away, whatever has gone wrong with the others.    *)
(***************************************************************************)
MemberRouted ==
    \A m \in Live :
        InFlight(user[m]) = {} /\ excused[user[m]] = {} /\ link[m] \in device =>
            routed[link[m]] = MeshIP(m)
=============================================================================
