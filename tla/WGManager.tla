----------------------------- MODULE WGManager -----------------------------
(***************************************************************************)
(* internal/wg/manager.go: the WireGuard manager of one VPN node, from     *)
(* process start to crash, with the kernel interface and the saved         *)
(* <interface>.conf it keeps in step with its memory.                      *)
(*                                                                         *)
(* Every method that changes state holds m.mu for its whole duration, so   *)
(* only two points of a method are told apart: the moment the kernel and   *)
(* the maps have been changed, and the moment persistConfig is through.    *)
(* The process may die anywhere; the kernel interface may or may not       *)
(* outlive it.  Start-up is one action per step that can fail.             *)
(*                                                                         *)
(* The address pool is the abstract pool of AddressPool.tla, which         *)
(* IPPool.tla implements: the set of addresses in use, of which Allocate   *)
(* takes the smallest free one.                                            *)
(***************************************************************************)
EXTENDS Subnet

CONSTANTS Keys,         \* WireGuard public keys of clients
          MeshIPs,      \* mesh overlay addresses (10.200.0.0/16)
          NoMesh        \* "no mesh address"

ASSUME NoMeshAssumption == NoMesh \notin MeshIPs

VARIABLES iface,        \* the interface exists in the kernel
          dev,          \* the kernel's peers and their AllowedIPs
          saved,        \* <interface>.conf exists
          conf,         \* the peers it holds
          pc,           \* where the process is
          pool,         \* m.pool: offsets in use
          peerIPs,      \* m.peerIPs: VPN address of a key, 0 when it has none
          meshIPs,      \* m.meshIPs
          answering,    \* whom the add or remove now in persistConfig is about
          acked,        \* what the last answered call promised about a key
          stale,        \* persistConfig has failed since it last succeeded
          excused,      \* the start-up faults that have happened so far
          sighted       \* this process has read the device when it started

vars == <<iface, dev, saved, conf, pc, pool, peerIPs, meshIPs, answering, acked,
          stale, excused, sighted>>
memory == <<pool, peerIPs, meshIPs>>
ghosts == <<acked, stale, excused, sighted>>

NoIP == 0
Unsure == 1             \* a call about the key is under way, or was cut off

Peer   == [on : BOOLEAN, vpn : SUBSET Usable, mesh : SUBSET MeshIPs]
Absent == [on |-> FALSE, vpn |-> {}, mesh |-> {}]
NoPeers == [k \in Keys |-> Absent]
-----------------------------------------------------------------------------
(***************************************************************************)
(* The kernel (external): an address belongs to at most one peer, giving   *)
(* it to one takes it from the others.                                     *)
(***************************************************************************)
KernelSet(k, p) ==
    [j \in Keys |->
        IF j = k THEN p
        ELSE [on |-> dev[j].on, vpn |-> dev[j].vpn \ p.vpn,
              mesh |-> dev[j].mesh \ p.mesh]]

\* A PeerConfig without ReplaceAllowedIPs.
KernelAdd(k, ip) ==
    KernelSet(k, [on |-> TRUE, vpn |-> dev[k].vpn \cup {ip},
                  mesh |-> dev[k].mesh])

\* A PeerConfig with UpdateOnly and ReplaceAllowedIPs.
KernelReplace(k, ip, mesh) ==
    IF dev[k].on
    THEN KernelSet(k, [on |-> TRUE, vpn |-> {ip}, mesh |-> mesh])
    ELSE dev

KernelRemove(k) == [dev EXCEPT ![k] = Absent]
-----------------------------------------------------------------------------
Init ==
    /\ iface = FALSE /\ dev = NoPeers
    /\ saved = FALSE /\ conf = NoPeers
    /\ pc = "down"
    /\ pool = Reserved
    /\ peerIPs = [k \in Keys |-> NoIP]
    /\ meshIPs = [k \in Keys |-> NoMesh]
    /\ answering = {}
    /\ acked = [k \in Keys |-> NoIP]
    /\ stale = FALSE
    /\ excused = {} /\ sighted = FALSE

(***************************************************************************)
(* Start-up: NewManager, ensureInterface.                                  *)
(***************************************************************************)
\* The interface is there: it is taken as it is.
StartExisting ==
    /\ pc = "down" /\ iface
    /\ pc' = "load"
    /\ UNCHANGED <<iface, dev, saved, conf, answering, memory, ghosts>>

\* createNetworkInterface's "ip link add" succeeds.
CreateInterface ==
    /\ pc = "down" /\ ~iface
    /\ iface' = TRUE /\ dev' = NoPeers
    /\ pc' = "created"
    /\ UNCHANGED <<saved, conf, answering, memory, ghosts>>

\* restoreFromConfig that drops the saved peers.
RestoredMutant == NoPeers

Restored == conf

\* restoreFromConfig.
Restore ==
    /\ pc = "created" /\ saved
    /\ dev' = Restored
    /\ pc' = "load"
    /\ excused' = IF stale THEN excused \cup {"stale"} ELSE excused
    /\ UNCHANGED <<iface, saved, conf, answering, memory, acked, stale, sighted>>

(***************************************************************************)
(* configureNewInterface: there is no saved file, or it cannot be read or  *)
(* has no key.  It ends in persistConfig, which overwrites the saved file. *)
(***************************************************************************)
ConfigureNew ==
    /\ pc = "created"
    /\ pc' = "load"
    /\ excused' = excused \cup (IF saved THEN {"unreadable"} ELSE {})
                          \cup (IF stale THEN {"stale"} ELSE {})
    /\ \/ saved' = TRUE /\ conf' = dev /\ stale' = FALSE
       \/ UNCHANGED <<saved, conf, stale>>
    /\ UNCHANGED <<iface, dev, answering, memory, acked, sighted>>

\* Addresses on the device that are not reserved in the pool.
LoadedPoolMutant == Reserved

LoadedPool == Reserved \cup UNION {dev[k].vpn : k \in Keys}

\* Mesh addresses on the device that are taken for nothing.
LoadedMeshMutant(f) == \A k \in Keys : f[k] = NoMesh

\* The value a map entry gets when the addresses in S are assigned to it one
\* after the other, in an order the kernel chooses.
LastOf(S, none) == IF S = {} THEN {none} ELSE S

LoadedMesh(f) == \A k \in Keys : f[k] \in LastOf(dev[k].mesh, NoMesh)

\* loadExistingPeers.
Load ==
    /\ pc = "load"
    /\ pc' = "up"
    /\ pool' = LoadedPool
    /\ peerIPs' \in {f \in [Keys -> Usable \cup {NoIP}] :
                        \A k \in Keys : f[k] \in LastOf(dev[k].vpn, NoIP)}
    /\ meshIPs' \in {f \in [Keys -> MeshIPs \cup {NoMesh}] : LoadedMesh(f)}
    /\ sighted' = TRUE
    /\ UNCHANGED <<iface, dev, saved, conf, answering, acked, stale, excused>>

\* loadExistingPeers fails; NewManager only warns.
LoadFails ==
    /\ pc = "load"
    /\ pc' = "up"
    /\ excused' = excused \cup {"blind"}
    /\ UNCHANGED <<iface, dev, saved, conf, answering, memory, acked, stale, sighted>>

(***************************************************************************)
(* The process dies, or start-up returns an error and main exits (a later  *)
(* "ip", iptables or ConfigureDevice step after the interface has been     *)
(* created).  Its memory is gone; what it did to the kernel stays.         *)
(***************************************************************************)
Exit ==
    /\ pc # "down"
    /\ pc' = "down"
    /\ pool' = Reserved
    /\ peerIPs' = [k \in Keys |-> NoIP]
    /\ meshIPs' = [k \in Keys |-> NoMesh]
    /\ answering' = {}
    /\ excused' = IF pc = "created" THEN excused \cup {"aborted"} ELSE excused
    /\ sighted' = FALSE
    /\ UNCHANGED <<iface, dev, saved, conf, acked, stale>>

\* The container or the host goes, and the interface with it (external).
InterfaceLost ==
    /\ pc = "down" /\ iface
    /\ iface' = FALSE /\ dev' = NoPeers
    /\ UNCHANGED <<saved, conf, pc, answering, memory, ghosts>>
-----------------------------------------------------------------------------
(***************************************************************************)
(* The methods.  A failing ConfigureDevice changes nothing (AddPeer gives  *)
(* the address back), so it needs no action.                               *)
(***************************************************************************)
\* pool.Allocate.
Grantable(o) == IsLowestFree(o, pool)

AddPeer(k) ==
    /\ pc = "up"
    /\ peerIPs[k] = NoIP
    /\ \E o \in Offsets :
        /\ Grantable(o)
        /\ pool' = pool \cup {o}
        /\ dev' = KernelAdd(k, o)
        /\ peerIPs' = [peerIPs EXCEPT ![k] = o]
    /\ pc' = "persist" /\ answering' = {k}
    /\ acked' = [acked EXCEPT ![k] = Unsure]
    /\ UNCHANGED <<iface, saved, conf, meshIPs, stale, excused, sighted>>

\* RemovePeer that forgets to return the address.
ReleasedMutant(k) == pool

\* pool.Release of the key's address; nothing when the key has none.
Released(k) == pool \ ({peerIPs[k]} \ {NoIP})

\* RemovePeer that only forgets the peer.
DeviceWithoutMutant(k) == dev

DeviceWithout(k) == KernelRemove(k)

RemovePeer(k) ==
    /\ pc = "up"
    /\ dev' = DeviceWithout(k)
    /\ pool' = Released(k)
    /\ peerIPs' = [peerIPs EXCEPT ![k] = NoIP]
    /\ pc' = "persist" /\ answering' = {k}
    /\ acked' = [acked EXCEPT ![k] = Unsure]
    /\ UNCHANGED <<iface, saved, conf, meshIPs, stale, excused, sighted>>

UpdatePeer(k) ==
    /\ pc = "up"
    /\ peerIPs[k] # NoIP
    /\ dev' = IF dev[k].on THEN KernelAdd(k, peerIPs[k]) ELSE dev
    /\ pc' = "persist" /\ answering' = {}
    /\ UNCHANGED <<iface, saved, conf, memory, ghosts>>

AddMeshIP(k, m) ==
    /\ pc = "up"
    /\ peerIPs[k] # NoIP
    /\ dev' = KernelReplace(k, peerIPs[k], {m})
    /\ meshIPs' = [meshIPs EXCEPT ![k] = m]
    /\ pc' = "persist" /\ answering' = {}
    /\ UNCHANGED <<iface, saved, conf, pool, peerIPs, ghosts>>

\* Without a VPN address it fails and keeps the mesh entry.
RemoveMeshIP(k) ==
    /\ pc = "up"
    /\ meshIPs[k] # NoMesh
    /\ peerIPs[k] # NoIP
    /\ dev' = KernelReplace(k, peerIPs[k], {})
    /\ meshIPs' = [meshIPs EXCEPT ![k] = NoMesh]
    /\ pc' = "persist" /\ answering' = {}
    /\ UNCHANGED <<iface, saved, conf, pool, peerIPs, ghosts>>

\* The method returns success to its caller.
Answered ==
    /\ pc' = "up" /\ answering' = {}
    /\ acked' = [k \in Keys |->
                    IF k \in answering THEN peerIPs[k] ELSE acked[k]]

\* persistConfig writes what it reads from the device.
Written == dev

Persist ==
    /\ pc = "persist"
    /\ saved' = TRUE /\ conf' = Written
    /\ stale' = FALSE
    /\ Answered
    /\ UNCHANGED <<iface, dev, memory, excused, sighted>>

\* An error inside persistConfig is logged; the method still succeeds.
PersistFails ==
    /\ pc = "persist"
    /\ stale' = TRUE
    /\ Answered
    /\ UNCHANGED <<iface, dev, saved, conf, memory, excused, sighted>>
-----------------------------------------------------------------------------
Next ==
    \/ StartExisting \/ CreateInterface \/ Restore
    \/ ConfigureNew \/ Load \/ LoadFails \/ Exit \/ InterfaceLost
    \/ Persist \/ PersistFails
    \/ \E k \in Keys :
        \/ AddPeer(k) \/ RemovePeer(k) \/ UpdatePeer(k) \/ RemoveMeshIP(k)
        \/ \E m \in MeshIPs : AddMeshIP(k, m)

Spec == Init /\ [][Next]_vars
-----------------------------------------------------------------------------
\* Types of the manager's fields, the kernel's and the saved peers.
TypeOK ==
    /\ iface \in BOOLEAN /\ saved \in BOOLEAN /\ stale \in BOOLEAN
    /\ dev \in [Keys -> Peer] /\ conf \in [Keys -> Peer]
    /\ pc \in {"down", "created", "load", "up", "persist"}
    /\ pool \in SUBSET Offsets
    /\ peerIPs \in [Keys -> Usable \cup {NoIP}]
    /\ meshIPs \in [Keys -> MeshIPs \cup {NoMesh}]
    /\ answering \in SUBSET Keys
    /\ acked \in [Keys -> Usable \cup {NoIP, Unsure}]
    /\ excused \in SUBSET {"aborted", "stale", "unreadable", "blind"}
    /\ sighted \in BOOLEAN

Running == pc \in {"up", "persist"}

(***************************************************************************)
(* No call gives a client an address that the kernel routes to another:    *)
(* AddPeer allocates from a pool that loadExistingPeers (manager.go:388)   *)
(* has rebuilt from the device, whatever faults and blind starts left      *)
(* there.  For a process whose own start has read the device; one that     *)
(* could not (manager.go:75) starts with an empty pool and does hand such  *)
(* addresses out.                                                          *)
(***************************************************************************)
NoAddressTaken ==
    [][Running /\ sighted =>
        \A j, k \in Keys : j # k => dev[j].vpn \cap dev'[k].vpn = {}]_vars

(***************************************************************************)
(* No address leaks: as long as no start-up failed to read the device, the *)
(* pool holds the addresses of the peers and nothing else, across restarts *)
(* (RemovePeer's Release, manager.go:467, and the ignored Reserve errors). *)
(***************************************************************************)
PoolMatchesPeers ==
    Running /\ "blind" \notin excused =>
        pool = Reserved \cup ({peerIPs[k] : k \in Keys} \ {NoIP})

(***************************************************************************)
(* A client routed by the kernel is known to the manager with exactly that *)
(* address and the other way round, so a removal reaches every routed      *)
(* client and AddPeer refuses exactly the keys that are routed.            *)
(***************************************************************************)
MemoryMatchesDevice ==
    Running /\ "blind" \notin excused =>
        \A k \in Keys :
            /\ dev[k].on <=> peerIPs[k] # NoIP
            /\ dev[k].vpn = {peerIPs[k]} \ {NoIP}

(***************************************************************************)
(* Every mesh address the kernel routes is recorded: otherwise             *)
(* RemoveMeshIP (manager.go:712) answers nil and leaves the address routed.*)
(***************************************************************************)
MeshKnown ==
    Running /\ "blind" \notin excused =>
        \A k \in Keys : dev[k].mesh \subseteq {meshIPs[k]}

(***************************************************************************)
(* What a client was told stays true: after any crashes and restarts, a    *)
(* key whose AddPeer was answered is routed with the same address, and a   *)
(* key whose RemovePeer was answered is not routed, provided start-up read *)
(* the device, did not break off, and restored a file that was up to date. *)
(***************************************************************************)
AnswersSurviveRestart ==
    pc = "up" /\ excused = {} =>
        \A k \in Keys : acked[k] # Unsure =>
            /\ peerIPs[k] = acked[k]
            /\ dev[k].on <=> acked[k] # NoIP
            /\ dev[k].vpn = {acked[k]} \ {NoIP}
=============================================================================
