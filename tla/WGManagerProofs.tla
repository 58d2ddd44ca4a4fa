-------------------------- MODULE WGManagerProofs --------------------------
(***************************************************************************)
(* Proofs about WGManager for every set of keys, of mesh addresses and     *)
(* every subnet size.                                                      *)
(*                                                                         *)
(* Shared: what holds whatever has failed; the kernel and the saved file   *)
(* never give one address to two peers, so neither does the memory rebuilt *)
(* from them.                                                              *)
(***************************************************************************)
EXTENDS WGManager, TLAPS

\* No address belongs to two peers of the table d.
Exclusive(d) == \A j, k \in Keys : j # k => d[j].vpn \cap d[k].vpn = {}

\* Before loadExistingPeers the maps are empty and the pool is new.
Blank ==
    /\ pool = Reserved
    /\ peerIPs = [k \in Keys |-> NoIP]
    /\ meshIPs = [k \in Keys |-> NoMesh]

\* In memory no two clients have one address, and none has a free one.
MapsExclusive ==
    /\ \A j, k \in Keys : peerIPs[j] = peerIPs[k] /\ j # k => peerIPs[k] = NoIP
    /\ \A k \in Keys : peerIPs[k] # NoIP => peerIPs[k] \in pool

Shared ==
    /\ TypeOK
    /\ Exclusive(dev) /\ Exclusive(conf)
    /\ ~Running => Blank /\ ~sighted
    /\ MapsExclusive

\* Usable addresses are proper offsets, different from the two markers.
LEMMA UsableFacts ==
    /\ Usable \subseteq Offsets
    /\ NoIP \notin Usable /\ Unsure \notin Usable
    /\ Reserved \subseteq Offsets
BY MaxHostAssumption DEF Usable, Offsets, NoIP, Unsure, Reserved

\* A table without peers has the right type and shares nothing.
LEMMA NoPeersFacts == NoPeers \in [Keys -> Peer] /\ Exclusive(NoPeers)
BY DEF NoPeers, Peer, Absent, Exclusive

\* What the kernel's assignment does to the table of peers.
LEMMA KernelSetFacts ==
    ASSUME TypeOK, Exclusive(dev), NEW k \in Keys, NEW p \in Peer
    PROVE  KernelSet(k, p) \in [Keys -> Peer] /\ Exclusive(KernelSet(k, p))
<1>1. KernelSet(k, p) \in [Keys -> Peer]
  BY DEF KernelSet, TypeOK, Peer
<1>2. Exclusive(KernelSet(k, p))
  BY DEF KernelSet, TypeOK, Peer, Exclusive
<1> QED
  BY <1>1, <1>2

\* New device tables written by the methods.
LEMMA DeviceFacts ==
    ASSUME TypeOK, Exclusive(dev), NEW k \in Keys, NEW ip \in Usable,
           NEW mesh \in SUBSET MeshIPs
    PROVE  /\ KernelAdd(k, ip) \in [Keys -> Peer]
           /\ Exclusive(KernelAdd(k, ip))
           /\ KernelReplace(k, ip, mesh) \in [Keys -> Peer]
           /\ Exclusive(KernelReplace(k, ip, mesh))
           /\ KernelRemove(k) \in [Keys -> Peer]
           /\ Exclusive(KernelRemove(k))
<1>1. dev[k] \in Peer
  BY DEF TypeOK
<1>2. [on |-> TRUE, vpn |-> dev[k].vpn \cup {ip}, mesh |-> dev[k].mesh] \in Peer
  BY <1>1 DEF Peer
<1>3. [on |-> TRUE, vpn |-> {ip}, mesh |-> mesh] \in Peer
  BY DEF Peer
<1>4. KernelAdd(k, ip) \in [Keys -> Peer] /\ Exclusive(KernelAdd(k, ip))
  BY <1>2, KernelSetFacts DEF KernelAdd
<1>5. /\ KernelReplace(k, ip, mesh) \in [Keys -> Peer]
      /\ Exclusive(KernelReplace(k, ip, mesh))
  BY <1>3, KernelSetFacts DEF KernelReplace, TypeOK
<1>6. KernelRemove(k) \in [Keys -> Peer] /\ Exclusive(KernelRemove(k))
  BY DEF KernelRemove, TypeOK, Peer, Absent, Exclusive
<1> QED
  BY <1>4, <1>5, <1>6

\* A node that never ran shares nothing.
LEMMA InitShared == Init => Shared
<1> SUFFICES ASSUME Init PROVE Shared
  OBVIOUS
<1>1. TypeOK
  BY UsableFacts, NoPeersFacts DEF Init, TypeOK
<1> QED
  BY <1>1, NoPeersFacts DEF Init, Shared, Blank, Running, MapsExclusive

\* Every step of the manager, the kernel and the environment keeps Shared.
LEMMA NextShared == Shared /\ [Next]_vars => Shared'
<1> SUFFICES ASSUME Shared, [Next]_vars PROVE Shared'
  OBVIOUS
<1> USE UsableFacts
<1>1. CASE StartExisting
  BY <1>1 DEF StartExisting, Shared, TypeOK, Blank, Running, MapsExclusive,
              memory, ghosts, Exclusive
<1>2. CASE CreateInterface
  BY <1>2, NoPeersFacts
     DEF CreateInterface, Shared, TypeOK, Blank, Running, MapsExclusive,
         memory, ghosts, Exclusive
<1>3. CASE Restore
  BY <1>3 DEF Restore, Restored, Shared, TypeOK, Blank, Running,
              MapsExclusive, memory, Exclusive
<1>4. CASE ConfigureNew
  <2>1. /\ iface' = iface /\ dev' = dev /\ answering' = answering
        /\ pool' = pool /\ peerIPs' = peerIPs /\ meshIPs' = meshIPs
        /\ acked' = acked /\ pc' = "load" /\ pc = "created" /\ sighted' = sighted
        /\ saved' \in BOOLEAN /\ stale' \in BOOLEAN
        /\ conf' = dev \/ conf' = conf
        /\ excused' \in SUBSET {"aborted", "stale", "unreadable", "blind"}
    BY <1>4 DEF ConfigureNew, memory, Shared, TypeOK
  <2>2. TypeOK'
    BY <2>1 DEF Shared, TypeOK
  <2> QED
    BY <2>1, <2>2 DEF Shared, Blank, Running, MapsExclusive, Exclusive
<1>5. CASE Load
  <2>1. /\ peerIPs' \in [Keys -> Usable \cup {NoIP}]
        /\ \A k \in Keys : peerIPs'[k] \in LastOf(dev[k].vpn, NoIP)
        /\ pool' = LoadedPool
        /\ meshIPs' \in [Keys -> MeshIPs \cup {NoMesh}]
        /\ pc' = "up" /\ dev' = dev /\ conf' = conf /\ saved' = saved
        /\ iface' = iface /\ answering' = answering /\ acked' = acked
        /\ stale' = stale /\ excused' = excused /\ sighted' = TRUE
    BY <1>5 DEF Load
  <2>2. LoadedPool \in SUBSET Offsets
    BY DEF LoadedPool, Shared, TypeOK, Peer
  <2>3. TypeOK'
    BY <2>1, <2>2 DEF Shared, TypeOK
  <2>4. \A k \in Keys : peerIPs'[k] # NoIP => peerIPs'[k] \in dev[k].vpn
    BY <2>1 DEF LastOf
  <2>5. MapsExclusive'
    BY <2>1, <2>4 DEF Shared, Exclusive, MapsExclusive, LoadedPool
  <2> QED
    BY <2>1, <2>3, <2>5 DEF Shared, Exclusive, Running
<1>6. CASE LoadFails
  BY <1>6 DEF LoadFails, Shared, TypeOK, Running, MapsExclusive, memory,
              Exclusive
<1>7. CASE Exit
  BY <1>7 DEF Exit, Shared, TypeOK, Blank, Running, MapsExclusive,
              Exclusive
<1>8. CASE InterfaceLost
  BY <1>8, NoPeersFacts
     DEF InterfaceLost, Shared, TypeOK, Blank, Running, MapsExclusive,
         memory, ghosts, Exclusive
<1>9. ASSUME Persist \/ PersistFails PROVE Shared'
  <2>1. /\ iface' = iface /\ dev' = dev /\ excused' = excused /\ sighted' = sighted
        /\ pool' = pool /\ peerIPs' = peerIPs /\ meshIPs' = meshIPs
        /\ pc' = "up" /\ pc = "persist" /\ answering' = {}
        /\ acked' = [k \in Keys |->
                       IF k \in answering THEN peerIPs[k] ELSE acked[k]]
        /\ saved' \in BOOLEAN /\ stale' \in BOOLEAN
        /\ conf' = dev \/ conf' = conf
    BY <1>9 DEF Persist, PersistFails, Answered, Written, memory, Shared,
                TypeOK
  <2>2. TypeOK'
    BY <2>1 DEF Shared, TypeOK
  <2> QED
    BY <2>1, <2>2 DEF Shared, Running, MapsExclusive, Exclusive
<1>10. ASSUME NEW k \in Keys, AddPeer(k) PROVE Shared'
  <2>1. PICK o \in Offsets :
            /\ o \in Usable /\ o \notin pool
            /\ pool' = pool \cup {o}
            /\ dev' = KernelAdd(k, o)
            /\ peerIPs' = [peerIPs EXCEPT ![k] = o]
    BY <1>10 DEF AddPeer, Grantable, IsLowestFree, Free
  <2>2. /\ pc' = "persist" /\ answering' = {k}
        /\ acked' = [acked EXCEPT ![k] = Unsure]
        /\ UNCHANGED <<iface, saved, conf, meshIPs, stale, excused, sighted>>
    BY <1>10 DEF AddPeer
  <2>3. TypeOK'
    BY <2>1, <2>2, DeviceFacts DEF Shared, TypeOK
  <2>4. MapsExclusive'
    BY <2>1 DEF Shared, TypeOK, MapsExclusive
  <2> QED
    BY <2>1, <2>2, <2>3, <2>4, DeviceFacts DEF Shared, Running, Exclusive
<1>11. ASSUME NEW k \in Keys, RemovePeer(k) PROVE Shared'
  <2>1. /\ pc' = "persist" /\ answering' = {k} /\ dev' = KernelRemove(k)
        /\ pool' = pool \ ({peerIPs[k]} \ {NoIP})
        /\ peerIPs' = [peerIPs EXCEPT ![k] = NoIP]
        /\ acked' = [acked EXCEPT ![k] = Unsure]
        /\ UNCHANGED <<iface, saved, conf, meshIPs, stale, excused, sighted>>
    BY <1>11 DEF RemovePeer, DeviceWithout, Released
  <2>2. KernelRemove(k) \in [Keys -> Peer] /\ Exclusive(KernelRemove(k))
    BY DEF KernelRemove, Shared, TypeOK, Peer, Absent, Exclusive
  <2>3. TypeOK'
    BY <2>1, <2>2 DEF Shared, TypeOK
  <2>4. MapsExclusive'
    BY <2>1 DEF Shared, TypeOK, MapsExclusive
  <2> QED
    BY <2>1, <2>2, <2>3, <2>4 DEF Shared, Running, Exclusive
<1>12. ASSUME NEW k \in Keys, UpdatePeer(k) PROVE Shared'
  <2>1. /\ peerIPs[k] \in Usable /\ pc' = "persist" /\ answering' = {}
        /\ dev' = KernelAdd(k, peerIPs[k]) \/ dev' = dev
        /\ UNCHANGED <<iface, saved, conf, pool, peerIPs, meshIPs, acked,
                       stale, excused, sighted>>
    BY <1>12 DEF UpdatePeer, Shared, TypeOK, memory, ghosts
  <2>2. dev' \in [Keys -> Peer] /\ Exclusive(dev')
    BY <2>1, DeviceFacts, SMTT(60) DEF Shared, TypeOK
  <2>3. TypeOK'
    BY <2>1, <2>2 DEF Shared, TypeOK
  <2> QED
    BY <2>1, <2>2, <2>3 DEF Shared, Running, MapsExclusive, Exclusive
<1>13. ASSUME NEW k \in Keys, NEW m \in MeshIPs, AddMeshIP(k, m)
       PROVE  Shared'
  <2>1. /\ peerIPs[k] \in Usable /\ pc' = "persist" /\ answering' = {}
        /\ dev' = KernelReplace(k, peerIPs[k], {m})
        /\ meshIPs' = [meshIPs EXCEPT ![k] = m]
        /\ UNCHANGED <<iface, saved, conf, pool, peerIPs, acked, stale,
                       excused, sighted>>
    BY <1>13 DEF AddMeshIP, Shared, TypeOK, ghosts
  <2>2. dev' \in [Keys -> Peer] /\ Exclusive(dev')
    BY <2>1, DeviceFacts DEF Shared
  <2>3. TypeOK'
    BY <2>1, <2>2 DEF Shared, TypeOK
  <2> QED
    BY <2>1, <2>2, <2>3 DEF Shared, Running, MapsExclusive, Exclusive
<1>14. ASSUME NEW k \in Keys, RemoveMeshIP(k) PROVE Shared'
  <2>1. /\ peerIPs[k] \in Usable /\ pc' = "persist" /\ answering' = {}
        /\ dev' = KernelReplace(k, peerIPs[k], {})
        /\ meshIPs' = [meshIPs EXCEPT ![k] = NoMesh]
        /\ UNCHANGED <<iface, saved, conf, pool, peerIPs, acked, stale,
                       excused, sighted>>
    BY <1>14 DEF RemoveMeshIP, Shared, TypeOK, ghosts
  <2>2. dev' \in [Keys -> Peer] /\ Exclusive(dev')
    BY <2>1, DeviceFacts DEF Shared
  <2>3. TypeOK'
    BY <2>1, <2>2 DEF Shared, TypeOK
  <2> QED
    BY <2>1, <2>2, <2>3 DEF Shared, Running, MapsExclusive, Exclusive
<1>15. CASE UNCHANGED vars
  BY <1>15 DEF vars, Shared, TypeOK, Blank, Running, MapsExclusive,
               Exclusive
<1> QED
  BY <1>1, <1>2, <1>3, <1>4, <1>5, <1>6, <1>7, <1>8, <1>9, <1>10, <1>11,
     <1>12, <1>13, <1>14, <1>15 DEF Next

\* Hence Shared holds in every reachable state.
LEMMA SharedAlways == Spec => []Shared
BY InitShared, NextShared, PTL DEF Spec

(***************************************************************************)
(* The manager's fields, the kernel's table and the saved file keep their  *)
(* types through every start, method, failure and crash.                   *)
(***************************************************************************)
THEOREM ManagerTypeOK == Spec => []TypeOK
<1>1. Shared => TypeOK
  BY DEF Shared
<1> QED
  BY SharedAlways, <1>1, PTL

-----------------------------------------------------------------------------
(***************************************************************************)
(* Known: what holds as long as no start-up failed to read the device.     *)
(* The tables in the kernel and on disk are tidy, i.e. fit for rebuilding  *)
(* the maps without a choice, and the maps are what they would rebuild.    *)
(***************************************************************************)
Tidy(d) ==
    \A k \in Keys :
        /\ d[k].on <=> d[k].vpn # {}
        /\ \A a, b \in d[k].vpn : a = b
        /\ \A a, b \in d[k].mesh : a = b

NeverBlind == "blind" \notin excused

Known ==
    /\ NeverBlind => Tidy(dev) /\ Tidy(conf)
    /\ PoolMatchesPeers
    /\ MemoryMatchesDevice
    /\ MeshKnown

\* A table without peers is tidy.
LEMMA NoPeersTidy == Tidy(NoPeers)
BY DEF Tidy, NoPeers, Absent

\* A table that agrees with the maps is tidy.
LEMMA AgreeingIsTidy ==
    ASSUME Shared, Running, NeverBlind, MemoryMatchesDevice, MeshKnown
    PROVE  Tidy(dev)
BY DEF Shared, Running, NeverBlind, MemoryMatchesDevice, MeshKnown, Tidy

\* A node that never ran has nothing to know.
LEMMA InitKnown == Init => Known
BY NoPeersTidy DEF Init, Known, PoolMatchesPeers, MemoryMatchesDevice,
                   MeshKnown, Running

\* Steps while the process is not running its methods.
LEMMA StartKnown ==
    ASSUME Shared, Known,
           StartExisting \/ CreateInterface \/ Restore \/ ConfigureNew
           \/ LoadFails \/ Exit \/ InterfaceLost
    PROVE  Known'
<1>1. ~Running' \/ ~NeverBlind'
  BY DEF StartExisting, CreateInterface, Restore, ConfigureNew, LoadFails,
         Exit, InterfaceLost, Running, NeverBlind
<1>2. dev' \in {dev, conf, NoPeers} /\ conf' \in {conf, dev}
  BY DEF StartExisting, CreateInterface, Restore, Restored, ConfigureNew,
         LoadFails, Exit, InterfaceLost
<1>3. NeverBlind' => NeverBlind
  BY DEF StartExisting, CreateInterface, Restore, ConfigureNew, LoadFails,
         Exit, InterfaceLost, NeverBlind, ghosts
<1>4. NeverBlind' => Tidy(dev') /\ Tidy(conf')
  BY <1>2, <1>3, NoPeersTidy DEF Known
<1> QED
  BY <1>1, <1>4
     DEF Known, PoolMatchesPeers, MemoryMatchesDevice, MeshKnown, NeverBlind,
         Running, Tidy

\* loadExistingPeers rebuilds exactly the maps the tidy device determines.
LEMMA LoadKnown ==
    ASSUME Shared, Known, Load PROVE Known'
<1>1. /\ peerIPs' \in [Keys -> Usable \cup {NoIP}]
      /\ \A k \in Keys : peerIPs'[k] \in LastOf(dev[k].vpn, NoIP)
      /\ \A k \in Keys : meshIPs'[k] \in LastOf(dev[k].mesh, NoMesh)
      /\ pool' = LoadedPool /\ dev' = dev /\ conf' = conf
      /\ excused' = excused
  BY DEF Load, LoadedMesh, ghosts
<1> SUFFICES ASSUME NeverBlind PROVE Known'
  BY <1>1 DEF Known, PoolMatchesPeers, MemoryMatchesDevice, MeshKnown, NeverBlind
<1>2. Tidy(dev) /\ Tidy(conf)
  BY DEF Known
<1>3. \A k \in Keys : dev[k] \in Peer
  BY DEF Shared, TypeOK
<1>4. \A k \in Keys : /\ dev[k].vpn = {peerIPs'[k]} \ {NoIP}
                      /\ dev[k].on <=> peerIPs'[k] # NoIP
  <2> TAKE k \in Keys
  <2>1. CASE dev[k].vpn = {}
    BY <1>1, <1>2, <2>1 DEF LastOf, Tidy
  <2>2. CASE dev[k].vpn # {}
    <3>1. peerIPs'[k] \in dev[k].vpn
      BY <1>1, <2>2 DEF LastOf
    <3>2. peerIPs'[k] # NoIP
      BY <3>1, <1>3, UsableFacts DEF Peer
    <3>3. dev[k].vpn = {peerIPs'[k]}
      BY <3>1, <1>2 DEF Tidy
    <3> QED
      BY <3>2, <3>3, <1>2 DEF Tidy
  <2> QED
    BY <2>1, <2>2
<1>5. \A k \in Keys : dev[k].mesh \subseteq {meshIPs'[k]}
  BY <1>1, <1>2 DEF LastOf, Tidy
<1>6. pool' = Reserved \cup ({peerIPs'[k] : k \in Keys} \ {NoIP})
  BY <1>1, <1>4 DEF LoadedPool
<1>7. Tidy(dev') /\ Tidy(conf')
  BY <1>1, <1>2
<1> QED
  BY <1>1, <1>4, <1>5, <1>6, <1>7
     DEF Known, PoolMatchesPeers, MemoryMatchesDevice, MeshKnown, Tidy

\* persistConfig writes a tidy table and changes nothing else.
LEMMA PersistKnown ==
    ASSUME Shared, Known, Persist \/ PersistFails PROVE Known'
<1>1. /\ dev' = dev /\ pool' = pool /\ peerIPs' = peerIPs
      /\ meshIPs' = meshIPs /\ excused' = excused
      /\ conf' \in {conf, dev} /\ Running
  BY DEF Persist, PersistFails, Written, Running, memory
<1> QED
  BY <1>1 DEF Known, PoolMatchesPeers, MemoryMatchesDevice, MeshKnown, Tidy,
              NeverBlind

\* An address nobody holds reaches the new peer and is taken from no other.
LEMMA AddPeerKnown ==
    ASSUME Shared, Known, NEW k \in Keys, AddPeer(k) PROVE Known'
<1>1. PICK o \in Offsets :
          /\ o \in Usable /\ o \notin pool
          /\ pool' = pool \cup {o}
          /\ dev' = KernelAdd(k, o)
          /\ peerIPs' = [peerIPs EXCEPT ![k] = o]
  BY DEF AddPeer, Grantable, IsLowestFree, Free
<1>2. /\ conf' = conf /\ meshIPs' = meshIPs /\ excused' = excused
      /\ Running /\ Running' /\ peerIPs[k] = NoIP
  BY DEF AddPeer, Running
<1> SUFFICES ASSUME NeverBlind PROVE Known'
  BY <1>2 DEF Known, PoolMatchesPeers, MemoryMatchesDevice, MeshKnown, NeverBlind
<1>3. /\ peerIPs \in [Keys -> Usable \cup {NoIP}] /\ o # NoIP
      /\ \A j \in Keys : dev[j] \in Peer
  BY <1>1, UsableFacts DEF Shared, TypeOK
<1>4. \A j \in Keys : /\ dev[j].on <=> peerIPs[j] # NoIP
                      /\ dev[j].vpn = {peerIPs[j]} \ {NoIP}
                      /\ dev[j].mesh \subseteq {meshIPs[j]}
  BY <1>2 DEF Known, MemoryMatchesDevice, MeshKnown, NeverBlind
<1>5. \A j \in Keys : o \notin dev[j].vpn
  BY <1>1, <1>4 DEF Shared, MapsExclusive
<1>6. \A j \in Keys : /\ dev'[j].on <=> peerIPs'[j] # NoIP
                      /\ dev'[j].vpn = {peerIPs'[j]} \ {NoIP}
                      /\ dev'[j].mesh \subseteq {meshIPs[j]}
  <2> TAKE j \in Keys
  <2>1. CASE j = k
    BY <1>1, <1>2, <1>3, <1>4, <2>1 DEF KernelAdd, KernelSet
  <2>2. CASE j # k
    BY <1>1, <1>2, <1>3, <1>4, <1>5, <2>2 DEF KernelAdd, KernelSet
  <2> QED
    BY <2>1, <2>2
<1>7. pool' = Reserved \cup ({peerIPs'[j] : j \in Keys} \ {NoIP})
  <2>1. pool = Reserved \cup ({peerIPs[j] : j \in Keys} \ {NoIP})
    BY <1>2 DEF Known, PoolMatchesPeers, NeverBlind
  <2> QED
    BY <2>1, <1>1, <1>2, <1>3
<1>8. PoolMatchesPeers' /\ MemoryMatchesDevice' /\ MeshKnown'
  BY <1>2, <1>6, <1>7 DEF PoolMatchesPeers, MemoryMatchesDevice, MeshKnown
<1>9. Tidy(dev')
  BY <1>6 DEF Tidy
<1> QED
  BY <1>2, <1>8, <1>9 DEF Known, Tidy, NeverBlind

\* The removed peer's address returns to the pool and to nobody else.
LEMMA RemovePeerKnown ==
    ASSUME Shared, Known, NEW k \in Keys, RemovePeer(k) PROVE Known'
<1>1. /\ dev' = KernelRemove(k)
      /\ pool' = pool \ ({peerIPs[k]} \ {NoIP})
      /\ peerIPs' = [peerIPs EXCEPT ![k] = NoIP]
      /\ conf' = conf /\ meshIPs' = meshIPs /\ excused' = excused
      /\ Running /\ Running'
  BY DEF RemovePeer, DeviceWithout, Released, Running
<1> SUFFICES ASSUME NeverBlind PROVE Known'
  BY <1>1 DEF Known, PoolMatchesPeers, MemoryMatchesDevice, MeshKnown, NeverBlind
<1>2. /\ peerIPs \in [Keys -> Usable \cup {NoIP}]
      /\ dev \in [Keys -> Peer]
  BY DEF Shared, TypeOK
<1>3. \A j \in Keys : /\ dev[j].on <=> peerIPs[j] # NoIP
                      /\ dev[j].vpn = {peerIPs[j]} \ {NoIP}
                      /\ dev[j].mesh \subseteq {meshIPs[j]}
  BY <1>1 DEF Known, MemoryMatchesDevice, MeshKnown, NeverBlind
<1>4. \A j \in Keys : /\ dev'[j].on <=> peerIPs'[j] # NoIP
                      /\ dev'[j].vpn = {peerIPs'[j]} \ {NoIP}
                      /\ dev'[j].mesh \subseteq {meshIPs[j]}
  BY <1>1, <1>2, <1>3 DEF KernelRemove, Absent
<1>5. pool' = Reserved \cup ({peerIPs'[j] : j \in Keys} \ {NoIP})
  <2>1. pool = Reserved \cup ({peerIPs[j] : j \in Keys} \ {NoIP})
    BY <1>1 DEF Known, PoolMatchesPeers, NeverBlind
  <2>2. \A j \in Keys : j # k /\ peerIPs[j] = peerIPs[k] => peerIPs[k] = NoIP
    BY DEF Shared, MapsExclusive
  <2>3. \A j \in Keys : peerIPs'[j] = IF j = k THEN NoIP ELSE peerIPs[j]
    BY <1>1, <1>2
  <2>4. \A x : x \in pool' => x \in Reserved \cup ({peerIPs'[j] : j \in Keys} \ {NoIP})
    BY <1>1, <2>1, <2>3
  <2>5. \A x : x \in Reserved \cup ({peerIPs'[j] : j \in Keys} \ {NoIP}) => x \in pool'
    <3> SUFFICES ASSUME NEW x \in Reserved \cup ({peerIPs'[j] : j \in Keys} \ {NoIP})
                 PROVE  x \in pool /\ x \notin {peerIPs[k]} \ {NoIP}
      BY <1>1
    <3>1. CASE x \in Reserved
      BY <3>1, <2>1, <1>2, MaxHostAssumption DEF Usable, Reserved, NoIP
    <3>2. ASSUME NEW j \in Keys, x = peerIPs'[j], x # NoIP
          PROVE  x \in pool /\ x \notin {peerIPs[k]} \ {NoIP}
      BY <3>2, <2>1, <2>2, <2>3
    <3> QED
      BY <3>1, <3>2
  <2> QED
    BY <2>4, <2>5
<1>6. PoolMatchesPeers' /\ MemoryMatchesDevice' /\ MeshKnown'
  BY <1>1, <1>4, <1>5 DEF PoolMatchesPeers, MemoryMatchesDevice, MeshKnown
<1>7. Tidy(dev')
  BY <1>4 DEF Tidy
<1> QED
  BY <1>1, <1>6, <1>7 DEF Known, Tidy, NeverBlind

\* Methods that keep the addresses: the kernel's new entry for k has k's VPN
\* address and at most the mesh address recorded for it.
LEMMA ReconfigureKnown ==
    ASSUME Shared, Known, NEW k \in Keys, peerIPs[k] # NoIP,
           NEW p \in Peer, p.on, p.vpn = {peerIPs[k]},
           p.mesh \subseteq {meshIPs'[k]},
           dev' = KernelSet(k, p),
           \A j \in Keys \ {k} : meshIPs'[j] = meshIPs[j],
           Running, Running', UNCHANGED <<conf, pool, peerIPs, excused>>
    PROVE  Known'
<1> SUFFICES ASSUME NeverBlind PROVE Known'
  BY DEF Known, PoolMatchesPeers, MemoryMatchesDevice, MeshKnown, NeverBlind
<1>1. \A j \in Keys : /\ dev[j].on <=> peerIPs[j] # NoIP
                      /\ dev[j].vpn = {peerIPs[j]} \ {NoIP}
                      /\ dev[j].mesh \subseteq {meshIPs[j]}
  BY DEF Known, MemoryMatchesDevice, MeshKnown, NeverBlind
<1>2. \A j \in Keys : j # k => peerIPs[k] \notin dev[j].vpn
  BY <1>1 DEF Shared, MapsExclusive
<1>3. \A j \in Keys : /\ dev'[j].on <=> peerIPs[j] # NoIP
                      /\ dev'[j].vpn = {peerIPs[j]} \ {NoIP}
                      /\ dev'[j].mesh \subseteq {meshIPs'[j]}
  <2> TAKE j \in Keys
  <2>1. CASE j = k
    BY <2>1 DEF KernelSet
  <2>2. CASE j # k
    BY <1>1, <1>2, <2>2 DEF KernelSet
  <2> QED
    BY <2>1, <2>2
<1>4. PoolMatchesPeers' /\ MemoryMatchesDevice' /\ MeshKnown'
  BY <1>3 DEF Known, PoolMatchesPeers, MemoryMatchesDevice, MeshKnown, NeverBlind
<1>5. Tidy(dev')
  BY <1>3 DEF Tidy
<1> QED
  BY <1>4, <1>5 DEF Known, Tidy, NeverBlind

\* Once start-up has failed to read the device, Known claims nothing.
LEMMA BlindKnown ==
    ASSUME excused' = excused, ~NeverBlind PROVE Known'
BY DEF Known, PoolMatchesPeers, MemoryMatchesDevice, MeshKnown, NeverBlind

\* Every step keeps Known.
LEMMA NextKnown == Shared /\ Known /\ [Next]_vars => Known'
<1> SUFFICES ASSUME Shared, Known, [Next]_vars PROVE Known'
  OBVIOUS
<1>1. CASE StartExisting \/ CreateInterface \/ Restore \/ ConfigureNew
           \/ LoadFails \/ Exit \/ InterfaceLost
  BY <1>1, StartKnown
<1>2. CASE Load
  BY <1>2, LoadKnown
<1>3. CASE Persist \/ PersistFails
  BY <1>3, PersistKnown
<1>4. ASSUME NEW k \in Keys, AddPeer(k) PROVE Known'
  BY <1>4, AddPeerKnown
<1>5. ASSUME NEW k \in Keys, RemovePeer(k) PROVE Known'
  BY <1>5, RemovePeerKnown
<1>6. ASSUME NEW k \in Keys,
             \/ UpdatePeer(k) \/ RemoveMeshIP(k)
             \/ \E m \in MeshIPs : AddMeshIP(k, m)
      PROVE  Known'
  <2>1. /\ peerIPs[k] # NoIP /\ peerIPs[k] \in Usable /\ dev[k] \in Peer
        /\ meshIPs \in [Keys -> MeshIPs \cup {NoMesh}]
        /\ Running /\ Running'
        /\ UNCHANGED <<conf, pool, peerIPs, excused>>
    BY <1>6 DEF UpdatePeer, RemoveMeshIP, AddMeshIP, memory, ghosts, Running,
                Shared, TypeOK
  <2>2. CASE ~NeverBlind
    BY <2>1, <2>2, BlindKnown
  <2>3. CASE NeverBlind
    <3>1. /\ dev[k].on /\ dev[k].vpn = {peerIPs[k]}
          /\ dev[k].mesh \subseteq {meshIPs[k]}
      BY <2>1, <2>3 DEF Known, MemoryMatchesDevice, MeshKnown, NeverBlind
    <3>2. CASE UpdatePeer(k)
      <4> DEFINE p == [on |-> TRUE, vpn |-> dev[k].vpn \cup {peerIPs[k]},
                       mesh |-> dev[k].mesh]
      <4>1. dev' = KernelSet(k, p) /\ meshIPs' = meshIPs
        BY <3>1, <3>2 DEF UpdatePeer, KernelAdd, memory
      <4>2. p \in Peer /\ p.on /\ p.vpn = {peerIPs[k]}
            /\ p.mesh \subseteq {meshIPs'[k]}
        BY <2>1, <3>1, <4>1 DEF Peer
      <4> QED
        BY <2>1, <4>1, <4>2, ReconfigureKnown
    <3>3. CASE RemoveMeshIP(k)
      <4> DEFINE p == [on |-> TRUE, vpn |-> {peerIPs[k]}, mesh |-> {}]
      <4>1. dev' = KernelSet(k, p) /\ meshIPs' = [meshIPs EXCEPT ![k] = NoMesh]
        BY <3>1, <3>3 DEF RemoveMeshIP, KernelReplace
      <4>2. p \in Peer /\ p.on /\ p.vpn = {peerIPs[k]}
            /\ p.mesh \subseteq {meshIPs'[k]}
        BY <2>1, <4>1 DEF Peer
      <4> QED
        BY <2>1, <4>1, <4>2, ReconfigureKnown
    <3>4. ASSUME NEW m \in MeshIPs, AddMeshIP(k, m) PROVE Known'
      <4> DEFINE p == [on |-> TRUE, vpn |-> {peerIPs[k]}, mesh |-> {m}]
      <4>1. dev' = KernelSet(k, p) /\ meshIPs' = [meshIPs EXCEPT ![k] = m]
        BY <3>1, <3>4 DEF AddMeshIP, KernelReplace
      <4>2. p \in Peer /\ p.on /\ p.vpn = {peerIPs[k]}
            /\ p.mesh \subseteq {meshIPs'[k]}
        BY <2>1, <4>1 DEF Peer
      <4> QED
        BY <2>1, <4>1, <4>2, ReconfigureKnown
    <3> QED
      BY <1>6, <3>2, <3>3, <3>4
  <2> QED
    BY <2>2, <2>3
<1>7. CASE UNCHANGED vars
  BY <1>7 DEF vars, Known, PoolMatchesPeers, MemoryMatchesDevice, MeshKnown,
              NeverBlind, Tidy, Running
<1> QED
  BY <1>1, <1>2, <1>3, <1>4, <1>5, <1>6, <1>7 DEF Next

\* Hence Known holds in every reachable state.
LEMMA KnownAlways == Spec => []Known
BY InitKnown, NextKnown, SharedAlways, PTL DEF Spec

(***************************************************************************)
(* No address leaks and none is lent twice: the pool holds the addresses   *)
(* of the known peers and nothing else, across restarts, unless a start-up *)
(* failed to read the device.                                              *)
(***************************************************************************)
THEOREM ManagerPoolMatchesPeers == Spec => []PoolMatchesPeers
<1>1. Known => PoolMatchesPeers
  BY DEF Known
<1> QED
  BY KnownAlways, <1>1, PTL

(***************************************************************************)
(* The kernel routes exactly the clients the manager knows, each with the  *)
(* address the manager recorded.                                           *)
(***************************************************************************)
THEOREM ManagerMemoryMatchesDevice == Spec => []MemoryMatchesDevice
<1>1. Known => MemoryMatchesDevice
  BY DEF Known
<1> QED
  BY KnownAlways, <1>1, PTL

(***************************************************************************)
(* RemoveMeshIP never overlooks a routed mesh address.                     *)
(***************************************************************************)
THEOREM ManagerMeshKnown == Spec => []MeshKnown
<1>1. Known => MeshKnown
  BY DEF Known
<1> QED
  BY KnownAlways, <1>1, PTL
-----------------------------------------------------------------------------
(***************************************************************************)
(* Promise: what was answered is on the device and, unless persistConfig   *)
(* failed, in the saved file.  The saved file may lag behind the device,   *)
(* but only for keys whose call was cut off before it was answered.        *)
(***************************************************************************)
AckedIn(d) ==
    \A k \in Keys : acked[k] # Unsure => d[k].vpn = {acked[k]} \ {NoIP}

Promise ==
    /\ pc # "down" => iface
    /\ pc = "created" => dev = NoPeers
    /\ ~saved => conf = NoPeers
    /\ pc # "persist" => answering = {}
    /\ \A k \in answering : acked[k] = Unsure
    /\ excused = {} =>
        /\ iface /\ pc # "created" => AckedIn(dev)
        /\ ~stale => AckedIn(conf)

\* Nothing has been promised before the first start.
LEMMA InitPromise == Init => Promise
BY UsableFacts
   DEF Init, Promise, Running, AckedIn, NoPeers, Absent, NoIP, Unsure

\* Every step keeps the promises made to clients.
LEMMA NextPromise == Shared /\ Known /\ Promise /\ [Next]_vars => Promise'
<1> SUFFICES ASSUME Shared, Known, Promise, [Next]_vars PROVE Promise'
  OBVIOUS
<1>1. CASE StartExisting
  BY <1>1 DEF StartExisting, Promise, Running, AckedIn, memory, ghosts
<1>2. CASE CreateInterface
  BY <1>2 DEF CreateInterface, Promise, Running, AckedIn, memory, ghosts
<1>3. CASE Restore
  BY <1>3 DEF Restore, Restored, Promise, Running, AckedIn, memory, Shared,
              TypeOK
<1>4. CASE ConfigureNew
  <2>1. /\ dev' = dev /\ acked' = acked /\ answering' = answering
        /\ iface' = iface /\ pc' = "load" /\ pc = "created"
        /\ \/ saved' = TRUE /\ conf' = dev
           \/ saved' = saved /\ conf' = conf /\ stale' = stale
        /\ excused' = {} => ~saved /\ ~stale /\ excused = {}
    BY <1>4 DEF ConfigureNew, Shared, TypeOK
  <2>2. dev = NoPeers /\ iface
    BY <2>1 DEF Promise
  <2>3. excused' = {} => AckedIn(NoPeers)
    BY <2>1 DEF Promise
  <2> QED
    BY <2>1, <2>2, <2>3 DEF Promise, Running, AckedIn
<1>5. CASE Load \/ LoadFails
  BY <1>5 DEF Load, LoadFails, Promise, AckedIn, ghosts
<1>6. CASE Exit
  BY <1>6 DEF Exit, Promise, AckedIn
<1>7. CASE InterfaceLost
  BY <1>7 DEF InterfaceLost, Promise, AckedIn, ghosts
<1>8. CASE Persist \/ PersistFails
  <2>1. /\ dev' = dev /\ iface' = iface /\ pc' = "up" /\ pc = "persist"
        /\ answering' = {} /\ excused' = excused /\ peerIPs' = peerIPs
        /\ acked' = [k \in Keys |->
                       IF k \in answering THEN peerIPs[k] ELSE acked[k]]
        /\ \/ saved' = TRUE /\ conf' = dev
           \/ saved' = saved /\ conf' = conf /\ stale' = TRUE
    BY <1>8 DEF Persist, PersistFails, Answered, Written, memory
  <2>2. ASSUME excused = {} PROVE AckedIn(dev)'
    <3>1. \A k \in Keys : dev[k].vpn = {peerIPs[k]} \ {NoIP}
      BY <2>1, <2>2 DEF Known, MemoryMatchesDevice, Running
    <3>2. AckedIn(dev)
      BY <2>1, <2>2 DEF Promise
    <3> QED
      BY <2>1, <3>1, <3>2 DEF AckedIn
  <2> QED
    BY <2>1, <2>2 DEF Promise, AckedIn
<1>9. ASSUME NEW k \in Keys, AddPeer(k) \/ RemovePeer(k) PROVE Promise'
  <2>1. /\ pc = "up" /\ pc' = "persist" /\ answering' = {k}
        /\ acked' = [acked EXCEPT ![k] = Unsure]
        /\ UNCHANGED <<iface, saved, conf, stale, excused>>
    BY <1>9 DEF AddPeer, RemovePeer
  <2>2. acked'[k] = Unsure /\ \A j \in Keys \ {k} : acked'[j] = acked[j]
    BY <2>1 DEF Shared, TypeOK
  <2>3. ASSUME excused = {} PROVE AckedIn(dev)'
    <3>1. AckedIn(dev)
      BY <2>1, <2>3 DEF Promise
    <3>2. Known'
      BY <1>9, AddPeerKnown, RemovePeerKnown
    <3>3. \A j \in Keys : /\ dev[j].vpn = {peerIPs[j]} \ {NoIP}
                          /\ dev'[j].vpn = {peerIPs'[j]} \ {NoIP}
      BY <2>1, <2>3, <3>2 DEF Known, MemoryMatchesDevice, Running
    <3>4. \A j \in Keys \ {k} : peerIPs'[j] = peerIPs[j]
      BY <1>9 DEF AddPeer, RemovePeer, Shared, TypeOK
    <3> QED
      BY <2>2, <3>1, <3>3, <3>4 DEF AckedIn
  <2>4. ASSUME excused = {}, ~stale PROVE AckedIn(conf)'
    BY <2>1, <2>2, <2>4 DEF Promise, AckedIn
  <2> QED
    BY <2>1, <2>2, <2>3, <2>4 DEF Promise
<1>10. ASSUME NEW k \in Keys,
              \/ UpdatePeer(k) \/ RemoveMeshIP(k)
              \/ \E m \in MeshIPs : AddMeshIP(k, m)
       PROVE  Promise'
  <2>1. /\ pc = "up" /\ pc' = "persist" /\ answering' = {}
        /\ UNCHANGED <<iface, saved, conf, peerIPs, acked, stale, excused>>
    BY <1>10 DEF UpdatePeer, RemoveMeshIP, AddMeshIP, memory, ghosts
  <2>2. ASSUME excused = {} PROVE AckedIn(dev)'
    <3>1. AckedIn(dev)
      BY <2>1, <2>2 DEF Promise
    <3>2. Known'
      <4>1. Next
        BY <1>10 DEF Next
      <4> QED
        BY <4>1, NextKnown
    <3>3. \A j \in Keys : /\ dev[j].vpn = {peerIPs[j]} \ {NoIP}
                          /\ dev'[j].vpn = {peerIPs[j]} \ {NoIP}
      BY <2>1, <2>2, <3>2 DEF Known, MemoryMatchesDevice, Running
    <3> QED
      BY <2>1, <3>1, <3>3 DEF AckedIn
  <2> QED
    BY <2>1, <2>2 DEF Promise, AckedIn
<1>11. CASE UNCHANGED vars
  BY <1>11 DEF vars, Promise, AckedIn
<1> QED
  BY <1>1, <1>2, <1>3, <1>4, <1>5, <1>6, <1>7, <1>8, <1>9, <1>10, <1>11
     DEF Next

(***************************************************************************)
(* What AddPeer and RemovePeer answered holds after any crashes and        *)
(* restarts, unless start-up broke off, could not read the device or the   *)
(* saved file, or restored a file whose last write had failed.             *)
(***************************************************************************)
THEOREM ManagerAnswersSurviveRestart == Spec => []AnswersSurviveRestart
<1>1. Shared /\ Known /\ Promise => AnswersSurviveRestart
  <2> SUFFICES ASSUME Shared, Known, Promise, pc = "up", excused = {},
                      NEW k \in Keys, acked[k] # Unsure
               PROVE  /\ peerIPs[k] = acked[k]
                      /\ dev[k].on <=> acked[k] # NoIP
                      /\ dev[k].vpn = {acked[k]} \ {NoIP}
    BY DEF AnswersSurviveRestart
  <2>1. dev[k].vpn = {acked[k]} \ {NoIP}
    BY DEF Promise, AckedIn
  <2>2. /\ dev[k].vpn = {peerIPs[k]} \ {NoIP}
        /\ dev[k].on <=> peerIPs[k] # NoIP
    BY DEF Known, MemoryMatchesDevice, Running
  <2>3. peerIPs[k] = acked[k]
    BY <2>1, <2>2
  <2> QED
    BY <2>1, <2>2, <2>3
<1>2. Spec => []Promise
  BY InitPromise, NextPromise, SharedAlways, KnownAlways, PTL DEF Spec
<1> QED
  BY <1>1, <1>2, SharedAlways, KnownAlways, PTL
-----------------------------------------------------------------------------
(***************************************************************************)
(* Reserved in memory: a process that has read the device knows for every  *)
(* client one of the addresses the kernel routes to it, and the pool gives *)
(* none of those addresses out, even if earlier processes, started blind,  *)
(* have left clients with two addresses or with none.                      *)
(***************************************************************************)
Covered ==
    Running /\ sighted =>
        \A k \in Keys : /\ peerIPs[k] # NoIP => peerIPs[k] \in dev[k].vpn
                        /\ dev[k].vpn \subseteq pool

\* Rebuilding the maps from any device covers it.
LEMMA LoadCovers == ASSUME Shared, Load PROVE Covered'
<1>1. /\ \A k \in Keys : peerIPs'[k] \in LastOf(dev[k].vpn, NoIP)
      /\ pool' = LoadedPool /\ dev' = dev
  BY DEF Load
<1> QED
  BY <1>1 DEF Covered, LastOf, LoadedPool

\* A method that sets k's entry to p, all of whose addresses are k's in memory or
\* in the kernel, takes nothing from the others.
LEMMA OwnAddresses ==
    ASSUME Shared, Covered, Running, sighted, NEW k \in Keys, NEW p \in Peer,
           p.vpn \subseteq dev[k].vpn, dev' = KernelSet(k, p)
    PROVE  \A j \in Keys : j # k => dev'[j].vpn = dev[j].vpn
BY DEF KernelSet, Shared, Exclusive, TypeOK, Peer

\* UpdatePeer and the mesh methods leave every client its recorded address.
LEMMA ReconfigureCovers ==
    ASSUME Shared, Covered, NEW k \in Keys,
           \/ UpdatePeer(k) \/ RemoveMeshIP(k)
           \/ \E m \in MeshIPs : AddMeshIP(k, m)
    PROVE  Covered' /\ (sighted => \A j \in Keys : dev'[j].vpn \subseteq dev[j].vpn)
<1>1. /\ peerIPs[k] # NoIP /\ peerIPs[k] \in Usable /\ dev[k] \in Peer /\ Running
      /\ UNCHANGED <<pool, peerIPs, sighted>>
  BY DEF UpdatePeer, RemoveMeshIP, AddMeshIP, memory, ghosts, Running, Shared, TypeOK
<1> SUFFICES ASSUME sighted PROVE Covered' /\ \A j \in Keys : dev'[j].vpn \subseteq dev[j].vpn
  BY <1>1 DEF Covered
<1>2. peerIPs[k] \in dev[k].vpn
  BY <1>1 DEF Covered
<1>3. CASE dev' = dev
  BY <1>1, <1>3 DEF Covered
<1>4. ASSUME NEW p \in Peer, p.vpn \subseteq dev[k].vpn, peerIPs[k] \in p.vpn,
             dev' = KernelSet(k, p)
      PROVE  Covered' /\ \A j \in Keys : dev'[j].vpn \subseteq dev[j].vpn
  <2>1. \A j \in Keys : j # k => dev'[j].vpn = dev[j].vpn
    BY <1>1, <1>4, OwnAddresses
  <2>2. dev'[k].vpn = p.vpn
    BY <1>4 DEF KernelSet
  <2> QED
    BY <1>1, <1>4, <2>1, <2>2 DEF Covered, Running
<1>5. CASE UpdatePeer(k)
  <2> DEFINE p == [on |-> TRUE, vpn |-> dev[k].vpn \cup {peerIPs[k]}, mesh |-> dev[k].mesh]
  <2>1. p \in Peer /\ p.vpn \subseteq dev[k].vpn /\ peerIPs[k] \in p.vpn
    BY <1>1, <1>2 DEF Peer
  <2>2. dev' = KernelSet(k, p) \/ dev' = dev
    BY <1>5 DEF UpdatePeer, KernelAdd
  <2> QED
    BY <1>3, <1>4, <2>1, <2>2
<1>6. ASSUME NEW mesh \in SUBSET MeshIPs, dev' = KernelReplace(k, peerIPs[k], mesh)
      PROVE  Covered' /\ \A j \in Keys : dev'[j].vpn \subseteq dev[j].vpn
  <2> DEFINE p == [on |-> TRUE, vpn |-> {peerIPs[k]}, mesh |-> mesh]
  <2>1. p \in Peer /\ p.vpn \subseteq dev[k].vpn /\ peerIPs[k] \in p.vpn
    BY <1>1, <1>2 DEF Peer
  <2>2. dev' = KernelSet(k, p) \/ dev' = dev
    BY <1>6 DEF KernelReplace
  <2> QED
    BY <1>3, <1>4, <2>1, <2>2
<1>7. CASE RemoveMeshIP(k)
  <2>1. {} \in SUBSET MeshIPs /\ dev' = KernelReplace(k, peerIPs[k], {})
    BY <1>7 DEF RemoveMeshIP
  <2> QED
    BY <1>6, <2>1
<1>8. ASSUME NEW m \in MeshIPs, AddMeshIP(k, m)
      PROVE  Covered' /\ \A j \in Keys : dev'[j].vpn \subseteq dev[j].vpn
  <2>1. {m} \in SUBSET MeshIPs /\ dev' = KernelReplace(k, peerIPs[k], {m})
    BY <1>8 DEF AddMeshIP
  <2> QED
    BY <1>6, <2>1
<1> QED
  BY <1>5, <1>7, <1>8

\* AddPeer hands out an address that no client has.
LEMMA AddCovers ==
    ASSUME Shared, Covered, NEW k \in Keys, AddPeer(k)
    PROVE  /\ Covered'
           /\ sighted => \E o \in Usable :
                 /\ \A j \in Keys : o \notin dev[j].vpn
                 /\ \A j \in Keys : dev'[j].vpn = IF j = k THEN dev[k].vpn \cup {o} ELSE dev[j].vpn
<1>1. PICK o \in Offsets :
          /\ o \in Usable /\ o \notin pool /\ pool' = pool \cup {o}
          /\ dev' = KernelAdd(k, o) /\ peerIPs' = [peerIPs EXCEPT ![k] = o]
  BY DEF AddPeer, Grantable, IsLowestFree, Free
<1>2. Running /\ Running' /\ sighted' = sighted
  BY DEF AddPeer, Running
<1> SUFFICES ASSUME sighted
             PROVE  /\ Covered'
                    /\ \A j \in Keys : o \notin dev[j].vpn
                    /\ \A j \in Keys : dev'[j].vpn = IF j = k THEN dev[k].vpn \cup {o} ELSE dev[j].vpn
  BY <1>1, <1>2 DEF Covered
<1>3. \A j \in Keys : o \notin dev[j].vpn
  BY <1>1, <1>2 DEF Covered
<1>4. \A j \in Keys : dev'[j].vpn = IF j = k THEN dev[k].vpn \cup {o} ELSE dev[j].vpn
  <2> DEFINE p == [on |-> TRUE, vpn |-> dev[k].vpn \cup {o}, mesh |-> dev[k].mesh]
  <2>1. dev' = KernelSet(k, p) /\ \A j \in Keys : dev[j] \in Peer
    BY <1>1 DEF KernelAdd, Shared, TypeOK
  <2>2. \A j \in Keys : j # k => dev'[j].vpn = dev[j].vpn \ (dev[k].vpn \cup {o})
    BY <2>1 DEF KernelSet
  <2>3. \A j \in Keys : j # k => dev[j].vpn \cap dev[k].vpn = {}
    BY DEF Shared, Exclusive
  <2>4. dev'[k].vpn = dev[k].vpn \cup {o}
    BY <2>1 DEF KernelSet
  <2>5. ASSUME NEW j \in Keys, j # k PROVE dev'[j].vpn = dev[j].vpn
    <3>1. dev[j].vpn \ (dev[k].vpn \cup {o}) = dev[j].vpn
      BY <1>3, <2>3, <2>5
    <3> QED
      BY <2>2, <2>5, <3>1
  <2> QED
    BY <2>4, <2>5
<1>5. \A j \in Keys : peerIPs'[j] = IF j = k THEN o ELSE peerIPs[j]
  BY <1>1 DEF Shared, TypeOK
<1> QED
  BY <1>1, <1>2, <1>3, <1>4, <1>5, ZenonT(60) DEF Covered

\* RemovePeer frees an address that is nobody else's.
LEMMA RemoveCovers ==
    ASSUME Shared, Covered, NEW k \in Keys, RemovePeer(k)
    PROVE  Covered' /\ \A j \in Keys : dev'[j].vpn \subseteq dev[j].vpn
<1>1. /\ dev' = KernelRemove(k) /\ pool' = pool \ ({peerIPs[k]} \ {NoIP})
      /\ peerIPs' = [peerIPs EXCEPT ![k] = NoIP] /\ sighted' = sighted /\ Running
  BY DEF RemovePeer, DeviceWithout, Released, Running
<1>2. \A j \in Keys : /\ dev'[j].vpn = IF j = k THEN {} ELSE dev[j].vpn
                      /\ peerIPs'[j] = IF j = k THEN NoIP ELSE peerIPs[j]
  BY <1>1 DEF KernelRemove, Absent, Shared, TypeOK, Peer
<1>3. sighted => \A j \in Keys : j # k /\ peerIPs[k] # NoIP => peerIPs[k] \notin dev[j].vpn
  BY <1>1 DEF Covered, Shared, Exclusive
<1> QED
  BY <1>1, <1>2, <1>3 DEF Covered

\* Whatever a step leaves of the old addresses or adds from the free ones is
\* taken from nobody.
LEMMA StepCovers ==
    ASSUME Shared, Covered, [Next]_vars
    PROVE  /\ Covered'
           /\ Running /\ sighted =>
                \A j, k \in Keys : j # k => dev[j].vpn \cap dev'[k].vpn = {}
<1>1. \A j, k \in Keys : j # k => dev[j].vpn \cap dev[k].vpn = {}
  BY DEF Shared, Exclusive
<1>2. CASE StartExisting \/ CreateInterface \/ Restore \/ ConfigureNew \/ InterfaceLost
  BY <1>2 DEF StartExisting, CreateInterface, Restore, ConfigureNew, InterfaceLost, Running, Covered
<1>3. CASE LoadFails \/ Exit
  <2>1. ~Running' \/ ~sighted'
    BY <1>3 DEF LoadFails, Exit, Running, Shared
  <2>2. dev' = dev
    BY <1>3 DEF LoadFails, Exit
  <2> QED
    BY <1>1, <2>1, <2>2 DEF Covered
<1>4. CASE Load
  <2>1. dev' = dev
    BY <1>4 DEF Load
  <2> QED
    BY <1>1, <1>4, <2>1, LoadCovers
<1>5. CASE Persist \/ PersistFails \/ UNCHANGED vars
  <2>1. UNCHANGED <<dev, pool, peerIPs, sighted>> /\ (Running' => Running)
    BY <1>5 DEF Persist, PersistFails, Answered, memory, vars, Running
  <2> QED
    BY <1>1, <2>1 DEF Covered
<1>6. ASSUME NEW k \in Keys,
             \/ UpdatePeer(k) \/ RemoveMeshIP(k) \/ \E m \in MeshIPs : AddMeshIP(k, m)
      PROVE  /\ Covered'
             /\ Running /\ sighted =>
                  \A i, j \in Keys : i # j => dev[i].vpn \cap dev'[j].vpn = {}
  BY <1>1, <1>6, ReconfigureCovers
<1>7. ASSUME NEW k \in Keys, AddPeer(k)
      PROVE  /\ Covered'
             /\ Running /\ sighted =>
                  \A i, j \in Keys : i # j => dev[i].vpn \cap dev'[j].vpn = {}
  <2>1. CASE ~sighted
    BY <1>7, <2>1, AddCovers
  <2>2. CASE sighted
    <3>1. PICK o \in Usable :
              /\ \A j \in Keys : o \notin dev[j].vpn
              /\ \A j \in Keys : dev'[j].vpn = IF j = k THEN dev[k].vpn \cup {o} ELSE dev[j].vpn
      BY <1>7, <2>2, AddCovers
    <3> QED
      BY <1>1, <1>7, <3>1, AddCovers
  <2> QED
    BY <2>1, <2>2
<1>8. ASSUME NEW k \in Keys, RemovePeer(k)
      PROVE  /\ Covered'
             /\ Running /\ sighted =>
                  \A i, j \in Keys : i # j => dev[i].vpn \cap dev'[j].vpn = {}
  BY <1>1, <1>8, RemoveCovers
<1> QED
  BY <1>2, <1>3, <1>4, <1>5, <1>6, <1>7, <1>8 DEF Next

(***************************************************************************)
(* No client is given an address that the kernel routes to another, by any *)
(* method of a process that has read the device when it started, whatever  *)
(* crashes, lost interfaces and blind starts went before it.               *)
(***************************************************************************)
THEOREM ManagerNoAddressTaken == Spec => NoAddressTaken
<1>1. Init => Covered
  BY DEF Init, Covered, Running
<1>2. Shared /\ Covered /\ [Next]_vars =>
        Covered' /\ [Running /\ sighted =>
            \A j, k \in Keys : j # k => dev[j].vpn \cap dev'[k].vpn = {}]_vars
  BY StepCovers
<1> QED
  BY <1>1, <1>2, SharedAlways, PTL DEF Spec, NoAddressTaken
=============================================================================
