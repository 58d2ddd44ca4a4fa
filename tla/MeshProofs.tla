----------------------------- MODULE MeshProofs -----------------------------
(***************************************************************************)
(* Proofs about session meshes (MeshSession), in three layers.             *)
(*   Base      holds of every behaviour: who is inside ensureAutoMesh      *)
(*             holds the user's lock (Locked); rows have one live mesh per *)
(*             owner, and one without its member is being enrolled (Rows); *)
(*             requests keep to their user's mesh and connections (Own);   *)
(*             and a request whose user's listings succeeded enrols in the *)
(*             mesh it inserted itself (Sighted).                          *)
(*   Tidy(u)   holds of a user with a clean record: one request at a time  *)
(*             works on the user's one mesh, and every route is explained  *)
(*             by the membership or by what the request is about to do.    *)
(*             Steps for other users leave such a user untouched but for   *)
(*             routes they take away (ForeignStep), so that only the       *)
(*             user's own steps are looked at one by one (OwnTidy).        *)
(*   AllServed holds of the same users, whatever is on record of the       *)
(*             others: the subnet of a clean user's mesh is nobody else's  *)
(*             (Distinct), so that no route of theirs is taken away.       *)
(* What each action does to the request that takes it is stated once, as   *)
(* the lemma <action>Does, with the types it keeps; the layers cite those. *)
(***************************************************************************)
EXTENDS MeshSession, TLAPS

\* The labels of ensureAutoMesh, those with a mesh at hand, and all of them.
Inside   == {"list", "member", "join", "touch", "subnet", "create", "load", "enrol", "rollback"}
WithMesh == {"member", "join", "touch", "enrol", "rollback", "attach", "route", "link",
             "member of", "members", "unroute", "drop", "relink", "reroute"}
Labels   == Inside \cup WithMesh \cup
            {"new", "lock", "unlist", "unlist all", "sessions", "detach", "clear", "retire", "done"}

\* Where a request is and what it has at hand.
Control ==
    /\ pc \in [Reqs -> Labels] /\ cur \in [Reqs -> SUBSET Reqs] /\ hand \in [Reqs -> SUBSET Peers]
    /\ \A r \in Reqs : pc[r] \in {"link", "sessions", "relink", "reroute"} =>
        \E p \in Peers : hand[r] = {p}

Types == TypeOK /\ Control

\* Who is inside ensureAutoMesh holds the user's lock.
Locked == \A r \in Reqs : pc[r] \in Inside => lock[user[r]] = {r}

\* Rows: inserted by Create, with a subnet; one live mesh per owner; members
\* only of live meshes; and a mesh without its member is being enrolled, or
\* its rollback failed.
Rows ==
    /\ \A r \in Reqs : mesh[r] # "none" =>
        pc[r] \in {"enrol", "rollback", "attach", "route", "link", "done"}
    /\ \A r \in Reqs : mesh[r] # "none" \/ pc[r] = "create" => subnet[r] \in Subnets
    /\ \A m, n \in Live : user[m] = user[n] => m = n
    /\ \A m \in Reqs : link[m] # NoMember => m \in Live
    /\ \A m \in Live : link[m] = NoMember =>
        \/ "kept" \in excused[user[m]]
        \/ pc[m] \in {"enrol", "rollback"} /\ cur[m] = {m}

\* A request works on its user's mesh and connections.
Own ==
    /\ \A r \in Reqs : \A m \in cur[r] : user[m] = user[r]
    /\ \A r \in Reqs : \A p \in hand[r] : owner[p] = user[r]
    /\ \A m \in Reqs : link[m] \in Peers => owner[link[m]] = user[m]

\* Only a connection on the interface has a route.
OnDevice == \A p \in Peers : routed[p] # 0 => p \in device

\* Without a failed ListByUser a mesh is created only where there is none.
Sighted ==
    \A r \in Reqs : "blind" \notin excused[user[r]] =>
        /\ pc[r] \in {"subnet", "create"} => SessionOf(user[r]) = {}
        /\ pc[r] # "load"
        /\ pc[r] \in {"enrol", "rollback"} => cur[r] = {r} /\ link[r] = NoMember

-----------------------------------------------------------------------------
(***************************************************************************)
(* What the steps do to a request, pointwise.                              *)
(***************************************************************************)
Does(r, l, ms, ps) ==
    /\ pc'[r] = l /\ cur'[r] = ms /\ hand'[r] = ps
    /\ \A q \in Reqs \ {r} : pc'[q] = pc[q] /\ cur'[q] = cur[q] /\ hand'[q] = hand[q]

\* One connection.
One(ps) == \E p \in Peers : ps = {p}

\* A request that goes on.
LEMMA MoveDoes ==
    ASSUME Control, NEW r \in Reqs, NEW l \in Labels, NEW ms \in SUBSET Reqs, NEW ps \in SUBSET Peers,
           Move(r, l, ms, ps), l \in {"link", "sessions", "relink", "reroute"} => One(ps)
    PROVE  Control' /\ IF l = "done" THEN Does(r, "done", {}, {}) ELSE Does(r, l, ms, ps)
<1>1. CASE l = "done"
  BY <1>1 DEF Control, Move, Does
<1>2. CASE l # "done"
  BY <1>2 DEF Control, Move, Does, One
<1> QED
  BY <1>1, <1>2

\* Every label a request goes on to with what it has.
LEMMA GotoDoes ==
    ASSUME Control, NEW r \in Reqs, NEW l \in Labels, Goto(r, l),
           l \in {"link", "sessions", "relink", "reroute"} => One(hand[r])
    PROVE  Control' /\ IF l = "done" THEN Does(r, "done", {}, {}) ELSE Does(r, l, cur[r], hand[r])
BY MoveDoes DEF Goto, Control

\* What a user may be excused for.
Faults == {"overlap", "blind", "remote", "reclaimed", "raced", "kept", "cut", "late"}

\* Only the user of r may be excused for more.
Excused(r) ==
    /\ excused' \in [Users -> SUBSET Faults]
    /\ \A u \in Users \ {user[r]} : excused'[u] = excused[u]
    /\ excused[user[r]] \subseteq excused'[user[r]]

\* Being excused is put on record for the user alone.
LEMMA ExcuseDoes ==
    ASSUME TypeOK, NEW r \in Reqs, NEW what \in SUBSET Faults, Excuse(user[r], what)
    PROVE  Excused(r) /\ excused'[user[r]] = excused[user[r]] \cup what
BY DEF TypeOK, Excuse, Excused, Faults

\* A request that arrives; its user stays clean only if it is the only one.
LEMMA BeginDoes ==
    ASSUME Types, NEW r \in Reqs, NEW l \in Labels \ {"done"}, NEW ps \in SUBSET Peers,
           NEW faults \in SUBSET Faults, Begin(r, l, ps, faults),
           l \in {"link", "sessions", "relink", "reroute"} => One(ps)
    PROVE  /\ Control' /\ pc[r] = "new" /\ Does(r, l, {}, ps) /\ Excused(r)
           /\ excused'[user[r]] = {} => InFlight(user[r]) = {} /\ faults = {}
           /\ UNCHANGED <<owner, user, lock>>
<1>1. Move(r, l, {}, ps) /\ pc[r] = "new" /\ UNCHANGED <<owner, user, lock>>
  BY DEF Begin
<1>2. Control' /\ Does(r, l, {}, ps)
  BY <1>1, MoveDoes DEF Types
<1> DEFINE what == faults \cup IF InFlight(user[r]) = {} THEN {} ELSE {"overlap"}
<1>3. what \in SUBSET Faults /\ Excuse(user[r], what)
  BY DEF Begin, Faults
<1>4. Excused(r) /\ excused'[user[r]] = excused[user[r]] \cup what
  BY <1>3, ExcuseDoes DEF Types
<1> QED
  BY <1>1, <1>2, <1>4

\* ActivateNode and AutoMesh begin.
LEMMA ActivateDoes ==
    ASSUME Types, NEW r \in Reqs, Activate(r)
    PROVE  /\ Types'
           /\ pc[r] = "new" /\ Does(r, "lock", {}, {}) /\ Excused(r)
           /\ excused'[user[r]] = {} => InFlight(user[r]) = {}
           /\ UNCHANGED <<tables, wg, fixed, lock>>
<1> USE DEF tables, wg, fixed
<1>1. Begin(r, "lock", {}, {}) /\ UNCHANGED <<tables, wg>>
  BY DEF Activate
<1>2. /\ Control' /\ pc[r] = "new" /\ Does(r, "lock", {}, {}) /\ Excused(r)
      /\ excused'[user[r]] = {} => InFlight(user[r]) = {}
      /\ UNCHANGED <<owner, user, lock>>
  <2>1. "lock" \in Labels \ {"done"}
    BY DEF Labels
  <2> QED
    BY <1>1, <2>1, BeginDoes
<1> QED
  BY <1>1, <1>2 DEF Types, Control, TypeOK, Live, Excused, Faults

\* DeactivateNode and its like begin.
LEMMA DeactivateDoes ==
    ASSUME Types, NEW r \in Reqs, Deactivate(r)
    PROVE  /\ Types'
           /\ pc[r] = "new" /\ (\E l \in {"unlist", "unlist all"} : Does(r, l, {}, {})) /\ Excused(r)
           /\ excused'[user[r]] = {} => InFlight(user[r]) = {}
           /\ UNCHANGED <<tables, wg, fixed, lock>>
<1> USE DEF tables, wg, fixed
<1>1. UNCHANGED <<tables, wg>>
  BY DEF Deactivate
<1>2. PICK l \in {"unlist", "unlist all"} : Begin(r, l, {}, {})
  BY DEF Deactivate
<1>3. /\ Control' /\ pc[r] = "new" /\ Does(r, l, {}, {}) /\ Excused(r)
      /\ excused'[user[r]] = {} => InFlight(user[r]) = {}
      /\ UNCHANGED <<owner, user, lock>>
  <2>1. l \in Labels \ {"done"} /\ l \notin {"link", "sessions", "relink", "reroute"}
    BY DEF Labels
  <2>2. {} \in SUBSET Peers /\ {} \in SUBSET Faults
    OBVIOUS
  <2> QED
    BY <1>2, <2>1, <2>2, BeginDoes, Zenon
<1> QED
  BY <1>1, <1>3 DEF Types, Control, TypeOK, Live, Excused, Faults

\* Connect has a new connection.
LEMMA ConnectDoes ==
    ASSUME Types, NEW r \in Reqs, Connect(r)
    PROVE  /\ Types'
           /\ pc[r] = "new" /\ Excused(r)
           /\ \E p \in Peers \ (active \cup device) :
                /\ owner[p] = user[r] /\ Does(r, "sessions", {}, {p})
                /\ device' \in {device, device \cup {p}}
                /\ excused'[user[r]] = {} => InFlight(user[r]) = {} /\ p \in device'
           /\ UNCHANGED <<mesh, subnet, link, routed, fixed, lock>>
<1> USE DEF tables, wg, fixed
<1>1. UNCHANGED <<mesh, subnet, link, fresh, routed>>
  BY DEF Connect
<1>2. PICK p \in Peers \ (active \cup device), local \in BOOLEAN :
        /\ owner[p] = user[r] /\ active' = active \cup {p}
        /\ device' = IF local THEN device \cup {p} ELSE device
        /\ Begin(r, "sessions", {p}, IF local THEN {} ELSE {"remote"})
  BY DEF Connect
<1>3. /\ Control' /\ pc[r] = "new" /\ Does(r, "sessions", {}, {p}) /\ Excused(r)
      /\ excused'[user[r]] = {} => InFlight(user[r]) = {} /\ local
      /\ UNCHANGED <<owner, user, lock>>
  <2>1. One({p}) /\ "sessions" \in Labels \ {"done"}
    BY DEF One, Labels
  <2>2. CASE local
    <3>1. Begin(r, "sessions", {p}, {})
      BY <1>2, <2>2
    <3> QED
      BY <2>1, <2>2, <3>1, BeginDoes
  <2>3. CASE ~local
    <3>1. Begin(r, "sessions", {p}, {"remote"}) /\ {"remote"} \in SUBSET Faults
      BY <1>2, <2>3 DEF Faults
    <3> QED
      BY <2>1, <2>3, <3>1, BeginDoes
  <2> QED
    BY <2>2, <2>3
<1>4. Types'
  BY <1>1, <1>2, <1>3 DEF Types, Control, TypeOK, Live, Excused, Faults
<1> QED
  BY <1>1, <1>2, <1>3, <1>4

\* A connection is to be closed.
LEMMA DisconnectDoes ==
    ASSUME Types, NEW r \in Reqs, Disconnect(r)
    PROVE  /\ Types'
           /\ pc[r] = "new" /\ Excused(r)
           /\ excused'[user[r]] = {} => InFlight(user[r]) = {}
           /\ \E p \in active :
                /\ owner[p] = user[r]
                /\ \E l \in {"detach", "retire"} : Does(r, l, {}, {p})
                /\ \/ device' = device \ {p} /\ routed' = Unrouted({p})
                   \/ UNCHANGED wg
           /\ UNCHANGED <<tables, fixed, lock>>
<1> USE DEF tables, wg, fixed
<1>1. UNCHANGED tables
  BY DEF Disconnect
<1>2. PICK p \in active, l \in {"detach", "retire"} :
        /\ owner[p] = user[r]
        /\ Begin(r, l, {p}, {})
        /\ \/ device' = device \ {p} /\ routed' = Unrouted({p})
           \/ UNCHANGED wg
  BY DEF Disconnect
<1>3. {p} \in SUBSET Peers
  BY DEF Types, TypeOK
<1>4. /\ Control' /\ pc[r] = "new" /\ Does(r, l, {}, {p}) /\ Excused(r)
      /\ excused'[user[r]] = {} => InFlight(user[r]) = {}
      /\ UNCHANGED <<owner, user, lock>>
  <2>1. l \in Labels \ {"done"} /\ l \notin {"link", "sessions", "relink", "reroute"}
    BY DEF Labels
  <2> QED
    BY <1>2, <1>3, <2>1, BeginDoes
<1>5. device' \subseteq Peers /\ routed' \in [Peers -> 0 .. MaxSubnet]
  BY <1>2, SubnetAssumption DEF Types, TypeOK, Unrouted
<1>6. Types'
  BY <1>1, <1>4, <1>5 DEF Types, Control, TypeOK, Live, Excused, Faults
<1> QED
  BY <1>1, <1>2, <1>4, <1>6

\* The user's lock is taken.
LEMMA LockDoes ==
    ASSUME Types, NEW r \in Reqs, Lock(r)
    PROVE  /\ Types'
           /\ pc[r] = "lock" /\ lock[user[r]] = {} /\ Does(r, "list", cur[r], hand[r])
           /\ lock' = [lock EXCEPT ![user[r]] = {r}]
           /\ UNCHANGED <<tables, wg, fixed, excused>>
<1> USE DEF tables, wg, fixed
<1>1. /\ pc[r] = "lock" /\ lock[user[r]] = {} /\ Goto(r, "list")
      /\ lock' = [lock EXCEPT ![user[r]] = {r}]
      /\ UNCHANGED <<tables, wg, fixed, excused>>
  BY DEF Lock, MayLock
<1>2. Control' /\ Does(r, "list", cur[r], hand[r])
  BY <1>1, GotoDoes DEF Types, Labels, Inside, WithMesh
<1> QED
  BY <1>1, <1>2 DEF Types, Control, TypeOK, Live

\* ensureAutoMesh has listed the user's meshes, or could not.
LEMMA ListDoes ==
    ASSUME Types, NEW r \in Reqs, List(r)
    PROVE  /\ Types'
           /\ pc[r] = "list"
           /\ \/ /\ SessionOf(user[r]) = {} /\ Does(r, "subnet", {}, {}) /\ UNCHANGED excused
              \/ /\ SessionOf(user[r]) # {} /\ Does(r, "member", SessionOf(user[r]), {})
                 /\ UNCHANGED excused
              \/ /\ Does(r, "subnet", cur[r], hand[r]) /\ Excused(r)
                 /\ "blind" \in excused'[user[r]]
           /\ UNCHANGED <<tables, wg, fixed, lock>>
<1> USE DEF tables, wg, fixed
<1>1. pc[r] = "list" /\ UNCHANGED <<tables, wg, fixed, lock>>
  BY DEF List
<1>2. SessionOf(user[r]) \in SUBSET Reqs
  BY DEF SessionOf, Live
<1>3. CASE SessionOf(user[r]) = {} /\ Move(r, "subnet", {}, {}) /\ UNCHANGED excused
  <2>1. Control' /\ Does(r, "subnet", {}, {})
    BY <1>3, MoveDoes DEF Types, Labels, Inside, WithMesh
  <2> QED
    BY <1>1, <1>3, <2>1 DEF Types, Control, TypeOK, Live
<1>4. CASE SessionOf(user[r]) # {} /\ Move(r, "member", SessionOf(user[r]), {}) /\ UNCHANGED excused
  <2>1. Control' /\ Does(r, "member", SessionOf(user[r]), {})
    <3>1. "member" \in Labels
      BY DEF Labels, Inside
    <3> QED
      BY <1>2, <1>4, <3>1, MoveDoes DEF Types
  <2> QED
    BY <1>1, <1>4, <2>1 DEF Types, Control, TypeOK, Live
<1>5. CASE Goto(r, "subnet") /\ Excuse(user[r], {"blind"})
  <2>1. Control' /\ Does(r, "subnet", cur[r], hand[r])
    BY <1>5, GotoDoes DEF Types, Labels, Inside, WithMesh
  <2>2. Excused(r) /\ excused'[user[r]] = excused[user[r]] \cup {"blind"}
    <3>1. {"blind"} \in SUBSET Faults
      BY DEF Faults
    <3> QED
      BY <1>5, <3>1, ExcuseDoes DEF Types
  <2> QED
    BY <1>1, <2>1, <2>2 DEF Types, Control, TypeOK, Live, Excused, Faults
<1> QED
  BY <1>3, <1>4, <1>5 DEF List

\* The membership is looked up.
LEMMA MemberDoes ==
    ASSUME Types, NEW r \in Reqs, Member(r)
    PROVE  /\ Types'
           /\ pc[r] = "member"
           /\ \/ (\E m \in cur[r] \cap Live : link[m] # NoMember) /\ Does(r, "touch", cur[r], hand[r])
              \/ (\A m \in cur[r] \cap Live : link[m] = NoMember) /\ Does(r, "join", cur[r], hand[r])
           /\ UNCHANGED <<tables, wg, fixed, lock, excused>>
<1> USE DEF tables, wg, fixed
<1>1. pc[r] = "member" /\ UNCHANGED <<tables, wg, fixed, lock, excused>>
  BY DEF Member
<1>2. Control' => Types'
  BY <1>1 DEF Types, Control, TypeOK, Live
<1>3. CASE \E m \in cur[r] \cap Live : link[m] # NoMember
  <2>1. Goto(r, "touch")
    BY <1>3 DEF Member
  <2> QED
    BY <1>1, <1>2, <1>3, <2>1, GotoDoes DEF Types, Labels, Inside, WithMesh
<1>4. CASE ~\E m \in cur[r] \cap Live : link[m] # NoMember
  <2>1. Goto(r, "join")
    BY <1>4 DEF Member
  <2> QED
    BY <1>1, <1>2, <1>4, <2>1, GotoDoes DEF Types, Labels, Inside, WithMesh
<1> QED
  BY <1>3, <1>4

\* The membership is added, or that fails.
LEMMA JoinDoes ==
    ASSUME Types, NEW r \in Reqs, Join(r)
    PROVE  /\ Types'
           /\ pc[r] = "join"
           /\ \/ AddMember(r) /\ Does(r, "touch", cur[r], hand[r]) /\ UNCHANGED lock
              \/ /\ Does(r, "done", {}, {}) /\ lock' = [lock EXCEPT ![user[r]] = {}]
                 /\ UNCHANGED tables
           /\ UNCHANGED <<wg, fixed, excused>>
<1> USE DEF tables, wg, fixed
<1>1. pc[r] = "join" /\ UNCHANGED <<wg, fixed, excused>>
  BY DEF Join
<1>2. CASE AddMember(r) /\ Goto(r, "touch") /\ UNCHANGED lock
  <2>1. Control' /\ Does(r, "touch", cur[r], hand[r])
    BY <1>2, GotoDoes DEF Types, Labels, Inside, WithMesh
  <2> QED
    BY <1>1, <1>2, <2>1 DEF Types, Control, TypeOK, Live, AddMember
<1>3. CASE Leave(r, "done") /\ UNCHANGED tables
  <2>1. Control' /\ Does(r, "done", {}, {})
    BY <1>3, GotoDoes DEF Leave, Types, Labels, Inside, WithMesh
  <2> QED
    BY <1>1, <1>3, <2>1 DEF Types, Control, TypeOK, Live, Leave
<1> QED
  BY <1>2, <1>3 DEF Join

\* The session is kept alive.
LEMMA TouchDoes ==
    ASSUME Types, NEW r \in Reqs, Touch(r)
    PROVE  /\ Types'
           /\ pc[r] = "touch" /\ Does(r, "attach", cur[r], hand[r])
           /\ lock' = [lock EXCEPT ![user[r]] = {}]
           /\ UNCHANGED <<mesh, subnet, link, wg, fixed, excused>>
<1> USE DEF tables, wg, fixed
<1>1. /\ pc[r] = "touch" /\ Goto(r, "attach") /\ lock' = [lock EXCEPT ![user[r]] = {}]
      /\ fresh' = Touched(r) /\ UNCHANGED <<mesh, subnet, link, active, wg, fixed, excused>>
  BY DEF Touch, Leave
<1>2. Control' /\ Does(r, "attach", cur[r], hand[r])
  BY <1>1, GotoDoes DEF Types, Labels, Inside, WithMesh
<1> QED
  BY <1>1, <1>2 DEF Types, Control, TypeOK, Live, Touched

\* A subnet is picked, or there is none.
LEMMA PickSubnetDoes ==
    ASSUME Types, NEW r \in Reqs, PickSubnet(r)
    PROVE  /\ Types'
           /\ pc[r] = "subnet"
           /\ \/ /\ Does(r, "create", cur[r], hand[r]) /\ UNCHANGED lock
                 /\ \A u \in Users : excused[u] \subseteq excused'[u]
                 /\ \E n \in Subnets :
                      /\ subnet' = [subnet EXCEPT ![r] = n]
                      /\ \A m \in Live : subnet[m] # n
                      /\ \A m \in Unseen(n) : excused'[user[m]] # {} /\ excused'[user[r]] # {}
              \/ /\ Does(r, "done", {}, {}) /\ lock' = [lock EXCEPT ![user[r]] = {}]
                 /\ UNCHANGED <<subnet, excused>>
           /\ UNCHANGED <<mesh, link, wg, fixed>>
<1> USE DEF tables, wg, fixed
<1>1. pc[r] = "subnet" /\ UNCHANGED <<mesh, link, fresh, active, wg, fixed>>
  BY DEF PickSubnet
<1>2. ASSUME NEW n \in Subnets, FirstUnused(n), subnet' = [subnet EXCEPT ![r] = n],
             Goto(r, "create"), UNCHANGED lock,
             excused' = [u \in Users |->
                 IF Unseen(n) # {} /\ u \in {user[m] : m \in Unseen(n) \cup {r}}
                 THEN excused[u] \cup {"raced"} ELSE excused[u]]
      PROVE  /\ Types' /\ Does(r, "create", cur[r], hand[r])
             /\ \A u \in Users : excused[u] \subseteq excused'[u]
             /\ \A m \in Live : subnet[m] # n
             /\ \A m \in Unseen(n) : excused'[user[m]] # {} /\ excused'[user[r]] # {}
  <2>1. Control' /\ Does(r, "create", cur[r], hand[r])
    BY <1>2, GotoDoes DEF Types, Labels, Inside, WithMesh
  <2>2. excused' \in [Users -> SUBSET Faults] /\ \A u \in Users : excused[u] \subseteq excused'[u]
    BY <1>2 DEF Types, TypeOK, Faults
  <2>3. \A m \in Unseen(n) : excused'[user[m]] # {} /\ excused'[user[r]] # {}
    <3> SUFFICES ASSUME NEW m \in Unseen(n) PROVE excused'[user[m]] # {} /\ excused'[user[r]] # {}
      OBVIOUS
    <3>1. user[m] \in Users /\ user[r] \in Users
      BY DEF Unseen, Types, TypeOK
    <3>2. "raced" \in excused'[user[m]] /\ "raced" \in excused'[user[r]]
      BY <1>2, <3>1
    <3> QED
      BY <3>2
  <2>4. \A m \in Live : subnet[m] # n
    BY <1>2 DEF FirstUnused
  <2>5. subnet' \in [Reqs -> 0 .. MaxSubnet]
    BY <1>2, SubnetAssumption DEF Types, TypeOK, Subnets
  <2>6. Types'
    BY <1>1, <1>2, <2>1, <2>2, <2>5 DEF Types, Control, TypeOK, Live, Faults
  <2> QED
    BY <2>1, <2>2, <2>3, <2>4, <2>6
<1>3. CASE Leave(r, "done") /\ UNCHANGED <<subnet, excused>>
  <2>1. Control' /\ Does(r, "done", {}, {})
    BY <1>3, GotoDoes DEF Leave, Types, Labels, Inside, WithMesh
  <2> QED
    BY <1>1, <1>3, <2>1 DEF Types, Control, TypeOK, Live, Leave
<1> QED
  BY <1>1, <1>2, <1>3 DEF PickSubnet

\* The mesh is inserted, or there is one.
LEMMA CreateDoes ==
    ASSUME Types, NEW r \in Reqs, Create(r)
    PROVE  /\ Types'
           /\ pc[r] = "create"
           /\ \/ /\ SessionOf(user[r]) = {} /\ Does(r, "enrol", {r}, {})
                 /\ mesh' = [mesh EXCEPT ![r] = "live"]
              \/ /\ SessionOf(user[r]) # {} /\ Does(r, "load", cur[r], hand[r]) /\ UNCHANGED mesh
           /\ UNCHANGED <<subnet, link, wg, fixed, lock, excused>>
<1> USE DEF tables, wg, fixed
<1>1. pc[r] = "create" /\ UNCHANGED <<subnet, link, active, wg, fixed, lock, excused>>
  BY DEF Create
<1>2. CASE SessionOf(user[r]) = {}
  <2>1. mesh' = [mesh EXCEPT ![r] = "live"] /\ fresh' = fresh \cup {r} /\ Move(r, "enrol", {r}, {})
    BY <1>2 DEF Create
  <2>2. Control' /\ Does(r, "enrol", {r}, {})
    <3>1. "enrol" \in Labels /\ {r} \in SUBSET Reqs
      BY DEF Labels, Inside
    <3> QED
      BY <2>1, <3>1, MoveDoes DEF Types
  <2>3. mesh' \in [Reqs -> {"none", "live", "gone"}] /\ fresh' \subseteq Live'
    BY <2>1 DEF Types, TypeOK, Live
  <2> QED
    BY <1>1, <1>2, <2>1, <2>2, <2>3 DEF Types, Control, TypeOK
<1>3. CASE SessionOf(user[r]) # {}
  <2>1. Goto(r, "load") /\ UNCHANGED <<mesh, fresh>>
    BY <1>3 DEF Create
  <2>2. Control' /\ Does(r, "load", cur[r], hand[r])
    BY <2>1, GotoDoes DEF Types, Labels, Inside, WithMesh
  <2> QED
    BY <1>1, <1>3, <2>1, <2>2 DEF Types, Control, TypeOK, Live
<1> QED
  BY <1>2, <1>3

\* The mesh that was in the way is loaded, unless it is gone.
LEMMA LoadExistingDoes ==
    ASSUME Types, NEW r \in Reqs, LoadExisting(r)
    PROVE  /\ Types'
           /\ pc[r] = "load"
           /\ \/ SessionOf(user[r]) = {} /\ Does(r, "done", {}, {}) /\ lock' = [lock EXCEPT ![user[r]] = {}]
              \/ /\ SessionOf(user[r]) # {} /\ Does(r, "enrol", SessionOf(user[r]), {})
                 /\ UNCHANGED lock
           /\ UNCHANGED <<tables, wg, fixed, excused>>
<1> USE DEF tables, wg, fixed
<1>1. pc[r] = "load" /\ UNCHANGED <<tables, wg, fixed, excused>>
  BY DEF LoadExisting
<1>2. CASE SessionOf(user[r]) = {}
  <2>1. Leave(r, "done")
    BY <1>2 DEF LoadExisting
  <2>2. Control' /\ Does(r, "done", {}, {})
    BY <2>1, GotoDoes DEF Leave, Types, Labels, Inside, WithMesh
  <2> QED
    BY <1>1, <1>2, <2>1, <2>2 DEF Types, Control, TypeOK, Live, Leave
<1>3. CASE SessionOf(user[r]) # {}
  <2>1. Move(r, "enrol", SessionOf(user[r]), {}) /\ UNCHANGED lock
    BY <1>3 DEF LoadExisting
  <2>2. Control' /\ Does(r, "enrol", SessionOf(user[r]), {})
    <3>1. "enrol" \in Labels /\ SessionOf(user[r]) \in SUBSET Reqs
      BY DEF Labels, Inside, SessionOf, Live
    <3> QED
      BY <2>1, <3>1, MoveDoes DEF Types
  <2> QED
    BY <1>1, <1>3, <2>1, <2>2 DEF Types, Control, TypeOK, Live
<1> QED
  BY <1>2, <1>3

\* The owner becomes a member, or that fails.
LEMMA EnrolDoes ==
    ASSUME Types, NEW r \in Reqs, Enrol(r)
    PROVE  /\ Types'
           /\ pc[r] = "enrol"
           /\ \/ /\ AddMember(r) /\ Does(r, "attach", cur[r], hand[r])
                 /\ lock' = [lock EXCEPT ![user[r]] = {}]
              \/ Does(r, "rollback", cur[r], hand[r]) /\ UNCHANGED <<tables, lock>>
           /\ UNCHANGED <<wg, fixed, excused>>
<1> USE DEF tables, wg, fixed
<1>1. pc[r] = "enrol" /\ UNCHANGED <<wg, fixed, excused>>
  BY DEF Enrol
<1>2. CASE AddMember(r) /\ Leave(r, "attach")
  <2>1. Control' /\ Does(r, "attach", cur[r], hand[r])
    BY <1>2, GotoDoes DEF Leave, Types, Labels, Inside, WithMesh
  <2> QED
    BY <1>1, <1>2, <2>1 DEF Types, Control, TypeOK, Live, AddMember, Leave
<1>3. CASE Goto(r, "rollback") /\ UNCHANGED <<tables, lock>>
  <2>1. Control' /\ Does(r, "rollback", cur[r], hand[r])
    BY <1>3, GotoDoes DEF Types, Labels, Inside, WithMesh
  <2> QED
    BY <1>1, <1>3, <2>1 DEF Types, Control, TypeOK, Live
<1> QED
  BY <1>2, <1>3 DEF Enrol

\* Deleting meshes keeps the tables' types.
LEMMA DeletedTypes ==
    ASSUME Types, NEW ms \in SUBSET Reqs, Deleted(ms)
    PROVE  /\ mesh' \in [Reqs -> {"none", "live", "gone"}]
           /\ link' \in [Reqs -> Peers \cup {NoMember, NoPeer}]
           /\ fresh' \subseteq Live' /\ UNCHANGED <<subnet, active>>
BY DEF Types, TypeOK, Deleted, Live

\* A failed activation takes its mesh back.
LEMMA RollbackDoes ==
    ASSUME Types, NEW r \in Reqs, Rollback(r)
    PROVE  /\ Types'
           /\ pc[r] = "rollback" /\ Does(r, "done", {}, {}) /\ Deleted(cur[r])
           /\ lock' = [lock EXCEPT ![user[r]] = {}]
           /\ UNCHANGED <<wg, fixed, excused>>
<1> USE DEF wg, fixed
<1>1. /\ pc[r] = "rollback" /\ Deleted(cur[r]) /\ Leave(r, "done") /\ UNCHANGED <<wg, fixed, excused>>
  BY DEF Rollback, Undone
<1>2. Control' /\ Does(r, "done", {}, {})
  BY <1>1, GotoDoes DEF Leave, Types, Labels, Inside, WithMesh
<1>3. cur[r] \in SUBSET Reqs
  BY DEF Types, Control
<1>4. /\ mesh' \in [Reqs -> {"none", "live", "gone"}]
      /\ link' \in [Reqs -> Peers \cup {NoMember, NoPeer}]
      /\ fresh' \subseteq Live' /\ UNCHANGED <<subnet, active>>
  BY <1>1, <1>3, DeletedTypes
<1> QED
  BY <1>1, <1>2, <1>4 DEF Types, Control, TypeOK, Leave

\* The user's connections are looked up.
LEMMA AttachDoes ==
    ASSUME Types, NEW r \in Reqs, Attach(r)
    PROVE  /\ Types'
           /\ pc[r] = "attach"
           /\ \/ Does(r, "done", {}, {})
              \/ Does(r, "route", cur[r], {p \in active : owner[p] = user[r]})
           /\ UNCHANGED <<tables, wg, fixed, lock, excused>>
<1> USE DEF tables, wg, fixed
<1>1. pc[r] = "attach" /\ UNCHANGED <<tables, wg, fixed, lock, excused>>
  BY DEF Attach
<1>2. PICK ps \in SUBSET Peers : ps = {p \in active : owner[p] = user[r]}
  BY DEF Types, TypeOK
<1>3. Control' => Types'
  BY <1>1 DEF Types, Control, TypeOK, Live
<1>4. cur[r] \in SUBSET Reqs
  BY DEF Types, Control
<1>5. CASE Move(r, "done", cur[r], ps)
  <2>1. "done" \in Labels
    BY DEF Labels
  <2>2. Control' /\ Does(r, "done", {}, {})
    BY <1>4, <1>5, <2>1, MoveDoes DEF Types
  <2> QED
    BY <1>1, <1>3, <2>2
<1>6. CASE Move(r, "route", cur[r], ps)
  <2>1. "route" \in Labels
    BY DEF Labels, WithMesh
  <2>2. Control' /\ Does(r, "route", cur[r], ps)
    BY <1>4, <1>6, <2>1, MoveDoes DEF Types
  <2> QED
    BY <1>1, <1>2, <1>3, <2>2
<1> QED
  BY <1>2, <1>5, <1>6 DEF Attach

\* A mesh address is given to a connection, which keeps the routes' types.
LEMMA RoutedTypes ==
    ASSUME Types, NEW p \in Peers, NEW m \in Reqs
    PROVE  Routed(p, MeshIP(m)) \in [Peers -> 0 .. MaxSubnet]
BY SubnetAssumption DEF Types, TypeOK, Routed, MeshIP

\* An address is routed to one of the user's connections on this node.
LEMMA AttachRouteDoes ==
    ASSUME Types, NEW r \in Reqs, AttachRoute(r)
    PROVE  /\ Types'
           /\ pc[r] = "route"
           /\ \E p \in hand[r] :
                \/ /\ p \in device /\ Does(r, "link", cur[r], {p})
                   /\ \E m \in cur[r] : routed' = Routed(p, MeshIP(m))
                \/ Does(r, "done", {}, {}) /\ UNCHANGED routed
                \/ Does(r, "route", cur[r], hand[r] \ {p}) /\ UNCHANGED routed
           /\ UNCHANGED <<tables, device, fixed, lock, excused>>
<1> USE DEF tables, fixed
<1>1. pc[r] = "route" /\ UNCHANGED <<tables, device, fixed, lock, excused>>
  BY DEF AttachRoute
<1>2. cur[r] \in SUBSET Reqs /\ hand[r] \in SUBSET Peers
  BY DEF Types, Control
<1>3. PICK p \in hand[r], m \in cur[r] :
        \/ p \in device /\ routed' = Routed(p, MeshIP(m)) /\ Move(r, "link", cur[r], {p})
        \/ Move(r, "done", cur[r], hand[r] \ {p}) /\ UNCHANGED routed
        \/ Move(r, "route", cur[r], hand[r] \ {p}) /\ UNCHANGED routed
  <2>1. CASE \E p \in hand[r], m \in cur[r] :
               p \in device /\ routed' = Routed(p, MeshIP(m)) /\ Move(r, "link", cur[r], {p})
    BY <2>1
  <2>2. CASE \E p \in hand[r], m \in cur[r] :
               UNCHANGED routed
               /\ Move(r, IF hand[r] = {p} THEN "done" ELSE "route", cur[r], hand[r] \ {p})
    BY <2>2
  <2> QED
    BY <2>1, <2>2 DEF AttachRoute
<1>4. hand[r] \ {p} \in SUBSET Peers /\ {p} \in SUBSET Peers /\ One({p})
  BY <1>2 DEF One
<1>5. "link" \in Labels /\ "done" \in Labels /\ "route" \in Labels
  BY DEF Labels, WithMesh
<1>6. CASE p \in device /\ routed' = Routed(p, MeshIP(m)) /\ Move(r, "link", cur[r], {p})
  <2>1. Control' /\ Does(r, "link", cur[r], {p})
    BY <1>2, <1>4, <1>5, <1>6, MoveDoes DEF Types
  <2>2. routed' \in [Peers -> 0 .. MaxSubnet]
    BY <1>2, <1>3, <1>6, RoutedTypes
  <2> QED
    BY <1>1, <1>3, <1>6, <2>1, <2>2 DEF Types, Control, TypeOK, Live
<1>7. CASE Move(r, "done", cur[r], hand[r] \ {p}) /\ UNCHANGED routed
  <2>1. Control' /\ Does(r, "done", {}, {})
    BY <1>2, <1>4, <1>5, <1>7, MoveDoes DEF Types
  <2> QED
    BY <1>1, <1>3, <1>7, <2>1 DEF Types, Control, TypeOK, Live
<1>8. CASE Move(r, "route", cur[r], hand[r] \ {p}) /\ UNCHANGED routed
  <2>1. Control' /\ Does(r, "route", cur[r], hand[r] \ {p})
    BY <1>2, <1>4, <1>5, <1>8, MoveDoes DEF Types
  <2> QED
    BY <1>1, <1>3, <1>8, <2>1 DEF Types, Control, TypeOK, Live
<1> QED
  BY <1>3, <1>6, <1>7, <1>8

\* The membership names the one connection at hand.
Linked(r) ==
    /\ \E p \in Peers :
        /\ hand[r] = {p}
        /\ link' = [m \in Reqs |-> IF m \in cur[r] /\ link[m] # NoMember THEN p ELSE link[m]]
    /\ UNCHANGED <<mesh, subnet>>

\* UpdateMemberPeer with one connection at hand.
LEMMA LinkToDoes ==
    ASSUME Types, NEW r \in Reqs, pc[r] \in {"link", "relink"}, LinkTo(r)
    PROVE  Linked(r) /\ link' \in [Reqs -> Peers \cup {NoMember, NoPeer}] /\ UNCHANGED <<fresh, active>>
<1>1. PICK p \in Peers : hand[r] = {p}
  BY DEF Types, Control
<1>2. (CHOOSE q \in hand[r] : TRUE) = p
  BY <1>1
<1>3. link' = [m \in Reqs |-> IF m \in cur[r] /\ link[m] # NoMember THEN p ELSE link[m]]
  <2> DEFINE To(c) == [m \in Reqs |-> IF m \in cur[r] /\ link[m] # NoMember THEN c ELSE link[m]]
  <2>1. link' = To(CHOOSE q \in hand[r] : TRUE)
    BY Zenon DEF LinkTo
  <2>2. To(CHOOSE q \in hand[r] : TRUE) = To(p)
    <3> HIDE DEF To
    <3> QED
      BY <1>2, Zenon
  <2> QED
    BY <2>1, <2>2
<1> QED
  BY <1>1, <1>3 DEF LinkTo, Linked, Types, TypeOK

\* The membership is updated at the end of an activation.
LEMMA AttachLinkDoes ==
    ASSUME Types, NEW r \in Reqs, AttachLink(r)
    PROVE  /\ Types'
           /\ pc[r] = "link" /\ Does(r, "done", {}, {}) /\ Linked(r)
           /\ UNCHANGED <<wg, fixed, lock, excused>>
<1> USE DEF wg, fixed
<1>1. pc[r] = "link" /\ LinkTo(r) /\ Goto(r, "done") /\ UNCHANGED <<wg, fixed, lock, excused>>
  BY DEF AttachLink
<1>2. Control' /\ Does(r, "done", {}, {})
  BY <1>1, GotoDoes DEF Types, Labels, Inside, WithMesh
<1>3. Linked(r) /\ link' \in [Reqs -> Peers \cup {NoMember, NoPeer}] /\ UNCHANGED <<fresh, active>>
  BY <1>1, LinkToDoes
<1> QED
  BY <1>1, <1>2, <1>3 DEF Types, Control, TypeOK, Live, Linked

\* The user's mesh is looked up to be left.
LEMMA UnlistDoes ==
    ASSUME Types, NEW r \in Reqs, Unlist(r)
    PROVE  /\ Types'
           /\ pc[r] \in {"unlist", "unlist all"}
           /\ \/ Does(r, "done", {}, {})
              \/ /\ SessionOf(user[r]) # {}
                 /\ \E l \in {"member of", "members"} : Does(r, l, SessionOf(user[r]), {})
           /\ UNCHANGED <<tables, wg, fixed, lock, excused>>
<1> USE DEF tables, wg, fixed
<1>1. pc[r] \in {"unlist", "unlist all"} /\ UNCHANGED <<tables, wg, fixed, lock, excused>>
  BY DEF Unlist
<1>2. Control' => Types'
  BY <1>1 DEF Types, Control, TypeOK, Live
<1>3. SessionOf(user[r]) \in SUBSET Reqs
  BY DEF SessionOf, Live
<1>4. "done" \in Labels /\ "member of" \in Labels /\ "members" \in Labels
  BY DEF Labels, WithMesh
<1>5. CASE Move(r, "done", SessionOf(user[r]), {})
  <2>1. Control' /\ Does(r, "done", {}, {})
    <3>1. {} \in SUBSET Peers /\ Control /\ "done" \notin {"link", "sessions", "relink", "reroute"}
      BY DEF Types
    <3> QED
      BY <1>3, <1>4, <1>5, <3>1, MoveDoes, Zenon
  <2> QED
    BY <1>1, <1>2, <2>1
<1>6. ASSUME SessionOf(user[r]) # {}, NEW l \in {"member of", "members"}, Move(r, l, SessionOf(user[r]), {})
      PROVE  Control' /\ Does(r, l, SessionOf(user[r]), {})
  <2>1. l \in Labels \ {"done"} /\ l \notin {"link", "sessions", "relink", "reroute"}
    BY DEF Labels, WithMesh
  <2>2. {} \in SUBSET Peers /\ Control
    BY DEF Types
  <2> QED
    BY <1>3, <1>6, <2>1, <2>2, MoveDoes, Zenon
<1> QED
  BY <1>1, <1>2, <1>5, <1>6 DEF Unlist

\* The members of the mesh are looked up.
LEMMA MembersDoes ==
    ASSUME Types, NEW r \in Reqs, Members(r)
    PROVE  /\ Types'
           /\ pc[r] \in {"member of", "members"}
           /\ \/ Does(r, "done", {}, {})
              \/ Does(r, "unroute", cur[r], {link[m] : m \in cur[r]} \ {NoMember, NoPeer})
           /\ UNCHANGED <<tables, wg, fixed, lock, excused>>
<1> USE DEF tables, wg, fixed
<1>1. pc[r] \in {"member of", "members"} /\ UNCHANGED <<tables, wg, fixed, lock, excused>>
  BY DEF Members
<1>2. Control' => Types'
  BY <1>1 DEF Types, Control, TypeOK, Live
<1>3. cur[r] \in SUBSET Reqs
  BY DEF Types, Control
<1>4. "done" \in Labels /\ "unroute" \in Labels
  BY DEF Labels, WithMesh
<1>5. PICK ps \in SUBSET Peers : ps = {link[m] : m \in cur[r]} \ {NoMember, NoPeer}
  <2>1. \A m \in cur[r] : link[m] \in Peers \cup {NoMember, NoPeer}
    BY <1>3 DEF Types, TypeOK
  <2>2. {link[m] : m \in cur[r]} \ {NoMember, NoPeer} \subseteq Peers
    BY <2>1
  <2> QED
    BY <2>2
<1>6. CASE Move(r, "done", cur[r], ps)
  BY <1>1, <1>2, <1>3, <1>4, <1>6, MoveDoes DEF Types
<1>7. CASE Move(r, "unroute", cur[r], ps)
  <2>1. Control' /\ Does(r, "unroute", cur[r], ps)
    BY <1>3, <1>4, <1>7, MoveDoes DEF Types
  <2> QED
    BY <1>1, <1>2, <1>5, <2>1
<1> QED
  BY <1>5, <1>6, <1>7 DEF Members

\* The members' routes are removed.
LEMMA UnrouteDoes ==
    ASSUME Types, NEW r \in Reqs, Unroute(r)
    PROVE  /\ Types'
           /\ pc[r] = "unroute" /\ Does(r, "drop", cur[r], hand[r])
           /\ routed' = Unrouted(hand[r] \cap device)
           /\ UNCHANGED <<tables, device, fixed, lock, excused>>
<1> USE DEF tables, fixed
<1>1. /\ pc[r] = "unroute" /\ Goto(r, "drop") /\ routed' = Unrouted(hand[r] \cap device)
      /\ UNCHANGED <<tables, device, fixed, lock, excused>>
  BY DEF Unroute, ToUnroute
<1>2. Control' /\ Does(r, "drop", cur[r], hand[r])
  BY <1>1, GotoDoes DEF Types, Labels, Inside, WithMesh
<1>3. routed' \in [Peers -> 0 .. MaxSubnet]
  BY <1>1, SubnetAssumption DEF Types, TypeOK, Unrouted
<1> QED
  BY <1>1, <1>2, <1>3 DEF Types, Control, TypeOK, Live

\* The mesh is deleted.
LEMMA DropDoes ==
    ASSUME Types, NEW r \in Reqs, Drop(r)
    PROVE  /\ Types'
           /\ pc[r] = "drop" /\ Does(r, "done", {}, {}) /\ Deleted(cur[r])
           /\ UNCHANGED <<wg, fixed, lock, excused>>
<1> USE DEF wg, fixed
<1>1. pc[r] = "drop" /\ Deleted(cur[r]) /\ Goto(r, "done") /\ UNCHANGED <<wg, fixed, lock, excused>>
  BY DEF Drop
<1>2. Control' /\ Does(r, "done", {}, {})
  BY <1>1, GotoDoes DEF Types, Labels, Inside, WithMesh
<1>3. cur[r] \in SUBSET Reqs
  BY DEF Types, Control
<1>4. /\ mesh' \in [Reqs -> {"none", "live", "gone"}]
      /\ link' \in [Reqs -> Peers \cup {NoMember, NoPeer}]
      /\ fresh' \subseteq Live' /\ UNCHANGED <<subnet, active>>
  BY <1>1, <1>3, DeletedTypes
<1> QED
  BY <1>1, <1>2, <1>4 DEF Types, Control, TypeOK

\* A new connection looks for the user's mesh.
LEMMA SessionsDoes ==
    ASSUME Types, NEW r \in Reqs, Sessions(r)
    PROVE  /\ Types'
           /\ pc[r] = "sessions"
           /\ \/ /\ \A m \in SessionOf(user[r]) : link[m] = NoMember
                 /\ Does(r, "done", {}, {})
              \/ /\ {m \in SessionOf(user[r]) : link[m] # NoMember} # {}
                 /\ Does(r, "relink", {m \in SessionOf(user[r]) : link[m] # NoMember}, hand[r])
           /\ UNCHANGED <<tables, wg, fixed, lock, excused>>
<1> USE DEF tables, wg, fixed
<1>1. pc[r] = "sessions" /\ UNCHANGED <<tables, wg, fixed, lock, excused>>
  BY DEF Sessions
<1>2. Control' => Types'
  BY <1>1 DEF Types, Control, TypeOK, Live
<1>3. PICK ms \in SUBSET Reqs : ms = {m \in SessionOf(user[r]) : link[m] # NoMember}
  BY DEF SessionOf, Live
<1>4. "done" \in Labels /\ "relink" \in Labels
  BY DEF Labels, WithMesh
<1>5. hand[r] \in SUBSET Peers /\ One(hand[r])
  BY <1>1 DEF Types, Control, One
<1>6. CASE ms = {}
  <2>1. Move(r, "done", ms, hand[r])
    BY <1>3, <1>6 DEF Sessions
  <2>2. Control' /\ Does(r, "done", {}, {})
    BY <1>4, <1>5, <2>1, MoveDoes DEF Types
  <2> QED
    BY <1>1, <1>2, <1>3, <1>6, <2>2
<1>7. CASE ms # {}
  <2>1. Move(r, "relink", ms, hand[r])
    BY <1>3, <1>7 DEF Sessions
  <2>2. Control' /\ Does(r, "relink", ms, hand[r])
    BY <1>4, <1>5, <2>1, MoveDoes DEF Types
  <2> QED
    BY <1>1, <1>2, <1>3, <1>7, <2>2
<1> QED
  BY <1>6, <1>7

\* The membership is updated for a new connection.
LEMMA RelinkDoes ==
    ASSUME Types, NEW r \in Reqs, Relink(r)
    PROVE  /\ Types'
           /\ pc[r] = "relink" /\ Does(r, "reroute", cur[r], hand[r]) /\ Linked(r)
           /\ UNCHANGED <<wg, fixed, lock, excused>>
<1> USE DEF wg, fixed
<1>1. pc[r] = "relink" /\ LinkTo(r) /\ Goto(r, "reroute") /\ UNCHANGED <<wg, fixed, lock, excused>>
  BY DEF Relink
<1>2. Control' /\ Does(r, "reroute", cur[r], hand[r])
  <2>1. One(hand[r]) /\ "reroute" \in Labels
    BY <1>1 DEF Types, Control, One, Labels, WithMesh
  <2> QED
    BY <1>1, <2>1, GotoDoes DEF Types
<1>3. Linked(r) /\ link' \in [Reqs -> Peers \cup {NoMember, NoPeer}] /\ UNCHANGED <<fresh, active>>
  BY <1>1, LinkToDoes
<1> QED
  BY <1>1, <1>2, <1>3 DEF Types, Control, TypeOK, Live, Linked

\* The mesh address is routed to a new connection that is on this node.
LEMMA RerouteDoes ==
    ASSUME Types, NEW r \in Reqs, Reroute(r)
    PROVE  /\ Types'
           /\ pc[r] = "reroute" /\ Does(r, "done", {}, {})
           /\ \E p \in hand[r], m \in cur[r] :
                routed' = IF p \in device THEN Routed(p, MeshIP(m)) ELSE routed
           /\ UNCHANGED <<tables, device, fixed, lock, excused>>
<1> USE DEF tables, fixed
<1>1. /\ pc[r] = "reroute" /\ Goto(r, "done") /\ UNCHANGED <<tables, device, fixed, lock, excused>>
      /\ \E p \in hand[r], m \in cur[r] :
            routed' = IF p \in device THEN Routed(p, MeshIP(m)) ELSE routed
  BY DEF Reroute
<1>2. Control' /\ Does(r, "done", {}, {})
  BY <1>1, GotoDoes DEF Types, Labels, Inside, WithMesh
<1>3. hand[r] \subseteq Peers /\ cur[r] \subseteq Reqs /\ routed \in [Peers -> 0 .. MaxSubnet]
  BY DEF Types, Control, TypeOK
<1>4. routed' \in [Peers -> 0 .. MaxSubnet]
  BY <1>1, <1>3, RoutedTypes
<1> QED
  BY <1>1, <1>2, <1>4 DEF Types, Control, TypeOK, Live

\* The route of a connection that closes is removed.
LEMMA DetachDoes ==
    ASSUME Types, NEW r \in Reqs, Detach(r)
    PROVE  /\ Types'
           /\ pc[r] = "detach" /\ Does(r, "clear", cur[r], hand[r])
           /\ routed' = Unrouted(hand[r] \cap device)
           /\ UNCHANGED <<tables, device, fixed, lock, excused>>
<1> USE DEF tables, fixed
<1>1. /\ pc[r] = "detach" /\ Goto(r, "clear") /\ routed' = Unrouted(hand[r] \cap device)
      /\ UNCHANGED <<tables, device, fixed, lock, excused>>
  BY DEF Detach, ToUnroute
<1>2. Control' /\ Does(r, "clear", cur[r], hand[r])
  BY <1>1, GotoDoes DEF Types, Labels, Inside, WithMesh
<1>3. routed' \in [Peers -> 0 .. MaxSubnet]
  BY <1>1, SubnetAssumption DEF Types, TypeOK, Unrouted
<1> QED
  BY <1>1, <1>2, <1>3 DEF Types, Control, TypeOK, Live

\* The memberships that name a connection that closes forget it.
LEMMA ClearDoes ==
    ASSUME Types, NEW r \in Reqs, Clear(r)
    PROVE  /\ Types'
           /\ pc[r] = "clear" /\ Does(r, "retire", cur[r], hand[r])
           /\ link' = [m \in Reqs |-> IF link[m] \in hand[r] THEN NoPeer ELSE link[m]]
           /\ UNCHANGED <<mesh, subnet, wg, fixed, lock, excused>>
<1> USE DEF wg, fixed
<1>1. /\ pc[r] = "clear" /\ Goto(r, "retire")
      /\ link' = [m \in Reqs |-> IF link[m] \in hand[r] THEN NoPeer ELSE link[m]]
      /\ UNCHANGED <<mesh, subnet, fresh, active, wg, fixed, lock, excused>>
  BY DEF Clear
<1>2. Control' /\ Does(r, "retire", cur[r], hand[r])
  BY <1>1, GotoDoes DEF Types, Labels, Inside, WithMesh
<1> QED
  BY <1>1, <1>2 DEF Types, Control, TypeOK, Live

\* The row of a connection that closes is retired.
LEMMA RetireDoes ==
    ASSUME Types, NEW r \in Reqs, Retire(r)
    PROVE  /\ Types'
           /\ pc[r] = "retire" /\ Does(r, "done", {}, {})
           /\ UNCHANGED <<mesh, subnet, link, wg, fixed, lock, excused>>
<1> USE DEF wg, fixed
<1>1. /\ pc[r] = "retire" /\ Goto(r, "done") /\ active' = active \ hand[r]
      /\ UNCHANGED <<mesh, subnet, link, fresh, wg, fixed, lock, excused>>
  BY DEF Retire
<1>2. Control' /\ Does(r, "done", {}, {})
  BY <1>1, GotoDoes DEF Types, Labels, Inside, WithMesh
<1> QED
  BY <1>1, <1>2 DEF Types, Control, TypeOK, Live

\* Time passes.
LEMMA AgesDoes ==
    ASSUME Types, NEW r \in Reqs, Ages(r)
    PROVE  Types' /\ UNCHANGED <<mesh, subnet, link, wg, fixed, lock, pc, cur, hand, excused>>
BY DEF Ages, Types, Control, TypeOK, Live, wg, fixed

\* The clean-up job deletes meshes and puts their owners on record.
LEMMA CleanUpDoes ==
    ASSUME Types, DeleteStaleSessions
    PROVE  /\ Types'
           /\ \E ms \in SUBSET Live :
                /\ Deleted(ms)
                /\ \A u \in Users : excused[u] \subseteq excused'[u]
                /\ \A m \in ms : excused'[user[m]] # {}
           /\ UNCHANGED <<wg, fixed, lock, pc, cur, hand>>
<1> USE DEF wg, fixed
<1>1. /\ Deleted(Live \ fresh) /\ UNCHANGED <<wg, fixed, lock, pc, cur, hand>>
      /\ excused' = [u \in Users |-> IF SessionOf(u) \ fresh = {} THEN excused[u]
                                     ELSE excused[u] \cup {"reclaimed"}]
  BY DEF DeleteStaleSessions
<1>2. Live \ fresh \in SUBSET Reqs /\ Live \ fresh \in SUBSET Live
  BY DEF Live
<1>3. /\ mesh' \in [Reqs -> {"none", "live", "gone"}]
      /\ link' \in [Reqs -> Peers \cup {NoMember, NoPeer}]
      /\ fresh' \subseteq Live' /\ UNCHANGED <<subnet, active>>
  BY <1>1, <1>2, DeletedTypes
<1>4. /\ excused' \in [Users -> SUBSET Faults]
      /\ \A u \in Users : excused[u] \subseteq excused'[u]
  BY <1>1 DEF Types, TypeOK, Faults
<1>5. \A m \in Live \ fresh : excused'[user[m]] # {}
  <2> SUFFICES ASSUME NEW m \in Live \ fresh PROVE excused'[user[m]] # {}
    OBVIOUS
  <2>1. m \in SessionOf(user[m]) \ fresh /\ user[m] \in Users
    BY DEF SessionOf, Live, Types, TypeOK
  <2> QED
    BY <1>1, <2>1
<1>6. Types'
  BY <1>1, <1>3, <1>4 DEF Types, Control, TypeOK, Faults
<1> QED
  BY <1>1, <1>2, <1>4, <1>5, <1>6

\* A request goes on with what it has, or ends.
Goes(r, l) == IF l = "done" THEN Does(r, "done", {}, {}) ELSE Does(r, l, cur[r], hand[r])

\* A statement fails: the handler gives up, or goes on as if nothing had been
\* at stake; or it puts its user on record.
LEMMA StatementFailsDoes ==
    ASSUME Types, NEW r \in Reqs, StatementFails(r)
    PROVE  /\ Types' /\ Excused(r)
           /\ \A q \in Reqs \ {r} : pc'[q] = pc[q] /\ cur'[q] = cur[q] /\ hand'[q] = hand[q]
           /\ cur'[r] \subseteq cur[r] /\ hand'[r] \subseteq hand[r]
           /\ \/ /\ pc[r] \in {"create", "load"} /\ pc'[r] = "done"
                 /\ lock' = [lock EXCEPT ![user[r]] = {}]
              \/ pc[r] = "member" /\ pc'[r] = "join" /\ cur'[r] = cur[r] /\ UNCHANGED lock
              \/ /\ pc[r] = "touch" /\ pc'[r] = "attach" /\ cur'[r] = cur[r]
                 /\ lock' = [lock EXCEPT ![user[r]] = {}]
              \/ /\ pc[r] = "rollback" /\ pc'[r] = "done" /\ "kept" \in excused'[user[r]]
                 /\ lock' = [lock EXCEPT ![user[r]] = {}]
              \/ /\ pc[r] \in {"attach", "unlist", "unlist all", "member of", "retire"}
                 /\ pc'[r] = "done" /\ UNCHANGED lock
              \/ /\ pc[r] \in {"link", "member of", "members", "unroute", "drop", "sessions",
                               "relink", "reroute", "detach", "clear"}
                 /\ pc'[r] \in {"done", "drop", "reroute", "clear", "retire"}
                 /\ (pc[r] = "link" => pc'[r] = "done")
                 /\ UNCHANGED lock /\ "cut" \in excused'[user[r]]
           /\ UNCHANGED <<tables, wg, fixed>>
<1> USE DEF tables, wg, fixed
<1>1. UNCHANGED <<tables, wg, fixed>>
  BY DEF StatementFails
<1>2. user[r] \in Users /\ excused \in [Users -> SUBSET Faults] /\ lock \in [Users -> SUBSET Reqs]
  BY DEF Types, TypeOK, Faults
<1>3. UNCHANGED excused => Excused(r)
  BY <1>2 DEF Excused
<1>4. Control' /\ Excused(r) /\ lock' \in [Users -> SUBSET Reqs] => Types'
  BY <1>1 DEF Types, TypeOK, Live, Control, Excused, Faults
<1>5. ASSUME NEW l \in {"done", "join", "attach"}, Goto(r, l)
      PROVE  Control' /\ Goes(r, l)
  BY <1>5, GotoDoes DEF Goes, Types, Labels, Inside, WithMesh
<1>6. CASE pc[r] \in {"create", "load"} /\ Leave(r, "done") /\ UNCHANGED excused
  BY <1>1, <1>2, <1>3, <1>4, <1>5, <1>6 DEF Leave, Goes, Does
<1>7. CASE pc[r] = "member" /\ Goto(r, "join") /\ UNCHANGED <<lock, excused>>
  BY <1>1, <1>2, <1>3, <1>4, <1>5, <1>7 DEF Goes, Does
<1>8. CASE pc[r] = "touch" /\ Leave(r, "attach") /\ UNCHANGED excused
  BY <1>1, <1>2, <1>3, <1>4, <1>5, <1>8 DEF Leave, Goes, Does
<1>9. CASE pc[r] = "rollback" /\ Leave(r, "done") /\ Excuse(user[r], {"kept"})
  <2>1. {"kept"} \in SUBSET Faults
    BY DEF Faults
  <2>2. Excused(r) /\ "kept" \in excused'[user[r]]
    BY <1>9, <2>1, ExcuseDoes DEF Types
  <2> QED
    BY <1>1, <1>2, <1>4, <1>5, <1>9, <2>2 DEF Leave, Goes, Does
<1>10. CASE /\ pc[r] \in {"attach", "unlist", "unlist all", "member of", "retire"}
            /\ Goto(r, "done") /\ UNCHANGED <<lock, excused>>
  BY <1>1, <1>2, <1>3, <1>4, <1>5, <1>10 DEF Goes, Does
<1>11. CASE /\ \E l \in {d[2] : d \in Dropped} : <<pc[r], l>> \in Dropped /\ Goto(r, l)
            /\ Excuse(user[r], {"cut"}) /\ UNCHANGED lock
  <2>1. {"cut"} \in SUBSET Faults
    BY DEF Faults
  <2>2. Excused(r) /\ "cut" \in excused'[user[r]]
    BY <1>11, <2>1, ExcuseDoes DEF Types
  <2>3. PICK l : <<pc[r], l>> \in Dropped /\ Goto(r, l)
    BY <1>11
  <2>4. /\ l \in {"done", "drop", "reroute", "clear", "retire"}
        /\ pc[r] \in {"link", "member of", "members", "unroute", "drop", "sessions",
                     "relink", "reroute", "detach", "clear"}
        /\ pc[r] = "link" => l = "done"
        /\ l = "reroute" => pc[r] = "relink"
    BY <2>3 DEF Dropped
  <2>5. l \in Labels /\ (l \in {"link", "sessions", "relink", "reroute"} => One(hand[r]))
    BY <2>4 DEF Labels, WithMesh, Types, Control, One
  <2>6. Control' /\ Goes(r, l)
    BY <2>3, <2>5, GotoDoes DEF Goes, Types
  <2> QED
    BY <1>1, <1>2, <1>4, <1>11, <2>2, <2>4, <2>6 DEF Goes, Does
<1> QED
  BY <1>6, <1>7, <1>8, <1>9, <1>10, <1>11 DEF StatementFails

\* A late attempt puts the owner of the connection on record.
LEMMA LateAttemptDoes ==
    ASSUME Types, NEW p \in Peers, LateAttempt(p)
    PROVE  /\ Types'
           /\ excused'[owner[p]] # {} /\ \A u \in Users : excused[u] \subseteq excused'[u]
           /\ \/ p \in device /\ device' = device \ {p} /\ routed' = Unrouted({p})
              \/ p \notin device /\ device' = device \cup {p} /\ UNCHANGED routed
           /\ UNCHANGED <<tables, fixed, lock, pc, cur, hand>>
<1> USE DEF tables, fixed
<1>1. /\ Excuse(owner[p], {"late"}) /\ UNCHANGED <<tables, fixed, lock, pc, cur, hand>>
      /\ \/ p \in device /\ device' = device \ {p} /\ routed' = Unrouted({p})
         \/ p \notin device /\ device' = device \cup {p} /\ UNCHANGED routed
  BY DEF LateAttempt
<1>2. /\ owner[p] \in Users /\ excused \in [Users -> SUBSET Faults]
      /\ device \subseteq Peers /\ routed \in [Peers -> 0 .. MaxSubnet]
  BY DEF Types, TypeOK, Faults
<1>3. /\ excused' \in [Users -> SUBSET Faults] /\ "late" \in excused'[owner[p]]
      /\ \A u \in Users : excused[u] \subseteq excused'[u]
  BY <1>1, <1>2 DEF Excuse, Faults
<1>4. device' \subseteq Peers /\ routed' \in [Peers -> 0 .. MaxSubnet]
  BY <1>1, <1>2, SubnetAssumption DEF Unrouted
<1>5. Types'
  BY <1>1, <1>3, <1>4 DEF Types, TypeOK, Control, Live, Faults
<1> QED
  BY <1>1, <1>3, <1>5

-----------------------------------------------------------------------------
(***************************************************************************)
(* What holds of every behaviour, one step at a time.                      *)
(***************************************************************************)
\* Nothing is struck from the record.
LEMMA RecordKept ==
    ASSUME Types, [Next]_vars
    PROVE  \A u \in Users : excused[u] \subseteq excused'[u]
<1>0. user \in [Reqs -> Users]
  BY DEF Types, TypeOK
<1>1. ASSUME NEW r \in Reqs, Excused(r) PROVE \A u \in Users : excused[u] \subseteq excused'[u]
  BY <1>0, <1>1 DEF Excused
<1>2. ASSUME NEW r \in Reqs,
             \/ Activate(r) \/ Deactivate(r) \/ Connect(r) \/ Disconnect(r)
             \/ Step(r) \/ StatementFails(r) \/ Ages(r)
      PROVE  \A u \in Users : excused[u] \subseteq excused'[u]
  <2>1. CASE Activate(r) \/ Deactivate(r) \/ Connect(r) \/ Disconnect(r) \/ StatementFails(r)
    BY <1>1, <2>1, ActivateDoes, DeactivateDoes, ConnectDoes, DisconnectDoes, StatementFailsDoes, Zenon
  <2>2. CASE Ages(r)
    BY <2>2, AgesDoes
  <2>3. CASE List(r) \/ PickSubnet(r)
    BY <1>1, <2>3, ListDoes, PickSubnetDoes
  <2>4. CASE \/ Lock(r) \/ Member(r) \/ Join(r) \/ Touch(r)
             \/ Create(r) \/ LoadExisting(r) \/ Enrol(r) \/ Rollback(r)
    BY <2>4, LockDoes, MemberDoes, JoinDoes, TouchDoes, CreateDoes, LoadExistingDoes, EnrolDoes, RollbackDoes
  <2>5. CASE \/ Attach(r) \/ AttachRoute(r) \/ AttachLink(r)
             \/ Unlist(r) \/ Members(r) \/ Unroute(r) \/ Drop(r)
    BY <2>5, AttachDoes, AttachRouteDoes, AttachLinkDoes, UnlistDoes, MembersDoes, UnrouteDoes, DropDoes
  <2>6. CASE \/ Sessions(r) \/ Relink(r) \/ Reroute(r)
             \/ Detach(r) \/ Clear(r) \/ Retire(r)
    BY <2>6, SessionsDoes, RelinkDoes, RerouteDoes, DetachDoes, ClearDoes, RetireDoes
  <2> QED
    BY <1>2, <2>1, <2>2, <2>3, <2>4, <2>5, <2>6 DEF Step
<1>3. CASE DeleteStaleSessions
  BY <1>3, CleanUpDoes
<1>4. CASE \E p \in Peers : LateAttempt(p)
  BY <1>4, LateAttemptDoes
<1>5. CASE UNCHANGED vars
  BY <1>5 DEF vars
<1> QED
  BY <1>2, <1>3, <1>4, <1>5 DEF Next

\* The lock of ensureAutoMesh is one per user.
LEMMA LockedStep ==
    ASSUME Types, Locked, [Next]_vars
    PROVE  Locked'
<1> USE DEF tables, wg, fixed
<1>1. lock \in [Users -> SUBSET Reqs] /\ user \in [Reqs -> Users]
  BY DEF Types, TypeOK
<1>2. ASSUME NEW r \in Reqs,
             Activate(r) \/ Deactivate(r) \/ Connect(r) \/ Disconnect(r) \/ Step(r) \/ Ages(r)
      PROVE  Locked'
  <2>1. CASE Activate(r)
    BY <1>1, <2>1, ActivateDoes DEF Does, Locked, Inside
  <2>2. CASE Deactivate(r)
    BY <1>1, <2>2, DeactivateDoes, ZenonT(60) DEF Does, Locked, Inside
  <2>3. CASE Connect(r)
    BY <1>1, <2>3, ConnectDoes DEF Does, Locked, Inside
  <2>4. CASE Disconnect(r)
    <3>1. PICK p \in active, l \in {"detach", "retire"} :
            owner[p] = user[r] /\ Does(r, l, {}, {p}) /\ UNCHANGED <<tables, fixed, lock>>
      BY <2>4, DisconnectDoes
    <3> QED
      BY <1>1, <3>1 DEF Does, Locked, Inside
  <2>5. CASE Lock(r)
    BY <1>1, <2>5, LockDoes DEF Does, Locked, Inside
  <2>6. CASE List(r)
    BY <1>1, <2>6, ListDoes DEF Does, Locked, Inside
  <2>7. CASE Member(r)
    BY <1>1, <2>7, MemberDoes DEF Does, Locked, Inside
  <2>8. CASE Join(r)
    BY <1>1, <2>8, JoinDoes DEF Does, Locked, Inside
  <2>9. CASE Touch(r)
    BY <1>1, <2>9, TouchDoes DEF Does, Locked, Inside
  <2>10. CASE PickSubnet(r)
    BY <1>1, <2>10, PickSubnetDoes DEF Does, Locked, Inside
  <2>11. CASE Create(r)
    BY <1>1, <2>11, CreateDoes DEF Does, Locked, Inside
  <2>12. CASE LoadExisting(r)
    BY <1>1, <2>12, LoadExistingDoes DEF Does, Locked, Inside
  <2>13. CASE Enrol(r)
    BY <1>1, <2>13, EnrolDoes DEF Does, Locked, Inside
  <2>14. CASE Rollback(r)
    BY <1>1, <2>14, RollbackDoes DEF Does, Locked, Inside
  <2>15. CASE Attach(r)
    BY <1>1, <2>15, AttachDoes DEF Does, Locked, Inside
  <2>16. CASE AttachRoute(r)
    BY <1>1, <2>16, AttachRouteDoes DEF Does, Locked, Inside
  <2>17. CASE AttachLink(r)
    BY <1>1, <2>17, AttachLinkDoes DEF Does, Locked, Inside
  <2>18. CASE Unlist(r)
    BY <1>1, <2>18, UnlistDoes, ZenonT(60) DEF Does, Locked, Inside
  <2>19. CASE Members(r)
    BY <1>1, <2>19, MembersDoes, ZenonT(60) DEF Does, Locked, Inside
  <2>20. CASE Unroute(r)
    BY <1>1, <2>20, UnrouteDoes, ZenonT(60) DEF Does, Locked, Inside
  <2>21. CASE Drop(r)
    BY <1>1, <2>21, DropDoes DEF Does, Locked, Inside
  <2>22. CASE Sessions(r)
    BY <1>1, <2>22, SessionsDoes DEF Does, Locked, Inside
  <2>23. CASE Relink(r)
    BY <1>1, <2>23, RelinkDoes DEF Does, Locked, Inside
  <2>24. CASE Reroute(r)
    BY <1>1, <2>24, RerouteDoes DEF Does, Locked, Inside
  <2>25. CASE Detach(r)
    BY <1>1, <2>25, DetachDoes, ZenonT(60) DEF Does, Locked, Inside
  <2>26. CASE Clear(r)
    BY <1>1, <2>26, ClearDoes DEF Does, Locked, Inside
  <2>27. CASE Retire(r)
    BY <1>1, <2>27, RetireDoes DEF Does, Locked, Inside
  <2>28. CASE Ages(r)
    BY <1>1, <2>28, AgesDoes DEF Does, Locked, Inside
  <2> QED
    BY <1>2, <2>1, <2>2, <2>3, <2>4, <2>5, <2>6, <2>7, <2>8, <2>9, <2>10, <2>11, <2>12, <2>13,
       <2>14, <2>15, <2>16, <2>17, <2>18, <2>19, <2>20, <2>21, <2>22, <2>23, <2>24, <2>25,
       <2>26, <2>27, <2>28 DEF Step
<1>3. CASE DeleteStaleSessions
  BY <1>1, <1>3, CleanUpDoes DEF Does, Locked, Inside
<1>4. CASE UNCHANGED vars
  BY <1>1, <1>4 DEF vars, Does, Locked, Inside
<1>5. ASSUME NEW r \in Reqs, StatementFails(r)
      PROVE  Locked'
  <2>1. /\ \A q \in Reqs \ {r} : pc'[q] = pc[q]
        /\ user' = user
    BY <1>5, StatementFailsDoes
  <2>2. \/ /\ pc[r] \in Inside /\ pc'[r] \notin Inside
           /\ lock' = [lock EXCEPT ![user[r]] = {}]
        \/ lock' = lock /\ (pc'[r] \in Inside => pc[r] \in Inside)
    BY <1>5, StatementFailsDoes DEF Inside
  <2> QED
    BY <1>1, <2>1, <2>2 DEF Locked
<1>6. ASSUME NEW p \in Peers, LateAttempt(p)
      PROVE  Locked'
  BY <1>1, <1>6, LateAttemptDoes DEF Locked
<1> QED
  BY <1>2, <1>3, <1>4, <1>5, <1>6 DEF Next

\* Requests and memberships stay with their user.
LEMMA OwnStep ==
    ASSUME Types, Own, [Next]_vars
    PROVE  Own'
<1> USE DEF tables, wg, fixed
<1>1. /\ link \in [Reqs -> Peers \cup {NoMember, NoPeer}] /\ user \in [Reqs -> Users]
      /\ \A q \in Reqs : cur[q] \subseteq Reqs /\ hand[q] \subseteq Peers
      /\ NoMember \notin Peers /\ NoPeer \notin Peers
  BY NobodyAssumption DEF Types, TypeOK, Control
<1>2. ASSUME NEW r \in Reqs,
             Activate(r) \/ Deactivate(r) \/ Connect(r) \/ Disconnect(r) \/ Step(r) \/ Ages(r)
      PROVE  Own'
  <2>1. CASE Activate(r)
    BY <1>1, <2>1, ActivateDoes DEF Does, Own
  <2>2. CASE Deactivate(r)
    <3>1. PICK l \in {"unlist", "unlist all"} : Does(r, l, {}, {}) /\ UNCHANGED <<link, owner, user>>
      BY <2>2, DeactivateDoes
    <3>2. \A q \in Reqs : cur'[q] \subseteq cur[q] /\ hand'[q] \subseteq hand[q]
      BY <3>1 DEF Does
    <3> QED
      BY <1>1, <3>1, <3>2 DEF Own
  <2>3. CASE Connect(r)
    BY <1>1, <2>3, ConnectDoes DEF Does, Own
  <2>4. CASE Disconnect(r)
    <3>1. PICK p \in active, l \in {"detach", "retire"} :
            owner[p] = user[r] /\ Does(r, l, {}, {p}) /\ UNCHANGED <<link, owner, user>>
      BY <2>4, DisconnectDoes
    <3>2. \A q \in Reqs : cur'[q] \subseteq cur[q] /\ (hand'[q] \subseteq hand[q] \/ (q = r /\ hand'[q] = {p}))
      BY <3>1 DEF Does
    <3> QED
      BY <1>1, <3>1, <3>2 DEF Own
  <2>5. CASE Lock(r)
    BY <1>1, <2>5, LockDoes DEF Does, Own
  <2>6. CASE List(r)
    BY <1>1, <2>6, ListDoes DEF Does, Own, SessionOf
  <2>7. CASE Member(r)
    BY <1>1, <2>7, MemberDoes DEF Does, Own
  <2>8. CASE Join(r)
    BY <1>1, <2>8, JoinDoes DEF Does, Own, AddMember
  <2>9. CASE Touch(r)
    BY <1>1, <2>9, TouchDoes DEF Does, Own
  <2>10. CASE PickSubnet(r)
    BY <1>1, <2>10, PickSubnetDoes DEF Does, Own
  <2>11. CASE Create(r)
    BY <1>1, <2>11, CreateDoes DEF Does, Own
  <2>12. CASE LoadExisting(r)
    BY <1>1, <2>12, LoadExistingDoes DEF Does, Own, SessionOf
  <2>13. CASE Enrol(r)
    BY <1>1, <2>13, EnrolDoes DEF Does, Own, AddMember
  <2>14. CASE Rollback(r)
    BY <1>1, <2>14, RollbackDoes DEF Does, Own, Deleted
  <2>15. CASE Attach(r)
    BY <1>1, <2>15, AttachDoes DEF Does, Own
  <2>16. CASE AttachRoute(r)
    BY <1>1, <2>16, AttachRouteDoes DEF Does, Own
  <2>17. CASE AttachLink(r)
    BY <1>1, <2>17, AttachLinkDoes DEF Does, Own, Linked
  <2>18. CASE Unlist(r)
    <3>1. UNCHANGED <<link, owner, user>>
      BY <2>18, UnlistDoes
    <3>2. \A q \in Reqs : /\ cur'[q] \subseteq cur[q] \/ (q = r /\ cur'[q] = SessionOf(user[r]))
                         /\ hand'[q] \subseteq hand[q]
      BY <2>18, UnlistDoes DEF Does
    <3> QED
      BY <1>1, <3>1, <3>2 DEF Own, SessionOf
  <2>19. CASE Members(r)
    <3>1. UNCHANGED <<link, owner, user>>
      BY <2>19, MembersDoes
    <3>2. \A q \in Reqs : /\ cur'[q] \subseteq cur[q]
                         /\ hand'[q] \subseteq hand[q] \cup ({link[m] : m \in cur[q]} \ {NoMember, NoPeer})
      BY <2>19, MembersDoes DEF Does
    <3>3. \A q \in Reqs : \A p \in hand'[q] :
            p \in hand[q] \/ \E m \in cur[q] : p = link[m] /\ link[m] \notin {NoMember, NoPeer}
      BY <3>2
    <3> QED
      BY <1>1, <3>1, <3>2, <3>3 DEF Own
  <2>20. CASE Unroute(r)
    <3>1. Does(r, "drop", cur[r], hand[r]) /\ UNCHANGED <<link, owner, user>>
      BY <2>20, UnrouteDoes
    <3> QED
      BY <1>1, <3>1 DEF Does, Own
  <2>21. CASE Drop(r)
    BY <1>1, <2>21, DropDoes DEF Does, Own, Deleted
  <2>22. CASE Sessions(r)
    BY <1>1, <2>22, SessionsDoes DEF Does, Own, SessionOf
  <2>23. CASE Relink(r)
    BY <1>1, <2>23, RelinkDoes DEF Does, Own, Linked
  <2>24. CASE Reroute(r)
    BY <1>1, <2>24, RerouteDoes DEF Does, Own
  <2>25. CASE Detach(r)
    <3>1. Does(r, "clear", cur[r], hand[r]) /\ UNCHANGED <<link, owner, user>>
      BY <2>25, DetachDoes
    <3> QED
      BY <1>1, <3>1 DEF Does, Own
  <2>26. CASE Clear(r)
    BY <1>1, <2>26, ClearDoes DEF Does, Own
  <2>27. CASE Retire(r)
    BY <1>1, <2>27, RetireDoes DEF Does, Own
  <2>28. CASE Ages(r)
    BY <1>1, <2>28, AgesDoes DEF Does, Own
  <2> QED
    BY <1>2, <2>1, <2>2, <2>3, <2>4, <2>5, <2>6, <2>7, <2>8, <2>9, <2>10, <2>11, <2>12, <2>13,
       <2>14, <2>15, <2>16, <2>17, <2>18, <2>19, <2>20, <2>21, <2>22, <2>23, <2>24, <2>25,
       <2>26, <2>27, <2>28 DEF Step
<1>3. CASE DeleteStaleSessions
  BY <1>1, <1>3, CleanUpDoes DEF Own, Deleted
<1>4. CASE UNCHANGED vars
  BY <1>1, <1>4 DEF vars, Does, Own
<1>5. ASSUME NEW r \in Reqs, StatementFails(r)
      PROVE  Own'
  <2>1. \A q \in Reqs : cur'[q] \subseteq cur[q] /\ hand'[q] \subseteq hand[q]
    BY <1>5, StatementFailsDoes
  <2>2. UNCHANGED <<link, owner, user>>
    BY <1>5, StatementFailsDoes
  <2> QED
    BY <1>1, <2>1, <2>2 DEF Own
<1>6. ASSUME NEW p \in Peers, LateAttempt(p)
      PROVE  Own'
  <2>1. UNCHANGED <<link, owner, user, cur, hand>>
    BY <1>6, LateAttemptDoes
  <2> QED
    BY <1>1, <2>1 DEF Own
<1> QED
  BY <1>2, <1>3, <1>4, <1>5, <1>6 DEF Next

\* Only connections on the interface have a route.
LEMMA OnDeviceStep ==
    ASSUME Types, OnDevice, [Next]_vars
    PROVE  OnDevice'
<1> USE DEF tables, wg, fixed
<1>1. /\ device \subseteq Peers /\ routed \in [Peers -> 0 .. MaxSubnet]
      /\ \A q \in Reqs : hand[q] \subseteq Peers
  BY DEF Types, TypeOK, Control
<1>2. ASSUME NEW r \in Reqs,
             Activate(r) \/ Deactivate(r) \/ Connect(r) \/ Disconnect(r) \/ Step(r) \/ Ages(r)
      PROVE  OnDevice'
  <2>1. CASE Activate(r)
    BY <1>1, <2>1, ActivateDoes DEF OnDevice
  <2>2. CASE Deactivate(r)
    BY <1>1, <2>2, DeactivateDoes DEF OnDevice
  <2>3. CASE Connect(r)
    BY <1>1, <2>3, ConnectDoes DEF OnDevice
  <2>4. CASE Disconnect(r)
    BY <1>1, <2>4, DisconnectDoes DEF OnDevice, Unrouted
  <2>5. CASE Lock(r)
    BY <1>1, <2>5, LockDoes DEF OnDevice
  <2>6. CASE List(r)
    BY <1>1, <2>6, ListDoes DEF OnDevice
  <2>7. CASE Member(r)
    BY <1>1, <2>7, MemberDoes DEF OnDevice
  <2>8. CASE Join(r)
    BY <1>1, <2>8, JoinDoes DEF OnDevice
  <2>9. CASE Touch(r)
    BY <1>1, <2>9, TouchDoes DEF OnDevice
  <2>10. CASE PickSubnet(r)
    BY <1>1, <2>10, PickSubnetDoes DEF OnDevice
  <2>11. CASE Create(r)
    BY <1>1, <2>11, CreateDoes DEF OnDevice
  <2>12. CASE LoadExisting(r)
    BY <1>1, <2>12, LoadExistingDoes DEF OnDevice
  <2>13. CASE Enrol(r)
    BY <1>1, <2>13, EnrolDoes DEF OnDevice
  <2>14. CASE Rollback(r)
    BY <1>1, <2>14, RollbackDoes DEF OnDevice
  <2>15. CASE Attach(r)
    BY <1>1, <2>15, AttachDoes DEF OnDevice
  <2>16. CASE AttachRoute(r)
    BY <1>1, <2>16, AttachRouteDoes DEF OnDevice, Routed
  <2>17. CASE AttachLink(r)
    BY <1>1, <2>17, AttachLinkDoes DEF OnDevice
  <2>18. CASE Unlist(r)
    BY <1>1, <2>18, UnlistDoes DEF OnDevice
  <2>19. CASE Members(r)
    BY <1>1, <2>19, MembersDoes DEF OnDevice
  <2>20. CASE Unroute(r)
    BY <1>1, <2>20, UnrouteDoes DEF OnDevice, Unrouted
  <2>21. CASE Drop(r)
    BY <1>1, <2>21, DropDoes DEF OnDevice
  <2>22. CASE Sessions(r)
    BY <1>1, <2>22, SessionsDoes DEF OnDevice
  <2>23. CASE Relink(r)
    BY <1>1, <2>23, RelinkDoes DEF OnDevice
  <2>24. CASE Reroute(r)
    BY <1>1, <2>24, RerouteDoes DEF OnDevice, Routed
  <2>25. CASE Detach(r)
    BY <1>1, <2>25, DetachDoes DEF OnDevice, Unrouted
  <2>26. CASE Clear(r)
    BY <1>1, <2>26, ClearDoes DEF OnDevice
  <2>27. CASE Retire(r)
    BY <1>1, <2>27, RetireDoes DEF OnDevice
  <2>28. CASE Ages(r)
    BY <1>1, <2>28, AgesDoes DEF OnDevice
  <2> QED
    BY <1>2, <2>1, <2>2, <2>3, <2>4, <2>5, <2>6, <2>7, <2>8, <2>9, <2>10, <2>11, <2>12, <2>13,
       <2>14, <2>15, <2>16, <2>17, <2>18, <2>19, <2>20, <2>21, <2>22, <2>23, <2>24, <2>25,
       <2>26, <2>27, <2>28 DEF Step
<1>3. CASE DeleteStaleSessions
  BY <1>1, <1>3, CleanUpDoes DEF OnDevice
<1>4. CASE UNCHANGED vars
  BY <1>1, <1>4 DEF vars, OnDevice
<1>5. ASSUME NEW r \in Reqs, StatementFails(r)
      PROVE  OnDevice'
  BY <1>1, <1>5, StatementFailsDoes DEF OnDevice
<1>6. ASSUME NEW p \in Peers, LateAttempt(p)
      PROVE  OnDevice'
  BY <1>1, <1>6, LateAttemptDoes DEF OnDevice, Unrouted
<1> QED
  BY <1>2, <1>3, <1>4, <1>5, <1>6 DEF Next

\* A request that has inserted no mesh and touches no table ...
Apart(r) ==
    /\ pc[r] \notin {"enrol", "rollback", "attach", "route", "link", "done"} /\ pc'[r] # "create"
    /\ \A q \in Reqs \ {r} : pc'[q] = pc[q] /\ cur'[q] = cur[q]
    /\ UNCHANGED <<mesh, subnet, link, user>>

\* The record only grows, for the owners of meshes.
Growing == \A q \in Reqs : excused[user[q]] \subseteq excused'[user[q]]

\* ... keeps the rows.
LEMMA RowsKept == ASSUME Types, Rows, Growing, NEW r \in Reqs, Apart(r) PROVE Rows'
<1>1. mesh[r] = "none"
  BY DEF Rows, Apart
<1>2. Live' = Live
  BY DEF Live, Apart
<1>3. ASSUME NEW m \in Live, link[m] = NoMember
      PROVE  "kept" \in excused'[user[m]] \/ (pc'[m] \in {"enrol", "rollback"} /\ cur'[m] = {m})
  <2>1. m \in Reqs \ {r}
    BY <1>1 DEF Live
  <2> QED
    BY <1>3, <2>1 DEF Rows, Apart, Growing
<1> QED
  BY <1>1, <1>2, <1>3 DEF Rows, Apart

\* Meshes keep their subnets, their one owner and their member.
LEMMA RowsStep ==
    ASSUME Types, Rows, [Next]_vars
    PROVE  Rows'
<1> USE DEF tables, wg, fixed
<1>1. /\ link \in [Reqs -> Peers \cup {NoMember, NoPeer}] /\ user \in [Reqs -> Users]
      /\ mesh \in [Reqs -> {"none", "live", "gone"}] /\ subnet \in [Reqs -> 0 .. MaxSubnet]
      /\ \A q \in Reqs : cur[q] \subseteq Reqs /\ hand[q] \subseteq Peers
      /\ NoMember \notin Peers /\ NoMember # NoPeer /\ Growing
  BY NobodyAssumption, RecordKept DEF Types, TypeOK, Control, Growing
<1>2. ASSUME NEW r \in Reqs,
             Activate(r) \/ Deactivate(r) \/ Connect(r) \/ Disconnect(r) \/ Step(r) \/ Ages(r)
      PROVE  Rows'
  <2>1. CASE Activate(r)
    <3>1. Apart(r)
      BY <2>1, ActivateDoes DEF Apart, Does
    <3> QED
      BY <1>1, <3>1, RowsKept
  <2>2. CASE Deactivate(r)
    <3>1. Apart(r)
      BY <2>2, DeactivateDoes DEF Apart, Does
    <3> QED
      BY <1>1, <3>1, RowsKept
  <2>3. CASE Connect(r)
    <3>1. Apart(r)
      BY <2>3, ConnectDoes DEF Apart, Does
    <3> QED
      BY <1>1, <3>1, RowsKept
  <2>4. CASE Disconnect(r)
    <3>1. Apart(r)
      BY <2>4, DisconnectDoes DEF Apart, Does
    <3> QED
      BY <1>1, <3>1, RowsKept
  <2>5. CASE Lock(r)
    BY <1>1, <2>5, LockDoes DEF Does, Growing, Rows, Live
  <2>6. CASE List(r)
    BY <1>1, <2>6, ListDoes DEF Does, Growing, Rows, Live
  <2>7. CASE Member(r)
    BY <1>1, <2>7, MemberDoes DEF Does, Growing, Rows, Live
  <2>8. CASE Join(r)
    BY <1>1, <2>8, JoinDoes DEF Does, Growing, Rows, Live, AddMember
  <2>9. CASE Touch(r)
    BY <1>1, <2>9, TouchDoes DEF Does, Growing, Rows, Live
  <2>10. CASE PickSubnet(r)
    BY <1>1, <2>10, PickSubnetDoes DEF Does, Growing, Rows, Live
  <2>11. CASE Create(r)
    BY <1>1, <2>11, CreateDoes DEF Does, Growing, Rows, Live, SessionOf
  <2>12. CASE LoadExisting(r)
    BY <1>1, <2>12, LoadExistingDoes DEF Does, Growing, Rows, Live
  <2>13. CASE Enrol(r)
    BY <1>1, <2>13, EnrolDoes DEF Does, Growing, Rows, Live, AddMember
  <2>14. CASE Rollback(r)
    BY <1>1, <2>14, RollbackDoes DEF Does, Growing, Rows, Live, Deleted
  <2>15. CASE Attach(r)
    BY <1>1, <2>15, AttachDoes DEF Does, Growing, Rows, Live
  <2>16. CASE AttachRoute(r)
    BY <1>1, <2>16, AttachRouteDoes DEF Does, Growing, Rows, Live
  <2>17. CASE AttachLink(r)
    BY <1>1, <2>17, AttachLinkDoes DEF Does, Growing, Rows, Live, Linked
  <2>18. CASE Unlist(r)
    <3>1. Apart(r)
      BY <2>18, UnlistDoes DEF Apart, Does
    <3> QED
      BY <1>1, <3>1, RowsKept
  <2>19. CASE Members(r)
    <3>1. Apart(r)
      BY <2>19, MembersDoes DEF Apart, Does
    <3> QED
      BY <1>1, <3>1, RowsKept
  <2>20. CASE Unroute(r)
    <3>1. Apart(r)
      BY <2>20, UnrouteDoes DEF Apart, Does
    <3> QED
      BY <1>1, <3>1, RowsKept
  <2>21. CASE Drop(r)
    BY <1>1, <2>21, DropDoes DEF Does, Growing, Rows, Live, Deleted
  <2>22. CASE Sessions(r)
    <3>1. Apart(r)
      BY <2>22, SessionsDoes DEF Apart, Does
    <3> QED
      BY <1>1, <3>1, RowsKept
  <2>23. CASE Relink(r)
    BY <1>1, <2>23, RelinkDoes DEF Does, Growing, Rows, Live, Linked
  <2>24. CASE Reroute(r)
    <3>1. Apart(r)
      BY <2>24, RerouteDoes DEF Apart, Does
    <3> QED
      BY <1>1, <3>1, RowsKept
  <2>25. CASE Detach(r)
    <3>1. Apart(r)
      BY <2>25, DetachDoes DEF Apart, Does
    <3> QED
      BY <1>1, <3>1, RowsKept
  <2>26. CASE Clear(r)
    BY <1>1, <2>26, ClearDoes DEF Does, Growing, Rows, Live
  <2>27. CASE Retire(r)
    BY <1>1, <2>27, RetireDoes DEF Does, Growing, Rows, Live
  <2>28. CASE Ages(r)
    BY <1>1, <2>28, AgesDoes DEF Does, Growing, Rows, Live
  <2> QED
    BY <1>2, <2>1, <2>2, <2>3, <2>4, <2>5, <2>6, <2>7, <2>8, <2>9, <2>10, <2>11, <2>12, <2>13,
       <2>14, <2>15, <2>16, <2>17, <2>18, <2>19, <2>20, <2>21, <2>22, <2>23, <2>24, <2>25,
       <2>26, <2>27, <2>28 DEF Step
<1>3. CASE DeleteStaleSessions
  BY <1>1, <1>3, CleanUpDoes DEF Growing, Rows, Deleted, Live
<1>4. CASE UNCHANGED vars
  BY <1>1, <1>4 DEF vars, Does, Rows, Live
<1>5. ASSUME NEW r \in Reqs, StatementFails(r)
      PROVE  Rows'
  <2>1. /\ UNCHANGED <<mesh, subnet, link, user>> /\ pc'[r] # "create"
        /\ \A q \in Reqs \ {r} : pc'[q] = pc[q] /\ cur'[q] = cur[q]
        /\ pc[r] = "enrol" => FALSE
        /\ pc[r] = "rollback" => "kept" \in excused'[user[r]]
        /\ pc[r] \in {"rollback", "attach", "route", "link", "done"} => pc'[r] = "done"
    BY <1>5, StatementFailsDoes
  <2>2. Live' = Live
    BY <2>1 DEF Live
  <2>3. ASSUME NEW m \in Live, link[m] = NoMember
        PROVE  "kept" \in excused'[user[m]] \/ (pc'[m] \in {"enrol", "rollback"} /\ cur'[m] = {m})
    BY <1>1, <2>1, <2>3 DEF Rows, Growing, Live
  <2>4. \A q \in Reqs : mesh[q] # "none" =>
          pc'[q] \in {"enrol", "rollback", "attach", "route", "link", "done"}
    BY <2>1 DEF Rows
  <2> QED
    BY <2>1, <2>2, <2>3, <2>4 DEF Rows
<1>6. ASSUME NEW p \in Peers, LateAttempt(p)
      PROVE  Rows'
  <2>1. UNCHANGED <<mesh, subnet, link, user, pc, cur>>
    BY <1>6, LateAttemptDoes DEF tables, fixed
  <2> QED
    BY <1>1, <2>1 DEF Rows, Live, Growing
<1> QED
  BY <1>2, <1>3, <1>4, <1>5, <1>6 DEF Next

\* ensureAutoMesh runs once at a time for a user.
LEMMA Exclusive ==
    ASSUME Locked
    PROVE  \A r, q \in Reqs : pc[r] \in Inside /\ pc[q] \in Inside /\ user[r] = user[q] => r = q
BY DEF Locked

\* A step that touches no table, to a label outside the creation of a mesh ...
Aside(r) ==
    /\ pc'[r] \notin {"subnet", "create", "load", "enrol", "rollback"}
    /\ \A q \in Reqs \ {r} : pc'[q] = pc[q] /\ cur'[q] = cur[q]
    /\ \A q \in Reqs : excused[user[q]] \subseteq excused'[user[q]]
    /\ UNCHANGED <<mesh, link, user>>

\* ... has nothing to see.
LEMMA SightedKept == ASSUME Types, Sighted, NEW r \in Reqs, Aside(r) PROVE Sighted'
BY DEF Sighted, SessionOf, Live, Aside

\* A request that has seen its user's meshes creates its own or none.
LEMMA SightedStep ==
    ASSUME Types, Locked, Own, Rows, Sighted, [Next]_vars
    PROVE  Sighted'
<1> USE DEF tables, wg, fixed
<1>1. /\ link \in [Reqs -> Peers \cup {NoMember, NoPeer}] /\ user \in [Reqs -> Users]
      /\ mesh \in [Reqs -> {"none", "live", "gone"}]
      /\ \A q \in Reqs : cur[q] \subseteq Reqs /\ hand[q] \subseteq Peers
      /\ NoMember \notin Peers /\ NoMember # NoPeer /\ Growing
  BY NobodyAssumption, RecordKept DEF Types, TypeOK, Control, Growing
<1>2. ASSUME NEW r \in Reqs,
             Activate(r) \/ Deactivate(r) \/ Connect(r) \/ Disconnect(r) \/ Step(r) \/ Ages(r)
      PROVE  Sighted'
  <2>1. CASE Activate(r)
    <3>1. Aside(r)
      BY <1>1, <2>1, ActivateDoes DEF Aside, Does, Excused
    <3> QED
      BY <3>1, SightedKept
  <2>2. CASE Deactivate(r)
    <3>1. Aside(r)
      BY <1>1, <2>2, DeactivateDoes, ZenonT(60) DEF Aside, Does, Excused
    <3> QED
      BY <3>1, SightedKept
  <2>3. CASE Connect(r)
    <3>1. Aside(r)
      BY <1>1, <2>3, ConnectDoes DEF Aside, Does, Excused
    <3> QED
      BY <3>1, SightedKept
  <2>4. CASE Disconnect(r)
    <3>1. Aside(r)
      <4>1. PICK p \in active, l \in {"detach", "retire"} : Does(r, l, {}, {p})
        BY <2>4, DisconnectDoes
      <4>2. Excused(r) /\ UNCHANGED <<mesh, link, user>>
        BY <2>4, DisconnectDoes
      <4> QED
        BY <1>1, <4>1, <4>2 DEF Aside, Does, Excused
    <3> QED
      BY <3>1, SightedKept
  <2>5. CASE Lock(r)
    <3>1. Aside(r)
      BY <1>1, <2>5, LockDoes DEF Aside, Does
    <3> QED
      BY <3>1, SightedKept
  <2>6. CASE List(r)
    BY <1>1, <2>6, ListDoes DEF Does, Sighted, SessionOf, Live, Excused
  <2>7. CASE Member(r)
    <3>1. Aside(r)
      BY <1>1, <2>7, MemberDoes DEF Aside, Does
    <3> QED
      BY <3>1, SightedKept
  <2>8. CASE Join(r)
    <3>1. /\ AddMember(r) \/ UNCHANGED <<mesh, link>>
          /\ pc[r] = "join" /\ pc'[r] \in {"touch", "done"} /\ UNCHANGED <<mesh, user, excused>>
          /\ \A q \in Reqs \ {r} : pc'[q] = pc[q] /\ cur'[q] = cur[q]
          /\ \A q \in Reqs \ {r} : user[q] = user[r] => pc[q] \notin Inside
      BY <2>8, JoinDoes DEF Does, Inside, tables, AddMember, Locked
    <3> QED
      BY <1>1, <3>1 DEF AddMember, Own, Inside, Sighted, SessionOf, Live
  <2>9. CASE Touch(r)
    BY <1>1, <2>9, TouchDoes DEF Does, Sighted, SessionOf, Live
  <2>10. CASE PickSubnet(r)
    BY <1>1, <2>10, PickSubnetDoes DEF Does, Sighted, SessionOf, Live, Growing
  <2>11. CASE Create(r)
    <3>1. pc[r] = "create" /\ UNCHANGED <<link, user, excused>>
      BY <2>11, CreateDoes
    <3>2. /\ link[r] = NoMember
          /\ \A q \in Reqs \ {r} : user[q] = user[r] => pc[q] \notin Inside
      BY <3>1 DEF Rows, Live, Locked, Inside
    <3>3. CASE SessionOf(user[r]) = {} /\ Does(r, "enrol", {r}, {}) /\ mesh' = [mesh EXCEPT ![r] = "live"]
      BY <1>1, <3>1, <3>2, <3>3 DEF Does, Sighted, SessionOf, Live, Inside
    <3>4. CASE SessionOf(user[r]) # {} /\ Does(r, "load", cur[r], hand[r]) /\ UNCHANGED mesh
      BY <1>1, <3>1, <3>4 DEF Does, Sighted, SessionOf, Live
    <3> QED
      BY <2>11, <3>3, <3>4, CreateDoes
  <2>12. CASE LoadExisting(r)
    BY <1>1, <2>12, LoadExistingDoes DEF Does, Sighted, SessionOf, Live
  <2>13. CASE Enrol(r)
    <3>1. /\ \/ AddMember(r) /\ pc'[r] = "attach"
             \/ UNCHANGED <<mesh, link>> /\ pc'[r] = "rollback" /\ cur'[r] = cur[r]
          /\ pc[r] = "enrol" /\ UNCHANGED <<mesh, user, excused>>
          /\ \A q \in Reqs \ {r} : pc'[q] = pc[q] /\ cur'[q] = cur[q]
          /\ \A q \in Reqs \ {r} : user[q] = user[r] => pc[q] \notin Inside
      BY <2>13, EnrolDoes DEF Does, Inside, tables, AddMember, Locked
    <3> QED
      BY <1>1, <3>1 DEF AddMember, Own, Inside, Sighted, SessionOf, Live
  <2>14. CASE Rollback(r)
    BY <1>1, <2>14, RollbackDoes DEF Does, Sighted, SessionOf, Live, Deleted
  <2>15. CASE Attach(r)
    <3>1. Aside(r)
      BY <1>1, <2>15, AttachDoes DEF Aside, Does
    <3> QED
      BY <3>1, SightedKept
  <2>16. CASE AttachRoute(r)
    <3>1. Aside(r)
      BY <1>1, <2>16, AttachRouteDoes DEF Aside, Does
    <3> QED
      BY <3>1, SightedKept
  <2>17. CASE AttachLink(r)
    BY <1>1, <2>17, AttachLinkDoes DEF Does, Sighted, SessionOf, Live, Linked
  <2>18. CASE Unlist(r)
    <3>1. Aside(r)
      BY <1>1, <2>18, UnlistDoes DEF Aside, Does
    <3> QED
      BY <3>1, SightedKept
  <2>19. CASE Members(r)
    <3>1. Aside(r)
      BY <1>1, <2>19, MembersDoes DEF Aside, Does
    <3> QED
      BY <3>1, SightedKept
  <2>20. CASE Unroute(r)
    <3>1. Aside(r)
      BY <1>1, <2>20, UnrouteDoes DEF Aside, Does
    <3> QED
      BY <3>1, SightedKept
  <2>21. CASE Drop(r)
    BY <1>1, <2>21, DropDoes DEF Does, Sighted, SessionOf, Live, Deleted
  <2>22. CASE Sessions(r)
    <3>1. Aside(r)
      BY <1>1, <2>22, SessionsDoes DEF Aside, Does
    <3> QED
      BY <3>1, SightedKept
  <2>23. CASE Relink(r)
    BY <1>1, <2>23, RelinkDoes DEF Does, Sighted, SessionOf, Live, Linked
  <2>24. CASE Reroute(r)
    <3>1. Aside(r)
      BY <1>1, <2>24, RerouteDoes DEF Aside, Does
    <3> QED
      BY <3>1, SightedKept
  <2>25. CASE Detach(r)
    <3>1. Aside(r)
      BY <1>1, <2>25, DetachDoes DEF Aside, Does
    <3> QED
      BY <3>1, SightedKept
  <2>26. CASE Clear(r)
    BY <1>1, <2>26, ClearDoes DEF Does, Sighted, SessionOf, Live
  <2>27. CASE Retire(r)
    <3>1. Aside(r)
      BY <1>1, <2>27, RetireDoes DEF Aside, Does
    <3> QED
      BY <3>1, SightedKept
  <2>28. CASE Ages(r)
    BY <1>1, <2>28, AgesDoes DEF Does, Sighted, SessionOf, Live
  <2> QED
    BY <1>2, <2>1, <2>2, <2>3, <2>4, <2>5, <2>6, <2>7, <2>8, <2>9, <2>10, <2>11, <2>12, <2>13,
       <2>14, <2>15, <2>16, <2>17, <2>18, <2>19, <2>20, <2>21, <2>22, <2>23, <2>24, <2>25,
       <2>26, <2>27, <2>28 DEF Step
<1>3. CASE DeleteStaleSessions
  BY <1>1, <1>3, CleanUpDoes DEF Sighted, SessionOf, Deleted, Live
<1>4. CASE UNCHANGED vars
  BY <1>1, <1>4 DEF vars, Does, Sighted, SessionOf, Live
<1>5. ASSUME NEW r \in Reqs, StatementFails(r)
      PROVE  Sighted'
  <2>1. Aside(r)
    BY <1>1, <1>5, StatementFailsDoes DEF Aside, Growing
  <2> QED
    BY <2>1, SightedKept
<1>6. ASSUME NEW p \in Peers, LateAttempt(p)
      PROVE  Sighted'
  <2>1. UNCHANGED <<mesh, link, user, pc, cur>>
    BY <1>6, LateAttemptDoes DEF tables, fixed
  <2> QED
    BY <1>1, <2>1 DEF Sighted, SessionOf, Live, Growing
<1> QED
  BY <1>2, <1>3, <1>4, <1>5, <1>6 DEF Next

(***************************************************************************)
(* What holds of every behaviour: requests keep to their user, rows to     *)
(* their owner, and a mesh without its member is being enrolled.           *)
(***************************************************************************)
Base == Types /\ Locked /\ Rows /\ Own /\ OnDevice /\ Sighted

\* The first state has no mesh and no request at work.
LEMMA BaseInit == Init => Base
<1> SUFFICES ASSUME Init PROVE Base
  OBVIOUS
<1>1. Types
  BY SubnetAssumption DEF Init, Types, TypeOK, Control, Labels, Live
<1>2. Locked /\ Rows /\ Own /\ OnDevice /\ Sighted
  BY NobodyAssumption DEF Init, Locked, Rows, Own, OnDevice, Sighted, Live, Inside, SessionOf
<1> QED
  BY <1>1, <1>2 DEF Base

\* Types are kept by every step.
LEMMA TypesStep == ASSUME Types, [Next]_vars PROVE Types'
<1>1. ASSUME NEW r \in Reqs,
             Activate(r) \/ Deactivate(r) \/ Connect(r) \/ Disconnect(r) \/ Step(r) \/ Ages(r)
      PROVE  Types'
  <2>1. CASE Activate(r) \/ Deactivate(r) \/ Connect(r) \/ Disconnect(r) \/ Ages(r)
    BY <2>1, ActivateDoes, DeactivateDoes, ConnectDoes, DisconnectDoes, AgesDoes, Zenon
  <2>2. CASE \/ Lock(r) \/ List(r) \/ Member(r) \/ Join(r) \/ Touch(r)
             \/ PickSubnet(r) \/ Create(r) \/ LoadExisting(r) \/ Enrol(r) \/ Rollback(r)
    BY <2>2, LockDoes, ListDoes, MemberDoes, JoinDoes, TouchDoes, PickSubnetDoes, CreateDoes,
       LoadExistingDoes, EnrolDoes, RollbackDoes, Zenon
  <2>3. CASE \/ Attach(r) \/ AttachRoute(r) \/ AttachLink(r)
             \/ Unlist(r) \/ Members(r) \/ Unroute(r) \/ Drop(r)
             \/ Sessions(r) \/ Relink(r) \/ Reroute(r)
             \/ Detach(r) \/ Clear(r) \/ Retire(r)
    BY <2>3, AttachDoes, AttachRouteDoes, AttachLinkDoes, UnlistDoes, MembersDoes, UnrouteDoes,
       DropDoes, SessionsDoes, RelinkDoes, RerouteDoes, DetachDoes, ClearDoes, RetireDoes, Zenon
  <2> QED
    BY <1>1, <2>1, <2>2, <2>3 DEF Step
<1>2. CASE DeleteStaleSessions
  BY <1>2, CleanUpDoes
<1>3. CASE UNCHANGED vars
  BY <1>3 DEF vars, Types, TypeOK, Control, Live
<1>4. ASSUME NEW r \in Reqs, StatementFails(r) PROVE Types'
  BY <1>4, StatementFailsDoes
<1>5. ASSUME NEW p \in Peers, LateAttempt(p) PROVE Types'
  BY <1>5, LateAttemptDoes
<1> QED
  BY <1>1, <1>2, <1>3, <1>4, <1>5 DEF Next

\* Every step keeps what holds of every behaviour.
LEMMA BaseStep == Base /\ [Next]_vars => Base'
BY TypesStep, LockedStep, RowsStep, OwnStep, OnDeviceStep, SightedStep DEF Base

\* What holds of every behaviour, always.
LEMMA BaseInvariant == Spec => []Base
BY BaseInit, BaseStep, PTL DEF Spec

(***************************************************************************)
(* The tables of meshes and connections, the interface and the requests    *)
(* keep their types through every handler and job.                         *)
(***************************************************************************)
THEOREM MeshTypeOK == Spec => []TypeOK
<1>1. Base => TypeOK
  BY DEF Base, Types
<1> QED
  BY <1>1, BaseInvariant, PTL

(***************************************************************************)
(* However activations cross with deactivations and clean-ups, and         *)
(* whatever statements fail, when the requests of a mesh's owner are over  *)
(* the owner is its member, unless a rollback has failed: a mesh without a *)
(* member is one that its own activation is about to enrol or to roll back *)
(* or could not roll back.                                                 *)
(***************************************************************************)
THEOREM MeshesHaveMembers == Spec => []MeshHasMember
<1>1. Base => MeshHasMember
  <2> SUFFICES ASSUME Base, NEW m \in Live, InFlight(user[m]) = {}, "kept" \notin excused[user[m]]
               PROVE  link[m] # NoMember
    BY DEF MeshHasMember
  <2>1. m \in Reqs /\ pc[m] \notin {"enrol", "rollback"}
    BY DEF InFlight, Live
  <2> QED
    BY <2>1 DEF Base, Rows
<1> QED
  BY <1>1, BaseInvariant, PTL

(***************************************************************************)
(* The rollback of ensureAutoMesh deletes only a mesh that has no member,  *)
(* unless ListByUser has failed for this user: what it takes back is the   *)
(* mesh the same call inserted.                                            *)
(***************************************************************************)
THEOREM RollbacksSpareMembers == Spec => RollbackSparesMembers
<1>1. Base /\ [Next]_vars =>
        [\A r \in Reqs :
            pc[r] = "rollback" /\ pc'[r] = "done" /\ "blind" \notin excused[user[r]] =>
                \A m \in Live : mesh'[m] # "live" => link[m] = NoMember]_vars
  <2> SUFFICES ASSUME Base, Next, NEW r \in Reqs, pc[r] = "rollback", pc'[r] = "done",
                      "blind" \notin excused[user[r]], NEW m \in Live, mesh'[m] # "live"
               PROVE  link[m] = NoMember
    OBVIOUS
  <2> USE DEF Base
  <2>1. cur[r] = {r} /\ link[r] = NoMember
    BY DEF Sighted
  <2>2. Rollback(r)
    <3>2. ~DeleteStaleSessions /\ \A q \in Reqs : ~Ages(q)
      BY CleanUpDoes, AgesDoes
    <3>3. ASSUME NEW q \in Reqs,
                 Activate(q) \/ Deactivate(q) \/ Connect(q) \/ Disconnect(q)
          PROVE  FALSE
      BY <3>3, ActivateDoes, DeactivateDoes, ConnectDoes, DisconnectDoes DEF Does
    <3>4. ASSUME NEW q \in Reqs, Step(q) PROVE q = r
      <4> SUFFICES ASSUME q # r PROVE FALSE
        OBVIOUS
      <4>1. CASE \/ Lock(q) \/ List(q) \/ Member(q) \/ Join(q) \/ Touch(q)
                 \/ PickSubnet(q) \/ Create(q) \/ LoadExisting(q) \/ Enrol(q) \/ Rollback(q)
        BY <4>1, LockDoes, ListDoes, MemberDoes, JoinDoes, TouchDoes, PickSubnetDoes,
           CreateDoes,
           LoadExistingDoes, EnrolDoes, RollbackDoes DEF Does
      <4>2. CASE \/ Attach(q) \/ AttachRoute(q) \/ AttachLink(q)
                 \/ Unlist(q) \/ Members(q) \/ Unroute(q) \/ Drop(q)
        BY <4>2, AttachDoes, AttachRouteDoes, AttachLinkDoes, UnlistDoes, MembersDoes,
           UnrouteDoes,
           DropDoes DEF Does
      <4>3. CASE \/ Sessions(q) \/ Relink(q) \/ Reroute(q) \/ Detach(q) \/ Clear(q) \/ Retire(q)
        BY <4>3, SessionsDoes, RelinkDoes, RerouteDoes, DetachDoes, ClearDoes, RetireDoes
           DEF Does
      <4> QED
        BY <3>4, <4>1, <4>2, <4>3 DEF Step
    <3>1. /\ \A q \in Reqs : ~StatementFails(q) \/ UNCHANGED mesh
          /\ \A p \in Peers : ~LateAttempt(p)
      BY StatementFailsDoes, LateAttemptDoes DEF tables
    <3>5. Step(r)
      BY <3>1, <3>2, <3>3, <3>4 DEF Next, Live
    <3> QED
      BY <3>5 DEF Step, Lock, List, Member, Join, Touch, PickSubnet, Create, LoadExisting,
         Enrol,
         Attach, AttachRoute, AttachLink, Unlist, Members, Unroute, Drop, Sessions, Relink, Reroute,
         Detach, Clear, Retire
  <2>3. Deleted(cur[r])
    BY <2>2, RollbackDoes
  <2> QED
    BY <2>1, <2>3 DEF Deleted, Live
<1> QED
  BY <1>1, BaseInvariant, PTL DEF Spec, RollbackSparesMembers

-----------------------------------------------------------------------------
(***************************************************************************)
(* Steps for other users.                                                  *)
(***************************************************************************)
\* What a step leaves to a user whose request it is not: everything but a
\* route, which AddMeshIP may take away.
Untouched(u) ==
    /\ \A q \in Reqs : user[q] = u =>
        /\ pc'[q] = pc[q] /\ cur'[q] = cur[q] /\ hand'[q] = hand[q]
        /\ mesh'[q] = mesh[q] /\ subnet'[q] = subnet[q] /\ link'[q] = link[q]
    /\ \A p \in Peers : owner[p] = u => /\ p \in device' <=> p \in device
                                        /\ routed'[p] \in {routed[p], 0}
    /\ UNCHANGED <<owner, user>>

\* A step of another user's request, or of the clock.
LEMMA ForeignStep ==
    ASSUME Base, NEW u \in Users, NEW r \in Reqs, user[r] # u,
           \/ Activate(r) \/ Deactivate(r) \/ Connect(r) \/ Disconnect(r)
           \/ Step(r) \/ StatementFails(r) \/ Ages(r)
    PROVE  Untouched(u)
<1> USE DEF tables, wg, fixed
<1>1. /\ link \in [Reqs -> Peers \cup {NoMember, NoPeer}] /\ mesh \in [Reqs -> {"none", "live", "gone"}]
      /\ routed \in [Peers -> 0 .. MaxSubnet] /\ subnet \in [Reqs -> 0 .. MaxSubnet]
      /\ \A q \in Reqs : cur[q] \subseteq Reqs /\ hand[q] \subseteq Peers
      /\ NoMember \notin Peers /\ NoPeer \notin Peers
      /\ active \subseteq Peers
  BY NobodyAssumption DEF Base, Types, TypeOK, Control
<1>2. Types /\ Own
  BY DEF Base
<1>3. CASE Activate(r)
  BY <1>1, <1>2, <1>3, ActivateDoes DEF Does, Untouched
<1>4. CASE Deactivate(r)
  <2>1. PICK l \in {"unlist", "unlist all"} : Does(r, l, {}, {})
    BY <1>2, <1>4, DeactivateDoes
  <2>2. Excused(r) /\ UNCHANGED <<tables, wg, fixed>>
    BY <1>2, <1>4, DeactivateDoes
  <2> QED
    BY <1>1, <2>1, <2>2 DEF Does, Untouched
<1>5. CASE Connect(r)
  BY <1>1, <1>2, <1>5, ConnectDoes DEF Does, Untouched
<1>6. CASE Disconnect(r)
  BY <1>1, <1>2, <1>6, DisconnectDoes DEF Does, Untouched, Unrouted
<1>7. CASE Lock(r)
  BY <1>1, <1>2, <1>7, LockDoes DEF Does, Untouched
<1>8. CASE List(r)
  BY <1>1, <1>2, <1>8, ListDoes DEF Does, Untouched
<1>9. CASE Member(r)
  BY <1>1, <1>2, <1>9, MemberDoes DEF Does, Untouched
<1>10. CASE Join(r)
  BY <1>1, <1>2, <1>10, JoinDoes DEF Does, Untouched, AddMember, Own
<1>11. CASE Touch(r)
  BY <1>1, <1>2, <1>11, TouchDoes DEF Does, Untouched
<1>12. CASE PickSubnet(r)
  BY <1>1, <1>2, <1>12, PickSubnetDoes DEF Does, Untouched
<1>13. CASE Create(r)
  BY <1>1, <1>2, <1>13, CreateDoes DEF Does, Untouched
<1>14. CASE LoadExisting(r)
  BY <1>1, <1>2, <1>14, LoadExistingDoes DEF Does, Untouched
<1>15. CASE Enrol(r)
  BY <1>1, <1>2, <1>15, EnrolDoes DEF Does, Untouched, AddMember, Own
<1>16. CASE Rollback(r)
  BY <1>1, <1>2, <1>16, RollbackDoes DEF Does, Untouched, Deleted, Own
<1>17. CASE Attach(r)
  BY <1>1, <1>2, <1>17, AttachDoes DEF Does, Untouched
<1>18. CASE AttachRoute(r)
  BY <1>1, <1>2, <1>18, AttachRouteDoes DEF Does, Untouched, Routed, Own
<1>19. CASE AttachLink(r)
  BY <1>1, <1>2, <1>19, AttachLinkDoes DEF Does, Untouched, Linked, Own
<1>20. CASE Unlist(r)
  BY <1>1, <1>2, <1>20, UnlistDoes DEF Does, Untouched
<1>21. CASE Members(r)
  BY <1>1, <1>2, <1>21, MembersDoes DEF Does, Untouched
<1>22. CASE Unroute(r)
  BY <1>1, <1>2, <1>22, UnrouteDoes DEF Does, Untouched, Unrouted
<1>23. CASE Drop(r)
  BY <1>1, <1>2, <1>23, DropDoes DEF Does, Untouched, Deleted, Own
<1>24. CASE Sessions(r)
  BY <1>1, <1>2, <1>24, SessionsDoes DEF Does, Untouched
<1>25. CASE Relink(r)
  BY <1>1, <1>2, <1>25, RelinkDoes DEF Does, Untouched, Linked, Own
<1>26. CASE Reroute(r)
  BY <1>1, <1>2, <1>26, RerouteDoes DEF Does, Untouched, Routed, Own
<1>27. CASE Detach(r)
  BY <1>1, <1>2, <1>27, DetachDoes DEF Does, Untouched, Unrouted
<1>28. CASE Clear(r)
  BY <1>1, <1>2, <1>28, ClearDoes DEF Does, Untouched, Own
<1>29. CASE Retire(r)
  BY <1>1, <1>2, <1>29, RetireDoes DEF Does, Untouched
<1>30. CASE Ages(r)
  BY <1>1, <1>2, <1>30, AgesDoes DEF Does, Untouched
<1>31. CASE StatementFails(r)
  <2>1. \A q \in Reqs \ {r} : pc'[q] = pc[q] /\ cur'[q] = cur[q] /\ hand'[q] = hand[q]
    BY <1>2, <1>31, StatementFailsDoes
  <2>2. UNCHANGED <<tables, wg, fixed>>
    BY <1>31 DEF StatementFails
  <2> QED
    BY <1>1, <2>1, <2>2 DEF Untouched
<1> QED
  BY <1>3, <1>4, <1>5, <1>6, <1>7, <1>8, <1>9, <1>10, <1>11, <1>12, <1>13, <1>14, <1>15,
     <1>16, <1>17, <1>18, <1>19, <1>20, <1>21, <1>22, <1>23, <1>24, <1>25, <1>26, <1>27,
     <1>28, <1>29, <1>30, <1>31 DEF Step

\* A late attempt touches only the owner of the connection.
LEMMA LateSpares ==
    ASSUME Base, NEW u \in Users, NEW p \in Peers, LateAttempt(p), owner[p] # u
    PROVE  Untouched(u) /\ \A q \in Peers : owner[q] = u => routed'[q] = routed[q]
<1>1. routed \in [Peers -> 0 .. MaxSubnet]
  BY DEF Base, Types, TypeOK
<1> QED
  BY <1>1, LateAttemptDoes DEF Base, Untouched, Unrouted, tables, fixed

\* The clean-up job leaves alone the users it does not put on record.
LEMMA CleanUpSpares ==
    ASSUME Base, NEW u \in Users, DeleteStaleSessions, excused'[u] = {}
    PROVE  Untouched(u) /\ excused[u] = {}
<1>1. /\ link \in [Reqs -> Peers \cup {NoMember, NoPeer}] /\ mesh \in [Reqs -> {"none", "live", "gone"}]
  BY DEF Base, Types, TypeOK
<1>2. PICK ms \in SUBSET Live :
        /\ Deleted(ms)
        /\ \A v \in Users : excused[v] \subseteq excused'[v]
        /\ \A m \in ms : excused'[user[m]] # {}
  BY CleanUpDoes DEF Base
<1>3. UNCHANGED <<wg, fixed, lock, pc, cur, hand>>
  BY CleanUpDoes DEF Base
<1> QED
  BY <1>1, <1>2, <1>3 DEF Deleted, Untouched, wg, fixed

-----------------------------------------------------------------------------
(***************************************************************************)
(* A user with a clean record: requests came one at a time, on this node,  *)
(* no listing failed, no subnet was raced for, no mesh was reclaimed.      *)
(***************************************************************************)
Clean(u) == excused[u] = {}

Alone(u) == \A r, q \in InFlight(u) : r = q

\* A request works on the user's mesh, on connections of this node, and what
\* it has looked up is still so.
AtWork(r) ==
    /\ pc[r] \in WithMesh => cur[r] = SessionOf(user[r]) /\ cur[r] # {}
    /\ pc[r] \in {"touch", "attach", "route", "link", "relink", "reroute"} =>
        \A m \in cur[r] : link[m] # NoMember
    /\ pc[r] \in {"link", "sessions", "relink", "reroute"} => hand[r] \subseteq device
    /\ pc[r] = "unroute" => hand[r] = {link[m] : m \in cur[r]} \ {NoMember, NoPeer}
    /\ pc[r] = "reroute" => \A m \in cur[r] : link[m] \in hand[r]

\* A mesh about to be dropped has no route, nor has a connection about to be
\* forgotten; one about to be linked is the only one with the address.
RoutesAtWork(r) ==
    /\ pc[r] = "drop" => \A p \in Peers : owner[p] = user[r] => routed[p] = 0
    /\ pc[r] = "clear" => \A p \in hand[r] : routed[p] = 0
    /\ pc[r] = "link" => \A m \in cur[r], p \in Peers :
            owner[p] = user[r] /\ p \notin hand[r] => routed[p] # subnet[m]

\* Between a route and the membership that names its connection.
Excepted(p) ==
    \E r \in Reqs : user[r] = owner[p] /\ (pc[r] = "reroute" \/ (pc[r] = "link" /\ p \in hand[r]))

\* A route is the user's mesh address at the connection the member is named by.
Covered(u) ==
    \A p \in Peers : owner[p] = u /\ routed[p] # 0 =>
        \E m \in SessionOf(u) : subnet[m] = routed[p] /\ (link[m] = p \/ Excepted(p))

Tidy(u) ==
    Clean(u) =>
        /\ Alone(u) /\ Covered(u)
        /\ \A r \in Reqs : user[r] = u => AtWork(r) /\ RoutesAtWork(r)

\* What other users do leaves a user's things tidy.
LEMMA UntouchedTidy ==
    ASSUME Types, Own, Rows, NEW u \in Users, Tidy(u), Clean(u), Untouched(u)
    PROVE  Tidy(u)'
<1>1. SessionOf(u)' = SessionOf(u) /\ InFlight(u)' = InFlight(u)
  BY DEF Untouched, SessionOf, Live, InFlight
<1>2. /\ \A q \in Reqs : cur[q] \subseteq Reqs /\ hand[q] \subseteq Peers
      /\ owner \in [Peers -> Users] /\ user \in [Reqs -> Users]
      /\ routed \in [Peers -> 0 .. MaxSubnet]
  BY DEF Types, TypeOK, Control
<1>3. Alone(u)'
  BY <1>1 DEF Tidy, Alone
<1>4. Covered(u)'
  BY <1>1, <1>2 DEF Tidy, Covered, Excepted, Untouched, SessionOf, Live
<1>5. ASSUME NEW r \in Reqs, user'[r] = u PROVE AtWork(r)' /\ RoutesAtWork(r)'
  <2>1. user[r] = u /\ user' = user /\ owner' = owner
    BY <1>5 DEF Untouched
  <2>2. pc'[r] = pc[r] /\ cur'[r] = cur[r] /\ hand'[r] = hand[r] /\ AtWork(r) /\ RoutesAtWork(r)
    BY <2>1 DEF Untouched, Tidy
  <2>3. \A m \in cur[r] : link'[m] = link[m] /\ subnet'[m] = subnet[m]
    BY <1>2, <2>1 DEF Untouched, Own
  <2>4. \A p \in hand[r] : (p \in device' <=> p \in device) /\ routed'[p] \in {routed[p], 0}
    BY <1>2, <2>1 DEF Untouched, Own
  <2>5. {link[m] : m \in cur[r]}' = {link[m] : m \in cur[r]}
    BY <2>2, <2>3
  <2>6. AtWork(r)'
    BY <1>1, <2>1, <2>2, <2>3, <2>4, <2>5 DEF AtWork
  <2>7. pc[r] = "link" => \A m \in cur[r] : subnet[m] # 0
    BY <1>2, <2>2, SubnetAssumption DEF AtWork, WithMesh, SessionOf, Live, Rows, Subnets
  <2>8. \A p \in Peers : owner[p] = u => routed'[p] \in {routed[p], 0}
    BY DEF Untouched
  <2>9. RoutesAtWork(r)'
    BY <1>2, <2>1, <2>2, <2>3, <2>7, <2>8, <2>4 DEF RoutesAtWork
  <2> QED
    BY <2>6, <2>9
<1> QED
  BY <1>3, <1>4, <1>5 DEF Tidy

\* A user's own request leaves the user clean only if it is the only one, and
\* then the user's other requests have nothing to do with the step.
LEMMA OwnFrame ==
    ASSUME Base, [Next]_vars, NEW r \in Reqs, Tidy(user[r]), excused'[user[r]] = {},
           Activate(r) \/ Deactivate(r) \/ Connect(r) \/ Disconnect(r) \/ Step(r) \/ StatementFails(r)
    PROVE  /\ Clean(user[r]) /\ UNCHANGED <<owner, user>>
           /\ \A q \in Reqs \ {r} : user[q] = user[r] => pc[q] \in {"new", "done"} /\ pc'[q] = pc[q]
<1> USE DEF tables, wg, fixed
<1>1. user \in [Reqs -> Users] /\ Types /\ Clean(user[r])
  BY RecordKept DEF Base, Types, TypeOK, Clean
<1>2. Clean(user[r]) => pc[r] \in {"new", "done"} \/
        \A q \in Reqs \ {r} : user[q] = user[r] => pc[q] \in {"new", "done"}
  BY DEF Tidy, Alone, InFlight
<1>3. InFlight(user[r]) = {} => \A q \in Reqs : user[q] = user[r] => pc[q] \in {"new", "done"}
  BY DEF InFlight
<1>4. CASE Activate(r)
  BY <1>1, <1>2, <1>3, <1>4, ActivateDoes DEF Does, Clean, Excused
<1>5. CASE Deactivate(r)
  <2>1. PICK l \in {"unlist", "unlist all"} : Does(r, l, {}, {})
    BY <1>1, <1>5, DeactivateDoes
  <2>2. Excused(r) /\ InFlight(user[r]) = {} /\ UNCHANGED <<owner, user>>
    BY <1>1, <1>5, DeactivateDoes
  <2> QED
    BY <1>1, <1>3, <2>1, <2>2 DEF Does, Clean, Excused
<1>6. CASE Connect(r)
  BY <1>1, <1>2, <1>3, <1>6, ConnectDoes DEF Does, Clean, Excused
<1>7. CASE Disconnect(r)
  <2>1. PICK p \in active, l \in {"detach", "retire"} : Does(r, l, {}, {p})
    BY <1>1, <1>7, DisconnectDoes
  <2>2. Excused(r) /\ InFlight(user[r]) = {} /\ UNCHANGED <<owner, user>>
    BY <1>1, <1>7, DisconnectDoes
  <2> QED
    BY <1>1, <1>3, <2>1, <2>2 DEF Does, Clean, Excused
<1>8. CASE Lock(r)
  BY <1>1, <1>2, <1>3, <1>8, LockDoes DEF Does, Clean
<1>9. CASE List(r)
  BY <1>1, <1>2, <1>3, <1>9, ListDoes DEF Does, Clean, Excused
<1>10. CASE Member(r)
  BY <1>1, <1>2, <1>3, <1>10, MemberDoes DEF Does, Clean
<1>11. CASE Join(r)
  BY <1>1, <1>2, <1>3, <1>11, JoinDoes DEF Does, Clean
<1>12. CASE Touch(r)
  BY <1>1, <1>2, <1>3, <1>12, TouchDoes DEF Does, Clean
<1>13. CASE PickSubnet(r)
  BY <1>1, <1>2, <1>3, <1>13, PickSubnetDoes DEF Does, Clean, Excused
<1>14. CASE Create(r)
  BY <1>1, <1>2, <1>3, <1>14, CreateDoes DEF Does, Clean
<1>15. CASE LoadExisting(r)
  BY <1>1, <1>2, <1>3, <1>15, LoadExistingDoes DEF Does, Clean
<1>16. CASE Enrol(r)
  BY <1>1, <1>2, <1>3, <1>16, EnrolDoes DEF Does, Clean
<1>17. CASE Rollback(r)
  BY <1>1, <1>2, <1>3, <1>17, RollbackDoes DEF Does, Clean
<1>18. CASE Attach(r)
  BY <1>1, <1>2, <1>3, <1>18, AttachDoes DEF Does, Clean
<1>19. CASE AttachRoute(r)
  BY <1>1, <1>2, <1>3, <1>19, AttachRouteDoes DEF Does, Clean
<1>20. CASE AttachLink(r)
  BY <1>1, <1>2, <1>3, <1>20, AttachLinkDoes DEF Does, Clean
<1>21. CASE Unlist(r)
  BY <1>1, <1>2, <1>3, <1>21, UnlistDoes DEF Does, Clean
<1>22. CASE Members(r)
  BY <1>1, <1>2, <1>3, <1>22, MembersDoes DEF Does, Clean
<1>23. CASE Unroute(r)
  BY <1>1, <1>2, <1>3, <1>23, UnrouteDoes DEF Does, Clean
<1>24. CASE Drop(r)
  BY <1>1, <1>2, <1>3, <1>24, DropDoes DEF Does, Clean
<1>25. CASE Sessions(r)
  BY <1>1, <1>2, <1>3, <1>25, SessionsDoes DEF Does, Clean
<1>26. CASE Relink(r)
  BY <1>1, <1>2, <1>3, <1>26, RelinkDoes DEF Does, Clean
<1>27. CASE Reroute(r)
  BY <1>1, <1>2, <1>3, <1>27, RerouteDoes DEF Does, Clean
<1>28. CASE Detach(r)
  BY <1>1, <1>2, <1>3, <1>28, DetachDoes DEF Does, Clean
<1>29. CASE Clear(r)
  BY <1>1, <1>2, <1>3, <1>29, ClearDoes DEF Does, Clean
<1>30. CASE Retire(r)
  BY <1>1, <1>2, <1>3, <1>30, RetireDoes DEF Does, Clean
<1>31. CASE StatementFails(r)
  BY <1>1, <1>2, <1>3, <1>31, StatementFailsDoes
<1> QED
  BY <1>4, <1>5, <1>6, <1>7, <1>8, <1>9, <1>10, <1>11, <1>12, <1>13, <1>14, <1>15, <1>16,
     <1>17, <1>18, <1>19, <1>20, <1>21, <1>22, <1>23, <1>24, <1>25, <1>26, <1>27, <1>28,
     <1>29, <1>30, <1>31 DEF Step

\* So it is enough to look at the request itself and at the user's routes.
RoutesKept(r) ==
    \A p \in Peers : owner[p] = user[r] /\ routed'[p] # 0 =>
        \E m \in SessionOf(user[r])' :
            /\ subnet'[m] = routed'[p]
            /\ link'[m] = p \/ pc'[r] = "reroute" \/ (pc'[r] = "link" /\ p \in hand'[r])

\* A user stays tidy by what the one request at work does.
LEMMA TidyBy ==
    ASSUME NEW r \in Reqs, UNCHANGED <<owner, user>>,
           \A q \in Reqs \ {r} : user[q] = user[r] => pc'[q] \in {"new", "done"},
           AtWork(r)', RoutesAtWork(r)', RoutesKept(r)
    PROVE  \A u : u = user[r] => Tidy(u)'
<1> SUFFICES ASSUME NEW u, u = user[r] PROVE Tidy(u)'
  OBVIOUS
<1>1. Alone(u)'
  BY DEF Alone, InFlight
<1>2. Covered(u)'
  BY DEF Covered, Excepted, RoutesKept
<1>3. ASSUME NEW q \in Reqs, user'[q] = u, q # r PROVE AtWork(q)' /\ RoutesAtWork(q)'
  BY <1>3 DEF AtWork, RoutesAtWork, WithMesh
<1> QED
  BY <1>1, <1>2, <1>3 DEF Tidy

\* What is known of a clean user whose one request takes a step.
Known(r) ==
    /\ AtWork(r) /\ RoutesAtWork(r)
    /\ \A m, n \in SessionOf(user[r]) : m = n
    /\ \A m \in SessionOf(user[r]) : m \in Live /\ subnet[m] # 0
    /\ \A p \in Peers : owner[p] = user[r] /\ routed[p] # 0 =>
        \E m \in SessionOf(user[r]) :
            subnet[m] = routed[p] /\ (pc[r] \notin {"link", "reroute"} => link[m] = p)
    /\ pc[r] \in {"subnet", "create"} => SessionOf(user[r]) = {}
    /\ pc[r] # "load"
    /\ pc[r] \in {"enrol", "rollback"} => cur[r] = {r} /\ link[r] = NoMember

\* It follows from what holds of every behaviour and of a tidy user.
LEMMA OwnKnown ==
    ASSUME Base, NEW r \in Reqs, Tidy(user[r]), Clean(user[r]),
           \A q \in Reqs \ {r} : user[q] = user[r] => pc[q] \in {"new", "done"}
    PROVE  Known(r)
<1>1. AtWork(r) /\ RoutesAtWork(r)
  BY DEF Tidy
<1>2. /\ \A m, n \in SessionOf(user[r]) : m = n
      /\ \A m \in SessionOf(user[r]) : m \in Live /\ subnet[m] # 0
  BY SubnetAssumption DEF Base, Rows, SessionOf, Live, Subnets
<1>3. \A p \in Peers : owner[p] = user[r] /\ routed[p] # 0 =>
        \E m \in SessionOf(user[r]) :
            subnet[m] = routed[p] /\ (pc[r] \notin {"link", "reroute"} => link[m] = p)
  BY DEF Tidy, Covered, Excepted
<1>4. /\ pc[r] \in {"subnet", "create"} => SessionOf(user[r]) = {}
      /\ pc[r] # "load"
      /\ pc[r] \in {"enrol", "rollback"} => cur[r] = {r} /\ link[r] = NoMember
  BY DEF Base, Sighted, Clean
<1> QED
  BY <1>1, <1>2, <1>3, <1>4 DEF Known

\* A step that leaves the user's mesh alone and adds no route.
LEMMA QuietRoutes ==
    ASSUME NEW r \in Reqs, Known(r), pc[r] \notin {"link", "reroute"}, UNCHANGED <<mesh, user, link, owner>>,
           \A m \in SessionOf(user[r]) : subnet'[m] = subnet[m],
           \A p \in Peers : routed'[p] \in {routed[p], 0}
    PROVE  RoutesKept(r) /\ SessionOf(user[r])' = SessionOf(user[r])
<1>1. SessionOf(user[r])' = SessionOf(user[r])
  BY DEF SessionOf, Live
<1> QED
  BY <1>1 DEF Known, RoutesKept

\* A step to a label at which a request has no mesh at hand.
LEMMA IdleWork ==
    ASSUME NEW r \in Reqs, pc'[r] \notin WithMesh, pc'[r] \notin {"sessions", "clear"}
    PROVE  AtWork(r)' /\ RoutesAtWork(r)'
BY DEF AtWork, RoutesAtWork, WithMesh

\* A clean user's own step keeps the user tidy.
LEMMA OwnTidy ==
    ASSUME Base, [Next]_vars, NEW r \in Reqs, Tidy(user[r]), excused'[user[r]] = {},
           Activate(r) \/ Deactivate(r) \/ Connect(r) \/ Disconnect(r) \/ Step(r) \/ StatementFails(r)
    PROVE  \A u : u = user[r] => Tidy(u)'
<1> USE DEF tables, wg, fixed
<1>1. /\ Clean(user[r]) /\ UNCHANGED <<owner, user>>
      /\ \A q \in Reqs \ {r} : user[q] = user[r] => pc[q] \in {"new", "done"} /\ pc'[q] = pc[q]
  BY OwnFrame
<1>2. Known(r)
  BY <1>1, OwnKnown
<1>3. /\ link \in [Reqs -> Peers \cup {NoMember, NoPeer}] /\ mesh \in [Reqs -> {"none", "live", "gone"}]
      /\ routed \in [Peers -> 0 .. MaxSubnet] /\ subnet \in [Reqs -> 0 .. MaxSubnet]
      /\ cur[r] \subseteq Reqs /\ hand[r] \subseteq Peers /\ active \subseteq Peers
      /\ NoMember \notin Peers /\ NoPeer \notin Peers /\ NoMember # NoPeer
      /\ Types /\ Own /\ OnDevice
  BY NobodyAssumption DEF Base, Types, TypeOK, Control
<1> DEFINE S == SessionOf(user[r])
<1>4. SUFFICES AtWork(r)' /\ RoutesAtWork(r)' /\ RoutesKept(r)
  BY <1>1, TidyBy
<1>5. CASE Activate(r)
  <2>1. /\ UNCHANGED <<mesh, link, subnet>> /\ \A p \in Peers : routed'[p] \in {routed[p], 0}
      /\ pc[r] \notin {"link", "reroute"} /\ pc'[r] \notin WithMesh /\ pc'[r] \notin {"sessions", "clear"}
    BY <1>3, <1>5, ActivateDoes DEF Does, WithMesh
  <2> QED
    BY <1>1, <1>2, <2>1, QuietRoutes, IdleWork
<1>6. CASE Deactivate(r)
  <2>1. PICK l \in {"unlist", "unlist all"} : Does(r, l, {}, {})
    BY <1>3, <1>6, DeactivateDoes
  <2>2. UNCHANGED <<mesh, link, subnet, routed>> /\ pc[r] = "new"
    BY <1>3, <1>6, DeactivateDoes
  <2>3. pc'[r] \notin WithMesh /\ pc'[r] \notin {"sessions", "clear"}
    BY <2>1 DEF Does, WithMesh
  <2> QED
    BY <1>1, <1>2, <2>2, <2>3, QuietRoutes, IdleWork
<1>7. CASE Connect(r)
  <2>1. UNCHANGED <<mesh, link, subnet, routed>> /\ pc[r] = "new"
    BY <1>3, <1>7, ConnectDoes
  <2>2. RoutesKept(r)
    BY <1>1, <1>2, <2>1, QuietRoutes
  <2>3. pc'[r] = "sessions" /\ hand'[r] \subseteq device'
    BY <1>3, <1>7, ConnectDoes DEF Does
  <2> QED
    BY <2>2, <2>3 DEF AtWork, RoutesAtWork, WithMesh
<1>8. CASE Disconnect(r)
  <2>1. PICK p \in active, l \in {"detach", "retire"} :
          Does(r, l, {}, {p}) /\ (routed' = routed \/ routed' = Unrouted({p}))
    <3>1. Types
      BY <1>3
    <3> QED
      BY <3>1, <1>8, DisconnectDoes
  <2>2. UNCHANGED <<mesh, link, subnet>> /\ pc[r] = "new"
    BY <1>3, <1>8, DisconnectDoes
  <2>3. (\A q \in Peers : routed'[q] \in {routed[q], 0}) /\ pc'[r] \notin WithMesh /\ pc'[r] \notin {"sessions", "clear"}
    BY <2>1 DEF Unrouted, Does, WithMesh
  <2> QED
    BY <1>1, <1>2, <2>2, <2>3, QuietRoutes, IdleWork
<1>9. CASE Lock(r)
  <2>1. /\ UNCHANGED <<mesh, link, subnet>> /\ \A p \in Peers : routed'[p] \in {routed[p], 0}
      /\ pc[r] \notin {"link", "reroute"} /\ pc'[r] \notin WithMesh /\ pc'[r] \notin {"sessions", "clear"}
    BY <1>3, <1>9, LockDoes DEF Does, WithMesh
  <2> QED
    BY <1>1, <1>2, <2>1, QuietRoutes, IdleWork
<1>10. CASE List(r)
  <2>1. UNCHANGED <<mesh, link, subnet, routed, device>> /\ pc[r] \notin {"link", "reroute"}
    BY <1>3, <1>10, ListDoes
  <2>2. RoutesKept(r) /\ SessionOf(user[r])' = S
    BY <1>1, <1>2, <2>1, QuietRoutes
  <2>3. pc'[r] = "subnet" \/ (pc'[r] = "member" /\ cur'[r] = S /\ S # {})
    BY <1>1, <1>2, <1>3, <1>10, ListDoes DEF Does
  <2> QED
    BY <1>1, <1>2, <1>3, <2>1, <2>2, <2>3 DEF AtWork, RoutesAtWork, WithMesh
<1>11. CASE Member(r)
  <2>1. UNCHANGED <<mesh, link, subnet, routed, device>> /\ pc[r] = "member" /\ cur'[r] = cur[r]
    BY <1>3, <1>11, MemberDoes DEF Does
  <2>2. RoutesKept(r) /\ SessionOf(user[r])' = S
    BY <1>1, <1>2, <2>1, QuietRoutes
  <2>3. cur[r] = S /\ S # {} /\ \A m, n \in S : m = n
    BY <1>2, <2>1 DEF Known, AtWork, WithMesh
  <2>4. pc'[r] = "join" \/ (pc'[r] = "touch" /\ \A m \in cur[r] : link[m] # NoMember)
    BY <1>3, <1>11, <2>3, MemberDoes DEF Does
  <2> QED
    BY <1>1, <2>1, <2>2, <2>3, <2>4 DEF AtWork, RoutesAtWork, WithMesh
<1>12. CASE Join(r)
  <2>1. pc[r] = "join" /\ cur[r] = S /\ S # {} /\ UNCHANGED <<mesh, routed>>
    BY <1>2, <1>3, <1>12, JoinDoes DEF Known, AtWork, WithMesh, AddMember
  <2>2. SessionOf(user[r])' = S
    BY <1>1, <2>1 DEF SessionOf, Live
  <2>3. CASE AddMember(r) /\ Does(r, "touch", cur[r], hand[r])
    <3>1. PICK m \in S : link[m] = NoMember /\ link' = [link EXCEPT ![m] = NoPeer]
      BY <2>1, <2>3 DEF AddMember
    <3>2. S = {m} /\ link'[m] = NoPeer /\ UNCHANGED subnet
      BY <1>2, <1>3, <2>1, <2>3, <3>1 DEF Known, AddMember
    <3>3. RoutesKept(r)
      BY <1>1, <1>2, <1>3, <2>1, <2>2, <3>1, <3>2 DEF Known, RoutesKept
    <3> QED
      BY <1>1, <1>3, <2>1, <2>2, <2>3, <3>2, <3>3 DEF Does, AtWork, RoutesAtWork, WithMesh
  <2>4. CASE Does(r, "done", {}, {}) /\ UNCHANGED tables
    <3>1. RoutesKept(r)
      BY <1>1, <1>2, <2>1, <2>4, QuietRoutes
    <3> QED
      BY <2>4, <3>1, IdleWork DEF Does, WithMesh
  <2> QED
    BY <1>3, <1>12, <2>3, <2>4, JoinDoes
<1>13. CASE Touch(r)
  <2>1. UNCHANGED <<mesh, link, subnet, routed, device>> /\ pc[r] = "touch" /\ (pc'[r] = "done" \/ (pc'[r] = "attach" /\ cur'[r] = cur[r]))
    BY <1>3, <1>13, TouchDoes DEF Does
  <2>2. RoutesKept(r) /\ SessionOf(user[r])' = S
    BY <1>1, <1>2, <2>1, QuietRoutes
  <2>3. cur[r] = S /\ S # {} /\ \A m \in cur[r] : link[m] # NoMember
    BY <1>2, <2>1 DEF Known, AtWork, WithMesh
  <2> QED
    BY <1>1, <2>1, <2>2, <2>3 DEF AtWork, RoutesAtWork, WithMesh
<1>14. CASE PickSubnet(r)
  <2>1. /\ UNCHANGED <<mesh, link, routed>> /\ pc[r] = "subnet" /\ pc'[r] \in {"create", "done"}
    BY <1>3, <1>14, PickSubnetDoes DEF Does
  <2>2. S = {} /\ pc'[r] \notin WithMesh /\ pc'[r] \notin {"sessions", "clear"}
    BY <1>2, <2>1 DEF Known, WithMesh
  <2> QED
    BY <1>1, <1>2, <2>1, <2>2, QuietRoutes, IdleWork
<1>15. CASE Create(r)
  <2>1. /\ S = {} /\ pc'[r] = "enrol" /\ cur'[r] = {r} /\ mesh' = [mesh EXCEPT ![r] = "live"]
        /\ UNCHANGED <<subnet, link, routed>>
    BY <1>2, <1>3, <1>15, CreateDoes DEF Does, Known
  <2>2. SessionOf(user[r])' = {r}
    BY <1>1, <1>3, <2>1 DEF SessionOf, Live
  <2>3. RoutesKept(r)
    BY <1>1, <1>2, <2>1 DEF Known, RoutesKept
  <2> QED
    BY <1>1, <2>1, <2>2, <2>3 DEF AtWork, RoutesAtWork, WithMesh
<1>16. CASE LoadExisting(r)
  BY <1>2, <1>3, <1>16, LoadExistingDoes DEF Known
<1>17. CASE Enrol(r)
  <2>1. pc[r] = "enrol" /\ cur[r] = S /\ S = {r} /\ link[r] = NoMember /\ UNCHANGED <<mesh, routed>>
    BY <1>2, <1>3, <1>17, EnrolDoes DEF Known, AtWork, WithMesh, AddMember
  <2>2. SessionOf(user[r])' = S
    BY <1>1, <2>1 DEF SessionOf, Live
  <2>3. CASE AddMember(r) /\ Does(r, "attach", cur[r], hand[r])
    <3>1. link' = [link EXCEPT ![r] = NoPeer] /\ UNCHANGED subnet
      BY <2>1, <2>3 DEF AddMember
    <3>2. RoutesKept(r)
      BY <1>1, <1>2, <1>3, <2>1, <2>2, <3>1 DEF Known, RoutesKept
    <3> QED
      BY <1>1, <1>3, <2>1, <2>2, <2>3, <3>1, <3>2 DEF Does, AtWork, RoutesAtWork, WithMesh
  <2>4. CASE Does(r, "rollback", cur[r], hand[r]) /\ UNCHANGED tables
    <3>1. RoutesKept(r)
      BY <1>1, <1>2, <2>1, <2>4, QuietRoutes
    <3> QED
      BY <1>1, <2>1, <2>2, <2>4, <3>1 DEF Does, AtWork, RoutesAtWork, WithMesh
  <2> QED
    BY <1>3, <1>17, <2>3, <2>4, EnrolDoes
<1>18. CASE Rollback(r)
  <2>1. pc[r] = "rollback" /\ S = {r} /\ link[r] = NoMember /\ pc'[r] = "done" /\ UNCHANGED routed
    BY <1>2, <1>3, <1>18, RollbackDoes DEF Known, AtWork, WithMesh, Does
  <2>2. RoutesKept(r)
    BY <1>2, <1>3, <2>1 DEF Known, RoutesKept
  <2> QED
    BY <2>1, <2>2, IdleWork DEF WithMesh
<1>19. CASE Attach(r)
  <2>1. UNCHANGED <<mesh, link, subnet, routed, device>> /\ pc[r] = "attach" /\ (pc'[r] = "done" \/ (pc'[r] = "route" /\ cur'[r] = cur[r]))
    BY <1>3, <1>19, AttachDoes DEF Does
  <2>2. RoutesKept(r) /\ SessionOf(user[r])' = S
    BY <1>1, <1>2, <2>1, QuietRoutes
  <2>3. cur[r] = S /\ S # {} /\ \A m \in cur[r] : link[m] # NoMember
    BY <1>2, <2>1 DEF Known, AtWork, WithMesh
  <2> QED
    BY <1>1, <2>1, <2>2, <2>3 DEF AtWork, RoutesAtWork, WithMesh
<1>20. CASE AttachRoute(r)
  <2>1. UNCHANGED <<mesh, link, subnet, device>> /\ pc[r] = "route"
    BY <1>3, <1>20, AttachRouteDoes
  <2>2. cur[r] = S /\ S # {} /\ \A m \in S : link[m] # NoMember
    BY <1>2, <2>1 DEF Known, AtWork, WithMesh
  <2>3. SessionOf(user[r])' = S
    BY <1>1, <2>1 DEF SessionOf, Live
  <2>4. ASSUME NEW p \in hand[r], p \in device, Does(r, "link", cur[r], {p}),
               NEW m \in cur[r], routed' = Routed(p, MeshIP(m))
        PROVE  AtWork(r)' /\ RoutesAtWork(r)' /\ RoutesKept(r)
    <3>1. S = {m} /\ m \in Reqs /\ subnet[m] # 0 /\ p \in Peers
      BY <1>2, <1>3, <2>2, <2>4 DEF Known
    <3>2. /\ routed'[p] = subnet[m]
          /\ \A q \in Peers \ {p} : /\ routed'[q] # subnet[m]
                                    /\ routed'[q] \in {routed[q], 0}
      BY <2>4, <3>1 DEF Routed, MeshIP
    <3>3. pc'[r] = "link" /\ hand'[r] = {p} /\ cur'[r] = S
      BY <2>2, <2>4 DEF Does
    <3>4. RoutesKept(r)
      BY <1>1, <1>2, <2>1, <2>3, <3>1, <3>2, <3>3 DEF Known, RoutesKept
    <3>5. AtWork(r)'
      BY <1>1, <2>1, <2>2, <2>3, <2>4, <3>3 DEF AtWork, WithMesh
    <3>6. RoutesAtWork(r)'
      BY <1>1, <2>1, <3>1, <3>2, <3>3 DEF RoutesAtWork
    <3> QED
      BY <3>4, <3>5, <3>6
  <2>5. CASE UNCHANGED routed /\ (pc'[r] = "done" \/ (pc'[r] = "route" /\ cur'[r] = cur[r]))
    <3>1. RoutesKept(r)
      BY <1>1, <1>2, <2>1, <2>5, QuietRoutes
    <3> QED
      BY <1>1, <2>1, <2>2, <2>3, <2>5, <3>1 DEF AtWork, RoutesAtWork, WithMesh
  <2> QED
    BY <1>3, <1>20, <2>4, <2>5, AttachRouteDoes DEF Does
<1>21. CASE AttachLink(r)
  <2>1. pc[r] = "link" /\ pc'[r] = "done" /\ UNCHANGED <<mesh, subnet, routed>> /\ Linked(r)
    BY <1>3, <1>21, AttachLinkDoes DEF Does, Linked
  <2>2. cur[r] = S /\ \A m \in S : m \in Reqs /\ link[m] # NoMember
    BY <1>2, <2>1 DEF Known, AtWork, WithMesh, Live
  <2>3. SessionOf(user[r])' = S
    BY <1>1, <2>1 DEF SessionOf, Live
  <2>4. \A m \in S, p \in hand[r] : link'[m] = p
    BY <2>1, <2>2 DEF Linked
  <2>5. RoutesKept(r)
    BY <1>1, <1>2, <2>1, <2>2, <2>3, <2>4 DEF Known, RoutesAtWork, RoutesKept
  <2> QED
    BY <2>1, <2>5, IdleWork DEF WithMesh
<1>22. CASE Unlist(r)
  <2>1. UNCHANGED <<mesh, link, subnet, routed, device>> /\ pc[r] \in {"unlist", "unlist all"}
    BY <1>3, <1>22, UnlistDoes
  <2>2. RoutesKept(r) /\ SessionOf(user[r])' = S
    BY <1>1, <1>2, <2>1, QuietRoutes
  <2>3. pc'[r] = "done" \/ (pc'[r] \in {"member of", "members"} /\ cur'[r] = S /\ S # {})
    BY <1>3, <1>22, UnlistDoes DEF Does
  <2> QED
    BY <1>1, <2>1, <2>2, <2>3 DEF AtWork, RoutesAtWork, WithMesh
<1>23. CASE Members(r)
  <2>1. UNCHANGED <<mesh, link, subnet, routed, device>> /\ pc[r] \in {"member of", "members"}
    BY <1>3, <1>23, MembersDoes
  <2>2. RoutesKept(r) /\ SessionOf(user[r])' = S
    BY <1>1, <1>2, <2>1, QuietRoutes
  <2>3. cur[r] = S /\ S # {}
    BY <1>2, <2>1 DEF Known, AtWork, WithMesh
  <2>4. CASE pc'[r] = "done"
    BY <2>2, <2>4, IdleWork DEF WithMesh
  <2>5. CASE Does(r, "unroute", cur[r], {link[m] : m \in cur[r]} \ {NoMember, NoPeer})
    <3>1. pc'[r] = "unroute" /\ cur'[r] = cur[r] /\ hand'[r] = {link[m] : m \in cur[r]} \ {NoMember, NoPeer}
      BY <2>5 DEF Does
    <3>2. {link[m] : m \in cur[r]}' = {link[m] : m \in cur[r]}
      BY <2>1, <3>1
    <3> QED
      BY <1>1, <2>2, <2>3, <3>1, <3>2 DEF AtWork, RoutesAtWork, WithMesh
  <2> QED
    BY <1>3, <1>23, <2>4, <2>5, MembersDoes DEF Does
<1>24. CASE Unroute(r)
  <2>1. /\ UNCHANGED <<mesh, link, subnet, device>> /\ pc[r] = "unroute" /\ routed' = Unrouted(hand[r] \cap device)
        /\ pc'[r] = "drop" /\ cur'[r] = cur[r]
    BY <1>3, <1>24, UnrouteDoes DEF Does
  <2>2. \A p \in Peers : routed'[p] = IF p \in hand[r] /\ p \in device THEN 0 ELSE routed[p]
    BY <2>1 DEF Unrouted
  <2>3. RoutesKept(r) /\ SessionOf(user[r])' = S
    BY <1>1, <1>2, <2>1, <2>2, QuietRoutes
  <2>4. cur[r] = S /\ S # {} /\ hand[r] = {link[m] : m \in S} \ {NoMember, NoPeer}
    BY <1>2, <2>1 DEF Known, AtWork, WithMesh
  <2>5. ASSUME NEW p \in Peers, owner[p] = user[r] PROVE routed'[p] = 0
    <3>1. routed[p] # 0 => p \in device /\ \E m \in S : link[m] = p
      BY <1>2, <1>3, <2>1, <2>5 DEF Known, OnDevice
    <3>2. routed[p] # 0 => p \in hand[r]
      BY <1>3, <2>4, <3>1
    <3> QED
      BY <2>2, <3>1, <3>2
  <2> QED
    BY <1>1, <2>1, <2>3, <2>4, <2>5 DEF AtWork, RoutesAtWork, WithMesh
<1>25. CASE Drop(r)
  <2>1. pc[r] = "drop" /\ pc'[r] = "done" /\ UNCHANGED routed
    BY <1>3, <1>25, DropDoes DEF Does
  <2>2. RoutesKept(r)
    BY <1>2, <2>1 DEF Known, RoutesAtWork, RoutesKept
  <2> QED
    BY <2>1, <2>2, IdleWork DEF WithMesh
<1>26. CASE Sessions(r)
  <2>1. UNCHANGED <<mesh, link, subnet, routed, device>> /\ pc[r] = "sessions"
    BY <1>3, <1>26, SessionsDoes
  <2>2. RoutesKept(r) /\ SessionOf(user[r])' = S
    BY <1>1, <1>2, <2>1, QuietRoutes
  <2>3. hand[r] \subseteq device /\ \A m, n \in S : m = n
    BY <1>2, <2>1 DEF Known, AtWork
  <2>4. CASE pc'[r] = "done"
    BY <2>2, <2>4, IdleWork DEF WithMesh
  <2>5. CASE {m \in S : link[m] # NoMember} # {} /\ Does(r, "relink", {m \in S : link[m] # NoMember}, hand[r])
    <3>1. {m \in S : link[m] # NoMember} = S /\ S # {}
      BY <2>3, <2>5
    <3>2. pc'[r] = "relink" /\ cur'[r] = S /\ hand'[r] = hand[r]
      BY <2>5, <3>1 DEF Does
    <3> QED
      BY <1>1, <2>1, <2>2, <2>3, <3>1, <3>2 DEF AtWork, RoutesAtWork, WithMesh
  <2> QED
    BY <1>3, <1>26, <2>4, <2>5, SessionsDoes DEF Does
<1>27. CASE Relink(r)
  <2>1. /\ pc[r] = "relink" /\ pc'[r] = "reroute" /\ cur'[r] = cur[r] /\ hand'[r] = hand[r]
        /\ UNCHANGED <<mesh, subnet, routed, device>> /\ Linked(r)
    BY <1>3, <1>27, RelinkDoes DEF Does, Linked
  <2>2. cur[r] = S /\ S # {} /\ hand[r] \subseteq device /\ \A m \in S : m \in Reqs /\ link[m] # NoMember
    BY <1>2, <2>1 DEF Known, AtWork, WithMesh, Live
  <2>3. SessionOf(user[r])' = S
    BY <1>1, <2>1 DEF SessionOf, Live
  <2>4. \A m \in S : link'[m] \in hand[r] /\ link'[m] # NoMember
    BY <1>3, <2>1, <2>2 DEF Linked
  <2>5. RoutesKept(r)
    BY <1>1, <1>2, <2>1, <2>3 DEF Known, RoutesKept
  <2> QED
    BY <1>1, <2>1, <2>2, <2>3, <2>4, <2>5 DEF AtWork, RoutesAtWork, WithMesh
<1>28. CASE Reroute(r)
  <2>1. pc[r] = "reroute" /\ pc'[r] = "done" /\ UNCHANGED <<mesh, subnet, link, device>>
    BY <1>3, <1>28, RerouteDoes DEF Does
  <2>2. cur[r] = S /\ hand[r] \subseteq device /\ \A m \in S : link[m] \in hand[r]
    BY <1>2, <2>1 DEF Known, AtWork, WithMesh
  <2>3. SessionOf(user[r])' = S
    BY <1>1, <2>1 DEF SessionOf, Live
  <2>4. PICK p \in hand[r], m \in S : routed' = Routed(p, MeshIP(m)) /\ hand[r] = {p}
    BY <1>3, <1>28, <2>1, <2>2, RerouteDoes DEF Types, Control
  <2>5. S = {m} /\ link[m] = p /\ p \in Peers
    BY <1>2, <1>3, <2>2, <2>4 DEF Known
  <2>6. /\ routed'[p] = subnet[m]
        /\ \A q \in Peers \ {p} : routed'[q] # 0 => routed'[q] = routed[q] /\ routed[q] # subnet[m]
    BY <2>4, <2>5 DEF Routed, MeshIP
  <2>7. RoutesKept(r)
    BY <1>1, <1>2, <2>1, <2>3, <2>5, <2>6 DEF Known, RoutesKept
  <2> QED
    BY <2>1, <2>7, IdleWork DEF WithMesh
<1>29. CASE Detach(r)
  <2>1. /\ UNCHANGED <<mesh, link, subnet, device>> /\ pc[r] = "detach" /\ routed' = Unrouted(hand[r] \cap device)
        /\ pc'[r] = "clear" /\ hand'[r] = hand[r]
    BY <1>3, <1>29, DetachDoes DEF Does
  <2>2. \A p \in Peers : routed'[p] = IF p \in hand[r] /\ p \in device THEN 0 ELSE routed[p]
    BY <2>1 DEF Unrouted
  <2>3. RoutesKept(r)
    BY <1>1, <1>2, <2>1, <2>2, QuietRoutes
  <2>4. \A p \in hand[r] : routed'[p] = 0
    BY <1>3, <2>2 DEF OnDevice
  <2> QED
    BY <1>1, <2>1, <2>3, <2>4 DEF AtWork, RoutesAtWork, WithMesh
<1>30. CASE Clear(r)
  <2>1. /\ pc[r] = "clear" /\ pc'[r] = "retire" /\ UNCHANGED <<mesh, subnet, routed>>
        /\ link' = [m \in Reqs |-> IF link[m] \in hand[r] THEN NoPeer ELSE link[m]]
    BY <1>3, <1>30, ClearDoes DEF Does
  <2>2. \A p \in hand[r] : routed[p] = 0
    BY <1>2, <2>1 DEF Known, RoutesAtWork
  <2>3. SessionOf(user[r])' = S /\ S \subseteq Reqs
    BY <1>1, <2>1 DEF SessionOf, Live
  <2>4. RoutesKept(r)
    BY <1>1, <1>2, <2>1, <2>2, <2>3 DEF Known, RoutesKept
  <2> QED
    BY <2>1, <2>4, IdleWork DEF WithMesh
<1>31. CASE Retire(r)
  <2>1. /\ UNCHANGED <<mesh, link, subnet>> /\ \A p \in Peers : routed'[p] \in {routed[p], 0}
      /\ pc[r] \notin {"link", "reroute"} /\ pc'[r] \notin WithMesh /\ pc'[r] \notin {"sessions", "clear"}
    BY <1>3, <1>31, RetireDoes DEF Does, WithMesh
  <2> QED
    BY <1>1, <1>2, <2>1, QuietRoutes, IdleWork
<1>32. CASE StatementFails(r)
  <2>1. /\ UNCHANGED <<mesh, link, subnet>> /\ \A p \in Peers : routed'[p] \in {routed[p], 0}
        /\ pc[r] \notin {"link", "reroute"} /\ UNCHANGED user
        /\ \/ pc[r] \in {"member", "touch"} /\ pc'[r] \in {"join", "attach"} /\ cur'[r] = cur[r]
              /\ (pc'[r] = "attach" => pc[r] = "touch")
           \/ pc'[r] = "done"
    BY <1>3, <1>32, StatementFailsDoes
  <2>2. RoutesKept(r) /\ SessionOf(user[r])' = S
    BY <1>1, <1>2, <2>1, QuietRoutes
  <2>3. CASE pc'[r] = "done"
    BY <2>2, <2>3, IdleWork DEF WithMesh
  <2>4. CASE pc[r] \in {"member", "touch"} /\ pc'[r] \in {"join", "attach"} /\ cur'[r] = cur[r]
             /\ (pc'[r] = "attach" => pc[r] = "touch")
    BY <1>2, <2>1, <2>2, <2>4 DEF Known, AtWork, RoutesAtWork, WithMesh
  <2> QED
    BY <2>1, <2>2, <2>3, <2>4
<1> QED
  BY <1>5, <1>6, <1>7, <1>8, <1>9, <1>10, <1>11, <1>12, <1>13, <1>14, <1>15, <1>16, <1>17,
     <1>18, <1>19, <1>20, <1>21, <1>22, <1>23, <1>24, <1>25, <1>26, <1>27, <1>28, <1>29,
     <1>30, <1>31, <1>32 DEF Step

\* Every step keeps every user tidy.
LEMMA TidyStep ==
    ASSUME Base, [Next]_vars, NEW u \in Users, Tidy(u)
    PROVE  Tidy(u)'
<1>1. CASE excused'[u] # {}
  BY <1>1 DEF Tidy, Clean
<1>2. CASE excused'[u] = {}
  <2>0. excused[u] = {}
    BY <1>2, RecordKept DEF Base
  <2>1. ASSUME Untouched(u), excused[u] = {} PROVE Tidy(u)'
    BY <2>1, UntouchedTidy DEF Base, Clean
  <2>2. ASSUME NEW r \in Reqs,
               \/ Activate(r) \/ Deactivate(r) \/ Connect(r) \/ Disconnect(r)
               \/ Step(r) \/ StatementFails(r) \/ Ages(r)
        PROVE  Tidy(u)'
    <3>1. CASE user[r] # u
      BY <2>0, <2>1, <2>2, <3>1, ForeignStep
    <3>2. CASE user[r] = u /\ Ages(r)
      <4>1. UNCHANGED <<mesh, subnet, link, wg, fixed, lock, pc, cur, hand, excused>>
        BY <3>2, AgesDoes DEF Base
      <4> QED
        BY <1>2, <2>1, <4>1 DEF Untouched, wg, fixed
    <3>3. CASE user[r] = u /\ ~Ages(r)
      BY <1>2, <2>2, <3>3, OwnTidy
    <3> QED
      BY <3>1, <3>2, <3>3
  <2>3. CASE DeleteStaleSessions
    BY <1>2, <2>1, <2>3, CleanUpSpares
  <2>4. CASE UNCHANGED vars
    BY <1>2, <2>1, <2>4 DEF vars, Untouched
  <2>5. ASSUME NEW p \in Peers, LateAttempt(p) PROVE Tidy(u)'
    <3>1. owner[p] # u
      BY <1>2, <2>5, LateAttemptDoes DEF Base
    <3> QED
      BY <2>0, <2>1, <2>5, <3>1, LateSpares
  <2> QED
    BY <2>2, <2>3, <2>4, <2>5 DEF Next
<1> QED
  BY <1>1, <1>2

AllTidy == \A u \in Users : Tidy(u)

\* What holds of every behaviour and of its clean users, always.
LEMMA TidyInvariant == Spec => [](Base /\ AllTidy)
<1>1. Init => AllTidy
  BY DEF Init, AllTidy, Tidy, Alone, InFlight, Covered, AtWork, RoutesAtWork, WithMesh
<1>2. Base /\ AllTidy /\ [Next]_vars => AllTidy'
  BY TidyStep DEF AllTidy
<1> QED
  BY <1>1, <1>2, BaseInit, BaseStep, PTL DEF Spec

(***************************************************************************)
(* Deleting a mesh or closing a connection leaves no route behind: for a   *)
(* user with a clean record and no request under way, a routed mesh        *)
(* address is that of the user's mesh and at the connection its            *)
(* membership names.                                                       *)
(***************************************************************************)
THEOREM NoStrayRoutes == Spec => []NoStrayRoute
<1>1. Base /\ AllTidy => NoStrayRoute
  <2> SUFFICES ASSUME Base, AllTidy, NEW p \in Peers, routed[p] # 0,
                      excused[owner[p]] = {}, InFlight(owner[p]) = {}
               PROVE  \E m \in SessionOf(owner[p]) : MeshIP(m) = routed[p] /\ link[m] = p
    BY DEF NoStrayRoute
  <2>1. owner[p] \in Users
    BY DEF Base, Types, TypeOK
  <2>2. ~Excepted(p)
    BY DEF Excepted, InFlight
  <2> QED
    BY <2>1, <2>2 DEF AllTidy, Tidy, Clean, Covered, MeshIP
<1> QED
  BY <1>1, TidyInvariant, PTL

-----------------------------------------------------------------------------
(***************************************************************************)
(* The subnet of a clean user's mesh is nobody else's.                     *)
(***************************************************************************)
\* Meshes whose address is routed or may be: live, being created, or at hand.
InUse == Live \cup {r \in Reqs : pc[r] = "create"} \cup UNION {cur[q] : q \in Reqs}

Distinct ==
    \A m \in InUse : Clean(user[m]) => \A n \in InUse : subnet[n] = subnet[m] => n = m

\* A request that is about to see to the route or to drop the mesh.
Pending(m) ==
    \E r \in Reqs : user[r] = user[m] /\
        \/ pc[r] \in {"link", "drop", "sessions", "relink", "reroute"}
        \/ pc[r] = "clear" /\ link[m] \in hand[r]

\* A connection of this node that a membership names has the mesh's address.
Served(u) ==
    /\ \A m \in SessionOf(u) : link[m] \in device => routed[link[m]] = subnet[m] \/ Pending(m)
    /\ \A r \in Reqs : user[r] = u /\ pc[r] = "link" =>
        \A p \in hand[r], m \in cur[r] : routed[p] = subnet[m]

\* A step that brings no mesh into use and picks no subnet ...
NoneAdded == UNCHANGED <<subnet, user>> /\ InUse' \subseteq InUse

\* Who is clean was so before.
CleanBefore == \A u \in Users : Clean(u)' => Clean(u)

\* ... keeps the subnets of clean users distinct.
LEMMA DistinctKept == ASSUME Types, Distinct, CleanBefore, NoneAdded PROVE Distinct'
<1>1. \A m \in InUse : user[m] \in Users
  BY DEF InUse, Live, Types, TypeOK, Control
<1> QED
  BY <1>1 DEF Distinct, CleanBefore, NoneAdded

\* A step of one request that brings no mesh into use: it works on with what it
\* has or with a live mesh.
Shrinks(r) ==
    /\ \A q \in Reqs \ {r} : pc'[q] = pc[q] /\ cur'[q] = cur[q]
    /\ Live' \subseteq Live /\ cur'[r] \subseteq cur[r] \cup Live /\ pc'[r] # "create"
    /\ UNCHANGED <<subnet, user>>

\* What is in use after it.
LEMMA InUseAfter == ASSUME NEW r \in Reqs, Shrinks(r) PROVE NoneAdded
<1> USE DEF Shrinks
<1> SUFFICES ASSUME NEW m \in InUse' PROVE m \in InUse
  BY DEF NoneAdded
<1>1. CASE m \in Live' \/ (m \in Reqs /\ pc'[m] = "create")
  BY <1>1 DEF InUse
<1>2. CASE \E q \in Reqs : m \in cur'[q]
  BY <1>2 DEF InUse
<1> QED
  BY <1>1, <1>2 DEF InUse

\* Whoever picks a subnet in use is on record, and so is who uses it.
LEMMA PickedDistinct ==
    ASSUME Types, Distinct, CleanBefore, NEW r \in Reqs, Does(r, "create", cur[r], hand[r]),
           NEW n \in Subnets, subnet' = [subnet EXCEPT ![r] = n], \A m \in Live : subnet[m] # n,
           \A m \in Unseen(n) : excused'[user[m]] # {} /\ excused'[user[r]] # {},
           UNCHANGED <<mesh, user>>
    PROVE  Distinct'
<1>1. subnet \in [Reqs -> 0 .. MaxSubnet] /\ user \in [Reqs -> Users] /\ InUse \subseteq Reqs
  BY DEF Types, TypeOK, Control, InUse, Live
<1>2. InUse' \subseteq InUse \cup {r}
  BY DEF InUse, Live, Does
<1>3. \A m \in InUse : subnet[m] = n => m \in Unseen(n)
  BY <1>1 DEF InUse, Unseen
<1>4. \A m \in InUse \ {r} : subnet'[m] = subnet[m]
  BY <1>1
<1>5. subnet'[r] = n /\ user' = user
  BY <1>1
<1> SUFFICES ASSUME NEW m \in InUse', excused'[user[m]] = {}, NEW k \in InUse', subnet'[k] = subnet'[m]
             PROVE  k = m
  BY <1>5 DEF Distinct, Clean
<1>6. CASE m # r /\ k # r
  <2>1. m \in InUse /\ k \in InUse /\ subnet[k] = subnet[m] /\ user[m] \in Users
    BY <1>1, <1>2, <1>4, <1>6
  <2>2. Clean(user[m])
    BY <1>5, <2>1 DEF CleanBefore, Clean
  <2> QED
    BY <2>1, <2>2 DEF Distinct
<1>7. CASE m = r /\ k # r
  BY <1>2, <1>3, <1>4, <1>5, <1>7
<1>8. CASE m # r /\ k = r
  BY <1>2, <1>3, <1>4, <1>5, <1>8
<1> QED
  BY <1>6, <1>7, <1>8

\* Subnets stay distinct but for those picked twice, which is on record.
LEMMA DistinctStep ==
    ASSUME Base, Distinct, [Next]_vars
    PROVE  Distinct'
<1> USE DEF tables, wg, fixed
<1>0. Types /\ CleanBefore
  BY RecordKept DEF Base, CleanBefore, Clean
<1>1. /\ mesh \in [Reqs -> {"none", "live", "gone"}]
      /\ \A q \in Reqs : cur[q] \subseteq Reqs
  BY <1>0 DEF Types, TypeOK, Control
<1>2. ASSUME NEW r \in Reqs,
             \/ Activate(r) \/ Deactivate(r) \/ Connect(r) \/ Disconnect(r)
             \/ Step(r) \/ StatementFails(r) \/ Ages(r)
      PROVE  Distinct'
  <2>0. Shrinks(r) => Distinct'
    BY <1>0, InUseAfter, DistinctKept
  <2>1. CASE Activate(r)
    BY <1>0, <1>1, <2>0, <2>1, ActivateDoes DEF Shrinks, Does, Live
  <2>2. CASE Deactivate(r)
    <3>1. PICK l \in {"unlist", "unlist all"} : Does(r, l, {}, {})
      BY <1>0, <2>2, DeactivateDoes
    <3>2. UNCHANGED <<mesh, subnet, user>>
      BY <1>0, <2>2, DeactivateDoes
    <3> QED
      BY <2>0, <3>1, <3>2 DEF Shrinks, Does, Live
  <2>3. CASE Connect(r)
    BY <1>0, <1>1, <2>0, <2>3, ConnectDoes DEF Shrinks, Does, Live
  <2>4. CASE Disconnect(r)
    <3>1. PICK p \in active, l \in {"detach", "retire"} : Does(r, l, {}, {p})
      BY <1>0, <2>4, DisconnectDoes
    <3>2. UNCHANGED <<mesh, subnet, user>>
      BY <1>0, <2>4, DisconnectDoes
    <3> QED
      BY <2>0, <3>1, <3>2 DEF Shrinks, Does, Live
  <2>5. CASE Lock(r)
    BY <1>0, <1>1, <2>0, <2>5, LockDoes DEF Shrinks, Does, Live
  <2>6. CASE List(r)
    BY <1>0, <1>1, <2>0, <2>6, ListDoes DEF Shrinks, Does, Live, SessionOf
  <2>7. CASE Member(r)
    BY <1>0, <1>1, <2>0, <2>7, MemberDoes DEF Shrinks, Does, Live
  <2>8. CASE Join(r)
    BY <1>0, <1>1, <2>0, <2>8, JoinDoes DEF Shrinks, Does, Live, AddMember
  <2>9. CASE Touch(r)
    BY <1>0, <1>1, <2>0, <2>9, TouchDoes DEF Shrinks, Does, Live
  <2>10. CASE PickSubnet(r)
    <3>1. CASE pc'[r] = "create"
      BY <1>0, <2>10, <3>1, PickSubnetDoes, PickedDistinct DEF Does
    <3>2. CASE pc'[r] # "create"
      BY <1>0, <2>0, <2>10, <3>2, PickSubnetDoes DEF Shrinks, Does, Live
    <3> QED
      BY <3>1, <3>2
  <2>11. CASE Create(r)
    <3>1. pc[r] = "create" /\ UNCHANGED <<subnet, user>>
      BY <1>0, <2>11, CreateDoes
    <3>2. CASE Does(r, "enrol", {r}, {}) /\ mesh' = [mesh EXCEPT ![r] = "live"]
      <4>1. Live' = Live \cup {r}
        BY <1>1, <3>2 DEF Live
      <4>2. NoneAdded
        BY <3>1, <3>2, <4>1 DEF NoneAdded, InUse, Does
      <4> QED
        BY <1>0, <4>2, DistinctKept
    <3>3. CASE Does(r, "load", cur[r], hand[r]) /\ UNCHANGED mesh
      BY <2>0, <3>1, <3>3 DEF Shrinks, Does, Live
    <3> QED
      BY <1>0, <2>11, <3>2, <3>3, CreateDoes
  <2>12. CASE LoadExisting(r)
    BY <1>0, <1>1, <2>0, <2>12, LoadExistingDoes DEF Shrinks, Does, Live, SessionOf
  <2>13. CASE Enrol(r)
    BY <1>0, <1>1, <2>0, <2>13, EnrolDoes DEF Shrinks, Does, Live, AddMember
  <2>14. CASE Rollback(r)
    BY <1>0, <1>1, <2>0, <2>14, RollbackDoes DEF Shrinks, Does, Live, Deleted
  <2>15. CASE Attach(r)
    BY <1>0, <1>1, <2>0, <2>15, AttachDoes DEF Shrinks, Does, Live
  <2>16. CASE AttachRoute(r)
    BY <1>0, <1>1, <2>0, <2>16, AttachRouteDoes DEF Shrinks, Does, Live
  <2>17. CASE AttachLink(r)
    BY <1>0, <1>1, <2>0, <2>17, AttachLinkDoes DEF Shrinks, Does, Live, Linked
  <2>18. CASE Unlist(r)
    BY <1>0, <1>1, <2>0, <2>18, UnlistDoes, ZenonT(60) DEF Shrinks, Does, Live, SessionOf
  <2>19. CASE Members(r)
    BY <1>0, <1>1, <2>0, <2>19, MembersDoes DEF Shrinks, Does, Live
  <2>20. CASE Unroute(r)
    BY <1>0, <1>1, <2>0, <2>20, UnrouteDoes DEF Shrinks, Does, Live
  <2>21. CASE Drop(r)
    BY <1>0, <1>1, <2>0, <2>21, DropDoes DEF Shrinks, Does, Live, Deleted
  <2>22. CASE Sessions(r)
    BY <1>0, <1>1, <2>0, <2>22, SessionsDoes DEF Shrinks, Does, Live, SessionOf
  <2>23. CASE Relink(r)
    BY <1>0, <1>1, <2>0, <2>23, RelinkDoes DEF Shrinks, Does, Live, Linked
  <2>24. CASE Reroute(r)
    BY <1>0, <1>1, <2>0, <2>24, RerouteDoes DEF Shrinks, Does, Live
  <2>25. CASE Detach(r)
    BY <1>0, <1>1, <2>0, <2>25, DetachDoes DEF Shrinks, Does, Live
  <2>26. CASE Clear(r)
    BY <1>0, <1>1, <2>0, <2>26, ClearDoes DEF Shrinks, Does, Live
  <2>27. CASE Retire(r)
    BY <1>0, <1>1, <2>0, <2>27, RetireDoes DEF Shrinks, Does, Live
  <2>28. CASE StatementFails(r)
    BY <1>0, <1>1, <2>0, <2>28, StatementFailsDoes, ZenonT(60) DEF Shrinks, Live
  <2>29. CASE Ages(r)
    <3>1. UNCHANGED <<pc, cur, subnet, user, mesh>>
      BY <1>0, <2>29, AgesDoes
    <3>2. NoneAdded
      BY <3>1 DEF NoneAdded, InUse, Live
    <3> QED
      BY <1>0, <3>2, DistinctKept
  <2> QED
    BY <1>2, <2>1, <2>2, <2>3, <2>4, <2>5, <2>6, <2>7, <2>8, <2>9, <2>10, <2>11, <2>12,
       <2>13, <2>14, <2>15, <2>16, <2>17, <2>18, <2>19, <2>20, <2>21, <2>22, <2>23, <2>24,
       <2>25, <2>26, <2>27, <2>28, <2>29 DEF Step
<1>3. CASE DeleteStaleSessions
  <2>1. UNCHANGED <<pc, cur, subnet, user>> /\ Live' \subseteq Live
    BY <1>0, <1>3, CleanUpDoes DEF Deleted, Live
  <2>2. NoneAdded
    BY <2>1 DEF NoneAdded, InUse
  <2> QED
    BY <1>0, <2>2, DistinctKept
<1>4. ASSUME NEW p \in Peers, LateAttempt(p) PROVE Distinct'
  <2>1. UNCHANGED <<pc, cur, subnet, user, mesh>>
    BY <1>0, <1>4, LateAttemptDoes
  <2>2. NoneAdded
    BY <2>1 DEF NoneAdded, InUse, Live
  <2> QED
    BY <1>0, <2>2, DistinctKept
<1>5. CASE UNCHANGED vars
  <2>1. NoneAdded
    BY <1>5 DEF vars, NoneAdded, InUse, Live
  <2> QED
    BY <1>0, <2>1, DistinctKept
<1> QED
  BY <1>2, <1>3, <1>4, <1>5 DEF Next

\* No step for another user takes a user's mesh address away.
LEMMA ForeignRoutes ==
    ASSUME Base, Distinct, NEW u \in Users, Clean(u), NEW r \in Reqs, user[r] # u,
           \/ Activate(r) \/ Deactivate(r) \/ Connect(r) \/ Disconnect(r)
           \/ Step(r) \/ StatementFails(r) \/ Ages(r),
           NEW p \in Peers, NEW m \in SessionOf(u), owner[p] = u, routed[p] = subnet[m]
    PROVE  routed'[p] = routed[p]
<1> USE DEF tables, wg, fixed
<1>1. Types /\ Own /\ m \in Live /\ user[m] = u /\ cur[r] \subseteq Reqs /\ hand[r] \subseteq Peers
  BY DEF Base, Types, Control, SessionOf
<1>2. p \notin hand[r]
  BY <1>1 DEF Own
<1>3. ASSUME NEW q \in hand[r], NEW n \in cur[r], pc[r] \in {"route", "reroute"}, routed' = Routed(q, MeshIP(n))
      PROVE  routed'[p] = routed[p]
  <2>1. n \in InUse /\ user[n] # u
    BY <1>1 DEF InUse, Own
  <2>2. m \in InUse
    BY <1>1 DEF InUse
  <2>3. subnet[n] # subnet[m]
    BY <1>1, <2>1, <2>2 DEF Distinct
  <2> QED
    BY <1>2, <1>3, <2>3 DEF Routed, MeshIP
<1>4. CASE Disconnect(r)
  <2>1. PICK q \in active : owner[q] = user[r] /\ (routed' = routed \/ routed' = Unrouted({q}))
    BY <1>1, <1>4, DisconnectDoes
  <2> QED
    BY <2>1 DEF Unrouted
<1>5. CASE Unroute(r) \/ Detach(r)
  BY <1>1, <1>2, <1>5, UnrouteDoes, DetachDoes DEF Unrouted
<1>6. CASE AttachRoute(r)
  BY <1>1, <1>3, <1>6, AttachRouteDoes
<1>7. CASE Reroute(r)
  BY <1>1, <1>3, <1>7, RerouteDoes
<1>8. CASE Activate(r) \/ Deactivate(r) \/ Connect(r) \/ Ages(r) \/ StatementFails(r)
  BY <1>1, <1>8, ActivateDoes, DeactivateDoes, ConnectDoes, AgesDoes, StatementFailsDoes
<1>9. CASE \/ Lock(r) \/ List(r) \/ Member(r) \/ Join(r) \/ Touch(r)
            \/ PickSubnet(r) \/ Create(r) \/ LoadExisting(r) \/ Enrol(r) \/ Rollback(r)
  BY <1>1, <1>9, LockDoes, ListDoes, MemberDoes, JoinDoes, TouchDoes, PickSubnetDoes,
     CreateDoes,
     LoadExistingDoes, EnrolDoes, RollbackDoes
<1>10. CASE \/ Attach(r) \/ AttachLink(r) \/ Unlist(r) \/ Members(r) \/ Drop(r)
            \/ Sessions(r) \/ Relink(r) \/ Clear(r) \/ Retire(r)
  BY <1>1, <1>10, AttachDoes, AttachLinkDoes, UnlistDoes, MembersDoes, DropDoes, SessionsDoes,
     RelinkDoes, ClearDoes, RetireDoes
<1> QED
  BY <1>4, <1>5, <1>6, <1>7, <1>8, <1>9, <1>10 DEF Step

\* A user whose things and routes a step leaves alone stays served.
LEMMA UntouchedServed ==
    ASSUME Base, NEW u \in Users, Tidy(u), Clean(u), Served(u), Untouched(u), device' \subseteq Peers,
           \A p \in Peers, m \in SessionOf(u) : owner[p] = u /\ routed[p] = subnet[m] => routed'[p] = routed[p]
    PROVE  Served(u)'
<1>1. SessionOf(u)' = SessionOf(u) /\ SessionOf(u) \subseteq Reqs /\ user' = user
  BY DEF Untouched, SessionOf, Live
<1>2. \A q \in Reqs : user[q] = u =>
        /\ pc'[q] = pc[q] /\ cur'[q] = cur[q] /\ hand'[q] = hand[q]
        /\ subnet'[q] = subnet[q] /\ link'[q] = link[q]
  BY DEF Untouched
<1>3. ASSUME NEW m \in SessionOf(u), link[m] \in device'
      PROVE  routed'[link[m]] = subnet[m] \/ Pending(m)
  <2>1. m \in Reqs /\ user[m] = u /\ link[m] \in Peers
    BY <1>3 DEF SessionOf, Live
  <2>2. owner[link[m]] = u /\ link[m] \in device
    BY <1>3, <2>1 DEF Base, Own, Untouched
  <2> QED
    BY <2>1, <2>2 DEF Served
<1>4. \A m \in SessionOf(u) : Pending(m) => Pending(m)'
  BY <1>1, <1>2 DEF Pending, SessionOf
<1>5. \A m \in SessionOf(u) : subnet'[m] = subnet[m] /\ link'[m] = link[m]
  BY <1>1, <1>2 DEF SessionOf
<1>6. ASSUME NEW r \in Reqs, user[r] = u, pc[r] = "link", NEW p \in hand[r], NEW m \in cur[r]
      PROVE  routed'[p] = subnet[m] /\ m \in SessionOf(u)
  <2>1. routed[p] = subnet[m] /\ m \in SessionOf(u)
    BY <1>6 DEF Served, Tidy, AtWork, WithMesh
  <2>2. p \in Peers /\ owner[p] = u
    BY <1>6 DEF Base, Types, Control, Own
  <2> QED
    BY <2>1, <2>2
<1>7. (\A m \in SessionOf(u) : link[m] \in device => routed[link[m]] = subnet[m] \/ Pending(m))'
  BY <1>1, <1>3, <1>4, <1>5
<1>8. (\A r \in Reqs : user[r] = u /\ pc[r] = "link" => \A p \in hand[r], m \in cur[r] : routed[p] = subnet[m])'
  BY <1>1, <1>2, <1>5, <1>6
<1> QED
  BY <1>7, <1>8 DEF Served

\* What is known of the routes of a clean user whose one request takes a step.
Serves(r) ==
    /\ pc[r] \notin {"link", "drop", "sessions", "relink", "reroute"} =>
        \A m \in SessionOf(user[r]) : link[m] \in device =>
            routed[link[m]] = subnet[m] \/ (pc[r] = "clear" /\ link[m] \in hand[r])
    /\ pc[r] = "link" => \A p \in hand[r], m \in cur[r] : routed[p] = subnet[m]

\* With the user's other requests idle, it is what being served says.
LEMMA ServedBy ==
    ASSUME NEW r \in Reqs, \A q \in Reqs \ {r} : user[q] = user[r] => pc[q] \in {"new", "done"}
    PROVE  \A u : u = user[r] => (Served(u) <=> Serves(r))
BY DEF Served, Serves, Pending, SessionOf

\* A step that leaves the tables and the routes alone, to no label that matters.
LEMMA QuietServes ==
    ASSUME NEW r \in Reqs, Serves(r), UNCHANGED <<mesh, user, link, routed, device>>,
           pc[r] \notin {"link", "drop", "sessions", "relink", "reroute", "clear"}, pc'[r] # "link",
           \A m \in SessionOf(user[r]) : subnet'[m] = subnet[m]
    PROVE  Serves(r)'
<1>1. SessionOf(user[r])' = SessionOf(user[r])
  BY DEF SessionOf, Live
<1> QED
  BY <1>1 DEF Serves

\* A clean user's own step keeps the user's connections served.
LEMMA OwnServed ==
    ASSUME Base, Base', NEW r \in Reqs, Tidy(user[r]), excused'[user[r]] = {}, Serves(r), Known(r),
           UNCHANGED <<owner, user>>,
           Activate(r) \/ Deactivate(r) \/ Connect(r) \/ Disconnect(r) \/ Step(r) \/ StatementFails(r)
    PROVE  Serves(r)'
<1> USE DEF tables, wg, fixed
<1>1. /\ link \in [Reqs -> Peers \cup {NoMember, NoPeer}] /\ mesh \in [Reqs -> {"none", "live", "gone"}]
      /\ routed \in [Peers -> 0 .. MaxSubnet] /\ subnet \in [Reqs -> 0 .. MaxSubnet]
      /\ cur[r] \subseteq Reqs /\ hand[r] \subseteq Peers /\ active \subseteq Peers /\ device \subseteq Peers
      /\ NoMember \notin Peers /\ NoPeer \notin Peers /\ NoMember # NoPeer
      /\ Types /\ device' \subseteq Peers
  BY NobodyAssumption DEF Base, Types, TypeOK, Control
<1> DEFINE S == SessionOf(user[r])
<1>2. S \subseteq Reqs /\ \A m, n \in S : m = n
  BY DEF Known, SessionOf, Live
<1>3. CASE Activate(r)
  <2>1. /\ UNCHANGED <<mesh, link, subnet, routed, device>> /\ pc'[r] # "link"
        /\ pc[r] \notin {"link", "drop", "sessions", "relink", "reroute", "clear"}
    BY <1>1, <1>3, ActivateDoes DEF Does
  <2> QED
    BY <2>1, QuietServes
<1>4. CASE Deactivate(r)
  <2>1. PICK l \in {"unlist", "unlist all"} : Does(r, l, {}, {})
    BY <1>1, <1>4, DeactivateDoes
  <2>2. UNCHANGED <<mesh, link, subnet, routed, device>> /\ pc[r] = "new"
    BY <1>1, <1>4, DeactivateDoes
  <2> QED
    BY <2>1, <2>2, QuietServes DEF Does
<1>5. CASE Connect(r)
  <2>1. pc'[r] \in {"drop", "sessions", "relink", "reroute"}
    BY <1>1, <1>5, ConnectDoes DEF Does
  <2> QED
    BY <2>1 DEF Serves
<1>6. CASE Disconnect(r)
  <2>1. \A q \in device' : q \in device /\ routed'[q] = routed[q]
    BY <1>1, <1>6 DEF Disconnect, Unrouted
  <2>2. PICK p \in active, l \in {"detach", "retire"} : Does(r, l, {}, {p})
    <3>1. Types
      BY <1>1
    <3> QED
      BY <1>6, <3>1, DisconnectDoes
  <2>3. UNCHANGED <<mesh, link, subnet>> /\ pc[r] = "new"
    BY <1>1, <1>6, DisconnectDoes
  <2>4. SessionOf(user[r])' = S /\ pc'[r] # "link"
    BY <2>2, <2>3 DEF SessionOf, Live, Does
  <2> QED
    BY <1>1, <2>1, <2>3, <2>4 DEF Serves
<1>7. CASE Lock(r)
  <2>1. /\ UNCHANGED <<mesh, link, subnet, routed, device>> /\ pc'[r] # "link"
        /\ pc[r] \notin {"link", "drop", "sessions", "relink", "reroute", "clear"}
    BY <1>1, <1>7, LockDoes DEF Does
  <2> QED
    BY <2>1, QuietServes
<1>8. CASE List(r)
  <2>1. /\ UNCHANGED <<mesh, link, subnet, routed, device>> /\ pc'[r] # "link"
        /\ pc[r] \notin {"link", "drop", "sessions", "relink", "reroute", "clear"}
    BY <1>1, <1>8, ListDoes DEF Does
  <2> QED
    BY <2>1, QuietServes
<1>9. CASE Member(r)
  <2>1. /\ UNCHANGED <<mesh, link, subnet, routed, device>> /\ pc'[r] # "link"
        /\ pc[r] \notin {"link", "drop", "sessions", "relink", "reroute", "clear"}
    BY <1>1, <1>9, MemberDoes DEF Does
  <2> QED
    BY <2>1, QuietServes
<1>10. CASE Join(r)
  <2>1. pc[r] = "join" /\ UNCHANGED <<mesh, routed, device>> /\ pc'[r] # "link"
    BY <1>1, <1>10, JoinDoes DEF Does, AddMember
  <2>2. SessionOf(user[r])' = S /\ cur[r] = S
    BY <2>1 DEF SessionOf, Live, Known, AtWork, WithMesh
  <2>3. CASE AddMember(r)
    <3>1. \A m \in S : link'[m] = NoPeer
      BY <1>1, <1>2, <2>2, <2>3 DEF AddMember
    <3> QED
      BY <1>1, <2>1, <2>2, <3>1 DEF Serves
  <2>4. CASE UNCHANGED tables
    BY <2>1, <2>4, QuietServes
  <2> QED
    BY <1>1, <1>10, <2>3, <2>4, JoinDoes
<1>11. CASE Touch(r)
  <2>1. /\ UNCHANGED <<mesh, link, subnet, routed, device>> /\ pc'[r] # "link"
        /\ pc[r] \notin {"link", "drop", "sessions", "relink", "reroute", "clear"}
    BY <1>1, <1>11, TouchDoes DEF Does
  <2> QED
    BY <2>1, QuietServes
<1>12. CASE PickSubnet(r)
  <2>1. /\ UNCHANGED <<mesh, link, routed, device>> /\ pc'[r] # "link" /\ pc[r] = "subnet"
    BY <1>1, <1>12, PickSubnetDoes DEF Does
  <2>2. S = {}
    BY <2>1 DEF Known
  <2> QED
    BY <2>1, <2>2, QuietServes
<1>13. CASE Create(r)
  <2>1. pc[r] = "create" /\ S = {} /\ pc'[r] = "enrol" /\ mesh' = [mesh EXCEPT ![r] = "live"] /\ UNCHANGED <<link, device>>
    BY <1>1, <1>13, CreateDoes DEF Does, Known
  <2>2. SessionOf(user[r])' = {r}
    BY <1>1, <2>1 DEF SessionOf, Live
  <2>3. link[r] = NoMember
    BY <2>1 DEF Base, Rows, Live
  <2> QED
    BY <1>1, <2>1, <2>2, <2>3 DEF Serves
<1>14. CASE LoadExisting(r)
  BY <1>1, <1>14, LoadExistingDoes DEF Known
<1>15. CASE Enrol(r)
  <2>1. pc[r] = "enrol" /\ UNCHANGED <<mesh, routed, device>> /\ pc'[r] # "link"
    BY <1>1, <1>15, EnrolDoes DEF Does, AddMember
  <2>2. SessionOf(user[r])' = S /\ cur[r] = S
    BY <2>1 DEF SessionOf, Live, Known, AtWork, WithMesh
  <2>3. CASE AddMember(r)
    <3>1. \A m \in S : link'[m] = NoPeer
      BY <1>1, <1>2, <2>2, <2>3 DEF AddMember
    <3> QED
      BY <1>1, <2>1, <2>2, <3>1 DEF Serves
  <2>4. CASE UNCHANGED tables
    BY <2>1, <2>4, QuietServes
  <2> QED
    BY <1>1, <1>15, <2>3, <2>4, EnrolDoes
<1>16. CASE Rollback(r)
  <2>1. pc[r] = "rollback" /\ pc'[r] = "done" /\ Deleted(cur[r])
    BY <1>1, <1>16, RollbackDoes DEF Does
  <2>2. SessionOf(user[r])' = {}
    BY <2>1 DEF Deleted, SessionOf, Live, Known, AtWork, WithMesh
  <2> QED
    BY <2>1, <2>2 DEF Serves
<1>17. CASE Attach(r)
  <2>1. /\ UNCHANGED <<mesh, link, subnet, routed, device>> /\ pc'[r] # "link"
        /\ pc[r] \notin {"link", "drop", "sessions", "relink", "reroute", "clear"}
    BY <1>1, <1>17, AttachDoes DEF Does
  <2> QED
    BY <2>1, QuietServes
<1>18. CASE AttachRoute(r)
  <2>1. UNCHANGED <<mesh, link, subnet, device>> /\ pc[r] = "route"
    BY <1>1, <1>18, AttachRouteDoes
  <2>2. cur[r] = S
    BY <2>1 DEF Known, AtWork, WithMesh
  <2>3. ASSUME NEW p \in hand[r], Does(r, "link", cur[r], {p}), NEW m \in cur[r], routed' = Routed(p, MeshIP(m))
        PROVE  Serves(r)'
    <3>1. S = {m} /\ p \in Peers /\ routed'[p] = subnet[m]
      BY <1>1, <1>2, <2>2, <2>3 DEF Routed, MeshIP
    <3> QED
      BY <2>1, <2>2, <2>3, <3>1 DEF Serves, Does
  <2>4. CASE UNCHANGED routed /\ pc'[r] # "link"
    BY <2>1, <2>4, QuietServes
  <2> QED
    BY <1>1, <1>18, <2>3, <2>4, AttachRouteDoes DEF Does
<1>19. CASE AttachLink(r)
  <2>1. pc[r] = "link" /\ pc'[r] = "done" /\ UNCHANGED <<mesh, subnet, routed>> /\ Linked(r)
    BY <1>1, <1>19, AttachLinkDoes DEF Does, Linked
  <2>2. cur[r] = S /\ SessionOf(user[r])' = S /\ \A m \in S : link[m] # NoMember
    BY <2>1 DEF Known, AtWork, WithMesh, SessionOf, Live
  <2>3. \A m \in S : link'[m] \in hand[r]
    BY <1>2, <2>1, <2>2 DEF Linked
  <2> QED
    BY <2>1, <2>2, <2>3 DEF Serves
<1>20. CASE Unlist(r)
  <2>1. /\ UNCHANGED <<mesh, link, subnet, routed, device>> /\ pc'[r] # "link"
        /\ pc[r] \notin {"link", "drop", "sessions", "relink", "reroute", "clear"}
    BY <1>1, <1>20, UnlistDoes DEF Does
  <2> QED
    BY <2>1, QuietServes
<1>21. CASE Members(r)
  <2>1. /\ UNCHANGED <<mesh, link, subnet, routed, device>> /\ pc'[r] # "link"
        /\ pc[r] \notin {"link", "drop", "sessions", "relink", "reroute", "clear"}
    BY <1>1, <1>21, MembersDoes DEF Does
  <2> QED
    BY <2>1, QuietServes
<1>22. CASE Unroute(r)
  <2>1. pc'[r] \in {"drop", "sessions", "relink", "reroute"}
    BY <1>1, <1>22, UnrouteDoes DEF Does
  <2> QED
    BY <2>1 DEF Serves
<1>23. CASE Drop(r)
  <2>1. pc[r] = "drop" /\ pc'[r] = "done" /\ Deleted(cur[r])
    BY <1>1, <1>23, DropDoes DEF Does
  <2>2. SessionOf(user[r])' = {}
    BY <2>1 DEF Deleted, SessionOf, Live, Known, AtWork, WithMesh
  <2> QED
    BY <2>1, <2>2 DEF Serves
<1>24. CASE Sessions(r)
  <2>1. pc[r] = "sessions" /\ UNCHANGED <<mesh, link>>
    BY <1>1, <1>24, SessionsDoes
  <2>2. SessionOf(user[r])' = S
    BY <2>1 DEF SessionOf, Live
  <2>3. (pc'[r] = "done" /\ \A m \in S : link[m] = NoMember) \/ pc'[r] = "relink"
    BY <1>1, <1>24, SessionsDoes DEF Does
  <2> QED
    BY <1>1, <2>1, <2>2, <2>3 DEF Serves
<1>25. CASE Relink(r)
  <2>1. pc'[r] \in {"drop", "sessions", "relink", "reroute"}
    BY <1>1, <1>25, RelinkDoes DEF Does
  <2> QED
    BY <2>1 DEF Serves
<1>26. CASE Reroute(r)
  <2>1. pc[r] = "reroute" /\ pc'[r] = "done" /\ UNCHANGED <<mesh, subnet, link, device>>
    BY <1>1, <1>26, RerouteDoes DEF Does
  <2>2. cur[r] = S /\ SessionOf(user[r])' = S /\ hand[r] \subseteq device /\ \A m \in S : link[m] \in hand[r]
    BY <2>1 DEF Known, AtWork, WithMesh, SessionOf, Live
  <2>3. PICK p \in hand[r], m \in S : routed' = Routed(p, MeshIP(m)) /\ hand[r] = {p}
    BY <1>1, <1>26, <2>1, <2>2, RerouteDoes DEF Types, Control
  <2>4. S = {m} /\ link[m] = p /\ routed'[p] = subnet[m]
    BY <1>1, <1>2, <2>2, <2>3 DEF Routed, MeshIP
  <2> QED
    BY <2>1, <2>2, <2>4 DEF Serves
<1>27. CASE Detach(r)
  <2>1. /\ UNCHANGED <<mesh, link, subnet, device>> /\ pc[r] = "detach" /\ routed' = Unrouted(hand[r] \cap device)
        /\ pc'[r] = "clear" /\ hand'[r] = hand[r]
    BY <1>1, <1>27, DetachDoes DEF Does
  <2>2. SessionOf(user[r])' = S
    BY <2>1 DEF SessionOf, Live
  <2>3. \A p \in Peers : p \notin hand[r] => routed'[p] = routed[p]
    BY <2>1 DEF Unrouted
  <2> QED
    BY <1>1, <2>1, <2>2, <2>3 DEF Serves
<1>28. CASE Clear(r)
  <2>1. /\ pc[r] = "clear" /\ pc'[r] = "retire" /\ UNCHANGED <<mesh, subnet, routed, device>>
        /\ link' = [m \in Reqs |-> IF link[m] \in hand[r] THEN NoPeer ELSE link[m]]
    BY <1>1, <1>28, ClearDoes DEF Does
  <2>2. SessionOf(user[r])' = S
    BY <2>1 DEF SessionOf, Live
  <2> QED
    BY <1>1, <1>2, <2>1, <2>2 DEF Serves
<1>29. CASE Retire(r)
  <2>1. /\ UNCHANGED <<mesh, link, subnet, routed, device>> /\ pc'[r] # "link"
        /\ pc[r] \notin {"link", "drop", "sessions", "relink", "reroute", "clear"}
    BY <1>1, <1>29, RetireDoes DEF Does
  <2> QED
    BY <2>1, QuietServes
<1>30. CASE StatementFails(r)
  <2>1. /\ UNCHANGED <<mesh, link, subnet, routed, device>> /\ pc'[r] # "link"
        /\ pc[r] \notin {"link", "drop", "sessions", "relink", "reroute", "clear"}
    BY <1>1, <1>30, StatementFailsDoes
  <2> QED
    BY <2>1, QuietServes
<1> QED
  BY <1>3, <1>4, <1>5, <1>6, <1>7, <1>8, <1>9, <1>10, <1>11, <1>12, <1>13, <1>14, <1>15,
     <1>16, <1>17, <1>18, <1>19, <1>20, <1>21, <1>22, <1>23, <1>24, <1>25, <1>26, <1>27,
     <1>28, <1>29, <1>30 DEF Step

\* Clean users are served, whatever is on record of the others.
AllServed == \A u \in Users : Clean(u) => Served(u)

\* Every step keeps them served.
LEMMA ServedStep ==
    ASSUME Base, AllTidy, Distinct, AllServed, [Next]_vars
    PROVE  AllServed'
<1> SUFFICES ASSUME NEW u \in Users, excused'[u] = {} PROVE Served(u)'
  BY DEF AllServed, Clean
<1>1. Base' /\ device' \subseteq Peers
  BY BaseStep DEF Base, Types, TypeOK
<1>2. Tidy(u) /\ Clean(u) /\ Served(u) /\ excused'[u] = {} /\ excused[u] = {}
  BY RecordKept DEF Base, AllTidy, AllServed, Clean
<1>3. ASSUME Untouched(u), UNCHANGED routed PROVE Served(u)'
  BY <1>1, <1>2, <1>3, UntouchedServed
<1>4. ASSUME NEW r \in Reqs,
             \/ Activate(r) \/ Deactivate(r) \/ Connect(r) \/ Disconnect(r)
             \/ Step(r) \/ StatementFails(r) \/ Ages(r)
      PROVE  Served(u)'
  <2>1. CASE user[r] # u
    <3>1. Untouched(u)
      BY <1>4, <2>1, ForeignStep
    <3>2. \A p \in Peers, m \in SessionOf(u) : owner[p] = u /\ routed[p] = subnet[m] => routed'[p] = routed[p]
      BY <1>2, <1>4, <2>1, ForeignRoutes
    <3> QED
      BY <1>1, <1>2, <3>1, <3>2, UntouchedServed
  <2>2. CASE user[r] = u /\ Ages(r)
    <3>1. UNCHANGED <<mesh, subnet, link, wg, fixed, lock, pc, cur, hand, excused>>
      BY <2>2, AgesDoes DEF Base
    <3> QED
      BY <1>3, <3>1 DEF Untouched, wg, fixed
  <2>3. CASE user[r] = u /\ ~Ages(r)
    <3>1. /\ UNCHANGED <<owner, user>>
          /\ \A q \in Reqs \ {r} : user[q] = user[r] => pc[q] \in {"new", "done"} /\ pc'[q] = pc[q]
      BY <1>2, <1>4, <2>3, OwnFrame
    <3>2. Known(r)
      BY <1>2, <2>3, <3>1, OwnKnown
    <3>3. Serves(r)
      BY <1>2, <2>3, <3>1, ServedBy
    <3>4. Serves(r)'
      BY <1>1, <1>2, <1>4, <2>3, <3>1, <3>2, <3>3, OwnServed
    <3>5. (\A q \in Reqs \ {r} : user[q] = user[r] => pc[q] \in {"new", "done"})'
      BY <3>1
    <3>6. (\A v : v = user[r] => (Served(v) <=> Serves(r)))'
      BY <3>5 DEF Served, Serves, Pending, SessionOf
    <3> QED
      BY <2>3, <3>1, <3>4, <3>6
  <2> QED
    BY <2>1, <2>2, <2>3
<1>5. CASE DeleteStaleSessions
  <2>1. Untouched(u)
    BY <1>2, <1>5, CleanUpSpares
  <2>2. UNCHANGED routed
    BY <1>5, CleanUpDoes DEF Base, wg
  <2> QED
    BY <1>3, <2>1, <2>2
<1>6. ASSUME NEW p \in Peers, LateAttempt(p) PROVE Served(u)'
  <2>1. owner[p] # u
    BY <1>2, <1>6, LateAttemptDoes DEF Base
  <2>2. Untouched(u) /\ \A q \in Peers : owner[q] = u => routed'[q] = routed[q]
    BY <1>6, <2>1, LateSpares
  <2> QED
    BY <1>1, <1>2, <2>2, UntouchedServed
<1>7. CASE UNCHANGED vars
  BY <1>3, <1>7 DEF vars, Untouched
<1> QED
  BY <1>4, <1>5, <1>6, <1>7 DEF Next

(***************************************************************************)
(* A membership of a clean user that names a connection of this node is    *)
(* served: once the owner's requests are over, the mesh's address is       *)
(* routed to that connection, and neither an activation, a connection or a *)
(* clean-up of another user has taken it, nor anything that has gone wrong *)
(* with the others.                                                        *)
(***************************************************************************)
THEOREM MembersAreRouted == Spec => []MemberRouted
<1>1. Init => Distinct /\ AllServed
  BY DEF Init, Distinct, InUse, AllServed, Served, SessionOf, Live
<1>2. Base /\ AllTidy /\ Distinct /\ AllServed /\ [Next]_vars => Distinct' /\ AllServed'
  BY DistinctStep, ServedStep
<1>3. Base /\ AllServed => MemberRouted
  <2> SUFFICES ASSUME Base, AllServed, NEW m \in Live, InFlight(user[m]) = {},
                      excused[user[m]] = {}, link[m] \in device
               PROVE  routed[link[m]] = MeshIP(m)
    BY DEF MemberRouted
  <2>1. m \in SessionOf(user[m]) /\ user[m] \in Users
    BY DEF SessionOf, Live, Base, Types, TypeOK
  <2>2. Served(user[m])
    BY <2>1 DEF AllServed, Clean
  <2>3. ~Pending(m)
    BY DEF Pending, InFlight
  <2> QED
    BY <2>1, <2>2, <2>3 DEF Served, MeshIP
<1> QED
  BY <1>1, <1>2, <1>3, TidyInvariant, PTL DEF Spec
=============================================================================
