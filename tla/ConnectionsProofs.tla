-------------------------- MODULE ConnectionsProofs --------------------------
(***************************************************************************)
(* Proofs about Connections, for any users, servers, keys, limits and any  *)
(* finite number of requests.                                              *)
(*                                                                         *)
(* Shape ties a request's label to what it does and has at hand; it holds  *)
(* of every behaviour and every other invariant rests on it.               *)
(*   DeviceLimit      counts with the rows the Connects that have checked  *)
(*                    the limit and not yet inserted (DevicesBounded).     *)
(*   BanIsFinal       every row of a banned user is in the hands of the    *)
(*                    ban, or its Connect is on record (BanCovers).        *)
(*   NoGhostPeer      every key on a core is backed by a row, by a request *)
(*                    at work on it, or by a failed or a late attempt that *)
(*                    is on record (KeysBacked).                           *)
(*   ActiveOnCore     needs that a key has one holder (OneHolder), which   *)
(*                    needs that a row is closed once (ClosedOnce).        *)
(*   SlotsAccounted   needs in addition that rows being closed are active  *)
(*                    until they are retired (HandActive).                 *)
(* The last two are stated for a system in which the events that break     *)
(* them do not occur; Calm and Quiet name these events.                    *)
(***************************************************************************)
EXTENDS Connections, FiniteSetTheorems, TLAPS

\* A row belongs to a Connect that is over.
RowsDone == \A r \in Reqs : peers[r] # "none" => pc[r] = "done"

\* A request that has not begun has done nothing and was not cancelled.
NewIsBlank == \A r \in Reqs : pc[r] = "new" => op[r] = "none" /\ r \notin gone

\* Where a request can be, by what it does.
OpFits ==
    \A r \in Reqs :
        /\ pc[r] \in ConnectPC => op[r] = "connect"
        /\ pc[r] \in ClosePC => op[r] \in {"disconnect", "force", "delete", "cleanup", "ban"}
        /\ pc[r] = "list" => op[r] = "ban"

\* What a closing request has at hand: one row while it is at work on it, and
\* only rows that were inserted.
AtHand ==
    \A r \in Reqs :
        /\ IF pc[r] \in {"remove", "count", "retire"} THEN \E id \in Reqs : now[r] = {id}
           ELSE now[r] = {}
        /\ pc[r] \notin ClosePC => todo[r] = {}
        /\ pc[r] = "list" => todo[r] = {}
        /\ \A id \in todo[r] \cup now[r] : peers[id] # "none"

Shape == TypeOK /\ RowsDone /\ NewIsBlank /\ OpFits /\ AtHand
-----------------------------------------------------------------------------
\* Nothing has begun.
LEMMA InitShape == Init => Shape
<1> SUFFICES ASSUME Init PROVE Shape
  OBVIOUS
<1>1. AnyConn \in Conn
  <2>1. PICK u \in Users, s \in Servers, k \in Keys : TRUE
    BY SomeAssumption
  <2>2. [user |-> u, server |-> s, key |-> k] \in Conn
    BY DEF Conn
  <2> QED
    BY <2>2 DEF AnyConn
<1> QED
  BY <1>1 DEF Init, Shape, TypeOK, RowsDone, NewIsBlank, OpFits, AtHand, RowState,
     ConnectPC, ClosePC, LateOK

\* What a request's connection consists of.
LEMMA ConnParts ==
    ASSUME TypeOK, NEW r \in Reqs
    PROVE  conn[r].user \in Users /\ conn[r].server \in Servers /\ conn[r].key \in Keys
BY DEF TypeOK, Conn

\* What a call leaves behind.
LEMMA LeaveTypes ==
    ASSUME LateOK, NEW s \in Servers, NEW k \in Keys,
           NEW what \in {"add", "remove"}, LeaveAttempts(s, <<what, k>>), UNCHANGED struck
    PROVE  LateOK'
<1>1. PICK n \in Nat : late' = [late EXCEPT ![s][<<what, k>>] = @ + n]
  <2>1. \A n \in 0 .. MaxLate : n \in Nat
    BY LimitAssumption
  <2> QED
    BY <2>1, Zenon DEF LeaveAttempts
<1>2. <<what, k>> \in Attempts
  BY DEF Attempts
<1>3. late[s][<<what, k>>] + n \in Nat
  BY <1>2 DEF LateOK
<1> QED
  BY <1>1, <1>2, <1>3 DEF LateOK

\* Attempts are left, executed and counted; nothing else touches them.
LEMMA LateTypeStep == TypeOK /\ [Next]_vars => LateOK'
<1> SUFFICES ASSUME TypeOK, [Next]_vars PROVE LateOK'
  OBVIOUS
<1>0. LateOK
  BY DEF TypeOK
<1>1. CASE UNCHANGED <<late, struck>>
  BY <1>0, <1>1 DEF LateOK
<1>2. ASSUME NEW s \in Servers, LateAttempt(s) PROVE LateOK'
  <2>1. PICK k \in Keys, what \in {"add", "remove"} :
            /\ late[s][<<what, k>>] > 0
            /\ late' = [late EXCEPT ![s][<<what, k>>] = @ - 1]
            /\ \/ UNCHANGED struck
               \/ struck' = [struck EXCEPT ![s] = @ \cup (core[s] \cap {k})]
    BY <1>2 DEF LateAttempt
  <2>2. <<what, k>> \in Attempts
    BY DEF Attempts
  <2>3. late[s][<<what, k>>] - 1 \in Nat
    BY <1>0, <2>1, <2>2 DEF LateOK
  <2> QED
    BY <1>0, <2>1, <2>2, <2>3 DEF LateOK
<1>3. ASSUME NEW r \in Reqs, ConnectAdd(r) \/ ConnectUndo(r) PROVE LateOK'
  BY <1>0, <1>3, ConnParts, LeaveTypes DEF ConnectAdd, ConnectUndo, CallCoreRemovePeer
<1>4. ASSUME NEW r \in Reqs, CloseRemove(r) PROVE LateOK'
  <2>1. PICK id \in now[r] : CallCoreRemovePeer(conn[id].server, conn[id].key)
    BY <1>4 DEF CloseRemove
  <2>2. id \in Reqs
    BY DEF TypeOK
  <2> QED
    BY <1>0, <1>4, <2>1, <2>2, ConnParts, LeaveTypes DEF CloseRemove, CallCoreRemovePeer
<1> QED
  BY <1>1, <1>2, <1>3, <1>4
  DEF Next, Begin, Step, vars, ghosts, cores, database, control, Connect, ConnectLookup,
      ConnectLimit, ConnectReserve, ConnectCreate, ConnectRelease, Closing, Disconnect,
      AdminForceDisconnectPeer, DeleteConnection, PeerCleanup, AdminBanUser, BanList,
      CloseNext, CloseCount, CloseRetire, AdminUnbanUser, AdminDeleteUser, ContextDone,
      Crash, SyncList, SyncSet

\* The types, action by action.
LEMMA TypeStep == TypeOK /\ [Next]_vars => TypeOK'
<1> SUFFICES ASSUME TypeOK, [Next]_vars, LateOK' PROVE TypeOK'
  BY LateTypeStep
<1> USE DEF TypeOK, ConnectPC, ClosePC, database, control, ghosts, cores, Goto
<1>1. ASSUME NEW r \in Reqs, Connect(r) PROVE TypeOK'
  BY <1>1 DEF Connect
<1>2. ASSUME NEW r \in Reqs, ConnectLookup(r) PROVE TypeOK'
  BY <1>2 DEF ConnectLookup
<1>3. ASSUME NEW r \in Reqs, ConnectLimit(r) PROVE TypeOK'
  BY <1>3 DEF ConnectLimit
<1>4. ASSUME NEW r \in Reqs, ConnectReserve(r) PROVE TypeOK'
  BY <1>4 DEF ConnectReserve
<1>5. ASSUME NEW r \in Reqs, ConnectAdd(r) PROVE TypeOK'
  BY <1>5, ConnParts, SMTT(60) DEF ConnectAdd
<1>6. ASSUME NEW r \in Reqs, ConnectCreate(r) PROVE TypeOK'
  BY <1>6 DEF ConnectCreate, RowState
<1>7. ASSUME NEW r \in Reqs, ConnectUndo(r) PROVE TypeOK'
  BY <1>7, ConnParts, SMTT(120) DEF ConnectUndo, CallCoreRemovePeer
<1>8. ASSUME NEW r \in Reqs, ConnectRelease(r) PROVE TypeOK'
  BY <1>8, ConnParts DEF ConnectRelease, SlotBack, Decremented
<1>9. ASSUME NEW r \in Reqs, Disconnect(r) PROVE TypeOK'
  BY <1>9 DEF Disconnect, Closing
<1>10. ASSUME NEW r \in Reqs, AdminForceDisconnectPeer(r) PROVE TypeOK'
  BY <1>10 DEF AdminForceDisconnectPeer, Closing
<1>11. ASSUME NEW r \in Reqs, DeleteConnection(r) PROVE TypeOK'
  BY <1>11 DEF DeleteConnection, Closing
<1>12. ASSUME NEW r \in Reqs, PeerCleanup(r) PROVE TypeOK'
  BY <1>12 DEF PeerCleanup, Closing, Active
<1>13. ASSUME NEW r \in Reqs, AdminBanUser(r) PROVE TypeOK'
  <2>1. PICK u \in Users : conn' = [conn EXCEPT ![r].user = u]
                          /\ slipped' = slipped \cup {q \in Reqs : conn[q].user = u /\ pc[q] \in ConnectPC}
                          /\ users' = [users EXCEPT ![u] = IF @ = "ok" THEN "banned" ELSE @]
    BY <1>13 DEF AdminBanUser
  <2>2. conn' \in [Reqs -> Conn]
    BY <2>1, SMTT(60) DEF Conn
  <2> QED
    BY <1>13, <2>1, <2>2 DEF AdminBanUser
<1>14. ASSUME NEW r \in Reqs, BanList(r) PROVE TypeOK'
  BY <1>14 DEF BanList, ActiveOf, Active
<1>15. ASSUME NEW r \in Reqs, CloseNext(r) PROVE TypeOK'
  BY <1>15 DEF CloseNext
<1>16. ASSUME NEW r \in Reqs, CloseRemove(r) PROVE TypeOK'
  BY <1>16, ConnParts, SMTT(60) DEF CloseRemove, CallCoreRemovePeer
<1>17. ASSUME NEW r \in Reqs, CloseCount(r) PROVE TypeOK'
  BY <1>17, ConnParts DEF CloseCount, Decremented
<1>18. ASSUME NEW r \in Reqs, CloseRetire(r) PROVE TypeOK'
  BY <1>18 DEF CloseRetire, Retired, RowState
<1>19. ASSUME NEW r \in Reqs, AdminUnbanUser(r) PROVE TypeOK'
  BY <1>19 DEF AdminUnbanUser
<1>20. ASSUME NEW r \in Reqs, AdminDeleteUser(r) PROVE TypeOK'
  BY <1>20 DEF AdminDeleteUser, RowState
<1>21. ASSUME NEW r \in Reqs, ContextDone(r) PROVE TypeOK'
  BY <1>21 DEF ContextDone, ActiveOf, Active
<1>22. ASSUME NEW s \in Servers, SyncList(s) PROVE TypeOK'
  BY <1>22, FiniteAssumption, FS_Subset, FS_CardinalityType DEF SyncList
<1>23. ASSUME NEW s \in Servers, SyncSet(s) PROVE TypeOK'
  BY <1>23 DEF SyncSet, SetPeerCount
<1>late. ASSUME NEW s \in Servers, LateAttempt(s) PROVE TypeOK'
  BY <1>late, SMTT(60) DEF LateAttempt
<1>24. CASE Crash
  BY <1>24 DEF Crash, Active
<1>25. CASE UNCHANGED vars
  BY <1>25 DEF vars
<1> QED
  BY <1>late, <1>1, <1>2, <1>3, <1>4, <1>5, <1>6, <1>7, <1>8, <1>9, <1>10, <1>11, <1>12, <1>13, <1>14,
     <1>15, <1>16, <1>17, <1>18, <1>19, <1>20, <1>21, <1>22, <1>23, <1>24, <1>25
     DEF Next, Begin, Step

\* DeleteConnection begins to close an active row, or goes straight to deleting
\* an inactive one.
LEMMA DeletionBegins ==
    ASSUME Shape, NEW r \in Reqs, DeleteConnection(r)
    PROVE  /\ pc[r] = "new" /\ op'[r] = "delete"
           /\ \E id \in Reqs :
                /\ MayClose(id)
                /\ \/ /\ peers[id] = "active" /\ pc'[r] = "todo"
                      /\ todo'[r] = {id} /\ now'[r] = {}
                   \/ /\ peers[id] = "inactive" /\ pc'[r] = "retire"
                      /\ todo'[r] = {} /\ now'[r] = {id}
           /\ \A q \in Reqs \ {r} : /\ pc'[q] = pc[q] /\ op'[q] = op[q]
                                    /\ todo'[q] = todo[q] /\ now'[q] = now[q]
           /\ UNCHANGED <<peers, current, users, core, late, conn, gone, sync, lost, struck, raced, slipped>>
<1>1. PICK id \in Reqs :
        /\ MayClose(id)
        /\ IF peers[id] = "active" THEN Closing(r, "delete", {id})
           ELSE /\ pc[r] = "new" /\ "delete" \in Ops
                /\ op' = [op EXCEPT ![r] = "delete"]
                /\ now' = [now EXCEPT ![r] = {id}]
                /\ Goto(r, "retire")
                /\ UNCHANGED <<database, cores, conn, todo, gone, sync, ghosts>>
  BY DEF DeleteConnection
<1> USE DEF Shape, TypeOK, AtHand, ClosePC, Goto, database, ghosts, cores
<1>2. CASE peers[id] = "active"
  <2>1. Closing(r, "delete", {id})
    BY <1>1, <1>2
  <2> QED
    BY <1>1, <1>2, <2>1 DEF Closing
<1>3. CASE peers[id] # "active"
  <2>1. peers[id] = "inactive"
    BY <1>1, <1>3 DEF MayClose
  <2>2. /\ pc[r] = "new" /\ op' = [op EXCEPT ![r] = "delete"]
        /\ now' = [now EXCEPT ![r] = {id}] /\ Goto(r, "retire")
        /\ UNCHANGED <<database, cores, conn, todo, gone, sync, ghosts>>
    BY <1>1, <1>3
  <2> QED
    BY <1>1, <2>1, <2>2
<1> QED
  BY <1>2, <1>3

\* Every step keeps the shape of rows and requests.
LEMMA ShapeStep == Shape /\ [Next]_vars => Shape'
<1> SUFFICES ASSUME Shape, [Next]_vars PROVE (RowsDone /\ NewIsBlank /\ OpFits /\ AtHand)'
  BY TypeStep DEF Shape
<1> DEFINE Kept == RowsDone' /\ NewIsBlank' /\ OpFits' /\ AtHand'
<1> USE DEF Shape, TypeOK, RowsDone, NewIsBlank, OpFits, AtHand, ConnectPC, ClosePC,
            database, control, ghosts, cores, Goto
<1>1. ASSUME NEW r \in Reqs, Connect(r) PROVE Kept
  BY <1>1 DEF Connect
<1>2. ASSUME NEW r \in Reqs, ConnectLookup(r) PROVE Kept
  BY <1>2 DEF ConnectLookup
<1>3. ASSUME NEW r \in Reqs, ConnectLimit(r) PROVE Kept
  BY <1>3 DEF ConnectLimit
<1>4. ASSUME NEW r \in Reqs, ConnectReserve(r) PROVE Kept
  BY <1>4 DEF ConnectReserve
<1>5. ASSUME NEW r \in Reqs, ConnectAdd(r) PROVE Kept
  BY <1>5, SMTT(60) DEF ConnectAdd
<1>6. ASSUME NEW r \in Reqs, ConnectCreate(r) PROVE Kept
  BY <1>6 DEF ConnectCreate, RowState
<1>7. ASSUME NEW r \in Reqs, ConnectUndo(r) PROVE Kept
  BY <1>7 DEF ConnectUndo
<1>8. ASSUME NEW r \in Reqs, ConnectRelease(r) PROVE Kept
  BY <1>8 DEF ConnectRelease
<1>9. ASSUME NEW r \in Reqs, Disconnect(r) PROVE Kept
  BY <1>9 DEF Disconnect, Closing, MayClose
<1>10. ASSUME NEW r \in Reqs, AdminForceDisconnectPeer(r) PROVE Kept
  BY <1>10 DEF AdminForceDisconnectPeer, Closing, MayClose
<1>11. ASSUME NEW r \in Reqs, DeleteConnection(r) PROVE Kept
  BY <1>11, DeletionBegins, SMTT(60) DEF MayClose
<1>12. ASSUME NEW r \in Reqs, PeerCleanup(r) PROVE Kept
  BY <1>12 DEF PeerCleanup, Closing, Active
<1>13. ASSUME NEW r \in Reqs, AdminBanUser(r) PROVE Kept
  BY <1>13 DEF AdminBanUser
<1>14. ASSUME NEW r \in Reqs, BanList(r) PROVE Kept
  BY <1>14 DEF BanList, ActiveOf, Active
<1>15. ASSUME NEW r \in Reqs, CloseNext(r) PROVE Kept
  BY <1>15, SMTT(60) DEF CloseNext
<1>16. ASSUME NEW r \in Reqs, CloseRemove(r) PROVE Kept
  BY <1>16 DEF CloseRemove
<1>17. ASSUME NEW r \in Reqs, CloseCount(r) PROVE Kept
  BY <1>17 DEF CloseCount
<1>18. ASSUME NEW r \in Reqs, CloseRetire(r) PROVE Kept
  BY <1>18 DEF CloseRetire, Retired
<1>19. ASSUME NEW r \in Reqs, AdminUnbanUser(r) PROVE Kept
  BY <1>19 DEF AdminUnbanUser
<1>20. ASSUME NEW r \in Reqs, AdminDeleteUser(r) PROVE Kept
  BY <1>20 DEF AdminDeleteUser
<1>21. ASSUME NEW r \in Reqs, ContextDone(r) PROVE Kept
  BY <1>21 DEF ContextDone
<1>22. ASSUME NEW s \in Servers, SyncList(s) PROVE Kept
  BY <1>22 DEF SyncList
<1>23. ASSUME NEW s \in Servers, SyncSet(s) PROVE Kept
  BY <1>23 DEF SyncSet
<1>late. ASSUME NEW s \in Servers, LateAttempt(s) PROVE Kept
  BY <1>late DEF LateAttempt
<1>24. CASE Crash
  BY <1>24 DEF Crash
<1>25. CASE UNCHANGED vars
  BY <1>25 DEF vars
<1> QED
  BY <1>late, <1>1, <1>2, <1>3, <1>4, <1>5, <1>6, <1>7, <1>8, <1>9, <1>10, <1>11, <1>12, <1>13, <1>14,
     <1>15, <1>16, <1>17, <1>18, <1>19, <1>20, <1>21, <1>22, <1>23, <1>24, <1>25
     DEF Next, Begin, Step

\* The shape holds in every reachable state, whatever the environment does.
LEMMA ShapeInvariant == Spec => []Shape
  BY InitShape, ShapeStep, PTL DEF Spec

\* Rows, counters and requests stay of their types; current_peers is never
\* negative (the GREATEST of UpdatePeerCount), whatever order decrements and
\* resynchronisations come in.
THEOREM ConnectionsTypeOK == Spec => []TypeOK
<1>1. Shape => TypeOK
  BY DEF Shape
<1> QED
  BY <1>1, ShapeInvariant, PTL
-----------------------------------------------------------------------------
(***************************************************************************)
(* The device limit.  Devices a user has or is about to have, except those *)
(* of Connects that raced: no step but a ConnectLimit adds one, and that   *)
(* one has counted all the others.                                         *)
(***************************************************************************)
Devices(u) == (ActiveOf(u) \cup Unrecorded(u)) \ raced

DevicesBounded == MaxDevices > 0 => \A u \in Users : Cardinality(Devices(u)) <= MaxDevices

\* Subsets of the requests can be counted.
LEMMA CountReqs ==
    ASSUME NEW S \in SUBSET Reqs
    PROVE  /\ IsFiniteSet(S) /\ Cardinality(S) \in Nat
           /\ \A T \in SUBSET S : IsFiniteSet(T) /\ Cardinality(T) \in Nat /\ Cardinality(T) <= Cardinality(S)
<1>1. IsFiniteSet(S) /\ Cardinality(S) \in Nat
  BY FiniteAssumption, FS_Subset, FS_CardinalityType
<1> QED
  BY <1>1, FS_Subset, FS_CardinalityType

\* Only ConnectLimit adds a device.
LEMMA DevicesShrink ==
    ASSUME Shape, [Next]_vars, NEW u \in Users, ~\E r \in Reqs : ConnectLimit(r)
    PROVE  Devices(u)' \subseteq Devices(u)
<1> DEFINE Kept == Devices(u)' \subseteq Devices(u)
<1> USE DEF Shape, TypeOK, RowsDone, Devices, ActiveOf, Active, Unrecorded,
            database, control, ghosts, cores, Goto
<1>1. ASSUME NEW r \in Reqs, Connect(r) PROVE Kept
  BY <1>1 DEF Connect
<1>2. ASSUME NEW r \in Reqs, ConnectLookup(r) PROVE Kept
  BY <1>2 DEF ConnectLookup
<1>3. ASSUME NEW r \in Reqs, ConnectReserve(r) PROVE Kept
  BY <1>3 DEF ConnectReserve
<1>4. ASSUME NEW r \in Reqs, ConnectAdd(r) PROVE Kept
  BY <1>4 DEF ConnectAdd
<1>5. ASSUME NEW r \in Reqs, ConnectCreate(r) PROVE Kept
  BY <1>5 DEF ConnectCreate
<1>6. ASSUME NEW r \in Reqs, ConnectUndo(r) PROVE Kept
  BY <1>6 DEF ConnectUndo
<1>7. ASSUME NEW r \in Reqs, ConnectRelease(r) PROVE Kept
  BY <1>7 DEF ConnectRelease
<1>8. ASSUME NEW r \in Reqs, Disconnect(r) PROVE Kept
  BY <1>8 DEF Disconnect, Closing
<1>9. ASSUME NEW r \in Reqs, AdminForceDisconnectPeer(r) PROVE Kept
  BY <1>9 DEF AdminForceDisconnectPeer, Closing
<1>10. ASSUME NEW r \in Reqs, DeleteConnection(r) PROVE Kept
  BY <1>10 DEF DeleteConnection, Closing
<1>11. ASSUME NEW r \in Reqs, PeerCleanup(r) PROVE Kept
  BY <1>11 DEF PeerCleanup, Closing
<1>12. ASSUME NEW r \in Reqs, AdminBanUser(r) PROVE Kept
  BY <1>12 DEF AdminBanUser
<1>13. ASSUME NEW r \in Reqs, BanList(r) PROVE Kept
  BY <1>13 DEF BanList
<1>14. ASSUME NEW r \in Reqs, CloseNext(r) PROVE Kept
  BY <1>14 DEF CloseNext
<1>15. ASSUME NEW r \in Reqs, CloseRemove(r) PROVE Kept
  BY <1>15 DEF CloseRemove
<1>16. ASSUME NEW r \in Reqs, CloseCount(r) PROVE Kept
  BY <1>16 DEF CloseCount
<1>17. ASSUME NEW r \in Reqs, CloseRetire(r) PROVE Kept
  BY <1>17 DEF CloseRetire, Retired
<1>18. ASSUME NEW r \in Reqs, AdminUnbanUser(r) PROVE Kept
  BY <1>18 DEF AdminUnbanUser
<1>19. ASSUME NEW r \in Reqs, AdminDeleteUser(r) PROVE Kept
  BY <1>19 DEF AdminDeleteUser
<1>20. ASSUME NEW r \in Reqs, ContextDone(r) PROVE Kept
  BY <1>20 DEF ContextDone
<1>21. ASSUME NEW s \in Servers, SyncList(s) PROVE Kept
  BY <1>21 DEF SyncList
<1>22. ASSUME NEW s \in Servers, SyncSet(s) PROVE Kept
  BY <1>22 DEF SyncSet
<1>late. ASSUME NEW s \in Servers, LateAttempt(s) PROVE Kept
  BY <1>late DEF LateAttempt
<1>23. CASE Crash
  BY <1>23 DEF Crash
<1>24. CASE UNCHANGED vars
  BY <1>24 DEF vars
<1> QED
  BY <1>late, <1>1, <1>2, <1>3, <1>4, <1>5, <1>6, <1>7, <1>8, <1>9, <1>10, <1>11, <1>12, <1>13, <1>14,
     <1>15, <1>16, <1>17, <1>18, <1>19, <1>20, <1>21, <1>22, <1>23, <1>24 DEF Next, Begin, Step

\* A Connect that passes the limit is one device more at most, and passes only
\* if it raced or all of the user's devices were active and too few.
LEMMA LimitKeeps ==
    ASSUME Shape, DevicesBounded, NEW r \in Reqs, ConnectLimit(r)
    PROVE  DevicesBounded'
<1> SUFFICES ASSUME MaxDevices > 0, NEW u \in Users
             PROVE  Cardinality(Devices(u)') <= MaxDevices
  BY DEF DevicesBounded
<1> USE DEF Shape, TypeOK, database, control, Goto
<1>1. /\ Devices(u) \in SUBSET Reqs /\ Devices(u)' \in SUBSET Reqs
      /\ ActiveOf(u) \in SUBSET Reqs /\ ActiveOf(u)' = ActiveOf(u)
  BY DEF Devices, ActiveOf, Active, Unrecorded, ConnectLimit
<1>2. Cardinality(Devices(u)) <= MaxDevices
  BY DEF DevicesBounded
<1>3. CASE Devices(u)' \subseteq Devices(u)
  BY <1>1, <1>2, <1>3, CountReqs, LimitAssumption
<1>4. CASE ~(Devices(u)' \subseteq Devices(u))
  <2>1. ~OverLimit(r) /\ conn[r].user = u /\ Unrecorded(u) = {}
    BY <1>4 DEF ConnectLimit, Devices, ActiveOf, Active, Unrecorded
  <2>2. Devices(u)' \subseteq ActiveOf(u) \cup {r}
    BY <2>1 DEF ConnectLimit, Devices, ActiveOf, Active, Unrecorded
  <2>3. Cardinality(ActiveOf(u)) < MaxDevices /\ Cardinality(ActiveOf(u)) \in Nat
    BY <2>1, <1>1, CountReqs, LimitAssumption DEF OverLimit, CountByUser
  <2>4. Cardinality(ActiveOf(u) \cup {r}) <= Cardinality(ActiveOf(u)) + 1
    BY <1>1, <2>3, CountReqs, FS_AddElement, SMTT(60)
  <2>5. /\ Cardinality(Devices(u)') <= Cardinality(ActiveOf(u) \cup {r})
        /\ Cardinality(Devices(u)') \in Nat /\ Cardinality(ActiveOf(u) \cup {r}) \in Nat
    BY <1>1, <2>2, CountReqs
  <2> QED
    BY <2>3, <2>4, <2>5, LimitAssumption
<1> QED
  BY <1>3, <1>4

\* The bound holds in every reachable state.
LEMMA DevicesInvariant == Spec => []DevicesBounded
<1>1. Init => DevicesBounded
  <2> SUFFICES ASSUME Init, NEW u \in Users PROVE Cardinality(Devices(u)) = 0
    BY LimitAssumption DEF DevicesBounded
  <2>1. Devices(u) = {}
    BY DEF Init, Devices, ActiveOf, Active, Unrecorded
  <2> QED
    BY <2>1, FS_EmptySet
<1>2. Shape /\ DevicesBounded /\ [Next]_vars => DevicesBounded'
  <2> SUFFICES ASSUME Shape, DevicesBounded, [Next]_vars PROVE DevicesBounded'
    OBVIOUS
  <2>1. CASE \E r \in Reqs : ConnectLimit(r)
    BY <2>1, LimitKeeps
  <2>2. CASE ~\E r \in Reqs : ConnectLimit(r)
    <3> SUFFICES ASSUME MaxDevices > 0, NEW u \in Users
                 PROVE  Cardinality(Devices(u)') <= MaxDevices
      BY DEF DevicesBounded
    <3>1. Devices(u)' \subseteq Devices(u) /\ Devices(u) \in SUBSET Reqs
      BY <2>2, DevicesShrink DEF Devices, ActiveOf, Active, Unrecorded
    <3>2. Cardinality(Devices(u)) <= MaxDevices
      BY DEF DevicesBounded
    <3> QED
      BY <3>1, <3>2, CountReqs, LimitAssumption
  <2> QED
    BY <2>1, <2>2
<1> QED
  BY <1>1, <1>2, ShapeInvariant, PTL DEF Spec

\* A user is over MAX_DEVICES_PER_USER only by Connects that raced, whatever
\* fails, is cancelled, crashes or is closed twice (handler.go:376-388).
THEOREM DeviceLimitHolds == Spec => []DeviceLimit
<1>1. DevicesBounded => DeviceLimit
  <2> SUFFICES ASSUME DevicesBounded, MaxDevices > 0, NEW u \in Users
               PROVE  Cardinality(ActiveOf(u) \ raced) <= MaxDevices
    BY DEF DeviceLimit
  <2>1. ActiveOf(u) \ raced \subseteq Devices(u) /\ Devices(u) \in SUBSET Reqs
    BY DEF Devices, ActiveOf, Active, Unrecorded
  <2>2. Cardinality(Devices(u)) <= MaxDevices
    BY DEF DevicesBounded
  <2> QED
    BY <2>1, <2>2, CountReqs, LimitAssumption
<1> QED
  BY <1>1, DevicesInvariant, PTL
-----------------------------------------------------------------------------
(***************************************************************************)
(* Banning.  While a user is banned, a Connect of theirs under way was     *)
(* under way when the ban began, and an active row is such a Connect's, or *)
(* a ban that has not been cut short has it still to close.                *)
(***************************************************************************)
UnderWay(u) == {q \in Reqs : conn[q].user = u /\ pc[q] \in ConnectPC}

StillToClose(u, id) ==
    \E q \in Reqs : /\ op[q] = "ban" /\ conn[q].user = u /\ q \notin gone
                    /\ pc[q] = "list" \/ id \in todo[q] \cup now[q]

BanCovers ==
    \A u \in Users : users[u] = "banned" =>
        /\ UnderWay(u) \subseteq slipped
        /\ \A id \in ActiveOf(u) : id \in slipped \/ StillToClose(u, id)

\* A ban that has a row to close is not over.
LEMMA ToCloseIsBanning ==
    ASSUME Shape, NEW u \in Users, NEW id \in Reqs, StillToClose(u, id)
    PROVE  \E q \in Reqs : Banning(q, u)
<1>1. PICK q \in Reqs : /\ op[q] = "ban" /\ conn[q].user = u
                        /\ pc[q] = "list" \/ id \in todo[q] \cup now[q]
  BY DEF StillToClose
<1>2. pc[q] # "done"
  <2> SUFFICES ASSUME pc[q] = "done" PROVE FALSE
    OBVIOUS
  <2>1. todo[q] = {} /\ now[q] = {}
    BY DEF Shape, AtHand, ClosePC
  <2> QED
    BY <1>1, <2>1
<1> QED
  BY <1>1, <1>2 DEF Banning

\* Every step keeps the rows of banned users covered.
LEMMA BanStep ==
    ASSUME Shape, BanCovers, [Next]_vars
    PROVE  BanCovers'
<1> USE DEF Shape, TypeOK, RowsDone, NewIsBlank, OpFits, AtHand, BanCovers, UnderWay, StillToClose,
            ActiveOf, Active, ConnectPC, ClosePC, database, control, ghosts, cores, Goto
<1>1. ASSUME NEW r \in Reqs, Connect(r) PROVE BanCovers'
  BY <1>1 DEF Connect, BannedCheck
<1>2. ASSUME NEW r \in Reqs, ConnectLookup(r) PROVE BanCovers'
  BY <1>2 DEF ConnectLookup
<1>3. ASSUME NEW r \in Reqs, ConnectLimit(r) PROVE BanCovers'
  BY <1>3 DEF ConnectLimit
<1>4. ASSUME NEW r \in Reqs, ConnectReserve(r) PROVE BanCovers'
  BY <1>4 DEF ConnectReserve
<1>5. ASSUME NEW r \in Reqs, ConnectAdd(r) PROVE BanCovers'
  BY <1>5 DEF ConnectAdd
<1>6. ASSUME NEW r \in Reqs, ConnectCreate(r) PROVE BanCovers'
  BY <1>6 DEF ConnectCreate
<1>7. ASSUME NEW r \in Reqs, ConnectUndo(r) PROVE BanCovers'
  BY <1>7 DEF ConnectUndo
<1>8. ASSUME NEW r \in Reqs, ConnectRelease(r) PROVE BanCovers'
  BY <1>8 DEF ConnectRelease
<1>9. ASSUME NEW r \in Reqs, Disconnect(r) PROVE BanCovers'
  BY <1>9 DEF Disconnect, Closing
<1>10. ASSUME NEW r \in Reqs, AdminForceDisconnectPeer(r) PROVE BanCovers'
  BY <1>10 DEF AdminForceDisconnectPeer, Closing
<1>11. ASSUME NEW r \in Reqs, DeleteConnection(r) PROVE BanCovers'
  <2>1. /\ pc[r] = "new" /\ pc'[r] \in {"todo", "retire"}
        /\ UNCHANGED <<peers, users, conn, gone, slipped>>
        /\ \A q \in Reqs \ {r} : UNCHANGED <<pc[q], op[q], todo[q], now[q]>>
    BY <1>11, DeletionBegins
  <2> QED
    BY <2>1, SMTT(60)
<1>12. ASSUME NEW r \in Reqs, PeerCleanup(r) PROVE BanCovers'
  BY <1>12 DEF PeerCleanup, Closing
<1>13. ASSUME NEW r \in Reqs, AdminBanUser(r) PROVE BanCovers'
  BY <1>13 DEF AdminBanUser
<1>14. ASSUME NEW r \in Reqs, BanList(r) PROVE BanCovers'
  BY <1>14 DEF BanList
<1>15. ASSUME NEW r \in Reqs, CloseNext(r) PROVE BanCovers'
  BY <1>15 DEF CloseNext
<1>16. ASSUME NEW r \in Reqs, CloseRemove(r) PROVE BanCovers'
  BY <1>16 DEF CloseRemove
<1>17. ASSUME NEW r \in Reqs, CloseCount(r) PROVE BanCovers'
  BY <1>17 DEF CloseCount
<1>18. ASSUME NEW r \in Reqs, CloseRetire(r) PROVE BanCovers'
  <2>1. /\ \A q \in Reqs : UNCHANGED <<op[q], conn[q], todo[q]>> /\ (q # r => UNCHANGED <<now[q], pc[q]>>)
        /\ UNCHANGED <<users, gone, slipped>>
        /\ pc[r] = "retire" /\ pc'[r] \in {"todo", "done"}
    BY <1>18 DEF CloseRetire
  <2>2. \A id \in Reqs : peers'[id] = "active" =>
            peers[id] = "active" /\ (id \notin now[r] \/ r \in gone)
    BY <1>18 DEF CloseRetire, Retired
  <2>3. ASSUME NEW u \in Users, NEW id \in Reqs, StillToClose(u, id), peers'[id] = "active"
        PROVE  StillToClose(u, id)'
    <3>1. PICK q \in Reqs : /\ op[q] = "ban" /\ conn[q].user = u /\ q \notin gone
                            /\ pc[q] = "list" \/ id \in todo[q] \cup now[q]
      BY <2>3
    <3>2. q = r => id \in todo[q]
      BY <2>1, <2>2, <2>3, <3>1
    <3> QED
      BY <2>1, <3>1, <3>2
  <2>4. \A u \in Users : UnderWay(u)' = UnderWay(u) /\ ActiveOf(u)' \subseteq ActiveOf(u)
    BY <2>1, <2>2
  <2> HIDE DEF StillToClose, UnderWay
  <2> QED
    BY <2>1, <2>2, <2>3, <2>4
<1>19. ASSUME NEW r \in Reqs, AdminUnbanUser(r) PROVE BanCovers'
  BY <1>19 DEF AdminUnbanUser
<1>20. ASSUME NEW r \in Reqs, AdminDeleteUser(r) PROVE BanCovers'
  BY <1>20 DEF AdminDeleteUser
<1>21. ASSUME NEW r \in Reqs, ContextDone(r) PROVE BanCovers'
  BY <1>21 DEF ContextDone
<1>22. ASSUME NEW s \in Servers, SyncList(s) PROVE BanCovers'
  BY <1>22 DEF SyncList
<1>23. ASSUME NEW s \in Servers, SyncSet(s) PROVE BanCovers'
  BY <1>23 DEF SyncSet
<1>late. ASSUME NEW s \in Servers, LateAttempt(s) PROVE BanCovers'
  BY <1>late DEF LateAttempt
<1>24. CASE Crash
  <2>1. /\ UNCHANGED <<peers, users, conn>>
        /\ slipped' = slipped \cup {id \in Active : \E q \in Reqs : Banning(q, conn[id].user)}
    BY <1>24 DEF Crash
  <2>2. ASSUME NEW u \in Users, users[u] = "banned", NEW id \in ActiveOf(u), id \notin slipped
        PROVE  \E q \in Reqs : Banning(q, u)
    BY <2>2, ToCloseIsBanning
  <2>3. \A q \in Reqs : pc'[q] \in {"new", "done"}
    BY <1>24 DEF Crash
  <2> QED
    BY <2>1, <2>2, <2>3
<1>25. CASE UNCHANGED vars
  BY <1>25 DEF vars
<1> QED
  BY <1>late, <1>1, <1>2, <1>3, <1>4, <1>5, <1>6, <1>7, <1>8, <1>9, <1>10, <1>11, <1>12, <1>13, <1>14,
     <1>15, <1>16, <1>17, <1>18, <1>19, <1>20, <1>21, <1>22, <1>23, <1>24, <1>25
     DEF Next, Begin, Step

\* Once AdminBanUser has answered, the user's only active connections are those
\* of Connects under way when it began, unless it was cut short, under every
\* failure, cancellation, crash and repetition (handler.go:920-939).
THEOREM BanIsFinalHolds == Spec => []BanIsFinal
<1>1. Init => BanCovers
  BY DEF Init, BanCovers
<1>2. Shape /\ BanCovers => BanIsFinal
  <2> SUFFICES ASSUME Shape, BanCovers, NEW u \in Users, users[u] = "banned",
                      \A q \in Reqs : ~Banning(q, u), NEW id \in ActiveOf(u), id \notin slipped
               PROVE  FALSE
    BY DEF BanIsFinal
  <2>1. StillToClose(u, id)
    BY DEF BanCovers
  <2> QED
    BY <2>1, ToCloseIsBanning DEF ActiveOf, Active
<1> QED
  BY <1>1, <1>2, BanStep, ShapeInvariant, PTL DEF Spec
-----------------------------------------------------------------------------
(***************************************************************************)
(* Keys on the cores.  A key that is neither lost nor in the hands of a    *)
(* Connect has an active row whose closing has not got past the core.      *)
(***************************************************************************)
Unsettled(id) ==
    \A q \in Reqs \ gone : ~(pc[q] \in {"count", "retire"} /\ id \in now[q])

Backed(s, k) ==
    \/ k \in lost[s]
    \/ \E r \in Reqs : conn[r].server = s /\ conn[r].key = k /\ pc[r] \in {"create", "undo"}
    \/ \E id \in Reqs : /\ peers[id] = "active" /\ Unsettled(id)
                        /\ conn[id].server = s /\ conn[id].key = k

KeysBacked == \A s \in Servers : \A k \in core[s] : Backed(s, k)

\* Every step but a crash and the deletion of a user keeps the keys backed.
LEMMA BackedStep ==
    ASSUME Shape, KeysBacked, [Next]_vars, "crash" \notin Env, "deleteuser" \notin Ops
    PROVE  KeysBacked'
<1> USE DEF Shape, TypeOK, RowsDone, AtHand, KeysBacked, Backed, Unsettled, ConnectPC, ClosePC,
            database, control, ghosts, cores, Goto
<1>1. ASSUME NEW r \in Reqs, Connect(r) PROVE KeysBacked'
  BY <1>1 DEF Connect
<1>2. ASSUME NEW r \in Reqs, ConnectLookup(r) PROVE KeysBacked'
  BY <1>2, SMTT(60) DEF ConnectLookup
<1>3. ASSUME NEW r \in Reqs, ConnectLimit(r) PROVE KeysBacked'
  BY <1>3 DEF ConnectLimit
<1>4. ASSUME NEW r \in Reqs, ConnectReserve(r) PROVE KeysBacked'
  BY <1>4, SMTT(60) DEF ConnectReserve
<1>5. ASSUME NEW r \in Reqs, ConnectAdd(r) PROVE KeysBacked'
  <2>1. /\ pc[r] = "add" /\ pc'[r] \in {"create", "release"}
        /\ UNCHANGED <<peers, conn, gone, now>>
        /\ \A q \in Reqs \ {r} : UNCHANGED pc[q]
    BY <1>5 DEF ConnectAdd
  <2>2. \A s \in Servers : \A k \in core'[s] :
            \/ k \in core[s] /\ lost[s] \subseteq lost'[s]
            \/ k \in lost'[s]
            \/ s = conn[r].server /\ k = conn[r].key /\ pc'[r] = "create"
    BY <1>5 DEF ConnectAdd
  <2> QED
    BY <2>1, <2>2, SMTT(60)
<1>6. ASSUME NEW r \in Reqs, ConnectCreate(r) PROVE KeysBacked'
  BY <1>6 DEF ConnectCreate, Insertable
<1>7. ASSUME NEW r \in Reqs, ConnectUndo(r) PROVE KeysBacked'
  <2>1. /\ pc[r] = "undo" /\ pc'[r] = "release"
        /\ UNCHANGED <<peers, conn, gone, now>>
        /\ \A q \in Reqs \ {r} : UNCHANGED pc[q]
    BY <1>7 DEF ConnectUndo
  <2>2. \A s \in Servers : \A k \in core'[s] :
            /\ k \in core[s]
            /\ s = conn[r].server /\ k = conn[r].key => k \in lost'[s]
            /\ k \in lost[s] => k \in lost'[s]
    BY <1>7, ConnParts DEF ConnectUndo, CallCoreRemovePeer
  <2>3. \A id \in Reqs : Unsettled(id) => Unsettled(id)'
    BY <2>1
  <2>4. ASSUME NEW s \in Servers, NEW k \in core'[s] PROVE Backed(s, k)'
    <3>1. Backed(s, k)
      BY <2>2
    <3> HIDE DEF Unsettled
    <3> QED
      BY <2>1, <2>2, <2>3, <3>1, SMTT(60)
  <2> QED
    BY <2>4
<1>8. ASSUME NEW r \in Reqs, ConnectRelease(r) PROVE KeysBacked'
  BY <1>8 DEF ConnectRelease
<1>9. ASSUME NEW r \in Reqs, Disconnect(r) PROVE KeysBacked'
  BY <1>9 DEF Disconnect, Closing
<1>10. ASSUME NEW r \in Reqs, AdminForceDisconnectPeer(r) PROVE KeysBacked'
  BY <1>10 DEF AdminForceDisconnectPeer, Closing
<1>11. ASSUME NEW r \in Reqs, DeleteConnection(r) PROVE KeysBacked'
  <2>1. /\ pc[r] = "new" /\ pc'[r] \in {"todo", "retire"}
        /\ UNCHANGED <<peers, conn, gone, core, lost>>
        /\ \A q \in Reqs \ {r} : UNCHANGED <<pc[q], now[q]>>
        /\ \A id \in now'[r] : peers[id] = "inactive"
    BY <1>11, DeletionBegins
  <2> QED
    BY <2>1, SMTT(60)
<1>12. ASSUME NEW r \in Reqs, PeerCleanup(r) PROVE KeysBacked'
  BY <1>12 DEF PeerCleanup, Closing
<1>13. ASSUME NEW r \in Reqs, AdminBanUser(r) PROVE KeysBacked'
  BY <1>13, SMTT(60) DEF AdminBanUser
<1>14. ASSUME NEW r \in Reqs, BanList(r) PROVE KeysBacked'
  BY <1>14 DEF BanList
<1>15. ASSUME NEW r \in Reqs, CloseNext(r) PROVE KeysBacked'
  BY <1>15, SMTT(60) DEF CloseNext
<1>16. ASSUME NEW r \in Reqs, CloseRemove(r) PROVE KeysBacked'
  BY <1>16, SMTT(120) DEF CloseRemove, CallCoreRemovePeer
<1>17. ASSUME NEW r \in Reqs, CloseCount(r) PROVE KeysBacked'
  BY <1>17 DEF CloseCount
<1>18. ASSUME NEW r \in Reqs, CloseRetire(r) PROVE KeysBacked'
  BY <1>18 DEF CloseRetire, Retired
<1>19. ASSUME NEW r \in Reqs, AdminUnbanUser(r) PROVE KeysBacked'
  BY <1>19 DEF AdminUnbanUser
<1>20. ASSUME NEW r \in Reqs, AdminDeleteUser(r) PROVE KeysBacked'
  BY <1>20 DEF AdminDeleteUser
<1>21. ASSUME NEW r \in Reqs, ContextDone(r) PROVE KeysBacked'
  BY <1>21 DEF ContextDone
<1>22. ASSUME NEW s \in Servers, SyncList(s) PROVE KeysBacked'
  BY <1>22 DEF SyncList
<1>23. ASSUME NEW s \in Servers, SyncSet(s) PROVE KeysBacked'
  BY <1>23 DEF SyncSet
<1>late. ASSUME NEW s \in Servers, LateAttempt(s) PROVE KeysBacked'
  <2>1. UNCHANGED <<peers, conn, gone, now, pc>>
    BY <1>late DEF LateAttempt
  <2>2. \A z \in Servers : \A k \in core'[z] :
            \/ k \in core[z] /\ (k \in lost[z] => k \in lost'[z])
            \/ k \in lost'[z]
    BY <1>late, SMTT(60) DEF LateAttempt
  <2>3. \A id \in Reqs : Unsettled(id) => Unsettled(id)'
    BY <2>1
  <2>4. ASSUME NEW z \in Servers, NEW k \in core'[z] PROVE Backed(z, k)'
    <3> HIDE DEF Unsettled
    <3> QED
      BY <2>1, <2>2, <2>3
  <2> QED
    BY <2>4
<1>24. CASE Crash
  BY <1>24 DEF Crash
<1>25. CASE UNCHANGED vars
  BY <1>25 DEF vars
<1> QED
  BY <1>late, <1>1, <1>2, <1>3, <1>4, <1>5, <1>6, <1>7, <1>8, <1>9, <1>10, <1>11, <1>12, <1>13, <1>14,
     <1>15, <1>16, <1>17, <1>18, <1>19, <1>20, <1>21, <1>22, <1>23, <1>24, <1>25
     DEF Next, Begin, Step

\* A core routes no key the database does not account for, except those a
\* failed core call or an attempt that came late (core_client.go:231) has
\* left, as long as the process does not die and no user is deleted with
\* their connections (handler.go:433-453, 526).
THEOREM NoGhostPeers ==
    ASSUME "crash" \notin Env, "deleteuser" \notin Ops
    PROVE  Spec => []NoGhostPeer
<1>1. Init => KeysBacked
  BY DEF Init, KeysBacked
<1>2. Shape /\ KeysBacked /\ [Next]_vars => KeysBacked'
  BY BackedStep
<1>3. KeysBacked => NoGhostPeer
  BY DEF KeysBacked, Backed, NoGhostPeer, ActiveOn, Active
<1> QED
  BY <1>1, <1>2, <1>3, ShapeInvariant, PTL DEF Spec
-----------------------------------------------------------------------------
(***************************************************************************)
(* Calm: nothing is cancelled, crashes or is closed twice, and nobody is   *)
(* banned (a ban closes what others may be closing).  Then a row is in the *)
(* hands of one request at most.                                           *)
(***************************************************************************)
Calm == Env \cap {"cancel", "crash", "dup"} = {} /\ "ban" \notin Ops

Hand(q) == todo[q] \cup now[q]

ClosedOnce ==
    /\ gone = {}
    /\ \A q \in Reqs : pc[q] # "list" /\ todo[q] \cap now[q] = {}
    /\ \A p, q \in Reqs : Hand(p) \cap Hand(q) # {} => p = q

\* In the calm, every step leaves each row to the request that closes it.
LEMMA OnceStep ==
    ASSUME Calm, Shape, ClosedOnce, [Next]_vars
    PROVE  ClosedOnce'
<1> USE DEF Calm, Shape, TypeOK, AtHand, ClosedOnce, Hand, ConnectPC, ClosePC,
            database, control, ghosts, cores, Goto
<1>1. ASSUME NEW r \in Reqs, Connect(r) PROVE ClosedOnce'
  BY <1>1 DEF Connect
<1>2. ASSUME NEW r \in Reqs, ConnectLookup(r) PROVE ClosedOnce'
  BY <1>2 DEF ConnectLookup
<1>3. ASSUME NEW r \in Reqs, ConnectLimit(r) PROVE ClosedOnce'
  BY <1>3 DEF ConnectLimit
<1>4. ASSUME NEW r \in Reqs, ConnectReserve(r) PROVE ClosedOnce'
  BY <1>4 DEF ConnectReserve
<1>5. ASSUME NEW r \in Reqs, ConnectAdd(r) PROVE ClosedOnce'
  BY <1>5 DEF ConnectAdd
<1>6. ASSUME NEW r \in Reqs, ConnectCreate(r) PROVE ClosedOnce'
  BY <1>6 DEF ConnectCreate
<1>7. ASSUME NEW r \in Reqs, ConnectUndo(r) PROVE ClosedOnce'
  BY <1>7 DEF ConnectUndo
<1>8. ASSUME NEW r \in Reqs, ConnectRelease(r) PROVE ClosedOnce'
  BY <1>8 DEF ConnectRelease
<1>9. ASSUME NEW r \in Reqs, Disconnect(r) PROVE ClosedOnce'
  BY <1>9 DEF Disconnect, Closing, MayClose
<1>10. ASSUME NEW r \in Reqs, AdminForceDisconnectPeer(r) PROVE ClosedOnce'
  BY <1>10 DEF AdminForceDisconnectPeer, Closing, MayClose
<1>11. ASSUME NEW r \in Reqs, DeleteConnection(r) PROVE ClosedOnce'
  BY <1>11, DeletionBegins, SMTT(60) DEF MayClose
<1>12. ASSUME NEW r \in Reqs, PeerCleanup(r) PROVE ClosedOnce'
  BY <1>12 DEF PeerCleanup, Closing, MayClose
<1>13. ASSUME NEW r \in Reqs, AdminBanUser(r) PROVE ClosedOnce'
  BY <1>13 DEF AdminBanUser
<1>14. ASSUME NEW r \in Reqs, BanList(r) PROVE ClosedOnce'
  BY <1>14 DEF BanList
<1>15. ASSUME NEW r \in Reqs, CloseNext(r) PROVE ClosedOnce'
  BY <1>15 DEF CloseNext
<1>16. ASSUME NEW r \in Reqs, CloseRemove(r) PROVE ClosedOnce'
  BY <1>16 DEF CloseRemove
<1>17. ASSUME NEW r \in Reqs, CloseCount(r) PROVE ClosedOnce'
  BY <1>17 DEF CloseCount
<1>18. ASSUME NEW r \in Reqs, CloseRetire(r) PROVE ClosedOnce'
  BY <1>18 DEF CloseRetire, Retired
<1>19. ASSUME NEW r \in Reqs, AdminUnbanUser(r) PROVE ClosedOnce'
  BY <1>19 DEF AdminUnbanUser
<1>20. ASSUME NEW r \in Reqs, AdminDeleteUser(r) PROVE ClosedOnce'
  BY <1>20 DEF AdminDeleteUser
<1>21. ASSUME NEW r \in Reqs, ContextDone(r) PROVE ClosedOnce'
  BY <1>21 DEF ContextDone
<1>22. ASSUME NEW s \in Servers, SyncList(s) PROVE ClosedOnce'
  BY <1>22 DEF SyncList
<1>23. ASSUME NEW s \in Servers, SyncSet(s) PROVE ClosedOnce'
  BY <1>23 DEF SyncSet
<1>late. ASSUME NEW s \in Servers, LateAttempt(s) PROVE ClosedOnce'
  BY <1>late DEF LateAttempt
<1>24. CASE Crash
  BY <1>24 DEF Crash
<1>25. CASE UNCHANGED vars
  BY <1>25 DEF vars
<1> QED
  BY <1>late, <1>1, <1>2, <1>3, <1>4, <1>5, <1>6, <1>7, <1>8, <1>9, <1>10, <1>11, <1>12, <1>13, <1>14,
     <1>15, <1>16, <1>17, <1>18, <1>19, <1>20, <1>21, <1>22, <1>23, <1>24, <1>25
     DEF Next, Begin, Step

\* In a calm system a row is closed by one request at a time, always.
LEMMA OnceInvariant == ASSUME Calm PROVE Spec => []ClosedOnce
<1>1. Init => ClosedOnce
  BY DEF Init, ClosedOnce, Hand
<1>2. Shape /\ ClosedOnce /\ [Next]_vars => ClosedOnce'
  BY OnceStep
<1> QED
  BY <1>1, <1>2, ShapeInvariant, PTL DEF Spec
-----------------------------------------------------------------------------
(***************************************************************************)
(* Who holds a key on its core: a Connect between adding it and inserting  *)
(* its row, then the row until whoever closes it has called the core.      *)
(***************************************************************************)
Told(id) == \E q \in Reqs : pc[q] \in {"count", "retire"} /\ id \in now[q]

Holder(id) ==
    \/ pc[id] \in {"create", "undo"}
    \/ /\ peers[id] = "active" \/ \E q \in Reqs : id \in Hand(q)
       /\ ~Told(id)

SameKey(i, j) == conn[i].server = conn[j].server /\ conn[i].key = conn[j].key

\* A late removal has met i's key on its core.
Struck(i) == conn[i].key \in struck[conn[i].server]

OneHolder ==
    /\ \A i, j \in Reqs : Holder(i) /\ Holder(j) /\ SameKey(i, j) => i = j \/ Struck(i)
    /\ \A i \in Reqs : Holder(i) => conn[i].key \in core[conn[i].server] \/ Struck(i)

\* No holder is added and no core changes.
HoldersFrame ==
    /\ UNCHANGED <<core, struck>>
    /\ \A i \in Reqs : Holder(i)' => Holder(i) /\ conn'[i] = conn[i]

\* A step that adds no holder and changes no core.
LEMMA FrameKeeps == OneHolder /\ HoldersFrame => OneHolder'
BY DEF OneHolder, HoldersFrame, SameKey, Struck

\* All but the actions of a core leave the holders as they are.
LEMMA HoldersStep ==
    ASSUME Calm, Shape, ClosedOnce, [Next]_vars,
           ~\E r \in Reqs : ConnectAdd(r) \/ ConnectUndo(r) \/ CloseRemove(r),
           ~\E s \in Servers : LateAttempt(s)
    PROVE  HoldersFrame
<1> USE DEF Calm, Shape, TypeOK, RowsDone, AtHand, ClosedOnce, HoldersFrame, Holder, Told, Hand,
            ConnectPC, ClosePC, database, control, ghosts, cores, Goto
<1>1. ASSUME NEW r \in Reqs, Connect(r) PROVE HoldersFrame
  BY <1>1 DEF Connect
<1>2. ASSUME NEW r \in Reqs, ConnectLookup(r) PROVE HoldersFrame
  BY <1>2 DEF ConnectLookup
<1>3. ASSUME NEW r \in Reqs, ConnectLimit(r) PROVE HoldersFrame
  BY <1>3 DEF ConnectLimit
<1>4. ASSUME NEW r \in Reqs, ConnectReserve(r) PROVE HoldersFrame
  BY <1>4 DEF ConnectReserve
<1>5. ASSUME NEW r \in Reqs, ConnectCreate(r) PROVE HoldersFrame
  BY <1>5 DEF ConnectCreate
<1>6. ASSUME NEW r \in Reqs, ConnectRelease(r) PROVE HoldersFrame
  BY <1>6 DEF ConnectRelease
<1>7. ASSUME NEW r \in Reqs, Disconnect(r) PROVE HoldersFrame
  BY <1>7 DEF Disconnect, Closing, MayClose
<1>8. ASSUME NEW r \in Reqs, AdminForceDisconnectPeer(r) PROVE HoldersFrame
  BY <1>8 DEF AdminForceDisconnectPeer, Closing, MayClose
<1>9. ASSUME NEW r \in Reqs, DeleteConnection(r) PROVE HoldersFrame
  <2>1. /\ pc[r] = "new" /\ pc'[r] = "todo" /\ now'[r] = {}
        /\ \A id \in todo'[r] : peers[id] = "active"
        /\ UNCHANGED <<peers, conn, core, struck>>
        /\ \A q \in Reqs \ {r} : UNCHANGED <<pc[q], todo[q], now[q]>>
    BY <1>9, DeletionBegins DEF MayClose
  <2> QED
    BY <2>1
<1>10. ASSUME NEW r \in Reqs, PeerCleanup(r) PROVE HoldersFrame
  BY <1>10 DEF PeerCleanup, Closing, MayClose
<1>11. ASSUME NEW r \in Reqs, AdminBanUser(r) PROVE HoldersFrame
  BY <1>11 DEF AdminBanUser
<1>12. ASSUME NEW r \in Reqs, BanList(r) PROVE HoldersFrame
  BY <1>12 DEF BanList
<1>13. ASSUME NEW r \in Reqs, CloseNext(r) PROVE HoldersFrame
  BY <1>13 DEF CloseNext
<1>14. ASSUME NEW r \in Reqs, CloseCount(r) PROVE HoldersFrame
  BY <1>14 DEF CloseCount
<1>15. ASSUME NEW r \in Reqs, CloseRetire(r) PROVE HoldersFrame
  BY <1>15 DEF CloseRetire, Retired
<1>16. ASSUME NEW r \in Reqs, AdminUnbanUser(r) PROVE HoldersFrame
  BY <1>16 DEF AdminUnbanUser
<1>17. ASSUME NEW r \in Reqs, AdminDeleteUser(r) PROVE HoldersFrame
  BY <1>17 DEF AdminDeleteUser
<1>18. ASSUME NEW r \in Reqs, ContextDone(r) PROVE HoldersFrame
  BY <1>18 DEF ContextDone
<1>19. ASSUME NEW s \in Servers, SyncList(s) PROVE HoldersFrame
  BY <1>19 DEF SyncList
<1>20. ASSUME NEW s \in Servers, SyncSet(s) PROVE HoldersFrame
  BY <1>20 DEF SyncSet
<1>21. CASE Crash
  BY <1>21 DEF Crash
<1>22. CASE UNCHANGED vars
  BY <1>22 DEF vars
<1> QED
  BY <1>1, <1>2, <1>3, <1>4, <1>5, <1>6, <1>7, <1>8, <1>9, <1>10, <1>11, <1>12, <1>13, <1>14,
     <1>15, <1>16, <1>17, <1>18, <1>19, <1>20, <1>21, <1>22 DEF Next, Begin, Step

\* A core takes a key that it has not, so the Connect is its only holder.
LEMMA AddKeepsHolders ==
    ASSUME Calm, Shape, OneHolder, NEW r \in Reqs, ConnectAdd(r)
    PROVE  OneHolder'
<1> USE DEF Shape, TypeOK, Goto, database, control, cores
<1>1. /\ pc[r] = "add" /\ pc'[r] \in {"create", "release"}
      /\ UNCHANGED <<peers, conn, todo, now, struck>>
      /\ \A q \in Reqs \ {r} : UNCHANGED pc[q]
  BY DEF ConnectAdd
<1>2. \A i \in Reqs : Holder(i)' => Holder(i) \/ (i = r /\ pc'[r] = "create")
  BY <1>1 DEF Holder, Told, Hand
<1>3. \A s \in Servers : core[s] \subseteq core'[s]
  BY DEF ConnectAdd
<1>4. CASE pc'[r] = "create"
  <2>1. conn[r].key \notin core[conn[r].server] /\ conn[r].key \in core'[conn[r].server]
    BY <1>4, ConnParts DEF ConnectAdd, CoreAccepts
  <2>2. \A i \in Reqs : Holder(i) /\ SameKey(i, r) => Struck(i) /\ Struck(r)
    BY <2>1 DEF OneHolder, SameKey, Struck
  <2>3. ASSUME NEW i \in Reqs, Holder(i)' PROVE conn[i].key \in core'[conn[i].server] \/ Struck(i)
    BY <1>2, <1>3, <2>1, <2>3, ConnParts DEF OneHolder
  <2>4. ASSUME NEW i \in Reqs, NEW j \in Reqs, Holder(i)', Holder(j)', SameKey(i, j)
        PROVE  i = j \/ Struck(i)
    BY <1>2, <2>2, <2>4 DEF OneHolder, SameKey
  <2> QED
    BY <1>1, <2>3, <2>4 DEF OneHolder, SameKey, Struck
<1>5. CASE pc'[r] # "create"
  BY <1>1, <1>2, <1>3, <1>5, ConnParts DEF OneHolder, SameKey, Struck
<1> QED
  BY <1>4, <1>5

\* A core is told to remove a key by its only holder, who holds it no more.
LEMMA RemovalKeepsHolders ==
    ASSUME Calm, Shape, OneHolder, NEW i \in Reqs, Holder(i), ~Holder(i)',
           UNCHANGED <<conn, struck>>, \A j \in Reqs : Holder(j)' => Holder(j),
           CallCoreRemovePeer(conn[i].server, conn[i].key)
    PROVE  OneHolder'
<1>1. ASSUME NEW j \in Reqs, Holder(j)'
      PROVE  conn[j].key \in core'[conn[j].server] \/ Struck(j)
  <2>1. Holder(j) /\ j # i /\ (SameKey(i, j) => Struck(j))
    BY <1>1 DEF OneHolder, SameKey, Struck
  <2> QED
    BY <2>1, ConnParts DEF Shape, TypeOK, OneHolder, SameKey, CallCoreRemovePeer
<1> QED
  BY <1>1 DEF OneHolder, SameKey, Struck

\* A Connect that takes its key back was its only holder.
LEMMA UndoKeepsHolders ==
    ASSUME Calm, Shape, OneHolder, NEW r \in Reqs, ConnectUndo(r)
    PROVE  OneHolder'
<1>1. /\ pc[r] = "undo" /\ pc'[r] = "release" /\ peers[r] = "none"
      /\ UNCHANGED <<peers, conn, todo, now, struck>>
      /\ \A q \in Reqs \ {r} : UNCHANGED pc[q]
      /\ \A q \in Reqs : r \notin Hand(q)
  BY DEF ConnectUndo, Shape, TypeOK, RowsDone, AtHand, Hand, Goto, database, control
<1>2. Holder(r) /\ ~Holder(r)' /\ \A j \in Reqs : Holder(j)' => Holder(j)
  BY <1>1 DEF Holder, Told, Hand
<1> QED
  BY <1>1, <1>2, RemovalKeepsHolders DEF ConnectUndo

\* So was the row whose key a closing request removes.
LEMMA CloseKeepsHolders ==
    ASSUME Calm, Shape, ClosedOnce, OneHolder, NEW r \in Reqs, CloseRemove(r)
    PROVE  OneHolder'
<1>1. /\ pc[r] = "remove" /\ pc'[r] = "count"
      /\ UNCHANGED <<peers, conn, todo, now, struck>>
      /\ \A q \in Reqs \ {r} : UNCHANGED pc[q]
  BY DEF CloseRemove, Shape, TypeOK, Goto, database, control
<1>2. PICK id \in Reqs : now[r] = {id} /\ CallCoreRemovePeer(conn[id].server, conn[id].key)
  BY <1>1 DEF CloseRemove, Shape, AtHand
<1>3. \A q \in Reqs : id \in now[q] => q = r
  BY <1>2 DEF ClosedOnce, Hand
<1>4. pc[id] = "done" /\ pc'[id] = "done"
  BY <1>1, <1>2 DEF Shape, RowsDone, AtHand
<1>5. Holder(id) /\ ~Holder(id)' /\ \A j \in Reqs : Holder(j)' => Holder(j)
  BY <1>1, <1>2, <1>3, <1>4 DEF Holder, Told, Hand
<1> QED
  BY <1>1, <1>2, <1>5, RemovalKeepsHolders

\* An attempt that comes late adds no holder; a key it takes off is struck.
LEMMA LateKeepsHolders ==
    ASSUME Shape, OneHolder, NEW s \in Servers, LateAttempt(s)
    PROVE  OneHolder'
<1>1. UNCHANGED <<peers, pc, conn, todo, now>>
  BY DEF LateAttempt, database, control
<1>2. \A i \in Reqs : (Holder(i)' <=> Holder(i)) /\ (Struck(i) => Struck(i)')
  <2>1. \A z \in Servers : struck[z] \subseteq struck'[z]
    BY SMTT(60) DEF LateAttempt, Shape, TypeOK, LateOK
  <2> QED
    BY <1>1, <2>1, ConnParts DEF Holder, Told, Hand, Struck, Shape
<1>3. \A z \in Servers : core[z] \subseteq core'[z] \cup struck'[z]
  <2>1. core = [z \in Servers |-> core[z]] /\ struck = [z \in Servers |-> struck[z]]
    BY DEF Shape, TypeOK, LateOK
  <2>2. CASE UNCHANGED <<core, struck>>
    BY <2>2
  <2>3. ASSUME NEW k \in Keys, core' = [core EXCEPT ![s] = @ \cup {k}], UNCHANGED struck
        PROVE  \A z \in Servers : core[z] \subseteq core'[z] \cup struck'[z]
    BY <2>1, <2>3
  <2>4. ASSUME NEW k \in Keys, core' = [core EXCEPT ![s] = @ \ {k}],
               struck' = [struck EXCEPT ![s] = @ \cup (core[s] \cap {k})]
        PROVE  \A z \in Servers : core[z] \subseteq core'[z] \cup struck'[z]
    BY <2>1, <2>4
  <2> QED
    BY <2>2, <2>3, <2>4, Zenon DEF LateAttempt
<1>4. \A i \in Reqs : conn[i].server \in Servers
  BY ConnParts DEF Shape
<1> HIDE DEF Holder
<1>5. ASSUME NEW i \in Reqs, Holder(i)'
      PROVE  conn[i].key \in core'[conn[i].server] \/ Struck(i)'
  BY <1>1, <1>2, <1>3, <1>4, <1>5 DEF OneHolder, Struck
<1> QED
  BY <1>1, <1>2, <1>5 DEF OneHolder, SameKey

\* In a calm system a key has one holder and is on its core, always.
LEMMA HolderInvariant == ASSUME Calm PROVE Spec => []OneHolder
<1>1. Init => OneHolder
  BY DEF Init, OneHolder, Holder, Hand
<1>2. Shape /\ ClosedOnce /\ OneHolder /\ [Next]_vars => OneHolder'
  BY HoldersStep, FrameKeeps, AddKeepsHolders, UndoKeepsHolders, CloseKeepsHolders,
     LateKeepsHolders
<1> QED
  BY <1>1, <1>2, ShapeInvariant, OnceInvariant, PTL DEF Spec

\* In the calm, an active connection that nobody is closing is routed by its
\* core, whatever core calls fail (handler.go:433-453), unless an attempt to
\* remove the key came late (core_client.go:216-251).
THEOREM ActiveIsOnCore == ASSUME Calm PROVE Spec => []ActiveOnCore
<1>1. Shape /\ OneHolder => ActiveOnCore
  <2> SUFFICES ASSUME Shape, OneHolder, NEW id \in Active,
                      \A q \in Reqs : id \notin todo[q] \cup now[q]
               PROVE  conn[id].key \in core[conn[id].server] \cup struck[conn[id].server]
    BY DEF ActiveOnCore
  <2>1. id \in Reqs /\ Holder(id)
    BY DEF Active, Holder, Told
  <2> QED
    BY <2>1 DEF OneHolder, Struck
<1> QED
  BY <1>1, ShapeInvariant, HolderInvariant, PTL
-----------------------------------------------------------------------------
(***************************************************************************)
(* Slots.  When besides no user is deleted and stats-sync does not run,    *)
(* what a request has in hand is active, and every step moves counter,     *)
(* rows and held slots together.                                           *)
(***************************************************************************)
Quiet == Calm /\ Ops \cap {"deleteuser", "sync"} = {}

HandActive ==
    /\ \A q \in Reqs : \A id \in Hand(q) : peers[id] = "active"
    /\ \A s \in Servers : sync[s] = -1

\* In a quiet system the rows a request has at hand stay active.
LEMMA HandStep ==
    ASSUME Quiet, Shape, ClosedOnce, HandActive, [Next]_vars
    PROVE  HandActive'
<1> USE DEF Quiet, Calm, Shape, TypeOK, RowsDone, AtHand, ClosedOnce, HandActive, Hand,
            ConnectPC, ClosePC, database, control, ghosts, cores, Goto
<1>1. ASSUME NEW r \in Reqs, Connect(r) PROVE HandActive'
  BY <1>1 DEF Connect
<1>2. ASSUME NEW r \in Reqs, ConnectLookup(r) PROVE HandActive'
  BY <1>2 DEF ConnectLookup
<1>3. ASSUME NEW r \in Reqs, ConnectLimit(r) PROVE HandActive'
  BY <1>3 DEF ConnectLimit
<1>4. ASSUME NEW r \in Reqs, ConnectReserve(r) PROVE HandActive'
  BY <1>4 DEF ConnectReserve
<1>5. ASSUME NEW r \in Reqs, ConnectAdd(r) PROVE HandActive'
  BY <1>5 DEF ConnectAdd
<1>6. ASSUME NEW r \in Reqs, ConnectCreate(r) PROVE HandActive'
  BY <1>6 DEF ConnectCreate
<1>7. ASSUME NEW r \in Reqs, ConnectUndo(r) PROVE HandActive'
  BY <1>7 DEF ConnectUndo
<1>8. ASSUME NEW r \in Reqs, ConnectRelease(r) PROVE HandActive'
  BY <1>8 DEF ConnectRelease
<1>9. ASSUME NEW r \in Reqs, Disconnect(r) PROVE HandActive'
  BY <1>9 DEF Disconnect, Closing, MayClose
<1>10. ASSUME NEW r \in Reqs, AdminForceDisconnectPeer(r) PROVE HandActive'
  BY <1>10 DEF AdminForceDisconnectPeer, Closing, MayClose
<1>11. ASSUME NEW r \in Reqs, DeleteConnection(r) PROVE HandActive'
  BY <1>11, DeletionBegins DEF MayClose
<1>12. ASSUME NEW r \in Reqs, PeerCleanup(r) PROVE HandActive'
  BY <1>12 DEF PeerCleanup, Closing, MayClose
<1>13. ASSUME NEW r \in Reqs, AdminBanUser(r) PROVE HandActive'
  BY <1>13 DEF AdminBanUser
<1>14. ASSUME NEW r \in Reqs, BanList(r) PROVE HandActive'
  BY <1>14 DEF BanList
<1>15. ASSUME NEW r \in Reqs, CloseNext(r) PROVE HandActive'
  BY <1>15 DEF CloseNext
<1>16. ASSUME NEW r \in Reqs, CloseRemove(r) PROVE HandActive'
  BY <1>16 DEF CloseRemove
<1>17. ASSUME NEW r \in Reqs, CloseCount(r) PROVE HandActive'
  BY <1>17 DEF CloseCount
<1>18. ASSUME NEW r \in Reqs, CloseRetire(r) PROVE HandActive'
  BY <1>18 DEF CloseRetire, Retired
<1>19. ASSUME NEW r \in Reqs, AdminUnbanUser(r) PROVE HandActive'
  BY <1>19 DEF AdminUnbanUser
<1>20. ASSUME NEW r \in Reqs, AdminDeleteUser(r) PROVE HandActive'
  BY <1>20 DEF AdminDeleteUser
<1>21. ASSUME NEW r \in Reqs, ContextDone(r) PROVE HandActive'
  BY <1>21 DEF ContextDone
<1>22. ASSUME NEW s \in Servers, SyncList(s) PROVE HandActive'
  BY <1>22 DEF SyncList
<1>23. ASSUME NEW s \in Servers, SyncSet(s) PROVE HandActive'
  BY <1>23 DEF SyncSet
<1>late. ASSUME NEW s \in Servers, LateAttempt(s) PROVE HandActive'
  BY <1>late DEF LateAttempt
<1>24. CASE Crash
  BY <1>24 DEF Crash
<1>25. CASE UNCHANGED vars
  BY <1>25 DEF vars
<1> QED
  BY <1>late, <1>1, <1>2, <1>3, <1>4, <1>5, <1>6, <1>7, <1>8, <1>9, <1>10, <1>11, <1>12, <1>13, <1>14,
     <1>15, <1>16, <1>17, <1>18, <1>19, <1>20, <1>21, <1>22, <1>23, <1>24, <1>25
     DEF Next, Begin, Step

\* The state of a server's slots, and that a step leaves all of it.
SlotsFrame ==
    /\ UNCHANGED current
    /\ \A s \in Servers :
        UNCHANGED <<ActiveOn(s), Holding(s), CountedDown(s)>>

\* All but five actions leave the slots alone.
LEMMA SlotsStep ==
    ASSUME Quiet, Shape, ClosedOnce, HandActive, [Next]_vars,
           ~\E r \in Reqs : \/ ConnectReserve(r) \/ ConnectCreate(r) \/ ConnectRelease(r)
                            \/ CloseCount(r) \/ CloseRetire(r)
    PROVE  SlotsFrame
<1> USE DEF Quiet, Calm, Shape, TypeOK, RowsDone, AtHand, ClosedOnce, HandActive, Hand, SlotsFrame,
            ActiveOn, Active, Holding, CountedDown, ConnectPC, ClosePC, database, control, ghosts, cores, Goto
<1>1. ASSUME NEW r \in Reqs, Connect(r) PROVE SlotsFrame
  BY <1>1 DEF Connect
<1>2. ASSUME NEW r \in Reqs, ConnectLookup(r) PROVE SlotsFrame
  BY <1>2 DEF ConnectLookup
<1>3. ASSUME NEW r \in Reqs, ConnectLimit(r) PROVE SlotsFrame
  BY <1>3 DEF ConnectLimit
<1>4. ASSUME NEW r \in Reqs, ConnectAdd(r) PROVE SlotsFrame
  BY <1>4 DEF ConnectAdd
<1>5. ASSUME NEW r \in Reqs, ConnectUndo(r) PROVE SlotsFrame
  BY <1>5 DEF ConnectUndo
<1>6. ASSUME NEW r \in Reqs, Disconnect(r) PROVE SlotsFrame
  BY <1>6 DEF Disconnect, Closing, MayClose
<1>7. ASSUME NEW r \in Reqs, AdminForceDisconnectPeer(r) PROVE SlotsFrame
  BY <1>7 DEF AdminForceDisconnectPeer, Closing, MayClose
<1>8. ASSUME NEW r \in Reqs, DeleteConnection(r) PROVE SlotsFrame
  <2>1. /\ pc[r] = "new" /\ pc'[r] = "todo"
        /\ UNCHANGED <<peers, conn, current>>
        /\ \A q \in Reqs \ {r} : UNCHANGED <<pc[q], now[q]>>
    BY <1>8, DeletionBegins DEF MayClose
  <2>2. \A s \in Servers : UNCHANGED ActiveOn(s)
    BY <2>1
  <2>3. \A s \in Servers : UNCHANGED Holding(s)
    BY <2>1
  <2>4. \A q \in Reqs : pc[q] = "retire" <=> pc'[q] = "retire"
    BY <2>1
  <2>5. \A q \in Reqs : pc[q] = "retire" => UNCHANGED now[q]
    BY <2>1
  <2> HIDE DEF ActiveOn
  <2>6. \A s \in Servers : UNCHANGED CountedDown(s)
    BY <2>2, <2>4, <2>5, SMTT(60)
  <2> QED
    BY <2>1, <2>2, <2>3, <2>6
<1>9. ASSUME NEW r \in Reqs, PeerCleanup(r) PROVE SlotsFrame
  BY <1>9 DEF PeerCleanup, Closing, MayClose
<1>10. ASSUME NEW r \in Reqs, AdminBanUser(r) PROVE SlotsFrame
  BY <1>10 DEF AdminBanUser
<1>11. ASSUME NEW r \in Reqs, BanList(r) PROVE SlotsFrame
  BY <1>11 DEF BanList
<1>12. ASSUME NEW r \in Reqs, CloseNext(r) PROVE SlotsFrame
  BY <1>12 DEF CloseNext
<1>13. ASSUME NEW r \in Reqs, CloseRemove(r) PROVE SlotsFrame
  BY <1>13 DEF CloseRemove
<1>14. ASSUME NEW r \in Reqs, AdminUnbanUser(r) PROVE SlotsFrame
  BY <1>14 DEF AdminUnbanUser
<1>15. ASSUME NEW r \in Reqs, AdminDeleteUser(r) PROVE SlotsFrame
  BY <1>15 DEF AdminDeleteUser
<1>16. ASSUME NEW r \in Reqs, ContextDone(r) PROVE SlotsFrame
  BY <1>16 DEF ContextDone
<1>17. ASSUME NEW s \in Servers, SyncList(s) PROVE SlotsFrame
  BY <1>17 DEF SyncList
<1>18. ASSUME NEW s \in Servers, SyncSet(s) PROVE SlotsFrame
  BY <1>18 DEF SyncSet
<1>late. ASSUME NEW s \in Servers, LateAttempt(s) PROVE SlotsFrame
  BY <1>late DEF LateAttempt
<1>19. CASE Crash
  BY <1>19 DEF Crash
<1>20. CASE UNCHANGED vars
  BY <1>20 DEF vars
<1> QED
  BY <1>late, <1>1, <1>2, <1>3, <1>4, <1>5, <1>6, <1>7, <1>8, <1>9, <1>10, <1>11, <1>12, <1>13, <1>14,
     <1>15, <1>16, <1>17, <1>18, <1>19, <1>20 DEF Next, Begin, Step

\* The counter agrees with rows and held slots, and is within max_peers.
SlotsInv == SlotsAccounted /\ \A s \in Servers : current[s] <= MaxPeers

\* A server's sets can be counted.
LEMMA SlotSets ==
    ASSUME NEW s \in Servers
    PROVE  /\ ActiveOn(s) \in SUBSET Reqs /\ Holding(s) \in SUBSET Reqs
           /\ CountedDown(s) \in SUBSET ActiveOn(s)
           /\ Cardinality(ActiveOn(s)) \in Nat /\ Cardinality(Holding(s)) \in Nat
           /\ Cardinality(CountedDown(s)) \in Nat
           /\ Cardinality(CountedDown(s)) <= Cardinality(ActiveOn(s))
<1>1. /\ ActiveOn(s) \in SUBSET Reqs /\ Holding(s) \in SUBSET Reqs
      /\ CountedDown(s) \in SUBSET ActiveOn(s)
  BY DEF ActiveOn, Active, Holding, CountedDown
<1> QED
  BY <1>1, CountReqs

\* Counting with and without one request.
LEMMA OneMore ==
    ASSUME NEW S \in SUBSET Reqs, NEW r \in Reqs
    PROVE  /\ r \notin S => Cardinality(S \cup {r}) = Cardinality(S) + 1
           /\ r \in S => Cardinality(S \ {r}) = Cardinality(S) - 1 /\ Cardinality(S) >= 1
<1>1. IsFiniteSet(S) /\ Cardinality(S) \in Nat /\ IsFiniteSet(S \ {r}) /\ Cardinality(S \ {r}) \in Nat
  BY CountReqs
<1>2. r \notin S => Cardinality(S \cup {r}) = Cardinality(S) + 1
  BY <1>1, FS_AddElement
<1>3. r \in S => Cardinality(S \ {r}) = Cardinality(S) - 1
  BY <1>1, FS_RemoveElement
<1> QED
  BY <1>1, <1>2, <1>3

\* ConnectReserve takes a slot, if there is one, and holds it.
LEMMA ReserveSlots ==
    ASSUME Quiet, Shape, ClosedOnce, HandActive, SlotsInv, NEW r \in Reqs, ConnectReserve(r)
    PROVE  SlotsInv'
<1> SUFFICES ASSUME NEW s \in Servers
             PROVE  /\ current'[s] + Cardinality(CountedDown(s)') =
                            Cardinality(ActiveOn(s)') + Cardinality(Holding(s)')
                    /\ current'[s] <= MaxPeers
  BY DEF SlotsInv, SlotsAccounted
<1> USE DEF Shape, TypeOK, Goto, control, cores
<1>1. /\ pc[r] = "reserve" /\ \A q \in Reqs \ {r} : UNCHANGED pc[q]
      /\ UNCHANGED <<peers, conn, now>>
  BY DEF ConnectReserve
<1>2. ActiveOn(s)' = ActiveOn(s) /\ CountedDown(s)' = CountedDown(s)
  BY <1>1 DEF ConnectReserve, ActiveOn, Active, CountedDown
<1>3. /\ current[s] + Cardinality(CountedDown(s)) = Cardinality(ActiveOn(s)) + Cardinality(Holding(s))
      /\ current[s] <= MaxPeers /\ current[s] \in Nat
  BY DEF SlotsInv, SlotsAccounted
<1>4. CASE pc'[r] = "add" /\ s = conn[r].server
  <2>1. Holding(s)' = Holding(s) \cup {r} /\ r \notin Holding(s)
    BY <1>1, <1>4 DEF Holding
  <2>2. current'[s] = current[s] + 1 /\ current[s] < MaxPeers
    BY <1>4 DEF ConnectReserve, HasSlot
  <2>3. Cardinality(Holding(s)') = Cardinality(Holding(s)) + 1
    BY <2>1, SlotSets, OneMore
  <2> QED
    BY <1>2, <1>3, <2>2, <2>3, SlotSets, LimitAssumption
<1>5. CASE ~(pc'[r] = "add" /\ s = conn[r].server)
  <2>1. current'[s] = current[s]
    BY <1>5 DEF ConnectReserve
  <2>2. Holding(s)' = Holding(s)
    BY <1>1, <1>5 DEF ConnectReserve, Holding
  <2> QED
    BY <1>2, <1>3, <2>1, <2>2
<1> QED
  BY <1>4, <1>5

\* ConnectCreate turns the slot it holds into an active row.
LEMMA CreateSlots ==
    ASSUME Quiet, Shape, ClosedOnce, HandActive, SlotsInv, NEW r \in Reqs, ConnectCreate(r)
    PROVE  SlotsInv'
<1> SUFFICES ASSUME NEW s \in Servers
             PROVE  /\ current'[s] + Cardinality(CountedDown(s)') =
                            Cardinality(ActiveOn(s)') + Cardinality(Holding(s)')
                    /\ current'[s] <= MaxPeers
  BY DEF SlotsInv, SlotsAccounted
<1> USE DEF Shape, TypeOK, Goto, control, cores
<1>1. /\ current[s] + Cardinality(CountedDown(s)) = Cardinality(ActiveOn(s)) + Cardinality(Holding(s))
      /\ current[s] <= MaxPeers /\ current[s] \in Nat
  BY DEF SlotsInv, SlotsAccounted
<1>2. /\ pc[r] = "create" /\ \A q \in Reqs \ {r} : UNCHANGED pc[q]
      /\ UNCHANGED <<current, conn, now>>
      /\ \A q \in Reqs : r \notin now[q]
  BY DEF ConnectCreate, RowsDone, AtHand
<1>3. CASE peers' = [peers EXCEPT ![r] = "active"] /\ pc'[r] = "done" /\ s = conn[r].server
  <2>1. ActiveOn(s)' = ActiveOn(s) \cup {r} /\ r \notin ActiveOn(s)
    BY <1>2, <1>3 DEF ActiveOn, Active, RowsDone
  <2>2. Holding(s)' = Holding(s) \ {r} /\ r \in Holding(s)
    BY <1>2, <1>3 DEF Holding
  <2>3. CountedDown(s)' = CountedDown(s)
    BY <1>2, <1>3 DEF ActiveOn, Active, CountedDown
  <2>4. /\ Cardinality(ActiveOn(s)') = Cardinality(ActiveOn(s)) + 1
        /\ Cardinality(Holding(s)') = Cardinality(Holding(s)) - 1
    BY <2>1, <2>2, SlotSets, OneMore
  <2> QED
    BY <1>1, <1>2, <2>3, <2>4, SlotSets
<1>4. CASE peers' = [peers EXCEPT ![r] = "active"] /\ pc'[r] = "done" /\ s # conn[r].server
  <2>1. ActiveOn(s)' = ActiveOn(s)
    BY <1>2, <1>4 DEF ActiveOn, Active
  <2>2. Holding(s)' = Holding(s)
    BY <1>2, <1>4 DEF Holding
  <2>3. CountedDown(s)' = CountedDown(s)
    BY <1>2, <1>4 DEF ActiveOn, Active, CountedDown
  <2> QED
    BY <1>1, <1>2, <2>1, <2>2, <2>3
<1>5. CASE UNCHANGED peers /\ pc'[r] = "undo"
  <2>1. ActiveOn(s)' = ActiveOn(s) /\ Holding(s)' = Holding(s)
    BY <1>2, <1>5 DEF ActiveOn, Active, Holding
  <2>2. CountedDown(s)' = CountedDown(s)
    BY <1>2, <1>5 DEF ActiveOn, Active, CountedDown
  <2> QED
    BY <1>1, <1>2, <2>1, <2>2
<1> QED
  BY <1>3, <1>4, <1>5 DEF ConnectCreate

\* A Connect that fails gives its slot back.
LEMMA ReleaseSlots ==
    ASSUME Quiet, Shape, ClosedOnce, HandActive, SlotsInv, NEW r \in Reqs, ConnectRelease(r)
    PROVE  SlotsInv'
<1> SUFFICES ASSUME NEW s \in Servers
             PROVE  /\ current'[s] + Cardinality(CountedDown(s)') =
                            Cardinality(ActiveOn(s)') + Cardinality(Holding(s)')
                    /\ current'[s] <= MaxPeers
  BY DEF SlotsInv, SlotsAccounted
<1> USE DEF Shape, TypeOK, Goto, control, cores
<1>1. /\ current[s] + Cardinality(CountedDown(s)) = Cardinality(ActiveOn(s)) + Cardinality(Holding(s))
      /\ current[s] <= MaxPeers /\ current[s] \in Nat
  BY DEF SlotsInv, SlotsAccounted
<1>2. /\ pc[r] = "release" /\ pc'[r] = "done" /\ \A q \in Reqs \ {r} : UNCHANGED pc[q]
      /\ UNCHANGED <<peers, conn, now>> /\ r \notin gone
  BY DEF ConnectRelease, ClosedOnce
<1>3. ActiveOn(s)' = ActiveOn(s) /\ CountedDown(s)' = CountedDown(s)
  BY <1>2 DEF ActiveOn, Active, CountedDown
<1>4. CASE s = conn[r].server
  <2>1. Holding(s)' = Holding(s) \ {r} /\ r \in Holding(s)
    BY <1>2, <1>4 DEF Holding
  <2>2. Cardinality(Holding(s)') = Cardinality(Holding(s)) - 1 /\ Cardinality(Holding(s)) >= 1
    BY <2>1, SlotSets, OneMore
  <2>3. current[s] >= 1
    BY <1>1, <2>2, SlotSets
  <2>4. current'[s] = current[s] - 1
    BY <1>2, <1>4, <2>3 DEF ConnectRelease, SlotBack, Decremented
  <2> QED
    BY <1>1, <1>3, <2>2, <2>4, SlotSets, LimitAssumption
<1>5. CASE s # conn[r].server
  <2>1. Holding(s)' = Holding(s)
    BY <1>2, <1>5 DEF Holding
  <2>2. current'[s] = current[s]
    BY <1>2, <1>5, ConnParts DEF ConnectRelease, SlotBack, Decremented
  <2> QED
    BY <1>1, <1>3, <2>1, <2>2
<1> QED
  BY <1>4, <1>5

\* A closing request counts its row down once, before retiring it.
LEMMA CountSlots ==
    ASSUME Quiet, Shape, ClosedOnce, HandActive, SlotsInv, NEW r \in Reqs, CloseCount(r)
    PROVE  SlotsInv'
<1> SUFFICES ASSUME NEW s \in Servers
             PROVE  /\ current'[s] + Cardinality(CountedDown(s)') =
                            Cardinality(ActiveOn(s)') + Cardinality(Holding(s)')
                    /\ current'[s] <= MaxPeers
  BY DEF SlotsInv, SlotsAccounted
<1> USE DEF Shape, TypeOK, Goto, control, cores
<1>1. /\ current[s] + Cardinality(CountedDown(s)) = Cardinality(ActiveOn(s)) + Cardinality(Holding(s))
      /\ current[s] <= MaxPeers /\ current[s] \in Nat
  BY DEF SlotsInv, SlotsAccounted
<1>2. /\ pc[r] = "count" /\ pc'[r] = "retire" /\ \A q \in Reqs \ {r} : UNCHANGED pc[q]
      /\ UNCHANGED <<peers, conn, now>> /\ r \notin gone
  BY DEF CloseCount, ClosedOnce
<1>3. PICK id \in Reqs : now[r] = {id}
  BY <1>2 DEF AtHand
<1>4. peers[id] = "active" /\ \A q \in Reqs : id \in now[q] => q = r
  BY <1>3 DEF HandActive, ClosedOnce, Hand
<1>5. current' = Decremented(conn[id].server)
  BY <1>2, <1>3 DEF CloseCount
<1>6. ActiveOn(s)' = ActiveOn(s) /\ Holding(s)' = Holding(s)
  BY <1>2 DEF ActiveOn, Active, Holding
<1>7. CASE s = conn[id].server
  <2>1. id \in ActiveOn(s) /\ id \notin CountedDown(s)
    BY <1>2, <1>4, <1>7 DEF ActiveOn, Active, CountedDown
  <2>2. CountedDown(s)' = CountedDown(s) \cup {id}
    <3>1. \A i \in Reqs : (\E q \in Reqs : pc'[q] = "retire" /\ i \in now'[q])
                <=> (i = id \/ \E q \in Reqs : pc[q] = "retire" /\ i \in now[q])
      BY <1>2, <1>3
    <3>2. ActiveOn(s) \subseteq Reqs
      BY SlotSets
    <3> HIDE DEF Shape
    <3> QED
      BY <1>6, <2>1, <3>1, <3>2 DEF CountedDown
  <2>3. /\ Cardinality(CountedDown(s)') = Cardinality(CountedDown(s)) + 1
        /\ Cardinality(CountedDown(s)') <= Cardinality(ActiveOn(s))
    <3>1. CountedDown(s) \in SUBSET Reqs /\ CountedDown(s) \cup {id} \in SUBSET ActiveOn(s)
      BY <2>1, SlotSets
    <3> QED
      BY <2>1, <2>2, <3>1, SlotSets, OneMore, CountReqs
  <2>4. current[s] >= 1
    BY <1>1, <2>3, SlotSets
  <2>5. current'[s] = current[s] - 1
    BY <1>5, <1>7, <2>4 DEF Decremented
  <2> QED
    BY <1>1, <1>6, <2>3, <2>5, SlotSets, LimitAssumption
<1>8. CASE s # conn[id].server
  <2>1. current'[s] = current[s]
    BY <1>5, <1>8, ConnParts DEF Decremented
  <2>2. id \notin ActiveOn(s)
    BY <1>8 DEF ActiveOn
  <2>3. CountedDown(s)' = CountedDown(s)
    <3>1. \A i \in Reqs \ {id} : (\E q \in Reqs : pc'[q] = "retire" /\ i \in now'[q])
                <=> \E q \in Reqs : pc[q] = "retire" /\ i \in now[q]
      BY <1>2, <1>3
    <3>2. ActiveOn(s) \subseteq Reqs \ {id}
      BY <2>2, SlotSets
    <3> QED
      BY <1>6, <3>1, <3>2 DEF CountedDown
  <2> QED
    BY <1>1, <1>6, <2>1, <2>3
<1> QED
  BY <1>7, <1>8

\* Retiring a row that was counted down leaves the counter right.
LEMMA RetireSlots ==
    ASSUME Quiet, Shape, ClosedOnce, HandActive, SlotsInv, NEW r \in Reqs, CloseRetire(r)
    PROVE  SlotsInv'
<1> SUFFICES ASSUME NEW s \in Servers
             PROVE  /\ current'[s] + Cardinality(CountedDown(s)') =
                            Cardinality(ActiveOn(s)') + Cardinality(Holding(s)')
                    /\ current'[s] <= MaxPeers
  BY DEF SlotsInv, SlotsAccounted
<1> USE DEF Shape, TypeOK, Goto, control, cores
<1>1. /\ current[s] + Cardinality(CountedDown(s)) = Cardinality(ActiveOn(s)) + Cardinality(Holding(s))
      /\ current[s] <= MaxPeers /\ current[s] \in Nat
  BY DEF SlotsInv, SlotsAccounted
<1>2. /\ pc[r] = "retire" /\ pc'[r] \in {"todo", "done"} /\ \A q \in Reqs \ {r} : UNCHANGED <<pc[q], now[q]>>
      /\ UNCHANGED <<conn, current>> /\ r \notin gone /\ now'[r] = {}
  BY DEF CloseRetire, ClosedOnce
<1>3. PICK id \in Reqs : now[r] = {id}
  BY <1>2 DEF AtHand
<1>4. peers[id] = "active" /\ \A q \in Reqs : id \in now[q] => q = r
  BY <1>3 DEF HandActive, ClosedOnce, Hand
<1>5. peers'[id] # "active" /\ \A i \in Reqs \ {id} : UNCHANGED peers[i]
  BY <1>2, <1>3, <1>4 DEF CloseRetire, Retired
<1>6. Holding(s)' = Holding(s)
  BY <1>2 DEF Holding
<1>7. \A i \in Reqs \ {id} : (\E q \in Reqs : pc'[q] = "retire" /\ i \in now'[q])
            <=> \E q \in Reqs : pc[q] = "retire" /\ i \in now[q]
  BY <1>2, <1>3
<1>8. ActiveOn(s)' = ActiveOn(s) \ {id}
  BY <1>2, <1>5 DEF ActiveOn, Active
<1>9. CountedDown(s)' = CountedDown(s) \ {id}
  <2>1. ActiveOn(s) \subseteq Reqs
    BY SlotSets
  <2> QED
    BY <1>7, <1>8, <2>1 DEF CountedDown
<1>10. CASE s = conn[id].server
  <2>1. id \in ActiveOn(s) /\ id \in CountedDown(s)
    BY <1>2, <1>3, <1>4, <1>10 DEF ActiveOn, Active, CountedDown
  <2>2. CountedDown(s) \in SUBSET Reqs
    BY SlotSets
  <2>3. /\ Cardinality(ActiveOn(s)') = Cardinality(ActiveOn(s)) - 1
        /\ Cardinality(CountedDown(s)') = Cardinality(CountedDown(s)) - 1
    BY <1>8, <1>9, <2>1, <2>2, SlotSets, OneMore
  <2> QED
    BY <1>1, <1>2, <1>6, <2>3, SlotSets
<1>11. CASE s # conn[id].server
  <2>1. id \notin ActiveOn(s) /\ id \notin CountedDown(s)
    BY <1>11 DEF ActiveOn, CountedDown
  <2>2. ActiveOn(s)' = ActiveOn(s) /\ CountedDown(s)' = CountedDown(s)
    BY <1>8, <1>9, <2>1
  <2> QED
    BY <1>1, <1>2, <1>6, <2>2
<1> QED
  BY <1>10, <1>11

\* The other steps change neither counters nor what they count.
LEMMA FrameSlots == SlotsInv /\ SlotsFrame => SlotsInv'
BY DEF SlotsInv, SlotsAccounted, SlotsFrame

\* In a quiet system the counters are right, always.
LEMMA SlotsInvariant == ASSUME Quiet PROVE Spec => [](Shape /\ SlotsInv)
<1>1. Init => HandActive /\ SlotsInv
  <2> SUFFICES ASSUME Init PROVE HandActive /\ SlotsInv
    OBVIOUS
  <2>1. HandActive
    BY DEF Init, HandActive, Hand
  <2>2. ASSUME NEW s \in Servers
        PROVE  ActiveOn(s) = {} /\ Holding(s) = {} /\ CountedDown(s) = {} /\ current[s] = 0
    BY DEF Init, ActiveOn, Active, Holding, CountedDown
  <2> QED
    BY <2>1, <2>2, FS_EmptySet, LimitAssumption DEF SlotsInv, SlotsAccounted
<1>2. Shape /\ ClosedOnce /\ HandActive /\ SlotsInv /\ [Next]_vars => HandActive' /\ SlotsInv'
  BY HandStep, SlotsStep, FrameSlots, ReserveSlots, CreateSlots, ReleaseSlots, CountSlots,
     RetireSlots
<1>3. Calm
  BY DEF Quiet
<1>4. Spec => []ClosedOnce
  BY <1>3, OnceInvariant
<1> QED
  BY <1>1, <1>2, <1>4, ShapeInvariant, PTL DEF Spec

\* current_peers is exactly the active connections plus the slots held by
\* Connects under way, through every failure of a core call and every rollback
\* (handler.go:414-455), when Quiet.
THEOREM SlotsAreAccounted == ASSUME Quiet PROVE Spec => []SlotsAccounted
<1>1. SlotsInv => SlotsAccounted
  BY DEF SlotsInv
<1> QED
  BY <1>1, SlotsInvariant, PTL

\* Never more active connections on a server than max_peers (handler.go:413),
\* when Quiet.
THEOREM CapacityIsRespected == ASSUME Quiet PROVE Spec => []CapacityRespected
<1>1. Shape /\ SlotsInv => CapacityRespected
  <2> SUFFICES ASSUME Shape, SlotsInv, NEW s \in Servers
               PROVE  Cardinality(ActiveOn(s) \ CountedDown(s)) <= MaxPeers
    BY DEF CapacityRespected
  <2>1. /\ current[s] + Cardinality(CountedDown(s)) = Cardinality(ActiveOn(s)) + Cardinality(Holding(s))
        /\ current[s] <= MaxPeers /\ current[s] \in Nat
    BY DEF SlotsInv, SlotsAccounted, Shape, TypeOK
  <2>2. /\ IsFiniteSet(ActiveOn(s))
        /\ ActiveOn(s) \cap CountedDown(s) = CountedDown(s)
    BY SlotSets, CountReqs
  <2>3. Cardinality(ActiveOn(s) \ CountedDown(s)) = Cardinality(ActiveOn(s)) - Cardinality(CountedDown(s))
    BY <2>2, FS_Difference
  <2> QED
    BY <2>1, <2>3, SlotSets, LimitAssumption
<1> QED
  BY <1>1, SlotsInvariant, PTL
=============================================================================
