-------------------------- MODULE ServerAdminProofs --------------------------
(***************************************************************************)
(* Proofs about ServerAdmin, for any servers, requests, keys, capacities   *)
(* and life time of the cache.                                             *)
(*                                                                         *)
(*   ServedFresh    the cache is no older than its life time and was no    *)
(*                  older than the longest query when filled (Timely).     *)
(*   CacheTruthful  a query under way that no write has crossed still has  *)
(*                  what the table has (QueriesTruthful).                  *)
(*   EditsSurvive   a request about to write a row back has what was last  *)
(*                  asked for, unless an edit has landed since             *)
(*                  (ReadsCurrent).                                        *)
(***************************************************************************)
EXTENDS ServerAdmin, TLAPS

Asked   == [max_peers : Caps, is_active : BOOLEAN]
Reading == {"edit", "reserve", "flushAdd", "add", "stats"}

\* Types of the table, the cache and the requests.
TypeOK ==
    /\ rows \in [Servers -> Row \cup {Unborn, Deleted}]
    /\ age \in Nat /\ born \in Nat /\ tainted \in BOOLEAN
    /\ pc \in [Reqs -> Reading \cup {"idle", "release", "fill", "flush"}]
    /\ srv \in [Reqs -> Servers]
    /\ read \in [Reqs -> [Servers -> Row \cup {Unborn}]]
    /\ waited \in [Reqs -> Nat]
    /\ landed \in SUBSET Reqs
    /\ intended \in [Servers -> Asked \cup {Unborn}]

\* A request that will write a row back has one, and a row there is was asked for.
Filled ==
    /\ \A r \in Reqs : pc[r] \in Reading => read[r][srv[r]] \in Row
    /\ \A s \in Servers : Exists(s) => intended[s] \in Asked

Shape == TypeOK /\ Filled
-----------------------------------------------------------------------------
(***************************************************************************)
(* Rows.                                                                   *)
(***************************************************************************)
\* The counts go up to the largest capacity.
LEMMA CountRange ==
    /\ Count \subseteq Nat /\ 0 \in Count
    /\ \A m \in Caps : \A n \in Nat : n <= m => n \in Count
    /\ \A n \in Count : n > 0 => n - 1 \in Count
<1> DEFINE top == CHOOSE m \in Caps : \A n \in Caps : n <= m
<1>1. top \in Caps /\ \A n \in Caps : n <= top
  BY CapsAssumption
<1>2. top \in Nat /\ Count = 0 .. top
  BY <1>1, CapsAssumption DEF Count
<1> HIDE DEF top
<1> QED
  BY <1>1, <1>2, CapsAssumption

\* A row there is.
LEMMA RowOf ==
    ASSUME TypeOK, NEW s \in Servers, Exists(s)
    PROVE  rows[s] \in Row
BY DEF TypeOK, Exists

\* Only the count of a row changes.
LEMMA WithCount ==
    ASSUME NEW row \in Row, NEW n \in Count
    PROVE  /\ [row EXCEPT !.current_peers = n] \in Row
           /\ [row EXCEPT !.current_peers = n].max_peers = row.max_peers
           /\ [row EXCEPT !.current_peers = n].is_active = row.is_active
BY DEF Row

\* Only the key of a row changes.
LEMMA WithKey ==
    ASSUME NEW row \in Row, NEW k \in Keys
    PROVE  /\ [row EXCEPT !.public_key = k] \in Row
           /\ [row EXCEPT !.public_key = k].max_peers = row.max_peers
           /\ [row EXCEPT !.public_key = k].is_active = row.is_active
BY DEF Row

\* The columns that are not given stay.
LEMMA EditedRow ==
    ASSUME NEW row \in Row, NEW new \in Body, NEW given \in SUBSET DOMAIN row
    PROVE  /\ Edited(row, given, new) \in Row
           /\ "max_peers" \notin given => Edited(row, given, new).max_peers = row.max_peers
           /\ "is_active" \notin given => Edited(row, given, new).is_active = row.is_active
BY DEF Row, Body, Edited
-----------------------------------------------------------------------------
\* The table is empty and nobody has begun.
LEMMA InitShape == Init => Shape
<1>1. (CHOOSE s \in Servers : TRUE) \in Servers
  BY NoRowAssumption
<1> SUFFICES ASSUME Init PROVE TypeOK /\ Filled
  BY DEF Shape
<1>2. TypeOK
  BY <1>1 DEF Init, NoRow, TypeOK
<1>3. Filled
  BY DEF Init, NoRow, Filled, Exists, Reading
<1> QED
  BY <1>2, <1>3

\* A whole-row update keeps the types.
LEMMA UpdateShape ==
    ASSUME Shape, NEW r \in Reqs, pc[r] \in Reading, NEW row \in Row, NEW asked,
           Update(r, srv[r], row, asked), UNCHANGED <<srv, read, waited>>
    PROVE  Shape'
<1> DEFINE s   == srv[r]
           new == [row EXCEPT !.current_peers = rows[s].current_peers]
           int == [c \in DOMAIN intended[s] |->
                    IF c \in asked \/ r \in landed THEN new[c] ELSE intended[s][c]]
<1>0. s \in Servers
  BY DEF Shape, TypeOK
<1>1. CASE Exists(s)
  <2>1. rows[s] \in Row /\ rows[s].current_peers \in Count /\ intended[s] \in Asked
    BY <1>0, <1>1, RowOf DEF Shape, Filled, Row
  <2>2. new \in Row
    BY <2>1, WithCount
  <2>3. /\ rows' = [rows EXCEPT ![s] = new]
        /\ landed' \in SUBSET Reqs /\ pc' = [pc EXCEPT ![r] = "flush"] /\ UNCHANGED cache
        /\ intended' = [intended EXCEPT ![s] = int]
    BY <1>1 DEF Update, Write, Goto, Overtaken, Shape, TypeOK
  <2> HIDE DEF new
  <2>4. int \in Asked
    BY <2>1, <2>2 DEF Asked, Row
  <2> HIDE DEF int, s
  <2> QED
    BY <1>0, <2>2, <2>3, <2>4 DEF Shape, TypeOK, Filled, Exists, Reading, cache
<1>2. CASE ~Exists(s)
  BY <1>2 DEF Update, Goto, Shape, TypeOK, Filled, Exists, Reading, cache
<1> QED
  BY <1>1, <1>2

\* UpdatePeerCount keeps the types.
LEMMA CountShape ==
    ASSUME Shape, NEW r \in Reqs, NEW s \in Servers, pc[r] \in {"release", "idle"},
           UpdatePeerCount(r, s), srv' \in [Reqs -> Servers],
           \A q \in Reqs \ {r} : UNCHANGED srv[q], UNCHANGED <<read, waited, intended>>
    PROVE  Shape'
<1>1. CASE Exists(s)
  <2>1. rows[s] \in Row /\ rows[s].current_peers \in Count
    BY <1>1, RowOf DEF Shape, Row
  <2>2. Down(rows[s]) \in Row
    <3>1. PICK n \in Count : Down(rows[s]) = [rows[s] EXCEPT !.current_peers = n]
      BY <2>1, CountRange DEF Down
    <3> QED
      BY <2>1, <3>1, WithCount
  <2>3. /\ rows' = [rows EXCEPT ![s] = Down(rows[s])]
        /\ landed' \in SUBSET Reqs /\ pc' = [pc EXCEPT ![r] = "flush"] /\ UNCHANGED cache
    BY <1>1 DEF UpdatePeerCount, Write, Goto, Overtaken, Shape, TypeOK
  <2> QED
    BY <1>1, <2>2, <2>3 DEF Shape, TypeOK, Filled, Exists, Reading, cache
<1>2. CASE ~Exists(s)
  BY <1>2 DEF UpdatePeerCount, Goto, Shape, TypeOK, Filled, Exists, Reading, cache
<1> QED
  BY <1>1, <1>2

\* GetByID keeps the types.
LEMMA FetchShape ==
    ASSUME Shape, NEW r \in Reqs, NEW s \in Servers, NEW l \in Reading, Fetch(r, s, l)
    PROVE  Shape'
<1> DEFINE row == [rows[s] EXCEPT !.current_peers = 0]
<1>1. row \in Row
  BY RowOf, WithCount, CountRange DEF Fetch, Shape
<1>2. /\ read' = [read EXCEPT ![r] = [read[r] EXCEPT ![s] = row]]
      /\ srv' = [srv EXCEPT ![r] = s] /\ pc' = [pc EXCEPT ![r] = l]
      /\ UNCHANGED <<rows, cache, waited, landed, intended>>
  BY DEF Fetch, Goto
<1> HIDE DEF row
<1> QED
  BY <1>1, <1>2 DEF Shape, TypeOK, Filled, Exists, cache

\* Every step keeps the types.
LEMMA ShapeStep == Shape /\ [Next]_vars => Shape'
<1> SUFFICES ASSUME Shape, [Next]_vars PROVE Shape'
  OBVIOUS
<1>0. (CHOOSE s \in Servers : TRUE) \in Servers
  BY NoRowAssumption
<1>1. ASSUME NEW r \in Reqs, AdminCreateServer(r) PROVE Shape'
  <2>1. PICK s \in Servers, m \in Caps, k \in Keys :
          /\ Write(r, s, [max_peers |-> m, is_active |-> TRUE, public_key |-> k,
                          current_peers |-> 0], {"id"}, "flush")
          /\ intended' = [intended EXCEPT ![s] = [max_peers |-> m, is_active |-> TRUE]]
          /\ srv' = [srv EXCEPT ![r] = s]
    BY <1>1 DEF AdminCreateServer
  <2>2. /\ [max_peers |-> m, is_active |-> TRUE, public_key |-> k, current_peers |-> 0] \in Row
        /\ [max_peers |-> m, is_active |-> TRUE] \in Asked
    BY CountRange DEF Row, Asked
  <2> QED
    BY <1>1, <2>1, <2>2, ZenonT(60)
    DEF AdminCreateServer, Write, Overtaken, Shape, TypeOK, Filled, Exists,
        Reading, cache, Goto
<1>2. ASSUME NEW r \in Reqs, AdminFetch(r) PROVE Shape'
  BY <1>2, FetchShape DEF AdminFetch, Reading
<1>3. ASSUME NEW r \in Reqs, AdminUpdateServer(r) PROVE Shape'
  <2>1. PICK given \in SUBSET {"max_peers", "is_active", "public_key"}, new \in Body :
            Update(r, srv[r], Edited(read[r][srv[r]], given, new), given)
    BY <1>3 DEF AdminUpdateServer
  <2>2. read[r][srv[r]] \in Row
    BY <1>3 DEF AdminUpdateServer, Shape, Filled, Reading
  <2>3. Edited(read[r][srv[r]], given, new) \in Row
    BY <2>2, EditedRow DEF Row
  <2> QED
    BY <1>3, <2>1, <2>3, UpdateShape DEF AdminUpdateServer, Reading
<1>4. ASSUME NEW r \in Reqs, AdminUpdateRefused(r) PROVE Shape'
  BY <1>4, <1>0 DEF AdminUpdateRefused, Forget, NoRow, Shape, TypeOK, Filled, Exists, Reading,
     cache, Goto
<1>5. ASSUME NEW r \in Reqs, AdminDeleteServer(r) PROVE Shape'
  BY <1>5 DEF AdminDeleteServer, Write, Overtaken, Shape, TypeOK, Filled, Exists, Reading,
     cache, Goto
<1>6. ASSUME NEW r \in Reqs, ConnectSelect(r) PROVE Shape'
  BY <1>6, FetchShape DEF ConnectSelect, Reading
<1>7. ASSUME NEW r \in Reqs, ReserveSlot(r) PROVE Shape'
  <2>1. CASE HasSlot(srv[r])
    <3>1. rows[srv[r]] \in Row /\ srv[r] \in Servers
      BY <2>1, RowOf DEF HasSlot, Shape, TypeOK
    <3>2. rows[srv[r]].current_peers + 1 \in Count
      <4>1. /\ rows[srv[r]].current_peers \in Nat /\ rows[srv[r]].max_peers \in Caps
            /\ rows[srv[r]].max_peers \in Nat
        BY <3>1, CountRange, CapsAssumption DEF Row
      <4> QED
        BY <2>1, <4>1, CountRange DEF HasSlot
    <3>3. [rows[srv[r]] EXCEPT !.current_peers = @ + 1] \in Row
      BY <3>1, <3>2, WithCount
    <3>4. /\ rows' = [rows EXCEPT ![srv[r]] = [rows[srv[r]] EXCEPT !.current_peers = @ + 1]]
          /\ pc' = [pc EXCEPT ![r] = "flushAdd"] /\ pc[r] = "reserve" /\ landed' \in SUBSET Reqs
          /\ UNCHANGED <<cache, srv, read, waited, intended>>
      BY <1>7, <2>1 DEF ReserveSlot, Write, Overtaken, AfterReserve, Goto, Shape, TypeOK
    <3> QED
      BY <2>1, <3>1, <3>3, <3>4 DEF Shape, TypeOK, Filled, Exists, Reading, cache, HasSlot
  <2>2. CASE ~HasSlot(srv[r])
    BY <1>7, <2>2 DEF ReserveSlot, Shape, TypeOK, Filled, Exists, Reading, cache, Goto
  <2> QED
    BY <2>1, <2>2
<1>8. ASSUME NEW r \in Reqs, AddPeer(r) PROVE Shape'
  BY <1>8 DEF AddPeer, Shape, TypeOK, Filled, Exists, Reading, cache, Goto
<1>9. ASSUME NEW r \in Reqs, ReleaseSlot(r) PROVE Shape'
  <2>1. srv[r] \in Servers /\ UpdatePeerCount(r, srv[r]) /\ pc[r] = "release"
        /\ UNCHANGED <<srv, read, waited, intended>>
    BY <1>9 DEF ReleaseSlot, Shape, TypeOK
  <2> QED
    BY <2>1, CountShape DEF Shape, TypeOK
<1>10. ASSUME NEW r \in Reqs, SaveKey(r) PROVE Shape'
  <2>1. read[r][srv[r]] \in Row /\ pc[r] \in Reading
    BY <1>10 DEF SaveKey, Shape, Filled, Reading
  <2>2. PICK k \in Keys : Update(r, srv[r], [read[r][srv[r]] EXCEPT !.public_key = k], {"public_key"})
    BY <1>10 DEF SaveKey
  <2> QED
    BY <1>10, <2>1, <2>2, WithKey, UpdateShape DEF SaveKey
<1>11. ASSUME NEW r \in Reqs, KeyKnown(r) PROVE Shape'
  BY <1>11, <1>0 DEF KeyKnown, Forget, NoRow, Shape, TypeOK, Filled, Exists, Reading, cache, Goto
<1>12. ASSUME NEW r \in Reqs, Disconnect(r) PROVE Shape'
  <2>1. PICK s \in Servers : UpdatePeerCount(r, s) /\ srv' = [srv EXCEPT ![r] = s]
    BY <1>12 DEF Disconnect
  <2>2. srv' \in [Reqs -> Servers] /\ \A q \in Reqs \ {r} : UNCHANGED srv[q]
    BY <2>1 DEF Shape, TypeOK
  <2> QED
    BY <1>12, <2>1, <2>2, CountShape DEF Disconnect
<1>13. ASSUME NEW r \in Reqs, ListQuery(r) PROVE Shape'
  BY <1>13 DEF ListQuery, ActiveRows, Shape, TypeOK, Filled, Exists, Reading, cache, Goto
<1>14. ASSUME NEW r \in Reqs, ListFill(r) PROVE Shape'
  BY <1>14, <1>0 DEF ListFill, Forget, NoRow, Shape, TypeOK, Filled, Exists, Reading, cache, Goto
<1>15. ASSUME NEW r \in Reqs, InvalidateCache(r) PROVE Shape'
  <2>1. /\ UNCHANGED <<rows, landed, intended>> /\ age' = 0 /\ born' = 0 /\ tainted' = FALSE
    BY <1>15 DEF InvalidateCache, OutOfDate
  <2>2. CASE pc[r] = "flush"
    <3>1. pc' = [pc EXCEPT ![r] = "idle"] /\ Forget(r)
      BY <1>15, <2>2 DEF InvalidateCache, Goto
    <3>2. TypeOK'
      BY <1>0, <2>1, <3>1 DEF Forget, NoRow, Shape, TypeOK
    <3>3. Filled'
      BY <2>1, <3>1 DEF Forget, Shape, TypeOK, Filled, Exists, Reading
    <3> QED
      BY <3>2, <3>3 DEF Shape
  <2>3. CASE pc[r] = "flushAdd"
    BY <1>15, <2>1, <2>3 DEF InvalidateCache, Goto, Shape, TypeOK, Filled, Exists, Reading
  <2> QED
    BY <1>15, <2>2, <2>3 DEF InvalidateCache
<1>16. CASE JobWrite
  <2>1. PICK s \in Servers, n \in Count : Exists(s) /\ rows' = [rows EXCEPT ![s].current_peers = n]
    BY <1>16 DEF JobWrite
  <2>2. [rows[s] EXCEPT !.current_peers = n] \in Row
    BY <2>1, RowOf, WithCount DEF Shape
  <2>3. rows' = [rows EXCEPT ![s] = [rows[s] EXCEPT !.current_peers = n]]
    BY <2>1
  <2>4. /\ landed' \in SUBSET Reqs /\ tainted' \in BOOLEAN
        /\ UNCHANGED <<cached, age, born, pc, srv, read, waited, intended>>
    BY <1>16 DEF JobWrite, Shape, TypeOK, Usable
  <2> QED
    BY <2>1, <2>2, <2>3, <2>4 DEF Shape, TypeOK, Filled, Exists, Reading
<1>17. CASE Tick
  <2>1. tainted' \in BOOLEAN /\ age' \in Nat /\ born' \in Nat
    <3>1. CASE Usable /\ age + 1 >= TTL
      <4>1. OutOfDate
        BY <1>17, <3>1 DEF Tick, Aged
      <4> QED
        BY <4>1 DEF OutOfDate
    <3>2. CASE Usable /\ ~(age + 1 >= TTL)
      BY <1>17, <3>2 DEF Tick, Aged, Shape, TypeOK
    <3>3. CASE ~Usable
      BY <1>17, <3>3 DEF Tick, cache, Shape, TypeOK
    <3> QED
      BY <3>1, <3>2, <3>3
  <2> QED
    BY <1>17, <2>1 DEF Tick, Shape, TypeOK, Filled, Exists
<1>18. CASE UNCHANGED vars
  BY <1>18 DEF vars, Shape, TypeOK, Filled, Exists, Reading, cache, Goto
<1> QED
  BY <1>1, <1>2, <1>3, <1>4, <1>5, <1>6, <1>7, <1>8, <1>9, <1>10, <1>11, <1>12, <1>13, <1>14,
     <1>15, <1>16, <1>17, <1>18 DEF Next, Step

\* The types hold, always.
LEMMA ShapeInvariant == Spec => []Shape
  BY InitShape, ShapeStep, PTL DEF Spec
-----------------------------------------------------------------------------
(***************************************************************************)
(* How old a served list is: as old as the cache entry and its query.      *)
(***************************************************************************)
Timely ==
    /\ \A r \in Reqs : waited[r] <= MaxQuery
    /\ Usable => age < TTL /\ born <= age + MaxQuery

\* Only the three actions below touch the cache's clocks.
ClocksFrame ==
    /\ \/ UNCHANGED <<cached, age, born>>
       \/ cached' = {}
    /\ \A r \in Reqs : waited'[r] = waited[r] \/ waited'[r] = 0

\* Only Tick and the filling of the cache move the clocks forward.
LEMMA ClocksStep ==
    ASSUME Shape, [Next]_vars, ~Tick, ~\E r \in Reqs : ListFill(r)
    PROVE  ClocksFrame
<1> USE DEF ClocksFrame, Shape, TypeOK, cache, Write, Forget, Update, UpdatePeerCount, Fetch
<1>1. ASSUME NEW r \in Reqs, AdminCreateServer(r) PROVE ClocksFrame
  BY <1>1 DEF AdminCreateServer
<1>2. ASSUME NEW r \in Reqs, AdminFetch(r) PROVE ClocksFrame
  BY <1>2 DEF AdminFetch
<1>3. ASSUME NEW r \in Reqs, AdminUpdateServer(r) PROVE ClocksFrame
  BY <1>3 DEF AdminUpdateServer
<1>4. ASSUME NEW r \in Reqs, AdminUpdateRefused(r) PROVE ClocksFrame
  BY <1>4 DEF AdminUpdateRefused
<1>5. ASSUME NEW r \in Reqs, AdminDeleteServer(r) PROVE ClocksFrame
  BY <1>5 DEF AdminDeleteServer
<1>6. ASSUME NEW r \in Reqs, ConnectSelect(r) PROVE ClocksFrame
  BY <1>6 DEF ConnectSelect
<1>7. ASSUME NEW r \in Reqs, ReserveSlot(r) PROVE ClocksFrame
  BY <1>7 DEF ReserveSlot
<1>8. ASSUME NEW r \in Reqs, AddPeer(r) PROVE ClocksFrame
  BY <1>8 DEF AddPeer
<1>9. ASSUME NEW r \in Reqs, ReleaseSlot(r) PROVE ClocksFrame
  BY <1>9 DEF ReleaseSlot
<1>10. ASSUME NEW r \in Reqs, SaveKey(r) PROVE ClocksFrame
  BY <1>10 DEF SaveKey
<1>11. ASSUME NEW r \in Reqs, KeyKnown(r) PROVE ClocksFrame
  BY <1>11 DEF KeyKnown
<1>12. ASSUME NEW r \in Reqs, Disconnect(r) PROVE ClocksFrame
  BY <1>12 DEF Disconnect
<1>13. ASSUME NEW r \in Reqs, ListQuery(r) PROVE ClocksFrame
  BY <1>13 DEF ListQuery
<1>14. ASSUME NEW r \in Reqs, InvalidateCache(r) PROVE ClocksFrame
  BY <1>14 DEF InvalidateCache, OutOfDate
<1>15. CASE JobWrite
  BY <1>15 DEF JobWrite
<1>16. CASE Tick
  BY <1>16
<1>17. CASE UNCHANGED vars
  BY <1>17 DEF vars
<1> QED
  BY <1>1, <1>2, <1>3, <1>4, <1>5, <1>6, <1>7, <1>8, <1>9, <1>10, <1>11, <1>12, <1>13, <1>14,
     <1>15, <1>16, <1>17 DEF Next, Step

\* A list that is served was queried less than the cache's life time and one
\* query ago, whatever overtook it (server.go:73-79, 101-106).
THEOREM ServedFreshHolds == Spec => []ServedFresh
<1>1. Init => Timely
  BY TimeAssumption DEF Init, Timely, Usable
<1>2. ASSUME Shape, Timely, [Next]_vars PROVE Timely'
  <2> USE <1>2, TimeAssumption DEF Shape, TypeOK, Timely
  <2>1. CASE Tick
    <3>1. \A r \in Reqs : waited'[r] <= MaxQuery
      BY <2>1 DEF Tick
    <3>2. CASE Usable /\ age + 1 >= TTL
      <4>1. OutOfDate
        BY <2>1, <3>2 DEF Tick, Aged
      <4> QED
        BY <3>1, <4>1 DEF OutOfDate, Usable
    <3>3. CASE Usable /\ ~(age + 1 >= TTL)
      BY <2>1, <3>1, <3>3 DEF Tick, Aged, Usable
    <3>4. CASE ~Usable
      BY <2>1, <3>1, <3>4 DEF Tick, cache, Usable
    <3> QED
      BY <3>2, <3>3, <3>4
  <2>2. ASSUME NEW r \in Reqs, ListFill(r) PROVE Timely'
    BY <2>2 DEF ListFill, Forget
  <2>3. CASE ~Tick /\ ~\E r \in Reqs : ListFill(r)
    <3>1. ClocksFrame
      BY <1>2, <2>3, ClocksStep
    <3> QED
      BY <1>2, <3>1 DEF ClocksFrame, Usable
  <2> QED
    BY <2>1, <2>2, <2>3
<1>3. Shape /\ Timely => ServedFresh
  BY TimeAssumption DEF Shape, TypeOK, Timely, ServedFresh
<1> QED
  BY <1>1, <1>2, <1>3, ShapeInvariant, PTL DEF Spec
-----------------------------------------------------------------------------
(***************************************************************************)
(* What a served list says.  A query nothing overtook has the table's      *)
(* rows, so the list it leaves in the cache has them until a write, whose  *)
(* invalidation is then due.                                               *)
(***************************************************************************)
QueriesTruthful ==
    \A r \in Reqs : pc[r] = "fill" /\ r \notin landed => read[r] = ActiveRows

Truthful == QueriesTruthful /\ CacheTruthful

\* Every step keeps both.
LEMMA TruthStep ==
    ASSUME Shape, Truthful, [Next]_vars
    PROVE  Truthful'
<1> USE DEF Shape, TypeOK, Truthful, QueriesTruthful, CacheTruthful, Reading, cache, Goto, Usable, Exists, ActiveRows
<1>1. ASSUME NEW r \in Reqs, AdminCreateServer(r) PROVE Truthful'
  BY <1>1 DEF AdminCreateServer, Write, Overtaken
<1>2. ASSUME NEW r \in Reqs, AdminFetch(r) PROVE Truthful'
  BY <1>2 DEF AdminFetch, Fetch
<1>3. ASSUME NEW r \in Reqs, AdminUpdateServer(r) PROVE Truthful'
  BY <1>3 DEF AdminUpdateServer, Update, Write, Overtaken
<1>4. ASSUME NEW r \in Reqs, AdminUpdateRefused(r) PROVE Truthful'
  BY <1>4 DEF AdminUpdateRefused, Forget
<1>5. ASSUME NEW r \in Reqs, AdminDeleteServer(r) PROVE Truthful'
  BY <1>5 DEF AdminDeleteServer, Write, Overtaken
<1>6. ASSUME NEW r \in Reqs, ConnectSelect(r) PROVE Truthful'
  BY <1>6 DEF ConnectSelect, Fetch
<1>7. ASSUME NEW r \in Reqs, ReserveSlot(r) PROVE Truthful'
  BY <1>7 DEF ReserveSlot, AfterReserve, Write, Overtaken
<1>8. ASSUME NEW r \in Reqs, AddPeer(r) PROVE Truthful'
  BY <1>8 DEF AddPeer
<1>9. ASSUME NEW r \in Reqs, ReleaseSlot(r) PROVE Truthful'
  BY <1>9, ZenonT(60) DEF ReleaseSlot, UpdatePeerCount, Write, Overtaken
<1>10. ASSUME NEW r \in Reqs, SaveKey(r) PROVE Truthful'
  BY <1>10 DEF SaveKey, Update, Write, Overtaken
<1>11. ASSUME NEW r \in Reqs, KeyKnown(r) PROVE Truthful'
  BY <1>11 DEF KeyKnown, Forget
<1>12. ASSUME NEW r \in Reqs, Disconnect(r) PROVE Truthful'
  BY <1>12, SMTT(60) DEF Disconnect, UpdatePeerCount, Write, Overtaken
<1>13. ASSUME NEW r \in Reqs, ListQuery(r) PROVE Truthful'
  BY <1>13 DEF ListQuery
<1>14. ASSUME NEW r \in Reqs, ListFill(r) PROVE Truthful'
  BY <1>14 DEF ListFill, Forget
<1>15. ASSUME NEW r \in Reqs, InvalidateCache(r) PROVE Truthful'
  BY <1>15 DEF InvalidateCache, OutOfDate, Forget
<1>16. CASE JobWrite
  BY <1>16 DEF JobWrite
<1>17. CASE Tick
  BY <1>17 DEF Tick, Aged, OutOfDate
<1>18. CASE UNCHANGED vars
  BY <1>18 DEF vars
<1> QED
  BY <1>1, <1>2, <1>3, <1>4, <1>5, <1>6, <1>7, <1>8, <1>9, <1>10, <1>11, <1>12, <1>13, <1>14,
     <1>15, <1>16, <1>17, <1>18 DEF Next, Step

\* A list served from the cache is the table's, unless an invalidation is due,
\* a write overtook its query, or a job has written past the cache
\* (server.go:76-107).
THEOREM CacheIsTruthful == Spec => []CacheTruthful
<1>1. Init => Truthful
  BY DEF Init, Truthful, QueriesTruthful, CacheTruthful, Usable
<1>2. Truthful => CacheTruthful
  BY DEF Truthful
<1> QED
  BY <1>1, <1>2, TruthStep, ShapeInvariant, PTL DEF Spec
-----------------------------------------------------------------------------
(***************************************************************************)
(* What the administrator set.  A row that was read and not overtaken      *)
(* still agrees with the table, so writing it back changes only what was   *)
(* asked for.                                                              *)
(***************************************************************************)
Agree(a, b) == a.max_peers = b.max_peers /\ a.is_active = b.is_active

AsIntended == \A s \in Servers : Exists(s) => Agree(rows[s], intended[s])

ReadsCurrent ==
    \A r \in Reqs : pc[r] \in Reading /\ r \notin landed /\ Exists(srv[r]) =>
        Agree(read[r][srv[r]], rows[srv[r]])

Edits == AsIntended /\ ReadsCurrent

\* A whole-row update by one whose row agrees except in what was asked for.
LEMMA UpdateEdits ==
    ASSUME Shape, Edits, NEW r \in Reqs, pc[r] \in Reading, NEW row \in Row, NEW asked,
           Update(r, srv[r], row, asked), UNCHANGED <<srv, read, waited>>,
           "max_peers" \in asked \/ row.max_peers = read[r][srv[r]].max_peers,
           "is_active" \in asked \/ row.is_active = read[r][srv[r]].is_active
    PROVE  Edits'
<1> DEFINE s   == srv[r]
           new == [row EXCEPT !.current_peers = rows[s].current_peers]
           int == [c \in DOMAIN intended[s] |->
                    IF c \in asked \/ r \in landed THEN new[c] ELSE intended[s][c]]
<1>0. s \in Servers
  BY DEF Shape, TypeOK
<1>1. CASE Exists(s)
  <2>1. rows[s] \in Row /\ rows[s].current_peers \in Count /\ intended[s] \in Asked
    BY <1>0, <1>1, RowOf DEF Shape, Filled, Row
  <2>2. new \in Row /\ Agree(new, row)
    BY <2>1, WithCount DEF Agree
  <2>3. /\ rows' = [rows EXCEPT ![s] = new]
        /\ landed' = (landed \cup Overtaken(r, s, DOMAIN new)) \ {r}
        /\ pc' = [pc EXCEPT ![r] = "flush"]
        /\ intended' = [intended EXCEPT ![s] = int]
    BY <1>1 DEF Update, Write, Goto
  <2>4. r \notin landed => Agree(read[r][s], intended[s])
    BY <1>0, <1>1 DEF Edits, AsIntended, ReadsCurrent, Agree
  <2>5. "max_peers" \in DOMAIN new
    BY <2>2 DEF Row
  <2> HIDE DEF new
  <2>6. Agree(new, int)
    BY <2>1, <2>2, <2>4 DEF Asked, Agree
  <2> HIDE DEF int
  <2>7. \A q \in Reqs \ {r} : pc[q] \in Reading /\ srv[q] = s => q \in landed'
    BY <2>3, <2>5 DEF Overtaken, Reading
  <2> HIDE DEF s
  <2>8. AsIntended'
    BY <1>0, <2>3, <2>6 DEF Edits, AsIntended, Exists, Shape, TypeOK
  <2>9. ReadsCurrent'
    BY <1>0, <2>3, <2>7 DEF Edits, ReadsCurrent, Exists, Shape, TypeOK, Reading
  <2> QED
    BY <2>8, <2>9 DEF Edits
<1>2. CASE ~Exists(s)
  BY <1>2 DEF Update, Goto, Edits, AsIntended, ReadsCurrent, Exists, Shape, TypeOK, Reading
<1> QED
  BY <1>1, <1>2

\* A row whose count alone changes.
LEMMA CountEdits ==
    ASSUME Shape, Edits, NEW s \in Servers, Exists(s), NEW n \in Count,
           rows' = [rows EXCEPT ![s] = [rows[s] EXCEPT !.current_peers = n]],
           \A q \in Reqs : pc'[q] \in Reading =>
                pc[q] \in Reading /\ (q \in landed => q \in landed') /\ UNCHANGED <<srv[q], read[q]>>,
           UNCHANGED intended
    PROVE  Edits'
<1>1. rows[s] \in Row
  BY RowOf DEF Shape
<1>2. \A t \in Servers : Exists(t)' => Exists(t) /\ Agree(rows'[t], rows[t])
  BY <1>1, WithCount DEF Exists, Agree, Shape, TypeOK
<1>3. AsIntended'
  BY <1>2 DEF Edits, AsIntended, Agree
<1>4. ReadsCurrent'
  BY <1>2 DEF Edits, ReadsCurrent, Agree, Shape, TypeOK
<1> QED
  BY <1>3, <1>4 DEF Edits

\* Counting down changes no capacity and no flag.
LEMMA DownEdits ==
    ASSUME Shape, Edits, NEW r \in Reqs, NEW s \in Servers, pc[r] \in {"release", "idle"},
           UpdatePeerCount(r, s),
           \A q \in Reqs \ {r} : UNCHANGED srv[q], UNCHANGED <<read, intended>>
    PROVE  Edits'
<1>1. CASE Exists(s)
  <2>1. rows[s] \in Row /\ rows[s].current_peers \in Count
    BY <1>1, RowOf DEF Shape, Row
  <2>2. PICK n \in Count : Down(rows[s]) = [rows[s] EXCEPT !.current_peers = n]
    BY <2>1, CountRange DEF Down
  <2>3. /\ rows' = [rows EXCEPT ![s] = Down(rows[s])]
        /\ landed \ {r} \subseteq landed' /\ pc' = [pc EXCEPT ![r] = "flush"]
    BY <1>1 DEF UpdatePeerCount, Write, Goto
  <2>4. \A q \in Reqs : pc'[q] \in Reading =>
                pc[q] \in Reading /\ (q \in landed => q \in landed') /\ UNCHANGED <<srv[q], read[q]>>
    BY <2>3 DEF Reading, Shape, TypeOK
  <2> QED
    BY <1>1, <2>2, <2>3, <2>4, CountEdits
<1>2. CASE ~Exists(s)
  BY <1>2 DEF UpdatePeerCount, Goto, Edits, AsIntended, ReadsCurrent, Exists, Shape, TypeOK,
     Reading
<1> QED
  BY <1>1, <1>2

\* A row just read is what the table has.
LEMMA FetchEdits ==
    ASSUME Shape, Edits, NEW r \in Reqs, NEW s \in Servers, NEW l \in Reading, Fetch(r, s, l)
    PROVE  Edits'
<1> DEFINE row == [rows[s] EXCEPT !.current_peers = 0]
<1>1. Agree(row, rows[s])
  BY RowOf, WithCount, CountRange DEF Fetch, Shape, Agree
<1>2. /\ read' = [read EXCEPT ![r] = [read[r] EXCEPT ![s] = row]]
      /\ srv' = [srv EXCEPT ![r] = s] /\ pc' = [pc EXCEPT ![r] = l]
      /\ UNCHANGED <<rows, landed, intended>>
  BY DEF Fetch, Goto
<1> HIDE DEF row
<1>3. read'[r][s] = row /\ \A q \in Reqs \ {r} : UNCHANGED <<read[q], srv[q], pc[q]>>
  BY <1>2 DEF Shape, TypeOK
<1> QED
  BY <1>1, <1>2, <1>3 DEF Edits, AsIntended, ReadsCurrent, Exists, Shape, TypeOK

\* Every step keeps what the administrator set.
LEMMA EditsStep ==
    ASSUME Shape, Edits, [Next]_vars
    PROVE  Edits'
<1>1. ASSUME NEW r \in Reqs, AdminCreateServer(r) PROVE Edits'
  <2>1. PICK s \in Servers, m \in Caps, k \in Keys :
          /\ rows[s] = Unborn
          /\ Write(r, s, [max_peers |-> m, is_active |-> TRUE, public_key |-> k,
                          current_peers |-> 0], {"id"}, "flush")
          /\ intended' = [intended EXCEPT ![s] = [max_peers |-> m, is_active |-> TRUE]]
          /\ srv' = [srv EXCEPT ![r] = s] /\ UNCHANGED read
    BY <1>1 DEF AdminCreateServer
  <2>2. \A q \in Reqs \ {r} : pc[q] \in Reading /\ srv[q] = s => q \in landed'
    BY <2>1 DEF Write, Overtaken, Reading
  <2>3. landed \ {r} \subseteq landed'
    BY <2>1 DEF Write
  <2>4. AsIntended'
    BY <2>1 DEF Write, Edits, AsIntended, Agree, Exists, Shape, TypeOK
  <2>5. ReadsCurrent'
    BY <2>1, <2>2, <2>3 DEF Write, Goto, Edits, ReadsCurrent, Exists, Shape, TypeOK, Reading
  <2> QED
    BY <2>4, <2>5 DEF Edits
<1>2. ASSUME NEW r \in Reqs, AdminFetch(r) PROVE Edits'
  BY <1>2, FetchEdits DEF AdminFetch, Reading
<1>3. ASSUME NEW r \in Reqs, AdminUpdateServer(r) PROVE Edits'
  <2>1. PICK given \in SUBSET {"max_peers", "is_active", "public_key"}, new \in Body :
            Update(r, srv[r], Edited(read[r][srv[r]], given, new), given)
    BY <1>3 DEF AdminUpdateServer
  <2>2. read[r][srv[r]] \in Row /\ pc[r] \in Reading /\ UNCHANGED <<srv, read, waited>>
    BY <1>3 DEF AdminUpdateServer, Shape, Filled, Reading
  <2>3. given \in SUBSET DOMAIN read[r][srv[r]]
    BY <2>2 DEF Row
  <2>4. /\ Edited(read[r][srv[r]], given, new) \in Row
        /\ "max_peers" \in given \/ Edited(read[r][srv[r]], given, new).max_peers = read[r][srv[r]].max_peers
        /\ "is_active" \in given \/ Edited(read[r][srv[r]], given, new).is_active = read[r][srv[r]].is_active
    BY <2>2, <2>3, EditedRow
  <2> QED
    BY <2>1, <2>2, <2>4, UpdateEdits
<1>4. ASSUME NEW r \in Reqs, AdminUpdateRefused(r) PROVE Edits'
  BY <1>4 DEF AdminUpdateRefused, Forget, Edits, AsIntended, ReadsCurrent, Agree, Exists, Shape,
     TypeOK, Reading, Goto
<1>5. ASSUME NEW r \in Reqs, AdminDeleteServer(r) PROVE Edits'
  <2>1. PICK s \in Servers : Write(r, s, Deleted, {"id"}, "flush") /\ srv' = [srv EXCEPT ![r] = s]
    BY <1>5 DEF AdminDeleteServer
  <2>2. landed \ {r} \subseteq landed' /\ UNCHANGED <<read, intended>>
    BY <1>5, <2>1 DEF AdminDeleteServer, Write
  <2> QED
    BY <2>1, <2>2 DEF Write, Goto, Edits, AsIntended, ReadsCurrent, Exists, Shape, TypeOK, Reading
<1>6. ASSUME NEW r \in Reqs, ConnectSelect(r) PROVE Edits'
  BY <1>6, FetchEdits DEF ConnectSelect, Reading
<1>7. ASSUME NEW r \in Reqs, ReserveSlot(r) PROVE Edits'
  <2>1. CASE HasSlot(srv[r])
    <3>1. rows[srv[r]] \in Row /\ srv[r] \in Servers /\ Exists(srv[r])
      BY <2>1, RowOf DEF HasSlot, Shape, TypeOK
    <3>2. rows[srv[r]].current_peers + 1 \in Count
      <4>1. /\ rows[srv[r]].current_peers \in Nat /\ rows[srv[r]].max_peers \in Caps
            /\ rows[srv[r]].max_peers \in Nat
        BY <3>1, CountRange, CapsAssumption DEF Row
      <4> QED
        BY <2>1, <4>1, CountRange DEF HasSlot
    <3>3. /\ rows' = [rows EXCEPT ![srv[r]] = [rows[srv[r]] EXCEPT !.current_peers = rows[srv[r]].current_peers + 1]]
          /\ pc' = [pc EXCEPT ![r] = "flushAdd"] /\ pc[r] = "reserve" /\ landed \subseteq landed'
          /\ UNCHANGED <<srv, read, intended>>
      BY <1>7, <2>1 DEF ReserveSlot, Write, AfterReserve, Goto
    <3>4. \A q \in Reqs : pc'[q] \in Reading =>
                pc[q] \in Reading /\ (q \in landed => q \in landed') /\ UNCHANGED <<srv[q], read[q]>>
      BY <3>3 DEF Reading, Shape, TypeOK
    <3> QED
      BY <3>1, <3>2, <3>3, <3>4, CountEdits
  <2>2. CASE ~HasSlot(srv[r])
    BY <1>7, <2>2 DEF ReserveSlot, Edits, AsIntended, ReadsCurrent, Agree, Exists, Shape,
       TypeOK, Reading, Goto
  <2> QED
    BY <2>1, <2>2
<1>8. ASSUME NEW r \in Reqs, AddPeer(r) PROVE Edits'
  BY <1>8 DEF AddPeer, Edits, AsIntended, ReadsCurrent, Agree, Exists, Shape, TypeOK, Reading,
     Goto
<1>9. ASSUME NEW r \in Reqs, ReleaseSlot(r) PROVE Edits'
  <2>1. /\ srv[r] \in Servers /\ UpdatePeerCount(r, srv[r]) /\ pc[r] = "release"
        /\ UNCHANGED <<srv, read, intended>>
    BY <1>9 DEF ReleaseSlot, Shape, TypeOK
  <2> QED
    BY <2>1, DownEdits
<1>10. ASSUME NEW r \in Reqs, SaveKey(r) PROVE Edits'
  <2>1. read[r][srv[r]] \in Row /\ pc[r] \in Reading /\ UNCHANGED <<srv, read, waited>>
    BY <1>10 DEF SaveKey, Shape, Filled, Reading
  <2>2. PICK k \in Keys : Update(r, srv[r], [read[r][srv[r]] EXCEPT !.public_key = k], {"public_key"})
    BY <1>10 DEF SaveKey
  <2> QED
    BY <2>1, <2>2, WithKey, UpdateEdits
<1>11. ASSUME NEW r \in Reqs, KeyKnown(r) PROVE Edits'
  BY <1>11 DEF KeyKnown, Forget, Edits, AsIntended, ReadsCurrent, Agree, Exists, Shape, TypeOK,
     Reading, Goto
<1>12. ASSUME NEW r \in Reqs, Disconnect(r) PROVE Edits'
  <2>1. PICK s \in Servers : UpdatePeerCount(r, s) /\ srv' = [srv EXCEPT ![r] = s]
    BY <1>12 DEF Disconnect
  <2>2. \A q \in Reqs \ {r} : UNCHANGED srv[q]
    BY <2>1 DEF Shape, TypeOK
  <2> QED
    BY <1>12, <2>1, <2>2, DownEdits DEF Disconnect
<1>13. ASSUME NEW r \in Reqs, ListQuery(r) PROVE Edits'
  BY <1>13 DEF ListQuery, Edits, AsIntended, ReadsCurrent, Agree, Exists, Shape, TypeOK,
     Reading, Goto
<1>14. ASSUME NEW r \in Reqs, ListFill(r) PROVE Edits'
  BY <1>14 DEF ListFill, Forget, Edits, AsIntended, ReadsCurrent, Agree, Exists, Shape, TypeOK,
     Reading, Goto
<1>15. ASSUME NEW r \in Reqs, InvalidateCache(r) PROVE Edits'
  BY <1>15 DEF InvalidateCache, Forget, Edits, AsIntended, ReadsCurrent, Agree, Exists, Shape,
     TypeOK, Reading, Goto
<1>16. CASE JobWrite
  <2>1. PICK s \in Servers, n \in Count : Exists(s) /\ rows' = [rows EXCEPT ![s].current_peers = n]
    BY <1>16 DEF JobWrite
  <2>2. rows' = [rows EXCEPT ![s] = [rows[s] EXCEPT !.current_peers = n]]
    BY <2>1
  <2>3. landed \subseteq landed' /\ UNCHANGED <<pc, srv, read, intended>>
    BY <1>16 DEF JobWrite
  <2> QED
    BY <2>1, <2>2, <2>3, CountEdits
<1>17. CASE Tick
  BY <1>17 DEF Tick, Edits, AsIntended, ReadsCurrent, Agree, Exists, Shape, TypeOK, Reading, Goto
<1>18. CASE UNCHANGED vars
  BY <1>18 DEF vars, Edits, AsIntended, ReadsCurrent, Agree, Exists, Shape, TypeOK, Reading, Goto
<1> QED
  BY <1>1, <1>2, <1>3, <1>4, <1>5, <1>6, <1>7, <1>8, <1>9, <1>10, <1>11, <1>12, <1>13, <1>14,
     <1>15, <1>16, <1>17, <1>18 DEF Next, Step

\* What an administrator set max_peers or is_active to stays until it is set
\* again, unless a whole-row write that read the row before another whole-row
\* write of it undoes it (handler.go:473-475, 1154).
THEOREM EditsSurviveHolds == Spec => []EditsSurvive
<1>1. Init => Edits
  BY DEF Init, NoRow, Edits, AsIntended, ReadsCurrent, Exists, Reading
<1>2. Shape /\ Edits => EditsSurvive
  BY DEF Shape, Filled, Edits, AsIntended, Agree, EditsSurvive, Asked
<1> QED
  BY <1>1, <1>2, EditsStep, ShapeInvariant, PTL DEF Spec
=============================================================================
