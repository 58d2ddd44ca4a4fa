---------------------------- MODULE ServerAdmin ----------------------------
(***************************************************************************)
(* The vpn_servers table and everybody who writes it: the administrator's  *)
(* handlers, Connect (ReserveSlot, the release of the slot, and the write- *)
(* back of the row when the core reports another public key), Disconnect,  *)
(* and the background jobs; and the list of active servers that            *)
(* internal/repo/server.go caches in front of it.                          *)
(*                                                                         *)
(* One action per SQL statement: nothing locks between two of them.  Every *)
(* writing method of ServerRepo defers InvalidateCache, a second step      *)
(* after the statement ("flush").  The jobs have ServerRepos of their own, *)
(* whose invalidation never reaches the handlers' cache.  AdminUpdateServer*)
(* and Connect write back a whole row they read before.  A request starts  *)
(* over when it is done.                                                   *)
(*                                                                         *)
(* Of a row the columns are kept that differ in who writes them: max_peers *)
(* and is_active (the administrator), public_key (the administrator and    *)
(* Connect), current_peers (not in Update's SET).  Times count ticks.      *)
(***************************************************************************)
EXTENDS Integers, FiniteSets

CONSTANTS Servers, Reqs, Keys,
          Caps,             \* values of max_peers
          TTL,              \* cacheTTL
          MaxQuery,         \* how long the query of ListActive may take
          Unborn, Deleted   \* ids without a row; an id is never used again

ASSUME TimeAssumption == TTL \in Nat \ {0} /\ MaxQuery \in Nat
ASSUME CapsAssumption == Caps \subseteq Nat /\ \E m \in Caps : \A n \in Caps : n <= m

VARIABLES rows,         \* vpn_servers
          cached,       \* cachedActive: the rows by id; {} if nil or out of date
          age,          \* time since cacheTime
          pc, srv,      \* per request: where it is and on which server
          read,         \* per request: the rows it has read
          waited,       \* per request: how long its list query has taken
          landed,       \* ghost: requests whose read a later write overtook
          tainted,      \* ghost: the cached list was overtaken when it was
                        \*        stored, or a job has written since
          born,         \* ghost: time since the cached list was queried
          intended      \* ghost: what the administrator last asked for

vars == <<rows, cached, age, pc, srv, read, waited, landed, tainted, born, intended>>
cache == <<cached, age, tainted, born>>

Count == 0 .. (CHOOSE m \in Caps : \A n \in Caps : n <= m)
Row   == [max_peers : Caps, is_active : BOOLEAN, public_key : Keys,
          current_peers : Count]
Body  == {row \in Row : row.current_peers = 0}
ASSUME NoRowAssumption == Unborn # Deleted /\ {Unborn, Deleted} \cap Row = {} /\ Servers # {}

NoRow == [s \in Servers |-> Unborn]
Exists(s) == rows[s] \notin {Unborn, Deleted}

Init ==
    /\ rows = NoRow
    /\ cached = {} /\ age = 0
    /\ pc = [r \in Reqs |-> "idle"]
    /\ srv = [r \in Reqs |-> CHOOSE s \in Servers : TRUE]
    /\ read = [r \in Reqs |-> NoRow]
    /\ waited = [r \in Reqs |-> 0]
    /\ landed = {} /\ tainted = FALSE /\ born = 0
    /\ intended = NoRow

Goto(r, l) == pc' = [pc EXCEPT ![r] = l]

\* A request that is done forgets what it has read.
Forget(r) ==
    /\ srv' = [srv EXCEPT ![r] = CHOOSE s \in Servers : TRUE]
    /\ read' = [read EXCEPT ![r] = NoRow]
    /\ waited' = [waited EXCEPT ![r] = 0]
-----------------------------------------------------------------------------
\* WHERE is_active = TRUE.
ActiveRows ==
    [s \in Servers |-> IF Exists(s) /\ rows[s].is_active THEN rows[s] ELSE Unborn]

Usable == cached # {}

\* cacheTime is zero or too old: the list it dates is never served again.
OutOfDate == cached' = {} /\ age' = 0 /\ tainted' = FALSE /\ born' = 0

\* Those whose read is overtaken by a write of the columns cols of a row of s.
Overtaken(r, s, cols) ==
    {q \in Reqs \ {r} :
        \/ pc[q] = "fill"
        \/ pc[q] \in {"edit", "reserve", "flushAdd", "add", "stats"}
           /\ srv[q] = s /\ cols # {"current_peers"}}

\* A statement that makes row the row of s, on its way to InvalidateCache.
Write(r, s, row, cols, l) ==
    /\ rows' = [rows EXCEPT ![s] = row]
    /\ landed' = (landed \cup Overtaken(r, s, cols)) \ (IF l = "flush" THEN {r} ELSE {})
    /\ Goto(r, l)
    /\ UNCHANGED cache

\* Update: the whole row except current_peers; no effect if it is gone.
Update(r, s, row, asked) ==
    LET new == [row EXCEPT !.current_peers = rows[s].current_peers] IN
    IF Exists(s)
    THEN /\ Write(r, s, new, DOMAIN new, "flush")
         /\ intended' = [intended EXCEPT ![s] =
                [c \in DOMAIN @ |-> IF c \in asked \/ r \in landed THEN new[c] ELSE @[c]]]
    ELSE /\ Goto(r, "flush") /\ landed' = landed \ {r}
         /\ UNCHANGED <<rows, cache, intended>>

\* UpdatePeerCount(-1).
Down(row) == [row EXCEPT !.current_peers = IF @ > 0 THEN @ - 1 ELSE 0]

UpdatePeerCount(r, s) ==
    IF Exists(s)
    THEN Write(r, s, Down(rows[s]), {"current_peers"}, "flush")
    ELSE /\ Goto(r, "flush") /\ landed' = landed \ {r}
         /\ UNCHANGED <<rows, cache>>

InvalidateCache(r) ==
    /\ pc[r] \in {"flush", "flushAdd"}
    /\ OutOfDate
    /\ IF pc[r] = "flush" THEN Goto(r, "idle") /\ Forget(r)
       ELSE Goto(r, "add") /\ UNCHANGED <<srv, read, waited>>
    /\ UNCHANGED <<rows, landed, intended>>
-----------------------------------------------------------------------------
(***************************************************************************)
(* The administrator.                                                      *)
(***************************************************************************)
AdminCreateServer(r) ==
    /\ pc[r] = "idle"
    /\ \E s \in Servers, m \in Caps, k \in Keys :
        /\ rows[s] = Unborn
        /\ Write(r, s, [max_peers |-> m, is_active |-> TRUE, public_key |-> k,
                        current_peers |-> 0], {"id"}, "flush")
        /\ intended' = [intended EXCEPT ![s] = [max_peers |-> m, is_active |-> TRUE]]
        /\ srv' = [srv EXCEPT ![r] = s]
    /\ UNCHANGED <<read, waited>>

\* GetByID; nothing that reads a row this way looks at its current_peers.
Fetch(r, s, l) ==
    /\ pc[r] = "idle" /\ Exists(s)
    /\ srv' = [srv EXCEPT ![r] = s]
    /\ read' = [read EXCEPT ![r] = [@ EXCEPT ![s] = [rows[s] EXCEPT !.current_peers = 0]]]
    /\ Goto(r, l)
    /\ UNCHANGED <<rows, cache, waited, landed, intended>>

AdminFetch(r) == \E s \in Servers : Fetch(r, s, "edit")

\* Every column is taken from the request, given or not.
EditedMutant(row, given, new) == new

\* Only the columns the request gives are replaced.
Edited(row, given, new) == [c \in DOMAIN row |-> IF c \in given THEN new[c] ELSE row[c]]

AdminUpdateServer(r) ==
    /\ pc[r] = "edit"
    /\ \E given \in SUBSET {"max_peers", "is_active", "public_key"}, new \in Body :
        Update(r, srv[r], Edited(read[r][srv[r]], given, new), given)
    /\ UNCHANGED <<srv, read, waited>>

\* A body that cannot be used.
AdminUpdateRefused(r) ==
    /\ pc[r] = "edit"
    /\ Goto(r, "idle") /\ Forget(r)
    /\ landed' = landed \ {r}
    /\ UNCHANGED <<rows, cache, intended>>

AdminDeleteServer(r) ==
    /\ pc[r] = "idle"
    /\ \E s \in Servers :
        /\ Exists(s)
        /\ Write(r, s, Deleted, {"id"}, "flush")
        /\ srv' = [srv EXCEPT ![r] = s]
    /\ UNCHANGED <<read, waited, intended>>
-----------------------------------------------------------------------------
(***************************************************************************)
(* Connect and Disconnect, as far as they concern the table.               *)
(***************************************************************************)
HasSlot(s) == Exists(s) /\ rows[s].is_active /\ rows[s].current_peers < rows[s].max_peers

\* LeastLoaded orders by current_peers / max_peers.
LeastLoaded(s) ==
    /\ HasSlot(s)
    /\ \A t \in Servers : HasSlot(t) =>
        rows[s].current_peers * rows[t].max_peers <= rows[t].current_peers * rows[s].max_peers

\* The server the client names, or the least loaded one.
ConnectSelect(r) ==
    \E s \in Servers, named \in BOOLEAN :
        (named \/ LeastLoaded(s)) /\ Fetch(r, s, "reserve")

\* A ReserveSlot that does not invalidate.
AfterReserveMutant == "add"

AfterReserve == "flushAdd"

ReserveSlot(r) ==
    /\ pc[r] = "reserve"
    /\ LET s == srv[r] IN
       IF HasSlot(s)
       THEN Write(r, s, [rows[s] EXCEPT !.current_peers = @ + 1], {"current_peers"}, AfterReserve)
       ELSE /\ Goto(r, "flush") /\ landed' = landed \ {r}
            /\ UNCHANGED <<rows, cache>>
    /\ UNCHANGED <<srv, read, waited, intended>>

\* CallCoreAddPeer and peerRepo.Create; the latter needs the server's row.
AddPeer(r) ==
    /\ pc[r] = "add"
    /\ \/ Exists(srv[r]) /\ Goto(r, "stats")
       \/ Goto(r, "release")
    /\ UNCHANGED <<rows, cache, srv, read, waited, landed, intended>>

ReleaseSlot(r) ==
    /\ pc[r] = "release"
    /\ UpdatePeerCount(r, srv[r])
    /\ UNCHANGED <<srv, read, waited, intended>>

\* CallCoreServerStats; a new public key is saved with the row read before.
SaveKey(r) ==
    /\ pc[r] = "stats"
    /\ LET row == read[r][srv[r]] IN
       \E k \in Keys \ {row.public_key} :
           Update(r, srv[r], [row EXCEPT !.public_key = k], {"public_key"})
    /\ UNCHANGED <<srv, read, waited>>

\* The core does not answer, or with the key that is known.
KeyKnown(r) ==
    /\ pc[r] = "stats"
    /\ Goto(r, "idle") /\ Forget(r)
    /\ landed' = landed \ {r}
    /\ UNCHANGED <<rows, cache, intended>>

\* Disconnect and its like: the connection's slot is given back.
Disconnect(r) ==
    /\ pc[r] = "idle"
    /\ \E s \in Servers :
        /\ Exists(s) /\ rows[s].current_peers > 0
        /\ UpdatePeerCount(r, s)
        /\ srv' = [srv EXCEPT ![r] = s]
    /\ UNCHANGED <<read, waited, intended>>
-----------------------------------------------------------------------------
(***************************************************************************)
(* ListActive.  A usable cache is answered without a step; else the query, *)
(* and when its rows have arrived, the cache.                              *)
(***************************************************************************)
ListQuery(r) ==
    /\ pc[r] = "idle" /\ ~Usable
    /\ read' = [read EXCEPT ![r] = ActiveRows]
    /\ waited' = [waited EXCEPT ![r] = 0]
    /\ Goto(r, "fill")
    /\ UNCHANGED <<rows, cache, srv, landed, intended>>

ListFill(r) ==
    /\ pc[r] = "fill"
    /\ cached' = {read[r]} /\ age' = 0
    /\ born' = waited[r] /\ tainted' = (r \in landed)
    /\ landed' = landed \ {r}
    /\ Goto(r, "idle") /\ Forget(r)
    /\ UNCHANGED <<rows, intended>>

\* stats-sync sets the count, peer-cleanup takes one off: through repositories
\* of their own.
JobWrite ==
    \E s \in Servers, n \in Count :
        /\ Exists(s)
        /\ rows' = [rows EXCEPT ![s].current_peers = n]
        /\ landed' = landed \cup {q \in Reqs : pc[q] = "fill"}
        /\ tainted' = Usable
        /\ UNCHANGED <<cached, age, born, pc, srv, read, waited, intended>>

\* A cache whose hits renew it.
AgedMutant == age' = age /\ born' = born + 1 /\ UNCHANGED <<cached, tainted>>

Aged ==
    IF age + 1 >= TTL THEN OutOfDate
    ELSE age' = age + 1 /\ born' = born + 1 /\ UNCHANGED <<cached, tainted>>

Tick ==
    /\ \A r \in Reqs : waited[r] < MaxQuery
    /\ waited' = [r \in Reqs |-> IF pc[r] = "fill" THEN waited[r] + 1 ELSE 0]
    /\ IF Usable THEN Aged ELSE UNCHANGED cache
    /\ UNCHANGED <<rows, pc, srv, read, landed, intended>>

Step(r) ==
    \/ AdminCreateServer(r) \/ AdminFetch(r) \/ AdminUpdateServer(r)
    \/ AdminUpdateRefused(r) \/ AdminDeleteServer(r)
    \/ ConnectSelect(r) \/ ReserveSlot(r) \/ AddPeer(r) \/ ReleaseSlot(r)
    \/ SaveKey(r) \/ KeyKnown(r) \/ Disconnect(r)
    \/ ListQuery(r) \/ ListFill(r) \/ InvalidateCache(r)

Next == (\E r \in Reqs : Step(r)) \/ JobWrite \/ Tick

Spec == Init /\ [][Next]_vars
-----------------------------------------------------------------------------
(***************************************************************************)
(* A list served from the cache is the table's, unless a write has not yet *)
(* reached its InvalidateCache, a write overtook the query the list comes  *)
(* from (server.go:76-107), or a job has written past this cache.          *)
(***************************************************************************)
CacheTruthful ==
    Usable /\ ~tainted /\ (\A r \in Reqs : pc[r] \notin {"flush", "flushAdd"})
        => cached = {ActiveRows}

(***************************************************************************)
(* Whatever overtook it, a list that is served was queried less than the   *)
(* cache's life time and one query ago (server.go:73-79, 101-106).         *)
(***************************************************************************)
ServedFresh == Usable => born < TTL + MaxQuery

(***************************************************************************)
(* What an administrator set max_peers or is_active to stays until it is   *)
(* set again, through every Connect and every edit of other columns; only  *)
(* a whole-row write that read the row before another whole-row write of   *)
(* it may undo it (handler.go:473-475, 1154).                              *)
(***************************************************************************)
EditsSurvive ==
    \A s \in Servers : Exists(s) =>
        \A c \in DOMAIN intended[s] : rows[s][c] = intended[s][c]
=============================================================================
