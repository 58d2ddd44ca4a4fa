----------------------------- MODULE ExitNodes -----------------------------
(***************************************************************************)
(* Exit nodes: exit_node_handler.go and repo/exit_node.go over the columns *)
(* migrations 16 and 17 add to mesh_members, and the table user_exit_node. *)
(*                                                                         *)
(* A member row may announce a proxy (Register, Deregister).  A user's     *)
(* selection is a copy of a mesh address and a scheme, not a reference to  *)
(* the row: rows that go or change leave it as it is, and the address may  *)
(* be another user's by then.  SetExitNode checks the request against      *)
(* ListExitNodes and stores it in a second statement.                      *)
(*                                                                         *)
(* A user has at most one member row here, in a mesh shared with others    *)
(* (memberships from before joining was abolished) or in their own; how    *)
(* rows come and go is MeshSession.tla's subject, so here they just do.  A *)
(* registration's port is part of its scheme; supports_tcp is required.    *)
(***************************************************************************)
EXTENDS Integers, FiniteSets

CONSTANTS Users, Addrs,
          Callers,          \* users who select an exit and use the proxy (the bound)
          NoMember, NoSel

ASSUME CallerAssumption == Callers \subseteq Users

VARIABLES member,       \* mesh_members
          sel,          \* user_exit_node
          pick,         \* SetExitNode between its listing and its writing
          moved,        \* ghost: users whose selection rests on a row that has
                        \*        changed since, or is older than the check
          late          \* ghost: the same for what SetExitNode has picked

exitVars == <<member, sel, pick, moved, late>>

Schemes   == {"socks5", "http-connect"}
Selection == [addr : Addrs, scheme : Schemes]

\* What a row announces: nothing (is_exit_node is false), or a proxy of one of
\* the schemes; "socks5-tcp" is socks5 without supports_udp.
Offers == {"none", "http-connect", "socks5-tcp", "socks5"}
Scheme(offer) == IF offer = "http-connect" THEN "http-connect" ELSE "socks5"

Joined(shared, a) == [shared |-> shared, addr |-> a, offer |-> "none"]

\* Rows of the shared mesh may be there, and selections made before the
\* migration, which gave them the scheme "http-connect".
ExitInit ==
    /\ \E M \in SUBSET Users : \E a \in [M -> Addrs] :
        /\ \A u, v \in M : a[u] = a[v] => u = v
        /\ member = [u \in Users |-> IF u \in M THEN Joined(TRUE, a[u]) ELSE NoMember]
    /\ \E old \in [Callers -> {NoSel} \cup [addr : Addrs, scheme : {"http-connect"}]] :
        sel = [u \in Users |-> IF u \in Callers THEN old[u] ELSE NoSel]
    /\ pick = [u \in Users |-> NoSel]
    /\ moved = {u \in Users : sel[u] # NoSel}
    /\ late = {}

IsMember(u) == member[u] # NoMember
Visible(u, n) == u = n \/ (member[u].shared /\ member[n].shared)
-----------------------------------------------------------------------------
\* The WHERE clause of ListExitNodes; a port is set exactly while is_exit_node.
FullTunnel(n) == member[n].offer = "socks5"

ListExitNodes(u) ==
    {n \in Users : IsMember(u) /\ IsMember(n) /\ Visible(u, n) /\ FullTunnel(n)}

\* The users whose selection (sel or pick) rests on the row of n.
Resting(n, choice) ==
    {u \in Users : choice[u] # NoSel /\ (u = n \/ choice[u].addr = member[n].addr)}

\* The row of n becomes row.
Change(n, row) ==
    /\ member' = [member EXCEPT ![n] = row]
    /\ IF IsMember(n)
       THEN moved' = moved \cup Resting(n, sel) /\ late' = late \cup Resting(n, pick)
       ELSE UNCHANGED <<moved, late>>
    /\ UNCHANGED <<sel, pick>>

Activate(n) ==
    /\ ~IsMember(n)
    /\ \E a \in Addrs :
        /\ \A u \in Users : IsMember(u) => member[u].addr # a
        /\ Change(n, Joined(FALSE, a))

Leave(n) == IsMember(n) /\ Change(n, NoMember)

RegisterExitNode(n) ==
    /\ IsMember(n)
    /\ \E o \in Offers \ {"none"} : Change(n, [member[n] EXCEPT !.offer = o])

DeregisterExitNode(n) ==
    /\ IsMember(n)
    /\ Change(n, [member[n] EXCEPT !.offer = "none"])

\* A comparison that forgets the scheme.
MatchesMutant(n, req) == member[n].addr = req.addr

Matches(n, req) == member[n].addr = req.addr /\ Scheme(member[n].offer) = req.scheme

\* SetExitNode up to its verdict; a refused one changes nothing.
SetExitNode(u) ==
    /\ u \in Callers /\ pick[u] = NoSel
    /\ \E req \in Selection :
        /\ \E n \in ListExitNodes(u) : Matches(n, req)
        /\ pick' = [pick EXCEPT ![u] = req]
    /\ UNCHANGED <<member, sel, moved, late>>

SetUserExitNode(u) ==
    /\ pick[u] # NoSel
    /\ sel' = [sel EXCEPT ![u] = pick[u]]
    /\ pick' = [pick EXCEPT ![u] = NoSel]
    /\ moved' = IF u \in late THEN moved \cup {u} ELSE moved \ {u}
    /\ late' = late \ {u}
    /\ UNCHANGED member

ClearExitNode(u) ==
    /\ sel[u] # NoSel
    /\ sel' = [sel EXCEPT ![u] = NoSel]
    /\ moved' = moved \ {u}
    /\ UNCHANGED <<member, pick, late>>

ExitStep(u) ==
    \/ Activate(u) \/ Leave(u)
    \/ RegisterExitNode(u) \/ DeregisterExitNode(u)
    \/ SetExitNode(u) \/ SetUserExitNode(u) \/ ClearExitNode(u)
-----------------------------------------------------------------------------
(***************************************************************************)
(* A selection names a full-tunnel exit its user may use, with the scheme  *)
(* that exit speaks, unless the node's row changed after it was checked    *)
(* (exit_node_handler.go:160-178) or the selection is older than the       *)
(* check.                                                                  *)
(***************************************************************************)
SelectionSound ==
    \A u \in Users : sel[u] # NoSel /\ u \notin moved =>
        \E n \in ListExitNodes(u) :
            member[n].addr = sel[u].addr /\ Scheme(member[n].offer) = sel[u].scheme
=============================================================================
