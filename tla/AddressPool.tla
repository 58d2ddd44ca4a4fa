---------------------------- MODULE AddressPool ----------------------------
(***************************************************************************)
(* What the host-address pool of one VPN subnet promises its callers,      *)
(* independently of the bitset, the counter and the scan hint that         *)
(* IPPool.tla (internal/ippool/pool.go) implements it with.                *)
(***************************************************************************)
EXTENDS Subnet

VARIABLES allocated,    \* the offsets in use
          result        \* what the last call that returned has returned

vars == <<allocated, result>>

Init ==
    /\ allocated = Reserved
    /\ result = Answer("none")

\* The smallest free address is handed out.
Allocate ==
    \E o \in Usable :
        /\ IsLowestFree(o, allocated)
        /\ allocated' = allocated \cup {o}
        /\ result' = Granted(o)

(***************************************************************************)
(* The pool refuses when nothing is free; a reserved broadcast address     *)
(* costs it the last free one, because the counter does not tell the two   *)
(* apart.                                                                  *)
(***************************************************************************)
Refuse ==
    /\ \A f, g \in Free(allocated) : f = g
    /\ Free(allocated) # {} => maxHost \in allocated
    /\ result' = Answer("exhausted")
    /\ UNCHANGED allocated

Release(o) ==
    \/ /\ o \in allocated
       /\ allocated' = allocated \ {o}
       /\ result' = Answer("ok")
    \/ /\ o \notin allocated
       /\ result' = Answer("notfound")
       /\ UNCHANGED allocated

Reserve(o) ==
    \/ /\ o \in Offsets \ allocated
       /\ allocated' = allocated \cup {o}
       /\ result' = Answer("ok")
    \/ /\ o \in allocated
       /\ result' = Answer("used")
       /\ UNCHANGED allocated
    \/ /\ o \notin Offsets
       /\ result' = Answer("outside")
       /\ UNCHANGED allocated

Next ==
    \/ Allocate
    \/ Refuse
    \/ \E o \in Args \ Reserved : Release(o)
    \/ \E o \in Args : Reserve(o)

Spec == Init /\ [][Next]_vars
=============================================================================
