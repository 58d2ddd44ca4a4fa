------------------------------- MODULE Subnet -------------------------------
(***************************************************************************)
(* The addresses of one VPN subnet and the answers of its address pool     *)
(* (internal/ippool/pool.go).                                              *)
(*                                                                         *)
(* An address is a host offset inside the subnet: 0 is the network, 1 the  *)
(* gateway, maxHost the broadcast address.                                 *)
(***************************************************************************)
EXTENDS Integers

CONSTANT maxHost        \* the last offset, 2^(32 - prefix length) - 1

\* At least a /30; New accepts a /31 and a /32 too, which have no usable host.
ASSUME MaxHostAssumption == maxHost \in Nat /\ maxHost >= 3

Offsets  == 0 .. maxHost
Reserved == {0, 1}                  \* marked once and for all by New
Args     == 0 .. maxHost + 1        \* what callers pass; the last is outside
Usable   == 2 .. maxHost - 1        \* what a client may be given

Status == {"none", "ok", "exhausted", "notfound", "used", "outside"}
Result == [status : Status, addr : Offsets]

\* The outcome of a call; only Allocate hands out an address.
Answer(s)  == [status |-> s, addr |-> 0]
Granted(o) == [status |-> "ok", addr |-> o]

\* The usable addresses nobody holds when the set in use is A.
Free(A) == Usable \ A

\* o is the smallest free address when the set in use is A.
IsLowestFree(o, A) == o \in Free(A) /\ \A f \in Free(A) : o <= f
=============================================================================
