------------------------------ MODULE IPPool ------------------------------
(***************************************************************************)
(* internal/ippool/pool.go: the allocator behind wg.Manager.               *)
(*                                                                         *)
(* Every method holds p.mu, so a method that returns without looping is    *)
(* one action; Allocate's scan is one action per iteration, because        *)
(* whether it stops, and where, is what the hint `next' and the counter    *)
(* `count' have to get right.  Addresses are offsets (offsetToIP and       *)
(* ipToOffset add and subtract the base).                                  *)
(*                                                                         *)
(* Callers: Release gets an address the manager holds, so never the        *)
(* network or the gateway; Reserve gets whatever the device carries, an    *)
(* address of another subnet (ipToOffset fails) included.                  *)
(***************************************************************************)
EXTENDS Subnet, FiniteSets

VARIABLES bitset,       \* p.bitset, as the set of its set bits
          count,        \* p.count, the number of assigned offsets
          next,         \* p.next, where the next scan starts
          pc,           \* "idle", or "scan" while Allocate holds p.mu
          offset,       \* Allocate's loop variable (0 when idle)
          result        \* what the last call that returned has returned

vars == <<bitset, count, next, pc, offset, result>>

Init ==
    /\ bitset = Reserved
    /\ count = 2
    /\ next = 2
    /\ pc = "idle"
    /\ offset = 0
    /\ result = Answer("none")

usable == maxHost - 1
-----------------------------------------------------------------------------
\* A guard that counts the broadcast address as usable (off by one).
FullMutant == count > usable + 1

\* Allocate's early return.
Full == count > usable

AllocateFull ==
    /\ pc = "idle"
    /\ Full
    /\ result' = Answer("exhausted")
    /\ UNCHANGED <<bitset, count, next, pc, offset>>

AllocateStart ==
    /\ pc = "idle"
    /\ ~Full
    /\ pc' = "scan"
    /\ offset' = next
    /\ UNCHANGED <<bitset, result, count, next>>

\* The offset one iteration looks at: the scan wraps at the broadcast.
Wrapped(o) == IF o >= maxHost THEN 2 ELSE o

HintAfterAllocate(o) == o + 1

AllocateHit ==
    LET o == Wrapped(offset) IN
    /\ pc = "scan"
    /\ o \notin bitset
    /\ bitset' = bitset \cup {o}
    /\ count' = count + 1
    /\ next' = HintAfterAllocate(o)
    /\ pc' = "idle"
    /\ offset' = 0
    /\ result' = Granted(o)

\* A taken offset: go on, or give up when the scan is back at the hint.
AllocateMiss ==
    LET o == Wrapped(offset) IN
    /\ pc = "scan"
    /\ o \in bitset
    /\ IF o + 1 = next
       THEN /\ pc' = "idle"
            /\ offset' = 0
            /\ result' = Answer("exhausted")
       ELSE /\ offset' = o + 1
            /\ UNCHANGED <<pc, result>>
    /\ UNCHANGED <<bitset, count, next>>
-----------------------------------------------------------------------------
\* The hint not moved back to a freed offset below it.
HintAfterReleaseMutant(o) == next

HintAfterRelease(o) == IF o < next THEN o ELSE next

Release(o) ==
    /\ pc = "idle"
    /\ \/ /\ o \in bitset
          /\ bitset' = bitset \ {o}
          /\ count' = count - 1
          /\ next' = HintAfterRelease(o)
          /\ result' = Answer("ok")
       \/ /\ o \notin bitset
          /\ result' = Answer("notfound")
          /\ UNCHANGED <<bitset, count, next>>
    /\ UNCHANGED <<pc, offset>>

CountAfterReserve == count + 1

Reserve(o) ==
    /\ pc = "idle"
    /\ \/ /\ o \in Offsets \ bitset
          /\ bitset' = bitset \cup {o}
          /\ count' = CountAfterReserve
          /\ result' = Answer("ok")
       \/ /\ o \in bitset
          /\ result' = Answer("used")
          /\ UNCHANGED <<bitset, count>>
       \/ /\ o \notin Offsets
          /\ result' = Answer("outside")
          /\ UNCHANGED <<bitset, count>>
    /\ UNCHANGED <<next, pc, offset>>
-----------------------------------------------------------------------------
Next ==
    \/ AllocateFull
    \/ AllocateStart
    \/ AllocateHit
    \/ AllocateMiss
    \/ \E o \in Args \ Reserved : Release(o)
    \/ \E o \in Args : Reserve(o)

Spec == Init /\ [][Next]_vars

\* A method that has taken p.mu runs on: the scan's iterations are fair.
FairSpec == Spec /\ WF_vars(AllocateHit \/ AllocateMiss)
-----------------------------------------------------------------------------
\* Types of the fields of Pool and of Allocate's loop variable.
TypeOK ==
    /\ bitset \in SUBSET Offsets
    /\ result \in Result
    /\ count \in Nat
    /\ next \in 2 .. maxHost
    /\ pc \in {"idle", "scan"}
    /\ offset \in 0 .. maxHost

(***************************************************************************)
(* The counter agrees with the bitset and the two reserved bits stay set:  *)
(* the early return of Allocate (pool.go:64) trusts the counter alone.     *)
(***************************************************************************)
CountIsPopcount == count = Cardinality(bitset) /\ Reserved \subseteq bitset

(***************************************************************************)
(* No usable offset below the hint is free, so a scan that starts at the   *)
(* hint (pool.go:69) can skip nothing; while a scan runs the same holds of *)
(* every offset it has passed.                                             *)
(***************************************************************************)
NothingFreeBelowHint ==
    /\ \A o \in 2 .. next - 1 : o \in bitset
    /\ pc = "scan" => /\ next <= offset
                      /\ \A o \in 2 .. offset - 1 : o \in bitset

(***************************************************************************)
(* A scan that got past the counter test has a free offset ahead of it, at *)
(* or above its position: it never wraps, and the exhausted return inside  *)
(* the loop is never needed.  Without it the loop would spin for ever with *)
(* p.mu held when the hint is 2 and every offset is taken (pool.go:82).    *)
(***************************************************************************)
ScanHasTarget ==
    pc = "scan" => \E o \in Free(bitset) : o >= offset

(***************************************************************************)
(* Every call of Allocate returns: the mutex is never held for ever.       *)
(***************************************************************************)
AllocateReturns == pc = "scan" ~> pc = "idle"

(***************************************************************************)
(* The implementation is the abstract pool: whatever Allocate returns is   *)
(* the smallest free address, it refuses only a full pool, and Release and *)
(* Reserve change exactly the address they are given.  Starting and        *)
(* continuing a scan change nothing a caller can see.                      *)
(***************************************************************************)
AP == INSTANCE AddressPool WITH allocated <- bitset

ImplementsAddressPool == AP!Spec
=============================================================================
