---------------------------- MODULE IPPoolProofs ----------------------------
(***************************************************************************)
(* Proofs about IPPool for every subnet size.                              *)
(*                                                                         *)
(* The inductive invariant is IInv.  ScanHasTarget is not inductive by     *)
(* itself: that a scan has a free offset ahead of it follows, when the     *)
(* scan starts, from the counter (CountIsPopcount) and from the fact that  *)
(* nothing below the hint is free (NothingFreeBelowHint).                  *)
(***************************************************************************)
EXTENDS IPPool, FiniteSetTheorems, TLAPS

IInv ==
    /\ TypeOK
    /\ CountIsPopcount
    /\ NothingFreeBelowHint
    /\ ScanHasTarget

\* Sets of offsets are finite; the whole network has maxHost + 1 of them.
LEMMA OffsetsFinite ==
    ASSUME NEW A \in SUBSET Offsets
    PROVE  /\ IsFiniteSet(A)
           /\ Cardinality(A) \in Nat
           /\ IsFiniteSet(Offsets)
           /\ Cardinality(Offsets) = maxHost + 1
<1>1. IsFiniteSet(Offsets) /\ Cardinality(Offsets) = maxHost + 1
  BY FS_Interval, MaxHostAssumption DEF Offsets
<1>2. IsFiniteSet(A)
  BY <1>1, FS_Subset
<1> QED
  BY <1>1, <1>2, FS_CardinalityType

\* A set of offsets without two different ones has at most maxHost - 1 members.
LEMMA TwoMissing ==
    ASSUME NEW A \in SUBSET Offsets,
           NEW a \in Offsets \ A, NEW b \in Offsets \ A, a # b
    PROVE  Cardinality(A) <= maxHost - 1
<1> DEFINE B == Offsets \ {a}
           C == B \ {b}
<1>1. /\ IsFiniteSet(Offsets) /\ Cardinality(Offsets) = maxHost + 1
      /\ Cardinality(A) \in Nat
  BY OffsetsFinite
<1>2. IsFiniteSet(B) /\ Cardinality(B) = maxHost
  <2>1. IsFiniteSet(B) /\ Cardinality(B) = Cardinality(Offsets) - 1
    BY <1>1, FS_RemoveElement
  <2> QED
    BY <1>1, <2>1, MaxHostAssumption
<1>3. IsFiniteSet(C) /\ Cardinality(C) = maxHost - 1
  BY <1>2, FS_RemoveElement, MaxHostAssumption
<1>4. A \subseteq C
  OBVIOUS
<1> QED
  BY <1>3, <1>4, <1>1, FS_Subset, MaxHostAssumption

\* A set of offsets below the limit Full tests leaves a usable one free.
LEMMA NotFullHasFree ==
    ASSUME NEW A \in SUBSET Offsets, Reserved \subseteq A,
           Cardinality(A) <= usable
    PROVE  Free(A) # {}
<1> SUFFICES ASSUME Free(A) = {} PROVE FALSE
  OBVIOUS
<1> DEFINE B == 0 .. maxHost - 1
<1>1. B \subseteq A
  BY MaxHostAssumption DEF Free, Usable, Reserved
<1>2. Cardinality(B) = maxHost
  BY FS_Interval, MaxHostAssumption
<1>3. Cardinality(B) <= Cardinality(A)
  BY <1>1, OffsetsFinite, FS_Subset
<1> QED
  BY <1>2, <1>3, OffsetsFinite, MaxHostAssumption DEF usable

\* New establishes the invariant.
LEMMA InitIInv == Init => IInv
<1> SUFFICES ASSUME Init PROVE IInv
  OBVIOUS
<1>1. Cardinality({0, 1}) = 2
  <2>1. IsFiniteSet({0}) /\ Cardinality({0}) = 1
    BY FS_Singleton
  <2>2. {0, 1} = {0} \cup {1}
    OBVIOUS
  <2> QED
    BY <2>1, <2>2, FS_AddElement
<1>2. TypeOK
  BY MaxHostAssumption
     DEF Init, TypeOK, Offsets, Reserved, Result, Status, Answer
<1>3. CountIsPopcount
  BY <1>1 DEF Init, CountIsPopcount, Reserved
<1>4. NothingFreeBelowHint /\ ScanHasTarget
  BY DEF Init, NothingFreeBelowHint, ScanHasTarget
<1> QED
  BY <1>2, <1>3, <1>4 DEF IInv

\* While the scan runs it stands on a usable offset: it never wraps.
LEMMA ScanInRange ==
    ASSUME IInv, pc = "scan"
    PROVE  /\ offset \in Usable /\ Wrapped(offset) = offset
           /\ next <= offset /\ next >= 2
BY MaxHostAssumption
   DEF IInv, TypeOK, ScanHasTarget, NothingFreeBelowHint, Free, Usable, Wrapped

\* Adding an offset moves the cardinality by one.
LEMMA OneMore ==
    ASSUME NEW A \in SUBSET Offsets, NEW o \in Offsets \ A
    PROVE  Cardinality(A \cup {o}) = Cardinality(A) + 1
BY OffsetsFinite, FS_AddElement

\* Removing an offset moves the cardinality by one.
LEMMA OneLess ==
    ASSUME NEW A \in SUBSET Offsets, NEW o \in A
    PROVE  Cardinality(A \ {o}) = Cardinality(A) - 1
BY OffsetsFinite, FS_RemoveElement

\* A call that only answers leaves the invariant alone.
LEMMA AnswerOnly ==
    ASSUME IInv, NEW s \in Status, result' = Answer(s),
           UNCHANGED <<bitset, count, next, pc, offset>>
    PROVE  IInv'
<1>1. result' \in Result
  BY MaxHostAssumption DEF Result, Answer, Offsets
<1>2. TypeOK'
  BY <1>1 DEF IInv, TypeOK
<1> QED
  BY <1>2 DEF IInv, CountIsPopcount, NothingFreeBelowHint, ScanHasTarget

\* Every method, and every iteration of Allocate's scan, preserves IInv.
LEMMA NextIInv == IInv /\ [Next]_vars => IInv'
<1> SUFFICES ASSUME IInv, [Next]_vars PROVE IInv'
  OBVIOUS
<1> USE MaxHostAssumption
<1>1. CASE AllocateFull
  BY <1>1, AnswerOnly DEF AllocateFull, Status
<1>2. CASE AllocateStart
  <2>1. /\ bitset' = bitset /\ count' = count /\ next' = next
        /\ pc' = "scan" /\ offset' = next /\ result' = result
        /\ count <= usable
    BY <1>2 DEF AllocateStart, Full, IInv, TypeOK, usable
  <2>2. Free(bitset) # {}
    BY <2>1, NotFullHasFree DEF IInv, TypeOK, CountIsPopcount
  <2>3. PICK f \in Free(bitset) : TRUE
    BY <2>2
  <2>4. f >= next
    BY <2>3 DEF IInv, TypeOK, NothingFreeBelowHint, Free, Usable
  <2> QED
    BY <2>1, <2>3, <2>4
       DEF IInv, TypeOK, CountIsPopcount, NothingFreeBelowHint,
           ScanHasTarget, Free
<1>3. CASE AllocateHit
  <2>1. offset \in Usable /\ Wrapped(offset) = offset /\ next <= offset
    BY <1>3, ScanInRange DEF AllocateHit
  <2>2. /\ offset \notin bitset /\ offset \in Offsets
        /\ bitset' = bitset \cup {offset} /\ count' = count + 1
        /\ next' = offset + 1 /\ pc' = "idle" /\ offset' = 0
        /\ result' = Granted(offset) /\ pc = "scan"
    BY <1>3, <2>1 DEF AllocateHit, HintAfterAllocate, Usable, Offsets
  <2>3. TypeOK'
    BY <2>1, <2>2 DEF IInv, TypeOK, Granted, Result, Status, Offsets, Usable
  <2>4. CountIsPopcount'
    BY <2>2, OneMore DEF IInv, TypeOK, CountIsPopcount
  <2>5. NothingFreeBelowHint'
    BY <2>1, <2>2 DEF IInv, TypeOK, NothingFreeBelowHint, Usable
  <2>6. ScanHasTarget'
    BY <2>2 DEF ScanHasTarget
  <2> QED
    BY <2>3, <2>4, <2>5, <2>6 DEF IInv
<1>4. CASE AllocateMiss
  <2>1. offset \in Usable /\ Wrapped(offset) = offset /\ next <= offset
    BY <1>4, ScanInRange DEF AllocateMiss
  <2>2. offset + 1 # next
    BY <2>1 DEF Usable, IInv, TypeOK
  <2>3. /\ offset \in bitset /\ bitset' = bitset /\ count' = count
        /\ next' = next /\ pc' = pc /\ pc = "scan"
        /\ offset' = offset + 1 /\ result' = result
    BY <1>4, <2>1, <2>2 DEF AllocateMiss
  <2>4. TypeOK' /\ CountIsPopcount'
    BY <2>1, <2>3 DEF IInv, TypeOK, CountIsPopcount, Usable
  <2>5. NothingFreeBelowHint'
    BY <2>1, <2>3 DEF IInv, TypeOK, NothingFreeBelowHint, Usable
  <2>6. ScanHasTarget'
    BY <2>1, <2>3 DEF IInv, TypeOK, ScanHasTarget, Usable, Free
  <2> QED
    BY <2>4, <2>5, <2>6 DEF IInv
<1>5. ASSUME NEW o \in Args \ Reserved, Release(o) PROVE IInv'
  <2>1. CASE o \notin bitset
    BY <1>5, <2>1, AnswerOnly DEF Release, Status
  <2>2. CASE o \in bitset
    <3>1. /\ bitset' = bitset \ {o} /\ count' = count - 1
          /\ next' = HintAfterRelease(o) /\ pc' = "idle" /\ pc = "idle"
          /\ offset' = offset /\ result' = Answer("ok")
      BY <1>5, <2>2 DEF Release
    <3>2. o \in 2 .. maxHost /\ next \in 2 .. maxHost
      BY <2>2 DEF IInv, TypeOK, Offsets, Args, Reserved
    <3>3. CountIsPopcount'
      BY <3>1, <2>2, OneLess DEF IInv, TypeOK, CountIsPopcount, Reserved
    <3>4. TypeOK'
      <4>1. count' \in Nat
        BY <3>1, <3>3, OffsetsFinite DEF CountIsPopcount, IInv, TypeOK
      <4> QED
        BY <4>1, <3>1, <3>2
           DEF IInv, TypeOK, HintAfterRelease, Result, Status, Answer, Offsets
    <3>5. NothingFreeBelowHint' /\ ScanHasTarget'
      BY <3>1, <3>2
         DEF IInv, TypeOK, NothingFreeBelowHint, ScanHasTarget,
             HintAfterRelease
    <3> QED
      BY <3>3, <3>4, <3>5 DEF IInv
  <2> QED
    BY <2>1, <2>2
<1>6. ASSUME NEW o \in Args, Reserve(o) PROVE IInv'
  <2>1. CASE o \in Offsets \ bitset
    <3>1. /\ bitset' = bitset \cup {o} /\ count' = count + 1
          /\ next' = next /\ pc' = "idle" /\ pc = "idle"
          /\ offset' = offset /\ result' = Answer("ok")
      BY <1>6, <2>1 DEF Reserve, CountAfterReserve
    <3>2. CountIsPopcount'
      BY <3>1, <2>1, OneMore DEF IInv, TypeOK, CountIsPopcount
    <3> QED
      BY <3>1, <3>2, <2>1
         DEF IInv, TypeOK, NothingFreeBelowHint, ScanHasTarget, Result,
             Status, Answer, Offsets
  <2>2. CASE o \notin Offsets \ bitset
    BY <1>6, <2>2, AnswerOnly DEF Reserve, Status
  <2> QED
    BY <2>1, <2>2
<1>7. CASE UNCHANGED vars
  BY <1>7 DEF vars, IInv, TypeOK, CountIsPopcount, NothingFreeBelowHint,
              ScanHasTarget
<1> QED
  BY <1>1, <1>2, <1>3, <1>4, <1>5, <1>6, <1>7 DEF Next

(***************************************************************************)
(* In every reachable state of the pool the fields have their types, the   *)
(* counter equals the number of set bits, nothing below the hint is free   *)
(* and a running scan has a free offset ahead of it.                       *)
(***************************************************************************)
THEOREM PoolInvariant == Spec => []IInv
BY InitIInv, NextIInv, PTL DEF Spec

(***************************************************************************)
(* The fields of Pool keep their types; in particular the scan hint stays  *)
(* between the first usable offset and the broadcast address.              *)
(***************************************************************************)
THEOREM PoolTypeOK == Spec => []TypeOK
<1>1. IInv => TypeOK
  BY DEF IInv
<1> QED
  BY PoolInvariant, <1>1, PTL

(***************************************************************************)
(* Allocate's early return may trust the counter.                          *)
(***************************************************************************)
THEOREM PoolCount == Spec => []CountIsPopcount
<1>1. IInv => CountIsPopcount
  BY DEF IInv
<1> QED
  BY PoolInvariant, <1>1, PTL

(***************************************************************************)
(* A scan that started has something to find at or after its position, so  *)
(* Allocate's loop cannot spin with the mutex held.                        *)
(***************************************************************************)
THEOREM PoolScanHasTarget == Spec => []ScanHasTarget
<1>1. IInv => ScanHasTarget
  BY DEF IInv
<1> QED
  BY PoolInvariant, <1>1, PTL
-----------------------------------------------------------------------------
\* Initial states map to initial states.
LEMMA InitRefines == Init => AP!Init
BY DEF Init, AP!Init, Reserved, AP!Reserved, Answer, AP!Answer

\* Every step of the implementation is a step of the abstract pool or hidden.
LEMMA StepRefines == IInv /\ [Next]_vars => [AP!Next]_AP!vars
<1> SUFFICES ASSUME IInv, [Next]_vars PROVE [AP!Next]_AP!vars
  OBVIOUS
<1> USE MaxHostAssumption
<1>1. CASE AllocateFull
  <2>1. count > usable /\ bitset' = bitset /\ result' = Answer("exhausted")
    BY <1>1 DEF AllocateFull, Full
  <2>2. Cardinality(bitset) > maxHost - 1 /\ Cardinality(bitset) \in Nat
    BY <2>1, OffsetsFinite DEF usable, IInv, CountIsPopcount, TypeOK
  <2>3. \A f, g \in Offsets \ bitset : f = g
    BY <2>2, TwoMissing DEF IInv, TypeOK
  <2>4. AP!Free(bitset) \subseteq Offsets \ bitset
    BY DEF AP!Free, AP!Usable, Offsets
  <2>5. AP!Free(bitset) # {} => maxHost \in bitset
    BY <2>3, <2>4 DEF AP!Free, AP!Usable, Offsets
  <2>6. AP!Refuse
    BY <2>1, <2>3, <2>4, <2>5 DEF AP!Refuse, Answer, AP!Answer
  <2> QED
    BY <2>6 DEF AP!Next
<1>2. CASE AllocateStart
  BY <1>2 DEF AllocateStart, AP!vars
<1>3. CASE AllocateHit
  <2>1. offset \in Usable /\ Wrapped(offset) = offset
    BY <1>3, ScanInRange DEF AllocateHit
  <2>2. offset \notin bitset /\ bitset' = bitset \cup {offset}
        /\ result' = Granted(offset) /\ pc = "scan"
    BY <1>3, <2>1 DEF AllocateHit
  <2>3. AP!IsLowestFree(offset, bitset)
    BY <2>1, <2>2 DEF AP!IsLowestFree, AP!Free, AP!Usable, Usable,
                      IInv, TypeOK, NothingFreeBelowHint
  <2>4. AP!Allocate
    BY <2>1, <2>2, <2>3
       DEF AP!Allocate, AP!Usable, Usable, Granted, AP!Granted
  <2> QED
    BY <2>4 DEF AP!Next
<1>4. CASE AllocateMiss
  <2>1. offset \in Usable /\ Wrapped(offset) = offset /\ next <= offset
    BY <1>4, ScanInRange DEF AllocateMiss
  <2>2. offset + 1 # next
    BY <2>1 DEF Usable, IInv, TypeOK
  <2> QED
    BY <1>4, <2>1, <2>2 DEF AllocateMiss, AP!vars
<1>5. ASSUME NEW o \in Args \ Reserved, Release(o) PROVE [AP!Next]_AP!vars
  <2>1. AP!Release(o)
    BY <1>5 DEF Release, AP!Release, Answer, AP!Answer
  <2> QED
    BY <2>1 DEF AP!Next, Args, AP!Args, Reserved, AP!Reserved
<1>6. ASSUME NEW o \in Args, Reserve(o) PROVE [AP!Next]_AP!vars
  <2>1. AP!Reserve(o)
    BY <1>6 DEF Reserve, AP!Reserve, Answer, AP!Answer, Offsets, AP!Offsets
  <2> QED
    BY <2>1 DEF AP!Next, Args, AP!Args
<1>7. CASE UNCHANGED vars
  BY <1>7 DEF vars, AP!vars
<1> QED
  BY <1>1, <1>2, <1>3, <1>4, <1>5, <1>6, <1>7 DEF Next

(***************************************************************************)
(* The bitset allocator implements the abstract pool: Allocate hands out   *)
(* the smallest free address, never one in use, and refuses only a full    *)
(* pool, whatever the subnet size and the order of calls.                  *)
(***************************************************************************)
THEOREM PoolRefinement == Spec => ImplementsAddressPool
BY InitRefines, StepRefines, PoolInvariant, PTL
   DEF Spec, ImplementsAddressPool, AP!Spec
=============================================================================
