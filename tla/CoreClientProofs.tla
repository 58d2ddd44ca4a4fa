-------------------------- MODULE CoreClientProofs --------------------------
(***************************************************************************)
(* Proofs about the calls to a core and the circuit breaker before them,   *)
(* for every number of calls, keys, retries and every threshold.           *)
(*                                                                         *)
(* The breaker: the range of its counter and the agreement of counter and  *)
(* state are inductive together, because half-open keeps the counter at    *)
(* the threshold.  They hold in both modules that use the breaker:         *)
(* CoreClient and BreakerRecovery.                                         *)
(*                                                                         *)
(* The calls: of a call none of whose attempts went unanswered the core    *)
(* has at most the one attempt the call is waiting for (OneAttempt), so    *)
(* whatever the core did for it the call has been told (Told).  A call     *)
(* that has been told "ok" owns its key until somebody removes it (Owns),  *)
(* since AddPeer never replaces an owner.                                  *)
(***************************************************************************)
EXTENDS CoreClient, BreakerRecovery, TLAPS
-----------------------------------------------------------------------------
(***************************************************************************)
(* The breaker.                                                            *)
(***************************************************************************)
BreakerOK == BreakerTypeOK /\ BreakerConsistent

\* A breaker starts closed with no failure counted.
LEMMA BreakerStarts == BreakerInit => BreakerOK
BY ThresholdAssumption DEF BreakerInit, BreakerOK, BreakerTypeOK, BreakerConsistent

\* Each of its methods, and time, keeps state and counter in agreement.
LEMMA BreakerKeeps ==
    ASSUME BreakerOK,
           Allow \/ RecordSuccess \/ RecordFailure \/ TimePasses \/ UNCHANGED breaker
    PROVE  BreakerOK'
<1> USE ThresholdAssumption DEF BreakerOK, BreakerTypeOK, BreakerConsistent
<1>1. CASE Allow \/ UNCHANGED breaker
  BY <1>1 DEF Allow, breaker
<1>2. CASE RecordSuccess
  BY <1>2 DEF RecordSuccess
<1>3. CASE RecordFailure
  <2>1. failures' = CountedUp /\ CountedUp \in 0 .. Threshold /\ elapsed' = FALSE
    BY <1>3 DEF RecordFailure, CountedUp
  <2>2. CASE failures' >= Threshold
    <3>1. state' = "open"
      BY <1>3, <2>2 DEF RecordFailure
    <3>2. ~(failures' < Threshold)
      BY <2>1, <2>2
    <3> QED
      BY <2>1, <3>1, <3>2
  <2>3. CASE ~(failures' >= Threshold)
    <3>1. state' = state
      BY <1>3, <2>3 DEF RecordFailure
    <3>2. failures' < Threshold /\ failures < Threshold
      BY <2>1, <2>3 DEF CountedUp
    <3> QED
      BY <2>1, <3>1, <3>2
  <2> QED
    BY <2>2, <2>3
<1>4. CASE TimePasses
  BY <1>4 DEF TimePasses
<1> QED
  BY <1>1, <1>2, <1>3, <1>4

Trials == BreakerOK /\ good \in Nat /\ doomed \in Nat

\* Attempts are counted in the natural numbers, and the breaker stays sound.
LEMMA TrialsInvariant == RecoverySpec => []Trials
<1>1. RecoveryInit => Trials
  BY BreakerStarts DEF RecoveryInit, Trials
<1>2. ASSUME Trials, [RecoveryNext]_recoveryVars PROVE Trials'
  <2>1. BreakerOK'
    <3>1. Allow \/ RecordSuccess \/ RecordFailure \/ TimePasses \/ UNCHANGED breaker
      BY <1>2
      DEF RecoveryNext, Attempt, Succeed, Fail, CoreChanges, Elapse, recoveryVars
    <3> QED
      BY <1>2, <3>1, BreakerKeeps DEF Trials
  <2>2. good' \in Nat /\ doomed' \in Nat
    BY <1>2 DEF Trials, RecoveryNext, Attempt, Succeed, Fail, CoreChanges, Elapse, recoveryVars
  <2> QED
    BY <2>1, <2>2 DEF Trials
<1> QED
  BY <1>1, <1>2, PTL DEF RecoverySpec

\* Closed means below the threshold, open and half-open at the threshold, in
\* every interleaving of attempts (circuitBreaker's three methods).
THEOREM BreakerIsConsistent == RecoverySpec => []BreakerConsistent
<1>1. Trials => BreakerConsistent
  BY DEF Trials, BreakerOK
<1> QED
  BY <1>1, TrialsInvariant, PTL

\* One failure during a half-open trial opens the breaker again.
THEOREM TrialReopens == RecoverySpec => TrialFailureReopens
<1>1. ASSUME Trials, [RecoveryNext]_recoveryVars
      PROVE  [state = "half-open" /\ doomed' < doomed => state' = "open"]_recoveryVars
  <2> SUFFICES ASSUME state = "half-open", doomed' < doomed, RecoveryNext
               PROVE  state' = "open"
    BY <1>1
  <2> USE <1>1, ThresholdAssumption
      DEF Trials, BreakerOK, BreakerTypeOK, BreakerConsistent
  <2>1. CASE Fail
    BY <2>1 DEF Fail, RecordFailure, CountedUp
  <2>2. ~(Attempt \/ Succeed \/ CoreChanges \/ Elapse)
    BY DEF Attempt, Succeed, CoreChanges, Elapse
  <2> QED
    BY <2>1, <2>2 DEF RecoveryNext
<1> QED
  BY <1>1, TrialsInvariant, PTL DEF RecoverySpec, TrialFailureReopens
-----------------------------------------------------------------------------
(***************************************************************************)
(* The calls.                                                              *)
(***************************************************************************)
\* An attempt has a number in range, an answer somebody who waits for it, a
\* result a call that is over, and a message a call that has begun.
Orderly ==
    /\ \A c \in Calls :
        /\ pc[c] # "done" => attempt[c] < MaxRetries
        /\ reply[c] # "none" => pc[c] = "wait"
        /\ result[c] # "none" => pc[c] = "done"
    /\ \A m \in inbox : pc[m[1]] # "new"

Shape == TypeOK /\ Orderly

Unremoved(k) == \A d \in Calls : method[d] = "remove" /\ key[d] = k => pc[d] = "new"

Owns ==
    \A c \in Calls :
        method[c] = "add" /\ "ok" \in {reply[c], result[c]} /\ Unremoved(key[c])
            => owner[key[c]] = c

OneAttempt ==
    \A m \in inbox : m[1] \notin unanswered =>
        pc[m[1]] = "wait" /\ attempt[m[1]] = m[2] /\ reply[m[1]] = "none"

Told ==
    \A c \in Calls : owner[key[c]] = c /\ c \notin unanswered =>
        "ok" \in {reply[c], result[c]}

\* Nobody has called yet.
LEMMA InitCalls == Init => Shape /\ Owns /\ OneAttempt /\ Told
<1> SUFFICES ASSUME Init PROVE Shape /\ Owns /\ OneAttempt /\ Told
  OBVIOUS
<1>1. BreakerTypeOK
  BY BreakerStarts DEF Init, BreakerOK
<1>2. Shape
  BY <1>1, RetriesAssumption DEF Init, Shape, TypeOK, Orderly
<1>3. Owns /\ OneAttempt /\ Told
  BY NobodyAssumption DEF Init, Owns, OneAttempt, Told
<1> QED
  BY <1>2, <1>3

\* What the methods of the breaker leave of it is a breaker.
LEMMA BreakerTyped ==
    ASSUME BreakerTypeOK, RecordFailure \/ RecordSuccess \/ Allow \/ TimePasses
    PROVE  BreakerTypeOK'
<1> USE ThresholdAssumption DEF BreakerTypeOK
<1>1. CASE RecordFailure
  <2>1. failures' \in 0 .. Threshold /\ elapsed' = FALSE
    BY <1>1 DEF RecordFailure, CountedUp
  <2>2. state' \in {state, "open"}
    BY <1>1 DEF RecordFailure
  <2> QED
    BY <2>1, <2>2
<1>2. CASE RecordSuccess
  BY <1>2 DEF RecordSuccess
<1>3. CASE Allow
  BY <1>3 DEF Allow, breaker
<1>4. CASE TimePasses
  BY <1>4 DEF TimePasses
<1> QED
  BY <1>1, <1>2, <1>3, <1>4

\* The end of a failed iteration keeps the types.
LEMMA NextAttemptShape ==
    ASSUME Shape, NEW c \in Calls, pc[c] = "wait", NextAttempt(c),
           unanswered' \in SUBSET Calls, UNCHANGED <<owner, inbox, request>>
    PROVE  Shape'
<1> USE RetriesAssumption DEF Shape, TypeOK, Orderly
<1>1. BreakerTypeOK'
  BY BreakerTyped DEF NextAttempt
<1>2. attempt[c] + 1 \in 0 .. MaxRetries /\ attempt' = [attempt EXCEPT ![c] = attempt[c] + 1]
  BY DEF NextAttempt, Incremented
<1>3. CASE Last(c)
  BY <1>1, <1>2, <1>3 DEF NextAttempt, Return, Goto, request, Last
<1>4. CASE ~Last(c)
  <2>1. attempt[c] + 1 < MaxRetries
    BY <1>2, <1>4 DEF Last
  <2> QED
    BY <1>1, <1>2, <1>4, <2>1 DEF NextAttempt, Goto, request
<1> QED
  BY <1>3, <1>4

\* Every step keeps the types.
LEMMA ShapeStep ==
    ASSUME Shape, [Next]_vars
    PROVE  Shape'
<1> USE RetriesAssumption DEF Shape, TypeOK, Orderly
<1>1. ASSUME NEW c \in Calls, Begin(c) PROVE Shape'
  BY <1>1 DEF Begin, Goto, request, breaker, BreakerTypeOK
<1>2. ASSUME NEW c \in Calls, Send(c) PROVE Shape'
  <2>1. BreakerTypeOK'
    BY <1>2, BreakerTyped DEF Send
  <2>2. <<c, attempt[c]>> \in Calls \X (0 .. MaxRetries - 1)
    BY <1>2 DEF Send
  <2> QED
    BY <1>2, <2>1, <2>2 DEF Send, Goto, request
<1>3. ASSUME NEW c \in Calls, CutOff(c) PROVE Shape'
  BY <1>3 DEF CutOff, Return, Goto, request, breaker, BreakerTypeOK
<1>4. ASSUME NEW c \in Calls, NoAnswer(c) PROVE Shape'
  <2>1. unanswered' \in SUBSET Calls
    BY <1>4 DEF NoAnswer
  <2> QED
    BY <1>4, <2>1, NextAttemptShape DEF NoAnswer
<1>5. ASSUME NEW c \in Calls, ServerError(c) PROVE Shape'
  BY <1>5, NextAttemptShape DEF ServerError
<1>6. ASSUME NEW c \in Calls, Answered(c) PROVE Shape'
  <2>1. BreakerTypeOK'
    BY <1>6, BreakerTyped DEF Answered
  <2> QED
    BY <1>6, <2>1 DEF Answered, Return, Goto, request
<1>7. ASSUME NEW c \in Calls, Garbled(c) PROVE Shape'
  <2>1. BreakerTypeOK'
    BY <1>7, BreakerTyped DEF Garbled
  <2> QED
    BY <1>7, <2>1 DEF Garbled, Return, Goto, request
<1>8. CASE CoreStep
  <2>1. PICK m \in inbox : AddPeer(m) \/ RemovePeer(m) \/ Refuse(m)
    BY <1>8 DEF CoreStep
  <2>2. m[1] \in Calls
    OBVIOUS
  <2>3. UNCHANGED <<breaker, pc, request, attempt, result, unanswered>>
    BY <1>8 DEF CoreStep
  <2>4. PICK a \in {"ok", "400", "500"} : Respond(m, a)
    BY <2>1 DEF AddPeer, RemovePeer, Refuse
  <2>5. owner' \in [Keys -> Calls \cup {Nobody}]
    BY <2>1, <2>2 DEF AddPeer, RemovePeer, Refuse, RefusedOwner
  <2> QED
    BY <2>2, <2>3, <2>4, <2>5 DEF Respond, request, breaker, BreakerTypeOK
<1>9. CASE Drop
  BY <1>9 DEF Drop, request, breaker, BreakerTypeOK
<1>10. CASE Wait
  <2>1. BreakerTypeOK'
    BY <1>10, BreakerTyped DEF Wait
  <2> QED
    BY <1>10, <2>1 DEF Wait, request
<1>11. CASE UNCHANGED vars
  BY <1>11 DEF vars, request, breaker, BreakerTypeOK
<1> QED
  BY <1>1, <1>2, <1>3, <1>4, <1>5, <1>6, <1>7, <1>8, <1>9, <1>10, <1>11 DEF Next, Step

\* The types of the breaker, the calls and the core, and the order of a call's
\* life, hold throughout.
LEMMA ShapeInvariant == Spec => []Shape
<1>1. Init => Shape
  BY InitCalls
<1> QED
  BY <1>1, ShapeStep, PTL DEF Spec

\* The types of the breaker, the calls and the core.
THEOREM CallsTypeOK == Spec => []TypeOK
<1>1. Shape => TypeOK
  BY DEF Shape
<1> QED
  BY <1>1, ShapeInvariant, PTL

\* In CoreClient too the breaker's state and counter agree.
THEOREM CallsBreakerConsistent == Spec => []BreakerConsistent
<1>1. Init => BreakerOK
  BY BreakerStarts DEF Init
<1>2. ASSUME BreakerOK, [Next]_vars PROVE BreakerOK'
  <2>1. Allow \/ RecordSuccess \/ RecordFailure \/ TimePasses \/ UNCHANGED breaker
    BY <1>2 DEF Next, Step, Begin, Send, CutOff, NoAnswer, ServerError, NextAttempt,
                Answered, Garbled, CoreStep, Drop, Wait, vars
  <2> QED
    BY <1>2, <2>1, BreakerKeeps
<1>3. BreakerOK => BreakerConsistent
  BY DEF BreakerOK
<1> QED
  BY <1>1, <1>2, <1>3, PTL DEF Spec
-----------------------------------------------------------------------------
\* A key keeps its owner while nobody removes it.
LEMMA OwnsStep ==
    ASSUME Shape, Owns, [Next]_vars
    PROVE  Owns'
<1> USE DEF Shape, TypeOK, Orderly, Owns
<1>0. ASSUME NEW c \in Calls, NEW l, l # "new", pc' = [pc EXCEPT ![c] = l], UNCHANGED request
      PROVE  \A k \in Keys : Unremoved(k)' => Unremoved(k)
  BY <1>0 DEF Unremoved, request
<1>1. ASSUME NEW c \in Calls, Begin(c) PROVE Owns'
  BY <1>0, <1>1 DEF Begin, Goto, request
<1>2. ASSUME NEW c \in Calls, Send(c) PROVE Owns'
  BY <1>0, <1>2 DEF Send, Goto, request
<1>3. ASSUME NEW c \in Calls, CutOff(c) PROVE Owns'
  BY <1>0, <1>3 DEF CutOff, Return, Goto, request
<1>4. ASSUME NEW c \in Calls, NoAnswer(c) \/ ServerError(c) PROVE Owns'
  <2>1. /\ UNCHANGED <<owner, request>> /\ reply' = [reply EXCEPT ![c] = "none"]
        /\ result' = result \/ result' = [result EXCEPT ![c] = "error"]
    BY <1>4 DEF NoAnswer, ServerError, NextAttempt, Return
  <2>2. PICK l \in {"try", "done"} : pc' = [pc EXCEPT ![c] = l]
    BY <1>4 DEF NoAnswer, ServerError, NextAttempt, Return, Goto
  <2>3. \A k \in Keys : Unremoved(k)' => Unremoved(k)
    BY <1>0, <2>1, <2>2
  <2> QED
    BY <2>1, <2>3 DEF request
<1>5. ASSUME NEW c \in Calls, Answered(c) PROVE Owns'
  BY <1>0, <1>5 DEF Answered, Return, Goto, request
<1>6. ASSUME NEW c \in Calls, Garbled(c) PROVE Owns'
  BY <1>0, <1>6 DEF Garbled, Return, Goto, request
<1>7. CASE CoreStep
  <2>1. PICK m \in inbox : AddPeer(m) \/ RemovePeer(m) \/ Refuse(m)
    BY <1>7 DEF CoreStep
  <2>2. m[1] \in Calls /\ pc[m[1]] # "new"
    OBVIOUS
  <2>3. UNCHANGED <<pc, method, key, result>>
    BY <1>7 DEF CoreStep, request
  <2>4. \A k \in Keys : Unremoved(k)' => Unremoved(k)
    BY <2>3 DEF Unremoved
  <2>5. CASE AddPeer(m)
    <3>1. CASE AddAccepts(key[m[1]])
      <4>1. owner' = [owner EXCEPT ![key[m[1]]] = m[1]] /\ owner[key[m[1]]] = Nobody
            /\ Respond(m, "ok")
        BY <2>5, <3>1 DEF AddPeer, AddAccepts
      <4>2. \A c \in Calls \ {m[1]} : reply'[c] = reply[c]
        BY <4>1 DEF Respond
      <4>3. owner'[key[m[1]]] = m[1]
        BY <2>2, <4>1
      <4> QED
        BY <2>2, <2>3, <2>4, <4>1, <4>2, <4>3, NobodyAssumption
    <3>2. CASE ~AddAccepts(key[m[1]])
      BY <2>2, <2>3, <2>4, <2>5, <3>2 DEF AddPeer, Respond
    <3> QED
      BY <3>1, <3>2
  <2>6. CASE RemovePeer(m)
    <3>1. ~Unremoved(key[m[1]])
      BY <2>2, <2>6 DEF RemovePeer, Unremoved
    <3>2. /\ method[m[1]] = "remove" /\ Respond(m, "ok")
          /\ owner' = [owner EXCEPT ![key[m[1]]] = Nobody]
      BY <2>6 DEF RemovePeer
    <3> QED
      BY <2>2, <2>3, <2>4, <3>1, <3>2 DEF Respond
  <2>7. CASE Refuse(m)
    BY <2>2, <2>3, <2>4, <2>7 DEF Refuse, RefusedOwner, Respond
  <2> QED
    BY <2>1, <2>5, <2>6, <2>7
<1>8. CASE Drop
  BY <1>8 DEF Drop, request, Unremoved
<1>9. CASE Wait
  BY <1>9 DEF Wait, request, Unremoved
<1>10. CASE UNCHANGED vars
  BY <1>10 DEF vars, request, Unremoved
<1> QED
  BY <1>1, <1>2, <1>3, <1>4, <1>5, <1>6, <1>7, <1>8, <1>9, <1>10 DEF Next, Step

\* As long as nobody removes the key, a CallCoreAddPeer that succeeded owns it:
\* neither a retry nor a late attempt replaces the address handed out.
THEOREM PeerAddedOnce == Spec => []AddedOnce
<1>1. Init => Owns
  BY InitCalls
<1>2. Shape /\ Owns => AddedOnce
  BY DEF Owns, Unremoved, AddedOnce
<1> QED
  BY <1>1, <1>2, OwnsStep, ShapeInvariant, PTL DEF Spec
-----------------------------------------------------------------------------
\* A call without an unanswered attempt is told what the core did for it.
LEMMA ToldStep ==
    ASSUME Shape, OneAttempt, Told, [Next]_vars
    PROVE  OneAttempt' /\ Told'
<1> USE DEF Shape, TypeOK, Orderly, OneAttempt, Told
<1>1. ASSUME NEW c \in Calls, Begin(c) PROVE OneAttempt' /\ Told'
  BY <1>1 DEF Begin, Goto, request
<1>2. ASSUME NEW c \in Calls, Send(c) PROVE OneAttempt' /\ Told'
  BY <1>2 DEF Send, Goto, request
<1>3. ASSUME NEW c \in Calls, CutOff(c) PROVE OneAttempt' /\ Told'
  BY <1>3 DEF CutOff, Return, Goto, request
<1>4. ASSUME NEW c \in Calls, NoAnswer(c) PROVE OneAttempt' /\ Told'
  BY <1>4 DEF NoAnswer, NextAttempt, Return, Goto, request
<1>5. ASSUME NEW c \in Calls, ServerError(c) PROVE OneAttempt' /\ Told'
  BY <1>5 DEF ServerError, NextAttempt, Return, Goto, request
<1>6. ASSUME NEW c \in Calls, Answered(c) PROVE OneAttempt' /\ Told'
  BY <1>6 DEF Answered, Return, Goto, request
<1>7. ASSUME NEW c \in Calls, Garbled(c) PROVE OneAttempt' /\ Told'
  BY <1>7 DEF Garbled, Return, Goto, request
<1>8. CASE CoreStep
  <2>1. PICK m \in inbox : AddPeer(m) \/ RemovePeer(m) \/ Refuse(m)
    BY <1>8 DEF CoreStep
  <2>2. m[1] \in Calls /\ m = <<m[1], m[2]>>
    OBVIOUS
  <2>3. UNCHANGED <<pc, method, key, attempt, result, unanswered>>
    BY <1>8 DEF CoreStep, request
  <2>4. PICK a \in {"ok", "400", "500"} :
          Respond(m, a) /\ (owner' # owner /\ method[m[1]] = "add" => a = "ok")
    BY <2>1 DEF AddPeer, RemovePeer, Refuse, RefusedOwner
  <2>5. inbox' = inbox \ {m} /\ \A c \in Calls \ {m[1]} : reply'[c] = reply[c]
    BY <2>4 DEF Respond
  <2>6. \A n \in inbox \ {m} : n[1] \in Calls /\ n = <<n[1], n[2]>>
    OBVIOUS
  <2>7. \A n \in inbox' : n[1] \notin unanswered => n[1] # m[1]
    BY <2>2, <2>5, <2>6
  <2>8. OneAttempt'
    BY <2>3, <2>5, <2>6, <2>7
  <2>9. m[1] \notin unanswered => reply'[m[1]] = a /\ reply[m[1]] = "none" /\ result[m[1]] = "none"
    BY <2>2, <2>4 DEF Respond
  <2>10. \A c \in Calls : owner'[key[c]] = c => owner[key[c]] = c \/ (c = m[1] /\ a = "ok")
    BY <2>1, <2>2, <2>4, NobodyAssumption DEF AddPeer, RemovePeer, Refuse, RefusedOwner
  <2>11. Told'
    BY <2>2, <2>3, <2>5, <2>9, <2>10
  <2> QED
    BY <2>8, <2>11
<1>9. CASE Drop
  BY <1>9 DEF Drop, request
<1>10. CASE Wait
  BY <1>10 DEF Wait, request
<1>11. CASE UNCHANGED vars
  BY <1>11 DEF vars, request
<1> QED
  BY <1>1, <1>2, <1>3, <1>4, <1>5, <1>6, <1>7, <1>8, <1>9, <1>10, <1>11 DEF Next, Step

\* A CallCoreAddPeer that returned an error has left a peer behind on the core
\* only if one of its attempts went unanswered (core/handler.go:60-64).
THEOREM OrphansAreUnanswered == Spec => []OrphanOnlyUnanswered
<1>1. Init => OneAttempt /\ Told
  BY InitCalls
<1>2. Shape /\ Told => OrphanOnlyUnanswered
  BY DEF Shape, Orderly, Told, OrphanOnlyUnanswered
<1> QED
  BY <1>1, <1>2, ToldStep, ShapeInvariant, PTL DEF Spec
=============================================================================
