----------------------------- MODULE CoreClient -----------------------------
(***************************************************************************)
(* internal/control/core_client.go: calls of the control plane to one VPN  *)
(* core, each retried by coreDoWithRetry behind the core's circuit         *)
(* breaker, against the core's handlers (internal/core/handler.go).        *)
(*                                                                         *)
(* A call is a goroutine in CallCoreAddPeer or CallCoreRemovePeer.  An     *)
(* attempt that times out may still reach the core, before or after the    *)
(* next attempt and the calls of others; its answer is then lost.          *)
(*                                                                         *)
(* The core is abstracted to who owns each key: the call whose AddPeer it  *)
(* carried out, which is the one whose address is in force.                *)
(***************************************************************************)
EXTENDS Breaker

CONSTANTS Calls, Keys,
          MaxRetries,   \* coreMaxRetries
          Nobody

ASSUME RetriesAssumption == MaxRetries \in Nat \ {0}
ASSUME NobodyAssumption == Nobody \notin Calls

VARIABLES owner,        \* at the core: whose AddPeer each key stems from
          inbox,        \* attempts <<call, number>> the core has not handled
          reply,        \* the answer on its way to a waiting attempt
          pc,           \* where each call is
          method,       \* "add" or "remove"
          key,          \* the key it is about
          attempt,      \* coreDoWithRetry's loop variable
          result,       \* what the call returned
          unanswered    \* calls one of whose attempts got no usable answer

vars == <<breaker, owner, inbox, reply, pc, method, key, attempt, result, unanswered>>
request == <<method, key>>

Init ==
    /\ BreakerInit
    /\ owner = [k \in Keys |-> Nobody]
    /\ inbox = {}
    /\ reply = [c \in Calls |-> "none"]
    /\ pc = [c \in Calls |-> "new"]
    /\ method \in [Calls -> {"add", "remove"}]
    /\ key \in [Calls -> Keys]
    /\ attempt = [c \in Calls |-> 0]
    /\ result = [c \in Calls |-> "none"]
    /\ unanswered = {}

Goto(c, l) == pc' = [pc EXCEPT ![c] = l]
Return(c, r) == Goto(c, "done") /\ result' = [result EXCEPT ![c] = r]
-----------------------------------------------------------------------------
Begin(c) ==
    /\ pc[c] = "new"
    /\ Goto(c, "try")
    /\ UNCHANGED <<breaker, owner, inbox, reply, request, attempt, result, unanswered>>

Send(c) ==
    /\ pc[c] = "try"
    /\ Allow
    /\ inbox' = inbox \cup {<<c, attempt[c]>>}
    /\ Goto(c, "wait")
    /\ UNCHANGED <<owner, reply, request, attempt, result, unanswered>>

\* "circuit breaker open".
CutOff(c) ==
    /\ pc[c] = "try"
    /\ Denied
    /\ Return(c, "error")
    /\ UNCHANGED <<breaker, owner, inbox, reply, request, attempt, unanswered>>

Last(c) == attempt[c] + 1 = MaxRetries

\* An iteration that is not counted.
IncrementedMutant(c) == attempt[c]

Incremented(c) == attempt[c] + 1

\* The tail of an iteration that failed.
NextAttempt(c) ==
    /\ RecordFailure
    /\ attempt' = [attempt EXCEPT ![c] = Incremented(c)]
    /\ reply' = [reply EXCEPT ![c] = "none"]
    /\ IF Last(c) THEN Return(c, "error")
       ELSE Goto(c, "try") /\ UNCHANGED result

\* coreHTTP.Do returns an error.
NoAnswer(c) ==
    /\ pc[c] = "wait"
    /\ NextAttempt(c)
    /\ unanswered' = unanswered \cup {c}
    /\ UNCHANGED <<owner, inbox, request>>

ServerError(c) ==
    /\ pc[c] = "wait" /\ reply[c] = "500"
    /\ NextAttempt(c)
    /\ UNCHANGED <<owner, inbox, request, unanswered>>

\* A status below 500: the call returns, with an error unless it says OK.
Answered(c) ==
    /\ pc[c] = "wait" /\ reply[c] \in {"ok", "400"}
    /\ RecordSuccess
    /\ Return(c, IF reply[c] = "ok" THEN "ok" ELSE "error")
    /\ reply' = [reply EXCEPT ![c] = "none"]
    /\ UNCHANGED <<owner, inbox, request, attempt, unanswered>>

\* CallCoreAddPeer cannot read or parse the body of a success.
Garbled(c) ==
    /\ pc[c] = "wait" /\ reply[c] = "ok" /\ method[c] = "add"
    /\ RecordSuccess
    /\ Return(c, "error")
    /\ reply' = [reply EXCEPT ![c] = "none"]
    /\ unanswered' = unanswered \cup {c}
    /\ UNCHANGED <<owner, inbox, request, attempt>>
-----------------------------------------------------------------------------
(***************************************************************************)
(* The core's side.                                                        *)
(***************************************************************************)
\* An answer reaches only an attempt that is still waiting for it.
Respond(m, answer) ==
    /\ inbox' = inbox \ {m}
    /\ reply' = IF pc[m[1]] = "wait" /\ attempt[m[1]] = m[2]
                THEN [reply EXCEPT ![m[1]] = answer] ELSE reply

\* Manager.AddPeer without its "peer already exists".
AddAcceptsMutant(k) == TRUE

AddAccepts(k) == owner[k] = Nobody

\* Handler.AddPeer: every error of the manager is a 500.
AddPeer(m) ==
    /\ method[m[1]] = "add"
    /\ LET k == key[m[1]] IN
       \/ /\ AddAccepts(k)
          /\ owner' = [owner EXCEPT ![k] = m[1]]
          /\ Respond(m, "ok")
       \/ /\ ~AddAccepts(k)
          /\ UNCHANGED owner
          /\ Respond(m, "500")

\* Handler.RemovePeer: a key the core does not have is no error.
RemovePeer(m) ==
    /\ method[m[1]] = "remove"
    /\ owner' = [owner EXCEPT ![key[m[1]]] = Nobody]
    /\ Respond(m, "ok")

\* A refused change that has been made all the same.
RefusedOwnerMutant(m) ==
    IF method[m[1]] = "add" /\ owner[key[m[1]]] = Nobody
    THEN [owner EXCEPT ![key[m[1]]] = m[1]] ELSE owner

\* The kernel or the pool refuses: nothing has changed.
RefusedOwner(m) == owner

\* Either handler fails: refused by the manager, or a bad token or body.
Refuse(m) ==
    /\ owner' = RefusedOwner(m)
    /\ \E answer \in {"500", "400"} : Respond(m, answer)

CoreStep ==
    /\ \E m \in inbox : AddPeer(m) \/ RemovePeer(m) \/ Refuse(m)
    /\ UNCHANGED <<breaker, pc, request, attempt, result, unanswered>>

\* The network drops an attempt.
Drop ==
    /\ \E m \in inbox : inbox' = inbox \ {m}
    /\ UNCHANGED <<breaker, owner, reply, pc, request, attempt, result, unanswered>>

Wait ==
    /\ TimePasses
    /\ UNCHANGED <<owner, inbox, reply, pc, request, attempt, result, unanswered>>
-----------------------------------------------------------------------------
Step(c) ==
    \/ Send(c) \/ CutOff(c)
    \/ NoAnswer(c) \/ ServerError(c) \/ Answered(c) \/ Garbled(c)

Next ==
    \/ \E c \in Calls : Begin(c) \/ Step(c)
    \/ CoreStep \/ Drop \/ Wait

Spec == Init /\ [][Next]_vars

\* A call's goroutine runs on; the HTTP client's timeout bounds its waits.
FairSpec == Spec /\ \A c \in Calls : WF_vars(Step(c))
-----------------------------------------------------------------------------
\* Types; an attempt number is in range, and only a waiting call has an answer.
TypeOK ==
    /\ BreakerTypeOK
    /\ owner \in [Keys -> Calls \cup {Nobody}]
    /\ inbox \in SUBSET (Calls \X (0 .. MaxRetries - 1))
    /\ reply \in [Calls -> {"none", "ok", "400", "500"}]
    /\ pc \in [Calls -> {"new", "try", "wait", "done"}]
    /\ method \in [Calls -> {"add", "remove"}]
    /\ key \in [Calls -> Keys]
    /\ attempt \in [Calls -> 0 .. MaxRetries]
    /\ result \in [Calls -> {"none", "ok", "error"}]
    /\ unanswered \in SUBSET Calls

(***************************************************************************)
(* As long as nobody removes the key, a CallCoreAddPeer that succeeded     *)
(* owns it: of several calls for one key at most one is told the key is    *)
(* its own, and neither a retry nor a late attempt replaces the address    *)
(* that was handed out.                                                    *)
(***************************************************************************)
AddedOnce ==
    \A c \in Calls :
        /\ method[c] = "add" /\ result[c] = "ok"
        /\ \A d \in Calls : method[d] = "remove" /\ key[d] = key[c] => pc[d] = "new"
        => owner[key[c]] = c

(***************************************************************************)
(* A CallCoreAddPeer that returned an error has left a peer behind on the  *)
(* core only if one of its attempts went unanswered: the refusals of the   *)
(* core themselves leave nothing (core/handler.go:60-64).                  *)
(***************************************************************************)
OrphanOnlyUnanswered ==
    \A c \in Calls :
        result[c] = "error" /\ owner[key[c]] = c => c \in unanswered

(***************************************************************************)
(* Every call returns, with the breaker open, half-open or closed.         *)
(***************************************************************************)
CallsReturn == \A c \in Calls : pc[c] = "try" ~> pc[c] = "done"
=============================================================================
