-------------------------- MODULE DeliveryProofs ----------------------------
(***************************************************************************)
(* Proofs about the idempotency middleware, which implements the promise   *)
(* of IdempotentCall, about the webhook outbox and about the resumption of *)
(* the realtime stream.                                                    *)
(***************************************************************************)
EXTENDS Outbox, Idempotency, Realtime, WellFoundedInduction, TLAPS

----------------------------------------------------------------------------
(* Idempotency.                                                            *)

InHandler == {"running", "complete", "release"}
Undecided == record.there /\ ~record.done /\ ~record.lapsed

IdemTypeOK ==
    /\ record \in [there : BOOLEAN, by : Calls \cup {None}, done : BOOLEAN, lapsed : BOOLEAN]
    /\ request \in [Calls -> {"new", "running", "complete", "release", "reply", "over", "dead"}]
    /\ answered \in [Calls -> Calls \cup {None, Refused}]

(* The claim is its holder's: whoever is in a handler holds it, it lapses  *)
(* only under one that is over or dead, who replies has its answer on      *)
(* record or still holds the claim, and only who is over was answered.     *)
ClaimIsHeld ==
    /\ \A r \in Calls : request[r] \in InHandler => Undecided /\ record.by = r
    /\ \A r \in Calls : request[r] = "reply" => record.there /\ record.by = r /\ (record.done \/ Undecided)
    /\ record.there => record.by \in Calls
    /\ record.there /\ ~record.done /\ record.lapsed => request[record.by] \in {"over", "dead"}
    /\ \A r \in Calls : request[r] # "over" => answered[r] = None

IdemInv == IdemTypeOK /\ ClaimIsHeld

LEMMA IdemInitInv == IdemInit => IdemInv
BY IdempotencyAssumption DEF IdemInit, IdemInv, IdemTypeOK, ClaimIsHeld, NoRecord, InHandler, Undecided

LEMMA IdemNextInv ==
    ASSUME ~SlowCalls, IdemInv, [IdemNext]_idemVars
    PROVE  IdemInv'
<1> USE DEF IdemInv, Undecided, InHandler
<1>1. CASE LeaseLapses
  <2>1. IdemTypeOK'
    BY <1>1 DEF LeaseLapses, IdemTypeOK
  <2>2. /\ record'.there = record.there /\ record'.done = record.done /\ record'.by = record.by
        /\ request[record.by] \in {"over", "dead"} /\ UNCHANGED <<request, answered>> /\ record.there /\ ~record.done
    BY <1>1 DEF LeaseLapses, IdemTypeOK
  <2>3. ClaimIsHeld'
    BY <2>2 DEF ClaimIsHeld, IdemTypeOK
  <2> QED
    BY <2>1, <2>3
<1>2. ASSUME NEW r \in Calls, Claim(r) PROVE IdemInv'
  <2>1. /\ record' = [there |-> TRUE, by |-> r, done |-> FALSE, lapsed |-> FALSE]
        /\ request' = [request EXCEPT ![r] = "running"] /\ answered' = answered /\ request[r] = "new"
        /\ ~Undecided /\ ~(record.there /\ record.done)
    BY <1>2 DEF Claim, CallIs, CallGoes, Claimable, IdemTypeOK
  <2>2. IdemTypeOK'
    BY <2>1 DEF IdemTypeOK
  <2>3. ClaimIsHeld'
    BY <2>1 DEF ClaimIsHeld, IdemTypeOK
  <2> QED
    BY <2>2, <2>3
<1>3. ASSUME NEW r \in Calls, ClaimRefused(r) PROVE IdemInv'
  <2>1. /\ record' = record /\ request' = [request EXCEPT ![r] = "over"] /\ request[r] = "new"
        /\ answered' = [answered EXCEPT ![r] = AnswerOnRecord(r)]
    BY <1>3 DEF ClaimRefused, CallIs, CallGoes, Gives
  <2>2. AnswerOnRecord(r) \in Calls \cup {None, Refused}
    BY DEF AnswerOnRecord, IdemTypeOK
  <2>3. IdemTypeOK'
    BY <2>1, <2>2 DEF IdemTypeOK
  <2>4. ClaimIsHeld'
    BY <2>1 DEF ClaimIsHeld, IdemTypeOK
  <2> QED
    BY <2>3, <2>4
<1>4. ASSUME NEW r \in Calls, HandlerSucceeds(r) \/ HandlerFails(r) PROVE IdemInv'
  <2>1. PICK s \in {"complete", "release"} : request' = [request EXCEPT ![r] = s]
    BY <1>4 DEF HandlerSucceeds, HandlerFails, CallGoes
  <2>2. record' = record /\ answered' = answered /\ request[r] = "running"
    BY <1>4 DEF HandlerSucceeds, HandlerFails, CallIs
  <2>3. IdemTypeOK'
    BY <2>1, <2>2 DEF IdemTypeOK
  <2>4. ClaimIsHeld'
    BY <2>1, <2>2 DEF ClaimIsHeld, IdemTypeOK
  <2> QED
    BY <2>3, <2>4
<1>5. ASSUME NEW r \in Calls, ReleaseClaim(r) PROVE IdemInv'
  <2>1. /\ request' = [request EXCEPT ![r] = "over"] /\ answered' = [answered EXCEPT ![r] = Refused]
        /\ request[r] = "release" /\ Undecided /\ record.by = r /\ record' \in {record, NoRecord}
    BY <1>5 DEF ReleaseClaim, CallIs, CallGoes, Gives, ClaimIsHeld
  <2>2. IdemTypeOK'
    <3>1. record \in [there : BOOLEAN, by : Calls \cup {None}, done : BOOLEAN, lapsed : BOOLEAN] /\ NoRecord \in [there : BOOLEAN, by : Calls \cup {None}, done : BOOLEAN, lapsed : BOOLEAN]
      BY DEF IdemTypeOK, NoRecord
    <3>2. record' \in [there : BOOLEAN, by : Calls \cup {None}, done : BOOLEAN, lapsed : BOOLEAN]
      BY ONLY <2>1, <3>1
    <3> QED
      BY <2>1, <3>2 DEF IdemTypeOK
  <2>3. \A q \in Calls : request[q] \in InHandler \cup {"reply"} => q = r
    BY <2>1 DEF ClaimIsHeld
  <2>4. ClaimIsHeld'
    <3>1. CASE record' = record
      BY <2>1, <2>3, <3>1 DEF ClaimIsHeld, IdemTypeOK
    <3>2. CASE record' = NoRecord
      BY <2>1, <2>3, <3>2 DEF ClaimIsHeld, IdemTypeOK, NoRecord
    <3> QED
      BY <2>1, <3>1, <3>2
  <2> QED
    BY <2>2, <2>4
<1>6. ASSUME NEW r \in Calls, Complete(r) PROVE IdemInv'
  <2>1. /\ record' \in {record, [there |-> TRUE, by |-> r, done |-> TRUE, lapsed |-> FALSE]}
        /\ request' = [request EXCEPT ![r] = "reply"] /\ answered' = answered
        /\ request[r] = "complete" /\ Undecided /\ record.by = r
    BY <1>6 DEF Complete, CallIs, CallGoes, ClaimIsHeld
  <2>2. IdemTypeOK'
    <3>1. /\ record \in [there : BOOLEAN, by : Calls \cup {None}, done : BOOLEAN, lapsed : BOOLEAN]
          /\ [there |-> TRUE, by |-> r, done |-> TRUE, lapsed |-> FALSE] \in [there : BOOLEAN, by : Calls \cup {None}, done : BOOLEAN, lapsed : BOOLEAN]
      BY DEF IdemTypeOK
    <3>2. record' \in [there : BOOLEAN, by : Calls \cup {None}, done : BOOLEAN, lapsed : BOOLEAN]
      BY ONLY <2>1, <3>1
    <3> QED
      BY <2>1, <3>2 DEF IdemTypeOK
  <2>3. \A q \in Calls : request[q] \in InHandler \cup {"reply"} => q = r
    BY <2>1 DEF ClaimIsHeld
  <2>4. ClaimIsHeld'
    <3>1. CASE record' = record
      BY <2>1, <2>3, <3>1 DEF ClaimIsHeld, IdemTypeOK
    <3>2. CASE record' = [there |-> TRUE, by |-> r, done |-> TRUE, lapsed |-> FALSE]
      BY <2>1, <2>3, <3>2 DEF ClaimIsHeld, IdemTypeOK
    <3> QED
      BY <2>1, <3>1, <3>2
  <2> QED
    BY <2>2, <2>4
<1>7. ASSUME NEW r \in Calls, Reply(r) PROVE IdemInv'
  <2>1. /\ record' = record /\ request' = [request EXCEPT ![r] = "over"]
        /\ answered' = [answered EXCEPT ![r] = r] /\ request[r] = "reply"
    BY <1>7 DEF Reply, CallIs, CallGoes, Gives
  <2>2. IdemTypeOK'
    BY <2>1 DEF IdemTypeOK
  <2>3. ClaimIsHeld'
    BY <2>1 DEF ClaimIsHeld, IdemTypeOK
  <2> QED
    BY <2>2, <2>3
<1>8. ASSUME NEW r \in Calls, CallDies(r) PROVE IdemInv'
  <2>1. /\ record' = record /\ request' = [request EXCEPT ![r] = "dead"] /\ answered' = answered
        /\ request[r] \in {"running", "release", "complete", "reply"}
    BY <1>8 DEF CallDies, CallGoes
  <2>2. IdemTypeOK'
    BY <2>1 DEF IdemTypeOK
  <2>3. ClaimIsHeld'
    BY <2>1 DEF ClaimIsHeld, IdemTypeOK
  <2> QED
    BY <2>2, <2>3
<1>9. CASE UNCHANGED idemVars
  BY <1>9 DEF idemVars, IdemTypeOK, ClaimIsHeld
<1> QED
  BY <1>1, <1>2, <1>3, <1>4, <1>5, <1>6, <1>7, <1>8, <1>9 DEF IdemNext

(* The mapping: a handler runs under its claim.                            *)
LEMMA WhoRuns ==
    ASSUME IdemInv, NEW r \in Calls, request[r] = "running"
    PROVE  Running = {r} /\ Holder = r /\ Winner = None
<1>1. Undecided /\ record.by = r
  BY DEF IdemInv, ClaimIsHeld, InHandler
<1>2. \A q \in Calls : request[q] = "running" => q = r
  BY <1>1 DEF IdemInv, ClaimIsHeld, InHandler
<1> QED
  BY <1>1, <1>2 DEF Running, CallIs, Holder, Winner, Undecided

(* A step that puts nobody in a handler and moves one request on.          *)
LEMMA StillRuns ==
    ASSUME NEW r \in Calls, NEW s, request \in [Calls -> {"new", "running", "complete", "release", "reply", "over", "dead"}],
           request' = [request EXCEPT ![r] = s], s # "running", request[r] # "running"
    PROVE  Running' = Running
BY DEF Running, CallIs

(* Every step of the middleware is a step of the promise, or none.         *)
LEMMA StepKeepsPromise ==
    ASSUME ~SlowCalls, IdemInv, IdemInv', [IdemNext]_idemVars
    PROVE  [Promise!CallNext]_<<Running, Holder, Winner, answered>>
<1> USE DEF IdemInv
<1>1. CASE LeaseLapses
  <2>1. /\ Undecided /\ ~Undecided' /\ answered' = answered /\ request' = request
        /\ record.by \in Calls /\ request[record.by] \in {"over", "dead"} /\ ~record.done /\ ~record'.done
    BY <1>1 DEF LeaseLapses, Undecided, IdemTypeOK, ClaimIsHeld
  <2>2. Running = {} /\ Running' = {}
    BY <2>1 DEF ClaimIsHeld, InHandler, Running, CallIs
  <2>3. Holder # None /\ Holder' = None /\ Winner' = Winner
    BY <2>1, IdempotencyAssumption DEF Holder, Winner, Undecided
  <2> QED
    BY <2>1, <2>2, <2>3 DEF Promise!CallNext, Promise!Lapse, Promise!Ends
<1>2. ASSUME NEW r \in Calls, Claim(r) PROVE Promise!Begin(r)
  <2>1. /\ record' = [there |-> TRUE, by |-> r, done |-> FALSE, lapsed |-> FALSE]
        /\ request' = [request EXCEPT ![r] = "running"]
        /\ answered' = answered /\ request[r] = "new" /\ ~Undecided /\ ~(record.there /\ record.done)
    BY <1>2 DEF Claim, CallIs, CallGoes, Claimable, Undecided, IdemTypeOK
  <2>2. Running = {}
    BY <2>1 DEF ClaimIsHeld, InHandler, Running, CallIs
  <2>3. Running' = {r}
    BY <2>1, <2>2 DEF Running, CallIs, IdemTypeOK
  <2>4. Holder = None /\ Holder' = r /\ Winner = None /\ Winner' = None
    BY <2>1 DEF Holder, Winner, Undecided
  <2>5. answered[r] = None
    BY <2>1 DEF ClaimIsHeld
  <2> QED
    BY <2>1, <2>2, <2>3, <2>4, <2>5 DEF Promise!Begin
<1>3. ASSUME NEW r \in Calls, ClaimRefused(r) PROVE Promise!Replay(r) \/ Promise!Refuse(r)
  <2>1. /\ record' = record /\ request' = [request EXCEPT ![r] = "over"] /\ request[r] = "new"
        /\ answered' = [answered EXCEPT ![r] = AnswerOnRecord(r)] /\ record.there
    BY <1>3 DEF ClaimRefused, CallIs, CallGoes, Gives, Claimable
  <2>2. Winner' = Winner /\ Holder' = Holder
    BY <2>1 DEF Winner, Holder
  <2>3. Running' = Running
    BY <2>1, StillRuns DEF IdemTypeOK
  <2>4. answered[r] = None
    BY <2>1 DEF ClaimIsHeld
  <2>5. CASE AnswerOnRecord(r) = Refused
    BY <2>1, <2>2, <2>3, <2>4, <2>5 DEF Promise!Refuse, Promise!Tells
  <2>6. CASE AnswerOnRecord(r) # Refused
    <3>1. AnswerOnRecord(r) = Winner /\ Winner # None
      BY <2>1, <2>6, IdempotencyAssumption DEF AnswerOnRecord, Winner, ClaimIsHeld
    <3> QED
      BY <2>1, <2>2, <2>3, <2>4, <3>1 DEF Promise!Replay, Promise!Tells
  <2> QED
    BY <2>5, <2>6
<1>4. ASSUME NEW r \in Calls, HandlerSucceeds(r) \/ HandlerFails(r)
      PROVE  Promise!Finish
  <2>1. PICK s \in {"complete", "release"} : request' = [request EXCEPT ![r] = s]
    BY <1>4 DEF HandlerSucceeds, HandlerFails, CallGoes
  <2>2. record' = record /\ answered' = answered /\ request[r] = "running"
    BY <1>4 DEF HandlerSucceeds, HandlerFails, CallIs
  <2>3. Running = {r} /\ Holder' = Holder /\ Winner' = Winner
    BY <2>2, WhoRuns DEF Holder, Winner
  <2>4. Running' = {}
    BY <2>1, <2>3 DEF Running, CallIs, IdemTypeOK
  <2> QED
    BY <2>2, <2>3, <2>4 DEF Promise!Finish
<1>5. ASSUME NEW r \in Calls, ReleaseClaim(r) PROVE Promise!GiveUp \/ Promise!Refuse(r)
  <2>1. /\ request' = [request EXCEPT ![r] = "over"] /\ answered' = [answered EXCEPT ![r] = Refused]
        /\ request[r] = "release" /\ Undecided /\ record.by = r /\ record' \in {record, NoRecord}
    BY <1>5 DEF ReleaseClaim, CallIs, CallGoes, Gives, ClaimIsHeld, InHandler, Undecided
  <2>2. Holder = r /\ r # None /\ answered[r] = None
    BY <2>1, IdempotencyAssumption DEF Holder, Undecided, ClaimIsHeld
  <2>3. Running = {} /\ Running' = {}
    <3>1. Running' = Running
      BY <2>1, StillRuns DEF IdemTypeOK
    <3> QED
      BY <2>1, <3>1 DEF ClaimIsHeld, InHandler, Running, CallIs
  <2>4. CASE record' = record
    BY <2>1, <2>2, <2>3, <2>4 DEF Promise!Refuse, Promise!Tells, Holder, Winner
  <2>5. CASE record' = NoRecord
    <3>1. Holder' = None /\ Winner' = Winner
      BY <2>1, <2>5 DEF Holder, Winner, NoRecord, Undecided
    <3> QED
      BY <2>1, <2>2, <2>3, <3>1 DEF Promise!GiveUp, Promise!Ends, Promise!Tells
  <2> QED
    BY <2>1, <2>4, <2>5
<1>6. ASSUME NEW r \in Calls, Complete(r)
      PROVE  Promise!Win \/ UNCHANGED <<Running, Holder, Winner, answered>>
  <2>1. /\ record' \in {record, [there |-> TRUE, by |-> r, done |-> TRUE, lapsed |-> FALSE]}
        /\ request' = [request EXCEPT ![r] = "reply"] /\ answered' = answered
        /\ request[r] = "complete" /\ Undecided /\ record.by = r
    BY <1>6 DEF Complete, CallIs, CallGoes, ClaimIsHeld, InHandler, Undecided
  <2>2. Holder = r /\ r # None /\ Winner = None
    BY <2>1, IdempotencyAssumption DEF Holder, Winner, Undecided
  <2>3. Running = {} /\ Running' = {}
    <3>1. Running' = Running
      BY <2>1, StillRuns DEF IdemTypeOK
    <3> QED
      BY <2>1, <3>1 DEF ClaimIsHeld, InHandler, Running, CallIs
  <2>4. CASE record' = record
    BY <2>1, <2>3, <2>4 DEF Holder, Winner
  <2>5. CASE record' = [there |-> TRUE, by |-> r, done |-> TRUE, lapsed |-> FALSE]
    <3>1. Holder' = None /\ Winner' = r
      BY <2>5 DEF Holder, Winner
    <3> QED
      BY <2>1, <2>2, <2>3, <3>1 DEF Promise!Win, Promise!Ends
  <2> QED
    BY <2>1, <2>4, <2>5
<1>7. ASSUME NEW r \in Calls, Reply(r) PROVE Promise!Replay(r) \/ Promise!Answer
  <2>1. /\ record' = record /\ request' = [request EXCEPT ![r] = "over"]
        /\ answered' = [answered EXCEPT ![r] = r] /\ request[r] = "reply"
        /\ record.there /\ record.by = r /\ (record.done \/ Undecided) /\ answered[r] = None
    BY <1>7 DEF Reply, CallIs, CallGoes, Gives, ClaimIsHeld
  <2>2. Holder' = Holder /\ Winner' = Winner /\ r # None
    BY <2>1, IdempotencyAssumption DEF Holder, Winner
  <2>3. Running' = Running
    BY <2>1, StillRuns DEF IdemTypeOK
  <2>4. CASE record.done
    <3>1. Winner = r
      BY <2>1, <2>4 DEF Winner
    <3> QED
      BY <2>1, <2>2, <2>3, <3>1 DEF Promise!Replay, Promise!Tells
  <2>5. CASE Undecided
    <3>1. Holder = r
      BY <2>1, <2>5 DEF Holder, Undecided
    <3>2. Running = {}
      BY <2>1 DEF ClaimIsHeld, InHandler, Running, CallIs
    <3> QED
      BY <2>1, <2>2, <2>3, <3>1, <3>2 DEF Promise!Answer, Promise!Tells
  <2> QED
    BY <2>1, <2>4, <2>5
<1>8. ASSUME NEW r \in Calls, CallDies(r)
      PROVE  Promise!Finish \/ UNCHANGED <<Running, Holder, Winner, answered>>
  <2>1. /\ record' = record /\ request' = [request EXCEPT ![r] = "dead"] /\ answered' = answered
    BY <1>8 DEF CallDies, CallGoes
  <2>2. Winner' = Winner /\ Holder' = Holder
    BY <2>1 DEF Winner, Holder
  <2>3. CASE request[r] # "running"
    <3>1. Running' = Running
      BY <2>1, <2>3, StillRuns DEF IdemTypeOK
    <3> QED
      BY <2>1, <2>2, <3>1
  <2>4. CASE request[r] = "running"
    <3>1. Running = {r}
      BY <2>4, WhoRuns
    <3>2. Running' = {}
      BY <2>1, <3>1 DEF Running, CallIs, IdemTypeOK
    <3> QED
      BY <2>1, <2>2, <3>1, <3>2 DEF Promise!Finish
  <2> QED
    BY <2>3, <2>4
<1>9. CASE UNCHANGED idemVars
  BY <1>9 DEF idemVars, Running, Holder, Winner, CallIs
<1> QED
  BY <1>1, <1>2, <1>3, <1>4, <1>5, <1>6, <1>7, <1>8, <1>9 DEF IdemNext, Promise!CallNext

(* The middleware implements what an idempotency key promises, for any set *)
(* of requests that share the key, each dying anywhere, answers that could *)
(* not be recorded and lapsed claims taken over, as long as no request     *)
(* outlives IdempotencyLease (middleware/idempotency.go,                   *)
(* repositories/idempotency.go).                                           *)
THEOREM KeyKeepsItsPromise ==
    ASSUME ~SlowCalls PROVE IdemSpec => KeepsThePromise
<1>1. IdemInit => Promise!CallInit
  BY DEF IdemInit, Promise!CallInit, Running, Holder, Winner, NoRecord, CallIs
<1>2. IdemInv /\ [IdemNext]_idemVars => IdemInv'
  BY IdemNextInv
<1>3. IdemInv /\ IdemInv' /\ [IdemNext]_idemVars => [Promise!CallNext]_Promise!callVars
  BY StepKeepsPromise DEF Promise!callVars
<1> QED
  BY IdemInitInv, <1>1, <1>2, <1>3, PTL DEF IdemSpec, KeepsThePromise, Promise!CallSpec

----------------------------------------------------------------------------
(* The outbox.                                                             *)

Rows       == [there : {TRUE}, status : {"pending", "delivered", "failed"}, attempts : Nat, queued : BOOLEAN]
EndpointRows == [there : BOOLEAN, used : BOOLEAN, active : BOOLEAN, run : Nat,
                 types : Filters \cup {{}}, pinged : BOOLEAN]
EventRows  == [there : BOOLEAN, queued : BOOLEAN, to : SUBSET Endpoints]
Reads      == [key : Keys, attempts : Nat]
PostActs   == [step : {"post"}, of : Reads, run : Nat]
LaterActs  == [step : {"mark", "health", "trip"}, of : Reads, run : Nat, ok : BOOLEAN]
KickStates == {"none", "asked", "seeking", "found", "missed"}
PassShape  == [at : {"reading", "listing", "rows", "fresh", "backlog"}, looks : Nat, events : SUBSET All,
               list : SUBSET Keys, todo : SUBSET Reads, tried : SUBSET Keys, act : SUBSET (PostActs \cup LaterActs)]

(* What a pass holds is as it was read: its deliveries have rows, an       *)
(* answer it will mark was received, its events were emitted, and its list *)
(* has every endpoint that wanted one of them all along.                   *)
PassOK(r) ==
    r # NoPass =>
      /\ r \in PassShape
      /\ \A d \in r.todo : delivery[d.key].there
      /\ \A x \in r.act : /\ delivery[x.of.key].there
                          /\ x.step # "post" /\ x.ok => x.of.key \in received
      /\ \A v \in r.events : event[v].there
      /\ r.at = "rows" => \A k \in since : k[1] \in r.events => k \in r.list
      /\ \A k \in r.list : endpoint[k[2]].used
      /\ r.at \in {"reading", "fresh", "backlog"} => r.events = {} /\ (r.at = "reading" => r.act = {})

PassesOK == /\ DOMAIN pass = Passes
            /\ \A q \in Passes : PassOK(pass[q])

TablesOK ==
    /\ event \in [All -> EventRows]
    /\ delivery \in [Keys -> {NoRow} \cup Rows]
    /\ endpoint \in [Endpoints -> EndpointRows]
    /\ rev \in Nat
    /\ adder \in [Adders -> {NoPass} \cup [at : {"add"}, ep : Endpoints, seen : Nat]]
    /\ since \subseteq Keys /\ received \subseteq Keys
    /\ kick \in [Events -> KickStates]
    /\ running \in BOOLEAN /\ again \in BOOLEAN

(* A row is of an event off the fan-out queue and of an endpoint that was  *)
(* made once, and who wanted an event since it was emitted still does.     *)
RowsOK ==
    /\ \A k \in Keys : delivery[k].there =>
         event[k[1]].there /\ ~event[k[1]].queued /\ endpoint[k[2]].used
    /\ \A k \in since : Wants(k[2], k[1]) /\ event[k[1]].there
    /\ \A v \in All : event[v].queued => event[v].there
    /\ \A e \in Endpoints : (endpoint[e].there => endpoint[e].used) /\ (endpoint[e].active => endpoint[e].there)
    /\ \A v \in Events : kick[v] # "none" => event[v].there

(* What the loop owes: a kick asked for has another round to come or one   *)
(* that has not read yet, a kick sought has looks left, and an event found *)
(* that is still queued is in the round's hands.                           *)
KicksHeld ==
    /\ running <=> pass[KickPass] # NoPass
    /\ again => running
    /\ \A v \in Events : kick[v] = "asked" =>
          again \/ (running /\ pass[KickPass].at = "reading" /\ pass[KickPass].looks = KickRetries)
    /\ \A v \in Events : kick[v] = "seeking" =>
          running /\ (pass[KickPass].at = "reading" \/ pass[KickPass].looks > 0)
    /\ \A v \in Events : kick[v] = "found" /\ event[v].queued => running /\ v \in pass[KickPass].events

OutboxInv == TablesOK /\ PassesOK /\ RowsOK /\ KicksHeld /\ NothingQueuedIsLost

LEMMA KeyParts == \A k \in Keys : k = <<k[1], k[2]>> /\ k[1] \in All /\ k[2] \in Endpoints
BY DEF Keys

LEMMA KeyMade == \A v \in All, e \in Endpoints : <<v, e>> \in Keys /\ <<v, e>>[1] = v /\ <<v, e>>[2] = e
BY DEF Keys

LEMMA OutboxInitInv == OutboxInit => OutboxInv
<1> SUFFICES ASSUME OutboxInit PROVE OutboxInv
  OBVIOUS
<1> USE DEF OutboxInit
<1>1. TablesOK
  <2>1. event \in [All -> EventRows]
    BY DEF EventRows
  <2>2. delivery \in [Keys -> {NoRow} \cup Rows]
    BY DEF Keys
  <2>3. endpoint \in [Endpoints -> EndpointRows]
    BY DEF EndpointRows, Fresh, Unused, Gone
  <2> QED
    BY <2>1, <2>2, <2>3 DEF TablesOK, KickStates
<1>2. PassesOK
  BY DEF PassesOK, PassOK
<1>3. RowsOK
  BY KeyParts DEF RowsOK, NoRow, Fresh, Unused, Gone
<1>4. KicksHeld
  BY DEF KicksHeld, Passes
<1>5. NothingQueuedIsLost
  BY KeyParts DEF NothingQueuedIsLost, NoRow
<1> QED
  BY <1>1, <1>2, <1>3, <1>4, <1>5 DEF OutboxInv

(* The tables only grow: rows, events and endpoint ids stay, and an        *)
(* endpoint joins those that wanted an event only when it is emitted.      *)
Grows ==
    /\ \A k \in Keys : delivery[k].there => delivery'[k].there
    /\ \A v \in All : event[v].there => event'[v].there
    /\ \A e \in Endpoints : endpoint[e].used => endpoint'[e].used
    /\ received \subseteq received'
    /\ \A k \in since' : k \in since \/ ~event[k[1]].there

(* What a pass holds stays true of it while the tables grow.               *)
LEMMA HoldsOn ==
    ASSUME NEW r, PassOK(r), Grows
    PROVE  r # NoPass =>
      /\ r \in PassShape
      /\ \A d \in r.todo : delivery'[d.key].there
      /\ \A x \in r.act : /\ delivery'[x.of.key].there
                          /\ x.step # "post" /\ x.ok => x.of.key \in received'
      /\ \A v \in r.events : event'[v].there
      /\ r.at = "rows" => \A k \in since' : k[1] \in r.events => k \in r.list
      /\ \A k \in r.list : endpoint'[k[2]].used
      /\ r.at \in {"reading", "fresh", "backlog"} => r.events = {} /\ (r.at = "reading" => r.act = {})
<1> SUFFICES ASSUME r # NoPass
             PROVE  /\ r \in PassShape
                    /\ \A d \in r.todo : delivery'[d.key].there
                    /\ \A x \in r.act : /\ delivery'[x.of.key].there
                                        /\ x.step # "post" /\ x.ok => x.of.key \in received'
                    /\ \A v \in r.events : event'[v].there
                    /\ r.at = "rows" => \A k \in since' : k[1] \in r.events => k \in r.list
                    /\ \A k \in r.list : endpoint'[k[2]].used
                    /\ r.at \in {"reading", "fresh", "backlog"} => r.events = {} /\ (r.at = "reading" => r.act = {})
  OBVIOUS
<1>1. /\ r \in PassShape
      /\ \A d \in r.todo : d.key \in Keys
      /\ \A x \in r.act : x.of.key \in Keys
      /\ r.events \subseteq All /\ r.list \subseteq Keys
  BY DEF PassOK, PassShape, Reads, PostActs, LaterActs
<1>2. /\ \A d \in r.todo : delivery'[d.key].there
      /\ \A x \in r.act : delivery'[x.of.key].there
  BY <1>1 DEF PassOK, Grows
<1>3. \A x \in r.act : x.step # "post" /\ x.ok => x.of.key \in received'
  BY <1>1 DEF PassOK, Grows
<1>4. \A v \in r.events : event'[v].there
  BY <1>1 DEF PassOK, Grows
<1>5. r.at = "rows" => \A k \in since' : k[1] \in r.events => k \in r.list
  BY <1>1 DEF PassOK, Grows
<1>6. \A k \in r.list : endpoint'[k[2]].used
  BY <1>1, KeyParts DEF PassOK, Grows
<1> QED
  BY <1>1, <1>2, <1>3, <1>4, <1>5, <1>6 DEF PassOK

(* A step that leaves the passes alone leaves them what they hold.         *)
LEMMA PassesHold ==
    ASSUME OutboxInv, Grows, UNCHANGED pass
    PROVE  PassesOK'
<1> SUFFICES ASSUME NEW q \in Passes PROVE PassOK(pass[q])'
  BY DEF PassesOK, OutboxInv
<1>1. pass'[q] = pass[q] /\ PassOK(pass[q])
  BY DEF OutboxInv, PassesOK
<1> QED
  BY <1>1, HoldsOn DEF PassOK

(* One pass moves to r, which holds what it should, and the other is kept. *)
LEMMA PassMoves ==
    ASSUME OutboxInv, Grows, NEW p \in Passes, NEW r, Goes(p, r),
           r # NoPass =>
             /\ r \in PassShape
             /\ \A d \in r.todo : delivery'[d.key].there
             /\ \A x \in r.act : /\ delivery'[x.of.key].there
                                 /\ x.step # "post" /\ x.ok => x.of.key \in received'
             /\ \A v \in r.events : event'[v].there
             /\ r.at = "rows" => \A k \in since' : k[1] \in r.events => k \in r.list
             /\ \A k \in r.list : endpoint'[k[2]].used
             /\ r.at \in {"reading", "fresh", "backlog"} => r.events = {} /\ (r.at = "reading" => r.act = {})
    PROVE  PassesOK'
<1>1. DOMAIN pass' = Passes /\ pass'[p] = r
  BY DEF OutboxInv, PassesOK, Goes
<1>2. PassOK(pass[p])'
  BY <1>1 DEF PassOK
<1>3. ASSUME NEW q \in Passes, q # p PROVE PassOK(pass[q])'
  <2>1. pass'[q] = pass[q] /\ PassOK(pass[q])
    BY <1>3 DEF OutboxInv, PassesOK, Goes
  <2> QED
    BY <2>1, HoldsOn DEF PassOK
<1> QED
  BY <1>1, <1>2, <1>3 DEF PassesOK

(* Steps of the endpoints: an id never comes back, an endpoint that stops  *)
(* wanting an event leaves since, and nothing else moves.                  *)
LEMMA EndpointsChange ==
    ASSUME OutboxInv,
           UNCHANGED <<event, delivery, running, again, kick, received>>,
           rev' \in Nat, adder' \in [Adders -> {NoPass} \cup [at : {"add"}, ep : Endpoints, seen : Nat]],
           endpoint' \in [Endpoints -> EndpointRows],
           \A e \in Endpoints : /\ endpoint[e].used => endpoint'[e].used
                                /\ endpoint[e].used /\ endpoint'[e].active => endpoint[e].active
                                /\ endpoint'[e].there => endpoint'[e].used
                                /\ endpoint'[e].active => endpoint'[e].there,
           since' \subseteq since,
           \A k \in since' : Wants(k[2], k[1])'
    PROVE  TablesOK' /\ RowsOK' /\ NothingQueuedIsLost' /\ Grows
<1> USE DEF OutboxInv
<1>1. TablesOK'
  BY DEF TablesOK
<1>2. Grows
  BY DEF Grows
<1>3. RowsOK'
  BY KeyParts DEF RowsOK, TablesOK
<1>4. NothingQueuedIsLost'
  <2>1. \A k \in since' : ~event'[k[1]].queued => delivery'[k].there
    BY DEF NothingQueuedIsLost
  <2>2. ASSUME NEW k \in Keys, delivery'[k].there, ~delivery'[k].queued
        PROVE  \/ k \in received'
               \/ ~endpoint'[k[2]].active
               \/ delivery'[k].status = "failed" /\ delivery'[k].attempts >= MaxDeliveryAttempts
    <3>1. k[2] \in Endpoints /\ endpoint[k[2]].used
      BY <2>2, KeyParts DEF RowsOK
    <3> QED
      BY <2>2, <3>1 DEF NothingQueuedIsLost
  <2> QED
    BY <2>1, <2>2 DEF NothingQueuedIsLost
<1> QED
  BY <1>1, <1>2, <1>3, <1>4

LEMMA EndpointsMove ==
    ASSUME OutboxInv,
           UNCHANGED <<event, delivery, pass, running, again, kick, received>>,
           rev' \in Nat, adder' \in [Adders -> {NoPass} \cup [at : {"add"}, ep : Endpoints, seen : Nat]],
           endpoint' \in [Endpoints -> EndpointRows],
           \A e \in Endpoints : /\ endpoint[e].used => endpoint'[e].used
                                /\ endpoint[e].used /\ endpoint'[e].active => endpoint[e].active
                                /\ endpoint'[e].there => endpoint'[e].used
                                /\ endpoint'[e].active => endpoint'[e].there,
           since' \subseteq since,
           \A k \in since' : Wants(k[2], k[1])'
    PROVE  OutboxInv'
<1>1. TablesOK' /\ RowsOK' /\ NothingQueuedIsLost' /\ Grows
  BY EndpointsChange
<1>2. PassesOK'
  BY <1>1, PassesHold
<1>3. KicksHeld'
  BY DEF KicksHeld, OutboxInv
<1> QED
  BY <1>1, <1>2, <1>3 DEF OutboxInv

(* Whether an endpoint wants an event is its row's and the event's.        *)
LEMMA WantsStays ==
    ASSUME NEW k \in Keys, Wants(k[2], k[1]),
           endpoint'[k[2]].there, endpoint'[k[2]].active,
           endpoint'[k[2]].types = endpoint[k[2]].types, event'[k[1]].to = event[k[1]].to
    PROVE  Wants(k[2], k[1])'
BY DEF Wants

LEMMA AddReadsInv ==
    ASSUME OutboxInv, NEW a \in Adders, NEW e \in Endpoints, AddReads(a, e)
    PROVE  OutboxInv'
<1>1. adder' \in [Adders -> {NoPass} \cup [at : {"add"}, ep : Endpoints, seen : Nat]]
  BY DEF AddReads, OutboxInv, TablesOK
<1>2. \A k \in since' : Wants(k[2], k[1])'
  BY DEF AddReads, OutboxInv, RowsOK, Wants
<1> QED
  BY <1>1, <1>2, EndpointsMove DEF AddReads, OutboxInv, TablesOK, RowsOK

LEMMA AddWritesInv ==
    ASSUME OutboxInv, NEW a \in Adders, AddWrites(a)
    PROVE  OutboxInv'
<1> DEFINE e == adder[a].ep
<1>1. /\ adder[a].at = "add" /\ adder' = [adder EXCEPT ![a] = NoPass]
      /\ UNCHANGED <<event, delivery, pass, running, again, kick, received, since>>
      /\ (endpoint' = [endpoint EXCEPT ![e] = Fresh] /\ rev' = rev + 1 /\ ~endpoint[e].used)
         \/ UNCHANGED <<endpoint, rev>>
  BY DEF AddWrites
<1>2. e \in Endpoints
  BY <1>1 DEF OutboxInv, TablesOK, NoPass
<1>3. adder' \in [Adders -> {NoPass} \cup [at : {"add"}, ep : Endpoints, seen : Nat]]
  BY <1>1 DEF OutboxInv, TablesOK
<1>4. Fresh \in EndpointRows /\ Fresh.used /\ Fresh.there
  BY DEF Fresh, EndpointRows
<1> HIDE DEF e
<1>5. CASE endpoint' = [endpoint EXCEPT ![e] = Fresh] /\ rev' = rev + 1 /\ ~endpoint[e].used
  <2>1. endpoint' \in [Endpoints -> EndpointRows] /\ rev' \in Nat
    <3>1. rev' \in Nat
      BY <1>5 DEF OutboxInv, TablesOK
    <3> QED
      BY <1>5, <1>4, <3>1 DEF OutboxInv, TablesOK
  <2>2. endpoint'[e] = Fresh /\ \A x \in Endpoints : x # e => endpoint'[x] = endpoint[x]
    BY <1>2, <1>5 DEF OutboxInv, TablesOK
  <2>3. \A x \in Endpoints : /\ endpoint[x].used => endpoint'[x].used
                             /\ endpoint[x].used /\ endpoint'[x].active => endpoint[x].active
                             /\ endpoint'[x].there => endpoint'[x].used
                             /\ endpoint'[x].active => endpoint'[x].there
    BY <1>4, <1>5, <2>2 DEF OutboxInv, RowsOK
  <2>4. \A k \in since' : Wants(k[2], k[1])'
    <3> SUFFICES ASSUME NEW k \in since PROVE Wants(k[2], k[1])'
      BY <1>1
    <3>1. k \in Keys /\ Wants(k[2], k[1]) /\ k[2] \in Endpoints
      BY KeyParts DEF OutboxInv, RowsOK, TablesOK
    <3>2. k[2] # e
      BY <3>1, <1>5 DEF Wants, OutboxInv, RowsOK
    <3> QED
      BY <1>1, <2>2, <3>1, <3>2 DEF Wants
  <2> QED
    BY <1>1, <1>3, <2>1, <2>3, <2>4, EndpointsMove
<1>6. CASE UNCHANGED <<endpoint, rev>>
  <2>1. \A k \in since' : Wants(k[2], k[1])'
    BY <1>1, <1>6 DEF OutboxInv, RowsOK, Wants
  <2> QED
    BY <1>1, <1>3, <1>6, <2>1, EndpointsMove DEF OutboxInv, TablesOK, RowsOK
<1> QED
  BY <1>1, <1>5, <1>6

LEMMA RemoveInv ==
    ASSUME OutboxInv, NEW e \in Endpoints, RemoveEndpoint(e)
    PROVE  OutboxInv'
<1>1. /\ UNCHANGED <<event, delivery, adder, pass, running, again, kick, received>>
      /\ endpoint' = [endpoint EXCEPT ![e] = Gone] /\ rev' = rev + 1
      /\ since' = {k \in since : k[2] # e}
  BY DEF RemoveEndpoint
<1>2. Gone \in EndpointRows /\ Gone.used /\ ~Gone.there /\ ~Gone.active
  BY DEF Gone, Fresh, EndpointRows
<1>3. /\ endpoint' \in [Endpoints -> EndpointRows] /\ rev' \in Nat
      /\ endpoint'[e] = Gone /\ \A x \in Endpoints : x # e => endpoint'[x] = endpoint[x]
  BY <1>1, <1>2 DEF OutboxInv, TablesOK
<1>4. \A x \in Endpoints : /\ endpoint[x].used => endpoint'[x].used
                           /\ endpoint[x].used /\ endpoint'[x].active => endpoint[x].active
                           /\ endpoint'[x].there => endpoint'[x].used
                           /\ endpoint'[x].active => endpoint'[x].there
  BY <1>2, <1>3 DEF OutboxInv, RowsOK
<1>5. \A k \in since' : Wants(k[2], k[1])'
  BY <1>1, <1>3, KeyParts DEF OutboxInv, RowsOK, TablesOK, Wants
<1> QED
  BY <1>1, <1>3, <1>4, <1>5, EndpointsMove DEF OutboxInv, TablesOK

LEMMA SetEventsInv ==
    ASSUME OutboxInv, NEW e \in Endpoints, NEW f \in Filters, SetEndpointEvents(e, f)
    PROVE  OutboxInv'
<1>1. /\ UNCHANGED <<event, delivery, rev, adder, pass, running, again, kick, received>>
      /\ endpoint' = [endpoint EXCEPT ![e].types = f]
      /\ since' = {k \in since : k[2] # e \/ k[1] \in Pings \/ f = {} \/ k[1] \in f}
  BY DEF SetEndpointEvents
<1>2. /\ endpoint' \in [Endpoints -> EndpointRows]
      /\ endpoint'[e].types = f /\ \A x \in Endpoints : x # e => endpoint'[x] = endpoint[x]
      /\ endpoint'[e].there = endpoint[e].there /\ endpoint'[e].active = endpoint[e].active
      /\ endpoint'[e].used = endpoint[e].used
  BY <1>1 DEF OutboxInv, TablesOK, EndpointRows
<1>3. \A x \in Endpoints : /\ endpoint[x].used => endpoint'[x].used
                           /\ endpoint[x].used /\ endpoint'[x].active => endpoint[x].active
                           /\ endpoint'[x].there => endpoint'[x].used
                           /\ endpoint'[x].active => endpoint'[x].there
  BY <1>2 DEF OutboxInv, RowsOK
<1>4. \A k \in since' : Wants(k[2], k[1])'
  <2> SUFFICES ASSUME NEW k \in since' PROVE Wants(k[2], k[1])'
    OBVIOUS
  <2>1. k \in since /\ k[2] \in Endpoints /\ Wants(k[2], k[1])
    BY <1>1, KeyParts DEF OutboxInv, RowsOK, TablesOK
  <2>2. CASE k[2] # e
    BY <1>1, <1>2, <2>1, <2>2 DEF Wants
  <2>3. CASE k[2] = e
    BY <1>1, <1>2, <2>1, <2>3 DEF Wants
  <2> QED
    BY <2>2, <2>3
<1> QED
  BY <1>1, <1>2, <1>3, <1>4, EndpointsMove DEF OutboxInv, TablesOK

(* An event comes: it is queued, and those that want it join since.        *)
LEMMA EventComes ==
    ASSUME OutboxInv, NEW v \in All, NEW new \in SUBSET Keys,
           ~event[v].there, event' \in [All -> EventRows], event'[v].there, event'[v].queued,
           \A w \in All : w # v => event'[w] = event[w],
           endpoint' \in [Endpoints -> EndpointRows],
           \A e \in Endpoints : /\ endpoint'[e].used = endpoint[e].used /\ endpoint'[e].there = endpoint[e].there
                                /\ endpoint'[e].active = endpoint[e].active /\ endpoint'[e].types = endpoint[e].types,
           since' = since \cup new, \A k \in new : k[1] = v /\ Wants(k[2], k[1])',
           UNCHANGED <<delivery, rev, adder, pass, running, again, kick, received>>
    PROVE  OutboxInv'
<1> USE DEF OutboxInv
<1>1. TablesOK'
  BY DEF TablesOK
<1>2. Grows
  <2>1. \A w \in All : event[w].there => event'[w].there
    OBVIOUS
  <2>2. \A k \in since' : k \in since \/ ~event[k[1]].there
    OBVIOUS
  <2> QED
    BY <2>1, <2>2 DEF Grows
<1>3. PassesOK'
  BY <1>2, PassesHold
<1>4. \A k \in since : k \in Keys /\ k[1] \in All /\ k[1] # v /\ event'[k[1]] = event[k[1]] /\ Wants(k[2], k[1])
  BY KeyParts DEF RowsOK, TablesOK
<1>5. RowsOK'
  <2>1. \A k \in Keys : delivery'[k].there =>
          event'[k[1]].there /\ ~event'[k[1]].queued /\ endpoint'[k[2]].used
    BY KeyParts DEF RowsOK
  <2>2. ASSUME NEW k \in since' PROVE Wants(k[2], k[1])' /\ event'[k[1]].there
    <3>1. CASE k \in new
      BY <3>1
    <3>2. CASE k \in since
      <4>1. k[2] \in Endpoints
        BY <1>4, <3>2, KeyParts
      <4> QED
        BY <1>4, <3>2, <4>1 DEF Wants, RowsOK
    <3> QED
      BY <3>1, <3>2
  <2>3. \A w \in All : event'[w].queued => event'[w].there
    BY DEF RowsOK
  <2>4. \A w \in Events : kick'[w] # "none" => event'[w].there
    BY DEF RowsOK, All
  <2>5. \A e \in Endpoints : (endpoint'[e].there => endpoint'[e].used) /\ (endpoint'[e].active => endpoint'[e].there)
    BY DEF RowsOK
  <2> QED
    BY <2>1, <2>2, <2>3, <2>4, <2>5 DEF RowsOK
<1>6. KicksHeld'
  <2>1. \A w \in Events : kick[w] # "none" => event'[w] = event[w]
    BY DEF RowsOK, All
  <2> QED
    BY <2>1 DEF KicksHeld
<1>7. NothingQueuedIsLost'
  BY <1>4, KeyParts DEF NothingQueuedIsLost
<1> QED
  BY <1>1, <1>3, <1>5, <1>6, <1>7

LEMMA EmitInv ==
    ASSUME OutboxInv, NEW v \in All, Emit(v)
    PROVE  OutboxInv'
<1> DEFINE new == {<<v, e>> : e \in {e \in Endpoints : Wants(e, v)}}
<1>1. /\ ~event[v].there /\ v \in Events /\ since' = since \cup new
      /\ event' = [event EXCEPT ![v].there = TRUE, ![v].queued = TRUE]
      /\ UNCHANGED <<delivery, endpoint, rev, adder, pass, running, again, kick, received>>
  BY DEF Emit
<1>2. /\ event' \in [All -> EventRows] /\ event'[v].there /\ event'[v].queued
      /\ \A w \in All : w # v => event'[w] = event[w]
  BY <1>1 DEF OutboxInv, TablesOK, EventRows
<1>3. new \in SUBSET Keys /\ \A k \in new : k[1] = v /\ Wants(k[2], k[1])
  BY DEF Keys
<1>4. v \notin Pings
  BY <1>1, OutboxAssumption
<1>5. \A k \in new : Wants(k[2], k[1])'
  <2> SUFFICES ASSUME NEW k \in new PROVE Wants(k[2], k[1])'
    OBVIOUS
  <2>1. k[1] = v /\ Wants(k[2], k[1])
    BY <1>3
  <2> QED
    BY <2>1, <1>1, <1>4 DEF Wants
<1> HIDE DEF new
<1>6. endpoint' \in [Endpoints -> EndpointRows]
  BY <1>1 DEF OutboxInv, TablesOK
<1>7. \A k \in new : k[1] = v /\ Wants(k[2], k[1])'
  BY <1>3, <1>5
<1> QED
  BY <1>1, <1>2, <1>3, <1>6, <1>7, EventComes

LEMMA EmitPingInv ==
    ASSUME OutboxInv, NEW v \in All, NEW e \in Endpoints, EmitPing(v, e)
    PROVE  OutboxInv'
<1> DEFINE new == {<<v, e>>}
<1>1. /\ ~event[v].there /\ v \in Pings /\ since' = since \cup new
      /\ event' = [event EXCEPT ![v] = [there |-> TRUE, queued |-> TRUE, to |-> {e}]]
      /\ endpoint' = [endpoint EXCEPT ![e].pinged = TRUE] /\ endpoint[e].there /\ endpoint[e].active
      /\ UNCHANGED <<delivery, rev, adder, pass, running, again, kick, received>>
  BY DEF EmitPing
<1>2. /\ event' \in [All -> EventRows] /\ event'[v].there /\ event'[v].queued /\ event'[v].to = {e}
      /\ \A w \in All : w # v => event'[w] = event[w]
  BY <1>1 DEF OutboxInv, TablesOK, EventRows
<1>3. /\ endpoint' \in [Endpoints -> EndpointRows]
      /\ \A x \in Endpoints : /\ endpoint'[x].used = endpoint[x].used /\ endpoint'[x].there = endpoint[x].there
                              /\ endpoint'[x].active = endpoint[x].active /\ endpoint'[x].types = endpoint[x].types
  BY <1>1 DEF OutboxInv, TablesOK, EndpointRows
<1>4. new \in SUBSET Keys /\ \A k \in new : k[1] = v /\ k[2] = e
  BY DEF Keys
<1>5. \A k \in new : Wants(k[2], k[1])'
  BY <1>1, <1>2, <1>3, <1>4 DEF Wants
<1> HIDE DEF new
<1>6. \A k \in new : k[1] = v /\ Wants(k[2], k[1])'
  BY <1>4, <1>5
<1> QED
  BY <1>1, <1>2, <1>3, <1>4, <1>6, EventComes

(* Steps that only move the passes and the loop's flags.                   *)
LEMMA PassStep ==
    ASSUME OutboxInv, UNCHANGED <<event, delivery, endpoint, rev, adder, received, since>>,
           kick' \in [Events -> KickStates], \A v \in Events : kick'[v] # "none" => event[v].there,
           running' \in BOOLEAN, again' \in BOOLEAN, PassesOK', KicksHeld'
    PROVE  OutboxInv'
<1> USE DEF OutboxInv
<1>1. TablesOK'
  BY DEF TablesOK
<1>2. RowsOK'
  BY DEF RowsOK, Wants
<1>3. NothingQueuedIsLost'
  BY DEF NothingQueuedIsLost
<1> QED
  BY <1>1, <1>2, <1>3

(* A pass that has read goes on: it keeps its looks, and drops no event it *)
(* found that is still queued, unless its fan-out failed.                  *)
LEMMA LoopMoves ==
    ASSUME OutboxInv, NEW p \in Passes, NEW r, Goes(p, r), r # NoPass, pass[p] # NoPass,
           UNCHANGED <<running, again>>,
           \A v \in Events : kick'[v] = kick[v] \/ kick'[v] = "missed",
           \A v \in All : event'[v].queued => event[v].queued,
           p = KickPass =>
             /\ pass[p].at # "reading" /\ r.looks = pass[p].looks
             /\ \A v \in Events : kick'[v] = "found" /\ event'[v].queued /\ v \in pass[p].events => v \in r.events
    PROVE  KicksHeld'
<1>1. pass'[p] = r /\ \A q \in Passes : q # p => pass'[q] = pass[q]
  BY DEF OutboxInv, PassesOK, Goes
<1>2. KickPass \in Passes /\ Events \subseteq All
  BY DEF Passes, All
<1>3. CASE p = KickPass
  BY <1>1, <1>2, <1>3 DEF OutboxInv, KicksHeld
<1>4. CASE p # KickPass
  BY <1>1, <1>2, <1>4 DEF OutboxInv, KicksHeld
<1> QED
  BY <1>3, <1>4

LEMMA ReadingShape == \A n \in Nat :
    /\ Reading(n) \in PassShape /\ Reading(n) # NoPass /\ Reading(n).at = "reading" /\ Reading(n).looks = n
    /\ Reading(n).events = {} /\ Reading(n).list = {} /\ Reading(n).todo = {} /\ Reading(n).act = {}
<1> SUFFICES ASSUME NEW n \in Nat
             PROVE  /\ Reading(n) \in PassShape /\ Reading(n) # NoPass /\ Reading(n).at = "reading"
                    /\ Reading(n).looks = n
                    /\ Reading(n).events = {} /\ Reading(n).list = {} /\ Reading(n).todo = {} /\ Reading(n).act = {}
  OBVIOUS
<1>1. Reading(n).at = "reading" /\ NoPass.at = "idle"
  BY DEF Reading, NoPass
<1> QED
  BY <1>1 DEF Reading, PassShape

LEMMA StillGrows ==
    ASSUME UNCHANGED <<event, delivery, endpoint, received, since>>
    PROVE  Grows
BY DEF Grows

(* A pass begins or begins again.                                          *)
LEMMA PassBegins ==
    ASSUME OutboxInv, NEW p \in Passes, NEW n \in Nat, Goes(p, Reading(n)),
           UNCHANGED <<event, delivery, endpoint, received, since>>
    PROVE  PassesOK'
BY ReadingShape, StillGrows, PassMoves

LEMMA KickInv ==
    ASSUME OutboxInv, NEW v \in All, Kick(v)
    PROVE  OutboxInv'
<1>1. /\ event[v].there /\ v \in Events /\ kick' = [kick EXCEPT ![v] = "asked"]
      /\ UNCHANGED <<event, delivery, endpoint, rev, adder, received, since>>
  BY DEF Kick
<1>2. /\ kick' \in [Events -> KickStates] /\ kick'[v] = "asked"
      /\ \A w \in Events : w # v => kick'[w] = kick[w]
  BY <1>1 DEF OutboxInv, TablesOK, KickStates
<1>2a. \A w \in Events : kick'[w] # "none" => event[w].there
  BY <1>1, <1>2 DEF OutboxInv, RowsOK
<1>3. CASE running
  <2>1. again' = TRUE /\ UNCHANGED <<running, pass>>
    BY <1>3 DEF Kick
  <2>2. PassesOK'
    BY <1>1, <2>1, StillGrows, PassesHold
  <2>3. KicksHeld'
    BY <2>1, <1>1, <1>2, <1>3 DEF KicksHeld, OutboxInv
  <2> QED
    BY <1>1, <1>2, <1>2a, <1>3, <2>1, <2>2, <2>3, PassStep
<1>4. CASE ~running
  <2>1. running' = TRUE /\ Goes(KickPass, Reading(KickRetries)) /\ again' = again /\ KickPass \in Passes
    BY <1>4 DEF Kick, Goes, Passes
  <2>2. PassesOK'
    BY <1>1, <2>1, PassBegins, OutboxAssumption
  <2>3. pass'[KickPass] = Reading(KickRetries)
    BY <2>1 DEF Goes, OutboxInv, PassesOK
  <2>4. KicksHeld'
    BY <1>1, <1>2, <1>4, <2>1, <2>3, ReadingShape, OutboxAssumption DEF OutboxInv, KicksHeld
  <2>5. again' \in BOOLEAN /\ running' \in BOOLEAN
    BY <2>1 DEF OutboxInv, TablesOK
  <2> QED
    BY <1>1, <1>2, <1>2a, <2>2, <2>4, <2>5, PassStep
<1> QED
  BY <1>3, <1>4

LEMMA StartJobInv ==
    ASSUME OutboxInv, StartJob
    PROVE  OutboxInv'
<1>1. /\ Goes(Job, Reading(0)) /\ Job \in Passes /\ KickPass \in Passes /\ Job # KickPass
      /\ UNCHANGED <<event, delivery, endpoint, rev, adder, running, again, kick, received, since>>
  BY OutboxAssumption DEF StartJob, Goes, Passes
<1>2. PassesOK'
  BY <1>1, PassBegins
<1>3. pass'[KickPass] = pass[KickPass]
  BY <1>1 DEF Goes, OutboxInv, PassesOK
<1>4. KicksHeld'
  BY <1>1, <1>3 DEF KicksHeld, OutboxInv
<1> QED
  BY <1>1, <1>2, <1>4, PassStep DEF OutboxInv, TablesOK, RowsOK

(* A pass stops: what it held is gone with it.                             *)
LEMMA PassStops ==
    ASSUME OutboxInv, NEW p \in Passes, Goes(p, NoPass),
           UNCHANGED <<event, delivery, endpoint, received, since>>
    PROVE  PassesOK'
BY StillGrows, PassMoves

LEMMA PassDiesInv ==
    ASSUME OutboxInv, NEW p \in Passes, PassDies(p)
    PROVE  OutboxInv'
<1>1. /\ Goes(p, NoPass) /\ KickPass \in Passes
      /\ UNCHANGED <<event, delivery, endpoint, rev, adder, received, since>>
  BY DEF PassDies, Goes, Passes
<1>2. PassesOK'
  BY <1>1, PassStops
<1>3. pass'[p] = NoPass /\ \A q \in Passes : q # p => pass'[q] = pass[q]
  BY <1>1 DEF Goes, OutboxInv, PassesOK
<1>4. CASE p = KickPass
  <2>1. running' = FALSE /\ again' = FALSE /\ kick' = [v \in Events |-> "none"]
    BY <1>4 DEF PassDies
  <2>2. KicksHeld'
    BY <1>3, <1>4, <2>1 DEF KicksHeld
  <2>3. kick' \in [Events -> KickStates] /\ \A v \in Events : kick'[v] = "none"
    BY <2>1 DEF KickStates
  <2> QED
    BY <1>1, <1>2, <2>1, <2>2, <2>3, PassStep
<1>5. CASE p # KickPass
  <2>1. UNCHANGED <<running, again, kick>>
    BY <1>5 DEF PassDies
  <2>2. KicksHeld'
    BY <1>1, <1>3, <1>5, <2>1 DEF KicksHeld, OutboxInv
  <2> QED
    BY <1>1, <1>2, <2>1, <2>2, PassStep DEF OutboxInv, TablesOK, RowsOK
<1> QED
  BY <1>4, <1>5

(* What is known of a pass that runs.                                      *)
LEMMA InPass ==
    ASSUME OutboxInv, NEW p \in Passes, pass[p] # NoPass
    PROVE  /\ pass[p] \in PassShape
           /\ \A d \in pass[p].todo : d \in Reads /\ delivery[d.key].there
           /\ \A x \in pass[p].act : /\ x.of \in Reads /\ x.run \in Nat /\ delivery[x.of.key].there
                                     /\ x.step # "post" => x \in LaterActs
                                     /\ x.step # "post" /\ x.ok => x.of.key \in received
           /\ \A v \in pass[p].events : v \in All /\ event[v].there
           /\ pass[p].at = "rows" => \A k \in since : k[1] \in pass[p].events => k \in pass[p].list
           /\ \A k \in pass[p].list : k \in Keys /\ endpoint[k[2]].used
           /\ pass[p].at \in {"reading", "fresh", "backlog"} => pass[p].events = {} /\ (pass[p].at = "reading" => pass[p].act = {})
<1>1. PassOK(pass[p])
  BY DEF OutboxInv, PassesOK
<1>2. pass[p] \in PassShape
  BY <1>1 DEF PassOK
<1>3. \A x \in pass[p].act : x \in PostActs \cup LaterActs
  BY <1>2 DEF PassShape
<1>4. \A x \in pass[p].act : x.of \in Reads /\ x.run \in Nat /\ (x.step # "post" => x \in LaterActs)
  BY <1>3 DEF PostActs, LaterActs
<1>5. /\ \A d \in pass[p].todo : d \in Reads
      /\ \A v \in pass[p].events : v \in All
      /\ \A k \in pass[p].list : k \in Keys
  BY <1>2 DEF PassShape
<1> QED
  BY <1>1, <1>2, <1>4, <1>5 DEF PassOK

LEMMA Awake == \A p : pass[p].at # "idle" => pass[p] # NoPass
BY DEF NoPass

(* The parts of a pass's step that only moves the pass.                    *)
LEMMA OnlyPassMoves ==
    ASSUME OutboxInv, NEW p \in Passes, NEW r, Goes(p, r), pass[p] # NoPass,
           UNCHANGED <<event, delivery, endpoint, rev, adder, running, again, kick, received, since>>,
           r \in PassShape, r # NoPass,
           \A d \in r.todo : delivery[d.key].there,
           \A x \in r.act : /\ delivery[x.of.key].there
                            /\ x.step # "post" /\ x.ok => x.of.key \in received,
           \A v \in r.events : event[v].there,
           r.at = "rows" => \A k \in since : k[1] \in r.events => k \in r.list,
           \A k \in r.list : endpoint[k[2]].used,
           r.at \in {"reading", "fresh", "backlog"} => r.events = {} /\ (r.at = "reading" => r.act = {}),
           pass[p].at # "reading", r.looks = pass[p].looks,
           \A v \in Events : kick[v] = "found" /\ event[v].queued /\ v \in pass[p].events => v \in r.events
    PROVE  OutboxInv'
<1>1. PassesOK'
  BY StillGrows, PassMoves
<1>2. KicksHeld'
  BY LoopMoves
<1> QED
  BY <1>1, <1>2, PassStep DEF OutboxInv, TablesOK, RowsOK

LEMMA PendingEventsInv ==
    ASSUME OutboxInv, NEW p \in Passes, PendingEvents(p)
    PROVE  OutboxInv'
<1>1. PICK got \in SUBSET {v \in All : event[v].there} :
        /\ Goes(p, [pass[p] EXCEPT !.at = IF got = {} THEN "rows" ELSE "listing", !.events = got,
                      !.looks = IF got = {} THEN @ ELSE 0])
        /\ kick' = IF p = KickPass THEN [v \in Events |-> Sought(p, got, v)] ELSE kick
  BY DEF PendingEvents
<1>2. /\ pass[p].at = "reading" /\ pass[p] # NoPass
      /\ UNCHANGED <<event, delivery, endpoint, rev, adder, running, again, received, since>>
  BY Awake DEF PendingEvents, Sits
<1>3. PICK r : Goes(p, r) /\ r = [pass[p] EXCEPT !.at = IF got = {} THEN "rows" ELSE "listing", !.events = got,
                                     !.looks = IF got = {} THEN @ ELSE 0]
  BY <1>1
<1>4. pass[p] \in PassShape /\ pass[p].looks \in Nat
  BY <1>2, InPass DEF PassShape
<1>5. /\ r \in PassShape /\ r.at \in {"rows", "listing"} /\ r.events = got /\ (r.at = "rows" => got = {})
      /\ r.looks = (IF got = {} THEN pass[p].looks ELSE 0)
      /\ r.list = pass[p].list /\ r.todo = pass[p].todo /\ r.act = pass[p].act
  BY <1>3, <1>4 DEF PassShape
<1>6. r # NoPass
  BY <1>5 DEF NoPass
<1>7. \A v \in r.events : v \in All /\ event[v].there
  BY <1>5
<1>8. /\ \A d \in r.todo : delivery[d.key].there
      /\ \A x \in r.act : /\ delivery[x.of.key].there
                          /\ x.step # "post" /\ x.ok => x.of.key \in received
      /\ \A k \in r.list : endpoint[k[2]].used
      /\ r.at = "rows" => \A k \in since : k[1] \in r.events => k \in r.list
      /\ r.at \notin {"reading", "fresh", "backlog"}
  BY <1>2, <1>5, InPass
<1>9. PassesOK'
  BY <1>2, <1>3, <1>5, <1>6, <1>7, <1>8, StillGrows, PassMoves
<1>10. pass'[p] = r /\ \A q \in Passes : q # p => pass'[q] = pass[q]
  BY <1>3 DEF OutboxInv, PassesOK, Goes
<1>11. CASE p = KickPass
  <2>1. \A v \in Events : kick'[v] = Sought(p, got, v)
    BY <1>1, <1>11
  <2>2. \A v \in Events : Sought(p, got, v) \in {kick[v], "found", "missed", "seeking"}
                          /\ (kick[v] = "none" => Sought(p, got, v) = "none")
    BY DEF Sought, Seeks
  <2>3. kick' \in [Events -> KickStates] /\ \A v \in Events : kick'[v] # "none" => event[v].there
    BY <1>1, <1>11, <2>1, <2>2 DEF OutboxInv, TablesOK, RowsOK, KickStates
  <2>4. running /\ pass[p].events = {}
    BY <1>2, <1>11, InPass DEF OutboxInv, KicksHeld
  <2>5. ASSUME NEW v \in Events
        PROVE  /\ kick'[v] = "asked" => again
               /\ kick'[v] = "seeking" => r.looks > 0
               /\ kick'[v] = "found" /\ event[v].queued => v \in r.events
    <3>1. CASE ~Seeks(p, v)
      <4>1. kick'[v] = kick[v] /\ kick[v] # "seeking" /\ (kick[v] = "asked" => pass[p].looks # KickRetries)
        BY <2>1, <3>1 DEF Sought, Seeks
      <4> QED
        BY <1>11, <2>4, <4>1 DEF OutboxInv, KicksHeld
    <3>2. CASE Seeks(p, v)
      <4>1. /\ kick'[v] # "asked"
            /\ kick'[v] = "found" => v \in got
            /\ kick'[v] = "seeking" => got = {} /\ pass[p].looks # 0
        BY <2>1, <3>2 DEF Sought
      <4> QED
        BY <1>4, <1>5, <4>1
    <3> QED
      BY <3>1, <3>2
  <2>6. KicksHeld'
    BY <1>2, <1>6, <1>10, <1>11, <2>4, <2>5 DEF OutboxInv, KicksHeld
  <2> QED
    BY <1>2, <1>9, <2>3, <2>6, PassStep DEF OutboxInv, TablesOK
<1>12. CASE p # KickPass
  <2>1. kick' = kick
    BY <1>1, <1>12
  <2>2. KicksHeld'
    BY <1>2, <1>10, <1>12, <2>1 DEF OutboxInv, KicksHeld, Passes
  <2> QED
    BY <1>2, <1>9, <2>1, <2>2, PassStep DEF OutboxInv, TablesOK, RowsOK
<1> QED
  BY <1>11, <1>12

LEMMA ListEndpointsInv ==
    ASSUME OutboxInv, NEW p \in Passes, ListEndpoints(p)
    PROVE  OutboxInv'
<1> DEFINE wanted == {k \in pass[p].events \X Endpoints : Wants(k[2], k[1])}
<1>1. PICK r : Goes(p, r) /\ r = [pass[p] EXCEPT !.at = "rows", !.list = wanted]
  BY DEF ListEndpoints
<1>2. /\ pass[p].at = "listing" /\ pass[p] # NoPass
      /\ UNCHANGED <<event, delivery, endpoint, rev, adder, running, again, kick, received, since>>
  BY Awake DEF ListEndpoints, Sits, PassVars
<1>3. pass[p] \in PassShape
  BY <1>2, InPass
<1>4. pass[p].events \subseteq All
  BY <1>3 DEF PassShape
<1>5. wanted \subseteq Keys /\ \A k \in wanted : endpoint[k[2]].used
  <2>1. wanted \subseteq Keys
    BY <1>4 DEF Keys
  <2>2. \A k \in wanted : k[2] \in Endpoints /\ endpoint[k[2]].there
    BY DEF Wants
  <2> QED
    BY <2>1, <2>2 DEF OutboxInv, RowsOK
<1>6. \A k \in since : k[1] \in pass[p].events => k \in wanted
  <2> SUFFICES ASSUME NEW k \in since, k[1] \in pass[p].events PROVE k \in wanted
    OBVIOUS
  <2>1. k = <<k[1], k[2]>> /\ k[2] \in Endpoints /\ Wants(k[2], k[1])
    BY KeyParts DEF OutboxInv, RowsOK, TablesOK
  <2>2. k \in pass[p].events \X Endpoints
    BY <2>1
  <2> QED
    BY <2>1, <2>2
<1> HIDE DEF wanted
<1>7. /\ r \in PassShape /\ r.at = "rows" /\ r.list = wanted /\ r.looks = pass[p].looks
      /\ r.events = pass[p].events /\ r.todo = pass[p].todo /\ r.act = pass[p].act
  BY <1>1, <1>3, <1>5 DEF PassShape
<1>8. r # NoPass
  BY <1>7 DEF NoPass
<1>9. /\ \A k \in since : k[1] \in r.events => k \in r.list
      /\ \A k \in r.list : endpoint[k[2]].used
      /\ \A v \in Events : kick[v] = "found" /\ event[v].queued /\ v \in pass[p].events => v \in r.events
  BY <1>2, <1>5, <1>6, <1>7
<1> QED
  BY <1>1, <1>2, <1>7, <1>8, <1>9, InPass, OnlyPassMoves

LEMMA FannedOutInv ==
    ASSUME OutboxInv, NEW p \in Passes, FannedOut(p)
    PROVE  OutboxInv'
<1> DEFINE tried == {d.key : d \in pass[p].todo}
<1>1. PICK r : Goes(p, r) /\ r = [pass[p] EXCEPT !.at = "fresh", !.list = {}, !.tried = tried]
  BY DEF FannedOut
<1>2. /\ pass[p].at = "rows" /\ pass[p].events = {} /\ pass[p] # NoPass
      /\ UNCHANGED <<event, delivery, endpoint, rev, adder, running, again, kick, received, since>>
  BY Awake DEF FannedOut, Sits, PassVars
<1>3. pass[p] \in PassShape /\ \A d \in pass[p].todo : d \in Reads
  BY <1>2, InPass
<1>4. tried \subseteq Keys
  BY <1>3 DEF Reads
<1> HIDE DEF tried
<1>5. /\ r \in PassShape /\ r.at = "fresh" /\ r.list = {} /\ r.looks = pass[p].looks
      /\ r.events = {} /\ r.todo = pass[p].todo /\ r.act = pass[p].act
  BY <1>1, <1>2, <1>3, <1>4 DEF PassShape
<1>6. r # NoPass
  BY <1>5 DEF NoPass
<1>7. /\ r.at # "rows"
      /\ \A v \in Events : kick[v] = "found" /\ event[v].queued /\ v \in pass[p].events => v \in r.events
  BY <1>2, <1>5
<1> QED
  BY <1>1, <1>2, <1>5, <1>6, <1>7, InPass, OnlyPassMoves

LEMMA DueDeliveriesInv ==
    ASSUME OutboxInv, NEW p \in Passes, NEW due \in SUBSET Queued, DueDeliveries(p, due)
    PROVE  OutboxInv'
<1> DEFINE todo == {Read(k) : k \in due}
<1>1. PICK r : Goes(p, r) /\ r = [pass[p] EXCEPT !.at = "backlog", !.tried = {}, !.todo = todo]
  BY DEF DueDeliveries
<1>2. /\ pass[p].at = "fresh" /\ pass[p] # NoPass /\ pass[p].act = {}
      /\ UNCHANGED <<event, delivery, endpoint, rev, adder, running, again, kick, received, since>>
  BY Awake DEF DueDeliveries, Finished, Sits, PassVars
<1>3. pass[p] \in PassShape /\ pass[p].events = {}
  BY <1>2, InPass
<1>4. \A k \in due : k \in Keys /\ delivery[k].there /\ delivery[k].attempts \in Nat
  <2>1. \A k \in due : k \in Keys /\ delivery[k].there
    BY DEF Queued
  <2>2. \A k \in Keys : delivery[k].there => delivery[k] \in Rows
    BY DEF OutboxInv, TablesOK, NoRow
  <2> QED
    BY <2>1, <2>2 DEF Rows
<1>5. \A d \in todo : d \in Reads /\ delivery[d.key].there
  BY <1>4 DEF Read, Reads
<1> HIDE DEF todo
<1>6. /\ r \in PassShape /\ r.at = "backlog" /\ r.list = pass[p].list /\ r.looks = pass[p].looks
      /\ r.events = {} /\ r.todo = todo /\ r.act = {}
  BY <1>1, <1>2, <1>3, <1>5 DEF PassShape
<1>7. r # NoPass
  BY <1>6 DEF NoPass
<1>8. /\ r.at # "rows"
      /\ \A d \in r.todo : delivery[d.key].there
      /\ \A v \in Events : kick[v] = "found" /\ event[v].queued /\ v \in pass[p].events => v \in r.events
  BY <1>2, <1>3, <1>5, <1>6
<1> QED
  BY <1>1, <1>2, <1>6, <1>7, <1>8, InPass, OnlyPassMoves

LEMMA PassEndsInv ==
    ASSUME OutboxInv, NEW p \in Passes, PassEnds(p)
    PROVE  OutboxInv'
<1>1. /\ pass[p].at = "backlog" /\ pass[p] # NoPass /\ EndOfPass(p) /\ KickPass \in Passes
      /\ UNCHANGED <<event, delivery, endpoint, rev, adder, kick, received, since>>
  BY Awake DEF PassEnds, Finished, Sits, PassVars, Passes
<1>2. pass[p].events = {} /\ pass[p].looks \in Nat
  BY <1>1, InPass DEF PassShape
<1>3. /\ kick' \in [Events -> KickStates] /\ running \in BOOLEAN /\ again \in BOOLEAN
      /\ \A v \in Events : kick'[v] # "none" => event[v].there
  BY <1>1 DEF OutboxInv, TablesOK, RowsOK
<1>4. ASSUME NEW r, Goes(p, r) PROVE pass'[p] = r /\ \A q \in Passes : q # p => pass'[q] = pass[q]
  BY <1>4 DEF Goes, OutboxInv, PassesOK
<1>5. CASE pass[p].looks > 0
  <2> DEFINE n == pass[p].looks - 1
  <2>1. Goes(p, Reading(n)) /\ UNCHANGED <<running, again>>
    BY <1>1, <1>5 DEF EndOfPass, Goes
  <2>1a. n \in Nat
    BY <1>2, <1>5
  <2> HIDE DEF n
  <2>2. PassesOK'
    BY <1>1, <2>1, <2>1a, PassBegins
  <2>3. pass'[p] = Reading(n) /\ \A q \in Passes : q # p => pass'[q] = pass[q]
    BY <1>4, <2>1
  <2>4. KicksHeld'
    <3>1. CASE p = KickPass
      BY <1>1, <1>2, <2>1, <2>1a, <2>3, <3>1, ReadingShape DEF KicksHeld, OutboxInv
    <3>2. CASE p # KickPass
      BY <1>1, <2>1, <2>3, <3>2 DEF KicksHeld, OutboxInv
    <3> QED
      BY <3>1, <3>2
  <2> QED
    BY <1>1, <1>3, <2>1, <2>2, <2>4, PassStep
<1>6. CASE ~(pass[p].looks > 0) /\ p = KickPass /\ again
  <2>1. Goes(p, Reading(KickRetries)) /\ again' = FALSE /\ running' = running
    BY <1>1, <1>6 DEF EndOfPass, Goes
  <2>2. PassesOK'
    BY <1>1, <2>1, PassBegins, OutboxAssumption
  <2>3. pass'[KickPass] = Reading(KickRetries)
    BY <1>4, <1>6, <2>1
  <2>4. KicksHeld'
    BY <1>1, <1>2, <1>6, <2>1, <2>3, ReadingShape, OutboxAssumption DEF KicksHeld, OutboxInv
  <2> QED
    BY <1>1, <1>3, <2>1, <2>2, <2>4, PassStep
<1>7. CASE ~(pass[p].looks > 0) /\ p = KickPass /\ ~again
  <2>1. Goes(p, NoPass) /\ again' = again /\ running' = FALSE
    BY <1>1, <1>7 DEF EndOfPass, Goes
  <2>2. PassesOK'
    BY <1>1, <2>1, PassStops
  <2>3. pass'[KickPass] = NoPass
    BY <1>4, <1>7, <2>1
  <2>4. \A v \in Events : kick[v] \notin {"asked", "seeking"} /\ ~(kick[v] = "found" /\ event[v].queued)
    BY <1>1, <1>2, <1>7 DEF KicksHeld, OutboxInv
  <2>5. KicksHeld'
    BY <1>1, <1>7, <2>1, <2>3, <2>4 DEF KicksHeld
  <2> QED
    BY <1>1, <1>3, <2>1, <2>2, <2>5, PassStep
<1>8. CASE ~(pass[p].looks > 0) /\ p # KickPass
  <2>1. Goes(p, NoPass) /\ again' = again /\ running' = running
    BY <1>1, <1>8 DEF EndOfPass, Goes
  <2>2. PassesOK'
    BY <1>1, <2>1, PassStops
  <2>3. pass'[KickPass] = pass[KickPass]
    BY <1>1, <1>4, <1>8, <2>1
  <2>4. KicksHeld'
    BY <1>1, <2>1, <2>3 DEF KicksHeld, OutboxInv
  <2> QED
    BY <1>1, <1>3, <2>1, <2>2, <2>4, PassStep
<1> QED
  BY <1>5, <1>6, <1>7, <1>8

(* What failed stays queued, and leaves the round's hands.                 *)
LEMMA FanOutFailsInv ==
    ASSUME OutboxInv, NEW p \in Passes, NEW v \in All, FanOutFails(p, v)
    PROVE  OutboxInv'
<1> DEFINE rest == pass[p].events \ {v}
<1>1. /\ pass[p].at \in {"listing", "rows"} /\ pass[p] # NoPass
      /\ UNCHANGED <<event, delivery, endpoint, rev, adder, running, again, received, since>>
  BY Awake DEF FanOutFails
<1>2. PICK r : Goes(p, r) /\ r = [pass[p] EXCEPT !.at = IF rest = {} THEN "rows" ELSE @, !.events = rest]
  BY DEF FanOutFails
<1>3. kick' = IF p = KickPass /\ v \in Events /\ kick[v] = "found" THEN [kick EXCEPT ![v] = "missed"] ELSE kick
  BY DEF FanOutFails
<1>4. pass[p] \in PassShape
  BY <1>1, InPass
<1>5. /\ r \in PassShape /\ r.events = rest /\ r.looks = pass[p].looks
      /\ r.at \in {"listing", "rows"} /\ (r.at = "rows" => rest = {} \/ pass[p].at = "rows")
      /\ r.list = pass[p].list /\ r.todo = pass[p].todo /\ r.act = pass[p].act
  BY <1>1, <1>2, <1>4 DEF PassShape
<1>6. r # NoPass
  BY <1>5 DEF NoPass
<1>7. rest \subseteq pass[p].events /\ v \notin rest /\ \A w \in pass[p].events : w # v => w \in rest
  OBVIOUS
<1> HIDE DEF rest
<1>8. /\ \A d \in r.todo : delivery[d.key].there
      /\ \A x \in r.act : /\ delivery[x.of.key].there
                          /\ x.step # "post" /\ x.ok => x.of.key \in received
      /\ \A k \in r.list : endpoint[k[2]].used
      /\ \A w \in r.events : event[w].there
      /\ r.at = "rows" => \A k \in since : k[1] \in r.events => k \in r.list
      /\ r.at \notin {"reading", "fresh", "backlog"}
  BY <1>1, <1>5, <1>7, InPass
<1>9. PassesOK'
  BY <1>1, <1>2, <1>5, <1>6, <1>8, StillGrows, PassMoves
<1>10. /\ kick' \in [Events -> KickStates]
       /\ \A w \in Events : kick'[w] = kick[w] \/ (kick[w] = "found" /\ kick'[w] = "missed")
       /\ p = KickPass /\ v \in Events => kick'[v] # "found"
  BY <1>3 DEF OutboxInv, TablesOK, KickStates
<1>11. \A w \in Events : kick'[w] # "none" => event[w].there
  BY <1>10 DEF OutboxInv, RowsOK
<1>12. KicksHeld'
  <2>1. p = KickPass =>
          \A w \in Events : kick'[w] = "found" /\ event'[w].queued /\ w \in pass[p].events => w \in r.events
    BY <1>5, <1>7, <1>10
  <2>2. \A w \in Events : kick'[w] = kick[w] \/ kick'[w] = "missed"
    BY <1>10
  <2>3. pass[p].at # "reading" /\ \A w \in All : event'[w].queued => event[w].queued
    BY <1>1
  <2> QED
    BY <1>1, <1>2, <1>5, <1>6, <2>1, <2>2, <2>3, LoopMoves
<1> QED
  BY <1>1, <1>9, <1>10, <1>11, <1>12, PassStep DEF OutboxInv, TablesOK

LEMMA FanOutRowsInv ==
    ASSUME OutboxInv, NEW p \in Passes, NEW v \in All, FanOutRows(p, v)
    PROVE  OutboxInv'
<1> DEFINE keys == {k \in pass[p].list : k[1] = v}
           made == FanOutGuard(v) /\ \A k \in keys : ~delivery[k].there
           new == [there |-> TRUE, status |-> "pending", attempts |-> 0, queued |-> TRUE]
           more == {[key |-> k, attempts |-> 0] : k \in keys}
<1>1. /\ pass[p].at = "rows" /\ pass[p] # NoPass /\ v \in pass[p].events
      /\ UNCHANGED <<endpoint, rev, adder, running, again, kick, received, since>>
  BY Awake DEF FanOutRows, Sits, PassVars
<1>2. /\ pass[p] \in PassShape
      /\ \A k \in since : k[1] \in pass[p].events => k \in pass[p].list
      /\ \A k \in pass[p].list : k \in Keys /\ endpoint[k[2]].used
      /\ \A w \in pass[p].events : w \in All /\ event[w].there
  BY <1>1, InPass
<1>3. keys \subseteq Keys /\ \A k \in keys : k[1] = v /\ k \in pass[p].list
  BY <1>2
<1>4. \A k \in since : k[1] = v => k \in keys
  BY <1>1, <1>2
<1>5. more \subseteq Reads /\ \A d \in more : d.key \in keys
  BY <1>3 DEF Reads
<1>6. CASE made
  <2>1. PICK r : Goes(p, r) /\ r = [pass[p] EXCEPT !.events = @ \ {v}, !.todo = @ \cup more]
    BY <1>6 DEF FanOutRows
  <2>2. /\ delivery' = [k \in Keys |-> IF k \in keys THEN new ELSE delivery[k]]
        /\ event' = [event EXCEPT ![v].queued = FALSE]
    BY <1>6 DEF FanOutRows
  <2>3. new \in Rows /\ new.there /\ new.queued
    BY DEF Rows
  <2> HIDE DEF keys, more, made, new
  <2>4. /\ r \in PassShape /\ r.at = "rows" /\ r.events = pass[p].events \ {v}
        /\ r.list = pass[p].list /\ r.act = pass[p].act /\ r.todo = pass[p].todo \cup more /\ r.looks = pass[p].looks
    BY <1>1, <1>2, <1>5, <2>1 DEF PassShape
  <2>5. r # NoPass
    BY <2>4 DEF NoPass
  <2>6. /\ delivery' \in [Keys -> {NoRow} \cup Rows]
        /\ \A k \in Keys : delivery'[k] = IF k \in keys THEN new ELSE delivery[k]
    BY <2>2, <2>3 DEF OutboxInv, TablesOK
  <2>7. /\ event' \in [All -> EventRows] /\ ~event'[v].queued /\ event'[v].there = event[v].there
        /\ \A w \in All : w # v => event'[w] = event[w]
    BY <2>2 DEF OutboxInv, TablesOK, EventRows
  <2>8. TablesOK'
    BY <1>1, <2>6, <2>7 DEF OutboxInv, TablesOK
  <2>9. Grows
    <3>1. \A k \in Keys : delivery[k].there => delivery'[k].there
      BY <2>3, <2>6
    <3>2. \A w \in All : event[w].there => event'[w].there
      BY <2>7
    <3> QED
      BY <1>1, <3>1, <3>2 DEF Grows
  <2>10. PassesOK'
    <3>1. \A d \in r.todo : delivery'[d.key].there
      <4>1. \A d \in pass[p].todo : d.key \in Keys /\ delivery[d.key].there
        BY <1>1, InPass DEF Reads
      <4>2. \A d \in more : delivery'[d.key].there
        BY <1>3, <1>5, <2>3, <2>6
      <4> QED
        BY <2>4, <2>9, <4>1, <4>2 DEF Grows
    <3>2. \A x \in r.act : /\ delivery'[x.of.key].there
                           /\ x.step # "post" /\ x.ok => x.of.key \in received'
      <4>1. \A x \in pass[p].act : /\ x.of.key \in Keys /\ delivery[x.of.key].there
                                   /\ x.step # "post" /\ x.ok => x.of.key \in received
        BY <1>1, InPass DEF Reads
      <4> QED
        BY <1>1, <2>4, <2>9, <4>1 DEF Grows
    <3>3. \A w \in r.events : event'[w].there
      BY <1>2, <2>4, <2>7
    <3>4. \A k \in since' : k[1] \in r.events => k \in r.list
      BY <1>1, <1>2, <2>4
    <3>5. \A k \in r.list : endpoint'[k[2]].used
      BY <1>1, <1>2, <2>4
    <3>6. r.at \notin {"fresh", "backlog"}
      BY <2>4
    <3> QED
      BY <2>1, <2>4, <2>5, <2>9, <3>1, <3>2, <3>3, <3>4, <3>5, <3>6, PassMoves
  <2>11. KicksHeld'
    <3>1. \A w \in All : event'[w].queued => event[w].queued
      BY <2>7
    <3>2. \A w \in Events : event'[w].queued /\ w \in pass[p].events => w \in r.events
      BY <1>1, <2>4, <2>7
    <3> QED
      BY <1>1, <2>1, <2>4, <2>5, <3>1, <3>2, LoopMoves
  <2>12. RowsOK'
    <3>1. ASSUME NEW k \in Keys, delivery'[k].there
          PROVE  event'[k[1]].there /\ ~event'[k[1]].queued /\ endpoint'[k[2]].used
      <4>1. CASE k \in keys
        BY <1>1, <1>2, <1>3, <2>7, <4>1
      <4>2. CASE k \notin keys
        <5>1. delivery[k].there /\ k[1] \in All
          BY <2>6, <3>1, <4>2, KeyParts
        <5> QED
          BY <1>1, <2>7, <5>1 DEF OutboxInv, RowsOK
      <4> QED
        BY <4>1, <4>2
    <3>2. \A k \in since' : Wants(k[2], k[1])' /\ event'[k[1]].there
      <4> SUFFICES ASSUME NEW k \in since PROVE Wants(k[2], k[1])' /\ event'[k[1]].there
        BY <1>1
      <4>1. k[1] \in All /\ Wants(k[2], k[1]) /\ event[k[1]].there
        BY KeyParts DEF OutboxInv, RowsOK, TablesOK
      <4>2. event'[k[1]].to = event[k[1]].to /\ event'[k[1]].there
        BY <2>2, <4>1 DEF OutboxInv, TablesOK, EventRows
      <4> QED
        BY <1>1, <4>1, <4>2 DEF Wants
    <3>3. \A w \in All : event'[w].queued => event'[w].there
      BY <2>7 DEF OutboxInv, RowsOK
    <3>4. \A w \in Events : kick'[w] # "none" => event'[w].there
      BY <1>1, <2>9 DEF OutboxInv, RowsOK, All, Grows
    <3> QED
      BY <1>1, <3>1, <3>2, <3>3, <3>4 DEF OutboxInv, RowsOK
  <2>13. NothingQueuedIsLost'
    <3>1. ASSUME NEW k \in since, ~event'[k[1]].queued PROVE delivery'[k].there
      <4>1. k \in Keys /\ k[1] \in All
        BY KeyParts DEF OutboxInv, TablesOK
      <4>2. CASE k[1] = v
        BY <1>4, <2>3, <2>6, <4>1, <4>2
      <4>3. CASE k[1] # v
        BY <2>7, <2>9, <3>1, <4>1, <4>3 DEF OutboxInv, NothingQueuedIsLost, Grows
      <4> QED
        BY <4>2, <4>3
    <3>2. \A k \in Keys : delivery'[k].there /\ ~delivery'[k].queued =>
            \/ k \in received
            \/ ~endpoint[k[2]].active
            \/ delivery'[k].status = "failed" /\ delivery'[k].attempts >= MaxDeliveryAttempts
      BY <2>3, <2>6 DEF OutboxInv, NothingQueuedIsLost
    <3> QED
      BY <1>1, <3>1, <3>2 DEF NothingQueuedIsLost
  <2> QED
    BY <2>8, <2>10, <2>11, <2>12, <2>13 DEF OutboxInv
<1>7. CASE ~made
  <2>1. PICK r : Goes(p, r) /\ r = [pass[p] EXCEPT !.events = @ \ {v}, !.todo = @]
    BY <1>7 DEF FanOutRows
  <2>2. UNCHANGED <<delivery, event>>
    BY <1>7 DEF FanOutRows
  <2>3. ~event[v].queued
    BY <1>3, <1>7 DEF FanOutGuard, OutboxInv, RowsOK
  <2>4. /\ r \in PassShape /\ r.at = "rows" /\ r.events = pass[p].events \ {v}
        /\ r.list = pass[p].list /\ r.act = pass[p].act /\ r.todo = pass[p].todo /\ r.looks = pass[p].looks
    BY <1>1, <1>2, <2>1 DEF PassShape
  <2>5. r # NoPass
    BY <2>4 DEF NoPass
  <2>6. /\ \A d \in r.todo : delivery[d.key].there
        /\ \A x \in r.act : /\ delivery[x.of.key].there
                            /\ x.step # "post" /\ x.ok => x.of.key \in received
    BY <1>1, <2>4, InPass
  <2>7. /\ \A w \in r.events : event[w].there
        /\ \A k \in since : k[1] \in r.events => k \in r.list
        /\ \A k \in r.list : endpoint[k[2]].used
        /\ r.at \notin {"fresh", "backlog"}
        /\ pass[p].at # "reading"
        /\ \A w \in Events : kick[w] = "found" /\ event[w].queued /\ w \in pass[p].events => w \in r.events
    BY <1>1, <1>2, <2>3, <2>4
  <2> HIDE DEF keys, more, made, new
  <2> QED
    BY <1>1, <2>1, <2>2, <2>4, <2>5, <2>6, <2>7, OnlyPassMoves
<1> QED
  BY <1>6, <1>7

(* What a mark may do to the rows: leave them, or put one that was there   *)
(* back on the queue or off it for a reason.                               *)
MayWrite(k, row) ==
    /\ delivery[k].there
    /\ \/ row.queued \/ k \in received \/ ~endpoint[k[2]].active
       \/ row.status = "failed" /\ row.attempts >= MaxDeliveryAttempts

Writes ==
    \/ UNCHANGED delivery
    \/ \E k \in Keys, row \in Rows : MayWrite(k, row) /\ delivery' = [delivery EXCEPT ![k] = row]

LEMMA RowThere ==
    ASSUME OutboxInv, NEW d \in Reads, delivery[d.key].there
    PROVE  d.key \in Keys /\ d.attempts \in Nat /\ delivery[d.key] \in Rows
<1>1. d.key \in Keys /\ d.attempts \in Nat
  BY DEF Reads
<1> QED
  BY <1>1 DEF OutboxInv, TablesOK, NoRow

LEMMA DeliveredWrites ==
    ASSUME OutboxInv, NEW d \in Reads, delivery[d.key].there, d.key \in received, MarkDelivered(d)
    PROVE  Writes
<1> DEFINE row == [there |-> TRUE, status |-> "delivered", attempts |-> d.attempts + 1, queued |-> FALSE]
<1>1. d.key \in Keys /\ row \in Rows
  <2>1. d.attempts + 1 \in Nat /\ d.key \in Keys
    BY RowThere
  <2> QED
    BY <2>1 DEF Rows
<1>2. delivery' = [delivery EXCEPT ![d.key] = row]
  BY DEF MarkDelivered
<1> HIDE DEF row
<1> QED
  BY <1>1, <1>2 DEF Writes, MayWrite

LEMMA FailedWrites ==
    ASSUME OutboxInv, NEW d \in Reads, delivery[d.key].there, MarkAttemptFailed(d)
    PROVE  Writes
<1>1. d.key \in Keys /\ d.attempts \in Nat /\ delivery[d.key] \in Rows
  BY RowThere
<1>2. CASE d.attempts + 1 >= MaxDeliveryAttempts
  <2> DEFINE row == [there |-> TRUE, status |-> "failed", attempts |-> d.attempts + 1, queued |-> FALSE]
  <2>1. row \in Rows /\ row.status = "failed" /\ row.attempts >= MaxDeliveryAttempts
    BY <1>1, <1>2 DEF Rows
  <2>2. delivery' = [delivery EXCEPT ![d.key] = row]
    BY <1>2 DEF MarkAttemptFailed
  <2> HIDE DEF row
  <2> QED
    BY <1>1, <2>1, <2>2 DEF Writes, MayWrite
<1>3. CASE ~(d.attempts + 1 >= MaxDeliveryAttempts)
  <2> DEFINE n == d.attempts + 1
             row == [delivery[d.key] EXCEPT !.attempts = n, !.queued = TRUE]
  <2>1. row \in Rows /\ row.queued
    <3>1. n \in Nat
      BY <1>1
    <3> HIDE DEF n
    <3> QED
      BY <1>1, <3>1 DEF Rows
  <2>2. delivery' = [delivery EXCEPT ![d.key] = row]
    BY <1>3 DEF MarkAttemptFailed
  <2> HIDE DEF row
  <2> QED
    BY <1>1, <2>1, <2>2 DEF Writes, MayWrite
<1> QED
  BY <1>2, <1>3

LEMMA DeferWrites ==
    ASSUME OutboxInv, NEW d \in Reads, delivery[d.key].there, DeferDelivery(d)
    PROVE  Writes
<1>1. d.key \in Keys /\ d.attempts \in Nat /\ delivery[d.key] \in Rows
  BY RowThere
<1> DEFINE row == [delivery[d.key] EXCEPT !.queued = TRUE]
<1>2. row \in Rows /\ row.queued
  BY <1>1 DEF Rows
<1>3. delivery' = [delivery EXCEPT ![d.key] = row]
  BY DEF DeferDelivery
<1> HIDE DEF row
<1> QED
  BY <1>1, <1>2, <1>3 DEF Writes, MayWrite

LEMMA CloseWrites ==
    ASSUME OutboxInv, NEW d \in Reads, delivery[d.key].there, ~endpoint[d.key[2]].active, CloseDelivery(d)
    PROVE  Writes
<1>1. d.key \in Keys /\ d.attempts \in Nat /\ delivery[d.key] \in Rows
  BY RowThere
<1> DEFINE row == [delivery[d.key] EXCEPT !.status = "failed", !.queued = FALSE]
<1>2. row \in Rows
  BY <1>1 DEF Rows
<1>3. delivery' = [delivery EXCEPT ![d.key] = row]
  BY <1>1 DEF CloseDelivery, OutboxInv, TablesOK
<1> HIDE DEF row
<1> QED
  BY <1>1, <1>2, <1>3 DEF Writes, MayWrite

(* What such a write leaves of the rows.                                   *)
LEMMA WritesKeep ==
    ASSUME OutboxInv, Writes,
           UNCHANGED <<event, endpoint, rev, adder, running, again, kick, received, since>>
    PROVE  /\ \A k \in Keys : delivery'[k].there <=> delivery[k].there
           /\ TablesOK' /\ RowsOK' /\ NothingQueuedIsLost' /\ Grows
<1>1. CASE UNCHANGED delivery
  BY <1>1 DEF OutboxInv, TablesOK, RowsOK, Wants, NothingQueuedIsLost, Grows
<1>2. ASSUME NEW k0 \in Keys, NEW row \in Rows, MayWrite(k0, row), delivery' = [delivery EXCEPT ![k0] = row]
      PROVE  /\ \A k \in Keys : delivery'[k].there <=> delivery[k].there
             /\ TablesOK' /\ RowsOK' /\ NothingQueuedIsLost' /\ Grows
  <2>1. /\ delivery'[k0] = row /\ \A k \in Keys : k # k0 => delivery'[k] = delivery[k]
        /\ delivery' \in [Keys -> {NoRow} \cup Rows]
    BY <1>2 DEF OutboxInv, TablesOK
  <2>2. row.there /\ delivery[k0].there
    BY <1>2 DEF MayWrite, Rows
  <2>3. \A k \in Keys : delivery'[k].there <=> delivery[k].there
    BY <2>1, <2>2
  <2>4. TablesOK'
    BY <2>1 DEF OutboxInv, TablesOK
  <2>5. RowsOK'
    BY <2>3 DEF OutboxInv, RowsOK, Wants
  <2>6. Grows
    BY <2>3 DEF Grows
  <2>7. NothingQueuedIsLost'
    <3>1. \A k \in since' : ~event'[k[1]].queued => delivery'[k].there
      BY <2>3 DEF OutboxInv, NothingQueuedIsLost, TablesOK
    <3>2. \A k \in Keys : delivery'[k].there /\ ~delivery'[k].queued =>
            \/ k \in received'
            \/ ~endpoint'[k[2]].active
            \/ delivery'[k].status = "failed" /\ delivery'[k].attempts >= MaxDeliveryAttempts
      BY <1>2, <2>1 DEF OutboxInv, NothingQueuedIsLost, MayWrite
    <3> QED
      BY <3>1, <3>2 DEF NothingQueuedIsLost
  <2> QED
    BY <2>3, <2>4, <2>5, <2>6, <2>7
<1> QED
  BY <1>1, <1>2 DEF Writes

(* A pass attempts: it writes a row or none, and goes on with what is left *)
(* to do and with one act it may do.                                       *)
LEMMA Attempts ==
    ASSUME OutboxInv, Writes, NEW p \in Passes, NEW r, Goes(p, r), pass[p] # NoPass,
           UNCHANGED <<event, endpoint, rev, adder, running, again, kick, received, since>>,
           r.at = pass[p].at, r.events = pass[p].events, r.list = pass[p].list, r.tried = pass[p].tried,
           r.looks = pass[p].looks, pass[p].at # "reading",
           r \in PassShape, r.todo \subseteq pass[p].todo,
           \A x \in r.act : /\ delivery[x.of.key].there /\ x.of.key \in Keys
                            /\ x.step # "post" /\ x.ok => x.of.key \in received
    PROVE  OutboxInv'
<1>1. /\ \A k \in Keys : delivery'[k].there <=> delivery[k].there
      /\ TablesOK' /\ RowsOK' /\ NothingQueuedIsLost' /\ Grows
  BY WritesKeep
<1>2. r # NoPass
  BY DEF PassShape, NoPass
<1>3. PassesOK'
  <2>1. \A d \in r.todo : delivery'[d.key].there
    BY <1>1, InPass DEF Reads
  <2>2. \A x \in r.act : /\ delivery'[x.of.key].there
                         /\ x.step # "post" /\ x.ok => x.of.key \in received'
    BY <1>1
  <2>3. /\ \A v \in r.events : event'[v].there
        /\ r.at = "rows" => \A k \in since' : k[1] \in r.events => k \in r.list
        /\ \A k \in r.list : endpoint'[k[2]].used
        /\ r.at \in {"reading", "fresh", "backlog"} => r.events = {} /\ (r.at = "reading" => r.act = {})
    BY InPass
  <2> QED
    BY <1>1, <1>2, <2>1, <2>2, <2>3, PassMoves
<1>4. KicksHeld'
  BY <1>2, LoopMoves
<1> QED
  BY <1>1, <1>3, <1>4 DEF OutboxInv

LEMMA AttemptInv ==
    ASSUME OutboxInv, NEW p \in Passes, pass[p] # NoPass, NEW d \in pass[p].todo, Attempt(p, d)
    PROVE  OutboxInv'
<1> DEFINE act == IF endpoint[d.key[2]].active
                  THEN {[step |-> "post", of |-> d, run |-> endpoint[d.key[2]].run]} ELSE {}
<1>1. PICK r : Goes(p, r) /\ r = [pass[p] EXCEPT !.todo = @ \ {d}, !.act = act]
  BY DEF Attempt
<1>2. UNCHANGED <<event, endpoint, rev, adder, running, again, kick, received, since>> /\ pass[p].at # "reading"
  BY DEF Attempt, PassVars
<1>3. pass[p] \in PassShape /\ d \in Reads /\ delivery[d.key].there /\ d.key \in Keys /\ d.key[2] \in Endpoints
  BY InPass, KeyParts DEF Reads
<1>4. Writes
  <2>1. CASE UNCHANGED delivery
    BY <2>1 DEF Writes
  <2>2. CASE MarkAttemptFailed(d)
    BY <1>3, <2>2, FailedWrites
  <2>3. CASE DeferDelivery(d)
    BY <1>3, <2>3, DeferWrites
  <2>4. CASE CloseDelivery(d) /\ ~endpoint[d.key[2]].active
    BY <1>3, <2>4, CloseWrites
  <2> QED
    BY <2>1, <2>2, <2>3, <2>4 DEF Attempt
<1>5. /\ act \subseteq PostActs \cup LaterActs
      /\ \A x \in act : x.step = "post" /\ x.of = d
  <2>1. endpoint[d.key[2]].run \in Nat
    BY <1>3 DEF OutboxInv, TablesOK, EndpointRows
  <2> QED
    BY <1>3, <2>1 DEF PostActs
<1> HIDE DEF act
<1>6. /\ r \in PassShape /\ r.at = pass[p].at /\ r.events = pass[p].events /\ r.list = pass[p].list
      /\ r.tried = pass[p].tried /\ r.looks = pass[p].looks /\ r.act = act /\ r.todo \subseteq pass[p].todo
  BY <1>1, <1>3, <1>5 DEF PassShape
<1>7. \A x \in r.act : /\ delivery[x.of.key].there /\ x.of.key \in Keys
                       /\ x.step # "post" /\ x.ok => x.of.key \in received
  BY <1>3, <1>5, <1>6
<1> QED
  BY <1>1, <1>2, <1>4, <1>6, <1>7, Attempts

LEMMA TripInv ==
    ASSUME OutboxInv, NEW p \in Passes, pass[p] # NoPass, NEW x \in pass[p].act, Trip(p, x)
    PROVE  OutboxInv'
<1>1. UNCHANGED <<event, endpoint, rev, adder, running, again, kick, received, since>>
  BY DEF Trip, PassVars
<1>2. pass[p] \in PassShape /\ pass[p].at # "reading"
  BY InPass
<1>3. \A y \in pass[p].act : /\ delivery[y.of.key].there /\ y.of.key \in Keys
                             /\ y.step # "post" /\ y.ok => y.of.key \in received
  BY InPass DEF Reads
<1>4. CASE UNCHANGED delivery /\ Goes(p, [pass[p] EXCEPT !.act = {}])
  <2>1. PICK r : Goes(p, r) /\ r = [pass[p] EXCEPT !.act = {}]
    BY <1>4
  <2>2. /\ r \in PassShape /\ r.at = pass[p].at /\ r.events = pass[p].events /\ r.list = pass[p].list
        /\ r.tried = pass[p].tried /\ r.looks = pass[p].looks /\ r.act = {} /\ r.todo \subseteq pass[p].todo
    BY <1>2, <2>1 DEF PassShape
  <2>3. Writes
    BY <1>4 DEF Writes
  <2> QED
    BY <1>1, <1>2, <2>1, <2>2, <2>3, Attempts
<1>5. ASSUME NEW d \in pass[p].todo, DeferDelivery(d), Goes(p, [pass[p] EXCEPT !.todo = @ \ {d}])
      PROVE  OutboxInv'
  <2>1. PICK r : Goes(p, r) /\ r = [pass[p] EXCEPT !.todo = @ \ {d}]
    BY <1>5
  <2>2. /\ r \in PassShape /\ r.at = pass[p].at /\ r.events = pass[p].events /\ r.list = pass[p].list
        /\ r.tried = pass[p].tried /\ r.looks = pass[p].looks /\ r.act = pass[p].act /\ r.todo \subseteq pass[p].todo
    BY <1>2, <2>1 DEF PassShape
  <2>3. Writes
    BY <1>5, InPass, DeferWrites
  <2> QED
    BY <1>1, <1>2, <1>3, <2>1, <2>2, <2>3, Attempts
<1> QED
  BY <1>4, <1>5 DEF Trip

LEMMA MarkInv ==
    ASSUME OutboxInv, NEW p \in Passes, pass[p] # NoPass, NEW x \in pass[p].act,
           NEW written \in BOOLEAN, Mark(p, x, written)
    PROVE  OutboxInv'
<1> DEFINE act == IF written THEN {[x EXCEPT !.step = "health"]}
                  ELSE IF x.ok THEN {} ELSE {[x EXCEPT !.step = "trip"]}
<1>1. PICK r : Goes(p, r) /\ r = [pass[p] EXCEPT !.act = act]
  BY DEF Mark
<1>2. x.step = "mark" /\ UNCHANGED <<event, endpoint, rev, adder, running, again, kick, received, since>>
  BY DEF Mark
<1>3. /\ pass[p] \in PassShape /\ pass[p].at # "reading" /\ x \in LaterActs /\ x.of \in Reads
      /\ delivery[x.of.key].there /\ x.of.key \in Keys /\ (x.ok => x.of.key \in received)
  BY <1>2, InPass DEF Reads
<1>4. Writes
  <2>1. CASE UNCHANGED delivery
    BY <2>1 DEF Writes
  <2>2. CASE x.ok /\ MarkDelivered(x.of)
    BY <1>3, <2>2, DeliveredWrites
  <2>3. CASE MarkAttemptFailed(x.of)
    BY <1>3, <2>3, FailedWrites
  <2> QED
    BY <2>1, <2>2, <2>3 DEF Mark
<1>5. /\ act \subseteq LaterActs
      /\ \A y \in act : y.of = x.of /\ y.ok = x.ok
  BY <1>3 DEF LaterActs
<1> HIDE DEF act
<1>6. /\ r \in PassShape /\ r.at = pass[p].at /\ r.events = pass[p].events /\ r.list = pass[p].list
      /\ r.tried = pass[p].tried /\ r.looks = pass[p].looks /\ r.act = act /\ r.todo \subseteq pass[p].todo
  BY <1>1, <1>3, <1>5 DEF PassShape
<1>7. \A y \in r.act : /\ delivery[y.of.key].there /\ y.of.key \in Keys
                       /\ y.step # "post" /\ y.ok => y.of.key \in received
  BY <1>3, <1>5, <1>6
<1> QED
  BY <1>1, <1>2, <1>3, <1>4, <1>6, <1>7, Attempts

LEMMA PostInv ==
    ASSUME OutboxInv, NEW p \in Passes, pass[p] # NoPass, NEW x \in pass[p].act,
           NEW took \in BOOLEAN, NEW answer \in BOOLEAN, Post(p, x, took, answer)
    PROVE  OutboxInv'
<1> DEFINE y == [step |-> "mark", of |-> x.of, run |-> x.run, ok |-> answer]
<1>1. PICK r : Goes(p, r) /\ r = [pass[p] EXCEPT !.act = {y}]
  BY DEF Post
<1>2. /\ UNCHANGED <<event, delivery, endpoint, rev, adder, running, again, kick, since>>
      /\ received' = (IF took THEN received \cup {x.of.key} ELSE received) /\ (answer => took)
  BY DEF Post, PassVars
<1>3. /\ pass[p] \in PassShape /\ pass[p].at # "reading" /\ x.of \in Reads /\ x.run \in Nat
      /\ delivery[x.of.key].there /\ x.of.key \in Keys
  BY InPass DEF Reads
<1>4. y \in LaterActs /\ y.of = x.of /\ y.ok = answer
  BY <1>3 DEF LaterActs
<1> HIDE DEF y
<1>5. /\ r \in PassShape /\ r.at = pass[p].at /\ r.events = pass[p].events /\ r.list = pass[p].list
      /\ r.act = {y} /\ r.todo = pass[p].todo /\ r.looks = pass[p].looks
  BY <1>1, <1>3, <1>4 DEF PassShape
<1>6. r # NoPass
  BY <1>5 DEF PassShape, NoPass
<1>7. received \subseteq received' /\ received' \subseteq Keys /\ (answer => x.of.key \in received')
  BY <1>2, <1>3 DEF OutboxInv, TablesOK
<1>8. Grows
  BY <1>2, <1>7 DEF Grows
<1>9. PassesOK'
  <2>1. \A z \in r.act : /\ delivery'[z.of.key].there
                         /\ z.step # "post" /\ z.ok => z.of.key \in received'
    BY <1>2, <1>3, <1>4, <1>5, <1>7
  <2>2. /\ \A d \in r.todo : delivery'[d.key].there
        /\ \A v \in r.events : event'[v].there
        /\ r.at = "rows" => \A k \in since' : k[1] \in r.events => k \in r.list
        /\ \A k \in r.list : endpoint'[k[2]].used
        /\ r.at \in {"reading", "fresh", "backlog"} => r.events = {} /\ (r.at = "reading" => r.act = {})
    BY <1>2, <1>3, <1>5, InPass
  <2> QED
    BY <1>1, <1>5, <1>8, <2>1, <2>2, PassMoves
<1>10. KicksHeld'
  BY <1>1, <1>2, <1>3, <1>5, <1>6, LoopMoves
<1>11. TablesOK'
  BY <1>2, <1>7 DEF OutboxInv, TablesOK
<1>12. RowsOK'
  BY <1>2 DEF OutboxInv, RowsOK, Wants
<1>13. NothingQueuedIsLost'
  BY <1>2, <1>7 DEF OutboxInv, NothingQueuedIsLost
<1> QED
  BY <1>9, <1>10, <1>11, <1>12, <1>13 DEF OutboxInv

LEMMA HealthInv ==
    ASSUME OutboxInv, NEW p \in Passes, pass[p] # NoPass, NEW x \in pass[p].act, RecordEndpointHealth(p, x)
    PROVE  OutboxInv'
<1> DEFINE e == x.of.key[2]
           act == IF x.ok THEN {} ELSE {[x EXCEPT !.step = "trip"]}
<1>1. PICK r : Goes(p, r) /\ r = [pass[p] EXCEPT !.act = act]
  BY DEF RecordEndpointHealth
<1>2. /\ x.step = "health"
      /\ endpoint' = IF ~endpoint[e].there THEN endpoint
                     ELSE IF x.ok THEN [endpoint EXCEPT ![e].run = 0]
                     ELSE [endpoint EXCEPT ![e].run = x.run + 1, ![e].active = @ /\ x.run + 1 < MaxFailureRun]
      /\ since' = {k \in since : k[2] # e \/ endpoint'[e].active}
      /\ UNCHANGED <<event, delivery, rev, adder, running, again, kick, received>>
  BY DEF RecordEndpointHealth, PassVars
<1>3. /\ pass[p] \in PassShape /\ pass[p].at # "reading" /\ x \in LaterActs /\ x.run \in Nat /\ x.of \in Reads
      /\ delivery[x.of.key].there /\ x.of.key \in Keys /\ (x.ok => x.of.key \in received) /\ e \in Endpoints
  BY <1>2, InPass, KeyParts DEF Reads
<1>4. /\ act \subseteq LaterActs
      /\ \A y \in act : y.of = x.of /\ y.ok = x.ok
  BY <1>3 DEF LaterActs
<1> HIDE DEF act, e
<1>5. /\ endpoint' \in [Endpoints -> EndpointRows]
      /\ \A z \in Endpoints : z # e => endpoint'[z] = endpoint[z]
      /\ endpoint'[e].used = endpoint[e].used /\ endpoint'[e].there = endpoint[e].there
      /\ endpoint'[e].types = endpoint[e].types
      /\ endpoint'[e].active => endpoint[e].active
  <2> DEFINE n == x.run + 1
             b == endpoint[e].active /\ n < MaxFailureRun
  <2>1. n \in Nat /\ b \in BOOLEAN
    BY <1>3
  <2>2. CASE ~endpoint[e].there
    BY <1>2, <2>2 DEF OutboxInv, TablesOK
  <2>3. CASE endpoint[e].there /\ x.ok
    BY ZenonT(60), <1>2, <1>3, <2>3 DEF OutboxInv, TablesOK, EndpointRows
  <2>4. CASE endpoint[e].there /\ ~x.ok
    <3>1. endpoint' = [endpoint EXCEPT ![e] = [@ EXCEPT !.run = n, !.active = b]]
      BY <1>2, <1>3, <2>4 DEF OutboxInv, TablesOK, EndpointRows
    <3>2. b => endpoint[e].active
      OBVIOUS
    <3> HIDE DEF n, b
    <3> DEFINE row == [endpoint[e] EXCEPT !.run = n, !.active = b]
    <3>3. endpoint[e] \in EndpointRows
      BY <1>3 DEF OutboxInv, TablesOK
    <3>4. row \in EndpointRows /\ row.active = b
      BY <2>1, <3>3 DEF EndpointRows
    <3>5. row.used = endpoint[e].used /\ row.there = endpoint[e].there /\ row.types = endpoint[e].types
      BY <3>3 DEF EndpointRows
    <3>6. endpoint' = [endpoint EXCEPT ![e] = row]
      BY <3>1
    <3> HIDE DEF row
    <3> QED
      BY <1>3, <3>2, <3>4, <3>5, <3>6 DEF OutboxInv, TablesOK
  <2> QED
    BY <2>2, <2>3, <2>4
<1>6. \A z \in Endpoints : /\ endpoint[z].used => endpoint'[z].used
                           /\ endpoint[z].used /\ endpoint'[z].active => endpoint[z].active
                           /\ endpoint'[z].there => endpoint'[z].used
                           /\ endpoint'[z].active => endpoint'[z].there
  BY <1>5 DEF OutboxInv, RowsOK
<1>7. \A k \in since' : Wants(k[2], k[1])'
  <2> SUFFICES ASSUME NEW k \in since' PROVE Wants(k[2], k[1])'
    OBVIOUS
  <2>1. k \in since /\ k[2] \in Endpoints /\ Wants(k[2], k[1]) /\ (k[2] # e \/ endpoint'[e].active)
    BY <1>2, KeyParts DEF OutboxInv, RowsOK, TablesOK
  <2>2. CASE k[2] # e
    BY <1>2, <1>5, <2>1, <2>2 DEF Wants
  <2>3. CASE k[2] = e
    BY <1>2, <1>5, <2>1, <2>3 DEF Wants
  <2> QED
    BY <2>2, <2>3
<1>8. /\ rev' \in Nat /\ since' \subseteq since
      /\ adder' \in [Adders -> {NoPass} \cup [at : {"add"}, ep : Endpoints, seen : Nat]]
  BY <1>2 DEF OutboxInv, TablesOK
<1>9. TablesOK' /\ RowsOK' /\ NothingQueuedIsLost' /\ Grows
  BY <1>2, <1>5, <1>6, <1>7, <1>8, EndpointsChange
<1>10. /\ r \in PassShape /\ r.at = pass[p].at /\ r.events = pass[p].events /\ r.list = pass[p].list
       /\ r.act = act /\ r.todo = pass[p].todo /\ r.looks = pass[p].looks
  BY <1>1, <1>3, <1>4 DEF PassShape
<1>11. r # NoPass
  BY <1>10 DEF PassShape, NoPass
<1>12. PassesOK'
  <2>1. \A z \in r.act : /\ delivery'[z.of.key].there
                         /\ z.step # "post" /\ z.ok => z.of.key \in received'
    BY <1>2, <1>3, <1>4, <1>10
  <2>2. /\ \A d \in r.todo : delivery'[d.key].there
        /\ \A v \in r.events : event'[v].there
        /\ r.at = "rows" => \A k \in since' : k[1] \in r.events => k \in r.list
        /\ r.at \in {"reading", "fresh", "backlog"} => r.events = {} /\ (r.at = "reading" => r.act = {})
    BY <1>2, <1>3, <1>8, <1>10, InPass
  <2>3. \A k \in r.list : endpoint'[k[2]].used
    BY <1>6, <1>10, InPass, KeyParts
  <2> QED
    BY <1>1, <1>9, <1>10, <2>1, <2>2, <2>3, PassMoves
<1>13. KicksHeld'
  BY <1>1, <1>2, <1>3, <1>10, <1>11, LoopMoves
<1> QED
  BY <1>9, <1>12, <1>13 DEF OutboxInv

LEMMA OutboxNextInv ==
    ASSUME OutboxInv, [OutboxNext]_outboxVars
    PROVE  OutboxInv'
<1>1. ASSUME NEW p \in Passes, Acting(p) PROVE OutboxInv'
  BY <1>1, PostInv, MarkInv, HealthInv, TripInv DEF Acting
<1>2. ASSUME NEW p \in Passes, Passing(p) PROVE OutboxInv'
  BY <1>1, <1>2, PendingEventsInv, ListEndpointsInv, FannedOutInv, PassEndsInv, DueDeliveriesInv,
     FanOutRowsInv, FanOutFailsInv, AttemptInv DEF Passing
<1>3. CASE UNCHANGED outboxVars
  <2>1. /\ UNCHANGED <<event, delivery, endpoint, rev, adder, received, since>>
        /\ UNCHANGED <<pass, running, again, kick>>
    BY <1>3 DEF outboxVars
  <2>2. PassesOK'
    BY <2>1, StillGrows, PassesHold
  <2>3. KicksHeld'
    BY <2>1 DEF OutboxInv, KicksHeld
  <2> QED
    BY <2>1, <2>2, <2>3, PassStep DEF OutboxInv, TablesOK, RowsOK
<1>4. ASSUME NEW a \in Adders, AddWrites(a) \/ \E e \in Endpoints : AddReads(a, e) PROVE OutboxInv'
  BY <1>4, AddWritesInv, AddReadsInv
<1>5. ASSUME NEW e \in Endpoints, RemoveEndpoint(e) \/ \E f \in Filters : SetEndpointEvents(e, f) PROVE OutboxInv'
  BY <1>5, RemoveInv, SetEventsInv
<1>6. ASSUME NEW v \in All, Emit(v) \/ Kick(v) \/ \E e \in Endpoints : EmitPing(v, e) PROVE OutboxInv'
  BY <1>6, EmitInv, EmitPingInv, KickInv
<1> QED
  BY <1>2, <1>3, <1>4, <1>5, <1>6, StartJobInv, PassDiesInv DEF OutboxNext

(* No webhook is lost, for any number of events, endpoints, attempts and   *)
(* failures: FanOut and attempt of services/delivering.go, MarkDelivered   *)
(* and MarkAttemptFailed of repositories/webhooks.go.                      *)
THEOREM NoWebhookIsLost == OutboxSpec => []NothingQueuedIsLost
<1>1. OutboxInv => NothingQueuedIsLost
  BY DEF OutboxInv
<1> QED
  BY OutboxInitInv, OutboxNextInv, <1>1, PTL DEF OutboxSpec

(* No kick is lost to DeliveryKick's two flags, whatever the batch, the     *)
(* looks and what the index shows: no loop stops before a round that began *)
(* after the kick sought its event, and what that round found it fanned    *)
(* out or failed to (services/delivering_kick.go).                         *)
THEOREM NoKickIsLost == OutboxSpec => []KicksAreServed
<1>1. OutboxInv => KicksAreServed
  BY DEF OutboxInv, KicksHeld, KicksAreServed
<1> QED
  BY OutboxInitInv, OutboxNextInv, <1>1, PTL DEF OutboxSpec

----------------------------------------------------------------------------
(* The realtime stream.                                                    *)

Entities == {EntityOf[x] : x \in Ids}
Words == {"slow_consumer", "cursor_too_old", "replay_limit", "unauthorized", "unavailable", "limit",
          "draining", "token_expired", "revoked", "bad_frame"}
Frames == [type : {"ready", "hint", "change", "tick"}, val : Nat] \cup [type : {"gap", "bye"}, why : Words]
Links == [at : {"none", "auth", "added", "read", "live", "finishing"}, asked : Nat,
          found : SUBSET Ids, queue : Seq(Frames)]
Tabs == [status : {"connecting", "live", "polling", "waiting-token", "revoked", "off"}, cursor : Nat, seen : SUBSET Ids, revisions : [Entities -> Nat],
         replayPending : BOOLEAN, held : BOOLEAN]
Polls == [at : {"none", "asked"}, ids : SUBSET Ids, head : Nat, gap : BOOLEAN]
Changes == [st : {"none", "built", "committed", "published", "lost"}, to : SUBSET Scopes, behind : BOOLEAN]

RtTypeOK ==
    /\ now \in Nat
    /\ change \in [Ids -> Changes]
    /\ link \in Links
    /\ tab \in Tabs
    /\ poll \in Polls
    /\ shown \subseteq Ids

(* What a connection or a poll carries was committed.                      *)
Carries(k) ==
    /\ k.found \subseteq Committed
    /\ \A i \in 1..Len(k.queue) : k.queue[i].type = "change" => k.queue[i].val \in Committed

(* The screens show what the core has dealt with: an id it has seen is not *)
(* past the revision of its entity, the revision is a committed change of  *)
(* the entity and is shown, and so is everything committed up to it but    *)
(* what was committed behind a later revision.                             *)
Dealt(t, s) ==
    /\ s \subseteq Committed
    /\ \A x \in t.seen : x \in Committed /\ x <= t.revisions[EntityOf[x]]
    /\ \A e \in Entities : t.revisions[e] # 0 =>
          t.revisions[e] \in s /\ EntityOf[t.revisions[e]] = e
    /\ \A x \in Committed : x <= t.revisions[EntityOf[x]] /\ ~change[x].behind => x \in s

(* What the core drops, and what it has met: on the screens, or dropped.   *)
Dropped(t) == {x \in Committed : change[x].behind /\ x < t.revisions[EntityOf[x]]}
Met(t, s)  == s \cup Dropped(t)

(* A frame that brings change x to the screens: its own, or a Gap.         *)
Brings(f, x) == f.type = "gap" \/ (f.type = "change" /\ f.val = x)
Bringing(q, x) == \E i \in 1..Len(q) : Brings(q[i], x)

(* What is published in the reach of the cursor is met or on its way.      *)
Due(x, asked) == x \in InLog /\ x + ChangeOverlap >= asked /\ change[x].st = "published"
OnItsWay(k, s) ==
    k.at \in {"read", "live"} /\ k.asked # 0 =>
        \A x \in Ids : Due(x, k.asked) => x \in s \/ Bringing(k.queue, x) \/ (k.at = "read" /\ x \in k.found)

RtInv ==
    /\ RtTypeOK
    /\ Carries(link) /\ poll.ids \subseteq Committed
    /\ Dealt(tab, shown)
    /\ OnItsWay(link, Met(tab, shown))

USE DEF Ids

(* The greatest of some instants, and the least.                           *)
LEMMA Greatest ==
  ASSUME NEW N \in Nat, NEW S, S \subseteq 0..N, S # {}
  PROVE  Max(S) \in S /\ Max(S) \in Nat /\ \A y \in S : y <= Max(S)
<1> DEFINE T == {N - y : y \in S}
<1>0. \A y \in S : y \in Nat /\ N - y \in Nat
  OBVIOUS
<1>1. T \subseteq Nat /\ T # {}
  BY <1>0
<1>2. \E x \in T : \A y \in T : ~(<<y, x>> \in OpToRel(<, Nat))
  BY <1>1, NatLessThanWellFounded, WFMin, Zenon
<1>3. PICK x \in T : \A y \in T : ~(<<y, x>> \in OpToRel(<, Nat))
  BY <1>2
<1>4. \A y \in T : ~(y < x)
  BY <1>1, <1>3 DEF OpToRel
<1>5. PICK m \in S : x = N - m
  OBVIOUS
<1>6. ASSUME NEW y \in S PROVE m >= y
  <2>1. N - y \in T
    OBVIOUS
  <2>2. ~(N - y < N - m)
    BY <1>4, <1>5, <2>1
  <2> QED
    BY <1>0, <2>2
<1>7. Max(S) \in S /\ \A y \in S : Max(S) >= y
  BY <1>6 DEF Max
<1>8. \A y \in S : y <= Max(S)
  BY <1>0, <1>7
<1> QED
  BY <1>0, <1>7, <1>8

LEMMA Least ==
  ASSUME NEW S, S \subseteq Ids, S # {}
  PROVE  Min(S) \in S /\ \A y \in S : Min(S) <= y
<1>0. S \subseteq Nat
  BY RealtimeAssumption
<1>1. \E x \in S : \A y \in S : ~(<<y, x>> \in OpToRel(<, Nat))
  BY <1>0, NatLessThanWellFounded, WFMin, Zenon
<1>2. PICK x \in S : \A y \in S : ~(<<y, x>> \in OpToRel(<, Nat))
  BY <1>1
<1>3. \A y \in S : ~(y < x)
  BY <1>0, <1>2 DEF OpToRel
<1>4. \A y \in S : x <= y
  BY <1>0, <1>3
<1> QED
  BY <1>4 DEF Min

(* A connection's queue.                                                   *)
LEMMA Appended ==
  ASSUME NEW q \in Seq(Frames), NEW f \in Frames
  PROVE  /\ Append(q, f) \in Seq(Frames)
         /\ \A x : Bringing(q, x) \/ Brings(f, x) => Bringing(Append(q, f), x)
         /\ \A i \in 1..Len(Append(q, f)) : Append(q, f)[i] = f \/ (i \in 1..Len(q) /\ Append(q, f)[i] = q[i])
<1>1. Append(q, f) \in Seq(Frames) /\ Len(Append(q, f)) = Len(q) + 1 /\ Len(q) \in Nat
  OBVIOUS
<1>2. Append(q, f)[Len(q) + 1] = f /\ \A i \in 1..Len(q) : Append(q, f)[i] = q[i]
  OBVIOUS
<1>3. \A i \in 1..Len(Append(q, f)) : i = Len(q) + 1 \/ i \in 1..Len(q)
  BY <1>1
<1>4. \A x : Bringing(q, x) => Bringing(Append(q, f), x)
  BY <1>1, <1>2 DEF Bringing
<1>5. \A x : Brings(f, x) => Bringing(Append(q, f), x)
  BY <1>1, <1>2 DEF Bringing
<1> QED
  BY <1>1, <1>2, <1>3, <1>4, <1>5

LEMMA FinishingIs ==
  ASSUME NEW k \in Links, NEW q \in Seq(Frames)
  PROVE  /\ [Finishing(k) EXCEPT !.queue = q] \in Links
         /\ [Finishing(k) EXCEPT !.queue = q].queue = q
         /\ [Finishing(k) EXCEPT !.queue = q].found = k.found
         /\ [Finishing(k) EXCEPT !.queue = q].at = "finishing"
  BY DEF Finishing, Links

LEMMA Finishes ==
  ASSUME NEW k \in Links, NEW f \in Frames, f.type # "change", Carries(k)
  PROVE  Finish(k, f) \in Links /\ Finish(k, f).at = "finishing" /\ Carries(Finish(k, f))
<1>1. CASE k.at = "finishing"
  BY <1>1 DEF Finish
<1>2. CASE k.at # "finishing"
  <2> DEFINE q == Append(k.queue, f)
  <2>1. k.queue \in Seq(Frames)
    BY DEF Links
  <2>2. /\ q \in Seq(Frames)
        /\ \A i \in 1..Len(q) : q[i] = f \/ (i \in 1..Len(k.queue) /\ q[i] = k.queue[i])
    BY <2>1, Appended
  <2>3. Finish(k, f) = [Finishing(k) EXCEPT !.queue = q]
    BY <1>2 DEF Finish
  <2> HIDE DEF q
  <2>4. /\ Finish(k, f) \in Links /\ Finish(k, f).queue = q /\ Finish(k, f).found = k.found
        /\ Finish(k, f).at = "finishing"
    BY <2>2, <2>3, FinishingIs
  <2> QED
    BY <2>2, <2>4 DEF Carries
<1> QED
  BY <1>1, <1>2

(* Send keeps what is queued and adds the frame, or ends the connection.   *)
LEMMA Sends ==
  ASSUME NEW k \in Links, NEW f \in Frames, f.type = "change" => f.val \in Committed, Carries(k)
  PROVE  /\ Send(k, f) \in Links /\ Carries(Send(k, f))
         /\ \/ Send(k, f).at = "finishing"
            \/ /\ Send(k, f).at = k.at /\ Send(k, f).asked = k.asked /\ Send(k, f).found = k.found
               /\ \A x : Bringing(k.queue, x) \/ Brings(f, x) => Bringing(Send(k, f).queue, x)
<1>1. CASE k.at = "finishing"
  BY <1>1 DEF Send
<1>2. CASE k.at # "finishing" /\ ~Full(k)
  <2> DEFINE q == Append(k.queue, f)
  <2>1. k.queue \in Seq(Frames)
    BY DEF Links
  <2>2. /\ q \in Seq(Frames)
        /\ \A x : Bringing(k.queue, x) \/ Brings(f, x) => Bringing(q, x)
        /\ \A i \in 1..Len(q) : q[i] = f \/ (i \in 1..Len(k.queue) /\ q[i] = k.queue[i])
    BY <2>1, Appended
  <2>3. Send(k, f) = [k EXCEPT !.queue = q]
    BY <1>2, <2>1 DEF Send, Links
  <2> HIDE DEF q
  <2>4. /\ Send(k, f) \in Links /\ Send(k, f).queue = q /\ Send(k, f).found = k.found
        /\ Send(k, f).at = k.at /\ Send(k, f).asked = k.asked
    BY <2>2, <2>3 DEF Links
  <2> QED
    BY <2>2, <2>4 DEF Carries
<1>3. CASE k.at # "finishing" /\ Full(k)
  <2> DEFINE q == <<Word("gap", "slow_consumer")>>
  <2>1. Word("gap", "slow_consumer") \in Frames /\ Word("gap", "slow_consumer").type = "gap"
    BY DEF Word, Frames, Words
  <2>2. q \in Seq(Frames) /\ Len(q) = 1 /\ q[1].type = "gap"
    BY <2>1
  <2>3. Send(k, f) = [Finishing(k) EXCEPT !.queue = q]
    BY <1>3 DEF Send
  <2> HIDE DEF q
  <2>4. /\ Send(k, f) \in Links /\ Send(k, f).queue = q /\ Send(k, f).found = k.found
        /\ Send(k, f).at = "finishing"
    BY <2>2, <2>3, FinishingIs
  <2>5. Carries(Send(k, f))
    BY <2>2, <2>4 DEF Carries
  <2> QED
    BY <2>4, <2>5
<1> QED
  BY <1>1, <1>2, <1>3

(* A step that leaves the clock and the log alone.                         *)
LEMMA LogStands ==
  ASSUME RtInv, UNCHANGED <<now, change>>, link' \in Links, tab' \in Tabs, poll' \in Polls,
         Carries(link'), poll'.ids \subseteq Committed, Dealt(tab', shown'), OnItsWay(link', Met(tab', shown'))
  PROVE  RtInv'
<1>1. Committed' = Committed
  BY DEF Committed
<1>2. InLog' = InLog
  BY <1>1 DEF InLog, HeardUnder
<1>3. shown' \subseteq Ids
  BY DEF Dealt, Committed
<1>4. RtTypeOK'
  BY <1>3 DEF RtInv, RtTypeOK
<1>5. Carries(link)' /\ (poll.ids \subseteq Committed)' /\ Dealt(tab, shown)'
  BY <1>1 DEF Carries, Dealt
<1>8. Met(tab, shown)' = Met(tab', shown')
  BY <1>1 DEF Met, Dropped
<1>6. \A x \in Ids : Due(x, link.asked)' <=> Due(x, link'.asked)
  BY <1>2 DEF Due
<1>7. OnItsWay(link, Met(tab, shown))'
  BY <1>8, <1>6 DEF OnItsWay, Bringing, Brings
<1> QED
  BY <1>4, <1>5, <1>7 DEF RtInv

(* What the client has dealt with is in seen, revisions and shown.         *)
LEMMA DealtStands ==
  ASSUME NEW t, NEW u, NEW s, Dealt(t, s), u.seen = t.seen, u.revisions = t.revisions
  PROVE  Dealt(u, s) /\ Met(u, s) = Met(t, s)
  BY DEF Dealt, Met, Dropped

(* Only the server's side moves.                                           *)
LEMMA LinkMoves ==
  ASSUME RtInv, UNCHANGED <<now, change, tab, poll, shown>>,
         link' \in Links, Carries(link'), OnItsWay(link', Met(tab, shown))
  PROVE  RtInv'
  BY LogStands DEF RtInv, RtTypeOK

(* A connection that is ending, or has not read, owes nothing.             *)
LEMMA OwesNothing ==
  ASSUME NEW k, NEW s, k.at \notin {"read", "live"}
  PROVE  OnItsWay(k, s)
  BY DEF OnItsWay

(* A frame more in the queue.                                              *)
LEMMA SendMoves ==
  ASSUME NEW k \in Links, NEW f \in Frames, f.type = "change" => f.val \in Committed, Carries(k),
         NEW s, OnItsWay(k, s)
  PROVE  Send(k, f) \in Links /\ Carries(Send(k, f)) /\ OnItsWay(Send(k, f), s)
<1>1. Send(k, f) \in Links /\ Carries(Send(k, f))
  BY Sends
<1>2. CASE Send(k, f).at = "finishing"
  BY <1>1, <1>2, OwesNothing
<1>3. CASE /\ Send(k, f).at = k.at /\ Send(k, f).asked = k.asked /\ Send(k, f).found = k.found
           /\ \A x : Bringing(k.queue, x) \/ Brings(f, x) => Bringing(Send(k, f).queue, x)
  BY <1>1, <1>3 DEF OnItsWay
<1> QED
  BY <1>1, <1>2, <1>3, Sends

LEMMA NoLinkIs ==
  NoLink \in Links /\ Carries(NoLink) /\ (\A s : OnItsWay(NoLink, s)) /\ NoLink.at = "none"
<1>1. NoLink.at = "none" /\ NoLink.found = {} /\ NoLink.queue = << >> /\ NoLink.asked = 0
  BY DEF NoLink
<1>2. << >> \in Seq(Frames) /\ Len(<< >>) = 0
  OBVIOUS
<1>3. NoLink \in Links
  BY <1>2 DEF NoLink, Links
<1>4. Carries(NoLink)
  BY <1>1, <1>2 DEF Carries
<1>5. \A s : OnItsWay(NoLink, s)
  BY <1>1, OwesNothing
<1> QED
  BY <1>1, <1>3, <1>4, <1>5

LEMMA NoPollIs == NoPoll \in Polls /\ NoPoll.ids = {}
  BY DEF NoPoll, Polls

(* The last words and the other frames that carry no change.               *)
LEMMA WordIs ==
  ASSUME NEW w \in Words, NEW t \in {"gap", "bye"}
  PROVE  Word(t, w) \in Frames /\ Word(t, w).type = t /\ Word(t, w).type # "change"
  BY DEF Word, Frames

LEMMA FrameIs ==
  ASSUME NEW v \in Nat, NEW t \in {"ready", "hint", "change", "tick"}
  PROVE  Frame(t, v) \in Frames /\ Frame(t, v).type = t /\ Frame(t, v).val = v
  BY DEF Frame, Frames

LEMMA FinishMoves ==
  ASSUME RtInv, NEW w \in Words, link' = Finish(link, Word("bye", w)),
         UNCHANGED <<now, change, tab, poll, shown>>
  PROVE  RtInv'
<1>1. link \in Links /\ Carries(link)
  BY DEF RtInv, RtTypeOK
<1> DEFINE f == Word("bye", w)
<1>2. f \in Frames /\ f.type # "change"
  BY WordIs
<1> HIDE DEF f
<1>3. Finish(link, f) \in Links /\ Finish(link, f).at = "finishing" /\ Carries(Finish(link, f))
  BY <1>1, <1>2, Finishes
<1>4. link' = Finish(link, f)
  BY DEF f
<1>5. OnItsWay(link', Met(tab, shown))
  BY <1>3, <1>4, OwesNothing
<1> QED
  BY <1>3, <1>4, <1>5, LinkMoves

LEMMA EndingsKeep ==
  ASSUME RtInv,
         \/ \E why \in {"unauthorized", "unavailable", "limit", "draining"} : Refuse(why)
         \/ \E why \in {"token_expired", "revoked"} : SayBye(why)
         \/ \E why \in {"limit", "bad_frame", "unauthorized"} : ReadLoop(why)
         \/ Drain
  PROVE  RtInv'
  BY FinishMoves DEF Refuse, SayBye, ReadLoop, Drain, Words

(* The socket closes or breaks.                                            *)
LEMMA ClosingKeeps ==
  ASSUME RtInv, Closes \/ Breaks
  PROVE  RtInv'
<1>1. tab' = [tab EXCEPT !.status = OnClose] /\ link' = NoLink /\ UNCHANGED <<now, change, poll, shown>>
  BY DEF Closes, Breaks
<1>2. tab \in Tabs /\ poll \in Polls /\ poll.ids \subseteq Committed /\ Dealt(tab, shown)
  BY DEF RtInv, RtTypeOK
<1>3. OnClose \in {"connecting", "live", "polling", "waiting-token", "revoked", "off"}
  BY <1>2 DEF OnClose, Tabs
<1>4. tab' \in Tabs /\ tab'.seen = tab.seen /\ tab'.revisions = tab.revisions
  BY <1>1, <1>2, <1>3 DEF Tabs
<1>5. Dealt(tab', shown')
  BY <1>1, <1>2, <1>4, DealtStands
<1> QED
  BY <1>1, <1>2, <1>4, <1>5, NoLinkIs, LogStands

LEMMA OnOpenKeeps ==
  ASSUME RtInv, OnOpen
  PROVE  RtInv'
<1>1. tab \in Tabs /\ poll \in Polls /\ poll.ids \subseteq Committed /\ Dealt(tab, shown)
  BY DEF RtInv, RtTypeOK
<1>2. tab' \in Tabs /\ tab'.seen = tab.seen /\ tab'.revisions = tab.revisions
  BY <1>1 DEF OnOpen, Tabs
<1>3. tab.cursor \in Nat
  BY <1>1 DEF Tabs
<1>4. /\ link' \in Links /\ link'.at = "auth" /\ link'.found = NoLink.found /\ link'.queue = NoLink.queue
  BY <1>3, NoLinkIs DEF OnOpen, Links
<1>5. Carries(link')
  BY <1>4, NoLinkIs DEF Carries
<1>6. OnItsWay(link', Met(tab', shown'))
  BY <1>4, OwesNothing
<1>7. Dealt(tab', shown')
  BY <1>1, <1>2, DealtStands DEF OnOpen
<1> QED
  BY <1>1, <1>2, <1>4, <1>5, <1>6, <1>7, LogStands DEF OnOpen

LEMMA ServeKeeps ==
  ASSUME RtInv, NEW degraded \in BOOLEAN, Serve(degraded)
  PROVE  RtInv'
<1> DEFINE r == Frame("ready", 0)
           h == Frame("hint", 0)
           q == IF degraded THEN <<r, h>> ELSE <<r>>
<1>1. r \in Frames /\ h \in Frames /\ r.type # "change" /\ h.type # "change"
  BY FrameIs
<1>2. link \in Links /\ Carries(link)
  BY DEF RtInv, RtTypeOK
<1>3. link' = [link EXCEPT !.at = "added", !.queue = q] /\ UNCHANGED <<now, change, tab, poll, shown>>
  BY DEF Serve
<1> HIDE DEF r, h
<1>4. q \in Seq(Frames) /\ \A i \in 1..Len(q) : q[i].type # "change"
  <2>1. CASE degraded
    <3>1. q = <<r, h>>
      BY <1>1, <2>1
    <3> HIDE DEF q
    <3> QED
      BY <1>1, <3>1
  <2>2. CASE ~degraded
    <3>1. q = <<r>>
      BY <1>1, <2>2
    <3> HIDE DEF q
    <3> QED
      BY <1>1, <3>1
  <2> QED
    BY <2>1, <2>2
<1> HIDE DEF q
<1>5. link' \in Links /\ link'.queue = q /\ link'.found = link.found /\ link'.at = "added"
  BY <1>2, <1>3, <1>4 DEF Links
<1>6. Carries(link')
  BY <1>2, <1>4, <1>5 DEF Carries
<1> QED
  BY <1>3, <1>5, <1>6, OwesNothing, LinkMoves

(* The replay.  What it finds is everything due at that moment; what is    *)
(* published after it goes through the hub.                                *)
LEMMA ReplayReadsKeeps ==
  ASSUME RtInv, NEW refused \in BOOLEAN, ReplayReads(refused)
  PROVE  RtInv'
<1>1. link \in Links /\ Carries(link) /\ link.at = "added" /\ UNCHANGED <<now, change, tab, poll, shown>>
  BY DEF RtInv, RtTypeOK, ReplayReads
<1>2. CASE link.asked = 0 /\ link' = [link EXCEPT !.at = "live"]
  <2>1. link' \in Links /\ link'.asked = 0 /\ link'.found = link.found /\ link'.queue = link.queue
    BY <1>1, <1>2 DEF Links
  <2>2. Carries(link') /\ OnItsWay(link', Met(tab, shown))
    BY <1>1, <2>1 DEF Carries, OnItsWay
  <2> QED
    BY <1>1, <2>1, <2>2, LinkMoves
<1>3. ASSUME NEW w \in {"replay_limit", "cursor_too_old"}, link' = Gapped(w)
      PROVE  RtInv'
  <2> DEFINE k == [link EXCEPT !.at = "live"]
             f == Word("gap", w)
  <2>1. k \in Links /\ k.found = link.found /\ k.queue = link.queue
    BY <1>1 DEF Links
  <2>2. f \in Frames /\ f.type = "gap"
    BY WordIs DEF Words
  <2>3. link' = Send(k, f)
    BY <1>3 DEF Gapped
  <2> HIDE DEF k, f
  <2>4. Carries(k)
    BY <1>1, <2>1 DEF Carries
  <2>5. /\ Send(k, f) \in Links /\ Carries(Send(k, f))
        /\ \/ Send(k, f).at = "finishing"
           \/ \A x : Brings(f, x) => Bringing(Send(k, f).queue, x)
    BY <2>1, <2>2, <2>4, Sends
  <2>6. \A x : Brings(f, x)
    BY <2>2 DEF Brings
  <2>7. OnItsWay(link', Met(tab, shown))
    BY <2>3, <2>5, <2>6 DEF OnItsWay
  <2> QED
    BY <1>1, <2>3, <2>5, <2>7, LinkMoves
<1>4. CASE link' = [link EXCEPT !.at = "read", !.found = Since(link.asked)]
  <2>1. Since(link.asked) \subseteq Committed /\ Committed \subseteq Ids
    BY DEF Since, InLog, Committed
  <2>2. /\ link' \in Links /\ link'.found = Since(link.asked) /\ link'.queue = link.queue
        /\ link'.asked = link.asked /\ link'.at = "read"
    BY <1>1, <1>4, <2>1 DEF Links
  <2>3. Carries(link')
    BY <1>1, <2>1, <2>2 DEF Carries
  <2>4. \A x \in Ids : Due(x, link.asked) => x \in Since(link.asked)
    BY DEF Due, Since
  <2>5. OnItsWay(link', Met(tab, shown))
    BY <2>2, <2>4 DEF OnItsWay
  <2> QED
    BY <1>1, <2>2, <2>3, <2>5, LinkMoves
<1> QED
  BY <1>2, <1>3, <1>4 DEF ReplayReads

LEMMA ReplaySendsKeeps ==
  ASSUME RtInv, ReplaySends
  PROVE  RtInv'
<1> DEFINE m == Min(link.found)
           k == [link EXCEPT !.found = @ \ {Min(link.found)}]
           f == Frame("change", m)
<1>1. link \in Links /\ Carries(link) /\ OnItsWay(link, Met(tab, shown)) /\ UNCHANGED <<now, change, tab, poll, shown>>
  BY DEF RtInv, RtTypeOK, ReplaySends
<1>2. link.found \subseteq Ids /\ link.found # {} /\ link.at \in {"read", "finishing"}
  BY <1>1 DEF Links, ReplaySends
<1>3. m \in link.found /\ m \in Committed /\ m \in Nat
  <2>1. m \in link.found
    BY <1>2, Least
  <2> QED
    BY <1>1, <1>2, <2>1, RealtimeAssumption DEF Carries
<1>4. /\ k \in Links /\ k.found = link.found \ {m} /\ k.queue = link.queue
      /\ k.at = link.at /\ k.asked = link.asked
  BY <1>1 DEF Links
<1>5. f \in Frames /\ f.type = "change" /\ f.val = m
  BY <1>3, FrameIs
<1>6. link' = Send(k, f)
  BY DEF ReplaySends
<1> HIDE DEF k, f, m
<1>7. Carries(k)
  BY <1>1, <1>4 DEF Carries
<1>8. /\ Send(k, f) \in Links /\ Carries(Send(k, f))
      /\ \/ Send(k, f).at = "finishing"
         \/ /\ Send(k, f).at = k.at /\ Send(k, f).asked = k.asked /\ Send(k, f).found = k.found
            /\ \A x : Bringing(k.queue, x) \/ Brings(f, x) => Bringing(Send(k, f).queue, x)
  BY <1>3, <1>4, <1>5, <1>7, Sends
<1>9. Brings(f, m)
  BY <1>5 DEF Brings
<1>10. OnItsWay(link', Met(tab, shown))
  <2>1. CASE Send(k, f).at = "finishing"
    BY <1>6, <2>1, OwesNothing
  <2>2. CASE /\ Send(k, f).at = k.at /\ Send(k, f).asked = k.asked /\ Send(k, f).found = k.found
             /\ \A x : Bringing(k.queue, x) \/ Brings(f, x) => Bringing(Send(k, f).queue, x)
    BY <1>1, <1>2, <1>4, <1>6, <1>9, <2>2 DEF OnItsWay
  <2> QED
    BY <1>8, <2>1, <2>2
<1> QED
  BY <1>1, <1>6, <1>8, <1>10, LinkMoves

LEMMA ReplayEndsKeeps ==
  ASSUME RtInv, ReplayEnds
  PROVE  RtInv'
<1>1. link \in Links /\ Carries(link) /\ OnItsWay(link, Met(tab, shown)) /\ UNCHANGED <<now, change, tab, poll, shown>>
  BY DEF RtInv, RtTypeOK, ReplayEnds
<1>2. /\ link' \in Links /\ link'.found = {} /\ link'.queue = link.queue /\ link'.asked = link.asked
      /\ link.at = "read" /\ link'.at = "live" /\ link.found = {}
  BY <1>1 DEF Links, ReplayEnds
<1>3. Carries(link') /\ OnItsWay(link', Met(tab, shown))
  BY <1>1, <1>2 DEF Carries, OnItsWay
<1> QED
  BY <1>1, <1>2, <1>3, LinkMoves

(* Ticks and hints.                                                        *)
LEMMA WatchKeeps ==
  ASSUME RtInv, SendHint \/ \E h \in Ids \cup {0} : SendTick(h)
  PROVE  RtInv'
<1>1. link \in Links /\ Carries(link) /\ OnItsWay(link, Met(tab, shown))
  BY DEF RtInv, RtTypeOK
<1>2. PICK t \in {"hint", "tick"}, h \in Nat :
         link' = Send(link, Frame(t, h)) /\ UNCHANGED <<now, change, tab, poll, shown>>
  <2>1. CASE SendHint
    BY <2>1 DEF SendHint
  <2>2. ASSUME NEW h \in Ids \cup {0}, SendTick(h)
        PROVE  h \in Nat /\ link' = Send(link, Frame("tick", h)) /\ UNCHANGED <<now, change, tab, poll, shown>>
    BY <2>2, RealtimeAssumption DEF SendTick
  <2> QED
    BY <2>1, <2>2
<1> DEFINE f == Frame(t, h)
<1>3. f \in Frames /\ f.type # "change" /\ link' = Send(link, f)
  BY <1>2, FrameIs
<1> HIDE DEF f
<1>4. Send(link, f) \in Links /\ Carries(Send(link, f)) /\ OnItsWay(Send(link, f), Met(tab, shown))
  BY <1>1, <1>3, SendMoves
<1> QED
  BY <1>2, <1>3, <1>4, LinkMoves

(* The log moves under the client: nothing is taken back, what is new is   *)
(* behind or later than what the client has of its entity, and nothing     *)
(* more is due.                                                            *)
LEMMA LogMoves ==
  ASSUME RtInv, RtTypeOK', UNCHANGED <<link, tab, poll, shown>>, Committed \subseteq Committed',
         \A x \in Committed' : x \in Committed \/ change'[x].behind \/ ~(x <= tab.revisions[EntityOf[x]]),
         \A x \in Committed : change'[x].behind = change[x].behind,
         \A x \in Ids : Due(x, link.asked)' => Due(x, link.asked)
  PROVE  RtInv'
<1>1. Carries(link)' /\ (poll.ids \subseteq Committed)'
  BY DEF RtInv, Carries
<1>2. Dealt(tab, shown)'
  BY DEF RtInv, Dealt
<1>3. Met(tab, shown) \subseteq Met(tab, shown)'
  BY DEF Met, Dropped
<1>4. OnItsWay(link, Met(tab, shown))'
  BY <1>3 DEF RtInv, OnItsWay, Bringing, Brings
<1> QED
  BY <1>1, <1>2, <1>4 DEF RtInv

LEMMA BuildChangeKeeps ==
  ASSUME RtInv, NEW to \in SUBSET Scopes, BuildChange(to)
  PROVE  RtInv'
<1>1. change \in [Ids -> Changes] /\ now \in Ids /\ change[now].st = "none"
  BY DEF RtInv, RtTypeOK, BuildChange
<1> DEFINE c == [st |-> "built", to |-> to, behind |-> FALSE]
<1>2. c \in Changes /\ c.st = "built"
  BY DEF Changes
<1>3. change' = [change EXCEPT ![now] = c] /\ UNCHANGED <<now, link, tab, poll, shown>>
  BY DEF BuildChange
<1> HIDE DEF c
<1>4. change' \in [Ids -> Changes] /\ \A x \in Ids : change'[x] = IF x = now THEN c ELSE change[x]
  BY <1>1, <1>2, <1>3
<1>5. RtTypeOK'
  BY <1>3, <1>4 DEF RtInv, RtTypeOK
<1>6. Committed' = Committed
  BY <1>1, <1>2, <1>4 DEF Committed
<1>7. \A x \in Ids : Due(x, link.asked)' => Due(x, link.asked)
  BY <1>2, <1>3, <1>4, <1>6 DEF Due, InLog, HeardUnder
<1>8. \A x \in Committed : change'[x].behind = change[x].behind
  BY <1>1, <1>4 DEF Committed
<1> QED
  BY <1>3, <1>5, <1>6, <1>7, <1>8, LogMoves

(* One change goes from one state to the next.                             *)
LEMMA ChangeMoves ==
  ASSUME RtInv, NEW x \in Ids, NEW s \in {"published", "lost"},
         change' = [change EXCEPT ![x].st = s]
  PROVE  /\ change' \in [Ids -> Changes]
         /\ \A y \in Ids : change'[y].st = (IF y = x THEN s ELSE change[y].st) /\ change'[y].to = change[y].to
         /\ \A y \in Ids : change'[y].behind = change[y].behind
<1>1. change \in [Ids -> Changes] /\ change[x] \in Changes
  BY DEF RtInv, RtTypeOK
<1> DEFINE c == [change[x] EXCEPT !.st = s]
<1>2. c \in Changes /\ c.st = s /\ c.to = change[x].to /\ c.behind = change[x].behind
  BY <1>1 DEF Changes
<1>3. change' = [change EXCEPT ![x] = c]
  BY <1>1
<1> HIDE DEF c
<1> QED
  BY <1>1, <1>2, <1>3

LEMMA CommitChangeKeeps ==
  ASSUME RtInv, NEW x \in Ids, CommitChange(x)
  PROVE  RtInv'
<1> DEFINE c == [change[x] EXCEPT !.st = "committed", !.behind = Overtaken(x)]
<1>1. change \in [Ids -> Changes] /\ change[x].st = "built" /\ UNCHANGED <<now, link, tab, poll, shown>>
  BY DEF RtInv, RtTypeOK, CommitChange
<1>2. c \in Changes /\ c.st = "committed" /\ c.to = change[x].to /\ c.behind = Overtaken(x)
  <2>1. Overtaken(x) \in BOOLEAN
    BY DEF Overtaken
  <2> QED
    BY <1>1, <2>1 DEF Changes
<1>3. change' = [change EXCEPT ![x] = c]
  BY <1>1 DEF CommitChange
<1> HIDE DEF c
<1>4. change' \in [Ids -> Changes] /\ change'[x] = c /\ \A y \in Ids : y # x => change'[y] = change[y]
  BY <1>1, <1>2, <1>3
<1>5. RtTypeOK'
  BY <1>1, <1>4 DEF RtInv, RtTypeOK
<1>6. Committed' = Committed \cup {x} /\ x \notin Committed
  BY <1>1, <1>2, <1>4 DEF Committed
<1>7. change'[x].behind \/ ~(x <= tab.revisions[EntityOf[x]])
  <2> SUFFICES ASSUME ~Overtaken(x) PROVE ~(x <= tab.revisions[EntityOf[x]])
    BY <1>2, <1>4
  <2> DEFINE v == tab.revisions[EntityOf[x]]
  <2>1. EntityOf[x] \in Entities
    BY DEF Entities
  <2>2. v # 0 => v \in Committed /\ EntityOf[v] = EntityOf[x]
    BY <2>1 DEF RtInv, Dealt
  <2>3. v # 0 => ~(v > x) /\ v # x
    BY <1>6, <2>2 DEF Overtaken
  <2>4. x \in Nat /\ x >= 1 /\ v \in Nat
    BY <2>1, RealtimeAssumption DEF RtInv, RtTypeOK, Tabs
  <2> QED
    BY <2>3, <2>4
<1>8. \A y \in Committed : y # x /\ change'[y].behind = change[y].behind
  BY <1>4, <1>6 DEF Committed
<1>9. \A y \in Ids : Due(y, link.asked)' => Due(y, link.asked)
  BY <1>1, <1>2, <1>4, <1>6 DEF Due, InLog, HeardUnder
<1> QED
  BY <1>1, <1>5, <1>6, <1>7, <1>8, <1>9, LogMoves

LEMMA PublishLostKeeps ==
  ASSUME RtInv, NEW x \in Ids, PublishLost(x)
  PROVE  RtInv'
<1>1. /\ change' \in [Ids -> Changes]
      /\ \A y \in Ids : change'[y].st = (IF y = x THEN "lost" ELSE change[y].st) /\ change'[y].to = change[y].to
      /\ \A y \in Ids : change'[y].behind = change[y].behind
  BY ChangeMoves DEF PublishLost
<1>2. RtTypeOK'
  BY <1>1 DEF RtInv, RtTypeOK, PublishLost
<1>3. Committed' = Committed
  BY <1>1 DEF Committed, PublishLost
<1>4. \A y \in Ids : Due(y, link.asked)' => Due(y, link.asked)
  BY <1>1, <1>3 DEF Due, InLog, HeardUnder, PublishLost
<1>5. \A y \in Committed : change'[y].behind = change[y].behind
  BY <1>1 DEF Committed
<1> QED
  BY <1>2, <1>3, <1>4, <1>5, LogMoves DEF PublishLost

LEMMA TimePassesKeeps ==
  ASSUME RtInv, TimePasses
  PROVE  RtInv'
<1>1. RtTypeOK'
  BY DEF RtInv, RtTypeOK, TimePasses
<1>2. Committed' = Committed
  BY DEF Committed, TimePasses
<1>3. now \in Nat /\ now' = now + 1 /\ ChangeTTL \in Nat /\ \A y \in Ids : y \in Nat
  BY RealtimeAssumption DEF RtInv, RtTypeOK, TimePasses
<1>4. \A y \in Ids : y + ChangeTTL > now' => y + ChangeTTL > now
  BY <1>3
<1>5. InLog' \subseteq InLog
  BY <1>2, <1>4 DEF InLog, HeardUnder, TimePasses, Committed
<1>6. \A y \in Ids : Due(y, link.asked)' => Due(y, link.asked)
  BY <1>5 DEF Due, TimePasses
<1> QED
  BY <1>1, <1>2, <1>6, LogMoves DEF TimePasses

(* A published change goes to the queue of a registered connection, or     *)
(* ends it.                                                                *)
LEMMA PublishChangeKeeps ==
  ASSUME RtInv, NEW x \in Ids, PublishChange(x)
  PROVE  RtInv'
<1>1. /\ change' \in [Ids -> Changes]
      /\ \A y \in Ids : change'[y].st = (IF y = x THEN "published" ELSE change[y].st) /\ change'[y].to = change[y].to
      /\ \A y \in Ids : change'[y].behind = change[y].behind
  BY ChangeMoves DEF PublishChange
<1>2. link \in Links /\ Carries(link) /\ OnItsWay(link, Met(tab, shown)) /\ x \in Committed /\ x \in Nat
  BY RealtimeAssumption DEF RtInv, RtTypeOK, PublishChange, Committed
<1>3. Committed' = Committed
  BY <1>1 DEF Committed, PublishChange
<1> DEFINE f == Frame("change", x)
<1>4. f \in Frames /\ f.type = "change" /\ f.val = x
  BY <1>2, FrameIs
<1>5. \/ link' = link /\ (~Registered \/ HeardUnder(x) = {})
      \/ link' = Send(link, f) \/ link' = Send(Send(link, f), f)
  BY DEF PublishChange, SendTwice
<1> HIDE DEF f
<1>6. \A y : Brings(f, y) <=> y = x
  BY <1>4 DEF Brings
<1> DEFINE k == Send(link, f)
<1>7. k \in Links /\ Carries(k) /\ OnItsWay(k, Met(tab, shown))
      /\ (k.at \in {"read", "live"} => Bringing(k.queue, x))
  <2>1. k \in Links /\ Carries(k) /\ OnItsWay(k, Met(tab, shown))
    BY <1>2, <1>4, SendMoves
  <2>2. \/ k.at = "finishing" \/ \A y : Bringing(link.queue, y) \/ Brings(f, y) => Bringing(k.queue, y)
    BY <1>2, <1>4, Sends
  <2> QED
    BY <1>6, <2>1, <2>2
<1> DEFINE h == Send(k, f)
<1> HIDE DEF k
<1>8. h \in Links /\ Carries(h) /\ OnItsWay(h, Met(tab, shown))
      /\ (h.at \in {"read", "live"} => Bringing(h.queue, x))
  <2>1. h \in Links /\ Carries(h) /\ OnItsWay(h, Met(tab, shown))
    BY <1>2, <1>4, <1>7, SendMoves
  <2>2. \/ h.at = "finishing" \/ \A y : Bringing(k.queue, y) \/ Brings(f, y) => Bringing(h.queue, y)
    BY <1>2, <1>4, <1>7, Sends
  <2> QED
    BY <1>6, <2>1, <2>2
<1> HIDE DEF h
<1>9. /\ link' \in Links /\ Carries(link') /\ OnItsWay(link', Met(tab, shown))
      /\ link'.at \in {"read", "live"} => Bringing(link'.queue, x) \/ HeardUnder(x) = {}
  BY <1>2, <1>5, <1>7, <1>8 DEF Registered, h, k
<1>10. RtTypeOK'
  BY <1>1, <1>9 DEF RtInv, RtTypeOK, PublishChange
<1>11. Carries(link)' /\ (poll.ids \subseteq Committed)' /\ Dealt(tab, shown)'
  BY <1>1, <1>3, <1>9 DEF RtInv, Carries, Dealt, PublishChange, Committed
<1>14. Met(tab, shown)' = Met(tab, shown)
  BY <1>1, <1>3 DEF Met, Dropped, Committed, PublishChange
<1>12. \A y \in Ids : Due(y, link.asked)' => Due(y, link'.asked) \/ (y = x /\ HeardUnder(x) # {})
  BY <1>1, <1>3 DEF Due, InLog, HeardUnder, PublishChange
<1>13. OnItsWay(link, Met(tab, shown))'
  BY <1>9, <1>14, <1>12 DEF OnItsWay, Bringing, Brings, PublishChange
<1> QED
  BY <1>10, <1>11, <1>13 DEF RtInv

(* The client applies changes that are committed: its revisions move up to *)
(* the latest of them, and a change it skips was met already.              *)
LEMMA Applying ==
  ASSUME RtInv, NEW xs, xs \subseteq Committed, ApplyChanges(xs)
  PROVE  /\ tab' \in Tabs /\ Dealt(tab', shown')
         /\ Met(tab, shown) \subseteq Met(tab', shown') /\ xs \subseteq Met(tab', shown')
<1> DEFINE old == tab.revisions
           R(e) == {old[e]} \cup {x \in xs : EntityOf[x] = e}
           v(e) == Max(R(e))
<1>1. /\ tab \in Tabs /\ Dealt(tab, shown) /\ old \in [Entities -> Nat] /\ tab.seen \subseteq Ids
      /\ tab.cursor \in Nat
  BY DEF RtInv, RtTypeOK, Tabs
<1>2. Committed \subseteq Ids /\ xs \subseteq Ids /\ MaxTime \in Nat /\ Ids \subseteq Nat /\ 0 \notin Ids
  BY RealtimeAssumption DEF Committed
<1>20. xs \subseteq 0..MaxTime
  BY <1>2
<1>3. \A x \in Ids : EntityOf[x] \in Entities
  BY DEF Entities
<1>4. ASSUME NEW e \in Entities
      PROVE  v(e) \in R(e) /\ v(e) \in Nat /\ \A y \in R(e) : y <= v(e)
  <2>1. old[e] \in 0..MaxTime
    BY <1>1, <1>2 DEF Dealt
  <2>2. R(e) \subseteq 0..MaxTime /\ R(e) # {}
    BY <1>20, <2>1
  <2> HIDE DEF R
  <2> QED
    BY <1>2, <2>2, Greatest
<1>5. Max(xs \cup {tab.cursor}) \in Nat
  <2> DEFINE N == MaxTime + tab.cursor
  <2>0. N \in Nat /\ 0..MaxTime \subseteq 0..N /\ tab.cursor \in 0..N
    BY <1>1, <1>2
  <2>1. N \in Nat /\ xs \cup {tab.cursor} \subseteq 0..N /\ xs \cup {tab.cursor} # {}
    BY <1>20, <2>0
  <2> HIDE DEF N
  <2> QED
    BY <2>1, Greatest
<1> HIDE DEF v
<1>6. DOMAIN old = Entities
  BY <1>1
<1>7. /\ tab' = [tab EXCEPT !.seen = tab.seen \cup xs, !.cursor = Max(xs \cup {tab.cursor}),
                            !.revisions = [e \in Entities |-> v(e)]]
  BY <1>1, <1>6 DEF ApplyChanges, Applied, v, Tabs
<1>8. [e \in Entities |-> v(e)] \in [Entities -> Nat]
  BY <1>4
<1>9. /\ tab' \in Tabs /\ tab'.seen = tab.seen \cup xs /\ tab'.revisions = [e \in Entities |-> v(e)]
  BY <1>1, <1>2, <1>5, <1>7, <1>8 DEF Tabs
<1>10. shown \subseteq shown' /\ shown' \subseteq Committed
  BY <1>1 DEF ApplyChanges, Refetched, Dealt
<1>11. ASSUME NEW x \in Committed, x <= v(EntityOf[x]), ~change[x].behind PROVE x \in shown'
  <2> DEFINE e == EntityOf[x]
             w == v(e)
  <2>1. e \in Entities /\ w \in R(e) /\ w \in Nat /\ old[e] <= w /\ old[e] \in Nat
    BY <1>1, <1>2, <1>3, <1>4
  <2>2. CASE w = old[e]
    BY <1>1, <1>10, <1>11, <2>2 DEF Dealt
  <2>3. CASE w # old[e]
    <3>1. w \in xs /\ EntityOf[w] = e /\ ~(w <= old[e]) /\ w >= old[e]
      BY <2>1, <2>3
    <3>2. w \notin tab.seen
      BY <1>1, <3>1 DEF Dealt
    <3>3. Applies(w) /\ x \in Refetched(w)
      BY <3>1, <3>2 DEF Applies, Refetched
    <3> HIDE DEF w
    <3> QED
      BY <3>1, <3>3 DEF ApplyChanges
  <2> QED
    BY <2>2, <2>3
<1>12. \A x \in xs : x <= v(EntityOf[x])
  BY <1>2, <1>3, <1>4
<1>13. \A x \in tab.seen : x <= v(EntityOf[x])
  <2> SUFFICES ASSUME NEW x \in tab.seen PROVE x <= v(EntityOf[x])
    OBVIOUS
  <2>1. x <= old[EntityOf[x]] /\ x \in Nat /\ EntityOf[x] \in Entities
    BY <1>1, <1>2, <1>3 DEF Dealt
  <2>2. old[EntityOf[x]] <= v(EntityOf[x]) /\ old[EntityOf[x]] \in Nat /\ v(EntityOf[x]) \in Nat
    BY <1>1, <1>4, <2>1
  <2> QED
    BY <2>1, <2>2
<1>14. ASSUME NEW e \in Entities, v(e) # 0 PROVE v(e) \in shown' /\ EntityOf[v(e)] = e
  <2>1. v(e) \in R(e) /\ v(e) \in Nat /\ old[e] <= v(e) /\ old[e] \in Nat
    BY <1>1, <1>4
  <2>2. CASE v(e) = old[e]
    BY <1>1, <1>10, <1>14, <2>2 DEF Dealt
  <2>3. CASE v(e) # old[e]
    <3> DEFINE w == v(e)
    <3>1. w \in xs /\ EntityOf[w] = e /\ ~(w <= old[e]) /\ w >= old[e]
      BY <2>1, <2>3
    <3>2. w \notin tab.seen
      BY <1>1, <3>1 DEF Dealt
    <3>3. Applies(w) /\ w \in Refetched(w)
      BY <3>1, <3>2 DEF Applies, Refetched
    <3> HIDE DEF w
    <3>4. w \in shown'
      BY <3>1, <3>3 DEF ApplyChanges
    <3> QED
      BY <3>1, <3>4 DEF w
  <2> QED
    BY <2>2, <2>3
<1>15. \A x \in Ids : tab'.revisions[EntityOf[x]] = v(EntityOf[x])
  BY <1>3, <1>9
<1>16. Dealt(tab', shown')
  <2>1. \A x \in tab'.seen : x \in Committed /\ x <= tab'.revisions[EntityOf[x]]
    BY <1>1, <1>2, <1>9, <1>12, <1>13, <1>15 DEF Dealt
  <2>2. \A e \in Entities : tab'.revisions[e] # 0 =>
          tab'.revisions[e] \in shown' /\ EntityOf[tab'.revisions[e]] = e
    BY <1>9, <1>14
  <2>3. \A x \in Committed : x <= tab'.revisions[EntityOf[x]] /\ ~change[x].behind => x \in shown'
    BY <1>2, <1>11, <1>15
  <2> QED
    BY <1>10, <2>1, <2>2, <2>3 DEF Dealt
<1>17. xs \subseteq Met(tab', shown')
  <2> SUFFICES ASSUME NEW x \in xs, ~(x \in shown') PROVE x \in Dropped(tab')
    BY DEF Met
  <2>1. x \in Committed /\ x \in Ids /\ x \in Nat /\ x # 0 /\ EntityOf[x] \in Entities /\ x <= v(EntityOf[x])
    BY <1>2, <1>3, <1>12
  <2>2. v(EntityOf[x]) \in Nat
    BY <1>4, <2>1
  <2>3. change[x].behind
    BY <1>11, <2>1
  <2>4. x # v(EntityOf[x])
    BY <1>14, <2>1
  <2>5. x < v(EntityOf[x])
    BY <2>1, <2>2, <2>4
  <2> QED
    BY <1>15, <2>1, <2>3, <2>5 DEF Dropped
<1>18. Dropped(tab) \subseteq Dropped(tab')
  <2> SUFFICES ASSUME NEW x \in Dropped(tab) PROVE x \in Dropped(tab')
    OBVIOUS
  <2>1. x \in Committed /\ change[x].behind /\ x < old[EntityOf[x]]
    BY DEF Dropped
  <2>2. x \in Ids /\ x \in Nat /\ EntityOf[x] \in Entities
    BY <1>2, <1>3, <2>1
  <2>3. old[EntityOf[x]] <= v(EntityOf[x]) /\ old[EntityOf[x]] \in Nat /\ v(EntityOf[x]) \in Nat
    BY <1>1, <1>4, <2>2
  <2>4. x < v(EntityOf[x])
    BY <2>1, <2>2, <2>3
  <2> QED
    BY <1>15, <2>1, <2>2, <2>4 DEF Dropped
<1>19. Met(tab, shown) \subseteq Met(tab', shown')
  BY <1>10, <1>18 DEF Met
<1> QED
  BY <1>9, <1>16, <1>17, <1>19

(* Everything committed is on the screens.                                 *)
LEMMA Reloads ==
  ASSUME RtInv, NEW t, t.seen = tab.seen, t.revisions = tab.revisions
  PROVE  Dealt(t, Committed) /\ \A k : OnItsWay(k, Met(t, Committed))
<1>1. Dealt(t, Committed)
  BY DEF RtInv, Dealt
<1>2. \A x \in Ids : x \in InLog => x \in Committed
  BY DEF InLog
<1> QED
  BY <1>1, <1>2 DEF OnItsWay, Due, Met

(* More on the screens leaves no more to bring.                            *)
LEMMA ShowsMore ==
  ASSUME NEW k, NEW s, NEW u, OnItsWay(k, s), s \subseteq u
  PROVE  OnItsWay(k, u)
  BY DEF OnItsWay

(* The frame at the head of the queue, and the connection without it.      *)
LEMMA TakesFrame ==
  ASSUME NEW k \in Links, k.queue # << >>, Carries(k)
  PROVE  LET f == Head(k.queue)
             t == [k EXCEPT !.queue = Tail(@)]
         IN  /\ f \in Frames /\ (f.type = "change" => f.val \in Committed)
             /\ t \in Links /\ Carries(t)
             /\ \A s : OnItsWay(k, s) => \A u : s \subseteq u /\ (\A x \in Ids : Due(x, k.asked) /\ Brings(f, x) => x \in u)
                         => OnItsWay(t, u)
<1> DEFINE q == k.queue
           f == Head(q)
           t == [k EXCEPT !.queue = Tail(q)]
<1>1. q \in Seq(Frames)
  BY DEF Links
<1>2. /\ f \in Frames /\ Tail(q) \in Seq(Frames) /\ Len(q) \in Nat /\ Len(q) >= 1 /\ Len(Tail(q)) = Len(q) - 1
      /\ f = q[1] /\ \A i \in 1..Len(Tail(q)) : Tail(q)[i] = q[i + 1]
  BY <1>1
<1>3. \A i \in 1..Len(Tail(q)) : i + 1 \in 1..Len(q)
  BY <1>2
<1>4. \A i \in 1..Len(q) : i = 1 \/ (i - 1 \in 1..Len(Tail(q)) /\ q[i] = Tail(q)[i - 1])
  BY <1>2
<1>5. \A x : Bringing(q, x) => Brings(f, x) \/ Bringing(Tail(q), x)
  BY <1>2, <1>4 DEF Bringing
<1>6. f.type = "change" => f.val \in Committed
  BY <1>2 DEF Carries
<1>7. /\ t \in Links /\ t.queue = Tail(q) /\ t.found = k.found /\ t.at = k.at /\ t.asked = k.asked
  BY <1>2 DEF Links
<1>8. [k EXCEPT !.queue = Tail(@)] = t
  BY DEF Links
<1> HIDE DEF t, f
<1>9. Carries(t)
  BY <1>2, <1>3, <1>7 DEF Carries
<1>10. ASSUME NEW s, OnItsWay(k, s), NEW u, s \subseteq u,
              \A x \in Ids : Due(x, k.asked) /\ Brings(f, x) => x \in u
       PROVE  OnItsWay(t, u)
  BY <1>5, <1>7, <1>10 DEF OnItsWay
<1> QED
  BY <1>2, <1>6, <1>7, <1>8, <1>9, <1>10 DEF f

(* What the client does with a Gap, a Tick and a Bye, given a connection   *)
(* k that owes nothing more than the screens show or it brings.            *)
LEMMA Gaps ==
  ASSUME RtInv, NEW k, NEW w, OnGap(k, w)
  PROVE  tab' \in Tabs /\ Dealt(tab', shown') /\ OnItsWay(k, Met(tab', shown')) /\ link' = k
<1>1. tab \in Tabs
  BY DEF RtInv, RtTypeOK
<1>2. tab' \in Tabs /\ tab'.seen = tab.seen /\ tab'.revisions = tab.revisions
  BY <1>1 DEF OnGap, Tabs
<1> QED
  BY <1>2, Reloads DEF OnGap

LEMMA Ticks ==
  ASSUME RtInv, NEW k \in Links, NEW h \in Nat, OnTick(k, h), Carries(k), OnItsWay(k, Met(tab, shown))
  PROVE  /\ tab' \in Tabs /\ Dealt(tab', shown')
         /\ link' \in Links /\ Carries(link') /\ OnItsWay(link', Met(tab', shown'))
<1>1. tab \in Tabs /\ Dealt(tab, shown)
  BY DEF RtInv, RtTypeOK
<1>2. OnClose \in {"connecting", "live", "polling", "waiting-token", "revoked", "off"}
  BY <1>1 DEF OnClose, Tabs
<1>3. tab' \in Tabs /\ tab'.seen = tab.seen /\ tab'.revisions = tab.revisions
  <2>1. CASE tab' = tab
    BY <1>1, <2>1
  <2>2. CASE tab' = [tab EXCEPT !.cursor = h]
    BY <1>1, <2>2 DEF Tabs
  <2>3. CASE tab' = [tab EXCEPT !.replayPending = TRUE, !.status = OnClose]
    BY <1>1, <1>2, <2>3 DEF Tabs
  <2> QED
    BY <2>1, <2>2, <2>3 DEF OnTick
<1>4. Dealt(tab', shown') /\ Met(tab', shown') = Met(tab, shown)
  BY <1>1, <1>3, DealtStands DEF OnTick
<1>5. link' \in {k, NoLink} /\ shown' = shown
  BY DEF OnTick
<1> QED
  BY <1>3, <1>4, <1>5, NoLinkIs

LEMMA Byes ==
  ASSUME RtInv, NEW k, NEW w, OnBye(k, w)
  PROVE  tab' \in Tabs /\ Dealt(tab', shown') /\ link' = k /\ Met(tab', shown') = Met(tab, shown)
<1>1. tab \in Tabs /\ Dealt(tab, shown)
  BY DEF RtInv, RtTypeOK
<1>2. tab' \in Tabs /\ tab'.seen = tab.seen /\ tab'.revisions = tab.revisions
  <2>1. \/ tab' = [tab EXCEPT !.status = "connecting", !.held = TRUE]
        \/ tab' = [tab EXCEPT !.status = "waiting-token", !.held = TRUE]
        \/ tab' = [tab EXCEPT !.status = "revoked", !.held = TRUE, !.cursor = 0]
        \/ tab' = [tab EXCEPT !.status = "connecting"]
    BY DEF OnBye
  <2>2. CASE tab' = [tab EXCEPT !.status = "connecting", !.held = TRUE]
    BY <1>1, <2>2 DEF Tabs
  <2>3. CASE tab' = [tab EXCEPT !.status = "waiting-token", !.held = TRUE]
    BY <1>1, <2>3 DEF Tabs
  <2>4. CASE tab' = [tab EXCEPT !.status = "revoked", !.held = TRUE, !.cursor = 0]
    BY <1>1, <2>4 DEF Tabs
  <2>5. CASE tab' = [tab EXCEPT !.status = "connecting"]
    BY <1>1, <2>5 DEF Tabs
  <2> QED
    BY <2>1, <2>2, <2>3, <2>4, <2>5
<1>3. shown' = shown /\ link' = k
  BY DEF OnBye
<1>4. Dealt(tab', shown) /\ Met(tab', shown) = Met(tab, shown)
  BY <1>1, <1>2, DealtStands
<1> QED
  BY <1>2, <1>3, <1>4

LEMMA OnFrameKeeps ==
  ASSUME RtInv, OnFrame
  PROVE  RtInv'
<1> DEFINE f == Head(link.queue)
           k == [link EXCEPT !.queue = Tail(@)]
           Brought(u) == \A x \in Ids : Due(x, link.asked) /\ Brings(f, x) => x \in u
<1>1. /\ link \in Links /\ Carries(link) /\ OnItsWay(link, Met(tab, shown)) /\ tab \in Tabs /\ Dealt(tab, shown)
      /\ poll \in Polls /\ poll.ids \subseteq Committed /\ link.queue # << >> /\ UNCHANGED <<now, change>>
      /\ poll' \in {poll, NoPoll}
  BY DEF RtInv, RtTypeOK, OnFrame
<1>2. /\ f \in Frames /\ (f.type = "change" => f.val \in Committed)
      /\ k \in Links /\ Carries(k)
      /\ \A u : Met(tab, shown) \subseteq u /\ Brought(u) => OnItsWay(k, u)
  BY <1>1, TakesFrame
<1>3. \/ f.type = "ready" /\ OnStatus(k, "live")
      \/ f.type = "hint" /\ OnStatus(k, "polling")
      \/ f.type = "change" /\ ApplyChanges({f.val}) /\ link' = k
      \/ f.type = "gap" /\ OnGap(k, f.why)
      \/ f.type = "tick" /\ OnTick(k, f.val)
      \/ f.type = "bye" /\ OnBye(k, f.why)
  <2>1. f.type \in {"ready", "hint", "change", "tick", "gap", "bye"}
    BY <1>2 DEF Frames
  <2> QED
    BY <2>1 DEF OnFrame
<1>4. poll' \in Polls /\ poll'.ids \subseteq Committed
  BY <1>1, NoPollIs
<1> HIDE DEF f, k
<1>5. f.type \notin {"change", "gap"} => OnItsWay(k, Met(tab, shown))
  BY <1>2 DEF Brings
<1> HIDE DEF Brought
<1>6. /\ tab' \in Tabs /\ Dealt(tab', shown')
      /\ link' \in Links /\ Carries(link') /\ OnItsWay(link', Met(tab', shown'))
  <2>1. ASSUME NEW s \in {"live", "polling"}, f.type \in {"ready", "hint"}, OnStatus(k, s)
        PROVE  /\ tab' \in Tabs /\ Dealt(tab', shown')
               /\ link' \in Links /\ Carries(link') /\ OnItsWay(link', Met(tab', shown'))
    <3>1. tab' \in Tabs /\ tab'.seen = tab.seen /\ tab'.revisions = tab.revisions
      BY <1>1, <2>1 DEF OnStatus, Tabs
    <3>2. Dealt(tab', shown) /\ Met(tab', shown) = Met(tab, shown)
      BY <1>1, <3>1, DealtStands
    <3>3. shown' = shown /\ link' = k
      BY <2>1 DEF OnStatus
    <3>4. OnItsWay(k, Met(tab, shown))
      BY <1>5, <2>1
    <3> QED
      BY <1>2, <3>1, <3>2, <3>3, <3>4
  <2>2. CASE f.type = "change" /\ ApplyChanges({f.val}) /\ link' = k
    <3>1. {f.val} \subseteq Committed
      BY <1>2, <2>2
    <3>2. /\ tab' \in Tabs /\ Dealt(tab', shown')
          /\ Met(tab, shown) \subseteq Met(tab', shown') /\ f.val \in Met(tab', shown')
      BY <2>2, <3>1, Applying
    <3>3. Brought(Met(tab', shown'))
      BY <2>2, <3>2 DEF Brought, Brings
    <3> QED
      BY <1>2, <2>2, <3>2, <3>3
  <2>3. CASE f.type = "gap" /\ OnGap(k, f.why)
    BY <1>2, <2>3, Gaps
  <2>4. CASE f.type = "tick" /\ OnTick(k, f.val)
    <3>1. f.val \in Nat
      BY <1>2, <2>4 DEF Frames
    <3> QED
      BY <1>2, <1>5, <2>4, <3>1, Ticks
  <2>5. CASE f.type = "bye" /\ OnBye(k, f.why)
    BY <1>2, <1>5, <2>5, Byes
  <2> QED
    BY <1>3, <2>1, <2>2, <2>3, <2>4, <2>5
<1> QED
  BY <1>1, <1>4, <1>6, LogStands

(* The poller.                                                             *)
LEMMA PollAsksKeeps ==
  ASSUME RtInv, PollAsks
  PROVE  RtInv'
<1>1. /\ link \in Links /\ tab \in Tabs /\ Carries(link) /\ OnItsWay(link, Met(tab, shown)) /\ Dealt(tab, shown)
      /\ UNCHANGED <<now, change, link, tab, shown>>
  BY DEF RtInv, RtTypeOK, PollAsks
<1>2. LogHead \in Nat
  <2>1. InLog \cup {0} \subseteq 0..MaxTime /\ InLog \cup {0} # {} /\ MaxTime \in Nat
    BY RealtimeAssumption DEF InLog, Committed
  <2> QED
    BY <2>1, Greatest DEF LogHead
<1>3. Page(tab.cursor) \subseteq Committed /\ Committed \subseteq Ids
  BY DEF Page, Since, InLog, Committed
<1>4. poll' \in Polls /\ poll'.ids \subseteq Committed
  BY <1>2, <1>3 DEF PollAsks, Polls
<1> QED
  BY <1>1, <1>4, LogStands

LEMMA PollAnswersKeeps ==
  ASSUME RtInv, PollAnswers
  PROVE  RtInv'
<1>1. /\ link \in Links /\ tab \in Tabs /\ Carries(link) /\ OnItsWay(link, Met(tab, shown)) /\ Dealt(tab, shown)
      /\ poll.ids \subseteq Committed /\ poll.head \in Nat
      /\ poll' = NoPoll /\ UNCHANGED <<now, change>>
  BY DEF RtInv, RtTypeOK, PollAnswers, Polls
<1>2. /\ tab' \in Tabs /\ Dealt(tab', shown')
      /\ link' \in Links /\ Carries(link') /\ OnItsWay(link', Met(tab', shown'))
  <2>1. CASE OnGap(link, "cursor_too_old")
    BY <1>1, <2>1, Gaps
  <2>2. CASE ApplyChanges(poll.ids) /\ UNCHANGED link
    BY <1>1, <2>2, Applying, ShowsMore
  <2>3. CASE OnTick(link, poll.head)
    BY <1>1, <2>3, Ticks
  <2> QED
    BY <2>1, <2>2, <2>3 DEF PollAnswers
<1> QED
  BY <1>1, <1>2, NoPollIs, LogStands

LEMMA PollRefusedKeeps ==
  ASSUME RtInv, PollRefused
  PROVE  RtInv'
<1>1. /\ link \in Links /\ poll \in Polls /\ Carries(link) /\ OnItsWay(link, Met(tab, shown))
      /\ poll.ids \subseteq Committed /\ UNCHANGED <<now, change, poll>> /\ OnBye(link, "unauthorized")
  BY DEF RtInv, RtTypeOK, PollRefused
<1>2. tab' \in Tabs /\ Dealt(tab', shown') /\ link' = link /\ Met(tab', shown') = Met(tab, shown)
  BY <1>1, Byes
<1> QED
  BY <1>1, <1>2, LogStands

(* The client's own moves.                                                 *)
LEMMA TabKeeps ==
  ASSUME RtInv, OnUnreachable \/ OnToken \/ ReleaseHold \/ OnDisabled \/ LeaveTenant
  PROVE  RtInv'
<1>1. /\ link \in Links /\ tab \in Tabs /\ Carries(link) /\ OnItsWay(link, Met(tab, shown)) /\ Dealt(tab, shown)
      /\ poll \in Polls /\ poll.ids \subseteq Committed
  BY DEF RtInv, RtTypeOK
<1>2. UNCHANGED <<now, change, link, shown>> /\ poll' \in {poll, NoPoll}
  BY DEF OnUnreachable, OnToken, ReleaseHold, OnDisabled, LeaveTenant
<1>3. tab' \in Tabs /\ tab'.seen = tab.seen /\ tab'.revisions = tab.revisions
  BY <1>1 DEF OnUnreachable, OnToken, ReleaseHold, OnDisabled, LeaveTenant, Tabs
<1>4. Dealt(tab', shown') /\ Met(tab', shown') = Met(tab, shown)
  BY <1>1, <1>2, <1>3, DealtStands
<1> QED
  BY <1>1, <1>2, <1>3, <1>4, NoPollIs, LogStands

LEMMA AnewKeeps ==
  ASSUME RtInv, ReloadPage \/ SwitchSurface
  PROVE  RtInv'
<1>1. tab \in Tabs /\ DOMAIN tab.revisions = Entities
  BY DEF RtInv, RtTypeOK, Tabs
<1> DEFINE zero == [e \in Entities |-> 0]
<1>2. zero \in [Entities -> Nat] /\ \A e \in Entities : zero[e] = 0
  OBVIOUS
<1>3. /\ UNCHANGED <<now, change>> /\ link' = NoLink /\ poll' = NoPoll /\ shown' = Committed
      /\ \/ tab' = [tab EXCEPT !.status = "connecting", !.seen = {}, !.held = FALSE, !.replayPending = FALSE,
                               !.revisions = zero]
         \/ tab' = [tab EXCEPT !.status = "connecting", !.cursor = 0, !.seen = {}, !.held = FALSE,
                               !.replayPending = FALSE, !.revisions = zero]
  BY <1>1 DEF ReloadPage, SwitchSurface, Tabs
<1> HIDE DEF zero
<1>4. tab' \in Tabs /\ tab'.seen = {} /\ tab'.revisions = zero
  <2>1. CASE tab' = [tab EXCEPT !.status = "connecting", !.seen = {}, !.held = FALSE, !.replayPending = FALSE,
                                !.revisions = zero]
    BY <1>1, <1>2, <2>1 DEF Tabs
  <2>2. CASE tab' = [tab EXCEPT !.status = "connecting", !.cursor = 0, !.seen = {}, !.held = FALSE,
                                !.replayPending = FALSE, !.revisions = zero]
    BY <1>1, <1>2, <2>2 DEF Tabs
  <2> QED
    BY <1>3, <2>1, <2>2
<1>5. Dealt(tab', shown')
  BY <1>2, <1>3, <1>4 DEF Dealt
<1> QED
  BY <1>3, <1>4, <1>5, NoLinkIs, NoPollIs, LogStands

LEMMA RtInitInv == RealtimeInit => RtInv
<1> SUFFICES ASSUME RealtimeInit PROVE RtInv
  OBVIOUS
<1> DEFINE zero == [e \in Entities |-> 0]
<1>1. zero \in [Entities -> Nat] /\ \A e \in Entities : zero[e] = 0
  OBVIOUS
<1>2. tab = [status |-> "connecting", cursor |-> 0, seen |-> {}, revisions |-> zero,
             replayPending |-> FALSE, held |-> FALSE]
  BY DEF RealtimeInit, Entities
<1> HIDE DEF zero
<1>3. tab \in Tabs /\ tab.seen = {} /\ tab.revisions = zero
  BY <1>1, <1>2 DEF Tabs
<1>4. change \in [Ids -> Changes] /\ \A x \in Ids : change[x].st = "none"
  BY DEF RealtimeInit, Changes
<1>5. Committed = {}
  BY <1>4 DEF Committed
<1>6. Dealt(tab, shown)
  BY <1>1, <1>3, <1>5 DEF Dealt, RealtimeInit
<1> QED
  BY <1>3, <1>4, <1>5, <1>6, NoLinkIs, NoPollIs DEF RealtimeInit, RtInv, RtTypeOK

LEMMA RtNextInv ==
  ASSUME RtInv, [RealtimeNext]_rtVars
  PROVE  RtInv'
<1>1. CASE UNCHANGED rtVars
  BY <1>1, LogStands DEF rtVars, RtInv, RtTypeOK
<1>2. CASE RealtimeNext
  BY <1>2, BuildChangeKeeps, CommitChangeKeeps, PublishChangeKeeps, PublishLostKeeps, OnOpenKeeps,
     ReplaySendsKeeps, ReplayEndsKeeps, WatchKeeps, ClosingKeeps, ServeKeeps, ReplayReadsKeeps, EndingsKeep,
     OnFrameKeeps, PollAsksKeeps, PollAnswersKeeps, PollRefusedKeeps, TabKeeps, AnewKeeps, TimePassesKeeps
     DEF RealtimeNext
<1> QED
  BY <1>1, <1>2

(* A client that resumed and has read all its connection sent has met every *)
(* published change in the reach of its cursor, whenever it was committed, *)
(* for any clock, TTL, overlap, queue and page sizes: the registration     *)
(* comes before the read of the log, so that a change is found, queued or  *)
(* made up for by a Gap, and the core drops only what was committed behind *)
(* a revision of its entity that it had applied.                           *)
THEOREM ResumesWithoutLoss == RealtimeSpec => []CaughtUp
<1>1. RtInv => CaughtUp
  <2> SUFFICES ASSUME RtInv, link.at = "live", link.queue = << >>, link.asked # 0,
                      NEW x \in InLog, x + ChangeOverlap >= link.asked, change[x].st = "published"
               PROVE  x \in shown \/ (change[x].behind /\ x < tab.revisions[EntityOf[x]])
    BY DEF CaughtUp
  <2>1. x \in Ids /\ Due(x, link.asked)
    BY DEF InLog, Committed, Due
  <2>2. ~Bringing(link.queue, x)
    BY DEF Bringing
  <2>3. x \in Met(tab, shown)
    BY <2>1, <2>2 DEF RtInv, OnItsWay
  <2> QED
    BY <2>3 DEF Met, Dropped
<1> QED
  BY <1>1, RtInitInv, RtNextInv, PTL DEF RealtimeSpec

=============================================================================
