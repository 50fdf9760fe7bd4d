------------------------------- MODULE Outbox -------------------------------
(***************************************************************************)
(* Webhooks: an event is queued with the change it reports, a pass fans it *)
(* out to one delivery row per endpoint, and passes (the timer's and the   *)
(* ones a payment kicks) attempt the rows that are due.  Passes overlap,   *)
(* mark rows from what they read, and die; endpoints come, go and fail.    *)
(*                                                                         *)
(* A pass attempts its endpoints in parallel, one delivery of an endpoint  *)
(* after the other.  Two endpoints share no row, so the model lets a pass  *)
(* take its attempts one at a time in any order.                           *)
(*                                                                         *)
(* The fan-out queue is read through an index that lags: a reading shows   *)
(* any of the events emitted, those that left the queue too, at most       *)
(* kickBatch of them.                                                      *)
(***************************************************************************)
EXTENDS Naturals, FiniteSets, TLC

CONSTANTS
    Events,        \* the events the changes report
    Pings,         \* test events
    Endpoints,     \* endpoint ids
    Provisioned,   \* those an operator made (no added_by); the others are added in the console
    Filters,       \* the sets of event types an endpoint may subscribe to
    Adders,        \* console requests adding an endpoint
    Job,           \* the timer's pass
    KickPass,      \* the pass of the goroutine Kick starts
    MaxDeliveryAttempts, MaxFailureRun, MaxWebhookEndpoints,
    KickBatch,     \* the events one reading of the fan-out queue returns
    KickRetries,   \* how often a kicked round looks again while it finds nothing
    Budget         \* bounds the timer's passes, the crashes and the writes and reads that fail

All     == Events \cup Pings
Passes  == {Job, KickPass}
Keys    == All \X Endpoints

ASSUME OutboxAssumption ==
    /\ Provisioned \subseteq Endpoints /\ Events \cap Pings = {} /\ Job # KickPass
    /\ {MaxDeliveryAttempts, MaxFailureRun, MaxWebhookEndpoints, KickBatch} \subseteq Nat \ {0}
    /\ KickRetries \in Nat

VARIABLES
    event,       \* event -> its row: whether it is there and on the fan-out queue
    delivery,    \* <<event, endpoint>> -> its row; queued: on the delivery queue, now or later
    endpoint,    \* endpoint -> its row
    rev,         \* the endpoints' revision counter
    adder,       \* console request -> what it read
    pass,        \* pass -> where it is
    running, again,   \* DeliveryKick's flags, under its mutex
    kick,        \* event -> what this process did about the kick asked for it
    received,    \* the deliveries whose endpoint took the event
    since,       \* <<event, endpoint>> such that the endpoint wanted the event ever since it was emitted
    spent

outboxVars == <<event, delivery, endpoint, rev, adder, pass, running, again, kick, received, since, spent>>

NoPass   == [at |-> "idle"]
Fresh  == [there |-> TRUE, used |-> TRUE, active |-> TRUE, run |-> 0, types |-> {}, pinged |-> FALSE]
Gone   == [Fresh EXCEPT !.there = FALSE, !.active = FALSE]
Unused == [Gone EXCEPT !.used = FALSE]
NoRow  == [there |-> FALSE]

OutboxInit ==
    /\ event = [v \in All |-> [there |-> FALSE, queued |-> FALSE, to |-> {}]]
    /\ delivery = [k \in Keys |-> NoRow]
    /\ endpoint = [e \in Endpoints |-> IF e \in Provisioned THEN Fresh ELSE Unused]
    /\ rev = 0
    /\ adder = [a \in Adders |-> NoPass]
    /\ pass = [p \in Passes |-> NoPass]
    /\ running = FALSE /\ again = FALSE /\ kick = [v \in Events |-> "none"]
    /\ received = {} /\ since = {} /\ spent = 0

There == {e \in Endpoints : endpoint[e].there}

----------------------------------------------------------------------------
(* Endpoints.                                                              *)

(* AddEndpoint reads the count and the revision.                           *)
AddReads(a, e) ==
    /\ adder[a] = NoPass /\ e \notin Provisioned /\ ~endpoint[e].used          \* a new id
    /\ Cardinality(There) < MaxWebhookEndpoints
    /\ adder' = [adder EXCEPT ![a] = [at |-> "add", ep |-> e, seen |-> rev]]
    /\ UNCHANGED <<event, delivery, endpoint, rev, pass, running, again, kick, received, since, spent>>

RevHolds(seen)    == rev = seen

(* ... and puts the row if absent with the revision it read; it reads      *)
(* again when it lost the race, and gives up after three tries.            *)
AddWrites(a) ==
    LET e == adder[a].ep
    IN  /\ adder[a].at = "add"
        /\ adder' = [adder EXCEPT ![a] = NoPass]
        /\ IF RevHolds(adder[a].seen) /\ ~endpoint[e].used
           THEN endpoint' = [endpoint EXCEPT ![e] = Fresh] /\ rev' = rev + 1
           ELSE UNCHANGED <<endpoint, rev>>
        /\ UNCHANGED <<event, delivery, pass, running, again, kick, received, since, spent>>

RemoveEndpoint(e) ==
    /\ endpoint[e].there /\ e \notin Provisioned
    /\ endpoint' = [endpoint EXCEPT ![e] = Gone] /\ rev' = rev + 1
    /\ since' = {k \in since : k[2] # e}
    /\ UNCHANGED <<event, delivery, adder, pass, running, again, kick, received, spent>>

SetEndpointEvents(e, f) ==
    /\ endpoint[e].there /\ e \in Provisioned /\ endpoint[e].types # f
    /\ endpoint' = [endpoint EXCEPT ![e].types = f]
    /\ since' = {k \in since : k[2] # e \/ k[1] \in Pings \/ f = {} \/ k[1] \in f}
    /\ UNCHANGED <<event, delivery, rev, adder, pass, running, again, kick, received, spent>>

(* RotateEndpointSecret writes nothing that a property tells apart.        *)

Wants(e, v) ==
    /\ endpoint[e].there /\ endpoint[e].active
    /\ IF v \in Pings THEN e \in event[v].to
       ELSE endpoint[e].types = {} \/ v \in endpoint[e].types

----------------------------------------------------------------------------
(* Events and kicks.                                                       *)

(* Every event is put with the change it reports.                          *)
Emit(v) ==
    /\ ~event[v].there /\ v \in Events
    /\ event' = [event EXCEPT ![v].there = TRUE, ![v].queued = TRUE]
    /\ since' = since \cup {<<v, e>> : e \in {e \in Endpoints : Wants(e, v)}}
    /\ UNCHANGED <<delivery, endpoint, rev, adder, pass, running, again, kick, received, spent>>

(* testWebhook, EmitPing: once an interval, to one console endpoint.       *)
EmitPing(v, e) ==
    /\ ~event[v].there /\ v \in Pings
    /\ endpoint[e].there /\ e \notin Provisioned /\ endpoint[e].active /\ ~endpoint[e].pinged
    /\ event' = [event EXCEPT ![v] = [there |-> TRUE, queued |-> TRUE, to |-> {e}]]
    /\ endpoint' = [endpoint EXCEPT ![e].pinged = TRUE]
    /\ since' = since \cup {<<v, e>>}
    /\ UNCHANGED <<delivery, rev, adder, pass, running, again, kick, received, spent>>

Reading(n) == [at |-> "reading", looks |-> n, events |-> {}, list |-> {}, todo |-> {}, tried |-> {}, act |-> {}]

BadKick(v) ==
    /\ v \in Events /\ event[v].there /\ kick[v] = "none"
    /\ kick' = [kick EXCEPT ![v] = "asked"]
    /\ IF running THEN UNCHANGED <<again, running, pass>>
       ELSE running' = TRUE /\ pass' = [pass EXCEPT ![KickPass] = Reading(KickRetries)] /\ UNCHANGED again
    /\ UNCHANGED <<event, delivery, endpoint, rev, adder, received, since, spent>>

(* A kick starts a loop, or asks the running one for one more round.       *)
Kick(v) ==
    /\ v \in Events /\ event[v].there /\ kick[v] = "none"
    /\ kick' = [kick EXCEPT ![v] = "asked"]
    /\ IF running THEN again' = TRUE /\ UNCHANGED <<running, pass>>
       ELSE running' = TRUE /\ pass' = [pass EXCEPT ![KickPass] = Reading(KickRetries)] /\ UNCHANGED again
    /\ UNCHANGED <<event, delivery, endpoint, rev, adder, received, since, spent>>

(* The timer's pass looks once.                                            *)
StartJob ==
    /\ pass[Job] = NoPass /\ spent < Budget
    /\ spent' = spent + 1
    /\ pass' = [pass EXCEPT ![Job] = Reading(0)]
    /\ UNCHANGED <<event, delivery, endpoint, rev, adder, running, again, kick, received, since>>

(* The end of a pass: a round that found nothing looks again, and the loop *)
(* goes another round when a kick came meanwhile.                          *)
EndOfPass(p) ==
    IF pass[p].looks > 0
    THEN pass' = [pass EXCEPT ![p] = Reading(pass[p].looks - 1)] /\ UNCHANGED <<running, again>>
    ELSE IF p = KickPass /\ again
    THEN pass' = [pass EXCEPT ![p] = Reading(KickRetries)] /\ again' = FALSE /\ UNCHANGED running
    ELSE pass' = [pass EXCEPT ![p] = NoPass] /\ UNCHANGED again
         /\ running' = IF p = KickPass THEN FALSE ELSE running

(* The process of a pass dies; what was kicked in it waits for the timer.  *)
PassDies(p) ==
    /\ pass[p] # NoPass /\ spent < Budget
    /\ spent' = spent + 1
    /\ pass' = [pass EXCEPT ![p] = NoPass]
    /\ IF p = KickPass THEN running' = FALSE /\ again' = FALSE /\ kick' = [v \in Events |-> "none"]
       ELSE UNCHANGED <<running, again, kick>>
    /\ UNCHANGED <<event, delivery, endpoint, rev, adder, received, since>>

----------------------------------------------------------------------------
(* A pass: FanOut.                                                         *)

PassVars == <<rev, adder, kick, spent>>
Sits(p, s) == pass[p].at = s
Goes(p, r) == pass' = [pass EXCEPT ![p] = r]

(* A round that began after a kick seeks its event, and ends with the      *)
(* reading that finds any or with the last one.                            *)
Seeks(p, v)   == kick[v] = "seeking" \/ (kick[v] = "asked" /\ pass[p].looks = KickRetries)
Sought(p, shown, v) ==
    IF ~Seeks(p, v) THEN kick[v]
    ELSE IF v \in shown THEN "found"
    ELSE IF shown # {} \/ pass[p].looks = 0 THEN "missed" ELSE "seeking"

PendingEvents(p) ==
    \E shown \in SUBSET {v \in All : event[v].there} :
        /\ Sits(p, "reading") /\ Cardinality(shown) <= KickBatch
        /\ Goes(p, [pass[p] EXCEPT !.at = IF shown = {} THEN "rows" ELSE "listing", !.events = shown,
                      !.looks = IF shown = {} THEN @ ELSE 0])
        /\ kick' = IF p = KickPass THEN [v \in Events |-> Sought(p, shown, v)] ELSE kick
        /\ UNCHANGED <<event, delivery, endpoint, rev, adder, running, again, received, since, spent>>

(* The tenant's endpoints are read once a pass: list holds, per event,     *)
(* what Wants answers of that reading.                                     *)
ListEndpoints(p) ==
    /\ Sits(p, "listing")
    /\ Goes(p, [pass[p] EXCEPT !.at = "rows", !.list = {k \in pass[p].events \X Endpoints : Wants(k[2], k[1])}])
    /\ UNCHANGED <<event, delivery, endpoint, running, again, received, since, PassVars>>

FanOutGuard(v) == event[v].queued

Read(k) == [key |-> k, attempts |-> delivery[k].attempts]

(* FanOutRows: the rows, if absent, and the event off the queue, in one    *)
(* transaction; a pass that comes second makes nothing.                    *)
FanOutRows(p, v) ==
    LET keys == {k \in pass[p].list : k[1] = v}
        made == FanOutGuard(v) /\ \A k \in keys : ~delivery[k].there
    IN  /\ Sits(p, "rows") /\ v \in pass[p].events
        /\ IF made
           THEN /\ delivery' = [k \in Keys |-> IF k \in keys
                                  THEN [there |-> TRUE, status |-> "pending", attempts |-> 0, queued |-> TRUE]
                                  ELSE delivery[k]]
                /\ event' = [event EXCEPT ![v].queued = FALSE]
           ELSE UNCHANGED <<delivery, event>>
        /\ Goes(p, [pass[p] EXCEPT !.events = @ \ {v},
                      !.todo = IF made THEN @ \cup {[key |-> k, attempts |-> 0] : k \in keys} ELSE @])
        /\ UNCHANGED <<endpoint, running, again, received, since, PassVars>>

(* The endpoints cannot be read, or the transaction fails: the event stays *)
(* queued.                                                                 *)
FanOutFails(p, v) ==
    /\ pass[p].at \in {"listing", "rows"} /\ v \in pass[p].events /\ spent < Budget
    /\ spent' = spent + 1
    /\ LET rest == pass[p].events \ {v}
       IN  Goes(p, [pass[p] EXCEPT !.at = IF rest = {} THEN "rows" ELSE @, !.events = rest])
    /\ kick' = IF p = KickPass /\ v \in Events /\ kick[v] = "found" THEN [kick EXCEPT ![v] = "missed"] ELSE kick
    /\ UNCHANGED <<event, delivery, endpoint, rev, adder, running, again, received, since>>

(* The rows just made are attempted at once, then the backlog that is due. *)
FannedOut(p) ==
    /\ Sits(p, "rows") /\ pass[p].events = {}
    /\ Goes(p, [pass[p] EXCEPT !.at = "fresh", !.list = {}, !.tried = {d.key : d \in pass[p].todo}])
    /\ UNCHANGED <<event, delivery, endpoint, running, again, received, since, PassVars>>

Finished(p, s) == Sits(p, s) /\ pass[p].todo = {} /\ pass[p].act = {}

Queued == {k \in Keys : delivery[k].there /\ delivery[k].queued}

(* The rows of the delivery queue whose time has come (any of them: a row  *)
(* put off comes due on its own).                                          *)
DueDeliveries(p, due) ==
    /\ Finished(p, "fresh") /\ due \cap pass[p].tried = {}
    /\ Goes(p, [pass[p] EXCEPT !.at = "backlog", !.tried = {}, !.todo = {Read(k) : k \in due}])
    /\ UNCHANGED <<event, delivery, endpoint, running, again, received, since, PassVars>>

PassEnds(p) ==
    /\ Finished(p, "backlog")
    /\ EndOfPass(p)
    /\ UNCHANGED <<event, delivery, endpoint, received, since, PassVars>>

----------------------------------------------------------------------------
(* A pass: attempts.  The marks are plain writes of what was read.         *)

MarkDelivered(d) ==
    delivery' = [delivery EXCEPT ![d.key] =
                   [there |-> TRUE, status |-> "delivered", attempts |-> d.attempts + 1, queued |-> FALSE]]

BadMarkAttemptFailed(d) ==
    delivery' = [delivery EXCEPT ![d.key] = [@ EXCEPT !.attempts = d.attempts + 1, !.queued = FALSE]]

MarkAttemptFailed(d) ==
    delivery' = [delivery EXCEPT ![d.key] =
                   IF d.attempts + 1 >= MaxDeliveryAttempts
                   THEN [there |-> TRUE, status |-> "failed", attempts |-> d.attempts + 1, queued |-> FALSE]
                   ELSE [@ EXCEPT !.attempts = d.attempts + 1, !.queued = TRUE]]

DeferDelivery(d) == delivery' = [delivery EXCEPT ![d.key].queued = TRUE]
CloseDelivery(d) == delivery' = [delivery EXCEPT ![d.key].status = "failed", ![d.key].queued = FALSE]

(* The next delivery of its endpoint.                                      *)
Attempt(p, d) ==
    LET e == d.key[2]
    IN  /\ pass[p].at \in {"fresh", "backlog"} /\ pass[p].act = {} /\ d \in pass[p].todo
        /\ Goes(p, [pass[p] EXCEPT !.todo = @ \ {d},
                      !.act = IF endpoint[e].active THEN {[step |-> "post", of |-> d, run |-> endpoint[e].run]} ELSE {}])
        /\ \/ ~endpoint[e].there /\ MarkAttemptFailed(d)
           \/ endpoint[e].there /\ ~endpoint[e].active
              /\ (IF e \in Provisioned THEN DeferDelivery(d) ELSE CloseDelivery(d))
           \/ endpoint[e].active /\ UNCHANGED delivery
        /\ UNCHANGED <<event, endpoint, running, again, received, since, PassVars>>

(* post: the endpoint takes the event or not, and its answer may be lost.  *)
Post(p, x, took, answered) ==
    /\ x.step = "post" /\ (answered => took)
    /\ received' = IF took THEN received \cup {x.of.key} ELSE received
    /\ Goes(p, [pass[p] EXCEPT !.act = {[step |-> "mark", of |-> x.of, run |-> x.run, ok |-> answered]}])
    /\ UNCHANGED <<event, delivery, endpoint, running, again, since, PassVars>>

(* The row is marked; a mark that failed leaves the row as it was.         *)
Mark(p, x, written) ==
    /\ x.step = "mark" /\ (written \/ spent < Budget)
    /\ spent' = IF written THEN spent ELSE spent + 1
    /\ IF ~written THEN UNCHANGED delivery
       ELSE IF x.ok THEN MarkDelivered(x.of) ELSE MarkAttemptFailed(x.of)
    /\ Goes(p, [pass[p] EXCEPT !.act = IF written THEN {[x EXCEPT !.step = "health"]}
                                       ELSE IF x.ok THEN {} ELSE {[x EXCEPT !.step = "trip"]}])
    /\ UNCHANGED <<event, endpoint, rev, adder, running, again, kick, received, since>>

(* RecordEndpointHealth, from the endpoint as it was read before the post. *)
RecordEndpointHealth(p, x) ==
    LET e == x.of.key[2]
    IN  /\ x.step = "health"
        /\ endpoint' = IF ~endpoint[e].there THEN endpoint
                       ELSE IF x.ok THEN [endpoint EXCEPT ![e].run = 0]
                       ELSE [endpoint EXCEPT ![e].run = x.run + 1,
                                             ![e].active = @ /\ x.run + 1 < MaxFailureRun]
        /\ since' = {k \in since : k[2] # e \/ endpoint'[e].active}
        /\ Goes(p, [pass[p] EXCEPT !.act = IF x.ok THEN {} ELSE {[x EXCEPT !.step = "trip"]}])
        /\ UNCHANGED <<event, delivery, running, again, received, PassVars>>

(* After a failure the endpoint's other deliveries are put off.            *)
Trip(p, x) ==
    LET rest == {d \in pass[p].todo : d.key[2] = x.of.key[2]}
    IN  /\ x.step = "trip"
        /\ IF rest = {} THEN Goes(p, [pass[p] EXCEPT !.act = {}]) /\ UNCHANGED delivery
           ELSE \E d \in rest : DeferDelivery(d) /\ Goes(p, [pass[p] EXCEPT !.todo = @ \ {d}])
        /\ UNCHANGED <<event, endpoint, running, again, received, since, PassVars>>

----------------------------------------------------------------------------

Acting(p) ==
    pass[p] # NoPass /\ \E x \in pass[p].act :
        \/ \E took, answered \in BOOLEAN : Post(p, x, took, answered)
        \/ \E written \in BOOLEAN : Mark(p, x, written)
        \/ RecordEndpointHealth(p, x)
        \/ Trip(p, x)

Passing(p) ==
    \/ PendingEvents(p) \/ ListEndpoints(p) \/ FannedOut(p) \/ PassEnds(p)
    \/ \E due \in SUBSET Queued : DueDeliveries(p, due)
    \/ \E v \in All : FanOutRows(p, v) \/ FanOutFails(p, v)
    \/ pass[p] # NoPass /\ \E d \in pass[p].todo : Attempt(p, d)
    \/ Acting(p)

OutboxNext ==
    \/ \E a \in Adders : AddWrites(a) \/ \E e \in Endpoints : AddReads(a, e)
    \/ \E e \in Endpoints : RemoveEndpoint(e) \/ \E f \in Filters : SetEndpointEvents(e, f)
    \/ \E v \in All : Emit(v) \/ Kick(v) \/ \E e \in Endpoints : EmitPing(v, e)
    \/ StartJob
    \/ \E p \in Passes : PassDies(p) \/ Passing(p)

OutboxSpec == OutboxInit /\ [][OutboxNext]_outboxVars

----------------------------------------------------------------------------
(* Properties.                                                             *)

(* Nothing that was queued is lost: an event off the fan-out queue has the *)
(* row of every endpoint that wanted it all along, and a row leaves the    *)
(* delivery queue only when its endpoint took the event, was gone or       *)
(* disabled, or failed it MaxDeliveryAttempts times, whatever passes       *)
(* overlap, die or mark from an old reading.                               *)
NothingQueuedIsLost ==
    /\ \A k \in since : ~event[k[1]].queued => delivery[k].there
    /\ \A k \in Keys : delivery[k].there /\ ~delivery[k].queued =>
         \/ k \in received
         \/ ~endpoint[k[2]].active
         \/ delivery[k].status = "failed" /\ delivery[k].attempts >= MaxDeliveryAttempts

(* No kick is lost to the loop's two flags: when the loop has stopped,     *)
(* every event a kick was asked for in this process was sought by a round  *)
(* that began after the kick and went on until a reading of the queue      *)
(* found something or the looks ran out, and every event a reading of that *)
(* round showed is off the queue unless its fan-out failed.  What the      *)
(* index did not show yet, or only beyond the batch, waits for the timer.  *)
KicksAreServed ==
    ~running => \A v \in Events :
        /\ kick[v] \notin {"asked", "seeking"}
        /\ kick[v] = "found" => ~event[v].queued

=============================================================================
