----------------------------- MODULE MCDelivery -----------------------------
(* Webhook delivery, the realtime relay and idempotency keys for TLC.      *)
(* They share no variable: a behaviour runs one of them, chosen at the     *)
(* start.                                                                  *)
EXTENDS Outbox, Realtime, Idempotency

CONSTANTS v1, v2     \* two events

VARIABLE part

Init ==
    /\ part \in {"outbox", "realtime", "idempotency"}
    /\ OutboxInit /\ RealtimeInit /\ IdemInit

(* Bounds: the overlaps this run leaves out.                               *)

Quiet     == \A v \in All : ~event[v].there
AtMark(p) == pass[p] # NoPass /\ \E x \in pass[p].act : x.step = "mark"
Busy(p)   == pass[p] # NoPass /\ (pass[p].at \in {"reading", "fresh"} \/ pass[p].act # {})
Emits     == \E v \in All : event'[v].there /\ ~event[v].there
Kicks     == \E v \in Events : kick[v] = "none" /\ kick'[v] = "asked"

(* One endpoint takes two events and changes its filter, or two take one;  *)
(* a test event comes alone.  Endpoints are added before the first event   *)
(* (a third only to meet the limit) and removed between the attempts; a    *)
(* filter changes while no pass has rows in hand; the timer's pass starts  *)
(* when the kicked one is at its beginning or at a mark, and no event is   *)
(* emitted while it runs.                                                  *)
OutboxBound ==
    /\ endpoint'["c"].used =>
         /\ Cardinality({v \in All : event'[v].there}) <= 1
         /\ endpoint'["p"].types = {}
    /\ \A v \in Pings : event'[v].there => endpoint'["p"].types = {} /\ \A w \in Events : ~event'[w].there
    /\ adder' # adder => Quiet
    /\ Emits => ~endpoint["d"].used /\ \A a \in Adders : adder[a] = NoPass
    /\ rev' # rev => ~Busy(KickPass) /\ ~Busy(Job)
    /\ endpoint'["p"].types # endpoint["p"].types =>
         \A p \in Passes : pass[p].at \in {"idle", "listing", "rows"}
    /\ (Emits \/ Kicks) => pass[Job] = NoPass /\ ~Busy(KickPass)
    /\ (pass[Job] = NoPass /\ pass'[Job] # NoPass) =>
         pass[KickPass].at \in {"idle", "listing"} \/ AtMark(KickPass)

Next ==
    \/ part = "outbox" /\ OutboxNext /\ OutboxBound /\ UNCHANGED <<part, rtVars, idemVars>>
    \/ part = "realtime" /\ RealtimeNext /\ UNCHANGED <<part, outboxVars, idemVars>>
    \/ part = "idempotency" /\ IdemNext /\ UNCHANGED <<part, outboxVars, rtVars>>

Spec == Init /\ [][Next]_<<part, outboxVars, rtVars, idemVars>>

MCSymmetry == Permutations({v1, v2})

(* Two changes of one entity.                                              *)
MCEntityOf == [x \in Ids |-> IF x = 2 THEN 1 ELSE x]

(* Three requests that agree on the body under one key, and one that       *)
(* does not.                                                               *)
MCHash == [r1 |-> 1, r2 |-> 1, r3 |-> 1, r4 |-> 2]
=============================================================================
