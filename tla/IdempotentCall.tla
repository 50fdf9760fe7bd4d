--------------------------- MODULE IdempotentCall ---------------------------
(***************************************************************************)
(* What an idempotency key promises of the requests that carry it: one     *)
(* handler runs at a time, under a claim, and once its answer stands every *)
(* later request is told that answer or refused, without running anything. *)
(* An answer that was told and could not be made to stand promises less:   *)
(* while its claim is held nobody else runs, and after that one may.       *)
(***************************************************************************)
CONSTANTS Requests, None, Refused

VARIABLES
    running,   \* the requests whose handler runs
    holder,    \* the request that holds the claim, or None
    winner,    \* the request whose answer stands, or None
    told       \* request -> whose answer it was told, Refused, or None

callVars == <<running, holder, winner, told>>

CallInit == running = {} /\ holder = None /\ winner = None /\ told = [r \in Requests |-> None]

Tells(r, a) == told[r] = None /\ told' = [told EXCEPT ![r] = a]

Begin(r) ==
    /\ running = {} /\ holder = None /\ winner = None /\ told[r] = None
    /\ running' = {r} /\ holder' = r /\ UNCHANGED <<winner, told>>

(* The handler is over, or its process died.                               *)
Finish == running # {} /\ running' = {} /\ UNCHANGED <<holder, winner, told>>

(* A claim is its holder's until its handler is over, and ends in one of   *)
(* three ways: as the answer that stands, for good; given back by a        *)
(* handler that failed; or lapsed, the answer being told or lost.          *)
Ends   == holder # None /\ running = {} /\ holder' = None /\ UNCHANGED running
Win    == Ends /\ winner = None /\ winner' = holder /\ UNCHANGED told
GiveUp == Ends /\ Tells(holder, Refused) /\ UNCHANGED winner
Lapse  == Ends /\ UNCHANGED <<winner, told>>

(* The holder's own answer goes out though it does not stand.              *)
Answer == holder # None /\ running = {} /\ Tells(holder, holder) /\ UNCHANGED <<running, holder, winner>>

Replay(r) == winner # None /\ Tells(r, winner) /\ UNCHANGED <<running, holder, winner>>

Refuse(r) == Tells(r, Refused) /\ UNCHANGED <<running, holder, winner>>

CallNext == Finish \/ Win \/ GiveUp \/ Lapse \/ Answer \/ \E r \in Requests : Begin(r) \/ Replay(r) \/ Refuse(r)

CallSpec == CallInit /\ [][CallNext]_callVars
=============================================================================
