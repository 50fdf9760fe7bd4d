---------------------------- MODULE Idempotency -----------------------------
(***************************************************************************)
(* The idempotency middleware, for the requests that carry one key: a      *)
(* claim written before the handler runs, completed with its answer or     *)
(* released, and taken over when its lease lapsed.  Any of the requests    *)
(* may die, and any write after the handler may fail.                      *)
(***************************************************************************)
EXTENDS Naturals, FiniteSets

CONSTANTS
    Calls,     \* the requests with the key
    Hash,         \* request -> the hash of its method, path and body
    None, Refused,
    SlowCalls          \* whether a handler may outlive IdempotencyLease

ASSUME IdempotencyAssumption ==
    DOMAIN Hash = Calls /\ SlowCalls \in BOOLEAN /\ {None, Refused} \cap Calls = {} /\ None # Refused

VARIABLES
    record,     \* the key's row: whether it is there, its holder's hash, its answer, whether its lease lapsed
    request,    \* request -> where it is
    answered    \* request -> whose answer it was given, Refused, or None

idemVars == <<record, request, answered>>

NoRecord == [there |-> FALSE, by |-> None, done |-> FALSE, lapsed |-> FALSE]

IdemInit ==
    /\ record = NoRecord
    /\ request = [r \in Calls |-> "new"]
    /\ answered = [r \in Calls |-> None]

CallIs(r, s)    == request[r] = s
CallGoes(r, s)  == request' = [request EXCEPT ![r] = s]
Gives(r, a) == answered' = [answered EXCEPT ![r] = a]

BadClaimable == ~record.there \/ ~record.done
Claimable    == ~record.there \/ (~record.done /\ record.lapsed)

(* Claim: written when absent, or when it lapsed with no answer.           *)
Claim(r) ==
    /\ CallIs(r, "new") /\ Claimable
    /\ record' = [there |-> TRUE, by |-> r, done |-> FALSE, lapsed |-> FALSE]
    /\ CallGoes(r, "running")
    /\ UNCHANGED answered

SameRequest(r) == Hash[record.by] = Hash[r]

(* The row that is there decides: another body, still running, a replay.   *)
AnswerOnRecord(r) == IF ~SameRequest(r) \/ ~record.done THEN Refused ELSE record.by

ClaimRefused(r) ==
    /\ CallIs(r, "new") /\ ~Claimable
    /\ Gives(r, AnswerOnRecord(r))
    /\ CallGoes(r, "over")
    /\ UNCHANGED record

(* The handler: it takes effect, or fails and changes nothing.             *)
HandlerSucceeds(r) ==
    /\ CallIs(r, "running")
    /\ CallGoes(r, "complete")
    /\ UNCHANGED <<record, answered>>

HandlerFails(r) ==
    /\ CallIs(r, "running")
    /\ CallGoes(r, "release")
    /\ UNCHANGED <<record, answered>>

(* Release: a claim with no answer, whoever holds it by then.  One that    *)
(* fails is logged, and the claim stays until it lapses.                   *)
ReleaseClaim(r) ==
    /\ CallIs(r, "release")
    /\ record' \in {record, IF record.there /\ ~record.done THEN NoRecord ELSE record}
    /\ Gives(r, Refused) /\ CallGoes(r, "over")

(* Complete: a plain put.  When it fails the answer goes out all the same  *)
(* and the claim stays until it lapses.                                    *)
Complete(r) ==
    /\ CallIs(r, "complete")
    /\ record' \in {record, [there |-> TRUE, by |-> r, done |-> TRUE, lapsed |-> FALSE]}
    /\ CallGoes(r, "reply")
    /\ UNCHANGED answered

Reply(r) ==
    /\ CallIs(r, "reply")
    /\ Gives(r, r) /\ CallGoes(r, "over")
    /\ UNCHANGED record

(* A claim lapses two minutes after it was written, in which its request   *)
(* ends or dies; SlowCalls allows one that takes longer.                   *)
LeaseLapses ==
    /\ record.there /\ ~record.done /\ ~record.lapsed
    /\ SlowCalls \/ request[record.by] \in {"over", "dead"}
    /\ record' = [record EXCEPT !.lapsed = TRUE]
    /\ UNCHANGED <<request, answered>>

CallDies(r) ==
    /\ request[r] \in {"running", "release", "complete", "reply"}
    /\ CallGoes(r, "dead")
    /\ UNCHANGED <<record, answered>>

IdemNext ==
    \/ LeaseLapses
    \/ \E r \in Calls :
         \/ Claim(r) \/ ClaimRefused(r) \/ HandlerSucceeds(r) \/ HandlerFails(r)
         \/ ReleaseClaim(r) \/ Complete(r) \/ Reply(r) \/ CallDies(r)

IdemSpec == IdemInit /\ [][IdemNext]_idemVars

----------------------------------------------------------------------------

(* The handlers that run, who holds the claim, and whose answer stands.    *)
Running == {r \in Calls : CallIs(r, "running")}
Holder == IF record.there /\ ~record.done /\ ~record.lapsed THEN record.by ELSE None
Winner == IF record.there /\ record.done THEN record.by ELSE None

Promise == INSTANCE IdempotentCall
             WITH Requests <- Calls, running <- Running, holder <- Holder, winner <- Winner, told <- answered

(* The middleware keeps the promise of an idempotency key, with requests   *)
(* that die anywhere, answers and releases that are not written and lapsed *)
(* claims taken over, as long as no request outlives its lease.            *)
KeepsThePromise == Promise!CallSpec
=============================================================================
