------------------------------ MODULE Payouts ------------------------------
(***************************************************************************)
(* Paying a person out of the tenant's bank account: the payout that one   *)
(* reference names, the transfers at the bank, and the requests (create,   *)
(* replay, poll, webhook, follower) and hourly job runs that move it.      *)
(*                                                                         *)
(* Every create draws its own UUID before the reservation; the bank is     *)
(* idempotent by that UUID.  A payout is sent again as long as the bank's  *)
(* own id (taken) was not stored, so a re-send follows every lost answer.  *)
(***************************************************************************)
EXTENDS Integers, Sequences

CONSTANTS
    PayoutProcs,   \* requests, followers and job runs
    PayoutJobs,    \* of them, the runs of the hourly job (cmd/byok)
    Hashes,  \* CPF and amount of a request, as payoutHash tells them apart
    Refs,    \* bound: the UUIDs drawn, one for each create
    NoRef,   \* no UUID
    NoHash,  \* no request
    Changes  \* what the bank's treatment of the request may change to

ASSUME PayoutsAssumption ==
    /\ PayoutJobs \subseteq PayoutProcs
    /\ NoRef \notin Refs
    /\ NoHash \notin Hashes
    /\ Changes \subseteq {"takes", "refuses", "noscope"}

PayoutState   == {"processing", "done", "failed"}
TransferState == {"none", "processing", "done", "failed"}

(* What the bank does with a request: takes it, refuses it (no such key,   *)
(* invalid), or grants the credential no payout scope.                     *)
Treatment == {"takes", "refuses", "noscope"}

Payout   == [status: PayoutState \cup {"none"}, ref: Refs \cup {NoRef},
             hash: Hashes \cup {NoHash}, taken: BOOLEAN]
Transfer == [status: TransferState, hash: Hashes \cup {NoHash}]

PayoutSteps == {"idle", "send", "sent", "ask", "settle"}

(* ref, hash: the payout's, as read; verdict: how the bank answered.       *)
PayoutProcess == [pc: PayoutSteps, ref: Refs \cup {NoRef}, hash: Hashes \cup {NoHash},
            verdict: TransferState]

VARIABLES
    payout,    \* the payout the reference names ("none": not reserved)
    transfers,   \* the bank's transfer of each UUID
    drawn,  \* the UUIDs drawn
    treat,  \* how the bank treats the request now
    told,   \* the events that announced the outcome
    handler

payoutVars == <<payout, transfers, drawn, treat, told, handler>>

NoPayout   == [status |-> "none", ref |-> NoRef, hash |-> NoHash, taken |-> FALSE]
NoTransfer == [status |-> "none", hash |-> NoHash]
NoWork == [pc |-> "idle", ref |-> NoRef, hash |-> NoHash, verdict |-> "none"]

PayoutInit ==
    /\ payout = NoPayout
    /\ transfers = [r \in Refs |-> NoTransfer]
    /\ drawn = {}
    /\ treat \in Treatment
    /\ told = <<>>
    /\ handler = [p \in PayoutProcs |-> NoWork]

----------------------------------------------------------------------------
Stage(p, step) == handler[p].pc = step
PayoutGoes(p, r) == handler' = [handler EXCEPT ![p] = r]
Goto(p, step) == PayoutGoes(p, [handler[p] EXCEPT !.pc = step])
Leave(p) == PayoutGoes(p, NoWork)

Final(po) == po.status \in {"done", "failed"}

(* advance begins: send it unless the bank's id is known already.          *)
Advance(p, po) ==
    PayoutGoes(p, [NoWork EXCEPT !.pc = IF po.taken THEN "ask" ELSE "send",
                 !.ref = po.ref, !.hash = po.hash])

(* Each definition named Bad... is a plausible mistake in the definition   *)
(* it stands before; no specification uses it.                             *)

(* The loser of the reservation sends the payout it made up itself.        *)
BadCreate(p, h) ==
    /\ Stage(p, "idle") /\ p \notin PayoutJobs
    /\ \E u \in Refs \ drawn :
         LET mine == [status |-> "processing", ref |-> u, hash |-> h, taken |-> FALSE]
         IN /\ drawn' = drawn \cup {u}
            /\ IF payout.status = "none" THEN payout' = mine ELSE UNCHANGED payout
            /\ IF Final(payout) THEN Leave(p) ELSE Advance(p, mine)
    /\ UNCHANGED <<transfers, treat, told>>

(* Create -> CreatePayout: the payout and the marker of its reference are  *)
(* written together or not at all.  Whoever comes second works on the      *)
(* first one's payout, if it is the same request.                          *)
Create(p, h) ==
    /\ Stage(p, "idle") /\ p \notin PayoutJobs
    /\ \E u \in Refs \ drawn :
         LET mine == [status |-> "processing", ref |-> u, hash |-> h, taken |-> FALSE]
         IN /\ drawn' = drawn \cup {u}
            /\ \/ /\ payout.status = "none"
                  /\ payout' = mine
                  /\ Advance(p, mine)
               \/ /\ payout.status # "none" /\ payout.hash = h /\ ~Final(payout)
                  /\ Advance(p, payout)
                  /\ UNCHANGED payout
               \/ /\ payout.status # "none" /\ (payout.hash # h \/ Final(payout))
                  /\ UNCHANGED <<payout, handler>>
    /\ UNCHANGED <<transfers, treat, told>>

(* Only a payout the bank is known to have taken is followed.              *)
BadResolve(p) ==
    /\ Stage(p, "idle")
    /\ payout.status = "processing" /\ payout.taken
    /\ Advance(p, payout)
    /\ UNCHANGED <<payout, transfers, drawn, treat, told>>

(* Resolve, for the poll, the webhook, the background follower and the     *)
(* hourly FollowPayouts: reads the payout afresh and advances it.          *)
Resolve(p) ==
    /\ Stage(p, "idle")
    /\ payout.status = "processing"
    /\ Advance(p, payout)
    /\ UNCHANGED <<payout, transfers, drawn, treat, told>>

(* A transfer the bank already has is refused like a new one.              *)
BadRefused(r) == treat # "takes"

(* The errors advance takes for a verdict: the token has no payout scope   *)
(* (asked for before the request goes out), or the bank turns down a       *)
(* request it does not know.                                               *)
Refused(r) == treat = "noscope" \/ (treat = "refuses" /\ transfers[r].status = "none")

(* The request goes out; the bank takes a UUID once.                       *)
SendPayout(p) ==
    /\ Stage(p, "send")
    /\ LET r == handler[p].ref
       IN \/ /\ Refused(r)
             /\ PayoutGoes(p, [handler[p] EXCEPT !.pc = "settle", !.verdict = "failed"])
             /\ UNCHANGED transfers
          \/ /\ ~Refused(r)
             /\ transfers' = [transfers EXCEPT ![r] =
                   IF @.status = "none"
                   THEN [status |-> "processing", hash |-> handler[p].hash] ELSE @]
             /\ Goto(p, "sent")
    /\ UNCHANGED <<payout, drawn, treat, told>>

(* SetPayoutSent: only while the payout is processing.                     *)
SetPayoutSent(p) ==
    /\ Stage(p, "sent")
    /\ \/ /\ payout.status = "processing"
          /\ payout' = [payout EXCEPT !.taken = TRUE]
          /\ Goto(p, "ask")
       \/ /\ payout.status # "processing"
          /\ Leave(p)
          /\ UNCHANGED payout
    /\ UNCHANGED <<transfers, drawn, treat, told>>

(* The bank's word on a payout it took; a lost scope is no verdict here.   *)
GetPayout(p) ==
    /\ Stage(p, "ask")
    /\ LET st == transfers[handler[p].ref].status
       IN IF treat # "noscope" /\ st \in {"done", "failed"}
          THEN PayoutGoes(p, [handler[p] EXCEPT !.pc = "settle", !.verdict = st])
          ELSE Leave(p)
    /\ UNCHANGED <<payout, transfers, drawn, treat, told>>

(* SettlePayout: the outcome and the event that announces it, in one       *)
(* transaction, while the payout is processing.                            *)
SettlePayout(p) ==
    /\ Stage(p, "settle")
    /\ IF payout.status = "processing"
       THEN /\ payout' = [payout EXCEPT !.status = handler[p].verdict]
            /\ told' = Append(told, handler[p].verdict)
       ELSE UNCHANGED <<payout, told>>
    /\ Leave(p)
    /\ UNCHANGED <<transfers, drawn, treat>>

(* A crash, a timeout, an unavailable bank, a limit, a closed connection.  *)
CallFails(p) ==
    /\ ~Stage(p, "idle")
    /\ Leave(p)
    /\ UNCHANGED <<payout, transfers, drawn, treat, told>>

(* External: the bank concludes a transfer; what it thinks of the request  *)
(* changes (a key is registered or removed, a scope is revoked).           *)
TransferEnds(r) ==
    /\ transfers[r].status = "processing"
    /\ \E st \in {"done", "failed"} : transfers' = [transfers EXCEPT ![r].status = st]
    /\ UNCHANGED <<payout, drawn, treat, told, handler>>

BankChanges ==
    /\ treat' \in Changes
    /\ UNCHANGED <<payout, transfers, drawn, told, handler>>

PayoutStep(p) ==
    \/ \E h \in Hashes : Create(p, h)
    \/ Resolve(p) \/ SendPayout(p) \/ SetPayoutSent(p) \/ GetPayout(p)
    \/ SettlePayout(p) \/ CallFails(p)

PayoutNext ==
    \/ \E p \in PayoutProcs : PayoutStep(p)
    \/ \E r \in Refs : TransferEnds(r)
    \/ BankChanges

PayoutSpec == PayoutInit /\ [][PayoutNext]_payoutVars

(* cmd/byok resolves every processing payout each hour, so a call it can   *)
(* repeat forever goes through in the end, and the bank concludes what it  *)
(* took.  Nothing is assumed of requests, polls and webhooks.              *)
PayoutFairness ==
    /\ \A p \in PayoutJobs : SF_payoutVars(Resolve(p)) /\ SF_payoutVars(SendPayout(p)) /\ SF_payoutVars(SetPayoutSent(p))
                       /\ SF_payoutVars(GetPayout(p)) /\ SF_payoutVars(SettlePayout(p))
    /\ \A r \in Refs : WF_payoutVars(TransferEnds(r))

PayoutLiveSpec == PayoutSpec /\ PayoutFairness

----------------------------------------------------------------------------
(* Types of the payout row, of the bank's transfers and of what a request  *)
(* carries from its read to SettlePayout.                                  *)
PayoutTypeOK ==
    /\ payout \in Payout
    /\ transfers \in [Refs -> Transfer]
    /\ drawn \subseteq Refs
    /\ treat \in Treatment
    /\ told \in Seq(PayoutState)
    /\ handler \in [PayoutProcs -> PayoutProcess]

(* Whatever is retried, replayed or raced (Create, advance), the only      *)
(* transfer the bank ever sees for a reference is the one reserved, to the *)
(* CPF and of the amount that was reserved.                                *)
PaidAsReserved ==
    \A r \in Refs : transfers[r].status # "none" => r = payout.ref /\ transfers[r].hash = payout.hash

(* Only the bank's word settles a payout (advance): done means the money   *)
(* was sent, failed means it was not and never will be.                    *)
OnlyTheBanksWord ==
    /\ payout.status = "done" => transfers[payout.ref].status = "done"
    /\ payout.status = "failed" => transfers[payout.ref].status \in {"none", "failed"}

(* A settled payout was announced exactly once, with the outcome it has    *)
(* (SettlePayout's transaction); an unsettled one never.                   *)
AnnouncedOnce == told = IF Final(payout) THEN <<payout.status>> ELSE <<>>

(* A reserved payout is settled, whoever died on the way (FollowPayouts).  *)
PayoutConcludes == payout.status = "processing" ~> Final(payout)
=============================================================================
