------------------------------ MODULE Dunning ------------------------------
(***************************************************************************)
(* The invoices of one subscription from their finalization to their end:  *)
(* the daily dunning job walks each unpaid invoice down its policy, a      *)
(* settlement marks it paid, gives the service back and posts it to the    *)
(* ledger of both sides, and the replay job retries the posting.           *)
(*                                                                         *)
(* An invoice row has ONE schedule key: it is in the dunning queue or in   *)
(* the queue of paid invoices to post, never in both.  Jobs act on copies  *)
(* that a page of a queue held; each step below is one database or mail    *)
(* call, and every process may die between two of them.                    *)
(***************************************************************************)
EXTENDS Integers, Sequences

CONSTANTS
    Invoices,    \* of the subscription, one for each period
    Policy,      \* the actions of the dunning schedule, in order
    Dunners,     \* runs of the daily job (cmd/dunning)
    Settlers,    \* webhooks, sweeps and re-queries that settle an invoice
    Replayers,   \* runs of the replay of postings (cmd/reconcile)
    Failing,     \* of all of these, the ones that may fail or die
    Exclusive,   \* no dunning run overlaps anything else
    NoInvoice

DunningAction == {"remind", "escalate", "abandon"}

(* DunningSchedule.Validate: giving up is the last step; an empty policy   *)
(* means the default one.                                                  *)
ASSUME DunningAssumption ==
    /\ Policy \in Seq(DunningAction) /\ Policy # <<>>
    /\ \A n \in 1..Len(Policy) : Policy[n] = "abandon" => n = Len(Policy)
    /\ Dunners \cap Settlers = {} /\ Dunners \cap Replayers = {}
    /\ Settlers \cap Replayers = {}
    /\ Failing \subseteq Dunners \cup Settlers \cup Replayers
    /\ Exclusive \in BOOLEAN
    /\ NoInvoice \notin Invoices

Procs == Dunners \cup Settlers \cup Replayers

InvoiceStatus == {"DRAFT", "OPEN", "PAID", "UNCOLLECTIBLE", "VOID"}
Queue         == {"none", "dunning", "posting"}
Position      == 0..Len(Policy)
Row           == [status: InvoiceStatus, step: Position, queue: Queue]

SubscriptionStatus == {"INCOMPLETE", "ACTIVE", "PAST_DUE", "CANCELED"}
DunningCause       == {"payment_failed", "dunning_exhausted", "activation_expired"}
Cause              == DunningCause \cup {"created", "invoice_paid", "manual"}

(* The edges that code reaches, each with the causes it accepts.  Nothing  *)
(* in the repository makes a subscription TRIALING or PAUSED.              *)
SubscriptionTransitions ==
    {<<"INCOMPLETE", "ACTIVE", "invoice_paid">>, <<"PAST_DUE", "ACTIVE", "invoice_paid">>,
     <<"ACTIVE", "PAST_DUE", "payment_failed">>,
     <<"PAST_DUE", "CANCELED", "dunning_exhausted">>,
     <<"INCOMPLETE", "CANCELED", "activation_expired">>,
     <<"INCOMPLETE", "CANCELED", "manual">>, <<"ACTIVE", "CANCELED", "manual">>,
     <<"PAST_DUE", "CANCELED", "manual">>}

(* A paid invoice is revenue of its issuer and an expense of its payer.    *)
Sides == {"issuer", "payer"}

(* An invoice as the page had it.                                          *)
Copy == [id: Invoices, status: InvoiceStatus, step: Position]

Steps == {"idle", "next", "remind", "escalate", "abandon", "uncollectible", "advance",
          "activate", "issuer", "payer", "posted"}

(* page: the copies still to go; id, step: the one being worked on; ok:    *)
(* every side settled so far.                                              *)
Process == [pc: Steps, page: SUBSET Copy, id: Invoices \cup {NoInvoice},
            step: Position, ok: BOOLEAN]

VARIABLES
    inv,    \* the invoice rows
    sub,    \* the subscription's status and what last moved it
    books,  \* the sides each invoice is recorded on (or skipped for good)
    old,    \* the invoices paid longer ago than FinanceReplayWindow
    done,   \* how often each step was performed (2 stands for more)
    proc

vars == <<inv, sub, books, old, done, proc>>

Idle == [pc |-> "idle", page |-> {}, id |-> NoInvoice, step |-> 0, ok |-> TRUE]

Init ==
    /\ inv = [i \in Invoices |-> [status |-> "DRAFT", step |-> 0, queue |-> "none"]]
    /\ sub \in [status: {"INCOMPLETE", "ACTIVE"}, cause: {"created"}]
    /\ books = [i \in Invoices |-> {}]
    /\ old = {}
    /\ done = [i \in Invoices |-> [n \in 1..Len(Policy) |-> 0]]
    /\ proc = [p \in Procs |-> Idle]

----------------------------------------------------------------------------
At(p, step) == proc[p].pc = step
Become(p, r) == proc' = [proc EXCEPT ![p] = r]
Goto(p, step) == Become(p, [proc[p] EXCEPT !.pc = step])
End(p) == Become(p, Idle)

(* The job goes on with the rest of its page, whatever became of this one. *)
Proceed(p) ==
    Become(p, IF proc[p].page = {} THEN Idle
              ELSE [Idle EXCEPT !.pc = "next", !.page = proc[p].page])

(* Who may start while others run.                                         *)
JobMayStart   == Exclusive => \A q \in Procs : At(q, "idle")
OthersMayStart == Exclusive => \A q \in Dunners : At(q, "idle")

Performed(i, n) == done' = [done EXCEPT ![i][n] = IF @ = 0 THEN 1 ELSE 2]

SubTransition(to, cause) ==
    sub' = IF <<sub.status, to, cause>> \in SubscriptionTransitions
           THEN [status |-> to, cause |-> cause] ELSE sub

----------------------------------------------------------------------------
(* The life of the rows outside the jobs.                                  *)

(* The first invoice is finalized with its subscription.  Drafts of later  *)
(* periods come from the sweep of ACTIVE subscriptions; the sweep or an    *)
(* operator finalizes them, whatever the status has become since.          *)
Finalize(i) ==
    /\ OthersMayStart
    /\ inv[i].status = "DRAFT"
    /\ sub.status = "INCOMPLETE" => \A k \in Invoices : inv[k].status = "DRAFT"
    /\ inv' = [inv EXCEPT ![i].status = "OPEN", ![i].queue = "dunning"]
    /\ UNCHANGED <<sub, books, old, done, proc>>

VoidInvoice(i) ==
    /\ OthersMayStart
    /\ inv[i].status \in {"DRAFT", "OPEN"}
    /\ inv' = [inv EXCEPT ![i].status = "VOID", ![i].queue = "none"]
    /\ UNCHANGED <<sub, books, old, done, proc>>

Cancel ==
    /\ sub.status # "CANCELED"
    /\ SubTransition("CANCELED", "manual")
    /\ UNCHANGED <<inv, books, old, done, proc>>

(* The replay window of a paid invoice ends.                               *)
WindowCloses(i) ==
    /\ inv[i].status = "PAID"
    /\ i \notin old
    /\ old' = old \cup {i}
    /\ UNCHANGED <<inv, sub, books, done, proc>>

----------------------------------------------------------------------------
(* The dunning job.                                                        *)

(* One page of the day's partition of the queue, as the index has it, less *)
(* the invoices of suspended tenants.                                      *)
DueForDunning(p) ==
    /\ At(p, "idle")
    /\ JobMayStart
    /\ \E due \in SUBSET {i \in Invoices : inv[i].queue = "dunning"} :
         /\ due # {}
         /\ Become(p, [Idle EXCEPT !.pc = "next", !.page =
                {[id |-> i, status |-> inv[i].status, step |-> inv[i].step] : i \in due}])
    /\ UNCHANGED <<inv, sub, books, old, done>>

(* step: the copy's status decides whether the invoice is still chased.    *)
(* An armed invoice always has a step to perform.                          *)
Step(p) ==
    /\ At(p, "next")
    /\ \E c \in proc[p].page :
         LET rest == proc[p].page \ {c} IN
         IF c.status # "OPEN"
         THEN Become(p, IF rest = {} THEN Idle ELSE [proc[p] EXCEPT !.page = rest])
         ELSE Become(p, [proc[p] EXCEPT !.page = rest, !.id = c.id, !.step = c.step,
                             !.pc = Policy[c.step + 1]])
    /\ UNCHANGED <<inv, sub, books, old, done>>

(* The mail goes out (or the customer has no address).                     *)
Remind(p) ==
    /\ At(p, "remind")
    /\ Performed(proc[p].id, proc[p].step + 1)
    /\ Goto(p, "advance")
    /\ UNCHANGED <<inv, sub, books, old>>

(* escalate reads the subscription and moves it if the domain has the edge *)
(* for where it stands; abandon calls it with CANCELED.                    *)
Escalate(p) ==
    /\ At(p, "escalate")
    /\ SubTransition("PAST_DUE", "payment_failed")
    /\ Performed(proc[p].id, proc[p].step + 1)
    /\ Goto(p, "advance")
    /\ UNCHANGED <<inv, books, old>>

Abandon(p) ==
    /\ At(p, "abandon")
    /\ SubTransition("CANCELED", IF sub.status = "INCOMPLETE" THEN "activation_expired"
                                 ELSE "dunning_exhausted")
    /\ Goto(p, "uncollectible")
    /\ UNCHANGED <<inv, books, old, done>>

(* Conditional on the copy's status, which is OPEN.                        *)
Uncollectible(p) ==
    /\ At(p, "uncollectible")
    /\ IF inv[proc[p].id].status = "OPEN"
       THEN /\ inv' = [inv EXCEPT ![proc[p].id].status = "UNCOLLECTIBLE",
                                  ![proc[p].id].queue = "none"]
            /\ Performed(proc[p].id, proc[p].step + 1)
            /\ Goto(p, "advance")
       ELSE Proceed(p) /\ UNCHANGED <<inv, done>>
    /\ UNCHANGED <<sub, books, old>>

Advanced(row, next) ==
    [row EXCEPT !.step = next, !.queue = IF next < Len(Policy) THEN "dunning" ELSE "none"]

(* Not conditional at all.                                                 *)
BadAdvanceDunning(p) ==
    /\ At(p, "advance")
    /\ LET i == proc[p].id IN inv' = [inv EXCEPT ![i] = Advanced(@, @.step + 1)]
    /\ Proceed(p)
    /\ UNCHANGED <<sub, books, old, done>>

(* Conditional on the step the copy had, and on nothing else.              *)
AdvanceDunning(p) ==
    /\ At(p, "advance")
    /\ LET i == proc[p].id IN
       inv' = IF inv[i].step = proc[p].step
              THEN [inv EXCEPT ![i] = Advanced(@, proc[p].step + 1)] ELSE inv
    /\ Proceed(p)
    /\ UNCHANGED <<sub, books, old, done>>

----------------------------------------------------------------------------
(* A settlement, and the replay of its last part.                          *)

(* The first settlement queues the posting in the write that makes the     *)
(* invoice PAID; a repeated one goes on with the rest.                     *)
BadSettleInvoice(p, i) ==
    /\ At(p, "idle")
    /\ OthersMayStart
    /\ inv[i].status \in {"OPEN", "UNCOLLECTIBLE"}
    /\ inv' = [inv EXCEPT ![i].status = "PAID", ![i].queue = "none"]
    /\ Become(p, [Idle EXCEPT !.pc = "activate", !.id = i])
    /\ UNCHANGED <<sub, books, old, done>>

SettleInvoice(p, i) ==
    /\ At(p, "idle")
    /\ OthersMayStart
    /\ inv[i].status \in {"OPEN", "UNCOLLECTIBLE", "PAID"}
    /\ inv' = IF inv[i].status = "PAID" THEN inv
              ELSE [inv EXCEPT ![i].status = "PAID", ![i].queue = "posting"]
    /\ Become(p, [Idle EXCEPT !.pc = "activate", !.id = i])
    /\ UNCHANGED <<sub, books, old, done>>

(* From INCOMPLETE and PAST_DUE only; a failure is logged and passed over. *)
ActivateSubscription(p) ==
    /\ At(p, "activate")
    /\ \/ SubTransition("ACTIVE", "invoice_paid")
       \/ p \in Failing /\ UNCHANGED sub
    /\ Goto(p, "issuer")
    /\ UNCHANGED <<inv, books, old, done>>

(* Replay: what is outside the window is given up, the rest is posted.     *)
Replay(p, i) ==
    /\ At(p, "idle")
    /\ OthersMayStart
    /\ inv[i].queue = "posting"
    /\ Become(p, [Idle EXCEPT !.id = i, !.pc = IF i \in old THEN "posted" ELSE "issuer"])
    /\ UNCHANGED <<inv, sub, books, old, done>>

(* After a side: the other one, then off the queue if both are settled.    *)
Onward(p, side, ok) ==
    Become(p, IF side = "issuer" THEN [proc[p] EXCEPT !.pc = "payer", !.ok = ok]
              ELSE IF ok THEN [proc[p] EXCEPT !.pc = "posted"] ELSE Idle)

(* Recorded now, recorded already, or skipped for good.                    *)
RecordInvoice(p, side) ==
    /\ At(p, side)
    /\ books' = [books EXCEPT ![proc[p].id] = @ \cup {side}]
    /\ Onward(p, side, proc[p].ok)
    /\ UNCHANGED <<inv, sub, old, done>>

BadRecordFails(p, side) ==
    /\ At(p, side)
    /\ p \in Failing
    /\ Onward(p, side, side = "payer" \/ proc[p].ok)
    /\ UNCHANGED <<inv, sub, books, old, done>>

(* It failed, or the space has no receiving account yet: tried again later.*)
RecordFails(p, side) ==
    /\ At(p, side)
    /\ p \in Failing
    /\ Onward(p, side, FALSE)
    /\ UNCHANGED <<inv, sub, books, old, done>>

(* Off the queue of postings, and of no other.                             *)
FinancePosted(p) ==
    /\ At(p, "posted")
    /\ LET i == proc[p].id IN
       inv' = IF inv[i].queue = "posting" THEN [inv EXCEPT ![i].queue = "none"] ELSE inv
    /\ End(p)
    /\ UNCHANGED <<sub, books, old, done>>

----------------------------------------------------------------------------
(* A call fails or the process dies; the job passes over the invoice.      *)
Fail(p) ==
    /\ p \in Failing
    /\ ~At(p, "idle")
    /\ \/ End(p)
       \/ p \in Dunners /\ ~At(p, "next") /\ Proceed(p)
    /\ UNCHANGED <<inv, sub, books, old, done>>

Dunner(p) ==
    \/ DueForDunning(p) \/ Step(p) \/ Remind(p) \/ Escalate(p) \/ Abandon(p)
    \/ Uncollectible(p) \/ AdvanceDunning(p)

Poster(p) ==
    \/ \E side \in Sides : RecordInvoice(p, side) \/ RecordFails(p, side)
    \/ FinancePosted(p)

Next ==
    \/ \E i \in Invoices : Finalize(i) \/ VoidInvoice(i) \/ WindowCloses(i)
    \/ Cancel
    \/ \E p \in Dunners : Dunner(p)
    \/ \E p \in Settlers : (\E i \in Invoices : SettleInvoice(p, i)) \/ ActivateSubscription(p)
    \/ \E p \in Replayers, i \in Invoices : Replay(p, i)
    \/ \E p \in Settlers \cup Replayers : Poster(p)
    \/ \E p \in Procs : Fail(p)

Spec == Init /\ [][Next]_vars

(* Every run ends: each call has a deadline.  The replay reads the whole   *)
(* queue every time, and what it tries every time succeeds in the end.     *)
Fairness ==
    /\ \A p \in Dunners :
         WF_vars(~At(p, "idle") /\ (Dunner(p) \/ Fail(p)))
    /\ \A p \in Settlers : WF_vars(ActivateSubscription(p) \/ Poster(p) \/ Fail(p))
    /\ \A p \in Replayers :
         /\ \A i \in Invoices : SF_vars(Replay(p, i))
         /\ \A side \in Sides : SF_vars(RecordInvoice(p, side))
         /\ WF_vars(FinancePosted(p))

LiveSpec == Spec /\ Fairness

----------------------------------------------------------------------------
(* Types of the rows, of the books and of what a job carries.              *)
TypeOK ==
    /\ inv \in [Invoices -> Row]
    /\ sub \in [status: SubscriptionStatus, cause: Cause]
    /\ books \in [Invoices -> SUBSET Sides]
    /\ old \subseteq Invoices
    /\ done \in [Invoices -> [1..Len(Policy) -> 0..2]]
    /\ proc \in [Procs -> Process]

(* Every step the ladder has passed was performed: AdvanceDunning consumes *)
(* a step only after it was done, whoever else works on the invoice.       *)
NoStepSkipped ==
    \A i \in Invoices : \A n \in 1..inv[i].step : done[i][n] >= 1

(* An invoice is written off only after its customer was taken through     *)
(* every earlier step of the policy (abandon is the end of it).            *)
WrittenOffAfterChase ==
    \A i \in Invoices : inv[i].status = "UNCOLLECTIBLE" =>
        \A n \in 1..Len(Policy) : Policy[n] # "abandon" => done[i][n] >= 1

(* A paid invoice that is not recorded on both sides is in the queue the   *)
(* replay reads, unless its window is over (Transition queues it in the    *)
(* write that makes it PAID).                                              *)
QueuedUntilPosted ==
    \A i \in Invoices : inv[i].status = "PAID" =>
        books[i] = Sides \/ inv[i].queue = "posting" \/ i \in old

(* Paid and void invoices and canceled subscriptions stay so, although     *)
(* jobs write over rows they read long before (CommitStatusChange).        *)
EndsAreFinal ==
    [][/\ \A i \in Invoices :
            inv[i].status \in {"PAID", "VOID"} => inv'[i].status = inv[i].status
       /\ sub.status = "CANCELED" => sub' = sub]_vars

(* A paid invoice reaches both ledgers, or its window passes, whatever     *)
(* fails in between (Replay).                                              *)
PostingConcludes ==
    \A i \in Invoices : inv[i].status = "PAID" ~> (books[i] = Sides \/ i \in old)
=============================================================================
