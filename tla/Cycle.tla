------------------------------- MODULE Cycle --------------------------------
(***************************************************************************)
(* The billing cycle of one subscription: the daily sweep that invoices a  *)
(* period and renews into the next, the requests that subscribe, change    *)
(* the plan, cancel, issue one-off invoices and finalize drafts, and the   *)
(* counter all of them number invoices from.  Every process may die        *)
(* between two of its writes; the sweep runs again and looks back.         *)
(***************************************************************************)
EXTENDS Integers, FiniteSets
LOCAL INSTANCE FiniteSetsExt

CONSTANTS
    Workers,      \* the processes: sweep workers and requests
    Plans, Timing, Cost, NoPlan,   \* plan -> "advance" or "arrears"; plan -> cents of a period
    PeriodDays, CatchUpDays,
    MaxPeriod, MaxItems, MaxCrashes, MaxRequests,   \* bounds: periods, item rows ever made, deaths, requests
    References,   \* how many one-off references callers use
    Prorations    \* how many proration invoices may be made

ASSUME CycleAssumption ==
    /\ {PeriodDays, MaxPeriod, MaxItems} \subseteq Nat \ {0}
    /\ {CatchUpDays, MaxCrashes, MaxRequests, References, Prorations} \subseteq Nat
    /\ NoPlan \notin Plans
    /\ \A p \in Plans : Timing[p] \in {"advance", "arrears"} /\ Cost[p] \in Nat

VARIABLES
    subscription,   \* the subscription's row
    items,      \* its item rows: the item's id and its plan
    made,       \* how many item rows were ever made (the ids)
    invoice,    \* generation key -> the invoice's row
    counter,    \* last_number of the tenant's year
    worker,     \* process -> where it is and what it read
    today, deaths, asked,
    renewed     \* periods a renewal moved the sweep date past

subRows == <<subscription, items, made>>
bills   == <<invoice, counter>>
world   == <<today, deaths, asked>>
cycleVars == <<subscription, items, made, invoice, counter, worker, today, deaths, asked, renewed>>

----------------------------------------------------------------------------

Periods  == 0..MaxPeriod
OneOffs  == MaxPeriod + 1 .. MaxPeriod + References
Swaps    == MaxPeriod + References + 1 .. MaxPeriod + References + Prorations
CycleInvoices == Periods \cup OneOffs \cup Swaps
Never    == -1

NotInvoiced == [status |-> "none", number |-> 0, plans |-> {}]
NoChange  == [plan |-> NoPlan, at |-> 0]
NotSubscribed ==
    [status |-> "none", index |-> 0, timing |-> "advance", pending |-> NoChange, ends |-> FALSE, due |-> Never]

Start(p)        == p * PeriodDays           \* Recurrence.Shift from the anchor, day 0
NextSweepDate(i) == Start(i + 1)
PeriodToInvoice(s) == IF s.timing = "arrears" THEN s.index ELSE s.index + 1

NotBusy == [pc |-> "idle", snap |-> NotSubscribed, items |-> {}, key |-> 0, number |-> 0, then |-> "idle", plan |-> NoPlan]

CycleInit ==
    /\ subscription = NotSubscribed /\ items = {} /\ made = 0
    /\ invoice = [k \in CycleInvoices |-> NotInvoiced] /\ counter = 0
    /\ worker = [w \in Workers |-> NotBusy]
    /\ today = 0 /\ deaths = 0 /\ asked = 0 /\ renewed = {}

On(w, pc)     == worker[w].pc = pc
Ends(w)       == worker' = [worker EXCEPT ![w] = NotBusy]
Moves(w, pc)  == IF pc = "idle" THEN Ends(w) ELSE worker' = [worker EXCEPT ![w].pc = pc]
Bills(w, k, is) == \* nothing of what was read is used again
    worker' = [worker EXCEPT ![w] = [NotBusy EXCEPT !.pc = "create", !.key = k, !.items = is]]
Asks          == asked < MaxRequests /\ asked' = asked + 1
Me(w)         == worker[w]

----------------------------------------------------------------------------
(* The transitions of a subscription, and the writes that carry them.      *)

Allowed == \* subscriptionTransitions, of the causes that reach them
    { <<"INCOMPLETE", "ACTIVE">>, <<"INCOMPLETE", "CANCELED">>, <<"ACTIVE", "ACTIVE">>,
      <<"ACTIVE", "PAST_DUE">>, <<"ACTIVE", "CANCELED">>, <<"PAST_DUE", "ACTIVE">>,
      <<"PAST_DUE", "CANCELED">> }

(* CommitStatusChange: the row must still be in the status that was read.  *)
StillAt(s) == subscription.status = s.status
MayChange(s) == <<s.status, s.status>> \in Allowed /\ StillAt(s)   \* the self-edge: ACTIVE only

(* Transition: the status, and the sweep date of the index that was read.  *)
MovedTo(s, to) ==
    [subscription EXCEPT !.status = to, !.due = IF to = "ACTIVE" THEN NextSweepDate(s.index) ELSE Never]

RenewedFrom(s) ==
    [subscription EXCEPT !.index = s.index + 1, !.due = NextSweepDate(s.index + 1)]

(* resolveItemPrices: the items asked for, of one timing, with a new id.   *)
ItemsOn(p) == {[id |-> made, plan |-> p]}

(* changeItems: delete the rows that were read, put the new one, and write *)
(* the timing, the index and the sweep date computed from what was read.   *)
ChangedItems(old, p) == (items \ old) \cup ItemsOn(p)
ChangedSub(s, p, index) ==
    [subscription EXCEPT !.timing = Timing[p], !.pending = NoChange, !.index = index, !.due = NextSweepDate(index)]

----------------------------------------------------------------------------
(* Numbering: GenerateForPeriod, issue and Finalize.                       *)

Generated(k) == invoice[k].status # "none"

(* buildLine: a line for each item.                                        *)
LinesOf(is) == {i.plan : i \in is}

(* Create: the invoice, its lines and its generation marker, or            *)
(* ErrAlreadyGenerated.                                                    *)
Create(w) ==
    /\ On(w, "create") /\ ~Generated(Me(w).key)
    /\ invoice' = [invoice EXCEPT ![Me(w).key] =
           [status |-> "DRAFT", number |-> 0, plans |-> LinesOf(Me(w).items)]]
    /\ Moves(w, "number")
    /\ UNCHANGED <<counter, subRows, world, renewed>>

BadAlreadyGenerated(w) == Me(w).then
AlreadyGenerated(w) == IF Me(w).then = "renew" THEN "leftover" ELSE Me(w).then

CreateRefused(w) ==
    /\ On(w, "create") /\ Generated(Me(w).key)
    /\ Moves(w, AlreadyGenerated(w))
    /\ UNCHANGED <<subRows, bills, world, renewed>>

(* issueLeftoverDraft: a draft an earlier run left is issued first.        *)
LeftoverDraft(w) ==
    /\ On(w, "leftover")
    /\ Moves(w, IF invoice[Me(w).key].status = "DRAFT" THEN "number" ELSE Me(w).then)
    /\ UNCHANGED <<subRows, bills, world, renewed>>

CurrentNumber(w) ==
    /\ On(w, "number")
    /\ worker' = [worker EXCEPT ![w].pc = "finalize", ![w].number = counter + 1]
    /\ UNCHANGED <<subRows, bills, world, renewed>>

BadCounterHolds(w) == TRUE
CounterHolds(w)    == counter = Me(w).number - 1
Finalizes(w) == invoice[Me(w).key].status = "DRAFT" /\ CounterHolds(w)

(* FixedLine, MeteredLine: what a line comes to is never negative.         *)
Charges(p) == Cost[p] > 0
Due(plans) == \E p \in plans : Charges(p)

(* Finalize: the number, the status and the counter in one transaction.    *)
FinalizeDraft(w) ==
    /\ On(w, "finalize") /\ Finalizes(w)
    /\ invoice' = [invoice EXCEPT ![Me(w).key].status = "OPEN", ![Me(w).key].number = Me(w).number]
    /\ counter' = Me(w).number
    /\ Moves(w, IF Due(invoice[Me(w).key].plans) THEN Me(w).then ELSE "nothing_due")
    /\ UNCHANGED <<subRows, world, renewed>>

(* The refused transaction: again while the invoice is a draft, else give  *)
(* up.                                                                     *)
FinalizeRefused(w) ==
    /\ On(w, "finalize") /\ ~Finalizes(w)
    /\ IF invoice[Me(w).key].status = "DRAFT" THEN Moves(w, "number") ELSE Ends(w)
    /\ UNCHANGED <<subRows, bills, world, renewed>>

(* A zero-total invoice is closed as soon as it is issued.                 *)
NothingDue(w) ==
    /\ On(w, "nothing_due")
    /\ IF invoice[Me(w).key].status = "OPEN"
       THEN /\ invoice' = [invoice EXCEPT ![Me(w).key].status = "PAID"]
            /\ Moves(w, Me(w).then)
       ELSE Ends(w) /\ UNCHANGED invoice
    /\ UNCHANGED <<counter, subRows, world, renewed>>

Issuing(w) ==
    \/ Create(w) \/ CreateRefused(w) \/ LeftoverDraft(w) \/ CurrentNumber(w)
    \/ FinalizeDraft(w) \/ FinalizeRefused(w) \/ NothingDue(w)

----------------------------------------------------------------------------
(* The sweep.                                                              *)

(* RunDailySweep: the rows of today's partition and of the days before it. *)
SweepDates == (today - CatchUpDays)..today

DueOn(w) ==
    /\ On(w, "idle") /\ subscription.due \in SweepDates \cap Nat /\ subscription.index + 2 \in Periods
    /\ worker' = [worker EXCEPT ![w].pc = "sweep", ![w].snap = subscription]
    /\ UNCHANGED <<subRows, bills, world, renewed>>

Boundary(s) ==
    IF s.ends THEN "end"
    ELSE IF s.pending.plan # NoPlan /\ s.pending.at = s.index + 1 THEN "change" ELSE "renew"

(* invoiceOne: the items are read after the row; the boundary decides what *)
(* is billed and what follows.                                             *)
InvoiceOne(w) ==
    LET s == Me(w).snap
        then == Boundary(s)
        billed == then = "renew" \/ s.timing = "arrears"
    IN  /\ On(w, "sweep")
        /\ worker' = [worker EXCEPT
               ![w].pc = IF billed THEN "create" ELSE then, ![w].items = items,
               ![w].key = PeriodToInvoice(s), ![w].then = then]
        /\ UNCHANGED <<subRows, bills, world, renewed>>

(* The renewal; one that cannot happen because the subscription moved on   *)
(* is no failure.                                                          *)
Renew(w) ==
    /\ On(w, "renew")
    /\ IF StillAt(Me(w).snap)
       THEN subscription' = RenewedFrom(Me(w).snap) /\ renewed' = renewed \cup {Me(w).key}
       ELSE UNCHANGED <<subscription, renewed>>
    /\ Ends(w)
    /\ UNCHANGED <<items, made, bills, world>>

EndAtBoundary(w) ==
    /\ On(w, "end")
    /\ IF StillAt(Me(w).snap)
       THEN subscription' = MovedTo(Me(w).snap, "CANCELED")
       ELSE UNCHANGED subscription
    /\ Ends(w)
    /\ UNCHANGED <<items, made, renewed, bills, world>>

(* ApplyScheduledChange: the items and the renewal in one write; then the  *)
(* period that starts, if the new plan bills in advance.                   *)
ChangeAtBoundary(w) ==
    LET s == Me(w).snap
        p == s.pending.plan
    IN  /\ On(w, "change") /\ made < MaxItems
        /\ IF StillAt(s)
           THEN /\ subscription' = ChangedSub(s, p, s.index + 1)
                /\ items' = ChangedItems(Me(w).items, p) /\ made' = made + 1
                /\ IF Timing[p] = "advance" THEN Bills(w, s.index + 1, ItemsOn(p)) ELSE Ends(w)
           ELSE UNCHANGED <<subscription, items, made>> /\ Ends(w)
        /\ UNCHANGED <<renewed, bills, world>>

Sweeping(w) == DueOn(w) \/ InvoiceOne(w) \/ Renew(w) \/ EndAtBoundary(w) \/ ChangeAtBoundary(w)

----------------------------------------------------------------------------
(* The requests.                                                           *)

(* Service waits for the first period to be paid, when it is billed in     *)
(* advance and costs anything.                                             *)
SubscribedTo(p) ==
    LET status == IF Timing[p] = "advance" /\ Charges(p) THEN "INCOMPLETE" ELSE "ACTIVE"
    IN  [NotSubscribed EXCEPT !.status = status, !.timing = Timing[p],
                              !.due = IF status = "ACTIVE" THEN NextSweepDate(0) ELSE Never]

(* Create: the row and its items in one transaction.                       *)
CreateSubscription(p) == subscription' = SubscribedTo(p) /\ items' = ItemsOn(p) /\ made' = made + 1

(* The request: the subscription, and the invoice of a first period billed *)
(* in advance.                                                             *)
Subscribe(w, p) ==
    /\ On(w, "idle") /\ subscription.status = "none" /\ made < MaxItems
    /\ CreateSubscription(p)
    /\ IF Timing[p] = "advance" THEN Bills(w, 0, ItemsOn(p)) ELSE UNCHANGED worker
    /\ UNCHANGED <<bills, world, renewed>>

(* Every other request reads the row first.                                *)
Reads(w, pc, p) ==
    /\ On(w, "idle")
    /\ worker' = [worker EXCEPT ![w].pc = pc, ![w].snap = subscription, ![w].plan = p]
    /\ UNCHANGED <<today, deaths, subRows, bills, renewed>>

AskChange(w, p) == subscription.status # "none" /\ Reads(w, "list", p) /\ Asks
ListItems(w) ==
    /\ On(w, "list")
    /\ worker' = [worker EXCEPT ![w].pc = "swap", ![w].items = items]
    /\ UNCHANGED <<subRows, bills, world, renewed>>

(* MulDiv rounds half up; Prorate clips the day to the period.             *)
MulDiv(amount, num, den) == (amount * num + den \div 2) \div den
Clip(p, day) == IF day < Start(p) THEN Start(p) ELSE IF day > Start(p + 1) THEN Start(p + 1) ELSE day
ProrateRemaining(full, p, day) == full - MulDiv(full, Clip(p, day) - Start(p), PeriodDays)

InAdvance(p) == IF Timing[p] = "advance" THEN Cost[p] ELSE 0
SideOf(is) == MapThenSumSet(LAMBDA i : InAdvance(i.plan), is)
Net(is, p, period) ==
    ProrateRemaining(InAdvance(p), period, today) - ProrateRemaining(SideOf(is), period, today)

FreeSwaps == {k \in Swaps : ~Generated(k)}

(* ChangePlan: swap the items, then invoice the difference when it is a    *)
(* charge; that invoice has no generation key.                             *)
ChangePlan(w) ==
    LET s == Me(w).snap
        p == Me(w).plan
    IN  /\ On(w, "swap") /\ made < MaxItems
        /\ IF MayChange(s)
           THEN /\ subscription' = ChangedSub(s, p, s.index)
                /\ items' = ChangedItems(Me(w).items, p) /\ made' = made + 1
                /\ IF Net(Me(w).items, p, s.index) > 0
                   THEN \E k \in FreeSwaps : Bills(w, k, ItemsOn(p))
                   ELSE Ends(w)
           ELSE UNCHANGED <<subscription, items, made>> /\ Ends(w)
        /\ UNCHANGED <<bills, world, renewed>>

(* SchedulePlanChange and ClearPlanChange: only the pending change.        *)
SchedulePlanChange(w) ==
    LET s == Me(w).snap
    IN  /\ On(w, "schedule")
        /\ subscription' = IF ~MayChange(s) THEN subscription
                  ELSE [subscription EXCEPT !.pending = IF Me(w).plan = NoPlan THEN NoChange
                                               ELSE [plan |-> Me(w).plan, at |-> s.index + 1]]
        /\ Ends(w)
        /\ UNCHANGED <<items, made, bills, world, renewed>>

(* The console's plan screen: the current plan drops a scheduled change,   *)
(* leaving a postpaid plan is scheduled, anything else is immediate.       *)
ChangeBillingPlan(w, p) ==
    /\ subscription.status \in {"ACTIVE", "PAST_DUE"} /\ Asks
    /\ IF \E i \in items : i.plan = p THEN Reads(w, "schedule", NoPlan)
       ELSE Reads(w, IF subscription.timing = "arrears" THEN "schedule" ELSE "list", p)

(* Cancel: at the period's end, a flag; an INCOMPLETE one, or now, a       *)
(* transition.  An operator or a customer is not asked twice.              *)
Cancels(w, pc) == Reads(w, pc, NoPlan) /\ Asks
CancelByClient(w, pc)   == subscription.status # "none" /\ Cancels(w, pc)
CancelByOperator(w, pc) ==
    subscription.status \notin {"none", "CANCELED"} /\ ~(pc = "cancel_at_end" /\ subscription.ends) /\ Cancels(w, pc)
CancelByCustomer(w)     ==
    subscription.status \notin {"none", "CANCELED"} /\ ~subscription.ends /\ Cancels(w, "cancel_at_end")
ScheduleCancellation(w) ==
    LET s == Me(w).snap
    IN  /\ On(w, "cancel_at_end")
        /\ subscription' = IF s.status = "INCOMPLETE" /\ StillAt(s) THEN MovedTo(s, "CANCELED")
                  ELSE IF MayChange(s) THEN [subscription EXCEPT !.ends = TRUE] ELSE subscription
        /\ Ends(w)
        /\ UNCHANGED <<items, made, bills, world, renewed>>

(* A transition asked for elsewhere: a cancellation, a payment, dunning.   *)
Transition(w, to) ==
    /\ On(w, to)
    /\ subscription' = IF StillAt(Me(w).snap) /\ <<Me(w).snap.status, to>> \in Allowed
              THEN MovedTo(Me(w).snap, to) ELSE subscription
    /\ Ends(w)
    /\ UNCHANGED <<items, made, bills, world, renewed>>

OfSub == Periods \cup Swaps
Activate(w) ==
    /\ \E k \in OfSub : invoice[k].status = "PAID"
    /\ subscription.status \in {"INCOMPLETE", "PAST_DUE"} /\ Reads(w, "ACTIVE", NoPlan) /\ UNCHANGED asked
EscalateTo(w, to) ==
    /\ \E k \in OfSub : invoice[k].status = "OPEN"
    /\ IF to = "PAST_DUE" THEN subscription.status = "ACTIVE" ELSE subscription.status \in {"INCOMPLETE", "PAST_DUE"}
    /\ Reads(w, to, NoPlan) /\ Asks

(* A one-off invoice: found by its reference or created, then issued.      *)
OneOff(w, k, p) ==
    /\ On(w, "idle")
    /\ worker' = [worker EXCEPT ![w] = [NotBusy EXCEPT !.pc = IF Generated(k) THEN "leftover" ELSE "create",
                      !.key = k, !.items = {[id |-> 0, plan |-> p]}]]
    /\ Asks
    /\ UNCHANGED <<today, deaths, subRows, bills, renewed>>

(* The console finalizes a draft that was left behind.                     *)
FinalizeInvoice(w, k) ==
    /\ On(w, "idle") /\ invoice[k].status = "DRAFT"
    /\ worker' = [worker EXCEPT ![w].pc = "number", ![w].key = k]
    /\ Asks
    /\ UNCHANGED <<today, deaths, subRows, bills, renewed>>

Requesting(w) ==
    \/ \E p \in Plans : Subscribe(w, p) \/ AskChange(w, p) \/ ChangeBillingPlan(w, p)
    \/ \E k \in OneOffs, p \in Plans : Charges(p) /\ OneOff(w, k, p)
    \/ \E k \in CycleInvoices : FinalizeInvoice(w, k)
    \/ \E pc \in {"cancel_at_end", "CANCELED"} : CancelByClient(w, pc) \/ CancelByOperator(w, pc)
    \/ CancelByCustomer(w)
    \/ Activate(w) \/ EscalateTo(w, "PAST_DUE") \/ EscalateTo(w, "CANCELED")
    \/ ListItems(w) \/ ChangePlan(w) \/ SchedulePlanChange(w) \/ ScheduleCancellation(w)
    \/ \E to \in {"ACTIVE", "PAST_DUE", "CANCELED"} : Transition(w, to)

----------------------------------------------------------------------------
(* The world.                                                              *)

(* A payment settles an open invoice (Collection has the whole of it).     *)
Paid(k) ==
    /\ invoice[k].status = "OPEN"
    /\ invoice' = [invoice EXCEPT ![k].status = "PAID"]
    /\ UNCHANGED <<counter, worker, subRows, world, renewed>>

NextDay ==
    /\ today < Start(MaxPeriod)
    /\ today' = today + 1
    /\ UNCHANGED <<worker, deaths, asked, subRows, bills, renewed>>

Dies(w) ==
    /\ ~On(w, "idle") /\ deaths < MaxCrashes
    /\ Ends(w) /\ deaths' = deaths + 1
    /\ UNCHANGED <<today, asked, subRows, bills, renewed>>

CycleNext ==
    \/ NextDay \/ \E k \in CycleInvoices : Paid(k)
    \/ \E w \in Workers : Issuing(w) \/ Sweeping(w) \/ Requesting(w) \/ Dies(w)

CycleSpec == CycleInit /\ [][CycleNext]_cycleVars

----------------------------------------------------------------------------

Issued == {k \in CycleInvoices : invoice[k].status \in {"OPEN", "PAID"}}

(* The numbers of the issued invoices run from 1 to the counter without a  *)
(* gap and without a repeat, whoever issues them and wherever one dies.    *)
NumbersHaveNoGap ==
    /\ {invoice[k].number : k \in Issued} = 1..counter
    /\ Cardinality(Issued) = counter

(* A renewal never moves the sweep date past a period whose invoice is not *)
(* issued: a run that died after the draft has it issued by the next one.  *)
RenewedIsInvoiced == renewed \subseteq Issued
=============================================================================
