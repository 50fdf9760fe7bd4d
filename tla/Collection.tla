---------------------------- MODULE Collection ----------------------------
(***************************************************************************)
(* Collecting one invoice through the merchant's own bank (the BYOK rail): *)
(* the invoice row, its payment attempts, the bank's charges, the excess   *)
(* payments, and the requests and jobs that work on them at the same time. *)
(*                                                                         *)
(* A request (checkout, "new Pix", void, credit note, webhook re-query,    *)
(* hourly sweep) is a process.  Between two of its database or bank calls  *)
(* every other process may run, so what it carries from one call to the    *)
(* next (p.iv, p.a, p.seen) may be stale when it is used: every write is   *)
(* conditional exactly where the code's write is.                          *)
(***************************************************************************)
EXTENDS Integers, Sequences

CONSTANTS
    Procs,        \* requests and jobs that run concurrently
    Jobs,         \* of them, the runs of the hourly job (cmd/byok)
    Ops,          \* which operations the instance runs
    Total,        \* the invoice's total
    Notes,        \* amounts a credit note may have
    Surcharges,   \* what a payer may add to a charge: [late, over]
    MaxAttempts,  \* bound: attempts of the invoice
    MaxPayments   \* bound: payments on one charge

AllOps == {"pay", "new", "void", "credit", "confirm", "sweep", "abandon"}

ASSUME CollectionAssumption ==
    /\ Total \in Nat \ {0}
    /\ MaxAttempts \in Nat \ {0}
    /\ MaxPayments \in Nat \ {0}
    /\ Jobs \subseteq Procs
    /\ Ops \subseteq AllOps
    /\ Notes \subseteq Nat \ {0}
    /\ Surcharges \subseteq [late: Nat, over: Nat]

Attempts == 1..MaxAttempts

InvoiceStatus == {"OPEN", "PAID", "UNCOLLECTIBLE", "VOID"}
AttemptStatus == {"NONE", "PENDING", "SUCCEEDED", "FAILED"}
ChargeStatus  == {"none", "open", "concluded", "expired", "removed"}

Invoice == [status: InvoiceStatus, credited: Nat]
Attempt == [status: AttemptStatus, amount: Nat, payable: BOOLEAN, late: Nat]
Payment == [amt: Nat, late: Nat]
Charge  == [status: ChargeStatus, amount: Nat, pays: Seq(Payment)]
Excess  == [n: Attempts, k: Nat \ {0}, tag: {"over", "whole"}, amt: Nat]

(* Where a process is: the next database or bank call it makes.            *)
Steps == {"idle",
          "latest", "create", "charge", "setcharge",           \* ensure, NewAttempt
          "withdraw", "cancel", "fail", "void",                \* voidInvoice, cancelAt
          "issue", "fresh", "credited", "update", "setamount", \* creditInvoice, Credited
          "get", "expire", "owed", "lower", "settle",          \* confirmAttempt
          "invoice", "excess",                                 \* settleInvoice, excess
          "sweepnew", "sweepold"}                              \* sweepOne

(* What it carries from its earlier calls: copies of rows as it read them, *)
(* and of those only what a later step of it looks at.                     *)
Copy    == [status: AttemptStatus, amount: Nat]
Process == [pc: Steps, op: AllOps \cup {"none"}, iv: Invoice, n: 0..MaxAttempts,
            a: Copy, page: [n: 0..MaxAttempts, amount: Nat], seen: Nat, note: Nat]

VARIABLES
    inv,     \* the invoice row
    att,     \* its attempt rows, by attempt number ("NONE": no such row)
    bank,    \* the bank's charge of each attempt's reference
    excess,  \* the excess payment rows
    proc     \* the running requests and jobs

vars == <<inv, att, bank, excess, proc>>

NoInvoice == [status |-> "OPEN", credited |-> 0]
NoAttempt == [status |-> "NONE", amount |-> 0, payable |-> FALSE, late |-> 0]
NoCopy    == [status |-> "NONE", amount |-> 0]
NoCharge  == [status |-> "none", amount |-> 0, pays |-> <<>>]
Idle == [pc |-> "idle", op |-> "none", iv |-> NoInvoice, n |-> 0,
         a |-> NoCopy, page |-> [n |-> 0, amount |-> 0], seen |-> 0, note |-> 0]

Init ==
    /\ inv = NoInvoice
    /\ att = [n \in Attempts |-> NoAttempt]
    /\ bank = [n \in Attempts |-> NoCharge]
    /\ excess = {}
    /\ proc = [p \in Procs |-> Idle]

----------------------------------------------------------------------------
(* What an invoice copy says is still to collect.                          *)
Collectable(i) == IF i.status = "PAID" \/ i.credited >= Total
                  THEN 0 ELSE Total - i.credited

(* Each definition named Bad... is a plausible mistake in the definition   *)
(* it stands before; no specification uses it.  The runs' properties are   *)
(* shown to notice it.                                                     *)
BadSmaller(x, y) == x

Smaller(x, y) == IF x < y THEN x ELSE y

(* ListAttempts answers m rows: attempts are numbered from 1 without gaps. *)
Listed(m) == \A n \in Attempts : att[n].status # "NONE" <=> n <= m

At(p, step) == proc[p].pc = step

(* The process becomes r; it moves to its next call with all it carries;   *)
(* or with nothing but what it is and where it must go on; or it ends.     *)
Become(p, r) == proc' = [proc EXCEPT ![p] = r]
Goto(p, step) == Become(p, [proc[p] EXCEPT !.pc = step])
Only(p) == [Idle EXCEPT !.op = proc[p].op, !.page = proc[p].page]
End(p) == Become(p, Idle)

CopyOf(n) == [status |-> att[n].status, amount |-> att[n].amount]

(* A request begins; the hourly job does nothing but sweep.                *)
Begins(p, op) == At(p, "idle") /\ op \in Ops /\ (op = "sweep" <=> p \in Jobs)

Start(p, op, step, i) ==
    /\ Begins(p, op)
    /\ Become(p, [Idle EXCEPT !.pc = step, !.op = op, !.iv = i])
    /\ UNCHANGED <<inv, att, bank, excess>>

----------------------------------------------------------------------------
(* Opening a charge: Collector.Pay -> Checkout -> ensure, and NewAttempt.  *)

Pay(p) ==
    /\ inv.status = "OPEN" /\ Collectable(inv) > 0
    /\ Start(p, "pay", "latest", inv)

NewAttempt(p) ==
    /\ inv.status = "OPEN" /\ Collectable(inv) > 0
    /\ Start(p, "new", "latest", inv)

(* With a pending attempt in hand: its Pix is there already, or the charge *)
(* was never completed and the same reference completes it.                *)
Complete(p, n) ==
    IF att[n].payable THEN End(p)
    ELSE Become(p, [Idle EXCEPT !.pc = "charge", !.n = n, !.a = CopyOf(n)])

(* A new Pix although the last one can still be paid.                      *)
BadLatest(p) ==
    /\ At(p, "latest")
    /\ \E m \in 0..MaxAttempts :
         /\ Listed(m)
         /\ \/ /\ m < MaxAttempts /\ (m = 0 \/ proc[p].op = "new")
               /\ Become(p, [proc[p] EXCEPT !.pc = "create", !.n = m + 1])
            \/ m > 0 /\ proc[p].op = "pay" /\ att[m].status = "PENDING" /\ Complete(p, m)
    /\ UNCHANGED <<inv, att, bank, excess>>

Latest(p) ==
    /\ At(p, "latest")
    /\ \E m \in 0..MaxAttempts :
         /\ Listed(m)
         /\ \/ /\ m = 0
               /\ Become(p, [proc[p] EXCEPT !.pc = "create", !.n = 1])
            \/ /\ m > 0 /\ att[m].status = "PENDING"
               /\ Complete(p, m)
            \/ /\ m > 0 /\ att[m].status = "FAILED" /\ proc[p].op = "new"
               /\ m < MaxAttempts
               /\ Become(p, [proc[p] EXCEPT !.pc = "create", !.n = m + 1])
            \/ /\ m > 0
               /\ \/ att[m].status = "SUCCEEDED"
                  \/ att[m].status = "FAILED" /\ proc[p].op = "pay"
               /\ End(p)
    /\ UNCHANGED <<inv, att, bank, excess>>

(* CreateByokAttempt: the row of a new attempt, for what the invoice in    *)
(* hand still asks.                                                        *)
CreateByokAttempt(i) == [status |-> "PENDING", amount |-> Collectable(i), payable |-> FALSE, late |-> 0]

(* open -> CreateByokAttempt: create-only by attempt number.  The invoice  *)
(* row is not part of the transaction.  A taken number means somebody else *)
(* opened it: complete theirs.                                             *)
Open(p) ==
    /\ At(p, "create")
    /\ LET n == proc[p].n
           new == CreateByokAttempt(proc[p].iv)
       IN \/ /\ att[n].status = "NONE"
             /\ att' = [att EXCEPT ![n] = new]
             /\ Become(p, [Idle EXCEPT !.pc = "charge", !.n = n,
                             !.a = [status |-> "PENDING", amount |-> new.amount]])
          \/ /\ att[n].status # "NONE"
             /\ UNCHANGED att
             /\ \E m \in Attempts :
                  /\ Listed(m)
                  /\ IF att[m].status = "PENDING" THEN Complete(p, m) ELSE End(p)
    /\ UNCHANGED <<inv, bank, excess>>

(* createCharge: the bank's call is idempotent by the reference ...        *)
CreateCharge(p) ==
    /\ At(p, "charge")
    /\ LET n == proc[p].n
       IN bank' = [bank EXCEPT ![n] =
             IF @.status = "none"
             THEN [@ EXCEPT !.status = "open", !.amount = proc[p].a.amount]
             ELSE @]
    /\ Become(p, [Idle EXCEPT !.pc = "setcharge", !.n = proc[p].n])
    /\ UNCHANGED <<inv, att, excess>>

(* ... and SetByokCharge records the artefact on whatever the row is now.  *)
SetByokCharge(p) ==
    /\ At(p, "setcharge")
    /\ att' = [att EXCEPT ![proc[p].n].payable = TRUE]
    /\ End(p)
    /\ UNCHANGED <<inv, bank, excess>>

----------------------------------------------------------------------------
(* Voiding the invoice.                                                    *)

VoidInvoice(p) ==
    /\ inv.status = "OPEN"
    /\ Start(p, "void", "withdraw", NoInvoice)

Withdraw(p) ==
    /\ At(p, "withdraw")
    /\ \E m \in 0..MaxAttempts :
         /\ Listed(m)
         /\ IF m > 0 /\ att[m].status = "PENDING"
            THEN Become(p, [proc[p] EXCEPT !.pc = "cancel", !.n = m, !.a = CopyOf(m)])
            ELSE Goto(p, "void")
    /\ UNCHANGED <<inv, att, bank, excess>>

(* cancelAt: a charge that is no longer open hands over to the re-query;   *)
(* one the bank never had counts as cancelled.                             *)
CancelCharge(p) ==
    /\ At(p, "cancel")
    /\ LET n == proc[p].n
       IN IF bank[n].status \in {"none", "open"}
          THEN /\ bank' = [bank EXCEPT ![n].status =
                     IF @ = "open" THEN "removed" ELSE @]
               /\ Become(p, [Only(p) EXCEPT !.pc = "fail", !.n = n])
          ELSE /\ Become(p, [Only(p) EXCEPT !.pc = "get", !.n = n, !.a = proc[p].a])
               /\ UNCHANGED bank
    /\ UNCHANGED <<inv, att, excess>>

(* The sweep that follows the amount forgets to ask for the payment.       *)
BadReturn(p, paid) ==
    \/ proc[p].op = "void" /\ ~paid /\ Become(p, [Only(p) EXCEPT !.pc = "void"])
    \/ (proc[p].op # "void" \/ paid) /\ End(p)

(* How a request goes on once the charge has been dealt with: a void not   *)
(* overtaken by a payment is written, and the sweep's Credited is followed *)
(* by a re-query with the attempt as the sweep's page had it.              *)
Return(p, paid) ==
    \/ /\ proc[p].op = "void" /\ ~paid
       /\ Become(p, [Only(p) EXCEPT !.pc = "void"])
    \/ /\ proc[p].op = "sweep"
       /\ Become(p, [Idle EXCEPT !.pc = "get", !.op = "confirm", !.n = proc[p].page.n,
             !.a = [status |-> "PENDING", amount |-> proc[p].page.amount]])
    \/ proc[p].op # "sweep" /\ (paid \/ proc[p].op # "void") /\ End(p)

(* The attempt fails, unless it is not pending any more (swallowed).       *)
FailAttempt(n) ==
    att' = [att EXCEPT ![n].status = IF @ = "PENDING" THEN "FAILED" ELSE @]

Cancelled(p) ==
    /\ At(p, "fail")
    /\ FailAttempt(proc[p].n)
    /\ Return(p, FALSE)
    /\ UNCHANGED <<inv, bank, excess>>

WriteVoid(p) ==
    /\ At(p, "void")
    /\ inv' = IF inv.status = "OPEN" THEN [inv EXCEPT !.status = "VOID"] ELSE inv
    /\ End(p)
    /\ UNCHANGED <<att, bank, excess>>

(* Dunning gives up on the invoice (the state machine's guarded edge).     *)
Abandon ==
    /\ "abandon" \in Ops
    /\ inv.status = "OPEN"
    /\ inv' = [inv EXCEPT !.status = "UNCOLLECTIBLE"]
    /\ UNCHANGED <<att, bank, excess, proc>>

----------------------------------------------------------------------------
(* Credit notes, and the charge following the amount due.                  *)

(* creditInvoice reads the invoice and sums its notes, and validates.      *)
CreditInvoice(p, amount) ==
    /\ Begins(p, "credit")
    /\ inv.status # "VOID"
    /\ inv.credited + amount <= Total
    /\ Become(p, [Idle EXCEPT !.pc = "issue", !.op = "credit", !.iv = inv, !.note = amount])
    /\ UNCHANGED <<inv, att, bank, excess>>

(* The charge follows a note that lost the race and was never written.     *)
BadIssueLost(p) ==
    /\ At(p, "issue")
    /\ inv' = IF inv = proc[p].iv THEN [inv EXCEPT !.credited = @ + proc[p].note] ELSE inv
    /\ Become(p, [proc[p] EXCEPT !.pc = "credited", !.iv.credited = @ + proc[p].note])
    /\ UNCHANGED <<att, bank, excess>>

(* guardInvoice: refused unless status and credited total are as read.     *)
Issue(p) ==
    /\ At(p, "issue")
    /\ IF inv = proc[p].iv
       THEN /\ inv' = [inv EXCEPT !.credited = @ + proc[p].note]
            /\ IF inv.status = "OPEN"
               THEN Become(p, [Only(p) EXCEPT !.pc = "fresh"]) ELSE End(p)
       ELSE /\ UNCHANGED inv
            /\ End(p)
    /\ UNCHANGED <<att, bank, excess>>

(* The handler reads the invoice again for Credited.                       *)
Fresh(p) ==
    /\ At(p, "fresh")
    /\ IF inv.status = "OPEN"
       THEN Become(p, [proc[p] EXCEPT !.pc = "credited", !.iv = inv])
       ELSE End(p)
    /\ UNCHANGED <<inv, att, bank, excess>>

Credited(p) ==
    /\ At(p, "credited")
    /\ LET due == Collectable(proc[p].iv)
       IN \E m \in 0..MaxAttempts :
            /\ Listed(m)
            /\ IF m > 0 /\ att[m].status = "PENDING" /\ att[m].amount # due
               THEN Become(p, [proc[p] EXCEPT !.pc = IF due = 0 THEN "cancel" ELSE "update",
                                              !.n = m, !.a = CopyOf(m)])
               ELSE Return(p, FALSE)
    /\ UNCHANGED <<inv, att, bank, excess>>

(* UpdateCharge: only an open charge takes a new amount; a reference the   *)
(* bank does not know is an error.                                         *)
UpdateCharge(p) ==
    /\ At(p, "update")
    /\ LET n == proc[p].n
       IN CASE bank[n].status = "open" ->
                 /\ bank' = [bank EXCEPT ![n].amount = Collectable(proc[p].iv)]
                 /\ Goto(p, "setamount")
            [] bank[n].status = "none" -> UNCHANGED bank /\ End(p)
            [] OTHER ->
                 /\ UNCHANGED bank
                 /\ Become(p, [Only(p) EXCEPT !.pc = "get", !.n = n, !.a = proc[p].a])
    /\ UNCHANGED <<inv, att, excess>>

(* SetByokAmount: refused once the attempt is not pending (an error).      *)
SetByokAmount(p) ==
    /\ At(p, "setamount")
    /\ IF att[proc[p].n].status = "PENDING"
       THEN /\ att' = [att EXCEPT ![proc[p].n].amount = Collectable(proc[p].iv)]
            /\ Return(p, FALSE)
       ELSE UNCHANGED att /\ End(p)
    /\ UNCHANGED <<inv, bank, excess>>

----------------------------------------------------------------------------
(* The re-query: one function, woken by the webhook, the daily audit, the  *)
(* statement sync, the console and the sweep.                              *)

(* Notify: a reference with no pointer is ignored, each other one wakes    *)
(* the re-query; the pointer is written with its attempt.                  *)
Notify(n) == att[n].status # "NONE"

Confirm(p, n) ==
    /\ Begins(p, "confirm")
    /\ Notify(n)
    /\ Become(p, [Idle EXCEPT !.pc = "get", !.op = "confirm", !.n = n, !.a = CopyOf(n)])
    /\ UNCHANGED <<inv, att, bank, excess>>

First(n) == bank[n].pays[1]

(* GetCharge and what its answer alone decides.  Payments are only ever    *)
(* added, so "seen" of them is what the answer listed.                     *)
GetCharge(p) ==
    /\ At(p, "get")
    /\ LET n == proc[p].n
           a == proc[p].a
           seen == Len(bank[n].pays)
       IN \/ bank[n].status = "none" /\ End(p)
          \/ /\ bank[n].status # "none" /\ seen = 0
             /\ IF bank[n].status \in {"expired", "removed"} /\ a.status = "PENDING"
                THEN Become(p, [Only(p) EXCEPT !.pc = "expire", !.n = n])
                ELSE Return(p, FALSE)
          \/ /\ seen > 0
             /\ IF a.status # "PENDING" /\ First(n).amt < a.amount
                THEN End(p)  \* ErrAmountMismatch
                ELSE Become(p, [proc[p] EXCEPT !.seen = seen, !.pc =
                        CASE a.status = "PENDING"   -> "owed"
                          [] a.status = "SUCCEEDED" -> "invoice"
                          [] OTHER                  -> "excess"])
    /\ UNCHANGED <<inv, att, bank, excess>>

Expire(p) ==
    /\ At(p, "expire")
    /\ FailAttempt(proc[p].n)
    /\ Return(p, FALSE)
    /\ UNCHANGED <<inv, bank, excess>>

(* A credit note the bank never applied lowers what the attempt asks for;  *)
(* a payment below the amount then left is never settled.                  *)
Owed(p) ==
    /\ At(p, "owed")
    /\ LET first == First(proc[p].n).amt
           asked == proc[p].a.amount
           owed  == Collectable(inv)
       IN IF inv.status = "OPEN" /\ 0 < owed /\ owed < asked /\ first >= owed
          THEN Become(p, [proc[p] EXCEPT !.pc = "lower", !.iv = inv])
          ELSE IF first < asked THEN End(p) ELSE Goto(p, "settle")
    /\ UNCHANGED <<inv, att, bank, excess>>

Lower(p) ==
    /\ At(p, "lower")
    /\ LET owed == Collectable(proc[p].iv)
       IN IF att[proc[p].n].status = "PENDING"
          THEN /\ att' = [att EXCEPT ![proc[p].n].amount = owed]
               /\ Become(p, [proc[p] EXCEPT !.pc = "settle", !.a.amount = owed, !.iv = NoInvoice])
          ELSE UNCHANGED att /\ End(p)
    /\ UNCHANGED <<inv, bank, excess>>

(* SettleAttempt: one caller moves PENDING to SUCCEEDED; one that lost to  *)
(* another settlement goes on with the row that one wrote.                 *)
SettleAttempt(p) ==
    /\ At(p, "settle")
    /\ LET n == proc[p].n
           late == Smaller(First(n).late, First(n).amt - proc[p].a.amount)
       IN CASE att[n].status = "PENDING" ->
                 /\ att' = [att EXCEPT ![n].status = "SUCCEEDED", ![n].late = late]
                 /\ Become(p, [proc[p] EXCEPT !.pc = "invoice", !.a.status = "SUCCEEDED"])
            [] att[n].status = "SUCCEEDED" ->
                 /\ UNCHANGED att
                 /\ Become(p, [proc[p] EXCEPT !.pc = "invoice", !.a = CopyOf(n)])
            [] OTHER -> UNCHANGED att /\ End(p)
    /\ UNCHANGED <<inv, bank, excess>>

(* settleInvoice: an invoice already PAID lets the rest be finished; the   *)
(* state machine has no edge from VOID (an error).                         *)
SettleInvoice(p) ==
    /\ At(p, "invoice")
    /\ IF inv.status = "VOID"
       THEN UNCHANGED inv /\ End(p)
       ELSE /\ inv' = [inv EXCEPT !.status = "PAID"]
            /\ Goto(p, "excess")
    /\ UNCHANGED <<att, bank, excess>>

BadExcessTwice(n, a, seen) ==
    {[n |-> n, k |-> k, tag |-> "whole", amt |-> bank[n].pays[k].amt] : k \in 1..seen}

(* The excess rows a re-query of attempt n owes, given the copy a it acted *)
(* on and how many payments the bank listed.                               *)
ExcessOf(n, a, seen) ==
    LET from == IF a.status = "FAILED" THEN 1 ELSE 2
        over == First(n).amt - (a.amount + First(n).late)
    IN {[n |-> n, k |-> k, tag |-> "whole", amt |-> bank[n].pays[k].amt] : k \in from..seen}
       \cup (IF a.status # "FAILED" /\ over > 0
             THEN {[n |-> n, k |-> 1, tag |-> "over", amt |-> over]} ELSE {})

(* Each row is a write of its own, create-only by payment, whose failure   *)
(* is logged and skipped.                                                  *)
RecordExcess(p) ==
    /\ At(p, "excess")
    /\ \E written \in SUBSET ExcessOf(proc[p].n, proc[p].a, proc[p].seen) :
         excess' = excess \cup
            {r \in written : \A e \in excess : <<e.n, e.k, e.tag>> # <<r.n, r.k, r.tag>>}
    /\ Return(p, proc[p].a.status = "SUCCEEDED")
    /\ UNCHANGED <<inv, att, bank>>

----------------------------------------------------------------------------
(* The hourly sweep of a pending attempt (sweepOne).                       *)

Sweep(p, n) ==
    /\ Begins(p, "sweep")
    /\ att[n].status = "PENDING"
    /\ Become(p, [Idle EXCEPT !.pc = IF att[n].payable THEN "sweepold" ELSE "sweepnew",
          !.op = "sweep", !.n = n, !.a = CopyOf(n), !.page = [n |-> n, amount |-> att[n].amount]])
    /\ UNCHANGED <<inv, att, bank, excess>>

SweepNew(p) ==
    /\ At(p, "sweepnew")
    /\ IF inv.status = "OPEN"
       THEN Become(p, [Idle EXCEPT !.pc = "charge", !.n = proc[p].n, !.a = proc[p].a])
       ELSE End(p)
    /\ UNCHANGED <<inv, att, bank, excess>>

SweepOld(p) ==
    /\ At(p, "sweepold")
    /\ IF inv.status = "OPEN" /\ Collectable(inv) # proc[p].a.amount
       THEN Become(p, [Only(p) EXCEPT !.pc = "credited", !.iv = inv])
       ELSE Return(p, FALSE)
    /\ UNCHANGED <<inv, att, bank, excess>>

----------------------------------------------------------------------------
(* The world outside: a payer with the Pix code, the charge's validity,    *)
(* and everything that makes a request stop where it is (a crash, a bank   *)
(* or database call that fails, a gate that refuses).                      *)

BankPay(n, s) ==
    /\ att[n].payable
    /\ bank[n].status \in {"open", "concluded"}
    /\ Len(bank[n].pays) < MaxPayments
    /\ bank' = [bank EXCEPT ![n].status = "concluded", ![n].pays =
          Append(@, [amt |-> bank[n].amount + s.late + s.over, late |-> s.late])]
    /\ UNCHANGED <<inv, att, excess, proc>>

BankExpire(n) ==
    /\ bank[n].status = "open"
    /\ bank' = [bank EXCEPT ![n].status = "expired"]
    /\ UNCHANGED <<inv, att, excess, proc>>

Fail(p) ==
    /\ ~At(p, "idle")
    /\ End(p)
    /\ UNCHANGED <<inv, att, bank, excess>>

----------------------------------------------------------------------------
Step(p) ==
    \/ Pay(p) \/ NewAttempt(p) \/ Latest(p) \/ Open(p) \/ CreateCharge(p) \/ SetByokCharge(p)
    \/ VoidInvoice(p) \/ Withdraw(p) \/ CancelCharge(p) \/ Cancelled(p) \/ WriteVoid(p)
    \/ Issue(p) \/ Fresh(p) \/ Credited(p) \/ UpdateCharge(p) \/ SetByokAmount(p)
    \/ GetCharge(p) \/ Expire(p) \/ Owed(p) \/ Lower(p)
    \/ SettleAttempt(p) \/ SettleInvoice(p) \/ RecordExcess(p)
    \/ SweepNew(p) \/ SweepOld(p) \/ Fail(p)
    \/ \E amount \in Notes : CreditInvoice(p, amount)
    \/ \E n \in Attempts : Confirm(p, n) \/ Sweep(p, n)

Next ==
    \/ \E p \in Procs : Step(p)
    \/ \E n \in Attempts : BankExpire(n) \/ \E s \in Surcharges : BankPay(n, s)
    \/ Abandon

Spec == Init /\ [][Next]_vars

(* The job runs every hour over every pending attempt and never hangs in   *)
(* the middle of one, and no call of it fails for ever: a step it keeps    *)
(* coming back to goes through in the end.  Nothing is assumed of payers,  *)
(* of requests or of the webhook.                                          *)
Working(p) == ~At(p, "idle") /\ Step(p)

Fairness ==
    \A p \in Jobs :
        /\ \A n \in Attempts : SF_vars(Sweep(p, n))
        /\ WF_vars(Working(p))
        /\ SF_vars(SweepOld(p)) /\ SF_vars(Credited(p)) /\ SF_vars(UpdateCharge(p))
        /\ SF_vars(CancelCharge(p)) /\ SF_vars(SetByokAmount(p))
        /\ SF_vars(GetCharge(p)) /\ SF_vars(Owed(p)) /\ SF_vars(Lower(p))
        /\ SF_vars(SettleAttempt(p))

LiveSpec == Spec /\ Fairness

----------------------------------------------------------------------------
(* Types of the rows, of the bank's charges and of what a request carries. *)
TypeOK ==
    /\ inv \in Invoice
    /\ att \in [Attempts -> Attempt]
    /\ bank \in [Attempts -> Charge]
    /\ excess \subseteq Excess
    /\ proc \in [Procs -> Process]

(* Two presses, a checkout and a finalization, or a new Pix racing any of  *)
(* them never leave two attempts of one invoice alive: every attempt but   *)
(* the last one has failed, so at most one can be pending or settled.      *)
OneLiveAttempt ==
    \A m, n \in Attempts :
        m < n /\ att[n].status # "NONE" => att[m].status = "FAILED"

(* The invoice is PAID only by money the bank holds: some attempt settled  *)
(* and its charge has a payment.                                           *)
PaidByPayment ==
    inv.status = "PAID" =>
        \E n \in Attempts : att[n].status = "SUCCEEDED" /\ bank[n].pays # <<>>

(* Money is counted once, however many wake-ups see it: the payment that   *)
(* settles an attempt is never also recorded as a whole excess payment,    *)
(* and a payment never has two excess rows of one kind.                    *)
CountedOnce ==
    /\ \A e \in excess : e.tag = "whole" /\ e.k = 1 => att[e.n].status = "FAILED"
    /\ \A e, f \in excess : <<e.n, e.k, e.tag>> = <<f.n, f.k, f.tag>> => e = f

(* Concurrent credit notes never credit more than the invoice's total.     *)
CreditWithinTotal == inv.credited <= Total

(* However credit notes, retries and half-done updates interleave, a live  *)
(* charge never asks the payer for less than the invoice still collects.   *)
NeverUndercharged ==
    \A n \in Attempts :
        bank[n].status = "open" => bank[n].amount >= Collectable(inv)

(* A settled attempt was paid in full: the payment that settled it covers  *)
(* the amount on its row and the late charges taken from it.               *)
SettledInFull ==
    \A n \in Attempts :
        att[n].status = "SUCCEEDED" => First(n).amt >= att[n].amount + att[n].late

(* What the excess row of a settling payment gives back is exactly what    *)
(* was paid above the amount on the attempt's row and the bank's late      *)
(* charges.                                                                *)
ExcessExact ==
    \A e \in excess : e.tag = "over" =>
        e.amt + att[e.n].amount + First(e.n).late = First(e.n).amt

(* Whatever races, nothing settles for less than it must: what the payment *)
(* that settled an attempt brought, less its late charges and less what    *)
(* was given back of it, and the invoice's notes together cover the total. *)
CoversTotal ==
    /\ \A n \in Attempts :
        att[n].status = "SUCCEEDED" => First(n).amt + inv.credited >= Total + att[n].late
    /\ \A e \in excess :
        e.tag = "over" => First(e.n).amt + inv.credited >= Total + First(e.n).late + e.amt

(* Money that reached the bank does not wait for ever: a pending attempt   *)
(* whose charge was paid is settled or failed by the sweep, although any   *)
(* request may die and the bank may be down in between.  The exception is  *)
(* an invoice credited in full, or given up on by dunning, after its       *)
(* charge was lowered and before its row was: confirming finds the payment *)
(* below the amount on the row, and only alerts.                           *)
PaidChargeConcludes ==
    \A n \in Attempts :
        (att[n].status = "PENDING" /\ bank[n].pays # <<>>)
            ~> (att[n].status # "PENDING" \/ Collectable(inv) = 0 \/ inv.status = "UNCOLLECTIBLE")

(* A settled document stays settled: no stale void, dunning or failure     *)
(* write takes a paid invoice or an ended attempt back, and what was       *)
(* credited is never taken back.                                           *)
EndsAreFinal ==
    [][ /\ inv.status \in {"PAID", "VOID"} => inv'.status = inv.status
        /\ inv'.credited >= inv.credited
        /\ \A n \in Attempts : att[n].status \in {"SUCCEEDED", "FAILED"} =>
               att'[n].status = att[n].status ]_vars

=============================================================================
