------------------------------- MODULE Bills --------------------------------
(***************************************************************************)
(* One bill of a space: what people, the daily job, the posting of an      *)
(* invoice and the classification of a bank line do to it.  Every request  *)
(* reads the row first and then writes it together with its postings, in   *)
(* one database transaction conditioned on what was read.                  *)
(*                                                                         *)
(* A bill is written here as a payable: a transaction is a function from   *)
(* accounts to signed amounts, a debit positive.  A receivable is the same *)
(* with every sign turned.                                                 *)
(***************************************************************************)
EXTENDS Integers, Sequences, FiniteSets, Functions

CONSTANTS
    ManualAccts,   \* cash accounts kept by hand
    SyncedAccts,   \* cash accounts whose statement is the bank's
    Categories,    \* active expense categories
    BillClients,   \* requests in flight at a time, beside the job's
    NewBills,      \* the bills asked for: amt, cat, acct, due and auto
    BillEdits,     \* the edits asked for: some of those fields
    SettleRequests,\* paid (0 for "what is owed") and diff, a category or NoCat
    CreditNotes,   \* note -> amount, the credit notes against the invoice
    BillOrigins,   \* manual, billing_invoice, card_statement
    BillToday,
    MaxBillTxs     \* the longest transaction list

NoCat == "no-category"
Owed  == "sys-payables"
Card  == "card"
BillJob == "job"

Paying       == ManualAccts \cup SyncedAccts
BillAccounts == {Owed, Card} \cup Categories \cup Paying

(* What the routes let through: the fields of a new bill, the fields an    *)
(* edit names, and a settlement's amount and category, if it has them.     *)
PositiveNat == Nat \ {0}

ValidBill(b) ==
    /\ b.amt \in PositiveNat /\ b.due \in PositiveNat /\ b.auto \in BOOLEAN
    /\ b.acct \in Paying /\ b.cat \in Categories

ValidEdit(e) ==
    /\ DOMAIN e \subseteq {"amt", "cat", "acct", "due", "auto"}
    /\ "amt" \in DOMAIN e => e.amt \in PositiveNat
    /\ "cat" \in DOMAIN e => e.cat \in Categories
    /\ "acct" \in DOMAIN e => e.acct \in Paying
    /\ "due" \in DOMAIN e => e.due \in PositiveNat
    /\ "auto" \in DOMAIN e => e.auto \in BOOLEAN

ValidSettle(r) == r.paid \in Nat /\ r.diff \in Categories \cup {NoCat}

ASSUME BillsAssumption ==
    /\ BillToday \in Nat /\ MaxBillTxs \in Nat
    /\ IsFiniteSet(Paying) /\ IsFiniteSet(Categories)
    /\ Paying \cap Categories = {} /\ {Owed, Card} \cap (Paying \cup Categories) = {} /\ NoCat \notin BillAccounts
    /\ \A b \in NewBills : ValidBill(b)
    /\ \A e \in BillEdits : ValidEdit(e)
    /\ \A r \in SettleRequests : ValidSettle(r)
    /\ \A n \in DOMAIN CreditNotes : CreditNotes[n] \in Nat

VARIABLES
    origin,      \* where the bill comes from
    bill,        \* the BILL# row, or NoBill
    noted,       \* the credit notes posted so far, with their legs
    undone,      \* places in bill.txs that have a REVERSAL# marker
    cardClosed,  \* the card of a statement bill was archived
    ask          \* client -> what it read and is about to write

billVars == <<origin, bill, noted, undone, cardClosed, ask>>

NoSuchBill == [status |-> "none"]
Idle   == [op |-> "none"]
Actors == BillClients \cup {BillJob}

BillsInit ==
    /\ origin \in BillOrigins
    /\ bill = NoSuchBill
    /\ noted = <<>>
    /\ undone = {}
    /\ cardClosed = FALSE
    /\ ask = [c \in Actors |-> Idle]

----------------------------------------------------------------------------
(* The posting rules.                                                      *)

Leg(x, u)  == [a \in BillAccounts |-> IF a = x THEN u ELSE 0]
Plus(f, g) == [a \in BillAccounts |-> f[a] + g[a]]
Minus(f)   == [a \in BillAccounts |-> -f[a]]

(* RecognizeBill: the expense, and what is owed for it.                    *)
Recognition(b) == Plus(Leg(b.cat, b.amt), Leg(Owed, -b.amt))

(* SettleBill: what is owed is cleared by the bill's own amount (a         *)
(* statement clears its card), cash moves by what was paid, and the        *)
(* difference needs a category.                                            *)
CanPay(b, paid, diff) == paid > 0 /\ (paid # b.amt => diff # NoCat)

Settlement(b, paid, diff, acct) ==
    LET cleared == IF origin = "card_statement" THEN Card ELSE Owed
    IN  Plus(Plus(Leg(cleared, b.amt), Leg(acct, -paid)), Leg(diff, paid - b.amt))

(* CreditBill: cash and expense come back; what is owed is untouched.      *)
CreditLegs(b, x) == Plus(Leg(b.acct, x), Leg(b.cat, -x))

(* AdjustBill: the new recognition less the old, as one transaction.       *)
Adjustment(was, next) == Plus(Recognition(next), Minus(Recognition(was)))

Tx(kind, legs) == [kind |-> kind, legs |-> legs]

----------------------------------------------------------------------------
(* The row.                                                                *)

(* sparseKeys: a forecast bill is on the open list under its due date and, *)
(* when it settles itself, on the job's schedule; 0 is no key.             *)
OpenKey(r, status)     == IF status = "forecast" THEN r.due ELSE 0
ScheduleKey(r, status) == IF status = "forecast" /\ r.auto THEN r.due ELSE 0

NewBillItem(r, status, txs) ==
    [status |-> status, amt |-> r.amt, cat |-> r.cat, acct |-> r.acct, due |-> r.due, auto |-> r.auto,
     open |-> OpenKey(r, status), sched |-> ScheduleKey(r, status), txs |-> txs, credited |-> 0]

BadForecastGuard(b) ==
    /\ bill.status = "forecast"
    /\ bill.acct = b.acct /\ bill.due = b.due

(* forecastGuard: still a forecast, with the transaction list, the account *)
(* and the due date it had when read.                                      *)
ForecastGuard(b) ==
    /\ bill.status = "forecast"
    /\ Len(bill.txs) = Len(b.txs)
    /\ bill.acct = b.acct /\ bill.due = b.due

AskIs(c, op) == ask[c].op = op
Ask(c, r)    == ask' = [ask EXCEPT ![c] = r]
Done(c)      == Ask(c, Idle)
Exists       == bill # NoSuchBill
Room         == Len(bill.txs) < MaxBillTxs

Reads(c, r)  == Ask(c, r) /\ UNCHANGED <<origin, bill, noted, undone, cardClosed>>

(* What every write does with the request that made it: it is over, and    *)
(* when its condition failed the row and the books are as they were.       *)
Writes(c, cond, row) ==
    /\ Done(c)
    /\ bill' = IF cond THEN row ELSE bill
    /\ UNCHANGED <<origin, noted, cardClosed>>

----------------------------------------------------------------------------
(* Where bills come from.                                                  *)

(* Create: the recognition and the row, put if absent under the id derived *)
(* from the idempotency key; a retry finds the bill and answers it.        *)
Create(r) ==
    /\ origin = "manual" /\ ~Exists
    /\ bill' = NewBillItem(r, "forecast", <<Tx("recognition", Recognition(r))>>)
    /\ UNCHANGED <<origin, noted, undone, cardClosed, ask>>

(* RecordInvoice: recognised and settled in one write, under the id        *)
(* derived from the invoice.                                               *)
RecordInvoice(r) ==
    /\ origin = "billing_invoice" /\ ~Exists
    /\ bill' = NewBillItem(r, "paid", <<Tx("recognition", Recognition(r)),
                                        Tx("settlement", Settlement(r, r.amt, NoCat, r.acct))>>)
    /\ UNCHANGED <<origin, noted, undone, cardClosed, ask>>

(* statementBillItem: the row alone; the purchases are recognised already. *)
CloseStatement(r) ==
    /\ origin = "card_statement" /\ ~Exists
    /\ bill' = NewBillItem(r, "forecast", <<>>)
    /\ UNCHANGED <<origin, noted, undone, cardClosed, ask>>

StatementCardArchived ==
    /\ origin = "card_statement" /\ ~cardClosed
    /\ cardClosed' = TRUE
    /\ UNCHANGED <<origin, bill, noted, undone, ask>>

----------------------------------------------------------------------------
(* Settling.                                                               *)

(* The route: an amount without a category must be what is owed.           *)
GapIsNamed(r) == r.paid # 0 /\ r.diff = NoCat => r.paid = bill.amt

(* The route and the service read the bill for the amount: left out, what  *)
(* is owed is paid.                                                        *)
AskSettle(c, r) ==
    /\ c # BillJob /\ AskIs(c, "none") /\ Exists
    /\ GapIsNamed(r)
    /\ Reads(c, [op |-> "settle-check", diff |-> r.diff,
                 paid |-> IF r.paid = 0 THEN bill.amt ELSE r.paid])

(* DueForAutoSettle, AutoSettle: whatever is on the schedule by today, for *)
(* the amount it has now.                                                  *)
JobFindsDue ==
    /\ AskIs(BillJob, "none") /\ Exists
    /\ bill.sched # 0 /\ bill.sched <= BillToday
    /\ Reads(BillJob, [op |-> "settle-check", diff |-> NoCat, paid |-> bill.amt])

(* Settle: a first read refuses a synced account...                        *)
SettleChecks(c) ==
    /\ AskIs(c, "settle-check")
    /\ Reads(c, IF bill.acct \in SyncedAccts THEN Idle ELSE [ask[c] EXCEPT !.op = "settle-plan"])

(* ...and a second one makes the plan, with the category of a difference.  *)
SettlePlans(c) ==
    /\ AskIs(c, "settle-plan")
    /\ Reads(c, IF bill.status = "forecast" /\ CanPay(bill, ask[c].paid, ask[c].diff)
                THEN [op |-> "settle", read |-> bill, acct |-> bill.acct,
                      tx |-> Tx("settlement", Settlement(bill, ask[c].paid, ask[c].diff, bill.acct))]
                ELSE Idle)

(* planSettleInto: a bank line of exactly the amount settles the bill in   *)
(* the line's own account.                                                 *)
PlanSettleInto(c, acct, paid) ==
    /\ c # BillJob /\ AskIs(c, "none") /\ Exists
    /\ bill.status = "forecast" /\ CanPay(bill, paid, NoCat)
    /\ Reads(c, [op |-> "settle", read |-> bill, acct |-> acct,
                 tx |-> Tx("settlement", Settlement(bill, paid, NoCat, acct))])

PaidBill(b, tx, acct) ==
    [b EXCEPT !.status = "paid", !.acct = acct, !.txs = Append(@, tx), !.open = 0, !.sched = 0]

Settle(c) ==
    /\ AskIs(c, "settle")
    /\ Room
    /\ Writes(c, ForecastGuard(ask[c].read), PaidBill(bill, ask[c].tx, ask[c].acct))
    /\ UNCHANGED undone

----------------------------------------------------------------------------
(* Cancelling and restoring.                                               *)

(* CanCancel: a forecast; of a card statement, only once the card is gone. *)
CanCancel(b) == b.status = "forecast" /\ (origin = "card_statement" => cardClosed)

ReadCancel(c) ==
    /\ c # BillJob /\ AskIs(c, "none") /\ Exists /\ CanCancel(bill)
    /\ Reads(c, [op |-> "cancel", read |-> bill])

(* cancelItems: the recognition as it stands is taken back; a statement    *)
(* was never recognised.                                                   *)
CanceledBill(b, read) ==
    [b EXCEPT !.status = "canceled", !.open = 0, !.sched = 0,
              !.txs = IF origin = "card_statement" THEN @
                      ELSE Append(@, Tx("adjustment", Minus(Recognition(read))))]

Cancel(c) ==
    /\ AskIs(c, "cancel")
    /\ Room
    /\ Writes(c, ForecastGuard(ask[c].read), CanceledBill(bill, ask[c].read))
    /\ UNCHANGED undone

(* planReverse: the last transaction, unless it is itself a reversal.      *)
Reversible(b) == Len(b.txs) > 0 /\ b.txs[Len(b.txs)].kind # "reversal"
Reversal(b)   == Tx("reversal", Minus(b.txs[Len(b.txs)].legs))

(* Restored and reopened bills are open again and never settle themselves. *)
Reopened(b, tx) ==
    [b EXCEPT !.status = "forecast", !.auto = FALSE, !.open = b.due, !.txs = Append(@, tx)]

ReadRestore(c) ==
    /\ c # BillJob /\ AskIs(c, "none") /\ Exists
    /\ bill.status = "canceled" /\ Len(bill.txs) >= 2 /\ Reversible(bill)
    /\ Reads(c, [op |-> "restore", read |-> bill])

(* Unsettle: not when the settlement moved a synced account's cash.        *)
ReadUnsettle(c) ==
    /\ c # BillJob /\ AskIs(c, "none") /\ Exists
    /\ bill.status = "paid" /\ Reversible(bill)
    /\ \A a \in SyncedAccts : bill.txs[Len(bill.txs)].legs[a] = 0
    /\ Reads(c, [op |-> "unsettle", read |-> bill])

(* Both: conditioned on the status and on the transaction list's length,   *)
(* and on the reversed transaction having no reversal yet.                 *)
ReverseLast(c, op, status) ==
    /\ AskIs(c, op)
    /\ Room
    /\ LET read == ask[c].read
           cond == /\ bill.status = status /\ Len(bill.txs) = Len(read.txs)
                   /\ Len(read.txs) \notin undone
       IN  /\ Writes(c, cond, Reopened(bill, Reversal(read)))
           /\ undone' = IF cond THEN undone \cup {Len(read.txs)} ELSE undone

RestoreCancelled(c) == ReverseLast(c, "restore", "canceled")
Unsettle(c)         == ReverseLast(c, "unsettle", "paid")

----------------------------------------------------------------------------
(* Editing.                                                                *)

(* The amount and the category of a statement come from its purchases.     *)
CanEdit(b, e) ==
    /\ b.status = "forecast"
    /\ origin = "card_statement" => DOMAIN e \cap {"amt", "cat"} = {}
    /\ origin = "card_statement" /\ "acct" \in DOMAIN e => e.acct \in ManualAccts

Revised(b, e)      == [f \in DOMAIN b |-> IF f \in DOMAIN e THEN e[f] ELSE b[f]]
Changed(b, next) == {f \in {"amt", "cat", "acct", "due", "auto"} : next[f] # b[f]}

ReadEdit(c, e) ==
    /\ c # BillJob /\ AskIs(c, "none") /\ Exists
    /\ CanEdit(bill, e)
    /\ Changed(bill, Revised(bill, e)) # {}
    /\ Reads(c, [op |-> "edit", read |-> bill, next |-> Revised(bill, e)])

(* Edit: the fields that differ from what was read are set, those of a     *)
(* changed amount or category with one adjustment; the keys move only      *)
(* when the edit itself changed what they are made of.                     *)
EditedBill(b, read, next) ==
    LET ch == Changed(read, next)
    IN  [f \in DOMAIN b |->
            CASE f \in ch \/ (f \in {"amt", "cat"} /\ ch \cap {"amt", "cat"} # {}) -> next[f]
              [] f = "txs" /\ ch \cap {"amt", "cat"} # {} ->
                    Append(b.txs, Tx("adjustment", Adjustment(read, next)))
              [] f = "open" /\ "due" \in ch -> next.due
              [] f = "sched" /\ next.auto /\ ch \cap {"auto", "due"} # {} -> next.due
              [] f = "sched" /\ ~next.auto /\ read.auto -> 0
              [] OTHER -> b[f]]

Edit(c) ==
    /\ AskIs(c, "edit")
    /\ Room
    /\ Writes(c, ForecastGuard(ask[c].read), EditedBill(bill, ask[c].read, ask[c].next))
    /\ UNCHANGED undone

----------------------------------------------------------------------------
(* Credit notes.                                                           *)

(* RecordInvoiceCredit: of an invoice's bill that is paid, up to what is   *)
(* not credited yet; a note whose header exists is recorded already.       *)
ReadCredit(c, note) ==
    /\ c # BillJob /\ AskIs(c, "none") /\ Exists
    /\ origin = "billing_invoice" /\ bill.status = "paid"
    /\ CreditNotes[note] <= bill.amt - bill.credited
    /\ Reads(c, [op |-> "credit", read |-> bill, note |-> note])

Recorded(note) == \E i \in 1..Len(noted) : noted[i].note = note

(* One write, on the bill still paid and credited as read: the retry loop  *)
(* of a lost race is another request.                                      *)
RecordInvoiceCredit(c) ==
    LET read == ask[c].read
        x    == CreditNotes[ask[c].note]
        cond == /\ ~Recorded(ask[c].note)
                /\ bill.status = "paid" /\ bill.credited = read.credited
    IN  /\ AskIs(c, "credit")
        /\ Done(c)
        /\ bill' = IF cond THEN [bill EXCEPT !.credited = read.credited + x] ELSE bill
        /\ noted' = IF cond THEN Append(noted, [note |-> ask[c].note, legs |-> CreditLegs(read, x)])
                    ELSE noted
        /\ UNCHANGED <<origin, undone, cardClosed>>

----------------------------------------------------------------------------
BillRequest(c) ==
    \/ \E r \in SettleRequests : AskSettle(c, r)
    \/ \E a \in SyncedAccts, b \in NewBills : PlanSettleInto(c, a, b.amt)
    \/ ReadCancel(c) \/ ReadRestore(c) \/ ReadUnsettle(c)
    \/ \E e \in BillEdits : ReadEdit(c, e)
    \/ \E n \in DOMAIN CreditNotes : ReadCredit(c, n)

BillStep(c) ==
    \/ SettleChecks(c) \/ SettlePlans(c) \/ Settle(c)
    \/ Cancel(c) \/ RestoreCancelled(c) \/ Unsettle(c)
    \/ Edit(c) \/ RecordInvoiceCredit(c)

BillsNext ==
    \/ \E r \in NewBills : Create(r) \/ RecordInvoice(r) \/ CloseStatement(r)
    \/ StatementCardArchived \/ JobFindsDue
    \/ \E c \in Actors : BillRequest(c) \/ BillStep(c)

----------------------------------------------------------------------------
(* What the bill's own transactions and its credit notes add up to.        *)
BookedOn(txs, a) == SumFunction([i \in DOMAIN txs |-> txs[i].legs[a]])
BillBooks(a)     == BookedOn(bill.txs, a) + BookedOn(noted, a)

(* The books say what the bill says, whatever edits, settlements,          *)
(* cancellations, reopenings and credit notes raced: what is owed stands   *)
(* exactly while the bill is a forecast, the expense until it is canceled  *)
(* less what was credited, and the paying account moved, for something     *)
(* not yet credited, only if the bill is paid.                             *)
BooksFollowBills ==
    Exists /\ origin # "card_statement" =>
        LET expense == SumFunction([a \in Categories |-> BillBooks(a)])
            cash    == SumFunction([a \in Paying |-> BillBooks(a)])
        IN  /\ BillBooks(Owed) = (IF bill.status = "forecast" THEN -bill.amt ELSE 0)
            /\ bill.status = "canceled" => expense = -bill.credited
            /\ bill.status = "forecast" => expense = bill.amt - bill.credited
            /\ cash = -(expense + BillBooks(Owed))
            /\ bill.status # "paid" => cash = bill.credited
=============================================================================
