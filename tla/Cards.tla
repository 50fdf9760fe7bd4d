------------------------------- MODULE Cards --------------------------------
(***************************************************************************)
(* One credit card: its purchases in installments, its credits, and the    *)
(* statements that close into bills, by the job or by hand, and reopen.    *)
(* Every request reads first and writes later, in one transaction whose    *)
(* conditions are the card's open month and version and the purchase's     *)
(* revision.                                                               *)
(***************************************************************************)
EXTENDS Integers, FiniteSets, Functions

CONSTANTS
    Purchases,       \* purchase -> [total, n, day]: what is bought, in how many installments, when
    Credits,         \* credit -> its amount
    CardUsers,       \* the requests and the job
    ClosingDays,     \* the closing days the card may be given
    MonthDays,       \* days of a month
    MaxInstallments, \* finance.MaxInstallments
    LastMonth,       \* bounds the calendar and the statements
    MaxVersion       \* bounds the writes on the card

Free == "free"
CardMonths == 0..(LastMonth + MaxInstallments)
Buys    == DOMAIN Purchases

ASSUME CardsAssumption ==
    /\ MonthDays \in Nat \ {0} /\ ClosingDays \subseteq 1..MonthDays
    /\ LastMonth \in Nat /\ MaxInstallments \in Nat \ {0}
    /\ \A p \in Buys : /\ Purchases[p].n \in 1..MaxInstallments /\ Purchases[p].day \in Nat \ {0}
                       /\ Purchases[p].total \in Nat /\ Purchases[p].total >= Purchases[p].n
    /\ \A c \in DOMAIN Credits : Credits[c] \in Nat
    /\ "carry" \notin Buys \cup DOMAIN Credits /\ Buys \cap DOMAIN Credits = {}   \* ids of different kinds

VARIABLES
    date,        \* today, in days
    row,         \* the CARD row: open month, version, closing day; and whether its account is archived
    bought,      \* purchase -> its row, or NotBought
    item,        \* <<month, owner, tag>> -> amount of the statement's item
    closedAs,    \* month -> the STATEMENT row: total and bill, or Open
    cardBill,    \* bill id, <<month, version>> -> [amount, status]
    readvanced,  \* purchases advanced while an earlier advance was on another statement
    posted,      \* what the purchases, refunds and credits posted on the card's account
    at           \* request -> where it is and what it read

cardVars == <<date, row, bought, item, closedAs, cardBill, readvanced, posted, at>>

NotBought == [there |-> FALSE]
Open      == [closed |-> FALSE]
NoBill    == <<>>
Adv       == 0          \* the tags of items that are no installment
Back      == -1
Credit    == -2

MonthOf(d)        == (d - 1) \div MonthDays
ClosingDate(m, c) == m * MonthDays + c
Begun(m, c)       == date > ClosingDate(m - 1, c)

Over(g, f)     == [k \in DOMAIN g \cup DOMAIN f |-> IF k \in DOMAIN g THEN g[k] ELSE f[k]]
Put(f, k, v)   == Over([j \in {k} |-> v], f)
Drop(f, ks)    == [k \in DOMAIN f \ ks |-> f[k]]
Total(ks)      == SumFunctionOnSet(item, ks)
ItemsOf(m)     == {k \in DOMAIN item : k[1] = m}
OfPurchase(p)  == {k \in DOMAIN item : k[2] = p}
Carry(m)       == <<m + 1, "carry", m>>
SpendLines     == {k \in DOMAIN item : k[2] # "carry"}

CardsInit ==
    /\ date = 1
    /\ \E c \in ClosingDays : row = [open |-> 0, version |-> 0, closing |-> c, archived |-> FALSE]
    /\ bought = [p \in Buys |-> NotBought]
    /\ item = [k \in {} |-> 0]
    /\ closedAs = [m \in CardMonths |-> Open]
    /\ cardBill = [b \in {} |-> 0]
    /\ readvanced = {} /\ posted = 0
    /\ at = [u \in CardUsers |-> [op |-> Free]]

Is(u, op)   == at[u].op = op
Holds(u, r) == at' = [at EXCEPT ![u] = r]
Leaves(u)   == Holds(u, [op |-> Free])
Bounded     == row.version < MaxVersion

----------------------------------------------------------------------------
(* Installments.                                                           *)

(* SplitInstallments: the remainder goes on the first.                     *)
SplitInstallments(total, n) ==
    [i \in 1..n |-> (total \div n) + (IF i = 1 THEN total % n ELSE 0)]

StatementFor(day, closing) ==
    MonthOf(day) + (IF day > ClosingDate(MonthOf(day), closing) THEN 1 ELSE 0)

(* PlaceInstallments: a plan never starts before the open statement.       *)
PlaceInstallments(p, closing, open) ==
    LET first == StatementFor(Purchases[p].day, closing)
        start == IF first < open THEN open ELSE first
    IN  [i \in 1..Purchases[p].n |-> start + i - 1]

PartsOf(p)      == SplitInstallments(Purchases[p].total, Purchases[p].n)
SumParts(p, is) == SumFunctionOnSet(PartsOf(p), is)
BadTagOf(r, i) == i
TagOf(r, i)  == IF i \in r.advanced THEN Adv ELSE i

(* The rows of a plan's installments.                                      *)
PlanRows(p, r, is) == {<<r.plan[i], p, TagOf(r, i)>> : i \in is}

(* RefundPlan: what is on closed statements comes back as a credit.        *)
RefundPlan(r, open) == {i \in DOMAIN r.plan : r.plan[i] < open}

----------------------------------------------------------------------------
(* What a request reads: the card and, for what touches one, the purchase. *)

LoadCard(u, r) ==
    /\ Holds(u, Over([card |-> row], r))
    /\ UNCHANGED <<date, row, bought, item, closedAs, cardBill, readvanced, posted>>

(* activeCard.                                                             *)
CreatePurchase(u, p) ==
    /\ ~row.archived /\ Purchases[p].day <= date
    /\ Is(u, Free) /\ Bounded
    /\ LoadCard(u, [op |-> "buy", of |-> p])

CreateCredit(u, c) ==
    /\ ~row.archived
    /\ Is(u, Free) /\ Bounded
    /\ LoadCard(u, [op |-> "credit", of |-> c])

(* Refund, Advance and EditPurchase refuse a refunded purchase.            *)
GetPurchaseItem(u, p) ==
    /\ bought[p].there /\ ~bought[p].refunded
    /\ Is(u, Free) /\ Bounded
    /\ \E op \in {"refund", "advance", "edit"} : LoadCard(u, [op |-> op, of |-> p, read |-> bought[p]])

----------------------------------------------------------------------------
(* The writes.  cardBump: the item lands on the statement that was open    *)
(* when the request read the card, or not at all.                          *)

CardBump(u) == row.open = at[u].card.open /\ row' = [row EXCEPT !.version = @ + 1]

(* purchaseGuard: not refunded, and the revision read.                     *)
PurchaseGuard(u) == ~bought[at[u].of].refunded /\ bought[at[u].of].rev = at[u].read.rev

(* A write whose conditions fail changes nothing.                          *)
CardMoved(u) ==
    /\ at[u].op \in {"buy", "credit", "refund", "advance", "edit"}
    /\ \/ row.open # at[u].card.open
       \/ at[u].op \in {"refund", "advance", "edit"} /\ ~PurchaseGuard(u)
    /\ Leaves(u)
    /\ UNCHANGED <<date, row, bought, item, closedAs, cardBill, readvanced, posted>>

(* addPurchase; the same request again finds the purchase and changes      *)
(* nothing.                                                                *)
AddPurchase(u, p) ==
    LET plan == PlaceInstallments(p, at[u].card.closing, at[u].card.open)
        new  == [there |-> TRUE, plan |-> plan, advanced |-> {}, refunded |-> FALSE, rev |-> 0]
    IN  /\ Is(u, "buy") /\ at[u].of = p
        /\ IF bought[p].there THEN UNCHANGED <<row, bought, item, posted>>
           ELSE /\ CardBump(u)
                /\ bought' = [bought EXCEPT ![p] = new]
                /\ item' = Over([k \in PlanRows(p, new, DOMAIN plan) |-> PartsOf(p)[k[3]]], item)
                /\ posted' = posted + Purchases[p].total
        /\ Leaves(u)
        /\ UNCHANGED <<date, closedAs, cardBill, readvanced>>

(* addCredit.                                                              *)
AddCredit(u, c) ==
    LET known == \E k \in DOMAIN item : k[2] = c
    IN  /\ Is(u, "credit") /\ at[u].of = c
        /\ IF known THEN UNCHANGED <<row, item, posted>>
           ELSE /\ CardBump(u)
                /\ item' = Put(item, <<at[u].card.open, c, Credit>>, -Credits[c])
                /\ posted' = posted - Credits[c]
        /\ Leaves(u)
        /\ UNCHANGED <<date, bought, closedAs, cardBill, readvanced>>

(* Refund: the credit for what was billed, the deletion of the rest, the   *)
(* reversal of the purchase and its mark.                                  *)
Refund(u, p) ==
    LET r      == at[u].read
        open   == at[u].card.open
        billed == RefundPlan(r, open)
        kept   == Drop(item, PlanRows(p, r, DOMAIN r.plan \ billed))
    IN  /\ Is(u, "refund") /\ at[u].of = p
        /\ PurchaseGuard(u) /\ CardBump(u)
        /\ item' = IF billed = {} THEN kept ELSE Put(kept, <<open, p, Back>>, -SumParts(p, billed))
        /\ bought' = [bought EXCEPT ![p].refunded = TRUE]
        /\ posted' = posted - Purchases[p].total
        /\ Leaves(u)
        /\ UNCHANGED <<date, closedAs, cardBill, readvanced>>

(* Advance: everything after the open statement becomes one item of it.    *)
(* It deletes the installments' own rows, not an earlier advance's.        *)
Advance(u, p) ==
    LET r     == at[u].read
        open  == at[u].card.open
        moved == {i \in DOMAIN r.plan : r.plan[i] > open}
        adv   == <<open, p, Adv>>
    IN  /\ Is(u, "advance") /\ at[u].of = p
        /\ IF moved = {} \/ adv \in DOMAIN item THEN UNCHANGED <<row, bought, item, readvanced>>   \* nothing to advance
           ELSE /\ PurchaseGuard(u) /\ CardBump(u)
                /\ readvanced' = IF r.advanced \cap moved = {} THEN readvanced ELSE readvanced \cup {p}
                /\ item' = Put(Drop(item, {<<r.plan[i], p, i>> : i \in moved}), adv, SumParts(p, moved))
                /\ bought' = [bought EXCEPT ![p].plan = [i \in DOMAIN r.plan |-> IF i \in moved THEN open ELSE r.plan[i]],
                                            ![p].advanced = @ \cup moved, ![p].rev = @ + 1]
        /\ Leaves(u)
        /\ UNCHANGED <<date, closedAs, cardBill, posted>>

(* EditPurchase replaces the posting by one of the same amount and renames *)
(* the rows of the plan, all of which must be there.                       *)
EditPurchase(u, p) ==
    /\ Is(u, "edit") /\ at[u].of = p
    /\ PurchaseGuard(u) /\ PlanRows(p, at[u].read, DOMAIN at[u].read.plan) \subseteq DOMAIN item
    /\ bought[p].rev < 2
    /\ bought' = [bought EXCEPT ![p].rev = @ + 1]
    /\ Leaves(u)
    /\ UNCHANGED <<date, row, item, closedAs, cardBill, readvanced, posted>>

----------------------------------------------------------------------------
(* Closing.                                                                *)

(* CloseDue closes what has reached its closing date on a card that is not *)
(* archived, and CloseNow the open statement once its period began.        *)
DueToClose == ~row.archived /\ ClosingDate(row.open, row.closing) <= date
Closable   == Begun(row.open, row.closing)

LoadToClose(u) ==
    /\ Is(u, Free) /\ (DueToClose \/ Closable) /\ row.open <= LastMonth
    /\ LoadCard(u, [op |-> "load"])

BuildStatement(u) ==
    /\ Is(u, "load")
    /\ Holds(u, [op |-> "close", card |-> at[u].card, total |-> Total(ItemsOf(at[u].card.open))])
    /\ UNCHANGED <<date, row, bought, item, closedAs, cardBill, readvanced, posted>>

BadUnchangedCard(u) == row.open = at[u].card.open

(* The open month and the version of the card that was read.               *)
UnchangedCard(u) == row.open = at[u].card.open /\ row.version = at[u].card.version

(* CloseAt: the bill of a positive total, the carry of a negative one, the *)
(* statement's row and the card's next month, together.                    *)
CloseAt(u) ==
    LET m     == at[u].card.open
        total == at[u].total
        bill  == IF total > 0 THEN <<m, at[u].card.version>> ELSE NoBill
    IN  /\ Is(u, "close")
        /\ IF UnchangedCard(u) /\ ~closedAs[m].closed
           THEN /\ cardBill' = IF bill = NoBill THEN cardBill ELSE Put(cardBill, bill, [amount |-> total, status |-> "forecast"])
                /\ item' = IF total < 0 THEN Put(item, Carry(m), total) ELSE item
                /\ closedAs' = [closedAs EXCEPT ![m] = [closed |-> TRUE, total |-> total, bill |-> bill]]
                /\ row' = [row EXCEPT !.open = m + 1]
           ELSE UNCHANGED <<cardBill, item, closedAs, row>>
        /\ Leaves(u)
        /\ UNCHANGED <<date, bought, readvanced, posted>>

(* Reopen: only the latest closed statement, and while its bill is unpaid. *)
LoadToReopen(u) ==
    LET m == row.open - 1
    IN  /\ Is(u, Free) /\ Bounded /\ ~row.archived /\ m \in CardMonths /\ closedAs[m].closed
        /\ closedAs[m].bill # NoBill => cardBill[closedAs[m].bill].status = "forecast"
        /\ LoadCard(u, [op |-> "reopen", month |-> m, was |-> closedAs[m]])

Reopen(u) ==
    LET m == at[u].month
        s == at[u].was
    IN  /\ Is(u, "reopen")
        /\ IF UnchangedCard(u) /\ (s.bill # NoBill => cardBill[s.bill].status = "forecast")
           THEN /\ cardBill' = IF s.bill = NoBill THEN cardBill ELSE [cardBill EXCEPT ![s.bill].status = "canceled"]
                /\ item' = IF s.total < 0 THEN Drop(item, {Carry(m)}) ELSE item
                /\ closedAs' = [closedAs EXCEPT ![m] = Open]
                /\ row' = [row EXCEPT !.open = m, !.version = @ + 1]
           ELSE UNCHANGED <<cardBill, item, closedAs, row>>
        /\ Leaves(u)
        /\ UNCHANGED <<date, bought, readvanced, posted>>

----------------------------------------------------------------------------
(* UpdateCard changes the days without touching the version; the account   *)
(* may be archived, and only then a statement's bill canceled.             *)

UpdateCard(c) ==
    /\ row.closing # c
    /\ row' = [row EXCEPT !.closing = c]
    /\ UNCHANGED <<date, bought, item, closedAs, cardBill, readvanced, posted, at>>

ArchiveCard ==
    /\ ~row.archived
    /\ row' = [row EXCEPT !.archived = TRUE]
    /\ UNCHANGED <<date, bought, item, closedAs, cardBill, readvanced, posted, at>>

SettleBill(b) ==
    /\ cardBill[b].status = "forecast"
    /\ cardBill' = [cardBill EXCEPT ![b].status = "paid"]
    /\ UNCHANGED <<date, row, bought, item, closedAs, readvanced, posted, at>>

CancelBill(b) ==
    /\ row.archived /\ cardBill[b].status = "forecast"
    /\ cardBill' = [cardBill EXCEPT ![b].status = "canceled"]
    /\ UNCHANGED <<date, row, bought, item, closedAs, readvanced, posted, at>>

Tomorrow ==
    /\ date < (LastMonth + 1) * MonthDays
    /\ date' = date + 1
    /\ UNCHANGED <<row, bought, item, closedAs, cardBill, readvanced, posted, at>>

CardsNext ==
    \/ Tomorrow \/ ArchiveCard
    \/ \E c \in ClosingDays : UpdateCard(c)
    \/ \E b \in DOMAIN cardBill : SettleBill(b) \/ CancelBill(b)
    \/ \E u \in CardUsers :
        \/ CardMoved(u) \/ LoadToClose(u) \/ BuildStatement(u) \/ CloseAt(u) \/ LoadToReopen(u) \/ Reopen(u)
        \/ \E p \in Buys : CreatePurchase(u, p) \/ GetPurchaseItem(u, p)
        \/ \E p \in Buys : AddPurchase(u, p) \/ Refund(u, p) \/ Advance(u, p) \/ EditPurchase(u, p)
        \/ \E c \in DOMAIN Credits : CreateCredit(u, c) \/ AddCredit(u, c)

----------------------------------------------------------------------------
LiveBills   == {b \in DOMAIN cardBill : cardBill[b].status # "canceled"}

(* Every cent of the card is on one bill or still to be billed: a closed   *)
(* statement holds exactly what its bill asks for, however purchases,      *)
(* refunds and advances met its closing and reopening, and what the        *)
(* statements hold is what the live bills and the open statements ask.     *)
EveryCentBilled ==
    /\ \A m \in CardMonths : closedAs[m].closed =>
         /\ closedAs[m].total = Total(ItemsOf(m))
         /\ closedAs[m].total > 0 =>
              /\ cardBill[closedAs[m].bill].amount = closedAs[m].total
              /\ row.archived \/ closedAs[m].bill \in LiveBills
    /\ ~row.archived =>
         SumFunction([b \in LiveBills |-> cardBill[b].amount])
         + Total({k \in DOMAIN item : ~closedAs[k[1]].closed}) = Total(SpendLines)

(* What the statements hold of a purchase is what the ledger posted of it: *)
(* all of it, on whatever statements, or nothing once it was refunded.     *)
(* A purchase advanced again on an earlier statement is left out: its      *)
(* first advance stays where it was (README, observations).                *)
OnStatements(p) == Total(OfPurchase(p))
Books(p)        == IF bought[p].there /\ ~bought[p].refunded THEN Purchases[p].total ELSE 0
StatementsFollowLedger ==
    /\ \A p \in Buys \ readvanced : OnStatements(p) = Books(p)
    /\ readvanced = {} => Total(SpendLines) = posted

=============================================================================
