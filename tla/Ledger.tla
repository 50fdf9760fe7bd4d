------------------------------- MODULE Ledger -------------------------------
(***************************************************************************)
(* The double-entry ledger of one space: the journal of transactions and   *)
(* the caches kept beside it (the balance on each account row and the      *)
(* monthly totals).  Requests read first and then write one conditional    *)
(* database transaction; an operator's rebuild reads everything in three   *)
(* queries and overwrites the rows that differ, one by one, while requests *)
(* go on.                                                                  *)
(*                                                                         *)
(* A transaction is a function from accounts to signed amounts, a debit    *)
(* positive; an account it does not touch has 0.                           *)
(***************************************************************************)
EXTENDS Integers, Sequences, FiniteSets, FiniteSetsExt, Functions

CONSTANTS
    Cash,        \* the cash accounts of the space
    SyncedCash,  \* those of them whose statement is the bank's
    LedgerClients,  \* requests in flight at a time
    Transfers,   \* the transfers asked for: from, to, key and month
    Openings,    \* the openings asked for: acct, import id or NoKey, and month
    LedgerMonths,   \* 1..n, the last one today's
    Archivable,  \* the accounts that may be archived on the way
    MaxTransactions

Equity   == "sys-opening"
Accounts == Cash \cup {Equity}
Today    == Max(LedgerMonths)

ASSUME LedgerAssumption ==
    /\ Today \in Nat \ {0} /\ LedgerMonths = 1..Today
    /\ SyncedCash \subseteq Cash
    /\ Equity \notin Cash
    /\ \A r \in Transfers : r.from \in Cash /\ r.to \in Cash /\ r.month \in LedgerMonths
    /\ \A r \in Openings : r.acct \in Cash /\ r.month \in LedgerMonths
    /\ Archivable \subseteq Cash /\ MaxTransactions \in Nat

NoTx   == 0
NoKey  == "no-key"

VARIABLES
    archived,   \* the archived accounts
    balance,    \* account -> the balance cached on its row
    summary,    \* month -> account -> the cached debits and credits
    journal,    \* the transactions, in commit order; a transaction's id is its place
    reversalOf, \* the ids that have a REVERSAL# marker
    openingOf,  \* account -> the transaction its OPENING# marker names, or NoTx
    call,       \* client -> what it read and is about to write
    rebuild,    \* the operator's rebuild: how far it is and what it read
    overlapped, \* a posting committed while a rebuild was between its reads and its writes
    lost        \* such an overlap happened and no quiet rebuild has run since

ledgerVars == <<archived, balance, summary, journal, reversalOf, openingOf,
                call, rebuild, overlapped, lost>>

NoCall    == [op |-> "none"]
NoRebuild == [at |-> "idle"]
NoTotals  == [debits |-> 0, credits |-> 0]

LedgerInit ==
    /\ archived = {}
    /\ balance = [a \in Accounts |-> 0]
    /\ summary = [m \in LedgerMonths |-> [a \in Accounts |-> NoTotals]]
    /\ journal = <<>>
    /\ reversalOf = {}
    /\ openingOf = [a \in Cash |-> NoTx]
    /\ call = [c \in LedgerClients |-> NoCall]
    /\ rebuild = NoRebuild
    /\ overlapped = FALSE
    /\ lost = FALSE

----------------------------------------------------------------------------
(* The posting rules.                                                      *)

(* Transfer: money moves between two accounts of the space.                *)
TransferLegs(from, to, x) ==
    [a \in Accounts |-> IF a = to THEN x ELSE IF a = from THEN -x ELSE 0]

(* OpeningBalance: against equity; never zero, negative when overdrawn.    *)
OpeningLegs(acct, x) ==
    [a \in Accounts |-> IF a = acct THEN x ELSE IF a = Equity THEN -x ELSE 0]

(* Reverse: every leg negated.                                             *)
Negated(legs) == [a \in Accounts |-> -legs[a]]

(* NewTransaction: two legs or more, none zero (0 here is no leg), on      *)
(* accounts that differ, summing to zero.                                  *)
ValidTransaction(tx) ==
    /\ Cardinality({a \in Accounts : tx.legs[a] # 0}) >= 2
    /\ SumFunctionOnSet(tx.legs, Accounts) = 0

(* Derive: the definition of what the caches hold.                         *)
LegsOn(txs, a) == [i \in DOMAIN txs |-> txs[i].legs[a]]

DerivedBalance(txs, a) == SumFunction(LegsOn(txs, a))

Debit(x)  == IF x > 0 THEN x ELSE 0
CreditOf(x) == IF x < 0 THEN -x ELSE 0

DerivedTotals(txs, m, a) ==
    LET on == {i \in DOMAIN txs : txs[i].month = m}
    IN  [debits  |-> SumFunction([i \in on |-> Debit(txs[i].legs[a])]),
         credits |-> SumFunction([i \in on |-> CreditOf(txs[i].legs[a])])]

(* What an account moved in each month, by the cached totals.              *)
Net(a) == [m \in LedgerMonths |-> summary[m][a].debits - summary[m][a].credits]

BadBalanceThrough(a, cut) ==
    balance[a] - SumFunctionOnSet(Net(a), {m \in LedgerMonths : m >= cut})

(* BalancesThrough: the cached balance less what later months moved, from  *)
(* which a statement's opening and closing balances are worked out.        *)
BalanceThrough(a, cut) ==
    balance[a] - SumFunctionOnSet(Net(a), {m \in LedgerMonths : m > cut})

(* EntriesThrough: what an account's entries of some months add up to.     *)
EntriesThrough(a, from, cut) ==
    SumFunctionOnSet(LegsOn(journal, a),
                     {i \in DOMAIN journal : from <= journal[i].month /\ journal[i].month <= cut})

(* BuildStatement: the opening balance of an account's statement, worked   *)
(* back from the balance at the end of the last month it shows.            *)
StatementOpening(a, from, to) == BalanceThrough(a, to) - EntriesThrough(a, from, to)

----------------------------------------------------------------------------
(* The conditional writes.                                                 *)

(* activeCashRow: an account of the person's own that takes movements.     *)
ActiveCash(a)       == a \in Cash \ archived
ActiveManualCash(a) == ActiveCash(a) /\ a \notin SyncedCash

BadCanPost(tx) ==
    /\ Len(journal) < MaxTransactions
    /\ ValidTransaction(tx)

(* postItemsWith: header, one entry per leg, the balance and the month's   *)
(* totals ADDed, the reversal marker when it adjusts; one transaction,     *)
(* refused as a whole when the absence of the header or of the marker      *)
(* fails its condition.  Account rows are never deleted.                   *)
CanPost(tx) ==
    /\ Len(journal) < MaxTransactions
    /\ ValidTransaction(tx)
    /\ tx.adjusts # NoTx => tx.adjusts \notin reversalOf

PostItems(tx) ==
    /\ journal' = Append(journal, tx)
    /\ balance' = [a \in Accounts |-> balance[a] + tx.legs[a]]
    /\ summary' = [summary EXCEPT ![tx.month] =
                    [a \in Accounts |->
                        [debits  |-> @[a].debits + Debit(tx.legs[a]),
                         credits |-> @[a].credits + CreditOf(tx.legs[a])]]]
    /\ reversalOf' = IF tx.adjusts = NoTx THEN reversalOf
                     ELSE reversalOf \cup {tx.adjusts}
    /\ overlapped' = (rebuild.at # "idle")

Transaction(kind, month, legs, key, adjusts) ==
    [kind |-> kind, month |-> month, legs |-> legs, key |-> key, adjusts |-> adjusts]

(* A header with this (idempotency-derived) id is there already.           *)
Posted(key) == key # NoKey /\ \E i \in 1..Len(journal) : journal[i].key = key

Busy(c, r) == call' = [call EXCEPT ![c] = r]
FreeClient(c)    == Busy(c, NoCall)
CallIs(c, op) == call[c].op = op

JournalUnchanged == UNCHANGED <<balance, summary, journal, reversalOf, openingOf, overlapped>>

----------------------------------------------------------------------------
(* ArchiveAccount: what the account holds, and who is using it, does not   *)
(* matter.                                                                 *)
ArchiveAccount(a) ==
    /\ a \notin archived
    /\ archived' = archived \cup {a}
    /\ UNCHANGED <<call, rebuild, lost>> /\ JournalUnchanged

----------------------------------------------------------------------------
(* Postings.                                                               *)

(* The transfer route admits two different accounts, a positive amount and *)
(* a day up to today; PostTransfer then reads both accounts...             *)
TransferRequests == {r \in Transfers : r.from # r.to /\ r.month <= Today}

ReadTransfer(c, r) ==
    /\ CallIs(c, "none")
    /\ ActiveManualCash(r.from) /\ ActiveManualCash(r.to)
    /\ Busy(c, [op |-> "transfer", tx |->
                 Transaction("transfer", r.month, TransferLegs(r.from, r.to, 1), r.key, NoTx)])
    /\ UNCHANGED <<archived, rebuild, lost>> /\ JournalUnchanged

(* ...and posts; with a key whose header exists it answers that transfer.  *)
PostTransfer(c) ==
    /\ CallIs(c, "transfer")
    /\ FreeClient(c)
    /\ \/ /\ ~Posted(call[c].tx.key) /\ CanPost(call[c].tx)
          /\ PostItems(call[c].tx)
          /\ UNCHANGED openingOf
       \/ /\ Posted(call[c].tx.key)
          /\ JournalUnchanged
    /\ UNCHANGED <<archived, rebuild, lost>>

(* PostOpeningBalance by a person, PostProviderOpening by the sync.        *)
OpeningTx(r) == Transaction("opening_balance", r.month, OpeningLegs(r.acct, 2), r.key, NoTx)

ReadOpening(c, r) ==
    /\ CallIs(c, "none")
    /\ r.key = NoKey /\ (ActiveManualCash(r.acct) \/ r.acct \in SyncedCash)
    /\ Busy(c, [op |-> "opening", acct |-> r.acct, tx |-> OpeningTx(r)])
    /\ UNCHANGED <<archived, rebuild, lost>> /\ JournalUnchanged

(* PostStatementOpening: only where there is no opening and no entry, as   *)
(* read; its id is the import's.                                           *)
NoEntries(a) == \A i \in 1..Len(journal) : journal[i].legs[a] = 0

ReadStatementOpening(c, r) ==
    /\ CallIs(c, "none")
    /\ r.key # NoKey /\ openingOf[r.acct] = NoTx /\ NoEntries(r.acct)
    /\ ActiveManualCash(r.acct)
    /\ Busy(c, [op |-> "opening", acct |-> r.acct, tx |-> OpeningTx(r)])
    /\ UNCHANGED <<archived, rebuild, lost>> /\ JournalUnchanged

(* postOpening: the marker is put if absent in the same transaction; a     *)
(* request that loses it answers ErrOpeningExists, or its twin's opening.  *)
PostOpening(c) ==
    /\ CallIs(c, "opening")
    /\ FreeClient(c)
    /\ \/ /\ openingOf[call[c].acct] = NoTx /\ ~Posted(call[c].tx.key) /\ CanPost(call[c].tx)
          /\ PostItems(call[c].tx)
          /\ openingOf' = [openingOf EXCEPT ![call[c].acct] = Len(journal) + 1]
       \/ /\ openingOf[call[c].acct] # NoTx \/ Posted(call[c].tx.key)
          /\ JournalUnchanged
    /\ UNCHANGED <<archived, rebuild, lost>>

(* ReverseManual: a transfer or an opening none of whose legs is synced.   *)
ReadReverse(c, i) ==
    /\ CallIs(c, "none")
    /\ journal[i].kind \in {"transfer", "opening_balance"}
    /\ \A a \in SyncedCash : journal[i].legs[a] = 0
    /\ Busy(c, [op |-> "reverse", of |-> i,
                tx |-> Transaction("reversal", Today, Negated(journal[i].legs), NoKey, i)])
    /\ UNCHANGED <<archived, rebuild, lost>> /\ JournalUnchanged

(* The reversal, its marker and, of an opening, the OPENING# marker's      *)
(* deletion are one transaction.                                           *)
ReverseManual(c) ==
    LET orig == journal[call[c].of]
    IN  /\ CallIs(c, "reverse")
        /\ FreeClient(c)
        /\ \/ /\ CanPost(call[c].tx)
              /\ PostItems(call[c].tx)
              /\ openingOf' = [a \in Cash |-> IF orig.kind = "opening_balance" /\ orig.legs[a] # 0
                                              THEN NoTx ELSE openingOf[a]]
           \/ /\ call[c].of \in reversalOf
              /\ JournalUnchanged
        /\ UNCHANGED <<archived, rebuild, lost>>

----------------------------------------------------------------------------
(* The rebuild.                                                            *)

(* Rebuild: the transactions, the accounts and the totals are read one     *)
(* after the other.                                                        *)
RebuildReadsJournal ==
    /\ rebuild.at = "idle"
    /\ rebuild' = [at |-> "accounts", txs |-> journal]
    /\ overlapped' = FALSE
    /\ UNCHANGED <<archived, balance, summary, journal, reversalOf, openingOf, call, lost>>

RebuildReadsAccounts ==
    /\ rebuild.at = "accounts"
    /\ rebuild' = [at |-> "summaries", txs |-> rebuild.txs, balance |-> balance]
    /\ JournalUnchanged /\ UNCHANGED <<archived, call, lost>>

(* Compare: the rows that differ from the derivation.                      *)
BalanceDrift(txs, bal)  == {a \in Accounts : bal[a] # DerivedBalance(txs, a)}
SummaryDrift(txs, sums) ==
    {k \in LedgerMonths \X Accounts : sums[k[1]][k[2]] # DerivedTotals(txs, k[1], k[2])}

RebuildCompares ==
    /\ rebuild.at = "summaries"
    /\ rebuild' = [at |-> "apply", txs |-> rebuild.txs,
                   bal |-> BalanceDrift(rebuild.txs, rebuild.balance),
                   sum |-> SummaryDrift(rebuild.txs, summary)]
    /\ JournalUnchanged /\ UNCHANGED <<archived, call, lost>>

(* applyDrift: the rows in order, each overwritten on its own and without  *)
(* a condition.                                                            *)
ApplyBalance ==
    LET a == CHOOSE x \in rebuild.bal : TRUE
    IN  /\ rebuild.at = "apply" /\ rebuild.bal # {}
        /\ balance' = [balance EXCEPT ![a] = DerivedBalance(rebuild.txs, a)]
        /\ rebuild' = [rebuild EXCEPT !.bal = @ \ {a}]
        /\ UNCHANGED <<archived, summary, journal, reversalOf, openingOf, overlapped, call, lost>>

ApplySummary ==
    LET k == CHOOSE x \in rebuild.sum : TRUE
    IN  /\ rebuild.at = "apply" /\ rebuild.bal = {} /\ rebuild.sum # {}
        /\ summary' = [summary EXCEPT ![k[1]][k[2]] = DerivedTotals(rebuild.txs, k[1], k[2])]
        /\ rebuild' = [rebuild EXCEPT !.sum = @ \ {k}]
        /\ UNCHANGED <<archived, balance, journal, reversalOf, openingOf, overlapped, call, lost>>

RebuildEnds ==
    /\ rebuild.at = "apply" /\ rebuild.bal = {} /\ rebuild.sum = {}
    /\ rebuild' = NoRebuild
    /\ lost' = overlapped
    /\ JournalUnchanged /\ UNCHANGED <<archived, call>>

RebuildStep ==
    \/ RebuildReadsJournal \/ RebuildReadsAccounts \/ RebuildCompares
    \/ ApplyBalance \/ ApplySummary \/ RebuildEnds

ClientStep(c) ==
    \/ PostTransfer(c) \/ PostOpening(c) \/ ReverseManual(c)
    \/ \E r \in TransferRequests : ReadTransfer(c, r)
    \/ \E r \in Openings : ReadOpening(c, r) \/ ReadStatementOpening(c, r)
    \/ \E i \in 1..Len(journal) : ReadReverse(c, i)

LedgerNext ==
    \/ RebuildStep
    \/ \E c \in LedgerClients : ClientStep(c)
    \/ \E a \in Archivable : ArchiveAccount(a)

LedgerSpec == LedgerInit /\ [][LedgerNext]_ledgerVars

----------------------------------------------------------------------------
(* Every cached balance is what the entries say, and a statement opens     *)
(* with what the earlier entries add up to, unless a posting               *)
(* committed between a rebuild's reads and its writes and no quiet rebuild *)
(* has run since: postings do not disturb each other, and a rebuild that   *)
(* no posting overlapped repairs whatever an earlier one wrote over.       *)
CachesAreDerived ==
    (~overlapped /\ ~lost) =>
        \A a \in Accounts :
            /\ balance[a] = DerivedBalance(journal, a)
            /\ \A from, to \in LedgerMonths :
                 from <= to => StatementOpening(a, from, to) = EntriesThrough(a, 1, from - 1)

(* An account has at most one opening balance that stands, its marker      *)
(* names it, and the marker is free exactly when none stands: neither two  *)
(* requests, nor a reversal racing a new opening, leave an account with    *)
(* two openings or barred from a corrected one.                            *)
OneOpening ==
    \A a \in Cash :
        {i \in 1..Len(journal) : /\ journal[i].kind = "opening_balance"
                                 /\ journal[i].legs[a] # 0 /\ i \notin reversalOf}
          = (IF openingOf[a] = NoTx THEN {} ELSE {openingOf[a]})
=============================================================================
