------------------------------ MODULE MCBooks ------------------------------
(***************************************************************************)
(* The ledger, the chart of accounts, bills and recurrences for TLC.  They *)
(* share no variable: a behaviour runs one of them, chosen at the start,   *)
(* and the state space is the sum of theirs.                               *)
(***************************************************************************)
EXTENDS Ledger, Chart, Bills, Recurrences

CONSTANTS
    x1, x2,              \* the two processes of every module
    a1, b1, s1, key1     \* accounts of the ledger and a system key

VARIABLE part

(* A module that does not run starts in one of its initial states.         *)
Init ==
    /\ part \in {"ledger", "chart", "bills", "recurrences"}
    /\ LedgerInit /\ ChartInit /\ BillsInit /\ RecurrencesInit
    /\ part # "chart" => ~space.there
    /\ part # "bills" => origin = "manual"
    /\ part # "recurrences" => rec.mode = "fixed"

(* Bound: a fourth transaction only to see an opening reversed, posted     *)
(* again and reversed by a request that read the first.                    *)
LedgerBound ==
    Len(journal') = 4 =>
        /\ \A i \in 1..3 : journal[i].kind \in {"opening_balance", "reversal"}
        /\ archived' = {} /\ rebuild' = NoRebuild

Next ==
    \/ part = "ledger" /\ LedgerNext /\ LedgerBound /\ UNCHANGED <<part, chartVars, billVars, recVars>>
    \/ part = "chart" /\ ChartNext /\ UNCHANGED <<part, ledgerVars, billVars, recVars>>
    \/ part = "bills" /\ BillsNext /\ UNCHANGED <<part, ledgerVars, chartVars, recVars>>
    \/ part = "recurrences" /\ RecurrencesNext /\ UNCHANGED <<part, ledgerVars, chartVars, billVars>>

Spec == Init /\ [][Next]_<<part, ledgerVars, chartVars, billVars, recVars>>

MCSymmetry == Permutations({x1, x2})

MCTransfers == {[from |-> a1, to |-> b1, key |-> key1, month |-> 1],
                [from |-> s1, to |-> b1, key |-> NoKey, month |-> 1]}
MCOpenings  == {[acct |-> a1, key |-> NoKey, month |-> 1], [acct |-> s1, key |-> NoKey, month |-> 1],
                [acct |-> a1, key |-> key1, month |-> 2]}

MCNameOf == [s1 |-> "payables", d1 |-> "rent", d2 |-> "fees", b1 |-> "bank", y1 |-> "synced"]

MCNewBills       == {[amt |-> 2, cat |-> "food", acct |-> "a1", due |-> 1, auto |-> TRUE]}
MCBillEdits      == {[amt |-> 3], [acct |-> "s1"], [due |-> 2], [auto |-> FALSE]}
MCSettleRequests == {[paid |-> 0, diff |-> NoCat], [paid |-> 3, diff |-> "rent"]}
MCCreditNotes    == [n1 |-> 1, n2 |-> 2]

MCRules       == {[amt |-> 1, target |-> "account", mode |-> m, auto |-> FALSE, end |-> 0] : m \in {"fixed", "expected"}}
MCKeep        == [archive |-> FALSE, cancel |-> FALSE]
MCRulePatches == {MCKeep @@ [end |-> 0], [archive |-> FALSE, cancel |-> TRUE, end |-> 2], MCKeep @@ [target |-> "card"]}
=============================================================================
