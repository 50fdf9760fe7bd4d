---------------------------- MODULE MCCollection ----------------------------
(* Two instances of Collection for TLC: two requests at a time on one      *)
(* invoice, and one request at a time on an invoice that owes more and     *)
(* whose payers pay on top.  They share no variable: a behaviour runs one  *)
(* of them, chosen at the start.                                           *)
EXTENDS Collection, TLC

VARIABLES part, inv1, att1, bank1, excess1, proc1

(* A payer adds nothing; or late charges and a mistyped amount on top.     *)
MCExact == {[late |-> 0, over |-> 0]}
MCSurcharges == {[late |-> 0, over |-> 0], [late |-> 1, over |-> 1]}

Alone == INSTANCE Collection
    WITH Procs <- {"p"}, Jobs <- {}, Ops <- AllOps, Total <- 3, Notes <- {1, 2},
         Surcharges <- MCSurcharges, MaxAttempts <- 2, MaxPayments <- 2,
         inv <- inv1, att <- att1, bank <- bank1, excess <- excess1, proc <- proc1

vars1 == <<inv1, att1, bank1, excess1, proc1>>

MCInit == part \in {"races", "alone"} /\ Init /\ Alone!Init

MCNext ==
    \/ part = "races" /\ Next /\ UNCHANGED <<part, vars1>>
    \/ part = "alone" /\ Alone!Next /\ UNCHANGED <<part, vars>>

MCSpec == MCInit /\ [][MCNext]_<<part, vars, vars1>>

MCSymmetry == Permutations(Procs \ Jobs)

(* Notes that race never credit more than the total (Issue of              *)
(* src/api/internal/repositories/creditnotes.go), nor does a settlement    *)
(* that races them take less than they leave; and, with one request at     *)
(* a time, what an attempt settles for is paid in full, late charges       *)
(* included, and of a payment on top what is over is given back to the     *)
(* cent (confirm, lowerFor and excess of services/byok_confirm.go).        *)
AmountsAddUp ==
    CreditWithinTotal /\ CoversTotal /\ Alone!SettledInFull /\ Alone!ExcessExact
=============================================================================
