------------------------------ MODULE MCCycle ------------------------------
(* The billing cycle, and the dunning of its invoices with jobs that       *)
(* overlap, for TLC.  They share no variable: a behaviour runs one of      *)
(* them, chosen at the start.                                              *)
EXTENDS Cycle, Dunning, TLC

CONSTANTS x1, x2,       \* the two jobs of every module
          basic, usage  \* a plan billed in advance, one in arrears

VARIABLE part

MCInit ==
    /\ part \in {"cycle", "dunning"} /\ CycleInit /\ Init
    /\ part = "cycle" => sub.status = "ACTIVE"

MCNext ==
    \/ part = "cycle" /\ CycleNext /\ UNCHANGED <<part, vars>>
    \/ part = "dunning" /\ Next /\ UNCHANGED <<part, cycleVars>>

MCSpec == MCInit /\ [][MCNext]_<<part, cycleVars, vars>>

MCSymmetry == Permutations({x1, x2})

MCTiming == [p \in Plans |-> IF p = basic THEN "advance" ELSE "arrears"]
MCCost   == [p \in Plans |-> IF p = basic THEN 3 ELSE 2]

(* The default policy with one reminder for its four.                      *)
MCPolicy == <<"remind", "escalate", "abandon">>
=============================================================================
