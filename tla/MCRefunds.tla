------------------------------ MODULE MCRefunds ------------------------------
(* Two instances of Refunds for TLC: presses and runs of the job one at a  *)
(* time, and overlapping.  They share no variable: a behaviour runs one of *)
(* them, chosen at the start.                                              *)
EXTENDS Refunds

VARIABLES part, row2, bank2, used2, window2, proc2

Overlap == INSTANCE Refunds
    WITH Procs <- {"p1", "p2", "j"}, Jobs <- {"j"}, Concurrent <- TRUE, BankFails <- TRUE, MaxRefunds <- 3,
         row <- row2, bank <- bank2, used <- used2, window <- window2, proc <- proc2

vars2 == <<row2, bank2, used2, window2, proc2>>

MCInit ==
    /\ part \in {"serial", "overlap"} /\ Init /\ Overlap!Init
    /\ part # "serial" => row.kind = "excess"
    /\ part # "overlap" => row2.kind = "excess"

MCNext ==
    \/ part = "serial" /\ Next /\ UNCHANGED <<part, vars2>>
    \/ part = "overlap" /\ Overlap!Next /\ UNCHANGED <<part, vars>>

(* Nothing that the fairness of the overlapping instance is about is       *)
(* enabled at its start, where a behaviour of the other one leaves it.     *)
MCSpec == MCInit /\ [][MCNext]_<<part, vars, vars2>> /\ Overlap!Fairness

(* However presses and job runs overlap, the bank is asked for a second    *)
(* refund only after it ended the first as failed (OnceUntilFailure of the *)
(* overlapping instance; refundExcess and applyRefund of                   *)
(* src/api/internal/services/byok_refunds.go).                             *)
OverlapOnceUntilFailure == Overlap!OnceUntilFailure

(* A refund that was asked for is concluded or given back for another      *)
(* press (RefundConcludes of the overlapping instance; the hourly          *)
(* FollowRefunds of byok_refunds.go).                                      *)
OverlapRefundConcludes == Overlap!RefundConcludes
=============================================================================
