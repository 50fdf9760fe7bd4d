------------------------------- MODULE MCSweep -------------------------------
(* The instance of Collection that TLC checks for liveness.                *)
EXTENDS Collection, TLC

MCExact == {[late |-> 0, over |-> 0]}

(* Bound: dunning gives up on the invoice, and a wake-up re-queries a      *)
(* charge, while nothing else is under way.                                *)
Quiet == \A p \in Procs : At(p, "idle")
SweepBound ==
    /\ inv'.status = "UNCOLLECTIBLE" /\ inv.status # "UNCOLLECTIBLE" => Quiet
    /\ \A p \in Procs \ Jobs : At(p, "idle") /\ proc'[p].op = "confirm" => Quiet

SweepSpec == Init /\ [][Next /\ SweepBound]_vars /\ Fairness
=============================================================================
