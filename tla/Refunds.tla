------------------------------ MODULE Refunds ------------------------------
(***************************************************************************)
(* Giving one payment back through the merchant's bank: the excess row (an *)
(* excess payment, or the part of a payment that a credit note returns),   *)
(* the refunds the bank holds for it, and the requests ("Devolver", credit *)
(* note) and hourly job runs that work on them.                            *)
(*                                                                         *)
(* A press draws a refund id, stores it on the row and then calls the      *)
(* bank, which is idempotent by that id.  Every write of the row is        *)
(* conditional on the status it was read with, and on nothing else.        *)
(***************************************************************************)
EXTENDS Integers

CONSTANTS
    Procs,       \* requests and job runs
    Jobs,        \* of them, the runs of the hourly job (cmd/byok)
    Concurrent,  \* whether two of them may overlap
    BankFails,   \* whether the bank may end a refund as failed
    MaxRefunds   \* bound: refund ids drawn for the row

ASSUME RefundsAssumption ==
    /\ Jobs \subseteq Procs
    /\ Concurrent \in BOOLEAN
    /\ BankFails \in BOOLEAN
    /\ MaxRefunds \in Nat \ {0}

Ids == 1..MaxRefunds

ExcessStatus == {"absent", "open", "refunding", "refunded", "refund_failed"}
ExcessKind   == {"excess", "credit"}
RefundStatus == {"none", "processing", "done", "failed"}

(* refund_id 0: none yet.                                                  *)
Row == [kind: ExcessKind, status: ExcessStatus, rid: 0..MaxRefunds]

Steps == {"idle", "mark", "send", "ask", "apply"}

(* e: the row as the process has it; st: the bank's answer.                *)
Process == [pc: Steps, e: [status: ExcessStatus, rid: 0..MaxRefunds], st: RefundStatus]

VARIABLES
    row,     \* the excess row
    bank,    \* the bank's refund of each refund id
    used,    \* how many refund ids were stored on the row
    window,  \* whether the 90 days are still running
    proc

vars == <<row, bank, used, window, proc>>

NoCopy == [status |-> "absent", rid |-> 0]
Idle == [pc |-> "idle", e |-> NoCopy, st |-> "none"]

Init ==
    /\ row \in {[kind |-> "excess", status |-> "open", rid |-> 0],
                [kind |-> "credit", status |-> "absent", rid |-> 0]}
    /\ bank = [r \in Ids |-> "none"]
    /\ used = 0
    /\ window = TRUE
    /\ proc = [p \in Procs |-> Idle]

----------------------------------------------------------------------------
At(p, step) == proc[p].pc = step
Become(p, r) == proc' = [proc EXCEPT ![p] = r]
End(p) == Become(p, Idle)

Begins(p) == At(p, "idle") /\ (Concurrent \/ \A q \in Procs : At(q, "idle"))

CopyOf(r) == [status |-> r.status, rid |-> r.rid]

(* refundExcess, up to its first write: a row that is neither open nor     *)
(* failed is only returned, and after 90 days the press is refused.        *)
Refund(p, e) ==
    IF e.status \in {"open", "refund_failed"} /\ window
    THEN Become(p, [Idle EXCEPT !.pc = "mark", !.e = e])
    ELSE End(p)

(* RefundExcess: the merchant presses "Devolver".                          *)
RefundExcess(p) ==
    /\ Begins(p) /\ p \notin Jobs
    /\ row.status # "absent"
    /\ Refund(p, CopyOf(row))
    /\ UNCHANGED <<row, bank, used, window>>

(* RefundCredit: the row is created once per credit note; a second call    *)
(* finds it and resumes.                                                   *)
RefundCredit(p) ==
    /\ Begins(p) /\ p \notin Jobs
    /\ row.kind = "credit"
    /\ row' = [row EXCEPT !.status = IF @ = "absent" THEN "open" ELSE @]
    /\ Refund(p, CopyOf(row'))
    /\ UNCHANGED <<bank, used, window>>

(* Each definition named Bad... is a plausible mistake in the definition   *)
(* it stands before; no specification uses it.                             *)

(* The row takes the new refund id whatever became of it meanwhile.        *)
BadMark(p) ==
    /\ At(p, "mark") /\ used < MaxRefunds
    /\ used' = used + 1
    /\ row' = [row EXCEPT !.status = "refunding", !.rid = used + 1]
    /\ Become(p, [Idle EXCEPT !.pc = "send", !.e = CopyOf(row')])
    /\ UNCHANGED <<bank, window>>

(* SetExcessStatus(refunding) with a fresh id, if the status is still the  *)
(* one read; a loser answers with the winner's row.                        *)
Mark(p) ==
    /\ At(p, "mark")
    /\ \/ /\ row.status = proc[p].e.status /\ used < MaxRefunds
          /\ used' = used + 1
          /\ row' = [row EXCEPT !.status = "refunding", !.rid = used + 1]
          /\ Become(p, [Idle EXCEPT !.pc = "send", !.e = CopyOf(row')])
       \/ /\ row.status # proc[p].e.status
          /\ End(p)
          /\ UNCHANGED <<row, used>>
    /\ UNCHANGED <<bank, window>>

Outcomes == {"done"} \cup (IF BankFails THEN {"failed"} ELSE {})

(* A refund the bank has not concluded is taken for one it refused.        *)
BadAnswered(p, st) ==
    Become(p, [proc[p] EXCEPT !.pc = "apply",
                 !.st = IF st = "processing" THEN "failed" ELSE st])

(* applyRefund looks at the answer: an unfinished refund changes nothing.  *)
Answered(p, st) ==
    IF st = "processing" THEN End(p)
    ELSE Become(p, [proc[p] EXCEPT !.pc = "apply", !.st = st])

(* sendRefund: the bank takes a refund id once and answers how it stands.  *)
Send(p) ==
    /\ At(p, "send")
    /\ LET r == proc[p].e.rid
       IN \E st \in {"processing"} \cup Outcomes :
            /\ bank[r] # "none" => st = bank[r]
            /\ bank' = [bank EXCEPT ![r] = st]
            /\ Answered(p, st)
    /\ UNCHANGED <<row, used, window>>

(* FollowRefunds: the hourly job finds a refund in flight ...              *)
Follow(p) ==
    /\ Begins(p) /\ p \in Jobs
    /\ row.status = "refunding"
    /\ Become(p, [Idle EXCEPT !.pc = "ask", !.e = CopyOf(row)])
    /\ UNCHANGED <<row, bank, used, window>>

(* The refund the bank never received is given up.                         *)
BadAsk(p) ==
    /\ At(p, "ask")
    /\ LET st == bank[proc[p].e.rid]
       IN IF st = "none" THEN End(p) ELSE Answered(p, st)
    /\ UNCHANGED <<row, bank, used, window>>

(* ... followRefund asks the bank about it, and sends it (same id) if the  *)
(* bank never received it.                                                 *)
Ask(p) ==
    /\ At(p, "ask")
    /\ LET st == bank[proc[p].e.rid]
       IN IF st = "none"
          THEN Become(p, [proc[p] EXCEPT !.pc = "send"])
          ELSE Answered(p, st)
    /\ UNCHANGED <<row, bank, used, window>>

Concluded(st) == IF st = "done" THEN "refunded" ELSE "refund_failed"

(* applyRefund -> SetExcessStatus: conditional on the row being refunding, *)
(* not on the refund the answer is about.                                  *)
Apply(p) ==
    /\ At(p, "apply")
    /\ row' = [row EXCEPT !.status =
                 IF @ = "refunding" THEN Concluded(proc[p].st) ELSE @]
    /\ End(p)
    /\ UNCHANGED <<bank, used, window>>

(* A crash, a failed call, a refusing gate, a disconnected organization.   *)
Fail(p) ==
    /\ ~At(p, "idle")
    /\ End(p)
    /\ UNCHANGED <<row, bank, used, window>>

(* External: the bank concludes a refund; the 90 days end.                 *)
BankSettles(r) ==
    /\ bank[r] = "processing"
    /\ \E st \in Outcomes : bank' = [bank EXCEPT ![r] = st]
    /\ UNCHANGED <<row, used, window, proc>>

WindowCloses ==
    /\ window
    /\ window' = FALSE
    /\ UNCHANGED <<row, bank, used, proc>>

Step(p) ==
    \/ RefundExcess(p) \/ RefundCredit(p) \/ Mark(p) \/ Send(p)
    \/ Follow(p) \/ Ask(p) \/ Apply(p) \/ Fail(p)

Next ==
    \/ \E p \in Procs : Step(p)
    \/ \E r \in Ids : BankSettles(r)
    \/ WindowCloses

Spec == Init /\ [][Next]_vars

(* cmd/byok runs every hour and follows every refunding row, so a call of  *)
(* it that can be repeated forever goes through in the end; the bank       *)
(* concludes what it took.  Nothing is assumed of the merchant's presses.  *)
Fairness ==
    /\ \A p \in Jobs : SF_vars(Follow(p)) /\ SF_vars(Ask(p)) /\ SF_vars(Send(p))
                       /\ SF_vars(Apply(p))
    /\ \A r \in Ids : WF_vars(BankSettles(r))

LiveSpec == Spec /\ Fairness

----------------------------------------------------------------------------
(* Types of the row, of the bank's refunds and of what a process carries   *)
(* from GetExcess, Refunding and the bank's answers.                       *)
TypeOK ==
    /\ row \in Row
    /\ bank \in [Ids -> RefundStatus]
    /\ used \in 0..MaxRefunds
    /\ window \in BOOLEAN
    /\ proc \in [Procs -> Process]

(* However often "Devolver" is pressed, whatever dies and whatever the job *)
(* sends again (refundExcess, followRefund), at most one refund of the     *)
(* payment is on its way to the payer or has reached it.                   *)
RefundsOnce ==
    \A r, s \in Ids :
        bank[r] \in {"processing", "done"} /\ bank[s] \in {"processing", "done"} => r = s

(* A refund the bank is working on is the one the row names and the row    *)
(* says so: FollowRefunds will ask about it, and a press finds it          *)
(* refunding (refundExcess's early return).                                *)
InFlightIsFollowed ==
    \A r \in Ids : bank[r] = "processing" => row.status = "refunding" /\ row.rid = r

(* Overlapping presses and job runs alone never give the payment back      *)
(* twice, nor lose the refund on its way: while the bank has failed none,  *)
(* every press but one loses the conditional mark (refundExcess).          *)
OnceUntilFailure ==
    (\A r \in Ids : bank[r] # "failed") => RefundsOnce /\ InFlightIsFollowed

(* The merchant reads "refunded" only if the bank gave money back, however *)
(* late the answer applyRefund writes is.                                  *)
RefundedMeansPaid ==
    row.status = "refunded" => \E r \in Ids : bank[r] = "done"

(* A row marked refunding concludes, although the press that marked it may *)
(* have died before or after it called the bank (FollowRefunds).           *)
RefundConcludes ==
    row.status = "refunding" ~> row.status \in {"refunded", "refund_failed"}
=============================================================================
