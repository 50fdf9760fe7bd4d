-------------------------- MODULE CollectionProofs --------------------------
(* What Collection guarantees for every set of processes, every invoice    *)
(* total and every bound, proved with TLAPS.                               *)
EXTENDS Collection, TLAPS

(* Steps at which a process has an attempt in hand, and those at which the *)
(* bank has already shown it payments.                                     *)
HasAttempt == {"charge", "setcharge", "cancel", "fail", "update", "setamount", "get", "expire",
               "owed", "lower", "settle", "invoice", "excess", "sweepnew", "sweepold"}
HasPayments == {"owed", "lower", "settle", "invoice", "excess"}

(* What a process at each step may rely on, although it read it earlier.   *)
ProcOK(r) ==
    /\ r.pc \in HasAttempt => r.n \in Attempts /\ att[r.n].status # "NONE"
    /\ r.op = "sweep" => r.page.n \in Attempts /\ att[r.page.n].status # "NONE"
    /\ r.pc = "create" => r.n \in Attempts /\ \A m \in Attempts : m < r.n => att[m].status = "FAILED"
    /\ r.pc \in {"cancel", "update", "get"} =>
          /\ r.a.status # "NONE"
          /\ r.a.status # "PENDING" => att[r.n].status = r.a.status
    /\ r.pc \in HasPayments => 1 <= r.seen /\ r.seen <= Len(bank[r.n].pays)
    /\ r.pc = "lower" => Collectable(r.iv) <= First(r.n).amt
    /\ r.pc = "settle" => r.a.amount <= First(r.n).amt
    /\ r.pc = "invoice" => r.a.status = "SUCCEEDED"
    /\ r.pc \in {"invoice", "excess"} =>
          r.a.status \in {"SUCCEEDED", "FAILED"} /\ att[r.n].status = r.a.status

(* The rows on their own.                                                  *)
RowsOK ==
    /\ OneLiveAttempt
    /\ CountedOnce
    /\ \A n \in Attempts : att[n].status = "SUCCEEDED" => Len(bank[n].pays) > 0
    /\ inv.status = "PAID" => \E n \in Attempts : att[n].status = "SUCCEEDED"

IInv == TypeOK /\ RowsOK /\ \A q \in Procs : ProcOK(proc[q])

(* What no step undoes.                                                    *)
Grows ==
    /\ \A n \in Attempts : att[n].status \in {"SUCCEEDED", "FAILED"} => att'[n].status = att[n].status
    /\ \A n \in Attempts : att[n].status # "NONE" => att'[n].status # "NONE"
    /\ \A n \in Attempts : /\ Len(bank[n].pays) <= Len(bank'[n].pays)
                           /\ Len(bank[n].pays) > 0 => bank'[n].pays[1] = bank[n].pays[1]

----------------------------------------------------------------------------
USE DEF At

LEMMA TypeFacts ==
    ASSUME TypeOK, NEW p \in Procs
    PROVE  /\ proc[p] \in Process
           /\ Idle \in Process
           /\ Only(p) \in Process
           /\ \A n \in Attempts : CopyOf(n) \in Copy
  <1>1. proc[p] \in Process
    BY DEF TypeOK
  <1>2. NoInvoice \in Invoice /\ NoCopy \in Copy
    BY DEF NoInvoice, Invoice, InvoiceStatus, NoCopy, Copy, AttemptStatus
  <1>3. Idle \in Process
    BY <1>2, CollectionAssumption DEF Process, Idle, Steps, AllOps
  <1>4. Only(p) \in Process
    BY <1>1, <1>3 DEF Only, Process, Idle
  <1>5. \A n \in Attempts : CopyOf(n) \in Copy
    BY DEF TypeOK, CopyOf, Copy, Attempt
  <1> QED
    BY <1>1, <1>3, <1>4, <1>5

(* What a process relies on stays true while others run.                   *)
LEMMA Untouched ==
    ASSUME TypeOK, TypeOK', Grows, NEW q \in Procs, proc'[q] = proc[q], ProcOK(proc[q])
    PROVE  ProcOK(proc[q])'
  <1>1. PICK r \in Process : r = proc[q] /\ r = proc'[q]
    BY DEF TypeOK
  <1>2. ProcOK(r)
    BY <1>1
  <1>3. r.n \in 0..MaxAttempts /\ r.page.n \in 0..MaxAttempts
    BY DEF Process
  <1>4. r.pc \in HasPayments => r.pc \in HasAttempt
    BY DEF HasPayments, HasAttempt
  <1>5. r.pc \in HasPayments => /\ Len(bank[r.n].pays) > 0
                                /\ bank[r.n].pays \in Seq(Payment)
                                /\ r.seen <= Len(bank'[r.n].pays)
                                /\ bank'[r.n].pays[1] = bank[r.n].pays[1]
    <2> SUFFICES ASSUME r.pc \in HasPayments
                 PROVE  /\ Len(bank[r.n].pays) > 0
                        /\ bank[r.n].pays \in Seq(Payment)
                        /\ r.seen <= Len(bank'[r.n].pays)
                        /\ bank'[r.n].pays[1] = bank[r.n].pays[1]
      OBVIOUS
    <2>1. r.n \in Attempts /\ 1 <= r.seen /\ r.seen <= Len(bank[r.n].pays)
      BY <1>2, <1>4 DEF ProcOK
    <2>2. bank[r.n] \in Charge /\ bank'[r.n] \in Charge
      BY <2>1 DEF TypeOK
    <2>3. bank[r.n].pays \in Seq(Payment) /\ bank'[r.n].pays \in Seq(Payment) /\ r.seen \in Nat
      BY <2>2 DEF Charge, Process
    <2>4. Len(bank[r.n].pays) \in Nat /\ Len(bank'[r.n].pays) \in Nat
      BY <2>3
    <2> QED
      BY <2>1, <2>3, <2>4 DEF Grows
  <1>6. r.pc \in HasAttempt => r.n \in Attempts /\ att'[r.n].status # "NONE"
    BY <1>2 DEF ProcOK, Grows
  <1>7. r.op = "sweep" => r.page.n \in Attempts /\ att'[r.page.n].status # "NONE"
    BY <1>2 DEF ProcOK, Grows
  <1>8. r.pc = "create" => r.n \in Attempts /\ \A m \in Attempts : m < r.n => att'[m].status = "FAILED"
    BY <1>2 DEF ProcOK, Grows
  <1>9. r.pc \in HasAttempt /\ att[r.n].status \in {"SUCCEEDED", "FAILED"} => att'[r.n].status = att[r.n].status
    BY <1>6 DEF Grows
  <1>10. r.pc \in {"cancel", "update", "get"} =>
            r.a.status # "NONE" /\ (r.a.status # "PENDING" => att'[r.n].status = r.a.status)
    BY <1>2, <1>9 DEF ProcOK, Process, Copy, AttemptStatus, HasAttempt
  <1>11. r.pc \in {"invoice", "excess"} =>
            r.a.status \in {"SUCCEEDED", "FAILED"} /\ att'[r.n].status = r.a.status
    BY <1>2, <1>9 DEF ProcOK, HasAttempt
  <1>12. r.pc = "lower" => Collectable(r.iv) <= bank'[r.n].pays[1].amt
    BY <1>2, <1>5 DEF ProcOK, First, HasPayments
  <1>13. r.pc = "settle" => r.a.amount <= bank'[r.n].pays[1].amt
    BY <1>2, <1>5 DEF ProcOK, First, HasPayments
  <1>14. r.pc = "invoice" => r.a.status = "SUCCEEDED"
    BY <1>2 DEF ProcOK
  <1>15. r.pc \in HasPayments => 1 <= r.seen /\ r.seen <= Len(bank'[r.n].pays)
    BY <1>2, <1>5 DEF ProcOK
  <1>16. Collectable(proc[q].iv)' = Collectable(r.iv)
    BY <1>1 DEF Collectable
  <1> QED
    BY <1>1, <1>6, <1>7, <1>8, <1>10, <1>11, <1>12, <1>13, <1>14, <1>15, <1>16 DEF ProcOK, First

(* The step of one process, put together from its parts.                   *)
LEMMA StepKeeps ==
    ASSUME IInv, NEW p \in Procs, TypeOK', Grows, RowsOK',
           \A q \in Procs \ {p} : proc'[q] = proc[q],
           ProcOK(proc[p])'
    PROVE  IInv'
  BY Untouched DEF IInv

(* A step that only reads.                                                 *)
LEMMA ReadKeeps ==
    ASSUME IInv, NEW p \in Procs, UNCHANGED <<inv, att, bank, excess>>,
           /\ proc' \in [Procs -> Process]
           /\ \A q \in Procs \ {p} : proc'[q] = proc[q]
           /\ ProcOK(proc[p])'
    PROVE  IInv'
  <1>1. TypeOK'
    BY DEF IInv, TypeOK
  <1>2. Grows
    BY DEF IInv, TypeOK, Grows, Charge
  <1>3. RowsOK'
    BY DEF IInv, RowsOK, OneLiveAttempt, CountedOnce
  <1> QED
    BY <1>1, <1>2, <1>3, StepKeeps

(* The process becomes r.                                                  *)
LEMMA Becomes ==
    ASSUME TypeOK, NEW p \in Procs, NEW r \in Process, Become(p, r)
    PROVE  /\ proc' \in [Procs -> Process]
           /\ \A q \in Procs \ {p} : proc'[q] = proc[q]
           /\ proc'[p] = r
  BY DEF TypeOK, Become

LEMMA Ends ==
    ASSUME TypeOK, NEW p \in Procs, End(p)
    PROVE  /\ proc' \in [Procs -> Process]
           /\ \A q \in Procs \ {p} : proc'[q] = proc[q]
           /\ ProcOK(proc[p])'
  <1>1. Idle \in Process
    BY TypeFacts
  <1>2. proc'[p] = Idle
    BY DEF End, Become, TypeOK
  <1> QED
    BY <1>1, <1>2 DEF End, Become, TypeOK, ProcOK, Idle, HasAttempt, HasPayments

(* However a request goes on after its charge has been dealt with.         *)
LEMMA Returns ==
    ASSUME IInv, NEW p \in Procs, NEW paid \in BOOLEAN, Return(p, paid), Grows
    PROVE  /\ proc' \in [Procs -> Process]
           /\ \A q \in Procs \ {p} : proc'[q] = proc[q]
           /\ ProcOK(proc[p])'
  <1> USE DEF IInv
  <1>1. CASE proc[p].op = "void" /\ Become(p, [Only(p) EXCEPT !.pc = "void"])
    <2>1. PICK r : r = [Only(p) EXCEPT !.pc = "void"] /\ proc' = [proc EXCEPT ![p] = r]
      BY <1>1 DEF Become
    <2>2. r \in Process /\ r.pc = "void" /\ r.op = "void"
      BY ZenonT(60), <2>1, <1>1, TypeFacts DEF Process, Only, Idle, Steps
    <2> QED
      BY <2>1, <2>2 DEF TypeOK, ProcOK, HasAttempt, HasPayments
  <1>2. CASE /\ proc[p].op = "sweep"
             /\ Become(p, [Idle EXCEPT !.pc = "get", !.op = "confirm", !.n = proc[p].page.n,
                      !.a = [status |-> "PENDING", amount |-> proc[p].page.amount]])
    <2>1. PICK r : /\ r = [Idle EXCEPT !.pc = "get", !.op = "confirm", !.n = proc[p].page.n,
                             !.a = [status |-> "PENDING", amount |-> proc[p].page.amount]]
                   /\ proc' = [proc EXCEPT ![p] = r]
      BY <1>2 DEF Become
    <2>2. proc[p].page \in [n: 0..MaxAttempts, amount: Nat]
      BY TypeFacts DEF Process
    <2>3. r \in Process /\ r.pc = "get" /\ r.op = "confirm" /\ r.n = proc[p].page.n /\ r.a.status = "PENDING"
      BY ZenonT(60), <2>1, <2>2, TypeFacts DEF Process, Idle, Steps, AllOps, Copy, AttemptStatus
    <2>4. proc[p].page.n \in Attempts /\ att'[proc[p].page.n].status # "NONE"
      BY <1>2 DEF ProcOK, Grows
    <2> QED
      BY <2>1, <2>3, <2>4 DEF TypeOK, ProcOK, HasAttempt, HasPayments
  <1>3. CASE End(p)
    BY <1>3, Ends
  <1> QED
    BY <1>1, <1>2, <1>3 DEF Return

(* What the proof of one process's step starts from.                       *)
LEMMA Facts ==
    ASSUME IInv, NEW p \in Procs
    PROVE  /\ TypeOK /\ RowsOK /\ ProcOK(proc[p])
           /\ proc[p] \in Process /\ Idle \in Process /\ Only(p) \in Process
           /\ \A n \in Attempts : CopyOf(n) \in Copy /\ n \in 0..MaxAttempts
           /\ NoInvoice \in Invoice
           /\ 0 \in 0..MaxAttempts /\ 1 \in Attempts
  <1>1. TypeOK /\ RowsOK /\ ProcOK(proc[p])
    BY DEF IInv
  <1>2. \A n \in Attempts : n \in 0..MaxAttempts
    BY DEF Attempts
  <1>3. NoInvoice \in Invoice
    BY DEF NoInvoice, Invoice, InvoiceStatus
  <1>4. 0 \in 0..MaxAttempts /\ 1 \in Attempts
    BY CollectionAssumption DEF Attempts
  <1> QED
    BY <1>1, <1>2, <1>3, <1>4, TypeFacts

----------------------------------------------------------------------------
(* The steps that only read.                                               *)

(* A reading step that hands the process r.                                *)
LEMMA ReadBecomes ==
    ASSUME IInv, NEW p \in Procs, NEW r \in Process, Become(p, r), ProcOK(r),
           UNCHANGED <<inv, att, bank, excess>>
    PROVE  IInv'
  <1>1. TypeOK
    BY DEF IInv
  <1>2. /\ proc' \in [Procs -> Process]
        /\ \A q \in Procs \ {p} : proc'[q] = proc[q]
        /\ proc'[p] = r
    BY <1>1, Becomes
  <1>3. ProcOK(proc[p])'
    BY <1>2 DEF ProcOK, First, Collectable
  <1> QED
    BY <1>2, <1>3, ReadKeeps

LEMMA ReadEnds ==
    ASSUME IInv, NEW p \in Procs, End(p), UNCHANGED <<inv, att, bank, excess>>
    PROVE  IInv'
  BY Ends, ReadKeeps DEF IInv

LEMMA ReadReturns ==
    ASSUME IInv, NEW p \in Procs, NEW paid \in BOOLEAN, Return(p, paid),
           UNCHANGED <<inv, att, bank, excess>>
    PROVE  IInv'
  <1>1. Grows
    BY DEF IInv, TypeOK, Grows, Charge
  <1> QED
    BY <1>1, Returns, ReadKeeps

LEMMA Starts ==
    ASSUME IInv, NEW p \in Procs, Pay(p) \/ NewAttempt(p) \/ VoidInvoice(p)
    PROVE  IInv'
  <1>1. PICK op \in {"pay", "new", "void"}, step \in {"latest", "withdraw"}, i \in Invoice :
           Start(p, op, step, i)
    BY Facts DEF Pay, NewAttempt, VoidInvoice, TypeOK
  <1>2. PICK r : r = [Idle EXCEPT !.pc = step, !.op = op, !.iv = i] /\ Become(p, r)
    BY <1>1 DEF Start
  <1>3. r \in Process /\ r.pc = step /\ r.op = op
    BY ZenonT(60), <1>2, Facts DEF Process, Idle, Steps, AllOps
  <1>4. ProcOK(r)
    BY <1>3 DEF ProcOK, HasAttempt, HasPayments
  <1> QED
    BY <1>1, <1>2, <1>3, <1>4, ReadBecomes DEF Start

(* Completing a pending attempt.                                           *)
LEMMA Completes ==
    ASSUME IInv, NEW p \in Procs, NEW m \in Attempts, att[m].status = "PENDING", Complete(p, m),
           UNCHANGED <<inv, att, bank, excess>>
    PROVE  IInv'
  <1>1. CASE End(p)
    BY <1>1, ReadEnds
  <1>2. CASE Become(p, [Idle EXCEPT !.pc = "charge", !.n = m, !.a = CopyOf(m)])
    <2>1. PICK r : r = [Idle EXCEPT !.pc = "charge", !.n = m, !.a = CopyOf(m)] /\ Become(p, r)
      BY <1>2
    <2>2. CopyOf(m) \in Copy /\ m \in 0..MaxAttempts /\ Idle \in Process
      BY Facts
    <2>3. r \in Process /\ r.pc = "charge" /\ r.op = "none" /\ r.n = m
      BY <2>1, <2>2 DEF Process, Idle, Steps
    <2>4. ProcOK(r)
      BY <2>3 DEF ProcOK, HasAttempt, HasPayments
    <2> QED
      BY <2>1, <2>3, <2>4, ReadBecomes
  <1> QED
    BY <1>1, <1>2 DEF Complete

LEMMA LatestKeeps ==
    ASSUME IInv, NEW p \in Procs, Latest(p)
    PROVE  IInv'
  <1>1. PICK m \in 0..MaxAttempts :
          \/ m = 0 /\ Become(p, [proc[p] EXCEPT !.pc = "create", !.n = 1])
          \/ m > 0 /\ att[m].status = "PENDING" /\ Complete(p, m)
          \/ /\ m > 0 /\ att[m].status = "FAILED" /\ m < MaxAttempts
             /\ Become(p, [proc[p] EXCEPT !.pc = "create", !.n = m + 1])
          \/ End(p)
    BY DEF Latest
  <1>2. UNCHANGED <<inv, att, bank, excess>>
    BY DEF Latest
  <1>3. m > 0 => m \in Attempts
    BY DEF Attempts
  <1>4. CASE End(p)
    BY <1>2, <1>4, ReadEnds
  <1>5. CASE m > 0 /\ att[m].status = "PENDING" /\ Complete(p, m)
    BY <1>2, <1>3, <1>5, Completes
  <1>6. ASSUME NEW k \in Attempts, \A j \in Attempts : j < k => att[j].status = "FAILED",
               Become(p, [proc[p] EXCEPT !.pc = "create", !.n = k])
        PROVE  IInv'
    <2>1. PICK r : r = [proc[p] EXCEPT !.pc = "create", !.n = k] /\ Become(p, r)
      BY <1>6
    <2>2. proc[p] \in Process /\ k \in 0..MaxAttempts
      BY Facts
    <2>3. r \in Process /\ r.pc = "create" /\ r.op = proc[p].op /\ r.page = proc[p].page /\ r.n = k
      BY <2>1, <2>2 DEF Process, Steps
    <2>4. ProcOK(r)
      BY <1>6, <2>3, Facts DEF ProcOK, HasAttempt, HasPayments
    <2> QED
      BY <1>2, <2>1, <2>3, <2>4, ReadBecomes
  <1>7. CASE m = 0 /\ Become(p, [proc[p] EXCEPT !.pc = "create", !.n = 1])
    <2>1. 1 \in Attempts /\ \A j \in Attempts : ~(j < 1)
      BY CollectionAssumption DEF Attempts
    <2> QED
      BY <1>6, <1>7, <2>1
  <1>8. CASE /\ m > 0 /\ att[m].status = "FAILED" /\ m < MaxAttempts
             /\ Become(p, [proc[p] EXCEPT !.pc = "create", !.n = m + 1])
    <2>1. m + 1 \in Attempts
      BY <1>8, CollectionAssumption DEF Attempts
    <2>2. ASSUME NEW j \in Attempts, j < m + 1 PROVE att[j].status = "FAILED"
      <3>1. j = m \/ j < m
        BY <2>2 DEF Attempts
      <3> QED
        BY <3>1, <1>3, <1>8, Facts DEF RowsOK, OneLiveAttempt
    <2> QED
      BY <1>6, <1>8, <2>1, <2>2
  <1> QED
    BY <1>1, <1>4, <1>5, <1>7, <1>8

(* A process that takes the last, pending attempt in hand.                 *)
LEMMA Takes ==
    ASSUME IInv, NEW p \in Procs, NEW m \in Attempts, att[m].status = "PENDING",
           NEW step \in {"cancel", "update"},
           Become(p, [proc[p] EXCEPT !.pc = step, !.n = m, !.a = CopyOf(m)]),
           UNCHANGED <<inv, att, bank, excess>>
    PROVE  IInv'
  <1>1. PICK r : r = [proc[p] EXCEPT !.pc = step, !.n = m, !.a = CopyOf(m)] /\ Become(p, r)
    OBVIOUS
  <1>2. CopyOf(m) \in Copy /\ m \in 0..MaxAttempts /\ proc[p] \in Process
    BY Facts
  <1>3. r \in Process /\ r.pc = step /\ r.op = proc[p].op /\ r.page = proc[p].page /\ r.n = m
        /\ r.a = CopyOf(m)
    BY <1>1, <1>2 DEF Process, Steps
  <1>4. r.a.status = "PENDING"
    BY <1>3 DEF CopyOf
  <1>5. ProcOK(r)
    BY <1>3, <1>4, Facts DEF ProcOK, HasAttempt, HasPayments
  <1> QED
    BY <1>1, <1>3, <1>5, ReadBecomes

LEMMA WithdrawKeeps ==
    ASSUME IInv, NEW p \in Procs, Withdraw(p)
    PROVE  IInv'
  <1>1. UNCHANGED <<inv, att, bank, excess>>
    BY DEF Withdraw
  <1>2. CASE Goto(p, "void")
    <2>1. PICK r : r = [proc[p] EXCEPT !.pc = "void"] /\ Become(p, r)
      BY <1>2 DEF Goto
    <2>2. r \in Process /\ r.pc = "void" /\ r.op = proc[p].op /\ r.page = proc[p].page
      BY <2>1, Facts DEF Process, Steps
    <2>3. ProcOK(r)
      BY <2>2, Facts DEF ProcOK, HasAttempt, HasPayments
    <2> QED
      BY <1>1, <2>1, <2>2, <2>3, ReadBecomes
  <1>3. CASE ~Goto(p, "void")
    <2>1. PICK m \in 0..MaxAttempts :
            /\ m > 0 /\ att[m].status = "PENDING"
            /\ Become(p, [proc[p] EXCEPT !.pc = "cancel", !.n = m, !.a = CopyOf(m)])
      BY <1>3 DEF Withdraw
    <2>2. m \in Attempts
      BY <2>1 DEF Attempts
    <2> QED
      BY <1>1, <2>1, <2>2, Takes
  <1> QED
    BY <1>2, <1>3

LEMMA CreditInvoiceKeeps ==
    ASSUME IInv, NEW p \in Procs, NEW amount \in Notes, CreditInvoice(p, amount)
    PROVE  IInv'
  <1>1. PICK r : /\ r = [Idle EXCEPT !.pc = "issue", !.op = "credit", !.iv = inv, !.note = amount]
                 /\ Become(p, r)
    BY DEF CreditInvoice
  <1>2. amount \in Nat /\ inv \in Invoice /\ Idle \in Process
    BY CollectionAssumption, Facts DEF TypeOK
  <1>3. r \in Process /\ r.pc = "issue" /\ r.op = "credit"
    BY <1>1, <1>2 DEF Process, Idle, Steps, AllOps
  <1>4. ProcOK(r)
    BY <1>3 DEF ProcOK, HasAttempt, HasPayments
  <1> QED
    BY <1>1, <1>3, <1>4, ReadBecomes DEF CreditInvoice

LEMMA FreshKeeps ==
    ASSUME IInv, NEW p \in Procs, Fresh(p)
    PROVE  IInv'
  <1>1. UNCHANGED <<inv, att, bank, excess>>
    BY DEF Fresh
  <1>2. CASE End(p)
    BY <1>1, <1>2, ReadEnds
  <1>3. CASE Become(p, [proc[p] EXCEPT !.pc = "credited", !.iv = inv])
    <2>1. PICK r : r = [proc[p] EXCEPT !.pc = "credited", !.iv = inv] /\ Become(p, r)
      BY <1>3
    <2>2. inv \in Invoice /\ proc[p] \in Process
      BY Facts DEF TypeOK
    <2>3. r \in Process /\ r.pc = "credited" /\ r.op = proc[p].op /\ r.page = proc[p].page
      BY <2>1, <2>2 DEF Process, Steps
    <2>4. ProcOK(r)
      BY <2>3, Facts DEF ProcOK, HasAttempt, HasPayments
    <2> QED
      BY <1>1, <2>1, <2>3, <2>4, ReadBecomes
  <1> QED
    BY <1>2, <1>3 DEF Fresh

LEMMA CreditedKeeps ==
    ASSUME IInv, NEW p \in Procs, Credited(p)
    PROVE  IInv'
  <1>1. UNCHANGED <<inv, att, bank, excess>>
    BY DEF Credited
  <1>2. CASE Return(p, FALSE)
    BY <1>1, <1>2, ReadReturns
  <1>3. CASE ~Return(p, FALSE)
    <2>1. PICK m \in 0..MaxAttempts :
            /\ m > 0 /\ att[m].status = "PENDING"
            /\ Become(p, [proc[p] EXCEPT
                  !.pc = IF Collectable(proc[p].iv) = 0 THEN "cancel" ELSE "update",
                  !.n = m, !.a = CopyOf(m)])
      BY <1>3 DEF Credited
    <2>2. m \in Attempts
      BY <2>1 DEF Attempts
    <2>3. PICK step \in {"cancel", "update"} :
            Become(p, [proc[p] EXCEPT !.pc = step, !.n = m, !.a = CopyOf(m)])
      BY <2>1
    <2> QED
      BY <1>1, <2>1, <2>2, <2>3, Takes
  <1> QED
    BY <1>2, <1>3

LEMMA ConfirmKeeps ==
    ASSUME IInv, NEW p \in Procs, NEW n \in Attempts, Confirm(p, n)
    PROVE  IInv'
  <1>1. PICK r : /\ r = [Idle EXCEPT !.pc = "get", !.op = "confirm", !.n = n, !.a = CopyOf(n)]
                 /\ Become(p, r)
    BY DEF Confirm, Notify
  <1>2. CopyOf(n) \in Copy /\ n \in 0..MaxAttempts /\ Idle \in Process
    BY Facts
  <1>3. r \in Process /\ r.pc = "get" /\ r.op = "confirm" /\ r.n = n /\ r.a = CopyOf(n)
    BY <1>1, <1>2 DEF Process, Idle, Steps, AllOps
  <1>4. r.a.status = att[n].status /\ att[n].status # "NONE"
    BY <1>3 DEF CopyOf, Confirm, Notify
  <1>5. ProcOK(r)
    BY <1>3, <1>4 DEF ProcOK, HasAttempt, HasPayments
  <1> QED
    BY <1>1, <1>3, <1>5, ReadBecomes DEF Confirm, Notify

LEMMA SweepKeeps ==
    ASSUME IInv, NEW p \in Procs, NEW n \in Attempts, Sweep(p, n)
    PROVE  IInv'
  <1> DEFINE step == IF att[n].payable THEN "sweepold" ELSE "sweepnew"
  <1>0. step \in {"sweepnew", "sweepold"}
    OBVIOUS
  <1>1. PICK r : /\ r = [Idle EXCEPT !.pc = step, !.op = "sweep", !.n = n, !.a = CopyOf(n),
                                     !.page = [n |-> n, amount |-> att[n].amount]]
                 /\ Become(p, r)
    BY DEF Sweep
  <1> HIDE DEF step
  <1>2. CopyOf(n) \in Copy /\ n \in 0..MaxAttempts /\ Idle \in Process /\ att[n].amount \in Nat
    BY Facts DEF TypeOK, Attempt
  <1>3. r \in Process /\ r.pc = step /\ r.op = "sweep" /\ r.n = n /\ r.page.n = n
    BY <1>0, <1>1, <1>2 DEF Process, Idle, Steps, AllOps
  <1>4. ProcOK(r)
    BY <1>0, <1>3 DEF ProcOK, HasAttempt, HasPayments, Sweep
  <1> QED
    BY <1>1, <1>3, <1>4, ReadBecomes DEF Sweep

LEMMA SweepNewKeeps ==
    ASSUME IInv, NEW p \in Procs, SweepNew(p)
    PROVE  IInv'
  <1>1. UNCHANGED <<inv, att, bank, excess>> /\ proc[p].pc = "sweepnew"
    BY DEF SweepNew
  <1>2. CASE End(p)
    BY <1>1, <1>2, ReadEnds
  <1>3. CASE Become(p, [Idle EXCEPT !.pc = "charge", !.n = proc[p].n, !.a = proc[p].a])
    <2>1. PICK r : r = [Idle EXCEPT !.pc = "charge", !.n = proc[p].n, !.a = proc[p].a] /\ Become(p, r)
      BY <1>3
    <2>2. r \in Process /\ r.pc = "charge" /\ r.op = "none" /\ r.n = proc[p].n
      BY <2>1, Facts DEF Process, Idle, Steps
    <2>3. ProcOK(r)
      BY <1>1, <2>2, Facts DEF ProcOK, HasAttempt, HasPayments
    <2> QED
      BY <1>1, <2>1, <2>2, <2>3, ReadBecomes
  <1> QED
    BY <1>2, <1>3 DEF SweepNew

LEMMA SweepOldKeeps ==
    ASSUME IInv, NEW p \in Procs, SweepOld(p)
    PROVE  IInv'
  <1>1. UNCHANGED <<inv, att, bank, excess>>
    BY DEF SweepOld
  <1>2. CASE Return(p, FALSE)
    BY <1>1, <1>2, ReadReturns
  <1>3. CASE Become(p, [Only(p) EXCEPT !.pc = "credited", !.iv = inv])
    <2>1. PICK r : r = [Only(p) EXCEPT !.pc = "credited", !.iv = inv] /\ Become(p, r)
      BY <1>3
    <2>2. inv \in Invoice /\ Only(p) \in Process /\ Idle \in Process
      BY Facts DEF TypeOK
    <2>3. r \in Process /\ r.pc = "credited" /\ r.op = proc[p].op /\ r.page = proc[p].page
      BY <2>1, <2>2 DEF Process, Steps, Only, Idle
    <2>4. ProcOK(r)
      BY <2>3, Facts DEF ProcOK, HasAttempt, HasPayments
    <2> QED
      BY <1>1, <2>1, <2>3, <2>4, ReadBecomes
  <1> QED
    BY <1>2, <1>3 DEF SweepOld

(* What the bank's answer lists is a sequence of payments.                 *)
LEMMA Payments ==
    ASSUME TypeOK, NEW n \in Attempts
    PROVE  /\ bank[n] \in Charge /\ bank[n].pays \in Seq(Payment) /\ Len(bank[n].pays) \in Nat
           /\ Len(bank[n].pays) > 0 => First(n) \in Payment /\ First(n).amt \in Nat /\ First(n).late \in Nat
  <1>1. bank[n] \in Charge
    BY DEF TypeOK
  <1>2. bank[n].pays \in Seq(Payment)
    BY <1>1 DEF Charge
  <1>3. Len(bank[n].pays) \in Nat
    BY <1>2
  <1>4. Len(bank[n].pays) > 0 => bank[n].pays[1] \in Payment
    BY <1>2
  <1> QED
    BY <1>1, <1>2, <1>3, <1>4 DEF First, Payment

LEMMA GetChargeKeeps ==
    ASSUME IInv, NEW p \in Procs, GetCharge(p)
    PROVE  IInv'
  <1> DEFINE n == proc[p].n
             seen == Len(bank[n].pays)
  <1>1. UNCHANGED <<inv, att, bank, excess>> /\ proc[p].pc = "get"
    BY DEF GetCharge
  <1>2. n \in Attempts /\ att[n].status # "NONE" /\ n \in 0..MaxAttempts
        /\ proc[p].a.status # "NONE" /\ (proc[p].a.status # "PENDING" => att[n].status = proc[p].a.status)
    BY <1>1, Facts DEF ProcOK, HasAttempt
  <1>3. seen \in Nat
    BY <1>2, Facts, Payments
  <1>4. CASE End(p)
    BY <1>1, <1>4, ReadEnds
  <1>5. CASE Return(p, FALSE)
    BY <1>1, <1>5, ReadReturns
  <1>6. CASE Become(p, [Only(p) EXCEPT !.pc = "expire", !.n = n])
    <2>1. PICK r : r = [Only(p) EXCEPT !.pc = "expire", !.n = n] /\ Become(p, r)
      BY <1>6
    <2>2. Only(p) \in Process /\ Idle \in Process
      BY Facts
    <2>3. r \in Process /\ r.pc = "expire" /\ r.op = proc[p].op /\ r.page = proc[p].page /\ r.n = n
      BY <1>2, <2>1, <2>2 DEF Process, Steps, Only, Idle
    <2>4. ProcOK(r)
      BY <1>2, <2>3, Facts DEF ProcOK, HasAttempt, HasPayments
    <2> QED
      BY <1>1, <2>1, <2>3, <2>4, ReadBecomes
  <1>7. ASSUME seen > 0, NEW step \in {"owed", "invoice", "excess"},
               step = CASE proc[p].a.status = "PENDING"   -> "owed"
                        [] proc[p].a.status = "SUCCEEDED" -> "invoice"
                        [] OTHER                          -> "excess",
               Become(p, [proc[p] EXCEPT !.seen = seen, !.pc = step])
        PROVE  IInv'
    <2>1. PICK r : r = [proc[p] EXCEPT !.seen = seen, !.pc = step] /\ Become(p, r)
      BY <1>7
    <2>2. /\ r \in Process /\ r.pc = step /\ r.op = proc[p].op /\ r.page = proc[p].page
          /\ r.n = n /\ r.a = proc[p].a /\ r.seen = seen
      BY ZenonT(60), <1>3, <2>1, Facts DEF Process, Steps
    <2>3. proc[p].a.status \in AttemptStatus
      BY Facts DEF Process, Copy
    <2>4. step \in {"invoice", "excess"} => proc[p].a.status \in {"SUCCEEDED", "FAILED"}
      BY <1>2, <1>7, <2>3 DEF AttemptStatus
    <2>5. step = "invoice" => proc[p].a.status = "SUCCEEDED"
      BY <1>7
    <2>6. 1 <= seen /\ seen <= seen
      BY <1>3, <1>7
    <2>7. ProcOK(r)
      BY <1>2, <2>2, <2>4, <2>5, <2>6, Facts DEF ProcOK, HasAttempt, HasPayments
    <2> QED
      BY <1>1, <2>1, <2>2, <2>7, ReadBecomes
  <1>8. CASE /\ seen > 0
             /\ Become(p, [proc[p] EXCEPT !.seen = seen, !.pc =
                   CASE proc[p].a.status = "PENDING"   -> "owed"
                     [] proc[p].a.status = "SUCCEEDED" -> "invoice"
                     [] OTHER                          -> "excess"])
    <2> DEFINE step == CASE proc[p].a.status = "PENDING"   -> "owed"
                         [] proc[p].a.status = "SUCCEEDED" -> "invoice"
                         [] OTHER                          -> "excess"
    <2>1. step \in {"owed", "invoice", "excess"}
      OBVIOUS
    <2>2. Become(p, [proc[p] EXCEPT !.seen = seen, !.pc = step])
      BY <1>8
    <2> QED
      BY <1>7, <1>8, <2>1, <2>2
  <1> QED
    BY <1>4, <1>5, <1>6, <1>8 DEF GetCharge

LEMMA OwedKeeps ==
    ASSUME IInv, NEW p \in Procs, Owed(p)
    PROVE  IInv'
  <1> DEFINE n == proc[p].n
  <1>1. UNCHANGED <<inv, att, bank, excess>> /\ proc[p].pc = "owed"
    BY DEF Owed
  <1>2. n \in Attempts /\ att[n].status # "NONE" /\ 1 <= proc[p].seen /\ proc[p].seen <= Len(bank[n].pays)
    BY <1>1, Facts DEF ProcOK, HasAttempt, HasPayments
  <1>3. proc[p] \in Process /\ proc[p].a.amount \in Nat /\ proc[p].seen \in Nat
    BY Facts DEF Process, Copy
  <1>4. First(n).amt \in Nat
    BY <1>2, <1>3, Facts, Payments
  <1>5. CASE End(p)
    BY <1>1, <1>5, ReadEnds
  <1>6. CASE First(n).amt >= Collectable(inv) /\ Become(p, [proc[p] EXCEPT !.pc = "lower", !.iv = inv])
    <2>1. PICK r : r = [proc[p] EXCEPT !.pc = "lower", !.iv = inv] /\ Become(p, r)
      BY <1>6
    <2>2. inv \in Invoice /\ Collectable(inv) \in Nat
      BY Facts, CollectionAssumption DEF TypeOK, Collectable, Invoice
    <2>3. /\ r \in Process /\ r.pc = "lower" /\ r.op = proc[p].op /\ r.page = proc[p].page
          /\ r.n = n /\ r.seen = proc[p].seen /\ r.iv = inv
      BY <1>3, <2>1, <2>2 DEF Process, Steps
    <2>4. Collectable(r.iv) <= First(n).amt
      BY <1>4, <1>6, <2>2, <2>3
    <2>5. ProcOK(r)
      BY <1>2, <2>3, <2>4, Facts DEF ProcOK, HasAttempt, HasPayments
    <2> QED
      BY <1>1, <2>1, <2>3, <2>5, ReadBecomes
  <1>7. CASE ~(First(n).amt < proc[p].a.amount) /\ Goto(p, "settle")
    <2>1. PICK r : r = [proc[p] EXCEPT !.pc = "settle"] /\ Become(p, r)
      BY <1>7 DEF Goto
    <2>2. /\ r \in Process /\ r.pc = "settle" /\ r.op = proc[p].op /\ r.page = proc[p].page
          /\ r.n = n /\ r.seen = proc[p].seen /\ r.a = proc[p].a
      BY <1>3, <2>1 DEF Process, Steps
    <2>3. r.a.amount <= First(n).amt
      BY <1>3, <1>4, <1>7, <2>2
    <2>4. ProcOK(r)
      BY <1>2, <2>2, <2>3, Facts DEF ProcOK, HasAttempt, HasPayments
    <2> QED
      BY <1>1, <2>1, <2>2, <2>4, ReadBecomes
  <1> QED
    BY <1>5, <1>6, <1>7 DEF Owed

LEMMA FailKeeps ==
    ASSUME IInv, NEW p \in Procs, Fail(p)
    PROVE  IInv'
  BY ReadEnds DEF Fail

----------------------------------------------------------------------------
(* The steps that write.  Each shows that nothing final is undone (Grows), *)
(* that the rows stay as they must be, and what the process goes on with.  *)

(* A step that writes the invoice, but never makes it PAID.                *)
LEMMA InvoiceWrite ==
    ASSUME IInv, NEW p \in Procs, inv' \in Invoice, inv'.status = "PAID" => inv.status = "PAID",
           UNCHANGED <<att, bank, excess>>,
           proc' \in [Procs -> Process],
           \A q \in Procs \ {p} : proc'[q] = proc[q],
           ProcOK(proc[p])'
    PROVE  IInv'
  <1>1. TypeOK'
    BY DEF IInv, TypeOK
  <1>2. Grows
    BY DEF IInv, TypeOK, Grows, Charge
  <1>3. RowsOK'
    BY DEF IInv, RowsOK, OneLiveAttempt, CountedOnce
  <1> QED
    BY <1>1, <1>2, <1>3, StepKeeps

LEMMA WriteVoidKeeps ==
    ASSUME IInv, NEW p \in Procs, WriteVoid(p)
    PROVE  IInv'
  <1>1. inv \in Invoice
    BY Facts DEF TypeOK
  <1>2. inv' \in Invoice /\ (inv'.status = "PAID" => inv.status = "PAID")
    BY <1>1 DEF WriteVoid, Invoice, InvoiceStatus
  <1>3. UNCHANGED <<att, bank, excess>> /\ End(p)
    BY DEF WriteVoid
  <1> QED
    BY <1>2, <1>3, Facts, Ends, InvoiceWrite

LEMMA IssueKeeps ==
    ASSUME IInv, NEW p \in Procs, Issue(p)
    PROVE  IInv'
  <1>1. inv \in Invoice /\ proc[p] \in Process /\ proc[p].note \in Nat
    BY Facts DEF TypeOK, Process
  <1>2. inv' \in Invoice /\ (inv'.status = "PAID" => inv.status = "PAID")
    BY <1>1 DEF Issue, Invoice
  <1>3. UNCHANGED <<att, bank, excess>>
    BY DEF Issue
  <1>4. CASE End(p)
    BY <1>2, <1>3, <1>4, Facts, Ends, InvoiceWrite
  <1>5. CASE Become(p, [Only(p) EXCEPT !.pc = "fresh"])
    <2>1. PICK r : r = [Only(p) EXCEPT !.pc = "fresh"] /\ Become(p, r)
      BY <1>5
    <2>2. Only(p) \in Process /\ Idle \in Process
      BY Facts
    <2>3. r \in Process /\ r.pc = "fresh" /\ r.op = proc[p].op /\ r.page = proc[p].page
      BY <2>1, <2>2 DEF Process, Steps, Only, Idle
    <2>4. /\ proc' \in [Procs -> Process]
          /\ \A q \in Procs \ {p} : proc'[q] = proc[q]
          /\ proc'[p] = r
      BY <2>1, <2>3, Facts, Becomes
    <2>5. ProcOK(proc[p])'
      BY <1>3, <2>3, <2>4, Facts DEF ProcOK, HasAttempt, HasPayments
    <2> QED
      BY <1>2, <1>3, <2>4, <2>5, InvoiceWrite
  <1> QED
    BY <1>4, <1>5 DEF Issue

LEMMA SettleInvoiceKeeps ==
    ASSUME IInv, NEW p \in Procs, SettleInvoice(p)
    PROVE  IInv'
  <1>1. inv \in Invoice /\ proc[p] \in Process /\ proc[p].pc = "invoice"
    BY Facts DEF TypeOK, SettleInvoice
  <1>2. UNCHANGED <<att, bank, excess>>
    BY DEF SettleInvoice
  <1>3. CASE UNCHANGED inv /\ End(p)
    BY <1>2, <1>3, ReadEnds
  <1>4. CASE inv' = [inv EXCEPT !.status = "PAID"] /\ Goto(p, "excess")
    <2>1. PICK r : r = [proc[p] EXCEPT !.pc = "excess"] /\ Become(p, r)
      BY <1>4 DEF Goto
    <2>2. /\ r \in Process /\ r.pc = "excess" /\ r.op = proc[p].op /\ r.page = proc[p].page
          /\ r.n = proc[p].n /\ r.seen = proc[p].seen /\ r.a = proc[p].a
      BY <1>1, <2>1 DEF Process, Steps
    <2>3. /\ proc' \in [Procs -> Process]
          /\ \A q \in Procs \ {p} : proc'[q] = proc[q]
          /\ proc'[p] = r
      BY <2>1, <2>2, Facts, Becomes
    <2>4. r.n \in Attempts /\ att[r.n].status = "SUCCEEDED" /\ r.a.status = "SUCCEEDED"
          /\ 1 <= r.seen /\ r.seen <= Len(bank[r.n].pays)
      BY <1>1, <2>2, Facts DEF ProcOK, HasAttempt, HasPayments
    <2>5. ProcOK(proc[p])'
      BY <1>2, <2>2, <2>3, <2>4, Facts DEF ProcOK, HasAttempt, HasPayments
    <2>6. TypeOK'
      BY <1>1, <1>2, <1>4, <2>3, Facts DEF TypeOK, Invoice, InvoiceStatus
    <2>7. Grows
      BY <1>2, Facts DEF TypeOK, Grows, Charge
    <2>8. RowsOK'
      BY <1>2, <2>4, Facts DEF RowsOK, OneLiveAttempt, CountedOnce
    <2> QED
      BY <2>3, <2>5, <2>6, <2>7, <2>8, StepKeeps
  <1> QED
    BY <1>3, <1>4 DEF SettleInvoice

(* The sweep's page keeps naming an attempt that exists.                   *)
LEMMA SweepPage ==
    ASSUME IInv, NEW p \in Procs, Grows, proc[p].op = "sweep"
    PROVE  proc[p].page.n \in Attempts /\ att'[proc[p].page.n].status # "NONE"
  <1>1. proc[p].page.n \in Attempts /\ att[proc[p].page.n].status # "NONE"
    BY Facts DEF ProcOK
  <1> QED
    BY <1>1 DEF Grows

(* A step that writes one attempt row: it exists and stays, an ended one   *)
(* keeps its status, and only a paid one succeeds.                         *)
LEMMA AttemptWrite ==
    ASSUME IInv, NEW n \in Attempts, att' \in [Attempts -> Attempt],
           \A m \in Attempts \ {n} : att'[m] = att[m],
           att[n].status # "NONE", att'[n].status # "NONE",
           att[n].status \in {"SUCCEEDED", "FAILED"} => att'[n].status = att[n].status,
           att'[n].status = "SUCCEEDED" => Len(bank[n].pays) > 0,
           UNCHANGED <<inv, bank, excess>>
    PROVE  Grows /\ RowsOK'
  <1>1. TypeOK /\ RowsOK
    BY DEF IInv
  <1>2. Grows
    <2>1. \A m \in Attempts : Len(bank[m].pays) \in Nat /\ bank'[m] = bank[m]
      BY <1>1, Payments
    <2>2. \A m \in Attempts : Len(bank[m].pays) <= Len(bank'[m].pays) /\ bank'[m].pays[1] = bank[m].pays[1]
      BY <2>1
    <2>3. \A m \in Attempts : m # n => att'[m].status = att[m].status
      OBVIOUS
    <2> QED
      BY <2>2, <2>3 DEF Grows
  <1>3. OneLiveAttempt'
    <2> SUFFICES ASSUME NEW k \in Attempts, NEW m \in Attempts, k < m, att'[m].status # "NONE"
                 PROVE  att'[k].status = "FAILED"
      BY DEF OneLiveAttempt
    <2>1. att[m].status # "NONE"
      OBVIOUS
    <2>2. att[k].status = "FAILED"
      BY <1>1, <2>1 DEF RowsOK, OneLiveAttempt
    <2> QED
      BY <1>2, <2>2 DEF Grows
  <1>4. CountedOnce'
    <2>1. \A e \in excess : e.n \in Attempts
      BY <1>1 DEF TypeOK, Excess
    <2>2. \A e \in excess : att[e.n].status = "FAILED" => att'[e.n].status = "FAILED"
      BY <1>2, <2>1 DEF Grows
    <2> QED
      BY <1>1, <2>2 DEF RowsOK, CountedOnce
  <1>5. \A m \in Attempts : att'[m].status = "SUCCEEDED" => Len(bank'[m].pays) > 0
    BY <1>1 DEF RowsOK
  <1>6. inv'.status = "PAID" => \E m \in Attempts : att'[m].status = "SUCCEEDED"
    BY <1>1, <1>2 DEF RowsOK, Grows
  <1> QED
    BY <1>2, <1>3, <1>4, <1>5, <1>6 DEF RowsOK

(* The same with the process's own part.                                   *)
LEMMA AttemptStep ==
    ASSUME IInv, NEW p \in Procs, att' \in [Attempts -> Attempt],
           UNCHANGED <<inv, bank, excess>>, Grows, RowsOK',
           proc' \in [Procs -> Process],
           \A q \in Procs \ {p} : proc'[q] = proc[q],
           ProcOK(proc[p])'
    PROVE  IInv'
  <1>1. TypeOK'
    BY DEF IInv, TypeOK
  <1> QED
    BY <1>1, StepKeeps

LEMMA SetByokChargeKeeps ==
    ASSUME IInv, NEW p \in Procs, SetByokCharge(p)
    PROVE  IInv'
  <1> DEFINE n == proc[p].n
  <1>1. n \in Attempts /\ att[n].status # "NONE"
    BY Facts DEF ProcOK, HasAttempt, SetByokCharge
  <1>2. att \in [Attempts -> Attempt] /\ att' = [att EXCEPT ![n].payable = TRUE]
        /\ UNCHANGED <<inv, bank, excess>> /\ End(p)
    BY Facts DEF TypeOK, SetByokCharge
  <1>3. att' \in [Attempts -> Attempt] /\ (\A m \in Attempts \ {n} : att'[m] = att[m])
        /\ att'[n].status = att[n].status
    BY <1>1, <1>2 DEF Attempt
  <1>4. att[n].status = "SUCCEEDED" => Len(bank[n].pays) > 0
    BY <1>1, Facts DEF RowsOK
  <1>5. Grows /\ RowsOK'
    BY <1>1, <1>2, <1>3, <1>4, AttemptWrite
  <1> QED
    BY <1>2, <1>3, <1>5, Facts, Ends, AttemptStep

(* The attempt fails, and the request goes on.                             *)
LEMMA FailsAndReturns ==
    ASSUME IInv, NEW p \in Procs, proc[p].pc \in {"fail", "expire"},
           FailAttempt(proc[p].n), Return(p, FALSE), UNCHANGED <<inv, bank, excess>>
    PROVE  IInv'
  <1> DEFINE n == proc[p].n
  <1>1. n \in Attempts /\ att[n].status # "NONE"
    BY Facts DEF ProcOK, HasAttempt
  <1>2. /\ att \in [Attempts -> Attempt]
        /\ att' = [att EXCEPT ![n].status = IF @ = "PENDING" THEN "FAILED" ELSE @]
    BY Facts DEF TypeOK, FailAttempt
  <1>3. att' \in [Attempts -> Attempt] /\ (\A m \in Attempts \ {n} : att'[m] = att[m])
        /\ att'[n].status = IF att[n].status = "PENDING" THEN "FAILED" ELSE att[n].status
    BY <1>1, <1>2 DEF Attempt, AttemptStatus
  <1>4. att'[n].status = "SUCCEEDED" => Len(bank[n].pays) > 0
    BY <1>1, <1>3, Facts DEF RowsOK
  <1>5. Grows /\ RowsOK'
    BY <1>1, <1>3, <1>4, AttemptWrite
  <1> QED
    BY <1>3, <1>5, Returns, AttemptStep

LEMMA CancelledKeeps ==
    ASSUME IInv, NEW p \in Procs, Cancelled(p) \/ Expire(p)
    PROVE  IInv'
  BY FailsAndReturns DEF Cancelled, Expire

(* The amount of a pending attempt changes.                                *)
LEMMA AmountWrite ==
    ASSUME IInv, NEW n \in Attempts, NEW amount \in Nat, att[n].status = "PENDING",
           att' = [att EXCEPT ![n].amount = amount], UNCHANGED <<inv, bank, excess>>
    PROVE  att' \in [Attempts -> Attempt] /\ Grows /\ RowsOK' /\ att'[n].status = "PENDING"
  <1>1. att \in [Attempts -> Attempt]
    BY DEF IInv, TypeOK
  <1>2. att' \in [Attempts -> Attempt] /\ (\A m \in Attempts \ {n} : att'[m] = att[m])
        /\ att'[n].status = "PENDING"
    BY <1>1 DEF Attempt
  <1> QED
    BY <1>2, AttemptWrite

LEMMA CollectableNat ==
    ASSUME NEW i \in Invoice
    PROVE  Collectable(i) \in Nat /\ Collectable(i) <= Total
  BY CollectionAssumption DEF Collectable, Invoice

LEMMA SetByokAmountKeeps ==
    ASSUME IInv, NEW p \in Procs, SetByokAmount(p)
    PROVE  IInv'
  <1> DEFINE n == proc[p].n
  <1>1. n \in Attempts /\ Collectable(proc[p].iv) \in Nat
    BY Facts, CollectableNat DEF ProcOK, HasAttempt, SetByokAmount, Process
  <1>2. UNCHANGED <<inv, bank, excess>>
    BY DEF SetByokAmount
  <1>3. CASE UNCHANGED att /\ End(p)
    BY <1>2, <1>3, ReadEnds
  <1>4. CASE /\ att[n].status = "PENDING"
             /\ att' = [att EXCEPT ![n].amount = Collectable(proc[p].iv)] /\ Return(p, FALSE)
    <2>1. att' \in [Attempts -> Attempt] /\ Grows /\ RowsOK'
      BY <1>1, <1>2, <1>4, AmountWrite
    <2> QED
      BY <1>2, <1>4, <2>1, Returns, AttemptStep
  <1> QED
    BY <1>3, <1>4 DEF SetByokAmount

LEMMA LowerKeeps ==
    ASSUME IInv, NEW p \in Procs, Lower(p)
    PROVE  IInv'
  <1> DEFINE n == proc[p].n
             owed == Collectable(proc[p].iv)
  <1>1. /\ n \in Attempts /\ owed <= First(n).amt
        /\ 1 <= proc[p].seen /\ proc[p].seen <= Len(bank[n].pays)
    BY Facts DEF ProcOK, HasAttempt, HasPayments, Lower
  <1>2. proc[p] \in Process /\ owed \in Nat /\ proc[p].a \in Copy /\ NoInvoice \in Invoice
    BY Facts, CollectableNat DEF Process
  <1>3. UNCHANGED <<inv, bank, excess>>
    BY DEF Lower
  <1>4. CASE UNCHANGED att /\ End(p)
    BY <1>3, <1>4, ReadEnds
  <1>5. CASE /\ att[n].status = "PENDING" /\ att' = [att EXCEPT ![n].amount = owed]
             /\ Become(p, [proc[p] EXCEPT !.pc = "settle", !.a.amount = owed, !.iv = NoInvoice])
    <2>1. att' \in [Attempts -> Attempt] /\ Grows /\ RowsOK' /\ att'[n].status = "PENDING"
      BY <1>1, <1>2, <1>3, <1>5, AmountWrite
    <2>2. PICK r : r = [proc[p] EXCEPT !.pc = "settle", !.a.amount = owed, !.iv = NoInvoice] /\ Become(p, r)
      BY <1>5
    <2>3. /\ r \in Process /\ r.pc = "settle" /\ r.op = proc[p].op /\ r.page = proc[p].page
          /\ r.n = n /\ r.seen = proc[p].seen /\ r.a.amount = owed
      BY <1>2, <2>2 DEF Process, Steps, Copy
    <2>4. /\ proc' \in [Procs -> Process]
          /\ \A q \in Procs \ {p} : proc'[q] = proc[q]
          /\ proc'[p] = r
      BY <2>2, <2>3, Facts, Becomes
    <2>5. r.op = "sweep" => r.page.n \in Attempts /\ att'[r.page.n].status # "NONE"
      BY <2>1, <2>3, SweepPage
    <2>6. r.a.amount <= bank'[n].pays[1].amt /\ bank'[n] = bank[n]
      BY <1>1, <1>3, <2>3 DEF First
    <2>7. ProcOK(proc[p])'
      BY <1>1, <2>1, <2>3, <2>4, <2>5, <2>6 DEF ProcOK, HasAttempt, HasPayments, First
    <2> QED
      BY <1>3, <2>1, <2>4, <2>7, AttemptStep
  <1> QED
    BY <1>4, <1>5 DEF Lower

LEMMA SettleAttemptKeeps ==
    ASSUME IInv, NEW p \in Procs, SettleAttempt(p)
    PROVE  IInv'
  <1> DEFINE n == proc[p].n
             late == Smaller(First(n).late, First(n).amt - proc[p].a.amount)
  <1>1. /\ n \in Attempts /\ att[n].status # "NONE" /\ proc[p].a.amount <= First(n).amt
        /\ 1 <= proc[p].seen /\ proc[p].seen <= Len(bank[n].pays)
    BY Facts DEF ProcOK, HasAttempt, HasPayments, SettleAttempt
  <1>2. /\ proc[p] \in Process /\ proc[p].a \in Copy /\ proc[p].a.amount \in Nat /\ proc[p].seen \in Nat
        /\ CopyOf(n) \in Copy /\ att \in [Attempts -> Attempt]
    BY <1>1, Facts DEF Process, Copy, TypeOK
  <1>3. Len(bank[n].pays) > 0 /\ First(n).amt \in Nat /\ First(n).late \in Nat
    BY <1>1, <1>2, Facts, Payments
  <1>4. late \in Nat
    BY <1>1, <1>2, <1>3 DEF Smaller
  <1>5. UNCHANGED <<inv, bank, excess>>
    BY DEF SettleAttempt
  <1>6. CASE UNCHANGED att /\ End(p)
    BY <1>5, <1>6, ReadEnds
  <1>7. ASSUME att' \in [Attempts -> Attempt], Grows, RowsOK', att'[n].status = "SUCCEEDED",
               NEW c \in Copy, c.status = "SUCCEEDED",
               Become(p, [proc[p] EXCEPT !.pc = "invoice", !.a = c])
        PROVE  IInv'
    <2>1. PICK r : r = [proc[p] EXCEPT !.pc = "invoice", !.a = c] /\ Become(p, r)
      BY <1>7
    <2>2. /\ r \in Process /\ r.pc = "invoice" /\ r.op = proc[p].op /\ r.page = proc[p].page
          /\ r.n = n /\ r.seen = proc[p].seen /\ r.a.status = "SUCCEEDED"
      BY <1>2, <1>7, <2>1 DEF Process, Steps
    <2>3. /\ proc' \in [Procs -> Process]
          /\ \A q \in Procs \ {p} : proc'[q] = proc[q]
          /\ proc'[p] = r
      BY <2>1, <2>2, Facts, Becomes
    <2>4. r.op = "sweep" => r.page.n \in Attempts /\ att'[r.page.n].status # "NONE"
      BY <1>7, <2>2, SweepPage
    <2>5. bank'[n] = bank[n]
      BY <1>5
    <2>6. ProcOK(proc[p])'
      BY <1>1, <1>7, <2>2, <2>3, <2>4, <2>5 DEF ProcOK, HasAttempt, HasPayments
    <2> QED
      BY <1>5, <1>7, <2>3, <2>6, AttemptStep
  <1>8. CASE /\ att[n].status = "PENDING"
             /\ att' = [att EXCEPT ![n].status = "SUCCEEDED", ![n].late = late]
             /\ Become(p, [proc[p] EXCEPT !.pc = "invoice", !.a.status = "SUCCEEDED"])
    <2> HIDE DEF late
    <2>1. att' \in [Attempts -> Attempt] /\ (\A m \in Attempts \ {n} : att'[m] = att[m])
          /\ att'[n].status = "SUCCEEDED"
      BY ZenonT(60), <1>1, <1>2, <1>4, <1>8 DEF Attempt, AttemptStatus
    <2>2. Grows /\ RowsOK'
      BY <1>1, <1>3, <1>5, <1>8, <2>1, AttemptWrite
    <2>3. PICK c : c = [proc[p].a EXCEPT !.status = "SUCCEEDED"]
      OBVIOUS
    <2>4. c \in Copy /\ c.status = "SUCCEEDED"
      BY <1>2, <2>3 DEF Copy, AttemptStatus
    <2>5. Become(p, [proc[p] EXCEPT !.pc = "invoice", !.a = c])
      BY <1>2, <1>8, <2>3 DEF Process
    <2> QED
      BY <1>7, <2>1, <2>2, <2>4, <2>5
  <1>9. CASE /\ att[n].status = "SUCCEEDED" /\ UNCHANGED att
             /\ Become(p, [proc[p] EXCEPT !.pc = "invoice", !.a = CopyOf(n)])
    <2>1. att' \in [Attempts -> Attempt] /\ Grows /\ RowsOK' /\ att'[n].status = "SUCCEEDED"
      BY <1>1, <1>2, <1>3, <1>5, <1>9, AttemptWrite
    <2>2. CopyOf(n).status = "SUCCEEDED"
      BY <1>9 DEF CopyOf
    <2> QED
      BY <1>2, <1>7, <1>9, <2>1, <2>2
  <1> QED
    BY <1>6, <1>8, <1>9 DEF SettleAttempt

(* A new attempt: its number is free and every earlier attempt has failed. *)
LEMMA OpenKeeps ==
    ASSUME IInv, NEW p \in Procs, Open(p)
    PROVE  IInv'
  <1> DEFINE n == proc[p].n
             amount == Collectable(proc[p].iv)
             new == [status |-> "PENDING", amount |-> amount, payable |-> FALSE, late |-> 0]
  <1>1. n \in Attempts /\ \A m \in Attempts : m < n => att[m].status = "FAILED"
    BY Facts DEF ProcOK, Open, CreateByokAttempt
  <1>2. amount \in Nat /\ att \in [Attempts -> Attempt] /\ TypeOK /\ RowsOK
    BY Facts, CollectableNat DEF Process, TypeOK
  <1>3. UNCHANGED <<inv, bank, excess>>
    BY DEF Open, CreateByokAttempt
  <1>4. CASE /\ att[n].status = "NONE" /\ att' = [att EXCEPT ![n] = new]
             /\ Become(p, [Idle EXCEPT !.pc = "charge", !.n = n,
                             !.a = [status |-> "PENDING", amount |-> amount]])
    <2>1. new \in Attempt
      BY <1>2 DEF Attempt, AttemptStatus
    <2>2. /\ att' \in [Attempts -> Attempt] /\ att'[n].status = "PENDING"
          /\ \A m \in Attempts : m # n => att'[m] = att[m]
      BY <1>1, <1>2, <1>4, <2>1
    <2>3. PICK r : /\ r = [Idle EXCEPT !.pc = "charge", !.n = n,
                                      !.a = [status |-> "PENDING", amount |-> amount]]
                   /\ Become(p, r)
      BY <1>4
    <2>4. Idle \in Process /\ n \in 0..MaxAttempts /\ [status |-> "PENDING", amount |-> amount] \in Copy
      BY <1>1, <1>2, Facts DEF Copy, AttemptStatus
    <2>5. r \in Process /\ r.pc = "charge" /\ r.op = "none" /\ r.n = n
      BY <2>3, <2>4 DEF Process, Idle, Steps
    <2>6. /\ proc' \in [Procs -> Process]
          /\ \A q \in Procs \ {p} : proc'[q] = proc[q]
          /\ proc'[p] = r
      BY <1>2, <2>3, <2>5, Becomes
    <2>7. ProcOK(proc[p])'
      BY <1>1, <2>2, <2>5, <2>6 DEF ProcOK, HasAttempt, HasPayments
    <2>8. Grows
      <3>1. \A m \in Attempts : Len(bank[m].pays) \in Nat /\ bank'[m] = bank[m]
        BY <1>2, <1>3, Payments
      <3>2. \A m \in Attempts : Len(bank[m].pays) <= Len(bank'[m].pays) /\ bank'[m].pays[1] = bank[m].pays[1]
        BY <3>1
      <3> QED
        BY <1>4, <2>2, <3>2 DEF Grows
    <2>9. OneLiveAttempt'
      <3> SUFFICES ASSUME NEW k \in Attempts, NEW m \in Attempts, k < m, att'[m].status # "NONE"
                   PROVE  att'[k].status = "FAILED"
        BY DEF OneLiveAttempt
      <3>1. CASE m = n
        BY <1>1, <2>8, <3>1 DEF Grows
      <3>2. CASE m # n
        <4>1. att[m].status # "NONE"
          BY <2>2, <3>2
        <4>2. att[k].status = "FAILED"
          BY <1>2, <4>1 DEF RowsOK, OneLiveAttempt
        <4> QED
          BY <2>8, <4>2 DEF Grows
      <3> QED
        BY <3>1, <3>2
    <2>10. CountedOnce'
      <3>1. \A e \in excess : e.n \in Attempts
        BY <1>2 DEF TypeOK, Excess
      <3>2. \A e \in excess : att[e.n].status = "FAILED" => att'[e.n].status = "FAILED"
        BY <2>8, <3>1 DEF Grows
      <3> QED
        BY <1>2, <1>3, <3>2 DEF RowsOK, CountedOnce
    <2>11. \A m \in Attempts : att'[m].status = "SUCCEEDED" => Len(bank'[m].pays) > 0
      BY <1>2, <1>3, <2>2 DEF RowsOK
    <2>12. inv'.status = "PAID" => \E m \in Attempts : att'[m].status = "SUCCEEDED"
      BY <1>2, <1>3, <2>8 DEF RowsOK, Grows
    <2>13. RowsOK'
      BY <2>9, <2>10, <2>11, <2>12 DEF RowsOK
    <2> QED
      BY <1>3, <2>2, <2>6, <2>7, <2>8, <2>13, AttemptStep
  <1>5. CASE UNCHANGED att /\ End(p)
    BY <1>3, <1>5, ReadEnds
  <1>6. CASE UNCHANGED att /\ \E m \in Attempts : att[m].status = "PENDING" /\ Complete(p, m)
    BY <1>3, <1>6, Completes
  <1> QED
    BY <1>4, <1>5, <1>6 DEF Open, CreateByokAttempt

(* A step that writes the bank's charges: payments are only added.         *)
LEMMA BankWrite ==
    ASSUME IInv, bank' \in [Attempts -> Charge], UNCHANGED <<inv, att, excess>>,
           \A n \in Attempts : /\ Len(bank[n].pays) <= Len(bank'[n].pays)
                               /\ Len(bank[n].pays) > 0 => bank'[n].pays[1] = bank[n].pays[1]
    PROVE  Grows /\ RowsOK'
  <1>1. TypeOK /\ RowsOK
    BY DEF IInv
  <1>2. Grows
    BY DEF Grows
  <1>3. \A n \in Attempts : Len(bank[n].pays) \in Nat /\ Len(bank'[n].pays) \in Nat
    BY <1>1, Payments DEF Charge
  <1>4. \A n \in Attempts : att'[n].status = "SUCCEEDED" => Len(bank'[n].pays) > 0
    BY <1>1, <1>3 DEF RowsOK
  <1>5. OneLiveAttempt' /\ CountedOnce'
    BY <1>1 DEF RowsOK, OneLiveAttempt, CountedOnce
  <1> QED
    BY <1>1, <1>2, <1>4, <1>5 DEF RowsOK

(* One charge keeps its payments.                                          *)
LEMMA ChargeWrite ==
    ASSUME IInv, NEW n \in Attempts, NEW c \in Charge, bank' = [bank EXCEPT ![n] = c],
           c.pays = bank[n].pays, UNCHANGED <<inv, att, excess>>
    PROVE  bank' \in [Attempts -> Charge] /\ Grows /\ RowsOK'
  <1>1. bank \in [Attempts -> Charge] /\ TypeOK
    BY DEF IInv, TypeOK
  <1>2. bank' \in [Attempts -> Charge] /\ \A m \in Attempts : bank'[m].pays = bank[m].pays
    BY <1>1
  <1>3. \A m \in Attempts : Len(bank[m].pays) \in Nat
    BY <1>1, Payments
  <1> QED
    BY <1>2, <1>3, BankWrite

LEMMA BankStep ==
    ASSUME IInv, NEW p \in Procs, bank' \in [Attempts -> Charge], NEW r \in Process, Become(p, r),
           UNCHANGED <<inv, att, excess>>, Grows, RowsOK', r.op = "sweep" => proc[p].op = "sweep" /\ r.page = proc[p].page,
           r.n \in Attempts, att[r.n].status # "NONE",
           r.pc \in {"setcharge", "fail", "setamount", "get"},
           r.pc = "get" => /\ r.a.status # "NONE"
                           /\ r.a.status # "PENDING" => att[r.n].status = r.a.status
    PROVE  IInv'
  <1>1. /\ proc' \in [Procs -> Process]
        /\ \A q \in Procs \ {p} : proc'[q] = proc[q]
        /\ proc'[p] = r
    BY Facts, Becomes
  <1>2. r.op = "sweep" => r.page.n \in Attempts /\ att'[r.page.n].status # "NONE"
    BY SweepPage
  <1>3. ProcOK(proc[p])'
    BY <1>1, <1>2 DEF ProcOK, HasAttempt, HasPayments
  <1>4. TypeOK'
    BY <1>1, Facts DEF TypeOK
  <1> QED
    BY <1>1, <1>3, <1>4, StepKeeps

LEMMA CreateChargeKeeps ==
    ASSUME IInv, NEW p \in Procs, CreateCharge(p)
    PROVE  IInv'
  <1> DEFINE n == proc[p].n
  <1>1. n \in Attempts /\ att[n].status # "NONE" /\ n \in 0..MaxAttempts
    BY Facts DEF ProcOK, HasAttempt, CreateCharge
  <1>2. bank[n] \in Charge /\ proc[p].a.amount \in Nat /\ Idle \in Process
    BY <1>1, Facts, Payments DEF Process, Copy
  <1>3. PICK r : r = [Idle EXCEPT !.pc = "setcharge", !.n = n] /\ Become(p, r)
    BY DEF CreateCharge
  <1>4. r \in Process /\ r.pc = "setcharge" /\ r.op = "none" /\ r.n = n
    BY <1>1, <1>2, <1>3 DEF Process, Idle, Steps
  <1>5. UNCHANGED <<inv, att, excess>>
    BY DEF CreateCharge
  <1>6. bank' \in [Attempts -> Charge] /\ Grows /\ RowsOK'
    <2>1. PICK c : /\ c = IF bank[n].status = "none"
                          THEN [bank[n] EXCEPT !.status = "open", !.amount = proc[p].a.amount] ELSE bank[n]
                   /\ bank' = [bank EXCEPT ![n] = c]
      BY <1>1, Facts DEF CreateCharge, TypeOK
    <2>2. c \in Charge /\ c.pays = bank[n].pays
      BY <1>2, <2>1 DEF Charge, ChargeStatus
    <2> QED
      BY <1>1, <1>5, <2>1, <2>2, ChargeWrite
  <1> QED
    BY <1>1, <1>3, <1>4, <1>5, <1>6, BankStep

(* A charge that is no longer open hands over to the re-query.             *)
LEMMA GoesToGet ==
    ASSUME IInv, NEW p \in Procs, UNCHANGED <<inv, att, bank, excess>>,
           proc[p].n \in Attempts, att[proc[p].n].status # "NONE", proc[p].a.status # "NONE",
           proc[p].a.status # "PENDING" => att[proc[p].n].status = proc[p].a.status,
           Become(p, [Only(p) EXCEPT !.pc = "get", !.n = proc[p].n, !.a = proc[p].a])
    PROVE  IInv'
  <1>1. PICK r : r = [Only(p) EXCEPT !.pc = "get", !.n = proc[p].n, !.a = proc[p].a] /\ Become(p, r)
    OBVIOUS
  <1>2. Only(p) \in Process /\ Idle \in Process /\ proc[p].n \in 0..MaxAttempts /\ proc[p].a \in Copy
    BY Facts DEF Process
  <1>3. /\ r \in Process /\ r.pc = "get" /\ r.op = proc[p].op /\ r.page = proc[p].page
        /\ r.n = proc[p].n /\ r.a = proc[p].a
    BY <1>1, <1>2 DEF Process, Steps, Only, Idle
  <1>4. ProcOK(r)
    BY <1>3, Facts DEF ProcOK, HasAttempt, HasPayments
  <1> QED
    BY <1>1, <1>3, <1>4, ReadBecomes

LEMMA CancelChargeKeeps ==
    ASSUME IInv, NEW p \in Procs, CancelCharge(p)
    PROVE  IInv'
  <1> DEFINE n == proc[p].n
  <1>1. /\ n \in Attempts /\ att[n].status # "NONE" /\ n \in 0..MaxAttempts /\ proc[p].a.status # "NONE"
        /\ proc[p].a.status # "PENDING" => att[n].status = proc[p].a.status
    BY Facts DEF ProcOK, HasAttempt, CancelCharge
  <1>2. bank[n] \in Charge /\ proc[p].a \in Copy /\ Only(p) \in Process /\ Idle \in Process
    BY <1>1, Facts, Payments DEF Process
  <1>3. UNCHANGED <<inv, att, excess>>
    BY DEF CancelCharge
  <1>4. CASE /\ bank' = [bank EXCEPT ![n].status = IF @ = "open" THEN "removed" ELSE @]
             /\ Become(p, [Only(p) EXCEPT !.pc = "fail", !.n = n])
    <2>1. PICK r : r = [Only(p) EXCEPT !.pc = "fail", !.n = n] /\ Become(p, r)
      BY <1>4
    <2>2. r \in Process /\ r.pc = "fail" /\ r.op = proc[p].op /\ r.page = proc[p].page /\ r.n = n
      BY <1>1, <1>2, <2>1 DEF Process, Steps, Only, Idle
    <2>3. PICK c : /\ c = [bank[n] EXCEPT !.status = IF @ = "open" THEN "removed" ELSE @]
                   /\ bank' = [bank EXCEPT ![n] = c]
      BY <1>1, <1>4, Facts DEF TypeOK
    <2>4. c \in Charge /\ c.pays = bank[n].pays
      BY <1>2, <2>3 DEF Charge, ChargeStatus
    <2>5. bank' \in [Attempts -> Charge] /\ Grows /\ RowsOK'
      BY <1>1, <1>3, <2>3, <2>4, ChargeWrite
    <2> QED
      BY <1>1, <1>3, <2>1, <2>2, <2>5, BankStep
  <1>5. CASE UNCHANGED bank /\ Become(p, [Only(p) EXCEPT !.pc = "get", !.n = n, !.a = proc[p].a])
    BY <1>1, <1>3, <1>5, GoesToGet
  <1> QED
    BY <1>4, <1>5 DEF CancelCharge

LEMMA UpdateChargeKeeps ==
    ASSUME IInv, NEW p \in Procs, UpdateCharge(p)
    PROVE  IInv'
  <1> DEFINE n == proc[p].n
             due == Collectable(proc[p].iv)
  <1>1. /\ n \in Attempts /\ att[n].status # "NONE" /\ n \in 0..MaxAttempts /\ proc[p].a.status # "NONE"
        /\ proc[p].a.status # "PENDING" => att[n].status = proc[p].a.status
    BY Facts DEF ProcOK, HasAttempt, UpdateCharge
  <1>2. bank[n] \in Charge /\ proc[p] \in Process /\ due \in Nat
    BY <1>1, Facts, Payments, CollectableNat DEF Process
  <1>3. UNCHANGED <<inv, att, excess>>
    BY DEF UpdateCharge
  <1>4. CASE bank' = [bank EXCEPT ![n].amount = due] /\ Goto(p, "setamount")
    <2>1. PICK r : r = [proc[p] EXCEPT !.pc = "setamount"] /\ Become(p, r)
      BY <1>4 DEF Goto
    <2>2. r \in Process /\ r.pc = "setamount" /\ r.op = proc[p].op /\ r.page = proc[p].page /\ r.n = n
      BY <1>2, <2>1 DEF Process, Steps
    <2>3. PICK c : c = [bank[n] EXCEPT !.amount = due] /\ bank' = [bank EXCEPT ![n] = c]
      BY <1>1, <1>4, Facts DEF TypeOK
    <2>4. c \in Charge /\ c.pays = bank[n].pays
      BY <1>2, <2>3 DEF Charge
    <2>5. bank' \in [Attempts -> Charge] /\ Grows /\ RowsOK'
      BY <1>1, <1>3, <2>3, <2>4, ChargeWrite
    <2> QED
      BY <1>1, <1>3, <2>1, <2>2, <2>5, BankStep
  <1>5. CASE UNCHANGED bank /\ Become(p, [Only(p) EXCEPT !.pc = "get", !.n = n, !.a = proc[p].a])
    BY <1>1, <1>3, <1>5, GoesToGet
  <1>6. CASE UNCHANGED bank /\ End(p)
    BY <1>3, <1>6, ReadEnds
  <1> QED
    BY <1>4, <1>5, <1>6 DEF UpdateCharge

(* The payer pays, or the charge lapses: no process moves.                 *)
LEMMA BankMoves ==
    ASSUME IInv, UNCHANGED <<inv, att, excess, proc>>, bank' \in [Attempts -> Charge], Grows, RowsOK'
    PROVE  IInv'
  <1>1. TypeOK'
    BY DEF IInv, TypeOK
  <1> QED
    BY <1>1, Untouched DEF IInv

LEMMA BankExpireKeeps ==
    ASSUME IInv, NEW n \in Attempts, BankExpire(n)
    PROVE  IInv'
  <1>1. PICK c : c = [bank[n] EXCEPT !.status = "expired"] /\ bank' = [bank EXCEPT ![n] = c]
    BY DEF IInv, TypeOK, BankExpire
  <1>2. bank[n] \in Charge
    BY DEF IInv, TypeOK
  <1>3. c \in Charge /\ c.pays = bank[n].pays
    BY <1>1, <1>2 DEF Charge, ChargeStatus
  <1> QED
    BY <1>1, <1>3, ChargeWrite, BankMoves DEF BankExpire

LEMMA BankPayKeeps ==
    ASSUME IInv, NEW n \in Attempts, NEW s \in Surcharges, BankPay(n, s)
    PROVE  IInv'
  <1> DEFINE pay == [amt |-> bank[n].amount + s.late + s.over, late |-> s.late]
             old == bank[n].pays
  <1>1. /\ bank \in [Attempts -> Charge] /\ bank[n] \in Charge /\ bank[n].amount \in Nat
        /\ old \in Seq(Payment) /\ TypeOK
    BY DEF IInv, TypeOK, Charge
  <1>2. pay \in Payment
    BY <1>1, CollectionAssumption DEF Payment
  <1>3. bank' = [bank EXCEPT ![n].status = "concluded", ![n].pays = Append(@, pay)]
        /\ UNCHANGED <<inv, att, excess, proc>>
    BY DEF BankPay
  <1> HIDE DEF pay
  <1>4. PICK c : c = [bank[n] EXCEPT !.status = "concluded", !.pays = Append(old, pay)]
    OBVIOUS
  <1>5. bank' = [bank EXCEPT ![n] = c]
    BY <1>1, <1>3, <1>4
  <1>6. /\ Append(old, pay) \in Seq(Payment) /\ Len(Append(old, pay)) = Len(old) + 1 /\ Len(old) \in Nat
        /\ Len(old) > 0 => Append(old, pay)[1] = old[1]
    BY <1>1, <1>2
  <1>7. c \in Charge /\ c.pays = Append(old, pay)
    BY <1>1, <1>4, <1>6 DEF Charge, ChargeStatus
  <1>8. bank' \in [Attempts -> Charge] /\ bank'[n] = c /\ \A m \in Attempts : m # n => bank'[m] = bank[m]
    BY <1>1, <1>5, <1>7
  <1>9. \A m \in Attempts : Len(bank[m].pays) \in Nat
    BY <1>1, Payments
  <1>10. \A m \in Attempts : /\ Len(bank[m].pays) <= Len(bank'[m].pays)
                             /\ Len(bank[m].pays) > 0 => bank'[m].pays[1] = bank[m].pays[1]
    BY <1>6, <1>7, <1>8, <1>9
  <1> QED
    BY <1>3, <1>8, <1>10, BankWrite, BankMoves

LEMMA AbandonKeeps ==
    ASSUME IInv, Abandon
    PROVE  IInv'
  <1>1. inv' \in Invoice /\ inv'.status # "PAID" /\ UNCHANGED <<att, bank, excess, proc>>
    BY DEF IInv, TypeOK, Abandon, Invoice, InvoiceStatus
  <1>2. TypeOK'
    BY <1>1 DEF IInv, TypeOK
  <1>3. Grows
    BY <1>1 DEF IInv, TypeOK, Grows, Charge
  <1>4. RowsOK'
    BY <1>1 DEF IInv, RowsOK, OneLiveAttempt, CountedOnce
  <1> QED
    BY <1>1, <1>2, <1>3, <1>4, Untouched DEF IInv

(* The rows a re-query writes are well formed, and each is the only one    *)
(* for its payment and kind.                                               *)
LEMMA ExcessFacts ==
    ASSUME TypeOK, NEW n \in Attempts, NEW a \in Copy, NEW seen \in Nat, 1 <= seen, seen <= Len(bank[n].pays)
    PROVE  /\ ExcessOf(n, a, seen) \subseteq Excess
           /\ \A e, f \in ExcessOf(n, a, seen) : <<e.n, e.k, e.tag>> = <<f.n, f.k, f.tag>> => e = f
           /\ \A e \in ExcessOf(n, a, seen) : e.n = n /\ (e.tag = "whole" /\ e.k = 1 => a.status = "FAILED")
  <1> DEFINE from == IF a.status = "FAILED" THEN 1 ELSE 2
             over == First(n).amt - (a.amount + First(n).late)
             Whole == {[n |-> n, k |-> k, tag |-> "whole", amt |-> bank[n].pays[k].amt] : k \in from..seen}
             Over == IF a.status # "FAILED" /\ over > 0
                     THEN {[n |-> n, k |-> 1, tag |-> "over", amt |-> over]} ELSE {}
  <1>1. ExcessOf(n, a, seen) = Whole \cup Over
    BY DEF ExcessOf
  <1>2. /\ bank[n].pays \in Seq(Payment) /\ Len(bank[n].pays) \in Nat
        /\ First(n).amt \in Nat /\ First(n).late \in Nat /\ a.amount \in Nat
    BY Payments DEF Copy
  <1>3. \A k \in from..seen : k \in Nat \ {0} /\ bank[n].pays[k].amt \in Nat
                              /\ (k = 1 => a.status = "FAILED")
    <2> SUFFICES ASSUME NEW k \in from..seen
                 PROVE  k \in Nat \ {0} /\ bank[n].pays[k].amt \in Nat /\ (k = 1 => a.status = "FAILED")
      OBVIOUS
    <2>1. k \in Nat \ {0} /\ k <= seen /\ (k = 1 => a.status = "FAILED")
      OBVIOUS
    <2>2. k \in 1..Len(bank[n].pays)
      BY <1>2, <2>1
    <2>3. bank[n].pays[k] \in Payment
      BY <1>2, <2>2
    <2> QED
      BY <2>1, <2>3 DEF Payment
  <1>4. \A e \in Whole : e \in Excess /\ e.n = n /\ e.tag = "whole" /\ e.amt = bank[n].pays[e.k].amt
                         /\ (e.k = 1 => a.status = "FAILED")
                         /\ e = [n |-> n, k |-> e.k, tag |-> "whole", amt |-> bank[n].pays[e.k].amt]
    BY <1>3 DEF Excess
  <1>5. \A e \in Over : e \in Excess /\ e.n = n /\ e.tag = "over"
                        /\ e = [n |-> n, k |-> 1, tag |-> "over", amt |-> over]
    BY <1>2 DEF Excess
  <1> HIDE DEF Whole, Over
  <1>6. \A e, f \in Whole \cup Over : <<e.n, e.k, e.tag>> = <<f.n, f.k, f.tag>> => e = f
    <2> SUFFICES ASSUME NEW e \in Whole \cup Over, NEW f \in Whole \cup Over,
                        e.k = f.k, e.tag = f.tag
                 PROVE  e = f
      OBVIOUS
    <2>1. CASE e.tag = "whole"
      <3>1. e \in Whole /\ f \in Whole
        BY <1>5, <2>1
      <3> QED
        BY <1>4, <3>1
    <2>2. CASE e.tag = "over"
      <3>1. e \in Over /\ f \in Over
        BY <1>4, <2>2
      <3> QED
        BY <1>5, <3>1
    <2> QED
      BY <1>4, <1>5, <2>1, <2>2
  <1> QED
    BY <1>1, <1>4, <1>5, <1>6

LEMMA RecordExcessKeeps ==
    ASSUME IInv, NEW p \in Procs, RecordExcess(p)
    PROVE  IInv'
  <1> DEFINE n == proc[p].n
             a == proc[p].a
             seen == proc[p].seen
  <1>1. /\ n \in Attempts /\ 1 <= seen /\ seen <= Len(bank[n].pays)
        /\ a.status \in {"SUCCEEDED", "FAILED"} /\ att[n].status = a.status
    BY Facts DEF ProcOK, HasAttempt, HasPayments, RecordExcess
  <1>2. a \in Copy /\ seen \in Nat /\ TypeOK /\ RowsOK
    BY Facts DEF Process
  <1>3. PICK written \in SUBSET ExcessOf(n, a, seen) :
          excess' = excess \cup
             {r \in written : \A e \in excess : <<e.n, e.k, e.tag>> # <<r.n, r.k, r.tag>>}
    BY DEF RecordExcess
  <1>4. UNCHANGED <<inv, att, bank>> /\ Return(p, a.status = "SUCCEEDED")
    BY DEF RecordExcess
  <1>5. /\ \A e \in written : e \in Excess /\ e.n = n /\ (e.tag = "whole" /\ e.k = 1 => a.status = "FAILED")
        /\ \A e, f \in written : <<e.n, e.k, e.tag>> = <<f.n, f.k, f.tag>> => e = f
    BY <1>1, <1>2, ExcessFacts
  <1>6. excess' \subseteq Excess
    BY <1>2, <1>3, <1>5 DEF TypeOK
  <1>7. \A e \in excess' : e.tag = "whole" /\ e.k = 1 => att'[e.n].status = "FAILED"
    BY <1>1, <1>2, <1>3, <1>4, <1>5 DEF RowsOK, CountedOnce
  <1>8. \A e, f \in excess' : <<e.n, e.k, e.tag>> = <<f.n, f.k, f.tag>> => e = f
    <2> SUFFICES ASSUME NEW e \in excess', NEW f \in excess', <<e.n, e.k, e.tag>> = <<f.n, f.k, f.tag>>
                 PROVE  e = f
      OBVIOUS
    <2>1. CASE e \in excess /\ f \in excess
      BY <1>2, <2>1 DEF RowsOK, CountedOnce
    <2>2. CASE e \notin excess /\ f \notin excess
      BY <1>3, <1>5, <2>2
    <2>3. CASE e \in excess /\ f \notin excess
      BY <1>3, <2>3
    <2>4. CASE e \notin excess /\ f \in excess
      BY <1>3, <2>4
    <2> QED
      BY <2>1, <2>2, <2>3, <2>4
  <1>9. CountedOnce'
    BY <1>7, <1>8 DEF CountedOnce
  <1>10. RowsOK'
    BY <1>2, <1>4, <1>9 DEF RowsOK, OneLiveAttempt
  <1>11. Grows
    BY <1>2, <1>4 DEF TypeOK, Grows, Charge
  <1>12. /\ proc' \in [Procs -> Process]
         /\ \A q \in Procs \ {p} : proc'[q] = proc[q]
         /\ ProcOK(proc[p])'
    BY <1>4, <1>11, Returns
  <1>13. TypeOK'
    BY <1>2, <1>4, <1>6, <1>12 DEF TypeOK
  <1> QED
    BY <1>10, <1>11, <1>12, <1>13, StepKeeps

----------------------------------------------------------------------------
(* The invariant is inductive.                                             *)

LEMMA InitHolds == Init => IInv
  <1> SUFFICES ASSUME Init PROVE IInv
    OBVIOUS
  <1>1. NoInvoice \in Invoice /\ NoAttempt \in Attempt /\ NoCharge \in Charge /\ NoCopy \in Copy
    BY DEF NoInvoice, Invoice, InvoiceStatus, NoAttempt, Attempt, AttemptStatus,
           NoCharge, Charge, ChargeStatus, NoCopy, Copy
  <1>2. Idle \in Process
    BY <1>1, CollectionAssumption DEF Process, Idle, Steps, AllOps
  <1>3. TypeOK
    BY <1>1, <1>2 DEF Init, TypeOK
  <1>4. RowsOK
    BY DEF Init, RowsOK, OneLiveAttempt, CountedOnce, NoAttempt, NoInvoice
  <1>5. \A q \in Procs : ProcOK(proc[q])
    BY DEF Init, ProcOK, Idle, HasAttempt, HasPayments
  <1> QED
    BY <1>3, <1>4, <1>5 DEF IInv

LEMMA NextHolds == IInv /\ [Next]_vars => IInv'
  <1> SUFFICES ASSUME IInv, [Next]_vars PROVE IInv'
    OBVIOUS
  <1>1. CASE UNCHANGED vars
    <2>1. TypeOK' /\ RowsOK'
      BY <1>1 DEF vars, IInv, TypeOK, RowsOK, OneLiveAttempt, CountedOnce
    <2>2. Grows
      BY <1>1 DEF vars, IInv, TypeOK, Grows, Charge
    <2> QED
      BY <1>1, <2>1, <2>2, Untouched DEF vars, IInv
  <1>2. ASSUME NEW p \in Procs, Step(p) PROVE IInv'
    BY <1>2, Starts, LatestKeeps, OpenKeeps, CreateChargeKeeps, SetByokChargeKeeps, WithdrawKeeps,
       CancelChargeKeeps, CancelledKeeps, WriteVoidKeeps, IssueKeeps, FreshKeeps, CreditedKeeps,
       UpdateChargeKeeps, SetByokAmountKeeps, GetChargeKeeps, OwedKeeps, LowerKeeps,
       SettleAttemptKeeps, SettleInvoiceKeeps, RecordExcessKeeps, SweepNewKeeps, SweepOldKeeps,
       FailKeeps, CreditInvoiceKeeps, ConfirmKeeps, SweepKeeps DEF Step
  <1>3. ASSUME NEW n \in Attempts, BankExpire(n) \/ \E s \in Surcharges : BankPay(n, s) PROVE IInv'
    BY <1>3, BankExpireKeeps, BankPayKeeps
  <1>4. CASE Abandon
    BY <1>4, AbandonKeeps
  <1> QED
    BY <1>1, <1>2, <1>3, <1>4 DEF Next

THEOREM Inductive == Spec => []IInv
  BY InitHolds, NextHolds, PTL DEF Spec

(* Rows, charges and requests keep their types in every run.               *)
THEOREM TypeCorrect == Spec => []TypeOK
  <1>1. IInv => TypeOK
    BY DEF IInv
  <1> QED
    BY <1>1, Inductive, PTL

(* However checkouts, new Pix requests, voids and sweeps race, at most one *)
(* attempt of the invoice is pending or settled.                           *)
THEOREM OneLive == Spec => []OneLiveAttempt
  <1>1. IInv => OneLiveAttempt
    BY DEF IInv, RowsOK
  <1> QED
    BY <1>1, Inductive, PTL

(* The invoice is paid only by money the bank holds.                       *)
THEOREM PaidIsPaid == Spec => []PaidByPayment
  <1>1. IInv => PaidByPayment
    <2> SUFFICES ASSUME IInv, inv.status = "PAID"
                 PROVE  \E n \in Attempts : att[n].status = "SUCCEEDED" /\ bank[n].pays # <<>>
      BY DEF PaidByPayment
    <2>1. PICK n \in Attempts : att[n].status = "SUCCEEDED" /\ Len(bank[n].pays) > 0
      BY DEF IInv, RowsOK
    <2>2. bank[n].pays # <<>>
      BY <2>1
    <2> QED
      BY <2>1, <2>2
  <1> QED
    BY <1>1, Inductive, PTL

(* No payment is both the settlement of an attempt and a whole excess, and *)
(* no payment is recorded as excess twice.                                 *)
THEOREM MoneyCountedOnce == Spec => []CountedOnce
  <1>1. IInv => CountedOnce
    BY DEF IInv, RowsOK
  <1> QED
    BY <1>1, Inductive, PTL

----------------------------------------------------------------------------
(* What is asked for.  What the invoice still collects only falls, so a    *)
(* copy of it, however old, asks for at least as much; and every amount on *)
(* an attempt, at the bank or in a request's hands comes from such a copy. *)
AttEnough(A, d)  == \A n \in Attempts : A[n].status # "NONE" => A[n].amount >= d
BankEnough(B, d) == \A n \in Attempts : B[n].status = "open" => B[n].amount >= d
ProcEnough(r, d) ==
    /\ Collectable(r.iv) >= d
    /\ r.pc \in {"charge", "sweepnew"} => r.a.amount >= d
AskedInv ==
    /\ AttEnough(att, Collectable(inv))
    /\ BankEnough(bank, Collectable(inv))
    /\ \A q \in Procs : ProcEnough(proc[q], Collectable(inv))

LEMMA CollectableFalls ==
    ASSUME NEW i \in Invoice, NEW j \in Invoice, j.credited >= i.credited,
           i.status = "PAID" => j.status = "PAID"
    PROVE  /\ Collectable(i) \in Nat /\ Collectable(j) \in Nat
           /\ Collectable(j) <= Collectable(i) /\ Collectable(i) <= Total
           /\ Collectable(NoInvoice) = Total
  <1>1. i.credited \in Nat /\ j.credited \in Nat /\ Total \in Nat \ {0}
    BY CollectionAssumption DEF Invoice
  <1> QED
    BY <1>1 DEF Collectable, NoInvoice

(* No step makes the invoice collect more: paid stays paid, and a note is  *)
(* only added.                                                             *)
LEMMA InvoiceFalls ==
    ASSUME TypeOK, TypeOK', [Next]_vars
    PROVE  /\ Collectable(inv) \in Nat /\ Collectable(inv') \in Nat
           /\ Collectable(inv') <= Collectable(inv) /\ Collectable(inv) <= Total
           /\ Collectable(NoInvoice) = Total
  <1>1. inv \in Invoice /\ inv' \in Invoice
    BY DEF TypeOK
  <1>2. inv.credited \in Nat /\ \A q \in Procs : proc[q].note \in Nat
    BY DEF TypeOK, Invoice, Process
  <1>3. inv'.credited >= inv.credited /\ (inv.status = "PAID" => inv'.status = "PAID")
    <2>1. CASE inv' = inv
      BY <2>1, <1>2
    <2>2. ASSUME NEW p \in Procs, WriteVoid(p) \/ Issue(p) \/ SettleInvoice(p)
          PROVE  inv'.credited >= inv.credited /\ (inv.status = "PAID" => inv'.status = "PAID")
      BY <1>1, <1>2, <2>2 DEF WriteVoid, Issue, SettleInvoice, Invoice
    <2>3. CASE Abandon
      BY <1>1, <1>2, <2>3 DEF Abandon, Invoice
    <2>4. ASSUME NEW p \in Procs, Step(p)
          PROVE  inv' = inv \/ WriteVoid(p) \/ Issue(p) \/ SettleInvoice(p)
      BY <2>4 DEF Step, Pay, NewAttempt, Start, Latest, Open, CreateCharge, SetByokCharge, VoidInvoice,
           Withdraw, CancelCharge, Cancelled, Fresh, Credited, UpdateCharge, SetByokAmount, GetCharge,
           Expire, Owed, Lower, SettleAttempt, RecordExcess, SweepNew, SweepOld, Fail, CreditInvoice,
           Confirm, Sweep
    <2>5. ASSUME NEW n \in Attempts, BankExpire(n) \/ \E s \in Surcharges : BankPay(n, s) PROVE inv' = inv
      BY <2>5 DEF BankExpire, BankPay
    <2>6. CASE UNCHANGED vars
      BY <2>1, <2>6 DEF vars
    <2> QED
      BY <2>1, <2>2, <2>3, <2>4, <2>5, <2>6 DEF Next
  <1> QED
    BY <1>1, <1>3, CollectableFalls

(* It is enough to cover what the invoice collected before the step.       *)
LEMMA EnoughBefore ==
    ASSUME TypeOK, TypeOK', [Next]_vars,
           AttEnough(att', Collectable(inv)), BankEnough(bank', Collectable(inv)),
           \A q \in Procs : ProcEnough(proc'[q], Collectable(inv))
    PROVE  AskedInv'
  <1> DEFINE d == Collectable(inv)
             e == Collectable(inv')
  <1>1. d \in Nat /\ e \in Nat /\ e <= d
    BY InvoiceFalls
  <1>2. \A n \in Attempts : att'[n].amount \in Nat /\ bank'[n].amount \in Nat
    BY DEF TypeOK, Attempt, Charge
  <1>3. \A q \in Procs : proc'[q].a.amount \in Nat /\ Collectable(proc'[q].iv) \in Nat
    <2> SUFFICES ASSUME NEW q \in Procs PROVE proc'[q].a.amount \in Nat /\ Collectable(proc'[q].iv) \in Nat
      OBVIOUS
    <2>1. proc'[q] \in Process
      BY DEF TypeOK
    <2>2. proc'[q].a \in Copy /\ proc'[q].iv \in Invoice
      BY <2>1 DEF Process
    <2>3. proc'[q].iv.credited \in Nat
      BY <2>2 DEF Invoice
    <2> QED
      BY <2>2, <2>3, CollectionAssumption DEF Copy, Collectable
  <1> HIDE DEF d, e
  <1>4. AttEnough(att', e)
    BY <1>1, <1>2 DEF AttEnough, d
  <1>5. BankEnough(bank', e)
    BY <1>1, <1>2 DEF BankEnough, d
  <1>6. \A q \in Procs : ProcEnough(proc'[q], e)
    BY <1>1, <1>3 DEF ProcEnough, d
  <1> QED
    BY <1>4, <1>5, <1>6 DEF AskedInv, e, AttEnough, BankEnough, ProcEnough, Collectable

(* A request moves; what the others hold was enough already.               *)
LEMMA ProcMoves ==
    ASSUME TypeOK, AskedInv, NEW p \in Procs, NEW r, Become(p, r), ProcEnough(r, Collectable(inv))
    PROVE  \A q \in Procs : ProcEnough(proc'[q], Collectable(inv))
  <1>1. proc' = [proc EXCEPT ![p] = r] /\ proc \in [Procs -> Process]
    BY DEF Become, TypeOK
  <1>2. \A q \in Procs : proc'[q] = IF q = p THEN r ELSE proc[q]
    BY <1>1
  <1> QED
    BY <1>2 DEF AskedInv

(* A request that has forgotten the invoice asks for the whole of it.      *)
LEMMA ForgetsEnough ==
    ASSUME TypeOK, NEW p \in Procs, NEW r, r.iv = NoInvoice, r.pc \notin {"charge", "sweepnew"}
    PROVE  ProcEnough(r, Collectable(inv))
  <1>1. inv \in Invoice
    BY DEF TypeOK
  <1>2. inv.credited >= inv.credited
    BY <1>1 DEF Invoice
  <1>3. Collectable(NoInvoice) >= Collectable(inv)
    BY <1>1, <1>2, CollectableFalls, CollectionAssumption
  <1> QED
    BY <1>3 DEF ProcEnough

(* A request that goes on to its next call, other than to a charge.        *)
LEMMA GoesOnEnough ==
    ASSUME TypeOK, AskedInv, NEW p \in Procs, NEW r, r.iv = proc[p].iv, r.pc \notin {"charge", "sweepnew"}
    PROVE  ProcEnough(r, Collectable(inv))
  BY DEF AskedInv, ProcEnough

LEMMA EndsEnough ==
    ASSUME TypeOK, AskedInv, NEW p \in Procs, End(p)
    PROVE  \A q \in Procs : ProcEnough(proc'[q], Collectable(inv))
  <1>1. Become(p, Idle) /\ Idle.iv = NoInvoice /\ Idle.pc \notin {"charge", "sweepnew"}
    BY DEF End, Idle
  <1> QED
    BY <1>1, ForgetsEnough, ProcMoves

LEMMA ReturnsEnough ==
    ASSUME TypeOK, AskedInv, NEW p \in Procs, NEW b, Return(p, b)
    PROVE  \A q \in Procs : ProcEnough(proc'[q], Collectable(inv))
  <1>1. CASE End(p)
    BY <1>1, EndsEnough
  <1>2. CASE Become(p, [Only(p) EXCEPT !.pc = "void"])
    <2> DEFINE r == [Only(p) EXCEPT !.pc = "void"]
    <2>1. r.iv = NoInvoice /\ r.pc \notin {"charge", "sweepnew"}
      BY DEF Only, Idle
    <2> HIDE DEF r
    <2>2. Become(p, r)
      BY <1>2 DEF r
    <2> QED
      BY <2>1, <2>2, ForgetsEnough, ProcMoves
  <1>3. CASE Become(p, [Idle EXCEPT !.pc = "get", !.op = "confirm", !.n = proc[p].page.n,
                          !.a = [status |-> "PENDING", amount |-> proc[p].page.amount]])
    <2> DEFINE r == [Idle EXCEPT !.pc = "get", !.op = "confirm", !.n = proc[p].page.n,
                       !.a = [status |-> "PENDING", amount |-> proc[p].page.amount]]
    <2>1. r.iv = NoInvoice /\ r.pc \notin {"charge", "sweepnew"}
      BY DEF Idle
    <2>2. Become(p, r)
      BY <1>3
    <2> HIDE DEF r
    <2> QED
      BY <2>1, <2>2, ForgetsEnough, ProcMoves
  <1> QED
    BY <1>1, <1>2, <1>3 DEF Return

(* A request takes up a pending attempt for what its row asks.             *)
LEMMA CompletesEnough ==
    ASSUME TypeOK, AskedInv, NEW p \in Procs, NEW n \in Attempts, att[n].status # "NONE", Complete(p, n)
    PROVE  \A q \in Procs : ProcEnough(proc'[q], Collectable(inv))
  <1>1. CASE End(p)
    BY <1>1, EndsEnough
  <1>2. CASE Become(p, [Idle EXCEPT !.pc = "charge", !.n = n, !.a = CopyOf(n)])
    <2> DEFINE r == [Idle EXCEPT !.pc = "charge", !.n = n, !.a = CopyOf(n)]
    <2>1. r.iv = NoInvoice /\ r.a.amount = att[n].amount
      BY DEF Idle, CopyOf
    <2>2. att[n].amount >= Collectable(inv)
      BY DEF AskedInv, AttEnough
    <2>3. Collectable(NoInvoice) >= Collectable(inv)
      <3>1. ProcEnough(Idle, Collectable(inv))
        BY ForgetsEnough DEF Idle
      <3> QED
        BY <3>1 DEF ProcEnough, Idle
    <2>4. ProcEnough(r, Collectable(inv))
      <3> HIDE DEF r
      <3> QED
        BY <2>1, <2>2, <2>3 DEF ProcEnough
    <2>5. Become(p, r)
      BY <1>2
    <2> HIDE DEF r
    <2> QED
      BY <2>4, <2>5, ProcMoves
  <1> QED
    BY <1>1, <1>2 DEF Complete

----------------------------------------------------------------------------
(* The same, action by action, against what the invoice collected before.  *)
StillEnough ==
    /\ AttEnough(att', Collectable(inv))
    /\ BankEnough(bank', Collectable(inv))
    /\ \A q \in Procs : ProcEnough(proc'[q], Collectable(inv))

LEMMA AttKept ==
    ASSUME AskedInv, \A n \in Attempts : att'[n].status # "NONE" =>
                        att[n].status # "NONE" /\ att'[n].amount = att[n].amount
    PROVE  AttEnough(att', Collectable(inv))
  BY DEF AskedInv, AttEnough

LEMMA BankKept ==
    ASSUME AskedInv, \A n \in Attempts : bank'[n].status = "open" =>
                        bank[n].status = "open" /\ bank'[n].amount = bank[n].amount
    PROVE  BankEnough(bank', Collectable(inv))
  BY DEF AskedInv, BankEnough

(* A step that only reads, and what its request then holds.                *)
LEMMA ReadEnough ==
    ASSUME AskedInv, UNCHANGED <<att, bank>>, \A q \in Procs : ProcEnough(proc'[q], Collectable(inv))
    PROVE  StillEnough
  <1>1. AttEnough(att', Collectable(inv)) /\ BankEnough(bank', Collectable(inv))
    BY AttKept, BankKept
  <1> QED
    BY <1>1 DEF StillEnough

(* A request that takes the invoice as it is now.                          *)
LEMMA ReadsEnough ==
    ASSUME TypeOK, NEW r, r.iv = inv, r.pc \notin {"charge", "sweepnew"}
    PROVE  ProcEnough(r, Collectable(inv))
  <1>1. inv \in Invoice
    BY DEF TypeOK
  <1>2. inv.credited >= inv.credited
    BY <1>1 DEF Invoice
  <1>3. Collectable(inv) \in Nat
    BY <1>1, <1>2, CollectableFalls
  <1> QED
    BY <1>3 DEF ProcEnough

(* A request that is about to charge what it holds.                        *)
LEMMA ChargesEnough ==
    ASSUME TypeOK, NEW p \in Procs, NEW r, r.iv = NoInvoice, r.a.amount >= Collectable(inv)
    PROVE  ProcEnough(r, Collectable(inv))
  <1>1. Idle.iv = NoInvoice /\ Idle.pc \notin {"charge", "sweepnew"}
    BY DEF Idle
  <1>2. ProcEnough(Idle, Collectable(inv))
    BY <1>1, ForgetsEnough
  <1> QED
    BY <1>1, <1>2 DEF ProcEnough

LEMMA StartsEnough ==
    ASSUME TypeOK, AskedInv, NEW p \in Procs, NEW op, NEW step, step \notin {"charge", "sweepnew"},
           NEW i, i \in {inv, NoInvoice}, Start(p, op, step, i)
    PROVE  StillEnough
  <1> DEFINE r == [Idle EXCEPT !.pc = step, !.op = op, !.iv = i]
  <1>1. r.iv = i /\ r.pc = step
    BY DEF Idle
  <1>2. Become(p, r)
    BY DEF Start
  <1> HIDE DEF r
  <1>3. ProcEnough(r, Collectable(inv))
    <2>1. CASE i = inv
      BY <1>1, <2>1, ReadsEnough
    <2>2. CASE i = NoInvoice
      BY <1>1, <2>2, ForgetsEnough
    <2> QED
      BY <2>1, <2>2
  <1> QED
    BY <1>2, <1>3, ProcMoves, ReadEnough DEF Start

LEMMA LatestEnough ==
    ASSUME TypeOK, AskedInv, NEW p \in Procs, Latest(p)
    PROVE  StillEnough
  <1>1. proc[p] \in Process
    BY DEF TypeOK
  <1>2. \A q \in Procs : ProcEnough(proc'[q], Collectable(inv))
    <2>1. ASSUME NEW k, Become(p, [proc[p] EXCEPT !.pc = "create", !.n = k])
          PROVE  \A q \in Procs : ProcEnough(proc'[q], Collectable(inv))
      <3> DEFINE r == [proc[p] EXCEPT !.pc = "create", !.n = k]
      <3>1. r.iv = proc[p].iv /\ r.pc \notin {"charge", "sweepnew"}
        BY <1>1 DEF Process
      <3>2. Become(p, r)
        BY <2>1
      <3> HIDE DEF r
      <3> QED
        BY <3>1, <3>2, GoesOnEnough, ProcMoves
    <2>2. ASSUME NEW m \in Attempts, att[m].status = "PENDING", Complete(p, m)
          PROVE  \A q \in Procs : ProcEnough(proc'[q], Collectable(inv))
      BY <2>2, CompletesEnough
    <2>3. ASSUME End(p) PROVE \A q \in Procs : ProcEnough(proc'[q], Collectable(inv))
      BY <2>3, EndsEnough
    <2>4. \A m \in 0..MaxAttempts : m > 0 => m \in Attempts
      BY CollectionAssumption DEF Attempts
    <2> QED
      BY <2>1, <2>2, <2>3, <2>4 DEF Latest
  <1> QED
    BY <1>2, ReadEnough DEF Latest

LEMMA OpenEnough ==
    ASSUME TypeOK, AskedInv, NEW p \in Procs, Open(p)
    PROVE  StillEnough
  <1> DEFINE d == Collectable(proc[p].iv)
             new == CreateByokAttempt(proc[p].iv)
  <1>1. d >= Collectable(inv)
    BY DEF AskedInv, ProcEnough
  <1>2. CASE /\ att' = [att EXCEPT ![proc[p].n] = new]
             /\ Become(p, [Idle EXCEPT !.pc = "charge", !.n = proc[p].n,
                             !.a = [status |-> "PENDING", amount |-> new.amount]])
    <2> DEFINE r == [Idle EXCEPT !.pc = "charge", !.n = proc[p].n,
                       !.a = [status |-> "PENDING", amount |-> new.amount]]
    <2>1. new.amount = d
      BY DEF CreateByokAttempt
    <2>2. r.iv = NoInvoice /\ r.a.amount = d
      BY <2>1 DEF Idle
    <2>3. Become(p, r)
      BY <1>2
    <2> HIDE DEF r, d, new
    <2>4. \A q \in Procs : ProcEnough(proc'[q], Collectable(inv))
      BY <1>1, <2>2, <2>3, ChargesEnough, ProcMoves
    <2>5. \A n \in Attempts : att'[n] = IF n = proc[p].n THEN new ELSE att[n]
      BY <1>2 DEF TypeOK
    <2>6. AttEnough(att', Collectable(inv))
      BY <1>1, <2>1, <2>5 DEF AskedInv, AttEnough
    <2>7. BankEnough(bank', Collectable(inv))
      BY BankKept DEF Open
    <2> QED
      BY <2>4, <2>6, <2>7 DEF StillEnough
  <1>3. CASE UNCHANGED att /\ \E m \in Attempts : IF att[m].status = "PENDING" THEN Complete(p, m) ELSE End(p)
    <2>1. \A q \in Procs : ProcEnough(proc'[q], Collectable(inv))
      BY <1>3, CompletesEnough, EndsEnough
    <2> QED
      BY <1>3, <2>1, ReadEnough DEF Open
  <1> QED
    BY <1>2, <1>3 DEF Open

LEMMA CreateChargeEnough ==
    ASSUME TypeOK, AskedInv, NEW p \in Procs, CreateCharge(p)
    PROVE  StillEnough
  <1>1. proc[p].a.amount >= Collectable(inv)
    BY DEF CreateCharge, AskedInv, ProcEnough
  <1>2. \A n \in Attempts : bank[n] \in Charge
    BY DEF TypeOK
  <1>3. \A n \in Attempts : \/ bank'[n] = bank[n]
                            \/ bank'[n] = [bank[n] EXCEPT !.status = "open", !.amount = proc[p].a.amount]
    BY DEF CreateCharge, TypeOK
  <1>4. \A n \in Attempts : bank'[n] = bank[n] \/ bank'[n].amount = proc[p].a.amount
    BY <1>2, <1>3 DEF Charge
  <1>5. BankEnough(bank', Collectable(inv))
    BY <1>1, <1>4 DEF AskedInv, BankEnough
  <1> DEFINE r == [Idle EXCEPT !.pc = "setcharge", !.n = proc[p].n]
  <1>6. r.iv = NoInvoice /\ r.pc \notin {"charge", "sweepnew"}
    BY DEF Idle
  <1>7. Become(p, r)
    BY DEF CreateCharge
  <1> HIDE DEF r
  <1>8. \A q \in Procs : ProcEnough(proc'[q], Collectable(inv))
    BY <1>6, <1>7, ForgetsEnough, ProcMoves
  <1>9. AttEnough(att', Collectable(inv))
    BY AttKept DEF CreateCharge
  <1> QED
    BY <1>5, <1>8, <1>9 DEF StillEnough

(* A request goes on, with the invoice it read, or without it.             *)
LEMMA MovesEnough ==
    ASSUME TypeOK, AskedInv, NEW p \in Procs, NEW r, Become(p, r),
           r.iv \in {proc[p].iv, inv, NoInvoice}, r.pc \notin {"charge", "sweepnew"}
    PROVE  \A q \in Procs : ProcEnough(proc'[q], Collectable(inv))
  <1>1. CASE r.iv = proc[p].iv
    BY <1>1, GoesOnEnough, ProcMoves
  <1>2. CASE r.iv = inv
    BY <1>2, ReadsEnough, ProcMoves
  <1>3. CASE r.iv = NoInvoice
    BY <1>3, ForgetsEnough, ProcMoves
  <1> QED
    BY <1>1, <1>2, <1>3

LEMMA GotoEnough ==
    ASSUME TypeOK, AskedInv, NEW p \in Procs, NEW step, step \notin {"charge", "sweepnew"}, Goto(p, step)
    PROVE  \A q \in Procs : ProcEnough(proc'[q], Collectable(inv))
  <1> DEFINE r == [proc[p] EXCEPT !.pc = step]
  <1>1. proc[p] \in Process
    BY DEF TypeOK
  <1>2. r.iv = proc[p].iv /\ r.pc = step
    BY <1>1 DEF Process
  <1>3. Become(p, r)
    BY DEF Goto
  <1> HIDE DEF r
  <1> QED
    BY <1>2, <1>3, MovesEnough

(* A request takes the pending attempt in hand to cancel or to follow it.  *)
LEMMA TakesEnough ==
    ASSUME TypeOK, AskedInv, NEW p \in Procs, NEW step, step \notin {"charge", "sweepnew"}, NEW m,
           Become(p, [proc[p] EXCEPT !.pc = step, !.n = m, !.a = CopyOf(m)])
    PROVE  \A q \in Procs : ProcEnough(proc'[q], Collectable(inv))
  <1> DEFINE r == [proc[p] EXCEPT !.pc = step, !.n = m, !.a = CopyOf(m)]
  <1>1. proc[p] \in Process
    BY DEF TypeOK
  <1>2. r.iv = proc[p].iv /\ r.pc = step
    BY <1>1 DEF Process
  <1>3. Become(p, r)
    OBVIOUS
  <1> HIDE DEF r
  <1> QED
    BY <1>2, <1>3, MovesEnough

(* It hands over to the re-query with the attempt it has.                  *)
LEMMA HandsOverEnough ==
    ASSUME TypeOK, AskedInv, NEW p \in Procs, NEW n, NEW a,
           Become(p, [Only(p) EXCEPT !.pc = "get", !.n = n, !.a = a])
    PROVE  \A q \in Procs : ProcEnough(proc'[q], Collectable(inv))
  <1> DEFINE r == [Only(p) EXCEPT !.pc = "get", !.n = n, !.a = a]
  <1>1. r.iv = NoInvoice /\ r.pc \notin {"charge", "sweepnew"}
    BY DEF Only, Idle
  <1>2. Become(p, r)
    OBVIOUS
  <1> HIDE DEF r
  <1> QED
    BY <1>1, <1>2, MovesEnough

(* It keeps nothing but what it is, and the attempt's number.              *)
LEMMA OnlyEnough ==
    ASSUME TypeOK, AskedInv, NEW p \in Procs, NEW step, step \notin {"charge", "sweepnew"}, NEW n,
           \/ Become(p, [Only(p) EXCEPT !.pc = step, !.n = n])
           \/ Become(p, [Only(p) EXCEPT !.pc = step])
    PROVE  \A q \in Procs : ProcEnough(proc'[q], Collectable(inv))
  <1> DEFINE r == [Only(p) EXCEPT !.pc = step, !.n = n]
             s == [Only(p) EXCEPT !.pc = step]
  <1>1. r.iv = NoInvoice /\ r.pc = step /\ s.iv = NoInvoice /\ s.pc = step
    BY DEF Only, Idle
  <1>2. Become(p, r) \/ Become(p, s)
    OBVIOUS
  <1> HIDE DEF r, s
  <1> QED
    BY <1>1, <1>2, MovesEnough

LEMMA WithdrawEnough ==
    ASSUME TypeOK, AskedInv, NEW p \in Procs, Withdraw(p)
    PROVE  StillEnough
  <1>1. \A q \in Procs : ProcEnough(proc'[q], Collectable(inv))
    BY TakesEnough, GotoEnough DEF Withdraw
  <1> QED
    BY <1>1, ReadEnough DEF Withdraw

LEMMA CreditedEnough ==
    ASSUME TypeOK, AskedInv, NEW p \in Procs, Credited(p)
    PROVE  StillEnough
  <1>1. \A q \in Procs : ProcEnough(proc'[q], Collectable(inv))
    <2>1. ASSUME NEW m, NEW step, step \in {"cancel", "update"},
                 Become(p, [proc[p] EXCEPT !.pc = step, !.n = m, !.a = CopyOf(m)])
          PROVE  \A q \in Procs : ProcEnough(proc'[q], Collectable(inv))
      BY <2>1, TakesEnough
    <2>2. PICK m \in 0..MaxAttempts :
             \/ Become(p, [proc[p] EXCEPT !.pc = IF Collectable(proc[p].iv) = 0 THEN "cancel" ELSE "update",
                                          !.n = m, !.a = CopyOf(m)])
             \/ Return(p, FALSE)
      BY DEF Credited
    <2>3. CASE Return(p, FALSE)
      BY <2>3, ReturnsEnough
    <2> QED
      BY <2>1, <2>2, <2>3
  <1> QED
    BY <1>1, ReadEnough DEF Credited

LEMMA CancelChargeEnough ==
    ASSUME TypeOK, AskedInv, NEW p \in Procs, CancelCharge(p)
    PROVE  StillEnough
  <1>1. \A q \in Procs : ProcEnough(proc'[q], Collectable(inv))
    BY HandsOverEnough, OnlyEnough DEF CancelCharge
  <1>2. \A n \in Attempts : bank[n] \in Charge
    BY DEF TypeOK
  <1>3. \A n \in Attempts : \/ bank'[n] = bank[n]
                            \/ bank'[n] = [bank[n] EXCEPT !.status = IF @ = "open" THEN "removed" ELSE @]
    BY DEF CancelCharge, TypeOK
  <1>4. \A n \in Attempts : bank'[n] = bank[n] \/ bank'[n].status # "open"
    BY <1>2, <1>3 DEF Charge
  <1>5. BankEnough(bank', Collectable(inv))
    BY <1>4, BankKept
  <1>6. AttEnough(att', Collectable(inv))
    BY AttKept DEF CancelCharge
  <1> QED
    BY <1>1, <1>5, <1>6 DEF StillEnough

(* A failing attempt keeps its amount.                                     *)
LEMMA FailsEnough ==
    ASSUME TypeOK, AskedInv, NEW n, FailAttempt(n)
    PROVE  AttEnough(att', Collectable(inv))
  <1>1. \A m \in Attempts : att[m] \in Attempt
    BY DEF TypeOK
  <1>2. \A m \in Attempts : \/ att'[m] = att[m]
                            \/ att'[m] = [att[m] EXCEPT !.status = IF @ = "PENDING" THEN "FAILED" ELSE @]
    BY DEF FailAttempt, TypeOK
  <1>3. \A m \in Attempts : /\ att'[m].amount = att[m].amount
                            /\ att[m].status = "NONE" => att'[m].status = "NONE"
    BY <1>1, <1>2 DEF Attempt
  <1> QED
    BY <1>3, AttKept

LEMMA FailingEnough ==
    ASSUME TypeOK, AskedInv, NEW p \in Procs, Cancelled(p) \/ Expire(p)
    PROVE  StillEnough
  <1>1. \A q \in Procs : ProcEnough(proc'[q], Collectable(inv))
    BY ReturnsEnough DEF Cancelled, Expire
  <1>2. AttEnough(att', Collectable(inv))
    BY FailsEnough DEF Cancelled, Expire
  <1>3. BankEnough(bank', Collectable(inv))
    BY BankKept DEF Cancelled, Expire
  <1> QED
    BY <1>1, <1>2, <1>3 DEF StillEnough

LEMMA SetByokChargeEnough ==
    ASSUME TypeOK, AskedInv, NEW p \in Procs, SetByokCharge(p)
    PROVE  StillEnough
  <1>1. \A q \in Procs : ProcEnough(proc'[q], Collectable(inv))
    BY EndsEnough DEF SetByokCharge
  <1>2. \A m \in Attempts : att[m] \in Attempt
    BY DEF TypeOK
  <1>3. \A m \in Attempts : att'[m] = att[m] \/ att'[m] = [att[m] EXCEPT !.payable = TRUE]
    BY DEF SetByokCharge, TypeOK
  <1>4. \A m \in Attempts : att'[m].amount = att[m].amount /\ att'[m].status = att[m].status
    BY <1>2, <1>3 DEF Attempt
  <1>5. AttEnough(att', Collectable(inv))
    BY <1>4, AttKept
  <1>6. BankEnough(bank', Collectable(inv))
    BY BankKept DEF SetByokCharge
  <1> QED
    BY <1>1, <1>5, <1>6 DEF StillEnough

LEMMA InvoiceWriteEnough ==
    ASSUME TypeOK, AskedInv, NEW p \in Procs, WriteVoid(p) \/ Issue(p) \/ SettleInvoice(p)
    PROVE  StillEnough
  <1>1. \A q \in Procs : ProcEnough(proc'[q], Collectable(inv))
    BY EndsEnough, OnlyEnough, GotoEnough DEF WriteVoid, Issue, SettleInvoice
  <1> QED
    BY <1>1, ReadEnough DEF WriteVoid, Issue, SettleInvoice

LEMMA CreditInvoiceEnough ==
    ASSUME TypeOK, AskedInv, NEW p \in Procs, NEW amount, CreditInvoice(p, amount)
    PROVE  StillEnough
  <1> DEFINE r == [Idle EXCEPT !.pc = "issue", !.op = "credit", !.iv = inv, !.note = amount]
  <1>1. r.iv = inv /\ r.pc \notin {"charge", "sweepnew"}
    BY DEF Idle
  <1>2. Become(p, r)
    BY DEF CreditInvoice
  <1> HIDE DEF r
  <1>3. \A q \in Procs : ProcEnough(proc'[q], Collectable(inv))
    BY <1>1, <1>2, MovesEnough
  <1> QED
    BY <1>3, ReadEnough DEF CreditInvoice

LEMMA FreshEnough ==
    ASSUME TypeOK, AskedInv, NEW p \in Procs, Fresh(p)
    PROVE  StillEnough
  <1> DEFINE r == [proc[p] EXCEPT !.pc = "credited", !.iv = inv]
  <1>1. proc[p] \in Process
    BY DEF TypeOK
  <1>2. r.iv = inv /\ r.pc \notin {"charge", "sweepnew"}
    BY <1>1 DEF Process
  <1>3. Become(p, r) \/ End(p)
    BY DEF Fresh
  <1> HIDE DEF r
  <1>4. \A q \in Procs : ProcEnough(proc'[q], Collectable(inv))
    BY <1>2, <1>3, MovesEnough, EndsEnough
  <1> QED
    BY <1>4, ReadEnough DEF Fresh

LEMMA UpdateChargeEnough ==
    ASSUME TypeOK, AskedInv, NEW p \in Procs, UpdateCharge(p)
    PROVE  StillEnough
  <1> DEFINE d == Collectable(proc[p].iv)
  <1>1. d >= Collectable(inv)
    BY DEF AskedInv, ProcEnough
  <1>2. \A q \in Procs : ProcEnough(proc'[q], Collectable(inv))
    BY GotoEnough, EndsEnough, HandsOverEnough DEF UpdateCharge
  <1>3. \A n \in Attempts : bank[n] \in Charge
    BY DEF TypeOK
  <1>4. \A n \in Attempts : bank'[n] = bank[n] \/ bank'[n] = [bank[n] EXCEPT !.amount = d]
    BY DEF UpdateCharge, TypeOK
  <1> HIDE DEF d
  <1>5. \A n \in Attempts : bank'[n] = bank[n] \/ bank'[n].amount = d
    BY <1>3, <1>4 DEF Charge
  <1>6. BankEnough(bank', Collectable(inv))
    BY <1>1, <1>5 DEF AskedInv, BankEnough
  <1>7. AttEnough(att', Collectable(inv))
    BY AttKept DEF UpdateCharge
  <1> QED
    BY <1>2, <1>6, <1>7 DEF StillEnough

(* A pending attempt takes the amount of the invoice as it was read.       *)
LEMMA AmountEnough ==
    ASSUME TypeOK, AskedInv, NEW p \in Procs,
           att' = [att EXCEPT ![proc[p].n].amount = Collectable(proc[p].iv)]
    PROVE  AttEnough(att', Collectable(inv))
  <1> DEFINE d == Collectable(proc[p].iv)
  <1>1. d >= Collectable(inv)
    BY DEF AskedInv, ProcEnough
  <1>2. \A n \in Attempts : att[n] \in Attempt
    BY DEF TypeOK
  <1>3. \A n \in Attempts : att'[n] = att[n] \/ att'[n] = [att[n] EXCEPT !.amount = d]
    BY DEF TypeOK
  <1> HIDE DEF d
  <1>4. ASSUME NEW n \in Attempts, att'[n] # att[n] PROVE att'[n].amount = d
    <2>1. att[n] \in Attempt /\ att'[n] = [att[n] EXCEPT !.amount = d]
      BY <1>2, <1>3, <1>4
    <2> QED
      BY <2>1 DEF Attempt
  <1> QED
    BY <1>1, <1>4 DEF AskedInv, AttEnough

LEMMA SetByokAmountEnough ==
    ASSUME TypeOK, AskedInv, NEW p \in Procs, SetByokAmount(p)
    PROVE  StillEnough
  <1>1. \A q \in Procs : ProcEnough(proc'[q], Collectable(inv))
    BY ReturnsEnough, EndsEnough DEF SetByokAmount
  <1>2. AttEnough(att', Collectable(inv))
    BY AmountEnough, AttKept DEF SetByokAmount
  <1>3. BankEnough(bank', Collectable(inv))
    BY BankKept DEF SetByokAmount
  <1> QED
    BY <1>1, <1>2, <1>3 DEF StillEnough

LEMMA LowerEnough ==
    ASSUME TypeOK, AskedInv, NEW p \in Procs, Lower(p)
    PROVE  StillEnough
  <1> DEFINE d == Collectable(proc[p].iv)
             r == [proc[p] EXCEPT !.pc = "settle", !.a.amount = d, !.iv = NoInvoice]
  <1>1. proc[p] \in Process
    BY DEF TypeOK
  <1>2. r.iv = NoInvoice /\ r.pc = "settle"
    BY <1>1 DEF Process
  <1>3. Become(p, r) \/ End(p)
    BY DEF Lower
  <1> HIDE DEF r, d
  <1>4. \A q \in Procs : ProcEnough(proc'[q], Collectable(inv))
    BY <1>2, <1>3, MovesEnough, EndsEnough
  <1>5. AttEnough(att', Collectable(inv))
    BY AmountEnough, AttKept DEF Lower
  <1>6. BankEnough(bank', Collectable(inv))
    BY BankKept DEF Lower
  <1> QED
    BY <1>4, <1>5, <1>6 DEF StillEnough

LEMMA GetChargeEnough ==
    ASSUME TypeOK, AskedInv, NEW p \in Procs, GetCharge(p)
    PROVE  StillEnough
  <1> DEFINE seen == Len(bank[proc[p].n].pays)
             r(step) == [proc[p] EXCEPT !.seen = seen, !.pc = step]
  <1>1. proc[p] \in Process
    BY DEF TypeOK
  <1>2. \A step \in {"owed", "invoice", "excess"} : r(step).iv = proc[p].iv /\ r(step).pc = step
    BY <1>1 DEF Process
  <1>3. \/ End(p)
        \/ Return(p, FALSE)
        \/ Become(p, [Only(p) EXCEPT !.pc = "expire", !.n = proc[p].n])
        \/ \E step \in {"owed", "invoice", "excess"} : Become(p, r(step))
    BY DEF GetCharge
  <1> HIDE DEF r, seen
  <1>4. \A q \in Procs : ProcEnough(proc'[q], Collectable(inv))
    <2>1. CASE End(p)
      BY <2>1, EndsEnough
    <2>2. CASE Return(p, FALSE)
      BY <2>2, ReturnsEnough
    <2>3. CASE Become(p, [Only(p) EXCEPT !.pc = "expire", !.n = proc[p].n])
      BY <2>3, OnlyEnough
    <2>4. ASSUME NEW step \in {"owed", "invoice", "excess"}, Become(p, r(step))
          PROVE  \A q \in Procs : ProcEnough(proc'[q], Collectable(inv))
      <3>1. r(step).iv = proc[p].iv /\ r(step).pc \notin {"charge", "sweepnew"}
        BY <1>2
      <3> QED
        BY <2>4, <3>1, MovesEnough
    <2> QED
      BY <1>3, <2>1, <2>2, <2>3, <2>4
  <1> QED
    BY <1>4, ReadEnough DEF GetCharge

LEMMA OwedEnough ==
    ASSUME TypeOK, AskedInv, NEW p \in Procs, Owed(p)
    PROVE  StillEnough
  <1> DEFINE r == [proc[p] EXCEPT !.pc = "lower", !.iv = inv]
  <1>1. proc[p] \in Process
    BY DEF TypeOK
  <1>2. r.iv = inv /\ r.pc = "lower"
    BY <1>1 DEF Process
  <1>3. Become(p, r) \/ End(p) \/ Goto(p, "settle")
    BY DEF Owed
  <1> HIDE DEF r
  <1>4. \A q \in Procs : ProcEnough(proc'[q], Collectable(inv))
    BY <1>2, <1>3, MovesEnough, EndsEnough, GotoEnough
  <1> QED
    BY <1>4, ReadEnough DEF Owed

LEMMA SettleAttemptEnough ==
    ASSUME TypeOK, AskedInv, NEW p \in Procs, SettleAttempt(p)
    PROVE  StillEnough
  <1> DEFINE n == proc[p].n
             late == Smaller(First(n).late, First(n).amt - proc[p].a.amount)
             r == [proc[p] EXCEPT !.pc = "invoice", !.a.status = "SUCCEEDED"]
             s == [proc[p] EXCEPT !.pc = "invoice", !.a = CopyOf(n)]
  <1>1. proc[p] \in Process
    BY DEF TypeOK
  <1>2. r.iv = proc[p].iv /\ r.pc = "invoice" /\ s.iv = proc[p].iv /\ s.pc = "invoice"
    BY <1>1 DEF Process
  <1>3. Become(p, r) \/ Become(p, s) \/ End(p)
    BY DEF SettleAttempt
  <1>4. \A m \in Attempts : att[m] \in Attempt
    BY DEF TypeOK
  <1>5. \/ UNCHANGED att
        \/ att[n].status = "PENDING" /\ att' = [att EXCEPT ![n].status = "SUCCEEDED", ![n].late = late]
    BY DEF SettleAttempt
  <1> HIDE DEF r, s, late, n
  <1>6. \A q \in Procs : ProcEnough(proc'[q], Collectable(inv))
    BY <1>2, <1>3, MovesEnough, EndsEnough
  <1>7. \A m \in Attempts : \/ att'[m] = att[m]
                            \/ /\ att[m].status = "PENDING"
                               /\ att'[m] = [att[m] EXCEPT !.status = "SUCCEEDED", !.late = late]
    BY <1>5 DEF TypeOK
  <1>8. \A m \in Attempts : /\ att'[m].amount = att[m].amount
                            /\ att'[m].status # "NONE" => att[m].status # "NONE"
    BY <1>4, <1>7 DEF Attempt
  <1>9. AttEnough(att', Collectable(inv))
    BY <1>8, AttKept
  <1>10. BankEnough(bank', Collectable(inv))
    BY BankKept DEF SettleAttempt
  <1> QED
    BY <1>6, <1>9, <1>10 DEF StillEnough

LEMMA RecordExcessEnough ==
    ASSUME TypeOK, AskedInv, NEW p \in Procs, RecordExcess(p)
    PROVE  StillEnough
  <1>1. \A q \in Procs : ProcEnough(proc'[q], Collectable(inv))
    <2>1. PICK paid \in {TRUE, FALSE} : Return(p, paid)
      BY DEF RecordExcess
    <2> QED
      BY <2>1, ReturnsEnough
  <1> QED
    BY <1>1, ReadEnough DEF RecordExcess

LEMMA ConfirmEnough ==
    ASSUME TypeOK, AskedInv, NEW p \in Procs, NEW n \in Attempts, Confirm(p, n)
    PROVE  StillEnough
  <1> DEFINE r == [Idle EXCEPT !.pc = "get", !.op = "confirm", !.n = n, !.a = CopyOf(n)]
  <1>1. r.iv = NoInvoice /\ r.pc = "get"
    BY DEF Idle
  <1>2. Become(p, r)
    BY DEF Confirm
  <1> HIDE DEF r
  <1>3. \A q \in Procs : ProcEnough(proc'[q], Collectable(inv))
    BY <1>1, <1>2, MovesEnough
  <1> QED
    BY <1>3, ReadEnough DEF Confirm

LEMMA SweepEnough ==
    ASSUME TypeOK, AskedInv, NEW p \in Procs, NEW n \in Attempts, Sweep(p, n)
    PROVE  StillEnough
  <1> DEFINE r == [Idle EXCEPT !.pc = IF att[n].payable THEN "sweepold" ELSE "sweepnew",
               !.op = "sweep", !.n = n, !.a = CopyOf(n), !.page = [n |-> n, amount |-> att[n].amount]]
  <1>1. r.iv = NoInvoice /\ r.a.amount = att[n].amount
    BY DEF Idle, CopyOf
  <1>2. Become(p, r)
    BY DEF Sweep
  <1>3. att[n].amount >= Collectable(inv)
    BY DEF Sweep, AskedInv, AttEnough
  <1> HIDE DEF r
  <1>4. \A q \in Procs : ProcEnough(proc'[q], Collectable(inv))
    BY <1>1, <1>2, <1>3, ChargesEnough, ProcMoves
  <1> QED
    BY <1>4, ReadEnough DEF Sweep

LEMMA SweepNewEnough ==
    ASSUME TypeOK, AskedInv, NEW p \in Procs, SweepNew(p)
    PROVE  StillEnough
  <1> DEFINE r == [Idle EXCEPT !.pc = "charge", !.n = proc[p].n, !.a = proc[p].a]
  <1>1. r.iv = NoInvoice /\ r.a = proc[p].a
    BY DEF Idle
  <1>2. Become(p, r) \/ End(p)
    BY DEF SweepNew
  <1>3. proc[p].a.amount >= Collectable(inv)
    BY DEF SweepNew, AskedInv, ProcEnough
  <1> HIDE DEF r
  <1>4. \A q \in Procs : ProcEnough(proc'[q], Collectable(inv))
    BY <1>1, <1>2, <1>3, ChargesEnough, ProcMoves, EndsEnough
  <1> QED
    BY <1>4, ReadEnough DEF SweepNew

LEMMA SweepOldEnough ==
    ASSUME TypeOK, AskedInv, NEW p \in Procs, SweepOld(p)
    PROVE  StillEnough
  <1> DEFINE r == [Only(p) EXCEPT !.pc = "credited", !.iv = inv]
  <1>1. r.iv = inv /\ r.pc = "credited"
    BY DEF Only, Idle
  <1>2. Become(p, r) \/ Return(p, FALSE)
    BY DEF SweepOld
  <1> HIDE DEF r
  <1>3. \A q \in Procs : ProcEnough(proc'[q], Collectable(inv))
    BY <1>1, <1>2, MovesEnough, ReturnsEnough
  <1> QED
    BY <1>3, ReadEnough DEF SweepOld

LEMMA OutsideEnough ==
    ASSUME TypeOK, AskedInv,
           \/ Abandon
           \/ \E n \in Attempts : BankExpire(n) \/ \E s \in Surcharges : BankPay(n, s)
    PROVE  StillEnough
  <1>1. UNCHANGED <<att, proc>>
    BY DEF Abandon, BankExpire, BankPay
  <1>2. \A m \in Attempts : bank[m] \in Charge
    BY DEF TypeOK
  <1>3. \A m \in Attempts : bank'[m].status = "open" => bank'[m] = bank[m]
    <2>1. CASE Abandon
      BY <2>1 DEF Abandon
    <2>2. ASSUME NEW n \in Attempts, BankExpire(n)
          PROVE  \A m \in Attempts : bank'[m].status = "open" => bank'[m] = bank[m]
      <3>1. \A m \in Attempts : bank'[m] = IF m = n THEN [bank[m] EXCEPT !.status = "expired"] ELSE bank[m]
        BY <2>2 DEF BankExpire, TypeOK
      <3> QED
        BY <1>2, <3>1 DEF Charge
    <2>3. ASSUME NEW n \in Attempts, NEW s \in Surcharges, BankPay(n, s)
          PROVE  \A m \in Attempts : bank'[m].status = "open" => bank'[m] = bank[m]
      <3> DEFINE paid == Append(bank[n].pays, [amt |-> bank[n].amount + s.late + s.over, late |-> s.late])
      <3>1. bank' = [bank EXCEPT ![n].status = "concluded", ![n].pays = paid]
        BY <1>2, <2>3 DEF BankPay, TypeOK, Charge
      <3> HIDE DEF paid
      <3>2. \A m \in Attempts :
               bank'[m] = IF m = n THEN [bank[m] EXCEPT !.status = "concluded", !.pays = paid] ELSE bank[m]
        BY <3>1 DEF TypeOK
      <3> QED
        BY <1>2, <3>2 DEF Charge
    <2> QED
      BY <2>1, <2>2, <2>3
  <1>4. BankEnough(bank', Collectable(inv))
    BY <1>3, BankKept
  <1>5. AttEnough(att', Collectable(inv))
    BY <1>1, AttKept
  <1>6. \A q \in Procs : ProcEnough(proc'[q], Collectable(inv))
    BY <1>1 DEF AskedInv
  <1> QED
    BY <1>4, <1>5, <1>6 DEF StillEnough

LEMMA NextEnough ==
    ASSUME TypeOK, AskedInv, [Next]_vars
    PROVE  StillEnough
  <1>1. ASSUME NEW p \in Procs, Step(p) PROVE StillEnough
    <2>1. CASE Pay(p) \/ NewAttempt(p) \/ VoidInvoice(p)
      BY <2>1, StartsEnough DEF Pay, NewAttempt, VoidInvoice
    <2>2. CASE Latest(p) \/ Open(p) \/ CreateCharge(p) \/ SetByokCharge(p)
      BY <2>2, LatestEnough, OpenEnough, CreateChargeEnough, SetByokChargeEnough
    <2>3. CASE Withdraw(p) \/ CancelCharge(p) \/ Cancelled(p) \/ WriteVoid(p)
      BY <2>3, WithdrawEnough, CancelChargeEnough, FailingEnough, InvoiceWriteEnough
    <2>4. CASE Issue(p) \/ Fresh(p) \/ Credited(p) \/ UpdateCharge(p) \/ SetByokAmount(p)
      BY <2>4, InvoiceWriteEnough, FreshEnough, CreditedEnough, UpdateChargeEnough, SetByokAmountEnough
    <2>5. CASE GetCharge(p) \/ Expire(p) \/ Owed(p) \/ Lower(p)
      BY <2>5, GetChargeEnough, FailingEnough, OwedEnough, LowerEnough
    <2>6. CASE SettleAttempt(p) \/ SettleInvoice(p) \/ RecordExcess(p)
      BY <2>6, SettleAttemptEnough, InvoiceWriteEnough, RecordExcessEnough
    <2>7. CASE SweepNew(p) \/ SweepOld(p)
      BY <2>7, SweepNewEnough, SweepOldEnough
    <2>8. CASE Fail(p)
      <3>1. \A q \in Procs : ProcEnough(proc'[q], Collectable(inv))
        BY <2>8, EndsEnough DEF Fail
      <3> QED
        BY <2>8, <3>1, ReadEnough DEF Fail
    <2>9. CASE \/ \E amount \in Notes : CreditInvoice(p, amount)
               \/ \E n \in Attempts : Confirm(p, n) \/ Sweep(p, n)
      BY <2>9, CreditInvoiceEnough, ConfirmEnough, SweepEnough
    <2> QED
      BY <1>1, <2>1, <2>2, <2>3, <2>4, <2>5, <2>6, <2>7, <2>8, <2>9 DEF Step
  <1>2. CASE UNCHANGED vars
    <2>1. UNCHANGED <<att, bank, proc>>
      BY <1>2 DEF vars
    <2> QED
      BY <2>1, ReadEnough DEF AskedInv
  <1> QED
    BY <1>1, <1>2, OutsideEnough DEF Next

LEMMA InitEnough == Init => AskedInv
  <1> SUFFICES ASSUME Init PROVE AskedInv
    OBVIOUS
  <1>1. AttEnough(att, Collectable(inv)) /\ BankEnough(bank, Collectable(inv))
    BY DEF Init, AttEnough, BankEnough, NoAttempt, NoCharge
  <1>2. ASSUME NEW q \in Procs PROVE ProcEnough(proc[q], Collectable(inv))
    <2>1. TypeOK /\ proc[q].iv = NoInvoice /\ proc[q].pc \notin {"charge", "sweepnew"}
      BY InitHolds DEF Init, Idle, IInv
    <2> QED
      BY <2>1, ForgetsEnough
  <1> QED
    BY <1>1, <1>2 DEF AskedInv

(* However notes, retries and half-done updates interleave, an open charge *)
(* never asks the payer for less than the invoice still collects: every    *)
(* amount a request writes comes from a copy of the invoice, and no step   *)
(* makes the invoice collect more than an earlier copy says.               *)
THEOREM NeverAsksLess == Spec => []NeverUndercharged
  <1>1. Init => AskedInv
    BY InitEnough
  <1>2. TypeOK /\ TypeOK' /\ AskedInv /\ [Next]_vars => AskedInv'
    <2> SUFFICES ASSUME TypeOK, TypeOK', AskedInv, [Next]_vars PROVE AskedInv'
      OBVIOUS
    <2>1. StillEnough
      BY NextEnough
    <2> QED
      BY <2>1, EnoughBefore DEF StillEnough
  <1>3. AskedInv => NeverUndercharged
    BY DEF AskedInv, BankEnough, NeverUndercharged
  <1> QED
    BY <1>1, <1>2, <1>3, TypeCorrect, PTL DEF Spec

----------------------------------------------------------------------------
(* Notes.  A note is written only over the invoice as its request read it, *)
(* and the request checked the note against that copy.                     *)
NotesInv ==
    /\ inv.credited <= Total
    /\ \A q \in Procs : proc[q].pc = "issue" => proc[q].iv.credited + proc[q].note <= Total

(* A request other than a new note does not come to write one.             *)
Elsewhere(p) == \A q \in Procs : proc'[q].pc = "issue" => q # p /\ proc'[q] = proc[q]

LEMMA BecomesElsewhere ==
    ASSUME TypeOK, NEW p \in Procs, NEW r, Become(p, r), r.pc # "issue"
    PROVE  Elsewhere(p)
  BY DEF Become, TypeOK, Elsewhere

LEMMA EndsElsewhere ==
    ASSUME TypeOK, NEW p \in Procs, End(p)
    PROVE  Elsewhere(p)
  BY BecomesElsewhere DEF End, Idle

LEMMA ReturnsElsewhere ==
    ASSUME TypeOK, NEW p \in Procs, NEW b, Return(p, b)
    PROVE  Elsewhere(p)
  BY BecomesElsewhere, EndsElsewhere DEF Return, Only, Idle

LEMMA CompletesElsewhere ==
    ASSUME TypeOK, NEW p \in Procs, NEW n, Complete(p, n)
    PROVE  Elsewhere(p)
  BY BecomesElsewhere, EndsElsewhere DEF Complete, Idle

LEMMA StepsElsewhere ==
    ASSUME TypeOK, NEW p \in Procs, Step(p), \A amount \in Notes : ~CreditInvoice(p, amount)
    PROVE  Elsewhere(p)
  <1>1. proc[p] \in Process
    BY DEF TypeOK
  <1>2. CASE Pay(p) \/ NewAttempt(p) \/ VoidInvoice(p)
    BY <1>2, BecomesElsewhere DEF Pay, NewAttempt, VoidInvoice, Start, Idle
  <1>3. CASE Latest(p)
    BY <1>1, <1>3, BecomesElsewhere, EndsElsewhere, CompletesElsewhere DEF Latest, Process
  <1>4. CASE Open(p)
    BY <1>4, BecomesElsewhere, EndsElsewhere, CompletesElsewhere DEF Open, Idle
  <1>5. CASE CreateCharge(p)
    BY <1>5, BecomesElsewhere DEF CreateCharge, Idle
  <1>6. CASE SetByokCharge(p) \/ WriteVoid(p) \/ Fail(p)
    BY <1>6, EndsElsewhere DEF SetByokCharge, WriteVoid, Fail
  <1>7. CASE Withdraw(p)
    BY <1>1, <1>7, BecomesElsewhere DEF Withdraw, Goto, Process
  <1>8. CASE CancelCharge(p)
    BY <1>8, BecomesElsewhere DEF CancelCharge, Only, Idle
  <1>9. CASE Cancelled(p) \/ Expire(p) \/ RecordExcess(p)
    <2>1. PICK b \in {TRUE, FALSE} : Return(p, b)
      BY <1>9 DEF Cancelled, Expire, RecordExcess
    <2> QED
      BY <2>1, ReturnsElsewhere
  <1>10. CASE Issue(p)
    BY <1>10, BecomesElsewhere, EndsElsewhere DEF Issue, Only, Idle
  <1>11. CASE Fresh(p)
    BY <1>1, <1>11, BecomesElsewhere, EndsElsewhere DEF Fresh, Process
  <1>12. CASE Credited(p)
    <2>1. PICK m \in 0..MaxAttempts, step \in {"cancel", "update"} :
             \/ Become(p, [proc[p] EXCEPT !.pc = step, !.n = m, !.a = CopyOf(m)])
             \/ Return(p, FALSE)
      BY <1>12 DEF Credited
    <2> QED
      BY <1>1, <2>1, BecomesElsewhere, ReturnsElsewhere DEF Process
  <1>13. CASE UpdateCharge(p)
    BY <1>1, <1>13, BecomesElsewhere, EndsElsewhere DEF UpdateCharge, Goto, Only, Idle, Process
  <1>14. CASE SetByokAmount(p)
    BY <1>14, EndsElsewhere, ReturnsElsewhere DEF SetByokAmount
  <1>15. CASE GetCharge(p)
    <2>1. \/ End(p)
          \/ Return(p, FALSE)
          \/ Become(p, [Only(p) EXCEPT !.pc = "expire", !.n = proc[p].n])
          \/ \E step \in {"owed", "invoice", "excess"} :
                Become(p, [proc[p] EXCEPT !.seen = Len(bank[proc[p].n].pays), !.pc = step])
      BY <1>15 DEF GetCharge
    <2>2. ASSUME NEW step \in {"owed", "invoice", "excess"},
                 Become(p, [proc[p] EXCEPT !.seen = Len(bank[proc[p].n].pays), !.pc = step])
          PROVE  Elsewhere(p)
      BY <1>1, <2>2, BecomesElsewhere DEF Process
    <2>3. CASE Become(p, [Only(p) EXCEPT !.pc = "expire", !.n = proc[p].n])
      BY <2>3, BecomesElsewhere DEF Only, Idle
    <2> QED
      BY <2>1, <2>2, <2>3, EndsElsewhere, ReturnsElsewhere
  <1>16. CASE Owed(p)
    BY <1>1, <1>16, BecomesElsewhere, EndsElsewhere DEF Owed, Goto, Process
  <1>17. CASE Lower(p)
    BY <1>1, <1>17, BecomesElsewhere, EndsElsewhere DEF Lower, Process
  <1>18. CASE SettleAttempt(p)
    <2>1. \/ End(p)
          \/ Become(p, [proc[p] EXCEPT !.pc = "invoice", !.a.status = "SUCCEEDED"])
          \/ Become(p, [proc[p] EXCEPT !.pc = "invoice", !.a = CopyOf(proc[p].n)])
      BY <1>18 DEF SettleAttempt
    <2> QED
      BY <1>1, <2>1, BecomesElsewhere, EndsElsewhere DEF Process
  <1>19. CASE SettleInvoice(p)
    BY <1>1, <1>19, BecomesElsewhere, EndsElsewhere DEF SettleInvoice, Goto, Process
  <1>20. CASE SweepNew(p)
    BY <1>20, BecomesElsewhere, EndsElsewhere DEF SweepNew, Idle
  <1>21. CASE SweepOld(p)
    BY <1>21, BecomesElsewhere, ReturnsElsewhere DEF SweepOld, Only, Idle
  <1>22. ASSUME NEW n \in Attempts, Confirm(p, n) \/ Sweep(p, n) PROVE Elsewhere(p)
    BY <1>22, BecomesElsewhere DEF Confirm, Sweep, Idle
  <1> QED
    BY <1>2, <1>3, <1>4, <1>5, <1>6, <1>7, <1>8, <1>9, <1>10, <1>11, <1>12, <1>13, <1>14, <1>15,
       <1>16, <1>17, <1>18, <1>19, <1>20, <1>21, <1>22 DEF Step

(* The invoice takes a note only by Issue, whose copy it then still is.    *)
LEMMA CreditedByIssue ==
    ASSUME TypeOK, [Next]_vars
    PROVE  \/ inv'.credited = inv.credited
           \/ \E p \in Procs : /\ proc[p].pc = "issue" /\ inv = proc[p].iv
                               /\ inv'.credited = inv.credited + proc[p].note
  <1>1. inv \in Invoice
    BY DEF TypeOK
  <1>2. CASE inv' = inv
    BY <1>2
  <1>3. ASSUME NEW p \in Procs, Step(p)
        PROVE  inv' = inv \/ WriteVoid(p) \/ Issue(p) \/ SettleInvoice(p)
    BY <1>3 DEF Step, Pay, NewAttempt, Start, Latest, Open, CreateCharge, SetByokCharge, VoidInvoice,
         Withdraw, CancelCharge, Cancelled, Fresh, Credited, UpdateCharge, SetByokAmount, GetCharge,
         Expire, Owed, Lower, SettleAttempt, RecordExcess, SweepNew, SweepOld, Fail, CreditInvoice,
         Confirm, Sweep
  <1>4. ASSUME NEW p \in Procs, WriteVoid(p) \/ SettleInvoice(p) PROVE inv'.credited = inv.credited
    BY <1>1, <1>4 DEF WriteVoid, SettleInvoice, Invoice
  <1>5. ASSUME NEW p \in Procs, Issue(p)
        PROVE  \/ inv' = inv
               \/ /\ proc[p].pc = "issue" /\ inv = proc[p].iv
                  /\ inv'.credited = inv.credited + proc[p].note
    BY <1>1, <1>5 DEF Issue, Invoice
  <1>6. CASE Abandon
    BY <1>1, <1>6 DEF Abandon, Invoice
  <1>7. ASSUME NEW n \in Attempts, BankExpire(n) \/ \E s \in Surcharges : BankPay(n, s) PROVE inv' = inv
    BY <1>7 DEF BankExpire, BankPay
  <1>8. CASE UNCHANGED vars
    BY <1>8 DEF vars
  <1> QED
    BY <1>2, <1>3, <1>4, <1>5, <1>6, <1>7, <1>8 DEF Next

LEMMA NotesKept ==
    ASSUME TypeOK, NotesInv, [Next]_vars
    PROVE  NotesInv'
  <1>1. inv'.credited <= Total
    BY CreditedByIssue DEF NotesInv
  <1>2. \A q \in Procs : proc'[q].pc = "issue" => proc'[q].iv.credited + proc'[q].note <= Total
    <2>1. ASSUME NEW p \in Procs, Elsewhere(p)
          PROVE  \A q \in Procs : proc'[q].pc = "issue" => proc'[q].iv.credited + proc'[q].note <= Total
      BY <2>1 DEF NotesInv, Elsewhere
    <2>2. ASSUME NEW p \in Procs, NEW amount \in Notes, CreditInvoice(p, amount)
          PROVE  \A q \in Procs : proc'[q].pc = "issue" => proc'[q].iv.credited + proc'[q].note <= Total
      <3> DEFINE r == [Idle EXCEPT !.pc = "issue", !.op = "credit", !.iv = inv, !.note = amount]
      <3>1. r.iv = inv /\ r.note = amount /\ inv.credited + amount <= Total
        BY <2>2 DEF Idle, CreditInvoice
      <3>2. Become(p, r)
        BY <2>2 DEF CreditInvoice
      <3> HIDE DEF r
      <3>3. \A q \in Procs : proc'[q] = IF q = p THEN r ELSE proc[q]
        BY <3>2 DEF Become, TypeOK
      <3> QED
        BY <3>1, <3>3 DEF NotesInv
    <2>3. ASSUME UNCHANGED proc
          PROVE  \A q \in Procs : proc'[q].pc = "issue" => proc'[q].iv.credited + proc'[q].note <= Total
      BY <2>3 DEF NotesInv
    <2>4. UNCHANGED vars \/ Abandon \/ (\E n \in Attempts : BankExpire(n) \/ \E s \in Surcharges : BankPay(n, s))
             => UNCHANGED proc
      BY DEF vars, Abandon, BankExpire, BankPay
    <2> QED
      BY <2>1, <2>2, <2>3, <2>4, StepsElsewhere DEF Next
  <1> QED
    BY <1>1, <1>2 DEF NotesInv

(* Notes that race never credit more than the invoice's total.             *)
THEOREM NotesWithinTotal == Spec => []CreditWithinTotal
  <1>1. Init => NotesInv
    BY CollectionAssumption DEF Init, NotesInv, NoInvoice, Idle
  <1>2. TypeOK /\ NotesInv /\ [Next]_vars => NotesInv'
    BY NotesKept
  <1>3. NotesInv => CreditWithinTotal
    BY DEF NotesInv, CreditWithinTotal
  <1> QED
    BY <1>1, <1>2, <1>3, TypeCorrect, PTL DEF Spec

----------------------------------------------------------------------------
(* Ends.  Every write of a status is guarded by the status it leaves.      *)
InvoiceEnds ==
    /\ inv.status \in {"PAID", "VOID"} => inv'.status = inv.status
    /\ inv'.credited >= inv.credited
AttemptEnds ==
    \A n \in Attempts : att[n].status \in {"SUCCEEDED", "FAILED"} => att'[n].status = att[n].status

LEMMA InvoiceStaysEnded ==
    ASSUME TypeOK, [Next]_vars
    PROVE  InvoiceEnds
  <1>1. inv \in Invoice /\ inv.credited \in Nat /\ \A q \in Procs : proc[q].note \in Nat
    BY DEF TypeOK, Invoice, Process
  <1>2. inv'.credited >= inv.credited
    BY <1>1, CreditedByIssue
  <1>3. ASSUME NEW p \in Procs, Step(p)
        PROVE  inv' = inv \/ WriteVoid(p) \/ Issue(p) \/ SettleInvoice(p)
    BY <1>3 DEF Step, Pay, NewAttempt, Start, Latest, Open, CreateCharge, SetByokCharge, VoidInvoice,
         Withdraw, CancelCharge, Cancelled, Fresh, Credited, UpdateCharge, SetByokAmount, GetCharge,
         Expire, Owed, Lower, SettleAttempt, RecordExcess, SweepNew, SweepOld, Fail, CreditInvoice,
         Confirm, Sweep
  <1>4. ASSUME NEW p \in Procs, WriteVoid(p) \/ Issue(p) \/ SettleInvoice(p),
               inv.status \in {"PAID", "VOID"}
        PROVE  inv'.status = inv.status
    BY <1>1, <1>4 DEF WriteVoid, SettleInvoice, Issue, Invoice
  <1>5. Abandon => inv.status \notin {"PAID", "VOID"}
    BY DEF Abandon
  <1>6. ASSUME NEW n \in Attempts, BankExpire(n) \/ \E s \in Surcharges : BankPay(n, s) PROVE inv' = inv
    BY <1>6 DEF BankExpire, BankPay
  <1>7. UNCHANGED vars => inv' = inv
    BY DEF vars
  <1>8. inv.status \in {"PAID", "VOID"} => inv'.status = inv.status
    BY <1>3, <1>4, <1>5, <1>6, <1>7 DEF Next
  <1> QED
    BY <1>2, <1>8 DEF InvoiceEnds

(* One row changes, and it was not ended or keeps its status.              *)
LEMMA RowStaysEnded ==
    ASSUME TypeOK, NEW n, NEW row, att' = [att EXCEPT ![n] = row],
           n \in Attempts /\ att[n].status \in {"SUCCEEDED", "FAILED"} => row.status = att[n].status
    PROVE  AttemptEnds
  BY DEF TypeOK, AttemptEnds

LEMMA AttemptStaysEnded ==
    ASSUME TypeOK, [Next]_vars
    PROVE  AttemptEnds
  <1>1. CASE UNCHANGED att
    BY <1>1 DEF AttemptEnds
  <1>2. \A m \in Attempts : att[m] \in Attempt
    BY DEF TypeOK
  <1>3. ASSUME NEW p \in Procs, Step(p)
        PROVE  \/ UNCHANGED att
               \/ Open(p) \/ SetByokCharge(p) \/ Cancelled(p) \/ SetByokAmount(p) \/ Expire(p)
               \/ Lower(p) \/ SettleAttempt(p)
    BY <1>3 DEF Step, Pay, NewAttempt, Start, Latest, CreateCharge, VoidInvoice, WriteVoid, Issue,
         Withdraw, CancelCharge, Fresh, Credited, UpdateCharge, GetCharge, SettleInvoice,
         Owed, RecordExcess, SweepNew, SweepOld, Fail, CreditInvoice, Confirm, Sweep
  <1>4. ASSUME NEW p \in Procs, Open(p) PROVE AttemptEnds
    <2>1. CASE att[proc[p].n].status = "NONE"
      <3>1. att' = [att EXCEPT ![proc[p].n] = CreateByokAttempt(proc[p].iv)]
        BY <1>4, <2>1 DEF Open
      <3> QED
        BY <2>1, <3>1, RowStaysEnded
    <2>2. CASE att[proc[p].n].status # "NONE"
      BY <1>1, <1>4, <2>2 DEF Open
    <2> QED
      BY <2>1, <2>2
  <1>5. ASSUME NEW n, \/ att' = [att EXCEPT ![n].payable = TRUE]
                      \/ \E d : att' = [att EXCEPT ![n].amount = d]
                      \/ FailAttempt(n)
                      \/ /\ att[n].status = "PENDING"
                         /\ \E l : att' = [att EXCEPT ![n].status = "SUCCEEDED", ![n].late = l]
        PROVE  AttemptEnds
    <2>1. CASE att' = [att EXCEPT ![n].payable = TRUE]
      <3>1. n \in Attempts => [att[n] EXCEPT !.payable = TRUE].status = att[n].status
        BY <1>2 DEF Attempt
      <3> QED
        BY <2>1, <3>1, RowStaysEnded
    <2>2. ASSUME NEW d, att' = [att EXCEPT ![n].amount = d] PROVE AttemptEnds
      <3>1. n \in Attempts => [att[n] EXCEPT !.amount = d].status = att[n].status
        BY <1>2 DEF Attempt
      <3> QED
        BY <2>2, <3>1, RowStaysEnded
    <2>3. CASE FailAttempt(n)
      <3> DEFINE row == [att[n] EXCEPT !.status = IF @ = "PENDING" THEN "FAILED" ELSE @]
      <3>1. n \in Attempts /\ att[n].status \in {"SUCCEEDED", "FAILED"} => row.status = att[n].status
        BY <1>2 DEF Attempt
      <3>2. att' = [att EXCEPT ![n] = row]
        BY <2>3 DEF FailAttempt, TypeOK
      <3> HIDE DEF row
      <3> QED
        BY <3>1, <3>2, RowStaysEnded
    <2>4. ASSUME NEW l, att[n].status = "PENDING",
                 att' = [att EXCEPT ![n].status = "SUCCEEDED", ![n].late = l]
          PROVE  AttemptEnds
      <3>1. \A m \in Attempts : m # n => att'[m] = att[m]
        BY <2>4 DEF TypeOK
      <3> QED
        BY <2>4, <3>1 DEF AttemptEnds
    <2> QED
      BY <1>5, <2>1, <2>2, <2>3, <2>4
  <1>6. ASSUME NEW p \in Procs,
               \/ SetByokCharge(p) \/ Cancelled(p) \/ SetByokAmount(p) \/ Expire(p) \/ Lower(p)
               \/ SettleAttempt(p)
        PROVE  AttemptEnds
    <2>1. \/ UNCHANGED att
          \/ att' = [att EXCEPT ![proc[p].n].payable = TRUE]
          \/ \E d : att' = [att EXCEPT ![proc[p].n].amount = d]
          \/ FailAttempt(proc[p].n)
          \/ /\ att[proc[p].n].status = "PENDING"
             /\ \E l : att' = [att EXCEPT ![proc[p].n].status = "SUCCEEDED", ![proc[p].n].late = l]
      BY <1>6 DEF SetByokCharge, Cancelled, SetByokAmount, Expire, Lower, SettleAttempt
    <2> QED
      BY <1>1, <1>5, <2>1
  <1>7. UNCHANGED vars \/ Abandon \/ (\E n \in Attempts : BankExpire(n) \/ \E s \in Surcharges : BankPay(n, s))
           => UNCHANGED att
    BY DEF vars, Abandon, BankExpire, BankPay
  <1> QED
    BY <1>1, <1>3, <1>4, <1>6, <1>7 DEF Next

(* A settled document stays settled: no stale void, dunning or failure     *)
(* write takes a paid or void invoice or an ended attempt back, and what   *)
(* was credited is never taken back.                                       *)
THEOREM CollectionEndsAreFinal == Spec => EndsAreFinal
  <1>1. TypeOK /\ [Next]_vars =>
          [ /\ inv.status \in {"PAID", "VOID"} => inv'.status = inv.status
            /\ inv'.credited >= inv.credited
            /\ \A n \in Attempts : att[n].status \in {"SUCCEEDED", "FAILED"} =>
                   att'[n].status = att[n].status ]_vars
    BY InvoiceStaysEnded, AttemptStaysEnded DEF InvoiceEnds, AttemptEnds
  <1> QED
    BY <1>1, TypeCorrect, PTL DEF Spec, EndsAreFinal

----------------------------------------------------------------------------
(* What is settled.  What the notes leave of the total only falls, so an   *)
(* open copy of the invoice, however old, leaves at least as much; every   *)
(* amount on an attempt, and every copy of one, comes from such a copy;    *)
(* and a payment settles only once it was compared with a copy.            *)
Left == Total - inv.credited

HoldsCopy == {"owed", "lower", "settle"}

CopyCovers(r, d) ==
    /\ r.pc # "issue" => Collectable(r.iv) >= d
    /\ r.a.status # "NONE" => r.a.amount >= d
    /\ r.op = "sweep" => r.page.amount >= d
    /\ r.pc \in HoldsCopy => r.a.status # "NONE"

PaidCovers(A, B, d) ==
    \A n \in Attempts : A[n].status = "SUCCEEDED" => B[n].pays[1].amt >= d + A[n].late

KeptCovers(E, A, B, d) ==
    \A e \in E : e.tag = "over" =>
        /\ A[e.n].status = "SUCCEEDED"
        /\ B[e.n].pays[1].amt >= d + B[e.n].pays[1].late + e.amt

CoverInv ==
    /\ AttEnough(att, Left)
    /\ \A q \in Procs : CopyCovers(proc[q], Left)
    /\ PaidCovers(att, bank, Left) /\ KeptCovers(excess, att, bank, Left)

(* The copies after the step, against what was left before it.             *)
CopiesCover == \A q \in Procs : CopyCovers(proc'[q], Left)

LEMMA LeftFacts ==
    ASSUME TypeOK
    PROVE  /\ Left \in Int /\ Left <= Total /\ Collectable(NoInvoice) >= Left
           /\ inv.status # "PAID" => Collectable(inv) >= Left
  <1>1. inv.credited \in Nat /\ Total \in Nat \ {0}
    BY CollectionAssumption DEF TypeOK, Invoice
  <1> QED
    BY <1>1 DEF Left, Collectable, NoInvoice

LEMMA BecomesCovering ==
    ASSUME TypeOK, CoverInv, NEW p \in Procs, NEW r, Become(p, r), CopyCovers(r, Left)
    PROVE  CopiesCover
  <1>1. \A q \in Procs : proc'[q] = IF q = p THEN r ELSE proc[q]
    BY DEF Become, TypeOK
  <1> QED
    BY <1>1 DEF CoverInv, CopiesCover

(* A request that goes on with copies it has, or takes fresh ones.         *)
LEMMA MovesCovering ==
    ASSUME TypeOK, CoverInv, NEW p \in Procs, NEW r, Become(p, r),
           \/ r.pc = "issue"
           \/ r.iv = NoInvoice
           \/ r.iv = proc[p].iv /\ proc[p].pc # "issue"
           \/ r.iv = inv /\ inv.status = "OPEN",
           \/ r.a = NoCopy
           \/ r.a = proc[p].a
           \/ \E n \in Attempts : att[n].status # "NONE" /\ r.a = CopyOf(n),
           r.op # "sweep" \/ (r.op = proc[p].op /\ r.page = proc[p].page),
           r.pc \in HoldsCopy => r.a.status # "NONE"
    PROVE  CopiesCover
  <1>1. CopyCovers(proc[p], Left) /\ AttEnough(att, Left)
    BY DEF CoverInv
  <1>2. r.pc # "issue" => Collectable(r.iv) >= Left
    BY <1>1, LeftFacts DEF CopyCovers
  <1>3. r.a.status # "NONE" => r.a.amount >= Left
    <2>1. CASE r.a = NoCopy
      BY <2>1 DEF NoCopy
    <2>2. CASE r.a = proc[p].a
      BY <1>1, <2>2 DEF CopyCovers
    <2>3. ASSUME NEW n \in Attempts, att[n].status # "NONE", r.a = CopyOf(n) PROVE r.a.amount >= Left
      <3>1. CopyOf(n).amount = att[n].amount
        BY DEF CopyOf
      <3> QED
        BY <1>1, <2>3, <3>1 DEF AttEnough
    <2> QED
      BY <2>1, <2>2, <2>3
  <1>4. CopyCovers(r, Left)
    BY <1>1, <1>2, <1>3 DEF CopyCovers
  <1> QED
    BY <1>4, BecomesCovering

LEMMA EndsCovering ==
    ASSUME TypeOK, CoverInv, NEW p \in Procs, End(p)
    PROVE  CopiesCover
  <1>1. Idle.iv = NoInvoice /\ Idle.a = NoCopy /\ Idle.op = "none" /\ Idle.pc = "idle"
    BY DEF Idle
  <1>2. Become(p, Idle) /\ Idle.op # "sweep" /\ Idle.pc \notin HoldsCopy
    BY <1>1 DEF End, HoldsCopy
  <1> QED
    BY <1>1, <1>2, MovesCovering

(* A request that drops what it has but its name and its page.             *)
LEMMA OnlyCovering ==
    ASSUME TypeOK, CoverInv, NEW p \in Procs, NEW r, Become(p, r),
           r.iv = NoInvoice, r.a = NoCopy \/ r.a = proc[p].a,
           r.op = proc[p].op, r.page = proc[p].page, r.pc \notin HoldsCopy
    PROVE  CopiesCover
  BY MovesCovering

LEMMA ReturnsCovering ==
    ASSUME TypeOK, CoverInv, NEW p \in Procs, NEW b, Return(p, b)
    PROVE  CopiesCover
  <1>1. CASE Become(p, [Only(p) EXCEPT !.pc = "void"])
    <2> DEFINE r == [Only(p) EXCEPT !.pc = "void"]
    <2>1. r.iv = NoInvoice /\ r.a = NoCopy /\ r.op = proc[p].op /\ r.page = proc[p].page /\ r.pc = "void"
      BY DEF Only, Idle
    <2>2. Become(p, r)
      BY <1>1
    <2> HIDE DEF r
    <2> QED
      BY <2>1, <2>2, OnlyCovering DEF HoldsCopy
  <1>2. CASE /\ proc[p].op = "sweep"
             /\ Become(p, [Idle EXCEPT !.pc = "get", !.op = "confirm", !.n = proc[p].page.n,
                      !.a = [status |-> "PENDING", amount |-> proc[p].page.amount]])
    <2> DEFINE r == [Idle EXCEPT !.pc = "get", !.op = "confirm", !.n = proc[p].page.n,
                       !.a = [status |-> "PENDING", amount |-> proc[p].page.amount]]
    <2>1. r.iv = NoInvoice /\ r.a.amount = proc[p].page.amount /\ r.op = "confirm" /\ r.pc = "get"
      BY DEF Idle
    <2>2. Become(p, r)
      BY <1>2
    <2> HIDE DEF r
    <2>3. CopyCovers(r, Left)
      BY <1>2, <2>1, LeftFacts DEF CopyCovers, CoverInv, HoldsCopy
    <2> QED
      BY <2>2, <2>3, BecomesCovering
  <1> QED
    BY <1>1, <1>2, EndsCovering DEF Return

LEMMA CompletesCovering ==
    ASSUME TypeOK, CoverInv, NEW p \in Procs, NEW n \in Attempts, att[n].status = "PENDING", Complete(p, n)
    PROVE  CopiesCover
  <1> DEFINE r == [Idle EXCEPT !.pc = "charge", !.n = n, !.a = CopyOf(n)]
  <1>1. r.iv = NoInvoice /\ r.a = CopyOf(n) /\ r.op = "none" /\ r.pc = "charge"
    BY DEF Idle
  <1>2. Become(p, r) \/ End(p)
    BY DEF Complete
  <1> HIDE DEF r
  <1>3. Become(p, r) => CopiesCover
    BY <1>1, MovesCovering DEF HoldsCopy
  <1> QED
    BY <1>2, <1>3, EndsCovering

(* Starting, and opening a charge.                                         *)
LEMMA OpeningCovers ==
    ASSUME TypeOK, CoverInv, NEW p \in Procs,
           \/ Pay(p) \/ NewAttempt(p) \/ VoidInvoice(p) \/ Latest(p) \/ Open(p) \/ CreateCharge(p) \/ SetByokCharge(p)
    PROVE  CopiesCover
  <1>1. proc[p] \in Process
    BY DEF TypeOK
  <1>2. CASE Pay(p) \/ NewAttempt(p) \/ VoidInvoice(p)
    <2>1. PICK op \in {"pay", "new", "void"}, step \in {"latest", "withdraw"}, i \in Invoice :
             Start(p, op, step, i) /\ (i = NoInvoice \/ (i = inv /\ inv.status = "OPEN"))
      BY <1>2, TypeFacts DEF Pay, NewAttempt, VoidInvoice, TypeOK, NoInvoice, Invoice, InvoiceStatus
    <2> DEFINE r == [Idle EXCEPT !.pc = step, !.op = op, !.iv = i]
    <2>2. r.op = op /\ r.pc = step /\ r.iv = i /\ r.a = NoCopy
      BY DEF Idle
    <2>3. Become(p, r)
      BY <2>1 DEF Start
    <2> HIDE DEF r
    <2>4. r.op # "sweep" /\ r.pc \notin HoldsCopy
      BY <2>2 DEF HoldsCopy
    <2> QED
      BY <2>1, <2>2, <2>3, <2>4, MovesCovering
  <1>3. ASSUME NEW k, proc[p].pc # "issue", Become(p, [proc[p] EXCEPT !.pc = "create", !.n = k])
        PROVE  CopiesCover
    <2> DEFINE r == [proc[p] EXCEPT !.pc = "create", !.n = k]
    <2>1. r.op = proc[p].op /\ r.page = proc[p].page /\ r.iv = proc[p].iv /\ r.a = proc[p].a /\ r.pc = "create"
      BY <1>1 DEF Process
    <2>2. Become(p, r)
      BY <1>3
    <2> HIDE DEF r
    <2> QED
      BY <1>3, <2>1, <2>2, MovesCovering DEF HoldsCopy
  <1>4. CASE Latest(p)
    <2>1. proc[p].pc # "issue"
      BY <1>4 DEF Latest
    <2>2. PICK m \in 0..MaxAttempts :
            \/ m > 0 /\ att[m].status = "PENDING" /\ Complete(p, m)
            \/ Become(p, [proc[p] EXCEPT !.pc = "create", !.n = 1])
            \/ Become(p, [proc[p] EXCEPT !.pc = "create", !.n = m + 1])
            \/ End(p)
      BY <1>4 DEF Latest
    <2>3. m > 0 => m \in Attempts
      BY DEF Attempts
    <2> QED
      BY <1>3, <2>1, <2>2, <2>3, CompletesCovering, EndsCovering
  <1>5. CASE Open(p)
    <2> DEFINE c == [status |-> "PENDING", amount |-> Collectable(proc[p].iv)]
               r == [Idle EXCEPT !.pc = "charge", !.n = proc[p].n, !.a = c]
    <2>1. \/ Become(p, r)
          \/ \E m \in Attempts : att[m].status = "PENDING" /\ Complete(p, m)
          \/ End(p)
      BY <1>5 DEF Open, CreateByokAttempt
    <2>2. r.iv = NoInvoice /\ r.a = c /\ r.op = "none" /\ r.pc = "charge" /\ c.amount = Collectable(proc[p].iv)
      BY DEF Idle
    <2>3. proc[p].pc # "issue" /\ CopyCovers(proc[p], Left)
      BY <1>5 DEF Open, CoverInv
    <2> HIDE DEF r, c
    <2>4. CopyCovers(r, Left)
      BY <2>2, <2>3, LeftFacts DEF CopyCovers, HoldsCopy
    <2> QED
      BY <2>1, <2>4, BecomesCovering, CompletesCovering, EndsCovering
  <1>6. CASE CreateCharge(p)
    <2> DEFINE r == [Idle EXCEPT !.pc = "setcharge", !.n = proc[p].n]
    <2>1. r.op = "none" /\ r.pc = "setcharge" /\ r.iv = NoInvoice /\ r.a = NoCopy
      BY DEF Idle
    <2>2. Become(p, r)
      BY <1>6 DEF CreateCharge
    <2> HIDE DEF r
    <2> QED
      BY <2>1, <2>2, MovesCovering DEF HoldsCopy
  <1>7. CASE SetByokCharge(p)
    BY <1>7, EndsCovering DEF SetByokCharge
  <1> QED
    BY <1>2, <1>4, <1>5, <1>6, <1>7

(* Voiding and crediting.                                                  *)
LEMMA NotesCover ==
    ASSUME TypeOK, CoverInv, NEW p \in Procs,
           \/ Withdraw(p) \/ CancelCharge(p) \/ WriteVoid(p) \/ Issue(p) \/ Fresh(p) \/ Credited(p) \/ UpdateCharge(p)
           \/ Cancelled(p) \/ Expire(p) \/ RecordExcess(p) \/ SetByokAmount(p) \/ Fail(p)
           \/ \E amount \in Notes : CreditInvoice(p, amount)
    PROVE  CopiesCover
  <1>1. proc[p] \in Process
    BY DEF TypeOK
  <1>2. ASSUME NEW s \in {"cancel", "update"}, NEW m \in Attempts, att[m].status = "PENDING", proc[p].pc # "issue",
               Become(p, [proc[p] EXCEPT !.pc = s, !.n = m, !.a = CopyOf(m)])
        PROVE  CopiesCover
    <2> DEFINE r == [proc[p] EXCEPT !.pc = s, !.n = m, !.a = CopyOf(m)]
    <2>1. r.op = proc[p].op /\ r.page = proc[p].page /\ r.iv = proc[p].iv /\ r.pc = s /\ r.a = CopyOf(m)
      BY <1>1 DEF Process
    <2>2. Become(p, r)
      BY <1>2
    <2> HIDE DEF r
    <2> QED
      BY <1>2, <2>1, <2>2, MovesCovering DEF HoldsCopy
  <1>3. \A m \in 0..MaxAttempts : m > 0 => m \in Attempts
    BY CollectionAssumption DEF Attempts
  <1>4. ASSUME NEW s \in {"void", "setamount"}, proc[p].pc # "issue", Become(p, [proc[p] EXCEPT !.pc = s])
        PROVE  CopiesCover
    <2> DEFINE r == [proc[p] EXCEPT !.pc = s]
    <2>1. r.op = proc[p].op /\ r.page = proc[p].page /\ r.iv = proc[p].iv /\ r.pc = s /\ r.a = proc[p].a
      BY <1>1 DEF Process
    <2>2. Become(p, r)
      BY <1>4
    <2> HIDE DEF r
    <2> QED
      BY <1>4, <2>1, <2>2, MovesCovering DEF HoldsCopy
  <1>5. CASE Withdraw(p)
    <2>1. \/ \E m \in 0..MaxAttempts : m > 0 /\ att[m].status = "PENDING"
                /\ Become(p, [proc[p] EXCEPT !.pc = "cancel", !.n = m, !.a = CopyOf(m)])
          \/ Become(p, [proc[p] EXCEPT !.pc = "void"])
      BY <1>5 DEF Withdraw, Goto
    <2>2. proc[p].pc # "issue"
      BY <1>5 DEF Withdraw
    <2> QED
      BY <1>2, <1>3, <1>4, <2>1, <2>2
  <1>6. ASSUME NEW s \in {"fail", "fresh"}, NEW n,
               \/ Become(p, [Only(p) EXCEPT !.pc = s, !.n = n])
               \/ Become(p, [Only(p) EXCEPT !.pc = s])
        PROVE  CopiesCover
    <2> DEFINE x == [Only(p) EXCEPT !.pc = s, !.n = n]
               y == [Only(p) EXCEPT !.pc = s]
    <2>1. /\ x.op = proc[p].op /\ x.page = proc[p].page /\ x.pc = s /\ x.iv = NoInvoice /\ x.a = NoCopy
          /\ y.op = proc[p].op /\ y.page = proc[p].page /\ y.pc = s /\ y.iv = NoInvoice /\ y.a = NoCopy
      BY DEF Only, Idle
    <2>2. Become(p, x) \/ Become(p, y)
      BY <1>6
    <2> HIDE DEF x, y
    <2> QED
      BY <2>1, <2>2, OnlyCovering DEF HoldsCopy
  <1>7. ASSUME Become(p, [Only(p) EXCEPT !.pc = "get", !.n = proc[p].n, !.a = proc[p].a])
        PROVE  CopiesCover
    <2> DEFINE r == [Only(p) EXCEPT !.pc = "get", !.n = proc[p].n, !.a = proc[p].a]
    <2>1. r.op = proc[p].op /\ r.page = proc[p].page /\ r.pc = "get" /\ r.iv = NoInvoice /\ r.a = proc[p].a
      BY DEF Only, Idle
    <2>2. Become(p, r)
      BY <1>7
    <2> HIDE DEF r
    <2> QED
      BY <2>1, <2>2, OnlyCovering DEF HoldsCopy
  <1>8. CASE CancelCharge(p)
    <2>1. \/ Become(p, [Only(p) EXCEPT !.pc = "fail", !.n = proc[p].n])
          \/ Become(p, [Only(p) EXCEPT !.pc = "get", !.n = proc[p].n, !.a = proc[p].a])
      BY <1>8 DEF CancelCharge
    <2> QED
      BY <1>6, <1>7, <2>1
  <1>9. CASE WriteVoid(p) \/ Fail(p)
    BY <1>9, EndsCovering DEF WriteVoid, Fail
  <1>10. CASE Issue(p)
    BY <1>6, <1>10, EndsCovering DEF Issue
  <1>11. CASE Fresh(p)
    <2> DEFINE r == [proc[p] EXCEPT !.pc = "credited", !.iv = inv]
    <2>1. End(p) \/ (inv.status = "OPEN" /\ Become(p, r))
      BY <1>11 DEF Fresh
    <2>2. r.op = proc[p].op /\ r.page = proc[p].page /\ r.iv = inv /\ r.pc = "credited" /\ r.a = proc[p].a
      BY <1>1 DEF Process
    <2> HIDE DEF r
    <2>3. inv.status = "OPEN" /\ Become(p, r) => CopiesCover
      BY <2>2, MovesCovering DEF HoldsCopy
    <2> QED
      BY <2>1, <2>3, EndsCovering
  <1>12. CASE Credited(p)
    <2>1. proc[p].pc # "issue"
      BY <1>12 DEF Credited
    <2>2. \/ \E s \in {"cancel", "update"}, m \in 0..MaxAttempts : m > 0 /\ att[m].status = "PENDING"
                /\ Become(p, [proc[p] EXCEPT !.pc = s, !.n = m, !.a = CopyOf(m)])
          \/ Return(p, FALSE)
      BY <1>12 DEF Credited
    <2> QED
      BY <1>2, <1>3, <2>1, <2>2, ReturnsCovering
  <1>13. CASE UpdateCharge(p)
    <2>1. \/ Become(p, [proc[p] EXCEPT !.pc = "setamount"])
          \/ End(p)
          \/ Become(p, [Only(p) EXCEPT !.pc = "get", !.n = proc[p].n, !.a = proc[p].a])
      BY <1>13 DEF UpdateCharge, Goto
    <2>2. proc[p].pc # "issue"
      BY <1>13 DEF UpdateCharge
    <2> QED
      BY <1>4, <1>7, <2>1, <2>2, EndsCovering
  <1>14. CASE Cancelled(p) \/ Expire(p) \/ RecordExcess(p) \/ SetByokAmount(p)
    <2>1. End(p) \/ \E b : Return(p, b)
      BY <1>14 DEF Cancelled, Expire, RecordExcess, SetByokAmount
    <2> QED
      BY <2>1, EndsCovering, ReturnsCovering
  <1>15. ASSUME NEW amount \in Notes, CreditInvoice(p, amount) PROVE CopiesCover
    <2> DEFINE r == [Idle EXCEPT !.pc = "issue", !.op = "credit", !.iv = inv, !.note = amount]
    <2>1. r.op = "credit" /\ r.pc = "issue" /\ r.a = NoCopy
      BY DEF Idle
    <2>2. Become(p, r)
      BY <1>15 DEF CreditInvoice
    <2> HIDE DEF r
    <2> QED
      BY <2>1, <2>2, MovesCovering DEF HoldsCopy
  <1> QED
    BY <1>5, <1>8, <1>9, <1>10, <1>11, <1>12, <1>13, <1>14, <1>15

(* The re-query: what it lowers it lowers on both, and it settles what it  *)
(* compared.                                                               *)
LEMMA ConfirmingCovers ==
    ASSUME TypeOK, CoverInv, NEW p \in Procs, ProcOK(proc[p]),
           \/ GetCharge(p) \/ Owed(p) \/ Lower(p) \/ SettleAttempt(p) \/ SettleInvoice(p)
           \/ \E n \in Attempts : Confirm(p, n)
    PROVE  CopiesCover
  <1>1. proc[p] \in Process /\ proc[p].a \in Copy /\ CopyCovers(proc[p], Left)
    BY DEF TypeOK, Process, CoverInv
  <1>2. ASSUME NEW s \in {"settle", "invoice", "excess"}, proc[p].pc # "issue", proc[p].a.status # "NONE",
               Become(p, [proc[p] EXCEPT !.pc = s])
        PROVE  CopiesCover
    <2> DEFINE r == [proc[p] EXCEPT !.pc = s]
    <2>1. r.op = proc[p].op /\ r.page = proc[p].page /\ r.iv = proc[p].iv /\ r.pc = s /\ r.a = proc[p].a
      BY <1>1 DEF Process
    <2>2. Become(p, r)
      BY <1>2
    <2> HIDE DEF r
    <2> QED
      BY <1>2, <2>1, <2>2, MovesCovering
  <1>3. ASSUME NEW n \in Attempts, Confirm(p, n) PROVE CopiesCover
    <2> DEFINE r == [Idle EXCEPT !.pc = "get", !.op = "confirm", !.n = n, !.a = CopyOf(n)]
    <2>1. r.op = "confirm" /\ r.pc = "get" /\ r.iv = NoInvoice /\ r.a = CopyOf(n)
      BY DEF Idle
    <2>2. Become(p, r) /\ att[n].status # "NONE"
      BY <1>3 DEF Confirm, Notify
    <2> HIDE DEF r
    <2> QED
      BY <2>1, <2>2, MovesCovering DEF HoldsCopy
  <1>4. CASE GetCharge(p)
    <2>1. proc[p].pc # "issue" /\ proc[p].a.status # "NONE"
      BY <1>4 DEF GetCharge, ProcOK
    <2>2. \/ End(p)
          \/ Return(p, FALSE)
          \/ Become(p, [Only(p) EXCEPT !.pc = "expire", !.n = proc[p].n])
          \/ \E s \in {"owed", "invoice", "excess"} :
                Become(p, [proc[p] EXCEPT !.seen = Len(bank[proc[p].n].pays), !.pc = s])
      BY <1>4 DEF GetCharge
    <2>3. ASSUME NEW s \in {"owed", "invoice", "excess"}, NEW k, Become(p, [proc[p] EXCEPT !.seen = k, !.pc = s])
          PROVE  CopiesCover
      <3> DEFINE r == [proc[p] EXCEPT !.seen = k, !.pc = s]
      <3>1. r.op = proc[p].op /\ r.page = proc[p].page /\ r.iv = proc[p].iv /\ r.pc = s /\ r.a = proc[p].a
        BY <1>1 DEF Process
      <3>2. Become(p, r)
        BY <2>3
      <3> HIDE DEF r
      <3> QED
        BY <2>1, <3>1, <3>2, MovesCovering
    <2>4. CASE Become(p, [Only(p) EXCEPT !.pc = "expire", !.n = proc[p].n])
      <3> DEFINE r == [Only(p) EXCEPT !.pc = "expire", !.n = proc[p].n]
      <3>1. r.op = proc[p].op /\ r.page = proc[p].page /\ r.iv = NoInvoice /\ r.pc = "expire" /\ r.a = NoCopy
        BY DEF Only, Idle
      <3>2. Become(p, r)
        BY <2>4
      <3> HIDE DEF r
      <3> QED
        BY <3>1, <3>2, OnlyCovering DEF HoldsCopy
    <2> QED
      BY <2>2, <2>3, <2>4, EndsCovering, ReturnsCovering
  <1>5. CASE Owed(p)
    <2> DEFINE r == [proc[p] EXCEPT !.pc = "lower", !.iv = inv]
    <2>1. proc[p].pc # "issue" /\ proc[p].a.status # "NONE"
      BY <1>1, <1>5 DEF Owed, CopyCovers, HoldsCopy
    <2>2. End(p) \/ (inv.status = "OPEN" /\ Become(p, r)) \/ Become(p, [proc[p] EXCEPT !.pc = "settle"])
      BY <1>5 DEF Owed, Goto
    <2>3. r.op = proc[p].op /\ r.page = proc[p].page /\ r.iv = inv /\ r.pc = "lower" /\ r.a = proc[p].a
      BY <1>1 DEF Process
    <2> HIDE DEF r
    <2>4. inv.status = "OPEN" /\ Become(p, r) => CopiesCover
      BY <2>1, <2>3, MovesCovering
    <2> QED
      BY <1>2, <2>1, <2>2, <2>4, EndsCovering
  <1>6. CASE SettleInvoice(p)
    <2>1. proc[p].pc # "issue" /\ proc[p].a.status # "NONE"
      BY <1>6 DEF SettleInvoice, ProcOK
    <2>2. End(p) \/ Become(p, [proc[p] EXCEPT !.pc = "excess"])
      BY <1>6 DEF SettleInvoice, Goto
    <2> QED
      BY <1>2, <2>1, <2>2, EndsCovering
  <1>7. CASE Lower(p)
    <2> DEFINE owed == Collectable(proc[p].iv)
               r == [proc[p] EXCEPT !.pc = "settle", !.a.amount = owed, !.iv = NoInvoice]
    <2>1. End(p) \/ Become(p, r)
      BY <1>7 DEF Lower
    <2>2. /\ r.op = proc[p].op /\ r.page = proc[p].page /\ r.iv = NoInvoice /\ r.pc = "settle"
          /\ r.a.status = proc[p].a.status /\ r.a.amount = owed
      BY <1>1 DEF Process, Copy
    <2>3. proc[p].a.status # "NONE" /\ owed >= Left
      BY <1>1, <1>7 DEF Lower, CopyCovers, HoldsCopy
    <2> HIDE DEF r, owed
    <2>4. CopyCovers(r, Left)
      BY <1>1, <2>2, <2>3, LeftFacts DEF CopyCovers, HoldsCopy
    <2> QED
      BY <2>1, <2>4, BecomesCovering, EndsCovering
  <1>8. CASE SettleAttempt(p)
    <2> DEFINE n == proc[p].n
               r == [proc[p] EXCEPT !.pc = "invoice", !.a.status = "SUCCEEDED"]
               t == [proc[p] EXCEPT !.pc = "invoice", !.a = CopyOf(n)]
    <2>1. \/ Become(p, r)
          \/ att[n].status # "NONE" /\ Become(p, t)
          \/ End(p)
      BY <1>8 DEF SettleAttempt
    <2>2. n \in Attempts /\ proc[p].pc = "settle" /\ proc[p].a.status # "NONE"
      BY <1>1, <1>8 DEF SettleAttempt, ProcOK, HasAttempt, CopyCovers, HoldsCopy
    <2>3. /\ r.op = proc[p].op /\ r.page = proc[p].page /\ r.iv = proc[p].iv /\ r.pc = "invoice"
          /\ r.a.amount = proc[p].a.amount
          /\ t.op = proc[p].op /\ t.page = proc[p].page /\ t.iv = proc[p].iv /\ t.pc = "invoice" /\ t.a = CopyOf(n)
      BY <1>1 DEF Process, Copy
    <2> HIDE DEF r, t, n
    <2>4. CopyCovers(r, Left)
      BY <1>1, <2>2, <2>3 DEF CopyCovers, HoldsCopy
    <2>5. att[n].status # "NONE" /\ Become(p, t) => CopiesCover
      BY <2>2, <2>3, MovesCovering DEF HoldsCopy
    <2> QED
      BY <2>1, <2>4, <2>5, BecomesCovering, EndsCovering
  <1> QED
    BY <1>3, <1>4, <1>5, <1>6, <1>7, <1>8

(* The sweep's page is a copy too.                                         *)
LEMMA SweepingCovers ==
    ASSUME TypeOK, CoverInv, NEW p \in Procs,
           SweepNew(p) \/ SweepOld(p) \/ \E n \in Attempts : Sweep(p, n)
    PROVE  CopiesCover
  <1>1. AttEnough(att, Left) /\ CopyCovers(proc[p], Left)
    BY DEF CoverInv
  <1>2. ASSUME NEW n \in Attempts, Sweep(p, n) PROVE CopiesCover
    <2> DEFINE r == [Idle EXCEPT !.pc = IF att[n].payable THEN "sweepold" ELSE "sweepnew",
                       !.op = "sweep", !.n = n, !.a = CopyOf(n), !.page = [n |-> n, amount |-> att[n].amount]]
    <2>1. r.pc \in {"sweepold", "sweepnew"} /\ r.iv = NoInvoice /\ r.a = CopyOf(n) /\ r.page.amount = att[n].amount
      BY DEF Idle
    <2>2. Become(p, r) /\ att[n].status = "PENDING"
      BY <1>2 DEF Sweep
    <2> HIDE DEF r
    <2>3. att[n].amount >= Left /\ CopyOf(n).amount = att[n].amount
      BY <1>1, <2>2 DEF AttEnough, CopyOf
    <2>4. CopyCovers(r, Left)
      BY <2>1, <2>3, LeftFacts DEF CopyCovers, HoldsCopy
    <2> QED
      BY <2>2, <2>4, BecomesCovering
  <1>3. CASE SweepNew(p)
    <2> DEFINE r == [Idle EXCEPT !.pc = "charge", !.n = proc[p].n, !.a = proc[p].a]
    <2>1. r.op = "none" /\ r.pc = "charge" /\ r.iv = NoInvoice /\ r.a = proc[p].a
      BY DEF Idle
    <2>2. Become(p, r) \/ End(p)
      BY <1>3 DEF SweepNew
    <2> HIDE DEF r
    <2>3. Become(p, r) => CopiesCover
      BY <2>1, MovesCovering DEF HoldsCopy
    <2> QED
      BY <2>2, <2>3, EndsCovering
  <1>4. CASE SweepOld(p)
    <2> DEFINE r == [Only(p) EXCEPT !.pc = "credited", !.iv = inv]
    <2>1. r.op = proc[p].op /\ r.page = proc[p].page /\ r.pc = "credited" /\ r.iv = inv /\ r.a = NoCopy
      BY DEF Only, Idle
    <2>2. (inv.status = "OPEN" /\ Become(p, r)) \/ Return(p, FALSE)
      BY <1>4 DEF SweepOld
    <2> HIDE DEF r
    <2>3. inv.status = "OPEN" /\ Become(p, r) => CopiesCover
      BY <2>1, MovesCovering DEF HoldsCopy
    <2> QED
      BY <2>2, <2>3, ReturnsCovering
  <1> QED
    BY <1>2, <1>3, <1>4

(* What is written on an attempt covers what is left.                      *)
LEMMA OneRowCovers ==
    ASSUME TypeOK, CoverInv, NEW k, NEW row, att' = [att EXCEPT ![k] = row],
           k \in Attempts => (row.status # "NONE" => row.amount >= Left)
    PROVE  AttEnough(att', Left)
  BY DEF TypeOK, CoverInv, AttEnough

LEMMA AmountsCover ==
    ASSUME TypeOK, CoverInv, NEW p \in Procs, Step(p)
    PROVE  AttEnough(att', Left)
  <1>1. CASE UNCHANGED att
    BY <1>1 DEF CoverInv
  <1>2. (\A m \in Attempts : att[m] \in Attempt) /\ AttEnough(att, Left) /\ CopyCovers(proc[p], Left)
    BY DEF TypeOK, CoverInv
  <1>3. \/ UNCHANGED att
        \/ Open(p) \/ SetByokCharge(p) \/ Cancelled(p) \/ SetByokAmount(p) \/ Expire(p) \/ Lower(p) \/ SettleAttempt(p)
    BY DEF Step, Pay, NewAttempt, Start, Latest, CreateCharge, VoidInvoice, WriteVoid, Issue,
         Withdraw, CancelCharge, Fresh, Credited, UpdateCharge, GetCharge, SettleInvoice,
         Owed, RecordExcess, SweepNew, SweepOld, Fail, CreditInvoice, Confirm, Sweep
  <1>4. ASSUME NEW n, att' = [att EXCEPT ![n].payable = TRUE] PROVE AttEnough(att', Left)
    <2>1. n \in Attempts => /\ [att[n] EXCEPT !.payable = TRUE].status = att[n].status
                            /\ [att[n] EXCEPT !.payable = TRUE].amount = att[n].amount
      BY <1>2 DEF Attempt
    <2> QED
      BY <1>2, <1>4, <2>1, OneRowCovers DEF AttEnough
  <1>5. ASSUME NEW n, NEW d, d >= Left, att' = [att EXCEPT ![n].amount = d] PROVE AttEnough(att', Left)
    <2>1. n \in Attempts => [att[n] EXCEPT !.amount = d].amount = d
      BY <1>2 DEF Attempt
    <2> QED
      BY <1>5, <2>1, OneRowCovers
  <1>6. ASSUME NEW n, FailAttempt(n) PROVE AttEnough(att', Left)
    <2> DEFINE row == [att[n] EXCEPT !.status = IF @ = "PENDING" THEN "FAILED" ELSE @]
    <2>1. n \in Attempts => /\ row.status = IF att[n].status = "PENDING" THEN "FAILED" ELSE att[n].status
                            /\ row.amount = att[n].amount
      BY <1>2 DEF Attempt
    <2>2. att' = [att EXCEPT ![n] = row]
      BY <1>6 DEF FailAttempt, TypeOK
    <2> HIDE DEF row
    <2>3. n \in Attempts => (row.status # "NONE" => row.amount >= Left)
      BY <1>2, <2>1 DEF AttEnough
    <2> QED
      BY <2>2, <2>3, OneRowCovers
  <1>7. CASE Open(p)
    <2>1. CASE att[proc[p].n].status = "NONE"
      <3>1. att' = [att EXCEPT ![proc[p].n] = CreateByokAttempt(proc[p].iv)]
        BY <1>7, <2>1 DEF Open
      <3>2. CreateByokAttempt(proc[p].iv).amount = Collectable(proc[p].iv)
        BY DEF CreateByokAttempt
      <3>3. Collectable(proc[p].iv) >= Left
        BY <1>2, <1>7 DEF Open, CopyCovers
      <3> QED
        BY <3>1, <3>2, <3>3, OneRowCovers
    <2>2. CASE att[proc[p].n].status # "NONE"
      BY <1>1, <1>7, <2>2 DEF Open
    <2> QED
      BY <2>1, <2>2
  <1>8. CASE SetByokCharge(p) \/ Cancelled(p) \/ Expire(p)
    <2>1. att' = [att EXCEPT ![proc[p].n].payable = TRUE] \/ FailAttempt(proc[p].n)
      BY <1>8 DEF SetByokCharge, Cancelled, Expire
    <2> QED
      BY <1>4, <1>6, <2>1
  <1>9. CASE SetByokAmount(p) \/ Lower(p)
    <2>1. UNCHANGED att \/ att' = [att EXCEPT ![proc[p].n].amount = Collectable(proc[p].iv)]
      BY <1>9 DEF SetByokAmount, Lower
    <2>2. Collectable(proc[p].iv) >= Left
      BY <1>2, <1>9 DEF SetByokAmount, Lower, CopyCovers
    <2> QED
      BY <1>1, <1>5, <2>1, <2>2
  <1>10. CASE SettleAttempt(p)
    <2> DEFINE n == proc[p].n
    <2>1. UNCHANGED att \/ (att[n].status = "PENDING" /\ \E l : att' = [att EXCEPT ![n].status = "SUCCEEDED", ![n].late = l])
      BY <1>10 DEF SettleAttempt
    <2>2. ASSUME NEW l, att[n].status = "PENDING", att' = [att EXCEPT ![n].status = "SUCCEEDED", ![n].late = l]
          PROVE  AttEnough(att', Left)
      <3> DEFINE row == [att[n] EXCEPT !.status = "SUCCEEDED", !.late = l]
      <3>1. n \in Attempts => row.amount = att[n].amount
        BY <1>2 DEF Attempt
      <3>2. att' = [att EXCEPT ![n] = row]
        BY <2>2 DEF TypeOK
      <3> HIDE DEF row
      <3>3. n \in Attempts => row.amount >= Left
        BY <1>2, <2>2, <3>1 DEF AttEnough
      <3> QED
        BY <3>2, <3>3, OneRowCovers
    <2> QED
      BY <1>1, <2>1, <2>2
  <1> QED
    BY <1>1, <1>3, <1>7, <1>8, <1>9, <1>10

(* No step but a settlement settles, and what is settled keeps its amount  *)
(* and late charges.                                                       *)
SettledStay ==
    \A n \in Attempts :
        /\ att[n].status = "SUCCEEDED" => att'[n].status = "SUCCEEDED"
        /\ att'[n].status = "SUCCEEDED" =>
             att[n].status = "SUCCEEDED" /\ att'[n].amount = att[n].amount /\ att'[n].late = att[n].late

LEMMA OneRowStays ==
    ASSUME TypeOK, NEW k, NEW row, att' = [att EXCEPT ![k] = row],
           k \in Attempts => IF att[k].status = "SUCCEEDED"
                               THEN row.status = "SUCCEEDED" /\ row.amount = att[k].amount /\ row.late = att[k].late
                               ELSE row.status # "SUCCEEDED"
    PROVE  SettledStay
  BY DEF TypeOK, SettledStay

LEMMA SettledStays ==
    ASSUME TypeOK, NEW p \in Procs, Step(p), ~SettleAttempt(p)
    PROVE  SettledStay
  <1>1. CASE UNCHANGED att
    BY <1>1 DEF SettledStay
  <1>2. \A m \in Attempts : att[m] \in Attempt
    BY DEF TypeOK
  <1>3. \/ UNCHANGED att
        \/ Open(p) \/ SetByokCharge(p) \/ Cancelled(p) \/ SetByokAmount(p) \/ Expire(p) \/ Lower(p)
    BY DEF Step, Pay, NewAttempt, Start, Latest, CreateCharge, VoidInvoice, WriteVoid, Issue,
         Withdraw, CancelCharge, Fresh, Credited, UpdateCharge, GetCharge, SettleInvoice,
         Owed, RecordExcess, SweepNew, SweepOld, Fail, CreditInvoice, Confirm, Sweep
  <1>4. ASSUME NEW n, att' = [att EXCEPT ![n].payable = TRUE] PROVE SettledStay
    <2>1. n \in Attempts => /\ [att[n] EXCEPT !.payable = TRUE].status = att[n].status
                            /\ [att[n] EXCEPT !.payable = TRUE].amount = att[n].amount
                            /\ [att[n] EXCEPT !.payable = TRUE].late = att[n].late
      BY <1>2 DEF Attempt
    <2> QED
      BY <1>4, <2>1, OneRowStays
  <1>5. ASSUME NEW n, NEW d, att[n].status = "PENDING", att' = [att EXCEPT ![n].amount = d] PROVE SettledStay
    <2>1. n \in Attempts => [att[n] EXCEPT !.amount = d].status = att[n].status
      BY <1>2 DEF Attempt
    <2> QED
      BY <1>5, <2>1, OneRowStays
  <1>6. ASSUME NEW n, FailAttempt(n) PROVE SettledStay
    <2> DEFINE row == [att[n] EXCEPT !.status = IF @ = "PENDING" THEN "FAILED" ELSE @]
    <2>1. n \in Attempts => /\ row.status = IF att[n].status = "PENDING" THEN "FAILED" ELSE att[n].status
                            /\ row.amount = att[n].amount /\ row.late = att[n].late
      BY <1>2 DEF Attempt
    <2>2. att' = [att EXCEPT ![n] = row]
      BY <1>6 DEF FailAttempt, TypeOK
    <2> HIDE DEF row
    <2> QED
      BY <2>1, <2>2, OneRowStays
  <1>7. CASE Open(p)
    <2>1. CASE att[proc[p].n].status = "NONE"
      <3>1. att' = [att EXCEPT ![proc[p].n] = CreateByokAttempt(proc[p].iv)]
        BY <1>7, <2>1 DEF Open
      <3>2. CreateByokAttempt(proc[p].iv).status = "PENDING"
        BY DEF CreateByokAttempt
      <3> QED
        BY <2>1, <3>1, <3>2, OneRowStays
    <2>2. CASE att[proc[p].n].status # "NONE"
      BY <1>1, <1>7, <2>2 DEF Open
    <2> QED
      BY <2>1, <2>2
  <1>8. CASE SetByokCharge(p) \/ Cancelled(p) \/ SetByokAmount(p) \/ Expire(p) \/ Lower(p)
    <2>1. \/ UNCHANGED att
          \/ att' = [att EXCEPT ![proc[p].n].payable = TRUE]
          \/ att[proc[p].n].status = "PENDING" /\ \E d : att' = [att EXCEPT ![proc[p].n].amount = d]
          \/ FailAttempt(proc[p].n)
      BY <1>8 DEF SetByokCharge, Cancelled, SetByokAmount, Expire, Lower
    <2> QED
      BY <1>1, <1>4, <1>5, <1>6, <2>1
  <1> QED
    BY <1>1, <1>3, <1>7, <1>8

(* The first payment on a charge stays the first.                          *)
LEMMA FirstStays ==
    ASSUME IInv, [Next]_vars
    PROVE  \A n \in Attempts : att[n].status = "SUCCEEDED" => bank'[n].pays[1] = bank[n].pays[1]
  <1> SUFFICES ASSUME NEW n \in Attempts, att[n].status = "SUCCEEDED" PROVE bank'[n].pays[1] = bank[n].pays[1]
    OBVIOUS
  <1>1. \A m \in Attempts : bank[m] \in Charge
    BY DEF IInv, TypeOK
  <1>2. bank[n].pays \in Seq(Payment) /\ Len(bank[n].pays) > 0
    BY <1>1 DEF IInv, RowsOK, Charge
  <1>3. CASE UNCHANGED bank
    BY <1>3
  <1>4. ASSUME NEW m, NEW c, bank' = [bank EXCEPT ![m] = c],
               m \in Attempts => c.pays = bank[m].pays \/ \E x \in Payment : c.pays = Append(bank[m].pays, x)
        PROVE  bank'[n].pays[1] = bank[n].pays[1]
    <2>1. bank'[n] = IF m = n THEN c ELSE bank[n]
      BY <1>4 DEF IInv, TypeOK
    <2> QED
      BY <1>2, <1>4, <2>1
  <1>5. ASSUME NEW m, NEW s, NEW d, \/ bank' = [bank EXCEPT ![m].status = s]
                                    \/ bank' = [bank EXCEPT ![m].amount = d]
                                    \/ bank' = [bank EXCEPT ![m].status = s, ![m].amount = d]
        PROVE  bank'[n].pays[1] = bank[n].pays[1]
    <2>1. \A x : m \in Attempts => /\ [bank[m] EXCEPT !.status = s].pays = bank[m].pays
                                   /\ [bank[m] EXCEPT !.amount = d].pays = bank[m].pays
                                   /\ [bank[m] EXCEPT !.status = s, !.amount = d].pays = bank[m].pays
      BY <1>1 DEF Charge
    <2>2. \/ bank' = [bank EXCEPT ![m] = [bank[m] EXCEPT !.status = s]]
          \/ bank' = [bank EXCEPT ![m] = [bank[m] EXCEPT !.amount = d]]
          \/ bank' = [bank EXCEPT ![m] = [bank[m] EXCEPT !.status = s, !.amount = d]]
      BY <1>5 DEF IInv, TypeOK
    <2> QED
      BY <1>4, <2>1, <2>2
  <1>6. ASSUME NEW p \in Procs, Step(p) PROVE bank'[n].pays[1] = bank[n].pays[1]
    <2>1. UNCHANGED bank \/ CreateCharge(p) \/ CancelCharge(p) \/ UpdateCharge(p)
      BY <1>6 DEF Step, Pay, NewAttempt, Start, Latest, Open, SetByokCharge, VoidInvoice, Cancelled, SetByokAmount, Expire,
           Withdraw, WriteVoid, Issue, Fresh, Credited, GetCharge, SettleInvoice, Lower, SettleAttempt,
           Owed, RecordExcess, SweepNew, SweepOld, Fail, CreditInvoice, Confirm, Sweep
    <2>2. CASE CreateCharge(p)
      <3> DEFINE m == proc[p].n
                 c == IF bank[m].status = "none" THEN [bank[m] EXCEPT !.status = "open", !.amount = proc[p].a.amount] ELSE bank[m]
      <3>1. bank' = [bank EXCEPT ![m] = c]
        BY <2>2 DEF CreateCharge, IInv, TypeOK
      <3>2. m \in Attempts => c.pays = bank[m].pays
        BY <1>1 DEF Charge
      <3> HIDE DEF m, c
      <3> QED
        BY <1>4, <3>1, <3>2
    <2>3. CASE CancelCharge(p)
      <3> DEFINE m == proc[p].n
                 c == [bank[m] EXCEPT !.status = IF @ = "open" THEN "removed" ELSE @]
      <3>1. UNCHANGED bank \/ bank' = [bank EXCEPT ![m] = c]
        BY <2>3 DEF CancelCharge, IInv, TypeOK
      <3>2. m \in Attempts => c.pays = bank[m].pays
        BY <1>1 DEF Charge
      <3> HIDE DEF m, c
      <3> QED
        BY <1>3, <1>4, <3>1, <3>2
    <2>4. CASE UpdateCharge(p)
      <3>1. UNCHANGED bank \/ bank' = [bank EXCEPT ![proc[p].n].amount = Collectable(proc[p].iv)]
        BY <2>4 DEF UpdateCharge
      <3> QED
        BY <1>3, <1>5, <3>1
    <2> QED
      BY <1>3, <2>1, <2>2, <2>3, <2>4
  <1>7. ASSUME NEW m \in Attempts, BankExpire(m) PROVE bank'[n].pays[1] = bank[n].pays[1]
    BY <1>5, <1>7 DEF BankExpire
  <1>8. ASSUME NEW m \in Attempts, NEW s \in Surcharges, BankPay(m, s) PROVE bank'[n].pays[1] = bank[n].pays[1]
    <2> DEFINE x == [amt |-> bank[m].amount + s.late + s.over, late |-> s.late]
               c == [bank[m] EXCEPT !.status = "concluded", !.pays = Append(bank[m].pays, x)]
    <2>1. bank' = [bank EXCEPT ![m] = c]
      BY <1>8 DEF BankPay, IInv, TypeOK
    <2>2. bank[m].amount \in Nat /\ s.late \in Nat /\ s.over \in Nat
      BY <1>1, CollectionAssumption DEF Charge
    <2>3. x \in Payment
      BY <2>2 DEF Payment
    <2>4. c.pays = Append(bank[m].pays, x)
      BY <1>1 DEF Charge
    <2> HIDE DEF x, c
    <2> QED
      BY <1>4, <2>1, <2>3, <2>4
  <1>9. UNCHANGED vars \/ Abandon => UNCHANGED bank
    BY DEF vars, Abandon
  <1> QED
    BY <1>3, <1>6, <1>7, <1>8, <1>9 DEF Next

(* What was paid, or given back, goes on covering what was left.           *)
LEMMA PaidStays ==
    ASSUME IInv, CoverInv, SettledStay, \A n \in Attempts : att[n].status = "SUCCEEDED" => bank'[n].pays[1] = bank[n].pays[1]
    PROVE  PaidCovers(att', bank', Left) /\ KeptCovers(excess, att', bank', Left)
  <1>1. PaidCovers(att', bank', Left)
    BY DEF CoverInv, PaidCovers, SettledStay
  <1>2. \A e \in excess : e.n \in Attempts
    BY DEF IInv, TypeOK, Excess
  <1>3. KeptCovers(excess, att', bank', Left)
    BY <1>2 DEF CoverInv, KeptCovers, SettledStay
  <1> QED
    BY <1>1, <1>3

(* A settlement takes a payment that covers its copy.                      *)
LEMMA SettlesCovering ==
    ASSUME IInv, CoverInv, NEW p \in Procs, SettleAttempt(p)
    PROVE  PaidCovers(att', bank', Left) /\ KeptCovers(excess', att', bank', Left)
  <1> DEFINE n == proc[p].n
             first == First(n)
             late == Smaller(first.late, first.amt - proc[p].a.amount)
  <1>1. proc[p] \in Process /\ ProcOK(proc[p]) /\ proc[p].pc = "settle" /\ UNCHANGED <<bank, excess>>
    BY DEF IInv, TypeOK, SettleAttempt
  <1>2. n \in Attempts /\ proc[p].seen \in Nat /\ 1 <= proc[p].seen /\ proc[p].seen <= Len(bank[n].pays)
        /\ proc[p].a.amount <= first.amt
    BY <1>1 DEF ProcOK, HasAttempt, HasPayments, Process
  <1>3. first.amt \in Nat /\ first.late \in Nat /\ proc[p].a.amount \in Nat /\ att[n] \in Attempt
    <2>1. Len(bank[n].pays) \in Nat /\ (Len(bank[n].pays) > 0 => first.amt \in Nat /\ first.late \in Nat)
      BY <1>2, Payments DEF IInv
    <2>2. proc[p].a.amount \in Nat /\ att[n] \in Attempt
      BY <1>1, <1>2 DEF Process, Copy, IInv, TypeOK
    <2> QED
      BY <1>2, <2>1, <2>2
  <1>4. proc[p].a.amount >= Left
    BY <1>1 DEF CoverInv, CopyCovers, HoldsCopy
  <1>5. CASE UNCHANGED att
    BY <1>1, <1>5 DEF CoverInv
  <1>6. CASE att[n].status = "PENDING" /\ att' = [att EXCEPT ![n].status = "SUCCEEDED", ![n].late = late]
    <2>1. Left \in Int /\ late \in Int /\ Left + late <= first.amt
      BY <1>2, <1>3, <1>4, LeftFacts DEF Smaller, IInv
    <2>2. att'[n].late = late /\ first = bank'[n].pays[1]
      BY <1>1, <1>2, <1>3, <1>6 DEF IInv, TypeOK, Attempt, First
    <2>3. \A m \in Attempts : m # n => att'[m] = att[m]
      BY <1>6 DEF IInv, TypeOK
    <2> HIDE DEF late, first
    <2>4. PaidCovers(att', bank', Left)
      <3> SUFFICES ASSUME NEW m \in Attempts, att'[m].status = "SUCCEEDED"
                   PROVE  bank'[m].pays[1].amt >= Left + att'[m].late
        BY DEF PaidCovers
      <3>1. CASE m = n
        BY <1>3, <2>1, <2>2, <3>1
      <3>2. CASE m # n
        BY <1>1, <2>3, <3>2 DEF CoverInv, PaidCovers
      <3> QED
        BY <3>1, <3>2
    <2>5. \A e \in excess : e.n \in Attempts
      BY DEF IInv, TypeOK, Excess
    <2>6. KeptCovers(excess', att', bank', Left)
      BY <1>1, <1>6, <2>3, <2>5 DEF CoverInv, KeptCovers
    <2> QED
      BY <2>4, <2>6
  <1> QED
    BY <1>5, <1>6 DEF SettleAttempt

(* What is given back leaves the copy's amount.                            *)
LEMMA GivesBackCovering ==
    ASSUME IInv, CoverInv, NEW p \in Procs, RecordExcess(p)
    PROVE  KeptCovers(excess', att', bank', Left)
  <1> DEFINE n == proc[p].n
             a == proc[p].a
  <1>1. proc[p].pc = "excess" /\ UNCHANGED <<att, bank>> /\ proc[p] \in Process /\ ProcOK(proc[p])
    BY DEF RecordExcess, IInv, TypeOK
  <1>2. n \in Attempts /\ a.status = att[n].status /\ a.status \in {"SUCCEEDED", "FAILED"}
        /\ proc[p].seen \in Nat /\ 1 <= proc[p].seen /\ proc[p].seen <= Len(bank[n].pays)
    BY <1>1 DEF ProcOK, HasAttempt, HasPayments, Process
  <1>3. a.amount >= Left /\ a.amount \in Nat
    <2>1. CopyCovers(proc[p], Left)
      BY DEF CoverInv
    <2>2. a.amount >= Left
      BY <1>2, <2>1 DEF CopyCovers
    <2>3. a \in Copy
      BY <1>1 DEF Process
    <2> QED
      BY <2>2, <2>3 DEF Copy
  <1>4. First(n).amt \in Nat /\ First(n).late \in Nat
    <2>1. Len(bank[n].pays) \in Nat /\ (Len(bank[n].pays) > 0 => First(n).amt \in Nat /\ First(n).late \in Nat)
      BY <1>2, Payments DEF IInv
    <2> QED
      BY <1>2, <2>1
  <1>5. \A e \in excess' : e \in excess \/ e \in ExcessOf(n, a, proc[p].seen)
    BY DEF RecordExcess
  <1>6. ASSUME NEW e \in ExcessOf(n, a, proc[p].seen), e.tag = "over"
        PROVE  /\ att'[e.n].status = "SUCCEEDED"
               /\ bank'[e.n].pays[1].amt >= Left + bank'[e.n].pays[1].late + e.amt
    <2>1. e.n = n /\ a.status # "FAILED" /\ e.amt = First(n).amt - (a.amount + First(n).late)
      BY <1>6 DEF ExcessOf
    <2>2. Left \in Int
      BY LeftFacts DEF IInv
    <2> HIDE DEF n, a
    <2>3. First(n).amt >= Left + First(n).late + e.amt
      BY <1>3, <1>4, <2>1, <2>2
    <2> QED
      BY <1>1, <1>2, <2>1, <2>3 DEF First
  <1> QED
    BY <1>1, <1>5, <1>6 DEF CoverInv, KeptCovers

(* It is enough to cover what was left before the step.                    *)
LEMMA CoveredBefore ==
    ASSUME IInv, IInv', [Next]_vars, AttEnough(att', Left), CopiesCover,
           PaidCovers(att', bank', Left), KeptCovers(excess', att', bank', Left)
    PROVE  CoverInv'
  <1> DEFINE d == Left
             e == Total - inv'.credited
  <1>1. d \in Int /\ e \in Int /\ e <= d
    <2>1. inv.credited \in Nat /\ inv'.credited \in Nat /\ \A q \in Procs : proc[q].note \in Nat
      BY DEF IInv, TypeOK, Invoice, Process
    <2>2. inv'.credited >= inv.credited
      BY <2>1, CreditedByIssue DEF IInv
    <2> QED
      BY <2>1, <2>2, CollectionAssumption DEF Left
  <1>2. \A n \in Attempts : att'[n].amount \in Nat /\ att'[n].late \in Nat
    BY DEF IInv, TypeOK, Attempt
  <1>3. \A n \in Attempts : att'[n].status = "SUCCEEDED" => bank'[n].pays[1].amt \in Nat /\ bank'[n].pays[1].late \in Nat
    <2> SUFFICES ASSUME NEW n \in Attempts, att'[n].status = "SUCCEEDED"
                 PROVE  bank'[n].pays[1].amt \in Nat /\ bank'[n].pays[1].late \in Nat
      OBVIOUS
    <2>1. bank'[n] \in Charge /\ Len(bank'[n].pays) > 0
      BY DEF IInv, RowsOK, TypeOK
    <2>2. bank'[n].pays \in Seq(Payment)
      BY <2>1 DEF Charge
    <2>3. bank'[n].pays[1] \in Payment
      BY <2>1, <2>2
    <2> QED
      BY <2>3 DEF Payment
  <1>4. \A q \in Procs : proc'[q].a.amount \in Nat /\ proc'[q].page.amount \in Nat /\ Collectable(proc'[q].iv) \in Nat
    <2> SUFFICES ASSUME NEW q \in Procs
                 PROVE  proc'[q].a.amount \in Nat /\ proc'[q].page.amount \in Nat /\ Collectable(proc'[q].iv) \in Nat
      OBVIOUS
    <2>1. proc'[q] \in Process
      BY DEF IInv, TypeOK
    <2>2. proc'[q].a \in Copy /\ proc'[q].iv \in Invoice /\ proc'[q].page.amount \in Nat
      BY <2>1 DEF Process
    <2>3. proc'[q].iv.credited \in Nat
      BY <2>2 DEF Invoice
    <2> QED
      BY <2>2, <2>3, CollectionAssumption DEF Copy, Collectable
  <1>5. \A x \in excess' : x.n \in Attempts /\ x.amt \in Nat
    BY DEF IInv, TypeOK, Excess
  <1> HIDE DEF d, e
  <1>6. AttEnough(att', e)
    BY <1>1, <1>2 DEF AttEnough, d
  <1>7. \A q \in Procs : CopyCovers(proc'[q], e)
    BY <1>1, <1>4 DEF CopiesCover, CopyCovers, d
  <1>8. PaidCovers(att', bank', e)
    BY <1>1, <1>2, <1>3 DEF PaidCovers, d
  <1>9. KeptCovers(excess', att', bank', e)
    BY <1>1, <1>3, <1>5 DEF KeptCovers, d
  <1> QED
    BY <1>6, <1>7, <1>8, <1>9 DEF CoverInv, Left, e, AttEnough, CopyCovers, PaidCovers, KeptCovers, Collectable

LEMMA CoverKept ==
    ASSUME IInv, CoverInv, [Next]_vars
    PROVE  CoverInv'
  <1>1. TypeOK /\ \A q \in Procs : ProcOK(proc[q])
    BY DEF IInv
  <1>2. \A n \in Attempts : att[n].status = "SUCCEEDED" => bank'[n].pays[1] = bank[n].pays[1]
    BY FirstStays
  <1>3. IInv'
    BY NextHolds
  <1>4. ASSUME NEW p \in Procs, Step(p) PROVE CoverInv'
    <2>1. AttEnough(att', Left)
      BY <1>1, <1>4, AmountsCover
    <2>2. CopiesCover
      BY <1>1, <1>4, OpeningCovers, NotesCover, ConfirmingCovers, SweepingCovers DEF Step
    <2>3. CASE SettleAttempt(p)
      BY <1>3, <2>1, <2>2, <2>3, SettlesCovering, CoveredBefore
    <2>4. CASE ~SettleAttempt(p)
      <3>1. PaidCovers(att', bank', Left) /\ KeptCovers(excess, att', bank', Left)
        BY <1>1, <1>2, <1>4, <2>4, SettledStays, PaidStays
      <3>2. excess' = excess \/ RecordExcess(p)
        BY <1>4 DEF Step, Pay, NewAttempt, Start, Latest, Open, SetByokCharge, VoidInvoice, Cancelled, SetByokAmount, Expire,
             Withdraw, WriteVoid, Issue, Fresh, Credited, GetCharge, SettleInvoice, Lower, SettleAttempt, CreateCharge,
             CancelCharge, UpdateCharge, Owed, SweepNew, SweepOld, Fail, CreditInvoice, Confirm, Sweep
      <3>3. KeptCovers(excess', att', bank', Left)
        BY <3>1, <3>2, GivesBackCovering
      <3> QED
        BY <1>3, <2>1, <2>2, <3>1, <3>3, CoveredBefore
    <2> QED
      BY <2>3, <2>4
  <1>5. CASE UNCHANGED vars \/ Abandon \/ \E n \in Attempts : BankExpire(n) \/ \E s \in Surcharges : BankPay(n, s)
    <2>1. UNCHANGED <<att, excess, proc>>
      BY <1>5 DEF vars, Abandon, BankExpire, BankPay
    <2>2. SettledStay
      BY <2>1 DEF SettledStay
    <2>3. CopiesCover /\ AttEnough(att', Left)
      BY <2>1 DEF CopiesCover, CoverInv
    <2>4. PaidCovers(att', bank', Left) /\ KeptCovers(excess', att', bank', Left)
      BY <1>2, <2>1, <2>2, PaidStays
    <2> QED
      BY <1>3, <2>3, <2>4, CoveredBefore
  <1> QED
    BY <1>4, <1>5 DEF Next

LEMMA InitCovers == Init => CoverInv
  <1> SUFFICES ASSUME Init PROVE CoverInv
    OBVIOUS
  <1>1. TypeOK
    BY InitHolds DEF IInv
  <1>2. \A q \in Procs : proc[q] = Idle
    BY DEF Init
  <1>3. Idle.iv = NoInvoice /\ Idle.a.status = "NONE" /\ Idle.op = "none" /\ Idle.pc = "idle"
    BY DEF Idle, NoCopy
  <1>4. \A n \in Attempts : att[n].status = "NONE"
    BY DEF Init, NoAttempt
  <1>5. \A q \in Procs : CopyCovers(proc[q], Left)
    BY <1>1, <1>2, <1>3, LeftFacts DEF CopyCovers, HoldsCopy
  <1>6. AttEnough(att, Left) /\ PaidCovers(att, bank, Left)
    BY <1>4 DEF AttEnough, PaidCovers
  <1>7. KeptCovers(excess, att, bank, Left)
    BY DEF Init, KeptCovers
  <1> QED
    BY <1>5, <1>6, <1>7 DEF CoverInv

(* However many requests, sweeps, notes and payments race, the payment     *)
(* that settled an attempt, less its late charges and less what is given   *)
(* back of it, and the invoice's notes together cover the total.           *)
THEOREM NeverSettlesForLess == Spec => []CoversTotal
  <1>1. IInv /\ CoverInv /\ [Next]_vars => CoverInv'
    BY CoverKept
  <1>2. IInv /\ CoverInv => CoversTotal
    <2> SUFFICES ASSUME IInv, CoverInv PROVE CoversTotal
      OBVIOUS
    <2>1. inv.credited \in Nat /\ Total \in Nat /\ \A n \in Attempts : att[n].late \in Nat
      BY CollectionAssumption DEF IInv, TypeOK, Invoice, Attempt
    <2>2. \A n \in Attempts : att[n].status = "SUCCEEDED" => First(n).amt \in Nat /\ First(n).late \in Nat
      BY Payments DEF IInv, RowsOK
    <2>3. \A e \in excess : e.n \in Attempts /\ e.amt \in Nat
      BY DEF IInv, TypeOK, Excess
    <2>4. \A n \in Attempts : att[n].status = "SUCCEEDED" => First(n).amt + inv.credited >= Total + att[n].late
      BY <2>1, <2>2 DEF CoverInv, PaidCovers, Left, First
    <2>5. \A e \in excess : e.tag = "over" => First(e.n).amt + inv.credited >= Total + First(e.n).late + e.amt
      BY <2>1, <2>2, <2>3 DEF CoverInv, KeptCovers, Left, First
    <2> QED
      BY <2>4, <2>5 DEF CoversTotal
  <1> QED
    BY <1>1, <1>2, InitCovers, Inductive, PTL DEF Spec

=============================================================================
