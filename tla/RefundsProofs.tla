--------------------------- MODULE RefundsProofs ---------------------------
(***************************************************************************)
(* Proofs about Refunds, for every set of processes and every bound.       *)
(* TypeCorrect, RefundedIsPaid and OnceBeforeFailure hold of every         *)
(* specification; PaysOnce and Followed hold unless overlapping requests   *)
(* meet a bank that fails a refund (the instance of the run late_answer).  *)
(***************************************************************************)
EXTENDS Refunds, TLAPS

Copy == [status: ExcessStatus, rid: 0..MaxRefunds]

(* The row names the last refund id drawn, and the bank knows no later one.*)
RowOK ==
    /\ row.rid = used
    /\ row.status \in {"absent", "open"} <=> used = 0
    /\ \A r \in Ids : bank[r] # "none" => r <= used

(* What a process still knows although others ran since it read the row.   *)
Knows(p) ==
    /\ At(p, "mark") => proc[p].e.status \in {"open", "refund_failed"}
    /\ proc[p].pc \in {"send", "ask", "apply"} => proc[p].e.rid \in 1..used
    /\ At(p, "apply") => /\ proc[p].st \in {"done", "failed"}
                         /\ proc[p].st = bank[proc[p].e.rid]

IInv == TypeOK /\ RowOK /\ (\A p \in Procs : Knows(p)) /\ RefundedMeansPaid

(* The bank takes back nothing it has concluded, and ids are only added.   *)
Grows ==
    /\ used <= used'
    /\ \A r \in Ids : bank[r] \in {"done", "failed"} => bank'[r] = bank[r]

(* A step of p leaves what the other processes know as it was.             *)
LEMMA Others ==
    ASSUME IInv, used' \in 0..MaxRefunds, Grows,
           NEW p \in Procs, NEW r, Become(p, r),
           NEW q \in Procs, q # p
    PROVE  Knows(q)'
<1>1. proc'[q] = proc[q]
  BY DEF IInv, TypeOK, Become
<1>2. Knows(q) /\ used \in 0..MaxRefunds
  BY DEF IInv, TypeOK
<1>3. proc[q].pc \in {"send", "ask", "apply"} => proc[q].e.rid \in 1..used'
  BY <1>2, RefundsAssumption DEF Knows, Grows
<1>4. At(q, "apply") => bank'[proc[q].e.rid] = bank[proc[q].e.rid]
  BY <1>2, RefundsAssumption DEF Knows, Grows, At, Ids
<1> QED
  BY <1>1, <1>2, <1>3, <1>4 DEF Knows, At

(* What a step that leaves the bank and the ids alone has to show.         *)
LEMMA Moves ==
    ASSUME IInv, UNCHANGED <<bank, used, window>>,
           row' \in Row, row'.rid = row.rid,
           row'.status \in {"absent", "open"} <=> row.status \in {"absent", "open"},
           row'.status = "refunded" => row.status = "refunded" \/ \E r \in Ids : bank[r] = "done",
           NEW p \in Procs, NEW r \in Process, Become(p, r), Knows(p)'
    PROVE  IInv'
<1>1. TypeOK'
  BY DEF IInv, TypeOK, Become
<1>2. RowOK'
  BY DEF IInv, RowOK
<1>3. RefundedMeansPaid'
  BY DEF IInv, RefundedMeansPaid
<1>4. Grows /\ used' \in 0..MaxRefunds
  BY RefundsAssumption DEF Grows, IInv, TypeOK
<1>5. \A q \in Procs : Knows(q)'
  BY <1>4, Others
<1> QED
  BY <1>1, <1>2, <1>3, <1>5 DEF IInv

LEMMA IdleIsProcess == Idle \in Process
BY RefundsAssumption DEF Idle, NoCopy, Process, Steps, ExcessStatus, RefundStatus

LEMMA CopyIsCopy == ASSUME NEW r \in Row PROVE CopyOf(r) \in Copy
BY DEF CopyOf, Copy, Row

(* What a process is after one of the moves of Refunds.                    *)
LEMMA Becomes ==
    ASSUME TypeOK, NEW p \in Procs, NEW r, Become(p, r)
    PROVE  proc'[p] = r
BY DEF TypeOK, Become

LEMMA InitInv == Init => IInv
<1> SUFFICES ASSUME Init PROVE IInv
  OBVIOUS
<1>1. TypeOK
  BY IdleIsProcess, RefundsAssumption DEF Init, TypeOK, Row, ExcessStatus, ExcessKind, RefundStatus, Ids
<1>2. RowOK
  BY DEF Init, RowOK
<1>3. \A p \in Procs : Knows(p)
  BY DEF Init, Knows, At, Idle
<1>4. RefundedMeansPaid
  BY DEF Init, RefundedMeansPaid
<1> QED
  BY <1>1, <1>2, <1>3, <1>4 DEF IInv

(* refundExcess up to its first write, on a row r the process has in hand. *)
LEMMA RefundMoves ==
    ASSUME IInv, UNCHANGED <<bank, used, window>>, row' \in Row, row'.rid = row.rid,
           row'.status \in {"absent", "open"} <=> row.status \in {"absent", "open"},
           row'.status = "refunded" => row.status = "refunded",
           NEW p \in Procs, Refund(p, CopyOf(row'))
    PROVE  IInv'
<1>1. CASE row'.status \in {"open", "refund_failed"} /\ window
  <2> DEFINE r == [Idle EXCEPT !.pc = "mark", !.e = CopyOf(row')]
  <2>1. r \in Process
    BY IdleIsProcess, CopyIsCopy DEF Process, Copy, Steps
  <2>2. Become(p, r)
    BY <1>1 DEF Refund, CopyOf
  <2>3. proc'[p] = r
    BY <2>2, Becomes DEF IInv
  <2>4. Knows(p)'
    BY <1>1, <2>3 DEF Knows, At, Idle, CopyOf
  <2> QED
    BY <2>1, <2>2, <2>4, Moves
<1>2. CASE ~(row'.status \in {"open", "refund_failed"} /\ window)
  <2>1. Become(p, Idle)
    BY <1>2 DEF Refund, CopyOf, End
  <2>2. Knows(p)'
    BY <2>1, Becomes DEF Knows, At, Idle, IInv
  <2> QED
    BY <2>1, <2>2, IdleIsProcess, Moves
<1> QED
  BY <1>1, <1>2

LEMMA EndMoves ==
    ASSUME IInv, UNCHANGED <<row, bank, used, window>>, NEW p \in Procs, End(p)
    PROVE  IInv'
<1>1. Become(p, Idle)
  BY DEF End
<1>2. Knows(p)'
  BY <1>1, Becomes DEF Knows, At, Idle, IInv
<1>3. row' \in Row /\ row'.rid = row.rid
  BY DEF IInv, TypeOK
<1> QED
  BY <1>1, <1>2, <1>3, IdleIsProcess, Moves

(* applyRefund's answer st, which the bank gave about the refund the       *)
(* process holds; the bank's refund of that id is st from now on.          *)
LEMMA AnsweredMoves ==
    ASSUME IInv, UNCHANGED <<row, used, window>>, Grows, bank' \in [Ids -> RefundStatus],
           \A r \in Ids : bank'[r] # "none" => r <= used,
           NEW p \in Procs, proc[p].e.rid \in 1..used,
           NEW st, st = bank'[proc[p].e.rid], st # "none", Answered(p, st)
    PROVE  IInv'
<1>0. proc[p] \in Process /\ used \in 0..MaxRefunds /\ proc[p].e.rid \in Ids
  BY RefundsAssumption DEF IInv, TypeOK, Ids
<1>1. st \in RefundStatus
  BY <1>0
<1>2. PICK r \in Process : Become(p, r) /\ (r = Idle \/ (st # "processing" /\
                             r = [proc[p] EXCEPT !.pc = "apply", !.st = st]))
  <2>1. [proc[p] EXCEPT !.pc = "apply", !.st = st] \in Process
    BY <1>0, <1>1 DEF Process, Steps
  <2> QED
    BY <2>1, IdleIsProcess DEF Answered, End
<1>3. proc'[p] = r
  BY <1>2, Becomes DEF IInv
<1>4. Knows(p)'
  <2>1. CASE r = Idle
    BY <1>3, <2>1 DEF Knows, At, Idle
  <2>2. CASE st # "processing" /\ r = [proc[p] EXCEPT !.pc = "apply", !.st = st]
    <3>1. r.pc = "apply" /\ r.st = st /\ r.e = proc[p].e
      BY <1>0, <2>2 DEF Process
    <3> QED
      BY <1>1, <1>3, <2>2, <3>1 DEF Knows, At, RefundStatus
  <2> QED
    BY <1>2, <2>1, <2>2
<1>5. TypeOK'
  BY <1>2 DEF IInv, TypeOK, Become
<1>6. RowOK'
  BY DEF IInv, RowOK
<1>7. RefundedMeansPaid'
  BY DEF IInv, RefundedMeansPaid, Grows
<1>8. \A q \in Procs : Knows(q)'
  BY <1>0, <1>2, <1>4, Others
<1> QED
  BY <1>5, <1>6, <1>7, <1>8 DEF IInv

LEMMA MarkKeeps ==
    ASSUME IInv, NEW p \in Procs, Mark(p)
    PROVE  IInv'
<1>1. CASE row.status # proc[p].e.status /\ End(p) /\ UNCHANGED <<row, used>>
  BY <1>1, EndMoves DEF Mark
<1>2. CASE /\ row.status = proc[p].e.status /\ used < MaxRefunds
           /\ used' = used + 1
           /\ row' = [row EXCEPT !.status = "refunding", !.rid = used + 1]
           /\ Become(p, [Idle EXCEPT !.pc = "send", !.e = CopyOf(row')])
  <2>1. used' \in 0..MaxRefunds /\ used' # 0 /\ used < used' /\ used \in Nat
    BY <1>2, RefundsAssumption DEF IInv, TypeOK
  <2>2. row' \in Row /\ row'.status = "refunding" /\ row'.rid = used'
    <3>1. row' = [row EXCEPT !.status = "refunding", !.rid = used'] /\ row \in Row
      BY <1>2 DEF IInv, TypeOK
    <3> QED
      BY <2>1, <3>1 DEF Row, ExcessStatus
  <2> DEFINE r == [Idle EXCEPT !.pc = "send", !.e = CopyOf(row')]
  <2>3. r \in Process
    BY <2>2, IdleIsProcess, CopyIsCopy DEF Process, Copy, Steps
  <2>4. proc'[p] = r
    BY <1>2, Becomes DEF IInv
  <2>5. UNCHANGED <<bank, window>>
    BY DEF Mark
  <2>6. TypeOK'
    BY <1>2, <2>1, <2>2, <2>3, <2>5 DEF IInv, TypeOK, Become
  <2>7. RowOK'
    <3>1. \A s \in Ids : bank'[s] # "none" => s <= used'
      BY <2>1, <2>5, RefundsAssumption DEF IInv, RowOK, Ids
    <3> QED
      BY <2>1, <2>2, <3>1 DEF RowOK
  <2>8. RefundedMeansPaid'
    BY <2>2 DEF RefundedMeansPaid
  <2>9. Knows(p)'
    <3>1. proc'[p].pc = "send" /\ proc'[p].e.rid = used'
      BY <2>2, <2>4 DEF Idle, CopyOf
    <3>2. used' \in 1..used'
      BY <2>1, RefundsAssumption
    <3> QED
      BY <3>1, <3>2 DEF Knows, At
  <2>10. Grows
    BY <2>1, <2>5 DEF Grows
  <2>11. \A q \in Procs : Knows(q)'
    BY <1>2, <2>1, <2>9, <2>10, Others
  <2> QED
    BY <2>6, <2>7, <2>8, <2>11 DEF IInv
<1> QED
  BY <1>1, <1>2 DEF Mark

LEMMA SendKeeps ==
    ASSUME IInv, NEW p \in Procs, Send(p)
    PROVE  IInv'
<1> DEFINE r == proc[p].e.rid
<1>1. PICK st \in {"processing"} \cup Outcomes :
         /\ bank[r] # "none" => st = bank[r]
         /\ bank' = [bank EXCEPT ![r] = st]
         /\ Answered(p, st)
  BY DEF Send
<1>2. st \in RefundStatus /\ st # "none"
  BY DEF Outcomes, RefundStatus
<1>3. r \in 1..used /\ r \in Ids /\ r <= used
  BY RefundsAssumption DEF Send, At, IInv, TypeOK, Knows, Ids
<1>4. bank \in [Ids -> RefundStatus]
  BY DEF IInv, TypeOK
<1>5. bank' \in [Ids -> RefundStatus] /\ bank'[r] = st
      /\ \A s \in Ids : s # r => bank'[s] = bank[s]
  BY <1>1, <1>2, <1>3, <1>4
<1>6. Grows
  BY <1>1, <1>5, RefundsAssumption DEF Grows, Send, IInv, TypeOK
<1>7. \A s \in Ids : bank'[s] # "none" => s <= used
  BY <1>3, <1>5 DEF IInv, RowOK
<1> QED
  BY <1>1, <1>2, <1>3, <1>5, <1>6, <1>7, AnsweredMoves DEF Send

LEMMA FollowKeeps ==
    ASSUME IInv, NEW p \in Procs, Follow(p)
    PROVE  IInv'
<1> DEFINE r == [Idle EXCEPT !.pc = "ask", !.e = CopyOf(row)]
<1>0. row \in Row /\ used \in 0..MaxRefunds /\ row.rid = used /\ used # 0
  BY DEF Follow, IInv, TypeOK, RowOK
<1>1. r \in Process
  BY <1>0, IdleIsProcess, CopyIsCopy DEF Process, Copy, Steps
<1>2. Become(p, r) /\ UNCHANGED <<row, bank, used, window>>
  BY DEF Follow
<1>3. proc'[p] = r
  BY <1>2, Becomes DEF IInv
<1>4. Knows(p)'
  <2>1. proc'[p].pc = "ask" /\ proc'[p].e.rid = used
    BY <1>0, <1>3 DEF Idle, CopyOf
  <2>2. used \in 1..used
    BY <1>0, RefundsAssumption
  <2> QED
    BY <1>2, <2>1, <2>2 DEF Knows, At
<1> QED
  BY <1>0, <1>1, <1>2, <1>4, Moves

LEMMA AskKeeps ==
    ASSUME IInv, NEW p \in Procs, Ask(p)
    PROVE  IInv'
<1>0. UNCHANGED <<row, bank, used, window>> /\ proc[p].pc = "ask"
  BY DEF Ask, At
<1>1. proc[p] \in Process /\ proc[p].e.rid \in 1..used /\ proc[p].e.rid \in Ids
      /\ used \in 0..MaxRefunds
  BY <1>0, RefundsAssumption DEF IInv, TypeOK, Knows, Ids
<1>2. CASE bank[proc[p].e.rid] = "none"
  <2> DEFINE r == [proc[p] EXCEPT !.pc = "send"]
  <2>1. r \in Process /\ r.pc = "send" /\ r.e = proc[p].e
    BY <1>1 DEF Process, Steps
  <2>2. Become(p, r)
    BY <1>2 DEF Ask
  <2>3. proc'[p] = r
    BY <2>2, Becomes DEF IInv
  <2>4. Knows(p)'
    BY <1>0, <1>1, <2>1, <2>3 DEF Knows, At
  <2>5. row' \in Row /\ row'.rid = row.rid
    BY <1>0 DEF IInv, TypeOK
  <2> QED
    BY <1>0, <2>1, <2>2, <2>4, <2>5, Moves
<1>3. CASE bank[proc[p].e.rid] # "none"
  <2> DEFINE st == bank[proc[p].e.rid]
  <2>1. Answered(p, st)
    BY <1>3 DEF Ask
  <2>2. Grows /\ bank' \in [Ids -> RefundStatus] /\ \A r \in Ids : bank'[r] # "none" => r <= used
    BY <1>0, <1>1, RefundsAssumption DEF Grows, IInv, TypeOK, RowOK
  <2>3. st = bank'[proc[p].e.rid]
    BY <1>0
  <2> HIDE DEF st
  <2> QED
    BY <1>0, <1>1, <1>3, <2>1, <2>2, <2>3, AnsweredMoves DEF st
<1> QED
  BY <1>2, <1>3

LEMMA ApplyKeeps ==
    ASSUME IInv, NEW p \in Procs, Apply(p)
    PROVE  IInv'
<1>1. row \in Row /\ proc[p].st \in {"done", "failed"} /\ proc[p].st = bank[proc[p].e.rid]
      /\ proc[p].e.rid \in Ids
  BY RefundsAssumption DEF Apply, At, IInv, TypeOK, Knows, Ids
<1>2. row' \in Row /\ row'.rid = row.rid
      /\ (row'.status = row.status
          \/ (row.status = "refunding" /\ row'.status = Concluded(proc[p].st)))
  BY <1>1 DEF Apply, Row, Concluded, ExcessStatus
<1>3. row'.status = "refunded" => row.status = "refunded" \/ \E r \in Ids : bank[r] = "done"
  BY <1>1, <1>2 DEF Concluded
<1>4. row'.status \in {"absent", "open"} <=> row.status \in {"absent", "open"}
  BY <1>2 DEF Concluded
<1>5. Become(p, Idle) /\ UNCHANGED <<bank, used, window>>
  BY DEF Apply, End
<1>6. Knows(p)'
  BY <1>5, Becomes DEF Knows, At, Idle, IInv
<1> QED
  BY <1>2, <1>3, <1>4, <1>5, <1>6, IdleIsProcess, Moves

LEMMA BankKeeps ==
    ASSUME IInv, NEW r \in Ids, BankSettles(r)
    PROVE  IInv'
<1>1. PICK st \in Outcomes : bank' = [bank EXCEPT ![r] = st]
  BY DEF BankSettles
<1>2. bank \in [Ids -> RefundStatus] /\ st \in RefundStatus /\ bank[r] = "processing"
  BY DEF IInv, TypeOK, Outcomes, RefundStatus, BankSettles
<1>3. bank' \in [Ids -> RefundStatus] /\ \A s \in Ids : s # r => bank'[s] = bank[s]
  BY <1>1, <1>2
<1>4. TypeOK'
  BY <1>3 DEF IInv, TypeOK, BankSettles
<1>5. RowOK'
  BY <1>2, <1>3 DEF IInv, RowOK, BankSettles
<1>6. RefundedMeansPaid'
  BY <1>2, <1>3 DEF IInv, RefundedMeansPaid, BankSettles
<1>7. ASSUME NEW p \in Procs PROVE Knows(p)'
  <2>1. Knows(p) /\ used \in 0..MaxRefunds /\ UNCHANGED <<proc, used>>
    BY DEF IInv, TypeOK, BankSettles
  <2>2. At(p, "apply") => proc[p].e.rid \in Ids /\ proc[p].e.rid # r
    BY <1>2, <2>1, RefundsAssumption DEF Knows, At, Ids
  <2> QED
    BY <1>3, <2>1, <2>2 DEF Knows, At
<1> QED
  BY <1>4, <1>5, <1>6, <1>7 DEF IInv

LEMMA Inductive == IInv /\ [Next]_vars => IInv'
<1> SUFFICES ASSUME IInv, [Next]_vars PROVE IInv'
  OBVIOUS
<1>1. ASSUME NEW p \in Procs, RefundExcess(p) PROVE IInv'
  <2>1. row' \in Row /\ UNCHANGED <<row, bank, used, window>> /\ Refund(p, CopyOf(row'))
    BY <1>1 DEF RefundExcess, IInv, TypeOK
  <2> QED
    BY <2>1, RefundMoves
<1>2. ASSUME NEW p \in Procs, RefundCredit(p) PROVE IInv'
  <2>1. row' \in Row /\ row'.rid = row.rid
        /\ (row'.status = row.status \/ (row.status = "absent" /\ row'.status = "open"))
    BY <1>2 DEF RefundCredit, IInv, TypeOK, Row, ExcessStatus
  <2>2. UNCHANGED <<bank, used, window>> /\ Refund(p, CopyOf(row'))
    BY <1>2 DEF RefundCredit
  <2> QED
    BY <2>1, <2>2, RefundMoves
<1>3. ASSUME NEW p \in Procs, Fail(p) PROVE IInv'
  BY <1>3, EndMoves DEF Fail
<1>4. CASE WindowCloses
  BY <1>4 DEF WindowCloses, IInv, TypeOK, RowOK, Knows, At, RefundedMeansPaid
<1>5. CASE UNCHANGED vars
  BY <1>5 DEF vars, IInv, TypeOK, RowOK, Knows, At, RefundedMeansPaid
<1> QED
  BY <1>1, <1>2, <1>3, <1>4, <1>5, MarkKeeps, SendKeeps, FollowKeeps, AskKeeps, ApplyKeeps, BankKeeps
     DEF Next, Step

(* Types are kept by every request, job step and bank event of Refunds.    *)
THEOREM TypeCorrect == Spec => []TypeOK
<1>1. IInv => TypeOK
  BY DEF IInv
<1> QED
  BY InitInv, Inductive, <1>1, PTL DEF Spec

(* A refunded row means that the bank gave money back, whoever raced whom  *)
(* (applyRefund, SetExcessStatus).                                         *)
THEOREM RefundedIsPaid == Spec => []RefundedMeansPaid
<1>1. IInv => RefundedMeansPaid
  BY DEF IInv
<1> QED
  BY InitInv, Inductive, <1>1, PTL DEF Spec

----------------------------------------------------------------------------
(* A late answer can be about an older refund only if requests overlap and *)
(* a refund failed: one of the two is excluded.                            *)
Separated == ~(Concurrent /\ BankFails)

(* Every refund before the last one failed, a concluded row says what the  *)
(* bank says of the last one, and everybody works on the last one.         *)
Latest ==
    /\ ~BankFails => \A r \in Ids : bank[r] # "failed"
    /\ ~Concurrent => \A p, q \in Procs : At(p, "idle") \/ At(q, "idle") \/ p = q
    /\ \A r \in Ids : r < used => bank[r] = "failed"
    /\ row.status = "refunded" => bank[used] = "done"
    /\ row.status = "refund_failed" => bank[used] = "failed"
    /\ \A p \in Procs : proc[p].pc \in {"send", "ask", "apply"} => proc[p].e.rid = used

LEMMA InitLatest == Init => Latest
BY RefundsAssumption DEF Init, Latest, Ids, At, Idle

(* A step of p, which goes on with the last refund if it goes on: what is  *)
(* left to show is about the rows.                                         *)
LEMMA StepLatest ==
    ASSUME IInv, Latest, NEW p \in Procs, NEW r, Become(p, r),
           ~At(p, "idle") \/ Begins(p),
           r.pc \in {"send", "ask", "apply"} => r.e.rid = used',
           used' = used \/ \A q \in Procs : proc[q].pc \in {"send", "ask", "apply"} => q = p,
           ~BankFails => \A s \in Ids : bank'[s] # "failed",
           \A s \in Ids : s < used' => bank'[s] = "failed",
           row'.status = "refunded" => bank'[used'] = "done",
           row'.status = "refund_failed" => bank'[used'] = "failed"
    PROVE  Latest'
<1>1. proc'[p] = r /\ \A q \in Procs : q # p => proc'[q] = proc[q]
  BY DEF IInv, TypeOK, Become
<1>2. \A q \in Procs : proc'[q].pc \in {"send", "ask", "apply"} => proc'[q].e.rid = used'
  BY <1>1 DEF Latest
<1>3. ~Concurrent => \A q, s \in Procs : At(q, "idle")' \/ At(s, "idle")' \/ q = s
  BY <1>1 DEF Latest, At, Begins
<1> QED
  BY <1>2, <1>3 DEF Latest

LEMMA LatestInductive ==
    ASSUME Separated, IInv, Latest, [Next]_vars
    PROVE  Latest'
<1>0. used \in 0..MaxRefunds /\ bank \in [Ids -> RefundStatus] /\ row \in Row
  BY DEF IInv, TypeOK
<1>a. ASSUME NEW p \in Procs, End(p), ~At(p, "idle") \/ Begins(p), UNCHANGED <<row, bank, used>>
      PROVE  Latest'
  <2>1. Become(p, Idle) /\ Idle.pc = "idle"
    BY <1>a DEF End, Idle
  <2> QED
    BY <1>a, <2>1, StepLatest DEF Latest
<1>b. ASSUME NEW p \in Procs, Begins(p), UNCHANGED <<bank, used>>,
             row'.status \in {"refunded", "refund_failed"} => row' = row,
             Refund(p, CopyOf(row'))
      PROVE  Latest'
  <2>1. CASE Become(p, Idle)
    BY <1>b, <2>1, StepLatest DEF Latest, Idle
  <2> DEFINE r == [Idle EXCEPT !.pc = "mark", !.e = CopyOf(row')]
  <2>2. r.pc = "mark"
    BY DEF Idle
  <2>3. Become(p, Idle) \/ Become(p, r)
    BY <1>b DEF Refund, End
  <2> HIDE DEF r
  <2>4. CASE Become(p, r)
    BY <1>b, <2>2, <2>4, StepLatest DEF Latest
  <2> QED
    BY <2>1, <2>3, <2>4
<1>1. ASSUME NEW p \in Procs, RefundExcess(p) PROVE Latest'
  BY <1>1, <1>b DEF RefundExcess
<1>2. ASSUME NEW p \in Procs, RefundCredit(p) PROVE Latest'
  <2>1. row'.status \in {"refunded", "refund_failed"} => row' = row
    BY <1>0, <1>2 DEF RefundCredit, Row
  <2> QED
    BY <1>2, <2>1, <1>b DEF RefundCredit
<1>3. ASSUME NEW p \in Procs, Mark(p) PROVE Latest'
  <2>1. CASE row.status # proc[p].e.status /\ End(p) /\ UNCHANGED <<row, used>>
    BY <1>3, <2>1, <1>a DEF Mark, At
  <2>2. CASE /\ row.status = proc[p].e.status /\ used < MaxRefunds
             /\ used' = used + 1
             /\ row' = [row EXCEPT !.status = "refunding", !.rid = used + 1]
             /\ Become(p, [Idle EXCEPT !.pc = "send", !.e = CopyOf(row')])
    <3>1. row.status \in {"open", "refund_failed"}
      BY <1>3, <2>2 DEF Mark, IInv, Knows
    <3>2. row'.status = "refunding" /\ row'.rid = used' /\ bank' = bank
      BY <1>0, <1>3, <2>2 DEF Row, Mark
    <3> DEFINE r == [Idle EXCEPT !.pc = "send", !.e = CopyOf(row')]
    <3>3. r.pc = "send" /\ r.e.rid = used'
      BY <3>2 DEF Idle, CopyOf
    <3>4. used = 0 \/ bank[used] = "failed"
      BY <3>1 DEF IInv, RowOK, Latest
    <3>5. \A s \in Ids : s < used' => bank'[s] = "failed"
      BY <1>0, <2>2, <3>2, <3>4, RefundsAssumption DEF Latest, Ids
    <3>6. \A q \in Procs : proc[q].pc \in {"send", "ask", "apply"} => q = p
      <4>1. CASE used = 0
        <5>1. \A q \in Procs : proc[q].pc \in {"send", "ask", "apply"} => proc[q].e.rid \in 1..0
          BY <4>1 DEF IInv, Knows
        <5>2. 1..0 = {}
          OBVIOUS
        <5> QED
          BY <5>1, <5>2
      <4>2. CASE used # 0
        <5>1. used \in Ids /\ bank[used] = "failed"
          BY <1>0, <3>4, <4>2, RefundsAssumption DEF Ids
        <5>2. ~Concurrent
          BY <5>1 DEF Latest, Separated
        <5> QED
          BY <1>3, <5>2 DEF Latest, Mark, At
      <4> QED
        BY <4>1, <4>2
    <3>7. ~At(p, "idle")
      BY <1>3 DEF Mark, At
    <3> HIDE DEF r
    <3>8. Become(p, r)
      BY <2>2 DEF r
    <3> QED
      BY <3>2, <3>3, <3>5, <3>6, <3>7, <3>8, StepLatest DEF Latest
  <2> QED
    BY <1>3, <2>1, <2>2 DEF Mark
<1>c. ASSUME NEW p \in Procs, NEW st, Answered(p, st), proc[p].pc \in {"send", "ask"},
             UNCHANGED <<row, used>>,
             ~BankFails => \A s \in Ids : bank'[s] # "failed",
             \A s \in Ids : s < used => bank'[s] = "failed",
             row.status \in {"refunded", "refund_failed"} => bank'[used] = bank[used]
      PROVE  Latest'
  <2>0. ~At(p, "idle")
    BY <1>c DEF At
  <2>1. CASE Become(p, Idle)
    BY <1>c, <2>0, <2>1, StepLatest DEF Latest, Idle
  <2> DEFINE r == [proc[p] EXCEPT !.pc = "apply", !.st = st]
  <2>2. r.e.rid = used
    BY <1>c DEF Latest, IInv, TypeOK, Process
  <2>3. Become(p, Idle) \/ Become(p, r)
    BY <1>c DEF Answered, End
  <2> HIDE DEF r
  <2>4. CASE Become(p, r)
    BY <1>c, <2>0, <2>2, <2>4, StepLatest DEF Latest
  <2> QED
    BY <2>1, <2>3, <2>4
<1>4. ASSUME NEW p \in Procs, Send(p) PROVE Latest'
  <2>1. PICK st \in {"processing"} \cup Outcomes :
           /\ bank[proc[p].e.rid] # "none" => st = bank[proc[p].e.rid]
           /\ bank' = [bank EXCEPT ![proc[p].e.rid] = st]
           /\ Answered(p, st)
    BY <1>4 DEF Send
  <2>2. proc[p].e.rid = used /\ used \in Ids /\ proc[p].pc = "send"
    BY <1>0, <1>4, RefundsAssumption DEF Send, At, Latest, IInv, Knows, Ids
  <2>3. ~BankFails => st # "failed"
    BY DEF Outcomes
  <2>4. bank'[used] = st /\ \A s \in Ids : s # used => bank'[s] = bank[s]
    BY <1>0, <2>1, <2>2
  <2>5. \A s \in Ids : s < used => bank'[s] = "failed"
    BY <1>0, <2>4 DEF Latest, Ids
  <2>6. row.status \in {"refunded", "refund_failed"} => bank'[used] = bank[used]
    BY <2>1, <2>2, <2>4 DEF Latest
  <2> QED
    BY <1>4, <2>1, <2>2, <2>3, <2>4, <2>5, <2>6, <1>c DEF Send, Latest
<1>5. ASSUME NEW p \in Procs, Follow(p) PROVE Latest'
  <2> DEFINE r == [Idle EXCEPT !.pc = "ask", !.e = CopyOf(row)]
  <2>1. r.pc = "ask" /\ r.e.rid = used
    BY DEF Idle, CopyOf, IInv, RowOK
  <2>2. Become(p, r) /\ Begins(p) /\ UNCHANGED <<row, bank, used>>
    BY <1>5 DEF Follow
  <2> HIDE DEF r
  <2> QED
    BY <2>1, <2>2, StepLatest DEF Latest
<1>6. ASSUME NEW p \in Procs, Ask(p) PROVE Latest'
  <2>1. CASE bank[proc[p].e.rid] = "none"
    <3> DEFINE r == [proc[p] EXCEPT !.pc = "send"]
    <3>1. proc[p] \in Process /\ proc[p].e.rid = used
      BY <1>6 DEF Ask, At, IInv, TypeOK, Latest
    <3>2. r.e.rid = used
      BY <3>1 DEF Process
    <3>3. Become(p, r) /\ ~At(p, "idle") /\ UNCHANGED <<row, bank, used>>
      BY <1>6, <2>1 DEF Ask, At
    <3> HIDE DEF r
    <3> QED
      BY <3>2, <3>3, StepLatest DEF Latest
  <2>2. CASE bank[proc[p].e.rid] # "none"
    <3>1. Answered(p, bank[proc[p].e.rid]) /\ proc[p].pc = "ask" /\ UNCHANGED <<row, bank, used>>
      BY <1>6, <2>2 DEF Ask, At
    <3> QED
      BY <3>1, <1>c DEF Latest
  <2> QED
    BY <2>1, <2>2
<1>7. ASSUME NEW p \in Procs, Apply(p) PROVE Latest'
  <2>1. proc[p].st \in {"done", "failed"} /\ proc[p].st = bank[used]
    BY <1>7 DEF Apply, At, Latest, IInv, Knows
  <2>2. row'.status = row.status \/ row'.status = Concluded(proc[p].st)
    BY <1>0, <1>7 DEF Apply, Row
  <2>3. Become(p, Idle) /\ Idle.pc = "idle" /\ ~At(p, "idle") /\ UNCHANGED <<bank, used>>
    BY <1>7 DEF Apply, End, Idle, At
  <2>4. /\ row'.status = "refunded" => bank'[used'] = "done"
        /\ row'.status = "refund_failed" => bank'[used'] = "failed"
    BY <2>1, <2>2, <2>3 DEF Latest, Concluded
  <2> QED
    BY <2>3, <2>4, StepLatest DEF Latest
<1>8. ASSUME NEW p \in Procs, Fail(p) PROVE Latest'
  BY <1>8, <1>a DEF Fail
<1>9. ASSUME NEW r \in Ids, BankSettles(r) PROVE Latest'
  <2>1. PICK st \in Outcomes : bank' = [bank EXCEPT ![r] = st]
    BY <1>9 DEF BankSettles
  <2>2. bank[r] = "processing" /\ UNCHANGED <<row, used, proc>>
    BY <1>9 DEF BankSettles
  <2>3. \A s \in Ids : bank'[s] = bank[s] \/ (s = r /\ bank'[s] \in Outcomes)
    BY <1>0, <2>1
  <2>4. ~BankFails => \A s \in Ids : bank'[s] # "failed"
    BY <2>3 DEF Outcomes, Latest
  <2>5. \A s \in Ids : bank[s] \in {"done", "failed"} => bank'[s] = bank[s]
    BY <2>2, <2>3
  <2>6. row.status \in {"refunded", "refund_failed"} => used \in Ids
    BY <1>0, RefundsAssumption DEF IInv, RowOK, Ids
  <2> QED
    BY <2>2, <2>4, <2>5, <2>6 DEF Latest, At
<1>10. CASE WindowCloses
  BY <1>10 DEF WindowCloses, Latest, At
<1>11. CASE UNCHANGED vars
  BY <1>11 DEF vars, Latest, At
<1> QED
  BY <1>1, <1>2, <1>3, <1>4, <1>5, <1>6, <1>7, <1>8, <1>9, <1>10, <1>11 DEF Next, Step

(* Only the last refund drawn can be on its way or paid (refundExcess,     *)
(* followRefund), unless requests overlap at a bank that fails refunds.    *)
THEOREM PaysOnce == ASSUME Separated PROVE Spec => []RefundsOnce
<1>1. IInv /\ Latest => RefundsOnce
  <2> SUFFICES ASSUME IInv, Latest, NEW r \in Ids, NEW s \in Ids,
                      bank[r] \in {"processing", "done"}, bank[s] \in {"processing", "done"}
               PROVE  r = s
    BY DEF RefundsOnce
  <2>1. r <= used /\ s <= used /\ ~(r < used) /\ ~(s < used)
    BY DEF IInv, RowOK, Latest
  <2> QED
    BY <2>1, RefundsAssumption DEF Ids, IInv, TypeOK
<1>2. IInv /\ Latest /\ [Next]_vars => Latest'
  BY LatestInductive
<1> QED
  BY InitInv, InitLatest, Inductive, <1>1, <1>2, PTL DEF Spec

(* A refund in flight is always the one the row names as refunding, so the *)
(* job asks about it (FollowRefunds) and a press leaves it alone.          *)
THEOREM Followed == ASSUME Separated PROVE Spec => []InFlightIsFollowed
<1>1. IInv /\ Latest => InFlightIsFollowed
  <2> SUFFICES ASSUME IInv, Latest, NEW r \in Ids, bank[r] = "processing"
               PROVE  row.status = "refunding" /\ row.rid = r
    BY DEF InFlightIsFollowed
  <2>1. r <= used /\ ~(r < used)
    BY DEF IInv, RowOK, Latest
  <2>2. r = used /\ used # 0
    BY <2>1, RefundsAssumption DEF Ids, IInv, TypeOK
  <2>3. row.status \in ExcessStatus
    BY DEF IInv, TypeOK, Row
  <2> QED
    BY <2>2, <2>3 DEF IInv, RowOK, Latest, ExcessStatus
<1>2. IInv /\ Latest /\ [Next]_vars => Latest'
  BY LatestInductive
<1> QED
  BY InitInv, InitLatest, Inductive, <1>1, <1>2, PTL DEF Spec

----------------------------------------------------------------------------
(* Requests that overlap at a bank that may fail refunds, until it does.   *)
NoneFailed == \A r \in Ids : bank[r] # "failed"

(* Only one id was drawn, the row was not given back for another press,    *)
(* and it says refunding as long as the bank is working on the refund.     *)
Untroubled ==
    NoneFailed => /\ used <= 1
                  /\ row.status # "refund_failed"
                  /\ \A r \in Ids : bank[r] = "processing" => row.status = "refunding"

(* A row that says refunded has the money of its only refund back, so the  *)
(* bank is not working on it any more.                                     *)
LEMMA OneId ==
    ASSUME IInv, used <= 1
    PROVE  /\ \A r \in Ids : bank[r] # "none" => r = 1 /\ used = 1
           /\ row.status = "refunded" => bank[1] = "done"
<1>1. used \in 0..MaxRefunds /\ (\A r \in Ids : bank[r] # "none" => r <= used)
  BY DEF IInv, TypeOK, RowOK
<1>2. \A r \in Ids : bank[r] # "none" => r = 1 /\ used = 1
  BY <1>1, RefundsAssumption DEF Ids
<1>3. row.status = "refunded" => bank[1] = "done"
  BY <1>2 DEF IInv, RefundedMeansPaid
<1> QED
  BY <1>2, <1>3

LEMMA UntroubledInductive ==
    ASSUME IInv, Untroubled, [Next]_vars
    PROVE  Untroubled'
<1>0. used \in 0..MaxRefunds /\ bank \in [Ids -> RefundStatus] /\ row \in Row
  BY DEF IInv, TypeOK
<1> USE DEF Untroubled, NoneFailed
<1>a. ASSUME UNCHANGED <<bank, used>>, row'.status = row.status PROVE Untroubled'
  BY <1>a
<1>1. ASSUME NEW p \in Procs, RefundExcess(p) PROVE Untroubled'
  BY <1>1, <1>a DEF RefundExcess
<1>2. ASSUME NEW p \in Procs, RefundCredit(p) PROVE Untroubled'
  <2>1. UNCHANGED <<bank, used>>
        /\ (row'.status = row.status \/ (row.status = "absent" /\ row'.status = "open"))
    BY <1>0, <1>2 DEF RefundCredit, Row
  <2>2. row.status = "absent" => \A r \in Ids : bank[r] # "processing"
    BY RefundsAssumption DEF IInv, RowOK, Ids
  <2> QED
    BY <2>1, <2>2, <1>a
<1>3. ASSUME NEW p \in Procs, Mark(p) PROVE Untroubled'
  <2>1. CASE UNCHANGED <<row, used>>
    BY <1>3, <2>1, <1>a DEF Mark
  <2>2. CASE /\ row.status = proc[p].e.status
             /\ used' = used + 1
             /\ row' = [row EXCEPT !.status = "refunding", !.rid = used + 1]
    <3>1. row.status \in {"open", "refund_failed"}
      BY <1>3, <2>2 DEF Mark, IInv, Knows
    <3>2. row'.status = "refunding" /\ bank' = bank
      BY <1>0, <1>3, <2>2 DEF Row, Mark
    <3>3. NoneFailed => used = 0
      BY <3>1 DEF IInv, RowOK
    <3>4. NoneFailed => used' <= 1
      BY <2>2, <3>3
    <3> QED
      BY <3>2, <3>4
  <2> QED
    BY <1>3, <2>1, <2>2 DEF Mark
<1>4. ASSUME NEW p \in Procs, Send(p) PROVE Untroubled'
  <2>1. PICK st : /\ bank[proc[p].e.rid] # "none" => st = bank[proc[p].e.rid]
                  /\ bank' = [bank EXCEPT ![proc[p].e.rid] = st]
    BY <1>4 DEF Send
  <2>2. UNCHANGED <<row, used>> /\ proc[p].e.rid \in 1..used
    BY <1>4 DEF Send, At, IInv, Knows
  <2> SUFFICES ASSUME NoneFailed' PROVE Untroubled'
    OBVIOUS
  <2>3. NoneFailed
    BY <1>0, <2>1
  <2>4. used = 1 /\ proc[p].e.rid = 1 /\ 1 \in Ids
    BY <1>0, <2>2, <2>3, RefundsAssumption DEF Ids
  <2>5. row.status = "refunding" \/ row.status = "refunded"
    BY <1>0, <2>3, <2>4 DEF IInv, RowOK, Row, ExcessStatus
  <2>6. row.status = "refunded" => bank[1] = "done"
    BY <2>4, OneId
  <2>7. row.status = "refunded" => bank' = bank
    BY <1>0, <2>1, <2>4, <2>6
  <2> QED
    BY <2>2, <2>3, <2>5, <2>7
<1>5. ASSUME NEW p \in Procs, Follow(p) PROVE Untroubled'
  BY <1>5, <1>a DEF Follow
<1>6. ASSUME NEW p \in Procs, Ask(p) PROVE Untroubled'
  BY <1>6, <1>a DEF Ask
<1>7. ASSUME NEW p \in Procs, Apply(p) PROVE Untroubled'
  <2>1. UNCHANGED <<bank, used>> /\ proc[p].e.rid \in 1..used
        /\ proc[p].st \in {"done", "failed"} /\ proc[p].st = bank[proc[p].e.rid]
    BY <1>7 DEF Apply, At, IInv, Knows
  <2>2. proc[p].e.rid \in Ids
    BY <1>0, <2>1, RefundsAssumption DEF Ids
  <2> SUFFICES ASSUME NoneFailed' PROVE Untroubled'
    OBVIOUS
  <2>3. NoneFailed /\ proc[p].st = "done"
    BY <2>1, <2>2
  <2>4. row'.status = row.status \/ row'.status = "refunded"
    BY <1>0, <1>7, <2>3 DEF Apply, Concluded, Row
  <2>5. bank[1] = "done"
    BY <2>1, <2>2, <2>3, OneId
  <2>6. \A r \in Ids : bank[r] # "processing"
    BY <2>3, <2>5, OneId
  <2> QED
    BY <2>1, <2>3, <2>4, <2>6
<1>8. ASSUME NEW p \in Procs, Fail(p) PROVE Untroubled'
  BY <1>8, <1>a DEF Fail
<1>9. ASSUME NEW r \in Ids, BankSettles(r) PROVE Untroubled'
  <2>1. PICK st \in Outcomes : bank' = [bank EXCEPT ![r] = st]
    BY <1>9 DEF BankSettles
  <2>2. bank[r] = "processing" /\ UNCHANGED <<row, used>> /\ st # "processing"
    BY <1>9 DEF BankSettles, Outcomes
  <2>3. \A s \in Ids : bank'[s] = bank[s] \/ (bank[s] = "processing" /\ bank'[s] # "processing")
    BY <1>0, <2>1, <2>2
  <2> QED
    BY <2>2, <2>3
<1>10. CASE WindowCloses
  BY <1>10, <1>a DEF WindowCloses
<1>11. CASE UNCHANGED vars
  BY <1>11, <1>a DEF vars
<1> QED
  BY <1>1, <1>2, <1>3, <1>4, <1>5, <1>6, <1>7, <1>8, <1>9, <1>10, <1>11 DEF Next, Step

(* However presses, credit notes and job runs overlap, no second refund is *)
(* asked for and none is lost until the bank has failed one: the mark that *)
(* is conditional on the status read lets one of them through              *)
(* (refundExcess, SetExcessStatus).                                        *)
THEOREM OnceBeforeFailure == Spec => []OnceUntilFailure
<1>1. Init => Untroubled
  BY DEF Init, Untroubled
<1>2. IInv /\ Untroubled /\ [Next]_vars => Untroubled'
  BY UntroubledInductive
<1>3. IInv /\ Untroubled => OnceUntilFailure
  <2> SUFFICES ASSUME IInv, Untroubled, NoneFailed PROVE RefundsOnce /\ InFlightIsFollowed
    BY DEF OnceUntilFailure, NoneFailed
  <2>1. used <= 1
    BY DEF Untroubled
  <2>2. \A r \in Ids : bank[r] # "none" => r = 1 /\ used = 1
    BY <2>1, OneId
  <2>3. row.rid = used /\ \A r \in Ids : bank[r] = "processing" => row.status = "refunding"
    BY DEF Untroubled, IInv, RowOK
  <2> QED
    BY <2>2, <2>3 DEF RefundsOnce, InFlightIsFollowed
<1> QED
  BY InitInv, Inductive, <1>1, <1>2, <1>3, PTL DEF Spec
=============================================================================
