--------------------------- MODULE PayoutsProofs ---------------------------
(***************************************************************************)
(* Proofs about Payouts, for every set of processes, requests and UUIDs.   *)
(* PaysAsReserved and TellsOnce hold whatever the bank comes to think of   *)
(* the request; SettlesTruly needs a credential that keeps its scope and a *)
(* bank that does not take what it refused (the runs settling and resend). *)
(***************************************************************************)
EXTENDS Payouts, TLAPS

(* Everybody who works on the payout works on the reserved one.            *)
SamePayout ==
    /\ IF payout.status = "none" THEN payout.ref = NoRef ELSE payout.ref \in Refs /\ payout.hash \in Hashes
    /\ \A p \in PayoutProcs : ~Stage(p, "idle") =>
         payout.status # "none" /\ handler[p].ref = payout.ref /\ handler[p].hash = payout.hash
    /\ \A p \in PayoutProcs : Stage(p, "settle") => handler[p].verdict \in {"done", "failed"}

IInv == PayoutTypeOK /\ SamePayout /\ PaidAsReserved /\ AnnouncedOnce

LEMMA IdleIsProcess == NoWork \in PayoutProcess
BY DEF NoWork, PayoutProcess, PayoutSteps, TransferState

LEMMA Becomes ==
    ASSUME PayoutTypeOK, NEW p \in PayoutProcs, NEW r, PayoutGoes(p, r)
    PROVE  handler'[p] = r /\ \A q \in PayoutProcs : q # p => handler'[q] = handler[q]
BY DEF PayoutTypeOK, PayoutGoes

LEMMA InitInv == PayoutInit => IInv
<1> SUFFICES ASSUME PayoutInit PROVE IInv
  OBVIOUS
<1>1. PayoutTypeOK
  BY IdleIsProcess DEF PayoutInit, PayoutTypeOK, Payout, Transfer, NoPayout, NoTransfer, TransferState
<1>2. SamePayout
  BY DEF PayoutInit, SamePayout, NoPayout, Stage, NoWork
<1>3. PaidAsReserved /\ AnnouncedOnce
  BY DEF PayoutInit, PaidAsReserved, AnnouncedOnce, NoTransfer, NoPayout, Final
<1> QED
  BY <1>1, <1>2, <1>3 DEF IInv

(* A step of p that leaves the rows alone and goes on with the same payout.*)
LEMMA Moves ==
    ASSUME IInv, UNCHANGED <<payout, transfers, told>>, drawn' \subseteq Refs, treat' = treat,
           NEW p \in PayoutProcs, NEW r \in PayoutProcess, PayoutGoes(p, r),
           r.pc # "idle" => payout.status # "none" /\ r.ref = payout.ref /\ r.hash = payout.hash,
           r.pc = "settle" => r.verdict \in {"done", "failed"}
    PROVE  IInv'
<1>1. PayoutTypeOK'
  BY DEF IInv, PayoutTypeOK, PayoutGoes
<1>2. SamePayout'
  BY Becomes DEF IInv, SamePayout, Stage
<1>3. PaidAsReserved' /\ AnnouncedOnce'
  BY DEF IInv, PaidAsReserved, AnnouncedOnce, Final
<1> QED
  BY <1>1, <1>2, <1>3 DEF IInv

LEMMA EndMoves ==
    ASSUME IInv, UNCHANGED <<payout, transfers, told, drawn, treat>>, NEW p \in PayoutProcs, Leave(p)
    PROVE  IInv'
<1>1. PayoutGoes(p, NoWork) /\ NoWork.pc = "idle"
  BY DEF Leave, NoWork
<1>2. drawn' \subseteq Refs
  BY DEF IInv, PayoutTypeOK
<1> QED
  BY <1>1, <1>2, IdleIsProcess, Moves

(* advance's first step, on a payout po that is in the row.                *)
LEMMA AdvanceMoves ==
    ASSUME IInv, UNCHANGED <<payout, transfers, told>>, drawn' \subseteq Refs, treat' = treat,
           NEW p \in PayoutProcs, payout.status # "none", Advance(p, payout)
    PROVE  IInv'
<1> DEFINE r == [NoWork EXCEPT !.pc = IF payout.taken THEN "ask" ELSE "send",
                   !.ref = payout.ref, !.hash = payout.hash]
<1>1. payout \in Payout
  BY DEF IInv, PayoutTypeOK
<1>2. r \in PayoutProcess /\ r.ref = payout.ref /\ r.hash = payout.hash /\ r.pc # "settle"
  BY <1>1, IdleIsProcess DEF Payout, PayoutProcess, PayoutSteps, NoWork
<1>3. PayoutGoes(p, r)
  BY DEF Advance
<1> HIDE DEF r
<1> QED
  BY <1>2, <1>3, Moves

LEMMA CreateKeeps ==
    ASSUME IInv, NEW p \in PayoutProcs, NEW h \in Hashes, Create(p, h)
    PROVE  IInv'
<1>1. PICK u \in Refs \ drawn :
        LET mine == [status |-> "processing", ref |-> u, hash |-> h, taken |-> FALSE]
        IN /\ drawn' = drawn \cup {u}
           /\ \/ payout.status = "none" /\ payout' = mine /\ Advance(p, mine)
              \/ payout.status # "none" /\ ~Final(payout) /\ Advance(p, payout) /\ UNCHANGED payout
              \/ UNCHANGED <<payout, handler>>
  BY DEF Create
<1>2. drawn' \subseteq Refs /\ UNCHANGED <<transfers, treat, told>>
  BY <1>1 DEF IInv, PayoutTypeOK, Create
<1>3. CASE UNCHANGED <<payout, handler>>
  <2>1. PayoutTypeOK'
    BY <1>2, <1>3 DEF IInv, PayoutTypeOK
  <2>2. SamePayout' /\ PaidAsReserved' /\ AnnouncedOnce'
    BY <1>2, <1>3 DEF IInv, SamePayout, PaidAsReserved, AnnouncedOnce, Stage, Final
  <2> QED
    BY <2>1, <2>2 DEF IInv
<1>4. CASE payout.status # "none" /\ Advance(p, payout) /\ UNCHANGED payout
  BY <1>2, <1>4, AdvanceMoves
<1>5. ASSUME payout.status = "none",
             payout' = [status |-> "processing", ref |-> u, hash |-> h, taken |-> FALSE],
             Advance(p, payout')
      PROVE  IInv'
  <2> DEFINE r == [NoWork EXCEPT !.pc = IF payout'.taken THEN "ask" ELSE "send",
                     !.ref = payout'.ref, !.hash = payout'.hash]
  <2>1. payout' \in Payout /\ payout'.status = "processing" /\ payout'.ref = u /\ payout'.hash = h
    BY <1>5 DEF Payout, PayoutState
  <2>2. r \in PayoutProcess /\ r.ref = payout'.ref /\ r.hash = payout'.hash /\ r.pc # "settle"
    BY <2>1, IdleIsProcess DEF Payout, PayoutProcess, PayoutSteps, NoWork
  <2>3. PayoutGoes(p, r)
    BY <1>5 DEF Advance
  <2> HIDE DEF r
  <2>4. PayoutTypeOK'
    BY <1>2, <2>1, <2>2, <2>3 DEF IInv, PayoutTypeOK, PayoutGoes
  <2>5. handler'[p] = r /\ \A q \in PayoutProcs : q # p => handler'[q] = handler[q] /\ Stage(q, "idle")
    BY <1>5, <2>3, Becomes DEF IInv, SamePayout
  <2>6. SamePayout'
    BY <2>1, <2>2, <2>5 DEF SamePayout, Stage
  <2>7. \A s \in Refs : transfers[s].status = "none"
    <3>1. SUFFICES ASSUME NEW s \in Refs, transfers[s].status # "none" PROVE FALSE
      OBVIOUS
    <3> QED
      BY <1>5, <3>1, PayoutsAssumption DEF IInv, PaidAsReserved, SamePayout
  <2>8. PaidAsReserved' /\ AnnouncedOnce'
    BY <1>2, <1>5, <2>1, <2>7 DEF IInv, PaidAsReserved, AnnouncedOnce, Final
  <2> QED
    BY <2>4, <2>6, <2>8 DEF IInv
<1> QED
  BY <1>1, <1>3, <1>4, <1>5

LEMMA SendKeeps ==
    ASSUME IInv, NEW p \in PayoutProcs, SendPayout(p)
    PROVE  IInv'
<1> DEFINE r == handler[p].ref
<1>0. /\ UNCHANGED <<payout, drawn, treat, told>> /\ drawn' \subseteq Refs
      /\ handler[p] \in PayoutProcess /\ transfers \in [Refs -> Transfer]
  BY DEF SendPayout, IInv, PayoutTypeOK
<1>1. /\ payout.status # "none" /\ r = payout.ref /\ handler[p].hash = payout.hash
      /\ r \in Refs /\ payout.hash \in Hashes
  BY DEF SendPayout, Stage, IInv, SamePayout
<1>2. CASE /\ PayoutGoes(p, [handler[p] EXCEPT !.pc = "settle", !.verdict = "failed"])
           /\ UNCHANGED transfers
  <2> DEFINE q == [handler[p] EXCEPT !.pc = "settle", !.verdict = "failed"]
  <2>1. q \in PayoutProcess /\ q.ref = payout.ref /\ q.hash = payout.hash /\ q.verdict = "failed"
    BY <1>0, <1>1 DEF PayoutProcess, PayoutSteps, TransferState
  <2>2. PayoutGoes(p, q)
    BY <1>2
  <2> HIDE DEF q
  <2> QED
    BY <1>0, <1>1, <1>2, <2>1, <2>2, Moves
<1>3. CASE /\ transfers' = [transfers EXCEPT ![r] = IF @.status = "none"
                         THEN [status |-> "processing", hash |-> handler[p].hash] ELSE @]
           /\ Goto(p, "sent")
  <2> DEFINE q == [handler[p] EXCEPT !.pc = "sent"]
  <2>1. q \in PayoutProcess /\ q.ref = payout.ref /\ q.hash = payout.hash /\ q.pc = "sent"
    BY <1>0, <1>1 DEF PayoutProcess, PayoutSteps
  <2>2. PayoutGoes(p, q)
    BY <1>3 DEF Goto
  <2> HIDE DEF q
  <2>3. transfers' \in [Refs -> Transfer] /\ \A s \in Refs : s # r => transfers'[s] = transfers[s]
    <3>1. [status |-> "processing", hash |-> handler[p].hash] \in Transfer
      BY <1>1 DEF Transfer, TransferState
    <3> QED
      BY <1>0, <1>3, <3>1
  <2>4. transfers'[r] = transfers[r] \/ transfers'[r] = [status |-> "processing", hash |-> handler[p].hash]
    BY <1>0, <1>1, <1>3
  <2>5. PaidAsReserved'
    <3> SUFFICES ASSUME NEW s \in Refs, transfers'[s].status # "none"
                 PROVE  s = payout.ref /\ transfers'[s].hash = payout.hash
      BY <1>0 DEF PaidAsReserved
    <3>1. CASE transfers'[s] = transfers[s]
      BY <3>1 DEF IInv, PaidAsReserved
    <3>2. CASE s = r /\ transfers'[r] = [status |-> "processing", hash |-> handler[p].hash]
      BY <1>1, <3>2
    <3> QED
      BY <2>3, <2>4, <3>1, <3>2
  <2>6. PayoutTypeOK'
    BY <1>0, <2>1, <2>2, <2>3 DEF IInv, PayoutTypeOK, PayoutGoes
  <2>7. SamePayout'
    BY <1>0, <1>1, <2>1, <2>2, Becomes DEF IInv, SamePayout, Stage
  <2>8. AnnouncedOnce'
    BY <1>0 DEF IInv, AnnouncedOnce, Final
  <2> QED
    BY <2>5, <2>6, <2>7, <2>8 DEF IInv
<1> QED
  BY <1>2, <1>3 DEF SendPayout

LEMMA SetPayoutSentKeeps ==
    ASSUME IInv, NEW p \in PayoutProcs, SetPayoutSent(p)
    PROVE  IInv'
<1>0. UNCHANGED <<transfers, drawn, treat, told>> /\ handler[p] \in PayoutProcess /\ payout \in Payout
  BY DEF SetPayoutSent, IInv, PayoutTypeOK
<1>1. CASE Leave(p) /\ UNCHANGED payout
  BY <1>0, <1>1, EndMoves
<1>2. CASE /\ payout.status = "processing" /\ payout' = [payout EXCEPT !.taken = TRUE]
           /\ Goto(p, "ask")
  <2>1. payout' \in Payout /\ payout'.status = payout.status /\ payout'.ref = payout.ref /\ payout'.hash = payout.hash
    BY <1>0, <1>2 DEF Payout
  <2> DEFINE q == [handler[p] EXCEPT !.pc = "ask"]
  <2>2. q \in PayoutProcess /\ q.ref = handler[p].ref /\ q.hash = handler[p].hash /\ q.pc = "ask"
    BY <1>0 DEF PayoutProcess, PayoutSteps
  <2>3. PayoutGoes(p, q)
    BY <1>2 DEF Goto
  <2> HIDE DEF q
  <2>4. PayoutTypeOK'
    BY <1>0, <2>1, <2>2, <2>3 DEF IInv, PayoutTypeOK, PayoutGoes
  <2>5. SamePayout'
    BY <2>1, <2>2, <2>3, Becomes DEF IInv, SamePayout, Stage, SetPayoutSent
  <2>6. PaidAsReserved' /\ AnnouncedOnce'
    BY <1>0, <2>1 DEF IInv, PaidAsReserved, AnnouncedOnce, Final
  <2> QED
    BY <2>4, <2>5, <2>6 DEF IInv
<1> QED
  BY <1>1, <1>2 DEF SetPayoutSent

LEMMA GetPayoutKeeps ==
    ASSUME IInv, NEW p \in PayoutProcs, GetPayout(p)
    PROVE  IInv'
<1>0. UNCHANGED <<payout, transfers, drawn, treat, told>> /\ handler[p] \in PayoutProcess /\ drawn' \subseteq Refs
  BY DEF GetPayout, IInv, PayoutTypeOK
<1>1. CASE Leave(p)
  BY <1>0, <1>1, EndMoves
<1>2. ASSUME NEW st \in {"done", "failed"},
             PayoutGoes(p, [handler[p] EXCEPT !.pc = "settle", !.verdict = st])
      PROVE  IInv'
  <2> DEFINE q == [handler[p] EXCEPT !.pc = "settle", !.verdict = st]
  <2>1. q \in PayoutProcess /\ q.ref = handler[p].ref /\ q.hash = handler[p].hash /\ q.verdict = st
    BY <1>0 DEF PayoutProcess, PayoutSteps, TransferState
  <2>2. PayoutGoes(p, q)
    BY <1>2
  <2> HIDE DEF q
  <2>3. payout.status # "none" /\ q.ref = payout.ref /\ q.hash = payout.hash
    BY <2>1 DEF IInv, SamePayout, GetPayout, Stage
  <2> QED
    BY <1>0, <2>1, <2>2, <2>3, Moves
<1> QED
  BY <1>1, <1>2 DEF GetPayout

LEMMA SettlePayoutKeeps ==
    ASSUME IInv, NEW p \in PayoutProcs, SettlePayout(p)
    PROVE  IInv'
<1>0. UNCHANGED <<transfers, drawn, treat>> /\ Leave(p) /\ payout \in Payout
      /\ handler[p].verdict \in {"done", "failed"}
  BY DEF SettlePayout, IInv, PayoutTypeOK, SamePayout
<1>1. CASE payout.status # "processing"
  BY <1>0, <1>1, EndMoves DEF SettlePayout
<1>2. CASE payout.status = "processing"
  <2>0. payout' = [payout EXCEPT !.status = handler[p].verdict] /\ told' = Append(told, handler[p].verdict)
    BY <1>2 DEF SettlePayout
  <2>1. payout' \in Payout /\ payout'.status = handler[p].verdict /\ payout'.ref = payout.ref /\ payout'.hash = payout.hash
    BY <1>0, <2>0 DEF Payout, PayoutState
  <2>2. told = <<>>
    BY <1>2 DEF IInv, AnnouncedOnce, Final
  <2>3. told' = <<payout'.status>>
    BY <2>0, <2>1, <2>2
  <2>4. PayoutTypeOK'
    <3>1. told' \in Seq(PayoutState)
      BY <1>0, <2>1, <2>3 DEF PayoutState
    <3> QED
      BY <1>0, <2>1, <3>1, IdleIsProcess DEF IInv, PayoutTypeOK, Leave, PayoutGoes
  <2>5. SamePayout'
    <3>1. PayoutGoes(p, NoWork) /\ NoWork.pc = "idle"
      BY <1>0 DEF Leave, NoWork
    <3> QED
      BY <1>0, <1>2, <2>1, <3>1, Becomes DEF IInv, SamePayout, Stage
  <2>6. PaidAsReserved' /\ AnnouncedOnce'
    BY <1>0, <2>1, <2>3 DEF IInv, PaidAsReserved, AnnouncedOnce, Final
  <2> QED
    BY <2>4, <2>5, <2>6 DEF IInv
<1> QED
  BY <1>1, <1>2

LEMMA BankKeeps ==
    ASSUME IInv, NEW r \in Refs, TransferEnds(r)
    PROVE  IInv'
<1>0. UNCHANGED <<payout, drawn, treat, told, handler>> /\ transfers \in [Refs -> Transfer]
  BY DEF TransferEnds, IInv, PayoutTypeOK
<1>1. PICK st \in {"done", "failed"} : transfers' = [transfers EXCEPT ![r].status = st]
  BY DEF TransferEnds
<1>2. transfers' \in [Refs -> Transfer] /\ transfers'[r].hash = transfers[r].hash
      /\ \A s \in Refs : s # r => transfers'[s] = transfers[s]
  BY <1>0, <1>1 DEF Transfer, TransferState
<1>3. PaidAsReserved'
  BY <1>0, <1>2 DEF IInv, PaidAsReserved, TransferEnds
<1> QED
  BY <1>0, <1>2, <1>3 DEF IInv, PayoutTypeOK, SamePayout, AnnouncedOnce, Stage, Final

LEMMA Inductive == IInv /\ [PayoutNext]_payoutVars => IInv'
<1> SUFFICES ASSUME IInv, [PayoutNext]_payoutVars PROVE IInv'
  OBVIOUS
<1>1. ASSUME NEW p \in PayoutProcs, Resolve(p) PROVE IInv'
  <2>1. payout.status # "none" /\ Advance(p, payout) /\ UNCHANGED <<payout, transfers, told, treat>>
        /\ drawn' \subseteq Refs
    BY <1>1 DEF Resolve, IInv, PayoutTypeOK
  <2> QED
    BY <2>1, AdvanceMoves
<1>2. ASSUME NEW p \in PayoutProcs, CallFails(p) PROVE IInv'
  BY <1>2, EndMoves DEF CallFails
<1>3. CASE BankChanges
  BY <1>3, PayoutsAssumption
     DEF BankChanges, IInv, PayoutTypeOK, Treatment, SamePayout, PaidAsReserved, AnnouncedOnce, Stage, Final
<1>4. CASE UNCHANGED payoutVars
  BY <1>4 DEF payoutVars, IInv, PayoutTypeOK, SamePayout, PaidAsReserved, AnnouncedOnce, Stage, Final
<1> QED
  BY <1>1, <1>2, <1>3, <1>4, CreateKeeps, SendKeeps, SetPayoutSentKeeps, GetPayoutKeeps,
     SettlePayoutKeeps, BankKeeps DEF PayoutNext, PayoutStep

(* Types are kept by every request, job step and bank event of Payouts.    *)
THEOREM TypeCorrect == PayoutSpec => []PayoutTypeOK
<1>1. IInv => PayoutTypeOK
  BY DEF IInv
<1> QED
  BY InitInv, Inductive, <1>1, PTL DEF PayoutSpec

(* However many creates, replays, polls and job runs advance a reference,  *)
(* the bank sees one transfer for it, the one reserved (CreatePayout).     *)
THEOREM PaysAsReserved == PayoutSpec => []PaidAsReserved
<1>1. IInv => PaidAsReserved
  BY DEF IInv
<1> QED
  BY InitInv, Inductive, <1>1, PTL DEF PayoutSpec

(* The consumer hears of a settled payout exactly once, and of no other    *)
(* (SettlePayout writes the outcome and its event together).               *)
THEOREM TellsOnce == PayoutSpec => []AnnouncedOnce
<1>1. IInv => AnnouncedOnce
  BY DEF IInv
<1> QED
  BY InitInv, Inductive, <1>1, PTL DEF PayoutSpec

----------------------------------------------------------------------------
(* The scope is never lost and what was refused is not taken later.        *)
Steady == Changes \subseteq {"refuses"}

(* A verdict in hand is what the bank will go on saying.                   *)
Verdict(st) == IF st = "done" THEN transfers[payout.ref].status = "done"
               ELSE \/ transfers[payout.ref].status = "failed"
                    \/ transfers[payout.ref].status = "none" /\ treat # "takes"

Truly ==
    /\ treat = "noscope" => \A r \in Refs : transfers[r].status = "none"
    /\ \A p \in PayoutProcs : Stage(p, "settle") => Verdict(handler[p].verdict)
    /\ Final(payout) => Verdict(payout.status)

LEMMA InitTruly == PayoutInit => Truly
BY DEF PayoutInit, Truly, NoTransfer, Stage, NoWork, Final, NoPayout

(* A step of p that comes to a verdict only on the bank's word.            *)
LEMMA StepTruly ==
    ASSUME IInv, Truly, NEW p \in PayoutProcs, NEW r, NEW v, PayoutGoes(p, r), UNCHANGED <<treat, transfers>>,
           payout.status # "none" => payout'.ref = payout.ref,
           Final(payout)' => Verdict(payout.status)',
           r.pc = "settle" => r.verdict = v /\ Verdict(v)'
    PROVE  Truly'
<1>1. handler'[p] = r /\ \A q \in PayoutProcs : q # p => handler'[q] = handler[q]
  BY Becomes DEF IInv
<1>2. ASSUME NEW q \in PayoutProcs, Stage(q, "settle")' PROVE Verdict(handler[q].verdict)'
  <2>1. CASE q = p
    BY <1>1, <1>2, <2>1 DEF Stage, Verdict
  <2>2. CASE q # p
    <3>1. handler'[q] = handler[q] /\ Stage(q, "settle") /\ payout'.ref = payout.ref
      BY <1>1, <1>2, <2>2 DEF Stage, IInv, SamePayout
    <3> QED
      BY <3>1 DEF Truly, Verdict
  <2> QED
    BY <2>1, <2>2
<1> QED
  BY <1>2 DEF Truly

LEMMA TrulyInductive ==
    ASSUME Steady, IInv, Truly, [PayoutNext]_payoutVars
    PROVE  Truly'
<1>0. payout \in Payout /\ transfers \in [Refs -> Transfer] /\ treat \in Treatment /\ handler \in [PayoutProcs -> PayoutProcess]
  BY DEF IInv, PayoutTypeOK
<1>a. ASSUME NEW p \in PayoutProcs, NEW r, PayoutGoes(p, r), r.pc # "settle", UNCHANGED <<payout, transfers, treat>>
      PROVE  Truly'
  BY <1>a, StepTruly DEF Truly, Verdict, Final
<1>b. ASSUME NEW p \in PayoutProcs, NEW po, Advance(p, po), UNCHANGED <<transfers, treat>>,
             payout' = payout \/ (payout.status = "none" /\ payout'.status = "processing")
      PROVE  Truly'
  <2> DEFINE r == [NoWork EXCEPT !.pc = IF po.taken THEN "ask" ELSE "send",
                     !.ref = po.ref, !.hash = po.hash]
  <2>1. PayoutGoes(p, r) /\ r.pc # "settle"
    BY <1>b DEF Advance, NoWork
  <2> HIDE DEF r
  <2>2. Final(payout)' => Verdict(payout.status)'
    BY <1>b DEF Truly, Verdict, Final
  <2> QED
    BY <1>b, <2>1, <2>2, StepTruly
<1>c. ASSUME NEW p \in PayoutProcs, Leave(p), UNCHANGED <<payout, transfers, treat>> PROVE Truly'
  <2>1. PayoutGoes(p, NoWork) /\ NoWork.pc = "idle"
    BY <1>c DEF Leave, NoWork
  <2> QED
    BY <1>a, <1>c, <2>1
<1>1. ASSUME NEW p \in PayoutProcs, NEW h \in Hashes, Create(p, h) PROVE Truly'
  <2>1. CASE UNCHANGED <<payout, handler>>
    BY <1>1, <2>1 DEF Create, Truly, Verdict, Stage, Final
  <2>2. CASE UNCHANGED payout /\ Advance(p, payout)
    BY <1>1, <2>2, <1>b DEF Create
  <2>3. CASE \E u \in Refs : /\ payout.status = "none"
                             /\ payout' = [status |-> "processing", ref |-> u, hash |-> h, taken |-> FALSE]
                             /\ Advance(p, payout')
    BY <1>1, <2>3, <1>b DEF Create
  <2> QED
    BY <1>1, <2>1, <2>2, <2>3 DEF Create
<1>2. ASSUME NEW p \in PayoutProcs, Resolve(p) PROVE Truly'
  BY <1>2, <1>b DEF Resolve
<1>3. ASSUME NEW p \in PayoutProcs, SendPayout(p) PROVE Truly'
  <2>1. /\ UNCHANGED <<payout, treat>> /\ payout.status # "none"
        /\ handler[p].ref = payout.ref /\ payout.ref \in Refs /\ handler[p] \in PayoutProcess
    BY <1>0, <1>3 DEF SendPayout, Stage, IInv, SamePayout
  <2>2. CASE /\ Refused(payout.ref) /\ UNCHANGED transfers
             /\ PayoutGoes(p, [handler[p] EXCEPT !.pc = "settle", !.verdict = "failed"])
    <3> DEFINE r == [handler[p] EXCEPT !.pc = "settle", !.verdict = "failed"]
    <3>1. PayoutGoes(p, r) /\ r.verdict = "failed"
      BY <2>1, <2>2 DEF PayoutProcess
    <3> HIDE DEF r
    <3>2. transfers[payout.ref].status = "none" /\ treat # "takes"
      BY <2>1, <2>2 DEF Refused, Truly
    <3>3. Verdict("failed")' /\ (Final(payout)' => Verdict(payout.status)')
      BY <2>1, <2>2, <3>1, <3>2 DEF Verdict, Truly, Final
    <3> QED
      BY <2>1, <2>2, <3>1, <3>3, StepTruly
  <2>3. CASE /\ ~Refused(payout.ref) /\ Goto(p, "sent")
             /\ transfers' = [transfers EXCEPT ![payout.ref] = IF @.status = "none"
                           THEN [status |-> "processing", hash |-> handler[p].hash] ELSE @]
    <3>1. handler'[p].pc = "sent" /\ \A q \in PayoutProcs : q # p => handler'[q] = handler[q]
      BY <1>0, <2>1, <2>3, Becomes DEF Goto, IInv, PayoutProcess
    <3>2. treat # "noscope" /\ (treat = "takes" \/ transfers[payout.ref].status # "none")
      BY <1>0, <2>3 DEF Refused, Treatment
    <3>3. transfers[payout.ref].status # "none" => transfers'[payout.ref] = transfers[payout.ref]
      BY <1>0, <2>1, <2>3
    <3>4. \A v : Verdict(v) => transfers[payout.ref].status # "none"
      BY <3>2 DEF Verdict
    <3>5. \A v : Verdict(v) => Verdict(v)'
      BY <2>1, <3>3, <3>4 DEF Verdict
    <3>6. ASSUME NEW q \in PayoutProcs, Stage(q, "settle")' PROVE Verdict(handler[q].verdict)'
      <4>1. q # p /\ handler'[q] = handler[q] /\ Stage(q, "settle")
        BY <3>1, <3>6 DEF Stage
      <4>2. Verdict(handler[q].verdict)
        BY <4>1 DEF Truly
      <4> QED
        BY <2>1, <3>3, <3>4, <4>1, <4>2 DEF Verdict
    <3> QED
      BY <2>1, <3>2, <3>3, <3>4, <3>6 DEF Truly, Final, Verdict
  <2> QED
    BY <1>3, <2>1, <2>2, <2>3 DEF SendPayout
<1>4. ASSUME NEW p \in PayoutProcs, SetPayoutSent(p) PROVE Truly'
  <2>0. UNCHANGED <<transfers, treat>> /\ handler[p] \in PayoutProcess
    BY <1>0, <1>4 DEF SetPayoutSent
  <2>1. CASE Leave(p) /\ UNCHANGED payout
    BY <2>0, <2>1, <1>c
  <2>2. CASE payout.status = "processing" /\ payout' = [payout EXCEPT !.taken = TRUE] /\ Goto(p, "ask")
    <3> DEFINE r == [handler[p] EXCEPT !.pc = "ask"]
    <3>1. PayoutGoes(p, r) /\ r.pc = "ask"
      BY <2>0, <2>2 DEF Goto, PayoutProcess
    <3> HIDE DEF r
    <3>2. payout'.ref = payout.ref /\ ~Final(payout)'
      BY <1>0, <2>2 DEF Payout, Final
    <3> QED
      BY <2>0, <3>1, <3>2, StepTruly
  <2> QED
    BY <1>4, <2>1, <2>2 DEF SetPayoutSent
<1>5. ASSUME NEW p \in PayoutProcs, GetPayout(p) PROVE Truly'
  <2>0. /\ UNCHANGED <<payout, transfers, treat>> /\ handler[p] \in PayoutProcess
        /\ handler[p].ref = payout.ref
    BY <1>0, <1>5 DEF GetPayout, Stage, IInv, SamePayout
  <2>1. CASE Leave(p)
    BY <2>0, <2>1, <1>c
  <2>2. ASSUME NEW st \in {"done", "failed"}, transfers[payout.ref].status = st,
               PayoutGoes(p, [handler[p] EXCEPT !.pc = "settle", !.verdict = st])
        PROVE  Truly'
    <3> DEFINE r == [handler[p] EXCEPT !.pc = "settle", !.verdict = st]
    <3>1. PayoutGoes(p, r) /\ r.verdict = st
      BY <2>0, <2>2 DEF PayoutProcess
    <3> HIDE DEF r
    <3>2. Verdict(st)' /\ (Final(payout)' => Verdict(payout.status)')
      BY <2>0, <2>2, <3>1 DEF Verdict, Truly, Final
    <3> QED
      BY <2>0, <3>1, <3>2, StepTruly
  <2> QED
    BY <1>5, <2>0, <2>1, <2>2 DEF GetPayout
<1>6. ASSUME NEW p \in PayoutProcs, SettlePayout(p) PROVE Truly'
  <2>0. UNCHANGED <<transfers, treat>> /\ Leave(p) /\ Verdict(handler[p].verdict)
        /\ PayoutGoes(p, NoWork) /\ NoWork.pc = "idle"
    BY <1>6 DEF SettlePayout, Truly, Leave, NoWork
  <2>1. CASE payout.status # "processing"
    BY <1>6, <2>0, <2>1, <1>c DEF SettlePayout
  <2>2. CASE payout.status = "processing"
    <3>1. payout'.ref = payout.ref /\ payout'.status = handler[p].verdict
      BY <1>0, <1>6, <2>2 DEF SettlePayout, Payout
    <3>2. Verdict(payout.status)'
      BY <2>0, <3>1 DEF Verdict
    <3> QED
      BY <2>0, <3>1, <3>2, StepTruly
  <2> QED
    BY <2>1, <2>2
<1>7. ASSUME NEW p \in PayoutProcs, CallFails(p) PROVE Truly'
  BY <1>7, <1>c DEF CallFails
<1>8. ASSUME NEW r \in Refs, TransferEnds(r) PROVE Truly'
  <2>1. transfers[r].status = "processing" /\ UNCHANGED <<payout, treat, handler>>
    BY <1>8 DEF TransferEnds
  <2>2. \A s \in Refs : s # r => transfers'[s] = transfers[s]
    BY <1>0, <1>8 DEF TransferEnds
  <2>3. treat # "noscope"
    BY <2>1 DEF Truly
  <2>4. \A p \in PayoutProcs : Stage(p, "settle") => payout.ref \in Refs
    BY DEF Stage, IInv, SamePayout
  <2>5. Final(payout) => payout.ref \in Refs
    BY DEF Final, IInv, SamePayout
  <2>6. ASSUME NEW v, Verdict(v), payout.ref \in Refs PROVE Verdict(v)'
    BY <2>1, <2>2, <2>6 DEF Verdict
  <2>7. ASSUME NEW p \in PayoutProcs, Stage(p, "settle")' PROVE Verdict(handler[p].verdict)'
    <3>1. Stage(p, "settle") /\ Verdict(handler[p].verdict) /\ payout.ref \in Refs
      BY <2>1, <2>4, <2>7 DEF Stage, Truly
    <3>2. r # payout.ref
      BY <2>1, <3>1 DEF Verdict
    <3> QED
      BY <2>1, <2>2, <3>1, <3>2 DEF Verdict
  <2>8. Final(payout)' => Verdict(payout.status)'
    BY <2>1, <2>2, <2>5 DEF Truly, Verdict, Final
  <2> QED
    BY <2>1, <2>3, <2>7, <2>8 DEF Truly
<1>9. CASE BankChanges
  <2>1. treat' = "refuses" /\ UNCHANGED <<payout, transfers, handler>>
    BY <1>9 DEF BankChanges, Steady
  <2>2. \A p \in PayoutProcs : Stage(p, "settle")' => Verdict(handler[p].verdict)'
    BY <2>1 DEF Truly, Verdict, Stage
  <2>3. Final(payout)' => Verdict(payout.status)'
    BY <2>1 DEF Truly, Verdict, Final
  <2> QED
    BY <2>1, <2>2, <2>3 DEF Truly
<1>10. CASE UNCHANGED payoutVars
  BY <1>10 DEF payoutVars, Truly, Verdict, Stage, Final
<1> QED
  BY <1>1, <1>2, <1>3, <1>4, <1>5, <1>6, <1>7, <1>8, <1>9, <1>10 DEF PayoutNext, PayoutStep

(* With a steady bank a payout is settled as the bank has it: never failed *)
(* for money that moved, never done for money that did not (advance).      *)
THEOREM SettlesTruly == ASSUME Steady PROVE PayoutSpec => []OnlyTheBanksWord
<1>1. Truly => OnlyTheBanksWord
  BY DEF Truly, OnlyTheBanksWord, Final, Verdict
<1>2. IInv /\ Truly /\ [PayoutNext]_payoutVars => Truly'
  BY TrulyInductive
<1> QED
  BY InitInv, InitTruly, Inductive, <1>1, <1>2, PTL DEF PayoutSpec
=============================================================================
