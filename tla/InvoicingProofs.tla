-------------------------- MODULE InvoicingProofs ---------------------------
(***************************************************************************)
(* Proofs about invoicing and what becomes of an invoice.  The billing     *)
(* cycle: the numbers of the invoices, and the periods a renewal leaves    *)
(* behind.  Dunning, for every set of invoices and processes and every     *)
(* valid policy: NoStepSkipped, WrittenOffAfterChase and EndsAreFinal hold *)
(* however the runs overlap; QueuedUntilPosted needs dunning runs that     *)
(* overlap nothing (the runs exclusive and posting_lost).                  *)
(***************************************************************************)
EXTENDS Cycle, Dunning, FiniteSetTheorems, TLAPS

----------------------------------------------------------------------------
(* The billing cycle.                                                      *)

SubFields     == {"status", "index", "timing", "pending", "ends", "due"}
WorkerFields  == {"pc", "snap", "items", "key", "number", "then", "plan"}
InvoiceFields == {"status", "number", "plans"}

GeneratedKeys == {k \in CycleInvoices : invoice[k].status # "none"}
Billing       == {"create", "leftover", "number", "finalize", "nothing_due", "renew"}

SubOK(s) == DOMAIN s = SubFields /\ s.index \in Nat

(* A process bills a key that exists, is told of a leftover only of what   *)
(* was generated, and renews only past an issued invoice; what the sweep   *)
(* read is of a period with a successor.                                   *)
WorkerOK(x, generated, issued) ==
    /\ DOMAIN x = WorkerFields
    /\ SubOK(x.snap) /\ x.number \in Nat
    /\ x.then \in {"idle", "renew", "end", "change"}
    /\ x.pc = "idle" => x.then = "idle"
    /\ x.pc \in {"renew", "end", "change"} => x.then = x.pc
    /\ x.then # "idle" \/ x.pc = "sweep" => x.snap.index + 2 <= MaxPeriod
    /\ x.pc \in Billing => x.key \in CycleInvoices
    /\ x.pc = "leftover" => x.key \in generated
    /\ x.pc = "renew" => x.key \in issued

InvoicesOK ==
    /\ DOMAIN invoice = CycleInvoices
    /\ \A k \in CycleInvoices : /\ DOMAIN invoice[k] = InvoiceFields
                                /\ invoice[k].status \in {"none", "DRAFT", "OPEN", "PAID"}
                                /\ invoice[k].number \in Nat
    /\ counter \in Nat

WorkersOK ==
    /\ DOMAIN worker = Workers
    /\ \A w \in Workers : WorkerOK(worker[w], GeneratedKeys, Issued)

CycleInv == InvoicesOK /\ WorkersOK /\ SubOK(subscription) /\ NumbersHaveNoGap /\ RenewedIsInvoiced

----------------------------------------------------------------------------
(* Keys.                                                                   *)

LEMMA KeysAreFinite == IsFiniteSet(CycleInvoices) /\ IsFiniteSet(Issued)
<1>1. {MaxPeriod, References, Prorations} \subseteq Int
  BY CycleAssumption
<1>2. IsFiniteSet(Periods)
  BY <1>1, FS_Interval DEF Periods
<1>3. IsFiniteSet(OneOffs)
  <2>1. MaxPeriod + 1 \in Int /\ MaxPeriod + References \in Int
    BY <1>1
  <2> QED
    BY <2>1, FS_Interval DEF OneOffs
<1>4. IsFiniteSet(Swaps)
  <2>1. MaxPeriod + References + 1 \in Int /\ MaxPeriod + References + Prorations \in Int
    BY <1>1
  <2> QED
    BY <2>1, FS_Interval DEF Swaps
<1>5. IsFiniteSet(CycleInvoices)
  BY <1>2, <1>3, <1>4, FS_Union DEF CycleInvoices
<1>6. Issued \subseteq CycleInvoices
  BY DEF Issued
<1> QED
  BY <1>5, <1>6, FS_Subset

LEMMA PeriodKeys == 0 \in CycleInvoices /\ \A i \in Nat : i + 2 <= MaxPeriod => i \in CycleInvoices /\ i + 1 \in CycleInvoices
<1>1. MaxPeriod \in Nat
  BY CycleAssumption
<1> QED
  BY <1>1 DEF CycleInvoices, Periods

LEMMA SwapKeys == Swaps \subseteq CycleInvoices /\ OneOffs \subseteq CycleInvoices
BY DEF CycleInvoices

LEMMA CycleInitInv == CycleInit => CycleInv
<1> SUFFICES ASSUME CycleInit PROVE CycleInv
  OBVIOUS
<1>1. SubOK(NotSubscribed)
  BY DEF SubOK, NotSubscribed, SubFields
<1>2. InvoicesOK
  BY DEF CycleInit, InvoicesOK, NotInvoiced, InvoiceFields
<1>3. WorkerOK(NotBusy, GeneratedKeys, Issued)
  BY <1>1 DEF WorkerOK, NotBusy, WorkerFields, Billing
<1>4. WorkersOK
  BY <1>3 DEF CycleInit, WorkersOK
<1>5. Issued = {}
  BY DEF CycleInit, Issued, NotInvoiced
<1>6. NumbersHaveNoGap
  <2>1. Cardinality(Issued) = 0
    BY <1>5, FS_EmptySet
  <2>2. {invoice[k].number : k \in Issued} = {} /\ 1..0 = {}
    BY <1>5
  <2> QED
    BY <2>1, <2>2 DEF NumbersHaveNoGap, CycleInit
<1> QED
  BY <1>1, <1>2, <1>4, <1>6 DEF CycleInv, CycleInit, RenewedIsInvoiced

----------------------------------------------------------------------------
(* Steps.                                                                  *)

(* Invoices only go on: what was generated stays, what was issued stays.   *)
Grown == GeneratedKeys \subseteq GeneratedKeys' /\ Issued \subseteq Issued'

LEMMA StaysOK ==
    ASSUME NEW x, WorkerOK(x, GeneratedKeys, Issued), Grown
    PROVE  WorkerOK(x, GeneratedKeys', Issued')
BY DEF WorkerOK, Grown

(* A process moves to x; the others are as they were.                      *)
LEMMA WorkerMoves ==
    ASSUME CycleInv, Grown, NEW w \in Workers, NEW x, worker' = [worker EXCEPT ![w] = x],
           WorkerOK(x, GeneratedKeys', Issued')
    PROVE  WorkersOK'
<1>1. DOMAIN worker' = Workers /\ worker'[w] = x /\ \A q \in Workers : q # w => worker'[q] = worker[q]
  BY DEF CycleInv, WorkersOK
<1>2. ASSUME NEW q \in Workers PROVE WorkerOK(worker'[q], GeneratedKeys', Issued')
  <2>1. WorkerOK(worker[q], GeneratedKeys, Issued)
    BY DEF CycleInv, WorkersOK
  <2>2. WorkerOK(worker[q], GeneratedKeys', Issued')
    BY <2>1, StaysOK
  <2> QED
    BY <1>1, <2>2
<1> QED
  BY <1>1, <1>2 DEF WorkersOK

LEMMA WorkersStay ==
    ASSUME CycleInv, Grown, UNCHANGED worker
    PROVE  WorkersOK'
<1>1. ASSUME NEW q \in Workers PROVE WorkerOK(worker'[q], GeneratedKeys', Issued')
  <2>1. WorkerOK(worker[q], GeneratedKeys, Issued)
    BY DEF CycleInv, WorkersOK
  <2> QED
    BY <2>1, StaysOK
<1> QED
  BY <1>1 DEF WorkersOK, CycleInv

(* A step that leaves the invoices alone.                                  *)
LEMMA BillsStay ==
    ASSUME CycleInv, UNCHANGED bills
    PROVE  InvoicesOK' /\ NumbersHaveNoGap' /\ Grown /\ Issued' = Issued /\ GeneratedKeys' = GeneratedKeys
<1>1. invoice' = invoice /\ counter' = counter
  BY DEF bills
<1>2. Issued' = Issued /\ GeneratedKeys' = GeneratedKeys
  BY <1>1 DEF Issued, GeneratedKeys
<1>3. InvoicesOK'
  BY <1>1 DEF InvoicesOK, CycleInv
<1>4. NumbersHaveNoGap'
  BY <1>1, <1>2 DEF NumbersHaveNoGap, CycleInv
<1> QED
  BY <1>2, <1>3, <1>4 DEF Grown

(* ... and moves one process.                                              *)
LEMMA OnlyWorker ==
    ASSUME CycleInv, UNCHANGED bills, SubOK(subscription'), renewed' \subseteq Issued,
           NEW w \in Workers, NEW x, worker' = [worker EXCEPT ![w] = x], WorkerOK(x, GeneratedKeys, Issued)
    PROVE  CycleInv'
<1>1. InvoicesOK' /\ NumbersHaveNoGap' /\ Grown /\ Issued' = Issued /\ GeneratedKeys' = GeneratedKeys
  BY BillsStay
<1>2. WorkersOK'
  BY <1>1, WorkerMoves
<1> QED
  BY <1>1, <1>2 DEF CycleInv, RenewedIsInvoiced

LEMMA RestIsOK == WorkerOK(NotBusy, GeneratedKeys, Issued) /\ SubOK(NotSubscribed)
<1>1. SubOK(NotSubscribed)
  BY DEF SubOK, NotSubscribed, SubFields
<1> QED
  BY <1>1 DEF WorkerOK, NotBusy, WorkerFields, Billing

(* A process that ends.                                                    *)
LEMMA OnlyEnds ==
    ASSUME CycleInv, UNCHANGED bills, SubOK(subscription'), renewed' \subseteq Issued,
           NEW w \in Workers, Ends(w)
    PROVE  CycleInv'
BY RestIsOK, OnlyWorker DEF Ends

(* A process goes on to q, with what it holds.                             *)
MayGo(x, q, generated, issued) ==
    /\ q \in {"renew", "end", "change"} => x.then = q
    /\ q # "sweep"
    /\ q \in Billing => x.key \in CycleInvoices
    /\ q = "leftover" => x.key \in generated
    /\ q = "renew" => x.key \in issued

LEMMA Moved ==
    ASSUME CycleInv, Grown, NEW w \in Workers, NEW q, Moves(w, q),
           q # "idle" => MayGo(worker[w], q, GeneratedKeys', Issued')
    PROVE  WorkersOK'
<1>1. CASE q = "idle"
  <2>1. worker' = [worker EXCEPT ![w] = NotBusy]
    BY <1>1 DEF Moves, Ends
  <2>2. WorkerOK(NotBusy, GeneratedKeys', Issued')
    BY RestIsOK, StaysOK
  <2> QED
    BY <2>1, <2>2, WorkerMoves
<1>2. CASE q # "idle"
  <2> DEFINE x == [worker[w] EXCEPT !.pc = q]
  <2>1. worker' = [worker EXCEPT ![w] = x]
    BY <1>2 DEF Moves
  <2>2. WorkerOK(worker[w], GeneratedKeys, Issued)
    BY DEF CycleInv, WorkersOK
  <2>3. /\ DOMAIN x = WorkerFields /\ x.pc = q /\ x.snap = worker[w].snap /\ x.number = worker[w].number
        /\ x.then = worker[w].then /\ x.key = worker[w].key
    BY <2>2 DEF WorkerOK, WorkerFields
  <2> HIDE DEF x
  <2>4. WorkerOK(x, GeneratedKeys', Issued')
    BY <1>2, <2>2, <2>3 DEF WorkerOK, MayGo
  <2> QED
    BY <2>1, <2>4, WorkerMoves
<1> QED
  BY <1>1, <1>2

LEMMA OnlyGoes ==
    ASSUME CycleInv, UNCHANGED bills, UNCHANGED <<subscription, renewed>>, NEW w \in Workers, NEW q, Moves(w, q),
           q # "idle" => MayGo(worker[w], q, GeneratedKeys, Issued)
    PROVE  CycleInv'
<1>1. InvoicesOK' /\ NumbersHaveNoGap' /\ Grown /\ Issued' = Issued /\ GeneratedKeys' = GeneratedKeys
  BY BillsStay
<1>2. WorkersOK'
  BY <1>1, Moved
<1> QED
  BY <1>1, <1>2 DEF CycleInv, RenewedIsInvoiced, SubOK

LEMMA InWorker ==
    ASSUME CycleInv, NEW w \in Workers
    PROVE  WorkerOK(worker[w], GeneratedKeys, Issued)
BY DEF CycleInv, WorkersOK

----------------------------------------------------------------------------
(* Issuing.                                                                *)

LEMMA CreateInv ==
    ASSUME CycleInv, NEW w \in Workers, Create(w)
    PROVE  CycleInv'
<1> DEFINE k == worker[w].key
           row == [status |-> "DRAFT", number |-> 0, plans |-> LinesOf(worker[w].items)]
<1>1. /\ worker[w].pc = "create" /\ invoice[k].status = "none" /\ Moves(w, "number")
      /\ invoice' = [invoice EXCEPT ![k] = row] /\ UNCHANGED <<counter, subscription, renewed>>
  BY DEF Create, On, Me, Generated, subRows
<1>2. k \in CycleInvoices
  BY <1>1, InWorker DEF WorkerOK, Billing
<1>3. DOMAIN row = InvoiceFields /\ row.status = "DRAFT" /\ row.number = 0
  BY DEF InvoiceFields
<1> HIDE DEF k, row
<1>4. /\ DOMAIN invoice' = CycleInvoices /\ invoice'[k] = row
      /\ \A j \in CycleInvoices : j # k => invoice'[j] = invoice[j]
  BY <1>1, <1>2 DEF CycleInv, InvoicesOK
<1>5. InvoicesOK'
  BY <1>1, <1>3, <1>4 DEF CycleInv, InvoicesOK
<1>6. Issued' = Issued
  BY <1>1, <1>2, <1>3, <1>4 DEF Issued
<1>7. Grown
  BY <1>3, <1>4, <1>6 DEF Grown, GeneratedKeys
<1>8. NumbersHaveNoGap'
  <2>1. \A j \in Issued : invoice'[j].number = invoice[j].number
    BY <1>1, <1>4 DEF Issued
  <2> QED
    BY <1>1, <1>6, <2>1 DEF CycleInv, NumbersHaveNoGap
<1>9. MayGo(worker[w], "number", GeneratedKeys', Issued')
  BY <1>2 DEF MayGo, k
<1>10. WorkersOK'
  BY <1>1, <1>7, <1>9, Moved
<1> QED
  BY <1>1, <1>5, <1>6, <1>8, <1>10 DEF CycleInv, RenewedIsInvoiced, SubOK

LEMMA CreateRefusedInv ==
    ASSUME CycleInv, NEW w \in Workers, CreateRefused(w)
    PROVE  CycleInv'
<1> DEFINE q == AlreadyGenerated(w)
<1>1. /\ worker[w].pc = "create" /\ invoice[worker[w].key].status # "none" /\ Moves(w, q)
      /\ UNCHANGED bills /\ UNCHANGED <<subscription, renewed>>
  BY DEF CreateRefused, On, Me, Generated, subRows
<1>2. worker[w].key \in GeneratedKeys /\ worker[w].then \in {"idle", "renew", "end", "change"}
  BY <1>1, InWorker DEF WorkerOK, Billing, GeneratedKeys
<1>3. q = "leftover" \/ (q = worker[w].then /\ q # "renew")
  BY DEF AlreadyGenerated, Me
<1> HIDE DEF q
<1>4. q # "idle" => MayGo(worker[w], q, GeneratedKeys, Issued)
  BY <1>2, <1>3 DEF MayGo, Billing, GeneratedKeys
<1> QED
  BY <1>1, <1>4, OnlyGoes

LEMMA LeftoverInv ==
    ASSUME CycleInv, NEW w \in Workers, LeftoverDraft(w)
    PROVE  CycleInv'
<1> DEFINE q == IF invoice[worker[w].key].status = "DRAFT" THEN "number" ELSE worker[w].then
<1>1. /\ worker[w].pc = "leftover" /\ Moves(w, q)
      /\ UNCHANGED bills /\ UNCHANGED <<subscription, renewed>>
  BY DEF LeftoverDraft, On, Me, subRows
<1>2. worker[w].key \in GeneratedKeys /\ worker[w].then \in {"idle", "renew", "end", "change"}
  BY <1>1, InWorker DEF WorkerOK
<1>3. q = "number" \/ (q = worker[w].then /\ worker[w].key \in Issued)
  BY <1>2 DEF CycleInv, InvoicesOK, GeneratedKeys, Issued
<1> HIDE DEF q
<1>4. q # "idle" => MayGo(worker[w], q, GeneratedKeys, Issued)
  BY <1>2, <1>3 DEF MayGo, Billing, GeneratedKeys
<1> QED
  BY <1>1, <1>4, OnlyGoes

LEMMA CurrentNumberInv ==
    ASSUME CycleInv, NEW w \in Workers, CurrentNumber(w)
    PROVE  CycleInv'
<1> DEFINE n == counter + 1
           x == [worker[w] EXCEPT !.pc = "finalize", !.number = n]
<1>1. /\ worker[w].pc = "number" /\ worker' = [worker EXCEPT ![w] = x]
      /\ UNCHANGED bills /\ UNCHANGED <<subscription, renewed>>
  BY DEF CurrentNumber, On, subRows
<1>2. WorkerOK(worker[w], GeneratedKeys, Issued) /\ n \in Nat
  BY InWorker DEF CycleInv, InvoicesOK
<1> HIDE DEF n
<1>3. /\ DOMAIN x = WorkerFields /\ x.pc = "finalize" /\ x.snap = worker[w].snap /\ x.number = n
      /\ x.then = worker[w].then /\ x.key = worker[w].key
  BY <1>2 DEF WorkerOK, WorkerFields
<1> HIDE DEF x
<1>4. WorkerOK(x, GeneratedKeys, Issued)
  BY <1>1, <1>2, <1>3 DEF WorkerOK, Billing
<1>5. SubOK(subscription') /\ renewed' \subseteq Issued
  BY <1>1 DEF CycleInv, RenewedIsInvoiced, SubOK
<1> QED
  BY <1>1, <1>4, <1>5, OnlyWorker

LEMMA FinalizeDraftInv ==
    ASSUME CycleInv, NEW w \in Workers, FinalizeDraft(w)
    PROVE  CycleInv'
<1> DEFINE k == worker[w].key
           n == worker[w].number
           q == IF Due(invoice[k].plans) THEN worker[w].then ELSE "nothing_due"
<1>1. /\ worker[w].pc = "finalize" /\ invoice[k].status = "DRAFT" /\ counter = n - 1 /\ Moves(w, q)
      /\ invoice' = [invoice EXCEPT ![k].status = "OPEN", ![k].number = n]
      /\ counter' = n /\ UNCHANGED <<subscription, renewed>>
  BY DEF FinalizeDraft, On, Me, Finalizes, CounterHolds, subRows
<1>2. k \in CycleInvoices /\ n \in Nat /\ worker[w].then \in {"idle", "renew", "end", "change"}
  BY <1>1, InWorker DEF WorkerOK, Billing
<1>3. /\ DOMAIN invoice' = CycleInvoices /\ invoice'[k].status = "OPEN" /\ invoice'[k].number = n
      /\ DOMAIN invoice'[k] = InvoiceFields
      /\ \A j \in CycleInvoices : j # k => invoice'[j] = invoice[j]
  BY <1>1, <1>2 DEF CycleInv, InvoicesOK, InvoiceFields
<1>4. counter \in Nat /\ n = counter + 1
  BY <1>1, <1>2 DEF CycleInv, InvoicesOK
<1>5. q = "nothing_due" \/ q = worker[w].then
  OBVIOUS
<1>6. worker[w].key = k
  OBVIOUS
<1> HIDE DEF k, n, q
<1>7. InvoicesOK'
  BY <1>1, <1>2, <1>3 DEF CycleInv, InvoicesOK
<1>8. Issued' = Issued \cup {k} /\ k \notin Issued
  BY <1>1, <1>2, <1>3 DEF Issued
<1>9. Grown
  BY <1>3, <1>8 DEF Grown, GeneratedKeys
<1>10. NumbersHaveNoGap'
  <2>1. \A j \in Issued : invoice'[j].number = invoice[j].number
    BY <1>3, <1>8 DEF Issued
  <2>2. {invoice'[j].number : j \in Issued'} = {invoice[j].number : j \in Issued} \cup {n}
    BY <1>3, <1>8, <2>1
  <2>3. {invoice[j].number : j \in Issued} \cup {n} = 1..n
    <3>1. {invoice[j].number : j \in Issued} = 1..counter
      BY DEF CycleInv, NumbersHaveNoGap
    <3>2. (1..counter) \cup {n} = 1..n
      BY <1>4
    <3> QED
      BY <3>1, <3>2
  <2>4. Cardinality(Issued \cup {k}) = Cardinality(Issued) + 1
    BY <1>8, KeysAreFinite, FS_AddElement
  <2>5. Cardinality(Issued') = n
    BY <1>4, <1>8, <2>4 DEF CycleInv, NumbersHaveNoGap
  <2> QED
    BY <1>1, <2>2, <2>3, <2>5 DEF NumbersHaveNoGap
<1>11. q # "idle" => MayGo(worker[w], q, GeneratedKeys', Issued')
  BY <1>2, <1>5, <1>6, <1>8 DEF MayGo, Billing
<1>12. WorkersOK'
  BY <1>1, <1>9, <1>11, Moved
<1> QED
  BY <1>1, <1>7, <1>8, <1>10, <1>12 DEF CycleInv, RenewedIsInvoiced, SubOK

LEMMA FinalizeRefusedInv ==
    ASSUME CycleInv, NEW w \in Workers, FinalizeRefused(w)
    PROVE  CycleInv'
<1>1. /\ worker[w].pc = "finalize" /\ (Moves(w, "number") \/ Ends(w))
      /\ UNCHANGED bills /\ UNCHANGED <<subscription, renewed>>
  BY DEF FinalizeRefused, On, Me, subRows
<1>2. MayGo(worker[w], "number", GeneratedKeys, Issued)
  BY <1>1, InWorker DEF WorkerOK, MayGo, Billing
<1>3. SubOK(subscription') /\ renewed' \subseteq Issued
  BY <1>1 DEF CycleInv, RenewedIsInvoiced, SubOK
<1> QED
  BY <1>1, <1>2, <1>3, OnlyGoes, OnlyEnds

(* An issued invoice is paid: the same invoices are issued.                *)
LEMMA PaidStays ==
    ASSUME CycleInv, NEW k \in CycleInvoices, invoice[k].status = "OPEN",
           invoice' = [invoice EXCEPT ![k].status = "PAID"], UNCHANGED counter
    PROVE  InvoicesOK' /\ NumbersHaveNoGap' /\ Grown /\ Issued' = Issued /\ k \in Issued
<1>1. /\ DOMAIN invoice' = CycleInvoices /\ invoice'[k].status = "PAID" /\ invoice'[k].number = invoice[k].number
      /\ DOMAIN invoice'[k] = InvoiceFields
      /\ \A j \in CycleInvoices : j # k => invoice'[j] = invoice[j]
  BY DEF CycleInv, InvoicesOK, InvoiceFields
<1>2. InvoicesOK'
  BY <1>1 DEF CycleInv, InvoicesOK
<1>3. Issued' = Issued /\ k \in Issued
  BY <1>1 DEF Issued
<1>4. Grown
  BY <1>1, <1>3 DEF Grown, GeneratedKeys
<1>5. NumbersHaveNoGap'
  <2>1. \A j \in Issued : invoice'[j].number = invoice[j].number
    BY <1>1 DEF Issued
  <2> QED
    BY <1>3, <2>1 DEF CycleInv, NumbersHaveNoGap
<1> QED
  BY <1>2, <1>3, <1>4, <1>5

LEMMA NothingDueInv ==
    ASSUME CycleInv, NEW w \in Workers, NothingDue(w)
    PROVE  CycleInv'
<1>1. worker[w].pc = "nothing_due" /\ UNCHANGED <<counter, subscription, renewed>>
  BY DEF NothingDue, On, subRows
<1>2. worker[w].key \in CycleInvoices /\ worker[w].then \in {"idle", "renew", "end", "change"}
  BY <1>1, InWorker DEF WorkerOK, Billing
<1>3. CASE invoice[worker[w].key].status = "OPEN"
  <2>1. invoice' = [invoice EXCEPT ![worker[w].key].status = "PAID"] /\ Moves(w, worker[w].then)
    BY <1>3 DEF NothingDue, Me
  <2>2. InvoicesOK' /\ NumbersHaveNoGap' /\ Grown /\ Issued' = Issued /\ worker[w].key \in Issued
    BY <1>1, <1>2, <1>3, <2>1, PaidStays
  <2>3. worker[w].then # "idle" => MayGo(worker[w], worker[w].then, GeneratedKeys', Issued')
    BY <1>2, <2>2 DEF MayGo, Billing
  <2>4. WorkersOK'
    BY <2>1, <2>2, <2>3, Moved
  <2> QED
    BY <1>1, <2>2, <2>4 DEF CycleInv, RenewedIsInvoiced, SubOK
<1>4. CASE invoice[worker[w].key].status # "OPEN"
  <2>1. UNCHANGED bills /\ Ends(w)
    BY <1>1, <1>4 DEF NothingDue, Me, bills
  <2>2. SubOK(subscription') /\ renewed' \subseteq Issued
    BY <1>1 DEF CycleInv, RenewedIsInvoiced, SubOK
  <2> QED
    BY <2>1, <2>2, OnlyEnds
<1> QED
  BY <1>3, <1>4

LEMMA PaidInv ==
    ASSUME CycleInv, NEW k \in CycleInvoices, Paid(k)
    PROVE  CycleInv'
<1>1. /\ invoice[k].status = "OPEN" /\ invoice' = [invoice EXCEPT ![k].status = "PAID"]
      /\ UNCHANGED <<counter, worker, subscription, renewed>>
  BY DEF Paid, subRows
<1>2. InvoicesOK' /\ NumbersHaveNoGap' /\ Grown /\ Issued' = Issued
  BY <1>1, PaidStays
<1>3. WorkersOK'
  BY <1>1, <1>2, WorkersStay
<1> QED
  BY <1>1, <1>2, <1>3 DEF CycleInv, RenewedIsInvoiced, SubOK

----------------------------------------------------------------------------
(* The writes of the subscription keep its fields and an index.            *)

LEMMA MovedToOK ==
    ASSUME CycleInv, NEW s, NEW to
    PROVE  SubOK(MovedTo(s, to))
BY DEF CycleInv, SubOK, MovedTo, SubFields

LEMMA RenewedOK ==
    ASSUME CycleInv, NEW s, SubOK(s)
    PROVE  SubOK(RenewedFrom(s))
<1> DEFINE n == s.index + 1
           d == NextSweepDate(n)
           r == [subscription EXCEPT !.index = n, !.due = d]
<1>1. n \in Nat /\ RenewedFrom(s) = r
  BY DEF SubOK, RenewedFrom
<1> HIDE DEF n, d
<1>2. DOMAIN r = SubFields /\ r.index = n
  BY DEF CycleInv, SubOK, SubFields
<1> QED
  BY <1>1, <1>2 DEF SubOK

LEMMA ChangedOK ==
    ASSUME CycleInv, NEW s, NEW p, NEW n \in Nat
    PROVE  SubOK(ChangedSub(s, p, n))
<1> DEFINE t == Timing[p]
           d == NextSweepDate(n)
           r == [subscription EXCEPT !.timing = t, !.pending = NoChange, !.index = n, !.due = d]
<1>1. ChangedSub(s, p, n) = r
  BY DEF ChangedSub
<1> HIDE DEF t, d
<1>2. DOMAIN r = SubFields /\ r.index = n
  BY DEF CycleInv, SubOK, SubFields
<1> QED
  BY <1>1, <1>2 DEF SubOK

(* A process begins to bill a key.                                         *)
LEMMA OnlyBills ==
    ASSUME CycleInv, UNCHANGED bills, SubOK(subscription'), UNCHANGED renewed,
           NEW w \in Workers, NEW k \in CycleInvoices, NEW is, Bills(w, k, is)
    PROVE  CycleInv'
<1> DEFINE x == [NotBusy EXCEPT !.pc = "create", !.key = k, !.items = is]
<1>1. worker' = [worker EXCEPT ![w] = x]
  BY DEF Bills
<1>2. /\ DOMAIN x = WorkerFields /\ x.pc = "create" /\ x.key = k
      /\ x.snap = NotSubscribed /\ x.number = 0 /\ x.then = "idle"
  BY DEF NotBusy, WorkerFields
<1> HIDE DEF x
<1>3. WorkerOK(x, GeneratedKeys, Issued)
  BY <1>2, RestIsOK DEF WorkerOK
<1>4. renewed' \subseteq Issued
  BY DEF CycleInv, RenewedIsInvoiced
<1> QED
  BY <1>1, <1>3, <1>4, OnlyWorker

----------------------------------------------------------------------------
(* The sweep.                                                              *)

LEMMA DueOnInv ==
    ASSUME CycleInv, NEW w \in Workers, DueOn(w)
    PROVE  CycleInv'
<1> DEFINE x == [worker[w] EXCEPT !.pc = "sweep", !.snap = subscription]
<1>1. /\ worker[w].pc = "idle" /\ subscription.index + 2 \in Periods /\ worker' = [worker EXCEPT ![w] = x]
      /\ UNCHANGED bills /\ UNCHANGED <<subscription, renewed>>
  BY DEF DueOn, On, subRows
<1>2. WorkerOK(worker[w], GeneratedKeys, Issued)
  BY InWorker
<1>3. /\ DOMAIN x = WorkerFields /\ x.pc = "sweep" /\ x.snap = subscription /\ x.number = worker[w].number
      /\ x.then = worker[w].then
  BY <1>2 DEF WorkerOK, WorkerFields
<1> HIDE DEF x
<1>4. SubOK(subscription) /\ subscription.index + 2 <= MaxPeriod
  BY <1>1, CycleAssumption DEF CycleInv, SubOK, Periods
<1>5. WorkerOK(x, GeneratedKeys, Issued)
  BY <1>1, <1>2, <1>3, <1>4 DEF WorkerOK, Billing
<1>6. SubOK(subscription') /\ renewed' \subseteq Issued
  BY <1>1 DEF CycleInv, RenewedIsInvoiced, SubOK
<1> QED
  BY <1>1, <1>5, <1>6, OnlyWorker

LEMMA InvoiceOneInv ==
    ASSUME CycleInv, NEW w \in Workers, InvoiceOne(w)
    PROVE  CycleInv'
<1> DEFINE s == worker[w].snap
           then == Boundary(s)
           billed == then = "renew" \/ s.timing = "arrears"
           pc == IF billed THEN "create" ELSE then
           k == PeriodToInvoice(s)
           x == [worker[w] EXCEPT !.pc = pc, !.items = items, !.key = k, !.then = then]
<1>1. /\ worker[w].pc = "sweep" /\ worker' = [worker EXCEPT ![w] = x]
      /\ UNCHANGED bills /\ UNCHANGED <<subscription, renewed>>
  BY DEF InvoiceOne, On, Me, subRows
<1>2. WorkerOK(worker[w], GeneratedKeys, Issued) /\ s.index \in Nat /\ s.index + 2 <= MaxPeriod
  BY <1>1, InWorker DEF WorkerOK, SubOK
<1>3. k \in CycleInvoices
  BY <1>2, PeriodKeys DEF PeriodToInvoice
<1>4. then \in {"end", "change", "renew"}
  BY DEF Boundary
<1>5. pc = "create" \/ (pc = then /\ then # "renew")
  OBVIOUS
<1> HIDE DEF then, pc, k
<1>6. /\ DOMAIN x = WorkerFields /\ x.pc = pc /\ x.key = k /\ x.then = then
      /\ x.snap = s /\ x.number = worker[w].number
  BY <1>2 DEF WorkerOK, WorkerFields
<1> HIDE DEF x
<1>7. WorkerOK(x, GeneratedKeys, Issued)
  BY <1>2, <1>3, <1>4, <1>5, <1>6 DEF WorkerOK, Billing
<1>8. SubOK(subscription') /\ renewed' \subseteq Issued
  BY <1>1 DEF CycleInv, RenewedIsInvoiced, SubOK
<1> QED
  BY <1>1, <1>7, <1>8, OnlyWorker

LEMMA RenewInv ==
    ASSUME CycleInv, NEW w \in Workers, Renew(w)
    PROVE  CycleInv'
<1>1. /\ worker[w].pc = "renew" /\ UNCHANGED bills /\ Ends(w)
      /\ \/ subscription' = RenewedFrom(worker[w].snap) /\ renewed' = renewed \cup {worker[w].key}
         \/ UNCHANGED <<subscription, renewed>>
  BY DEF Renew, On, Me
<1>2. SubOK(worker[w].snap) /\ worker[w].key \in Issued
  BY <1>1, InWorker DEF WorkerOK
<1>3. SubOK(subscription')
  BY <1>1, <1>2, RenewedOK DEF CycleInv
<1>4. renewed' \subseteq Issued
  BY <1>1, <1>2 DEF CycleInv, RenewedIsInvoiced
<1> QED
  BY <1>1, <1>3, <1>4, OnlyEnds

LEMMA EndInv ==
    ASSUME CycleInv, NEW w \in Workers, EndAtBoundary(w)
    PROVE  CycleInv'
<1>1. /\ UNCHANGED bills /\ Ends(w) /\ UNCHANGED renewed
      /\ subscription' = MovedTo(worker[w].snap, "CANCELED") \/ UNCHANGED subscription
  BY DEF EndAtBoundary, Me
<1>2. SubOK(subscription') /\ renewed' \subseteq Issued
  BY <1>1, MovedToOK DEF CycleInv, RenewedIsInvoiced
<1> QED
  BY <1>1, <1>2, OnlyEnds

LEMMA ChangeInv ==
    ASSUME CycleInv, NEW w \in Workers, ChangeAtBoundary(w)
    PROVE  CycleInv'
<1> DEFINE s == worker[w].snap
           p == s.pending.plan
           n == s.index + 1
<1>1. /\ worker[w].pc = "change" /\ UNCHANGED bills /\ UNCHANGED renewed
      /\ \/ subscription' = ChangedSub(s, p, n) /\ (Bills(w, n, ItemsOn(p)) \/ Ends(w))
         \/ UNCHANGED subscription /\ Ends(w)
  BY DEF ChangeAtBoundary, On, Me
<1>2. s.index \in Nat /\ s.index + 2 <= MaxPeriod
  BY <1>1, InWorker DEF WorkerOK, SubOK
<1>3. n \in Nat /\ n \in CycleInvoices
  BY <1>2, PeriodKeys
<1> HIDE DEF s, p, n
<1>4. SubOK(subscription') /\ renewed' \subseteq Issued
  BY <1>1, <1>3, ChangedOK DEF CycleInv, RenewedIsInvoiced
<1> QED
  BY <1>1, <1>3, <1>4, OnlyBills, OnlyEnds

----------------------------------------------------------------------------
(* The requests.                                                           *)

LEMMA SubscribeInv ==
    ASSUME CycleInv, NEW w \in Workers, NEW p \in Plans, Subscribe(w, p)
    PROVE  CycleInv'
<1>1. /\ UNCHANGED bills /\ UNCHANGED renewed /\ subscription' = SubscribedTo(p)
      /\ Bills(w, 0, ItemsOn(p)) \/ UNCHANGED worker
  BY DEF Subscribe, CreateSubscription
<1>2. SubOK(subscription')
  BY <1>1 DEF SubOK, SubscribedTo, NotSubscribed, SubFields
<1>3. CASE UNCHANGED worker
  <2>1. InvoicesOK' /\ NumbersHaveNoGap' /\ Grown /\ Issued' = Issued
    BY <1>1, BillsStay
  <2>2. WorkersOK'
    BY <1>3, <2>1, WorkersStay
  <2> QED
    BY <1>1, <1>2, <2>1, <2>2 DEF CycleInv, RenewedIsInvoiced
<1>4. CASE Bills(w, 0, ItemsOn(p))
  BY <1>1, <1>2, <1>4, PeriodKeys, OnlyBills
<1> QED
  BY <1>1, <1>3, <1>4

LEMMA ReadsInv ==
    ASSUME CycleInv, NEW w \in Workers, NEW pc, NEW p, Reads(w, pc, p),
           pc \notin Billing \cup {"idle", "sweep", "end", "change"}
    PROVE  CycleInv'
<1> DEFINE x == [worker[w] EXCEPT !.pc = pc, !.snap = subscription, !.plan = p]
<1>1. /\ worker[w].pc = "idle" /\ worker' = [worker EXCEPT ![w] = x]
      /\ UNCHANGED bills /\ UNCHANGED <<subscription, renewed>>
  BY DEF Reads, On, subRows
<1>2. WorkerOK(worker[w], GeneratedKeys, Issued)
  BY InWorker
<1>3. /\ DOMAIN x = WorkerFields /\ x.pc = pc /\ x.snap = subscription /\ x.number = worker[w].number
      /\ x.then = worker[w].then
  BY <1>2 DEF WorkerOK, WorkerFields
<1> HIDE DEF x
<1>4. SubOK(subscription)
  BY DEF CycleInv
<1>5. WorkerOK(x, GeneratedKeys, Issued)
  BY <1>1, <1>2, <1>3, <1>4 DEF WorkerOK, Billing
<1>6. SubOK(subscription') /\ renewed' \subseteq Issued
  BY <1>1 DEF CycleInv, RenewedIsInvoiced, SubOK
<1> QED
  BY <1>1, <1>5, <1>6, OnlyWorker

LEMMA ListItemsInv ==
    ASSUME CycleInv, NEW w \in Workers, ListItems(w)
    PROVE  CycleInv'
<1> DEFINE x == [worker[w] EXCEPT !.pc = "swap", !.items = items]
<1>1. /\ worker' = [worker EXCEPT ![w] = x] /\ UNCHANGED bills /\ UNCHANGED <<subscription, renewed>>
  BY DEF ListItems, subRows
<1>2. WorkerOK(worker[w], GeneratedKeys, Issued)
  BY InWorker
<1>3. /\ DOMAIN x = WorkerFields /\ x.pc = "swap" /\ x.snap = worker[w].snap /\ x.number = worker[w].number
      /\ x.then = worker[w].then
  BY <1>2 DEF WorkerOK, WorkerFields
<1> HIDE DEF x
<1>4. WorkerOK(x, GeneratedKeys, Issued)
  BY <1>2, <1>3 DEF WorkerOK, Billing
<1>5. SubOK(subscription') /\ renewed' \subseteq Issued
  BY <1>1 DEF CycleInv, RenewedIsInvoiced, SubOK
<1> QED
  BY <1>1, <1>4, <1>5, OnlyWorker

LEMMA ChangePlanInv ==
    ASSUME CycleInv, NEW w \in Workers, ChangePlan(w)
    PROVE  CycleInv'
<1> DEFINE s == worker[w].snap
           p == worker[w].plan
<1>1. /\ UNCHANGED bills /\ UNCHANGED renewed
      /\ \/ /\ subscription' = ChangedSub(s, p, s.index)
            /\ (\E k \in FreeSwaps : Bills(w, k, ItemsOn(p))) \/ Ends(w)
         \/ UNCHANGED subscription /\ Ends(w)
  BY DEF ChangePlan, Me
<1>2. s.index \in Nat
  BY InWorker DEF WorkerOK, SubOK
<1> HIDE DEF s, p
<1>3. SubOK(subscription') /\ renewed' \subseteq Issued
  BY <1>1, <1>2, ChangedOK DEF CycleInv, RenewedIsInvoiced
<1>4. FreeSwaps \subseteq CycleInvoices
  BY SwapKeys DEF FreeSwaps
<1> QED
  BY <1>1, <1>3, <1>4, OnlyBills, OnlyEnds

LEMMA ScheduleInv ==
    ASSUME CycleInv, NEW w \in Workers, SchedulePlanChange(w) \/ ScheduleCancellation(w)
    PROVE  CycleInv'
<1>1. UNCHANGED bills /\ UNCHANGED renewed /\ Ends(w)
  BY DEF SchedulePlanChange, ScheduleCancellation
<1>2. SubOK(subscription')
  <2>1. CASE SchedulePlanChange(w)
    <3>1. subscription' = subscription \/ \E c : subscription' = [subscription EXCEPT !.pending = c]
      BY <2>1 DEF SchedulePlanChange
    <3> QED
      BY <3>1 DEF CycleInv, SubOK, SubFields
  <2>2. CASE ScheduleCancellation(w)
    <3>1. \/ subscription' = subscription \/ subscription' = [subscription EXCEPT !.ends = TRUE]
          \/ subscription' = MovedTo(worker[w].snap, "CANCELED")
      BY <2>2 DEF ScheduleCancellation, Me
    <3>2. SubOK(MovedTo(worker[w].snap, "CANCELED"))
      BY MovedToOK
    <3>3. SubOK([subscription EXCEPT !.ends = TRUE])
      BY DEF CycleInv, SubOK, SubFields
    <3> QED
      BY <3>1, <3>2, <3>3 DEF CycleInv
  <2> QED
    BY <2>1, <2>2
<1>3. renewed' \subseteq Issued
  BY <1>1 DEF CycleInv, RenewedIsInvoiced
<1> QED
  BY <1>1, <1>2, <1>3, OnlyEnds

LEMMA TransitionInv ==
    ASSUME CycleInv, NEW w \in Workers, NEW to, Transition(w, to)
    PROVE  CycleInv'
<1>1. /\ UNCHANGED bills /\ UNCHANGED renewed /\ Ends(w)
      /\ subscription' = MovedTo(worker[w].snap, to) \/ UNCHANGED subscription
  BY DEF Transition, Me
<1>2. SubOK(subscription') /\ renewed' \subseteq Issued
  BY <1>1, MovedToOK DEF CycleInv, RenewedIsInvoiced
<1> QED
  BY <1>1, <1>2, OnlyEnds

LEMMA OneOffInv ==
    ASSUME CycleInv, NEW w \in Workers, NEW k \in OneOffs, NEW p, OneOff(w, k, p)
    PROVE  CycleInv'
<1> DEFINE pc == IF Generated(k) THEN "leftover" ELSE "create"
           is == {[id |-> 0, plan |-> p]}
           x == [NotBusy EXCEPT !.pc = pc, !.key = k, !.items = is]
<1>1. /\ worker' = [worker EXCEPT ![w] = x] /\ UNCHANGED bills /\ UNCHANGED <<subscription, renewed>>
  BY DEF OneOff, subRows
<1>2. k \in CycleInvoices /\ pc \in {"leftover", "create"} /\ (pc = "leftover" => k \in GeneratedKeys)
  BY SwapKeys DEF Generated, GeneratedKeys
<1> HIDE DEF pc, is
<1>3. /\ DOMAIN x = WorkerFields /\ x.pc = pc /\ x.key = k
      /\ x.snap = NotSubscribed /\ x.number = 0 /\ x.then = "idle"
  BY DEF NotBusy, WorkerFields
<1> HIDE DEF x
<1>4. WorkerOK(x, GeneratedKeys, Issued)
  BY <1>2, <1>3, RestIsOK DEF WorkerOK
<1>5. SubOK(subscription') /\ renewed' \subseteq Issued
  BY <1>1 DEF CycleInv, RenewedIsInvoiced, SubOK
<1> QED
  BY <1>1, <1>4, <1>5, OnlyWorker

LEMMA FinalizeInvoiceInv ==
    ASSUME CycleInv, NEW w \in Workers, NEW k \in CycleInvoices, FinalizeInvoice(w, k)
    PROVE  CycleInv'
<1> DEFINE x == [worker[w] EXCEPT !.pc = "number", !.key = k]
<1>1. /\ worker' = [worker EXCEPT ![w] = x] /\ UNCHANGED bills /\ UNCHANGED <<subscription, renewed>>
  BY DEF FinalizeInvoice, subRows
<1>2. WorkerOK(worker[w], GeneratedKeys, Issued)
  BY InWorker
<1>3. /\ DOMAIN x = WorkerFields /\ x.pc = "number" /\ x.key = k /\ x.snap = worker[w].snap
      /\ x.number = worker[w].number /\ x.then = worker[w].then
  BY <1>2 DEF WorkerOK, WorkerFields
<1> HIDE DEF x
<1>4. WorkerOK(x, GeneratedKeys, Issued)
  BY <1>2, <1>3 DEF WorkerOK, Billing
<1>5. SubOK(subscription') /\ renewed' \subseteq Issued
  BY <1>1 DEF CycleInv, RenewedIsInvoiced, SubOK
<1> QED
  BY <1>1, <1>4, <1>5, OnlyWorker

LEMMA RequestingInv ==
    ASSUME CycleInv, NEW w \in Workers, Requesting(w)
    PROVE  CycleInv'
<1>1. ASSUME NEW p \in Plans, Subscribe(w, p) \/ AskChange(w, p) \/ ChangeBillingPlan(w, p) PROVE CycleInv'
  <2>1. CASE Subscribe(w, p)
    BY <2>1, SubscribeInv
  <2>2. ASSUME NEW pc \in {"list", "schedule"}, NEW q, Reads(w, pc, q) PROVE CycleInv'
    BY <2>2, ReadsInv DEF Billing
  <2>3. CASE AskChange(w, p)
    BY <2>3, <2>2 DEF AskChange
  <2>4. CASE ChangeBillingPlan(w, p)
    BY <2>4, <2>2 DEF ChangeBillingPlan
  <2> QED
    BY <1>1, <2>1, <2>3, <2>4
<1>2. ASSUME NEW pc \in {"cancel_at_end", "CANCELED", "ACTIVE", "PAST_DUE"}, NEW q, Reads(w, pc, q) PROVE CycleInv'
  BY <1>2, ReadsInv DEF Billing
<1>3. ASSUME NEW pc \in {"cancel_at_end", "CANCELED"}, CancelByClient(w, pc) \/ CancelByOperator(w, pc)
      PROVE  CycleInv'
  BY <1>2, <1>3 DEF CancelByClient, CancelByOperator, Cancels
<1>4. CASE CancelByCustomer(w)
  BY <1>2, <1>4 DEF CancelByCustomer, Cancels
<1>5. CASE Activate(w) \/ EscalateTo(w, "PAST_DUE") \/ EscalateTo(w, "CANCELED")
  BY <1>2, <1>5 DEF Activate, EscalateTo
<1> QED
  BY <1>1, <1>3, <1>4, <1>5, OneOffInv, FinalizeInvoiceInv, ListItemsInv, ChangePlanInv, ScheduleInv,
     TransitionInv DEF Requesting

LEMMA CycleNextInv ==
    ASSUME CycleInv, [CycleNext]_cycleVars
    PROVE  CycleInv'
<1>1. CASE NextDay \/ UNCHANGED cycleVars
  <2>1. UNCHANGED bills /\ UNCHANGED <<worker, subscription, renewed>>
    BY <1>1 DEF NextDay, cycleVars, subRows, bills
  <2>2. InvoicesOK' /\ NumbersHaveNoGap' /\ Grown /\ Issued' = Issued
    BY <2>1, BillsStay
  <2>3. WorkersOK'
    BY <2>1, <2>2, WorkersStay
  <2> QED
    BY <2>1, <2>2, <2>3 DEF CycleInv, RenewedIsInvoiced, SubOK
<1>2. ASSUME NEW w \in Workers, Issuing(w) PROVE CycleInv'
  BY <1>2, CreateInv, CreateRefusedInv, LeftoverInv, CurrentNumberInv, FinalizeDraftInv, FinalizeRefusedInv,
     NothingDueInv DEF Issuing
<1>3. ASSUME NEW w \in Workers, Sweeping(w) PROVE CycleInv'
  BY <1>3, DueOnInv, InvoiceOneInv, RenewInv, EndInv, ChangeInv DEF Sweeping
<1>4. ASSUME NEW w \in Workers, Dies(w) PROVE CycleInv'
  <2>1. UNCHANGED bills /\ UNCHANGED <<subscription, renewed>> /\ Ends(w)
    BY <1>4 DEF Dies, subRows
  <2>2. SubOK(subscription') /\ renewed' \subseteq Issued
    BY <2>1 DEF CycleInv, RenewedIsInvoiced, SubOK
  <2> QED
    BY <2>1, <2>2, OnlyEnds
<1> QED
  BY <1>1, <1>2, <1>3, <1>4, RequestingInv, PaidInv DEF CycleNext

(* The issued invoices of a year are numbered 1, 2, 3, ... with no gap and *)
(* no repeat, for any number of processes, plans, requests and deaths:     *)
(* Finalize of repositories/invoices.go takes the next number, the status  *)
(* and the counter in one transaction.                                     *)
THEOREM NumbersRunOn == CycleSpec => []NumbersHaveNoGap
<1>1. CycleInv => NumbersHaveNoGap
  BY DEF CycleInv
<1> QED
  BY CycleInitInv, CycleNextInv, <1>1, PTL DEF CycleSpec

(* The sweep renews past a period only when its invoice is issued, however *)
(* often it died between the draft and the number (issueLeftoverDraft of   *)
(* services/invoicing.go).                                                 *)
THEOREM RenewalsAreInvoiced == CycleSpec => []RenewedIsInvoiced
<1>1. CycleInv => RenewedIsInvoiced
  BY DEF CycleInv
<1> QED
  BY CycleInitInv, CycleNextInv, <1>1, PTL DEF CycleSpec

----------------------------------------------------------------------------
(* Dunning.                                                                *)

(* What queue and position say about an invoice.                           *)
RowsOK ==
    \A i \in Invoices :
        /\ inv[i].status = "DRAFT" => inv[i].step = 0 /\ inv[i].queue = "none"
        /\ inv[i].queue = "dunning" => inv[i].step < Len(Policy)
        /\ inv[i].queue = "posting" => inv[i].status = "PAID"

(* What a stale copy of invoice i at position n still guarantees.          *)
CopyOK(i, n) ==
    /\ n < Len(Policy)
    /\ n <= inv[i].step
    /\ inv[i].status # "DRAFT"

Chasing == {"remind", "escalate", "abandon", "uncollectible", "advance"}
Paying  == {"activate", "issuer", "payer", "posted"}

ProcOK(p) ==
    /\ \A c \in proc[p].page : CopyOK(c.id, c.step)
    /\ proc[p].pc \in Chasing =>
         proc[p].id \in Invoices /\ CopyOK(proc[p].id, proc[p].step)
    /\ proc[p].pc \in {"remind", "escalate", "abandon"} =>
         Policy[proc[p].step + 1] = proc[p].pc
    /\ proc[p].pc = "uncollectible" => Policy[proc[p].step + 1] = "abandon"
    /\ proc[p].pc = "advance" => done[proc[p].id][proc[p].step + 1] >= 1
    /\ proc[p].pc \in Paying => proc[p].id \in Invoices /\ inv[proc[p].id].status = "PAID"
    /\ proc[p].pc = "payer" /\ proc[p].ok => "issuer" \in books[proc[p].id]
    /\ proc[p].pc = "posted" => books[proc[p].id] = Sides \/ proc[p].id \in old

IInv ==
    /\ TypeOK
    /\ RowsOK
    /\ NoStepSkipped
    /\ WrittenOffAfterChase
    /\ \A p \in Procs : ProcOK(p)

(* The next write of run p of the dunning job advances invoice i, whatever *)
(* became of it since the run read its page.                               *)
Advances(p, i) == proc[p].pc = "advance" /\ proc[p].id = i /\ proc[p].step = inv[i].step

(* A payment is put on the queue of postings in the write that makes it,   *)
(* and what takes it off before it is posted, or before its window has     *)
(* passed, is a late advance of the dunning job: the one write that sets   *)
(* the shared schedule key without asking for the status.                  *)
StaysQueued ==
    \A i \in Invoices : inv'[i].status = "PAID" =>
        \/ inv'[i].queue = "posting"
        \/ books[i] = Sides \/ i \in old
        \/ inv[i].status = "PAID" /\ inv[i].queue # "posting"
        \/ \E p \in Dunners : Advances(p, i) /\ inv'[i].step = inv[i].step + 1

(* The same, seen from a state: a payment that no step of dunning was ever *)
(* counted for, as when it comes before the first reminder, is posted or   *)
(* waits where the replay reads, in every interleaving of the jobs.        *)
UnchasedIsQueued ==
    \A i \in Invoices : inv[i].status = "PAID" /\ inv[i].step = 0 =>
        books[i] = Sides \/ inv[i].queue = "posting" \/ i \in old

----------------------------------------------------------------------------
LEMMA PolicyFacts ==
    /\ Len(Policy) \in Nat /\ Len(Policy) > 0
    /\ \A n \in 1..Len(Policy) : Policy[n] \in DunningAction
BY DunningAssumption

LEMMA IdleIsProcess == Idle \in Process
BY PolicyFacts DEF Idle, Process, Steps, Position

LEMMA Becomes ==
    ASSUME TypeOK, NEW p \in Procs, NEW r, Become(p, r)
    PROVE  proc'[p] = r /\ \A q \in Procs : q # p => proc'[q] = proc[q]
BY DEF TypeOK, Become

(* What every step leaves at least as it was.                              *)
Grows ==
    /\ old \subseteq old'
    /\ \A i \in Invoices :
         /\ inv'[i].step >= inv[i].step
         /\ inv[i].status # "DRAFT" => inv'[i].status # "DRAFT"
         /\ inv[i].status = "PAID" => inv'[i].status = "PAID"
         /\ books[i] \subseteq books'[i]
         /\ \A n \in 1..Len(Policy) : done'[i][n] >= done[i][n]

(* A copy stays good while others work.                                    *)
LEMMA CopyStays ==
    ASSUME TypeOK, TypeOK', Grows, NEW i \in Invoices, NEW n \in Position, CopyOK(i, n)
    PROVE  CopyOK(i, n)'
<1>1. inv[i].step \in Position /\ inv'[i].step \in Position
  BY DEF TypeOK, Row
<1>2. inv'[i].step >= inv[i].step /\ inv'[i].status # "DRAFT"
  BY DEF Grows, CopyOK
<1> QED
  BY <1>1, <1>2, PolicyFacts DEF CopyOK, Position

LEMMA Untouched ==
    ASSUME TypeOK, TypeOK', Grows, NEW q \in Procs, proc'[q] = proc[q], ProcOK(q)
    PROVE  ProcOK(q)'
<1>1. /\ proc[q] \in Process
      /\ books \in [Invoices -> SUBSET Sides] /\ books' \in [Invoices -> SUBSET Sides]
      /\ done \in [Invoices -> [1..Len(Policy) -> 0..2]]
      /\ done' \in [Invoices -> [1..Len(Policy) -> 0..2]]
  BY DEF TypeOK
<1>2. \A c \in proc[q].page : CopyOK(c.id, c.step)'
  <2> SUFFICES ASSUME NEW c \in proc[q].page PROVE CopyOK(c.id, c.step)'
    OBVIOUS
  <2>1. c \in Copy /\ CopyOK(c.id, c.step)
    BY <1>1 DEF ProcOK, Process
  <2> QED
    BY <2>1, CopyStays DEF Copy
<1>3. proc[q].pc \in Chasing =>
        proc[q].id \in Invoices /\ CopyOK(proc[q].id, proc[q].step)'
  BY <1>1, CopyStays DEF ProcOK, Process
<1>4. proc[q].pc = "advance" => done'[proc[q].id][proc[q].step + 1] >= 1
  <2> SUFFICES ASSUME proc[q].pc = "advance" PROVE done'[proc[q].id][proc[q].step + 1] >= 1
    OBVIOUS
  <2>1. proc[q].id \in Invoices /\ proc[q].step \in Position /\ proc[q].step < Len(Policy)
    BY <1>1 DEF ProcOK, Chasing, CopyOK, Process
  <2>2. proc[q].step + 1 \in 1..Len(Policy)
    BY <2>1, PolicyFacts DEF Position
  <2>3. done[proc[q].id][proc[q].step + 1] \in 0..2 /\ done'[proc[q].id][proc[q].step + 1] \in 0..2
    BY <1>1, <2>1, <2>2
  <2>4. done[proc[q].id][proc[q].step + 1] >= 1
    BY DEF ProcOK
  <2>5. done'[proc[q].id][proc[q].step + 1] >= done[proc[q].id][proc[q].step + 1]
    BY <2>1, <2>2 DEF Grows
  <2> QED
    BY <2>3, <2>4, <2>5
<1>5. proc[q].pc \in Paying => proc[q].id \in Invoices /\ inv'[proc[q].id].status = "PAID"
  BY DEF ProcOK, Grows
<1>6. proc[q].pc = "payer" /\ proc[q].ok => "issuer" \in books'[proc[q].id]
  BY DEF ProcOK, Grows, Paying
<1>7. proc[q].pc = "posted" => books'[proc[q].id] = Sides \/ proc[q].id \in old'
  BY <1>1 DEF ProcOK, Grows, Paying
<1> QED
  BY <1>2, <1>3, <1>4, <1>5, <1>6, <1>7 DEF ProcOK

LEMMA Assembled ==
    ASSUME IInv, TypeOK', Grows, RowsOK', NoStepSkipped', WrittenOffAfterChase',
           NEW p \in Procs, \A q \in Procs : q # p => proc'[q] = proc[q], ProcOK(p)'
    PROVE  IInv'
<1>1. \A q \in Procs : q # p => ProcOK(q)'
  BY Untouched DEF IInv
<1> QED
  BY <1>1 DEF IInv

LEMMA RowsStay ==
    ASSUME IInv, UNCHANGED <<inv, books, old, done>>
    PROVE  Grows /\ RowsOK' /\ NoStepSkipped' /\ WrittenOffAfterChase'
<1>1. \A i \in Invoices : inv[i].step \in Position
  BY DEF IInv, TypeOK, Row
<1>2. \A i \in Invoices : \A n \in 1..Len(Policy) : done[i][n] \in 0..2
  BY DEF IInv, TypeOK
<1>3. Grows
  BY <1>1, <1>2, PolicyFacts DEF Grows, Position
<1>4. RowsOK' /\ NoStepSkipped' /\ WrittenOffAfterChase'
  BY DEF IInv, RowsOK, NoStepSkipped, WrittenOffAfterChase
<1> QED
  BY <1>3, <1>4

(* A step of p that leaves the rows alone.                                 *)
LEMMA ProcessMoves ==
    ASSUME IInv, UNCHANGED <<inv, books, old, done>>,
           sub' \in [status: SubscriptionStatus, cause: Cause],
           NEW p \in Procs, NEW r \in Process, Become(p, r), ProcOK(p)'
    PROVE  IInv'
<1>1. TypeOK'
  BY DEF IInv, TypeOK, Become
<1>2. \A q \in Procs : q # p => proc'[q] = proc[q]
  BY Becomes DEF IInv
<1> QED
  BY <1>1, <1>2, RowsStay, Assembled

LEMMA InitInv == Init => IInv
<1> SUFFICES ASSUME Init PROVE IInv
  OBVIOUS
<1>1. TypeOK
  BY IdleIsProcess, PolicyFacts
     DEF Init, TypeOK, Row, InvoiceStatus, Queue, Position, SubscriptionStatus, Cause
<1>2. RowsOK /\ NoStepSkipped /\ WrittenOffAfterChase
  BY DEF Init, RowsOK, NoStepSkipped, WrittenOffAfterChase
<1>3. \A p \in Procs : ProcOK(p)
  BY DEF Init, ProcOK, Idle, Chasing, Paying
<1> QED
  BY <1>1, <1>2, <1>3 DEF IInv

----------------------------------------------------------------------------
(* Ways a step of p ends.                                                  *)
LEMMA EndIsOK ==
    ASSUME TypeOK, NEW p \in Procs, End(p)
    PROVE  ProcOK(p)' /\ Become(p, Idle)
<1>1. proc'[p] = Idle
  BY Becomes DEF End
<1> QED
  BY <1>1 DEF End, ProcOK, Idle, Chasing, Paying

LEMMA ProceedIsOK ==
    ASSUME IInv, NEW p \in Procs, Proceed(p)
    PROVE  /\ proc' \in [Procs -> Process]
           /\ \A q \in Procs : q # p => proc'[q] = proc[q]
           /\ TypeOK' /\ Grows => ProcOK(p)'
<1>1. proc[p] \in Process /\ proc \in [Procs -> Process]
  BY DEF IInv, TypeOK
<1>2. CASE proc[p].page = {}
  <2>1. Become(p, Idle) /\ End(p)
    BY <1>2 DEF Proceed, End
  <2> QED
    BY <1>1, <2>1, EndIsOK, Becomes, IdleIsProcess DEF Become, IInv
<1>3. CASE proc[p].page # {}
  <2> DEFINE r == [Idle EXCEPT !.pc = "next", !.page = proc[p].page]
  <2>1. Become(p, r)
    BY <1>3 DEF Proceed
  <2>2. r \in Process /\ r.page = proc[p].page /\ r.pc = "next"
    BY <1>1, IdleIsProcess DEF Process, Idle, Steps
  <2> HIDE DEF r
  <2>3. proc'[p] = r /\ \A q \in Procs : q # p => proc'[q] = proc[q]
    BY <2>1, Becomes DEF IInv
  <2>4. ASSUME TypeOK', Grows PROVE ProcOK(p)'
    <3>1. \A c \in proc[p].page : CopyOK(c.id, c.step)'
      <4> SUFFICES ASSUME NEW c \in proc[p].page PROVE CopyOK(c.id, c.step)'
        OBVIOUS
      <4>1. c \in Copy /\ CopyOK(c.id, c.step)
        BY <1>1 DEF ProcOK, Process, IInv
      <4> QED
        BY <4>1, <2>4, CopyStays DEF Copy, IInv
    <3> QED
      BY <2>2, <2>3, <3>1 DEF ProcOK, Chasing, Paying
  <2> QED
    BY <1>1, <2>1, <2>2, <2>3, <2>4 DEF Become
<1> QED
  BY <1>2, <1>3

LEMMA SubTransitionTyped ==
    ASSUME TypeOK, NEW to \in SubscriptionStatus, NEW cause \in Cause, SubTransition(to, cause)
    PROVE  sub' \in [status: SubscriptionStatus, cause: Cause]
BY DEF TypeOK, SubTransition

----------------------------------------------------------------------------
(* The rows outside the jobs.                                              *)
LEMMA RowSteps ==
    ASSUME IInv, NEW i \in Invoices,
           Finalize(i) \/ VoidInvoice(i) \/ WindowCloses(i)
    PROVE  IInv'
<1>0. inv \in [Invoices -> Row]
  BY PolicyFacts DEF IInv, TypeOK
<1>1. CASE Finalize(i) \/ VoidInvoice(i)
  <2>1. /\ inv[i].status \in {"DRAFT", "OPEN"}
        /\ inv'[i].status \in {"OPEN", "VOID"}
        /\ \/ inv'[i].queue = "none"
           \/ inv'[i].queue = "dunning" /\ inv[i].status = "DRAFT"
        /\ inv'[i] \in Row /\ inv'[i].step = inv[i].step
        /\ \A k \in Invoices : k # i => inv'[k] = inv[k]
        /\ inv' \in [Invoices -> Row]
    BY <1>0, <1>1 DEF Finalize, VoidInvoice, Row, InvoiceStatus, Queue
  <2>2. UNCHANGED <<sub, books, old, done, proc>>
    BY <1>1 DEF Finalize, VoidInvoice
  <2>3. TypeOK'
    BY <2>1, <2>2 DEF IInv, TypeOK
  <2>4. \A k \in Invoices : inv[k].step \in Nat /\ inv'[k].step = inv[k].step
    BY <1>0, <2>1, PolicyFacts DEF Row, Position
  <2>5. \A k \in Invoices : \A n \in 1..Len(Policy) : done[k][n] \in 0..2
    BY DEF IInv, TypeOK
  <2>6. Grows
    BY <2>1, <2>2, <2>4, <2>5 DEF Grows
  <2>7. RowsOK'
    BY <2>1, <2>4, PolicyFacts DEF RowsOK, IInv
  <2>8. NoStepSkipped' /\ WrittenOffAfterChase'
    BY <2>1, <2>2, <2>4 DEF NoStepSkipped, WrittenOffAfterChase, IInv
  <2>9. \A p \in Procs : ProcOK(p)'
    BY <2>2, <2>3, <2>6, Untouched DEF IInv
  <2> QED
    BY <2>3, <2>7, <2>8, <2>9 DEF IInv
<1>2. CASE WindowCloses(i)
  <2>1. UNCHANGED <<inv, sub, books, done, proc>> /\ old' = old \cup {i}
    BY <1>2 DEF WindowCloses
  <2>2. TypeOK'
    BY <2>1 DEF IInv, TypeOK
  <2>3. \A k \in Invoices : inv[k].step \in Nat
    BY <1>0, PolicyFacts DEF Row, Position
  <2>4. \A k \in Invoices : \A n \in 1..Len(Policy) : done[k][n] \in 0..2
    BY DEF IInv, TypeOK
  <2>5. Grows
    BY <2>1, <2>3, <2>4 DEF Grows
  <2>6. \A p \in Procs : ProcOK(p)'
    BY <2>1, <2>2, <2>5, Untouched DEF IInv
  <2> QED
    BY <2>1, <2>2, <2>6 DEF IInv, RowsOK, NoStepSkipped, WrittenOffAfterChase
<1> QED
  BY <1>1, <1>2

----------------------------------------------------------------------------
(* The dunning job.                                                        *)
LEMMA DueForDunningKeeps ==
    ASSUME IInv, NEW p \in Procs, DueForDunning(p)
    PROVE  IInv'
<1>1. PICK due \in SUBSET {i \in Invoices : inv[i].queue = "dunning"} :
        Become(p, [Idle EXCEPT !.pc = "next", !.page =
           {[id |-> i, status |-> inv[i].status, step |-> inv[i].step] : i \in due}])
  BY DEF DueForDunning
<1> DEFINE pg == {[id |-> i, status |-> inv[i].status, step |-> inv[i].step] : i \in due}
           r == [Idle EXCEPT !.pc = "next", !.page = pg]
<1>2. \A i \in due : i \in Invoices /\ inv[i] \in Row
  BY DEF IInv, TypeOK
<1>3. pg \subseteq Copy
  BY <1>2 DEF Copy, Row
<1>4. \A c \in pg : CopyOK(c.id, c.step)
  <2> SUFFICES ASSUME NEW i \in due PROVE CopyOK(i, inv[i].step)
    OBVIOUS
  <2>1. inv[i].queue = "dunning" /\ inv[i].step \in Nat
    BY <1>2, PolicyFacts DEF Row, Position
  <2> QED
    BY <1>2, <2>1 DEF CopyOK, IInv, RowsOK
<1>5. UNCHANGED <<inv, sub, books, old, done>>
  BY DEF DueForDunning
<1>6. \A c \in pg : CopyOK(c.id, c.step)'
  BY <1>4, <1>5 DEF CopyOK
<1> HIDE DEF pg
<1>7. r \in Process /\ r.page = pg /\ r.pc = "next"
  BY <1>3, IdleIsProcess DEF Idle, Process, Steps
<1>8. Become(p, r)
  BY <1>1 DEF pg
<1> HIDE DEF r
<1>9. proc'[p] = r
  BY <1>8, Becomes DEF IInv
<1>10. ProcOK(p)'
  BY <1>6, <1>7, <1>9 DEF ProcOK, Chasing, Paying
<1>11. sub' \in [status: SubscriptionStatus, cause: Cause]
  BY <1>5 DEF IInv, TypeOK
<1> QED
  BY <1>5, <1>7, <1>8, <1>10, <1>11, ProcessMoves

LEMMA StepKeeps ==
    ASSUME IInv, NEW p \in Procs, Step(p)
    PROVE  IInv'
<1>0. proc[p] \in Process /\ sub' \in [status: SubscriptionStatus, cause: Cause]
      /\ UNCHANGED <<inv, sub, books, old, done>> /\ proc[p].pc = "next"
  BY DEF IInv, TypeOK, Step, At
<1>1. PICK c \in proc[p].page :
        LET rest == proc[p].page \ {c} IN
         IF c.status # "OPEN"
         THEN Become(p, IF rest = {} THEN Idle ELSE [proc[p] EXCEPT !.page = rest])
         ELSE Become(p, [proc[p] EXCEPT !.page = rest, !.id = c.id, !.step = c.step,
                             !.pc = Policy[c.step + 1]])
  BY DEF Step
<1>2. c \in Copy /\ CopyOK(c.id, c.step) /\ \A d \in proc[p].page : CopyOK(d.id, d.step)
  BY <1>0 DEF IInv, ProcOK, Process
<1>3. CASE c.status # "OPEN" /\ proc[p].page \ {c} = {}
  <2>1. End(p)
    BY <1>1, <1>3 DEF End
  <2> QED
    BY <1>0, <2>1, EndIsOK, IdleIsProcess, ProcessMoves DEF IInv
<1>4. CASE c.status # "OPEN" /\ proc[p].page \ {c} # {}
  <2> DEFINE r == [proc[p] EXCEPT !.page = proc[p].page \ {c}]
  <2>1. r \in Process /\ r.pc = "next" /\ r.page \subseteq proc[p].page
    BY <1>0 DEF Process
  <2>2. Become(p, r)
    BY <1>1, <1>4
  <2> HIDE DEF r
  <2>3. proc'[p] = r
    BY <2>2, Becomes DEF IInv
  <2>4. \A d \in proc[p].page : CopyOK(d.id, d.step)'
    BY <1>0, <1>2 DEF CopyOK
  <2>5. ProcOK(p)'
    BY <2>1, <2>3, <2>4 DEF ProcOK, Chasing, Paying
  <2> QED
    BY <1>0, <2>1, <2>2, <2>5, ProcessMoves
<1>5. CASE c.status = "OPEN"
  <2> DEFINE r == [proc[p] EXCEPT !.page = proc[p].page \ {c}, !.id = c.id,
                     !.step = c.step, !.pc = Policy[c.step + 1]]
  <2>1. c.id \in Invoices /\ c.step \in Position /\ c.step < Len(Policy)
    BY <1>2 DEF Copy, CopyOK
  <2>2. Policy[c.step + 1] \in DunningAction
    BY <2>1, PolicyFacts DEF Position
  <2>3. /\ r \in Process /\ r.page \subseteq proc[p].page
        /\ r.pc = Policy[c.step + 1] /\ r.id = c.id /\ r.step = c.step
    BY <1>0, <2>1, <2>2 DEF Process, Steps, DunningAction
  <2>4. Become(p, r)
    BY <1>1, <1>5
  <2> HIDE DEF r
  <2>5. proc'[p] = r
    BY <2>4, Becomes DEF IInv
  <2>6. (\A d \in proc[p].page : CopyOK(d.id, d.step)') /\ CopyOK(c.id, c.step)'
    BY <1>0, <1>2 DEF CopyOK
  <2>7. ProcOK(p)'
    BY <2>1, <2>2, <2>3, <2>5, <2>6 DEF ProcOK, Chasing, Paying, DunningAction
  <2> QED
    BY <1>0, <2>3, <2>4, <2>7, ProcessMoves
<1> QED
  BY <1>3, <1>4, <1>5

(* The step at which p stands was done and is only to be recorded.         *)
LEMMA PerformedKeeps ==
    ASSUME IInv, NEW p \in Procs, NEW i \in Invoices, NEW n \in 1..Len(Policy), Performed(i, n)
    PROVE  /\ done' \in [Invoices -> [1..Len(Policy) -> 0..2]]
           /\ done'[i][n] >= 1
           /\ \A k \in Invoices : \A m \in 1..Len(Policy) :
                done[k][m] \in 0..2 /\ done'[k][m] \in 0..2 /\ done'[k][m] >= done[k][m]
<1>1. done \in [Invoices -> [1..Len(Policy) -> 0..2]]
  BY DEF IInv, TypeOK
<1>2. done' = [done EXCEPT ![i][n] = IF done[i][n] = 0 THEN 1 ELSE 2]
  BY DEF Performed
<1>3. \A k \in Invoices : done'[k] =
        IF k = i THEN [done[i] EXCEPT ![n] = IF done[i][n] = 0 THEN 1 ELSE 2] ELSE done[k]
  BY <1>1, <1>2
<1>4. \A k \in Invoices : done'[k] \in [1..Len(Policy) -> 0..2]
  <2>1. done[i] \in [1..Len(Policy) -> 0..2]
    BY <1>1
  <2>2. [done[i] EXCEPT ![n] = IF done[i][n] = 0 THEN 1 ELSE 2] \in [1..Len(Policy) -> 0..2]
    BY <2>1
  <2> QED
    BY <1>1, <1>3, <2>2
<1>5. DOMAIN done' = Invoices /\ done' = [k \in Invoices |-> done'[k]]
  BY <1>1, <1>2
<1>6. done' \in [Invoices -> [1..Len(Policy) -> 0..2]]
  BY <1>4, <1>5
<1>7. \A k \in Invoices : \A m \in 1..Len(Policy) : done[k][m] \in 0..2 /\ done'[k][m] \in 0..2
  BY <1>1, <1>6
<1>8. \A k \in Invoices : \A m \in 1..Len(Policy) :
        done'[k][m] = IF k = i /\ m = n THEN (IF done[i][n] = 0 THEN 1 ELSE 2) ELSE done[k][m]
  BY <1>1, <1>3
<1> QED
  BY <1>6, <1>7, <1>8

LEMMA RemindKeeps ==
    ASSUME IInv, NEW p \in Procs, Remind(p) \/ Escalate(p)
    PROVE  IInv'
<1> DEFINE i == proc[p].id
           n == proc[p].step + 1
           r == [proc[p] EXCEPT !.pc = "advance"]
<1>1. /\ proc[p] \in Process /\ i \in Invoices /\ n \in 1..Len(Policy)
      /\ CopyOK(i, proc[p].step) /\ \A c \in proc[p].page : CopyOK(c.id, c.step)
  <2>1. proc[p] \in Process /\ proc[p].pc \in {"remind", "escalate"} /\ ProcOK(p)
    BY DEF Remind, Escalate, At, IInv, TypeOK
  <2>2. i \in Invoices /\ CopyOK(i, proc[p].step) /\ \A c \in proc[p].page : CopyOK(c.id, c.step)
    BY <2>1 DEF ProcOK, Chasing
  <2> QED
    BY <2>1, <2>2, PolicyFacts DEF CopyOK, Process, Position
<1>2. Performed(i, n) /\ UNCHANGED <<inv, books, old>> /\ Become(p, r)
  BY DEF Remind, Escalate, Goto
<1>3. sub' \in [status: SubscriptionStatus, cause: Cause]
  <2>1. "PAST_DUE" \in SubscriptionStatus /\ "payment_failed" \in Cause
    BY DEF SubscriptionStatus, Cause, DunningCause
  <2>2. sub \in [status: SubscriptionStatus, cause: Cause]
    BY DEF IInv, TypeOK
  <2> QED
    BY <2>1, <2>2, SubTransitionTyped DEF Remind, Escalate, IInv
<1>4. /\ done' \in [Invoices -> [1..Len(Policy) -> 0..2]] /\ done'[i][n] >= 1
      /\ \A k \in Invoices : \A m \in 1..Len(Policy) :
            done[k][m] \in 0..2 /\ done'[k][m] \in 0..2 /\ done'[k][m] >= done[k][m]
  BY <1>1, <1>2, PerformedKeeps
<1>5. r \in Process /\ r.pc = "advance" /\ r.id = i /\ r.step = proc[p].step /\ r.page = proc[p].page
  BY <1>1 DEF Process, Steps
<1> HIDE DEF r
<1>6. TypeOK' /\ proc'[p] = r /\ \A q \in Procs : q # p => proc'[q] = proc[q]
  BY <1>2, <1>3, <1>4, <1>5, Becomes DEF IInv, TypeOK, Become
<1>7. \A k \in Invoices : inv[k].step \in Nat /\ inv[k].step <= Len(Policy)
  BY PolicyFacts DEF IInv, TypeOK, Row, Position
<1>8. Grows
  BY <1>2, <1>4, <1>7 DEF Grows
<1>9. RowsOK'
  BY <1>2 DEF IInv, RowsOK
<1>10. NoStepSkipped' /\ WrittenOffAfterChase'
  <2>1. \A k \in Invoices : \A m \in 1..Len(Policy) : done[k][m] >= 1 => done'[k][m] >= 1
    BY <1>4
  <2>2. \A k \in Invoices : \A m \in 1..inv[k].step : m \in 1..Len(Policy)
    BY <1>7, PolicyFacts
  <2> QED
    BY <1>2, <2>1, <2>2 DEF IInv, NoStepSkipped, WrittenOffAfterChase
<1>11. ProcOK(p)'
  <2>1. \A k, m : CopyOK(k, m) => CopyOK(k, m)'
    BY <1>2 DEF CopyOK
  <2> QED
    BY <1>1, <1>4, <1>5, <1>6, <2>1 DEF ProcOK, Chasing, Paying
<1> QED
  BY <1>6, <1>8, <1>9, <1>10, <1>11, Assembled
LEMMA AbandonKeeps ==
    ASSUME IInv, NEW p \in Procs, Abandon(p)
    PROVE  IInv'
<1> DEFINE r == [proc[p] EXCEPT !.pc = "uncollectible"]
<1>1. proc[p] \in Process /\ proc[p].pc = "abandon" /\ ProcOK(p)
  BY DEF Abandon, At, IInv, TypeOK
<1>2. UNCHANGED <<inv, books, old, done>> /\ Become(p, r)
  BY DEF Abandon, Goto
<1>3. sub' \in [status: SubscriptionStatus, cause: Cause]
  <2> DEFINE cause == IF sub.status = "INCOMPLETE" THEN "activation_expired" ELSE "dunning_exhausted"
  <2>1. "CANCELED" \in SubscriptionStatus /\ cause \in Cause
    BY DEF SubscriptionStatus, Cause, DunningCause
  <2>2. SubTransition("CANCELED", cause)
    BY DEF Abandon
  <2> QED
    BY <2>1, <2>2, SubTransitionTyped DEF IInv
<1>4. /\ r \in Process /\ r.pc = "uncollectible" /\ r.id = proc[p].id
      /\ r.step = proc[p].step /\ r.page = proc[p].page
  BY <1>1 DEF Process, Steps
<1> HIDE DEF r
<1>5. proc'[p] = r
  BY <1>2, Becomes DEF IInv
<1>6. \A k, m : CopyOK(k, m) => CopyOK(k, m)'
  BY <1>2 DEF CopyOK
<1>7. ProcOK(p)'
  BY <1>1, <1>4, <1>5, <1>6 DEF ProcOK, Chasing, Paying
<1> QED
  BY <1>2, <1>3, <1>4, <1>7, ProcessMoves

(* Only the last step gives up, so every earlier one lies behind.          *)
LEMMA UncollectibleKeeps ==
    ASSUME IInv, NEW p \in Procs, Uncollectible(p)
    PROVE  IInv'
<1> DEFINE i == proc[p].id
           n == proc[p].step + 1
           r == [proc[p] EXCEPT !.pc = "advance"]
<1>1. /\ proc[p] \in Process /\ i \in Invoices /\ n \in 1..Len(Policy)
      /\ CopyOK(i, proc[p].step) /\ Policy[n] = "abandon"
      /\ \A c \in proc[p].page : CopyOK(c.id, c.step)
  <2>1. proc[p] \in Process /\ proc[p].pc = "uncollectible" /\ ProcOK(p)
    BY DEF Uncollectible, At, IInv, TypeOK
  <2>2. /\ i \in Invoices /\ CopyOK(i, proc[p].step) /\ Policy[n] = "abandon"
        /\ \A c \in proc[p].page : CopyOK(c.id, c.step)
    BY <2>1 DEF ProcOK, Chasing
  <2> QED
    BY <2>1, <2>2, PolicyFacts DEF CopyOK, Process, Position
<1>2. CASE inv[i].status = "OPEN"
  <2>1. /\ Performed(i, n) /\ UNCHANGED <<sub, books, old>> /\ Become(p, r)
        /\ inv' = [inv EXCEPT ![i].status = "UNCOLLECTIBLE", ![i].queue = "none"]
    BY <1>2 DEF Uncollectible, Goto
  <2>2. inv \in [Invoices -> Row]
    BY DEF IInv, TypeOK
  <2>3. /\ inv' \in [Invoices -> Row]
        /\ inv'[i].status = "UNCOLLECTIBLE" /\ inv'[i].queue = "none"
        /\ inv'[i].step = inv[i].step
        /\ \A k \in Invoices : k # i => inv'[k] = inv[k]
    BY <1>1, <2>1, <2>2 DEF Row, InvoiceStatus, Queue
  <2>4. /\ done' \in [Invoices -> [1..Len(Policy) -> 0..2]] /\ done'[i][n] >= 1
        /\ \A k \in Invoices : \A m \in 1..Len(Policy) :
              done[k][m] \in 0..2 /\ done'[k][m] \in 0..2 /\ done'[k][m] >= done[k][m]
    BY <1>1, <2>1, PerformedKeeps
  <2>5. /\ r \in Process /\ r.pc = "advance" /\ r.id = i /\ r.step = proc[p].step
        /\ r.page = proc[p].page
    BY <1>1 DEF Process, Steps
  <2> HIDE DEF r
  <2>6. TypeOK' /\ proc'[p] = r /\ \A q \in Procs : q # p => proc'[q] = proc[q]
    BY <2>1, <2>3, <2>4, <2>5, Becomes DEF IInv, TypeOK, Become
  <2>7. \A k \in Invoices : /\ inv[k].step \in Nat /\ inv[k].step <= Len(Policy)
                            /\ inv'[k].step = inv[k].step
    BY <2>2, <2>3, PolicyFacts DEF Row, Position
  <2>8. Grows
    <3>1. UNCHANGED <<old, books>>
      BY <2>1
    <3>2. \A k \in Invoices : inv'[k].step >= inv[k].step
      BY <2>7
    <3>3. \A k \in Invoices : /\ inv[k].status # "DRAFT" => inv'[k].status # "DRAFT"
                              /\ inv[k].status = "PAID" => inv'[k].status = "PAID"
      BY <1>2, <2>3
    <3>4. \A k \in Invoices : \A m \in 1..Len(Policy) : done'[k][m] >= done[k][m]
      BY <2>4
    <3> QED
      BY <3>1, <3>2, <3>3, <3>4 DEF Grows
  <2>9. RowsOK'
    BY <2>3, <2>7 DEF IInv, RowsOK
  <2>10. \A k \in Invoices : \A m \in 1..Len(Policy) : done[k][m] >= 1 => done'[k][m] >= 1
    BY <2>4
  <2>11. NoStepSkipped'
    <3>1. \A k \in Invoices : \A m \in 1..inv[k].step : m \in 1..Len(Policy)
      BY <2>7, PolicyFacts
    <3> QED
      BY <2>7, <2>10, <3>1 DEF IInv, NoStepSkipped
  <2>12. WrittenOffAfterChase'
    <3>1. n = Len(Policy)
      BY <1>1, DunningAssumption
    <3>2. \A m \in 1..Len(Policy) : Policy[m] # "abandon" => m \in 1..inv[i].step
      <4> SUFFICES ASSUME NEW m \in 1..Len(Policy), Policy[m] # "abandon"
                   PROVE  m \in 1..inv[i].step
        OBVIOUS
      <4>1. m # n
        BY <1>1
      <4>2. proc[p].step \in Nat /\ proc[p].step <= inv[i].step /\ inv[i].step \in Nat
        BY <1>1, <2>7, PolicyFacts DEF CopyOK, Process, Position
      <4> QED
        BY <3>1, <4>1, <4>2, PolicyFacts
    <3>3. \A m \in 1..Len(Policy) : Policy[m] # "abandon" => done'[i][m] >= 1
      BY <1>1, <2>10, <3>2 DEF IInv, NoStepSkipped
    <3> QED
      BY <2>3, <2>10, <3>3 DEF IInv, WrittenOffAfterChase
  <2>13. ProcOK(p)'
    <3>1. \A k \in Invoices, m \in Position : CopyOK(k, m) => CopyOK(k, m)'
      BY <2>6, <2>8, CopyStays DEF IInv
    <3>2. proc[p].step \in Position /\ \A c \in proc[p].page : c.id \in Invoices /\ c.step \in Position
      BY <1>1 DEF Process, Copy
    <3> QED
      BY <1>1, <2>4, <2>5, <2>6, <3>1, <3>2 DEF ProcOK, Chasing, Paying
  <2> QED
    BY <2>6, <2>8, <2>9, <2>11, <2>12, <2>13, Assembled
<1>3. CASE inv[i].status # "OPEN"
  <2>1. Proceed(p) /\ UNCHANGED <<inv, done, sub, books, old>>
    BY <1>3 DEF Uncollectible
  <2>2. TypeOK'
    BY <2>1, ProceedIsOK DEF IInv, TypeOK
  <2>3. Grows /\ RowsOK' /\ NoStepSkipped' /\ WrittenOffAfterChase'
    BY <2>1, RowsStay
  <2> QED
    BY <2>1, <2>2, <2>3, ProceedIsOK, Assembled
<1> QED
  BY <1>2, <1>3

LEMMA AdvanceDunningKeeps ==
    ASSUME IInv, NEW p \in Procs, AdvanceDunning(p)
    PROVE  IInv'
<1> DEFINE i == proc[p].id
           n == proc[p].step + 1
<1>1. /\ i \in Invoices /\ n \in 1..Len(Policy) /\ CopyOK(i, proc[p].step)
      /\ done[i][n] >= 1 /\ proc[p].step \in Position
  <2>1. proc[p] \in Process /\ proc[p].pc = "advance" /\ ProcOK(p)
    BY DEF AdvanceDunning, At, IInv, TypeOK
  <2>2. i \in Invoices /\ CopyOK(i, proc[p].step) /\ done[i][n] >= 1
    BY <2>1 DEF ProcOK, Chasing
  <2> QED
    BY <2>1, <2>2, PolicyFacts DEF CopyOK, Process, Position
<1>2. Proceed(p) /\ UNCHANGED <<sub, books, old, done>>
  BY DEF AdvanceDunning
<1>3. inv \in [Invoices -> Row]
  BY DEF IInv, TypeOK
<1>4. CASE inv[i].step = proc[p].step
  <2>1. inv' = [inv EXCEPT ![i] = Advanced(inv[i], n)]
    BY <1>4 DEF AdvanceDunning
  <2>2. /\ inv' \in [Invoices -> Row]
        /\ inv'[i].step = n /\ inv'[i].status = inv[i].status
        /\ inv'[i].queue = IF n < Len(Policy) THEN "dunning" ELSE "none"
        /\ \A k \in Invoices : k # i => inv'[k] = inv[k]
    <3> DEFINE row == Advanced(inv[i], n)
    <3>1. n \in Position /\ inv[i] \in Row
      BY <1>1, <1>3, PolicyFacts DEF Position
    <3>2. /\ row \in Row /\ row.step = n /\ row.status = inv[i].status
          /\ row.queue = IF n < Len(Policy) THEN "dunning" ELSE "none"
      BY <3>1 DEF Row, Advanced, Queue
    <3> HIDE DEF row, n
    <3> QED
      BY <1>1, <1>3, <2>1, <3>2 DEF row
  <2>3. TypeOK'
    BY <1>2, <2>2, ProceedIsOK DEF IInv, TypeOK
  <2>4. \A k \in Invoices : inv[k].step \in Nat /\ inv[k].step <= Len(Policy)
    BY <1>3, PolicyFacts DEF Row, Position
  <2>5. \A k \in Invoices : \A m \in 1..Len(Policy) : done[k][m] \in 0..2
    BY DEF IInv, TypeOK
  <2>6. Grows
    BY <1>2, <1>4, <2>2, <2>4, <2>5 DEF Grows
  <2>7. RowsOK'
    BY <1>1, <2>2, PolicyFacts DEF IInv, RowsOK, CopyOK
  <2>8. NoStepSkipped'
    <3>1. \A m \in 1..n : done[i][m] >= 1
      <4> SUFFICES ASSUME NEW m \in 1..n PROVE done[i][m] >= 1
        OBVIOUS
      <4>1. m = n \/ m \in 1..inv[i].step
        BY <1>1, <1>4, <2>4
      <4> QED
        BY <1>1, <4>1 DEF IInv, NoStepSkipped
    <3> QED
      BY <1>2, <2>2, <3>1 DEF IInv, NoStepSkipped
  <2>9. WrittenOffAfterChase'
    BY <1>2, <2>2 DEF IInv, WrittenOffAfterChase
  <2> QED
    BY <1>2, <2>3, <2>6, <2>7, <2>8, <2>9, ProceedIsOK, Assembled
<1>5. CASE inv[i].step # proc[p].step
  <2>1. UNCHANGED <<inv, done, sub, books, old>>
    BY <1>2, <1>5 DEF AdvanceDunning
  <2>2. TypeOK'
    BY <1>2, <2>1, ProceedIsOK DEF IInv, TypeOK
  <2>3. Grows /\ RowsOK' /\ NoStepSkipped' /\ WrittenOffAfterChase'
    BY <2>1, RowsStay
  <2> QED
    BY <1>2, <2>2, <2>3, ProceedIsOK, Assembled
<1> QED
  BY <1>4, <1>5
----------------------------------------------------------------------------
(* Settlements and postings.                                               *)
LEMMA SettleInvoiceKeeps ==
    ASSUME IInv, NEW p \in Procs, NEW i \in Invoices, SettleInvoice(p, i)
    PROVE  IInv'
<1> DEFINE r == [Idle EXCEPT !.pc = "activate", !.id = i]
<1>1. inv \in [Invoices -> Row] /\ Become(p, r) /\ UNCHANGED <<sub, books, old, done>>
  BY DEF IInv, TypeOK, SettleInvoice
<1>2. r \in Process /\ r.pc = "activate" /\ r.id = i /\ r.page = {}
  BY IdleIsProcess DEF Idle, Process, Steps
<1> HIDE DEF r
<1>3. /\ inv' \in [Invoices -> Row] /\ inv'[i].status = "PAID"
      /\ inv'[i].step = inv[i].step
      /\ inv'[i].queue # "dunning" \/ inv'[i] = inv[i]
      /\ \A k \in Invoices : k # i => inv'[k] = inv[k]
  BY <1>1 DEF SettleInvoice, Row, InvoiceStatus, Queue
<1>4. inv'[i].status = "PAID" /\ \A k \in Invoices : inv'[k].step = inv[k].step
  BY <1>1, <1>3 DEF SettleInvoice, Row
<1>5. TypeOK' /\ proc'[p] = r /\ \A q \in Procs : q # p => proc'[q] = proc[q]
  BY <1>1, <1>2, <1>3, Becomes DEF IInv, TypeOK, Become
<1>6. \A k \in Invoices : inv[k].step \in Nat
  BY <1>1, PolicyFacts DEF Row, Position
<1>7. \A k \in Invoices : \A m \in 1..Len(Policy) : done[k][m] \in 0..2
  BY DEF IInv, TypeOK
<1>8. Grows
  BY <1>1, <1>3, <1>4, <1>6, <1>7 DEF Grows
<1>9. RowsOK'
  BY <1>3, <1>4 DEF IInv, RowsOK
<1>10. NoStepSkipped' /\ WrittenOffAfterChase'
  BY <1>1, <1>3, <1>4 DEF IInv, NoStepSkipped, WrittenOffAfterChase
<1>11. ProcOK(p)'
  BY <1>2, <1>4, <1>5 DEF ProcOK, Chasing, Paying
<1> QED
  BY <1>5, <1>8, <1>9, <1>10, <1>11, Assembled

LEMMA ActivateKeeps ==
    ASSUME IInv, NEW p \in Procs, ActivateSubscription(p)
    PROVE  IInv'
<1> DEFINE r == [proc[p] EXCEPT !.pc = "issuer"]
<1>1. proc[p] \in Process /\ proc[p].pc = "activate" /\ ProcOK(p)
  BY DEF ActivateSubscription, At, IInv, TypeOK
<1>2. UNCHANGED <<inv, books, old, done>> /\ Become(p, r)
  BY DEF ActivateSubscription, Goto
<1>3. sub' \in [status: SubscriptionStatus, cause: Cause]
  <2>1. "ACTIVE" \in SubscriptionStatus /\ "invoice_paid" \in Cause
    BY DEF SubscriptionStatus, Cause
  <2>2. sub \in [status: SubscriptionStatus, cause: Cause]
    BY DEF IInv, TypeOK
  <2> QED
    BY <2>1, <2>2, SubTransitionTyped DEF ActivateSubscription, IInv
<1>4. r \in Process /\ r.pc = "issuer" /\ r.id = proc[p].id /\ r.page = proc[p].page
  BY <1>1 DEF Process, Steps
<1> HIDE DEF r
<1>5. proc'[p] = r
  BY <1>2, Becomes DEF IInv
<1>6. \A k, m : CopyOK(k, m) => CopyOK(k, m)'
  BY <1>2 DEF CopyOK
<1>7. ProcOK(p)'
  BY <1>1, <1>2, <1>4, <1>5, <1>6 DEF ProcOK, Chasing, Paying
<1> QED
  BY <1>2, <1>3, <1>4, <1>7, ProcessMoves

LEMMA ReplayKeeps ==
    ASSUME IInv, NEW p \in Procs, NEW i \in Invoices, Replay(p, i)
    PROVE  IInv'
<1> DEFINE r == [Idle EXCEPT !.id = i, !.pc = IF i \in old THEN "posted" ELSE "issuer"]
<1>1. UNCHANGED <<inv, sub, books, old, done>> /\ Become(p, r) /\ inv[i].status = "PAID"
  BY DEF Replay, IInv, RowsOK
<1>2. /\ r \in Process /\ r.id = i /\ r.page = {}
      /\ r.pc = IF i \in old THEN "posted" ELSE "issuer"
  BY IdleIsProcess DEF Idle, Process, Steps
<1> HIDE DEF r
<1>3. proc'[p] = r
  BY <1>1, Becomes DEF IInv
<1>4. ProcOK(p)'
  BY <1>1, <1>2, <1>3 DEF ProcOK, Chasing, Paying
<1>5. sub' \in [status: SubscriptionStatus, cause: Cause]
  BY <1>1 DEF IInv, TypeOK
<1> QED
  BY <1>1, <1>2, <1>4, <1>5, ProcessMoves

(* Where a posting goes on: its record is a process, and says nothing new. *)
LEMMA OnwardIs ==
    ASSUME IInv, NEW p \in Procs, NEW side \in Sides, NEW ok \in BOOLEAN,
           At(p, side), Onward(p, side, ok)
    PROVE  /\ proc' \in [Procs -> Process]
           /\ \A q \in Procs : q # p => proc'[q] = proc[q]
           /\ \/ proc'[p] = Idle
              \/ /\ proc'[p].id = proc[p].id /\ proc'[p].page = proc[p].page
                 /\ \/ side = "issuer" /\ proc'[p].pc = "payer" /\ proc'[p].ok = ok
                    \/ side = "payer" /\ proc'[p].pc = "posted" /\ ok
           /\ ~ok => proc'[p].pc # "posted"
<1>0. proc \in [Procs -> Process] /\ proc[p] \in Process
  BY DEF IInv, TypeOK
<1>1. CASE side = "issuer"
  <2> DEFINE r == [proc[p] EXCEPT !.pc = "payer", !.ok = ok]
  <2>1. r \in Process /\ r.pc = "payer" /\ r.ok = ok /\ r.id = proc[p].id /\ r.page = proc[p].page
    BY <1>0 DEF Process, Steps
  <2>2. Become(p, r)
    BY <1>1 DEF Onward
  <2> HIDE DEF r
  <2>3. proc'[p] = r /\ \A q \in Procs : q # p => proc'[q] = proc[q]
    BY <2>2, Becomes DEF IInv
  <2> QED
    BY <1>0, <1>1, <2>1, <2>2, <2>3 DEF Become
<1>2. CASE side = "payer" /\ ok
  <2> DEFINE r == [proc[p] EXCEPT !.pc = "posted"]
  <2>1. r \in Process /\ r.pc = "posted" /\ r.id = proc[p].id /\ r.page = proc[p].page
    BY <1>0 DEF Process, Steps
  <2>2. Become(p, r)
    BY <1>2 DEF Onward
  <2> HIDE DEF r
  <2>3. proc'[p] = r /\ \A q \in Procs : q # p => proc'[q] = proc[q]
    BY <2>2, Becomes DEF IInv
  <2> QED
    BY <1>0, <1>2, <2>1, <2>2, <2>3 DEF Become
<1>3. CASE side = "payer" /\ ~ok
  <2>1. Become(p, Idle)
    BY <1>3 DEF Onward
  <2>2. proc'[p] = Idle /\ \A q \in Procs : q # p => proc'[q] = proc[q]
    BY <2>1, Becomes DEF IInv
  <2> QED
    BY <1>0, <2>1, <2>2, IdleIsProcess DEF Become, Idle
<1> QED
  BY <1>1, <1>2, <1>3 DEF Sides

LEMMA RecordKeeps ==
    ASSUME IInv, NEW p \in Procs, NEW side \in Sides,
           RecordInvoice(p, side) \/ RecordFails(p, side)
    PROVE  IInv'
<1> DEFINE i == proc[p].id
<1>1. /\ proc[p] \in Process /\ i \in Invoices /\ inv[i].status = "PAID" /\ ProcOK(p)
      /\ proc[p].pc = side /\ At(p, side)
  <2>1. proc[p] \in Process /\ proc[p].pc = side /\ ProcOK(p) /\ At(p, side)
    BY DEF RecordInvoice, RecordFails, At, IInv, TypeOK
  <2> QED
    BY <2>1 DEF ProcOK, Paying, Sides
<1>2. UNCHANGED <<inv, sub, old, done>>
  BY DEF RecordInvoice, RecordFails
<1>3. books \in [Invoices -> SUBSET Sides]
  BY DEF IInv, TypeOK
<1>4. /\ books' \in [Invoices -> SUBSET Sides]
      /\ \A k \in Invoices : books[k] \subseteq books'[k]
  <2>1. CASE RecordFails(p, side)
    BY <1>3, <2>1 DEF RecordFails
  <2>2. CASE RecordInvoice(p, side)
    <3>1. books' = [books EXCEPT ![i] = books[i] \cup {side}]
      BY <2>2 DEF RecordInvoice
    <3>2. books[i] \cup {side} \in SUBSET Sides
      BY <1>1, <1>3
    <3> QED
      BY <1>1, <1>3, <3>1, <3>2
  <2> QED
    BY <2>1, <2>2
<1>5. PICK ok \in BOOLEAN :
        /\ Onward(p, side, ok)
        /\ ok => books'[i] = books[i] \cup {side} /\ proc[p].ok
  <2>1. CASE RecordInvoice(p, side)
    <3>1. proc[p].ok \in BOOLEAN /\ Onward(p, side, proc[p].ok) /\ books'[i] = books[i] \cup {side}
      BY <1>1, <1>3, <2>1 DEF RecordInvoice, Process
    <3> QED
      BY <3>1
  <2>2. CASE RecordFails(p, side)
    BY <2>2 DEF RecordFails
  <2> QED
    BY <2>1, <2>2
<1>6. /\ proc' \in [Procs -> Process]
      /\ \A q \in Procs : q # p => proc'[q] = proc[q]
      /\ \/ proc'[p] = Idle
         \/ /\ proc'[p].id = i /\ proc'[p].page = proc[p].page
            /\ \/ side = "issuer" /\ proc'[p].pc = "payer" /\ proc'[p].ok = ok
               \/ side = "payer" /\ proc'[p].pc = "posted" /\ ok
  BY <1>1, <1>5, OnwardIs
<1>7. TypeOK'
  BY <1>2, <1>4, <1>6 DEF IInv, TypeOK
<1>8. Grows
  <2>1. \A k \in Invoices : inv[k].step \in Nat
    BY PolicyFacts DEF IInv, TypeOK, Row, Position
  <2>2. \A k \in Invoices : \A m \in 1..Len(Policy) : done[k][m] \in 0..2
    BY DEF IInv, TypeOK
  <2> QED
    BY <1>2, <1>4, <2>1, <2>2 DEF Grows
<1>9. RowsOK' /\ NoStepSkipped' /\ WrittenOffAfterChase'
  BY <1>2 DEF IInv, RowsOK, NoStepSkipped, WrittenOffAfterChase
<1>10. ProcOK(p)'
  <2>1. CASE proc'[p] = Idle
    BY <2>1 DEF ProcOK, Idle, Chasing, Paying
  <2>2. \A k, m : CopyOK(k, m) => CopyOK(k, m)'
    BY <1>2 DEF CopyOK
  <2>3. CASE proc'[p].id = i /\ proc'[p].page = proc[p].page /\ side = "issuer"
             /\ proc'[p].pc = "payer" /\ proc'[p].ok = ok
    BY <1>1, <1>2, <1>5, <2>2, <2>3 DEF ProcOK, Chasing, Paying
  <2>4. CASE proc'[p].id = i /\ proc'[p].page = proc[p].page /\ side = "payer"
             /\ proc'[p].pc = "posted" /\ ok
    <3>1. "issuer" \in books[i] /\ books'[i] = books[i] \cup {"payer"}
      BY <1>1, <1>5, <2>4 DEF ProcOK
    <3>2. books'[i] = Sides
      BY <1>1, <1>4, <3>1 DEF Sides
    <3> QED
      BY <1>1, <1>2, <2>2, <2>4, <3>2 DEF ProcOK, Chasing, Paying
  <2> QED
    BY <1>6, <2>1, <2>3, <2>4
<1> QED
  BY <1>6, <1>7, <1>8, <1>9, <1>10, Assembled

LEMMA FinancePostedKeeps ==
    ASSUME IInv, NEW p \in Procs, FinancePosted(p)
    PROVE  IInv'
<1> DEFINE i == proc[p].id
<1>1. i \in Invoices /\ inv \in [Invoices -> Row]
  BY DEF FinancePosted, At, IInv, ProcOK, Paying, TypeOK
<1>2. UNCHANGED <<sub, books, old, done>> /\ End(p)
  BY DEF FinancePosted
<1>3. /\ inv' \in [Invoices -> Row]
      /\ inv'[i].queue = inv[i].queue \/ inv'[i].queue = "none"
      /\ \A k \in Invoices : inv'[k].status = inv[k].status /\ inv'[k].step = inv[k].step
      /\ \A k \in Invoices : k # i => inv'[k] = inv[k]
  BY <1>1 DEF FinancePosted, Row, Queue
<1>4. TypeOK'
  BY <1>2, <1>3, IdleIsProcess DEF IInv, TypeOK, End, Become
<1>5. \A q \in Procs : q # p => proc'[q] = proc[q]
  BY <1>2, Becomes DEF End, IInv
<1>6. Grows
  <2>1. \A k \in Invoices : inv[k].step \in Nat
    BY <1>1, PolicyFacts DEF Row, Position
  <2>2. \A k \in Invoices : \A m \in 1..Len(Policy) : done[k][m] \in 0..2
    BY DEF IInv, TypeOK
  <2> QED
    BY <1>2, <1>3, <2>1, <2>2 DEF Grows
<1>7. RowsOK'
  BY <1>3 DEF IInv, RowsOK
<1>8. NoStepSkipped' /\ WrittenOffAfterChase'
  BY <1>2, <1>3 DEF IInv, NoStepSkipped, WrittenOffAfterChase
<1> QED
  BY <1>2, <1>4, <1>5, <1>6, <1>7, <1>8, EndIsOK, Assembled DEF IInv

LEMMA FailKeeps ==
    ASSUME IInv, NEW p \in Procs, Fail(p)
    PROVE  IInv'
<1>1. UNCHANGED <<inv, sub, books, old, done>> /\ (End(p) \/ Proceed(p))
  BY DEF Fail
<1>2. Grows /\ RowsOK' /\ NoStepSkipped' /\ WrittenOffAfterChase'
  BY <1>1, RowsStay
<1>3. CASE End(p)
  <2>1. sub' \in [status: SubscriptionStatus, cause: Cause]
    BY <1>1 DEF IInv, TypeOK
  <2> QED
    BY <1>1, <1>3, <2>1, EndIsOK, IdleIsProcess, ProcessMoves DEF IInv
<1>4. CASE Proceed(p)
  <2>1. TypeOK'
    BY <1>1, <1>4, ProceedIsOK DEF IInv, TypeOK
  <2> QED
    BY <1>2, <1>4, <2>1, ProceedIsOK, Assembled
<1> QED
  BY <1>1, <1>3, <1>4
----------------------------------------------------------------------------
LEMMA StutterKeeps == IInv /\ UNCHANGED vars => IInv'
<1> SUFFICES ASSUME IInv, UNCHANGED vars PROVE IInv'
  OBVIOUS
<1>1. UNCHANGED <<inv, books, old, done>> /\ UNCHANGED sub /\ UNCHANGED proc
  BY DEF vars
<1>2. TypeOK'
  BY <1>1 DEF IInv, TypeOK
<1>3. \A p \in Procs : ProcOK(p)'
  BY <1>1, <1>2, RowsStay, Untouched DEF IInv
<1> QED
  BY <1>1, <1>2, <1>3, RowsStay DEF IInv

(* Who a step is taken by.                                                 *)
LEMMA WhoSteps ==
    ASSUME Next
    PROVE  \/ \E i \in Invoices : Finalize(i) \/ VoidInvoice(i) \/ WindowCloses(i)
           \/ Cancel
           \/ \E p \in Dunners : DueForDunning(p) \/ Step(p) \/ Remind(p) \/ Escalate(p)
                                 \/ Abandon(p) \/ Uncollectible(p) \/ AdvanceDunning(p)
           \/ \E p \in Procs \ Dunners :
                \/ \E i \in Invoices : SettleInvoice(p, i) \/ Replay(p, i)
                \/ ActivateSubscription(p)
                \/ \E side \in Sides : RecordInvoice(p, side) \/ RecordFails(p, side)
                \/ FinancePosted(p)
           \/ \E p \in Procs : Fail(p)
<1>1. \A p \in Settlers \cup Replayers : p \in Procs \ Dunners
  BY DunningAssumption DEF Procs
<1>2. CASE \E p \in Settlers : (\E i \in Invoices : SettleInvoice(p, i)) \/ ActivateSubscription(p)
  BY <1>1, <1>2
<1>3. CASE \E p \in Replayers, i \in Invoices : Replay(p, i)
  BY <1>1, <1>3
<1>4. CASE \E p \in Settlers \cup Replayers : Poster(p)
  BY <1>1, <1>4 DEF Poster
<1>5. CASE \E p \in Dunners : Dunner(p)
  BY <1>5 DEF Dunner
<1> QED
  BY <1>2, <1>3, <1>4, <1>5 DEF Next

LEMMA NextInv == IInv /\ [Next]_vars => IInv'
<1> SUFFICES ASSUME IInv, [Next]_vars PROVE IInv'
  OBVIOUS
<1>1. CASE UNCHANGED vars
  BY <1>1, StutterKeeps
<1>2. CASE \E i \in Invoices : Finalize(i) \/ VoidInvoice(i) \/ WindowCloses(i)
  BY <1>2, RowSteps
<1>3. CASE Cancel
  <2>1. UNCHANGED <<inv, books, old, done, proc>>
    BY <1>3 DEF Cancel
  <2>2. TypeOK'
    BY <1>3, <2>1, SubTransitionTyped
       DEF Cancel, IInv, TypeOK, SubscriptionStatus, Cause
  <2>3. \A p \in Procs : ProcOK(p)'
    BY <2>1, <2>2, RowsStay, Untouched DEF IInv
  <2> QED
    BY <2>1, <2>2, <2>3, RowsStay DEF IInv
<1>4. ASSUME NEW p \in Dunners,
             \/ DueForDunning(p) \/ Step(p) \/ Remind(p) \/ Escalate(p)
             \/ Abandon(p) \/ Uncollectible(p) \/ AdvanceDunning(p)
      PROVE  IInv'
  <2>1. p \in Procs
    BY DEF Procs
  <2> QED
    BY <1>4, <2>1, DueForDunningKeeps, StepKeeps, RemindKeeps, AbandonKeeps,
       UncollectibleKeeps, AdvanceDunningKeeps
<1>5. ASSUME NEW p \in Procs \ Dunners,
             \/ \E i \in Invoices : SettleInvoice(p, i) \/ Replay(p, i)
             \/ ActivateSubscription(p)
             \/ \E side \in Sides : RecordInvoice(p, side) \/ RecordFails(p, side)
             \/ FinancePosted(p)
      PROVE  IInv'
  BY <1>5, SettleInvoiceKeeps, ReplayKeeps, ActivateKeeps, RecordKeeps, FinancePostedKeeps
<1>6. CASE \E p \in Procs : Fail(p)
  BY <1>6, FailKeeps
<1> QED
  BY <1>1, <1>2, <1>3, <1>4, <1>5, <1>6, WhoSteps

LEMMA Invariance == Spec => []IInv
<1> QED
  BY InitInv, NextInv, PTL DEF Spec

(* The rows, the books and what every job carries keep their types.        *)
THEOREM TypeCorrect == Spec => []TypeOK
<1>1. IInv => TypeOK
  BY DEF IInv
<1> QED
  BY <1>1, Invariance, PTL

(* However many runs of the dunning job overlap, fail and work on stale    *)
(* pages, the position of an invoice never passes a step not performed.    *)
THEOREM Ladder == Spec => []NoStepSkipped
<1>1. IInv => NoStepSkipped
  BY DEF IInv
<1> QED
  BY <1>1, Invariance, PTL

(* No invoice is written off before every other step of its policy.        *)
THEOREM Chased == Spec => []WrittenOffAfterChase
<1>1. IInv => WrittenOffAfterChase
  BY DEF IInv
<1> QED
  BY <1>1, Invariance, PTL

----------------------------------------------------------------------------
(* Writes over rows read long before never reopen what has ended.          *)
RowsEnd == \A i \in Invoices : inv[i].status \in {"PAID", "VOID"} => inv'[i].status = inv[i].status
SubEnds == sub.status = "CANCELED" => sub' = sub

LEMMA SubTransitionEnds ==
    ASSUME NEW to, NEW cause, SubTransition(to, cause)
    PROVE  SubEnds
BY DEF SubTransition, SubscriptionTransitions, SubEnds

LEMMA StepEnds ==
    ASSUME IInv, [Next]_vars
    PROVE  RowsEnd /\ SubEnds
<1>0. inv \in [Invoices -> Row]
  BY DEF IInv, TypeOK
<1>1. CASE UNCHANGED vars
  BY <1>1 DEF vars, RowsEnd, SubEnds
<1>2. ASSUME NEW i \in Invoices, Finalize(i) \/ VoidInvoice(i) \/ WindowCloses(i)
      PROVE  RowsEnd /\ SubEnds
  BY <1>0, <1>2 DEF Finalize, VoidInvoice, WindowCloses, RowsEnd, SubEnds, Row
<1>3. CASE Cancel
  BY <1>3, SubTransitionEnds DEF Cancel, RowsEnd
<1>4. ASSUME NEW p \in Dunners,
             \/ DueForDunning(p) \/ Step(p) \/ Remind(p) \/ Escalate(p)
             \/ Abandon(p) \/ Uncollectible(p) \/ AdvanceDunning(p)
      PROVE  RowsEnd /\ SubEnds
  <2>1. CASE DueForDunning(p) \/ Step(p) \/ Remind(p)
    BY <2>1 DEF DueForDunning, Step, Remind, RowsEnd, SubEnds
  <2>2. CASE Escalate(p) \/ Abandon(p)
    BY <2>2, SubTransitionEnds DEF Escalate, Abandon, RowsEnd
  <2>3. CASE Uncollectible(p)
    <3>1. proc[p].id \in Invoices
      BY <2>3 DEF Uncollectible, At, IInv, ProcOK, Chasing, Procs
    <3> QED
      BY <1>0, <2>3, <3>1 DEF Uncollectible, RowsEnd, SubEnds, Row
  <2>4. CASE AdvanceDunning(p)
    <3>1. proc[p].id \in Invoices
      BY <2>4 DEF AdvanceDunning, At, IInv, ProcOK, Chasing, Procs
    <3>2. \A i \in Invoices : \A n : Advanced(inv[i], n).status = inv[i].status
      BY <1>0 DEF Advanced, Row
    <3> QED
      BY <1>0, <2>4, <3>1, <3>2 DEF AdvanceDunning, RowsEnd, SubEnds
  <2> QED
    BY <1>4, <2>1, <2>2, <2>3, <2>4
<1>5. ASSUME NEW p \in Procs \ Dunners,
             \/ \E i \in Invoices : SettleInvoice(p, i) \/ Replay(p, i)
             \/ ActivateSubscription(p)
             \/ \E side \in Sides : RecordInvoice(p, side) \/ RecordFails(p, side)
             \/ FinancePosted(p)
      PROVE  RowsEnd /\ SubEnds
  <2>1. ASSUME NEW i \in Invoices, SettleInvoice(p, i) PROVE RowsEnd /\ SubEnds
    BY <1>0, <2>1 DEF SettleInvoice, RowsEnd, SubEnds, Row
  <2>2. ASSUME NEW i \in Invoices, Replay(p, i) PROVE RowsEnd /\ SubEnds
    BY <2>2 DEF Replay, RowsEnd, SubEnds
  <2>3. CASE ActivateSubscription(p)
    BY <2>3, SubTransitionEnds DEF ActivateSubscription, RowsEnd, SubEnds
  <2>4. ASSUME NEW side \in Sides, RecordInvoice(p, side) \/ RecordFails(p, side)
        PROVE  RowsEnd /\ SubEnds
    BY <2>4 DEF RecordInvoice, RecordFails, RowsEnd, SubEnds
  <2>5. CASE FinancePosted(p)
    BY <1>0, <2>5 DEF FinancePosted, RowsEnd, SubEnds, Row
  <2> QED
    BY <1>5, <2>1, <2>2, <2>3, <2>4, <2>5
<1>6. CASE \E p \in Procs : Fail(p)
  BY <1>6 DEF Fail, RowsEnd, SubEnds
<1> QED
  BY <1>1, <1>2, <1>3, <1>4, <1>5, <1>6, WhoSteps

(* Paid and void invoices and canceled subscriptions stay so in every      *)
(* interleaving.                                                           *)
THEOREM Final == Spec => EndsAreFinal
<1>1. IInv /\ [Next]_vars =>
        [/\ \A i \in Invoices :
              inv[i].status \in {"PAID", "VOID"} => inv'[i].status = inv[i].status
         /\ sub.status = "CANCELED" => sub' = sub]_vars
  BY StepEnds DEF RowsEnd, SubEnds
<1> QED
  BY <1>1, Invariance, PTL DEF Spec, EndsAreFinal
----------------------------------------------------------------------------
(* The queue of postings while every job overlaps every other.             *)

(* Positions go up, books and closed windows are never taken back.         *)
Forward ==
    /\ \A i \in Invoices : inv[i].step <= inv'[i].step /\ books[i] \subseteq books'[i]
    /\ old \subseteq old'

LEMMA DunningQueue ==
    ASSUME IInv, NEW p \in Dunners,
           \/ DueForDunning(p) \/ Step(p) \/ Remind(p) \/ Escalate(p)
           \/ Abandon(p) \/ Uncollectible(p) \/ AdvanceDunning(p)
    PROVE  StaysQueued /\ Forward
<1>0. inv \in [Invoices -> Row] /\ UNCHANGED books /\ UNCHANGED old
  BY DEF IInv, TypeOK, DueForDunning, Step, Remind, Escalate, Abandon, Uncollectible,
         AdvanceDunning
<1>1. CASE UNCHANGED inv
  BY <1>0, <1>1 DEF StaysQueued, Forward, Row, Position
<1>2. CASE Uncollectible(p)
  <2>1. proc[p].id \in Invoices
    BY <1>2 DEF Uncollectible, At, IInv, ProcOK, Chasing, Procs
  <2> QED
    BY <1>0, <1>2, <2>1 DEF Uncollectible, StaysQueued, Forward, Row, Position
<1>3. CASE AdvanceDunning(p) /\ inv[proc[p].id].step = proc[p].step
  <2> DEFINE i == proc[p].id
  <2>1. i \in Invoices /\ Advances(p, i)
    BY <1>3 DEF AdvanceDunning, At, Advances, IInv, ProcOK, Chasing, Procs
  <2>2. /\ inv'[i] = Advanced(inv[i], inv[i].step + 1)
        /\ \A k \in Invoices : k # i => inv'[k] = inv[k]
    BY <1>0, <1>3, <2>1 DEF AdvanceDunning
  <2>3. inv'[i].step = inv[i].step + 1 /\ inv[i].step \in Nat
    BY <1>0, <2>1, <2>2, PolicyFacts DEF Advanced, Row, Position
  <2>4. \A k \in Invoices : inv[k].step \in Nat
    BY <1>0, PolicyFacts DEF Row, Position
  <2> HIDE DEF i
  <2>5. StaysQueued
    BY <2>1, <2>2, <2>3 DEF StaysQueued
  <2>6. Forward
    BY <1>0, <2>1, <2>2, <2>3, <2>4 DEF Forward
  <2> QED
    BY <2>5, <2>6
<1>4. CASE AdvanceDunning(p) /\ inv[proc[p].id].step # proc[p].step
  BY <1>1, <1>4 DEF AdvanceDunning
<1> QED
  BY <1>1, <1>2, <1>3, <1>4 DEF DueForDunning, Step, Remind, Escalate, Abandon

LEMMA PostingQueue ==
    ASSUME IInv, NEW p \in Procs \ Dunners,
           \/ \E i \in Invoices : SettleInvoice(p, i) \/ Replay(p, i)
           \/ ActivateSubscription(p)
           \/ \E side \in Sides : RecordInvoice(p, side) \/ RecordFails(p, side)
           \/ FinancePosted(p)
    PROVE  StaysQueued /\ Forward
<1>0. inv \in [Invoices -> Row] /\ books \in [Invoices -> SUBSET Sides] /\ UNCHANGED old
  BY DEF IInv, TypeOK, SettleInvoice, Replay, ActivateSubscription, RecordInvoice,
         RecordFails, FinancePosted
<1>1. ASSUME UNCHANGED inv, \A i \in Invoices : books[i] \subseteq books'[i]
      PROVE  StaysQueued /\ Forward
  BY <1>0, <1>1, PolicyFacts DEF StaysQueued, Forward, Row, Position
<1>2. ASSUME NEW i \in Invoices, SettleInvoice(p, i) PROVE StaysQueued /\ Forward
  <2>1. UNCHANGED books
    BY <1>2 DEF SettleInvoice
  <2>2. CASE inv[i].status = "PAID"
    BY <1>1, <1>2, <2>1, <2>2 DEF SettleInvoice
  <2>3. CASE inv[i].status # "PAID"
    <3>1. /\ inv'[i] = [inv[i] EXCEPT !.status = "PAID", !.queue = "posting"]
          /\ \A k \in Invoices : k # i => inv'[k] = inv[k]
      BY <1>0, <1>2, <2>3 DEF SettleInvoice
    <3>2. inv'[i].queue = "posting" /\ inv'[i].step = inv[i].step
      BY <1>0, <3>1 DEF Row
    <3>3. \A k \in Invoices : inv[k].step \in Nat
      BY <1>0, PolicyFacts DEF Row, Position
    <3>4. StaysQueued
      BY <3>1, <3>2 DEF StaysQueued
    <3>5. \A k \in Invoices : inv'[k].step = inv[k].step
      <4>1. \A k \in Invoices : k # i => inv'[k].step = inv[k].step
        BY <3>1
      <4> QED
        BY <3>2, <4>1
    <3> QED
      BY <1>0, <2>1, <3>3, <3>4, <3>5 DEF Forward
  <2> QED
    BY <2>2, <2>3
<1>3. ASSUME NEW i \in Invoices, Replay(p, i) PROVE StaysQueued /\ Forward
  BY <1>1, <1>3 DEF Replay
<1>4. CASE ActivateSubscription(p)
  BY <1>1, <1>4 DEF ActivateSubscription
<1>5. ASSUME NEW side \in Sides, RecordInvoice(p, side) \/ RecordFails(p, side)
      PROVE  StaysQueued /\ Forward
  BY <1>0, <1>1, <1>5 DEF RecordInvoice, RecordFails
<1>6. CASE FinancePosted(p)
  <2>1. /\ proc[p].id \in Invoices
        /\ books[proc[p].id] = Sides \/ proc[p].id \in old
    BY <1>6 DEF FinancePosted, At, IInv, ProcOK, Paying
  <2>2. UNCHANGED books
    BY <1>6 DEF FinancePosted
  <2>3. \A k \in Invoices : /\ k # proc[p].id => inv'[k] = inv[k]
                            /\ inv'[k].step = inv[k].step /\ inv[k].step \in Nat
    BY <1>0, <1>6, <2>1, PolicyFacts DEF FinancePosted, Row, Position
  <2> QED
    BY <1>0, <2>1, <2>2, <2>3 DEF StaysQueued, Forward
<1> QED
  BY <1>2, <1>3, <1>4, <1>5, <1>6

LEMMA NextQueue ==
    ASSUME IInv, [Next]_vars
    PROVE  StaysQueued /\ Forward
<1>0. inv \in [Invoices -> Row]
  BY DEF IInv, TypeOK
<1>1. \A k \in Invoices : inv[k].step \in Nat
  BY <1>0, PolicyFacts DEF Row, Position
<1>2. ASSUME UNCHANGED inv, UNCHANGED books, old \subseteq old'
      PROVE  StaysQueued /\ Forward
  BY <1>1, <1>2 DEF StaysQueued, Forward
<1>3. CASE UNCHANGED vars
  BY <1>2, <1>3 DEF vars
<1>4. ASSUME NEW i \in Invoices, Finalize(i) \/ VoidInvoice(i)
      PROVE  StaysQueued /\ Forward
  BY <1>0, <1>1, <1>4 DEF Finalize, VoidInvoice, StaysQueued, Forward, Row
<1>5. ASSUME NEW i \in Invoices, WindowCloses(i) PROVE StaysQueued /\ Forward
  BY <1>2, <1>5 DEF WindowCloses
<1>6. CASE Cancel
  BY <1>2, <1>6 DEF Cancel
<1>7. CASE \E p \in Procs : Fail(p)
  BY <1>2, <1>7 DEF Fail
<1> QED
  BY <1>3, <1>4, <1>5, <1>6, <1>7, WhoSteps, DunningQueue, PostingQueue

(* However settlements, replays and dunning runs overlap, fail and write   *)
(* from old pages, an unposted payment is on the queue the replay reads    *)
(* from the write that made it, until a late AdvanceDunning: that write is *)
(* the only way for a posting to be forgotten.                             *)
THEOREM OnlyDunningUnqueues == Spec => [][StaysQueued]_vars
<1>1. IInv /\ [Next]_vars => [StaysQueued]_vars
  BY NextQueue
<1> QED
  BY <1>1, Invariance, PTL DEF Spec

(* And so a payment of an invoice that dunning never advanced is posted,   *)
(* queued for the replay, or outside its window, in every interleaving.    *)
THEOREM Unchased == Spec => []UnchasedIsQueued
<1>1. Init => UnchasedIsQueued
  BY DEF Init, UnchasedIsQueued
<1>2. ASSUME IInv, IInv', UnchasedIsQueued, [Next]_vars
      PROVE  UnchasedIsQueued'
  <2> SUFFICES ASSUME NEW i \in Invoices, inv'[i].status = "PAID", inv'[i].step = 0
               PROVE  books'[i] = Sides \/ inv'[i].queue = "posting" \/ i \in old'
    BY DEF UnchasedIsQueued
  <2>1. StaysQueued /\ Forward
    BY <1>2, NextQueue
  <2>2. inv[i].step \in Nat
    BY <1>2, PolicyFacts DEF IInv, TypeOK, Row, Position
  <2>3. books'[i] \subseteq Sides
    BY <1>2 DEF IInv, TypeOK
  <2>4. inv[i].step = 0 /\ books[i] \subseteq books'[i] /\ old \subseteq old'
    BY <2>1, <2>2 DEF Forward
  <2>5. CASE books[i] = Sides \/ i \in old
    BY <2>3, <2>4, <2>5
  <2>6. CASE inv[i].status = "PAID" /\ inv[i].queue # "posting"
    BY <1>2, <2>4, <2>5, <2>6 DEF UnchasedIsQueued
  <2>7. CASE inv'[i].step = inv[i].step + 1
    BY <2>4, <2>7
  <2> QED
    BY <2>1, <2>5, <2>6, <2>7 DEF StaysQueued
<1>3. IInv /\ IInv' /\ UnchasedIsQueued /\ [Next]_vars => UnchasedIsQueued'
  BY <1>2
<1> QED
  BY <1>1, <1>3, Invariance, PTL DEF Spec
=============================================================================
