---------------------------- MODULE Recurrences -----------------------------
(***************************************************************************)
(* One recurrence of a space: its rule, the cursor up to which the daily   *)
(* job turned its occurrences into bills, card purchases or amounts to     *)
(* confirm, and the schedule key by which the job finds it.  The job works *)
(* from what it read at its start, one write per occurrence, while people  *)
(* edit, end and archive the rule and confirm or skip what waits.          *)
(*                                                                         *)
(* Days are months here, with one occurrence in each from month 1 on: the  *)
(* horizon of a run, the month ahead and the cursor are then numbers.      *)
(***************************************************************************)
EXTENDS Integers, Sequences, FiniteSets, TLC

CONSTANTS
    Rules,        \* the rules asked for: amt, target, mode, auto, end
    RulePatches,  \* the edits asked for: some of those fields
    RecUsers,     \* people's requests in flight
    RecJobs,      \* runs of the daily job that may overlap
    LastRecMonth     \* the calendar of the model

NoEnd   == 0
NoMonth == 0
Months  == 1..(LastRecMonth + 1)

(* Validate: one target, a known mode; neither a card nor an amount to     *)
(* confirm settles itself.                                                 *)
ValidRule(r) ==
    /\ r.amt \in Nat \ {0} /\ r.target \in {"account", "card"} /\ r.mode \in {"fixed", "expected"}
    /\ (r.target = "card" \/ r.mode = "expected") => ~r.auto

(* The body of an edit: what it names of the rule (the mode is not to be   *)
(* edited), and what it confirms of its end.                               *)
ValidPatch(p) ==
    /\ {"archive", "cancel"} \subseteq DOMAIN p
    /\ DOMAIN p \subseteq {"amt", "target", "auto", "end", "archive", "cancel"}
    /\ "amt" \in DOMAIN p => p.amt \in Nat \ {0}
    /\ "target" \in DOMAIN p => p.target \in {"account", "card"}

ASSUME RecurrencesAssumption ==
    /\ LastRecMonth \in Nat \ {0}
    /\ \A r \in Rules : DOMAIN r = {"amt", "target", "mode", "auto", "end"} /\ ValidRule(r)
    /\ \A p \in RulePatches : ValidPatch(p)

VARIABLES
    rec,        \* the RECURRENCE# row
    month,      \* today's
    lock,       \* month -> what its OCCURRENCE# row says, or "none"
    waiting,    \* month -> the amount on its PENDING# row, or 0
    made,       \* every bill and purchase made, in order
    cardGone,   \* the card it charges was archived
    ended,      \* an end was ever written
    person,     \* request -> how far it is and what it read
    run         \* job -> how far it is and what it read

recVars == <<rec, month, lock, waiting, made, cardGone, ended, person, run>>

Off == [at |-> "off"]

----------------------------------------------------------------------------
(* The rule.                                                               *)

(* Occurrences: those of the rule after a month, up to another.            *)
Occurrences(r, after, to) ==
    {n \in Months : n > after /\ n <= to /\ (r.end # NoEnd => n <= r.end)}

(* Horizon: bills are made up to the next month's end, purchases up to     *)
(* today.                                                                  *)
HorizonEnd(today) == today + 1

(* Materialise, CardDue and the job's own cut: an amount to confirm waits  *)
(* for its day.                                                            *)
Drafts(r, cursor) ==
    IF r.archived THEN {}
    ELSE Occurrences(r, cursor, IF r.target = "card" \/ r.mode = "expected" THEN month ELSE HorizonEnd(month))

(* NextMaterialiseDate: the day of the next occurrence of a card, the      *)
(* month before of a bill; none when nothing is left.                      *)
NextMaterialise(r, cursor) ==
    LET left == Occurrences(r, cursor, LastRecMonth + 1)
        next == CHOOSE n \in left : \A k \in left : n <= k
    IN  IF r.archived \/ left = {} THEN NoMonth
        ELSE IF r.target = "card" THEN next
        ELSE IF next = 1 THEN 1 ELSE next - 1

(* Ended: nothing to come after the cursor or after today.                 *)
Ended(r, cursor) ==
    Occurrences(r, IF cursor < month THEN cursor ELSE month, LastRecMonth + 1) = {}

Rule(r) == [f \in {"amt", "target", "mode", "auto"} |-> r[f]]

(* createRecurrence: the row a request makes.                              *)
NewRecurrence(r) ==
    LET q == [amt |-> r.amt, target |-> r.target, mode |-> r.mode, auto |-> r.auto, end |-> r.end,
              archived |-> FALSE, cursor |-> 0, flagged |-> FALSE, sched |-> NoMonth]
    IN  [q EXCEPT !.sched = NextMaterialise(q, 0)]

RecurrencesInit ==
    /\ \E r \in Rules : rec = NewRecurrence(r)
    /\ month = 1
    /\ lock = [n \in Months |-> "none"]
    /\ waiting = [n \in Months |-> 0]
    /\ made = <<>>
    /\ cardGone = FALSE
    /\ ended = (rec.end # NoEnd)
    /\ person = [c \in RecUsers |-> Off]
    /\ run = [j \in RecJobs |-> Off]

----------------------------------------------------------------------------
(* The conditions of the writes.                                           *)

(* recurrenceUnchanged, cardRecurrenceUnchanged: not archived, and amount, *)
(* target and auto_settle as the run read them.                            *)
RecurrenceUnchanged(r) == ~rec.archived /\ Rule(rec) = r

(* CreatePendingOccurrence checks the end as well.                         *)
PendingAllowed(r, n) == RecurrenceUnchanged(r) /\ (rec.end # NoEnd => n <= rec.end)

(* expectedRecurrenceUnchanged: as the pending row has it.                 *)
ExpectedUnchanged(p) ==
    ~rec.archived /\ rec.mode = "expected" /\ rec.amt = p.amt /\ rec.target = p.target

Make(n, what, x) ==
    /\ lock' = [lock EXCEPT ![n] = what]
    /\ made' = Append(made, [nominal |-> n, what |-> what, amt |-> x, status |-> "forecast"])

RowUnchanged   == UNCHANGED <<rec, ended>>
WorkUnchanged  == UNCHANGED <<lock, waiting, made>>
WorldUnchanged == UNCHANGED <<month, cardGone>>

At(j, where)  == run[j].at = where
Goes(j, r)    == run' = [run EXCEPT ![j] = r] /\ UNCHANGED person
PersonIs(c, where)  == person[c].at = where
Turns(c, r)   == person' = [person EXCEPT ![c] = r] /\ UNCHANGED run

----------------------------------------------------------------------------
(* The daily job.                                                          *)

(* scanSchedulePage: what the schedule lists by today.                     *)
ScheduledBy(today) == rec.sched # NoMonth /\ rec.sched <= today

(* batchGetEntries: the row behind an entry, as it is now; the drafts are  *)
(* worked out from it.                                                     *)
Hydrated == [at |-> "drafts", today |-> month, rule |-> Rule(rec), left |-> Drafts(rec, rec.cursor),
             cursor |-> rec.cursor, none |-> Drafts(rec, rec.cursor) = {}]

(* DueToMaterialise.                                                       *)
JobReads(j) ==
    /\ At(j, "off")
    /\ ScheduledBy(month)
    /\ Goes(j, Hydrated)
    /\ RowUnchanged /\ WorkUnchanged /\ WorldUnchanged

NextDraft(j) == CHOOSE n \in run[j].left : \A k \in run[j].left : n <= k

Advanced(j) == [run[j] EXCEPT !.left = @ \ {NextDraft(j)}, !.cursor = NextDraft(j)]

BadCreateFromOccurrence(j) ==
    LET n == NextDraft(j)
    IN  /\ At(j, "drafts") /\ run[j].left # {}
        /\ run[j].rule.target = "account" /\ run[j].rule.mode = "fixed"
        /\ Len(made) <= LastRecMonth
        /\ RecurrenceUnchanged(run[j].rule) /\ Make(n, "bill", run[j].rule.amt) /\ Goes(j, Advanced(j))
        /\ RowUnchanged /\ WorldUnchanged /\ UNCHANGED waiting

(* CreateFromOccurrence: bill, recognition and lock in one write; a lock   *)
(* that is there means made already, a changed rule ends the run.          *)
CreateFromOccurrence(j) ==
    LET n == NextDraft(j)
    IN  /\ At(j, "drafts") /\ run[j].left # {}
        /\ run[j].rule.target = "account" /\ run[j].rule.mode = "fixed"
        /\ \/ /\ RecurrenceUnchanged(run[j].rule) /\ lock[n] = "none"
              /\ Make(n, "bill", run[j].rule.amt) /\ Goes(j, Advanced(j))
           \/ /\ RecurrenceUnchanged(run[j].rule) /\ lock[n] # "none"
              /\ Goes(j, Advanced(j)) /\ UNCHANGED <<lock, made>>
           \/ /\ ~RecurrenceUnchanged(run[j].rule)
              /\ Goes(j, Off) /\ UNCHANGED <<lock, made>>
        /\ RowUnchanged /\ WorldUnchanged /\ UNCHANGED waiting

(* CreatePendingOccurrence: the PENDING# row, put if absent; the lock of   *)
(* an occurrence that was handled is not looked at.                        *)
CreatePendingOccurrence(j) ==
    LET n == NextDraft(j)
        r == run[j].rule
    IN  /\ At(j, "drafts") /\ run[j].left # {}
        /\ r.mode = "expected" /\ (r.target = "card" => ~cardGone)
        /\ waiting' = IF PendingAllowed(r, n) /\ waiting[n] = 0
                      THEN [waiting EXCEPT ![n] = r.amt] ELSE waiting
        /\ Goes(j, IF PendingAllowed(r, n) \/ waiting[n] # 0 THEN Advanced(j) ELSE Off)
        /\ RowUnchanged /\ WorldUnchanged /\ UNCHANGED <<lock, made>>

(* PostOccurrence: the card purchase with the same lock.                   *)
PostOccurrence(j) ==
    LET n == NextDraft(j)
        r == run[j].rule
    IN  /\ At(j, "drafts") /\ run[j].left # {} /\ ~cardGone
        /\ r.target = "card" /\ r.mode = "fixed"
        /\ \/ /\ RecurrenceUnchanged(r) /\ lock[n] = "none"
              /\ Make(n, "purchase", r.amt) /\ Goes(j, Advanced(j))
           \/ /\ lock[n] # "none"
              /\ Goes(j, Advanced(j)) /\ UNCHANGED <<lock, made>>
           \/ /\ ~RecurrenceUnchanged(r) /\ lock[n] = "none"
              /\ Goes(j, Off) /\ UNCHANGED <<lock, made>>
        /\ RowUnchanged /\ WorldUnchanged /\ UNCHANGED waiting

(* materialiseCard on an archived card: FlagAttention, and the run leaves  *)
(* the cursor.                                                             *)
FlagAttention(j) ==
    /\ At(j, "drafts") /\ run[j].rule.target = "card" /\ cardGone
    /\ rec' = [rec EXCEPT !.flagged = TRUE]
    /\ Goes(j, Off)
    /\ WorkUnchanged /\ WorldUnchanged /\ UNCHANGED ended

(* MarkMaterialised reads the row again for the key the new cursor gives.  *)
(* With nothing to make the cursor jumps to the horizon, of a card to      *)
(* today.                                                                  *)
MarkReads(j) ==
    LET r == run[j].rule
        c == CASE r.target = "card" /\ run[j].cursor < run[j].today -> run[j].today
               [] r.target = "account" /\ r.mode = "fixed" /\ run[j].none -> HorizonEnd(run[j].today)
               [] OTHER -> run[j].cursor
    IN  /\ At(j, "drafts") /\ run[j].left = {}
        /\ r.target = "card" => ~cardGone
        /\ Goes(j, IF c = 0 THEN Off
                   ELSE [at |-> "mark", cursor |-> c, key |-> NextMaterialise(rec, c)])
        /\ RowUnchanged /\ WorkUnchanged /\ WorldUnchanged

(* Its write is conditioned on the cursor alone, which never moves back.   *)
MarkMaterialised(j) ==
    /\ At(j, "mark")
    /\ rec' = IF rec.cursor < run[j].cursor
              THEN [rec EXCEPT !.cursor = run[j].cursor, !.sched = run[j].key, !.flagged = FALSE]
              ELSE rec
    /\ Goes(j, Off)
    /\ WorkUnchanged /\ WorldUnchanged /\ UNCHANGED ended

(* A write that fails, or a run that dies, leaves the cursor where it was. *)
JobStops(j) ==
    /\ ~At(j, "off")
    /\ Goes(j, Off)
    /\ RowUnchanged /\ WorkUnchanged /\ WorldUnchanged

----------------------------------------------------------------------------
(* People.                                                                 *)

(* Update, first half: the row is read, patched and validated.  An end     *)
(* that leaves nothing to come needs the archive with it, and an end that  *)
(* would strand bills or amounts waiting needs the order to cancel them    *)
(* (patchRecurrence).                                                      *)
StrandedAfter(e) ==
    \/ \E i \in 1..Len(made) : made[i].what = "bill" /\ made[i].nominal > e /\ made[i].status = "forecast"
    \/ \E n \in Months : n > e /\ waiting[n] # 0

Patched(r, p) ==
    LET q == [f \in DOMAIN p \ {"archive", "cancel"} |-> p[f]] @@ r
    IN  [q EXCEPT !.auto = q.target = "account" /\ @, !.archived = @ \/ p.archive]

ReadUpdate(c, p) ==
    LET q == Patched(rec, p)
        extended == "end" \in DOMAIN p /\ rec.end # NoEnd /\ (q.end = NoEnd \/ q.end > rec.end)
    IN  /\ PersonIs(c, "off")
        /\ ("end" \in DOMAIN p /\ p.end # NoEnd /\ ~p.cancel) => ~StrandedAfter(p.end)
        /\ ("end" \in DOMAIN p /\ ~p.archive /\ ~rec.archived) => ~Ended(q, rec.cursor)
        /\ ValidRule(q)
        /\ Turns(c, [at |-> "update", read |-> rec.cursor, next |-> q, patch |-> p,
                     cursor |-> IF extended /\ rec.cursor # 0 /\ rec.cursor < month - 1
                                THEN month - 1 ELSE rec.cursor])
        /\ RowUnchanged /\ WorkUnchanged /\ WorldUnchanged

(* Second half: conditioned on the cursor it read.                         *)
Update(c) ==
    LET w  == person[c]
        ok == rec.cursor = w.read
    IN  /\ PersonIs(c, "update")
        /\ rec' = IF ok
                  THEN [rec EXCEPT !.amt = w.next.amt, !.target = w.next.target, !.auto = w.next.auto,
                                   !.end = IF "end" \in DOMAIN w.patch THEN w.next.end ELSE @,
                                   !.archived = @ \/ w.patch.archive, !.flagged = FALSE,
                                   !.cursor = w.cursor, !.sched = NextMaterialise(w.next, w.cursor)]
                  ELSE rec
        /\ ended' = (ended \/ (ok /\ "end" \in DOMAIN w.patch))
        /\ Turns(c, IF ok /\ "end" \in DOMAIN w.patch /\ w.patch.end # NoEnd /\ w.patch.cancel
                    THEN [at |-> "made-after", end |-> w.patch.end] ELSE Off)
        /\ WorkUnchanged /\ WorldUnchanged

(* EndRecurrence: the bills made after the end, as they are now...         *)
MadeAfter(c) ==
    /\ PersonIs(c, "made-after")
    /\ Turns(c, [at |-> "cancel", end |-> person[c].end,
                 left |-> {i \in 1..Len(made) : /\ made[i].what = "bill" /\ made[i].nominal > person[c].end
                                                /\ made[i].status = "forecast"}])
    /\ RowUnchanged /\ WorkUnchanged /\ WorldUnchanged

(* ...are cancelled one by one, those paid meanwhile left as they are...   *)
CancelOccurrences(c) ==
    /\ PersonIs(c, "cancel") /\ person[c].left # {}
    /\ \E i \in person[c].left :
         /\ \A k \in person[c].left : i <= k
         /\ made' = IF made[i].status = "forecast" THEN [made EXCEPT ![i].status = "canceled"] ELSE made
         /\ Turns(c, [person[c] EXCEPT !.left = @ \ {i}])
    /\ RowUnchanged /\ WorldUnchanged /\ UNCHANGED <<lock, waiting>>

(* ...and what waits after the end is listed to be skipped.                *)
ListPending(c) ==
    /\ PersonIs(c, "cancel") /\ person[c].left = {}
    /\ Turns(c, [at |-> "skip", left |-> {n \in Months : n > person[c].end /\ waiting[n] # 0}])
    /\ RowUnchanged /\ WorkUnchanged /\ WorldUnchanged

(* SkipPendingOccurrence: the pending row deleted and the lock put, or     *)
(* neither.                                                                *)
Skip(n) ==
    IF waiting[n] # 0 /\ lock[n] = "none"
    THEN waiting' = [waiting EXCEPT ![n] = 0] /\ lock' = [lock EXCEPT ![n] = "skipped"]
    ELSE UNCHANGED <<waiting, lock>>

(* A skip that was refused because the occurrence is handled ends the      *)
(* request; one already skipped is as good as done.                        *)
SkipPendingOccurrences(c) ==
    /\ PersonIs(c, "skip")
    /\ \/ /\ person[c].left = {} /\ Turns(c, Off) /\ UNCHANGED <<waiting, lock>>
       \/ \E n \in person[c].left :
            /\ \A k \in person[c].left : n >= k
            /\ Skip(n)
            /\ Turns(c, IF (waiting[n] # 0 /\ lock[n] = "none") \/ lock[n] = "skipped"
                        THEN [person[c] EXCEPT !.left = @ \ {n}] ELSE Off)
    /\ RowUnchanged /\ WorldUnchanged /\ UNCHANGED made

(* Archive: without a condition on what the row says.                      *)
Archive(c) ==
    /\ PersonIs(c, "off")
    /\ rec' = [rec EXCEPT !.archived = TRUE, !.sched = NoMonth]
    /\ Turns(c, [at |-> "cancel", end |-> 0, left |-> {}])
    /\ WorkUnchanged /\ WorldUnchanged /\ UNCHANGED ended

ReadPending(c, n) ==
    /\ PersonIs(c, "off") /\ waiting[n] # 0
    /\ Turns(c, [at |-> "confirm", nominal |-> n, amt |-> waiting[n], target |-> rec.target])
    /\ RowUnchanged /\ WorkUnchanged /\ WorldUnchanged

(* confirmExpectedOccurrence goes to the bills or to the cards by the      *)
(* pending row's target.                                                   *)
MadeAs(p) == IF p.target = "card" THEN "purchase" ELSE "bill"

(* ConfirmExpectedOccurrence: bill or purchase, lock, rule check and the   *)
(* pending row's deletion in one write.                                    *)
ConfirmExpectedOccurrence(c) ==
    LET p == person[c]
    IN  /\ PersonIs(c, "confirm")
        /\ Turns(c, Off)
        /\ IF /\ ExpectedUnchanged(p) /\ lock[p.nominal] = "none" /\ waiting[p.nominal] # 0
              /\ p.target = "card" => ~cardGone
           THEN /\ waiting' = [waiting EXCEPT ![p.nominal] = 0]
                /\ Make(p.nominal, MadeAs(p), p.amt)
           ELSE WorkUnchanged
        /\ RowUnchanged /\ WorldUnchanged

SkipExpected(c, n) ==
    /\ PersonIs(c, "off") /\ waiting[n] # 0
    /\ Turns(c, [at |-> "skip", left |-> {n}])
    /\ RowUnchanged /\ WorkUnchanged /\ WorldUnchanged

(* A bill the rule made is paid (Bills says how).                          *)
PayBill(i) ==
    /\ made[i].what = "bill" /\ made[i].status = "forecast"
    /\ made' = [made EXCEPT ![i].status = "paid"]
    /\ UNCHANGED <<rec, month, lock, waiting, cardGone, ended, person, run>>

NextMonth ==
    /\ month < LastRecMonth
    /\ month' = month + 1
    /\ UNCHANGED <<rec, lock, waiting, made, cardGone, ended, person, run>>

CardArchived ==
    /\ rec.target = "card" /\ ~cardGone
    /\ cardGone' = TRUE
    /\ UNCHANGED <<rec, month, lock, waiting, made, ended, person, run>>

JobStep(j) ==
    \/ JobReads(j) \/ CreateFromOccurrence(j) \/ CreatePendingOccurrence(j)
    \/ PostOccurrence(j) \/ FlagAttention(j) \/ MarkReads(j) \/ MarkMaterialised(j) \/ JobStops(j)

PersonStep(c) ==
    \/ \E p \in RulePatches : ReadUpdate(c, p)
    \/ Update(c) \/ MadeAfter(c) \/ CancelOccurrences(c) \/ ListPending(c) \/ SkipPendingOccurrences(c)
    \/ Archive(c) \/ ConfirmExpectedOccurrence(c)
    \/ \E n \in Months : ReadPending(c, n) \/ SkipExpected(c, n)

RecurrencesNext ==
    \/ \E j \in RecJobs : JobStep(j)
    \/ \E c \in RecUsers : PersonStep(c)
    \/ \E i \in 1..Len(made) : PayBill(i)
    \/ NextMonth \/ CardArchived

RecurrencesSpec == RecurrencesInit /\ [][RecurrencesNext]_recVars

----------------------------------------------------------------------------
(* Each occurrence is turned into money at most once, whatever runs        *)
(* overlap, die and are repeated and whatever people confirm meanwhile;    *)
(* and, while no end was ever written and the rule is active, the cursor   *)
(* leaves none behind: each up to it was made, was skipped by a person or  *)
(* waits for one.                                                          *)
EachOccurrenceOnce ==
    /\ \A i, k \in 1..Len(made) : made[i].nominal = made[k].nominal => i = k
    /\ (~ended /\ ~rec.archived) => \A n \in 1..rec.cursor : lock[n] # "none" \/ waiting[n] # 0

=============================================================================
