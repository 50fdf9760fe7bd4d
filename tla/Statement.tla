----------------------------- MODULE Statement ------------------------------
(***************************************************************************)
(* The statement of one bank account synced into the ledger: the backfill  *)
(* on connect, the re-reading of the last days, the lock row that lets a   *)
(* line post once, the linking of a line to the invoice it paid, and the   *)
(* classification of what is left.  The hourly job, the button and the     *)
(* webhook sync under a lock that can expire.                              *)
(***************************************************************************)
EXTENDS Integers

CONSTANTS
    Listings,         \* sets of lines [no, id, day, amount, ref, pay, bare]: what the bank may come to list
    Charges,          \* charge references of this organization
    OwedOn,           \* charge -> what its invoice posts when it is paid
    PaidBy,           \* charge -> the payment that settles it
    Syncs,            \* the callers of Sync
    ConnectDay, LastDay, BackfillDays, WindowDays, IncrementalDays,
    MaxConnects,      \* bounds how often the account is connected
    MaxSyncs          \* bounds the syncs started

NoRef  == "none"
NoPay  == "none"       \* a line the bank lists without the payment's id
NoOne  == "none"
NoLine == [part |-> "none"]
Whole  == "whole"
Excess == "excess"     \* the ":excess" line of a payment above what its invoice posts

ASSUME StatementAssumption ==
    /\ ConnectDay \in Nat /\ LastDay \in Nat /\ BackfillDays \in 0..ConnectDay
    /\ WindowDays \in Nat \ {0} /\ IncrementalDays \in 2..LastDay
    /\ Charges \subseteq DOMAIN OwedOn /\ \A c \in Charges : OwedOn[c] \in Nat
    /\ \A lines \in Listings : \A l \in lines :
        /\ l.no \in Nat /\ l.day \in Nat /\ l.amount \in Nat /\ l.bare \in BOOLEAN
        /\ \A k \in lines : (l.id = k.id /\ l.day = k.day /\ l.amount = k.amount) => l = k
        /\ (l.ref \in Charges /\ l.pay \in {NoPay, PaidBy[l.ref]}) => l.amount >= OwedOn[l.ref]

VARIABLES
    bankDay,     \* today
    listing,     \* what the bank lists, each line from its day on
    complete,    \* the lines the bank has finished composing
    conn,        \* the CONNECTION row
    charge,      \* charge -> what became of its attempt and its posting
    locks,       \* lock key -> the content it was taken for
    entry,       \* <<line, part>> -> what the ledger holds of it
    opened,      \* the day of the account's opening, a set of at most one
    holder,      \* the holder of the sync lock
    sync,        \* caller -> where it is, the row it read and the lines to go
    gaveUp,      \* lines posted to classify though no charge could be matched after a day
    waited,      \* lines a sync left for the next one
    started      \* the syncs started so far

stVars == <<bankDay, listing, complete, conn, charge, locks, entry, opened, holder, sync, gaveUp, waited, started>>

Lines  == UNION Listings
Parts  == {Whole, Excess}
Clear(p)    == [at |-> "idle"]
Out(p, w)   == sync[p].at = w
Step(p, r)  == sync' = [sync EXCEPT ![p] = r]
Listed(l)   == l \in listing /\ l.day <= bankDay
Own(l)      == l.ref \in Charges
Bare(l)     == l.bare /\ l \notin complete
Day(n)      == IF n < 0 THEN 0 ELSE n
Later(a, b) == IF a > b THEN a ELSE b
Young(l, today) == l.day + 1 >= today

(* SaveConnection is conditioned on the revision read: whoever else holds  *)
(* the row holds a stale one from then on.                                 *)
Saved(p, row) ==
    /\ conn' = row
    /\ sync' = [q \in Syncs |-> IF q = p \/ Out(q, "idle") THEN Clear(q)
                                ELSE [sync[q] EXCEPT !.fresh = FALSE]]

(* Connect: the row of a new connection.  An account that already has an   *)
(* opening is not read before it.                                          *)
NewConn(live, times, today) ==
    LET back == Day(today - BackfillDays)
    IN  [there |-> TRUE, live |-> live, times |-> times, since |-> today, from |-> today,
         first |-> IF \E d \in opened : d >= back THEN (CHOOSE d \in opened : TRUE) + 1 ELSE back,
         done |-> ~live]                                   \* the shared sandbox has no history

StatementInit ==
    /\ bankDay = ConnectDay /\ listing \in Listings /\ complete = {}
    /\ opened = {}
    /\ \E live \in BOOLEAN : conn = NewConn(live, 1, ConnectDay)
    /\ charge = [c \in Charges |-> "pending"]
    /\ locks = [k \in {} |-> 0]
    /\ entry = [e \in Lines \X Parts |-> "none"]
    /\ holder = NoOne
    /\ sync = [p \in Syncs |-> Clear(p)]
    /\ gaveUp = {} /\ waited = {} /\ started = 0

----------------------------------------------------------------------------
(* The bank, the clock and the collection of the charges (Collection).     *)

NextDay ==
    /\ bankDay < LastDay
    /\ bankDay' = bankDay + 1
    /\ UNCHANGED <<listing, complete, conn, charge, locks, entry, opened, holder, sync, gaveUp, waited, started>>

Composes(l) ==
    /\ Listed(l) /\ Bare(l)
    /\ complete' = complete \cup {l}
    /\ UNCHANGED <<bankDay, listing, conn, charge, locks, entry, opened, holder, sync, gaveUp, waited, started>>

(* A webhook or the sweep settles the attempt, of a payment the bank may   *)
(* list later; the posting of its invoice comes later still, or never.     *)
SettleCharge(c) ==
    /\ \/ /\ charge[c] = "pending" /\ charge' = [charge EXCEPT ![c] = "succeeded"]
       \/ charge[c] = "succeeded" /\ charge' = [charge EXCEPT ![c] = "posted"]
    /\ UNCHANGED <<bankDay, listing, complete, conn, locks, entry, opened, holder, sync, gaveUp, waited, started>>

----------------------------------------------------------------------------
(* One sync.                                                               *)

(* The caller reads the row; the button also stamps it, which is a save.   *)
ReadConnection(p) ==
    /\ Out(p, "idle") /\ conn.there /\ started < MaxSyncs
    /\ started' = started + 1
    /\ Step(p, [at |-> "read", row |-> conn, fresh |-> TRUE, today |-> bankDay, todo |-> {},
                window |-> "none", from |-> 0, line |-> NoLine])
    /\ UNCHANGED <<bankDay, listing, complete, conn, charge, locks, entry, opened, holder, gaveUp, waited>>

SyncNow(p) ==
    /\ Out(p, "read") /\ sync[p].fresh
    /\ sync' = [q \in Syncs |-> IF q = p \/ Out(q, "idle") THEN sync[q] ELSE [sync[q] EXCEPT !.fresh = FALSE]]
    /\ UNCHANGED <<bankDay, listing, complete, conn, charge, locks, entry, opened, holder, gaveUp, waited, started>>

Within(from, to) == {l \in Lines : Listed(l) /\ l.day \in from..to}

(* The last days, from the first day of the account's statement.           *)
Recent(s) ==
    [s EXCEPT !.at = "lines", !.window = "recent",
              !.todo = Within(Later(Day(s.today - IncrementalDays), s.row.first), s.today)]

(* A refused window, or the first day reached, ends the backfill: marked   *)
(* on the row in memory before the balance of the eve is asked for.        *)
FinishBackfill(s, refused) ==
    IF refused \/ s.row.from <= s.row.first
    THEN [s EXCEPT !.row.done = TRUE, !.row.first = s.row.from, !.at = "opening"]
    ELSE Recent(s)

(* The next older window of the backfill, or nothing left of it.           *)
Backfill(s) ==
    LET from == Later(Day(s.row.from - WindowDays), s.row.first)
    IN  IF from < s.row.from
        THEN [s EXCEPT !.at = "lines", !.window = "backfill", !.from = from, !.todo = Within(from, s.row.from - 1)]
        ELSE FinishBackfill(s, FALSE)

(* Sync, under its lock: a caller that does not get it leaves.             *)
Acquire(p) ==
    LET s == sync[p]
    IN  /\ Out(p, "read")
        /\ IF holder = NoOne
           THEN holder' = p /\ Step(p, IF s.row.done THEN Recent(s) ELSE Backfill(s))
           ELSE UNCHANGED holder /\ Step(p, Clear(p))
        /\ UNCHANGED <<bankDay, listing, complete, conn, charge, locks, entry, opened, gaveUp, waited, started>>

(* The bank answers that it has no such window.                            *)
WindowRefused(p) ==
    /\ Out(p, "lines") /\ sync[p].window = "backfill"
    /\ Step(p, FinishBackfill(sync[p], TRUE))
    /\ UNCHANGED <<bankDay, listing, complete, conn, charge, locks, entry, opened, holder, gaveUp, waited, started>>

LockKey(l, part)    == <<l.id, part, {}>>
Content(l, part)    == [day |-> l.day, amount |-> IF part = Whole THEN l.amount ELSE l.amount - OwedOn[l.ref]]
ContentKey(l, part) == <<l.id, part, {Content(l, part)}>>
Locked(key, c)      == locks' = [k \in DOMAIN locks \cup {key} |-> IF k = key THEN c ELSE locks[k]]

LineDone(p, l) == Step(p, [sync[p] EXCEPT !.todo = @ \ {l}, !.at = "lines", !.line = NoLine])
Carrying(p, w, l, part) == Step(p, [sync[p] EXCEPT !.at = w, !.line = [of |-> l, part |-> part, by |-> "id"]])
Posting(p, l, part) == Carrying(p, "lock", l, part)

Linkable(l) == l.ref # NoRef /\ l.ref \in Charges
PaysFor(l)  == l.pay \in {NoPay, PaidBy[l.ref]}

(* Link: a pending attempt is asked about first.  handled says whether the *)
(* line is the invoice's, waits, or posts as a line to classify.           *)
Asked(l) ==
    {charge[l.ref]} \cup (IF charge[l.ref] = "pending" /\ PaysFor(l) THEN {"succeeded", "posted"} ELSE {})

Link(p, l) ==
    \E status \in Asked(l) :
        /\ charge' = [charge EXCEPT ![l.ref] = status]
        /\ IF status = "posted" /\ PaysFor(l)
           THEN /\ IF l.amount > OwedOn[l.ref] THEN Posting(p, l, Excess)
                   ELSE Carrying(p, "linked", l, Whole)
                /\ UNCHANGED <<gaveUp, waited>>
           ELSE IF status # "pending" /\ ~PaysFor(l)      \* a second payment: the bank's own line
           THEN Posting(p, l, Whole) /\ UNCHANGED <<gaveUp, waited>>
           ELSE IF Young(l, sync[p].today)
           THEN LineDone(p, l) /\ waited' = waited \cup {l} /\ UNCHANGED gaveUp
           ELSE Posting(p, l, Whole) /\ gaveUp' = gaveUp \cup {l} /\ UNCHANGED waited

(* line, in the order of the bank's pages: test mode keeps the tenant's    *)
(* own charges; a draft waits a day; a line that names a charge is the     *)
(* linker's, the rest posts.                                               *)
TakeLine(p, l) ==
    /\ Out(p, "lines") /\ l \in sync[p].todo /\ \A k \in sync[p].todo : l.no <= k.no
    /\ IF ~sync[p].row.live /\ (~Own(l) \/ Bare(l))
       THEN LineDone(p, l) /\ UNCHANGED <<charge, gaveUp, waited>>
       ELSE IF Bare(l) /\ Young(l, sync[p].today)
       THEN LineDone(p, l) /\ waited' = waited \cup {l} /\ UNCHANGED <<charge, gaveUp>>
       ELSE IF Linkable(l) /\ ~Bare(l) THEN Link(p, l)
       ELSE /\ Posting(p, l, Whole)
            /\ gaveUp' = IF Bare(l) THEN gaveUp \cup {l} ELSE gaveUp
            /\ UNCHANGED <<charge, waited>>
    /\ UNCHANGED <<bankDay, listing, complete, conn, locks, entry, opened, holder, started>>

(* LinkBankLine: the lock alone, if absent.                                *)
LinkBankLine(p) ==
    LET l == sync[p].line.of
    IN  /\ Out(p, "linked")
        /\ IF LockKey(l, Whole) \in DOMAIN locks THEN UNCHANGED locks ELSE Locked(LockKey(l, Whole), Content(l, Whole))
        /\ LineDone(p, l)
        /\ UNCHANGED <<bankDay, listing, complete, conn, charge, entry, opened, holder, gaveUp, waited, started>>

(* An excess posted goes on to its line's link.                            *)
Onward(p) ==
    IF sync[p].line.part = Excess THEN Step(p, [sync[p] EXCEPT !.at = "linked"]) ELSE LineDone(p, sync[p].line.of)

BadHeld(l, part) == LockKey(l, part) \in DOMAIN locks /\ ContentKey(l, part) \in DOMAIN locks

(* PostBankLine looks for the lock by id, and by content when the bank     *)
(* gave the id to another line.                                            *)
Held(l, part) ==
    /\ LockKey(l, part) \in DOMAIN locks
    /\ locks[LockKey(l, part)] = Content(l, part) \/ ContentKey(l, part) \in DOMAIN locks

PostKey(x) == IF x.by = "id" THEN LockKey(x.of, x.part) ELSE ContentKey(x.of, x.part)

ReadLock(p) ==
    LET x == sync[p].line
    IN  /\ Out(p, "lock")
        /\ IF Held(x.of, x.part) THEN Onward(p)
           ELSE Step(p, [sync[p] EXCEPT !.at = "post",
                            !.line = [x EXCEPT !.by = IF LockKey(x.of, x.part) \in DOMAIN locks THEN "content" ELSE "id"]])
        /\ UNCHANGED <<bankDay, listing, complete, conn, charge, locks, entry, opened, holder, gaveUp, waited, started>>

(* One transaction: the posting, its unclassified row and the lock.  A     *)
(* lock somebody took meanwhile leaves the line to the next sync.          *)
PostBankLine(p) ==
    LET x == sync[p].line
    IN  /\ Out(p, "post")
        /\ IF PostKey(x) \in DOMAIN locks THEN UNCHANGED <<locks, entry>>
           ELSE /\ Locked(PostKey(x), Content(x.of, x.part))
                /\ entry' = [entry EXCEPT ![<<x.of, x.part>>] = IF @ = "none" THEN "pending" ELSE "twice"]
        /\ waited' = IF PostKey(x) \in DOMAIN locks THEN waited \cup {x.of} ELSE waited
        /\ Onward(p)
        /\ UNCHANGED <<bankDay, listing, complete, conn, charge, opened, holder, gaveUp, started>>

Read(p) == IF sync[p].window = "recent" THEN [sync[p] EXCEPT !.at = "balance"]
           ELSE FinishBackfill([sync[p] EXCEPT !.row.from = sync[p].from], FALSE)

BadWindowDone(p) ==
    /\ Out(p, "lines")
    /\ Step(p, Read(p))
    /\ UNCHANGED <<bankDay, listing, complete, conn, charge, locks, entry, opened, holder, gaveUp, waited, started>>

(* Only a window read to its end moves the cursor.                         *)
WindowDone(p) ==
    /\ Out(p, "lines") /\ sync[p].todo = {}
    /\ Step(p, Read(p))
    /\ UNCHANGED <<bankDay, listing, complete, conn, charge, locks, entry, opened, holder, gaveUp, waited, started>>

(* PostProviderOpening; the account keeps the opening it has.              *)
PostOpeningOfBank(p) ==
    /\ Out(p, "opening")
    /\ opened' = IF opened = {} THEN {Day(sync[p].row.first - 1)} ELSE opened
    /\ Step(p, Recent(sync[p]))
    /\ UNCHANGED <<bankDay, listing, complete, conn, charge, locks, entry, holder, gaveUp, waited, started>>

Release(p) == holder' = IF holder = p THEN NoOne ELSE holder

(* The bank's balance is read and shown; then the one save of the row.     *)
SaveSync(p) ==
    /\ Out(p, "balance")
    /\ IF sync[p].fresh THEN Saved(p, sync[p].row) ELSE UNCHANGED conn /\ Step(p, Clear(p))
    /\ Release(p)
    /\ UNCHANGED <<bankDay, listing, complete, charge, locks, entry, opened, gaveUp, waited, started>>

(* A failed call ends the sync.  RecordOutcome saves the row as it is in   *)
(* memory when the failure says something of the connection's health.      *)
RecordOutcome(p) ==
    /\ sync[p].at \in {"lines", "post", "opening", "balance"}
    /\ \/ sync[p].fresh /\ Saved(p, sync[p].row)
       \/ UNCHANGED conn /\ Step(p, Clear(p))
    /\ Release(p)
    /\ UNCHANGED <<bankDay, listing, complete, charge, locks, entry, opened, gaveUp, waited, started>>

(* The lock outlives nobody: it expires under a sync that runs too long,   *)
(* or after one that died.                                                 *)
LockExpires ==
    /\ holder # NoOne
    /\ holder' = NoOne
    /\ \E p \in {holder} : sync' \in {sync, [sync EXCEPT ![p] = Clear(p)]}
    /\ UNCHANGED <<bankDay, listing, complete, conn, charge, locks, entry, opened, gaveUp, waited, started>>

----------------------------------------------------------------------------
(* A disconnected account keeps its ledger and its locks.                  *)

Disconnect ==
    /\ conn.there /\ conn.times < MaxConnects
    /\ conn' = [conn EXCEPT !.there = FALSE]
    /\ sync' = [q \in Syncs |-> IF Out(q, "idle") THEN sync[q] ELSE [sync[q] EXCEPT !.fresh = FALSE]]
    /\ UNCHANGED <<bankDay, listing, complete, charge, locks, entry, opened, holder, gaveUp, waited, started>>

Reconnect ==
    /\ ~conn.there
    /\ conn' = NewConn(conn.live, conn.times + 1, bankDay)
    /\ UNCHANGED <<bankDay, listing, complete, charge, locks, entry, opened, holder, sync, gaveUp, waited, started>>

----------------------------------------------------------------------------
(* Classification reverses the entry and replaces it, in one transaction   *)
(* that needs its unclassified row; discarding only reverses.  The         *)
(* operator does that to a line whose payment an invoice posted too.       *)

Classify(e) ==
    /\ entry[e] = "pending"
    /\ entry' = [entry EXCEPT ![e] = "classified"]
    /\ UNCHANGED <<bankDay, listing, complete, conn, charge, locks, opened, holder, sync, gaveUp, waited, started>>

Duplicate(l) == Linkable(l) /\ charge[l.ref] = "posted" /\ PaysFor(l)

DiscardBankLine(l) ==
    /\ entry[<<l, Whole>>] = "pending" /\ Duplicate(l)
    /\ entry' = [entry EXCEPT ![<<l, Whole>>] = "discarded"]
    /\ UNCHANGED <<bankDay, listing, complete, conn, charge, locks, opened, holder, sync, gaveUp, waited, started>>

SyncStep(p) ==
    \/ ReadConnection(p) \/ SyncNow(p) \/ Acquire(p) \/ WindowRefused(p) \/ LinkBankLine(p) \/ ReadLock(p) \/ PostBankLine(p) \/ WindowDone(p)
    \/ PostOpeningOfBank(p) \/ SaveSync(p) \/ RecordOutcome(p)
    \/ \E l \in Lines : TakeLine(p, l)

StatementNext ==
    \/ NextDay \/ LockExpires \/ Disconnect \/ Reconnect
    \/ \E l \in Lines : Composes(l)
    \/ \E c \in Charges : SettleCharge(c)
    \/ \E p \in Syncs : SyncStep(p)
    \/ \E l \in Lines : DiscardBankLine(l) \/ \E part \in Parts : Classify(<<l, part>>)

StatementSpec == StatementInit /\ [][StatementNext]_stVars

----------------------------------------------------------------------------
(* What the account's cash shows of one payment.                           *)
Times(l, part)   == CASE entry[<<l, part>>] \in {"pending", "classified"} -> 1
                      [] entry[<<l, part>>] = "twice" -> 2
                      [] OTHER -> 0
InBooks(l, part) == Times(l, part) > 0
Shown(l) ==
    Times(l, Whole) * l.amount
    + (IF InBooks(l, Excess) THEN Times(l, Excess) * (l.amount - OwedOn[l.ref]) ELSE 0)
    + (IF Duplicate(l) THEN OwedOn[l.ref] ELSE 0)

(* A payment is in the account once and to the cent: a line never posts    *)
(* beside the invoice it paid unless the linker gave up on it and said so, *)
(* nor twice, however syncs overlap, ids are reused and connections come   *)
(* and go; and a test account never shows what is not its own.             *)
PaymentInBooksOnce ==
    \A l \in listing :
        /\ Shown(l) <= l.amount \/ l \in gaveUp
        /\ (LockKey(l, Whole) \in DOMAIN locks /\ locks[LockKey(l, Whole)] = Content(l, Whole) /\ l \notin gaveUp)
             => Shown(l) = l.amount
        /\ (\E part \in Parts : InBooks(l, part)) => conn.live \/ Own(l)

(* The backfill leaves no hole: what the bank lists between the cursor and *)
(* the day of the connection is in the books, or was left to a later sync. *)
BackfillLeavesNoHole ==
    \A l \in listing :
        (conn.there /\ conn.live /\ l.day \in conn.from..(conn.since - 1)) =>
            l \in waited \/ LockKey(l, Whole) \in DOMAIN locks \/ ContentKey(l, Whole) \in DOMAIN locks

=============================================================================
