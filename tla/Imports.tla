------------------------------ MODULE Imports -------------------------------
(***************************************************************************)
(* Statement files imported into an account or a card's statement: the     *)
(* lock row that gives each bank transaction to one import, written with   *)
(* its line chunk by chunk, and the decisions people take on the lines.    *)
(* Uploads overlap, are retried and die half way; lines expire.            *)
(***************************************************************************)
EXTENDS Naturals, Sequences, FiniteSets, TLC

CONSTANTS
    Txs,          \* bank transaction -> [fitid, date, amount]: what a file says of it
    Files,        \* import -> its file, a sequence of transactions
    CardFiles,    \* the imports of a card's statement
    OpenBills,    \* bills a line may settle
    PaidBills,    \* bills the recurrences' auto-settle paid, which a line may be linked to
    Purchased,    \* purchases already on the card's statement
    Importers,    \* the requests
    Chunk,        \* importChunk: lines claimed in one transaction
    LineTTL,      \* how long a line waits for a decision
    LastDate      \* bounds the clock

NoFitid == "none"           \* the bank gives the transaction no id
Imps    == DOMAIN Files
LineIds == UNION {{i} \X (1..Len(Files[i])) : i \in Imps}
TxOf(l) == Files[l[1]][l[2]]
Targets == OpenBills \cup PaidBills \cup Purchased

ASSUME ImportsAssumption ==
    /\ CardFiles \subseteq Imps /\ Chunk \in Nat \ {0} /\ LineTTL \in Nat \ {0}
    /\ \A i \in Imps : Files[i] \in Seq(DOMAIN Txs)
    /\ \A t \in DOMAIN Txs :
        Txs[t] = [fitid |-> Txs[t].fitid, date |-> Txs[t].date, amount |-> Txs[t].amount]
    /\ \A t, u \in DOMAIN Txs : Txs[t] = Txs[u] => t = u

VARIABLES
    clock,
    header,     \* import -> its row: lines added, lines resolved, when it expires
    line,       \* line -> its row: lock, status, when it expires
    lockRow,    \* lock key -> who holds the transaction, for which line, until when, whether it was decided
    used,       \* bill or purchase -> the lines that settled it, were linked to it or paired with it
    bookings,   \* line -> how many times a decision put it in the books
    work        \* request -> where it is

impVars == <<clock, header, line, lockRow, used, bookings, work>>

NoRow  == [there |-> FALSE]
OffWork    == [at |-> "off"]
ImportsInit ==
    /\ clock = 0
    /\ header = [i \in Imps |-> NoRow]
    /\ line = [l \in LineIds |-> NoRow]
    /\ lockRow = [k \in {} |-> NoRow]
    /\ used = [t \in Targets |-> {}]
    /\ bookings = [l \in LineIds |-> 0]
    /\ work = [w \in Importers |-> OffWork]

WorksAt(w, s)  == work[w].at = s
Works(w, r)  == work' = [work EXCEPT ![w] = r]
Alive(r)    == r.there /\ r.expires > clock

----------------------------------------------------------------------------
(* Keys.                                                                   *)

SameContent(t, u) == Txs[t] = Txs[u]
Repeated(i, n)  == \E k \in DOMAIN Files[i] \ {n} : Txs[Files[i][k]].fitid = Txs[Files[i][n]].fitid
Ordinal(i, n)   == Cardinality({k \in 1..n : SameContent(Files[i][k], Files[i][n])})
Scope(i)        == i \in CardFiles                    \* the account, or the card and its month
HashKey(i, n)   == <<"H", Scope(i), Txs[Files[i][n]], Ordinal(i, n)>>
FitKey(i, n)    == <<"F", Scope(i), Txs[Files[i][n]].fitid>>

(* A FITID that is unique in the file is the key, a hash of the content    *)
(* and its ordinal among equal lines otherwise.                            *)
KeyOf(i, n) ==
    IF Txs[Files[i][n]].fitid # NoFitid /\ ~Repeated(i, n) THEN FitKey(i, n) ELSE HashKey(i, n)

Todo(i) == {[n |-> n, key |-> KeyOf(i, n)] : n \in DOMAIN Files[i]}

----------------------------------------------------------------------------
(* store.                                                                  *)

(* The header, if absent; the same request again has the same id.          *)
Upload(w, i) ==
    /\ WorksAt(w, "off")
    /\ header' = [header EXCEPT ![i] = IF @.there THEN @
                    ELSE [there |-> TRUE, lines |-> 0, resolved |-> 0, expires |-> clock + LineTTL]]
    /\ Works(w, [at |-> "claim", imp |-> i, todo |-> Todo(i), got |-> FALSE, now |-> clock])
    /\ UNCHANGED <<clock, line, lockRow, used, bookings>>

(* The chunk being claimed: what is left of the first with lines to go.    *)
ChunkOf(n)  == (n - 1) \div Chunk
InChunk(x)  == {p \in x.todo : \A q \in x.todo : ChunkOf(p.n) <= ChunkOf(q.n)}

BadSameTransaction(k, t) == TRUE

(* A lock is taken when absent, or when its line expired undecided.        *)
Takeable(k, now) == k \notin DOMAIN lockRow \/ (~lockRow[k].resolved /\ lockRow[k].expires < now)

(* sameTransaction: the lock was claimed for this date and amount.         *)
SameTransaction(k, t) == lockRow[k].tx.date = Txs[t].date /\ lockRow[k].tx.amount = Txs[t].amount

(* What the answer of a refused transaction leaves to claim.               *)
Kept(i, chunk, now) ==
    {p \in chunk : Takeable(p.key, now)} \cup
    {[n |-> p.n, key |-> HashKey(i, p.n)] :
        p \in {q \in chunk : ~Takeable(q.key, now) /\ q.key[1] = "F"
                             /\ lockRow[q.key].imp # i /\ ~SameTransaction(q.key, Files[i][q.n])}}
Mine(i, chunk, now) == {p \in chunk : ~Takeable(p.key, now) /\ lockRow[p.key].imp = i}

LineConflict(i, p) == line[<<i, p.n>>].there /\ line[<<i, p.n>>].lock # p.key

NewLock(i, p, now) ==
    [imp |-> i, n |-> p.n, expires |-> now + LineTTL, resolved |-> FALSE, tx |-> Txs[Files[i][p.n]]]
NewLine(p, now) == [there |-> TRUE, status |-> "pending", expires |-> now + LineTTL, lock |-> p.key]

(* claim: locks and lines of a chunk in one transaction; a refused one is  *)
(* tried again without what others hold.  A line re-put over its own lock  *)
(* starts over as pending.                                                 *)
Claim(w) ==
    LET x     == work[w]
        i     == x.imp
        chunk == InChunk(x)
        free  == \A p \in chunk : Takeable(p.key, x.now)
    IN  /\ WorksAt(w, "claim") /\ chunk # {}
        /\ IF \E p \in chunk : LineConflict(i, p)
           THEN Works(w, OffWork) /\ UNCHANGED <<header, line, lockRow>>          \* ErrImportConflict
           ELSE IF ~header[i].there THEN Works(w, OffWork) /\ UNCHANGED <<header, line, lockRow>>
           ELSE IF free
           THEN /\ lockRow' = [k \in DOMAIN lockRow \cup {p.key : p \in chunk} |->
                                 IF \E p \in chunk : p.key = k
                                 THEN NewLock(i, CHOOSE p \in chunk : p.key = k, x.now)
                                 ELSE lockRow[k]]
                /\ line' = [l \in LineIds |->
                              IF \E p \in chunk : l = <<i, p.n>>
                              THEN NewLine(CHOOSE p \in chunk : l = <<i, p.n>>, x.now)
                              ELSE line[l]]
                /\ header' = [header EXCEPT ![i].lines = @ + Cardinality(chunk)]
                /\ Works(w, [x EXCEPT !.todo = @ \ chunk, !.got = TRUE])
           ELSE /\ Works(w, [x EXCEPT !.todo = (@ \ chunk) \cup Kept(i, chunk, x.now),
                                     !.got = @ \/ Mine(i, chunk, x.now) # {}])
                /\ UNCHANGED <<header, line, lockRow>>
        /\ UNCHANGED <<clock, used, bookings>>

(* An import that added nothing leaves no header.                          *)
Stored(w) ==
    LET x == work[w]
    IN  /\ WorksAt(w, "claim") /\ x.todo = {}
        /\ header' = [header EXCEPT ![x.imp] = IF ~x.got THEN NoRow ELSE @]
        /\ Works(w, OffWork)
        /\ UNCHANGED <<clock, line, lockRow, used, bookings>>

(* The request dies between two of its writes.                             *)
UploadDies(w) ==
    /\ WorksAt(w, "claim")
    /\ Works(w, OffWork)
    /\ UNCHANGED <<clock, header, line, lockRow, used, bookings>>

----------------------------------------------------------------------------
(* Decisions.                                                              *)

(* loadLine: of an import and a line that have not expired.                *)
LoadLine(w, l) ==
    /\ WorksAt(w, "off") /\ Alive(header[l[1]]) /\ Alive(line[l])
    /\ line[l].status \in {"pending", "ignored"}
    /\ Works(w, [at |-> "decide", of |-> l, status |-> line[l].status, lock |-> line[l].lock])
    /\ UNCHANGED <<clock, header, line, lockRow, used, bookings>>

BadDecidable(l, k) == line[l].status = "pending"

(* decide: the line is still pending and its lock still this import's.     *)
Decidable(l, k) == line[l].there /\ line[l].status = "pending" /\ lockRow[k].imp = l[1]

Decide(l, k, status) ==
    /\ line' = [line EXCEPT ![l].status = status]
    /\ lockRow' = [lockRow EXCEPT ![k].resolved = TRUE]
    /\ header' = [header EXCEPT ![l[1]].resolved = @ + 1]

Refused(w) ==
    /\ Works(w, OffWork)
    /\ UNCHANGED <<clock, header, line, lockRow, used, bookings>>

Booked(l) == bookings' = [bookings EXCEPT ![l] = @ + 1]

(* A decision on a pending line that takes a bill or a purchase with it,   *)
(* each of which takes one line.                                           *)
Takes(w, t, status) ==
    LET l == work[w].of
        k == work[w].lock
    IN  /\ WorksAt(w, "decide") /\ work[w].status = "pending"
        /\ IF Decidable(l, k) /\ header[l[1]].there /\ used[t] = {}
           THEN /\ Decide(l, k, status)
                /\ used' = [used EXCEPT ![t] = @ \cup {l}]
                /\ Booked(l) /\ Works(w, OffWork) /\ UNCHANGED clock
           ELSE Refused(w)

OfCard(w) == WorksAt(w, "decide") /\ work[w].of[1] \in CardFiles

(* Match settles an open bill by the line.                                 *)
Match(w, t) == ~OfCard(w) /\ t \in OpenBills /\ Takes(w, t, "matched")

(* Link marks a bill that auto-settle paid.                                *)
LinkLine(w, t) == ~OfCard(w) /\ t \in PaidBills /\ Takes(w, t, "linked")

(* ConfirmPair claims the pair row of a purchase of the statement.         *)
ConfirmPair(w, t) == OfCard(w) /\ t \in Purchased /\ Takes(w, t, "linked")

(* A bill, purchase or credit whose id comes from the line.                *)
CreateAs(w, status) ==
    LET l == work[w].of
        k == work[w].lock
    IN  /\ WorksAt(w, "decide") /\ work[w].status = "pending"
        /\ IF Decidable(l, k) /\ header[l[1]].there
           THEN Decide(l, k, status) /\ Booked(l) /\ Works(w, OffWork) /\ UNCHANGED <<clock, used>>
           ELSE Refused(w)

CreateFromLine(w)     == ~OfCard(w) /\ CreateAs(w, "created")
CreateFromCardLine(w) == OfCard(w) /\ CreateAs(w, "created")

Ignore(w) ==
    LET l == work[w].of
        k == work[w].lock
    IN  /\ WorksAt(w, "decide") /\ work[w].status = "pending"
        /\ IF Decidable(l, k) /\ header[l[1]].there
           THEN Decide(l, k, "ignored") /\ Works(w, OffWork) /\ UNCHANGED <<clock, used, bookings>>
           ELSE Refused(w)

(* Reopen takes an ignored line back, and its lock's mark with it.         *)
ReopenLine(w) ==
    LET l == work[w].of
        k == work[w].lock
    IN  /\ WorksAt(w, "decide") /\ work[w].status = "ignored"
        /\ IF line[l].there /\ line[l].status = "ignored" /\ lockRow[k].imp = l[1] /\ header[l[1]].there
           THEN /\ line' = [line EXCEPT ![l].status = "pending"]
                /\ lockRow' = [lockRow EXCEPT ![k].resolved = FALSE]
                /\ header' = [header EXCEPT ![l[1]].resolved = @ - 1]
                /\ Works(w, OffWork) /\ UNCHANGED <<clock, used, bookings>>
           ELSE Refused(w)

Days ==
    /\ clock < LastDate
    /\ clock' = clock + 1
    /\ UNCHANGED <<header, line, lockRow, used, bookings, work>>

ImportsNext ==
    \/ Days
    \/ \E w \in Importers :
        \/ Claim(w) \/ Stored(w) \/ UploadDies(w)
        \/ CreateFromLine(w) \/ CreateFromCardLine(w) \/ Ignore(w) \/ ReopenLine(w)
        \/ \E i \in Imps : Upload(w, i)
        \/ \E l \in LineIds : LoadLine(w, l)
        \/ \E t \in Targets : Match(w, t) \/ LinkLine(w, t) \/ ConfirmPair(w, t)

ImportsSpec == ImportsInit /\ [][ImportsNext]_impVars

----------------------------------------------------------------------------
(* A transaction that every file keys alike, by a key that is its alone: a *)
(* bank id given again to another transaction is not, and a lock that      *)
(* expired undecided may pass from one of them to the other.               *)
KeyedAlike(t) ==
    \A l, k \in LineIds : TxOf(l) = t => (TxOf(k) = t <=> KeyOf(k[1], k[2]) = KeyOf(l[1], l[2]))
BookedLines(t) == {l \in LineIds : TxOf(l) = t /\ bookings[l] > 0}

(* A bank transaction with a key of its own enters the books once,         *)
(* whatever files hold it, in whatever order they are uploaded, retried,   *)
(* expire and are decided (claim's lock and decide's condition on it); no  *)
(* line is booked twice, and a bill or a purchase takes one line.          *)
BookedOnce ==
    /\ \A l \in LineIds : bookings[l] <= 1
    /\ \A t \in DOMAIN Txs : KeyedAlike(t) => Cardinality(BookedLines(t)) <= 1
    /\ \A t \in Targets : Cardinality(used[t]) <= 1

(* Nothing real is taken for a duplicate: a transaction of a file that was *)
(* read to its end is a line of some import.                               *)
NoneDropped ==
    \A w \in Importers : (WorksAt(w, "claim") /\ work[w].todo = {}) =>
        \A n \in DOMAIN Files[work[w].imp] :
            \E l \in LineIds : line[l].there /\ TxOf(l) = Files[work[w].imp][n]

=============================================================================
