------------------------------- MODULE MCBank -------------------------------
(***************************************************************************)
(* The bank statement, the cards and the imports for TLC.  They share no   *)
(* variable: a behaviour runs one of them, chosen at the start, and the    *)
(* state space is the sum of theirs.                                       *)
(***************************************************************************)
EXTENDS Statement, Cards, Imports

CONSTANTS x1, x2     \* the two processes of every module

VARIABLE part

(* A module that does not run starts in one of its initial states.         *)
Init ==
    /\ part \in {"statement", "cards", "imports"}
    /\ StatementInit /\ CardsInit /\ ImportsInit
    /\ part # "statement" => conn = NewConn(TRUE, 1, ConnectDay) /\ listing = CHOOSE l \in Listings : TRUE
    /\ row.closing = 1

----------------------------------------------------------------------------
(* Bounds: the overlaps this run leaves out.                               *)

(* A person posts, and a connection that booked something is removed and   *)
(* made again on the last day, between the syncs;                          *)
(* a charge settles, a lock expires and a sync begins while the others are *)
(* between two lines or at a post.                                         *)
QuietSyncs == \A q \in Syncs : Out(q, "idle")
BetweenCalls == \A q \in Syncs : sync[q].at \in {"idle", "lines", "post"}
StatementBound ==
    /\ (charge' # charge /\ sync' = sync) => BetweenCalls
    /\ (holder' = NoOne /\ conn' = conn /\ holder # NoOne /\ ~Out(holder, "balance")) => BetweenCalls
    /\ started' # started => BetweenCalls
    /\ (entry' # entry /\ sync' = sync) => QuietSyncs
    /\ conn'.there # conn.there => QuietSyncs /\ DOMAIN locks # {} /\ (conn'.there => bankDay = LastDay)

(* The card's own row changes between its requests: the closing day once,  *)
(* with items on the first statement, and the card is archived once it has *)
(* a bill.  A credit meets nothing but a closing or a reopening, an edit   *)
(* nothing but a write on the same purchase; a day ends, and a bill is     *)
(* settled or canceled, beside a closing or reopening.                     *)
CardBound ==
    /\ date' # date => \A u \in CardUsers : at[u].op \in {Free, "load", "close"}
    /\ (cardBill' # cardBill /\ at' = at) => \A u \in CardUsers : at[u].op \in {Free, "close", "reopen"}
    /\ \A u, v \in CardUsers :
        /\ u # v /\ at'[u].op = "credit" => at'[v].op \in {Free, "load", "close", "reopen"}
        /\ at'[u].op = "advance" => \A k \in DOMAIN item' : k[3] # Credit
        /\ u # v /\ at'[u].op = "edit" => at'[v].op \in {Free, "refund", "advance", "edit"}
    /\ row.closing # row'.closing =>
         row'.closing = 2 /\ row.open = 0 /\ DOMAIN item # {} /\ \A u \in CardUsers : Is(u, Free)
    /\ row.archived # row'.archived => DOMAIN cardBill # {} /\ \A u \in CardUsers : Is(u, Free)

(* Uploads begin on the first or the last day, a card's file apart from    *)
(* the account's, of which i1 comes first (they mirror each other);        *)
(* two decisions at once are about one line, an ignored     *)
(* line is taken back alone, and one bill or purchase is taken.            *)
ImportBound ==
    /\ \A w, v \in Importers :
        (w # v /\ work'[w].at = "decide" /\ work'[w].status = "ignored") => work'[v].at = "off"
    /\ Cardinality({t \in Targets : used'[t] # {}}) <= 1
    /\ \A w, v \in Importers :
        /\ (w # v /\ work'[w].at = "decide" /\ work'[v].at = "decide") => work'[w].of = work'[v].of
        /\ (work[w].at = "off" /\ work'[w].at = "claim") =>
             /\ clock \in {0, LastDate}
             /\ work'[w].imp = "i2" => header["i1"].there
             /\ \A i \in Imps : header[i].there => (i \in CardFiles <=> work'[w].imp \in CardFiles)

----------------------------------------------------------------------------
Next ==
    \/ part = "statement" /\ StatementNext /\ StatementBound /\ UNCHANGED <<part, cardVars, impVars>>
    \/ part = "cards" /\ CardsNext /\ CardBound /\ UNCHANGED <<part, stVars, impVars>>
    \/ part = "imports" /\ ImportsNext /\ ImportBound /\ UNCHANGED <<part, stVars, cardVars>>

Spec == Init /\ [][Next]_<<part, stVars, cardVars, impVars>>

MCSymmetry == Permutations({x1, x2})

(* The payment of a charge listed twice, the second time with its id       *)
(* moved and beside a line it may be taken for; or once, with interest and *)
(* without its id.                                                         *)
MCListings == {{[no |-> 1, id |-> 1, day |-> 1, amount |-> 2, ref |-> "none", pay |-> "p0", bare |-> FALSE],
                [no |-> 2, id |-> 1, day |-> 2, amount |-> 2, ref |-> "c1", pay |-> "p2", bare |-> TRUE]},
               {[no |-> 3, id |-> 1, day |-> 1, amount |-> 3, ref |-> "c1", pay |-> "none", bare |-> FALSE]}}
MCOwed     == [c1 |-> 2]
MCPaid     == [c1 |-> "p2"]

MCPurchases == [p1 |-> [total |-> 5, n |-> 2, day |-> 2]]
MCCredits   == [c1 |-> 4]

(* Two overlapping exports of an account that reuse a bank id, and a       *)
(* card's.                                                                 *)
MCTxs   == [t1 |-> [fitid |-> "x", date |-> 1, amount |-> 5], t2 |-> [fitid |-> "x", date |-> 2, amount |-> 7],
            t3 |-> [fitid |-> NoFitid, date |-> 1, amount |-> 4], t5 |-> [fitid |-> NoFitid, date |-> 3, amount |-> 9]]
MCFiles == [i1 |-> <<"t1", "t3">>, i2 |-> <<"t3", "t2">>, i3 |-> <<"t5">>]
=============================================================================
