------------------------------ MODULE Erasure -------------------------------
(***************************************************************************)
(* Erasing a person or a workspace: the message of the account service is  *)
(* delivered until it is acknowledged, and each delivery looks for debts,  *)
(* cancels and anonymizes, disconnects banks and purges partitions.  Some  *)
(* partitions are found only through rows of others; a run may die         *)
(* anywhere, and the next one starts over with what is left.               *)
(***************************************************************************)
EXTENDS Naturals, FiniteSets

CONSTANTS
    Names,        \* row of an owner's partition -> the child partitions it names
    Rank,         \* row -> the place of its table in the order of deletion
    Customers,    \* the customers of the person and of the workspaces
    Banks,        \* bank connections
    BankHooks,    \* connection -> its hook partitions, children too
    Erasers,      \* deliveries of the message
    MaxErasureCrashes    \* bounds the deaths of a run

TopRows  == DOMAIN Names
Children == UNION {Names[r] : r \in TopRows}

ASSUME ErasureAssumption ==
    /\ DOMAIN Rank = TopRows /\ MaxErasureCrashes \in Nat
    /\ DOMAIN BankHooks = Banks /\ \A b \in Banks : BankHooks[b] \subseteq Children

VARIABLES
    top,          \* the rows that are left
    children,     \* the child partitions that are left
    person,       \* customer -> subscription, personal data, level rows and open debt
    banksLeft,    \* the connections that are left
    eraser,       \* worker -> where it is
    acked,        \* what the account service was told: "no", "blocked" or "done"
    deaths

erasureVars == <<top, children, person, banksLeft, eraser, acked, deaths>>

NotErasing == [at |-> "idle"]

ErasureInit ==
    /\ top = TopRows /\ children = Children /\ banksLeft = Banks
    /\ person \in [Customers -> {[sub |-> TRUE, named |-> TRUE, levels |-> TRUE, debt |-> d] : d \in BOOLEAN}]
    /\ eraser = [w \in Erasers |-> NotErasing]
    /\ acked = "no" /\ deaths = 0

EraserAt(w, s)   == eraser[w].at = s
EraserGoes(w, r) == eraser' = [eraser EXCEPT ![w] = r]

----------------------------------------------------------------------------
(* Eraser.Purge.                                                           *)

(* A delivery of the message: the blockers, an open debt or a written-off  *)
(* one.  A blocked erasure is answered and asked for again later.          *)
Blockers(w) ==
    /\ EraserAt(w, "idle") /\ acked # "done"
    /\ IF \E c \in Customers : person[c].debt
       THEN acked' = "blocked" /\ UNCHANGED eraser
       ELSE EraserGoes(w, [at |-> "customers", left |-> Customers]) /\ UNCHANGED acked
    /\ UNCHANGED <<top, children, person, banksLeft, deaths>>

(* The debt is paid, or forgiven.                                          *)
Pay(c) ==
    /\ person[c].debt
    /\ person' = [person EXCEPT ![c].debt = FALSE]
    /\ UNCHANGED <<top, children, banksLeft, eraser, acked, deaths>>

(* The cycle job bills a subscription that still runs.                     *)
Bill(c) ==
    /\ person[c].sub /\ ~person[c].debt
    /\ person' = [person EXCEPT ![c].debt = TRUE]
    /\ UNCHANGED <<top, children, banksLeft, eraser, acked, deaths>>

(* eraseCustomer: its subscriptions end before its data goes.              *)
EraseCustomer(w, c) ==
    /\ EraserAt(w, "customers") /\ c \in eraser[w].left
    /\ IF person[c].sub
       THEN person' = [person EXCEPT ![c].sub = FALSE] /\ UNCHANGED eraser
       ELSE /\ person' = [person EXCEPT ![c].named = FALSE]
            /\ EraserGoes(w, [eraser[w] EXCEPT !.left = @ \ {c}])
    /\ UNCHANGED <<top, children, banksLeft, acked, deaths>>

(* The level rows of every customer that a meter of the catalogue names.   *)
WithoutLevels == [c \in Customers |-> [person[c] EXCEPT !.levels = FALSE]]

EraseLevels(w) ==
    /\ EraserAt(w, "customers") /\ eraser[w].left = {}
    /\ person' = WithoutLevels
    /\ EraserGoes(w, [at |-> "banks", left |-> banksLeft])
    /\ UNCHANGED <<top, children, banksLeft, acked, deaths>>

(* disconnectBanks: the hooks, which only the connection names, first.     *)
DisconnectBank(w, b) ==
    /\ EraserAt(w, "banks") /\ b \in eraser[w].left
    /\ IF BankHooks[b] \cap children # {}
       THEN children' = children \ BankHooks[b] /\ UNCHANGED <<banksLeft, top, eraser>>
       ELSE /\ banksLeft' = banksLeft \ {b} /\ top' = top \ {r \in TopRows : Names[r] = BankHooks[b]}
            /\ EraserGoes(w, [eraser[w] EXCEPT !.left = @ \ {b}]) /\ UNCHANGED children
    /\ UNCHANGED <<person, acked, deaths>>

----------------------------------------------------------------------------
(* PurgeSpace, and PurgeTenant's pointers: the partitions that the rows    *)
(* name, then the tables in order.                                         *)

NamedBy(rows) == UNION {Names[r] : r \in rows}

FindChildren(w) ==
    /\ EraserAt(w, "banks") /\ eraser[w].left = {}
    /\ EraserGoes(w, [at |-> "children", left |-> NamedBy(top)])
    /\ UNCHANGED <<top, children, person, banksLeft, acked, deaths>>

DeletePartition(w, k) ==
    /\ EraserAt(w, "children") /\ k \in eraser[w].left
    /\ children' = children \ {k}
    /\ EraserGoes(w, [eraser[w] EXCEPT !.left = @ \ {k}])
    /\ UNCHANGED <<top, person, banksLeft, acked, deaths>>

BadTablesMayGo(w) == TRUE
TablesMayGo(w)    == eraser[w].left = {}

(* deletePartitionRows: a page at a time, so a table may be left half way. *)
DeleteRow(w, r) ==
    /\ EraserAt(w, "children") /\ TablesMayGo(w)
    /\ r \in top /\ \A q \in top : Rank[r] <= Rank[q]
    /\ top' = top \ {r}
    /\ UNCHANGED <<children, person, banksLeft, eraser, acked, deaths>>

(* The acknowledgement, which may be lost: the message then comes again.   *)
Ack(w, heard) ==
    /\ EraserAt(w, "children") /\ eraser[w].left = {} /\ top = {}
    /\ acked' = IF heard THEN "done" ELSE acked
    /\ EraserGoes(w, NotErasing)
    /\ UNCHANGED <<top, children, person, banksLeft, deaths>>

EraserDies(w) ==
    /\ ~EraserAt(w, "idle") /\ deaths < MaxErasureCrashes
    /\ deaths' = deaths + 1
    /\ EraserGoes(w, NotErasing)
    /\ UNCHANGED <<top, children, person, banksLeft, acked>>

ErasureNext ==
    \/ \E w \in Erasers : Blockers(w) \/ EraseLevels(w) \/ FindChildren(w) \/ EraserDies(w)
    \/ \E w \in Erasers, c \in Customers : EraseCustomer(w, c)
    \/ \E w \in Erasers, b \in Banks : DisconnectBank(w, b)
    \/ \E w \in Erasers, k \in Children : DeletePartition(w, k)
    \/ \E w \in Erasers, r \in TopRows : DeleteRow(w, r)
    \/ \E w \in Erasers, heard \in BOOLEAN : Ack(w, heard)
    \/ \E c \in Customers : Pay(c) \/ Bill(c)

ErasureSpec == ErasureInit /\ [][ErasureNext]_erasureVars

----------------------------------------------------------------------------

(* An erasure can always be taken up again and is acknowledged only when   *)
(* complete: every partition that is left can still be found through a row *)
(* that is left, or by a run that has it in hand and is alone; and once    *)
(* the account service is told "done", no row, no child partition, no      *)
(* connection and no personal data is left, and no subscription goes on.   *)
ErasureIsResumable ==
    /\ children \subseteq NamedBy(top)
    /\ acked = "done" =>
         /\ top = {} /\ children = {} /\ banksLeft = {}
         /\ \A c \in Customers : ~person[c].sub /\ ~person[c].named /\ ~person[c].levels
=============================================================================
