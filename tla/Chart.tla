------------------------------- MODULE Chart --------------------------------
(***************************************************************************)
(* The chart of accounts of one space and its settings row: how a space    *)
(* becomes usable (EnsureReady, which every finance route runs first), how *)
(* accounts are created, renamed and archived, and which account receives  *)
(* a paid invoice.  Requests interleave between their reads and writes,    *)
(* and may die there.                                                      *)
(***************************************************************************)
EXTENDS Naturals, FiniteSets, TLC

CONSTANTS
    SystemIds,     \* the system accounts, created with the space
    DefaultIds,    \* the default categories of the current seed version
    KeyedIds,      \* the defaults that carry a system_key since a later version
    BankIds,       \* the cash accounts people create
    ByokIds,       \* the cash accounts a bank connection creates
    NameOf,        \* default or account -> its name
    NewNames,      \* names people rename accounts to
    ChartUsers,
    OldSeed        \* the versions a space may have been seeded with before

SeedVersion == 3
NoAccount   == "none"
AllIds      == SystemIds \cup DefaultIds \cup BankIds \cup ByokIds

(* The four kinds of account have ids of their own; an old space was       *)
(* seeded by an earlier version than the current one.                      *)
ASSUME ChartAssumption ==
    /\ KeyedIds \subseteq DefaultIds
    /\ DefaultIds \cap (SystemIds \cup BankIds \cup ByokIds) = {}
    /\ OldSeed \subseteq 0..(SeedVersion - 1)

VARIABLES
    space,      \* the SPACE row: whether it is there, its seed version and settings
    chart,      \* account id -> its row, or Absent
    skipped,    \* the defaults a seeding left out because their name was taken
    session     \* request -> how far it is and what it read

chartVars == <<space, chart, skipped, session>>

Absent == [there |-> FALSE]
Row(name, class, key) ==
    [there |-> TRUE, name |-> name, class |-> class, key |-> key, archived |-> FALSE]
Resting == [at |-> "rest"]

In(id)       == chart[id].there
Taken(name)  == \E id \in AllIds : In(id) /\ chart[id].name = name
ClassOf(id)  == IF id \in BankIds \cup ByokIds THEN "asset"
                ELSE IF id \in SystemIds THEN "system" ELSE "category"

(* A space nobody opened, or one an earlier version seeded, without the    *)
(* system keys that came later and with any of its defaults archived.      *)
ChartInit ==
    /\ \E v \in OldSeed, gone \in SUBSET DefaultIds :
         IF v = 0 THEN /\ space = [there |-> FALSE, seed |-> 0, default |-> NoAccount, post |-> TRUE]
                       /\ chart = [id \in AllIds |-> Absent]
         ELSE /\ space = [there |-> TRUE, seed |-> v, default |-> NoAccount, post |-> TRUE]
              /\ chart = [id \in AllIds |->
                            IF id \in SystemIds \/ (id \in DefaultIds /\ v > 1)
                            THEN [Row(NameOf[id], ClassOf(id), FALSE) EXCEPT !.archived = id \in gone]
                            ELSE Absent]
    /\ skipped = {}
    /\ session = [c \in ChartUsers |-> Resting]

Sits(c, where) == session[c].at = where
Moves(c, r)    == session' = [session EXCEPT ![c] = r]

----------------------------------------------------------------------------
(* EnsureReady.                                                            *)

(* spaceState: a space at the current version needs nothing.               *)
SpaceState(c) ==
    /\ Sits(c, "rest")
    /\ Moves(c, [at |-> IF space.there /\ space.seed >= SeedVersion THEN "ready"
                        ELSE IF space.there THEN "seed" ELSE "create"])
    /\ UNCHANGED <<space, chart, skipped>>

(* EnsureSpace: the settings row and the system accounts, together and     *)
(* only if absent.                                                         *)
EnsureSpace(c) ==
    LET absent == ~space.there /\ \A id \in SystemIds : ~In(id)
    IN  /\ Sits(c, "create")
        /\ space' = IF absent THEN [space EXCEPT !.there = TRUE] ELSE space
        /\ chart' = IF absent THEN [id \in AllIds |-> IF id \in SystemIds THEN Row(NameOf[id], "system", TRUE)
                                                      ELSE chart[id]]
                    ELSE chart
        /\ Moves(c, [at |-> "seed"])
        /\ UNCHANGED skipped

(* SeedCategories: the version is looked at again, then the chart is read: *)
(* which defaults are missing with a free name, and which lack their key.  *)
SeedReads(c) ==
    /\ Sits(c, "seed")
    /\ IF space.seed >= SeedVersion
       THEN Moves(c, [at |-> "ready"]) /\ UNCHANGED skipped
       ELSE LET missing == {id \in DefaultIds : ~In(id)}
                free    == {id \in missing : ~Taken(NameOf[id])}
            IN  /\ Moves(c, [at |-> "put", left |-> free,
                             keys |-> {id \in KeyedIds : In(id) /\ ~chart[id].key}])
                /\ skipped' = skipped \cup (missing \ free)
    /\ UNCHANGED <<space, chart>>

(* Each default is a put of its own, if absent; each missing system_key an *)
(* update, if absent.                                                      *)
SeedPuts(c) ==
    /\ Sits(c, "put")
    /\ \/ \E id \in session[c].left :
            /\ chart' = IF In(id) THEN chart
                        ELSE [chart EXCEPT ![id] = Row(NameOf[id], "category", id \in KeyedIds)]
            /\ Moves(c, [session[c] EXCEPT !.left = @ \ {id}])
       \/ \E id \in session[c].keys :
            /\ chart' = [chart EXCEPT ![id].key = TRUE]
            /\ Moves(c, [session[c] EXCEPT !.keys = @ \ {id}])
    /\ UNCHANGED <<space, skipped>>

BadSeedEnds(c) ==
    /\ Sits(c, "put")
    /\ space' = [space EXCEPT !.seed = SeedVersion]
    /\ Moves(c, [at |-> "ready"])
    /\ UNCHANGED <<chart, skipped>>

(* The version last, without a condition.                                  *)
SeedEnds(c) ==
    /\ Sits(c, "put") /\ session[c].left = {} /\ session[c].keys = {}
    /\ space' = [space EXCEPT !.seed = SeedVersion]
    /\ Moves(c, [at |-> "ready"])
    /\ UNCHANGED <<chart, skipped>>

(* A request may die or lose its connection between any two of these.      *)
Dies(c) ==
    /\ ~Sits(c, "rest")
    /\ Moves(c, Resting)
    /\ UNCHANGED <<space, chart, skipped>>

----------------------------------------------------------------------------
(* Accounts.  Each route has gone through EnsureReady.                     *)

CreateAccount(c, id) ==
    /\ Sits(c, "ready") /\ id \in BankIds /\ ~In(id)
    /\ chart' = [chart EXCEPT ![id] = Row(NameOf[id], "asset", FALSE)]
    /\ Moves(c, Resting)
    /\ UNCHANGED <<space, skipped>>

(* EnsureByokAccount: the connection's own account, if absent.             *)
EnsureByokAccount(c, id) ==
    /\ Sits(c, "ready") /\ id \in ByokIds /\ ~In(id)
    /\ chart' = [chart EXCEPT ![id] = Row(NameOf[id], "asset", FALSE)]
    /\ Moves(c, Resting)
    /\ UNCHANGED <<space, skipped>>

(* ensureCategory: the posting of an invoice puts the category it needs.   *)
EnsureCategory(c, id) ==
    /\ Sits(c, "ready") /\ id \in KeyedIds
    /\ chart' = IF In(id) THEN chart ELSE [chart EXCEPT ![id] = Row(NameOf[id], "category", TRUE)]
    /\ Moves(c, Resting)
    /\ UNCHANGED <<space, skipped>>

CanArchive(id) == In(id) /\ chart[id].class # "system"

ArchiveChartAccount(c, id) ==
    /\ Sits(c, "ready") /\ CanArchive(id)
    /\ chart' = [chart EXCEPT ![id].archived = TRUE]
    /\ Moves(c, Resting)
    /\ UNCHANGED <<space, skipped>>

(* RenameAccount: refused again at the write when it was archived since.   *)
ReadRename(c, id, name) ==
    /\ Sits(c, "ready") /\ CanArchive(id) /\ ~chart[id].archived
    /\ Moves(c, [at |-> "rename", id |-> id, name |-> name])
    /\ UNCHANGED <<space, chart, skipped>>

RenameAccount(c) ==
    LET id == session[c].id
    IN  /\ Sits(c, "rename")
        /\ chart' = IF chart[id].archived THEN chart ELSE [chart EXCEPT ![id].name = session[c].name]
        /\ Moves(c, Resting)
        /\ UNCHANGED <<space, skipped>>

----------------------------------------------------------------------------
(* Settings.                                                               *)

SetPostCTechInvoices(c, on) ==
    /\ Sits(c, "ready")
    /\ space' = [space EXCEPT !.post = on]
    /\ Moves(c, Resting)
    /\ UNCHANGED <<chart, skipped>>

ReadDefaultReceiving(c, id) ==
    /\ Sits(c, "ready") /\ In(id) /\ chart[id].class = "asset" /\ ~chart[id].archived
    /\ Moves(c, [at |-> "default", id |-> id])
    /\ UNCHANGED <<space, chart, skipped>>

(* Written without a condition: the account may be archived by then.       *)
SetDefaultReceivingAccount(c) ==
    /\ Sits(c, "default")
    /\ space' = [space EXCEPT !.default = session[c].id]
    /\ Moves(c, Resting)
    /\ UNCHANGED <<chart, skipped>>

ClearDefaultReceivingAccount(c) ==
    /\ Sits(c, "ready")
    /\ space' = [space EXCEPT !.default = NoAccount]
    /\ Moves(c, Resting)
    /\ UNCHANGED <<chart, skipped>>

(* receivingAccount: the default if it is usable, else the only usable     *)
(* account; several or none is nowhere.                                    *)
UsableCash(id) == In(id) /\ id \in BankIds /\ ~chart[id].archived

ReceivingAccount ==
    LET usable == {id \in AllIds : UsableCash(id)}
    IN  IF space.default # NoAccount /\ UsableCash(space.default) THEN space.default
        ELSE IF Cardinality(usable) = 1 THEN CHOOSE id \in usable : TRUE ELSE NoAccount

ChartStep(c) ==
    \/ SpaceState(c) \/ EnsureSpace(c) \/ SeedReads(c) \/ SeedPuts(c) \/ SeedEnds(c) \/ Dies(c)
    \/ \E id \in AllIds :
         \/ CreateAccount(c, id) \/ EnsureByokAccount(c, id) \/ EnsureCategory(c, id)
         \/ ArchiveChartAccount(c, id) \/ ReadDefaultReceiving(c, id)
         \/ \E name \in NewNames : ReadRename(c, id, name)
    \/ RenameAccount(c) \/ SetDefaultReceivingAccount(c) \/ ClearDefaultReceivingAccount(c)
    \/ \E on \in BOOLEAN : SetPostCTechInvoices(c, on)

ChartNext == \E c \in ChartUsers : ChartStep(c)

ChartSpec == ChartInit /\ [][ChartNext]_chartVars

----------------------------------------------------------------------------
(* A space that says it is ready is complete: it has its system accounts   *)
(* and every default category with its key, except those whose name was    *)
(* taken when a seeding looked; however many first requests seeded it at   *)
(* once and wherever they died.  What it would receive an invoice into is  *)
(* active and kept by hand even when the setting went stale.               *)
ReadyIsComplete ==
    /\ (space.there /\ space.seed >= SeedVersion) =>
         /\ \A id \in SystemIds : In(id)
         /\ \A id \in DefaultIds \ skipped : In(id) /\ (id \in KeyedIds => chart[id].key)
    /\ ReceivingAccount # NoAccount => UsableCash(ReceivingAccount)

=============================================================================
