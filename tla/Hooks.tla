------------------------------- MODULE Hooks --------------------------------
(***************************************************************************)
(* A connection's payment notices: the hook row and its secret here, the   *)
(* URL the bank keeps for each Pix key there, and the requests that        *)
(* register it, move it to another key, make the connection the tenant's   *)
(* collection rail or take everything down again.  The bank has no         *)
(* conditional write, any call may fail, the hourly job saves the same     *)
(* row, and a rotated secret is accepted for a while only.                 *)
(***************************************************************************)
EXTENDS Naturals

CONSTANTS
    Keys,         \* Pix keys
    KnownKeys,    \* those the bank has on this account
    Asks,         \* console requests
    MaxLives,     \* bounds the connections made (Connections has what one leaves to the next)
    MaxHooks,     \* bounds the hook ids
    MaxSecrets,   \* bounds the secrets issued
    MaxSaves,     \* bounds the revision of the connection row
    MaxForeign    \* bounds the registrations of other systems

ASSUME HooksAssumption ==
    /\ KnownKeys \subseteq Keys /\ {MaxLives, MaxHooks, MaxSecrets, MaxSaves, MaxForeign} \subseteq Nat
    /\ "job" \notin Asks

VARIABLES
    row,        \* the connection: its revision, hook, webhook status and key
    hooks,      \* hook id -> its row: the current secret and the previous one
    bank,       \* key -> the URL registered for it
    rail,       \* whether the tenant collects through the connection
    charges,    \* whether charges are open at the bank
    issued,     \* connections, hook ids and secrets so far
    foreign,    \* registrations of other systems so far
    torn,       \* whether a disconnect took our URL down
    ask         \* process -> where it is

hookVars == <<row, hooks, bank, rail, charges, issued, foreign, torn, ask>>

Job     == "job"
Asking  == Asks \cup {Job}
Rest    == [at |-> "idle"]
NoRow   == [rev |-> 0, hook |-> 0, status |-> "none", key |-> "none"]
NoHook  == [cur |-> 0, prev |-> 0]
NoUrl   == [owner |-> "none", hook |-> 0, secret |-> 0]
Their   == [owner |-> "other", hook |-> 0, secret |-> 0]
Url(h, s) == [owner |-> "us", hook |-> h, secret |-> s]

HooksInit ==
    /\ row = NoRow
    /\ hooks = [h \in 1..MaxHooks |-> NoHook]
    /\ bank \in [Keys -> {NoUrl, Their}]
    /\ rail = FALSE /\ charges = FALSE /\ torn = FALSE
    /\ issued = [lives |-> 0, hooks |-> 0, secrets |-> 0]
    /\ foreign = 0
    /\ ask = [a \in Asking |-> Rest]

There        == row.rev > 0
On(a, s)     == ask[a].at = s
AskMoves(a, r)  == ask' = [ask EXCEPT ![a] = r]
Steps(a, s)  == AskMoves(a, [ask[a] EXCEPT !.at = s])
AskEnds(a)      == AskMoves(a, Rest)
Held(a)      == ask[a].c

(* IsOurHookURL: this hook's URL, whatever secret it carries.              *)
IsOurs(url, h) == url.owner = "us" /\ h # 0 /\ url.hook = h

(* SaveConnection: the row if its revision is the one read.                *)
Current(c) == row.rev = c.rev

SaveRow(c) ==
    /\ c.rev < MaxSaves
    /\ row' = IF Current(c) THEN [c EXCEPT !.rev = @ + 1] ELSE row

Surroundings == <<rail, charges, foreign, torn>>

----------------------------------------------------------------------------
(* Registering the notice.                                                 *)

ConnectBank(k) ==
    /\ ~ There /\ issued.lives < MaxLives
    /\ row' = [NoRow EXCEPT !.rev = 1, !.key = k]
    /\ issued' = [issued EXCEPT !.lives = @ + 1]
    /\ UNCHANGED <<hooks, bank, ask, Surroundings>>

Begins(c, replace, change) ==
    [at |-> "get", c |-> c, replace |-> replace, change |-> change, from |-> row.key, was |-> row.hook,
     url |-> NoUrl]

RegisterWebhook(a, replace) ==
    /\ On(a, "idle") /\ There
    /\ AskMoves(a, Begins(row, replace, FALSE))
    /\ UNCHANGED <<row, hooks, bank, issued, Surroundings>>

(* ChangePixKey: refused while charges are open; the notice is registered  *)
(* for the next key first.                                                 *)
ChangePixKey(a, k, replace) ==
    /\ On(a, "idle") /\ There /\ k # row.key /\ ~ charges
    /\ AskMoves(a, Begins([row EXCEPT !.key = k], replace, TRUE))
    /\ UNCHANGED <<row, hooks, bank, issued, Surroundings>>

(* register, its GET: ours is left alone, another's is a conflict unless   *)
(* it is to be replaced.                                                   *)
GetWebhook(a) ==
    /\ On(a, "get")
    /\ LET c == Held(a)  url == bank[c.key] IN
       AskMoves(a, IF IsOurs(url, c.hook)
                  THEN [ask[a] EXCEPT !.at = IF c.status = "registered" THEN "registered" ELSE "mark",
                                      !.c.status = "registered"]
                ELSE IF url # NoUrl /\ ~ ask[a].replace
                  THEN [ask[a] EXCEPT !.at = "mark", !.c.status = "conflict"]
                ELSE [ask[a] EXCEPT !.at = "issue"])
    /\ UNCHANGED <<row, hooks, bank, issued, Surroundings>>

(* IssueHook: a new hook, or a new secret for the hook there is, the old   *)
(* one kept for a while.                                                   *)
IssueHook(a) ==
    /\ On(a, "issue") /\ issued.secrets < MaxSecrets
    /\ LET c == Held(a)
           fresh == c.hook = 0
           h == IF fresh THEN issued.hooks + 1 ELSE c.hook
           s == issued.secrets + 1 IN
       /\ fresh => issued.hooks < MaxHooks
       /\ hooks' = [hooks EXCEPT ![h] = [cur |-> s, prev |-> @.cur]]
       /\ issued' = [issued EXCEPT !.hooks = IF fresh THEN h ELSE @, !.secrets = s]
       /\ AskMoves(a, [ask[a] EXCEPT !.at = "put", !.url = Url(h, s)])
    /\ UNCHANGED <<row, bank, Surroundings>>

BadPutFails(a) == AskMoves(a, [ask[a] EXCEPT !.at = "mark", !.c.hook = ask[a].url.hook, !.c.status = "registered"])
PutFails(a)    == AskEnds(a)

(* The PUT: an unknown key, or the bank, refuses it.                       *)
PutWebhook(a) ==
    /\ On(a, "put")
    /\ \/ /\ Held(a).key \in KnownKeys
          /\ bank' = [bank EXCEPT ![Held(a).key] = ask[a].url]
          /\ AskMoves(a, [ask[a] EXCEPT !.at = "mark", !.c.hook = ask[a].url.hook, !.c.status = "registered"])
       \/ PutFails(a) /\ UNCHANGED bank
    /\ UNCHANGED <<row, hooks, issued, Surroundings>>

(* The save at register's end.  A change of key saves once more.           *)
MarkWebhook(a) ==
    /\ On(a, "mark")
    /\ SaveRow(Held(a))
    /\ IF Current(Held(a)) /\ ask[a].change
         THEN AskMoves(a, [ask[a] EXCEPT !.at = "again", !.c.rev = @ + 1])
         ELSE AskEnds(a)
    /\ UNCHANGED <<hooks, bank, issued, Surroundings>>

AlreadyRegistered(a) ==
    /\ On(a, "registered")
    /\ IF ask[a].change THEN Steps(a, "again") ELSE AskEnds(a)
    /\ UNCHANGED <<row, hooks, bank, issued, Surroundings>>

SaveKey(a) ==
    /\ On(a, "again")
    /\ SaveRow(Held(a))
    /\ IF Current(Held(a)) /\ Held(a).status = "registered" /\ ask[a].was # 0
         THEN Steps(a, "cleanup") ELSE AskEnds(a)
    /\ UNCHANGED <<hooks, bank, issued, Surroundings>>

(* deleteOurWebhook of the old key, best effort.                           *)
DeleteOurs(k, h) == bank' = IF IsOurs(bank[k], h) THEN [bank EXCEPT ![k] = NoUrl] ELSE bank

RemoveOldNotice(a) ==
    /\ On(a, "cleanup")
    /\ DeleteOurs(ask[a].from, ask[a].was) \/ UNCHANGED bank
    /\ AskEnds(a)
    /\ UNCHANGED <<row, hooks, issued, Surroundings>>

----------------------------------------------------------------------------
(* The collection rail.                                                    *)

UseForCollection(a) ==
    /\ On(a, "idle") /\ There
    /\ AskMoves(a, [at |-> "rail", c |-> row, rail |-> rail])
    /\ UNCHANGED <<row, hooks, bank, issued, Surroundings>>

(* SetPayoutRail, if the gate is as it was read; then the notice, whose    *)
(* failure is only logged.                                                 *)
SetPayoutRail(a) ==
    /\ On(a, "rail")
    /\ LET c == Held(a)  holds == rail = ask[a].rail IN
       /\ rail' = (rail \/ holds)
       /\ IF holds /\ c.status # "registered"
            THEN AskMoves(a, Begins(c, FALSE, FALSE))
            ELSE AskEnds(a)
    /\ UNCHANGED <<row, hooks, bank, issued, charges, foreign, torn>>

OpenCharge ==
    /\ rail /\ There /\ ~ charges
    /\ charges' = TRUE
    /\ UNCHANGED <<row, hooks, bank, rail, issued, foreign, torn, ask>>

ChargeEnds ==
    /\ charges
    /\ charges' = FALSE
    /\ UNCHANGED <<row, hooks, bank, rail, issued, foreign, torn, ask>>

(* Disconnect: open charges are refused unless they are to be cancelled.   *)
Unlink(a, cancel, force) ==
    /\ On(a, "idle") /\ There /\ (charges => cancel)
    /\ AskMoves(a, [at |-> "unhook", c |-> row, rail |-> rail, open |-> charges, force |-> force])
    /\ UNCHANGED <<row, hooks, bank, issued, Surroundings>>

(* The charges, then our URL; the bank being down stops it unless forced.  *)
CancelAndUnhook(a) ==
    /\ On(a, "unhook")
    /\ \/ /\ charges' = (charges /\ ~ ask[a].open) \/ (ask[a].force /\ UNCHANGED charges)
          /\ DeleteOurs(Held(a).key, Held(a).hook) \/ (ask[a].force /\ UNCHANGED bank)
          /\ torn' = (torn \/ bank' # bank)
          /\ Steps(a, "delete")
       \/ /\ ~ ask[a].force
          /\ AskEnds(a)
          /\ charges' \in {charges, charges /\ ~ ask[a].open}
          /\ UNCHANGED <<bank, torn>>
    /\ UNCHANGED <<row, hooks, rail, issued, foreign>>

DropConnection(a) ==
    /\ On(a, "delete")
    /\ row' = NoRow
    /\ Steps(a, "hookrow")
    /\ UNCHANGED <<hooks, bank, issued, Surroundings>>

DeleteHook(a) ==
    /\ On(a, "hookrow")
    /\ hooks' = IF Held(a).hook = 0 THEN hooks ELSE [hooks EXCEPT ![Held(a).hook] = NoHook]
    /\ IF ask[a].rail THEN Steps(a, "unrail") ELSE AskEnds(a)
    /\ UNCHANGED <<row, bank, issued, Surroundings>>

LeaveRail(a) ==
    /\ On(a, "unrail")
    /\ rail' = FALSE
    /\ AskEnds(a)
    /\ UNCHANGED <<row, hooks, bank, issued, charges, foreign, torn>>

----------------------------------------------------------------------------
(* The hourly job: its audit of the notice, and its saves of the row.      *)

JobReads ==
    /\ On(Job, "idle") /\ There
    /\ AskMoves(Job, [at |-> "audit", c |-> row])
    /\ UNCHANGED <<row, hooks, bank, issued, Surroundings>>

Audit ==
    /\ On(Job, "audit")
    /\ LET c == Held(Job)  lost == c.hook # 0 /\ c.status = "registered" /\ ~ IsOurs(bank[c.key], c.hook) IN
       AskMoves(Job, [at |-> "save", c |-> IF lost THEN [c EXCEPT !.status = "overwritten"] ELSE c])
    /\ UNCHANGED <<row, hooks, bank, issued, Surroundings>>

JobSaves ==
    /\ On(Job, "save")
    /\ SaveRow(Held(Job))
    /\ AskEnds(Job)
    /\ UNCHANGED <<hooks, bank, issued, Surroundings>>

(* The world: another system's registration, the end of an old secret, and *)
(* deaths.                                                                 *)
OtherRegisters(k) ==
    /\ foreign < MaxForeign
    /\ bank' = [bank EXCEPT ![k] = Their]
    /\ foreign' = foreign + 1
    /\ UNCHANGED <<row, hooks, issued, rail, charges, torn, ask>>

OverlapEnds(h) ==
    /\ hooks[h].prev # 0
    /\ hooks' = [hooks EXCEPT ![h].prev = 0]
    /\ UNCHANGED <<row, bank, issued, ask, Surroundings>>

Perishes(a) ==
    /\ ~ On(a, "idle")
    /\ AskEnds(a)
    /\ UNCHANGED <<row, hooks, bank, issued, Surroundings>>

HooksNext ==
    \/ \E k \in KnownKeys : ConnectBank(k)
    \/ \E k \in Keys : OtherRegisters(k)
    \/ \E a \in Asks, b \in BOOLEAN :
         \/ RegisterWebhook(a, b)
         \/ \E k \in Keys : ChangePixKey(a, k, b)
         \/ \E f \in BOOLEAN : Unlink(a, b, f)
    \/ \E a \in Asks :
         \/ GetWebhook(a) \/ IssueHook(a) \/ PutWebhook(a) \/ MarkWebhook(a) \/ AlreadyRegistered(a)
         \/ SaveKey(a) \/ RemoveOldNotice(a) \/ UseForCollection(a) \/ SetPayoutRail(a)
         \/ CancelAndUnhook(a) \/ DropConnection(a) \/ DeleteHook(a) \/ LeaveRail(a)
    \/ \E a \in Asking : Perishes(a)
    \/ OpenCharge \/ ChargeEnds \/ JobReads \/ Audit \/ JobSaves
    \/ \E h \in 1..MaxHooks : OverlapEnds(h)

HooksSpec == HooksInit /\ [][HooksNext]_hookVars

----------------------------------------------------------------------------
(* A connection that says its notice is registered has its own URL at the  *)
(* bank for its key, unless another system took the key since or a         *)
(* disconnect that then stopped removed it: failed calls, lost saves and   *)
(* deaths between the PUT and the save never leave the word without the    *)
(* URL.  Over one life of the connection and with one console request at a *)
(* time beside the job: the PUT of a second request replaces the URL that  *)
(* the first one's save then names, and a job's copy of a former life is   *)
(* saved over a new row of the same revision.                              *)
RegisteredIsOurs ==
    row.status = "registered" =>
        \/ IsOurs(bank[row.key], row.hook)
        \/ bank[row.key] = Their
        \/ torn

(* HookMatches: the secrets a notice may carry.                            *)
HookMatches(url) == url.owner = "us" /\ url.secret \in {hooks[url.hook].cur, hooks[url.hook].prev} \ {0}

(* The notices the bank sends to a registered URL of ours are accepted,    *)
(* with no request under way: a key the bank does not know changes         *)
(* nothing.                                                                *)
RegisteredIsHeard ==
    (/\ row.status = "registered"
     /\ IsOurs(bank[row.key], row.hook)
     /\ \A a \in Asks : On(a, "idle")) => HookMatches(bank[row.key])
=============================================================================
