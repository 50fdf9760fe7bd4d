------------------------------ MODULE Closure -------------------------------
(***************************************************************************)
(* Closing a merchant's billing account: a request confirmed by e-mail, a  *)
(* read-only grace, a last look at the blockers and at the owner, and the  *)
(* purge of the tenant's two modes.  Links are clicked twice, requests and *)
(* the worker overlap, and each may die between two writes.                *)
(***************************************************************************)
EXTENDS Naturals, FiniteSets

CONSTANTS
    Requests,     \* closure ids
    Clickers,     \* the owner's requests
    Workers,      \* the worker's passes
    MaxCrashes,   \* bounds the crashes
    MaxChanges    \* bounds new business of the tenant and changes of ownership

Nobody == "none"
Modes  == {"live", "test"}
Procs  == Clickers \cup Workers

ASSUME ClosureAssumption == Nobody \notin Requests /\ {MaxCrashes, MaxChanges} \subseteq Nat

VARIABLES
    closure,     \* request -> its state, and whether its window or grace is over
    marker,      \* the open closure of the workspace
    flag,        \* the closure that made the tenant read-only
    tenants,     \* the modes whose tenant row is there
    applications, tombstone,
    links,       \* the links e-mailed: <<"confirm" or "cancel", request>>
    business,    \* a live subscription, payment, payout or refund in flight
    owner,       \* whether the requester still owns the workspace
    proc,        \* process -> where it is
    crashes, changes

closureVars == <<closure, marker, flag, tenants, applications, tombstone, links, business, owner, proc, crashes, changes>>

Idle == [at |-> "idle"]

ClosureInit ==
    /\ closure = [c \in Requests |-> [state |-> "none", over |-> FALSE]]
    /\ marker = Nobody /\ flag = Nobody
    /\ tenants = Modes /\ applications = TRUE /\ tombstone = FALSE
    /\ links = {} /\ business = FALSE /\ owner = TRUE
    /\ proc = [p \in Procs |-> Idle]
    /\ crashes = 0 /\ changes = 0

IsOpen(s) == s \notin {"none", "cancelled", "expired", "closed"}

At(p, s)   == proc[p].at = s
Goes(p, r) == proc' = [proc EXCEPT ![p] = r]
World      == <<business, owner, crashes, changes>>
Rows       == <<tenants, applications, tombstone>>

----------------------------------------------------------------------------
(* The rows.                                                               *)

Creatable(c)    == closure[c].state = "none" /\ marker = Nobody

(* Create: the request and the workspace's marker, both if absent.         *)
Create(c) ==
    /\ closure' = [closure EXCEPT ![c].state = "awaiting"]
    /\ marker' = c

BadSavable(c, from) == TRUE
Savable(c, from)    == closure[c].state = from

(* Save: the row if its state is still the one it was read in, and the     *)
(* marker, deleted when the closure is over.                               *)
Save(c, from, to) ==
    /\ Savable(c, from)
    /\ IsOpen(to) => marker = c
    /\ closure' = [closure EXCEPT ![c] = [state |-> to, over |-> FALSE]]
    /\ marker' = IF IsOpen(to) THEN c ELSE Nobody

CanSave(c, from, to) == Savable(c, from) /\ (IsOpen(to) => marker = c)
NotSaved == UNCHANGED <<closure, marker>>

----------------------------------------------------------------------------
(* The owner.                                                              *)

(* Request: an owner, and nothing in the way.                              *)
RequestReads(p, c) ==
    /\ p \in Clickers /\ At(p, "idle") /\ closure[c].state = "none"
    /\ owner /\ tenants # {} /\ ~business
    /\ Goes(p, [at |-> "create", of |-> c, again |-> FALSE])
    /\ UNCHANGED <<closure, marker, flag, Rows, links, World>>

(* A request that was never confirmed gives way to a new one.              *)
RequestCreates(p) ==
    LET x == proc[p]
    IN  /\ At(p, "create")
        /\ IF Creatable(x.of) THEN Create(x.of) /\ Goes(p, [at |-> "mail", of |-> x.of])
           ELSE /\ Goes(p, IF ~x.again /\ marker # Nobody /\ closure[marker].state = "awaiting"
                           THEN [at |-> "expire", of |-> x.of, old |-> marker] ELSE Idle)
                /\ NotSaved
        /\ UNCHANGED <<flag, Rows, links, World>>

ExpireUnconfirmed(p) ==
    LET x == proc[p]
    IN  /\ At(p, "expire")
        /\ IF CanSave(x.old, "awaiting", "expired")
           THEN Save(x.old, "awaiting", "expired") /\ Goes(p, [at |-> "create", of |-> x.of, again |-> TRUE])
           ELSE NotSaved /\ Goes(p, Idle)
        /\ UNCHANGED <<flag, Rows, links, World>>

(* A request whose e-mail was not sent is released.                        *)
MailConfirm(p, sent) ==
    LET c == proc[p].of
    IN  /\ At(p, "mail")
        /\ links' = IF sent THEN links \cup {<<"confirm", c>>} ELSE links
        /\ IF ~sent /\ CanSave(c, "awaiting", "expired") THEN Save(c, "awaiting", "expired") ELSE NotSaved
        /\ Goes(p, Idle)
        /\ UNCHANGED <<flag, Rows, World>>

(* Confirm: a link clicked again on a closing request raises the flag      *)
(* again; one used late expires the request.                               *)
ConfirmReads(p, c) ==
    /\ p \in Clickers /\ At(p, "idle") /\ <<"confirm", c>> \in links /\ tenants # {}
    /\ \/ closure[c].state = "closing" /\ Goes(p, [at |-> "raise", of |-> c, mail |-> FALSE])
       \/ closure[c].state = "awaiting" /\ owner
          /\ Goes(p, [at |-> "confirm", of |-> c, to |-> IF closure[c].over THEN "expired" ELSE "closing"])
    /\ UNCHANGED <<closure, marker, flag, Rows, links, World>>

ConfirmSaves(p) ==
    LET x == proc[p]
    IN  /\ At(p, "confirm")
        /\ IF CanSave(x.of, "awaiting", x.to)
           THEN /\ Save(x.of, "awaiting", x.to)
                /\ Goes(p, IF x.to = "closing" THEN [at |-> "raise", of |-> x.of, mail |-> TRUE] ELSE Idle)
           ELSE NotSaved /\ Goes(p, Idle)
        /\ UNCHANGED <<flag, Rows, links, World>>

(* SetReadOnly on, and the link to cancel.                                 *)
RaiseFlag(p) ==
    LET x == proc[p]
    IN  /\ At(p, "raise")
        /\ flag' = x.of
        /\ links' = IF x.mail THEN links \cup {<<"cancel", x.of>>} ELSE links
        /\ Goes(p, Idle)
        /\ UNCHANGED <<closure, marker, Rows, World>>

CancelReads(p, c) ==
    /\ p \in Clickers /\ At(p, "idle") /\ <<"cancel", c>> \in links
    /\ closure[c].state \in {"closing", "blocked", "ready"}
    /\ Goes(p, [at |-> "cancel", of |-> c, from |-> closure[c].state])
    /\ UNCHANGED <<closure, marker, flag, Rows, links, World>>

CancelSaves(p) ==
    LET x == proc[p]
    IN  /\ At(p, "cancel")
        /\ IF CanSave(x.of, x.from, "cancelled")
           THEN Save(x.of, x.from, "cancelled") /\ Goes(p, [at |-> "lift"])
           ELSE NotSaved /\ Goes(p, Idle)
        /\ UNCHANGED <<flag, Rows, links, World>>

(* liftFlags: the flags of the tenants that are there.                     *)
LiftFlags(p) ==
    /\ At(p, "lift")
    /\ flag' = IF tenants = {} THEN flag ELSE Nobody
    /\ Goes(p, Idle)
    /\ UNCHANGED <<closure, marker, Rows, links, World>>

----------------------------------------------------------------------------
(* The worker.                                                             *)

(* ProcessDue, step: what the closure's state asks for.  Saving happens    *)
(* from the row as it was read; the blockers are read first.               *)
StepReads(w, c) ==
    LET s == closure[c].state
    IN  /\ w \in Workers /\ At(w, "idle")
        /\ \/ s = "awaiting" /\ closure[c].over /\ Goes(w, [at |-> "save", of |-> c, from |-> s, to |-> "expired"])
           \/ s = "closing" /\ closure[c].over /\ tenants # {}
              /\ Goes(w, [at |-> "save", of |-> c, from |-> s, to |-> IF business THEN "blocked" ELSE "ready"])
           \/ s = "ready"
              /\ Goes(w, [at |-> "save", of |-> c, from |-> s, to |-> IF owner THEN "purging" ELSE "cancelled"])
           \/ s = "purging" /\ Goes(w, [at |-> "purge", of |-> c])
        /\ UNCHANGED <<closure, marker, flag, Rows, links, World>>

(* A blocked closure is saved once more with a new link to cancel it.      *)
StepSaves(w) ==
    LET x    == proc[w]
        next == CASE x.to = "purging"   -> [at |-> "purge", of |-> x.of]
                  [] x.to = "cancelled" -> [at |-> "lift"]
                  [] x.to = "blocked"   -> [at |-> "token", of |-> x.of]
                  [] OTHER              -> Idle
    IN  /\ At(w, "save")
        /\ IF CanSave(x.of, x.from, x.to) THEN Save(x.of, x.from, x.to) /\ Goes(w, next)
           ELSE NotSaved /\ Goes(w, Idle)
        /\ UNCHANGED <<flag, Rows, links, World>>

BlockedMail(w) ==
    LET c == proc[w].of
    IN  /\ At(w, "token")
        /\ links' = IF CanSave(c, "blocked", "blocked") THEN links \cup {<<"cancel", c>>} ELSE links
        /\ Goes(w, Idle)
        /\ UNCHANGED <<closure, marker, flag, Rows, World>>

(* purge: the tenants that are left; none is an error.                     *)
PurgeReads(w) ==
    /\ At(w, "purge")
    /\ Goes(w, IF tenants = {} THEN Idle ELSE [at |-> "tenants", of |-> proc[w].of, left |-> tenants])
    /\ UNCHANGED <<closure, marker, flag, Rows, links, World>>

(* PurgeTenant: what names other rows after them, the tenant's row last.   *)
PurgeTenant(w, m) ==
    /\ At(w, "tenants") /\ m \in proc[w].left
    /\ tenants' = tenants \ {m}
    /\ business' = (business /\ m # "live")
    /\ Goes(w, [proc[w] EXCEPT !.left = @ \ {m}])
    /\ UNCHANGED <<closure, marker, flag, applications, tombstone, links, owner, crashes, changes>>

DeleteApplications(w) ==
    /\ At(w, "tenants") /\ proc[w].left = {}
    /\ applications' = FALSE
    /\ Goes(w, [at |-> "tombstone", of |-> proc[w].of])
    /\ UNCHANGED <<closure, marker, flag, tenants, tombstone, links, World>>

Tombstone(w) ==
    /\ At(w, "tombstone")
    /\ tombstone' = TRUE
    /\ Goes(w, [at |-> "unflag", of |-> proc[w].of])
    /\ UNCHANGED <<closure, marker, flag, tenants, applications, links, World>>

Unflag(w) ==
    /\ At(w, "unflag")
    /\ flag' = Nobody
    /\ Goes(w, [at |-> "save", of |-> proc[w].of, from |-> "purging", to |-> "closed"])
    /\ UNCHANGED <<closure, marker, Rows, links, World>>

----------------------------------------------------------------------------
(* The world.                                                              *)

(* A window or a grace period passes.                                      *)
TimePasses(c) ==
    /\ closure[c].state \in {"awaiting", "closing"} /\ ~closure[c].over
    /\ closure' = [closure EXCEPT ![c].over = TRUE]
    /\ UNCHANGED <<marker, flag, Rows, links, proc, World>>

(* New business is refused while the flag is up.                           *)
Subscribe ==
    /\ changes < MaxChanges /\ flag = Nobody /\ "live" \in tenants /\ ~business
    /\ business' = TRUE /\ changes' = changes + 1
    /\ UNCHANGED <<closure, marker, flag, Rows, links, proc, owner, crashes>>

BusinessEnds ==
    /\ business /\ business' = FALSE
    /\ UNCHANGED <<closure, marker, flag, Rows, links, proc, owner, crashes, changes>>

LoseOwnership ==
    /\ changes < MaxChanges /\ owner
    /\ owner' = FALSE /\ changes' = changes + 1
    /\ UNCHANGED <<closure, marker, flag, Rows, links, proc, business, crashes>>

Crash(p) ==
    /\ crashes < MaxCrashes /\ ~At(p, "idle")
    /\ crashes' = crashes + 1
    /\ Goes(p, Idle)
    /\ UNCHANGED <<closure, marker, flag, Rows, links, business, owner, changes>>

----------------------------------------------------------------------------

Working(p) ==
    \/ RequestCreates(p) \/ ExpireUnconfirmed(p) \/ ConfirmSaves(p) \/ RaiseFlag(p)
    \/ CancelSaves(p) \/ LiftFlags(p) \/ StepSaves(p) \/ BlockedMail(p)
    \/ PurgeReads(p) \/ DeleteApplications(p) \/ Tombstone(p) \/ Unflag(p)
    \/ \E m \in Modes : PurgeTenant(p, m)
    \/ \E sent \in BOOLEAN : MailConfirm(p, sent)

ClosureNext ==
    \/ \E p \in Procs : Working(p) \/ Crash(p)
    \/ \E p \in Procs, c \in Requests : RequestReads(p, c) \/ ConfirmReads(p, c) \/ CancelReads(p, c) \/ StepReads(p, c)
    \/ \E c \in Requests : TimePasses(c)
    \/ Subscribe \/ BusinessEnds \/ LoseOwnership

ClosureSpec == ClosureInit /\ [][ClosureNext]_closureVars

----------------------------------------------------------------------------
(* Properties.                                                             *)

(* Nothing of a tenant is deleted but by a closure that was started and    *)
(* can no longer be cancelled: whoever cancels, however late, either stops *)
(* the purge before its first row or is refused.                           *)
PurgeIsPastCancelling ==
    tenants # Modes \/ ~applications \/ tombstone =>
        \E c \in Requests : closure[c].state \in {"purging", "closed"}

=============================================================================
