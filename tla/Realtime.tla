------------------------------ MODULE Realtime ------------------------------
(***************************************************************************)
(* The realtime stream: a change is logged in the transaction of what it   *)
(* reports and published after the commit; the gateway registers a         *)
(* connection, replays the log from the client's cursor and then passes on *)
(* what is published; the client applies a change once and remembers how   *)
(* far it has read.  The model follows one client (one tab, one cursor)    *)
(* through connections that break, drain, expire and fall behind.          *)
(*                                                                         *)
(* A change's id, and its revision, is the instant its process read the    *)
(* clock, at any time before the commit (a job hands one instant to all    *)
(* the writes of its run): ids order the log, not the commits, and 0 is    *)
(* the empty cursor.                                                       *)
(***************************************************************************)
EXTENDS Naturals, FiniteSets, Sequences, FiniteSetsExt

CONSTANTS
    MaxTime,      \* bounds the clock
    MaxChanges,   \* bounds the changes
    ChangeOverlap, ChangeTTL,
    QueueSize, ReplayMax, PageMax,
    EntityOf,     \* id -> the entity the change is about
    Scopes,       \* the keys a change may be logged under
    Mine,         \* the scopes the client's principal holds
    MaxFaults     \* bounds lost publishes, broken sockets and refusals

Ids == 1 .. MaxTime

ASSUME RealtimeAssumption ==
    /\ MaxTime \in Nat /\ ChangeOverlap \in Nat /\ ChangeTTL \in Nat /\ ChangeOverlap < ChangeTTL
    /\ QueueSize \in Nat \ {0} /\ DOMAIN EntityOf = Ids /\ Mine \subseteq Scopes

VARIABLES
    now,        \* the clock
    change,     \* id -> [st, to, behind]: where the change is, the scopes that may hear it, and
                \*       whether a later revision of its entity was committed before it
    link,       \* the server's side of the connection
    member,     \* whether the principal still holds its scopes
    tab,        \* the client
    poll,       \* the cursor request in flight
    shown,      \* the changes the client's screens reflect
    faults

rtVars == <<now, change, link, member, tab, poll, shown, faults>>

NoLink  == [at |-> "none", asked |-> 0, found |-> {}, queue |-> << >>]
NoPoll  == [at |-> "none", ids |-> {}, head |-> 0, gap |-> FALSE]
Frame(t, v) == [type |-> t, val |-> v]
Word(t, w)  == [type |-> t, why |-> w]

RealtimeInit ==
    /\ now = 0 /\ member = TRUE /\ faults = 0
    /\ change = [x \in Ids |-> [st |-> "none", to |-> {}, behind |-> FALSE]]
    /\ link = NoLink /\ poll = NoPoll /\ shown = {}
    /\ tab = [status |-> "connecting", cursor |-> 0, seen |-> {}, revisions |-> [e \in {EntityOf[x] : x \in Ids} |-> 0],
              replayPending |-> FALSE, held |-> FALSE]

----------------------------------------------------------------------------
(* The log.                                                                *)

Committed == {x \in Ids : change[x].st \in {"committed", "published", "lost"}}

(* The scopes of the client a change is logged under.                      *)
HeardUnder(x) == change[x].to \cap Mine

(* What the log still holds for the client's scopes.                       *)
InLog == {x \in Committed : HeardUnder(x) # {} /\ x + ChangeTTL > now}

LogHead == Max(InLog \cup {0})

CursorTooOld(c) == now - c > ChangeTTL - ChangeOverlap

(* Since: from ChangeOverlap before the cursor, in id order.               *)
Since(c) == {x \in InLog : x + ChangeOverlap >= c}

(* The request reads its clock and builds the change; the portal's scope   *)
(* is left out when the customer cannot be read.                           *)
BuildChange(to) ==
    /\ now \in Ids /\ change[now].st = "none"
    /\ Cardinality({x \in Ids : change[x].st # "none"}) < MaxChanges
    /\ change' = [change EXCEPT ![now] = [st |-> "built", to |-> to, behind |-> FALSE]]
    /\ UNCHANGED <<now, link, member, tab, poll, shown, faults>>

(* The transaction commits the change with what it reports, or never does: *)
(* at any later time, and behind a later revision of its entity too.       *)
Overtaken(x) == \E y \in Committed : EntityOf[y] = EntityOf[x] /\ y > x

CommitChange(x) ==
    /\ change[x].st = "built"
    /\ change' = [change EXCEPT ![x].st = "committed", ![x].behind = Overtaken(x)]
    /\ UNCHANGED <<now, link, member, tab, poll, shown, faults>>

----------------------------------------------------------------------------
(* A connection.                                                           *)

Finishing(k) == [k EXCEPT !.at = "finishing"]

(* Finish: what is queued is written, then the last frame.                 *)
Finish(k, f) == IF k.at = "finishing" THEN k ELSE [Finishing(k) EXCEPT !.queue = Append(k.queue, f)]

Full(k) == Len(k.queue) >= QueueSize

(* Send never blocks: a full queue is dropped and the connection ends with *)
(* a Gap.                                                                  *)
Send(k, f) ==
    IF k.at = "finishing" THEN k
    ELSE IF ~Full(k) THEN [k EXCEPT !.queue = Append(@, f)]
    ELSE [Finishing(k) EXCEPT !.queue = <<Word("gap", "slow_consumer")>>]

SendTwice(k, f) == Send(Send(k, f), f)

BadRegistered == link.at = "live"
Registered    == link.at \in {"added", "read", "live"}

(* After the commit: one broadcast a scope, to the connections registered. *)
PublishChange(x) ==
    /\ change[x].st = "committed"
    /\ change' = [change EXCEPT ![x].st = "published"]
    /\ link' = IF ~Registered \/ HeardUnder(x) = {} THEN link
               ELSE IF Cardinality(HeardUnder(x)) = 1 THEN Send(link, Frame("change", x))
               ELSE SendTwice(link, Frame("change", x))
    /\ UNCHANGED <<now, member, tab, poll, shown, faults>>

(* The process died after the commit, or the fan-out dropped it.           *)
PublishLost(x) ==
    /\ change[x].st = "committed" /\ faults < MaxFaults
    /\ change' = [change EXCEPT ![x].st = "lost"] /\ faults' = faults + 1
    /\ UNCHANGED <<now, link, member, tab, poll, shown>>

(* The hook opens a socket unless the core holds it or realtime is off.    *)
SocketMayOpen == ~tab.held /\ tab.status # "off"

(* onOpen: the first frame carries the cursor.                             *)
OnOpen ==
    /\ link = NoLink /\ SocketMayOpen
    /\ tab' = [tab EXCEPT !.replayPending = FALSE]
    /\ link' = [NoLink EXCEPT !.at = "auth", !.asked = tab.cursor]
    /\ UNCHANGED <<now, change, member, poll, shown, faults>>

Authorized == member

(* The console's members are asked about again: every scope still theirs.  *)
Recheck == member

(* The probe did not make the round trip.                                  *)
Degraded == faults < MaxFaults

(* serve: authorize, queue Ready (and a Hint while the fan-out is down),   *)
(* then register with the hub.                                             *)
Serve(degraded) ==
    /\ link.at = "auth" /\ Authorized /\ (degraded => Degraded)
    /\ faults' = IF degraded THEN faults + 1 ELSE faults
    /\ link' = [link EXCEPT !.at = "added",
                            !.queue = IF degraded THEN <<Frame("ready", 0), Frame("hint", 0)>>
                                        ELSE <<Frame("ready", 0)>>]
    /\ UNCHANGED <<now, change, member, tab, poll, shown>>

(* A principal that is not one, a check that is unavailable, a cap that is *)
(* reached or a process that drains.                                       *)
Refuse(why) ==
    /\ link.at = "auth"
    /\ IF Authorized THEN faults < MaxFaults /\ faults' = faults + 1
       ELSE why = "unauthorized" /\ UNCHANGED faults
    /\ link' = Finish(link, Word("bye", why))
    /\ UNCHANGED <<now, change, member, tab, poll, shown>>

(* The limiter counts the replays of all the principal's connections.      *)
LimiterRefuses == link.asked # 0 /\ faults < MaxFaults

(* More than a resume may replay.                                          *)
TooMuch(c) == Cardinality(Since(c)) > ReplayMax

(* replay reads the log, or answers with a Gap.                            *)
Gapped(why) == Send([link EXCEPT !.at = "live"], Word("gap", why))

ReplayReads(refused) ==
    /\ link.at = "added" /\ (refused => LimiterRefuses)
    /\ link' = IF link.asked = 0 THEN [link EXCEPT !.at = "live"]
               ELSE IF refused THEN Gapped("replay_limit")
               ELSE IF CursorTooOld(link.asked) THEN Gapped("cursor_too_old")
               ELSE IF TooMuch(link.asked) THEN Gapped("replay_limit")
               ELSE [link EXCEPT !.at = "read", !.found = Since(link.asked)]
    /\ faults' = IF refused THEN faults + 1 ELSE faults
    /\ UNCHANGED <<now, change, member, tab, poll, shown>>

(* ... and sends what it found, in id order; a change published meanwhile  *)
(* is already in the queue.                                                *)
ReplaySends ==
    /\ link.at \in {"read", "finishing"} /\ link.found # {}
    /\ link' = Send([link EXCEPT !.found = @ \ {Min(link.found)}], Frame("change", Min(link.found)))
    /\ UNCHANGED <<now, change, member, tab, poll, shown, faults>>

ReplayEnds ==
    /\ link.at = "read" /\ link.found = {}
    /\ link' = [link EXCEPT !.at = "live"]
    /\ UNCHANGED <<now, change, member, tab, poll, shown, faults>>

(* watch: a Tick carries the head, or the one read moments ago for another *)
(* connection.  A bound: a connection has at most one Tick unread.         *)
SendTick(head) ==
    /\ link.at = "live" /\ link.queue = << >>
    /\ head \in InLog \cup {0}
    /\ link' = Send(link, Frame("tick", head))
    /\ UNCHANGED <<now, change, member, tab, poll, shown, faults>>

SendHint ==
    /\ link.at = "live" /\ tab.status # "polling" /\ Degraded
    /\ link' = Send(link, Frame("hint", 0)) /\ faults' = faults + 1
    /\ UNCHANGED <<now, change, member, tab, poll, shown>>

(* The process drains, at any point of a connection.                       *)
Drain ==
    /\ Registered /\ faults < MaxFaults
    /\ link' = Finish(link, Word("bye", "draining")) /\ faults' = faults + 1
    /\ UNCHANGED <<now, change, member, tab, poll, shown>>

(* readLoop: too many frames, one that is none, or a Reauth that is not    *)
(* the same person with the same scopes.                                   *)
ReadLoop(why) ==
    /\ link.at = "live" /\ faults < MaxFaults
    /\ link' = Finish(link, Word("bye", why)) /\ faults' = faults + 1
    /\ UNCHANGED <<now, change, member, tab, poll, shown>>

(* watch: the token expires, or the recheck finds the membership gone.     *)
SayBye(why) ==
    /\ link.at = "live"
    /\ IF Recheck THEN why # "revoked" /\ faults < MaxFaults /\ faults' = faults + 1
       ELSE why = "revoked" /\ UNCHANGED faults
    /\ link' = Finish(link, Word("bye", why))
    /\ UNCHANGED <<now, change, member, tab, poll, shown>>

LeaveTenant ==
    /\ member /\ faults < MaxFaults /\ member' = FALSE /\ faults' = faults + 1
    /\ UNCHANGED <<now, change, link, tab, poll, shown>>

(* onClose: polling ends at a Ready, not at a close.                       *)
OnClose == IF tab.status = "live" /\ ~tab.held THEN "connecting" ELSE tab.status

(* The writer closed the socket after the last frame.                      *)
Closes ==
    /\ link.at = "finishing" /\ link.queue = << >> /\ link.found = {}
    /\ link' = NoLink /\ tab' = [tab EXCEPT !.status = OnClose]
    /\ UNCHANGED <<now, change, member, poll, shown, faults>>

(* The socket breaks, a process with it or not: what is queued is gone.    *)
Breaks ==
    /\ link # NoLink /\ faults < MaxFaults
    /\ link' = NoLink /\ tab' = [tab EXCEPT !.status = OnClose] /\ faults' = faults + 1
    /\ UNCHANGED <<now, change, member, poll, shown>>

----------------------------------------------------------------------------
(* The client.                                                             *)

(* The screens read the entity again.                                      *)
Refetched(x) == {y \in Committed : EntityOf[y] = EntityOf[x]}

(* applyChange: once by id, never an older revision of an entity.  A set   *)
(* is applied in id order.                                                 *)
Applies(x) == x \notin tab.seen /\ x >= tab.revisions[EntityOf[x]]

Applied(xs) ==
    [tab EXCEPT !.seen = @ \cup xs, !.cursor = Max(xs \cup {@}),
                !.revisions = [e \in DOMAIN @ |-> Max({@[e]} \cup {x \in xs : EntityOf[x] = e})]]

ApplyChanges(xs) ==
    /\ tab' = Applied(xs)
    /\ shown' = shown \cup UNION {Refetched(x) : x \in {x \in xs : Applies(x)}}

(* A Gap reloads the screens; only a slow reader keeps its cursor.         *)
OnGap(k, why) ==
    /\ tab' = [tab EXCEPT !.cursor = IF why = "slow_consumer" THEN @ ELSE 0]
    /\ shown' = Committed /\ link' = k

(* A head past the cursor asks for a replay, once: the socket is reopened. *)
OnTick(k, head) ==
    /\ UNCHANGED shown
    /\ IF head <= tab.cursor \/ (tab.cursor # 0 /\ tab.replayPending) THEN UNCHANGED tab /\ link' = k
       ELSE IF tab.cursor = 0 THEN tab' = [tab EXCEPT !.cursor = head] /\ link' = k
       ELSE tab' = [tab EXCEPT !.replayPending = TRUE, !.status = OnClose] /\ link' = NoLink

OnBye(k, why) ==
    /\ UNCHANGED shown /\ link' = k
    /\ tab' = CASE why = "draining"                         -> [tab EXCEPT !.status = "connecting", !.held = TRUE]
                [] why \in {"token_expired", "unauthorized"} -> [tab EXCEPT !.status = "waiting-token", !.held = TRUE]
                [] why = "revoked"                          -> [tab EXCEPT !.status = "revoked", !.held = TRUE, !.cursor = 0]
                [] OTHER                                    -> [tab EXCEPT !.status = "connecting"]

OnStatus(k, s) == tab' = [tab EXCEPT !.status = s] /\ link' = k /\ UNCHANGED shown

(* A frame the writer wrote reaches the client (onFrame).  A poller stops  *)
(* when the socket is live again.                                          *)
OnFrame ==
    /\ link.queue # << >>
    /\ LET f == Head(link.queue)
           k == [link EXCEPT !.queue = Tail(@)]
       IN  CASE f.type = "ready"  -> OnStatus(k, "live")
             [] f.type = "hint"   -> OnStatus(k, "polling")
             [] f.type = "change" -> ApplyChanges({f.val}) /\ link' = k
             [] f.type = "gap"    -> OnGap(k, f.why)
             [] f.type = "tick"   -> OnTick(k, f.val)
             [] f.type = "bye"    -> OnBye(k, f.why)
    /\ poll' = IF tab'.status = "polling" THEN poll ELSE NoPoll
    /\ UNCHANGED <<now, change, member, faults>>

(* onUnreachable: the socket has been down for too long.                   *)
OnUnreachable ==
    /\ link.at \in {"none", "auth"} /\ tab.status = "connecting"
    /\ tab' = [tab EXCEPT !.status = "polling"]
    /\ UNCHANGED <<now, change, link, member, poll, shown, faults>>

(* The cursor route: the head, and a page from the cursor.                 *)
Page(c) == LET found == Since(c) IN {x \in found : Cardinality({y \in found : y <= x}) <= PageMax}

PollAsks ==
    /\ tab.status = "polling" /\ poll = NoPoll /\ Authorized
    /\ poll' = [at |-> "asked", head |-> LogHead,
                ids |-> IF tab.cursor = 0 \/ CursorTooOld(tab.cursor) THEN {} ELSE Page(tab.cursor),
                gap |-> tab.cursor # 0 /\ CursorTooOld(tab.cursor)]
    /\ UNCHANGED <<now, change, link, member, tab, shown, faults>>

(* The answer arrives: a Gap, or every change through the core; with no    *)
(* cursor yet the answer's head is now.                                    *)
PollAnswers ==
    /\ poll.at = "asked"
    /\ poll' = NoPoll
    /\ IF poll.gap THEN OnGap(link, "cursor_too_old")
       ELSE IF poll.ids # {} \/ tab.cursor # 0 THEN ApplyChanges(poll.ids) /\ UNCHANGED link
       ELSE OnTick(link, poll.head)
    /\ UNCHANGED <<now, change, member, faults>>

(* The cursor route refuses the credential, or is switched off.            *)
PollRefused ==
    /\ tab.status = "polling" /\ poll = NoPoll /\ ~Authorized
    /\ OnBye(link, "unauthorized")
    /\ UNCHANGED <<now, change, member, poll, faults>>

OnDisabled ==
    /\ tab.status = "polling" /\ link = NoLink /\ faults < MaxFaults
    /\ tab' = [tab EXCEPT !.status = "off"] /\ poll' = NoPoll /\ faults' = MaxFaults
    /\ UNCHANGED <<now, change, link, member, shown>>

(* A fresh token ends the wait; a drain's wait ends by itself.             *)
OnToken ==
    /\ tab.status = "waiting-token" /\ member
    /\ tab' = [tab EXCEPT !.status = "connecting", !.held = FALSE]
    /\ UNCHANGED <<now, change, link, member, poll, shown, faults>>

ReleaseHold ==
    /\ tab.held /\ tab.status \in {"connecting", "polling"}
    /\ tab' = [tab EXCEPT !.held = FALSE]
    /\ UNCHANGED <<now, change, link, member, poll, shown, faults>>

(* The page is reloaded: the screens read everything, the core starts      *)
(* anew and resumes from the cursor in the session's storage.              *)
ReloadPage ==
    /\ faults < MaxFaults /\ faults' = faults + 1
    /\ shown' = Committed /\ link' = NoLink /\ poll' = NoPoll
    /\ tab' = [tab EXCEPT !.status = "connecting", !.seen = {}, !.held = FALSE, !.replayPending = FALSE,
                          !.revisions = [e \in DOMAIN @ |-> 0]]
    /\ UNCHANGED <<now, change, member>>

(* Another principal, mode or space: its cursor is forgotten and other     *)
(* screens load.                                                           *)
SwitchSurface ==
    /\ faults < MaxFaults /\ faults' = faults + 1
    /\ shown' = Committed /\ link' = NoLink /\ poll' = NoPoll
    /\ tab' = [tab EXCEPT !.status = "connecting", !.cursor = 0, !.seen = {}, !.held = FALSE, !.replayPending = FALSE,
                          !.revisions = [e \in DOMAIN @ |-> 0]]
    /\ UNCHANGED <<now, change, member>>

TimePasses ==
    /\ now < MaxTime /\ now' = now + 1
    /\ UNCHANGED <<change, link, member, tab, poll, shown, faults>>

RealtimeNext ==
    \/ \E to \in SUBSET Scopes : to # {} /\ BuildChange(to)
    \/ \E x \in Ids : CommitChange(x) \/ PublishChange(x) \/ PublishLost(x)
    \/ OnOpen \/ ReplaySends \/ ReplayEnds \/ SendHint \/ LeaveTenant \/ Closes \/ Breaks
    \/ \E b \in BOOLEAN : Serve(b) \/ ReplayReads(b)
    \/ \E h \in Ids \cup {0} : SendTick(h)
    \/ \E why \in {"unauthorized", "unavailable", "limit", "draining"} : Refuse(why)
    \/ \E why \in {"token_expired", "revoked"} : SayBye(why)
    \/ \E why \in {"limit", "bad_frame", "unauthorized"} : ReadLoop(why)
    \/ Drain \/ SwitchSurface
    \/ OnFrame \/ OnUnreachable \/ PollAsks \/ PollAnswers \/ PollRefused \/ OnDisabled \/ OnToken \/ ReleaseHold
    \/ ReloadPage \/ TimePasses

RealtimeSpec == RealtimeInit /\ [][RealtimeNext]_rtVars

----------------------------------------------------------------------------
(* Properties.                                                             *)

(* A client that resumed and has read all its connection sent it has dealt *)
(* with every change that was published and lies in the reach of its       *)
(* cursor: its screens show it, or it is one that was committed behind a   *)
(* later revision of its entity, which the core had applied and therefore  *)
(* dropped it.  What is committed while the replay is read is not missed   *)
(* between the replay and the registration (serve registers before it      *)
(* replays).                                                               *)
CaughtUp ==
    link.at = "live" /\ link.queue = << >> /\ link.asked # 0 =>
        \A x \in InLog : x + ChangeOverlap >= link.asked /\ change[x].st = "published" =>
            x \in shown \/ (change[x].behind /\ x < tab.revisions[EntityOf[x]])

=============================================================================
