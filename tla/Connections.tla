---------------------------- MODULE Connections -----------------------------
(***************************************************************************)
(* An organization's bank connections: connecting under the plan's quota,  *)
(* testing, renewing the certificate, disconnecting, and the hourly job    *)
(* with its certificate notices.  A connection is a hot row and a sealed   *)
(* bundle; requests, the job and the backfill each hold a copy of the row  *)
(* and save it under its revision.                                         *)
(***************************************************************************)
EXTENDS Naturals, FiniteSets

CONSTANTS
    Providers,     \* the banks
    Quota,         \* the plan's bank connections
    Callers,       \* console requests, and the backfill a connection starts
    JobRuns,       \* workers of the hourly job
    Life,          \* how long a new certificate lasts
    MaxClock,      \* bounds the clock
    MaxMade,       \* bounds the connections made
    MaxRevision    \* bounds the saves of a connection

ASSUME ConnectionsAssumption ==
    IsFiniteSet(Providers) /\ {Quota, Life, MaxClock, MaxMade, MaxRevision} \subseteq Nat /\ Life > 0

VARIABLES
    conn,      \* provider -> the hot row
    sealed,    \* provider -> the connection and version the bundle was sealed for
    guard,     \* the organization's connection guard
    told,      \* the certificate notices sent: <<id, version, threshold>>
    clock, made,
    holder     \* process -> where it is, and the row it read

connVars == <<conn, sealed, guard, told, clock, made, holder>>

Holders == Callers \cup JobRuns
Nothing == [at |-> "idle"]
NoConn  == [state |-> "none", id |-> 0, rev |-> 0, version |-> 0, notAfter |-> 0, warned |-> 0]
NoSeal  == <<0, 0>>

ConnectionsInit ==
    /\ conn = [p \in Providers |-> NoConn]
    /\ sealed = [p \in Providers |-> NoSeal]
    /\ guard = 0 /\ clock = 0 /\ made = 0
    /\ told = {}
    /\ holder = [h \in Holders |-> Nothing]

Connected(p) == conn[p].state \in {"active", "expired"}
Is(h, s)     == holder[h].at = s
Turns(h, r)  == holder' = [holder EXCEPT ![h] = r]
Lets(h)      == Turns(h, Nothing)
Copy(h)      == holder[h].c
Bank(h)      == holder[h].p

----------------------------------------------------------------------------
(* The rows.                                                               *)

(* SaveConnection: the row if its revision is the one read.                *)
Unmoved(p, c) == conn[p].rev = c.rev

Bumped(c) == [c EXCEPT !.rev = @ + 1]

SaveConnection(p, c, next) ==
    /\ c.rev < MaxRevision
    /\ conn' = IF Unmoved(p, c) THEN [conn EXCEPT ![p] = Bumped(next)] ELSE conn

BadGuardHolds(h) == TRUE
GuardHolds(h)    == guard = holder[h].guard

(* CreateConnection: over nothing or an onboarding row, the guard moved in *)
(* the same transaction, the revision starting again at one.               *)
ConnCreatable(h) == ~ Connected(Bank(h)) /\ GuardHolds(h)

----------------------------------------------------------------------------
(* Connecting.                                                             *)

PutOnboarding(p) ==
    /\ conn[p].state = "none"
    /\ conn' = [conn EXCEPT ![p].state = "onboarding"]
    /\ UNCHANGED <<sealed, guard, told, clock, made, holder>>

ReadGuard(h, p) ==
    /\ Is(h, "idle")
    /\ Turns(h, [at |-> "counting", p |-> p, guard |-> guard])
    /\ UNCHANGED <<conn, sealed, guard, told, clock, made>>

(* BankConnectionLimit: one more, by the plan's number.                    *)
PlanAllows(n) == n < Quota

Others(p) == {q \in Providers \ {p} : Connected(q)}

CountConnections(h) ==
    /\ Is(h, "counting")
    /\ IF PlanAllows(Cardinality(Others(Bank(h))))
         THEN Turns(h, [holder[h] EXCEPT !.at = "bank"])
         ELSE Lets(h)
    /\ UNCHANGED <<conn, sealed, guard, told, clock, made>>

(* The bank took the credentials.  The ledger account, made or resumed     *)
(* here and frozen by a disconnect, is Statement's.                        *)
BankConnects(h) ==
    /\ Is(h, "bank") /\ made < MaxMade
    /\ made' = made + 1
    /\ Turns(h, [at |-> "creating", p |-> Bank(h), guard |-> holder[h].guard,
                 c |-> [state |-> "active", id |-> made + 1, rev |-> 1, version |-> 1,
                        notAfter |-> clock + Life, warned |-> 0]])
    /\ UNCHANGED <<conn, sealed, guard, told, clock>>

BankRefuses(h) ==
    /\ \E s \in {"bank", "sealing"} : Is(h, s)
    /\ Lets(h)
    /\ UNCHANGED <<conn, sealed, guard, told, clock, made>>

(* The create, and the backfill that goes on with the row it wrote.        *)
CreateConnection(h) ==
    /\ Is(h, "creating")
    /\ IF ConnCreatable(h)
         THEN /\ conn' = [conn EXCEPT ![Bank(h)] = Copy(h)]
              /\ sealed' = [sealed EXCEPT ![Bank(h)] = <<Copy(h).id, 1>>]
              /\ guard' = guard + 1
              /\ Turns(h, [at |-> "outcome", p |-> Bank(h), c |-> Copy(h)])
         ELSE Lets(h) /\ UNCHANGED <<conn, sealed, guard>>
    /\ UNCHANGED <<told, clock, made>>

----------------------------------------------------------------------------
(* A connection's other requests.                                          *)

Reads(h, p, s) ==
    /\ Is(h, "idle") /\ Connected(p)
    /\ Turns(h, [at |-> s, p |-> p, c |-> conn[p]])
    /\ UNCHANGED <<conn, sealed, guard, told, clock, made>>

Test(h, p)   == Reads(h, p, "outcome")
Reseal(h, p) == Reads(h, p, "sealing")

(* RecordOutcome: the health of the connection, a lost race ignored.       *)
RecordOutcome(h) ==
    /\ Is(h, "outcome")
    /\ SaveConnection(Bank(h), Copy(h), Copy(h))
    /\ Lets(h)
    /\ UNCHANGED <<sealed, guard, told, clock, made>>

(* Renew and Refresh: sealed under the next version, active, the warnings  *)
(* of the certificate start over.                                          *)
BadResealed(c, t) == [c EXCEPT !.version = @ + 1, !.state = "active", !.notAfter = t]
Resealed(c, t)    == [c EXCEPT !.version = @ + 1, !.state = "active", !.notAfter = t, !.warned = 0]

SaveResealed(h) ==
    /\ Is(h, "sealing")
    /\ \E t \in {clock + Life, Copy(h).notAfter} : SaveConnection(Bank(h), Copy(h), Resealed(Copy(h), t))
    /\ sealed' = IF Unmoved(Bank(h), Copy(h))
                   THEN [sealed EXCEPT ![Bank(h)] = <<Copy(h).id, Copy(h).version + 1>>] ELSE sealed
    /\ Lets(h)
    /\ UNCHANGED <<guard, told, clock, made>>

(* Disconnect: the rows go, whatever they hold by now.                     *)
Disconnect(h, p) ==
    /\ Is(h, "idle") /\ conn[p].state # "none"
    /\ Turns(h, [at |-> "deleting", p |-> p, c |-> conn[p]])
    /\ UNCHANGED <<conn, sealed, guard, told, clock, made>>

DeleteConnection(h) ==
    /\ Is(h, "deleting")
    /\ conn' = [conn EXCEPT ![Bank(h)] = NoConn]
    /\ sealed' = [sealed EXCEPT ![Bank(h)] = NoSeal]
    /\ Lets(h)
    /\ UNCHANGED <<guard, told, clock, made>>

----------------------------------------------------------------------------
(* The hourly job, one connection at a time.                               *)

(* The thresholds a certificate has passed: one is days before, two its    *)
(* end.                                                                    *)
Threshold(c) == IF c.notAfter <= clock THEN 2 ELSE IF c.notAfter <= clock + 1 THEN 1 ELSE 0

CertWarning(c) == Threshold(c) > c.warned

JobTakes(h, p) == Reads(h, p, "expiry")

Past(c) == c.state = "active" /\ c.notAfter <= clock

(* ExpireIfPast, saved with the bundle the job loaded for it.              *)
ExpireIfPast(h) ==
    /\ Is(h, "expiry")
    /\ LET c == Copy(h)  expired == [c EXCEPT !.state = "expired"] IN
       IF Past(c)
         THEN /\ SaveConnection(Bank(h), c, expired)
              /\ IF Unmoved(Bank(h), c) THEN Turns(h, [holder[h] EXCEPT !.at = "notice", !.c = Bumped(expired)])
                                        ELSE Lets(h)
         ELSE Turns(h, [holder[h] EXCEPT !.at = "notice"]) /\ UNCHANGED conn
    /\ UNCHANGED <<sealed, guard, told, clock, made>>

(* The notice goes out before it is marked.                                *)
SendNotice(h) ==
    /\ Is(h, "notice") /\ CertWarning(Copy(h))
    /\ told' = told \cup {<<Copy(h).id, Copy(h).version, Threshold(Copy(h))>>}
    /\ Turns(h, [holder[h] EXCEPT !.at = "marking", !.c.warned = Threshold(Copy(h))])
    /\ UNCHANGED <<conn, sealed, guard, clock, made>>

NoNotice(h) ==
    /\ Is(h, "notice") /\ ~ CertWarning(Copy(h))
    /\ Turns(h, [holder[h] EXCEPT !.at = "outcome"])
    /\ UNCHANGED <<conn, sealed, guard, told, clock, made>>

MailFails(h) ==
    /\ Is(h, "notice") /\ CertWarning(Copy(h))
    /\ Lets(h)
    /\ UNCHANGED <<conn, sealed, guard, told, clock, made>>

MarkWarned(h) ==
    /\ Is(h, "marking")
    /\ SaveConnection(Bank(h), Copy(h), Copy(h))
    /\ IF Unmoved(Bank(h), Copy(h)) THEN Turns(h, [holder[h] EXCEPT !.at = "outcome", !.c = Bumped(@)])
                                    ELSE Lets(h)
    /\ UNCHANGED <<sealed, guard, told, clock, made>>

Tick ==
    /\ clock < MaxClock
    /\ clock' = clock + 1
    /\ UNCHANGED <<conn, sealed, guard, told, made, holder>>

HolderDies(h) ==
    /\ ~ Is(h, "idle")
    /\ Lets(h)
    /\ UNCHANGED <<conn, sealed, guard, told, clock, made>>

ConnectionsNext ==
    \/ Tick
    \/ \E p \in Providers : PutOnboarding(p)
    \/ \E h \in Callers, p \in Providers : ReadGuard(h, p) \/ Test(h, p) \/ Reseal(h, p) \/ Disconnect(h, p)
    \/ \E h \in JobRuns, p \in Providers : JobTakes(h, p)
    \/ \E h \in Holders :
         \/ CountConnections(h) \/ BankConnects(h) \/ BankRefuses(h) \/ CreateConnection(h)
         \/ RecordOutcome(h) \/ SaveResealed(h) \/ DeleteConnection(h)
         \/ ExpireIfPast(h) \/ SendNotice(h) \/ NoNotice(h) \/ MailFails(h) \/ MarkWarned(h) \/ HolderDies(h)

ConnectionsSpec == ConnectionsInit /\ [][ConnectionsNext]_connVars

----------------------------------------------------------------------------
(* Two requests that count before the bank's call and create after it      *)
(* never take the organization past its plan: the guard a create moves is  *)
(* the one its count was read under.                                       *)
WithinQuota == Cardinality({p \in Providers : Connected(p)}) <= Quota

(* A certificate marked as warned of a threshold was warned of: the notice *)
(* of that very certificate went out, whatever renewals, expiries, crashes *)
(* and lost saves came between (a lost mark sends it twice, never zero     *)
(* times).                                                                 *)
WarnedWasTold ==
    \A p \in Providers :
        conn[p].warned > 0 =>
            <<conn[p].id, conn[p].version, conn[p].warned>> \in told

=============================================================================
