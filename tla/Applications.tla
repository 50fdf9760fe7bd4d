---------------------------- MODULE Applications ----------------------------
(***************************************************************************)
(* One organization's applications to become a merchant: applying, again   *)
(* after a rejection, and the reviewers' decisions.  An application is a   *)
(* row of tenant zero; a pointer row of the organization names its current *)
(* one.  Approving creates the subscription and the live tenant before it  *)
(* decides, under a lease on the application.                              *)
(***************************************************************************)
EXTENDS Naturals

CONSTANTS
    Applicants,        \* console requests that apply
    Reviewers,         \* requests that decide
    Slow,              \* whether a decision may outlive its lease
    MaxApplications,   \* bounds the applications written
    MaxTries,          \* applyOnce's attempts, three in the code
    MaxMishaps         \* bounds the crashes and failed calls

Unleased == "nobody"

ASSUME ApplicationsAssumption ==
    /\ {MaxApplications, MaxTries, MaxMishaps} \subseteq Nat /\ Slow \in BOOLEAN
    /\ Applicants \cap Reviewers = {} /\ Unleased \notin Reviewers

VARIABLES
    status,     \* application -> its row's status
    pointer,    \* the organization's pointer: the application it names, and a status
    lease,      \* application -> the reviewer whose lease holds
    tests,      \* the organization's test tenants
    live,       \* whether its live tenant exists
    customer,   \* whether tenant zero has the organization's customer
    subs,       \* its entitled subscriptions of tenant zero
    call,       \* process -> where its request is
    mishaps

appVars == <<status, pointer, lease, tests, live, customer, subs, call, mishaps>>

Ids        == 1..MaxApplications
NoCall     == [at |-> "idle", app |-> 0]
NoPointer  == [app |-> 0, status |-> "none"]
Requesters == Applicants \cup Reviewers

ApplicationsInit ==
    /\ status = [a \in Ids |-> "none"]
    /\ pointer = NoPointer
    /\ lease = [a \in Ids |-> Unleased]
    /\ tests = 0 /\ live = FALSE /\ customer = FALSE /\ subs = 0
    /\ call = [p \in Requesters |-> NoCall]
    /\ mishaps = 0

Stands(p, s)  == call[p].at = s
Becomes(p, r) == call' = [call EXCEPT ![p] = r]
Moves(p, s)   == Becomes(p, [call[p] EXCEPT !.at = s])
App(p)        == call[p].app
Decision      == <<status, pointer>>
Outcome       == <<tests, live, customer, subs>>

----------------------------------------------------------------------------
(* Applying.  applyOnce reads the tenants and the customer, then the       *)
(* pointer, then writes everything in one transaction.                     *)

ReadTenants(p, tries) ==
    IF live THEN Becomes(p, NoCall)
            ELSE Becomes(p, [at |-> "pointer", tries |-> tries, test |-> tests > 0, customer |-> customer])

Apply(p) ==
    /\ Stands(p, "idle")
    /\ ReadTenants(p, 1)
    /\ UNCHANGED <<Decision, lease, Outcome, mishaps>>

(* A pending application is answered as it is, an approved one refused.    *)
ReadPointer(p) ==
    /\ Stands(p, "pointer")
    /\ IF pointer.status \in {"pending", "approved"}
         THEN Becomes(p, NoCall)
         ELSE Becomes(p, [at |-> "write", tries |-> call[p].tries, test |-> call[p].test,
                          customer |-> call[p].customer, prev |-> pointer])
    /\ UNCHANGED <<Decision, lease, Outcome, mishaps>>

(* The conditions of the transaction: the pointer absent, or still the     *)
(* rejected one that was read; the customer's reference unused.            *)
BadPointerHolds(p) == TRUE
PointerHolds(p)    == pointer = call[p].prev
CustomerHolds(p)   == call[p].customer \/ ~customer

Fresh(a) == \A b \in Ids : status[b] = "none" <=> b >= a

WriteApplication(p) ==
    /\ Stands(p, "write") /\ PointerHolds(p) /\ CustomerHolds(p)
    /\ \E a \in Ids :
          /\ Fresh(a)
          /\ status' = [status EXCEPT ![a] = "pending"]
          /\ pointer' = [app |-> a, status |-> "pending"]
    /\ tests' = IF call[p].prev = NoPointer /\ ~call[p].test THEN tests + 1 ELSE tests
    /\ customer' = TRUE
    /\ Becomes(p, NoCall)
    /\ UNCHANGED <<lease, live, subs, mishaps>>

(* A lost race: the winner's pending application is the answer, and the    *)
(* service tries again otherwise.                                          *)
LoseApplication(p) ==
    /\ Stands(p, "write") /\ ~(PointerHolds(p) /\ CustomerHolds(p))
    /\ IF pointer.status = "pending" \/ call[p].tries = MaxTries
         THEN Becomes(p, NoCall)
         ELSE ReadTenants(p, call[p].tries + 1)
    /\ UNCHANGED <<Decision, lease, Outcome, mishaps>>

----------------------------------------------------------------------------
(* Deciding, under the lease.                                              *)

Lock(p, a, to) ==
    /\ Stands(p, "idle")
    /\ status[a] # "none" /\ lease[a] = Unleased
    /\ lease' = [lease EXCEPT ![a] = p]
    /\ Becomes(p, [at |-> "get", app |-> a, to |-> to])
    /\ UNCHANGED <<Decision, Outcome, mishaps>>

(* A decided application is answered or refused.  A rejection decides at   *)
(* once, an approval first looks for the entitlement.                      *)
Get(p) ==
    /\ Stands(p, "get")
    /\ Moves(p, IF status[App(p)] # "pending"      THEN "release"
                ELSE IF call[p].to = "rejected"    THEN "decide"
                                                   ELSE "entitle")
    /\ UNCHANGED <<Decision, lease, Outcome, mishaps>>

BadEntitled == FALSE
Entitled    == subs > 0

Entitlement(p) ==
    /\ Stands(p, "entitle") /\ customer
    /\ Moves(p, IF Entitled THEN "tenant" ELSE "subscribe")
    /\ UNCHANGED <<Decision, lease, Outcome, mishaps>>

SubscribeMerchant(p) ==
    /\ Stands(p, "subscribe")
    /\ subs' = subs + 1
    /\ Moves(p, "tenant")
    /\ UNCHANGED <<Decision, lease, tests, live, customer, mishaps>>

EnsureLiveTenant(p) ==
    /\ Stands(p, "tenant")
    /\ live' = TRUE
    /\ Moves(p, "decide")
    /\ UNCHANGED <<Decision, lease, tests, customer, subs, mishaps>>

(* The row if it is pending and the pointer if it names it, or neither.    *)
Decidable(a) == status[a] = "pending" /\ pointer.app = a

Decide(p) ==
    /\ Stands(p, "decide")
    /\ IF Decidable(App(p))
         THEN /\ status' = [status EXCEPT ![App(p)] = call[p].to]
              /\ pointer' = [pointer EXCEPT !.status = call[p].to]
         ELSE UNCHANGED Decision
    /\ Moves(p, "release")
    /\ UNCHANGED <<lease, Outcome, mishaps>>

(* The deferred release, conditional on the lease's token.                 *)
ReleaseLease(p) ==
    /\ Stands(p, "release")
    /\ lease' = [lease EXCEPT ![App(p)] = IF @ = p THEN Unleased ELSE @]
    /\ Becomes(p, NoCall)
    /\ UNCHANGED <<Decision, Outcome, mishaps>>

----------------------------------------------------------------------------
(* Time and failures.                                                      *)

(* A lease passes its thirty seconds: its holder is gone, or slow.         *)
LeaseExpires(a) ==
    /\ lease[a] # Unleased
    /\ Slow \/ App(lease[a]) # a
    /\ lease' = [lease EXCEPT ![a] = Unleased]
    /\ UNCHANGED <<Decision, Outcome, call, mishaps>>

(* A call of the decision fails: the error is returned, the lease released.*)
CallFails(p) ==
    /\ p \in Reviewers /\ ~Stands(p, "idle") /\ ~Stands(p, "release")
    /\ mishaps < MaxMishaps
    /\ mishaps' = mishaps + 1
    /\ Moves(p, "release")
    /\ UNCHANGED <<Decision, lease, Outcome>>

(* The process dies: what it wrote stays, and so does its lease.           *)
RequesterDies(p) ==
    /\ ~Stands(p, "idle") /\ mishaps < MaxMishaps
    /\ mishaps' = mishaps + 1
    /\ Becomes(p, NoCall)
    /\ UNCHANGED <<Decision, lease, Outcome>>

ApplicationsNext ==
    \/ \E p \in Applicants : Apply(p) \/ ReadPointer(p) \/ WriteApplication(p) \/ LoseApplication(p)
    \/ \E p \in Reviewers :
          \/ \E a \in Ids, to \in {"approved", "rejected"} : Lock(p, a, to)
          \/ Get(p) \/ Entitlement(p) \/ SubscribeMerchant(p) \/ EnsureLiveTenant(p)
          \/ Decide(p) \/ ReleaseLease(p) \/ CallFails(p)
    \/ \E p \in Requesters : RequesterDies(p)
    \/ \E a \in Ids : LeaseExpires(a)

ApplicationsSpec == ApplicationsInit /\ [][ApplicationsNext]_appVars

----------------------------------------------------------------------------
(* Properties.                                                             *)

(* Requests that apply together, or apply again while a reviewer decides,  *)
(* leave one test tenant and one current application: whatever is pending  *)
(* is what the pointer names, and the pointer says what that row says      *)
(* (Apply and Decide of the application repository).                       *)
PendingIsCurrent ==
    /\ \A a \in Ids : status[a] = "pending" => pointer.app = a
    /\ pointer # NoPointer => pointer.status = status[pointer.app]
    /\ tests <= 1

(* Approve "reuses an entitled prod_billing subscription", so an approval  *)
(* that died and was retried, by anybody, subscribes the organization      *)
(* once.                                                                   *)
SubscribedOnce == subs <= 1

=============================================================================
