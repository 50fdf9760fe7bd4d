---------------------------- MODULE Credentials -----------------------------
(***************************************************************************)
(* The OAuth clients admitted to act for a tenant: connected by a merchant *)
(* from the console, or created by the tenant plan the deploy applies.     *)
(* The row is in the tenant's partition, a guard row claims the client id, *)
(* and the client is resolved through an index that lags both and through  *)
(* the API process's memory.  A tenant here is an organization in one      *)
(* mode, and two tenants are of two organizations.                         *)
(***************************************************************************)
EXTENDS FiniteSets, Naturals

CONSTANTS
    Tenants, Clients,
    Consoles,       \* console requests
    Plans,          \* runs of the tenant plan
    MaxAdmissions   \* bounds the credentials written

ASSUME CredentialsAssumption == MaxAdmissions \in Nat

VARIABLES
    cred,       \* tenant -> client -> the row: who admitted it, the owner it is scoped to
    claimed,    \* the clients whose guard row exists
    index,      \* client -> the tenant the lookup index shows
    resolved,   \* client -> the tenant the API process remembers
    seeded,     \* what the plan wrote beside credentials: <<tenant, "organization" or "catalogue">>
    task,       \* process -> where its request is
    admissions

credVars == <<cred, claimed, index, resolved, seeded, task, admissions>>

NoTenant == "none"
Unscoped == "unscoped"   \* an empty owner key
NoCred   == [by |-> "none", owner |-> Unscoped]
NoTask   == [at |-> "idle"]

CredentialsInit ==
    /\ cred = [t \in Tenants |-> [c \in Clients |-> NoCred]]
    /\ claimed = {}
    /\ index = [c \in Clients |-> NoTenant]
    /\ resolved = [c \in Clients |-> NoTenant]
    /\ seeded = {}
    /\ task = [p \in Consoles \cup Plans |-> NoTask]
    /\ admissions = 0

Admitted(t, c) == cred[t][c] # NoCred
Holding(c)     == {t \in Tenants : Admitted(t, c)}
Waits(p, s)    == task[p].at = s
Turn(p, r)     == task' = [task EXCEPT ![p] = r]
TaskEnds(p)        == Turn(p, NoTask)

----------------------------------------------------------------------------
(* Resolve: the memory, or the index, which is remembered.                 *)

Found(c) == IF resolved[c] # NoTenant THEN resolved[c] ELSE index[c]

IndexCatchesUp(c) ==
    /\ \E t \in IF Holding(c) = {} THEN {NoTenant} ELSE Holding(c) : index' = [index EXCEPT ![c] = t]
    /\ UNCHANGED <<cred, claimed, resolved, seeded, task, admissions>>

(* A request of the client itself.                                         *)
Resolve(c) ==
    /\ resolved' = [resolved EXCEPT ![c] = Found(c)]
    /\ UNCHANGED <<cred, claimed, index, seeded, task, admissions>>

ResolvedExpires(c) ==
    /\ resolved[c] # NoTenant
    /\ resolved' = [resolved EXCEPT ![c] = NoTenant]
    /\ UNCHANGED <<cred, claimed, index, seeded, task, admissions>>

----------------------------------------------------------------------------
(* The admission: the row and the guard, each if absent.                   *)

BadUnclaimed(c) == TRUE
Unclaimed(c)    == c \notin claimed

Admissible(t, c) == ~Admitted(t, c) /\ Unclaimed(c)

Admit(t, c, row) ==
    /\ Admissible(t, c) /\ admissions < MaxAdmissions
    /\ cred' = [cred EXCEPT ![t][c] = row]
    /\ claimed' = claimed \cup {c}
    /\ admissions' = admissions + 1

----------------------------------------------------------------------------
(* The console.                                                            *)

(* ctech-account says the client is the user's, active and machine only;   *)
(* a client that is not changes nothing.  Then the lookup.                 *)
ConnectClient(p, t, c) ==
    /\ Waits(p, "idle")
    /\ IF Found(c) = NoTenant THEN Turn(p, [at |-> "admit", t |-> t, c |-> c]) ELSE TaskEnds(p)
    /\ resolved' = [resolved EXCEPT ![c] = Found(c)]
    /\ UNCHANGED <<cred, claimed, index, seeded, admissions>>

(* A double click that loses on the guard is answered with the row it      *)
(* finds here, another tenant's client is refused: neither writes.         *)
ConnectAdmits(p) ==
    /\ Waits(p, "admit")
    /\ \/ Admit(task[p].t, task[p].c, [by |-> "user", owner |-> Unscoped])
       \/ ~Admissible(task[p].t, task[p].c) /\ UNCHANGED <<cred, claimed, admissions>>
    /\ TaskEnds(p)
    /\ UNCHANGED <<index, resolved, seeded>>

(* disconnectCredential reads the row, consistently, and refuses the       *)
(* plan's.                                                                 *)
ReadCredential(p, t, c) ==
    /\ Waits(p, "idle")
    /\ cred[t][c].by = "user"
    /\ Turn(p, [at |-> "remove", t |-> t, c |-> c])
    /\ UNCHANGED <<cred, claimed, index, resolved, seeded, admissions>>

BadRemovable(t, c) == Admitted(t, c)
Removable(t, c)    == Admitted(t, c) /\ cred[t][c].by = "user"

DisconnectClient(p) ==
    /\ Waits(p, "remove")
    /\ LET t == task[p].t
           c == task[p].c
       IN /\ IF Removable(t, c)
               THEN cred' = [cred EXCEPT ![t][c] = NoCred] /\ claimed' = claimed \ {c}
               ELSE UNCHANGED <<cred, claimed>>
          /\ resolved' = [resolved EXCEPT ![c] = NoTenant]
    /\ TaskEnds(p)
    /\ UNCHANGED <<index, seeded, admissions>>

----------------------------------------------------------------------------
(* The tenant plan, a process of its own: the organization, then each      *)
(* credential, then the catalogue.  An error stops the run.                *)

PlanOrganization(p, t, c, owner) ==
    /\ Waits(p, "idle")
    /\ seeded' = seeded \cup {<<t, "organization">>}
    /\ Turn(p, [at |-> "credential", t |-> t, c |-> c, owner |-> owner])
    /\ UNCHANGED <<cred, claimed, index, resolved, admissions>>

(* A client of another tenant is an error; a scope that differs too.       *)
PlanResolves(p) ==
    /\ Waits(p, "credential")
    /\ LET t == task[p].t
           c == task[p].c
           scope == cred[t][c].owner
       IN Turn(p, IF index[c] = NoTenant                        THEN [task[p] EXCEPT !.at = "create"]
                  ELSE IF index[c] # t                          THEN NoTask
                  ELSE IF task[p].owner \in {Unscoped, scope}   THEN [task[p] EXCEPT !.at = "catalogue"]
                  ELSE IF scope = Unscoped                      THEN [task[p] EXCEPT !.at = "scope"]
                                                                ELSE NoTask)
    /\ UNCHANGED <<cred, claimed, index, resolved, seeded, admissions>>

PlanCreates(p) ==
    /\ Waits(p, "create")
    /\ \/ /\ Admit(task[p].t, task[p].c, [by |-> "plan", owner |-> task[p].owner])
          /\ Turn(p, [task[p] EXCEPT !.at = "catalogue"])
       \/ /\ ~Admissible(task[p].t, task[p].c) /\ UNCHANGED <<cred, claimed, admissions>>
          /\ TaskEnds(p)
    /\ UNCHANGED <<index, resolved, seeded>>

(* SetOwnerKey, conditional on the row being there without an owner.       *)
Scopable(t, c) == Admitted(t, c) /\ cred[t][c].owner = Unscoped

SetOwnerKey(p) ==
    /\ Waits(p, "scope")
    /\ IF Scopable(task[p].t, task[p].c)
         THEN /\ cred' = [cred EXCEPT ![task[p].t][task[p].c].owner = task[p].owner]
              /\ Turn(p, [task[p] EXCEPT !.at = "catalogue"])
         ELSE UNCHANGED cred /\ TaskEnds(p)
    /\ UNCHANGED <<claimed, index, resolved, seeded, admissions>>

(* The products, prices and endpoints, each created, updated or skipped.   *)
PlanCatalogue(p) ==
    /\ Waits(p, "catalogue")
    /\ seeded' = seeded \cup {<<task[p].t, "catalogue">>}
    /\ TaskEnds(p)
    /\ UNCHANGED <<cred, claimed, index, resolved, admissions>>

CredentialsNext ==
    \/ \E c \in Clients : IndexCatchesUp(c) \/ Resolve(c) \/ ResolvedExpires(c)
    \/ \E p \in Consoles :
          \/ \E t \in Tenants, c \in Clients : ConnectClient(p, t, c) \/ ReadCredential(p, t, c)
          \/ ConnectAdmits(p) \/ DisconnectClient(p)
    \/ \E p \in Plans :
          \/ \E t \in Tenants, c \in Clients, owner \in {Unscoped, "k"} : PlanOrganization(p, t, c, owner)
          \/ PlanResolves(p) \/ PlanCreates(p) \/ SetOwnerKey(p) \/ PlanCatalogue(p)

CredentialsSpec == CredentialsInit /\ [][CredentialsNext]_credVars

----------------------------------------------------------------------------
(* Properties.                                                             *)

(* However connects, disconnects and plan runs overlap, each deciding on   *)
(* an index that lags, a client is admitted to one tenant and its guard    *)
(* stands exactly while it is (admit and Disconnect of the credential      *)
(* repository).                                                            *)
AdmittedOnce ==
    \A c \in Clients :
        /\ Cardinality(Holding(c)) <= 1
        /\ Holding(c) # {} <=> c \in claimed

(* A console request never removes a credential the plan created, also     *)
(* when it replaced the one the request read (the condition on             *)
(* connected_by).                                                          *)
ProvisionedStays ==
    [][\A t \in Tenants, c \in Clients : cred[t][c].by = "plan" => cred'[t][c].by = "plan"]_credVars
=============================================================================
