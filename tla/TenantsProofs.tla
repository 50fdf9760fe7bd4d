--------------------------- MODULE TenantsProofs ----------------------------
(***************************************************************************)
(* Proofs about the components a tenant lives through, each for every set  *)
(* of requests, tenants, clients, banks and rows: credentials,             *)
(* applications, closure, erasure, bank connections and payment notices.   *)
(* They share no variable: each has its own inductive invariant and its    *)
(* own theorem.                                                            *)
(***************************************************************************)
EXTENDS Applications, Credentials, Connections, Hooks, Closure, Erasure, FiniteSetTheorems, TLAPS

(* A set whose members are all equal has at most one.                      *)
LEMMA AtMostOne ==
    ASSUME NEW S, \A x, y \in S : x = y
    PROVE  Cardinality(S) <= 1
<1>1. CASE S = {}
  BY <1>1, FS_EmptySet
<1>2. CASE S # {}
  <2>1. PICK x \in S : TRUE
    BY <1>2
  <2>2. S = {x}
    BY <2>1
  <2> QED
    BY <2>2, FS_Singleton
<1> QED
  BY <1>1, <1>2

----------------------------------------------------------------------------
(* Credentials.                                                            *)

Owners  == {Unscoped, "k"}
CredRow == {NoCred} \cup [by : {"user", "plan"}, owner : Owners]
Task ==
    {NoTask} \cup [at : {"admit", "remove"}, t : Tenants, c : Clients]
             \cup [at : {"credential", "create", "scope", "catalogue"}, t : Tenants, c : Clients, owner : Owners]

CredTypeOK ==
    /\ cred \in [Tenants -> [Clients -> CredRow]]
    /\ claimed \in SUBSET Clients
    /\ index \in [Clients -> Tenants \cup {NoTenant}]
    /\ resolved \in [Clients -> Tenants \cup {NoTenant}]
    /\ seeded \in SUBSET (Tenants \X {"organization", "catalogue"})
    /\ task \in [Consoles \cup Plans -> Task]
    /\ admissions \in Nat

USE DEF Owners, Unscoped

(* The guard of a client stands exactly while one tenant has its row.      *)
Guarded ==
    /\ \A c \in Clients, t \in Tenants : Admitted(t, c) => c \in claimed
    /\ \A c \in claimed : \E t \in Tenants : Admitted(t, c)
    /\ \A c \in Clients, t, u \in Tenants : Admitted(t, c) /\ Admitted(u, c) => t = u

CredInv == CredTypeOK /\ Guarded

LEMMA CredInitInv == CredentialsInit => CredInv
<1> SUFFICES ASSUME CredentialsInit PROVE CredInv
  OBVIOUS
<1>1. NoCred \in CredRow /\ NoTask \in Task
  BY DEF CredRow, Task
<1>2. CredTypeOK
  BY <1>1 DEF CredentialsInit, CredTypeOK
<1>3. Guarded
  BY DEF CredentialsInit, Guarded, Admitted
<1> QED
  BY <1>2, <1>3 DEF CredInv

(* A step that leaves the rows and their guards alone.                     *)
LEMMA CredRowsStay ==
    ASSUME Guarded, UNCHANGED <<cred, claimed>>
    PROVE  Guarded'
BY DEF Guarded, Admitted

LEMMA TurnTyped ==
    ASSUME CredTypeOK, NEW p \in Consoles \cup Plans, NEW r \in Task, Turn(p, r)
    PROVE  task' \in [Consoles \cup Plans -> Task]
BY DEF CredTypeOK, Turn

LEMMA TaskEndsTyped ==
    ASSUME CredTypeOK, NEW p \in Consoles \cup Plans, TaskEnds(p)
    PROVE  task' \in [Consoles \cup Plans -> Task]
<1>1. NoTask \in Task
  BY DEF Task
<1> QED
  BY <1>1, TurnTyped DEF TaskEnds

(* What a task at one of the named steps carries.                          *)
LEMMA TaskCarries ==
    ASSUME CredTypeOK, NEW p \in Consoles \cup Plans, task[p].at # "idle"
    PROVE  /\ task[p].t \in Tenants /\ task[p].c \in Clients
           /\ task[p].at \notin {"admit", "remove"} =>
                /\ task[p].owner \in Owners
                /\ [task[p] EXCEPT !.at = "create"] \in Task
                /\ [task[p] EXCEPT !.at = "scope"] \in Task
                /\ [task[p] EXCEPT !.at = "catalogue"] \in Task
<1>1. CASE task[p] \in [at : {"admit", "remove"}, t : Tenants, c : Clients]
  BY <1>1
<1>2. CASE task[p] \in [at : {"credential", "create", "scope", "catalogue"}, t : Tenants, c : Clients,
                        owner : Owners]
  BY <1>2 DEF Task
<1>3. task[p] \in Task /\ task[p] # NoTask
  BY DEF CredTypeOK, NoTask
<1> QED
  BY <1>1, <1>2, <1>3 DEF Task

(* Writing one row of the credentials.                                     *)
LEMMA CredPut ==
    ASSUME NEW f \in [Tenants -> [Clients -> CredRow]], NEW t \in Tenants, NEW c \in Clients, NEW r \in CredRow
    PROVE  /\ [f EXCEPT ![t][c] = r] \in [Tenants -> [Clients -> CredRow]]
           /\ \A u \in Tenants, d \in Clients :
                [f EXCEPT ![t][c] = r][u][d] = IF u = t /\ d = c THEN r ELSE f[u][d]
<1> DEFINE g == [f[t] EXCEPT ![c] = r]
<1>1. g \in [Clients -> CredRow] /\ \A d \in Clients : g[d] = IF d = c THEN r ELSE f[t][d]
  OBVIOUS
<1>2. [f EXCEPT ![t][c] = r] = [f EXCEPT ![t] = g]
  OBVIOUS
<1> HIDE DEF g
<1> QED
  BY <1>1, <1>2

(* One admission: the row and the guard of a client nobody holds.          *)
LEMMA AdmitInv ==
    ASSUME CredInv, NEW t \in Tenants, NEW c \in Clients,
           NEW row_ \in [by : {"user", "plan"}, owner : Owners], Admit(t, c, row_)
    PROVE  /\ cred' \in [Tenants -> [Clients -> CredRow]]
           /\ claimed' \in SUBSET Clients /\ admissions' \in Nat
           /\ Guarded'
<1>1. row_ # NoCred /\ row_ \in CredRow
  BY DEF NoCred, CredRow
<1>2. claimed' \in SUBSET Clients /\ admissions' \in Nat
  BY DEF CredInv, CredTypeOK, Admit
<1>3. cred' = [cred EXCEPT ![t][c] = row_]
  BY DEF Admit
<1>6. /\ cred' \in [Tenants -> [Clients -> CredRow]]
      /\ \A u \in Tenants, d \in Clients :
           cred'[u][d] = IF u = t /\ d = c THEN row_ ELSE cred[u][d]
  BY <1>1, <1>3, CredPut DEF CredInv, CredTypeOK
<1>4. c \notin claimed /\ claimed' = claimed \cup {c}
  BY DEF Admit, Admissible, Unclaimed
<1>5. Guarded'
  BY <1>1, <1>4, <1>6 DEF CredInv, CredTypeOK, Guarded, Admitted
<1> QED
  BY <1>2, <1>5, <1>6

LEMMA CredNextInv ==
    ASSUME CredInv, [CredentialsNext]_credVars
    PROVE  CredInv'
<1> USE DEF CredInv
<1>1. ASSUME NEW c \in Clients, IndexCatchesUp(c) \/ Resolve(c) \/ ResolvedExpires(c)
      PROVE  CredInv'
  <2>1. Found(c) \in Tenants \cup {NoTenant}
    BY DEF CredTypeOK, Found
  <2>2. CredTypeOK'
    BY <1>1, <2>1 DEF CredTypeOK, IndexCatchesUp, Resolve, ResolvedExpires, Holding
  <2> QED
    BY <1>1, <2>2, CredRowsStay DEF IndexCatchesUp, Resolve, ResolvedExpires
<1>2. ASSUME NEW p \in Consoles, NEW t \in Tenants, NEW c \in Clients, ConnectClient(p, t, c)
      PROVE  CredInv'
  <2>1. Found(c) \in Tenants \cup {NoTenant}
    BY DEF CredTypeOK, Found
  <2>2. [at |-> "admit", t |-> t, c |-> c] \in Task
    BY DEF Task
  <2>3. task' \in [Consoles \cup Plans -> Task]
    BY <1>2, <2>2, TurnTyped, TaskEndsTyped DEF ConnectClient
  <2>4. CredTypeOK'
    BY <1>2, <2>1, <2>3 DEF CredTypeOK, ConnectClient
  <2> QED
    BY <1>2, <2>4, CredRowsStay DEF ConnectClient
<1>3. ASSUME NEW p \in Consoles, NEW t \in Tenants, NEW c \in Clients, ReadCredential(p, t, c)
      PROVE  CredInv'
  <2>2. [at |-> "remove", t |-> t, c |-> c] \in Task
    BY DEF Task
  <2>3. task' \in [Consoles \cup Plans -> Task]
    BY <1>3, <2>2, TurnTyped DEF ReadCredential
  <2>4. CredTypeOK'
    BY <1>3, <2>3 DEF CredTypeOK, ReadCredential
  <2> QED
    BY <1>3, <2>4, CredRowsStay DEF ReadCredential
<1>4. ASSUME NEW p \in Consoles, ConnectAdmits(p)
      PROVE  CredInv'
  <2>1. task[p].t \in Tenants /\ task[p].c \in Clients
    BY <1>4, TaskCarries DEF ConnectAdmits, Waits
  <2>2. task' \in [Consoles \cup Plans -> Task]
    BY <1>4, TaskEndsTyped DEF ConnectAdmits
  <2>3. CASE Admit(task[p].t, task[p].c, [by |-> "user", owner |-> Unscoped])
    <3>1. [by |-> "user", owner |-> Unscoped] \in [by : {"user", "plan"}, owner : Owners]
      OBVIOUS
    <3> QED
      BY <1>4, <2>1, <2>2, <2>3, <3>1, AdmitInv DEF CredTypeOK, ConnectAdmits
  <2>4. CASE UNCHANGED <<cred, claimed, admissions>>
    BY <1>4, <2>2, <2>4, CredRowsStay DEF CredTypeOK, ConnectAdmits
  <2> QED
    BY <1>4, <2>3, <2>4 DEF ConnectAdmits
<1>5. ASSUME NEW p \in Consoles, DisconnectClient(p)
      PROVE  CredInv'
  <2> DEFINE t == task[p].t
             c == task[p].c
  <2>1. t \in Tenants /\ c \in Clients
    BY <1>5, TaskCarries DEF DisconnectClient, Waits
  <2>2. task' \in [Consoles \cup Plans -> Task]
    BY <1>5, TaskEndsTyped DEF DisconnectClient
  <2>3. CASE Removable(t, c)
    <3>1. cred' = [cred EXCEPT ![t][c] = NoCred] /\ claimed' = claimed \ {c}
      BY <1>5, <2>3 DEF DisconnectClient
    <3>2. /\ cred' \in [Tenants -> [Clients -> CredRow]]
          /\ \A u \in Tenants, d \in Clients :
               cred'[u][d] = IF u = t /\ d = c THEN NoCred ELSE cred[u][d]
      BY <2>1, <3>1, CredPut DEF CredTypeOK, CredRow
    <3>3. CredTypeOK'
      BY <1>5, <2>1, <2>2, <3>1, <3>2 DEF CredTypeOK, DisconnectClient
    <3>4. Guarded'
      BY <2>1, <2>3, <3>1, <3>2 DEF Guarded, Admitted, Removable, CredTypeOK
    <3> QED
      BY <3>3, <3>4
  <2>4. CASE ~Removable(t, c)
    BY <1>5, <2>1, <2>2, <2>4, CredRowsStay DEF CredTypeOK, DisconnectClient
  <2> QED
    BY <2>3, <2>4
<1>6. ASSUME NEW p \in Plans, NEW t \in Tenants, NEW c \in Clients, NEW owner_ \in Owners,
             PlanOrganization(p, t, c, owner_)
      PROVE  CredInv'
  <2>2. [at |-> "credential", t |-> t, c |-> c, owner |-> owner_] \in Task
    BY DEF Task
  <2>3. task' \in [Consoles \cup Plans -> Task]
    BY <1>6, <2>2, TurnTyped DEF PlanOrganization
  <2>4. CredTypeOK'
    BY <1>6, <2>3 DEF CredTypeOK, PlanOrganization
  <2> QED
    BY <1>6, <2>4, CredRowsStay DEF PlanOrganization
<1>7. ASSUME NEW p \in Plans, PlanResolves(p)
      PROVE  CredInv'
  <2>1. /\ [task[p] EXCEPT !.at = "create"] \in Task /\ [task[p] EXCEPT !.at = "catalogue"] \in Task
        /\ [task[p] EXCEPT !.at = "scope"] \in Task /\ NoTask \in Task
    BY <1>7, TaskCarries DEF PlanResolves, Waits, Task
  <2>2. \E r \in Task : Turn(p, r)
    BY <1>7, <2>1 DEF PlanResolves
  <2>3. task' \in [Consoles \cup Plans -> Task]
    BY <2>2, TurnTyped
  <2> QED
    BY <1>7, <2>3, CredRowsStay DEF CredTypeOK, PlanResolves
<1>8. ASSUME NEW p \in Plans, PlanCreates(p)
      PROVE  CredInv'
  <2>1. /\ task[p].t \in Tenants /\ task[p].c \in Clients /\ task[p].owner \in Owners
        /\ [task[p] EXCEPT !.at = "catalogue"] \in Task
    BY <1>8, TaskCarries DEF PlanCreates, Waits
  <2>2. task' \in [Consoles \cup Plans -> Task]
    BY <1>8, <2>1, TurnTyped, TaskEndsTyped DEF PlanCreates
  <2>3. CASE Admit(task[p].t, task[p].c, [by |-> "plan", owner |-> task[p].owner])
    <3>1. [by |-> "plan", owner |-> task[p].owner] \in [by : {"user", "plan"}, owner : Owners]
      BY <2>1
    <3> QED
      BY <1>8, <2>1, <2>2, <2>3, <3>1, AdmitInv DEF CredTypeOK, PlanCreates
  <2>4. CASE UNCHANGED <<cred, claimed, admissions>>
    BY <1>8, <2>2, <2>4, CredRowsStay DEF CredTypeOK, PlanCreates
  <2> QED
    BY <1>8, <2>3, <2>4 DEF PlanCreates
<1>9. ASSUME NEW p \in Plans, SetOwnerKey(p)
      PROVE  CredInv'
  <2> DEFINE t == task[p].t
             c == task[p].c
  <2>1. /\ t \in Tenants /\ c \in Clients /\ task[p].owner \in Owners
        /\ [task[p] EXCEPT !.at = "catalogue"] \in Task
    BY <1>9, TaskCarries DEF SetOwnerKey, Waits
  <2>2. task' \in [Consoles \cup Plans -> Task]
    BY <1>9, <2>1, TurnTyped, TaskEndsTyped DEF SetOwnerKey
  <2>3. CASE Scopable(t, c)
    <3>1. cred' = [cred EXCEPT ![t][c].owner = task[p].owner]
      BY <1>9, <2>3 DEF SetOwnerKey
    <3>2. cred[t][c] \in [by : {"user", "plan"}, owner : Owners]
      BY <2>1, <2>3 DEF Scopable, Admitted, CredTypeOK, CredRow
    <3>3. [cred[t][c] EXCEPT !.owner = task[p].owner] \in [by : {"user", "plan"}, owner : Owners]
      BY <2>1, <3>2
    <3>6. cred' = [cred EXCEPT ![t][c] = [cred[t][c] EXCEPT !.owner = task[p].owner]]
      BY <2>1, <3>1 DEF CredTypeOK
    <3>4. /\ cred' \in [Tenants -> [Clients -> CredRow]]
          /\ \A u \in Tenants, d \in Clients :
               cred'[u][d] = IF u = t /\ d = c THEN [cred[t][c] EXCEPT !.owner = task[p].owner] ELSE cred[u][d]
      <4>1. PICK r \in CredRow : r = [cred[t][c] EXCEPT !.owner = task[p].owner]
        BY <3>3 DEF CredRow
      <4>2. cred' = [cred EXCEPT ![t][c] = r] /\ cred \in [Tenants -> [Clients -> CredRow]]
        BY <3>6, <4>1 DEF CredTypeOK
      <4>3. /\ cred' \in [Tenants -> [Clients -> CredRow]]
            /\ \A u \in Tenants, d \in Clients : cred'[u][d] = IF u = t /\ d = c THEN r ELSE cred[u][d]
        BY <2>1, <4>2, CredPut
      <4> QED
        BY <4>1, <4>3
    <3>5. Guarded'
      BY SMTT(30), <1>9, <2>1, <2>3, <3>3, <3>4 DEF Guarded, Admitted, Scopable, NoCred, SetOwnerKey, CredTypeOK
    <3> QED
      BY <1>9, <2>2, <3>4, <3>5 DEF CredTypeOK, SetOwnerKey
  <2>4. CASE ~Scopable(t, c)
    BY <1>9, <2>2, <2>4, CredRowsStay DEF CredTypeOK, SetOwnerKey
  <2> QED
    BY <2>3, <2>4
<1>10. ASSUME NEW p \in Plans, PlanCatalogue(p)
       PROVE  CredInv'
  <2>1. task[p].t \in Tenants
    BY <1>10, TaskCarries DEF PlanCatalogue, Waits
  <2>2. task' \in [Consoles \cup Plans -> Task]
    BY <1>10, TaskEndsTyped DEF PlanCatalogue
  <2> QED
    BY <1>10, <2>1, <2>2, CredRowsStay DEF CredTypeOK, PlanCatalogue
<1>11. CASE UNCHANGED credVars
  BY <1>11, CredRowsStay DEF CredTypeOK, credVars
<1> QED
  BY <1>1, <1>2, <1>3, <1>4, <1>5, <1>6, <1>7, <1>8, <1>9, <1>10, <1>11 DEF CredentialsNext

(* A client is admitted to one tenant at a time and claimed exactly while  *)
(* it is, for any number of tenants, clients, console requests and plan    *)
(* runs over an index that lags (the guard row of the credential           *)
(* repository's admit and Disconnect).                                     *)
THEOREM ClientAdmittedOnce == CredentialsSpec => []AdmittedOnce
<1>1. CredInv => AdmittedOnce
  <2> SUFFICES ASSUME CredInv, NEW c \in Clients
               PROVE  Cardinality(Holding(c)) <= 1 /\ (Holding(c) # {} <=> c \in claimed)
    BY DEF AdmittedOnce
  <2>1. \A t, u \in Holding(c) : t = u
    BY DEF CredInv, Guarded, Holding
  <2>2. Cardinality(Holding(c)) <= 1
    BY <2>1, AtMostOne
  <2>3. Holding(c) # {} <=> c \in claimed
    BY DEF CredInv, Guarded, Holding
  <2> QED
    BY <2>2, <2>3
<1> QED
  BY <1>1, CredInitInv, CredNextInv, PTL DEF CredentialsSpec

(* A step never takes away, or hands to a merchant, a credential the plan  *)
(* made (the condition on connected_by in Disconnect).                     *)
THEOREM PlanCredentialStays == CredentialsSpec => ProvisionedStays
<1>1. ASSUME CredInv, [CredentialsNext]_credVars, NEW t \in Tenants, NEW c \in Clients,
             cred[t][c].by = "plan"
      PROVE  cred'[t][c].by = "plan"
  <2>0. Admitted(t, c) /\ cred[t][c] \in [by : {"user", "plan"}, owner : Owners]
    BY <1>1 DEF CredInv, CredTypeOK, CredRow, NoCred, Admitted
  <2>1. ASSUME NEW u \in Tenants, NEW d \in Clients, NEW r, Admit(u, d, r)
        PROVE  cred'[t][c] = cred[t][c]
    BY <1>1, <2>0, <2>1 DEF Admit, Admissible, CredInv, CredTypeOK
  <2>2. ASSUME NEW p \in Consoles, ConnectAdmits(p) PROVE cred'[t][c] = cred[t][c]
    <3>1. task[p].t \in Tenants /\ task[p].c \in Clients
      BY <1>1, <2>2, TaskCarries DEF ConnectAdmits, Waits, CredInv
    <3> QED
      BY <2>1, <2>2, <3>1 DEF ConnectAdmits
  <2>3. ASSUME NEW p \in Plans, PlanCreates(p) PROVE cred'[t][c] = cred[t][c]
    <3>1. task[p].t \in Tenants /\ task[p].c \in Clients
      BY <1>1, <2>3, TaskCarries DEF PlanCreates, Waits, CredInv
    <3> QED
      BY <2>1, <2>3, <3>1 DEF PlanCreates
  <2>4. ASSUME NEW p \in Consoles, DisconnectClient(p) PROVE cred'[t][c] = cred[t][c]
    <3>1. task[p].t \in Tenants /\ task[p].c \in Clients
      BY <1>1, <2>4, TaskCarries DEF DisconnectClient, Waits, CredInv
    <3> QED
      BY <1>1, <2>4, <3>1 DEF DisconnectClient, Removable, CredInv, CredTypeOK
  <2>5. ASSUME NEW p \in Plans, SetOwnerKey(p) PROVE cred'[t][c].by = "plan"
    <3>1. task[p].t \in Tenants /\ task[p].c \in Clients
      BY <1>1, <2>5, TaskCarries DEF SetOwnerKey, Waits, CredInv
    <3> QED
      BY <1>1, <2>0, <2>5, <3>1 DEF SetOwnerKey, CredInv, CredTypeOK
  <2>6. CASE cred' = cred
    BY <1>1, <2>6
  <2> QED
    BY <1>1, <2>2, <2>3, <2>4, <2>5, <2>6
       DEF CredentialsNext, credVars, IndexCatchesUp, Resolve, ResolvedExpires, ConnectClient, ReadCredential,
           PlanOrganization, PlanResolves, PlanCatalogue
<1>2. CredInv /\ [CredentialsNext]_credVars =>
        [\A t \in Tenants, c \in Clients : cred[t][c].by = "plan" => cred'[t][c].by = "plan"]_credVars
  BY <1>1
<1> QED
  BY <1>2, CredInitInv, CredNextInv, PTL DEF CredentialsSpec, ProvisionedStays

----------------------------------------------------------------------------
(* Applications.                                                           *)

AppRow   == {"none", "pending", "approved", "rejected"}
Pointer  == {NoPointer} \cup [app : Ids, status : {"pending", "approved", "rejected"}]
Previous == {NoPointer} \cup [app : Ids, status : {"rejected"}]
ApplyingCall ==
    {NoCall} \cup [at : {"pointer"}, tries : Nat, test : BOOLEAN, customer : BOOLEAN]
             \cup [at : {"write"}, tries : Nat, test : BOOLEAN, customer : BOOLEAN, prev : Previous]
DecidingCall ==
    {NoCall} \cup [at : {"get", "entitle", "subscribe", "tenant", "decide", "release"}, app : Ids,
                   to : {"approved", "rejected"}]

AppTypeOK ==
    /\ status \in [Ids -> AppRow]
    /\ pointer \in Pointer
    /\ lease \in [Ids -> Reviewers \cup {Unleased}]
    /\ tests \in Nat /\ live \in BOOLEAN /\ customer \in BOOLEAN /\ subs \in Nat
    /\ call \in [Requesters -> ApplyingCall \cup DecidingCall]
    /\ \A p \in Applicants : call[p] \in ApplyingCall
    /\ \A p \in Reviewers : call[p] \in DecidingCall

(* The test tenant is made with the first application.                     *)
FirstTest == tests <= 1 /\ (pointer = NoPointer => tests = 0)

AppInv == AppTypeOK /\ PendingIsCurrent /\ FirstTest

LEMMA IdsArePositive == Ids \subseteq Nat /\ 0 \notin Ids
BY ApplicationsAssumption DEF Ids

LEMMA AppInitInv == ApplicationsInit => AppInv
<1> SUFFICES ASSUME ApplicationsInit PROVE AppInv
  OBVIOUS
<1>1. NoCall \in ApplyingCall /\ NoCall \in DecidingCall /\ NoPointer \in Pointer
  BY DEF ApplyingCall, DecidingCall, Pointer
<1>2. AppTypeOK
  BY <1>1 DEF ApplicationsInit, AppTypeOK, Requesters, AppRow
<1>3. PendingIsCurrent /\ FirstTest
  BY DEF ApplicationsInit, PendingIsCurrent, FirstTest
<1> QED
  BY <1>2, <1>3 DEF AppInv

LEMMA ApplicantBecomes ==
    ASSUME AppTypeOK, NEW p \in Applicants, NEW r \in ApplyingCall, Becomes(p, r)
    PROVE  /\ call' \in [Requesters -> ApplyingCall \cup DecidingCall]
           /\ \A q \in Applicants : call'[q] \in ApplyingCall
           /\ \A q \in Reviewers : call'[q] = call[q]
BY ApplicationsAssumption DEF AppTypeOK, Becomes, Requesters

LEMMA ReviewerBecomes ==
    ASSUME AppTypeOK, NEW p \in Reviewers, NEW r \in DecidingCall, Becomes(p, r)
    PROVE  /\ call' \in [Requesters -> ApplyingCall \cup DecidingCall]
           /\ \A q \in Applicants : call'[q] = call[q]
           /\ \A q \in Reviewers : call'[q] = IF q = p THEN r ELSE call[q]
BY ApplicationsAssumption DEF AppTypeOK, Becomes, Requesters

(* What a reviewer at work carries, and that it may move on with it.       *)
LEMMA ReviewerCarries ==
    ASSUME AppTypeOK, NEW p \in Reviewers, call[p].at # "idle"
    PROVE  /\ App(p) \in Ids /\ call[p].to \in {"approved", "rejected"}
           /\ \A s \in {"entitle", "subscribe", "tenant", "decide", "release"} :
                /\ [call[p] EXCEPT !.at = s] \in DecidingCall
                /\ [call[p] EXCEPT !.at = s].at = s /\ [call[p] EXCEPT !.at = s].app = App(p)
<1>1. call[p] \in DecidingCall /\ call[p] # NoCall
  BY DEF AppTypeOK, NoCall
<1>2. call[p] \in [at : {"get", "entitle", "subscribe", "tenant", "decide", "release"}, app : Ids,
                   to : {"approved", "rejected"}]
  BY <1>1 DEF DecidingCall
<1> QED
  BY <1>2 DEF DecidingCall, App

(* A step of an applicant, and one of a reviewer, that decide nothing.     *)
LEMMA ApplicantAside ==
    ASSUME AppInv, NEW p \in Applicants, NEW r \in ApplyingCall, Becomes(p, r),
           UNCHANGED <<Decision, lease, Outcome>>
    PROVE  AppInv'
<1>1. AppTypeOK'
  BY ApplicantBecomes DEF AppInv, AppTypeOK, Decision, Outcome
<1> QED
  BY <1>1 DEF AppInv, PendingIsCurrent, FirstTest, Decision, Outcome

LEMMA ReviewerAside ==
    ASSUME AppInv, NEW p \in Reviewers, NEW r \in DecidingCall, Becomes(p, r),
           UNCHANGED <<Decision, tests, customer>>,
           lease' \in [Ids -> Reviewers \cup {Unleased}], live' \in BOOLEAN, subs' \in Nat
    PROVE  AppInv'
<1>1. AppTypeOK'
  BY ReviewerBecomes DEF AppInv, AppTypeOK, Decision
<1> QED
  BY <1>1 DEF AppInv, PendingIsCurrent, FirstTest, Decision

LEMMA ReadsTenants ==
    ASSUME AppInv, NEW p \in Applicants, NEW tries \in Nat, ReadTenants(p, tries)
    PROVE  \E r \in ApplyingCall : Becomes(p, r)
<1>1. NoCall \in ApplyingCall
  BY DEF ApplyingCall
<1>2. (tests > 0) \in BOOLEAN /\ customer \in BOOLEAN
  BY DEF AppInv, AppTypeOK
<1>3. [at |-> "pointer", tries |-> tries, test |-> tests > 0, customer |-> customer] \in ApplyingCall
  BY <1>2 DEF ApplyingCall
<1> QED
  BY <1>1, <1>3 DEF ReadTenants

(* An applicant that is to write, and what it read.                        *)
LEMMA WriterCarries ==
    ASSUME AppTypeOK, NEW p \in Applicants, call[p].at \in {"pointer", "write"}
    PROVE  /\ call[p].tries \in Nat /\ call[p].test \in BOOLEAN /\ call[p].customer \in BOOLEAN
           /\ call[p].at = "write" => call[p].prev \in Previous
BY DEF AppTypeOK, ApplyingCall, NoCall

LEMMA AppNextInv ==
    ASSUME AppInv, [ApplicationsNext]_appVars
    PROVE  AppInv'
<1> USE DEF AppInv
<1>1. ASSUME NEW p \in Applicants, Apply(p) PROVE AppInv'
  BY <1>1, ReadsTenants, ApplicantAside DEF Apply
<1>2. ASSUME NEW p \in Applicants, ReadPointer(p) PROVE AppInv'
  <2>1. NoCall \in ApplyingCall
    BY DEF ApplyingCall
  <2>2. CASE pointer.status \in {"pending", "approved"}
    BY <1>2, <2>1, <2>2, ApplicantAside DEF ReadPointer
  <2>3. CASE pointer.status \notin {"pending", "approved"}
    <3>1. pointer \in Previous
      BY <2>3 DEF AppTypeOK, Pointer, Previous
    <3>2. call[p].tries \in Nat /\ call[p].test \in BOOLEAN /\ call[p].customer \in BOOLEAN
      BY <1>2, WriterCarries DEF ReadPointer, Stands
    <3>3. [at |-> "write", tries |-> call[p].tries, test |-> call[p].test,
           customer |-> call[p].customer, prev |-> pointer] \in ApplyingCall
      BY <3>1, <3>2 DEF ApplyingCall
    <3> QED
      BY <1>2, <2>3, <3>3, ApplicantAside DEF ReadPointer
  <2> QED
    BY <2>2, <2>3
<1>3. ASSUME NEW p \in Applicants, WriteApplication(p) PROVE AppInv'
  <2>1. PICK a \in Ids : /\ Fresh(a)
                         /\ status' = [status EXCEPT ![a] = "pending"]
                         /\ pointer' = [app |-> a, status |-> "pending"]
    BY <1>3 DEF WriteApplication
  <2>2. pointer = call[p].prev /\ call[p].prev \in Previous
    BY <1>3, WriterCarries DEF WriteApplication, PointerHolds, Stands
  <2>3. NoCall \in ApplyingCall
    BY DEF ApplyingCall
  <2>4. pointer' \in Pointer /\ pointer' # NoPointer
    BY <2>1, IdsArePositive DEF Pointer, NoPointer
  <2>5. tests' \in Nat /\ tests' <= 1
    BY <1>3, <2>2 DEF WriteApplication, AppTypeOK, FirstTest
  <2>6. AppTypeOK'
    BY <1>3, <2>1, <2>3, <2>4, <2>5, ApplicantBecomes DEF WriteApplication, AppTypeOK, AppRow
  <2>7. \A b \in Ids : status[b] # "pending"
    BY <2>2, IdsArePositive DEF PendingIsCurrent, Previous, NoPointer
  <2>8. PendingIsCurrent'
    BY <2>1, <2>5, <2>7 DEF PendingIsCurrent, AppTypeOK
  <2> QED
    BY <2>4, <2>5, <2>6, <2>8 DEF FirstTest
<1>4. ASSUME NEW p \in Applicants, LoseApplication(p) PROVE AppInv'
  <2>1. NoCall \in ApplyingCall
    BY DEF ApplyingCall
  <2>2. call[p].tries + 1 \in Nat
    BY <1>4, WriterCarries DEF LoseApplication, Stands
  <2>3. \E r \in ApplyingCall : Becomes(p, r)
    BY <1>4, <2>1, <2>2, ReadsTenants DEF LoseApplication
  <2> QED
    BY <1>4, <2>3, ApplicantAside DEF LoseApplication
<1>5. ASSUME NEW p \in Reviewers, NEW a \in Ids, NEW to \in {"approved", "rejected"}, Lock(p, a, to)
      PROVE  AppInv'
  <2>1. [at |-> "get", app |-> a, to |-> to] \in DecidingCall
    BY DEF DecidingCall
  <2>2. lease' \in [Ids -> Reviewers \cup {Unleased}]
    BY <1>5 DEF Lock, AppTypeOK
  <2> QED
    BY <1>5, <2>1, <2>2, ReviewerAside DEF Lock, AppTypeOK, Outcome
<1>6. ASSUME NEW p \in Reviewers, Get(p) \/ Entitlement(p) \/ CallFails(p) PROVE AppInv'
  <2>1. call[p].at # "idle"
    BY <1>6 DEF Get, Entitlement, CallFails, Stands
  <2>2. \E r \in DecidingCall : Becomes(p, r)
    BY <1>6, <2>1, ReviewerCarries DEF Get, Entitlement, CallFails, Moves
  <2> QED
    BY <1>6, <2>2, ReviewerAside DEF Get, Entitlement, CallFails, AppTypeOK, Outcome
<1>7. ASSUME NEW p \in Reviewers, SubscribeMerchant(p) \/ EnsureLiveTenant(p) PROVE AppInv'
  <2>1. call[p].at # "idle"
    BY <1>7 DEF SubscribeMerchant, EnsureLiveTenant, Stands
  <2>2. \E r \in DecidingCall : Becomes(p, r)
    BY <1>7, <2>1, ReviewerCarries DEF SubscribeMerchant, EnsureLiveTenant, Moves
  <2>3. subs' \in Nat
    BY <1>7 DEF SubscribeMerchant, EnsureLiveTenant, AppTypeOK
  <2>4. live' \in BOOLEAN
    BY <1>7 DEF SubscribeMerchant, EnsureLiveTenant, AppTypeOK
  <2>5. lease' \in [Ids -> Reviewers \cup {Unleased}] /\ UNCHANGED <<Decision, tests, customer>>
    BY <1>7 DEF SubscribeMerchant, EnsureLiveTenant, AppTypeOK
  <2> QED
    BY <2>2, <2>3, <2>4, <2>5, ReviewerAside
<1>8. ASSUME NEW p \in Reviewers, Decide(p) PROVE AppInv'
  <2>1. /\ App(p) \in Ids /\ call[p].to \in {"approved", "rejected"}
        /\ [call[p] EXCEPT !.at = "release"] \in DecidingCall
    BY <1>8, ReviewerCarries DEF Decide, Stands
  <2>2. Becomes(p, [call[p] EXCEPT !.at = "release"])
    BY <1>8 DEF Decide, Moves
  <2>3. CASE Decidable(App(p))
    <3>1. /\ status' = [status EXCEPT ![App(p)] = call[p].to]
          /\ pointer' = [pointer EXCEPT !.status = call[p].to]
      BY <1>8, <2>3 DEF Decide
    <3>2. /\ pointer \in [app : Ids, status : {"pending", "approved", "rejected"}]
          /\ pointer.app = App(p) /\ pointer # NoPointer
      BY <2>1, <2>3, IdsArePositive DEF Decidable, AppTypeOK, Pointer, NoPointer
    <3>3. /\ pointer' \in Pointer /\ pointer'.app = App(p) /\ pointer'.status = call[p].to
          /\ pointer' # NoPointer
      BY <2>1, <3>1, <3>2, IdsArePositive DEF Pointer, NoPointer
    <3>4. AppTypeOK'
      BY <1>8, <2>1, <2>2, <3>1, <3>3, ReviewerBecomes DEF AppTypeOK, Decide, AppRow, Outcome
    <3>5. \A b \in Ids : status'[b] = IF b = App(p) THEN call[p].to ELSE status[b]
      BY <2>1, <3>1 DEF AppTypeOK
    <3>6. tests' = tests
      BY <1>8 DEF Decide, Outcome
    <3>7. PendingIsCurrent'
      BY <2>1, <3>2, <3>3, <3>5, <3>6 DEF PendingIsCurrent
    <3>8. FirstTest'
      BY <3>3, <3>6 DEF FirstTest
    <3> QED
      BY <3>4, <3>7, <3>8
  <2>4. CASE ~Decidable(App(p))
    BY <1>8, <2>1, <2>2, <2>4, ReviewerAside DEF Decide, AppTypeOK, Outcome
  <2> QED
    BY <2>3, <2>4
<1>9. ASSUME NEW p \in Reviewers, ReleaseLease(p) PROVE AppInv'
  <2>1. NoCall \in DecidingCall
    BY DEF DecidingCall
  <2>2. lease' \in [Ids -> Reviewers \cup {Unleased}]
    BY <1>9 DEF ReleaseLease, AppTypeOK
  <2> QED
    BY <1>9, <2>1, <2>2, ReviewerAside DEF ReleaseLease, AppTypeOK, Outcome
<1>10. ASSUME NEW p \in Requesters, RequesterDies(p) PROVE AppInv'
  <2>1. NoCall \in DecidingCall /\ NoCall \in ApplyingCall
    BY DEF DecidingCall, ApplyingCall
  <2>2. CASE p \in Applicants
    BY <1>10, <2>1, <2>2, ApplicantAside DEF RequesterDies
  <2>3. CASE p \in Reviewers
    BY <1>10, <2>1, <2>3, ReviewerAside DEF RequesterDies, AppTypeOK, Outcome
  <2> QED
    BY <2>2, <2>3 DEF Requesters
<1>11. ASSUME NEW a \in Ids, LeaseExpires(a) PROVE AppInv'
  BY <1>11 DEF LeaseExpires, AppTypeOK, PendingIsCurrent, FirstTest, Decision, Outcome
<1>12. CASE UNCHANGED appVars
  BY <1>12 DEF appVars, AppTypeOK, PendingIsCurrent, FirstTest
<1> QED
  BY <1>1, <1>2, <1>3, <1>4, <1>5, <1>6, <1>7, <1>8, <1>9, <1>10, <1>11, <1>12 DEF ApplicationsNext

(* Whatever applies and decides together, and however often leases expire  *)
(* under slow reviewers, the pending application is the one the pointer    *)
(* names, the pointer repeats its row, and one test tenant was made.       *)
THEOREM ApplicationIsCurrent == ApplicationsSpec => []PendingIsCurrent
BY AppInitInv, AppNextInv, PTL DEF ApplicationsSpec, AppInv

(* Without slow reviewers, who is past Get holds the lease; who is about   *)
(* to act on an application acts on a pending one, the only one; and who   *)
(* is about to subscribe found no subscription.                            *)
Acting(p) == call[p].at \in {"entitle", "subscribe", "tenant", "decide"}

LeaseInv ==
    /\ \A p \in Reviewers : call[p].at # "idle" => lease[App(p)] = p
    /\ \A p \in Reviewers : Acting(p) => status[App(p)] = "pending"
    /\ \A p \in Reviewers : call[p].at = "subscribe" => subs = 0
    /\ subs <= 1

(* So two reviewers never act at the same time.                            *)
LEMMA OneActs ==
    ASSUME AppInv, LeaseInv, NEW p \in Reviewers, NEW q \in Reviewers, Acting(p), Acting(q)
    PROVE  p = q
<1>1. call[p].at # "idle" /\ call[q].at # "idle"
  BY DEF Acting
<1>2. App(p) \in Ids /\ App(q) \in Ids
  BY <1>1, ReviewerCarries DEF AppInv
<1>3. pointer.app = App(p) /\ pointer.app = App(q)
  BY <1>2 DEF LeaseInv, AppInv, PendingIsCurrent
<1> QED
  BY <1>1, <1>3 DEF LeaseInv

LEMMA LeaseInitInv == ApplicationsInit => LeaseInv
BY DEF ApplicationsInit, LeaseInv, Acting, NoCall, Requesters

(* A step of one reviewer, seen by the others.                             *)
LEMMA LeaseNextInv ==
    ASSUME ~Slow, AppInv, LeaseInv, [ApplicationsNext]_appVars
    PROVE  LeaseInv'
<1> USE DEF App
<1>0. AppTypeOK
  BY DEF AppInv
<1>1. ASSUME NEW p \in Applicants, NEW r \in ApplyingCall, Becomes(p, r), UNCHANGED <<lease, subs>>,
             \A a \in Ids : status[a] = "pending" => status'[a] = "pending"
      PROVE  LeaseInv'
  <2>1. \A q \in Reviewers : call'[q] = call[q]
    BY <1>0, <1>1, ApplicantBecomes
  <2>2. \A q \in Reviewers : Acting(q) => App(q) \in Ids
    BY <1>0, ReviewerCarries DEF Acting
  <2> QED
    BY <1>1, <2>1, <2>2 DEF LeaseInv, Acting
<1>2. ASSUME NEW p \in Applicants,
             Apply(p) \/ ReadPointer(p) \/ WriteApplication(p) \/ LoseApplication(p) \/ RequesterDies(p)
      PROVE  LeaseInv'
  <2>1. \A q \in Applicants : call'[q] \in ApplyingCall
    BY AppNextInv DEF AppInv, AppTypeOK
  <2>2. \E r : Becomes(p, r)
    BY <1>2 DEF Apply, ReadPointer, WriteApplication, LoseApplication, RequesterDies, ReadTenants
  <2>3. PICK r : Becomes(p, r)
    BY <2>2
  <2>4. r \in ApplyingCall
    BY <1>0, <2>1, <2>3 DEF Becomes, AppTypeOK, Requesters
  <2>5. UNCHANGED <<lease, subs>> /\ \A a \in Ids : status[a] = "pending" => status'[a] = "pending"
    BY <1>0, <1>2 DEF Apply, ReadPointer, WriteApplication, LoseApplication, RequesterDies, Decision, Outcome, AppTypeOK
  <2> QED
    BY <1>1, <2>3, <2>4, <2>5
<1>3. ASSUME NEW p \in Reviewers, NEW a \in Ids, NEW to \in {"approved", "rejected"}, Lock(p, a, to)
      PROVE  LeaseInv'
  <2>1. [at |-> "get", app |-> a, to |-> to] \in DecidingCall
    BY DEF DecidingCall
  <2>2. \A q \in Reviewers : call'[q] = IF q = p THEN [at |-> "get", app |-> a, to |-> to] ELSE call[q]
    BY <1>0, <1>3, <2>1, ReviewerBecomes DEF Lock
  <2>3. lease[a] = Unleased /\ lease' = [lease EXCEPT ![a] = p] /\ UNCHANGED <<status, subs>>
    BY <1>3 DEF Lock, Decision, Outcome
  <2>4. \A q \in Reviewers : q # p /\ call[q].at # "idle" => App(q) # a /\ App(q) \in Ids
    <3> SUFFICES ASSUME NEW q \in Reviewers, call[q].at # "idle" PROVE App(q) # a /\ App(q) \in Ids
      OBVIOUS
    <3>1. call[q].app \in Ids
      BY <1>0, ReviewerCarries
    <3>2. lease[call[q].app] = q /\ q # Unleased
      BY ApplicationsAssumption DEF LeaseInv
    <3> QED
      BY <2>3, <3>1, <3>2
  <2> QED
    BY <1>0, <2>2, <2>3, <2>4 DEF LeaseInv, Acting, AppTypeOK
<1>4. ASSUME NEW p \in Reviewers, call[p].at # "idle", NEW s \in {"entitle", "subscribe", "tenant", "decide", "release"},
             Moves(p, s), UNCHANGED lease
      PROVE  /\ \A q \in Reviewers : q # p => call'[q] = call[q]
             /\ call'[p].at = s /\ call'[p].app = App(p) /\ App(p) \in Ids
             /\ \A q \in Reviewers : call'[q].at # "idle" => lease'[call'[q].app] = q
  <2>1. /\ [call[p] EXCEPT !.at = s] \in DecidingCall /\ [call[p] EXCEPT !.at = s].at = s
        /\ [call[p] EXCEPT !.at = s].app = App(p) /\ App(p) \in Ids
    BY <1>0, <1>4, ReviewerCarries
  <2>2. \A q \in Reviewers : call'[q] = IF q = p THEN [call[p] EXCEPT !.at = s] ELSE call[q]
    BY <1>0, <1>4, <2>1, ReviewerBecomes DEF Moves
  <2> QED
    BY <1>4, <2>1, <2>2 DEF LeaseInv
<1>5. ASSUME NEW p \in Reviewers, Get(p) PROVE LeaseInv'
  <2>1. PICK s \in {"release", "decide", "entitle"} :
           Moves(p, s) /\ (s # "release" => status[App(p)] = "pending")
    BY <1>5 DEF Get
  <2>2. call[p].at # "idle" /\ UNCHANGED <<status, lease, subs>>
    BY <1>5 DEF Get, Stands, Decision, Outcome
  <2> QED
    BY <1>4, <2>1, <2>2 DEF LeaseInv, Acting
<1>6. ASSUME NEW p \in Reviewers, Entitlement(p) PROVE LeaseInv'
  <2>1. PICK s \in {"tenant", "subscribe"} : Moves(p, s) /\ (s = "subscribe" => ~ (subs > 0))
    BY <1>6 DEF Entitlement, Entitled
  <2>2. call[p].at # "idle" /\ Acting(p) /\ UNCHANGED <<status, lease, subs>>
    BY <1>6 DEF Entitlement, Stands, Acting, Decision, Outcome
  <2>3. s = "subscribe" => subs = 0
    BY <1>0, <2>1 DEF AppTypeOK
  <2> QED
    BY <1>4, <2>1, <2>2, <2>3 DEF LeaseInv, Acting
<1>7. ASSUME NEW p \in Reviewers, SubscribeMerchant(p) PROVE LeaseInv'
  <2>1. Moves(p, "tenant") /\ call[p].at # "idle" /\ Acting(p) /\ subs = 0 /\ subs' = subs + 1
    BY <1>7 DEF SubscribeMerchant, Stands, Acting, LeaseInv
  <2>2. UNCHANGED <<status, lease>>
    BY <1>7 DEF SubscribeMerchant, Decision
  <2>3. \A q \in Reviewers : q # p => call[q].at # "subscribe"
    BY <2>1, OneActs DEF Acting
  <2> QED
    BY <1>4, <2>1, <2>2, <2>3 DEF LeaseInv, Acting
<1>8. ASSUME NEW p \in Reviewers, EnsureLiveTenant(p) PROVE LeaseInv'
  <2>1. Moves(p, "decide") /\ call[p].at # "idle" /\ Acting(p) /\ UNCHANGED <<status, lease, subs>>
    BY <1>8 DEF EnsureLiveTenant, Stands, Acting, Decision
  <2> QED
    BY <1>4, <2>1 DEF LeaseInv, Acting
<1>9. ASSUME NEW p \in Reviewers, Decide(p) PROVE LeaseInv'
  <2>1. Moves(p, "release") /\ call[p].at # "idle" /\ Acting(p) /\ UNCHANGED <<lease, subs>>
    BY <1>9 DEF Decide, Stands, Acting, Outcome
  <2>2. \A a \in Ids : a # App(p) => status'[a] = status[a]
    BY <1>0, <1>9 DEF Decide, Decision, AppTypeOK
  <2>3. \A q \in Reviewers : q # p => ~Acting(q)
    BY <2>1, OneActs
  <2> QED
    BY <1>4, <2>1, <2>2, <2>3 DEF LeaseInv, Acting
<1>10. ASSUME NEW p \in Reviewers, CallFails(p) PROVE LeaseInv'
  <2>1. Moves(p, "release") /\ call[p].at # "idle" /\ UNCHANGED <<status, lease, subs>>
    BY <1>10 DEF CallFails, Stands, Decision, Outcome
  <2> QED
    BY <1>4, <2>1 DEF LeaseInv, Acting
<1>11. ASSUME NEW p \in Reviewers, ReleaseLease(p) \/ RequesterDies(p) PROVE LeaseInv'
  <2>1. NoCall \in DecidingCall /\ NoCall.at = "idle"
    BY DEF DecidingCall, NoCall
  <2>2. \A q \in Reviewers : call'[q] = IF q = p THEN NoCall ELSE call[q]
    BY <1>0, <1>11, <2>1, ReviewerBecomes DEF ReleaseLease, RequesterDies
  <2>3. UNCHANGED <<status, subs>>
    BY <1>11 DEF ReleaseLease, RequesterDies, Decision, Outcome
  <2>4. \A b \in Ids : lease[b] # p => lease'[b] = lease[b]
    BY <1>0, <1>11 DEF ReleaseLease, RequesterDies, AppTypeOK
  <2>5. \A q \in Reviewers : call[q].at # "idle" => App(q) \in Ids
    BY <1>0, ReviewerCarries
  <2> QED
    BY <2>1, <2>2, <2>3, <2>4, <2>5 DEF LeaseInv, Acting
<1>12. ASSUME NEW a \in Ids, LeaseExpires(a) PROVE LeaseInv'
  <2>1. App(lease[a]) # a /\ lease[a] # Unleased
    BY <1>12 DEF LeaseExpires
  <2>2. \A q \in Reviewers : call[q].at # "idle" => App(q) # a
    BY <2>1 DEF LeaseInv
  <2>3. \A b \in Ids : b # a => lease'[b] = lease[b]
    BY <1>0, <1>12 DEF LeaseExpires, AppTypeOK
  <2>4. \A q \in Reviewers : call[q].at # "idle" => App(q) \in Ids
    BY <1>0, ReviewerCarries
  <2> QED
    BY <1>12, <2>2, <2>3, <2>4 DEF LeaseInv, LeaseExpires, Acting, Decision, Outcome
<1>13. CASE UNCHANGED appVars
  BY <1>13 DEF appVars, LeaseInv, Acting
<1> QED
  BY <1>2, <1>3, <1>5, <1>6, <1>7, <1>8, <1>9, <1>10, <1>11, <1>12, <1>13 DEF ApplicationsNext, Requesters

(* While no decision outlives its lease, the organization is subscribed at *)
(* most once, whoever dies or fails between the subscription and the       *)
(* decision and whoever retries (Approve reuses the entitlement it finds). *)
THEOREM OneSubscription == ASSUME ~Slow PROVE ApplicationsSpec => []SubscribedOnce
<1>1. AppInv /\ LeaseInv /\ [ApplicationsNext]_appVars => (AppInv /\ LeaseInv)'
  BY AppNextInv, LeaseNextInv
<1>2. AppInv /\ LeaseInv => SubscribedOnce
  BY DEF LeaseInv, SubscribedOnce
<1> QED
  BY <1>1, <1>2, AppInitInv, LeaseInitInv, PTL DEF ApplicationsSpec

----------------------------------------------------------------------------
(* Closure.                                                                *)

PastCancelling(c) == closure[c].state \in {"purging", "closed"}

ClosureState == {"none", "awaiting", "expired", "closing", "blocked", "ready", "cancelled", "purging", "closed"}

(* From a state a closure is purged in, a save only goes on to "closed".   *)
Transition(from, to) ==
    \/ from = "awaiting" /\ to = "expired"
    \/ from = "closing" /\ to \in {"blocked", "ready"}
    \/ from = "ready" /\ to \in {"purging", "cancelled"}
    \/ from = "purging" /\ to = "closed"

(* What a process carries at each step; who purges does it for a closure   *)
(* past cancelling.                                                        *)
ProcOK(x) ==
    /\ x.at \in {"create", "expire", "mail", "confirm", "raise", "cancel", "save", "token", "purge",
                 "tenants", "tombstone", "unflag"} => x.of \in Requests
    /\ x.at = "expire" => x.old \in Requests
    /\ x.at = "confirm" => x.to \in {"expired", "closing"}
    /\ x.at = "cancel" => x.from \in {"closing", "blocked", "ready"}
    /\ x.at = "save" => Transition(x.from, x.to)

PurgesOnly(x) == x.at \in {"purge", "tenants", "tombstone", "unflag"} => PastCancelling(x.of)

ClosureInv ==
    /\ closure \in [Requests -> [state : ClosureState, over : BOOLEAN]]
    /\ DOMAIN proc = Procs
    /\ \A p \in Procs : ProcOK(proc[p]) /\ PurgesOnly(proc[p])
    /\ marker = Nobody \/ marker \in Requests
    /\ PurgeIsPastCancelling

LEMMA ClosureInitInv == ClosureInit => ClosureInv
<1> SUFFICES ASSUME ClosureInit PROVE ClosureInv
  OBVIOUS
<1>1. closure \in [Requests -> [state : ClosureState, over : BOOLEAN]]
  BY DEF ClosureInit, ClosureState
<1>2. DOMAIN proc = Procs /\ \A p \in Procs : ProcOK(proc[p]) /\ PurgesOnly(proc[p])
  BY DEF ClosureInit, ProcOK, PurgesOnly, Idle
<1> QED
  BY <1>1, <1>2 DEF ClosureInv, ClosureInit, PurgeIsPastCancelling

(* A save from a state before the purge, or from "purging" to "closed".    *)
SafeSave(from, to) ==
    \/ from \in {"none", "awaiting", "closing", "blocked", "ready"} /\ to \in ClosureState
    \/ from = "purging" /\ to = "closed"

LEMMA SaveKeeps ==
    ASSUME ClosureInv, NEW c \in Requests, NEW from, NEW to, SafeSave(from, to), Save(c, from, to)
    PROVE  /\ closure' \in [Requests -> [state : ClosureState, over : BOOLEAN]]
           /\ \A d \in Requests : PastCancelling(d) => PastCancelling(d)'
           /\ closure'[c].state = to
           /\ marker' = Nobody \/ marker' \in Requests
<1>1. to \in ClosureState
  BY DEF SafeSave, ClosureState
<1>2. closure' = [closure EXCEPT ![c] = [state |-> to, over |-> FALSE]] /\ closure[c].state = from
  BY DEF Save, Savable
<1>3. [state |-> to, over |-> FALSE] \in [state : ClosureState, over : BOOLEAN]
  BY <1>1
<1>4. \A d \in Requests : closure'[d] = IF d = c THEN [state |-> to, over |-> FALSE] ELSE closure[d]
  BY <1>2 DEF ClosureInv
<1>5. closure' \in [Requests -> [state : ClosureState, over : BOOLEAN]]
  BY <1>2, <1>3 DEF ClosureInv
<1>6. marker' = Nobody \/ marker' \in Requests
  BY DEF Save
<1> QED
  BY <1>2, <1>4, <1>5, <1>6 DEF PastCancelling, SafeSave

(* A step that moves one process: the rows keep every closure that is past *)
(* cancelling past it, and nothing new is deleted but by one.              *)
LEMMA ClosureStep ==
    ASSUME ClosureInv, NEW p \in Procs, NEW r, Goes(p, r), ProcOK(r),
           r.at \in {"purge", "tenants", "tombstone", "unflag"} => closure'[r.of].state \in {"purging", "closed"},
           closure' \in [Requests -> [state : ClosureState, over : BOOLEAN]],
           \A d \in Requests : PastCancelling(d) => PastCancelling(d)',
           marker' = Nobody \/ marker' \in Requests,
           UNCHANGED Rows \/ \E c \in Requests : PastCancelling(c)'
    PROVE  ClosureInv'
<1>1. DOMAIN proc' = Procs /\ \A q \in Procs : proc'[q] = IF q = p THEN r ELSE proc[q]
  BY DEF ClosureInv, Goes
<1>2. \A q \in Procs : ProcOK(proc'[q])
  BY <1>1 DEF ClosureInv
<1>3. \A q \in Procs : proc[q].at \in {"purge", "tenants", "tombstone", "unflag"} =>
         closure'[proc[q].of].state \in {"purging", "closed"}
  BY DEF ClosureInv, ProcOK, PurgesOnly, PastCancelling
<1>4. \A q \in Procs : PurgesOnly(proc[q])'
  BY <1>1, <1>3 DEF PurgesOnly, PastCancelling
<1>5. PurgeIsPastCancelling'
  BY DEF ClosureInv, PurgeIsPastCancelling, PastCancelling, Rows
<1>6. \A q \in Procs : ProcOK(proc[q])'
  BY <1>2 DEF ProcOK
<1> QED
  BY <1>1, <1>4, <1>5, <1>6 DEF ClosureInv

(* The same when no row changes.                                           *)
LEMMA ClosureAside ==
    ASSUME ClosureInv, NEW p \in Procs, NEW r, Goes(p, r), ProcOK(r), PurgesOnly(r),
           UNCHANGED <<closure, marker>>, UNCHANGED Rows \/ \E c \in Requests : PastCancelling(c)
    PROVE  ClosureInv'
<1>1. r.at \in {"purge", "tenants", "tombstone", "unflag"} => closure'[r.of].state \in {"purging", "closed"}
  BY DEF PurgesOnly, PastCancelling
<1>2. \A d \in Requests : PastCancelling(d) => PastCancelling(d)'
  BY DEF PastCancelling
<1> QED
  BY <1>1, <1>2, ClosureStep DEF ClosureInv

LEMMA IdleProc == ProcOK(Idle) /\ PurgesOnly(Idle)
BY DEF ProcOK, PurgesOnly, Idle

(* One lemma per kind of step: the requests' reads, their writes, the      *)
(* worker's read and save, and the purge.                                  *)
LEMMA ClosureReads ==
    ASSUME ClosureInv, NEW p \in Procs, NEW c \in Requests,
           RequestReads(p, c) \/ ConfirmReads(p, c) \/ CancelReads(p, c) \/ StepReads(p, c)
    PROVE  ClosureInv'
<1>1. CASE RequestReads(p, c)
  <2>1. Goes(p, [at |-> "create", of |-> c, again |-> FALSE])
    BY <1>1 DEF RequestReads
  <2>2. ProcOK([at |-> "create", of |-> c, again |-> FALSE]) /\ PurgesOnly([at |-> "create", of |-> c, again |-> FALSE])
    BY DEF ProcOK, PurgesOnly
  <2> QED
    BY <1>1, <2>1, <2>2, ClosureAside DEF RequestReads
<1>2. CASE ConfirmReads(p, c)
  <2>1. PICK r : Goes(p, r) /\ \/ r = [at |-> "raise", of |-> c, mail |-> FALSE]
                               \/ \E to \in {"expired", "closing"} : r = [at |-> "confirm", of |-> c, to |-> to]
    BY <1>2 DEF ConfirmReads
  <2>2. ProcOK(r) /\ PurgesOnly(r)
    BY <2>1 DEF ProcOK, PurgesOnly
  <2> QED
    BY <1>2, <2>1, <2>2, ClosureAside DEF ConfirmReads
<1>3. CASE CancelReads(p, c)
  <2>1. PICK r : Goes(p, r) /\ r = [at |-> "cancel", of |-> c, from |-> closure[c].state]
    BY <1>3 DEF CancelReads
  <2>2. ProcOK(r) /\ PurgesOnly(r)
    BY <1>3, <2>1 DEF ProcOK, PurgesOnly, CancelReads
  <2> QED
    BY <1>3, <2>1, <2>2, ClosureAside DEF CancelReads
<1>4. CASE StepReads(p, c)
  <2>1. \/ closure[c].state = "purging" /\ Goes(p, [at |-> "purge", of |-> c])
        \/ \E to : /\ Transition(closure[c].state, to)
                   /\ Goes(p, [at |-> "save", of |-> c, from |-> closure[c].state, to |-> to])
    BY <1>4 DEF StepReads, Transition
  <2>3. PICK r : Goes(p, r) /\ \/ closure[c].state = "purging" /\ r = [at |-> "purge", of |-> c]
                               \/ \E f, t : Transition(f, t) /\ r = [at |-> "save", of |-> c, from |-> f, to |-> t]
    BY <2>1
  <2>2. ProcOK(r) /\ PurgesOnly(r)
    BY <2>3 DEF ProcOK, PurgesOnly, PastCancelling
  <2> QED
    BY <1>4, <2>2, <2>3, ClosureAside DEF StepReads
<1> QED
  BY <1>1, <1>2, <1>3, <1>4

LEMMA CreateKeeps ==
    ASSUME ClosureInv, NEW c \in Requests, Creatable(c), Create(c)
    PROVE  /\ closure' \in [Requests -> [state : ClosureState, over : BOOLEAN]]
           /\ \A d \in Requests : PastCancelling(d) => PastCancelling(d)'
           /\ marker' \in Requests
<1>1. [closure[c] EXCEPT !.state = "awaiting"] \in [state : ClosureState, over : BOOLEAN]
  BY DEF ClosureInv, ClosureState
<1>2. closure' = [closure EXCEPT ![c] = [closure[c] EXCEPT !.state = "awaiting"]]
  BY DEF Create, ClosureInv
<1>3. closure' \in [Requests -> [state : ClosureState, over : BOOLEAN]]
  BY <1>1, <1>2 DEF ClosureInv
<1>4. \A d \in Requests : d # c => closure'[d] = closure[d]
  BY <1>2 DEF ClosureInv
<1> QED
  BY <1>3, <1>4 DEF PastCancelling, Creatable, Create

(* A save that is made, or not, by a process that goes on to no purge.     *)
LEMMA ClosureSaves ==
    ASSUME ClosureInv, NEW p \in Procs, NEW r, Goes(p, r), ProcOK(r),
           r.at \notin {"purge", "tenants", "tombstone", "unflag"}, UNCHANGED Rows,
           NotSaved \/ \E c \in Requests : \E from, to : SafeSave(from, to) /\ Save(c, from, to)
    PROVE  ClosureInv'
<1>1. CASE NotSaved
  BY <1>1, ClosureAside DEF NotSaved, PurgesOnly
<1>2. ASSUME NEW c \in Requests, NEW from, NEW to, SafeSave(from, to), Save(c, from, to)
      PROVE  ClosureInv'
  BY <1>2, SaveKeeps, ClosureStep
<1> QED
  BY <1>1, <1>2

LEMMA RequestWrites ==
    ASSUME ClosureInv, NEW p \in Procs, RequestCreates(p) \/ ExpireUnconfirmed(p)
    PROVE  ClosureInv'
<1>0. ProcOK(proc[p])
  BY DEF ClosureInv
<1>1. CASE RequestCreates(p)
  <2> DEFINE c == proc[p].of
  <2>1. c \in Requests /\ UNCHANGED Rows
    BY <1>0, <1>1 DEF RequestCreates, At, ProcOK
  <2>2. CASE Creatable(c)
    <3>1. Create(c) /\ Goes(p, [at |-> "mail", of |-> c])
      BY <1>1, <2>2 DEF RequestCreates
    <3>2. ProcOK([at |-> "mail", of |-> c])
      BY <2>1 DEF ProcOK
    <3> QED
      BY <2>1, <2>2, <3>1, <3>2, CreateKeeps, ClosureStep
  <2>3. CASE ~Creatable(c)
    <3>1. PICK r : /\ Goes(p, r)
                   /\ \/ r = Idle
                      \/ marker # Nobody /\ r = [at |-> "expire", of |-> c, old |-> marker]
      BY <1>1, <2>3 DEF RequestCreates
    <3>2. ProcOK(r) /\ r.at \notin {"purge", "tenants", "tombstone", "unflag"}
      BY <2>1, <3>1 DEF ProcOK, Idle, ClosureInv
    <3>3. NotSaved
      BY <1>1, <2>3 DEF RequestCreates
    <3> QED
      BY <2>1, <3>1, <3>2, <3>3, ClosureSaves
  <2> QED
    BY <2>2, <2>3
<1>2. CASE ExpireUnconfirmed(p)
  <2>1. proc[p].of \in Requests /\ proc[p].old \in Requests /\ UNCHANGED Rows
    BY <1>0, <1>2 DEF ExpireUnconfirmed, At, ProcOK
  <2>2. PICK r : Goes(p, r) /\ (r = Idle \/ r = [at |-> "create", of |-> proc[p].of, again |-> TRUE])
    BY <1>2 DEF ExpireUnconfirmed
  <2>3. ProcOK(r) /\ r.at \notin {"purge", "tenants", "tombstone", "unflag"}
    BY <2>1, <2>2 DEF ProcOK, Idle
  <2>4. SafeSave("awaiting", "expired") /\ (NotSaved \/ Save(proc[p].old, "awaiting", "expired"))
    BY <1>2 DEF ExpireUnconfirmed, SafeSave, ClosureState
  <2> QED
    BY <2>1, <2>2, <2>3, <2>4, ClosureSaves
<1> QED
  BY <1>1, <1>2

LEMMA ConfirmWrites ==
    ASSUME ClosureInv, NEW p \in Procs, ConfirmSaves(p) \/ \E sent \in BOOLEAN : MailConfirm(p, sent)
    PROVE  ClosureInv'
<1>0. ProcOK(proc[p])
  BY DEF ClosureInv
<1>1. CASE ConfirmSaves(p)
  <2>1. proc[p].of \in Requests /\ proc[p].to \in {"expired", "closing"} /\ UNCHANGED Rows
    BY <1>0, <1>1 DEF ConfirmSaves, At, ProcOK
  <2>2. PICK r : Goes(p, r) /\ (r = Idle \/ r = [at |-> "raise", of |-> proc[p].of, mail |-> TRUE])
    BY <1>1 DEF ConfirmSaves
  <2>3. ProcOK(r) /\ r.at \notin {"purge", "tenants", "tombstone", "unflag"}
    BY <2>1, <2>2 DEF ProcOK, Idle
  <2>4. SafeSave("awaiting", proc[p].to) /\ (NotSaved \/ Save(proc[p].of, "awaiting", proc[p].to))
    BY <1>1, <2>1 DEF ConfirmSaves, SafeSave, ClosureState
  <2> QED
    BY <2>1, <2>2, <2>3, <2>4, ClosureSaves
<1>2. ASSUME NEW sent \in BOOLEAN, MailConfirm(p, sent) PROVE ClosureInv'
  <2>1. proc[p].of \in Requests /\ UNCHANGED Rows /\ Goes(p, Idle)
    BY <1>0, <1>2 DEF MailConfirm, At, ProcOK
  <2>2. ProcOK(Idle) /\ Idle.at \notin {"purge", "tenants", "tombstone", "unflag"}
    BY DEF ProcOK, Idle
  <2>3. SafeSave("awaiting", "expired") /\ (NotSaved \/ Save(proc[p].of, "awaiting", "expired"))
    BY <1>2 DEF MailConfirm, SafeSave, ClosureState
  <2> QED
    BY <2>1, <2>2, <2>3, ClosureSaves
<1> QED
  BY <1>1, <1>2

LEMMA FlagWrites ==
    ASSUME ClosureInv, NEW p \in Procs,
           RaiseFlag(p) \/ CancelSaves(p) \/ LiftFlags(p) \/ BlockedMail(p) \/ Crash(p)
    PROVE  ClosureInv'
<1>0. ProcOK(proc[p])
  BY DEF ClosureInv
<1>1. CASE RaiseFlag(p) \/ LiftFlags(p) \/ BlockedMail(p) \/ Crash(p)
  BY <1>1, IdleProc, ClosureAside DEF RaiseFlag, LiftFlags, BlockedMail, Crash
<1>2. CASE CancelSaves(p)
  <2>1. proc[p].of \in Requests /\ proc[p].from \in {"closing", "blocked", "ready"} /\ UNCHANGED Rows
    BY <1>0, <1>2 DEF CancelSaves, At, ProcOK
  <2>2. PICK r : Goes(p, r) /\ (r = Idle \/ r = [at |-> "lift"])
    BY <1>2 DEF CancelSaves
  <2>3. ProcOK(r) /\ r.at \notin {"purge", "tenants", "tombstone", "unflag"}
    BY <2>2 DEF ProcOK, Idle
  <2>4. SafeSave(proc[p].from, "cancelled") /\ (NotSaved \/ Save(proc[p].of, proc[p].from, "cancelled"))
    BY <1>2, <2>1 DEF CancelSaves, SafeSave, ClosureState
  <2> QED
    BY <2>1, <2>2, <2>3, <2>4, ClosureSaves
<1> QED
  BY <1>1, <1>2

(* The worker's save, the only one a purge follows.                        *)
LEMMA WorkerSaves ==
    ASSUME ClosureInv, NEW w \in Procs, StepSaves(w)
    PROVE  ClosureInv'
<1> DEFINE x == proc[w]
<1>0. x.of \in Requests /\ Transition(x.from, x.to) /\ UNCHANGED Rows
  BY DEF ClosureInv, ProcOK, StepSaves, At
<1>1. SafeSave(x.from, x.to)
  BY <1>0 DEF SafeSave, Transition, ClosureState
<1>2. CASE ~CanSave(x.of, x.from, x.to)
  BY <1>2, IdleProc, ClosureAside DEF StepSaves, NotSaved
<1>3. CASE CanSave(x.of, x.from, x.to)
  <2>1. PICK r : /\ Goes(w, r)
                 /\ \/ x.to = "purging" /\ r = [at |-> "purge", of |-> x.of]
                    \/ r \in {[at |-> "lift"], [at |-> "token", of |-> x.of], Idle}
    BY <1>3 DEF StepSaves
  <2>2. Save(x.of, x.from, x.to)
    BY <1>3 DEF StepSaves
  <2>3. ProcOK(r) /\ (r.at \in {"purge", "tenants", "tombstone", "unflag"} => r.of = x.of /\ x.to = "purging")
    BY <1>0, <2>1 DEF ProcOK, Idle
  <2>4. closure'[x.of].state = x.to
    BY <1>0, <1>1, <2>2, SaveKeeps
  <2> QED
    BY <1>0, <1>1, <2>1, <2>2, <2>3, <2>4, SaveKeeps, ClosureStep
<1> QED
  BY <1>2, <1>3

(* The purge: every row goes on behalf of a closure past cancelling.       *)
LEMMA PurgeSteps ==
    ASSUME ClosureInv, NEW w \in Procs,
           PurgeReads(w) \/ DeleteApplications(w) \/ Tombstone(w) \/ Unflag(w) \/ \E m \in Modes : PurgeTenant(w, m)
    PROVE  ClosureInv'
<1> DEFINE c == proc[w].of
<1>1. c \in Requests /\ PastCancelling(c)
  BY DEF ClosureInv, ProcOK, PurgesOnly, PurgeReads, DeleteApplications, Tombstone, Unflag, PurgeTenant, At
<1>2. UNCHANGED <<closure, marker>>
  BY DEF PurgeReads, DeleteApplications, Tombstone, Unflag, PurgeTenant
<1>3. \E r : Goes(w, r) /\ ProcOK(r) /\ PurgesOnly(r)
  <2>1. CASE PurgeReads(w)
    <3>1. ProcOK([at |-> "tenants", of |-> c, left |-> tenants]) /\ PurgesOnly([at |-> "tenants", of |-> c, left |-> tenants])
      BY <1>1 DEF ProcOK, PurgesOnly
    <3> QED
      BY <2>1, <3>1, IdleProc DEF PurgeReads
  <2>2. ASSUME NEW m \in Modes, PurgeTenant(w, m) PROVE \E r : Goes(w, r) /\ ProcOK(r) /\ PurgesOnly(r)
    <3>1. PICK r : Goes(w, r) /\ r = [proc[w] EXCEPT !.left = @ \ {m}]
      BY <2>2 DEF PurgeTenant
    <3>2. r.at = "tenants" /\ r.of = c
      BY <2>2, <3>1 DEF PurgeTenant, At
    <3> QED
      BY <1>1, <3>1, <3>2 DEF ProcOK, PurgesOnly
  <2>3. CASE DeleteApplications(w)
    <3>1. ProcOK([at |-> "tombstone", of |-> c]) /\ PurgesOnly([at |-> "tombstone", of |-> c])
      BY <1>1 DEF ProcOK, PurgesOnly
    <3> QED
      BY <2>3, <3>1 DEF DeleteApplications
  <2>4. CASE Tombstone(w)
    <3>1. ProcOK([at |-> "unflag", of |-> c]) /\ PurgesOnly([at |-> "unflag", of |-> c])
      BY <1>1 DEF ProcOK, PurgesOnly
    <3> QED
      BY <2>4, <3>1 DEF Tombstone
  <2>5. CASE Unflag(w)
    <3>1. PICK r : Goes(w, r) /\ r = [at |-> "save", of |-> c, from |-> "purging", to |-> "closed"]
      BY <2>5 DEF Unflag
    <3>2. ProcOK(r) /\ PurgesOnly(r)
      BY <1>1, <3>1 DEF ProcOK, PurgesOnly, Transition
    <3> QED
      BY <3>1, <3>2
  <2> QED
    BY <2>1, <2>2, <2>3, <2>4, <2>5
<1> QED
  BY <1>1, <1>2, <1>3, ClosureAside

LEMMA ClosureNextInv ==
    ASSUME ClosureInv, [ClosureNext]_closureVars
    PROVE  ClosureInv'
<1>1. ASSUME NEW p \in Procs, Working(p) PROVE ClosureInv'
  BY <1>1, RequestWrites, ConfirmWrites, FlagWrites, WorkerSaves, PurgeSteps DEF Working
<1>2. ASSUME NEW p \in Procs, Crash(p) PROVE ClosureInv'
  BY <1>2, FlagWrites
<1>3. ASSUME NEW c \in Requests, TimePasses(c) PROVE ClosureInv'
  <2>1. [closure[c] EXCEPT !.over = TRUE] \in [state : ClosureState, over : BOOLEAN]
    BY DEF ClosureInv
  <2>2. closure' = [closure EXCEPT ![c] = [closure[c] EXCEPT !.over = TRUE]]
    BY <1>3 DEF TimePasses, ClosureInv
  <2>3. closure' \in [Requests -> [state : ClosureState, over : BOOLEAN]]
    BY <2>1, <2>2 DEF ClosureInv
  <2>4. \A d \in Requests : closure'[d].state = closure[d].state
    BY <2>2 DEF ClosureInv
  <2>5. UNCHANGED <<marker, proc, Rows>>
    BY <1>3 DEF TimePasses
  <2>6. \A p \in Procs : PurgesOnly(proc[p])'
    BY <2>4, <2>5 DEF ClosureInv, ProcOK, PurgesOnly, PastCancelling
  <2> QED
    BY <2>3, <2>4, <2>5, <2>6 DEF ClosureInv, ProcOK, PurgeIsPastCancelling, Rows
<1>4. CASE Subscribe \/ BusinessEnds \/ LoseOwnership \/ UNCHANGED closureVars
  BY <1>4 DEF Subscribe, BusinessEnds, LoseOwnership, closureVars, ClosureInv, ProcOK, PurgesOnly, PastCancelling,
              PurgeIsPastCancelling, Rows
<1> QED
  BY <1>1, <1>2, <1>3, <1>4, ClosureReads DEF ClosureNext

(* Nothing of a tenant is deleted but by a closure past cancelling, for    *)
(* any number of requests, clicks, workers, crashes and changes: the       *)
(* conditional save decides between a late cancel and the purge.           *)
THEOREM PurgesPastCancelling == ClosureSpec => []PurgeIsPastCancelling
BY ClosureInitInv, ClosureNextInv, PTL DEF ClosureSpec, ClosureInv

----------------------------------------------------------------------------
(* Erasure.                                                                *)

PersonRow == [sub : BOOLEAN, named : BOOLEAN, levels : BOOLEAN, debt : BOOLEAN]

Forgotten(c) == ~person[c].sub /\ ~person[c].named
AllForgotten == \A c \in Customers : Forgotten(c) /\ ~person[c].levels

(* What a run that has come so far has done, and will not be undone: its   *)
(* list holds everything that is left.                                     *)
EraserOK(w) ==
    LET x == eraser[w]
    IN  /\ x.at = "customers" => \A c \in Customers : c \in x.left \/ Forgotten(c)
        /\ x.at \in {"banks", "children"} => AllForgotten
        /\ x.at = "banks" => banksLeft \subseteq x.left
        /\ x.at = "children" => banksLeft = {} /\ children \subseteq x.left

ErasureInv ==
    /\ top \subseteq TopRows
    /\ person \in [Customers -> PersonRow]
    /\ DOMAIN eraser = Erasers
    /\ \A w \in Erasers : EraserOK(w)
    /\ ErasureIsResumable

LEMMA ErasureInitInv == ErasureInit => ErasureInv
<1> SUFFICES ASSUME ErasureInit PROVE ErasureInv
  OBVIOUS
<1> DEFINE row_(d) == [sub |-> TRUE, named |-> TRUE, levels |-> TRUE, debt |-> d]
<1>4. \A d \in BOOLEAN : row_(d) \in PersonRow
  BY DEF PersonRow
<1> HIDE DEF row_
<1>0. {row_(d) : d \in BOOLEAN} \subseteq PersonRow
  BY <1>4
<1> USE DEF row_
<1>1. person \in [Customers -> PersonRow]
  BY <1>0 DEF ErasureInit
<1>2. \A w \in Erasers : EraserOK(w)
  BY DEF ErasureInit, EraserOK, NotErasing
<1>3. ErasureIsResumable
  BY DEF ErasureInit, ErasureIsResumable, NamedBy, Children
<1> QED
  BY <1>1, <1>2, <1>3 DEF ErasureInv, ErasureInit

(* Nobody's list is outdated by what others delete, and nobody's data      *)
(* comes back.                                                             *)
Shrinks ==
    /\ children' \subseteq children /\ banksLeft' \subseteq banksLeft /\ top' \subseteq top
    /\ person' \in [Customers -> PersonRow]
    /\ \A c \in Customers : /\ ~person[c].sub => ~person'[c].sub
                            /\ ~person[c].named => ~person'[c].named
                            /\ ~person[c].levels => ~person'[c].levels

(* The step of one run: the others keep what they know.                    *)
LEMMA EraserStep ==
    ASSUME ErasureInv, Shrinks, NEW w \in Erasers, NEW r, EraserGoes(w, r), EraserOK(w)',
           children' \subseteq NamedBy(top'),
           acked' = "done" => acked = "done" \/ (top' = {} /\ children' = {} /\ banksLeft' = {} /\ AllForgotten')
    PROVE  ErasureInv'
<1>1. DOMAIN eraser' = Erasers /\ \A v \in Erasers : v # w => eraser'[v] = eraser[v]
  BY DEF ErasureInv, EraserGoes
<1>2. ASSUME NEW v \in Erasers, v # w PROVE EraserOK(v)'
  BY <1>1, <1>2 DEF ErasureInv, Shrinks, EraserOK, AllForgotten, Forgotten
<1>3. ErasureIsResumable'
  BY DEF ErasureInv, ErasureIsResumable, Shrinks, AllForgotten, Forgotten
<1> QED
  BY <1>1, <1>2, <1>3 DEF ErasureInv, Shrinks

(* A step that moves no run.                                               *)
LEMMA EraserStays ==
    ASSUME ErasureInv, Shrinks, UNCHANGED eraser, children' \subseteq NamedBy(top'), acked' = "done" => acked = "done"
    PROVE  ErasureInv'
<1>2. ASSUME NEW v \in Erasers PROVE EraserOK(v)'
  BY <1>2 DEF ErasureInv, Shrinks, EraserOK, AllForgotten, Forgotten
<1>3. ErasureIsResumable'
  BY DEF ErasureInv, ErasureIsResumable, Shrinks
<1> QED
  BY <1>2, <1>3 DEF ErasureInv, Shrinks

LEMMA NothingShrinks ==
    ASSUME ErasureInv, UNCHANGED <<top, children, person, banksLeft>>
    PROVE  Shrinks /\ children' \subseteq NamedBy(top')
BY DEF Shrinks, ErasureInv, ErasureIsResumable, NamedBy

LEMMA ErasureNextInv ==
    ASSUME ErasureInv, [ErasureNext]_erasureVars
    PROVE  ErasureInv'
<1>0. \A w \in Erasers : EraserOK(w)
  BY DEF ErasureInv
<1>1. ASSUME NEW w \in Erasers, Blockers(w) PROVE ErasureInv'
  <2>1. CASE acked' = "blocked" /\ UNCHANGED eraser
    BY <1>1, <2>1, NothingShrinks, EraserStays DEF Blockers
  <2>2. CASE EraserGoes(w, [at |-> "customers", left |-> Customers]) /\ UNCHANGED acked
    <3>1. EraserOK(w)'
      BY <2>2 DEF EraserGoes, EraserOK, ErasureInv
    <3> QED
      BY <1>1, <2>2, <3>1, NothingShrinks, EraserStep DEF Blockers
  <2> QED
    BY <1>1, <2>1, <2>2 DEF Blockers
<1>2. ASSUME NEW w \in Erasers, EraseLevels(w) PROVE ErasureInv'
  <2>1. \A c \in Customers : Forgotten(c)
    BY <1>0, <1>2 DEF EraseLevels, EraserAt, EraserOK
  <2>2. \A c \in Customers : person'[c] = [person[c] EXCEPT !.levels = FALSE] /\ person'[c] \in PersonRow
    BY <1>2 DEF EraseLevels, WithoutLevels, ErasureInv, PersonRow
  <2>3. \A c \in Customers : /\ person'[c].sub = person[c].sub /\ person'[c].named = person[c].named
                             /\ ~person'[c].levels
    BY <2>2 DEF ErasureInv, PersonRow
  <2>4. person' \in [Customers -> PersonRow]
    BY <1>2, <2>2 DEF EraseLevels, WithoutLevels
  <2>5. Shrinks /\ AllForgotten'
    BY <1>2, <2>1, <2>3, <2>4 DEF EraseLevels, Shrinks, AllForgotten, Forgotten
  <2>6. EraserGoes(w, [at |-> "banks", left |-> banksLeft])
    BY <1>2 DEF EraseLevels
  <2>7. EraserOK(w)'
    BY <1>2, <2>5, <2>6 DEF EraserGoes, EraserOK, ErasureInv, EraseLevels
  <2>8. children' \subseteq NamedBy(top') /\ UNCHANGED acked
    BY <1>2 DEF EraseLevels, ErasureInv, ErasureIsResumable
  <2> QED
    BY <2>5, <2>6, <2>7, <2>8, EraserStep
<1>3. ASSUME NEW w \in Erasers, FindChildren(w) PROVE ErasureInv'
  <2>1. EraserGoes(w, [at |-> "children", left |-> NamedBy(top)])
    BY <1>3 DEF FindChildren
  <2>2. banksLeft = {} /\ AllForgotten
    BY <1>0, <1>3 DEF FindChildren, EraserAt, EraserOK
  <2>3. EraserOK(w)'
    BY <1>3, <2>1, <2>2 DEF EraserGoes, EraserOK, ErasureInv, ErasureIsResumable, FindChildren, AllForgotten, Forgotten
  <2> QED
    BY <1>3, <2>1, <2>3, NothingShrinks, EraserStep DEF FindChildren
<1>4. ASSUME NEW w \in Erasers, EraserDies(w) PROVE ErasureInv'
  <2>1. EraserOK(w)'
    BY <1>4 DEF EraserDies, EraserGoes, EraserOK, NotErasing, ErasureInv
  <2> QED
    BY <1>4, <2>1, NothingShrinks, EraserStep DEF EraserDies
<1>5. ASSUME NEW w \in Erasers, NEW c \in Customers, EraseCustomer(w, c) PROVE ErasureInv'
  <2>0. children' \subseteq NamedBy(top') /\ UNCHANGED <<top, children, banksLeft, acked>>
    BY <1>5 DEF EraseCustomer, ErasureInv, ErasureIsResumable, NamedBy
  <2>1. CASE person[c].sub
    <3>1. person' = [person EXCEPT ![c] = [person[c] EXCEPT !.sub = FALSE]] /\ UNCHANGED eraser
      BY <1>5, <2>1 DEF EraseCustomer, ErasureInv
    <3>2. [person[c] EXCEPT !.sub = FALSE] \in PersonRow
      BY DEF ErasureInv, PersonRow
    <3>3. Shrinks
      BY <2>0, <3>1, <3>2 DEF Shrinks, ErasureInv, PersonRow
    <3> QED
      BY <2>0, <3>1, <3>3, EraserStays
  <2>2. CASE ~person[c].sub
    <3>1. /\ person' = [person EXCEPT ![c] = [person[c] EXCEPT !.named = FALSE]]
          /\ EraserGoes(w, [eraser[w] EXCEPT !.left = @ \ {c}]) /\ eraser[w].at = "customers"
      BY <1>5, <2>2 DEF EraseCustomer, ErasureInv, EraserAt
    <3>2. [person[c] EXCEPT !.named = FALSE] \in PersonRow
      BY DEF ErasureInv, PersonRow
    <3>3. Shrinks /\ Forgotten(c)'
      BY <2>0, <2>2, <3>1, <3>2 DEF Shrinks, ErasureInv, PersonRow, Forgotten
    <3>4. eraser'[w].at = "customers" /\ eraser'[w].left = eraser[w].left \ {c}
      BY <3>1, <1>5 DEF EraserGoes, ErasureInv, EraseCustomer
    <3>5. \A d \in Customers : d \in eraser[w].left \/ Forgotten(d)
      BY <1>0, <3>1 DEF EraserOK
    <3>6. EraserOK(w)'
      BY <3>3, <3>4, <3>5 DEF EraserOK, Shrinks, Forgotten
    <3> QED
      BY <2>0, <3>1, <3>3, <3>6, EraserStep
  <2> QED
    BY <2>1, <2>2
<1>6. ASSUME NEW w \in Erasers, NEW b \in Banks, DisconnectBank(w, b) PROVE ErasureInv'
  <2>0. UNCHANGED <<person, acked>> /\ eraser[w].at = "banks" /\ person' \in [Customers -> PersonRow]
    BY <1>6 DEF DisconnectBank, EraserAt, ErasureInv
  <2>1. CASE BankHooks[b] \cap children # {}
    <3>1. children' = children \ BankHooks[b] /\ UNCHANGED <<banksLeft, top, eraser>>
      BY <1>6, <2>1 DEF DisconnectBank
    <3>2. Shrinks /\ children' \subseteq NamedBy(top')
      BY <2>0, <3>1 DEF Shrinks, ErasureInv, ErasureIsResumable, NamedBy
    <3> QED
      BY <2>0, <3>1, <3>2, EraserStays
  <2>2. CASE BankHooks[b] \cap children = {}
    <3>1. /\ banksLeft' = banksLeft \ {b} /\ top' = top \ {r \in TopRows : Names[r] = BankHooks[b]}
          /\ EraserGoes(w, [eraser[w] EXCEPT !.left = @ \ {b}]) /\ UNCHANGED children
      BY <1>6, <2>2 DEF DisconnectBank
    <3>2. Shrinks
      BY <2>0, <3>1 DEF Shrinks
    <3>3. children' \subseteq NamedBy(top')
      <4> SUFFICES ASSUME NEW k \in children PROVE \E r \in top' : k \in Names[r]
        BY <3>1 DEF NamedBy
      <4>1. PICK r \in top : k \in Names[r]
        BY DEF ErasureInv, ErasureIsResumable, NamedBy
      <4>2. Names[r] # BankHooks[b]
        BY <2>2, <4>1
      <4> QED
        BY <3>1, <4>1, <4>2
    <3>4. eraser'[w].at = "banks" /\ eraser'[w].left = eraser[w].left \ {b}
      BY <1>6, <2>0, <3>1 DEF EraserGoes, ErasureInv, DisconnectBank
    <3>5. AllForgotten /\ banksLeft \subseteq eraser[w].left
      BY <1>0, <2>0 DEF EraserOK
    <3>6. EraserOK(w)'
      BY <2>0, <3>1, <3>4, <3>5 DEF EraserOK, AllForgotten, Forgotten
    <3> QED
      BY <2>0, <3>1, <3>2, <3>3, <3>6, EraserStep
  <2> QED
    BY <2>1, <2>2
<1>7. ASSUME NEW w \in Erasers, NEW k \in Children, DeletePartition(w, k) PROVE ErasureInv'
  <2>1. /\ UNCHANGED <<top, person, banksLeft, acked>> /\ children' = children \ {k}
        /\ EraserGoes(w, [eraser[w] EXCEPT !.left = @ \ {k}]) /\ eraser[w].at = "children"
    BY <1>7 DEF DeletePartition, EraserAt
  <2>2. Shrinks /\ children' \subseteq NamedBy(top')
    BY <2>1 DEF Shrinks, ErasureInv, ErasureIsResumable, NamedBy
  <2>3. eraser'[w].at = "children" /\ eraser'[w].left = eraser[w].left \ {k}
    BY <1>7, <2>1 DEF EraserGoes, ErasureInv, DeletePartition
  <2>4. AllForgotten /\ banksLeft = {} /\ children \subseteq eraser[w].left
    BY <1>0, <2>1 DEF EraserOK
  <2>5. EraserOK(w)'
    BY <2>1, <2>3, <2>4 DEF EraserOK, AllForgotten, Forgotten
  <2> QED
    BY <2>1, <2>2, <2>5, EraserStep
<1>8. ASSUME NEW w \in Erasers, NEW r \in TopRows, DeleteRow(w, r) PROVE ErasureInv'
  <2>1. children = {}
    BY <1>0, <1>8 DEF DeleteRow, TablesMayGo, EraserAt, EraserOK
  <2>2. Shrinks /\ children' \subseteq NamedBy(top')
    BY <1>8, <2>1 DEF DeleteRow, Shrinks, ErasureInv
  <2> QED
    BY <1>8, <2>2, EraserStays DEF DeleteRow
<1>9. ASSUME NEW w \in Erasers, NEW heard \in BOOLEAN, Ack(w, heard) PROVE ErasureInv'
  <2>1. top = {} /\ children = {} /\ banksLeft = {} /\ AllForgotten
    BY <1>0, <1>9 DEF Ack, EraserAt, EraserOK
  <2>2. UNCHANGED <<top, children, person, banksLeft>> /\ EraserGoes(w, NotErasing)
    BY <1>9 DEF Ack
  <2>3. top' = {} /\ children' = {} /\ banksLeft' = {} /\ AllForgotten'
    BY <2>1, <2>2 DEF AllForgotten, Forgotten
  <2>4. EraserOK(w)'
    BY <2>2 DEF EraserGoes, EraserOK, NotErasing, ErasureInv
  <2> QED
    BY <2>2, <2>3, <2>4, NothingShrinks, EraserStep
<1>10. ASSUME NEW c \in Customers, Pay(c) \/ Bill(c) PROVE ErasureInv'
  <2>1. PICK d \in BOOLEAN : person' = [person EXCEPT ![c] = [person[c] EXCEPT !.debt = d]]
    BY <1>10 DEF Pay, Bill, ErasureInv
  <2>2. [person[c] EXCEPT !.debt = d] \in PersonRow
    BY DEF ErasureInv, PersonRow
  <2>3. UNCHANGED <<top, children, banksLeft, eraser, acked>>
    BY <1>10 DEF Pay, Bill
  <2>4. Shrinks
    BY <2>1, <2>2, <2>3 DEF Shrinks, ErasureInv, PersonRow
  <2>5. children' \subseteq NamedBy(top')
    BY <2>3 DEF ErasureInv, ErasureIsResumable, NamedBy
  <2> QED
    BY <2>3, <2>4, <2>5, EraserStays
<1>11. CASE UNCHANGED erasureVars
  BY <1>11, NothingShrinks, EraserStays DEF erasureVars
<1> QED
  BY <1>1, <1>2, <1>3, <1>4, <1>5, <1>6, <1>7, <1>8, <1>9, <1>10, <1>11 DEF ErasureNext

(* For every registry of tables and any number of overlapping deliveries   *)
(* and deaths: what is left can be found by the next delivery, and the     *)
(* account service is told "done" only when nothing is left.               *)
THEOREM ErasureResumes == ErasureSpec => []ErasureIsResumable
BY ErasureInitInv, ErasureNextInv, PTL DEF ErasureSpec, ErasureInv

----------------------------------------------------------------------------
(* Connections.                                                            *)

ConnRow == [state : {"none", "onboarding", "active", "expired"}, id : Nat, rev : Nat, version : Nat,
            notAfter : Nat, warned : Nat]

(* The rows: one is connected exactly from its first revision on.          *)
RowsOK ==
    /\ conn \in [Providers -> ConnRow]
    /\ \A p \in Providers : Connected(p) <=> conn[p].rev > 0
    /\ guard \in Nat /\ clock \in Nat /\ made \in Nat
    /\ DOMAIN holder = Holders

(* What was read, or made, of a connection and may be saved.               *)
LiveCopy(c) == c \in ConnRow /\ c.state \in {"active", "expired"} /\ c.rev > 0
WasTold(c, notices) == c.warned > 0 => <<c.id, c.version, c.warned>> \in notices

(* Whoever has counted knows, as long as the guard has not moved, that the *)
(* plan allows one more.                                                   *)
CountedBy(x) == x.guard = guard => Cardinality(Others(x.p)) < Quota

HolderOK(x) ==
    /\ x.at # "idle" => x.p \in Providers
    /\ x.at \in {"counting", "bank", "creating"} => x.guard \in Nat /\ x.guard <= guard
    /\ x.at \in {"bank", "creating"} => CountedBy(x)
    /\ x.at \in {"creating", "outcome", "sealing", "expiry", "notice", "marking"} => LiveCopy(x.c) /\ WasTold(x.c, told)

ConnInv ==
    /\ RowsOK
    /\ \A h \in Holders : HolderOK(holder[h])
    /\ WithinQuota /\ WarnedWasTold

AllConnected == {p \in Providers : Connected(p)}

LEMMA ConnectedFinite ==
    /\ IsFiniteSet(AllConnected) /\ Cardinality(AllConnected) \in Nat
    /\ \A p : IsFiniteSet(Others(p)) /\ Cardinality(Others(p)) \in Nat
<1>1. AllConnected \subseteq Providers /\ \A p : Others(p) \subseteq Providers
  BY DEF AllConnected, Others
<1> QED
  BY <1>1, ConnectionsAssumption, FS_Subset, FS_CardinalityType

LEMMA ConnInitInv == ConnectionsInit => ConnInv
<1> SUFFICES ASSUME ConnectionsInit PROVE ConnInv
  OBVIOUS
<1>1. RowsOK
  BY DEF ConnectionsInit, RowsOK, ConnRow, NoConn, Connected
<1>2. \A h \in Holders : HolderOK(holder[h])
  BY DEF ConnectionsInit, HolderOK, Nothing
<1>3. AllConnected = {}
  BY DEF ConnectionsInit, AllConnected, Connected, NoConn
<1>4. WithinQuota
  BY <1>3, FS_EmptySet, ConnectionsAssumption DEF WithinQuota, AllConnected
<1>5. WarnedWasTold
  BY DEF ConnectionsInit, WarnedWasTold, NoConn
<1> QED
  BY <1>1, <1>2, <1>4, <1>5 DEF ConnInv

(* A step of one holder that connects nobody new: the counts stand.        *)
LEMMA ConnStep ==
    ASSUME ConnInv, NEW h \in Holders, NEW r, Turns(h, r),
           RowsOK', UNCHANGED guard, told \subseteq told', WarnedWasTold',
           \A p \in Providers : Connected(p)' => Connected(p),
           r.at # "idle" => r.p \in Providers,
           r.at \in {"counting", "bank", "creating"} => r.guard \in Nat /\ r.guard <= guard,
           r.at \in {"bank", "creating"} => CountedBy(r),
           r.at \in {"creating", "outcome", "sealing", "expiry", "notice", "marking"} => LiveCopy(r.c) /\ WasTold(r.c, told')
    PROVE  ConnInv'
<1>1. \A g \in Holders : holder'[g] = IF g = h THEN r ELSE holder[g]
  BY DEF ConnInv, RowsOK, Turns
<1>2. AllConnected' \subseteq AllConnected /\ \A p : Others(p)' \subseteq Others(p)
  BY DEF AllConnected, Others
<1>3. /\ Cardinality(AllConnected') <= Cardinality(AllConnected) /\ Cardinality(AllConnected') \in Nat
      /\ \A p : Cardinality(Others(p)') <= Cardinality(Others(p)) /\ Cardinality(Others(p)') \in Nat
  BY <1>2, ConnectedFinite, FS_Subset, FS_CardinalityType
<1>4. WithinQuota'
  BY <1>3, ConnectedFinite, ConnectionsAssumption DEF ConnInv, WithinQuota, AllConnected
<1>5. ASSUME NEW x, x.at \in {"bank", "creating"} => CountedBy(x)
      PROVE  x.at \in {"bank", "creating"} => (x.guard = guard' => Cardinality(Others(x.p)') < Quota)
  BY <1>3, <1>5, ConnectedFinite, ConnectionsAssumption DEF CountedBy
<1>6. ASSUME NEW g \in Holders PROVE HolderOK(holder[g])'
  <2>1. CASE g = h
    BY <1>1, <1>5, <2>1 DEF HolderOK, CountedBy
  <2>2. CASE g # h
    <3>1. HolderOK(holder[g]) /\ holder'[g] = holder[g]
      BY <1>1, <2>2 DEF ConnInv
    <3> QED
      BY <1>5, <3>1 DEF HolderOK, CountedBy, WasTold
  <2> QED
    BY <2>1, <2>2
<1> QED
  BY <1>4, <1>6 DEF ConnInv

(* The same when the rows and the notices stay.                            *)
LEMMA ConnAside ==
    ASSUME ConnInv, NEW h \in Holders, NEW r, Turns(h, r), UNCHANGED <<conn, guard, told, clock>>, made' \in Nat,
           r.at # "idle" => r.p \in Providers,
           r.at \in {"counting", "bank", "creating"} => r.guard \in Nat /\ r.guard <= guard,
           r.at \in {"bank", "creating"} => CountedBy(r),
           r.at \in {"creating", "outcome", "sealing", "expiry", "notice", "marking"} => LiveCopy(r.c) /\ WasTold(r.c, told)
    PROVE  ConnInv'
<1>1. RowsOK' /\ WarnedWasTold'
  BY DEF ConnInv, RowsOK, WarnedWasTold, Connected, Turns
<1>2. \A p \in Providers : Connected(p)' => Connected(p)
  BY DEF Connected
<1> QED
  BY <1>1, <1>2, ConnStep

LEMMA LetsGo ==
    ASSUME ConnInv, NEW h \in Holders, Lets(h), UNCHANGED <<conn, guard, told, clock, made>>
    PROVE  ConnInv'
<1>1. Turns(h, Nothing) /\ Nothing.at = "idle" /\ made' \in Nat
  BY DEF Lets, Nothing, ConnInv, RowsOK
<1> QED
  BY <1>1, ConnAside

(* A save of a copy, or of what became of it: it connects nobody and tells *)
(* nobody.                                                                 *)
LEMMA SaveOK ==
    ASSUME ConnInv, NEW p \in Providers, NEW c, NEW next, LiveCopy(c), LiveCopy(next), WasTold(next, told'),
           SaveConnection(p, c, next), UNCHANGED <<guard, clock, made>>, DOMAIN holder' = Holders,
           told \subseteq told'
    PROVE  /\ RowsOK' /\ WarnedWasTold'
           /\ \A q \in Providers : Connected(q)' => Connected(q)
           /\ LiveCopy(Bumped(next)) /\ WasTold(Bumped(next), told')
<1>1. LiveCopy(Bumped(next)) /\ WasTold(Bumped(next), told')
  BY DEF LiveCopy, Bumped, ConnRow, WasTold
<1>2. CASE Unmoved(p, c)
  <2>1. conn' = [conn EXCEPT ![p] = Bumped(next)]
    BY <1>2 DEF SaveConnection
  <2>2. Connected(p)
    BY <1>2 DEF ConnInv, RowsOK, Unmoved, LiveCopy
  <2>3. \A q \in Providers : conn'[q] = IF q = p THEN Bumped(next) ELSE conn[q]
    BY <2>1 DEF ConnInv, RowsOK
  <2>4. Bumped(next).state \in {"active", "expired"} /\ Bumped(next).rev > 0 /\ Bumped(next) \in ConnRow
    BY <1>1 DEF LiveCopy
  <2>5. conn' \in [Providers -> ConnRow]
    BY <2>1, <2>4 DEF ConnInv, RowsOK
  <2>6. RowsOK'
    BY <2>3, <2>4, <2>5 DEF ConnInv, RowsOK, Connected
  <2>7. WarnedWasTold'
    BY <1>1, <2>3 DEF ConnInv, WarnedWasTold, WasTold
  <2>8. \A q \in Providers : Connected(q)' => Connected(q)
    BY <2>2, <2>3 DEF Connected
  <2> QED
    BY <1>1, <2>6, <2>7, <2>8
<1>3. CASE ~Unmoved(p, c)
  <2>1. conn' = conn
    BY <1>3 DEF SaveConnection
  <2> QED
    BY <1>1, <2>1 DEF ConnInv, RowsOK, WarnedWasTold, Connected
<1> QED
  BY <1>2, <1>3

(* Connecting: the count and the create.                                   *)
LEMMA ConnectSteps ==
    ASSUME ConnInv, NEW h \in Holders,
           CountConnections(h) \/ BankConnects(h) \/ BankRefuses(h) \/ CreateConnection(h)
    PROVE  ConnInv'
<1> DEFINE x == holder[h]
<1>0. HolderOK(x) /\ RowsOK
  BY DEF ConnInv
<1>1. CASE CountConnections(h)
  <2>1. x.at = "counting" /\ UNCHANGED <<conn, guard, told, clock, made>>
    BY <1>1 DEF CountConnections, Is
  <2>2. CASE PlanAllows(Cardinality(Others(x.p)))
    <3>1. PICK r : Turns(h, r) /\ r = [x EXCEPT !.at = "bank"]
      BY <1>1, <2>2 DEF CountConnections, Bank
    <3>2. r.at = "bank" /\ r.p = x.p /\ r.guard = x.guard
      BY <2>1, <3>1
    <3>3. CountedBy(r)
      BY <2>2, <3>2 DEF CountedBy, PlanAllows
    <3> QED
      BY <1>0, <2>1, <3>1, <3>2, <3>3, ConnAside DEF HolderOK, RowsOK
  <2>3. CASE ~PlanAllows(Cardinality(Others(x.p)))
    BY <1>1, <2>1, <2>3, LetsGo DEF CountConnections, Bank
  <2> QED
    BY <2>2, <2>3
<1>2. CASE BankConnects(h)
  <2> DEFINE c == [state |-> "active", id |-> made + 1, rev |-> 1, version |-> 1, notAfter |-> clock + Life, warned |-> 0]
  <2>1. x.at = "bank" /\ UNCHANGED <<conn, guard, told, clock>> /\ made' = made + 1
    BY <1>2 DEF BankConnects, Is
  <2>2. LiveCopy(c) /\ WasTold(c, told)
    BY <1>0, ConnectionsAssumption DEF LiveCopy, ConnRow, WasTold, RowsOK
  <2>3. Turns(h, [at |-> "creating", p |-> x.p, guard |-> x.guard, c |-> c])
    BY <1>2 DEF BankConnects, Bank
  <2> HIDE DEF c
  <2>4. PICK r : Turns(h, r) /\ r = [at |-> "creating", p |-> x.p, guard |-> x.guard, c |-> c]
    BY <2>3
  <2>5. r.at = "creating" /\ r.p = x.p /\ r.guard = x.guard /\ r.c = c
    BY <2>4
  <2>6. CountedBy(r)
    BY <1>0, <2>1, <2>5 DEF HolderOK, CountedBy
  <2> QED
    BY <1>0, <2>1, <2>2, <2>4, <2>5, <2>6, ConnAside DEF HolderOK, RowsOK
<1>3. CASE BankRefuses(h)
  BY <1>3, LetsGo DEF BankRefuses
<1>4. CASE CreateConnection(h)
  <2> DEFINE p == x.p
             c == x.c
  <2>1. x.at = "creating" /\ p \in Providers /\ LiveCopy(c) /\ WasTold(c, told) /\ CountedBy(x)
    BY <1>0, <1>4 DEF CreateConnection, Is, HolderOK
  <2>2. UNCHANGED <<told, clock, made>>
    BY <1>4 DEF CreateConnection
  <2>3. CASE ~ConnCreatable(h)
    BY <1>4, <2>2, <2>3, LetsGo DEF CreateConnection
  <2>4. CASE ConnCreatable(h)
    <3>1. /\ conn' = [conn EXCEPT ![p] = c] /\ guard' = guard + 1
          /\ ~Connected(p) /\ x.guard = guard
      BY <1>4, <2>4 DEF CreateConnection, ConnCreatable, GuardHolds, Bank, Copy
    <3>2. PICK r : Turns(h, r) /\ r = [at |-> "outcome", p |-> p, c |-> c]
      BY <1>4, <2>4 DEF CreateConnection, Bank, Copy
    <3>3. r.at = "outcome" /\ r.p = p /\ r.c = c
      BY <3>2
    <3>4. \A q \in Providers : conn'[q] = IF q = p THEN c ELSE conn[q]
      BY <1>0, <2>1, <3>1 DEF RowsOK
    <3>5. RowsOK'
      BY <1>0, <2>1, <2>2, <3>1, <3>2, <3>4 DEF RowsOK, LiveCopy, Connected, Turns
    <3>6. WarnedWasTold'
      BY <2>1, <2>2, <3>4 DEF ConnInv, WarnedWasTold, WasTold
    <3>7. \A g \in Holders : holder'[g] = IF g = h THEN r ELSE holder[g]
      BY <1>0, <3>2 DEF RowsOK, Turns
    <3>8. \A g \in Holders : HolderOK(holder[g])'
      <4>1. ASSUME NEW g \in Holders, g # h PROVE HolderOK(holder[g])'
        <5>1. HolderOK(holder[g]) /\ holder'[g] = holder[g]
          BY <3>7, <4>1 DEF ConnInv
        <5>2. holder[g].at \in {"counting", "bank", "creating"} =>
                 /\ holder[g].guard \in Nat /\ holder[g].guard <= guard'
                 /\ holder[g].guard # guard'
          BY <1>0, <3>1, <5>1 DEF HolderOK, RowsOK
        <5> QED
          BY <2>2, <5>1, <5>2 DEF HolderOK, CountedBy, WasTold
      <4>2. HolderOK(holder[h])'
        BY <2>1, <2>2, <3>3, <3>7 DEF HolderOK
      <4> QED
        BY <4>1, <4>2
    <3>9. AllConnected' = Others(p) \cup {p}
      BY <2>1, <3>1, <3>4 DEF AllConnected, Others, Connected, LiveCopy
    <3>10. Cardinality(AllConnected') = Cardinality(Others(p)) + 1
      BY <3>9, ConnectedFinite, FS_AddElement DEF Others
    <3>11. WithinQuota'
      BY <2>1, <3>1, <3>10, ConnectedFinite, ConnectionsAssumption DEF WithinQuota, AllConnected, CountedBy
    <3> QED
      BY <3>5, <3>6, <3>8, <3>11 DEF ConnInv
  <2> QED
    BY <2>3, <2>4
<1> QED
  BY <1>1, <1>2, <1>3, <1>4

(* The reads.                                                              *)
LEMMA ConnectionReads ==
    ASSUME ConnInv, NEW h \in Holders, NEW p \in Providers,
           ReadGuard(h, p) \/ Test(h, p) \/ Reseal(h, p) \/ JobTakes(h, p) \/ Disconnect(h, p)
    PROVE  ConnInv'
<1>0. RowsOK
  BY DEF ConnInv
<1>1. CASE ReadGuard(h, p)
  <2>1. PICK r : Turns(h, r) /\ r = [at |-> "counting", p |-> p, guard |-> guard]
    BY <1>1 DEF ReadGuard
  <2>2. r.at = "counting" /\ r.p = p /\ r.guard = guard
    BY <2>1
  <2> QED
    BY <1>0, <1>1, <2>1, <2>2, ConnAside DEF ReadGuard, RowsOK
<1>2. ASSUME NEW s \in {"outcome", "sealing", "expiry"}, Reads(h, p, s) PROVE ConnInv'
  <2>1. PICK r : Turns(h, r) /\ r = [at |-> s, p |-> p, c |-> conn[p]]
    BY <1>2 DEF Reads
  <2>2. r.at = s /\ r.p = p /\ r.c = conn[p]
    BY <2>1
  <2>3. LiveCopy(conn[p]) /\ WasTold(conn[p], told)
    BY <1>0, <1>2 DEF Reads, LiveCopy, RowsOK, Connected, ConnInv, WarnedWasTold, WasTold
  <2> QED
    BY <1>0, <1>2, <2>1, <2>2, <2>3, ConnAside DEF Reads, RowsOK
<1>3. CASE Disconnect(h, p)
  <2>1. PICK r : Turns(h, r) /\ r = [at |-> "deleting", p |-> p, c |-> conn[p]]
    BY <1>3 DEF Disconnect
  <2>2. r.at = "deleting" /\ r.p = p
    BY <2>1
  <2> QED
    BY <1>0, <1>3, <2>1, <2>2, ConnAside DEF Disconnect, RowsOK
<1> QED
  BY <1>1, <1>2, <1>3 DEF Test, Reseal, JobTakes

LEMMA ResealedIsLive ==
    ASSUME NEW c, LiveCopy(c), NEW t \in Nat
    PROVE  LiveCopy(Resealed(c, t)) /\ Resealed(c, t).warned = 0
<1> DEFINE c1 == [c EXCEPT !.version = @ + 1]
           c2 == [c1 EXCEPT !.state = "active"]
           c3 == [c2 EXCEPT !.notAfter = t]
           c4 == [c3 EXCEPT !.warned = 0]
<1>1. c1 \in ConnRow /\ c1.rev > 0
  BY DEF LiveCopy, ConnRow
<1> HIDE DEF c1
<1>2. c2 \in ConnRow /\ c2.rev > 0 /\ c2.state = "active"
  BY <1>1 DEF ConnRow
<1> HIDE DEF c2
<1>3. c3 \in ConnRow /\ c3.rev > 0 /\ c3.state = "active"
  BY <1>2 DEF ConnRow
<1> HIDE DEF c3
<1>4. c4 \in ConnRow /\ c4.rev > 0 /\ c4.state = "active" /\ c4.warned = 0
  BY <1>3 DEF ConnRow
<1>5. Resealed(c, t) = c4
  BY DEF Resealed, c1, c2, c3
<1> HIDE DEF c4
<1> QED
  BY <1>4, <1>5 DEF LiveCopy

(* The writes of a request: the health, the renewal, the removal.          *)
LEMMA RequestSaves ==
    ASSUME ConnInv, NEW h \in Holders, RecordOutcome(h) \/ SaveResealed(h) \/ DeleteConnection(h)
    PROVE  ConnInv'
<1> DEFINE x == holder[h]
<1>0. HolderOK(x) /\ RowsOK
  BY DEF ConnInv
<1>1. x.p \in Providers /\ Turns(h, Nothing) /\ Nothing.at = "idle" /\ UNCHANGED <<guard, told, clock, made>>
  BY <1>0 DEF RecordOutcome, SaveResealed, DeleteConnection, HolderOK, Is, Lets, Nothing
<1>2. DOMAIN holder' = Holders
  BY <1>0, <1>1 DEF RowsOK, Turns
<1>3. CASE RecordOutcome(h)
  <2>1. LiveCopy(x.c) /\ WasTold(x.c, told') /\ SaveConnection(x.p, x.c, x.c)
    BY <1>0, <1>1, <1>3 DEF RecordOutcome, HolderOK, Is, Bank, Copy
  <2>2. /\ RowsOK' /\ WarnedWasTold'
        /\ \A q \in Providers : Connected(q)' => Connected(q)
    BY <1>1, <1>2, <2>1, SaveOK
  <2> QED
    BY <1>1, <2>2, ConnStep
<1>4. CASE SaveResealed(h)
  <2>1. LiveCopy(x.c)
    BY <1>0, <1>4 DEF SaveResealed, HolderOK, Is
  <2>2. PICK t \in {clock + Life, x.c.notAfter} : SaveConnection(x.p, x.c, Resealed(x.c, t))
    BY <1>4 DEF SaveResealed, Bank, Copy
  <2>3. t \in Nat
    BY <1>0, <2>1, ConnectionsAssumption DEF RowsOK, LiveCopy, ConnRow
  <2>4. LiveCopy(Resealed(x.c, t)) /\ WasTold(Resealed(x.c, t), told')
    BY <2>1, <2>3, ResealedIsLive DEF WasTold
  <2>5. /\ RowsOK' /\ WarnedWasTold'
        /\ \A q \in Providers : Connected(q)' => Connected(q)
    BY <1>1, <1>2, <2>1, <2>2, <2>4, SaveOK
  <2> QED
    BY <1>1, <2>5, ConnStep
<1>5. CASE DeleteConnection(h)
  <2>1. conn' = [conn EXCEPT ![x.p] = NoConn]
    BY <1>5 DEF DeleteConnection, Bank
  <2>2. \A q \in Providers : conn'[q] = IF q = x.p THEN NoConn ELSE conn[q]
    BY <1>0, <1>1, <2>1 DEF RowsOK
  <2>3. NoConn \in ConnRow /\ NoConn.state = "none" /\ NoConn.rev = 0 /\ NoConn.warned = 0
    BY DEF NoConn, ConnRow
  <2>4. RowsOK'
    BY <1>0, <1>1, <1>2, <2>1, <2>2, <2>3 DEF RowsOK, Connected
  <2>5. WarnedWasTold' /\ \A q \in Providers : Connected(q)' => Connected(q)
    BY <1>1, <2>2, <2>3 DEF ConnInv, WarnedWasTold, Connected
  <2> QED
    BY <1>1, <2>4, <2>5, ConnStep
<1> QED
  BY <1>3, <1>4, <1>5

(* The job: the expiry, the notice and its mark.                           *)
LEMMA JobSteps ==
    ASSUME ConnInv, NEW h \in Holders,
           ExpireIfPast(h) \/ SendNotice(h) \/ NoNotice(h) \/ MailFails(h) \/ MarkWarned(h) \/ HolderDies(h)
    PROVE  ConnInv'
<1> DEFINE x == holder[h]
<1>0. HolderOK(x) /\ RowsOK
  BY DEF ConnInv
<1>1. CASE ExpireIfPast(h)
  <2> DEFINE e == [x.c EXCEPT !.state = "expired"]
  <2>1. /\ x.at = "expiry" /\ x.p \in Providers /\ LiveCopy(x.c) /\ WasTold(x.c, told)
        /\ UNCHANGED <<guard, told, clock, made>>
    BY <1>0, <1>1 DEF ExpireIfPast, Is, HolderOK
  <2>2. LiveCopy(e) /\ WasTold(e, told')
    BY <2>1 DEF LiveCopy, ConnRow, WasTold
  <2>3. CASE Past(x.c)
    <3>1. SaveConnection(x.p, x.c, e)
      BY <1>1, <2>3 DEF ExpireIfPast, Bank, Copy
    <3>2. PICK r : Turns(h, r) /\ (r = Nothing \/ r = [x EXCEPT !.at = "notice", !.c = Bumped(e)])
      BY <1>1, <2>3 DEF ExpireIfPast, Lets, Bank, Copy
    <3> HIDE DEF e
    <3>3. r.at = "idle" \/ (r.at = "notice" /\ r.p = x.p /\ r.c = Bumped(e))
      <4>1. CASE r = Nothing
        BY <4>1 DEF Nothing
      <4>2. CASE r = [x EXCEPT !.at = "notice", !.c = Bumped(e)]
        BY <2>1, <4>2
      <4> QED
        BY <3>2, <4>1, <4>2
    <3>4. DOMAIN holder' = Holders
      BY <1>0, <3>2 DEF RowsOK, Turns
    <3>5. /\ RowsOK' /\ WarnedWasTold'
          /\ \A q \in Providers : Connected(q)' => Connected(q)
          /\ LiveCopy(Bumped(e)) /\ WasTold(Bumped(e), told')
      BY <2>1, <2>2, <3>1, <3>4, SaveOK
    <3> QED
      BY <2>1, <3>2, <3>3, <3>5, ConnStep
  <2>4. CASE ~Past(x.c)
    <3>1. PICK r : Turns(h, r) /\ r = [x EXCEPT !.at = "notice"]
      BY <1>1, <2>4 DEF ExpireIfPast, Copy
    <3>2. r.at = "notice" /\ r.p = x.p /\ r.c = x.c /\ UNCHANGED conn
      BY <1>1, <2>1, <2>4, <3>1 DEF ExpireIfPast, Copy
    <3> QED
      BY <1>0, <2>1, <3>1, <3>2, ConnAside DEF RowsOK
  <2> QED
    BY <2>3, <2>4
<1>2. CASE SendNotice(h)
  <2> DEFINE w == Threshold(x.c)
  <2>1. /\ x.at = "notice" /\ x.p \in Providers /\ LiveCopy(x.c)
        /\ UNCHANGED <<conn, guard, clock, made>> /\ told' = told \cup {<<x.c.id, x.c.version, w>>}
    BY <1>0, <1>2 DEF SendNotice, Is, HolderOK, Copy
  <2>2. w \in Nat
    BY DEF Threshold
  <2>3. PICK r : Turns(h, r) /\ r = [x EXCEPT !.at = "marking", !.c.warned = w]
    BY <1>2 DEF SendNotice, Copy
  <2> HIDE DEF w
  <2>4. r.at = "marking" /\ r.p = x.p /\ r.c = [x.c EXCEPT !.warned = w]
    BY <1>2, <2>1, <2>3 DEF SendNotice
  <2>5. LiveCopy(r.c) /\ WasTold(r.c, told')
    BY <2>1, <2>2, <2>4 DEF LiveCopy, ConnRow, WasTold
  <2>6. RowsOK' /\ WarnedWasTold' /\ \A q \in Providers : Connected(q)' => Connected(q)
    BY <1>0, <2>1, <2>3 DEF ConnInv, RowsOK, WarnedWasTold, Connected, Turns
  <2> QED
    BY <2>1, <2>3, <2>4, <2>5, <2>6, ConnStep
<1>3. CASE NoNotice(h)
  <2>1. /\ x.at = "notice" /\ x.p \in Providers /\ LiveCopy(x.c) /\ WasTold(x.c, told)
        /\ UNCHANGED <<conn, guard, told, clock, made>>
    BY <1>0, <1>3 DEF NoNotice, Is, HolderOK
  <2>2. PICK r : Turns(h, r) /\ r = [x EXCEPT !.at = "outcome"]
    BY <1>3 DEF NoNotice
  <2>3. r.at = "outcome" /\ r.p = x.p /\ r.c = x.c
    BY <2>1, <2>2
  <2> QED
    BY <1>0, <2>1, <2>2, <2>3, ConnAside DEF RowsOK
<1>4. CASE MailFails(h) \/ HolderDies(h)
  BY <1>4, LetsGo DEF MailFails, HolderDies
<1>5. CASE MarkWarned(h)
  <2>1. /\ x.at = "marking" /\ x.p \in Providers /\ LiveCopy(x.c) /\ WasTold(x.c, told')
        /\ UNCHANGED <<guard, told, clock, made>> /\ SaveConnection(x.p, x.c, x.c)
    BY <1>0, <1>5 DEF MarkWarned, Is, HolderOK, Bank, Copy
  <2>2. PICK r : Turns(h, r) /\ (r = Nothing \/ r = [x EXCEPT !.at = "outcome", !.c = Bumped(@)])
    BY <1>5 DEF MarkWarned, Lets
  <2>3. r.at = "idle" \/ (r.at = "outcome" /\ r.p = x.p /\ r.c = Bumped(x.c))
    <3>1. CASE r = Nothing
      BY <3>1 DEF Nothing
    <3>2. CASE r = [x EXCEPT !.at = "outcome", !.c = Bumped(@)]
      BY <2>1, <3>2
    <3> QED
      BY <2>2, <3>1, <3>2
  <2>4. DOMAIN holder' = Holders
    BY <1>0, <2>2 DEF RowsOK, Turns
  <2>5. /\ RowsOK' /\ WarnedWasTold'
        /\ \A q \in Providers : Connected(q)' => Connected(q)
        /\ LiveCopy(Bumped(x.c)) /\ WasTold(Bumped(x.c), told')
    BY <2>1, <2>4, SaveOK
  <2> QED
    BY <2>1, <2>2, <2>3, <2>5, ConnStep
<1> QED
  BY <1>1, <1>2, <1>3, <1>4, <1>5

LEMMA ConnNextInv ==
    ASSUME ConnInv, [ConnectionsNext]_connVars
    PROVE  ConnInv'
<1>1. CASE Tick \/ UNCHANGED connVars
  <2>1. UNCHANGED <<conn, guard, told, made, holder>> /\ clock' \in Nat
    BY <1>1 DEF Tick, connVars, ConnInv, RowsOK
  <2>2. \A p : Others(p)' = Others(p)
    BY <2>1 DEF Others, Connected
  <2>3. RowsOK' /\ WarnedWasTold' /\ WithinQuota'
    BY <2>1 DEF ConnInv, RowsOK, Connected, WarnedWasTold, WithinQuota
  <2>4. \A h \in Holders : HolderOK(holder[h])'
    BY <2>1, <2>2 DEF ConnInv, HolderOK, CountedBy
  <2> QED
    BY <2>3, <2>4 DEF ConnInv
<1>2. ASSUME NEW p \in Providers, PutOnboarding(p) PROVE ConnInv'
  <2>1. UNCHANGED <<guard, told, clock, made, holder>> /\ conn[p].state = "none"
    BY <1>2 DEF PutOnboarding
  <2>2. conn' = [conn EXCEPT ![p] = [conn[p] EXCEPT !.state = "onboarding"]]
    BY <1>2 DEF PutOnboarding, ConnInv, RowsOK
  <2>3. [conn[p] EXCEPT !.state = "onboarding"] \in ConnRow
    BY DEF ConnInv, RowsOK, ConnRow
  <2>4. conn' \in [Providers -> ConnRow] /\ \A q \in Providers : q # p => conn'[q] = conn[q]
    BY <2>2, <2>3 DEF ConnInv, RowsOK
  <2>5. /\ conn'[p].state = "onboarding" /\ conn'[p].rev = conn[p].rev /\ conn'[p].warned = conn[p].warned
        /\ conn'[p].id = conn[p].id /\ conn'[p].version = conn[p].version
    BY <2>2 DEF ConnInv, RowsOK, ConnRow
  <2>6. \A q \in Providers : Connected(q)' <=> Connected(q)
    BY <2>1, <2>4, <2>5 DEF Connected
  <2>7. RowsOK'
    BY <2>1, <2>4, <2>5, <2>6 DEF ConnInv, RowsOK
  <2>8. WarnedWasTold'
    BY <2>1, <2>4, <2>5 DEF ConnInv, WarnedWasTold
  <2>9. AllConnected' = AllConnected /\ \A q : Others(q)' = Others(q)
    BY <2>6 DEF AllConnected, Others
  <2>10. \A h \in Holders : HolderOK(holder[h])'
    BY <2>1, <2>9 DEF ConnInv, HolderOK, CountedBy
  <2>11. WithinQuota'
    BY <2>9 DEF ConnInv, WithinQuota, AllConnected
  <2> QED
    BY <2>7, <2>8, <2>10, <2>11 DEF ConnInv
<1>3. Callers \subseteq Holders /\ JobRuns \subseteq Holders
  BY DEF Holders
<1> QED
  BY <1>1, <1>2, <1>3, ConnectionReads, ConnectSteps, RequestSaves, JobSteps DEF ConnectionsNext

(* However many requests connect, renew, disconnect and die at once, an    *)
(* organization never has more connections than its plan: the create moves *)
(* the guard its count was read under.                                     *)
THEOREM NeverOverQuota == ConnectionsSpec => []WithinQuota
BY ConnInitInv, ConnNextInv, PTL DEF ConnectionsSpec, ConnInv

(* A certificate is marked as warned of a threshold only when the notice   *)
(* of that certificate was sent, through stale copies, lost saves,         *)
(* renewals and reconnections.                                             *)
THEOREM MarkedMeansTold == ConnectionsSpec => []WarnedWasTold
BY ConnInitInv, ConnNextInv, PTL DEF ConnectionsSpec, ConnInv

----------------------------------------------------------------------------
(* Payment notices.                                                        *)

HookRow == [rev : Nat, hook : Nat, status : {"none", "registered", "conflict", "overwritten"}, key : Keys \cup {"none"}]

(* The bank has the URL of c's hook for c's key, or nobody promises it.    *)
Watched(c, b, t) == IsOurs(b[c.key], c.hook) \/ b[c.key] = Their \/ t

RegisterFields == {"at", "c", "replace", "change", "from", "was", "url"}
BeforePut      == {"rail", "get", "issue", "put"}
Registering    == {"get", "issue", "put", "mark", "registered", "again", "cleanup"}
TakingDown     == {"unhook", "delete", "hookrow", "unrail"}

(* What a console request knows of the row r and the bank b: until its PUT *)
(* the hook of the row is the one it read, and from then on the URL it     *)
(* will save stands.                                                       *)
ConsoleOK(x, r, b, t) ==
    /\ "at" \in DOMAIN x /\ x.at \in Registering \cup TakingDown \cup {"idle", "rail"}
    /\ x.at \in Registering \cup {"rail"} => "c" \in DOMAIN x /\ x.c \in HookRow /\ x.c.key \in Keys /\ x.c.rev > 0
    /\ x.at \in Registering => RegisterFields \subseteq DOMAIN x /\ (x.change => x.c.key # x.from)
    /\ x.at \in BeforePut => (r.rev > 0 => r.hook = x.c.hook)
    /\ x.at = "put" => \E h \in Nat \ {0}, s \in Nat : x.url = Url(h, s) /\ (x.c.hook # 0 => h = x.c.hook)
    /\ x.at \in {"mark", "registered", "again"} =>
         (x.c.status = "registered" => x.c.hook # 0 /\ Watched(x.c, b, t))
    /\ x.at \in {"again", "cleanup"} => x.change
    /\ x.at = "cleanup" => r.key # x.from

(* The job's copy is the row's, but for the notice it found gone, as long  *)
(* as the row's revision is the copy's.                                    *)
JobCopyOK(x, r) ==
    /\ "at" \in DOMAIN x /\ x.at \in {"idle", "audit", "save"}
    /\ x.at # "idle" =>
         /\ "c" \in DOMAIN x /\ x.c \in HookRow /\ x.c.rev > 0 /\ (r.rev > 0 => x.c.rev <= r.rev)
         /\ x.c.rev = r.rev => x.c.hook = r.hook /\ x.c.key = r.key /\ x.c.status \in {r.status, "overwritten"}

HookTypeOK ==
    /\ row \in HookRow /\ (row.rev > 0 => row.key \in Keys)
    /\ row.status = "registered" => row.rev > 0 /\ row.hook # 0
    /\ bank = [k \in Keys |-> bank[k]]
    /\ issued \in [lives : Nat, hooks : Nat, secrets : Nat]
    /\ ask = [a \in Asking |-> ask[a]]
    /\ issued.lives = 0 => row.rev = 0 /\ \A a \in Asking : ask[a].at = "idle"

HooksInv ==
    /\ HookTypeOK
    /\ \A a \in Asks : ConsoleOK(ask[a], row, bank, torn)
    /\ JobCopyOK(ask[Job], row)
    /\ row.status = "registered" => Watched(row, bank, torn)

(* The run's condition: one console request at a time, one life.           *)
OneAtATime == (\A a, b \in Asks : a = b) /\ MaxLives <= 1

(* No notice is registered before the first connection.                    *)
LEMMA HooksInitInv == HooksInit => HooksInv
<1> SUFFICES ASSUME HooksInit PROVE HooksInv
  OBVIOUS
<1>1. row \in HookRow /\ row.rev = 0 /\ row.status = "none"
  BY DEF HooksInit, NoRow, HookRow
<1>2. issued \in [lives : Nat, hooks : Nat, secrets : Nat] /\ bank = [k \in Keys |-> bank[k]]
  BY DEF HooksInit
<1>3. ask = [a \in Asking |-> ask[a]] /\ \A a \in Asking : ask[a] = Rest
  BY DEF HooksInit
<1>4. Job \in Asking /\ Asks \subseteq Asking
  BY DEF Asking
<1>5. \A r, b, t : ConsoleOK(Rest, r, b, t) /\ JobCopyOK(Rest, r)
  BY DEF ConsoleOK, JobCopyOK, Rest, Registering, TakingDown, BeforePut
<1> QED
  BY <1>1, <1>2, <1>3, <1>4, <1>5 DEF HooksInv, HookTypeOK, Rest

(* A step of the one console request.                                      *)
LEMMA ConsoleStep ==
  ASSUME OneAtATime, HooksInv, NEW a \in Asks, NEW x, AskMoves(a, x), HookTypeOK', ConsoleOK(x, row', bank', torn'),
         JobCopyOK(ask[Job], row'), row'.status = "registered" => Watched(row', bank', torn')
  PROVE  HooksInv'
<1>1. a \in Asking /\ Job \in Asking /\ a # Job
  BY HooksAssumption DEF Asking, Job
<1>2. ask'[a] = x /\ ask'[Job] = ask[Job]
  BY <1>1 DEF AskMoves, HooksInv, HookTypeOK
<1>3. \A b \in Asks : b = a
  BY DEF OneAtATime
<1> QED
  BY <1>2, <1>3 DEF HooksInv

(* One that moves nothing but itself.                                      *)
LEMMA ConsoleMoves ==
  ASSUME OneAtATime, HooksInv, NEW a \in Asks, NEW x, AskMoves(a, x), ~On(a, "idle") \/ row.rev > 0,
         UNCHANGED <<row, bank, torn>>, issued' \in [lives : Nat, hooks : Nat, secrets : Nat], issued'.lives = issued.lives,
         ConsoleOK(x, row, bank, torn)
  PROVE  HooksInv'
<1>1. a \in Asking /\ issued.lives # 0
  BY DEF Asking, On, HooksInv, HookTypeOK
<1>2. HookTypeOK'
  BY <1>1 DEF AskMoves, HooksInv, HookTypeOK
<1> QED
  BY <1>2, ConsoleStep DEF HooksInv

(* A resting request knows nothing of the row.                             *)
LEMMA RestOK == \A r, b, t : ConsoleOK(Rest, r, b, t) /\ JobCopyOK(Rest, r)
  BY DEF ConsoleOK, JobCopyOK, Rest, Registering, TakingDown, BeforePut

(* A request that ends, or fails, leaves row and bank.                     *)
LEMMA ConsoleEnds ==
  ASSUME OneAtATime, HooksInv, NEW a \in Asks, AskEnds(a), ~On(a, "idle") \/ row.rev > 0,
         UNCHANGED <<row, bank, torn>>, issued' = issued
  PROVE  HooksInv'
<1>1. issued' \in [lives : Nat, hooks : Nat, secrets : Nat]
  BY DEF HooksInv, HookTypeOK
<1> QED
  BY <1>1, RestOK, ConsoleMoves DEF AskEnds

(* A request starts from the row.                                          *)
LEMMA ConsoleBegins ==
  ASSUME HooksInv, row.rev > 0, NEW c \in HookRow, c.key \in Keys, c.rev > 0, c.hook = row.hook, NEW replace, NEW change \in BOOLEAN,
         change => c.key # row.key
  PROVE  ConsoleOK(Begins(c, replace, change), row, bank, torn)
  BY DEF ConsoleOK, Begins, Registering, TakingDown, BeforePut, RegisterFields

(* A request at its bank calls keeps what it knows in these fields.        *)
LEMMA ConsoleHolds ==
  ASSUME HooksInv, NEW a \in Asks
  PROVE  /\ ConsoleOK(ask[a], row, bank, torn)
         /\ ask[a].at \in Registering \cup {"rail"} => Held(a) \in HookRow /\ Held(a).key \in Keys /\ Held(a).rev > 0
  BY DEF HooksInv, ConsoleOK, Held

(* The first connection.                                                   *)
LEMMA ConnectKeeps ==
  ASSUME OneAtATime, HooksInv, NEW k \in KnownKeys, ConnectBank(k)
  PROVE  HooksInv'
<1>1. issued.lives = 0 /\ MaxLives \in Nat
  BY HooksAssumption DEF OneAtATime, ConnectBank, HooksInv, HookTypeOK
<1>2. row.rev = 0 /\ \A a \in Asking : ask[a].at = "idle"
  BY <1>1 DEF HooksInv, HookTypeOK
<1>3. row' \in HookRow /\ row'.rev = 1 /\ row'.key \in Keys /\ row'.status = "none"
  BY HooksAssumption DEF ConnectBank, NoRow, HookRow
<1>4. issued' \in [lives : Nat, hooks : Nat, secrets : Nat] /\ issued'.lives = 1
  BY <1>1 DEF ConnectBank, HooksInv, HookTypeOK
<1>5. bank' = bank /\ ask' = ask /\ torn' = torn
  BY DEF ConnectBank, Surroundings
<1>6. Job \in Asking /\ Asks \subseteq Asking
  BY DEF Asking
<1>7. HookTypeOK'
  BY <1>3, <1>4, <1>5 DEF HooksInv, HookTypeOK
<1>8. \A a \in Asks : ConsoleOK(ask[a], row', bank', torn')
  <2> SUFFICES ASSUME NEW a \in Asks PROVE ConsoleOK(ask[a], row', bank', torn')
    OBVIOUS
  <2>1. ask[a].at = "idle" /\ "at" \in DOMAIN ask[a]
    BY <1>2, <1>6 DEF HooksInv, ConsoleOK
  <2> QED
    BY <2>1 DEF ConsoleOK, Registering, TakingDown, BeforePut
<1>9. JobCopyOK(ask[Job], row')
  <2>1. ask[Job].at = "idle" /\ "at" \in DOMAIN ask[Job]
    BY <1>2, <1>6 DEF HooksInv, JobCopyOK
  <2> QED
    BY <2>1 DEF JobCopyOK
<1> QED
  BY <1>3, <1>5, <1>7, <1>8, <1>9 DEF HooksInv

(* What starts or moves a request without moving row or bank.              *)
LEMMA RegisterKeeps ==
  ASSUME OneAtATime, HooksInv, NEW a \in Asks, NEW b, RegisterWebhook(a, b)
  PROVE  HooksInv'
<1>1. row.rev > 0 /\ row \in HookRow /\ row.key \in Keys
  BY DEF RegisterWebhook, There, HooksInv, HookTypeOK
<1>2. ConsoleOK(Begins(row, b, FALSE), row, bank, torn)
  BY <1>1, ConsoleBegins
<1>3. AskMoves(a, Begins(row, b, FALSE)) /\ UNCHANGED <<row, bank, torn>> /\ issued' = issued
  BY DEF RegisterWebhook, Surroundings
<1>4. issued' \in [lives : Nat, hooks : Nat, secrets : Nat] /\ issued'.lives = issued.lives
  BY <1>3 DEF HooksInv, HookTypeOK
<1> QED
  BY <1>1, <1>2, <1>3, <1>4, ConsoleMoves

(* A change of key starts from the row with the next key.                  *)
LEMMA ChangeKeyKeeps ==
  ASSUME OneAtATime, HooksInv, NEW a \in Asks, NEW k \in Keys, NEW b, ChangePixKey(a, k, b)
  PROVE  HooksInv'
<1> DEFINE c == [row EXCEPT !.key = k]
<1>1. row.rev > 0 /\ row \in HookRow /\ k # row.key
  BY DEF ChangePixKey, There, HooksInv, HookTypeOK
<1>2. c \in HookRow /\ c.key = k /\ c.hook = row.hook /\ c.rev > 0
  BY <1>1 DEF HookRow
<1>3. AskMoves(a, Begins(c, b, TRUE)) /\ UNCHANGED <<row, bank, torn>> /\ issued' = issued
  BY DEF ChangePixKey, Surroundings
<1> HIDE DEF c
<1>4. ConsoleOK(Begins(c, b, TRUE), row, bank, torn)
  BY <1>1, <1>2, ConsoleBegins
<1>5. issued' \in [lives : Nat, hooks : Nat, secrets : Nat] /\ issued'.lives = issued.lives
  BY <1>3 DEF HooksInv, HookTypeOK
<1> QED
  BY <1>1, <1>3, <1>4, <1>5, ConsoleMoves

(* The rail starts from the row.                                           *)
LEMMA ForCollectionKeeps ==
  ASSUME OneAtATime, HooksInv, NEW a \in Asks, UseForCollection(a)
  PROVE  HooksInv'
<1>1. row.rev > 0 /\ row \in HookRow /\ row.key \in Keys
  BY DEF UseForCollection, There, HooksInv, HookTypeOK
<1>2. ConsoleOK([at |-> "rail", c |-> row, rail |-> rail], row, bank, torn)
  BY <1>1 DEF ConsoleOK, Registering, TakingDown, BeforePut
<1>3. AskMoves(a, [at |-> "rail", c |-> row, rail |-> rail]) /\ UNCHANGED <<row, bank, torn>> /\ issued' = issued
  BY DEF UseForCollection, Surroundings
<1>4. issued' \in [lives : Nat, hooks : Nat, secrets : Nat] /\ issued'.lives = issued.lives
  BY <1>3 DEF HooksInv, HookTypeOK
<1> QED
  BY <1>1, <1>2, <1>3, <1>4, ConsoleMoves

(* A disconnect starts from the row; what it knows of it is not relied on. *)
LEMMA UnlinkKeeps ==
  ASSUME OneAtATime, HooksInv, NEW a \in Asks, NEW b, NEW f, Unlink(a, b, f)
  PROVE  HooksInv'
<1> DEFINE x == [at |-> "unhook", c |-> row, rail |-> rail, open |-> charges, force |-> f]
<1>1. row.rev > 0
  BY DEF Unlink, There
<1>2. ConsoleOK(x, row, bank, torn)
  BY DEF ConsoleOK, Registering, TakingDown, BeforePut
<1>3. AskMoves(a, x) /\ UNCHANGED <<row, bank, torn>> /\ issued' = issued
  BY DEF Unlink, Surroundings
<1> HIDE DEF x
<1>4. issued' \in [lives : Nat, hooks : Nat, secrets : Nat] /\ issued'.lives = issued.lives
  BY <1>3 DEF HooksInv, HookTypeOK
<1> QED
  BY <1>1, <1>2, <1>3, <1>4, ConsoleMoves

(* The rail's gate: the notice is registered from the row read before it.  *)
LEMMA RailKeeps ==
  ASSUME OneAtATime, HooksInv, NEW a \in Asks, SetPayoutRail(a)
  PROVE  HooksInv'
<1>1. ask[a].at = "rail" /\ ~On(a, "idle")
  BY DEF SetPayoutRail, On
<1>2. Held(a) \in HookRow /\ Held(a).key \in Keys /\ Held(a).rev > 0 /\ (row.rev > 0 => row.hook = Held(a).hook)
  BY <1>1, ConsoleHolds DEF ConsoleOK, BeforePut, Held
<1>3. UNCHANGED <<row, bank, torn>> /\ issued' = issued
  BY DEF SetPayoutRail
<1>4. AskMoves(a, Begins(Held(a), FALSE, FALSE)) \/ AskEnds(a)
  BY DEF SetPayoutRail
<1>5. CASE AskMoves(a, Begins(Held(a), FALSE, FALSE))
  <2>1. ConsoleOK(Begins(Held(a), FALSE, FALSE), row, bank, torn)
    BY <1>2 DEF ConsoleOK, Begins, Registering, TakingDown, BeforePut, RegisterFields
  <2>2. issued' \in [lives : Nat, hooks : Nat, secrets : Nat] /\ issued'.lives = issued.lives
    BY <1>3 DEF HooksInv, HookTypeOK
  <2> QED
    BY <1>1, <1>3, <1>5, <2>1, <2>2, ConsoleMoves
<1> QED
  BY <1>1, <1>3, <1>4, <1>5, ConsoleEnds

(* The GET's answer.                                                       *)
LEMMA GetKeeps ==
  ASSUME OneAtATime, HooksInv, NEW a \in Asks, GetWebhook(a)
  PROVE  HooksInv'
<1> DEFINE x == ask[a]
           n == IF x.c.status = "registered" THEN "registered" ELSE "mark"
           y == [x EXCEPT !.at = n, !.c.status = "registered"]
           z == [x EXCEPT !.at = "mark", !.c.status = "conflict"]
           w == [x EXCEPT !.at = "issue"]
<1>1. x.at = "get" /\ ~On(a, "idle")
  BY DEF GetWebhook, On
<1>2. /\ x.c \in HookRow /\ x.c.key \in Keys /\ x.c.rev > 0 /\ "c" \in DOMAIN x /\ "at" \in DOMAIN x
      /\ RegisterFields \subseteq DOMAIN x /\ (x.change => x.c.key # x.from)
      /\ row.rev > 0 => row.hook = x.c.hook
  BY <1>1, ConsoleHolds DEF ConsoleOK, BeforePut, Registering
<1>3. UNCHANGED <<row, bank, torn>> /\ issued' = issued
  BY DEF GetWebhook, Surroundings
<1>4. issued' \in [lives : Nat, hooks : Nat, secrets : Nat] /\ issued'.lives = issued.lives
  BY <1>3 DEF HooksInv, HookTypeOK
<1>5. \/ IsOurs(bank[x.c.key], x.c.hook) /\ AskMoves(a, y)
      \/ AskMoves(a, z)
      \/ AskMoves(a, w)
  BY DEF GetWebhook, Held
<1>6. CASE IsOurs(bank[x.c.key], x.c.hook) /\ AskMoves(a, y)
  <2>1. /\ y.at \in {"mark", "registered"} /\ DOMAIN y = DOMAIN x /\ y.change = x.change /\ y.from = x.from
        /\ y.c = [x.c EXCEPT !.status = "registered"]
    BY <1>2 DEF RegisterFields
  <2>2. y.c \in HookRow /\ y.c.key = x.c.key /\ y.c.hook = x.c.hook /\ y.c.rev = x.c.rev /\ x.c.hook # 0
    BY <1>2, <1>6, <2>1 DEF HookRow, IsOurs
  <2> HIDE DEF y, z, w
  <2>3. ConsoleOK(y, row, bank, torn)
    BY <1>2, <1>6, <2>1, <2>2 DEF ConsoleOK, Registering, TakingDown, BeforePut, RegisterFields, Watched
  <2> QED
    BY <1>1, <1>3, <1>4, <1>6, <2>3, ConsoleMoves
<1>7. CASE AskMoves(a, z)
  <2>1. /\ z.at = "mark" /\ DOMAIN z = DOMAIN x /\ z.change = x.change /\ z.from = x.from
        /\ z.c = [x.c EXCEPT !.status = "conflict"]
    BY <1>2 DEF RegisterFields
  <2>2. z.c \in HookRow /\ z.c.key = x.c.key /\ z.c.status = "conflict" /\ z.c.rev = x.c.rev
    BY <1>2, <2>1 DEF HookRow
  <2> HIDE DEF y, z, w
  <2>3. ConsoleOK(z, row, bank, torn)
    BY <1>2, <2>1, <2>2 DEF ConsoleOK, Registering, TakingDown, BeforePut, RegisterFields
  <2> QED
    BY <1>1, <1>3, <1>4, <1>7, <2>3, ConsoleMoves
<1>8. CASE AskMoves(a, w)
  <2>1. w.at = "issue" /\ DOMAIN w = DOMAIN x /\ w.change = x.change /\ w.from = x.from /\ w.c = x.c
    BY <1>2 DEF RegisterFields
  <2> HIDE DEF y, z, w
  <2>2. ConsoleOK(w, row, bank, torn)
    BY <1>2, <2>1 DEF ConsoleOK, Registering, TakingDown, BeforePut, RegisterFields
  <2> QED
    BY <1>1, <1>3, <1>4, <1>8, <2>2, ConsoleMoves
<1> QED
  BY <1>5, <1>6, <1>7, <1>8

(* A new hook, or the hook's new secret.                                   *)
LEMMA IssueKeeps ==
  ASSUME OneAtATime, HooksInv, NEW a \in Asks, IssueHook(a)
  PROVE  HooksInv'
<1> DEFINE x == ask[a]
           h == IF x.c.hook = 0 THEN issued.hooks + 1 ELSE x.c.hook
           s == issued.secrets + 1
           y == [x EXCEPT !.at = "put", !.url = Url(h, s)]
<1>1. x.at = "issue" /\ ~On(a, "idle")
  BY DEF IssueHook, On
<1>2. /\ x.c \in HookRow /\ x.c.key \in Keys /\ x.c.rev > 0 /\ "c" \in DOMAIN x /\ "at" \in DOMAIN x
      /\ RegisterFields \subseteq DOMAIN x /\ (x.change => x.c.key # x.from)
      /\ row.rev > 0 => row.hook = x.c.hook
  BY <1>1, ConsoleHolds DEF ConsoleOK, BeforePut, Registering
<1>3. UNCHANGED <<row, bank, torn>> /\ AskMoves(a, y)
  BY DEF IssueHook, Surroundings, Held
<1>4. issued \in [lives : Nat, hooks : Nat, secrets : Nat]
  BY DEF HooksInv, HookTypeOK
<1>5. h \in Nat \ {0} /\ s \in Nat /\ (x.c.hook # 0 => h = x.c.hook)
  BY <1>2, <1>4 DEF HookRow
<1>6. issued' \in [lives : Nat, hooks : Nat, secrets : Nat] /\ issued'.lives = issued.lives
  <2>1. issued' = [issued EXCEPT !.hooks = IF x.c.hook = 0 THEN h ELSE @, !.secrets = s]
    BY DEF IssueHook, Held
  <2> HIDE DEF h, s, y
  <2> QED
    BY <1>4, <1>5, <2>1
<1> HIDE DEF h, s
<1>7. /\ y.at = "put" /\ DOMAIN y = DOMAIN x /\ y.change = x.change /\ y.from = x.from /\ y.c = x.c
      /\ y.url = Url(h, s)
  BY <1>2 DEF RegisterFields
<1> HIDE DEF y
<1>8. ConsoleOK(y, row, bank, torn)
  BY <1>2, <1>5, <1>7 DEF ConsoleOK, Registering, TakingDown, BeforePut, RegisterFields
<1> QED
  BY <1>1, <1>3, <1>6, <1>8, ConsoleMoves

(* The PUT of the hook's own URL: the row's hook is the one it carries.    *)
LEMMA PutKeeps ==
  ASSUME OneAtATime, HooksInv, NEW a \in Asks, PutWebhook(a)
  PROVE  HooksInv'
<1> DEFINE x == ask[a]
           y == [x EXCEPT !.at = "mark", !.c.hook = x.url.hook, !.c.status = "registered"]
<1>1. x.at = "put" /\ ~On(a, "idle")
  BY DEF PutWebhook, On
<1>2. /\ x.c \in HookRow /\ x.c.key \in Keys /\ x.c.rev > 0 /\ "c" \in DOMAIN x /\ "at" \in DOMAIN x
      /\ RegisterFields \subseteq DOMAIN x /\ (x.change => x.c.key # x.from)
      /\ row.rev > 0 => row.hook = x.c.hook
  BY <1>1, ConsoleHolds DEF ConsoleOK, BeforePut, Registering
<1>3. PICK h \in Nat \ {0}, s \in Nat : x.url = Url(h, s) /\ (x.c.hook # 0 => h = x.c.hook)
  BY <1>1, ConsoleHolds DEF ConsoleOK
<1>4. row' = row /\ torn' = torn /\ issued' = issued
  BY DEF PutWebhook, Surroundings
<1>5. CASE AskEnds(a) /\ UNCHANGED bank
  BY <1>1, <1>4, <1>5, ConsoleEnds
<1>6. CASE bank' = [bank EXCEPT ![x.c.key] = x.url] /\ AskMoves(a, y)
  <2>1. /\ y.at = "mark" /\ DOMAIN y = DOMAIN x /\ y.change = x.change /\ y.from = x.from
        /\ y.c = [x.c EXCEPT !.hook = h, !.status = "registered"]
    BY <1>2, <1>3 DEF RegisterFields, Url
  <2>2. y.c \in HookRow /\ y.c.key = x.c.key /\ y.c.hook = h /\ y.c.rev = x.c.rev
    BY <1>2, <2>1 DEF HookRow
  <2>3. bank'[x.c.key] = Url(h, s) /\ \A k \in Keys : k # x.c.key => bank'[k] = bank[k]
    BY <1>2, <1>3, <1>6 DEF HooksInv, HookTypeOK
  <2> HIDE DEF y
  <2>4. ConsoleOK(y, row', bank', torn')
    BY <1>2, <2>1, <2>2, <2>3 DEF ConsoleOK, Registering, TakingDown, BeforePut, RegisterFields, Watched, IsOurs, Url
  <2>5. row'.status = "registered" => Watched(row', bank', torn')
    BY <1>2, <1>3, <1>4, <2>3 DEF HooksInv, HookTypeOK, Watched, IsOurs, Url
  <2>6. a \in Asking /\ issued.lives # 0
    BY <1>1 DEF Asking, HooksInv, HookTypeOK
  <2>7. bank' = [k \in Keys |-> bank'[k]] /\ ask' = [b \in Asking |-> ask'[b]]
    BY <1>6 DEF AskMoves, HooksInv, HookTypeOK
  <2>8. HookTypeOK'
    BY <1>4, <2>6, <2>7 DEF HooksInv, HookTypeOK
  <2>9. JobCopyOK(ask[Job], row')
    BY <1>4 DEF HooksInv
  <2> QED
    BY <1>6, <2>4, <2>5, <2>8, <2>9, ConsoleStep
<1> QED
  BY <1>5, <1>6 DEF PutWebhook, PutFails, Held

(* A console request's save of its copy: the row is the copy, one revision *)
(* on, and the job's copy an earlier one.                                  *)
LEMMA SavedRow ==
  ASSUME HooksInv, NEW c \in HookRow, c.key \in Keys, c.rev > 0, SaveRow(c), UNCHANGED <<bank, torn>>,
         c.status = "registered" => c.hook # 0 /\ Watched(c, bank, torn)
  PROVE  /\ row' \in HookRow /\ (row'.rev > 0 => row'.key \in Keys) /\ (row.rev > 0 => row'.rev > 0)
         /\ row'.status = "registered" => row'.rev > 0 /\ row'.hook # 0
         /\ row'.status = "registered" => Watched(row', bank', torn')
         /\ JobCopyOK(ask[Job], row')
         /\ Current(c) => row'.key = c.key
<1>1. row \in HookRow
  BY DEF HooksInv, HookTypeOK
<1>2. CASE ~Current(c)
  <2>1. row' = row
    BY <1>2 DEF SaveRow
  <2> QED
    BY <1>2, <2>1 DEF HooksInv, HookTypeOK
<1>3. CASE Current(c)
  <2>1. row' = [c EXCEPT !.rev = c.rev + 1] /\ row.rev = c.rev
    BY <1>3 DEF SaveRow, Current
  <2>2. row' \in HookRow /\ row'.rev = c.rev + 1 /\ row'.key = c.key /\ row'.hook = c.hook /\ row'.status = c.status
    BY <2>1 DEF HookRow
  <2>3. c.rev \in Nat /\ row'.rev > row.rev
    BY <2>1, <2>2 DEF HookRow
  <2>4. row'.status = "registered" => Watched(row', bank', torn')
    BY <2>2 DEF Watched
  <2>5. JobCopyOK(ask[Job], row')
    <3>1. JobCopyOK(ask[Job], row)
      BY DEF HooksInv
    <3>2. ask[Job].at # "idle" => ask[Job].c.rev \in Nat
      BY <3>1 DEF JobCopyOK, HookRow
    <3>3. row.rev \in Nat /\ row'.rev \in Nat /\ row.rev > 0
      BY <1>1, <2>1, <2>2 DEF HookRow
    <3> QED
      BY <2>3, <3>1, <3>2, <3>3 DEF JobCopyOK
  <2> QED
    BY <2>2, <2>3, <2>4, <2>5
<1> QED
  BY <1>2, <1>3

(* What a step of the console request needs of the types.                  *)
LEMMA TypesAfter ==
  ASSUME HooksInv, NEW a \in Asks, NEW x, AskMoves(a, x), ~On(a, "idle"), issued' = issued,
         row' \in HookRow, row'.rev > 0 => row'.key \in Keys,
         row'.status = "registered" => row'.rev > 0 /\ row'.hook # 0,
         bank' = [k \in Keys |-> bank'[k]]
  PROVE  HookTypeOK'
<1>1. a \in Asking /\ issued.lives # 0
  BY DEF Asking, On, HooksInv, HookTypeOK
<1>2. ask' = [b \in Asking |-> ask'[b]]
  BY DEF AskMoves, HooksInv, HookTypeOK
<1> QED
  BY <1>1, <1>2 DEF HooksInv, HookTypeOK

(* The save at register's end.                                             *)
LEMMA MarkKeeps ==
  ASSUME OneAtATime, HooksInv, NEW a \in Asks, MarkWebhook(a)
  PROVE  HooksInv'
<1> DEFINE x == ask[a]
           y == [x EXCEPT !.at = "again", !.c.rev = x.c.rev + 1]
<1>1. x.at = "mark" /\ ~On(a, "idle")
  BY DEF MarkWebhook, On
<1>2. /\ x.c \in HookRow /\ x.c.key \in Keys /\ x.c.rev > 0 /\ "c" \in DOMAIN x /\ "at" \in DOMAIN x
      /\ RegisterFields \subseteq DOMAIN x /\ (x.change => x.c.key # x.from)
      /\ x.c.status = "registered" => x.c.hook # 0 /\ Watched(x.c, bank, torn)
  BY <1>1, ConsoleHolds DEF ConsoleOK, Registering
<1>3. UNCHANGED <<bank, torn>> /\ issued' = issued /\ SaveRow(x.c)
  BY DEF MarkWebhook, Surroundings, Held
<1>4. /\ row' \in HookRow /\ (row'.rev > 0 => row'.key \in Keys)
      /\ row'.status = "registered" => row'.rev > 0 /\ row'.hook # 0
      /\ row'.status = "registered" => Watched(row', bank', torn')
      /\ JobCopyOK(ask[Job], row')
  BY <1>2, <1>3, SavedRow
<1>5. bank' = [k \in Keys |-> bank'[k]]
  BY <1>3 DEF HooksInv, HookTypeOK
<1>6. (x.change /\ AskMoves(a, y)) \/ AskMoves(a, Rest)
  BY DEF MarkWebhook, Held, AskEnds
<1>7. CASE x.change /\ AskMoves(a, y)
  <2>1. /\ y.at = "again" /\ DOMAIN y = DOMAIN x /\ y.change = x.change /\ y.from = x.from
        /\ y.c = [x.c EXCEPT !.rev = x.c.rev + 1]
    BY <1>2 DEF RegisterFields
  <2>2. /\ y.c \in HookRow /\ y.c.key = x.c.key /\ y.c.rev > 0 /\ y.c.status = x.c.status /\ y.c.hook = x.c.hook
    BY <1>2, <2>1 DEF HookRow
  <2> HIDE DEF y
  <2>3. ConsoleOK(y, row', bank', torn')
    BY <1>2, <1>3, <1>7, <2>1, <2>2 DEF ConsoleOK, Registering, TakingDown, BeforePut, RegisterFields, Watched
  <2>4. HookTypeOK'
    BY <1>1, <1>3, <1>4, <1>5, <1>7, TypesAfter
  <2> QED
    BY <1>4, <1>7, <2>3, <2>4, ConsoleStep
<1>8. CASE AskMoves(a, Rest)
  <2>1. HookTypeOK'
    BY <1>1, <1>3, <1>4, <1>5, <1>8, TypesAfter
  <2>2. ConsoleOK(Rest, row', bank', torn')
    BY RestOK
  <2> QED
    BY <1>4, <1>8, <2>1, <2>2, ConsoleStep
<1> QED
  BY <1>6, <1>7, <1>8

(* A notice that was ours already: a change of key goes on to its save.    *)
LEMMA AlreadyKeeps ==
  ASSUME OneAtATime, HooksInv, NEW a \in Asks, AlreadyRegistered(a)
  PROVE  HooksInv'
<1> DEFINE x == ask[a]
           y == [x EXCEPT !.at = "again"]
<1>1. x.at = "registered" /\ ~On(a, "idle")
  BY DEF AlreadyRegistered, On
<1>2. ConsoleOK(x, row, bank, torn)
  BY ConsoleHolds
<1>3. UNCHANGED <<row, bank, torn>> /\ issued' = issued
  BY DEF AlreadyRegistered, Surroundings
<1>4. (x.change /\ AskMoves(a, y)) \/ AskEnds(a)
  BY DEF AlreadyRegistered, Steps
<1>5. CASE x.change /\ AskMoves(a, y)
  <2>1. y.at = "again" /\ DOMAIN y = DOMAIN x /\ y.change = x.change /\ y.from = x.from /\ y.c = x.c
    BY <1>1, <1>2 DEF ConsoleOK, Registering, RegisterFields
  <2> HIDE DEF y
  <2>2. ConsoleOK(y, row, bank, torn)
    BY <1>1, <1>2, <1>5, <2>1 DEF ConsoleOK, Registering, TakingDown, BeforePut
  <2>3. issued' \in [lives : Nat, hooks : Nat, secrets : Nat] /\ issued'.lives = issued.lives
    BY <1>3 DEF HooksInv, HookTypeOK
  <2> QED
    BY <1>1, <1>3, <1>5, <2>2, <2>3, ConsoleMoves
<1> QED
  BY <1>1, <1>3, <1>4, <1>5, ConsoleEnds

(* A change of key: the row's key is the new one before the old notice is  *)
(* touched.                                                                *)
LEMMA SaveKeyKeeps ==
  ASSUME OneAtATime, HooksInv, NEW a \in Asks, SaveKey(a)
  PROVE  HooksInv'
<1> DEFINE x == ask[a]
           y == [x EXCEPT !.at = "cleanup"]
<1>1. x.at = "again" /\ ~On(a, "idle")
  BY DEF SaveKey, On
<1>2. /\ x.c \in HookRow /\ x.c.key \in Keys /\ x.c.rev > 0 /\ "c" \in DOMAIN x /\ "at" \in DOMAIN x
      /\ RegisterFields \subseteq DOMAIN x /\ x.change /\ x.c.key # x.from
      /\ x.c.status = "registered" => x.c.hook # 0 /\ Watched(x.c, bank, torn)
  BY <1>1, ConsoleHolds DEF ConsoleOK, Registering
<1>3. UNCHANGED <<bank, torn>> /\ issued' = issued /\ SaveRow(x.c)
  BY DEF SaveKey, Surroundings, Held
<1>4. /\ row' \in HookRow /\ (row'.rev > 0 => row'.key \in Keys)
      /\ row'.status = "registered" => row'.rev > 0 /\ row'.hook # 0
      /\ row'.status = "registered" => Watched(row', bank', torn')
      /\ JobCopyOK(ask[Job], row')
      /\ Current(x.c) => row'.key = x.c.key
  BY <1>2, <1>3, SavedRow
<1>5. bank' = [k \in Keys |-> bank'[k]]
  BY <1>3 DEF HooksInv, HookTypeOK
<1>6. (Current(x.c) /\ AskMoves(a, y)) \/ AskMoves(a, Rest)
  BY DEF SaveKey, Held, AskEnds, Steps
<1>7. CASE Current(x.c) /\ AskMoves(a, y)
  <2>1. y.at = "cleanup" /\ DOMAIN y = DOMAIN x /\ y.change = x.change /\ y.from = x.from /\ y.c = x.c
    BY <1>2 DEF RegisterFields
  <2> HIDE DEF y
  <2>2. ConsoleOK(y, row', bank', torn')
    BY <1>2, <1>4, <1>7, <2>1 DEF ConsoleOK, Registering, TakingDown, BeforePut
  <2>3. HookTypeOK'
    BY <1>1, <1>3, <1>4, <1>5, <1>7, TypesAfter
  <2> QED
    BY <1>4, <1>7, <2>2, <2>3, ConsoleStep
<1>8. CASE AskMoves(a, Rest)
  <2>1. HookTypeOK'
    BY <1>1, <1>3, <1>4, <1>5, <1>8, TypesAfter
  <2>2. ConsoleOK(Rest, row', bank', torn')
    BY RestOK
  <2> QED
    BY <1>4, <1>8, <2>1, <2>2, ConsoleStep
<1> QED
  BY <1>6, <1>7, <1>8

(* The old key's URL goes: it is not the row's key any more.               *)
LEMMA RemoveOldKeeps ==
  ASSUME OneAtATime, HooksInv, NEW a \in Asks, RemoveOldNotice(a)
  PROVE  HooksInv'
<1>1. ask[a].at = "cleanup" /\ ~On(a, "idle")
  BY DEF RemoveOldNotice, On
<1>2. row.key # ask[a].from
  BY <1>1, ConsoleHolds DEF ConsoleOK
<1>3. row' = row /\ torn' = torn /\ issued' = issued /\ AskMoves(a, Rest)
  BY DEF RemoveOldNotice, Surroundings, AskEnds
<1>4. bank' = bank \/ bank' = [bank EXCEPT ![ask[a].from] = NoUrl]
  BY DEF RemoveOldNotice, DeleteOurs
<1>5. bank' = [k \in Keys |-> bank'[k]] /\ (row.key \in Keys => bank'[row.key] = bank[row.key])
  BY <1>2, <1>4 DEF HooksInv, HookTypeOK
<1>6. HookTypeOK'
  <2>1. row' \in HookRow /\ (row'.rev > 0 => row'.key \in Keys) /\ (row'.status = "registered" => row'.rev > 0 /\ row'.hook # 0)
    BY <1>3 DEF HooksInv, HookTypeOK
  <2> QED
    BY <1>1, <1>3, <1>5, <2>1, TypesAfter
<1>7. row'.status = "registered" => Watched(row', bank', torn')
  BY <1>3, <1>5 DEF HooksInv, HookTypeOK, Watched
<1>8. ConsoleOK(Rest, row', bank', torn') /\ JobCopyOK(ask[Job], row')
  BY <1>3, RestOK DEF HooksInv
<1> QED
  BY <1>3, <1>6, <1>7, <1>8, ConsoleStep

(* A disconnect that takes the URL down is remembered as one.              *)
LEMMA UnhookKeeps ==
  ASSUME OneAtATime, HooksInv, NEW a \in Asks, CancelAndUnhook(a)
  PROVE  HooksInv'
<1> DEFINE y == [ask[a] EXCEPT !.at = "delete"]
<1>1. ask[a].at = "unhook" /\ ~On(a, "idle") /\ row' = row /\ issued' = issued
  BY DEF CancelAndUnhook, On
<1>2. \/ AskMoves(a, y) /\ torn' = (torn \/ bank' # bank)
            /\ (bank' = bank \/ bank' = [bank EXCEPT ![Held(a).key] = NoUrl])
      \/ AskEnds(a) /\ UNCHANGED <<bank, torn>>
  BY DEF CancelAndUnhook, DeleteOurs, Steps
<1>3. CASE AskEnds(a) /\ UNCHANGED <<bank, torn>>
  BY <1>1, <1>3, ConsoleEnds
<1>4. CASE AskMoves(a, y) /\ torn' = (torn \/ bank' # bank)
            /\ (bank' = bank \/ bank' = [bank EXCEPT ![Held(a).key] = NoUrl])
  <2>1. y.at = "delete" /\ "at" \in DOMAIN y
    BY <1>1, ConsoleHolds DEF ConsoleOK
  <2>2. bank' = [k \in Keys |-> bank'[k]]
    BY <1>4 DEF HooksInv, HookTypeOK
  <2>3. row'.status = "registered" => Watched(row', bank', torn')
    <3>1. CASE bank' = bank
      BY <1>1, <1>4, <3>1 DEF HooksInv, Watched
    <3>2. CASE bank' # bank
      BY <1>4, <3>2 DEF Watched
    <3> QED
      BY <3>1, <3>2
  <2> HIDE DEF y
  <2>4. ConsoleOK(y, row', bank', torn') /\ JobCopyOK(ask[Job], row')
    BY <1>1, <2>1 DEF ConsoleOK, Registering, TakingDown, BeforePut, HooksInv
  <2>5. row' \in HookRow /\ (row'.rev > 0 => row'.key \in Keys) /\ (row'.status = "registered" => row'.rev > 0 /\ row'.hook # 0)
    BY <1>1 DEF HooksInv, HookTypeOK
  <2>6. HookTypeOK'
    BY <1>1, <1>4, <2>2, <2>5, TypesAfter
  <2> QED
    BY <1>4, <2>3, <2>4, <2>6, ConsoleStep
<1> QED
  BY <1>2, <1>3, <1>4

(* The row goes, and with it what it promised.                             *)
LEMMA DropKeeps ==
  ASSUME OneAtATime, HooksInv, NEW a \in Asks, DropConnection(a)
  PROVE  HooksInv'
<1> DEFINE y == [ask[a] EXCEPT !.at = "hookrow"]
<1>1. ask[a].at = "delete" /\ ~On(a, "idle") /\ row' = NoRow /\ UNCHANGED <<bank, torn>> /\ issued' = issued /\ AskMoves(a, y)
  BY DEF DropConnection, On, Surroundings, Steps
<1>2. y.at = "hookrow" /\ "at" \in DOMAIN y
  BY <1>1, ConsoleHolds DEF ConsoleOK
<1>3. row' \in HookRow /\ row'.rev = 0 /\ row'.status = "none"
  BY <1>1 DEF NoRow, HookRow
<1> HIDE DEF y
<1>4. ConsoleOK(y, row', bank', torn')
  BY <1>2 DEF ConsoleOK, Registering, TakingDown, BeforePut
<1>5. JobCopyOK(ask[Job], row')
  BY <1>3 DEF HooksInv, JobCopyOK
<1>6. bank' = [k \in Keys |-> bank'[k]]
  BY <1>1 DEF HooksInv, HookTypeOK
<1>7. HookTypeOK'
  BY <1>1, <1>3, <1>6, TypesAfter
<1> QED
  BY <1>1, <1>3, <1>4, <1>5, <1>7, ConsoleStep

(* The hook row and the rail.                                              *)
LEMMA TakingDownKeeps ==
  ASSUME OneAtATime, HooksInv, NEW a \in Asks, DeleteHook(a) \/ LeaveRail(a)
  PROVE  HooksInv'
<1> DEFINE y == [ask[a] EXCEPT !.at = "unrail"]
<1>1. ~On(a, "idle") /\ UNCHANGED <<row, bank, torn>> /\ issued' = issued
  BY DEF DeleteHook, LeaveRail, On, Surroundings
<1>2. AskMoves(a, y) \/ AskEnds(a)
  BY DEF DeleteHook, LeaveRail, Steps
<1>3. CASE AskMoves(a, y)
  <2>1. y.at = "unrail" /\ "at" \in DOMAIN y
    BY ConsoleHolds DEF ConsoleOK
  <2> HIDE DEF y
  <2>2. ConsoleOK(y, row, bank, torn)
    BY <2>1 DEF ConsoleOK, Registering, TakingDown, BeforePut
  <2>3. issued' \in [lives : Nat, hooks : Nat, secrets : Nat] /\ issued'.lives = issued.lives
    BY <1>1 DEF HooksInv, HookTypeOK
  <2> QED
    BY <1>1, <1>3, <2>2, <2>3, ConsoleMoves
<1> QED
  BY <1>1, <1>2, <1>3, ConsoleEnds

(* The hourly job.                                                         *)
LEMMA JobStep ==
  ASSUME HooksInv, NEW x, AskMoves(Job, x), HookTypeOK', JobCopyOK(x, row'), UNCHANGED <<bank, torn>>,
         \A a \in Asks : ConsoleOK(ask[a], row', bank, torn),
         row'.status = "registered" => Watched(row', bank, torn)
  PROVE  HooksInv'
<1>1. Job \in Asking /\ Asks \subseteq Asking /\ Job \notin Asks
  BY HooksAssumption DEF Asking, Job
<1>2. ask'[Job] = x /\ \A a \in Asks : ask'[a] = ask[a]
  BY <1>1 DEF AskMoves, HooksInv, HookTypeOK
<1> QED
  BY <1>2 DEF HooksInv

(* A step of the job that moves nothing but itself.                        *)
LEMMA JobMoves ==
  ASSUME HooksInv, NEW x, AskMoves(Job, x), ~On(Job, "idle") \/ row.rev > 0, UNCHANGED <<row, bank, torn>>, issued' = issued,
         JobCopyOK(x, row)
  PROVE  HooksInv'
<1>1. Job \in Asking /\ issued.lives # 0
  BY DEF Asking, On, HooksInv, HookTypeOK
<1>2. ask' = [b \in Asking |-> ask'[b]]
  BY DEF AskMoves, HooksInv, HookTypeOK
<1>3. HookTypeOK'
  BY <1>1, <1>2 DEF HooksInv, HookTypeOK
<1>4. /\ JobCopyOK(x, row') /\ \A a \in Asks : ConsoleOK(ask[a], row', bank, torn)
      /\ row'.status = "registered" => Watched(row', bank, torn)
  BY DEF HooksInv
<1> QED
  BY <1>3, <1>4, JobStep

(* The job reads the row.                                                  *)
LEMMA JobReadsKeeps ==
  ASSUME HooksInv, JobReads
  PROVE  HooksInv'
<1>1. row.rev > 0 /\ row \in HookRow /\ row.rev \in Nat
  BY DEF JobReads, There, HooksInv, HookTypeOK, HookRow
<1>2. JobCopyOK([at |-> "audit", c |-> row], row)
  BY <1>1 DEF JobCopyOK
<1>3. AskMoves(Job, [at |-> "audit", c |-> row]) /\ UNCHANGED <<row, bank, torn>> /\ issued' = issued
  BY DEF JobReads, Surroundings
<1> QED
  BY <1>1, <1>2, <1>3, JobMoves

(* The audit keeps the hook and key of its copy.                           *)
LEMMA AuditKeeps ==
  ASSUME HooksInv, Audit
  PROVE  HooksInv'
<1> DEFINE x == ask[Job]
           c == x.c
           d == [c EXCEPT !.status = "overwritten"]
<1>1. x.at = "audit" /\ ~On(Job, "idle") /\ UNCHANGED <<row, bank, torn>> /\ issued' = issued
  BY DEF Audit, On, Surroundings
<1>2. /\ c \in HookRow /\ c.rev > 0 /\ (row.rev > 0 => c.rev <= row.rev)
      /\ c.rev = row.rev => c.hook = row.hook /\ c.key = row.key /\ c.status \in {row.status, "overwritten"}
  BY <1>1 DEF HooksInv, JobCopyOK
<1>3. PICK e \in {c, d} : AskMoves(Job, [at |-> "save", c |-> e])
  BY DEF Audit, Held
<1>4. d \in HookRow /\ d.rev = c.rev /\ d.hook = c.hook /\ d.key = c.key /\ d.status = "overwritten"
  BY <1>2 DEF HookRow
<1>5. /\ e \in HookRow /\ e.rev = c.rev /\ e.hook = c.hook /\ e.key = c.key /\ e.status \in {c.status, "overwritten"}
  BY <1>2, <1>3, <1>4
<1> HIDE DEF c, d
<1>6. JobCopyOK([at |-> "save", c |-> e], row)
  BY <1>2, <1>5 DEF JobCopyOK
<1> QED
  BY <1>1, <1>3, <1>6, JobMoves

(* The job's save keeps the row's hook and key, so what a console request  *)
(* knows of them.                                                          *)
LEMMA JobSavesKeeps ==
  ASSUME HooksInv, JobSaves
  PROVE  HooksInv'
<1> DEFINE c == ask[Job].c
<1>1. ask[Job].at = "save" /\ ~On(Job, "idle") /\ UNCHANGED <<bank, torn>> /\ issued' = issued /\ AskMoves(Job, Rest) /\ SaveRow(c)
  BY DEF JobSaves, On, Surroundings, AskEnds, Held
<1>2. /\ c \in HookRow /\ c.rev > 0
      /\ c.rev = row.rev => c.hook = row.hook /\ c.key = row.key /\ c.status \in {row.status, "overwritten"}
  BY <1>1 DEF HooksInv, JobCopyOK
<1> HIDE DEF c
<1>3. CASE ~Current(c)
  <2>1. row' = row
    BY <1>1, <1>3 DEF SaveRow
  <2>2. JobCopyOK(Rest, row)
    BY RestOK
  <2> QED
    BY <1>1, <2>1, <2>2, JobMoves
<1>4. CASE Current(c)
  <2>1. row' = [c EXCEPT !.rev = c.rev + 1] /\ row.rev = c.rev
    BY <1>1, <1>4 DEF SaveRow, Current
  <2>2. row' \in HookRow /\ row'.rev = c.rev + 1 /\ row'.key = c.key /\ row'.hook = c.hook /\ row'.status = c.status
    BY <1>2, <2>1 DEF HookRow
  <2>3. row'.hook = row.hook /\ row'.key = row.key /\ row'.status \in {row.status, "overwritten"} /\ row.rev > 0 /\ row'.rev > 0
    BY <1>2, <2>1, <2>2 DEF HookRow
  <2>4. \A a \in Asks : ConsoleOK(ask[a], row', bank, torn)
    <3> SUFFICES ASSUME NEW a \in Asks PROVE ConsoleOK(ask[a], row', bank, torn)
      OBVIOUS
    <3>1. ConsoleOK(ask[a], row, bank, torn)
      BY ConsoleHolds
    <3> QED
      BY <2>3, <3>1 DEF ConsoleOK
  <2>5. row'.status = "registered" => row.status = "registered" /\ Watched(row', bank, torn)
    BY <2>3 DEF HooksInv, Watched
  <2>6. Job \in Asking /\ issued.lives # 0
    BY <1>1 DEF Asking, On, HooksInv, HookTypeOK
  <2>7. ask' = [b \in Asking |-> ask'[b]]
    BY <1>1 DEF AskMoves, HooksInv, HookTypeOK
  <2>8. HookTypeOK'
    BY <1>1, <2>2, <2>3, <2>5, <2>6, <2>7 DEF HooksInv, HookTypeOK
  <2>9. JobCopyOK(Rest, row')
    BY RestOK
  <2> QED
    BY <1>1, <2>4, <2>5, <2>8, <2>9, JobStep
<1> QED
  BY <1>3, <1>4

(* The world.                                                              *)
LEMMA WorldStep ==
  ASSUME HooksInv, UNCHANGED <<row, torn, issued, ask>>, bank' = [k \in Keys |-> bank'[k]],
         \A k \in Keys : bank'[k] = bank[k] \/ bank'[k] = Their
  PROVE  HooksInv'
<1>1. HookTypeOK'
  BY DEF HooksInv, HookTypeOK
<1>2. \A c : c.key \in Keys /\ Watched(c, bank, torn) => Watched(c, bank', torn')
  BY DEF Watched
<1>3. \A a \in Asks : ConsoleOK(ask'[a], row', bank', torn')
  <2> SUFFICES ASSUME NEW a \in Asks PROVE ConsoleOK(ask'[a], row', bank', torn')
    OBVIOUS
  <2>1. ConsoleOK(ask[a], row, bank, torn) /\ ask'[a] = ask[a] /\ row' = row
    BY ConsoleHolds
  <2>2. ask[a].at \in {"mark", "registered", "again"} => ask[a].c.key \in Keys
    BY <2>1 DEF ConsoleOK, Registering
  <2> QED
    BY <1>2, <2>1, <2>2 DEF ConsoleOK
<1>4. row'.status = "registered" => Watched(row', bank', torn')
  BY <1>2 DEF HooksInv, HookTypeOK
<1> QED
  BY <1>1, <1>3, <1>4 DEF HooksInv

(* Another system's registration, charges, and the end of an old secret.   *)
LEMMA WorldKeeps ==
  ASSUME HooksInv,
         \/ \E k \in Keys : OtherRegisters(k)
         \/ OpenCharge \/ ChargeEnds
         \/ \E h \in 1..MaxHooks : OverlapEnds(h)
         \/ UNCHANGED hookVars
  PROVE  HooksInv'
<1>1. UNCHANGED <<row, torn, issued, ask>>
  BY DEF OtherRegisters, OpenCharge, ChargeEnds, OverlapEnds, hookVars, Surroundings
<1>2. bank = [k \in Keys |-> bank[k]]
  BY DEF HooksInv, HookTypeOK
<1>3. bank' = bank \/ \E k \in Keys : bank' = [bank EXCEPT ![k] = Their]
  BY DEF OtherRegisters, OpenCharge, ChargeEnds, OverlapEnds, hookVars, Surroundings
<1>4. bank' = [k \in Keys |-> bank'[k]] /\ \A k \in Keys : bank'[k] = bank[k] \/ bank'[k] = Their
  BY <1>2, <1>3
<1> QED
  BY <1>1, <1>4, WorldStep

(* A death, of a request or of the job.                                    *)
LEMMA PerishKeeps ==
  ASSUME OneAtATime, HooksInv, NEW a \in Asking, Perishes(a)
  PROVE  HooksInv'
<1>1. ~On(a, "idle") /\ AskMoves(a, Rest) /\ UNCHANGED <<row, bank, torn>> /\ issued' = issued
  BY DEF Perishes, AskEnds, Surroundings
<1>2. CASE a \in Asks
  BY <1>1, <1>2, ConsoleEnds DEF AskEnds
<1>3. CASE a = Job
  <2>1. JobCopyOK(Rest, row)
    BY RestOK
  <2>2. AskMoves(Job, Rest) /\ ~On(Job, "idle")
    BY <1>1, <1>3
  <2> QED
    BY <1>1, <2>1, <2>2, JobMoves
<1> QED
  BY <1>2, <1>3 DEF Asking

(* Every step keeps the invariant.                                         *)
LEMMA HooksNextInv == OneAtATime /\ HooksInv /\ [HooksNext]_hookVars => HooksInv'
<1> SUFFICES ASSUME OneAtATime, HooksInv, [HooksNext]_hookVars PROVE HooksInv'
  OBVIOUS
<1>1. CASE \E k \in KnownKeys : ConnectBank(k)
  BY <1>1, ConnectKeeps
<1>2. CASE \/ \E k \in Keys : OtherRegisters(k)
           \/ OpenCharge \/ ChargeEnds
           \/ \E h \in 1..MaxHooks : OverlapEnds(h)
           \/ UNCHANGED hookVars
  BY <1>2, WorldKeeps
<1>3. ASSUME NEW a \in Asks, NEW b \in BOOLEAN,
             \/ RegisterWebhook(a, b)
             \/ \E k \in Keys : ChangePixKey(a, k, b)
             \/ \E f \in BOOLEAN : Unlink(a, b, f)
      PROVE  HooksInv'
  BY <1>3, RegisterKeeps, ChangeKeyKeeps, UnlinkKeeps
<1>4. ASSUME NEW a \in Asks,
             \/ GetWebhook(a) \/ IssueHook(a) \/ PutWebhook(a) \/ MarkWebhook(a) \/ AlreadyRegistered(a)
             \/ SaveKey(a) \/ RemoveOldNotice(a)
      PROVE  HooksInv'
  BY <1>4, GetKeeps, IssueKeeps, PutKeeps, MarkKeeps, AlreadyKeeps, SaveKeyKeeps, RemoveOldKeeps
<1>5. ASSUME NEW a \in Asks,
             UseForCollection(a) \/ SetPayoutRail(a) \/ CancelAndUnhook(a) \/ DropConnection(a) \/ DeleteHook(a) \/ LeaveRail(a)
      PROVE  HooksInv'
  BY <1>5, ForCollectionKeeps, RailKeeps, UnhookKeeps, DropKeeps, TakingDownKeeps
<1>6. CASE (\E a \in Asking : Perishes(a)) \/ JobReads \/ Audit \/ JobSaves
  BY <1>6, PerishKeeps, JobReadsKeeps, AuditKeeps, JobSavesKeeps
<1> QED
  BY <1>1, <1>2, <1>3, <1>4, <1>5, <1>6 DEF HooksNext

(* A connection that says its notice is registered has its own URL at the  *)
(* bank for its key, unless another system took the key or a disconnect    *)
(* that then stopped removed it: RegisteredIsOurs of Hooks, for any number *)
(* of keys, secrets, saves and registrations of others, one console        *)
(* request at a time and one life of the connection.                       *)
THEOREM NoticesAreOurs == ASSUME OneAtATime PROVE HooksSpec => []RegisteredIsOurs
<1>1. HooksInv => RegisteredIsOurs
  BY DEF HooksInv, RegisteredIsOurs, Watched
<1> QED
  BY <1>1, HooksInitInv, HooksNextInv, PTL DEF HooksSpec

=============================================================================
