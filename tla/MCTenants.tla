----------------------------- MODULE MCTenants ------------------------------
(* The tenant from its application to its erasure, for TLC: applications,  *)
(* credentials, bank connections, the webhooks registered at a bank,       *)
(* closure and erasure.  They share no variable: a behaviour runs one of   *)
(* them, chosen at the start.                                              *)
EXTENDS Applications, Credentials, Connections, Hooks, Closure, Erasure, TLC

CONSTANTS x1, x2     \* the two people at the console, and the two providers

VARIABLE part

(* No other system is registered at the bank yet (it may be, at any time). *)
(* A module that does not run starts in one of its initial states.         *)
Init ==
    /\ part \in {"applications", "credentials", "connections", "hooks", "closure", "erasure"}
    /\ ApplicationsInit /\ CredentialsInit /\ ConnectionsInit /\ HooksInit /\ ClosureInit /\ ErasureInit
    /\ \A k \in Keys : bank[k] = NoUrl
    /\ part # "erasure" => \A c \in Customers : person[c].debt

(* Bound: one warning, with one provider connected, and three revisions of *)
(* the two rows together.                                                  *)
ConnectionBound ==
    /\ Cardinality(told') <= 1 /\ (told' # {} => \E p \in Providers : conn'[p] = NoConn)
    /\ \A p, q \in Providers : p # q => conn'[p].rev + conn'[q].rev <= 3

Next ==
    \/ /\ part = "applications" /\ ApplicationsNext
       /\ UNCHANGED <<part, credVars, connVars, hookVars, closureVars, erasureVars>>
    \/ /\ part = "credentials" /\ CredentialsNext
       /\ UNCHANGED <<part, appVars, connVars, hookVars, closureVars, erasureVars>>
    \/ /\ part = "connections" /\ ConnectionsNext /\ ConnectionBound
       /\ UNCHANGED <<part, appVars, credVars, hookVars, closureVars, erasureVars>>
    \/ /\ part = "hooks" /\ HooksNext
       /\ UNCHANGED <<part, appVars, credVars, connVars, closureVars, erasureVars>>
    \/ /\ part = "closure" /\ ClosureNext
       /\ UNCHANGED <<part, appVars, credVars, connVars, hookVars, erasureVars>>
    \/ /\ part = "erasure" /\ ErasureNext
       /\ UNCHANGED <<part, appVars, credVars, connVars, hookVars, closureVars>>

Spec == Init /\ [][Next]_<<part, appVars, credVars, connVars, hookVars, closureVars, erasureVars>>

MCSymmetry == Permutations({x1, x2})

(* The registry of tables: what each row names, and the order of deletion. *)
MCNames == [chart |-> {"e1", "e2"}, tx |-> {"e2", "e3"}, card |-> {"k1"}, conn |-> {"h1"}, plain |-> {}]
MCRank  == [chart |-> 1, tx |-> 2, card |-> 3, conn |-> 4, plain |-> 5]
MCHooks == [inter |-> {"h1"}]
=============================================================================
