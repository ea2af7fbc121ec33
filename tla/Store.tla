-------------------------------- MODULE Store --------------------------------
(***************************************************************************)
(* The ReBAC store of kaguya-auth (auth/src/store.rs): three SQLite        *)
(* tables, and the statements the service and its admin CLI run on them.   *)
(*                                                                         *)
(* Each execute() or query is one autocommitted SQL statement, hence one   *)
(* atomic operator here; no method opens a transaction.  A grants row is   *)
(* the function value grants[u][s], NoRole standing for "no such row".     *)
(***************************************************************************)
EXTENDS Naturals, FiniteSetsExt

CONSTANTS
    User,       \* user ids (the `sub` of a verified token)
    Group,      \* groups, standing for the subjects 'group:<name>'
    Urc         \* repository resource ids

ASSUME SubjectsAssumption == User \cap Group = {}

Subject == User \cup Group

(* Option<Role>, ordered as derive(Ord) orders it: None, Member, Owner.    *)
NoRole == 0
Member == 1
Owner  == 2
MaybeRole == {NoRole, Member, Owner}

VARIABLES
    resources,  \* table `resources`: the ids that have a row
    grants,     \* table `grants`: [Urc -> [Subject -> MaybeRole]]
    members,    \* table `group_members`: pairs <<group, user>>
    origin      \* history: which statement wrote the grants row

tables == <<resources, grants, members, origin>>

(* Who wrote a grants row: "create" is record_owner's INSERT, "cli" the    *)
(* admin's grant, "none" means that there is no row.                       *)
Origin == {"none", "create", "cli"}

StoreTypeOK ==
    /\ resources \subseteq Urc
    /\ grants \in [Urc -> [Subject -> MaybeRole]]
    /\ members \subseteq Group \X User
    /\ origin \in [Urc -> [Subject -> Origin]]

(* SCHEMA creates the tables empty.                                        *)
StoreInit ==
    /\ resources = {}
    /\ grants = [u \in Urc |-> [s \in Subject |-> NoRole]]
    /\ members = {}
    /\ origin = [u \in Urc |-> [s \in Subject |-> "none"]]

-----------------------------------------------------------------------------
(* Queries.                                                                *)

(* The subjects whose grants count for s: itself, and each of its groups.  *)
Paths(s) == {s} \cup {g \in Group : <<g, s>> \in members}

(* The strongest role among the rows of u that belong to the subjects P.   *)
Strongest(P, u) == Max({NoRole} \cup {grants[u][p] : p \in P})

(* role_for when every row is read.                                        *)
RoleFor(s, u) == Strongest(Paths(s), u)

(* What role_for may return: rows.flatten() drops the rows that fail to be *)
(* read, so any subset of them may count.                                  *)
RolesRead(s, u) == {Strongest(P, u) : P \in SUBSET Paths(s)}

(* accessible when every row is read, and what it may return.              *)
Accessible(s) == {u \in Urc : RoleFor(s, u) # NoRole}
IdsRead(s) == SUBSET Accessible(s)

-----------------------------------------------------------------------------
(* Statements.                                                             *)

(* INSERT OR IGNORE INTO resources, where no row is there yet.             *)
InsertRow(u) ==
    /\ resources' = resources \cup {u}
    /\ UNCHANGED <<grants, members, origin>>

(* INSERT OR IGNORE INTO grants(.., 'owner'): a row that is there stays.   *)
InsertOwnerGrant(s, u) ==
    /\ \/ /\ grants[u][s] = NoRole
          /\ grants' = [grants EXCEPT ![u][s] = Owner]
          /\ origin' = [origin EXCEPT ![u][s] = "create"]
       \/ /\ grants[u][s] # NoRole
          /\ UNCHANGED <<grants, origin>>
    /\ UNCHANGED <<resources, members>>

(* DELETE FROM grants WHERE urc_id = ?                                     *)
DeleteGrantRows(u) ==
    /\ grants' = [grants EXCEPT ![u] = [s \in Subject |-> NoRole]]
    /\ origin' = [origin EXCEPT ![u] = [s \in Subject |-> "none"]]
    /\ UNCHANGED <<resources, members>>

(* DELETE FROM resources WHERE urc_id = ?                                  *)
DeleteResourceRow(u) ==
    /\ resources' = resources \ {u}
    /\ UNCHANGED <<grants, members, origin>>

(* Mutant of Grant: the role is stored one rank too high.                  *)
GrantRankUp(s, u, r) ==
    /\ grants' = [grants EXCEPT ![u][s] = r + 1]
    /\ origin' = [origin EXCEPT ![u][s] = "cli"]
    /\ UNCHANGED <<resources, members>>

(* INSERT OR REPLACE INTO grants: no resources row is required.            *)
Grant(s, u, r) ==
    /\ grants' = [grants EXCEPT ![u][s] = r]
    /\ origin' = [origin EXCEPT ![u][s] = "cli"]
    /\ UNCHANGED <<resources, members>>

Revoke(s, u) ==
    /\ grants' = [grants EXCEPT ![u][s] = NoRole]
    /\ origin' = [origin EXCEPT ![u][s] = "none"]
    /\ UNCHANGED <<resources, members>>

AddGroupMember(g, s) ==
    /\ members' = members \cup {<<g, s>>}
    /\ UNCHANGED <<resources, grants, origin>>

RemoveGroupMember(g, s) ==
    /\ members' = members \ {<<g, s>>}
    /\ UNCHANGED <<resources, grants, origin>>
==============================================================================
