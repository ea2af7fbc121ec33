---------------------------- MODULE AuthApiProofs ----------------------------
(***************************************************************************)
(* Proofs about AuthApi, for every set of users, groups, resources and     *)
(* requests.  The inductive invariant relates the lock to the two places   *)
(* where a handler holds it, says what the holder may rely on, and bounds  *)
(* what the callers can see by the history of what they held.              *)
(***************************************************************************)
EXTENDS AuthApi, TLAPS

Holding == {"insert_owner", "delete_row"}

LockInv ==
    \A q \in Req : mutex = q <=> pc[q] \in Holding

HolderInv ==
    \A q \in Req :
        /\ pc[q] \in Holding => Founders(urc[q]) = {}
        /\ pc[q] = "insert_owner" => urc[q] \in resources

(* What one request has seen: the history bounds its caller's role, the    *)
(* ids it listed, the answers it gives and its leave to delete.            *)
SeenBy(q) ==
    /\ pc[q] \in Deleting \cup Reading =>
            \A u \in Urc : RoleFor(sub[q], u) <= held[q][u]
    /\ pc[q] = "fill" => \A u \in todo[q] : held[q][u] # NoRole
    /\ pc[q] \in {"delete_grants", "delete_row"} => held[q][urc[q]] = Owner
    /\ \A u \in Urc : out[q][u] <= held[q][u]

AnswersInv == \A q \in Req : SeenBy(q)

OwnersInv == LockInv /\ HolderInv /\ SingleFounder /\ FounderHasRow

-----------------------------------------------------------------------------
(* The strongest of a set of roles is one of them and bounds them.         *)
LEMMA MaxRole ==
    ASSUME NEW S \in SUBSET MaybeRole, S # {}
    PROVE  /\ Max(S) \in S
           /\ \A r \in S : r <= Max(S)
<1>1. \E r \in S : \A t \in S : r >= t
  <2>1. CASE Owner \in S
    <3>1. Owner \in S /\ \A t \in S : Owner >= t
      BY <2>1 DEF MaybeRole, NoRole, Member, Owner
    <3> QED BY <3>1
  <2>2. CASE Owner \notin S /\ Member \in S
    <3>1. Member \in S /\ \A t \in S : Member >= t
      BY <2>2 DEF MaybeRole, NoRole, Member, Owner
    <3> QED BY <3>1
  <2>3. CASE Owner \notin S /\ Member \notin S
    <3>1. PICK r \in S : TRUE
      OBVIOUS
    <3>2. \A t \in S : t = NoRole
      BY <2>3 DEF MaybeRole
    <3>3. \A t \in S : r >= t
      BY <3>2 DEF NoRole
    <3> QED BY <3>3
  <2> QED BY <2>1, <2>2, <2>3
<1>2. Max(S) \in S /\ \A t \in S : Max(S) >= t
  BY <1>1 DEF Max
<1>3. \A r \in S : r \in Nat
  BY DEF MaybeRole, NoRole, Member, Owner
<1> QED BY <1>2, <1>3

(* The paths of a user are subjects.                                       *)
LEMMA PathsAreSubjects ==
    ASSUME NEW s \in User
    PROVE  Paths(s) \subseteq Subject
BY DEF Paths, Subject

(* A query over some of the rows answers a role, none of those rows is     *)
(* stronger, and only a row can make it more than None.                    *)
LEMMA StrongestRole ==
    ASSUME StoreTypeOK, NEW P \in SUBSET Subject, NEW u \in Urc
    PROVE  /\ Strongest(P, u) \in MaybeRole
           /\ \A p \in P : grants[u][p] <= Strongest(P, u)
           /\ Strongest(P, u) # NoRole => \E p \in P : grants[u][p] = Strongest(P, u)
<1> DEFINE S == {NoRole} \cup {grants[u][p] : p \in P}
<1>1. S \in SUBSET MaybeRole
  BY DEF StoreTypeOK, MaybeRole
<1>2. Max(S) \in S /\ \A r \in S : r <= Max(S)
  BY <1>1, MaxRole
<1> QED BY <1>1, <1>2 DEF Strongest

(* Rows that fail to be read never make role_for answer more.              *)
LEMMA ReadBelow ==
    ASSUME StoreTypeOK, NEW s \in User, NEW u \in Urc, NEW r \in RolesRead(s, u)
    PROVE  r \in MaybeRole /\ r <= RoleFor(s, u)
<1>1. PICK P \in SUBSET Paths(s) : r = Strongest(P, u)
  BY DEF RolesRead
<1>2. P \in SUBSET Subject /\ Paths(s) \in SUBSET Subject
  BY <1>1, PathsAreSubjects
<1>3. /\ r \in MaybeRole
      /\ r # NoRole => \E p \in P : grants[u][p] = r
  BY <1>1, <1>2, StrongestRole
<1>4. /\ RoleFor(s, u) \in MaybeRole
      /\ \A p \in Paths(s) : grants[u][p] <= RoleFor(s, u)
  BY <1>2, StrongestRole DEF RoleFor
<1>5. CASE r = NoRole
  BY <1>4, <1>5 DEF MaybeRole, NoRole, Member, Owner
<1>6. CASE r # NoRole
  BY <1>1, <1>3, <1>4, <1>6
<1> QED BY <1>3, <1>5, <1>6

LEMMA RoleForRole ==
    ASSUME StoreTypeOK, NEW s \in User, NEW u \in Urc
    PROVE  RoleFor(s, u) \in MaybeRole
BY StrongestRole, PathsAreSubjects DEF RoleFor

(* The history after a write: nothing that was seen is forgotten, and each *)
(* call that is not over has seen the role its caller has now.             *)
LEMMA ObserveSees ==
    ASSUME TypeOK, StoreTypeOK', sub' = sub, Observe
    PROVE  /\ held' \in [Req -> [Urc -> MaybeRole]]
           /\ \A q \in Req, u \in Urc :
                /\ held[q][u] <= held'[q][u]
                /\ pc[q] \in Deleting \cup Reading => RoleFor(sub[q], u)' <= held'[q][u]
<1> SUFFICES ASSUME NEW q \in Req, NEW u \in Urc
             PROVE  /\ held'[q][u] \in MaybeRole
                    /\ held[q][u] <= held'[q][u]
                    /\ pc[q] \in Deleting \cup Reading => RoleFor(sub[q], u)' <= held'[q][u]
  BY DEF Observe
<1>1. sub[q] \in User /\ sub'[q] = sub[q] /\ held[q][u] \in MaybeRole
  BY DEF TypeOK
<1>2. RoleFor(sub[q], u)' \in MaybeRole
  <2> DEFINE R == {NoRole} \cup {grants'[u][p] : p \in Paths(sub[q])'}
  <2>1. Paths(sub[q])' \subseteq Subject
    BY <1>1 DEF Paths, Subject
  <2>2. R \in SUBSET MaybeRole
    BY <2>1 DEF StoreTypeOK, MaybeRole
  <2>3. Max(R) \in R
    BY <2>2, MaxRole
  <2> QED BY <2>2, <2>3 DEF RoleFor, Strongest
<1> DEFINE H == {held[q][u], RoleFor(sub[q], u)'}
<1>3. Max(H) \in H /\ \A r \in H : r <= Max(H)
  BY <1>1, <1>2, MaxRole
<1>4. held'[q][u] = IF pc[q] \in Deleting \cup Reading THEN Max(H) ELSE held[q][u]
  BY DEF Observe
<1>5. held[q][u] <= held[q][u]
  BY <1>1 DEF MaybeRole, NoRole, Member, Owner
<1> QED BY <1>1, <1>2, <1>3, <1>4, <1>5

-----------------------------------------------------------------------------
(* Each statement keeps the tables well-typed.                             *)
LEMMA StatementsTyped ==
    ASSUME StoreTypeOK, NEW u \in Urc, NEW s \in Subject
    PROVE  /\ InsertRow(u) => StoreTypeOK'
           /\ InsertOwnerGrant(s, u) => StoreTypeOK'
           /\ DeleteGrantRows(u) => StoreTypeOK'
           /\ DeleteResourceRow(u) => StoreTypeOK'
           /\ \A r \in MaybeRole : Grant(s, u, r) => StoreTypeOK'
           /\ Revoke(s, u) => StoreTypeOK'
           /\ \A g \in Group, t \in User :
                (AddGroupMember(g, t) \/ RemoveGroupMember(g, t)) => StoreTypeOK'
<1>0. /\ NoRole \in MaybeRole /\ Owner \in MaybeRole
      /\ "none" \in Origin /\ "create" \in Origin /\ "cli" \in Origin
  BY DEF MaybeRole, Origin
<1>1. InsertRow(u) => StoreTypeOK'
  BY DEF InsertRow, StoreTypeOK
<1>2. ASSUME InsertOwnerGrant(s, u)
      PROVE  StoreTypeOK'
  <2>1. CASE /\ grants' = [grants EXCEPT ![u][s] = Owner]
             /\ origin' = [origin EXCEPT ![u][s] = "create"]
    <3>1. grants' \in [Urc -> [Subject -> MaybeRole]]
      BY <1>0, <2>1 DEF StoreTypeOK
    <3>2. origin' \in [Urc -> [Subject -> Origin]]
      BY <1>0, <2>1 DEF StoreTypeOK
    <3> QED BY <1>2, <3>1, <3>2 DEF InsertOwnerGrant, StoreTypeOK
  <2>2. CASE UNCHANGED <<grants, origin>>
    BY <1>2, <2>2 DEF InsertOwnerGrant, StoreTypeOK
  <2> QED BY <1>2, <2>1, <2>2 DEF InsertOwnerGrant
<1>3. DeleteGrantRows(u) => StoreTypeOK'
  BY <1>0 DEF DeleteGrantRows, StoreTypeOK
<1>4. DeleteResourceRow(u) => StoreTypeOK'
  BY DEF DeleteResourceRow, StoreTypeOK
<1>5. \A r \in MaybeRole : Grant(s, u, r) => StoreTypeOK'
  BY <1>0 DEF Grant, StoreTypeOK
<1>6. Revoke(s, u) => StoreTypeOK'
  BY <1>0 DEF Revoke, StoreTypeOK
<1>7. \A g \in Group, t \in User :
        (AddGroupMember(g, t) \/ RemoveGroupMember(g, t)) => StoreTypeOK'
  BY DEF AddGroupMember, RemoveGroupMember, StoreTypeOK
<1> QED BY <1>1, <1>2, <1>3, <1>4, <1>5, <1>6, <1>7

(* Every step of the server and of the CLI keeps TypeOK.                   *)
LEMMA TypeStep ==
    ASSUME TypeOK, [Next]_vars
    PROVE  TypeOK'
<1> USE DEF TypeOK, Done, Answered, Creating, Deleting, Reading
<1>1. ASSUME NEW q \in Req, CreateCall(q) \/ DeleteCall(q) \/ CheckCall(q) \/ LookupCall(q)
      PROVE  TypeOK'
  <2>1. PICK l \in {"insert_row", "check_owner", "read", "list"}, t \in User, u \in Urc,
              ids \in SUBSET Urc : Arrive(q, l, t, u, ids)
    BY <1>1 DEF CreateCall, DeleteCall, CheckCall, LookupCall
  <2>2. [v \in Urc |-> RoleFor(t, v)] \in [Urc -> MaybeRole]
    BY RoleForRole
  <2>3. Nothing \in [Urc -> MaybeRole]
    BY DEF Nothing, MaybeRole
  <2> QED BY <2>1, <2>2, <2>3 DEF Arrive, Goto, tables, StoreTypeOK
<1>2. ASSUME NEW q \in Req, RowExists(q)
      PROVE  TypeOK'
  BY <1>2 DEF RowExists, Continue, Goto, tables, StoreTypeOK
<1>3. ASSUME NEW q \in Req, RowCreated(q)
      PROVE  TypeOK'
  <2>1. StoreTypeOK'
    BY <1>3, StatementsTyped DEF RowCreated, Subject
  <2> QED BY <1>3, <2>1 DEF RowCreated, Continue, Goto
<1>4. ASSUME NEW q \in Req, OwnerGrant(q)
      PROVE  TypeOK'
  <2>1. sub[q] \in Subject /\ urc[q] \in Urc
    BY DEF Subject
  <2>2. StoreTypeOK'
    BY <1>4, <2>1, StatementsTyped DEF OwnerGrant
  <2>3. held' \in [Req -> [Urc -> MaybeRole]]
    BY <1>4, <2>2, ObserveSees DEF OwnerGrant, Continue
  <2> QED BY <1>4, <2>2, <2>3 DEF OwnerGrant, Continue, Goto
<1>5. ASSUME NEW q \in Req, CreateFails(q) \/ DeleteFails(q)
      PROVE  TypeOK'
  BY <1>5 DEF CreateFails, DeleteFails, Fail, Continue, Goto, tables, StoreTypeOK
<1>6. ASSUME NEW q \in Req, CheckOwner(q)
      PROVE  TypeOK'
  BY <1>6 DEF CheckOwner, Continue, Goto, tables, StoreTypeOK
<1>7. ASSUME NEW q \in Req, DeleteGrants(q)
      PROVE  TypeOK'
  <2>1. sub[q] \in Subject /\ urc[q] \in Urc
    BY DEF Subject
  <2>2. StoreTypeOK'
    BY <1>7, <2>1, StatementsTyped DEF DeleteGrants
  <2>3. held' \in [Req -> [Urc -> MaybeRole]]
    BY <1>7, <2>2, ObserveSees DEF DeleteGrants, Continue
  <2> QED BY <1>7, <2>2, <2>3 DEF DeleteGrants, Continue, Goto
<1>8. ASSUME NEW q \in Req, DeleteRow(q)
      PROVE  TypeOK'
  <2>1. StoreTypeOK'
    BY <1>8, StatementsTyped DEF DeleteRow, Subject
  <2> QED BY <1>8, <2>1 DEF DeleteRow, Continue, Goto
<1>9. ASSUME NEW q \in Req, ReadRole(q)
      PROVE  TypeOK'
  <2>0. PICK u \in todo[q] : \E r \in RolesRead(sub[q], u) :
          out' = [out EXCEPT ![q][u] = AnswerFor(q, r)]
    BY <1>9 DEF ReadRole
  <2>1. PICK r \in RolesRead(sub[q], u) : out' = [out EXCEPT ![q][u] = AnswerFor(q, r)]
    BY <2>0
  <2>2. r \in MaybeRole
    BY <2>1, ReadBelow
  <2>3. AnswerFor(q, r) \in MaybeRole
    BY <2>2 DEF AnswerFor, MaybeRole
  <2>4. out' \in [Req -> [Urc -> MaybeRole]]
    BY <2>1, <2>3
  <2> QED BY <1>9, <2>4 DEF ReadRole, tables, StoreTypeOK
<1>10. ASSUME NEW q \in Req, ListIds(q)
       PROVE  TypeOK'
  BY <1>10 DEF ListIds, Goto, IdsRead, Accessible, tables, StoreTypeOK
<1>11. ASSUME NEW q \in Req, ReadDone(q) \/ ReadPanics(q) \/ PoisonedLock(q)
       PROVE  TypeOK'
  BY <1>11 DEF ReadDone, ReadPanics, PoisonedLock, Continue, Goto, tables, StoreTypeOK
<1>12. CASE Restart
  BY <1>12 DEF Restart, tables, StoreTypeOK
<1>13. CASE AdminGrant \/ AdminRevoke \/ AdminGroupAdd \/ AdminGroupDel
  <2>1. Member \in MaybeRole /\ Owner \in MaybeRole /\ \E u \in Urc : TRUE
    BY NonEmptyAssumption DEF MaybeRole
  <2>2. StoreTypeOK'
    BY <1>13, <2>1, StatementsTyped, NonEmptyAssumption
    DEF AdminGrant, AdminRevoke, AdminGroupAdd, AdminGroupDel, Subject
  <2>3. held' \in [Req -> [Urc -> MaybeRole]]
    BY <1>13, <2>2, ObserveSees
    DEF AdminGrant, AdminRevoke, AdminGroupAdd, AdminGroupDel, requests
  <2> QED BY <1>13, <2>2, <2>3
      DEF AdminGrant, AdminRevoke, AdminGroupAdd, AdminGroupDel, requests
<1>14. CASE UNCHANGED vars
  BY <1>14 DEF vars, requests, tables, StoreTypeOK
<1> QED
  BY <1>1, <1>2, <1>3, <1>4, <1>5, <1>6, <1>7, <1>8, <1>9, <1>10, <1>11, <1>12, <1>13, <1>14
  DEF Next, RequestNext

(* The state of the tables and of every request keeps its type, for any    *)
(* number of users, resources and concurrent requests.                     *)
THEOREM TypeCorrect == Spec => []TypeOK
<1>1. Init => TypeOK
  BY DEF Init, StoreInit, TypeOK, StoreTypeOK, MaybeRole, Origin, Nothing, Done, Answered
<1>2. TypeOK /\ [Next]_vars => TypeOK'
  BY TypeStep
<1> QED BY <1>1, <1>2, PTL DEF Spec

-----------------------------------------------------------------------------
(* A request that neither takes nor gives back the lock, and leaves the    *)
(* tables alone, cannot disturb what the holder relies on.                 *)
LEMMA BystanderStep ==
    ASSUME TypeOK, OwnersInv, NEW q \in Req,
           UNCHANGED tables,
           pc[q] \notin Holding, pc'[q] \notin Holding,
           \A p \in Req \ {q} : pc'[p] = pc[p] /\ urc'[p] = urc[p],
           mutex' = mutex \/ (mutex \notin Req /\ mutex' \notin Req)
    PROVE  OwnersInv'
<1>1. LockInv'
  BY DEF OwnersInv, LockInv
<1>2. HolderInv'
  BY DEF OwnersInv, HolderInv, Founders, tables, Holding
<1>3. SingleFounder' /\ FounderHasRow'
  BY DEF OwnersInv, SingleFounder, FounderHasRow, Founders, tables
<1> QED BY <1>1, <1>2, <1>3 DEF OwnersInv

(* A step that gives the lock back, or leaves it free, leaves no holder.   *)
LEMMA FreeAfter ==
    ASSUME TypeOK, OwnersInv, NEW q \in Req, NEW l \in Done,
           pc[q] \in Holding \/ mutex = Free,
           mutex' = Free, Goto(q, l)
    PROVE  LockInv' /\ HolderInv'
<1>1. \A p \in Req : pc'[p] \notin Holding
  <2> SUFFICES ASSUME NEW p \in Req
               PROVE  pc'[p] \notin Holding
    OBVIOUS
  <2>1. l \notin Holding
    BY DEF Done, Answered, Holding
  <2>2. CASE p = q
    BY <2>1, <2>2 DEF Goto, TypeOK
  <2>3. CASE p # q
    BY <2>3, MutexAssumption DEF Goto, TypeOK, OwnersInv, LockInv
  <2> QED BY <2>2, <2>3
<1> QED BY <1>1, MutexAssumption DEF LockInv, HolderInv, Holding

(* An admin command writes outside the server's lock, but only rows of its *)
(* own: it never adds a founder.                                           *)
LEMMA AdminStep ==
    ASSUME TypeOK, OwnersInv, UNCHANGED <<resources, mutex, pc, urc>>,
           \A u \in Urc : Founders(u)' \subseteq Founders(u)
    PROVE  OwnersInv'
<1>1. LockInv'
  BY DEF OwnersInv, LockInv
<1>2. HolderInv'
  BY DEF OwnersInv, HolderInv, TypeOK
<1>3. SingleFounder'
  BY DEF OwnersInv, SingleFounder
<1>4. FounderHasRow'
  BY DEF OwnersInv, FounderHasRow
<1> QED BY <1>1, <1>2, <1>3, <1>4 DEF OwnersInv

LEMMA OwnersStep ==
    ASSUME TypeOK, OwnersInv, [Next]_vars
    PROVE  OwnersInv'
<1> USE DEF TypeOK, StoreTypeOK, Done, Answered, Creating, Deleting, Reading
<1>1. ASSUME NEW q \in Req, CreateCall(q) \/ DeleteCall(q) \/ CheckCall(q) \/ LookupCall(q)
      PROVE  OwnersInv'
  <2>1. PICK l \in {"insert_row", "check_owner", "read", "list"}, t \in User, u \in Urc,
              ids \in SUBSET Urc : Arrive(q, l, t, u, ids)
    BY <1>1 DEF CreateCall, DeleteCall, CheckCall, LookupCall
  <2>2. pc[q] \notin Holding /\ pc'[q] \notin Holding
    BY <2>1 DEF Arrive, Goto, Holding
  <2> QED BY <2>1, <2>2, BystanderStep DEF Arrive, Goto
<1>2. ASSUME NEW q \in Req, RowExists(q) \/ CheckOwner(q) \/ ReadDone(q)
      PROVE  OwnersInv'
  <2>1. pc[q] \notin Holding /\ pc'[q] \notin Holding
    BY <1>2 DEF RowExists, CheckOwner, ReadDone, Continue, Goto, Holding
  <2> QED BY <1>2, <2>1, BystanderStep DEF RowExists, CheckOwner, ReadDone, Continue, Goto
<1>3. ASSUME NEW q \in Req, ReadRole(q) \/ ListIds(q)
      PROVE  OwnersInv'
  <2>1. pc[q] \notin Holding /\ pc'[q] \notin Holding
    BY <1>3 DEF ReadRole, ListIds, Goto, Holding
  <2> QED BY <1>3, <2>1, BystanderStep DEF ReadRole, ListIds, Goto
<1>4. ASSUME NEW q \in Req, ReadPanics(q) \/ PoisonedLock(q)
      PROVE  OwnersInv'
  <2>1. pc[q] \notin Holding /\ pc'[q] \notin Holding
    BY <1>4 DEF ReadPanics, PoisonedLock, AboutToRead, Continue, Goto, Holding
  <2> QED BY <1>4, <2>1, BystanderStep, MutexAssumption
      DEF ReadPanics, PoisonedLock, Continue, Goto
<1>5. ASSUME NEW q \in Req, RowCreated(q)
      PROVE  OwnersInv'
  <2>1. Founders(urc[q]) = {}
    BY <1>5 DEF RowCreated, OwnersInv, FounderHasRow
  <2>2. \A p \in Req : pc[p] \notin Holding
    BY <1>5, MutexAssumption DEF RowCreated, OwnersInv, LockInv
  <2>3. LockInv'
    BY <1>5, <2>2 DEF RowCreated, Continue, Goto, LockInv, Holding
  <2>4. \A u \in Urc : Founders(u)' = Founders(u)
    BY <1>5 DEF RowCreated, InsertRow, Founders
  <2>5. HolderInv'
    <3>1. \A p \in Req : p # q => pc'[p] \notin Holding
      BY <1>5, <2>2 DEF RowCreated, Continue, Goto
    <3>2. urc' = urc /\ urc[q] \in resources' /\ origin' = origin
      BY <1>5 DEF RowCreated, InsertRow, Continue
    <3> QED BY <2>1, <3>1, <3>2 DEF HolderInv, Founders, Holding
  <2>6. SingleFounder' /\ FounderHasRow'
    BY <1>5, <2>4 DEF RowCreated, InsertRow, OwnersInv, SingleFounder, FounderHasRow
  <2> QED BY <2>3, <2>5, <2>6 DEF OwnersInv
<1>6. ASSUME NEW q \in Req, OwnerGrant(q)
      PROVE  OwnersInv'
  <2>1. pc[q] \in Holding /\ Founders(urc[q]) = {} /\ urc[q] \in resources
    BY <1>6 DEF OwnerGrant, OwnersInv, HolderInv, Holding
  <2>2. LockInv' /\ HolderInv'
    BY <1>6, <2>1, FreeAfter DEF OwnerGrant, Continue
  <2>3. \A u \in Urc : Founders(u)' = Founders(u) \/ (u = urc[q] /\ Founders(u)' = {sub[q]})
    <3>1. CASE UNCHANGED origin
      BY <3>1 DEF Founders
    <3>2. CASE origin' = [origin EXCEPT ![urc[q]][sub[q]] = "create"]
      BY <2>1, <3>2 DEF Founders, Subject
    <3> QED BY <1>6, <3>1, <3>2 DEF OwnerGrant, InsertOwnerGrant
  <2>4. SingleFounder'
    BY <2>3 DEF OwnersInv, SingleFounder
  <2>5. FounderHasRow'
    BY <1>6, <2>1, <2>3 DEF OwnerGrant, InsertOwnerGrant, OwnersInv, FounderHasRow
  <2> QED BY <2>2, <2>4, <2>5 DEF OwnersInv
<1>7. ASSUME NEW q \in Req, CreateFails(q) \/ DeleteFails(q)
      PROVE  OwnersInv'
  <2>1. pc[q] \in Holding \/ mutex = Free
    BY <1>7 DEF CreateFails, DeleteFails, Holding
  <2>2. LockInv' /\ HolderInv'
    BY <1>7, <2>1, FreeAfter DEF CreateFails, DeleteFails, Fail, Continue
  <2>3. SingleFounder' /\ FounderHasRow'
    BY <1>7 DEF CreateFails, DeleteFails, Fail, tables, OwnersInv, SingleFounder,
                FounderHasRow, Founders
  <2> QED BY <2>2, <2>3 DEF OwnersInv
<1>8. ASSUME NEW q \in Req, DeleteGrants(q)
      PROVE  OwnersInv'
  <2>1. \A p \in Req : pc[p] \notin Holding
    BY <1>8, MutexAssumption DEF DeleteGrants, OwnersInv, LockInv
  <2>2. LockInv'
    BY <1>8, <2>1 DEF DeleteGrants, Continue, Goto, LockInv, Holding
  <2>3. \A u \in Urc : Founders(u)' \subseteq Founders(u)
    BY <1>8 DEF DeleteGrants, DeleteGrantRows, Founders
  <2>4. HolderInv'
    <3>1. \A p \in Req : p # q => pc'[p] \notin Holding
      BY <1>8, <2>1 DEF DeleteGrants, Continue, Goto
    <3>2. urc' = urc /\ pc'[q] = "delete_row" /\ \A s \in Subject : origin'[urc[q]][s] = "none"
      BY <1>8 DEF DeleteGrants, DeleteGrantRows, Continue, Goto
    <3> QED BY <3>1, <3>2 DEF HolderInv, Founders, Holding
  <2>5. SingleFounder'
    BY <2>3 DEF OwnersInv, SingleFounder
  <2>6. FounderHasRow'
    BY <1>8, <2>3 DEF DeleteGrants, DeleteGrantRows, OwnersInv, FounderHasRow
  <2> QED BY <2>2, <2>4, <2>5, <2>6 DEF OwnersInv
<1>9. ASSUME NEW q \in Req, DeleteRow(q)
      PROVE  OwnersInv'
  <2>1. pc[q] \in Holding /\ Founders(urc[q]) = {}
    BY <1>9 DEF DeleteRow, OwnersInv, HolderInv, Holding
  <2>2. LockInv' /\ HolderInv'
    BY <1>9, <2>1, FreeAfter DEF DeleteRow, Continue
  <2>3. \A u \in Urc : Founders(u)' = Founders(u)
    BY <1>9 DEF DeleteRow, DeleteResourceRow, Founders
  <2>4. SingleFounder' /\ FounderHasRow'
    BY <1>9, <2>1, <2>3 DEF DeleteRow, DeleteResourceRow, OwnersInv, SingleFounder, FounderHasRow
  <2> QED BY <2>2, <2>4 DEF OwnersInv
<1>10. CASE Restart
  <2>1. \A p \in Req : pc'[p] \notin Holding
    BY <1>10 DEF Restart, Holding
  <2>2. LockInv' /\ HolderInv'
    BY <1>10, <2>1, MutexAssumption DEF Restart, LockInv, HolderInv, Holding
  <2>3. SingleFounder' /\ FounderHasRow'
    BY <1>10 DEF Restart, tables, OwnersInv, SingleFounder, FounderHasRow, Founders
  <2> QED BY <2>2, <2>3 DEF OwnersInv
<1>11. CASE AdminGrant
  <2>1. \A u \in Urc : Founders(u)' \subseteq Founders(u)
    BY <1>11 DEF AdminGrant, Grant, Founders
  <2> QED BY <1>11, <2>1, AdminStep DEF AdminGrant, Grant, requests
<1>12. CASE AdminRevoke
  <2>1. \A u \in Urc : Founders(u)' \subseteq Founders(u)
    BY <1>12 DEF AdminRevoke, Revoke, Founders
  <2> QED BY <1>12, <2>1, AdminStep DEF AdminRevoke, Revoke, requests
<1>13. CASE AdminGroupAdd \/ AdminGroupDel
  <2>1. \A u \in Urc : Founders(u)' \subseteq Founders(u)
    BY <1>13 DEF AdminGroupAdd, AdminGroupDel, AddGroupMember, RemoveGroupMember, Founders
  <2> QED BY <1>13, <2>1, AdminStep
      DEF AdminGroupAdd, AdminGroupDel, AddGroupMember, RemoveGroupMember, requests
<1>14. CASE UNCHANGED vars
  <2>1. \A u \in Urc : Founders(u)' \subseteq Founders(u)
    BY <1>14 DEF vars, tables, Founders
  <2> QED BY <1>14, <2>1, AdminStep DEF vars, requests, tables
<1> QED
  BY <1>1, <1>2, <1>3, <1>4, <1>5, <1>6, <1>7, <1>8, <1>9, <1>10, <1>11, <1>12, <1>13, <1>14
  DEF Next, RequestNext

-----------------------------------------------------------------------------
(* A request that moves on while the grants stand has still seen enough,   *)
(* if the place it moves to needs no more than it has seen.                *)
LEMMA MoveSees ==
    ASSUME TypeOK, AnswersInv, NEW q \in Req,
           UNCHANGED <<grants, members, sub, urc, out, held>>,
           pc'[q] \in Deleting \cup Reading => pc[q] \in Deleting \cup Reading,
           pc'[q] = "fill" => \A u \in todo'[q] : held[q][u] # NoRole,
           pc'[q] \in {"delete_grants", "delete_row"} => held[q][urc[q]] = Owner
    PROVE  SeenBy(q)'
<1>1. SeenBy(q)
  BY DEF AnswersInv
<1>2. \A u \in Urc : RoleFor(sub[q], u)' = RoleFor(sub[q], u)
  BY DEF RoleFor, Strongest, Paths
<1> QED BY <1>1, <1>2 DEF SeenBy

(* A write that the history observes, by whichever process.                *)
LEMMA WriteSees ==
    ASSUME TypeOK, TypeOK', AnswersInv, Observe, NEW q \in Req,
           UNCHANGED <<sub, urc, todo, out>>,
           \/ pc'[q] = pc[q]
           \/ pc'[q] = "ok"
           \/ pc[q] = "delete_grants" /\ pc'[q] = "delete_row"
    PROVE  SeenBy(q)'
<1>1. SeenBy(q)
  BY DEF AnswersInv
<1>2. \A u \in Urc :
        /\ held[q][u] <= held'[q][u]
        /\ pc[q] \in Deleting \cup Reading => RoleFor(sub[q], u)' <= held'[q][u]
  BY ObserveSees DEF TypeOK
<1>3. \A u \in Urc :
        held[q][u] \in MaybeRole /\ held'[q][u] \in MaybeRole /\ out[q][u] \in MaybeRole
  BY DEF TypeOK
<1>4. pc'[q] \in Deleting \cup Reading => \A u \in Urc : RoleFor(sub[q], u)' <= held'[q][u]
  BY <1>2 DEF Deleting, Reading
<1>5. pc'[q] = "fill" => \A u \in todo'[q] : held'[q][u] # NoRole
  BY <1>1, <1>2, <1>3 DEF SeenBy, TypeOK, MaybeRole, NoRole, Member, Owner
<1>6. pc'[q] \in {"delete_grants", "delete_row"} => held'[q][urc'[q]] = Owner
  <2>1. urc[q] \in Urc /\ urc'[q] = urc[q]
    BY DEF TypeOK
  <2> QED BY <1>1, <1>2, <1>3, <2>1 DEF SeenBy, MaybeRole, NoRole, Member, Owner
<1>7. \A u \in Urc : out'[q][u] <= held'[q][u]
  BY <1>1, <1>2, <1>3 DEF SeenBy, MaybeRole, NoRole, Member, Owner
<1> QED BY <1>4, <1>5, <1>6, <1>7 DEF SeenBy

(* The steps that leave the grants, the answers and the callers alone.     *)
LEMMA MoveStep ==
    ASSUME TypeOK, AnswersInv, NEW q \in Req,
           UNCHANGED <<grants, members, sub, urc, out, held>>,
           \A p \in Req \ {q} : pc'[p] = pc[p] /\ todo'[p] = todo[p],
           pc'[q] \in Deleting \cup Reading => pc[q] \in Deleting \cup Reading,
           pc'[q] = "fill" => \A u \in todo'[q] : held[q][u] # NoRole,
           pc'[q] \in {"delete_grants", "delete_row"} => held[q][urc[q]] = Owner
    PROVE  AnswersInv'
<1> SUFFICES ASSUME NEW p \in Req
             PROVE  SeenBy(p)'
  BY DEF AnswersInv
<1>1. CASE p = q
  BY <1>1, MoveSees
<1>2. CASE p # q
  <2>1. SeenBy(p)
    BY DEF AnswersInv
  <2> QED BY <1>2, <2>1, MoveSees DEF SeenBy
<1> QED BY <1>1, <1>2

LEMMA AnswersStep ==
    ASSUME TypeOK, TypeOK', AnswersInv, [Next]_vars
    PROVE  AnswersInv'
<1>1. ASSUME NEW q \in Req, CreateCall(q) \/ DeleteCall(q) \/ CheckCall(q) \/ LookupCall(q)
      PROVE  AnswersInv'
  <2>1. PICK l \in {"insert_row", "check_owner", "read", "list"}, t \in User, u \in Urc,
              ids \in SUBSET Urc : Arrive(q, l, t, u, ids)
    BY <1>1 DEF CreateCall, DeleteCall, CheckCall, LookupCall, TypeOK
  <2> SUFFICES ASSUME NEW p \in Req
               PROVE  SeenBy(p)'
    BY DEF AnswersInv
  <2>2. CASE p = q
    <3>1. /\ pc'[q] = l /\ sub'[q] = t /\ out'[q] = Nothing
          /\ held'[q] = [v \in Urc |-> RoleFor(t, v)]
      BY <2>1 DEF Arrive, Goto, TypeOK
    <3>2. \A v \in Urc : RoleFor(t, v) \in MaybeRole
      BY RoleForRole DEF TypeOK
    <3>3. \A v \in Urc : RoleFor(sub[q], v)' = RoleFor(t, v)
      <4>1. grants' = grants /\ members' = members
        BY <2>1 DEF Arrive, tables
      <4>2. Paths(sub[q])' = Paths(t)
        BY <3>1, <4>1 DEF Paths
      <4> QED BY <4>1, <4>2 DEF RoleFor, Strongest
    <3>4. \A v \in Urc : RoleFor(t, v) <= RoleFor(t, v) /\ NoRole <= RoleFor(t, v)
      BY <3>2 DEF MaybeRole, NoRole, Member, Owner
    <3> QED BY <2>2, <3>1, <3>3, <3>4 DEF SeenBy, Nothing
  <2>3. CASE p # q
    <3>1. SeenBy(p)
      BY DEF AnswersInv
    <3>2. \A v \in Urc : RoleFor(sub[p], v)' = RoleFor(sub[p], v)
      BY <2>1, <2>3 DEF Arrive, tables, RoleFor, Strongest, Paths, TypeOK
    <3> QED BY <2>1, <2>3, <3>1, <3>2 DEF Arrive, Goto, SeenBy, TypeOK
  <2> QED BY <2>2, <2>3
<1>2. ASSUME NEW q \in Req, RowExists(q) \/ RowCreated(q) \/ DeleteRow(q)
      PROVE  AnswersInv'
  <2>1. /\ UNCHANGED <<grants, members, sub, urc, todo, out, held>>
        /\ \A p \in Req \ {q} : pc'[p] = pc[p]
        /\ pc'[q] \in {"ok", "insert_owner"}
    BY <1>2 DEF RowExists, RowCreated, DeleteRow, InsertRow, DeleteResourceRow,
                tables, Continue, Goto, TypeOK
  <2> QED BY <2>1, MoveStep DEF Deleting, Reading
<1>3. ASSUME NEW q \in Req,
             CreateFails(q) \/ DeleteFails(q) \/ ReadDone(q) \/ ReadPanics(q) \/ PoisonedLock(q)
      PROVE  AnswersInv'
  <2>1. /\ UNCHANGED <<grants, members, sub, urc, todo, out, held>>
        /\ \A p \in Req \ {q} : pc'[p] = pc[p]
        /\ pc'[q] \in {"ok", "error", "aborted"}
    BY <1>3 DEF CreateFails, DeleteFails, Fail, ReadDone, ReadPanics, PoisonedLock,
                tables, Continue, Goto, TypeOK
  <2> QED BY <2>1, MoveStep DEF Deleting, Reading
<1>4. ASSUME NEW q \in Req, CheckOwner(q)
      PROVE  AnswersInv'
  <2>1. PICK r \in RolesRead(sub[q], urc[q]) :
            Continue(q, IF r = Owner THEN "delete_grants" ELSE "denied")
    BY <1>4 DEF CheckOwner
  <2>2. sub[q] \in User /\ urc[q] \in Urc /\ held[q][urc[q]] \in MaybeRole
    BY DEF TypeOK
  <2>3. r <= RoleFor(sub[q], urc[q]) /\ r \in MaybeRole /\ RoleFor(sub[q], urc[q]) \in MaybeRole
    BY <2>2, ReadBelow, RoleForRole DEF TypeOK
  <2>4. RoleFor(sub[q], urc[q]) <= held[q][urc[q]]
    BY <1>4, <2>2 DEF AnswersInv, SeenBy, CheckOwner, Deleting
  <2>5. r = Owner => held[q][urc[q]] = Owner
    BY <2>2, <2>3, <2>4 DEF MaybeRole, NoRole, Member, Owner
  <2>6. /\ UNCHANGED <<grants, members, sub, urc, todo, out, held>>
        /\ \A p \in Req \ {q} : pc'[p] = pc[p]
        /\ pc[q] = "check_owner"
        /\ pc'[q] = IF r = Owner THEN "delete_grants" ELSE "denied"
    BY <1>4, <2>1 DEF CheckOwner, tables, Continue, Goto, TypeOK
  <2> QED BY <2>5, <2>6, MoveStep DEF Deleting, Reading
<1>5. ASSUME NEW q \in Req, ListIds(q)
      PROVE  AnswersInv'
  <2>1. PICK ids \in IdsRead(sub[q]) : todo' = [todo EXCEPT ![q] = ids]
    BY <1>5 DEF ListIds
  <2>2. \A u \in todo'[q] : held[q][u] # NoRole
    <3> SUFFICES ASSUME NEW u \in todo'[q]
                 PROVE  held[q][u] # NoRole
      OBVIOUS
    <3>1. u \in Urc /\ RoleFor(sub[q], u) # NoRole
      BY <2>1 DEF IdsRead, Accessible, TypeOK
    <3>2. RoleFor(sub[q], u) <= held[q][u]
      BY <1>5, <3>1 DEF AnswersInv, SeenBy, ListIds, Reading
    <3>3. sub[q] \in User /\ held[q][u] \in MaybeRole
      BY <3>1 DEF TypeOK
    <3>4. RoleFor(sub[q], u) \in MaybeRole
      BY <3>1, <3>3, RoleForRole DEF TypeOK
    <3> QED BY <3>1, <3>2, <3>3, <3>4 DEF MaybeRole, NoRole, Member, Owner
  <2>3. /\ UNCHANGED <<grants, members, sub, urc, out, held>>
        /\ \A p \in Req \ {q} : pc'[p] = pc[p] /\ todo'[p] = todo[p]
        /\ pc[q] = "list" /\ pc'[q] = "fill"
    BY <1>5, <2>1 DEF ListIds, tables, Goto, TypeOK
  <2> QED BY <2>2, <2>3, MoveStep DEF Deleting, Reading
<1>6. ASSUME NEW q \in Req, ReadRole(q)
      PROVE  AnswersInv'
  <2>0. PICK u \in todo[q] :
          /\ \E r \in RolesRead(sub[q], u) : out' = [out EXCEPT ![q][u] = AnswerFor(q, r)]
          /\ todo' = [todo EXCEPT ![q] = @ \ {u}]
    BY <1>6 DEF ReadRole
  <2>1. PICK r \in RolesRead(sub[q], u) : out' = [out EXCEPT ![q][u] = AnswerFor(q, r)]
    BY <2>0
  <2>2. u \in Urc /\ sub[q] \in User /\ held[q][u] \in MaybeRole
    BY DEF TypeOK
  <2>3. r <= RoleFor(sub[q], u) /\ r \in MaybeRole /\ RoleFor(sub[q], u) \in MaybeRole
    BY <2>2, ReadBelow, RoleForRole DEF TypeOK
  <2>4. RoleFor(sub[q], u) <= held[q][u] /\ (pc[q] = "fill" => held[q][u] # NoRole)
    BY <1>6, <2>2 DEF AnswersInv, SeenBy, ReadRole, Reading
  <2>5. AnswerFor(q, r) <= held[q][u]
    BY <2>2, <2>3, <2>4 DEF AnswerFor, MaybeRole, NoRole, Member, Owner
  <2>6. UNCHANGED <<grants, members, pc, sub, urc, held>>
    BY <1>6 DEF ReadRole, tables
  <2> SUFFICES ASSUME NEW p \in Req
               PROVE  SeenBy(p)'
    BY DEF AnswersInv
  <2>7. SeenBy(p) /\ todo'[p] \subseteq todo[p]
    BY <2>0 DEF AnswersInv, TypeOK
  <2>8. \A v \in Urc : RoleFor(sub[p], v)' = RoleFor(sub[p], v)
    BY <2>6 DEF RoleFor, Strongest, Paths
  <2>9. \A v \in Urc : out'[p][v] <= held[p][v]
    BY <2>1, <2>2, <2>5, <2>7 DEF SeenBy, TypeOK
  <2> QED BY <2>6, <2>7, <2>8, <2>9 DEF SeenBy
<1>7. ASSUME NEW q \in Req, OwnerGrant(q) \/ DeleteGrants(q)
      PROVE  AnswersInv'
  <2>1. /\ Observe /\ UNCHANGED <<sub, urc, todo, out>>
        /\ \A p \in Req : \/ pc'[p] = pc[p]
                          \/ pc'[p] = "ok"
                          \/ pc[p] = "delete_grants" /\ pc'[p] = "delete_row"
    BY <1>7 DEF OwnerGrant, DeleteGrants, Continue, Goto, TypeOK
  <2> QED BY <2>1, WriteSees DEF AnswersInv
<1>8. CASE AdminGrant \/ AdminRevoke \/ AdminGroupAdd \/ AdminGroupDel
  <2>1. Observe /\ UNCHANGED requests
    BY <1>8 DEF AdminGrant, AdminRevoke, AdminGroupAdd, AdminGroupDel
  <2> QED BY <2>1, WriteSees DEF requests, AnswersInv
<1>9. CASE Restart
  <2> SUFFICES ASSUME NEW p \in Req
               PROVE  SeenBy(p)'
    BY DEF AnswersInv
  <2>1. UNCHANGED <<grants, members, sub, urc, out, held>> /\ pc'[p] \in Done
    BY <1>9 DEF Restart, tables, Done, Answered
  <2> QED BY <2>1, MoveSees DEF Done, Answered, Deleting, Reading
<1>10. CASE UNCHANGED vars
  <2> SUFFICES ASSUME NEW p \in Req
               PROVE  SeenBy(p)'
    BY DEF AnswersInv
  <2>1. SeenBy(p)
    BY DEF AnswersInv
  <2> QED BY <1>10, <2>1, MoveSees DEF vars, requests, tables, SeenBy
<1> QED
  BY <1>1, <1>2, <1>3, <1>4, <1>5, <1>6, <1>7, <1>8, <1>9, <1>10 DEF Next, RequestNext

-----------------------------------------------------------------------------
LEMMA InitInv ==
    ASSUME Init
    PROVE  OwnersInv /\ AnswersInv
<1>1. \A q \in Req, u \in Urc : out[q][u] <= held[q][u]
  BY DEF Init, Nothing, NoRole
<1>2. AnswersInv
  BY <1>1 DEF Init, AnswersInv, SeenBy, Deleting, Reading
<1>3. \A u \in Urc : Founders(u) = {}
  BY DEF Init, StoreInit, Founders
<1>4. OwnersInv
  BY <1>3, MutexAssumption
  DEF Init, OwnersInv, LockInv, HolderInv, SingleFounder, FounderHasRow, Holding
<1> QED BY <1>2, <1>4

(* The inductive invariant: the lock and its holder, and what each call has *)
(* seen, hold together of every reachable state.                           *)
THEOREM Invariant == Spec => [](TypeOK /\ OwnersInv /\ AnswersInv)
<1>1. Init => TypeOK /\ OwnersInv /\ AnswersInv
  BY InitInv DEF Init, StoreInit, TypeOK, StoreTypeOK, MaybeRole, Origin, Nothing, Done, Answered
<1>2. TypeOK /\ OwnersInv /\ AnswersInv /\ [Next]_vars => (TypeOK /\ OwnersInv /\ AnswersInv)'
  BY TypeStep, OwnersStep, AnswersStep
<1> QED BY <1>1, <1>2, PTL DEF Spec

(* No interleaving of creates, deletes, restarts and admin commands leaves *)
(* a resource with two founders.                                           *)
THEOREM OneFounder == Spec => []SingleFounder
<1>1. OwnersInv => SingleFounder
  BY DEF OwnersInv
<1> QED BY <1>1, Invariant, PTL

(* A grant that CreateResource wrote never outlives the resources row.     *)
THEOREM FounderNeedsRow == Spec => []FounderHasRow
<1>1. OwnersInv => FounderHasRow
  BY DEF OwnersInv
<1> QED BY <1>1, Invariant, PTL

(* Whoever gets as far as the DELETEs was an owner during the call.        *)
THEOREM DeletesAuthorised == Spec => []DeleteAuthorised
<1>1. AnswersInv => DeleteAuthorised
  BY DEF AnswersInv, SeenBy, DeleteAuthorised
<1> QED BY <1>1, Invariant, PTL

(* No answer exceeds what the caller held during the call.                 *)
THEOREM AnswersBounded == Spec => []AnswersHeld
<1>1. AnswersInv => AnswersHeld
  BY DEF AnswersInv, SeenBy, AnswersHeld
<1> QED BY <1>1, Invariant, PTL

-----------------------------------------------------------------------------
(* The refinement.  A step that changes no row and leaves the lock with    *)
(* nobody ends at most a claim.                                            *)
LEMMA ForfeitStep ==
    ASSUME TypeOK, UNCHANGED <<resources, origin>>, mutex' \notin Req
    PROVE  [Own!OwnershipNext]_(Own!ownershipVars)
<1>1. \A u \in Urc : Founder(u)' = Founder(u)
  BY DEF Founder, Founders
<1>2. \A u \in Urc : Claimant(u)' = Nobody
  BY DEF Claimant
<1>3. Own!Forfeit(Urc)
  BY <1>1, <1>2 DEF Own!Forfeit
<1>4. Urc \in SUBSET Urc
  OBVIOUS
<1> QED BY <1>3, <1>4 DEF Own!OwnershipNext

(* A step of another request is invisible.                                 *)
LEMMA InvisibleStep ==
    ASSUME TypeOK, OwnersInv, UNCHANGED <<resources, origin, mutex>>,
           \A p \in Req : pc[p] \in Holding =>
               pc'[p] = pc[p] /\ urc'[p] = urc[p] /\ sub'[p] = sub[p]
    PROVE  UNCHANGED Own!ownershipVars
<1>1. \A u \in Urc : Founder(u)' = Founder(u)
  BY DEF Founder, Founders
<1>2. mutex \in Req => pc[mutex] \in Holding
  BY DEF OwnersInv, LockInv
<1>3. \A u \in Urc : Claimant(u)' = Claimant(u)
  BY <1>2 DEF Claimant
<1> QED BY <1>1, <1>3 DEF Own!ownershipVars

(* An admin command that rewrites the row of a subject withdraws at most   *)
(* that subject's founding.                                                *)
LEMMA RewriteStep ==
    ASSUME TypeOK, OwnersInv, UNCHANGED <<resources, mutex, pc, urc, sub>>,
           NEW s \in Subject, NEW u \in Urc, NEW o \in {"none", "cli"},
           origin' = [origin EXCEPT ![u][s] = o]
    PROVE  [Own!OwnershipNext]_(Own!ownershipVars)
<1>1. /\ Founders(u)' = Founders(u) \ {s}
      /\ \A v \in Urc \ {u} : Founders(v)' = Founders(v)
  BY DEF Founders, TypeOK, StoreTypeOK
<1>2. \A v \in Urc : Claimant(v)' = Claimant(v)
  BY DEF Claimant
<1>3. \A v \in Urc \ {u} : Founder(v)' = Founder(v)
  BY <1>1 DEF Founder
<1>4. CASE s \in Founders(u)
  <2>1. Founders(u)' = {}
    BY <1>1, <1>4 DEF OwnersInv, SingleFounder
  <2>2. Founder(u)' = Nobody
    BY <2>1 DEF Founder, Sole
  <2>3. Own!Withdraw(u)
    BY <1>2, <1>3, <2>2 DEF Own!Withdraw
  <2> QED BY <2>3 DEF Own!OwnershipNext
<1>5. CASE s \notin Founders(u)
  <2>1. Founders(u)' = Founders(u)
    BY <1>1, <1>5
  <2>2. \A v \in Urc : Founder(v)' = Founder(v)
    BY <1>3, <2>1 DEF Founder
  <2> QED BY <1>2, <2>2 DEF Own!ownershipVars
<1> QED BY <1>4, <1>5

LEMMA OwnershipStep ==
    ASSUME TypeOK, OwnersInv, [Next]_vars
    PROVE  [Own!OwnershipNext]_(Own!ownershipVars)
<1> USE DEF TypeOK, StoreTypeOK
<1>1. ASSUME NEW q \in Req, CreateCall(q) \/ DeleteCall(q) \/ CheckCall(q) \/ LookupCall(q)
      PROVE  UNCHANGED Own!ownershipVars
  <2>1. PICK l \in {"insert_row", "check_owner", "read", "list"}, t \in User, u \in Urc,
              ids \in SUBSET Urc : Arrive(q, l, t, u, ids)
    BY <1>1 DEF CreateCall, DeleteCall, CheckCall, LookupCall
  <2>2. pc[q] \notin Holding
    BY <2>1 DEF Arrive, Holding, Done, Answered
  <2> QED BY <2>1, <2>2, InvisibleStep DEF Arrive, Goto, tables
<1>2. ASSUME NEW q \in Req, RowExists(q) \/ CheckOwner(q) \/ ReadDone(q) \/ PoisonedLock(q)
      PROVE  UNCHANGED Own!ownershipVars
  <2>1. /\ UNCHANGED <<resources, origin, mutex, urc, sub>>
        /\ \A p \in Req \ {q} : pc'[p] = pc[p]
        /\ pc[q] \notin Holding
    BY <1>2 DEF RowExists, CheckOwner, ReadDone, PoisonedLock, AboutToRead,
                Continue, Goto, tables, Holding
  <2> QED BY <2>1, InvisibleStep
<1>3. ASSUME NEW q \in Req, ReadRole(q) \/ ListIds(q)
      PROVE  UNCHANGED Own!ownershipVars
  <2>1. /\ UNCHANGED <<resources, origin, mutex, urc, sub>>
        /\ \A p \in Req \ {q} : pc'[p] = pc[p]
        /\ pc[q] \notin Holding
    BY <1>3 DEF ReadRole, ListIds, Goto, tables, Holding
  <2> QED BY <2>1, InvisibleStep
<1>4. ASSUME NEW q \in Req, RowCreated(q)
      PROVE  Own!Register(urc[q], sub[q])
  <2>1. \A u \in Urc : Claimant(u) = Nobody
    BY <1>4, MutexAssumption DEF RowCreated, Claimant
  <2>2. \A u \in Urc : Claimant(u)' = IF u = urc[q] THEN sub[q] ELSE Nobody
    BY <1>4 DEF RowCreated, Continue, Goto, Claimant
  <2>3. \A u \in Urc : Founder(u)' = Founder(u)
    BY <1>4 DEF RowCreated, InsertRow, Founder, Founders
  <2> QED BY <1>4, <2>1, <2>2, <2>3 DEF RowCreated, InsertRow, Own!Register
<1>5. ASSUME NEW q \in Req, OwnerGrant(q)
      PROVE  [Own!OwnershipNext]_(Own!ownershipVars)
  <2>1. /\ mutex = q /\ Founders(urc[q]) = {} /\ urc[q] \in resources
        /\ sub[q] \in Subject /\ urc[q] \in Urc
    BY <1>5 DEF OwnerGrant, OwnersInv, LockInv, HolderInv, Holding, Subject
  <2>2. CASE UNCHANGED origin
    BY <1>5, <2>2, ForfeitStep, MutexAssumption DEF OwnerGrant, InsertOwnerGrant
  <2>3. CASE origin' = [origin EXCEPT ![urc[q]][sub[q]] = "create"]
    <3>1. /\ Founders(urc[q])' = {sub[q]}
          /\ \A u \in Urc \ {urc[q]} : Founders(u)' = Founders(u)
      <4>1. \A s \in Subject : s # sub[q] => origin[urc[q]][s] # "create"
        BY <2>1 DEF Founders
      <4>2. urc'[q] = urc[q]
        BY <1>5 DEF OwnerGrant, Continue
      <4> QED BY <2>1, <2>3, <4>1, <4>2 DEF Founders
    <3>2. Founder(urc[q]) = Nobody /\ Founder(urc[q])' = sub[q]
      BY <2>1, <3>1 DEF Founder, Sole
    <3>3. \A u \in Urc \ {urc[q]} : Founder(u)' = Founder(u)
      BY <3>1 DEF Founder
    <3>4. \A u \in Urc : Claimant(u) = IF u = urc[q] THEN sub[q] ELSE Nobody
      BY <1>5, <2>1 DEF OwnerGrant, Claimant
    <3>5. \A u \in Urc : Claimant(u)' = Nobody
      BY <1>5, MutexAssumption DEF OwnerGrant, Claimant
    <3>6. sub[q] # Nobody
      BY <2>1, NobodyAssumption
    <3>7. urc'[q] = urc[q] /\ resources' = resources
      BY <1>5 DEF OwnerGrant, InsertOwnerGrant, Continue
    <3>8. Own!Claim(urc[q])
      BY <2>1, <3>2, <3>3, <3>4, <3>5, <3>6, <3>7 DEF Own!Claim
    <3> QED BY <2>1, <3>8 DEF Own!OwnershipNext
  <2> QED BY <1>5, <2>2, <2>3 DEF OwnerGrant, InsertOwnerGrant
<1>6. ASSUME NEW q \in Req, CreateFails(q) \/ DeleteFails(q) \/ ReadPanics(q)
      PROVE  [Own!OwnershipNext]_(Own!ownershipVars)
  BY <1>6, ForfeitStep, MutexAssumption
  DEF CreateFails, DeleteFails, Fail, ReadPanics, tables
<1>7. ASSUME NEW q \in Req, DeleteGrants(q)
      PROVE  Own!Withdraw(urc[q])
  <2>1. /\ Founders(urc[q])' = {}
        /\ \A u \in Urc \ {urc[q]} : Founders(u)' = Founders(u)
    BY <1>7 DEF DeleteGrants, DeleteGrantRows, Continue, Founders
  <2>2. /\ Founder(urc[q])' = Nobody
        /\ \A u \in Urc \ {urc[q]} : Founder(u)' = Founder(u)
    <3>1. Founder(urc[q])' = Nobody
      BY <2>1 DEF Founder, Sole
    <3>2. \A u \in Urc \ {urc[q]} : Founder(u)' = Founder(u)
      BY <2>1 DEF Founder
    <3> QED BY <3>1, <3>2
  <2>3. \A u \in Urc : Claimant(u) = Nobody /\ Claimant(u)' = Nobody
    BY <1>7, MutexAssumption DEF DeleteGrants, Continue, Goto, Claimant
  <2>4. urc'[q] = urc[q] /\ resources' = resources
    BY <1>7 DEF DeleteGrants, DeleteGrantRows, Continue
  <2> QED BY <2>2, <2>3, <2>4 DEF Own!Withdraw
<1>8. ASSUME NEW q \in Req, DeleteRow(q)
      PROVE  Own!Remove(urc[q])
  <2>1. mutex = q /\ Founders(urc[q]) = {}
    BY <1>8 DEF DeleteRow, OwnersInv, LockInv, HolderInv, Holding
  <2>2. \A u \in Urc : Founder(u)' = Founder(u)
    BY <1>8 DEF DeleteRow, DeleteResourceRow, Founder, Founders
  <2>3. \A u \in Urc : Claimant(u) = Nobody /\ Claimant(u)' = Nobody
    BY <1>8, <2>1, MutexAssumption DEF DeleteRow, Claimant
  <2>4. Founder(urc[q]) = Nobody
    BY <2>1 DEF Founder, Sole
  <2> QED BY <1>8, <2>2, <2>3, <2>4 DEF DeleteRow, DeleteResourceRow, Own!Remove
<1>9. CASE Restart
  BY <1>9, ForfeitStep, MutexAssumption DEF Restart, tables
<1>10. CASE AdminGrant
  <2>1. PICK s \in Subject, u \in Urc : origin' = [origin EXCEPT ![u][s] = "cli"]
    BY <1>10 DEF AdminGrant, Grant
  <2> QED BY <1>10, <2>1, RewriteStep DEF AdminGrant, Grant, requests
<1>11. CASE AdminRevoke
  <2>1. PICK s \in Subject, u \in Urc : origin' = [origin EXCEPT ![u][s] = "none"]
    BY <1>11 DEF AdminRevoke, Revoke
  <2> QED BY <1>11, <2>1, RewriteStep DEF AdminRevoke, Revoke, requests
<1>12. CASE AdminGroupAdd \/ AdminGroupDel
  BY <1>12, InvisibleStep
  DEF AdminGroupAdd, AdminGroupDel, AddGroupMember, RemoveGroupMember, requests
<1>13. CASE UNCHANGED vars
  BY <1>13, InvisibleStep DEF vars, tables, requests
<1>14. ASSUME NEW q \in Req, RequestNext(q)
       PROVE  [Own!OwnershipNext]_(Own!ownershipVars)
  <2>1. sub[q] \in User /\ urc[q] \in Urc
    OBVIOUS
  <2> QED BY <1>1, <1>2, <1>3, <1>4, <1>5, <1>6, <1>7, <1>8, <1>14, <2>1
      DEF RequestNext, Own!OwnershipNext
<1> QED BY <1>9, <1>10, <1>11, <1>12, <1>13, <1>14 DEF Next

(* The handlers implement Ownership: the founder of a resource is the one  *)
(* whose call created its row, and stays it until its grant is withdrawn.  *)
THEOREM OwnershipImplemented == Spec => OwnershipKept
<1>1. Init => Own!OwnershipInit
  <2> SUFFICES ASSUME Init
               PROVE  Own!OwnershipInit
    OBVIOUS
  <2>1. \A u \in Urc : Founders(u) = {}
    BY DEF Init, StoreInit, Founders
  <2>2. \A u \in Urc : Founder(u) = Nobody /\ Claimant(u) = Nobody
    BY <2>1, MutexAssumption DEF Init, Founder, Sole, Claimant
  <2> QED BY <2>2 DEF Init, StoreInit, Own!OwnershipInit
<1>2. TypeOK /\ OwnersInv /\ [Next]_vars => [Own!OwnershipNext]_(Own!ownershipVars)
  BY OwnershipStep
<1> QED BY <1>1, <1>2, Invariant, PTL DEF Spec, OwnershipKept, Own!OwnershipSpec

(* Who becomes a founder is the caller that stands between the two INSERTs *)
(* of record_owner for that resource, which nobody has founded; and a row  *)
(* with a founder is not deleted.                                          *)
FoundersByCreating ==
    \A u \in Urc :
        /\ Founder(u)' \notin {Founder(u), Nobody} =>
            /\ Founder(u) = Nobody
            /\ mutex \in Req /\ pc[mutex] = "insert_owner"
            /\ urc[mutex] = u /\ sub[mutex] = Founder(u)'
        /\ u \in resources /\ Founder(u) # Nobody => u \in resources'

(* No step of any handler, restart or admin command makes a founder in any *)
(* other way, or lets somebody take a founder's place (from Ownership,     *)
(* which the handlers implement).                                          *)
THEOREM FoundersCreate == Spec => [][FoundersByCreating]_vars
<1>1. [Own!FounderStays]_(Own!ownershipVars) => FoundersByCreating
  <2> SUFFICES ASSUME [Own!FounderStays]_(Own!ownershipVars), NEW u \in Urc
               PROVE  /\ Founder(u)' \notin {Founder(u), Nobody} =>
                            /\ Founder(u) = Nobody
                            /\ mutex \in Req /\ pc[mutex] = "insert_owner"
                            /\ urc[mutex] = u /\ sub[mutex] = Founder(u)'
                      /\ u \in resources /\ Founder(u) # Nobody => u \in resources'
    BY DEF FoundersByCreating
  <2>1. CASE UNCHANGED Own!ownershipVars
    BY <2>1 DEF Own!ownershipVars
  <2>2. CASE Own!FounderStays
    <3>1. /\ Founder(u)' \in {Founder(u), Nobody} \/ (Founder(u) = Nobody /\ Founder(u)' = Claimant(u))
          /\ u \in resources /\ Founder(u) # Nobody => u \in resources'
      BY <2>2 DEF Own!FounderStays
    <3> QED BY <3>1 DEF Claimant
  <2> QED BY <2>1, <2>2
<1> QED BY <1>1, OwnershipImplemented, Own!FoundersStay, PTL DEF OwnershipKept
==============================================================================
