------------------------------- MODULE AuthApi -------------------------------
(***************************************************************************)
(* The handlers of kaguya-auth that use the ReBAC store                    *)
(* (auth/src/main.rs): CreateResource, DeleteResource, CheckUserPermission,*)
(* LookupUserPermissions and the token exchange, on the threads of one     *)
(* server process, together with the admin CLI, which is another process   *)
(* on the same database.                                                   *)
(*                                                                         *)
(* Store's Mutex<Connection> belongs to the server process.  It is held    *)
(* for one store method, and never across two: a handler that calls two    *)
(* methods lets the others run in between.  The CLI does not take it.  A   *)
(* step below is one SQL statement, with the lock taken for the first      *)
(* statement of a method and dropped after its last one.                   *)
(***************************************************************************)
EXTENDS Store

CONSTANTS
    Req,        \* the requests the server handles at a time
    Calls,      \* the kinds of call the clients make
    CliOps      \* the commands the administrator runs

AllCalls == {"create", "delete", "check", "lookup"}
AllCliOps == {"grant", "revoke", "group-add", "group-del"}

CONSTANTS
    Free,       \* the mutex is not held
    Poisoned,   \* the mutex was held by a task that panicked
    Nobody      \* no subject (of Ownership)

ASSUME CallsAssumption == Calls \subseteq AllCalls /\ CliOps \subseteq AllCliOps
ASSUME MutexAssumption ==
    Free \notin Req /\ Poisoned \notin Req /\ Free # Poisoned
ASSUME NobodyAssumption == Nobody \notin Subject
ASSUME NonEmptyAssumption == User # {} /\ Urc # {}

VARIABLES
    mutex,      \* Free, Poisoned, or the request that holds the connection
    pc,         \* where each request is
    sub,        \* the caller's verified subject
    urc,        \* the resource of a create or a delete
    todo,       \* the ids a read has still to look up
    out,        \* the roles a read has answered so far
    held        \* history: the strongest role the caller held, at any time
                \* since the call began

requests == <<pc, sub, urc, todo, out>>
vars == <<tables, mutex, requests, held>>

(* A request is waiting to run the statement it is named after, or done.   *)
(* "read" is the loop of check_user_permission and of the exchange, "list" *)
(* and "fill" the two calls of lookup_user_permissions.                    *)
Answered == {"ok", "denied", "error", "aborted"}
Creating == {"insert_row", "insert_owner"}
Deleting == {"check_owner", "delete_grants", "delete_row"}
Reading  == {"read", "list", "fill"}
Done == {"idle"} \cup Answered

TypeOK ==
    /\ StoreTypeOK
    /\ mutex \in Req \cup {Free, Poisoned}
    /\ pc \in [Req -> Done \cup Creating \cup Deleting \cup Reading]
    /\ sub \in [Req -> User]
    /\ urc \in [Req -> Urc]
    /\ todo \in [Req -> SUBSET Urc]
    /\ out \in [Req -> [Urc -> MaybeRole]]
    /\ held \in [Req -> [Urc -> MaybeRole]]

Nothing == [u \in Urc |-> NoRole]

(* sub and urc mean nothing before a slot's first request.                 *)
Init ==
    /\ StoreInit
    /\ mutex = Free
    /\ pc = [q \in Req |-> "idle"]
    /\ sub \in [Req -> User]
    /\ urc \in [Req -> Urc]
    /\ todo = [q \in Req |-> {}]
    /\ out = [q \in Req |-> Nothing]
    /\ held = [q \in Req |-> Nothing]

-----------------------------------------------------------------------------
Goto(q, l) == pc' = [pc EXCEPT ![q] = l]

(* The history after a step that wrote the tables: every call that is not  *)
(* over sees the roles that its caller has now.                            *)
Observe ==
    held' = [q \in Req |-> [u \in Urc |->
                IF pc[q] \in Deleting \cup Reading
                THEN Max({held[q][u], RoleFor(sub[q], u)'})
                ELSE held[q][u]]]

(* A call arrives, its token verified.                                     *)
Arrive(q, l, s, u, ids) ==
    /\ pc[q] \in Done
    /\ Goto(q, l)
    /\ sub' = [sub EXCEPT ![q] = s]
    /\ urc' = [urc EXCEPT ![q] = u]
    /\ todo' = [todo EXCEPT ![q] = ids]
    /\ out' = [out EXCEPT ![q] = Nothing]
    /\ held' = [held EXCEPT ![q] = [v \in Urc |-> RoleFor(s, v)]]
    /\ UNCHANGED <<tables, mutex>>

CreateCall(q) ==
    /\ "create" \in Calls
    /\ \E s \in User, u \in Urc : Arrive(q, "insert_row", s, u, {})

DeleteCall(q) ==
    /\ "delete" \in Calls
    /\ \E s \in User, u \in Urc : Arrive(q, "check_owner", s, u, {})

CheckCall(q) ==
    /\ "check" \in Calls
    /\ \E s \in User, ids \in SUBSET Urc : Arrive(q, "read", s, urc[q], ids)

LookupCall(q) ==
    /\ "lookup" \in Calls
    /\ \E s \in User : Arrive(q, "list", s, urc[q], {})

(* What the steps inside a handler share: only pc moves.                   *)
Continue(q, l) ==
    /\ Goto(q, l)
    /\ UNCHANGED <<sub, urc, todo, out>>

-----------------------------------------------------------------------------
(* create_resource: record_owner's two statements under one lock.          *)

(* A statement that fails: `?` returns and drops the guard.                *)
Fail(q) ==
    /\ Continue(q, "error")
    /\ mutex' = Free
    /\ UNCHANGED <<tables, held>>

(* Mutant of RowExists: `created` is not looked at.                        *)
RowExistsUnchecked(q) ==
    /\ pc[q] = "insert_row"
    /\ mutex = Free
    /\ urc[q] \in resources
    /\ mutex' = q
    /\ Continue(q, "insert_owner")
    /\ UNCHANGED <<tables, held>>

RowExists(q) ==
    /\ pc[q] = "insert_row"
    /\ mutex = Free
    /\ urc[q] \in resources
    /\ Continue(q, "ok")
    /\ UNCHANGED <<tables, mutex, held>>

(* Mutant of RowCreated: each statement takes a lock of its own.           *)
RowCreatedUnlocked(q) ==
    /\ pc[q] = "insert_row"
    /\ mutex = Free
    /\ urc[q] \notin resources
    /\ InsertRow(urc[q])
    /\ Continue(q, "insert_owner")
    /\ UNCHANGED <<mutex, held>>

RowCreated(q) ==
    /\ pc[q] = "insert_row"
    /\ mutex = Free
    /\ urc[q] \notin resources
    /\ InsertRow(urc[q])
    /\ mutex' = q
    /\ Continue(q, "insert_owner")
    /\ UNCHANGED held

OwnerGrant(q) ==
    /\ pc[q] = "insert_owner"
    /\ InsertOwnerGrant(sub[q], urc[q])
    /\ mutex' = Free
    /\ Continue(q, "ok")
    /\ Observe

CreateFails(q) ==
    /\ \/ pc[q] = "insert_row" /\ mutex = Free
       \/ pc[q] = "insert_owner"
    /\ Fail(q)

-----------------------------------------------------------------------------
(* delete_resource: the role is read, the lock dropped, and the two DELETEs*)
(* run under the lock taken again.                                         *)

(* Mutant of CheckOwner: any role will do.                                 *)
CheckMember(q) ==
    /\ pc[q] = "check_owner"
    /\ mutex = Free
    /\ \E r \in RolesRead(sub[q], urc[q]) :
        Continue(q, IF r # NoRole THEN "delete_grants" ELSE "denied")
    /\ UNCHANGED <<tables, mutex, held>>

CheckOwner(q) ==
    /\ pc[q] = "check_owner"
    /\ mutex = Free
    /\ \E r \in RolesRead(sub[q], urc[q]) :
        Continue(q, IF r = Owner THEN "delete_grants" ELSE "denied")
    /\ UNCHANGED <<tables, mutex, held>>

(* Mutant of DeleteGrants: the resources row goes first.                   *)
DeleteRowFirst(q) ==
    /\ pc[q] = "delete_grants"
    /\ mutex = Free
    /\ DeleteResourceRow(urc[q])
    /\ mutex' = q
    /\ Continue(q, "delete_row")
    /\ Observe

DeleteGrants(q) ==
    /\ pc[q] = "delete_grants"
    /\ mutex = Free
    /\ DeleteGrantRows(urc[q])
    /\ mutex' = q
    /\ Continue(q, "delete_row")
    /\ Observe

DeleteRow(q) ==
    /\ pc[q] = "delete_row"
    /\ DeleteResourceRow(urc[q])
    /\ mutex' = Free
    /\ Continue(q, "ok")
    /\ UNCHANGED held

DeleteFails(q) ==
    /\ \/ pc[q] = "delete_grants" /\ mutex = Free
       \/ pc[q] = "delete_row"
    /\ Fail(q)

-----------------------------------------------------------------------------
(* The reads: one role_for per id, each under a lock of its own.           *)

(* Mutant of AnswerFor: None is taken for an owner.                        *)
AnswerOwner(q, r) == IF pc[q] = "fill" /\ r = NoRole THEN Owner ELSE r

(* role_for's answer for an id of the loop; lookup takes None for Member.  *)
AnswerFor(q, r) == IF pc[q] = "fill" /\ r = NoRole THEN Member ELSE r

ReadRole(q) ==
    /\ pc[q] \in {"read", "fill"}
    /\ mutex = Free
    /\ \E u \in todo[q] :
        /\ \E r \in RolesRead(sub[q], u) :
            out' = [out EXCEPT ![q][u] = AnswerFor(q, r)]
        /\ todo' = [todo EXCEPT ![q] = @ \ {u}]
    /\ UNCHANGED <<tables, mutex, pc, sub, urc, held>>

ListIds(q) ==
    /\ pc[q] = "list"
    /\ mutex = Free
    /\ Goto(q, "fill")
    /\ \E ids \in IdsRead(sub[q]) : todo' = [todo EXCEPT ![q] = ids]
    /\ UNCHANGED <<tables, mutex, sub, urc, out, held>>

ReadDone(q) ==
    /\ pc[q] \in {"read", "fill"}
    /\ todo[q] = {}
    /\ Continue(q, "ok")
    /\ UNCHANGED <<tables, mutex, held>>

-----------------------------------------------------------------------------
(* The requests that are about to call role_for or accessible.             *)
AboutToRead(q) ==
    \/ pc[q] \in {"check_owner", "list"}
    \/ pc[q] \in {"read", "fill"} /\ todo[q] # {}

(* A failing prepare() or query_map() panics in unwrap() with the guard    *)
(* alive: the task dies and the mutex is poisoned.                         *)
ReadPanics(q) ==
    /\ AboutToRead(q)
    /\ mutex = Free
    /\ mutex' = Poisoned
    /\ Continue(q, "aborted")
    /\ UNCHANGED <<tables, held>>

(* From then on every lock().unwrap() panics.                              *)
PoisonedLock(q) ==
    /\ mutex = Poisoned
    /\ \/ AboutToRead(q)
       \/ pc[q] \in {"insert_row", "delete_grants"}
    /\ Continue(q, "aborted")
    /\ UNCHANGED <<tables, mutex, held>>

(* The process stops and starts again: the requests are gone, each         *)
(* statement that ran has been committed.                                  *)
Restart ==
    /\ pc' = [q \in Req |-> IF pc[q] \in Done THEN pc[q] ELSE "aborted"]
    /\ mutex' = Free
    /\ UNCHANGED <<tables, sub, urc, todo, out, held>>

-----------------------------------------------------------------------------
(* run_admin: one statement each, from another process.                    *)
AdminGrant ==
    /\ "grant" \in CliOps
    /\ \E s \in Subject, u \in Urc, r \in {Member, Owner} : Grant(s, u, r)
    /\ UNCHANGED <<mutex, requests>>
    /\ Observe

AdminRevoke ==
    /\ "revoke" \in CliOps
    /\ \E s \in Subject, u \in Urc : Revoke(s, u)
    /\ UNCHANGED <<mutex, requests>>
    /\ Observe

AdminGroupAdd ==
    /\ "group-add" \in CliOps
    /\ \E g \in Group, s \in User : AddGroupMember(g, s)
    /\ UNCHANGED <<mutex, requests>>
    /\ Observe

AdminGroupDel ==
    /\ "group-del" \in CliOps
    /\ \E g \in Group, s \in User : RemoveGroupMember(g, s)
    /\ UNCHANGED <<mutex, requests>>
    /\ Observe

-----------------------------------------------------------------------------
RequestNext(q) ==
    \/ CreateCall(q) \/ DeleteCall(q) \/ CheckCall(q) \/ LookupCall(q)
    \/ RowExists(q) \/ RowCreated(q) \/ OwnerGrant(q) \/ CreateFails(q)
    \/ CheckOwner(q) \/ DeleteGrants(q) \/ DeleteRow(q) \/ DeleteFails(q)
    \/ ReadRole(q) \/ ListIds(q) \/ ReadDone(q)
    \/ ReadPanics(q) \/ PoisonedLock(q)

Next ==
    \/ \E q \in Req : RequestNext(q)
    \/ Restart
    \/ AdminGrant \/ AdminRevoke \/ AdminGroupAdd \/ AdminGroupDel

Spec == Init /\ [][Next]_vars

-----------------------------------------------------------------------------
(* Properties.                                                             *)

Founders(u) == {s \in Subject : origin[u][s] = "create"}

(* A resource never has two subjects whose owner grant comes from          *)
(* CreateResource, whatever creates and deletes overlap: the second INSERT *)
(* of record_owner runs only for the call whose first one made the row.    *)
SingleFounder ==
    \A u \in Urc : \A s, t \in Founders(u) : s = t

(* A grant written by CreateResource never outlives its resources row,     *)
(* even if the server stops between the two DELETEs of delete_resource: a  *)
(* later CreateResource of the id cannot find an old founder in place.     *)
FounderHasRow ==
    \A u \in Urc : Founders(u) # {} => u \in resources

(* A caller whose DeleteResource reaches the DELETEs has been an owner of  *)
(* the resource at some moment of the call.                                *)
DeleteAuthorised ==
    \A q \in Req : pc[q] \in {"delete_grants", "delete_row"} => held[q][urc[q]] = Owner

(* No answer of CheckUserPermission, LookupUserPermissions or the exchange *)
(* gives a caller more than the strongest role it held during the call,    *)
(* although each id is read under a lock of its own and the lookup takes a *)
(* grant that disappeared after it was listed for a member's.              *)
AnswersHeld ==
    \A q \in Req, u \in Urc : out[q][u] <= held[q][u]

(* What create and delete promise together is the specification Ownership. *)
(* The claim to found a resource is the call between the two INSERTs.      *)
Claimant(u) ==
    IF mutex \in Req /\ pc[mutex] = "insert_owner" /\ urc[mutex] = u
    THEN sub[mutex]
    ELSE Nobody

Sole(S) == IF S = {} THEN Nobody ELSE CHOOSE s \in S : TRUE

Founder(u) == Sole(Founders(u))

Own == INSTANCE Ownership WITH
    registered <- resources,
    claimant <- [u \in Urc |-> Claimant(u)],
    founder <- [u \in Urc |-> Founder(u)]

(* The handlers implement Ownership: only the caller whose INSERT made the *)
(* row becomes the founder, nobody replaces it while the row stays, and    *)
(* the row goes after the founder's grant ("re-creating an existing        *)
(* resource (by anyone) neither changes nor adds an owner").               *)
OwnershipKept == Own!OwnershipSpec

-----------------------------------------------------------------------------
(* What the comments and the README say of the handlers.                   *)

(* "CreateResource records the creator as owner": a CreateResource that    *)
(* made the resource and answers Ok leaves its caller an owner.            *)
CreateMakesOwner ==
    [][\A q \in Req :
        pc[q] = "insert_owner" /\ pc'[q] = "ok" => RoleFor(sub[q], urc[q])' = Owner]_vars

(* A CreateResource that answers Ok leaves a resource that somebody owns,  *)
(* in an installation where nobody revokes or regrants.                    *)
CreatedIsOwned ==
    [][\A q \in Req :
        pc[q] \in Creating /\ pc'[q] = "ok" =>
            \E s \in User : RoleFor(s, urc[q])' = Owner]_vars

(* "Only an owner may delete the resource": the caller owns it when its    *)
(* grants are deleted.                                                     *)
DeleteOnlyByOwner ==
    [][\A q \in Req :
        pc[q] = "delete_grants" /\ pc'[q] = "delete_row" => RoleFor(sub[q], urc[q]) = Owner]_vars
==============================================================================
