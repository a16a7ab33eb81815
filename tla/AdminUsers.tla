------------------------------ MODULE AdminUsers ------------------------------
(***************************************************************************)
(* Account administration: requests that create, edit and delete accounts, *)
(* each in a thread and a transaction of its own (READ COMMITTED), and the *)
(* command line tools that create administrators.                          *)
(*                                                                         *)
(* A request loads its actor with the permission check, its target after   *)
(* that (unless the target is the actor, whose copy the ORM session already *)
(* has), counts administrators if it takes one away, and writes with its   *)
(* commit.  An edit writes the columns that differ from the loaded copy.   *)
(* What the requests do to sessions is in AppHandoff.                      *)
(***************************************************************************)
EXTENDS Integers, FiniteSets

CONSTANTS
    User,         \* the identities accounts may take
    Email,        \* the addresses accounts may have
    Worker,       \* threads of the server, and tools beside it
    None,         \* no account, no address
    UsersManage   \* whether the role USER has been granted users.*

ASSUME GrantIsBoolean == UsersManage \in BOOLEAN
ASSUME NoneIsNobody == None \notin User \cup Email
ASSUME UsersAreFinite == IsFiniteSet(User)

VARIABLES
    pool,     \* the threads and tools that run, each with a connection
    account,  \* table users
    req       \* the request each worker is serving

vars == <<pool, account, req>>

Account == [status : {"absent", "stored", "deleted"}, admin : BOOLEAN,
            enabled : BOOLEAN, email : Email \cup {None}]
NoAccount == [status |-> "absent", admin |-> FALSE, enabled |-> FALSE, email |-> None]
Gone == [NoAccount EXCEPT !.status = "deleted"]
Submitted == [status : {"stored"}, admin : BOOLEAN, enabled : BOOLEAN, email : Email]

Request == [op : {"idle", "create", "update", "delete"},
            step : {"load", "count", "commit"},
            actor : User \cup {None}, self : Account,
            target : User \cup {None}, copy : Account,
            want : Submitted \cup {NoAccount}]
NoRequest == [op |-> "idle", step |-> "load", actor |-> None, self |-> NoAccount,
              target |-> None, copy |-> NoAccount, want |-> NoAccount]

Stored(u) == account[u].status = "stored"
EnabledAdmins == {u \in User : Stored(u) /\ account[u].admin /\ account[u].enabled}
AllAdmins == {u \in User : Stored(u) /\ account[u].admin}           \* mutant

MayManage(u) ==
    /\ Stored(u) /\ account[u].enabled
    /\ account[u].admin \/ UsersManage

(* No other account has the address. *)
EmailIsFree(email, u) ==
    \A other \in User \ {u} : Stored(other) => account[other].email # email

(* The unique constraint of the column, which the check before cannot      *)
(* replace, and its absence.                                               *)
NoEmailConstraint(email, u) == TRUE                                 \* mutant
EmailConstraint(email, u) == EmailIsFree(email, u)

(* The actor of a request that was deleted meanwhile cannot be audited: the *)
(* foreign key fails and the transaction with it.                          *)
CanBeAudited(actor) == actor # None => Stored(actor)

-----------------------------------------------------------------------------
(* The permission check loads the actor. *)
Authorize(w, v, op) ==
    /\ req[w].op = "idle"
    /\ MayManage(v)
    /\ req' = [req EXCEPT ![w] = [NoRequest EXCEPT !.op = op, !.actor = v,
                                                   !.self = account[v]]]
    /\ UNCHANGED account

(* The target, and the refusal to disable, demote or delete oneself. *)
Load(w, u, want) ==
    LET r == req[w] IN
    /\ r.op \in {"update", "delete"} /\ r.step = "load"
    /\ u = r.actor \/ Stored(u)
    /\ \/ r.op = "update" /\ EmailIsFree(want.email, u)
                          /\ u = r.actor => want.admin /\ want.enabled
       \/ r.op = "delete" /\ u # r.actor /\ want = NoAccount
    /\ req' = [req EXCEPT ![w] =
            [@ EXCEPT !.step = "count", !.target = u, !.want = want,
                      !.copy = IF u = r.actor THEN r.self ELSE account[u]]]
    /\ UNCHANGED account

RemovesAdmin(r) ==
    /\ r.copy.admin
    /\ r.op = "delete" \/ ~r.want.admin \/ ~r.want.enabled

EnsureAnyAdminRemains(w) ==                                         \* mutant
    LET r == req[w] IN
    /\ r.step = "count"
    /\ RemovesAdmin(r) => Cardinality(AllAdmins) > 1
    /\ req' = [req EXCEPT ![w].step = "commit"]
    /\ UNCHANGED account

EnsureAdminRemains(w) ==
    LET r == req[w] IN
    /\ r.step = "count"
    /\ RemovesAdmin(r) => Cardinality(EnabledAdmins) > 1
    /\ req' = [req EXCEPT ![w].step = "commit"]
    /\ UNCHANGED account

Merged(current, copy, want) ==
    [current EXCEPT
        !.admin = IF want.admin # copy.admin THEN want.admin ELSE @,
        !.enabled = IF want.enabled # copy.enabled THEN want.enabled ELSE @,
        !.email = IF want.email # copy.email THEN want.email ELSE @]

UpdateOrInsert(w) ==                                                \* mutant
    LET r == req[w] IN
    /\ r.op = "update" /\ r.step = "commit"
    /\ CanBeAudited(r.actor)
    /\ EmailConstraint(r.want.email, r.target)
    /\ account' = [account EXCEPT ![r.target] = r.want]
    /\ req' = [req EXCEPT ![w] = NoRequest]

(* The UPDATE of a row that has gone fails. *)
UpdateUser(w) ==
    LET r == req[w]
        row == Merged(account[r.target], r.copy, r.want) IN
    /\ r.op = "update" /\ r.step = "commit"
    /\ CanBeAudited(r.actor)
    /\ Stored(r.target)
    /\ EmailConstraint(row.email, r.target)
    /\ account' = [account EXCEPT ![r.target] = row]
    /\ req' = [req EXCEPT ![w] = NoRequest]

SoftDelete(w) ==                                                    \* mutant
    LET r == req[w] IN
    /\ r.op = "delete" /\ r.step = "commit"
    /\ CanBeAudited(r.actor)
    /\ account' = [account EXCEPT ![r.target].status = "deleted"]
    /\ req' = [req EXCEPT ![w] = NoRequest]

DeleteUser(w) ==
    LET r == req[w] IN
    /\ r.op = "delete" /\ r.step = "commit"
    /\ CanBeAudited(r.actor)
    /\ account' = [account EXCEPT ![r.target] = Gone]
    /\ req' = [req EXCEPT ![w] = NoRequest]

(* Creation by an administrator, and by the tools, which ask nobody and    *)
(* create enabled administrators: a check, then the insertion.             *)
CheckNew(w, want) ==
    /\ req[w].op = "create" /\ req[w].step = "load"
    /\ \A u \in User : Stored(u) => account[u].email # want.email
    /\ req' = [req EXCEPT ![w] = [@ EXCEPT !.step = "commit", !.want = want]]
    /\ UNCHANGED account

CreateAdmin(w, email) ==
    /\ req[w].op = "idle"
    /\ \A u \in User : Stored(u) => account[u].email # email
    /\ req' = [req EXCEPT ![w] =
            [NoRequest EXCEPT !.op = "create", !.step = "commit",
                              !.want = [status |-> "stored", admin |-> TRUE,
                                        enabled |-> TRUE, email |-> email]]]
    /\ UNCHANGED account

CreateUser(w, u) ==
    LET r == req[w] IN
    /\ r.op = "create" /\ r.step = "commit"
    /\ account[u].status = "absent"
    /\ CanBeAudited(r.actor)
    /\ EmailConstraint(r.want.email, u)
    /\ account' = [account EXCEPT ![u] = r.want]
    /\ req' = [req EXCEPT ![w] = NoRequest]

(* A refusal by one of the checks, a failed statement or a lost connection. *)
Rollback(w) ==
    /\ req[w].op # "idle"
    /\ req' = [req EXCEPT ![w] = NoRequest]
    /\ UNCHANGED account

-----------------------------------------------------------------------------
Init ==
    /\ pool \in SUBSET Worker
    /\ account = [u \in User |-> NoAccount]
    /\ req = [w \in Worker |-> NoRequest]

Serve(w) ==
    \/ \E v \in User, op \in {"create", "update", "delete"} : Authorize(w, v, op)
    \/ \E u \in User, want \in Submitted \cup {NoAccount} : Load(w, u, want)
    \/ EnsureAdminRemains(w) \/ UpdateUser(w) \/ DeleteUser(w)
    \/ \E want \in Submitted : CheckNew(w, want)
    \/ \E email \in Email : CreateAdmin(w, email)
    \/ \E u \in User : CreateUser(w, u)
    \/ Rollback(w)

Next == (\E w \in pool : Serve(w)) /\ UNCHANGED pool

Spec == Init /\ [][Next]_vars

-----------------------------------------------------------------------------
(* What the table and the requests are; nothing is kept of a deleted row. *)
RowsOK ==
    /\ account \in [User -> Account]
    /\ \A u \in User : account[u].status = "deleted" => account[u] = Gone
    /\ req \in [Worker -> Request]

(* Who runs is one of the workers; the table and the requests are typed,   *)
(* and nothing is kept of a deleted row.                                   *)
TypeOK == pool \subseteq Worker /\ RowsOK

(* Once there is an enabled administrator there always is one: no edit and *)
(* no deletion, nor any sequence of them, takes the last one away.         *)
AdminRemains == [][EnabledAdmins # {} => EnabledAdmins' # {}]_vars

(* Requests do not overlap. *)
Alone == \A v, w \in pool : v = w

(* When requests do not overlap, no sequence of them takes the last        *)
(* enabled administrator away (ensure_admin_remains, update_user,          *)
(* delete_user).                                                           *)
AdminRemainsAlone ==
    [][Alone /\ EnabledAdmins # {} => EnabledAdmins' # {}]_vars

(* No two accounts have one address, although creations and edits that     *)
(* overlap each find it free.                                              *)
EmailsAreUnique ==
    \A u, v \in User : Stored(u) /\ Stored(v) /\ account[u].email = account[v].email => u = v

(* An account that has been deleted does not come back by an edit that had *)
(* loaded it before.                                                       *)
DeletionIsFinal ==
    [][\A u \in User : account[u].status = "deleted" => account'[u].status = "deleted"]_vars

=============================================================================
