--------------------------- MODULE AdminUsersProofs ---------------------------
(***************************************************************************)
(* Account administration for any number of accounts, addresses and        *)
(* workers: types, unique addresses, final deletions; and, when requests   *)
(* do not overlap, the last administrator.                                 *)
(***************************************************************************)
EXTENDS AdminUsers, FiniteSetTheorems, TLAPS

(* A request that has loaded its target names it. *)
TargetsAreNamed ==
    \A w \in Worker : req[w].op \in {"update", "delete"} /\ req[w].step # "load"
                          => req[w].target \in User

AdminInv == RowsOK /\ TargetsAreNamed

LEMMA AdminInvInit == Init => AdminInv
  BY DEF Init, AdminInv, RowsOK, TargetsAreNamed, Request, NoRequest, Account, NoAccount

LEMMA MergedType ==
    ASSUME NEW c \in Account, NEW l \in Account, NEW n \in Account
    PROVE  Merged(c, l, n) \in Account /\ Merged(c, l, n).status = c.status
  BY DEF Merged, Account

LEMMA SubmittedType == \A want \in Submitted \cup {NoAccount} : want \in Account
<1>1. \A want \in Submitted : want \in Account
  BY DEF Submitted, Account
<1>2. NoAccount \in Account
  BY DEF NoAccount, Account
<1>3. QED
  BY <1>1, <1>2

LEMMA IdleType == NoRequest \in Request
  BY DEF NoRequest, NoAccount, Request, Account

(* Only what runs takes steps. *)
PoolOK == pool \subseteq Worker

LEMMA NextCases ==
    ASSUME PoolOK, [Next]_vars
    PROVE  /\ pool' = pool /\ PoolOK'
           /\ (\E w \in pool : w \in Worker /\ Serve(w)) \/ UNCHANGED vars
  BY DEF PoolOK, Next, vars

(* Types and named targets are preserved by every step. *)
LEMMA AdminInvStep == PoolOK /\ AdminInv /\ [Next]_vars => AdminInv'
<1> SUFFICES ASSUME PoolOK, AdminInv, [Next]_vars
             PROVE  AdminInv'
  OBVIOUS
<1> USE DEF AdminInv
<1>1. ASSUME NEW w \in Worker, NEW v \in User,
             NEW op \in {"create", "update", "delete"}, Authorize(w, v, op)
      PROVE  AdminInv'
  BY <1>1, IdleType DEF Authorize, RowsOK, TargetsAreNamed, Request, NoRequest
<1>2. ASSUME NEW w \in Worker, NEW u \in User, NEW want \in Submitted \cup {NoAccount},
             Load(w, u, want)
      PROVE  AdminInv'
  <2>1. want \in Account /\ account[u] \in Account /\ req[w].self \in Account
    BY SubmittedType DEF RowsOK, Request
  <2>2. PICK copy \in Account :
          req' = [req EXCEPT ![w] = [@ EXCEPT !.step = "count", !.target = u,
                                              !.want = want, !.copy = copy]]
    BY <1>2, <2>1 DEF Load
  <2>3. account' = account
    BY <1>2 DEF Load
  <2>4. req' \in [Worker -> Request]
    BY ZenonT(60), <2>1, <2>2 DEF RowsOK, Request
  <2>5. QED
    BY <2>2, <2>3, <2>4 DEF RowsOK, TargetsAreNamed
<1>3. ASSUME NEW w \in Worker, EnsureAdminRemains(w)
      PROVE  AdminInv'
  BY <1>3 DEF EnsureAdminRemains, RowsOK, TargetsAreNamed, Request
<1>4. ASSUME NEW w \in Worker, UpdateUser(w)
      PROVE  AdminInv'
  <2>1. req[w].target \in User
    BY <1>4 DEF UpdateUser, TargetsAreNamed
  <2> DEFINE row == Merged(account[req[w].target], req[w].copy, req[w].want)
  <2>2. row \in Account /\ row.status = "stored"
    BY <1>4, <2>1, MergedType, SubmittedType DEF UpdateUser, Stored, RowsOK, Request
  <2>3. account' = [account EXCEPT ![req[w].target] = row] /\ req' = [req EXCEPT ![w] = NoRequest]
    BY <1>4 DEF UpdateUser
  <2> HIDE DEF row
  <2>4. QED
    BY <2>1, <2>2, <2>3, IdleType DEF RowsOK, TargetsAreNamed, NoRequest
<1>5. ASSUME NEW w \in Worker, DeleteUser(w)
      PROVE  AdminInv'
  <2>1. Gone \in Account
    BY DEF Gone, NoAccount, Account
  <2>2. QED
    BY <1>5, <2>1, IdleType DEF DeleteUser, RowsOK, TargetsAreNamed, NoRequest
<1>6. ASSUME NEW w \in Worker, NEW want \in Submitted, CheckNew(w, want)
      PROVE  AdminInv'
  <2>1. want \in Account
    BY SubmittedType
  <2>2. QED
    BY ZenonT(60), <1>6, <2>1 DEF CheckNew, RowsOK, TargetsAreNamed, Request
<1>7. ASSUME NEW w \in Worker, NEW email \in Email, CreateAdmin(w, email)
      PROVE  AdminInv'
  <2>1. [status |-> "stored", admin |-> TRUE, enabled |-> TRUE, email |-> email] \in Submitted
    BY DEF Submitted
  <2>2. QED
    BY <1>7, <2>1, IdleType DEF CreateAdmin, RowsOK, TargetsAreNamed, Request, NoRequest
<1>8. ASSUME NEW w \in Worker, NEW u \in User, CreateUser(w, u)
      PROVE  AdminInv'
  <2>1. req[w].want \in Account /\ req[w].want.status # "deleted"
    BY SubmittedType DEF RowsOK, Request, Submitted, NoAccount
  <2>2. QED
    BY <1>8, <2>1, IdleType DEF CreateUser, RowsOK, TargetsAreNamed, NoRequest
<1>9. ASSUME NEW w \in Worker, Rollback(w)
      PROVE  AdminInv'
  BY <1>9, IdleType DEF Rollback, RowsOK, TargetsAreNamed, NoRequest
<1>10. CASE UNCHANGED vars
  BY <1>10 DEF vars, RowsOK, TargetsAreNamed
<1>11. QED
  BY <1>1, <1>2, <1>3, <1>4, <1>5, <1>6, <1>7, <1>8, <1>9, <1>10, NextCases
     DEF Serve

LEMMA AdminInvariant == Spec => [](PoolOK /\ AdminInv)
<1>1. Init => PoolOK /\ AdminInv
  BY AdminInvInit DEF Init, PoolOK
<1>2. PoolOK /\ AdminInv /\ [Next]_vars => (PoolOK /\ AdminInv)'
  BY AdminInvStep, NextCases
<1>3. QED
  BY <1>1, <1>2, PTL DEF Spec

(* The table holds accounts and the requests what their steps need, in      *)
(* every behaviour of the administration endpoints.                        *)
THEOREM AdminTypeCorrect == Spec => []TypeOK
<1>1. PoolOK /\ AdminInv => TypeOK
  BY DEF PoolOK, AdminInv, TypeOK
<1>2. QED
  BY <1>1, AdminInvariant, PTL

-----------------------------------------------------------------------------
(* What a step does to the table. *)
TableStep ==
    \/ UNCHANGED account
    \/ \E w \in Worker : UpdateUser(w) \/ DeleteUser(w)
    \/ \E w \in Worker, u \in User : CreateUser(w, u)

LEMMA OnlyThreeWrite == PoolOK /\ [Next]_vars => TableStep
  BY NextCases DEF Serve, vars, TableStep, Authorize, Load, EnsureAdminRemains, CheckNew,
         CreateAdmin, Rollback

(* The checks and the constraint of the email column together keep any     *)
(* two accounts apart, however creations and edits overlap.                *)
THEOREM UniqueEmails == Spec => []EmailsAreUnique
<1>1. Init => EmailsAreUnique
  BY DEF Init, EmailsAreUnique, Stored, NoAccount
<1>2. PoolOK /\ AdminInv /\ EmailsAreUnique /\ [Next]_vars => EmailsAreUnique'
  <2> SUFFICES ASSUME AdminInv, EmailsAreUnique, TableStep
               PROVE  EmailsAreUnique'
    BY OnlyThreeWrite
  <2>1. CASE UNCHANGED account
    BY <2>1 DEF EmailsAreUnique, Stored
  <2>2. ASSUME NEW w \in Worker, UpdateUser(w)
        PROVE  EmailsAreUnique'
    <3> DEFINE t == req[w].target
               row == Merged(account[t], req[w].copy, req[w].want)
    <3>1. t \in User /\ EmailIsFree(row.email, t)
      BY <2>2 DEF UpdateUser, EmailConstraint, AdminInv, TargetsAreNamed
    <3>2. account' = [account EXCEPT ![t] = row]
      BY <2>2 DEF UpdateUser
    <3> HIDE DEF row
    <3>3. QED
      BY <3>1, <3>2 DEF EmailsAreUnique, EmailIsFree, Stored, AdminInv, RowsOK
  <2>3. ASSUME NEW w \in Worker, DeleteUser(w)
        PROVE  EmailsAreUnique'
    BY <2>3 DEF DeleteUser, EmailsAreUnique, Stored, Gone, NoAccount, AdminInv, RowsOK,
                TargetsAreNamed
  <2>4. ASSUME NEW w \in Worker, NEW u \in User, CreateUser(w, u)
        PROVE  EmailsAreUnique'
    BY <2>4 DEF CreateUser, EmailConstraint, EmailIsFree, EmailsAreUnique, Stored,
                AdminInv, RowsOK
  <2>5. QED
    BY <2>1, <2>2, <2>3, <2>4 DEF TableStep
<1>3. QED
  BY <1>1, <1>2, AdminInvariant, PTL DEF Spec

(* No edit brings a deleted account back. *)
THEOREM DeletedStayDeleted == Spec => DeletionIsFinal
<1>1. PoolOK /\ AdminInv /\ [Next]_vars =>
        [\A u \in User : account[u].status = "deleted" => account'[u].status = "deleted"]_vars
  <2> SUFFICES ASSUME AdminInv, TableStep, NEW u \in User, account[u].status = "deleted"
               PROVE  account'[u].status = "deleted"
    BY OnlyThreeWrite
  <2>1. ASSUME NEW w \in Worker, UpdateUser(w)
        PROVE  account'[u].status = "deleted"
    BY <2>1 DEF UpdateUser, Stored, AdminInv, RowsOK, TargetsAreNamed
  <2>2. ASSUME NEW w \in Worker, DeleteUser(w)
        PROVE  account'[u].status = "deleted"
    BY <2>2 DEF DeleteUser, AdminInv, RowsOK, TargetsAreNamed, Gone, NoAccount
  <2>3. ASSUME NEW w \in Worker, NEW v \in User, CreateUser(w, v)
        PROVE  account'[u].status = "deleted"
    BY <2>3 DEF CreateUser, AdminInv, RowsOK
  <2>4. QED
    BY <2>1, <2>2, <2>3 DEF TableStep
<1>2. QED
  BY <1>1, AdminInvariant, PTL DEF Spec, DeletionIsFinal

-----------------------------------------------------------------------------
(* One request at a time: what a request has loaded is what the table      *)
(* holds, and when it has counted, another administrator is there.         *)
CopiesAreCurrent ==
    \A w \in Worker : LET r == req[w] IN
        /\ r.op # "idle" /\ r.actor \in User => r.self = account[r.actor]
        /\ r.op \in {"update", "delete"} => r.actor \in User
        /\ r.op \in {"update", "delete"} /\ r.step # "load" => r.copy = account[r.target]
        /\ r.op \in {"update", "delete"} /\ r.step = "commit" /\ RemovesAdmin(r)
              => EnabledAdmins \ {r.target} # {}

LEMMA AnotherAdmin ==
    ASSUME Cardinality(EnabledAdmins) > 1, NEW u
    PROVE  EnabledAdmins \ {u} # {}
<1>1. IsFiniteSet(EnabledAdmins)
  BY UsersAreFinite, FS_Subset DEF EnabledAdmins
<1>2. EnabledAdmins # {} /\ EnabledAdmins # {u}
  BY <1>1, FS_EmptySet, FS_Singleton
<1>3. QED
  BY <1>2

LEMMA OthersWait ==
    ASSUME AdminInv, NEW w \in Worker, Serve(w)
    PROVE  \A v \in Worker \ {w} : req'[v] = req[v]
<1>1. req \in [Worker -> Request]
  BY DEF AdminInv, RowsOK
<1>2. QED
  BY <1>1 DEF Serve, Authorize, Load, EnsureAdminRemains, UpdateUser, DeleteUser, CheckNew,
         CreateAdmin, CreateUser, Rollback

LEMMA CopiesStep ==
    ASSUME AdminInv, CopiesAreCurrent, NEW w \in Worker, Serve(w),
           \A v \in Worker \ {w} : req[v].op = "idle"
    PROVE  CopiesAreCurrent'
<1>0. \A v \in Worker \ {w} : req'[v].op = "idle"
  BY OthersWait
<1> USE <1>0 DEF CopiesAreCurrent
<1>1. ASSUME NEW v \in User, NEW op \in {"create", "update", "delete"}, Authorize(w, v, op)
      PROVE  CopiesAreCurrent'
  BY <1>1 DEF Authorize, NoRequest, AdminInv, RowsOK
<1>2. ASSUME NEW u \in User, NEW want \in Submitted \cup {NoAccount}, Load(w, u, want)
      PROVE  CopiesAreCurrent'
  BY <1>2 DEF Load, AdminInv, RowsOK, Request
<1>3. ASSUME EnsureAdminRemains(w)
      PROVE  CopiesAreCurrent'
  <2>1. req' = [req EXCEPT ![w].step = "commit"] /\ account' = account
        /\ EnabledAdmins' = EnabledAdmins
    BY <1>3 DEF EnsureAdminRemains, EnabledAdmins, Stored
  <2>2. RemovesAdmin(req[w]) => EnabledAdmins \ {req[w].target} # {}
    BY <1>3, AnotherAdmin DEF EnsureAdminRemains
  <2>3. RemovesAdmin(req'[w]) <=> RemovesAdmin(req[w])
    BY <2>1 DEF RemovesAdmin, AdminInv, RowsOK, Request
  <2>4. QED
    BY <1>3, <2>1, <2>2, <2>3 DEF EnsureAdminRemains, AdminInv, RowsOK, Request
<1>4. ASSUME UpdateUser(w) \/ DeleteUser(w) \/ (\E u \in User : CreateUser(w, u)) \/ Rollback(w)
      PROVE  CopiesAreCurrent'
  <2>1. req'[w] = NoRequest
    BY <1>4 DEF UpdateUser, DeleteUser, CreateUser, Rollback, AdminInv, RowsOK
  <2>2. QED
    BY <2>1 DEF NoRequest
<1>5. ASSUME NEW want \in Submitted, CheckNew(w, want)
      PROVE  CopiesAreCurrent'
  BY <1>5 DEF CheckNew, AdminInv, RowsOK, Request
<1>6. ASSUME NEW email \in Email, CreateAdmin(w, email)
      PROVE  CopiesAreCurrent'
  BY <1>6, NoneIsNobody DEF CreateAdmin, NoRequest, AdminInv, RowsOK
<1> HIDE DEF CopiesAreCurrent
<1>7. QED
  BY <1>1, <1>2, <1>3, <1>4, <1>5, <1>6 DEF Serve

LEMMA AdminStep ==
    ASSUME AdminInv, CopiesAreCurrent, TableStep, NEW w \in Worker,
           \A v \in Worker \ {w} : req[v].op = "idle",
           EnabledAdmins # {}
    PROVE  EnabledAdmins' # {}
<1> DEFINE r == req[w]
<1>1. \A v \in Worker \ {w} : /\ ~UpdateUser(v) /\ ~DeleteUser(v)
                              /\ \A u \in User : ~CreateUser(v, u)
  BY DEF UpdateUser, DeleteUser, CreateUser
<1>2. CASE UNCHANGED account
  BY <1>2 DEF EnabledAdmins, Stored
<1>3. CASE UpdateUser(w)
  <2>1. /\ r.target \in User /\ r.copy = account[r.target]
        /\ RemovesAdmin(r) => EnabledAdmins \ {r.target} # {}
        /\ account' = [account EXCEPT ![r.target] =
                            Merged(account[r.target], r.copy, r.want)]
    BY <1>3 DEF UpdateUser, AdminInv, TargetsAreNamed, CopiesAreCurrent
  <2>2. CASE RemovesAdmin(r)
    <3>1. PICK x \in EnabledAdmins : x # r.target
      BY <2>1, <2>2
    <3>2. x \in User /\ account'[x] = account[x]
      BY <2>1, <3>1 DEF EnabledAdmins, AdminInv, RowsOK
    <3>3. QED
      BY <3>1, <3>2 DEF EnabledAdmins, Stored
  <2>3. CASE ~RemovesAdmin(r)
    <3>1. PICK x \in EnabledAdmins : TRUE
      OBVIOUS
    <3>2. CASE x # r.target
      <4>1. x \in User /\ account'[x] = account[x]
        BY <2>1, <3>1, <3>2 DEF EnabledAdmins, AdminInv, RowsOK
      <4>2. QED
        BY <3>1, <4>1 DEF EnabledAdmins, Stored
    <3>3. CASE x = r.target
      <4>1. account[x].admin /\ account[x].enabled /\ Stored(x) /\ r.want.admin /\ r.want.enabled
        BY <1>3, <2>1, <2>3, <3>1, <3>3 DEF RemovesAdmin, EnabledAdmins, UpdateUser
      <4>2. account'[x] = Merged(account[x], account[x], r.want)
        BY <2>1, <3>3 DEF AdminInv, RowsOK
      <4>3. /\ Merged(account[x], account[x], r.want).status = "stored"
            /\ Merged(account[x], account[x], r.want).admin = TRUE
            /\ Merged(account[x], account[x], r.want).enabled = TRUE
        BY <2>1, <3>3, <4>1 DEF Merged, Stored, AdminInv, RowsOK, Account, Request
      <4>4. QED
        BY <2>1, <3>3, <4>2, <4>3 DEF EnabledAdmins, Stored
    <3>4. QED
      BY <3>2, <3>3
  <2>4. QED
    BY <2>2, <2>3
<1>4. CASE DeleteUser(w)
  <2>1. /\ r.target \in User /\ r.copy = account[r.target]
        /\ RemovesAdmin(r) => EnabledAdmins \ {r.target} # {}
        /\ account' = [account EXCEPT ![r.target] = Gone]
    BY <1>4 DEF DeleteUser, AdminInv, TargetsAreNamed, CopiesAreCurrent
  <2>2. PICK x \in EnabledAdmins : x # r.target
    BY <1>4, <2>1 DEF RemovesAdmin, DeleteUser, EnabledAdmins
  <2>3. x \in User /\ account'[x] = account[x]
    BY <2>1, <2>2 DEF EnabledAdmins, AdminInv, RowsOK
  <2>4. QED
    BY <2>2, <2>3 DEF EnabledAdmins, Stored
<1>5. ASSUME NEW u \in User, CreateUser(w, u)
      PROVE  EnabledAdmins' # {}
  <2>1. PICK x \in EnabledAdmins : TRUE
    OBVIOUS
  <2>2. x \in User /\ account'[x] = account[x]
    BY <1>5, <2>1 DEF CreateUser, EnabledAdmins, Stored, AdminInv, RowsOK
  <2>3. QED
    BY <2>1, <2>2 DEF EnabledAdmins, Stored
<1>6. QED
  BY <1>1, <1>2, <1>3, <1>4, <1>5 DEF TableStep

(* Who has a request runs; what a request that is alone relies on. *)
PoolServes == \A w \in Worker : req[w].op # "idle" => w \in pool
AloneInv == PoolServes /\ (Alone => CopiesAreCurrent)

LEMMA AloneStep ==
    ASSUME PoolOK, AdminInv, AloneInv, [Next]_vars
    PROVE  AloneInv' /\ (Alone /\ EnabledAdmins # {} => EnabledAdmins' # {})
<1>1. ASSUME NEW w \in pool, w \in Worker, Serve(w), pool' = pool
      PROVE  AloneInv' /\ (Alone /\ EnabledAdmins # {} => EnabledAdmins' # {})
  <2>1. PoolServes'
    BY <1>1, OthersWait DEF AloneInv, PoolServes
  <2>2. Alone => \A v \in Worker \ {w} : req[v].op = "idle"
    BY <1>1 DEF AloneInv, PoolServes, Alone
  <2>3. Alone => CopiesAreCurrent'
    BY <1>1, <2>2, CopiesStep DEF AloneInv
  <2>4. Alone /\ EnabledAdmins # {} => EnabledAdmins' # {}
    BY <1>1, <2>2, AdminStep, OnlyThreeWrite DEF AloneInv
  <2>5. QED
    BY <1>1, <2>1, <2>3, <2>4 DEF AloneInv, Alone
<1>2. CASE UNCHANGED vars
  BY <1>2 DEF vars, AloneInv, PoolServes, Alone, CopiesAreCurrent, RemovesAdmin, EnabledAdmins,
              Stored
<1>3. QED
  BY <1>1, <1>2, NextCases

(* When requests do not overlap, the last enabled administrator stays, for *)
(* any number of accounts and any sequence of edits and deletions          *)
(* (ensure_admin_remains, update_user, delete_user).                       *)
THEOREM LastAdminStays == Spec => AdminRemainsAlone
<1>1. Init => AloneInv
  BY DEF Init, AloneInv, PoolServes, CopiesAreCurrent, NoRequest
<1>2. PoolOK /\ AdminInv /\ AloneInv /\ [Next]_vars => AloneInv'
  BY AloneStep
<1>3. PoolOK /\ AdminInv /\ AloneInv /\ [Next]_vars
        => [Alone /\ EnabledAdmins # {} => EnabledAdmins' # {}]_vars
  BY AloneStep
<1>4. QED
  BY <1>1, <1>2, <1>3, AdminInvariant, PTL DEF Spec, AdminRemainsAlone

=============================================================================
