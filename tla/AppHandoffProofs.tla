--------------------------- MODULE AppHandoffProofs ---------------------------
(***************************************************************************)
(* What AppHandoff guarantees for every set of users, rows and workers and *)
(* every choice of the durations.                                          *)
(*                                                                         *)
(*  1. Rows and requests keep their types, and references resolve.         *)
(*  2. What the row locks guarantee: no application session survives under *)
(*     an ended portal session, and no positive verdict is overtaken.      *)
(*  3. How long an application session may live, and that the time an      *)
(*     exchange takes before it waits for its locks never makes it burn a  *)
(*     code.                                                               *)
(*  4. What ends for good: no write undoes a revocation, and a cleanup     *)
(*     deletes no session that could still be used.                        *)
(*  5. What the number of threads bounds: with one, an application session *)
(*     always has its user's present authority; with n, a code presented   *)
(*     again and again yields at most n sessions.                          *)
(*  6. Whatever overlaps, each commit is a step that Handoff allows.       *)
(***************************************************************************)
EXTENDS AppHandoff, TLAPS, FiniteSetTheorems

USE DurationsArePositive, IdentitiesAreDistinct, PayloadsAreRows DEF Never

(* Operations whose request names a portal session. *)
SessionOps == {"visit", "authorize", "expire", "logout", "exchange", "introspect"}

(* References resolve: a stored code or application session has a stored   *)
(* parent, which has a user, and a request points at rows that exist.      *)
(* Type correctness is not inductive without it, because handlers follow   *)
(* these references.                                                       *)
RowReferences ==
    /\ \A s \in Session : Stored(sess[s]) => sess[s].user \in User
    /\ \A c \in Code : Stored(code[c]) =>
            code[c].parent \in Session /\ Stored(sess[code[c].parent])
    /\ \A a \in AppSession : Stored(app[a]) =>
            app[a].parent \in Session /\ Stored(sess[app[a].parent])

RequestReferences ==
    \A w \in Worker :
        /\ req[w].op \in SessionOps => req[w].sess \in Session /\ Stored(sess[req[w].sess])
        /\ req[w].op \in AdminOps \cup {"login"} => req[w].user \in User
        /\ req[w].op = "exchange" => req[w].code \in Code
        /\ req[w].op = "introspect" => req[w].app \in AppSession

TypeInv == TypeOK /\ RowReferences /\ RequestReferences

-----------------------------------------------------------------------------
(* Rows and requests keep their types under the updates the actions make.  *)

LEMMA BlankRows ==
    /\ NoAccount \in AccountRow /\ NoSess \in SessRow /\ NoCode \in CodeRow
    /\ NoApp \in AppRow /\ NoRequest \in Request /\ NothingLoaded \in Loaded
  BY DEF NoAccount, AccountRow, NoSess, SessRow, NoCode, CodeRow, NoApp, AppRow,
         NoRequest, Request, NothingLoaded, Loaded, Status, Stamp, Op, Step, Verdict

(* The records a session context and an exchange begin with. *)
LEMMA StartType ==
    ASSUME NEW op \in Op, NEW step \in Step, NEW t \in Nat, NEW idle \in Nat, NEW s \in Session
    PROVE  [NoRequest EXCEPT !.op = op, !.step = step, !.at = t, !.idle = idle,
                             !.sess = s] \in Request
  BY BlankRows DEF Request

LEMMA PresentedType ==
    ASSUME NEW step \in Step, NEW verdict \in Verdict, NEW t \in Nat, NEW c \in Code,
           NEW s \in Session, NEW proof \in BOOLEAN,
           NEW doomed \in SUBSET (Code \cup AppSession)
    PROVE  [NoRequest EXCEPT !.op = "exchange", !.at = t, !.code = c, !.sess = s,
                             !.proof = proof, !.doomed = doomed, !.step = step,
                             !.verdict = verdict] \in Request
  BY BlankRows DEF Request, Op

LEMMA RowUpdates ==
    ASSUME NEW t \in Nat, NEW u \in Nat
    PROVE  /\ \A r \in SessRow : [r EXCEPT !.revoked = t] \in SessRow
           /\ \A r \in SessRow : [r EXCEPT !.seen = t, !.expires = u] \in SessRow
           /\ \A r \in CodeRow : [r EXCEPT !.revoked = t] \in CodeRow
           /\ \A r \in CodeRow : [r EXCEPT !.consumed = t] \in CodeRow
           /\ \A r \in AppRow : [r EXCEPT !.revoked = t] \in AppRow
           /\ \A r \in AppRow : [r EXCEPT !.idle = t] \in AppRow
  BY Zenon DEF SessRow, CodeRow, AppRow, Stamp

LEMMA DeletedRows ==
    /\ [NoCode EXCEPT !.status = "deleted"] \in CodeRow
    /\ ~Stored([NoCode EXCEPT !.status = "deleted"])
    /\ [NoApp EXCEPT !.status = "deleted"] \in AppRow
    /\ ~Stored([NoApp EXCEPT !.status = "deleted"])
  BY BlankRows DEF NoCode, NoApp, CodeRow, AppRow, Stored, Status

(* A table from which rows are deleted holds only rows it held before. *)
LEMMA DeletionType ==
    ASSUME TypeOK, NEW rows
    PROVE  /\ WithoutCodes(code, rows) \in [Code -> CodeRow]
           /\ \A c \in Code : Stored(WithoutCodes(code, rows)[c])
                                => WithoutCodes(code, rows)[c] = code[c]
           /\ WithoutApps(app, rows) \in [AppSession -> AppRow]
           /\ \A a \in AppSession : Stored(WithoutApps(app, rows)[a])
                                => WithoutApps(app, rows)[a] = app[a]
  BY DeletedRows DEF TypeOK, WithoutCodes, WithoutApps

LEMMA FinishType ==
    ASSUME TypeOK, NEW w \in Worker, Finish(w)
    PROVE  /\ lock' \in [Row -> Worker \cup {None}]
           /\ req' \in [Worker -> Request] /\ req'[w].op = "idle"
           /\ \A v \in Worker \ {w} : req'[v] = req[v]
           /\ orm' \in [Worker -> Loaded]
  BY BlankRows DEF TypeOK, Finish, Released, NoRequest

LEMMA TakenType ==
    ASSUME TypeOK, NEW w \in Worker, NEW rows
    PROVE  Taken(w, rows) \in [Row -> Worker \cup {None}]
  BY DEF TypeOK, Taken

LEMMA RevokeHeldType ==
    ASSUME TypeOK, NEW w \in Worker, RevokeHeld(w)
    PROVE  /\ code' \in [Code -> CodeRow] /\ app' \in [AppSession -> AppRow]
           /\ \A c \in Code : code'[c].parent = code[c].parent
                              /\ code'[c].status = code[c].status
           /\ \A a \in AppSession : app'[a].parent = app[a].parent
                                    /\ app'[a].status = app[a].status
<1>1. req[w].at \in Nat
  BY DEF TypeOK, Request
<1>2. /\ \A c \in Code : [code[c] EXCEPT !.revoked = req[w].at] \in CodeRow
      /\ \A a \in AppSession : [app[a] EXCEPT !.revoked = req[w].at] \in AppRow
  BY Zenon, <1>1, RowUpdates DEF TypeOK
<1>3. QED
  BY <1>2 DEF RevokeHeld, TypeOK, CodeRow, AppRow

(* Requests still resolve when the rows they point at stay stored and only *)
(* the request of w changes.                                               *)
LEMMA RequestsResolve ==
    ASSUME TypeInv, NEW w \in Worker,
           \A s \in Session : Stored(sess[s]) => Stored(sess'[s]),
           \A v \in Worker \ {w} : req'[v] = req[v],
           \/ req'[w].op = "idle"
           \/ /\ req'[w].op = req[w].op /\ req'[w].sess = req[w].sess
              /\ req'[w].user = req[w].user /\ req'[w].code = req[w].code
              /\ req'[w].app = req[w].app
    PROVE  RequestReferences'
  BY DEF TypeInv, RequestReferences, SessionOps, AdminOps

-----------------------------------------------------------------------------
(* Each action preserves TypeInv. *)

LEMMA TypeInit == Init => TypeInv
<1> SUFFICES ASSUME Init PROVE TypeInv
  OBVIOUS
<1>1. account \in [User -> AccountRow]
  <2>1. ASSUME NEW m \in BOOLEAN
        PROVE  [enabled |-> TRUE, mfa |-> m, assigned |-> TRUE] \in AccountRow
    BY DEF AccountRow
  <2>2. QED
    BY <2>1 DEF Init
<1>2. TypeOK
  BY <1>1, BlankRows DEF Init, TypeOK
<1>3. RowReferences
  BY DEF Init, RowReferences, NoSess, NoCode, NoApp, Stored
<1>4. RequestReferences
  BY DEF Init, RequestReferences, NoRequest, SessionOps, AdminOps
<1>5. QED
  BY <1>2, <1>3, <1>4 DEF TypeInv

LEMMA LoginReadType ==
    ASSUME TypeInv, pool' = pool, NEW w \in Worker, NEW u \in User, LoginRead(w, u)
    PROVE  TypeInv'
<1>1. req' \in [Worker -> Request]
  BY ZenonT(40), BlankRows DEF TypeInv, TypeOK, LoginRead, Request, NoRequest, Op, Step
<1>2. orm' \in [Worker -> Loaded]
  BY DEF TypeInv, TypeOK, LoginRead, Loaded
<1>3. RequestReferences'
  BY DEF TypeInv, TypeOK, LoginRead, NoRequest, RequestReferences, SessionOps, AdminOps, Stored
<1>4. QED
  BY <1>1, <1>2, <1>3 DEF TypeInv, TypeOK, RowReferences, LoginRead, settingsVars

LEMMA LoginCommitType ==
    ASSUME TypeInv, pool' = pool, NEW w \in Worker, NEW s \in Session, LoginCommit(w, s)
    PROVE  TypeInv'
<1>1. /\ req[w].user \in User /\ orm[w].account.mfa \in BOOLEAN
      /\ now + idleTimeout \in Nat /\ now + PortalAbsolute \in Nat
  BY DEF TypeInv, TypeOK, LoginCommit, At, RequestReferences, Loaded, AccountRow
<1>2. sess' \in [Session -> SessRow] /\ Stored(sess'[s]) /\ sess'[s].user \in User
  BY <1>1 DEF TypeInv, TypeOK, LoginCommit, SessRow, Status, Stamp, Stored
<1>3. \A t \in Session : t # s => sess'[t] = sess[t]
  BY DEF TypeInv, TypeOK, LoginCommit
<1>4. ~Stored(sess[s])
  BY DEF LoginCommit, Stored
<1>5. RequestReferences'
  BY <1>2, <1>3, FinishType, RequestsResolve DEF TypeInv, LoginCommit
<1>6. RowReferences'
  BY <1>2, <1>3, <1>4 DEF TypeInv, RowReferences, LoginCommit
<1>7. TypeOK'
  BY <1>2, FinishType DEF TypeInv, TypeOK, LoginCommit, settingsVars
<1>8. QED
  BY <1>5, <1>6, <1>7 DEF TypeInv

LEMMA ContextReadType ==
    ASSUME TypeInv, pool' = pool, NEW w \in Worker, NEW s \in Session, NEW kind,
           ContextRead(w, s, kind)
    PROVE  TypeInv'
<1>1. req' \in [Worker -> Request]
  <2> DEFINE ends == ContextExpired(sess[s], now) \/ ~account[sess[s].user].enabled
             op == IF ends THEN "expire" ELSE kind
             step == IF ends THEN "codes" ELSE "start"
  <2>1. op \in Op /\ step \in Step /\ now \in Nat /\ idleTimeout \in Nat /\ "none" \in Verdict
    BY DEF ContextRead, TypeInv, TypeOK, Op, Step, Verdict
  <2>2. req' = [req EXCEPT ![w] = [NoRequest EXCEPT !.op = op, !.step = step, !.at = now,
                                                    !.idle = idleTimeout, !.sess = s]]
    BY DEF ContextRead
  <2> HIDE DEF op, step
  <2>3. [NoRequest EXCEPT !.op = op, !.step = step, !.at = now, !.idle = idleTimeout,
                          !.sess = s] \in Request
    BY Zenon, <2>1, StartType
  <2>4. QED
    BY <2>2, <2>3 DEF TypeInv, TypeOK
<1>2. orm' \in [Worker -> Loaded]
  BY DEF TypeInv, TypeOK, ContextRead, Loaded
<1>3. RequestReferences'
  BY DEF TypeInv, TypeOK, ContextRead, NoRequest, RequestReferences, SessionOps, AdminOps, Stored
<1>4. QED
  BY <1>1, <1>2, <1>3 DEF TypeInv, TypeOK, RowReferences, ContextRead, settingsVars

LEMMA ContextRefreshType ==
    ASSUME TypeInv, pool' = pool, NEW w \in Worker, ContextRefresh(w)
    PROVE  TypeInv'
<1> DEFINE s == req[w].sess
           row == [sess[s] EXCEPT !.seen = req[w].at, !.expires = req[w].at + req[w].idle]
<1>1. s \in Session /\ Stored(sess[s]) /\ req[w].at \in Nat /\ req[w].at + req[w].idle \in Nat
  BY DEF TypeInv, TypeOK, ContextRefresh, RequestReferences, SessionOps, Request
<1>2. row \in SessRow /\ row.user = sess[s].user /\ row.status = sess[s].status
  <2>1. sess[s] \in SessRow
    BY <1>1 DEF TypeInv, TypeOK
  <2>2. QED
    BY <1>1, <2>1 DEF SessRow
<1>3. sess' = [sess EXCEPT ![s] = row]
  BY DEF ContextRefresh
<1>4. sess' \in [Session -> SessRow]
  BY <1>2, <1>3 DEF TypeInv, TypeOK
<1>5. \A t \in Session : sess'[t].user = sess[t].user /\ sess'[t].status = sess[t].status
  BY <1>1, <1>2, <1>3 DEF TypeInv, TypeOK
<1>6. /\ lock' \in [Row -> Worker \cup {None}] /\ req' \in [Worker -> Request]
      /\ orm' \in [Worker -> Loaded]
      /\ \A v \in Worker \ {w} : req'[v] = req[v]
      /\ \/ req'[w].op = "idle"
         \/ /\ req'[w].op = req[w].op /\ req'[w].sess = s /\ req'[w].user = req[w].user
            /\ req'[w].code = req[w].code /\ req'[w].app = req[w].app
  <2>1. CASE req[w].op = "visit"
    BY <2>1, FinishType DEF TypeInv, ContextRefresh
  <2>2. CASE req[w].op # "visit"
    <3>1. req' = [req EXCEPT ![w] = [req[w] EXCEPT !.step = "check"]]
      BY <2>2 DEF ContextRefresh
    <3>2. [req[w] EXCEPT !.step = "check"] \in Request
      <4>1. req[w] \in Request /\ "check" \in Step
        BY DEF TypeInv, TypeOK, Step
      <4>2. QED
        BY <4>1 DEF Request
    <3>3. QED
      <4>1. req' \in [Worker -> Request] /\ \A v \in Worker \ {w} : req'[v] = req[v]
        BY <3>1, <3>2 DEF TypeInv, TypeOK
      <4>2. /\ req'[w].op = req[w].op /\ req'[w].sess = s /\ req'[w].user = req[w].user
            /\ req'[w].code = req[w].code /\ req'[w].app = req[w].app
        <5>1. req[w] \in Request /\ req'[w] = [req[w] EXCEPT !.step = "check"]
          BY <3>1 DEF TypeInv, TypeOK
        <5>2. QED
          BY <5>1 DEF Request
      <4>3. lock' \in [Row -> Worker \cup {None}] /\ orm' \in [Worker -> Loaded]
        BY <2>2, BlankRows DEF TypeInv, TypeOK, ContextRefresh
      <4>4. QED
        BY <4>1, <4>2, <4>3
  <2>3. QED
    BY <2>1, <2>2
<1>7. RequestReferences'
  BY <1>5, <1>6, RequestsResolve DEF Stored
<1>8. RowReferences'
  BY <1>5 DEF TypeInv, RowReferences, ContextRefresh, Stored
<1>9. QED
  BY <1>4, <1>6, <1>7, <1>8 DEF TypeInv, TypeOK, ContextRefresh, settingsVars

LEMMA ExpireCommitType ==
    ASSUME TypeInv, pool' = pool, NEW w \in Worker, ExpireCommit(w)
    PROVE  TypeInv'
<1> DEFINE s == req[w].sess
           row == [sess[s] EXCEPT !.revoked = req[w].at]
<1>1. s \in Session /\ req[w].at \in Nat
  BY DEF TypeInv, TypeOK, ExpireCommit, At, RequestReferences, SessionOps, Request
<1>2. row \in SessRow /\ row.user = sess[s].user /\ row.status = sess[s].status
  <2>1. sess[s] \in SessRow
    BY <1>1 DEF TypeInv, TypeOK
  <2>2. QED
    BY <1>1, <2>1 DEF SessRow, Stamp
<1>3. sess' = [sess EXCEPT ![s] = row]
  BY DEF ExpireCommit
<1>4. sess' \in [Session -> SessRow]
  BY <1>2, <1>3 DEF TypeInv, TypeOK
<1>5. \A t \in Session : sess'[t].user = sess[t].user /\ sess'[t].status = sess[t].status
  BY <1>1, <1>2, <1>3 DEF TypeInv, TypeOK
<1>6. RequestReferences'
  BY <1>5, FinishType, RequestsResolve DEF TypeInv, ExpireCommit, Stored
<1>7. RowReferences'
  BY <1>5, RevokeHeldType DEF TypeInv, RowReferences, ExpireCommit, Stored
<1>8. QED
  BY <1>4, <1>6, <1>7, FinishType, RevokeHeldType DEF TypeInv, TypeOK, ExpireCommit, settingsVars

LEMMA RevokeCodesType ==
    ASSUME TypeInv, pool' = pool, NEW w \in Worker, RevokeCodes(w)
    PROVE  TypeInv'
<1>1. req' = [req EXCEPT ![w] = [req[w] EXCEPT !.step = "apps"]]
  BY DEF RevokeCodes
<1>2. [req[w] EXCEPT !.step = "apps"] \in Request
  <2>1. req[w] \in Request /\ "apps" \in Step
    BY DEF TypeInv, TypeOK, Step
  <2>2. QED
    BY <2>1 DEF Request
<1>3. RequestReferences'
  <2> DEFINE x == [req[w] EXCEPT !.step = "apps"]
  <2>1. /\ x.op = req[w].op /\ x.sess = req[w].sess /\ x.user = req[w].user
        /\ x.code = req[w].code /\ x.app = req[w].app
    BY DEF TypeInv, TypeOK, Request
  <2>2. req' = [req EXCEPT ![w] = x] /\ sess' = sess /\ req \in [Worker -> Request]
    BY <1>1 DEF RevokeCodes, TypeInv, TypeOK
  <2> HIDE DEF x
  <2>3. QED
    BY <2>1, <2>2, RequestsResolve
<1>4. QED
  BY <1>1, <1>2, <1>3, TakenType DEF TypeInv, TypeOK, RowReferences, RevokeCodes, settingsVars

LEMMA RevokeAppsType ==
    ASSUME TypeInv, pool' = pool, NEW w \in Worker, RevokeApps(w)
    PROVE  TypeInv'
<1>1. req' = [req EXCEPT ![w] = [req[w] EXCEPT !.step = "commit"]]
  BY DEF RevokeApps
<1>2. [req[w] EXCEPT !.step = "commit"] \in Request
  <2>1. req[w] \in Request /\ "commit" \in Step
    BY DEF TypeInv, TypeOK, Step
  <2>2. QED
    BY <2>1 DEF Request
<1>3. RequestReferences'
  <2> DEFINE x == [req[w] EXCEPT !.step = "commit"]
  <2>1. /\ x.op = req[w].op /\ x.sess = req[w].sess /\ x.user = req[w].user
        /\ x.code = req[w].code /\ x.app = req[w].app
    BY DEF TypeInv, TypeOK, Request
  <2>2. req' = [req EXCEPT ![w] = x] /\ sess' = sess /\ req \in [Worker -> Request]
    BY <1>1 DEF RevokeApps, TypeInv, TypeOK
  <2> HIDE DEF x
  <2>3. QED
    BY <2>1, <2>2, RequestsResolve
<1>4. QED
  BY <1>1, <1>2, <1>3, TakenType DEF TypeInv, TypeOK, RowReferences, RevokeApps, settingsVars

LEMMA LogoutStartType ==
    ASSUME TypeInv, pool' = pool, NEW w \in Worker, NEW s \in Session, LogoutStart(w, s)
    PROVE  TypeInv'
<1>1. req' \in [Worker -> Request]
  BY ZenonT(40), BlankRows DEF TypeInv, TypeOK, LogoutStart, Request, NoRequest, Op, Step
<1>2. RequestReferences'
  BY DEF TypeInv, TypeOK, LogoutStart, NoRequest, RequestReferences, SessionOps, AdminOps, Stored
<1>3. QED
  BY <1>1, <1>2 DEF TypeInv, TypeOK, RowReferences, LogoutStart, settingsVars

LEMMA LogoutLockType ==
    ASSUME TypeInv, pool' = pool, NEW w \in Worker, LogoutLock(w)
    PROVE  TypeInv'
<1>1. CASE Finish(w)
  <2>1. RequestReferences'
    BY <1>1, FinishType, RequestsResolve DEF TypeInv, LogoutLock
  <2>2. QED
    BY <1>1, <2>1, FinishType DEF TypeInv, TypeOK, RowReferences, LogoutLock, settingsVars
<1>2. CASE /\ lock' = Taken(w, {req[w].sess})
           /\ req' = [req EXCEPT ![w] = [req[w] EXCEPT !.step = "codes", !.at = now]]
           /\ UNCHANGED orm
  <2>1. [req[w] EXCEPT !.step = "codes", !.at = now] \in Request
    <3>1. req[w] \in Request /\ now \in Nat /\ "codes" \in Step
      BY DEF TypeInv, TypeOK, Step
    <3>2. QED
      BY <3>1 DEF Request
  <2>2. RequestReferences'
    BY <1>2, RequestsResolve DEF TypeInv, TypeOK, Request, LogoutLock
  <2>3. QED
    BY <1>2, <2>1, <2>2, TakenType DEF TypeInv, TypeOK, RowReferences, LogoutLock, settingsVars
<1>3. QED
  BY <1>1, <1>2 DEF LogoutLock

LEMMA LogoutCommitType ==
    ASSUME TypeInv, pool' = pool, NEW w \in Worker, LogoutCommit(w)
    PROVE  TypeInv'
<1> DEFINE s == req[w].sess
           row == [sess[s] EXCEPT !.revoked = req[w].at]
<1>1. s \in Session /\ req[w].at \in Nat
  BY DEF TypeInv, TypeOK, LogoutCommit, At, RequestReferences, SessionOps, Request
<1>2. row \in SessRow /\ row.user = sess[s].user /\ row.status = sess[s].status
  <2>1. sess[s] \in SessRow
    BY <1>1 DEF TypeInv, TypeOK
  <2>2. QED
    BY <1>1, <2>1 DEF SessRow, Stamp
<1>3. sess' = [sess EXCEPT ![s] = row]
  BY DEF LogoutCommit
<1>4. sess' \in [Session -> SessRow]
  BY <1>2, <1>3 DEF TypeInv, TypeOK
<1>5. \A t \in Session : sess'[t].user = sess[t].user /\ sess'[t].status = sess[t].status
  BY <1>1, <1>2, <1>3 DEF TypeInv, TypeOK
<1>6. RequestReferences'
  BY <1>5, FinishType, RequestsResolve DEF TypeInv, LogoutCommit, Stored
<1>7. RowReferences'
  BY SMTT(30), <1>5, RevokeHeldType DEF TypeInv, RowReferences, LogoutCommit, Stored
<1>8. QED
  BY <1>1, <1>4, <1>6, <1>7, FinishType, RevokeHeldType
  DEF TypeInv, TypeOK, LogoutCommit, settingsVars

LEMMA AuthorizeCheckType ==
    ASSUME TypeInv, pool' = pool, NEW w \in Worker, AuthorizeCheck(w)
    PROVE  TypeInv'
<1> DEFINE s == req[w].sess
           acct == account[sess[s].user]
<1>1. s \in Session /\ sess[s].user \in User /\ acct \in AccountRow /\ sess[s] \in SessRow
  BY DEF TypeInv, TypeOK, AuthorizeCheck, At, RowReferences, RequestReferences, SessionOps
<1>2. [NothingLoaded EXCEPT !.account = acct,
                            !.sess = IF acct.mfa THEN sess[s] ELSE NoSess] \in Loaded
  BY <1>1, BlankRows DEF Loaded, NothingLoaded
<1>3. orm' \in [Worker -> Loaded]
  BY <1>2 DEF TypeInv, TypeOK, AuthorizeCheck
<1>4. req' \in [Worker -> Request] /\ RequestReferences'
  <2>1. req[w] \in Request /\ "decide" \in Step /\ "lock" \in Step /\ "logout" \in Op
    BY DEF TypeInv, TypeOK, Step, Op
  <2>2. [req[w] EXCEPT !.step = "decide"] \in Request
    BY <2>1 DEF Request
  <2>3. [req[w] EXCEPT !.op = "logout", !.step = "lock"] \in Request
    BY <2>1 DEF Request
  <2>4. req' \in [Worker -> Request]
    BY <2>2, <2>3 DEF TypeInv, TypeOK, AuthorizeCheck
  <2>5. /\ req'[w].sess = s /\ req'[w].op \in {"authorize", "logout"}
        /\ \A v \in Worker \ {w} : req'[v] = req[v]
    BY <2>1 DEF TypeInv, TypeOK, AuthorizeCheck, At, Request
  <2>6. s \in Session /\ Stored(sess[s]) /\ sess' = sess
    BY SMTT(30) DEF TypeInv, AuthorizeCheck, At, RequestReferences, SessionOps
  <2>7. QED
    BY <2>4, <2>5, <2>6 DEF TypeInv, RequestReferences, SessionOps, AdminOps
<1>5. QED
  BY <1>3, <1>4 DEF TypeInv, TypeOK, RowReferences, AuthorizeCheck, settingsVars

LEMMA AuthorizeDecideType ==
    ASSUME TypeInv, pool' = pool, NEW w \in Worker, AuthorizeDecide(w)
    PROVE  TypeInv'
<1>0. UNCHANGED <<now, settingsVars, account, sess, code, app, ended>> /\ TypeOK
  BY Zenon DEF AuthorizeDecide, TypeInv, settingsVars
<1>1. CASE Finish(w)
  <2>1. /\ lock' \in [Row -> Worker \cup {None}] /\ req' \in [Worker -> Request]
        /\ orm' \in [Worker -> Loaded]
        /\ req'[w].op = "idle" /\ \A v \in Worker \ {w} : req'[v] = req[v]
    BY <1>0, <1>1, FinishType
  <2>2. RequestReferences'
    BY <1>0, <2>1, RequestsResolve
  <2>3. QED
    BY <1>0, <2>1, <2>2 DEF TypeInv, TypeOK, RowReferences, settingsVars
<1>2. ASSUME NEW codes \in SUBSET PurgeableCodes, NEW apps \in SUBSET PurgeableApps,
             lock' = Taken(w, codes \cup apps \cup {Radar}),
             req' = [req EXCEPT ![w] = [req[w] EXCEPT !.step = "commit", !.at = now,
                                                      !.doomed = codes \cup apps]],
             UNCHANGED orm
      PROVE  TypeInv'
  <2>1. [req[w] EXCEPT !.step = "commit", !.at = now, !.doomed = codes \cup apps] \in Request
    <3>1. req[w] \in Request /\ now \in Nat /\ "commit" \in Step
      BY DEF TypeInv, TypeOK, Step
    <3>2. codes \cup apps \in SUBSET (Code \cup AppSession)
      BY DEF PurgeableCodes, PurgeableApps
    <3>3. QED
      BY Zenon, <3>1, <3>2 DEF Request
  <2>2. RequestReferences'
    <3>1. /\ req'[w].op = req[w].op /\ req'[w].sess = req[w].sess
          /\ req'[w].user = req[w].user /\ req'[w].code = req[w].code
          /\ req'[w].app = req[w].app
          /\ \A v \in Worker \ {w} : req'[v] = req[v]
      <4>1. req[w] \in Request /\ DOMAIN req = Worker
        BY DEF TypeInv, TypeOK
      <4>2. req'[w] = [req[w] EXCEPT !.step = "commit", !.at = now, !.doomed = codes \cup apps]
        BY <1>2, <4>1
      <4>3. QED
        BY <1>2, <4>1, <4>2 DEF Request
    <3>2. QED
      BY <1>0, <3>1, RequestsResolve
  <2>3. QED
    <3>1. lock' \in [Row -> Worker \cup {None}] /\ req' \in [Worker -> Request]
      BY <1>0, <1>2, <2>1, TakenType DEF TypeOK
    <3>2. QED
      BY <1>0, <1>2, <2>2, <3>1 DEF TypeInv, TypeOK, RowReferences, settingsVars
<1>3. QED
  BY ZenonT(40), <1>1, <1>2 DEF AuthorizeDecide

LEMMA AuthorizeCommitType ==
    ASSUME TypeInv, pool' = pool, NEW w \in Worker, NEW c \in Code, AuthorizeCommit(w, c)
    PROVE  TypeInv'
<1> DEFINE s == req[w].sess
           row == [status |-> "stored", parent |-> s, expires |-> req[w].at + CodeTtl,
                   consumed |-> Never, revoked |-> Never]
           kept == WithoutCodes(code, req[w].doomed)
<1>1. s \in Session /\ Stored(sess[s]) /\ req[w].at + CodeTtl \in Nat
  BY DEF TypeInv, TypeOK, AuthorizeCommit, At, RequestReferences, SessionOps, Request
<1>2. row \in CodeRow
  BY <1>1 DEF CodeRow, Status, Stamp
<1>3. code' = [kept EXCEPT ![c] = row]
  BY DEF AuthorizeCommit
<1>4. kept \in [Code -> CodeRow] /\ \A d \in Code : Stored(kept[d]) => kept[d] = code[d]
  BY DeletionType DEF TypeInv
<1>5. code' \in [Code -> CodeRow]
  BY <1>2, <1>3, <1>4
<1>6. \A d \in Code : Stored(code'[d]) =>
            code'[d].parent \in Session /\ Stored(sess[code'[d].parent])
  BY <1>1, <1>3, <1>4 DEF TypeInv, RowReferences
<1>7. app' \in [AppSession -> AppRow]
      /\ \A a \in AppSession : Stored(app'[a]) => app'[a] = app[a]
  BY DeletionType DEF TypeInv, AuthorizeCommit
<1>8. RequestReferences'
  BY FinishType, RequestsResolve DEF TypeInv, AuthorizeCommit
<1>9. RowReferences'
  BY <1>6, <1>7 DEF TypeInv, RowReferences, AuthorizeCommit
<1>10. QED
  BY <1>5, <1>7, <1>8, <1>9, FinishType DEF TypeInv, TypeOK, AuthorizeCommit, settingsVars

LEMMA ExchangeReadType ==
    ASSUME TypeInv, pool' = pool, NEW w \in Worker, NEW c \in Code, NEW proof \in BOOLEAN,
           ExchangeRead(w, c, proof)
    PROVE  TypeInv'
<1>1. PICK codes \in SUBSET PurgeableCodes, apps \in SUBSET PurgeableApps :
            /\ lock' = Taken(w, codes \cup apps)
            /\ req' = [req EXCEPT ![w] =
                  [NoRequest EXCEPT !.op = "exchange", !.at = now, !.code = c,
                                    !.sess = code[c].parent, !.proof = proof,
                                    !.doomed = codes \cup apps,
                                    !.step = IF c \in codes THEN "commit" ELSE "decide",
                                    !.verdict = IF c \in codes THEN "reject" ELSE "none"]]
  BY Zenon DEF ExchangeRead
<1>2. code[c].parent \in Session /\ Stored(sess[code[c].parent]) /\ sess' = sess
  BY DEF TypeInv, RowReferences, ExchangeRead
<1>3. codes \cup apps \in SUBSET (Code \cup AppSession)
  BY DEF PurgeableCodes, PurgeableApps
<1>4. req' \in [Worker -> Request]
  <2> DEFINE new ==
        [NoRequest EXCEPT !.op = "exchange", !.at = now, !.code = c,
                          !.sess = code[c].parent, !.proof = proof,
                          !.doomed = codes \cup apps,
                          !.step = IF c \in codes THEN "commit" ELSE "decide",
                          !.verdict = IF c \in codes THEN "reject" ELSE "none"]
  <2>1. /\ now \in Nat /\ "exchange" \in Op
        /\ (IF c \in codes THEN "commit" ELSE "decide") \in Step
        /\ (IF c \in codes THEN "reject" ELSE "none") \in Verdict
    BY DEF TypeInv, TypeOK, Op, Step, Verdict
  <2>2. new \in Request
    BY ZenonT(40), <1>2, <1>3, <2>1, PresentedType
  <2>3. req' = [req EXCEPT ![w] = new]
    BY <1>1
  <2> HIDE DEF new
  <2>4. QED
    BY <2>2, <2>3 DEF TypeInv, TypeOK
<1>5. orm' \in [Worker -> Loaded]
  BY DEF TypeInv, TypeOK, ExchangeRead, Loaded
<1>6. RequestReferences'
  BY <1>1, <1>2 DEF TypeInv, TypeOK, NoRequest, RequestReferences, SessionOps, AdminOps
<1>7. QED
  BY <1>1, <1>4, <1>5, <1>6, TakenType
  DEF TypeInv, TypeOK, RowReferences, ExchangeRead, settingsVars

LEMMA ExchangeDecideType ==
    ASSUME TypeInv, pool' = pool, NEW w \in Worker, ExchangeDecide(w)
    PROVE  TypeInv'
<1> DEFINE verdict == ExchangeVerdict(w)
<1>1. [req[w] EXCEPT !.step = "commit", !.verdict = verdict] \in Request
  <2>1. req[w] \in Request /\ "commit" \in Step
    BY DEF TypeInv, TypeOK, Step
  <2>2. verdict \in Verdict
    BY DEF ExchangeVerdict, Verdict
  <2>3. QED
    BY <2>1, <2>2 DEF Request
<1>2. req' = [req EXCEPT ![w] = [req[w] EXCEPT !.step = "commit", !.verdict = verdict]]
  BY DEF ExchangeDecide
<1>3. RequestReferences'
  BY <1>2, RequestsResolve DEF TypeInv, TypeOK, Request, ExchangeDecide
<1>4. lock' \in [Row -> Worker \cup {None}]
  BY TakenType DEF TypeInv, ExchangeDecide
<1>5. req' \in [Worker -> Request]
  BY <1>1, <1>2 DEF TypeInv, TypeOK
<1>6. UNCHANGED <<now, settingsVars, sess, code, app, orm, ended>>
  BY DEF ExchangeDecide
<1>7. QED
  BY <1>3, <1>4, <1>5, <1>6 DEF TypeInv, TypeOK, RowReferences, settingsVars

LEMMA ExchangeRejectType ==
    ASSUME TypeInv, pool' = pool, NEW w \in Worker, ExchangeReject(w)
    PROVE  TypeInv'
<1> DEFINE r == req[w]
           kept == WithoutCodes(code, r.doomed)
           row == [kept[r.code] EXCEPT
                      !.revoked = IF r.verdict = "deny" THEN r.at ELSE kept[r.code].revoked,
                      !.consumed = IF r.verdict = "burn" THEN r.at ELSE kept[r.code].consumed]
<1>1. r.code \in Code /\ r.at \in Nat
  BY DEF TypeInv, TypeOK, ExchangeReject, At, RequestReferences, Request
<1>2. kept \in [Code -> CodeRow] /\ \A d \in Code : Stored(kept[d]) => kept[d] = code[d]
  BY DeletionType DEF TypeInv
<1>3. row \in CodeRow /\ row.status = kept[r.code].status /\ row.parent = kept[r.code].parent
  <2>1. kept[r.code] \in CodeRow
    BY <1>1, <1>2
  <2>2. QED
    BY <1>1, <2>1 DEF CodeRow, Stamp
<1>4. code' = [kept EXCEPT ![r.code] = row]
  BY DEF ExchangeReject
<1>5. code' \in [Code -> CodeRow]
  BY <1>2, <1>3, <1>4
<1>6. \A d \in Code : Stored(code'[d]) => Stored(code[d]) /\ code'[d].parent = code[d].parent
  BY <1>1, <1>2, <1>3, <1>4 DEF Stored
<1>7. app' \in [AppSession -> AppRow]
      /\ \A a \in AppSession : Stored(app'[a]) => app'[a] = app[a]
  BY DeletionType DEF TypeInv, ExchangeReject
<1>8. RequestReferences'
  BY SMTT(30), FinishType, RequestsResolve DEF TypeInv, ExchangeReject
<1>9. RowReferences'
  BY <1>6, <1>7 DEF TypeInv, RowReferences, ExchangeReject
<1>10. QED
  BY <1>5, <1>7, <1>8, <1>9, FinishType DEF TypeInv, TypeOK, ExchangeReject, settingsVars

LEMMA GrantTimes ==
    ASSUME NEW p \in SessRow, NEW t \in Nat
    PROVE  /\ AbsoluteEnd(p, t) \in Nat /\ AbsoluteEnd(p, t) <= p.absolute
           /\ IdleEnd(AbsoluteEnd(p, t), t) \in Nat
           /\ IdleEnd(AbsoluteEnd(p, t), t) <= AbsoluteEnd(p, t)
  BY DEF SessRow, AbsoluteEnd, IdleEnd, Earlier

LEMMA ExchangeGrantType ==
    ASSUME TypeInv, pool' = pool, NEW w \in Worker, NEW a \in AppSession, ExchangeGrant(w, a)
    PROVE  TypeInv'
<1> DEFINE r == req[w]
           absolute == AbsoluteEnd(sess[r.sess], r.at)
           kept == WithoutCodes(code, r.doomed)
           left == WithoutApps(app, r.doomed)
           used == [kept[r.code] EXCEPT !.consumed = r.at]
           row == [status |-> "stored", code |-> r.code, parent |-> r.sess,
                   idle |-> IdleEnd(absolute, r.at), absolute |-> absolute, revoked |-> Never]
<1>1. /\ r.code \in Code /\ r.at \in Nat
      /\ r.sess \in Session /\ Stored(sess[r.sess]) /\ sess[r.sess] \in SessRow
  BY DEF TypeInv, TypeOK, ExchangeGrant, At, RequestReferences, SessionOps, Request
<1>2. /\ kept \in [Code -> CodeRow] /\ \A d \in Code : Stored(kept[d]) => kept[d] = code[d]
      /\ left \in [AppSession -> AppRow]
      /\ \A b \in AppSession : Stored(left[b]) => left[b] = app[b]
  BY DeletionType DEF TypeInv
<1>3. used \in CodeRow /\ used.status = kept[r.code].status /\ used.parent = kept[r.code].parent
  <2>1. kept[r.code] \in CodeRow
    BY <1>1, <1>2
  <2>2. QED
    BY <1>1, <2>1 DEF CodeRow, Stamp
<1>4. row \in AppRow
  BY <1>1, GrantTimes DEF AppRow, Status, Stamp
<1>5. code' = [kept EXCEPT ![r.code] = used] /\ app' = [left EXCEPT ![a] = row]
  BY DEF ExchangeGrant
<1>6. code' \in [Code -> CodeRow] /\ app' \in [AppSession -> AppRow]
  BY <1>2, <1>3, <1>4, <1>5
<1>7. \A d \in Code : Stored(code'[d]) => Stored(code[d]) /\ code'[d].parent = code[d].parent
  BY <1>1, <1>2, <1>3, <1>5 DEF Stored
<1>8. \A b \in AppSession : Stored(app'[b]) =>
            app'[b].parent \in Session /\ Stored(sess[app'[b].parent])
  BY <1>1, <1>2, <1>5 DEF TypeInv, RowReferences
<1>9. RequestReferences'
  BY SMTT(30), FinishType, RequestsResolve DEF TypeInv, ExchangeGrant
<1>10. RowReferences'
  BY <1>7, <1>8 DEF TypeInv, RowReferences, ExchangeGrant
<1>11. QED
  BY <1>6, <1>9, <1>10, FinishType DEF TypeInv, TypeOK, ExchangeGrant, settingsVars

LEMMA IntrospectReadType ==
    ASSUME TypeInv, pool' = pool, NEW w \in Worker, NEW a \in AppSession, IntrospectRead(w, a)
    PROVE  TypeInv'
<1>1. app[a].parent \in Session /\ Stored(sess[app[a].parent]) /\ sess' = sess
  BY DEF TypeInv, RowReferences, IntrospectRead
<1>2. req' \in [Worker -> Request]
  <2>1. now \in Nat /\ "introspect" \in Op /\ "decide" \in Step
    BY DEF TypeInv, TypeOK, Op, Step
  <2>2. [NoRequest EXCEPT !.op = "introspect", !.step = "decide", !.at = now,
                          !.app = a, !.sess = app[a].parent] \in Request
    BY <1>1, <2>1, BlankRows DEF Request
  <2>3. QED
    BY <2>2 DEF TypeInv, TypeOK, IntrospectRead
<1>3. orm' \in [Worker -> Loaded]
  BY DEF TypeInv, TypeOK, IntrospectRead, Loaded
<1>4. RequestReferences'
  BY <1>1 DEF TypeInv, TypeOK, IntrospectRead, NoRequest, RequestReferences, SessionOps, AdminOps
<1>5. QED
  BY <1>2, <1>3, <1>4 DEF TypeInv, TypeOK, RowReferences, IntrospectRead, settingsVars

LEMMA IntrospectDecideType ==
    ASSUME TypeInv, pool' = pool, NEW w \in Worker, IntrospectDecide(w)
    PROVE  TypeInv'
<1>1. CASE Finish(w)
  <2>1. RequestReferences'
    BY <1>1, FinishType, RequestsResolve DEF TypeInv, IntrospectDecide
  <2>2. QED
    BY <1>1, <2>1, FinishType DEF TypeInv, TypeOK, RowReferences, IntrospectDecide, settingsVars
<1>2. ASSUME NEW v \in {"active", "inactive"},
             lock' = Taken(w, {req[w].sess, req[w].app}),
             req' = [req EXCEPT ![w] = [req[w] EXCEPT !.step = "commit", !.idle = idleTimeout,
                                                      !.verdict = v]],
             UNCHANGED orm
      PROVE  TypeInv'
  <2>1. [req[w] EXCEPT !.step = "commit", !.idle = idleTimeout, !.verdict = v] \in Request
    <3>1. req[w] \in Request /\ idleTimeout \in Nat /\ "commit" \in Step /\ v \in Verdict
      BY DEF TypeInv, TypeOK, Step, Verdict
    <3>2. QED
      BY <3>1 DEF Request
  <2>2. RequestReferences'
    <3>1. /\ req'[w].op = req[w].op /\ req'[w].sess = req[w].sess
          /\ req'[w].user = req[w].user /\ req'[w].code = req[w].code
          /\ req'[w].app = req[w].app
          /\ \A x \in Worker \ {w} : req'[x] = req[x]
      BY <1>2 DEF TypeInv, TypeOK, Request
    <3>2. QED
      BY <3>1, RequestsResolve DEF IntrospectDecide
  <2>3. QED
    BY <1>2, <2>1, <2>2, TakenType
    DEF TypeInv, TypeOK, RowReferences, IntrospectDecide, settingsVars
<1>3. QED
  BY <1>1, <1>2 DEF IntrospectDecide

LEMMA IntrospectRejectType ==
    ASSUME TypeInv, pool' = pool, NEW w \in Worker, IntrospectReject(w)
    PROVE  TypeInv'
<1> DEFINE a == req[w].app
           row == [app[a] EXCEPT !.revoked = req[w].at]
<1>1. a \in AppSession /\ app[a] \in AppRow /\ req[w].at \in Nat
  BY DEF TypeInv, TypeOK, IntrospectReject, At, RequestReferences, Request
<1>2. row \in AppRow /\ row.status = app[a].status /\ row.parent = app[a].parent
  BY <1>1 DEF AppRow, Stamp
<1>3. app' = [app EXCEPT ![a] = row]
  BY DEF IntrospectReject
<1>4. app' \in [AppSession -> AppRow]
  BY <1>2, <1>3 DEF TypeInv, TypeOK
<1>5. RowReferences'
  BY <1>1, <1>2, <1>3 DEF TypeInv, TypeOK, RowReferences, IntrospectReject, Stored
<1>6. RequestReferences'
  BY FinishType, RequestsResolve DEF TypeInv, IntrospectReject
<1>7. QED
  BY <1>4, <1>5, <1>6, FinishType DEF TypeInv, TypeOK, IntrospectReject, settingsVars

LEMMA IntrospectActiveType ==
    ASSUME TypeInv, pool' = pool, NEW w \in Worker, IntrospectActive(w)
    PROVE  TypeInv'
<1> DEFINE r == req[w]
           row == [app[r.app] EXCEPT !.idle = IdleEnd(app[r.app].absolute, r.at)]
           parent == [sess[r.sess] EXCEPT
                         !.seen = r.at,
                         !.expires = Earlier(sess[r.sess].absolute, r.at + r.idle)]
<1>1. /\ r.app \in AppSession /\ app[r.app] \in AppRow /\ r.at \in Nat /\ r.idle \in Nat
      /\ r.sess \in Session /\ sess[r.sess] \in SessRow
  BY DEF TypeInv, TypeOK, IntrospectActive, At, RequestReferences, SessionOps, Request
<1>2. /\ IdleEnd(app[r.app].absolute, r.at) \in Nat
      /\ Earlier(sess[r.sess].absolute, r.at + r.idle) \in Nat
  BY <1>1 DEF AppRow, SessRow, IdleEnd, Earlier
<1>3. row \in AppRow /\ row.status = app[r.app].status /\ row.parent = app[r.app].parent
  BY <1>1, <1>2 DEF AppRow
<1>4. /\ parent \in SessRow /\ parent.status = sess[r.sess].status
      /\ parent.user = sess[r.sess].user
  BY <1>1, <1>2 DEF SessRow
<1>5. app' = [app EXCEPT ![r.app] = row] /\ sess' = [sess EXCEPT ![r.sess] = parent]
  BY DEF IntrospectActive
<1>6. app' \in [AppSession -> AppRow] /\ sess' \in [Session -> SessRow]
  BY <1>3, <1>4, <1>5 DEF TypeInv, TypeOK
<1>7. \A t \in Session : sess'[t].user = sess[t].user /\ sess'[t].status = sess[t].status
  BY <1>1, <1>4, <1>5 DEF TypeInv, TypeOK
<1>8. \A b \in AppSession : app'[b].parent = app[b].parent /\ app'[b].status = app[b].status
  BY SMTT(30), <1>1, <1>3, <1>5 DEF TypeInv, TypeOK
<1>9. RowReferences'
  BY SMTT(30), <1>7, <1>8 DEF TypeInv, RowReferences, IntrospectActive, Stored
<1>10. RequestReferences'
  BY <1>7, FinishType, RequestsResolve DEF TypeInv, IntrospectActive, Stored
<1>11. QED
  BY <1>6, <1>9, <1>10, FinishType DEF TypeInv, TypeOK, IntrospectActive, settingsVars

LEMMA RevokeApplicationSessionType ==
    ASSUME TypeInv, pool' = pool, NEW a \in AppSession, RevokeApplicationSession(a)
    PROVE  TypeInv'
<1> DEFINE row == [app[a] EXCEPT !.revoked = now]
<1>1. app[a] \in AppRow /\ now \in Nat
  BY DEF TypeInv, TypeOK
<1>2. row \in AppRow /\ row.status = app[a].status /\ row.parent = app[a].parent
  BY <1>1 DEF AppRow, Stamp
<1>3. app' = [app EXCEPT ![a] = row]
  BY DEF RevokeApplicationSession
<1>4. RowReferences'
  BY <1>1, <1>2, <1>3 DEF TypeInv, TypeOK, RowReferences, RevokeApplicationSession, Stored
<1>5. QED
  BY <1>2, <1>3, <1>4
  DEF TypeInv, TypeOK, RequestReferences, RevokeApplicationSession, settingsVars

LEMMA AdminUpdateType ==
    ASSUME TypeInv, pool' = pool, NEW w \in Worker, NEW u \in User, NEW want \in Payload,
           AdminUpdate(w, u, want)
    PROVE  TypeInv'
<1>1. PICK first \in {"sessions", "codes", "commit"} :
        req' = [req EXCEPT ![w] = [NoRequest EXCEPT !.op = "admin", !.step = first,
                                                    !.at = now, !.user = u, !.want = want]]
  BY DEF AdminUpdate
<1>2. req' \in [Worker -> Request]
  <2>1. now \in Nat /\ want \in AccountRow /\ "admin" \in Op /\ first \in Step
    BY DEF TypeInv, TypeOK, Op, Step
  <2>2. [NoRequest EXCEPT !.op = "admin", !.step = first, !.at = now, !.user = u,
                          !.want = want] \in Request
    BY <2>1, BlankRows DEF Request
  <2>3. QED
    BY <1>1, <2>2 DEF TypeInv, TypeOK
<1>3. orm' \in [Worker -> Loaded]
  BY DEF TypeInv, TypeOK, AdminUpdate, Loaded
<1>4. RequestReferences'
  BY <1>1 DEF TypeInv, TypeOK, AdminUpdate, NoRequest, RequestReferences, SessionOps, AdminOps,
              Stored
<1>5. QED
  BY <1>2, <1>3, <1>4 DEF TypeInv, TypeOK, RowReferences, AdminUpdate, settingsVars

LEMMA AdminResetType ==
    ASSUME TypeInv, pool' = pool, NEW w \in Worker, NEW u \in User, AdminReset(w, u)
    PROVE  TypeInv'
<1>1. req' \in [Worker -> Request]
  BY ZenonT(40), BlankRows DEF TypeInv, TypeOK, AdminReset, Request, NoRequest, Op, Step
<1>2. RequestReferences'
  BY DEF TypeInv, TypeOK, AdminReset, NoRequest, RequestReferences, SessionOps, AdminOps, Stored
<1>3. QED
  BY <1>1, <1>2 DEF TypeInv, TypeOK, RowReferences, AdminReset, settingsVars

LEMMA AdminSessionsType ==
    ASSUME TypeInv, pool' = pool, NEW w \in Worker, AdminSessions(w)
    PROVE  TypeInv'
<1>1. req' = [req EXCEPT ![w] = [req[w] EXCEPT !.step = "codes", !.at = now]]
  BY DEF AdminSessions
<1>2. [req[w] EXCEPT !.step = "codes", !.at = now] \in Request
  <2>1. req[w] \in Request /\ now \in Nat /\ "codes" \in Step
    BY DEF TypeInv, TypeOK, Step
  <2>2. QED
    BY <2>1 DEF Request
<1>3. RequestReferences'
  <2>1. /\ req'[w].op = req[w].op /\ req'[w].sess = req[w].sess
        /\ req'[w].user = req[w].user /\ req'[w].code = req[w].code
        /\ req'[w].app = req[w].app
        /\ \A x \in Worker \ {w} : req'[x] = req[x]
    BY <1>1 DEF TypeInv, TypeOK, Request
  <2>2. QED
    BY <2>1, RequestsResolve DEF AdminSessions
<1>4. QED
  BY <1>1, <1>2, <1>3, TakenType DEF TypeInv, TypeOK, RowReferences, AdminSessions, settingsVars

LEMMA AdminCommitType ==
    ASSUME TypeInv, pool' = pool, NEW w \in Worker, AdminCommit(w)
    PROVE  TypeInv'
<1>1. req[w].at \in Nat /\ req[w].want \in AccountRow /\ orm[w].account \in AccountRow
  BY DEF TypeInv, TypeOK, Request, Loaded
<1>2. sess' \in [Session -> SessRow]
  BY Zenon, <1>1, RowUpdates DEF TypeInv, TypeOK, AdminCommit
<1>3. \A t \in Session : sess'[t].user = sess[t].user /\ sess'[t].status = sess[t].status
  BY DEF TypeInv, TypeOK, AdminCommit, SessRow
<1>4. account' \in [User -> AccountRow]
  <2>1. \A cur \in AccountRow :
          Merged(cur, orm[w].account, req[w].want) \subseteq AccountRow
    BY <1>1 DEF Merged, AssignedAfter, AccountRow
  <2>2. CASE req[w].op = "reset"
    BY <2>2 DEF TypeInv, TypeOK, AdminCommit
  <2>3. CASE req[w].op # "reset"
    <3>1. PICK row \in Merged(account[req[w].user], orm[w].account, req[w].want) :
            account' = [account EXCEPT ![req[w].user] = row]
      BY <2>3 DEF AdminCommit
    <3>2. req[w].user \in User => row \in AccountRow
      BY <2>1, <3>1 DEF TypeInv, TypeOK
    <3>3. QED
      BY <3>1, <3>2 DEF TypeInv, TypeOK
  <2>4. QED
    BY <2>2, <2>3
<1>5. RowReferences'
  BY <1>3, RevokeHeldType DEF TypeInv, RowReferences, AdminCommit, Stored
<1>6. RequestReferences'
  BY <1>3, FinishType, RequestsResolve DEF TypeInv, AdminCommit, Stored
<1>7. QED
  BY <1>2, <1>4, <1>5, <1>6, FinishType, RevokeHeldType DEF TypeInv, TypeOK, AdminCommit

LEMMA CleanupType ==
    ASSUME TypeInv, pool' = pool, Cleanup
    PROVE  TypeInv'
<1>1. PICK codes, apps : code' = WithoutCodes(code, codes) /\ app' = WithoutApps(app, apps)
  BY DEF Cleanup
<1>2. RowReferences'
  BY <1>1, DeletionType DEF TypeInv, RowReferences, Cleanup
<1>3. QED
  BY <1>1, <1>2, DeletionType DEF TypeInv, TypeOK, RequestReferences, Cleanup, settingsVars

LEMMA RollbackType ==
    ASSUME TypeInv, pool' = pool, NEW w \in Worker, Rollback(w)
    PROVE  TypeInv'
<1>1. RequestReferences'
  BY FinishType, RequestsResolve DEF TypeInv, Rollback
<1>2. QED
  BY <1>1, FinishType DEF TypeInv, TypeOK, RowReferences, Rollback, settingsVars

(* The clock and the two settings screens touch no row and no request. *)
LEMMA SettingsType ==
    ASSUME TypeInv, pool' = pool, Tick \/ UpdateRolePermissions \/ UpdateAuthenticationSettings
    PROVE  TypeInv'
<1>1. UNCHANGED <<account, sess, code, app, lock, req, orm, ended>>
  BY DEF Tick, UpdateRolePermissions, UpdateAuthenticationSettings, settingsVars
<1>2. now' \in Nat /\ launchable' \in BOOLEAN /\ idleTimeout' \in IdleChoices
  <2>1. now \in Nat /\ launchable \in BOOLEAN /\ idleTimeout \in IdleChoices
    BY DEF TypeInv, TypeOK
  <2>2. CASE Tick
    <3>1. now' = now + 1 /\ launchable' = launchable /\ idleTimeout' = idleTimeout
      BY <2>2 DEF Tick, settingsVars
    <3>2. now' \in Nat
      BY <2>1, <3>1
    <3>3. QED
      BY <2>1, <3>1, <3>2, Zenon
  <2>3. CASE UpdateRolePermissions
    <3>1. now' = now /\ launchable' = ~launchable /\ idleTimeout' = idleTimeout
      BY <2>3 DEF UpdateRolePermissions
    <3>2. (~launchable) \in BOOLEAN
      BY Zenon
    <3>3. QED
      BY <2>1, <3>1, <3>2, Zenon
  <2>4. CASE UpdateAuthenticationSettings
    <3>1. now' = now /\ launchable' = launchable /\ idleTimeout' \in IdleChoices
      BY <2>4 DEF UpdateAuthenticationSettings
    <3>2. QED
      BY <2>1, <3>1, Zenon
  <2>5. QED
    BY <2>2, <2>3, <2>4
<1>3. QED
  BY <1>1, <1>2 DEF TypeInv, TypeOK, RowReferences, RequestReferences

(* The threads that step are those of the server, which stays as it is. *)
LEMMA NextCases ==
    ASSUME TypeInv, [Next]_vars
    PROVE  /\ pool' = pool /\ pool \subseteq Worker
           /\ \/ Environment
              \/ \E w \in pool : \/ SignIn(w) \/ PortalRequest(w) \/ RadarRequest(w)
                                 \/ AdminRequest(w) \/ Rollback(w)
              \/ UNCHANGED vars
  BY DEF Next, vars, TypeInv, TypeOK

LEMMA TypeStep == TypeInv /\ [Next]_vars => TypeInv'
<1> SUFFICES ASSUME TypeInv, [Next]_vars PROVE TypeInv'
  OBVIOUS
<1>0. pool' = pool /\ pool \subseteq Worker
  BY NextCases
<1>1. CASE Environment
  BY <1>0, <1>1, RevokeApplicationSessionType, SettingsType, CleanupType DEF Environment
<1>2. ASSUME NEW w \in Worker, SignIn(w) PROVE TypeInv'
  BY <1>0, <1>2, LoginReadType, LoginCommitType DEF SignIn
<1>3. ASSUME NEW w \in Worker, PortalRequest(w) PROVE TypeInv'
  BY <1>0, <1>3, ContextReadType, ContextRefreshType, ExpireCommitType, LogoutStartType,
     LogoutLockType, LogoutCommitType, RevokeCodesType, RevokeAppsType, AuthorizeCheckType,
     AuthorizeDecideType, AuthorizeCommitType DEF PortalRequest
<1>4. ASSUME NEW w \in Worker, RadarRequest(w) PROVE TypeInv'
  BY <1>0, <1>4, ExchangeReadType, ExchangeDecideType, ExchangeRejectType, ExchangeGrantType,
     IntrospectReadType, IntrospectDecideType, IntrospectRejectType, IntrospectActiveType
  DEF RadarRequest
<1>5. ASSUME NEW w \in Worker, AdminRequest(w) PROVE TypeInv'
  BY <1>0, <1>5, AdminUpdateType, AdminResetType, AdminSessionsType, AdminCommitType
  DEF AdminRequest
<1>6. CASE UNCHANGED vars
  BY <1>6 DEF vars, settingsVars, TypeInv, TypeOK, RowReferences, RequestReferences
<1>7. QED
  BY <1>0, <1>1, <1>2, <1>3, <1>4, <1>5, <1>6, RollbackType, NextCases

(* Rows, locks, requests and ORM copies keep their types, and every        *)
(* reference a handler follows resolves.                                   *)
THEOREM TypeInvariance == Spec => []TypeInv
<1>1. Init => TypeInv
  BY TypeInit
<1>2. TypeInv /\ [Next]_vars => TypeInv'
  BY TypeStep
<1>3. QED
  BY <1>1, <1>2, PTL DEF Spec

(* In particular the rows, locks and requests of every reachable state are *)
(* of their types.                                                         *)
THEOREM TypeCorrect == Spec => []TypeOK
<1>1. TypeInv => TypeOK
  BY DEF TypeInv
<1>2. QED
  BY <1>1, TypeInvariance, PTL

-----------------------------------------------------------------------------
(* The row locks.  The assumptions are cited from here on where a proof    *)
(* needs them.                                                             *)
HIDE DurationsArePositive
HIDE IdentitiesAreDistinct
HIDE PayloadsAreRows
HIDE DEF Never

(* What w holds while it serves a request.  A positive verdict is given    *)
(* and committed under the lock of its portal session; a logout keeps that *)
(* lock from its first read, and an administrator that of every session    *)
(* it ends; once the UPDATEs are through, every live application session   *)
(* under such a portal session is locked as well, ready to be revoked.     *)
Secured(w) ==
    LET r == req[w] IN
    /\ r.op = "idle" => r.step = "start" /\ \A x \in Row : lock[x] # w
    /\ r.verdict \in {"grant", "active"} =>
            /\ r.op \in {"exchange", "introspect"} /\ r.step = "commit"
            /\ lock[r.sess] = w /\ sess[r.sess].revoked = Never
    /\ r.op = "logout" /\ r.step \in {"codes", "apps", "commit"} => lock[r.sess] = w
    /\ r.op = "logout" /\ r.step = "commit" =>
            \A a \in AppSession : LiveApp(a) /\ app[a].parent = r.sess => lock[a] = w
    /\ r.op \in AdminOps =>
            \A s \in Session : lock[s] = w => Stored(sess[s]) /\ sess[s].user = r.user
    /\ r.op \in AdminOps /\ r.step = "commit" =>
            \A a \in AppSession : LiveApp(a) /\ lock[app[a].parent] = w => lock[a] = w

EndedAreRevoked == \A s \in ended : Stored(sess[s]) /\ sess[s].revoked # Never

LockInv ==
    /\ \A w \in Worker : Secured(w)
    /\ EndedAreRevoked
    /\ EndedParentsAreBarren

(* What a step of v (None: of the environment) may do to what the others   *)
(* rely on: it leaves their requests and locks alone, writes the revoked   *)
(* column only of sessions nobody else has locked and never clears it, and *)
(* brings an application session to life only under an unrevoked portal    *)
(* session that v itself has locked.                                       *)
KeepsToItself(v) ==
    /\ \A w \in Worker \ {v} : req'[w] = req[w]
    /\ \A w \in Worker \ {v}, x \in Row : lock'[x] = w <=> lock[x] = w

SessionsRespected(v) ==
    \A s \in Session : Stored(sess[s]) =>
        /\ Stored(sess'[s]) /\ sess'[s].user = sess[s].user
        /\ sess'[s].revoked # sess[s].revoked => lock[s] \in {None, v}
        /\ sess[s].revoked # Never => sess'[s].revoked # Never

AppsRespected(v) ==
    \A a \in AppSession : LiveApp(a)' =>
        \/ LiveApp(a) /\ app'[a].parent = app[a].parent
        \/ /\ app'[a].parent \in Session
           /\ lock[app'[a].parent] = v /\ sess[app'[a].parent].revoked = Never

RespectsLocks(v) == KeepsToItself(v) /\ SessionsRespected(v) /\ AppsRespected(v)

(* Sessions a step adds to ended are revoked with all that hangs under     *)
(* them.                                                                   *)
EndsCleanly ==
    \A s \in ended' \ ended :
        /\ Stored(sess'[s]) /\ sess'[s].revoked # Never
        /\ \A a \in AppSession : LiveApp(a)' => app'[a].parent # s

-----------------------------------------------------------------------------
(* A step that respects the locks keeps what the other workers rely on.    *)
LEMMA OthersStaySecured ==
    ASSUME TypeInv, LockInv, NEW v \in Worker \cup {None}, RespectsLocks(v),
           NEW w \in Worker, w # v
    PROVE  Secured(w)'
<1> DEFINE r == req[w]
<1>1. /\ req'[w] = r /\ Secured(w) /\ w # None
      /\ \A x \in Row : lock'[x] = w <=> lock[x] = w
  BY IdentitiesAreDistinct DEF LockInv, RespectsLocks, KeepsToItself
<1>2. \A a \in AppSession : LiveApp(a) => app[a].parent \in Session
  BY DEF TypeInv, RowReferences, LiveApp
<1>3. r.op \in SessionOps => r.sess \in Session /\ Stored(sess[r.sess])
  BY DEF TypeInv, RequestReferences
<1>4. r.op = "idle" => r.step = "start" /\ \A x \in Row : lock'[x] # w
  BY <1>1 DEF Secured
<1>5. ASSUME r.verdict \in {"grant", "active"}
      PROVE  /\ r.op \in {"exchange", "introspect"} /\ r.step = "commit"
             /\ lock'[r.sess] = w /\ sess'[r.sess].revoked = Never
  <2>1. /\ r.op \in {"exchange", "introspect"} /\ r.step = "commit"
        /\ lock[r.sess] = w /\ sess[r.sess].revoked = Never
    BY <1>1, <1>5 DEF Secured
  <2>2. r.sess \in Session /\ Stored(sess[r.sess]) /\ r.sess \in Row
    BY <1>3, <2>1 DEF SessionOps, Row
  <2>3. sess'[r.sess].revoked = sess[r.sess].revoked
    BY <1>1, <2>1, <2>2 DEF RespectsLocks, SessionsRespected
  <2>4. QED
    BY <1>1, <2>1, <2>2, <2>3
<1>6. ASSUME r.op = "logout", r.step \in {"codes", "apps", "commit"}
      PROVE  lock[r.sess] = w /\ lock'[r.sess] = w
  BY <1>1, <1>3, <1>6 DEF Secured, SessionOps, Row
<1>7. ASSUME r.op = "logout", r.step = "commit", NEW a \in AppSession, LiveApp(a)',
             app'[a].parent = r.sess
      PROVE  lock'[a] = w
  <2>1. LiveApp(a) /\ app[a].parent = r.sess
    BY <1>1, <1>6, <1>7 DEF RespectsLocks, AppsRespected
  <2>2. QED
    BY <1>1, <1>7, <2>1 DEF Secured, Row
<1>8. ASSUME r.op \in AdminOps, NEW s \in Session, lock'[s] = w
      PROVE  Stored(sess'[s]) /\ sess'[s].user = r.user
  <2>1. lock[s] = w
    BY <1>1, <1>8 DEF Row
  <2>2. Stored(sess[s]) /\ sess[s].user = r.user
    BY <1>1, <1>8, <2>1 DEF Secured
  <2>3. QED
    BY <2>2 DEF RespectsLocks, SessionsRespected
<1>9. ASSUME r.op \in AdminOps, r.step = "commit", NEW a \in AppSession, LiveApp(a)',
             lock'[app'[a].parent] = w
      PROVE  lock'[a] = w
  <2>1. app'[a].parent \in Session
    BY <1>2, <1>9 DEF RespectsLocks, AppsRespected
  <2>2. lock[app'[a].parent] = w
    BY <1>1, <1>9, <2>1 DEF Row
  <2>3. LiveApp(a) /\ app'[a].parent = app[a].parent
    BY <1>1, <1>9, <2>2 DEF RespectsLocks, AppsRespected
  <2>4. QED
    BY <1>1, <1>9, <2>2, <2>3 DEF Secured, Row
<1>10. QED
  <2>1. req'[w] = r
    BY <1>1
  <2> HIDE DEF r
  <2>2. QED
    BY <2>1, <1>4, <1>5, <1>6, <1>7, <1>8, <1>9 DEF Secured, LiveApp

(* A step that respects the locks, ends sessions cleanly and leaves its own *)
(* worker secured keeps the lock invariant.                                *)
LEMMA LockStep ==
    ASSUME TypeInv, LockInv, NEW v \in Worker \cup {None}, RespectsLocks(v), EndsCleanly,
           v \in Worker => Secured(v)'
    PROVE  LockInv'
<1>1. \A w \in Worker : Secured(w)'
  BY OthersStaySecured
<1>2. ended \subseteq Session
  BY DEF TypeInv, TypeOK
<1>3. EndedAreRevoked'
  BY <1>2 DEF LockInv, EndedAreRevoked, RespectsLocks, SessionsRespected, EndsCleanly
<1>4. ASSUME NEW a \in AppSession, LiveApp(a)'
      PROVE  app'[a].parent \notin ended'
  <2>1. app'[a].parent \notin ended
    <3>1. CASE LiveApp(a) /\ app'[a].parent = app[a].parent
      BY <3>1 DEF LockInv, EndedParentsAreBarren
    <3>2. CASE sess[app'[a].parent].revoked = Never
      BY <3>2 DEF LockInv, EndedAreRevoked
    <3>3. QED
      BY <1>4, <3>1, <3>2 DEF RespectsLocks, AppsRespected
  <2>2. QED
    BY <1>4, <2>1 DEF EndsCleanly
<1>5. EndedParentsAreBarren'
  BY <1>4 DEF EndedParentsAreBarren, LiveApp
<1>6. QED
  BY <1>1, <1>3, <1>5 DEF LockInv

-----------------------------------------------------------------------------
(* The pieces actions are made of respect the locks. *)

LEMMA FinishLocks ==
    ASSUME TypeInv, NEW v \in Worker, Finish(v)
    PROVE  KeepsToItself(v) /\ Secured(v)'
<1>1. /\ req' = [req EXCEPT ![v] = NoRequest]
      /\ \A x \in Row : lock'[x] = IF lock[x] = v THEN None ELSE lock[x]
  BY DEF Finish, Released
<1>2. v # None /\ req'[v] = NoRequest
  BY <1>1, IdentitiesAreDistinct DEF TypeInv, TypeOK
<1>3. KeepsToItself(v)
  BY <1>1, <1>2, IdentitiesAreDistinct DEF TypeInv, TypeOK, KeepsToItself
<1>4. Secured(v)'
  BY <1>1, <1>2 DEF Secured, NoRequest, AdminOps
<1>5. QED
  BY <1>3, <1>4

LEMMA TakenLocks ==
    ASSUME NEW v \in Worker, NEW rows, CanLock(v, rows), lock' = Taken(v, rows)
    PROVE  /\ \A w \in Worker \ {v}, x \in Row : lock'[x] = w <=> lock[x] = w
           /\ \A x \in Row : lock'[x] = v <=> lock[x] = v \/ x \in rows
  BY IdentitiesAreDistinct DEF CanLock, Taken

LEMMA SessionsUntouched ==
    ASSUME UNCHANGED sess, NEW v
    PROVE  SessionsRespected(v)
  BY DEF SessionsRespected

LEMMA AppsUntouched ==
    ASSUME UNCHANGED app, NEW v
    PROVE  AppsRespected(v)
  BY DEF AppsRespected, LiveApp

LEMMA AppsDeleted ==
    ASSUME TypeInv, NEW rows, app' = WithoutApps(app, rows), NEW v
    PROVE  AppsRespected(v)
<1>1. \A a \in AppSession : Stored(app'[a]) => app'[a] = app[a]
  BY DeletionType DEF TypeInv
<1>2. QED
  BY <1>1 DEF AppsRespected, LiveApp

(* What the revoking UPDATEs of v have locked is no longer live. *)
LEMMA HeldAreRevoked ==
    ASSUME TypeInv, NEW v \in Worker, RevokeHeld(v)
    PROVE  \A a \in AppSession : LiveApp(a)' =>
                LiveApp(a) /\ app'[a].parent = app[a].parent /\ lock[a] # v
<1>1. req[v].at # Never
  BY DEF TypeInv, TypeOK, Request, Never
<1>2. \A a \in AppSession : app[a] \in AppRow
  BY DEF TypeInv, TypeOK
<1>3. \A a \in AppSession : lock[a] = v => app'[a].revoked = req[v].at
  BY <1>2 DEF RevokeHeld, AppRow
<1>4. \A a \in AppSession : lock[a] # v => app'[a] = app[a]
  BY DEF RevokeHeld
<1>5. QED
  BY <1>1, <1>3, <1>4 DEF LiveApp

(* A worker that has only read owes nothing. *)
LEMMA NothingOwed ==
    ASSUME NEW v \in Worker, req'[v].verdict \notin {"grant", "active"},
           req'[v].op \notin {"idle", "logout"} \cup AdminOps
    PROVE  Secured(v)'
  BY DEF Secured

-----------------------------------------------------------------------------
(* Each action keeps the lock invariant. *)

LEMMA LockInit == Init => LockInv
  BY IdentitiesAreDistinct
  DEF Init, LockInv, Secured, NoRequest, AdminOps, EndedAreRevoked, EndedParentsAreBarren,
      LiveApp, NoApp, Stored

(* The first step of a request reads, and may delete rows of a cleanup. *)
LEMMA ReadLocks ==
    ASSUME TypeInv, LockInv, NEW v \in Worker, UNCHANGED <<sess, app, ended, lock>>,
           req[v].op = "idle", NEW x, req' = [req EXCEPT ![v] = x],
           x.verdict \notin {"grant", "active"}, x.op # "idle",
           x.op = "logout" => x.step = "lock"
    PROVE  LockInv'
<1>1. req'[v] = x /\ \A y \in Row : lock[y] # v
  BY DEF TypeInv, TypeOK, LockInv, Secured
<1>2. KeepsToItself(v)
  BY DEF KeepsToItself, TypeInv, TypeOK
<1>3. Secured(v)'
  <2>1. \A s \in Session : lock'[s] # v
    BY <1>1 DEF Row
  <2>2. \A a \in AppSession : LiveApp(a)' => lock'[app'[a].parent] # v
    BY <1>1 DEF LiveApp, TypeInv, RowReferences, Row
  <2>3. QED
    BY <1>1, <2>1, <2>2 DEF Secured
<1>4. QED
  BY <1>2, <1>3, SessionsUntouched, AppsUntouched, LockStep DEF RespectsLocks, EndsCleanly

LEMMA LoginReadLocks ==
    ASSUME TypeInv, LockInv, NEW v \in Worker, NEW u \in User, LoginRead(v, u)
    PROVE  LockInv'
<1> DEFINE x == [NoRequest EXCEPT !.op = "login", !.step = "commit", !.user = u]
<1>1. x.op = "login" /\ x.verdict = "none"
  BY DEF NoRequest
<1>2. /\ req' = [req EXCEPT ![v] = x] /\ req[v].op = "idle"
      /\ UNCHANGED <<sess, app, ended, lock>>
  BY DEF LoginRead, Idle
<1> HIDE DEF x
<1>3. QED
  BY <1>1, <1>2, ReadLocks

LEMMA LoginCommitLocks ==
    ASSUME TypeInv, LockInv, NEW v \in Worker, NEW s \in Session, LoginCommit(v, s)
    PROVE  LockInv'
<1>1. ~Stored(sess[s]) /\ \A t \in Session : t # s => sess'[t] = sess[t]
  BY DEF LoginCommit, Stored, TypeInv, TypeOK
<1>2. SessionsRespected(v)
  BY <1>1 DEF SessionsRespected
<1>3. QED
  BY <1>2, FinishLocks, AppsUntouched, LockStep DEF RespectsLocks, EndsCleanly, LoginCommit

LEMMA ContextReadLocks ==
    ASSUME TypeInv, LockInv, NEW v \in Worker, NEW s \in Session, NEW kind,
           ContextRead(v, s, kind)
    PROVE  LockInv'
<1> DEFINE ends == ContextExpired(sess[s], now) \/ ~account[sess[s].user].enabled
           x == [NoRequest EXCEPT !.op = IF ends THEN "expire" ELSE kind,
                                  !.step = IF ends THEN "codes" ELSE "start",
                                  !.at = now, !.idle = idleTimeout, !.sess = s]
<1>1. x.op \in {"expire", "visit", "authorize"} /\ x.verdict = "none"
  <2>1. kind \in {"visit", "authorize"}
    BY DEF ContextRead
  <2> HIDE DEF ends
  <2>2. QED
    BY <2>1 DEF NoRequest
<1>2. /\ req' = [req EXCEPT ![v] = x] /\ req[v].op = "idle"
      /\ UNCHANGED <<sess, app, ended, lock>>
  BY DEF ContextRead, Idle
<1> HIDE DEF x
<1>3. QED
  BY <1>1, <1>2, ReadLocks

LEMMA ContextRefreshLocks ==
    ASSUME TypeInv, LockInv, NEW v \in Worker, ContextRefresh(v)
    PROVE  LockInv'
<1> DEFINE s == req[v].sess
<1>1. /\ req[v].op \in {"visit", "authorize"} /\ req[v].step = "start" /\ s \in Session
      /\ UNCHANGED <<app, ended>>
  BY DEF ContextRefresh, TypeInv, RequestReferences, SessionOps
<1>2. SessionsRespected(v)
  <2>1. \A t \in Session : /\ sess'[t].user = sess[t].user /\ sess'[t].status = sess[t].status
                           /\ sess'[t].revoked = sess[t].revoked
    BY <1>1 DEF ContextRefresh, TypeInv, TypeOK, SessRow
  <2>2. QED
    BY <2>1 DEF SessionsRespected, Stored
<1>3. KeepsToItself(v) /\ Secured(v)'
  <2>1. CASE Finish(v)
    BY <2>1, FinishLocks
  <2>2. CASE req' = [req EXCEPT ![v].step = "check"] /\ UNCHANGED lock
    <3>1. req'[v].op = req[v].op /\ req'[v].verdict = req[v].verdict
      BY <2>2 DEF TypeInv, TypeOK, Request
    <3>2. req[v].verdict \notin {"grant", "active"}
      BY <1>1 DEF LockInv, Secured
    <3>3. Secured(v)'
      BY <1>1, <3>1, <3>2, NothingOwed DEF AdminOps
    <3>4. QED
      BY <2>2, <3>3 DEF KeepsToItself, TypeInv, TypeOK
  <2>3. QED
    BY <2>1, <2>2 DEF ContextRefresh
<1>4. QED
  BY <1>1, <1>2, <1>3, AppsUntouched, LockStep DEF RespectsLocks, EndsCleanly

LEMMA ExpireCommitLocks ==
    ASSUME TypeInv, LockInv, NEW v \in Worker, ExpireCommit(v)
    PROVE  LockInv'
<1> DEFINE s == req[v].sess
<1>1. s \in Session /\ req[v].at # Never /\ lock[s] \in {None, v}
  BY DEF ExpireCommit, At, CanLock, TypeInv, TypeOK, RequestReferences, SessionOps, Request,
         Never
<1>2. SessionsRespected(v)
  <2>1. \A t \in Session : /\ sess'[t].user = sess[t].user /\ sess'[t].status = sess[t].status
                           /\ sess'[t].revoked = IF t = s THEN req[v].at ELSE sess[t].revoked
    BY <1>1 DEF ExpireCommit, TypeInv, TypeOK, SessRow
  <2>2. QED
    BY <1>1, <2>1 DEF SessionsRespected, Stored
<1>3. AppsRespected(v)
  BY HeldAreRevoked DEF ExpireCommit, AppsRespected
<1>4. QED
  BY <1>2, <1>3, FinishLocks, LockStep DEF RespectsLocks, EndsCleanly, ExpireCommit

(* A step in the middle of a request: it takes locks and moves on. *)
LEMMA LockingStep ==
    ASSUME TypeInv, LockInv, NEW v \in Worker, UNCHANGED <<sess, app, ended>>,
           NEW rows, CanLock(v, rows), lock' = Taken(v, rows),
           NEW x, req' = [req EXCEPT ![v] = x], Secured(v)'
    PROVE  LockInv'
<1>1. KeepsToItself(v)
  BY TakenLocks DEF KeepsToItself, TypeInv, TypeOK
<1>2. QED
  BY <1>1, SessionsUntouched, AppsUntouched, LockStep DEF RespectsLocks, EndsCleanly

LEMMA RevokeCodesLocks ==
    ASSUME TypeInv, LockInv, NEW v \in Worker, RevokeCodes(v)
    PROVE  LockInv'
<1> DEFINE rows == TargetCodes(req[v])
           x == [req[v] EXCEPT !.step = "apps"]
<1>1. /\ req' = [req EXCEPT ![v] = x] /\ CanLock(v, rows) /\ lock' = Taken(v, rows)
      /\ UNCHANGED <<sess, app, ended>> /\ req[v].step = "codes"
  BY DEF RevokeCodes
<1>2. /\ req'[v].op = req[v].op /\ req'[v].verdict = req[v].verdict
      /\ req'[v].sess = req[v].sess /\ req'[v].user = req[v].user /\ req'[v].step = "apps"
  BY <1>1 DEF TypeInv, TypeOK, Request
<1>3. /\ req[v].op # "idle" /\ req[v].verdict \notin {"grant", "active"}
      /\ req[v].op = "logout" => lock[req[v].sess] = v /\ req[v].sess \in Row
  BY <1>1 DEF LockInv, Secured, TypeInv, RequestReferences, SessionOps, Row
<1>4. \A s \in Session : lock'[s] = v <=> lock[s] = v
  BY SMTT(30), <1>1, TakenLocks, IdentitiesAreDistinct DEF TargetCodes, Row
<1>5. \A y \in Row : lock[y] = v => lock'[y] = v
  BY <1>1, TakenLocks
<1>6. Secured(v)'
  BY <1>1, <1>2, <1>3, <1>4, <1>5 DEF LockInv, Secured
<1> HIDE DEF rows, x
<1>7. QED
  BY <1>1, <1>6, LockingStep

LEMMA RevokeAppsLocks ==
    ASSUME TypeInv, LockInv, NEW v \in Worker, RevokeApps(v)
    PROVE  LockInv'
<1> DEFINE rows == TargetApps(req[v])
           x == [req[v] EXCEPT !.step = "commit"]
<1>1. /\ req' = [req EXCEPT ![v] = x] /\ CanLock(v, rows) /\ lock' = Taken(v, rows)
      /\ UNCHANGED <<sess, app, ended>> /\ req[v].step = "apps"
  BY DEF RevokeApps
<1>2. /\ req'[v].op = req[v].op /\ req'[v].verdict = req[v].verdict
      /\ req'[v].sess = req[v].sess /\ req'[v].user = req[v].user /\ req'[v].step = "commit"
  BY <1>1 DEF TypeInv, TypeOK, Request
<1>3. /\ req[v].op # "idle" /\ req[v].verdict \notin {"grant", "active"}
      /\ req[v].op = "logout" => lock[req[v].sess] = v /\ req[v].sess \in Row
  BY <1>1 DEF LockInv, Secured, TypeInv, RequestReferences, SessionOps, Row
<1>4. \A s \in Session : lock'[s] = v <=> lock[s] = v
  BY SMTT(30), <1>1, TakenLocks, IdentitiesAreDistinct DEF TargetApps, Row
<1>5. \A y \in Row : lock'[y] = v <=> lock[y] = v \/ y \in rows
  BY <1>1, TakenLocks
<1>6. ASSUME req[v].op = "logout", NEW a \in AppSession, LiveApp(a), app[a].parent = req[v].sess
      PROVE  lock'[a] = v
  BY <1>5, <1>6 DEF TargetApps, LiveApp, AdminOps, Row
<1>7. ASSUME req[v].op \in AdminOps, NEW a \in AppSession, LiveApp(a),
             lock'[app[a].parent] = v
      PROVE  lock'[a] = v
  <2>1. app[a].parent \in Session /\ lock[app[a].parent] = v
    BY <1>4, <1>7 DEF TypeInv, RowReferences, LiveApp
  <2>2. sess[app[a].parent].user = req[v].user
    BY <1>7, <2>1 DEF LockInv, Secured
  <2>3. QED
    BY <1>5, <1>7, <2>2 DEF TargetApps, LiveApp, Row
<1>8. Secured(v)'
  <2>1. req'[v].op = "logout" => lock'[req'[v].sess] = v
    BY <1>2, <1>3, <1>5
  <2>2. req'[v].op \in AdminOps =>
            \A s \in Session : lock'[s] = v => Stored(sess'[s]) /\ sess'[s].user = req'[v].user
    BY <1>1, <1>2, <1>4 DEF LockInv, Secured
  <2> HIDE DEF rows, x
  <2>3. QED
    BY <1>1, <1>2, <1>3, <1>6, <1>7, <2>1, <2>2 DEF Secured, LiveApp
<1> HIDE DEF rows, x
<1>9. QED
  BY <1>1, <1>8, LockingStep

LEMMA LogoutStartLocks ==
    ASSUME TypeInv, LockInv, NEW v \in Worker, NEW s \in Session, LogoutStart(v, s)
    PROVE  LockInv'
<1> DEFINE x == [NoRequest EXCEPT !.op = "logout", !.step = "lock", !.sess = s]
<1>1. x.op = "logout" /\ x.step = "lock" /\ x.verdict = "none"
  BY DEF NoRequest
<1>2. /\ req' = [req EXCEPT ![v] = x] /\ req[v].op = "idle"
      /\ UNCHANGED <<sess, app, ended, lock>>
  BY DEF LogoutStart, Idle
<1> HIDE DEF x
<1>3. QED
  BY <1>1, <1>2, ReadLocks

LEMMA LogoutLockLocks ==
    ASSUME TypeInv, LockInv, NEW v \in Worker, LogoutLock(v)
    PROVE  LockInv'
<1> DEFINE s == req[v].sess
           x == [req[v] EXCEPT !.step = "codes", !.at = now]
<1>1. /\ req[v].op = "logout" /\ req[v].step = "lock" /\ CanLock(v, {s}) /\ s \in Session
      /\ UNCHANGED <<sess, app, ended>>
  BY DEF LogoutLock, At, TypeInv, RequestReferences, SessionOps
<1>2. CASE Finish(v)
  BY <1>1, <1>2, FinishLocks, SessionsUntouched, AppsUntouched, LockStep
  DEF RespectsLocks, EndsCleanly
<1>3. CASE lock' = Taken(v, {s}) /\ req' = [req EXCEPT ![v] = x]
  <2>1. /\ req'[v].op = "logout" /\ req'[v].step = "codes" /\ req'[v].sess = s
        /\ req'[v].verdict = req[v].verdict
    BY <1>1, <1>3 DEF TypeInv, TypeOK, Request
  <2>2. req[v].verdict \notin {"grant", "active"}
    BY <1>1 DEF LockInv, Secured
  <2>3. lock'[s] = v
    BY <1>1, <1>3 DEF Row, Taken
  <2>4. Secured(v)'
    BY <2>1, <2>2, <2>3 DEF Secured, AdminOps
  <2> HIDE DEF x, s
  <2>5. QED
    BY <1>1, <1>3, <2>4, LockingStep
<1>4. QED
  BY <1>2, <1>3 DEF LogoutLock

LEMMA LogoutCommitLocks ==
    ASSUME TypeInv, LockInv, NEW v \in Worker, LogoutCommit(v)
    PROVE  LockInv'
<1> DEFINE s == req[v].sess
<1>1. /\ s \in Session /\ Stored(sess[s]) /\ req[v].at # Never
      /\ req[v].op = "logout" /\ req[v].step = "commit"
  BY DEF LogoutCommit, At, TypeInv, TypeOK, RequestReferences, SessionOps, Request, Never
<1>2. lock[s] = v /\ \A a \in AppSession : LiveApp(a) /\ app[a].parent = s => lock[a] = v
  BY <1>1 DEF LockInv, Secured
<1>3. \A t \in Session : /\ sess'[t].user = sess[t].user /\ sess'[t].status = sess[t].status
                         /\ sess'[t].revoked = IF t = s THEN req[v].at ELSE sess[t].revoked
  BY <1>1 DEF LogoutCommit, TypeInv, TypeOK, SessRow
<1>4. SessionsRespected(v)
  BY <1>1, <1>2, <1>3 DEF SessionsRespected, Stored
<1>5. \A a \in AppSession : LiveApp(a)' =>
            LiveApp(a) /\ app'[a].parent = app[a].parent /\ lock[a] # v
  BY HeldAreRevoked DEF LogoutCommit
<1>6. EndsCleanly
  BY <1>1, <1>2, <1>3, <1>5 DEF EndsCleanly, LogoutCommit, Stored
<1>7. AppsRespected(v)
  BY <1>5 DEF AppsRespected
<1>8. QED
  BY <1>4, <1>6, <1>7, FinishLocks, LockStep DEF RespectsLocks, LogoutCommit

LEMMA AuthorizeCheckLocks ==
    ASSUME TypeInv, LockInv, NEW v \in Worker, AuthorizeCheck(v)
    PROVE  LockInv'
<1>1. /\ req[v].op = "authorize" /\ req[v].step = "check"
      /\ UNCHANGED <<sess, app, lock, ended>>
  BY DEF AuthorizeCheck, At
<1>2. req[v].verdict \notin {"grant", "active"}
  BY <1>1 DEF LockInv, Secured
<1>3. /\ \A w \in Worker \ {v} : req'[w] = req[w]
      /\ req'[v].verdict = req[v].verdict
      /\ \/ req'[v].op = "authorize"
         \/ req'[v].op = "logout" /\ req'[v].step = "lock"
  BY <1>1 DEF AuthorizeCheck, TypeInv, TypeOK, Request
<1>4. Secured(v)'
  BY <1>2, <1>3 DEF Secured, AdminOps
<1>5. KeepsToItself(v)
  BY SMTT(30), <1>1, <1>3 DEF KeepsToItself
<1>6. QED
  BY <1>1, <1>4, <1>5, SessionsUntouched, AppsUntouched, LockStep DEF RespectsLocks, EndsCleanly

LEMMA AuthorizeDecideLocks ==
    ASSUME TypeInv, LockInv, NEW v \in Worker, AuthorizeDecide(v)
    PROVE  LockInv'
<1>1. /\ req[v].op = "authorize" /\ req[v].step = "decide" /\ CanLock(v, {Radar})
      /\ UNCHANGED <<sess, app, ended>>
  BY Zenon DEF AuthorizeDecide, At
<1>2. CASE Finish(v)
  BY <1>1, <1>2, FinishLocks, SessionsUntouched, AppsUntouched, LockStep
  DEF RespectsLocks, EndsCleanly
<1>3. ASSUME NEW rows, CanLock(v, rows), lock' = Taken(v, rows \cup {Radar}),
             req' = [req EXCEPT ![v] = [req[v] EXCEPT !.step = "commit", !.at = now,
                                                      !.doomed = rows]]
      PROVE  LockInv'
  <2> DEFINE x == [req[v] EXCEPT !.step = "commit", !.at = now, !.doomed = rows]
  <2>1. CanLock(v, rows \cup {Radar})
    BY <1>1, <1>3 DEF CanLock
  <2>2. req'[v].op = "authorize" /\ req'[v].verdict = req[v].verdict
    BY <1>1, <1>3 DEF TypeInv, TypeOK, Request
  <2>3. Secured(v)'
    BY <1>1, <2>2, NothingOwed DEF LockInv, Secured, AdminOps
  <2>4. req' = [req EXCEPT ![v] = x]
    BY <1>3
  <2> HIDE DEF x
  <2>5. QED
    BY <1>1, <1>3, <2>1, <2>3, <2>4, LockingStep
<1>4. QED
  BY ZenonT(40), <1>2, <1>3 DEF AuthorizeDecide

LEMMA AuthorizeCommitLocks ==
    ASSUME TypeInv, LockInv, NEW v \in Worker, NEW c \in Code, AuthorizeCommit(v, c)
    PROVE  LockInv'
  BY AppsDeleted, FinishLocks, SessionsUntouched, LockStep
  DEF RespectsLocks, EndsCleanly, AuthorizeCommit

LEMMA ExchangeReadLocks ==
    ASSUME TypeInv, LockInv, NEW v \in Worker, NEW c \in Code, NEW proof \in BOOLEAN,
           ExchangeRead(v, c, proof)
    PROVE  LockInv'
<1>1. PICK rows, step, verdict :
        /\ CanLock(v, rows) /\ lock' = Taken(v, rows) /\ verdict \in {"reject", "none"}
        /\ req' = [req EXCEPT ![v] =
                [NoRequest EXCEPT !.op = "exchange", !.at = now, !.code = c,
                                  !.sess = code[c].parent, !.proof = proof, !.doomed = rows,
                                  !.step = step, !.verdict = verdict]]
  BY Zenon DEF ExchangeRead
<1> DEFINE x == [NoRequest EXCEPT !.op = "exchange", !.at = now, !.code = c,
                                  !.sess = code[c].parent, !.proof = proof, !.doomed = rows,
                                  !.step = step, !.verdict = verdict]
<1>2. UNCHANGED <<sess, app, ended>>
  BY DEF ExchangeRead
<1>3. req' = [req EXCEPT ![v] = x]
  BY <1>1
<1>4. req'[v].op = "exchange" /\ req'[v].verdict = verdict
  BY <1>1 DEF TypeInv, TypeOK, NoRequest
<1>5. Secured(v)'
  BY <1>1, <1>4, NothingOwed DEF AdminOps
<1> HIDE DEF x
<1>6. QED
  BY <1>1, <1>2, <1>3, <1>5, LockingStep

(* A grant is decided with the lock of an unrevoked portal session in hand. *)
LEMMA ExchangeDecideLocks ==
    ASSUME TypeInv, LockInv, NEW v \in Worker, ExchangeDecide(v)
    PROVE  LockInv'
<1> DEFINE verdict == ExchangeVerdict(v)
           s == req[v].sess
           rows == {s, req[v].code} \cup IF verdict = "reject" THEN {}
                                         ELSE {sess[s].user, Radar}
           x == [req[v] EXCEPT !.step = "commit", !.verdict = verdict]
<1>1. /\ req[v].op = "exchange" /\ s \in Session
      /\ CanLock(v, rows) /\ lock' = Taken(v, rows) /\ req' = [req EXCEPT ![v] = x]
      /\ UNCHANGED <<sess, app, ended>>
  BY DEF ExchangeDecide, At, TypeInv, RequestReferences, SessionOps
<1>2. verdict = "grant" => sess[s].revoked = Never
  BY DEF ExchangeVerdict, CanAuthorize, ParentIsActive
<1>3. verdict # "active"
  BY DEF ExchangeVerdict
<1>4. /\ req'[v].op = "exchange" /\ req'[v].step = "commit" /\ req'[v].sess = s
      /\ req'[v].verdict = verdict
  BY <1>1 DEF TypeInv, TypeOK, Request
<1>5. lock'[s] = v
  <2>1. s \in rows /\ s \in Row
    BY <1>1 DEF Row
  <2> HIDE DEF rows
  <2>2. QED
    BY <1>1, <2>1, TakenLocks
<1>6. Secured(v)'
  <2> HIDE DEF verdict, s, rows, x
  <2>1. QED
    BY <1>1, <1>2, <1>3, <1>4, <1>5 DEF Secured, AdminOps
<1> HIDE DEF verdict, s, rows, x
<1>7. QED
  BY <1>1, <1>6, LockingStep

LEMMA ExchangeRejectLocks ==
    ASSUME TypeInv, LockInv, NEW v \in Worker, ExchangeReject(v)
    PROVE  LockInv'
  BY AppsDeleted, FinishLocks, SessionsUntouched, LockStep
  DEF RespectsLocks, EndsCleanly, ExchangeReject

(* The session issued hangs under the portal session locked since the      *)
(* decision.                                                               *)
LEMMA ExchangeGrantLocks ==
    ASSUME TypeInv, LockInv, NEW v \in Worker, NEW a \in AppSession, ExchangeGrant(v, a)
    PROVE  LockInv'
<1> DEFINE s == req[v].sess
<1>1. /\ s \in Session /\ lock[s] = v /\ sess[s].revoked = Never
      /\ UNCHANGED <<sess, ended>> /\ Finish(v)
  BY DEF ExchangeGrant, At, TypeInv, RequestReferences, SessionOps, LockInv, Secured
<1>2. /\ \A b \in AppSession \ {a} : app'[b] = WithoutApps(app, req[v].doomed)[b]
      /\ app'[a].parent = s
  BY DEF ExchangeGrant, WithoutApps
<1>3. AppsRespected(v)
  <2>1. \A b \in AppSession \ {a} : Stored(app'[b]) => app'[b] = app[b]
    BY <1>2, DeletionType DEF TypeInv
  <2>2. QED
    BY <1>1, <1>2, <2>1 DEF AppsRespected, LiveApp
<1>4. QED
  BY <1>1, <1>3, FinishLocks, SessionsUntouched, LockStep DEF RespectsLocks, EndsCleanly

LEMMA IntrospectReadLocks ==
    ASSUME TypeInv, LockInv, NEW v \in Worker, NEW a \in AppSession, IntrospectRead(v, a)
    PROVE  LockInv'
<1> DEFINE x == [NoRequest EXCEPT !.op = "introspect", !.step = "decide", !.at = now,
                                  !.app = a, !.sess = app[a].parent]
<1>1. x.op = "introspect" /\ x.verdict = "none"
  BY DEF NoRequest
<1>2. /\ req' = [req EXCEPT ![v] = x] /\ req[v].op = "idle"
      /\ UNCHANGED <<sess, app, ended, lock>>
  BY DEF IntrospectRead, Idle
<1> HIDE DEF x
<1>3. QED
  BY <1>1, <1>2, ReadLocks

LEMMA IntrospectDecideLocks ==
    ASSUME TypeInv, LockInv, NEW v \in Worker, IntrospectDecide(v)
    PROVE  LockInv'
<1> DEFINE s == req[v].sess
           rows == {s, req[v].app}
           verdict == IF AppIsActive(v) THEN "active" ELSE "inactive"
           x == [req[v] EXCEPT !.step = "commit", !.idle = idleTimeout, !.verdict = verdict]
<1>1. /\ req[v].op = "introspect" /\ s \in Session /\ CanLock(v, rows)
      /\ UNCHANGED <<sess, app, ended>>
  BY DEF IntrospectDecide, At, TypeInv, RequestReferences, SessionOps
<1>2. CASE Finish(v)
  BY <1>1, <1>2, FinishLocks, SessionsUntouched, AppsUntouched, LockStep
  DEF RespectsLocks, EndsCleanly
<1>3. CASE lock' = Taken(v, rows) /\ req' = [req EXCEPT ![v] = x]
  <2>1. verdict = "active" => sess[s].revoked = Never
    BY DEF AppIsActive, CanAuthorize, ParentIsActive
  <2>2. verdict # "grant"
    OBVIOUS
  <2>3. /\ req'[v].op = "introspect" /\ req'[v].step = "commit" /\ req'[v].sess = s
        /\ req'[v].verdict = verdict
    BY <1>1, <1>3 DEF TypeInv, TypeOK, Request
  <2>4. lock'[s] = v
    <3>1. s \in rows /\ s \in Row
      BY <1>1 DEF Row
    <3> HIDE DEF rows
    <3>2. QED
      BY <1>1, <1>3, <3>1, TakenLocks
  <2>5. Secured(v)'
    <3> HIDE DEF verdict, s, rows, x
    <3>1. QED
      BY <1>1, <2>1, <2>2, <2>3, <2>4 DEF Secured, AdminOps
  <2> HIDE DEF verdict, s, rows, x
  <2>6. QED
    BY <1>1, <1>3, <2>5, LockingStep
<1>4. QED
  BY <1>2, <1>3 DEF IntrospectDecide

LEMMA IntrospectRejectLocks ==
    ASSUME TypeInv, LockInv, NEW v \in Worker, IntrospectReject(v)
    PROVE  LockInv'
<1>1. \A b \in AppSession : LiveApp(b)' => LiveApp(b) /\ app'[b].parent = app[b].parent
  <2>1. req[v].at # Never /\ \A b \in AppSession : app[b] \in AppRow
    BY DEF TypeInv, TypeOK, Request, Never
  <2>2. QED
    BY <2>1 DEF IntrospectReject, TypeInv, TypeOK, LiveApp, AppRow, Stored
<1>2. AppsRespected(v)
  BY <1>1 DEF AppsRespected
<1>3. QED
  BY <1>2, FinishLocks, SessionsUntouched, LockStep
  DEF RespectsLocks, EndsCleanly, IntrospectReject

LEMMA IntrospectActiveLocks ==
    ASSUME TypeInv, LockInv, NEW v \in Worker, IntrospectActive(v)
    PROVE  LockInv'
<1>1. \A t \in Session : /\ sess'[t].user = sess[t].user /\ sess'[t].status = sess[t].status
                         /\ sess'[t].revoked = sess[t].revoked
  BY DEF IntrospectActive, TypeInv, TypeOK, SessRow
<1>2. SessionsRespected(v)
  BY <1>1 DEF SessionsRespected, Stored
<1>3. \A b \in AppSession : /\ app'[b].status = app[b].status /\ app'[b].parent = app[b].parent
                            /\ app'[b].revoked = app[b].revoked
  BY DEF IntrospectActive, TypeInv, TypeOK, AppRow
<1>4. AppsRespected(v)
  BY <1>3 DEF AppsRespected, LiveApp, Stored
<1>5. QED
  BY <1>2, <1>4, FinishLocks, LockStep DEF RespectsLocks, EndsCleanly, IntrospectActive

LEMMA RevokeApplicationSessionLocks ==
    ASSUME TypeInv, LockInv, NEW a \in AppSession, RevokeApplicationSession(a)
    PROVE  LockInv'
<1>1. \A b \in AppSession : LiveApp(b)' => LiveApp(b) /\ app'[b].parent = app[b].parent
  <2>1. now # Never /\ \A b \in AppSession : app[b] \in AppRow
    BY DEF TypeInv, TypeOK, Never
  <2>2. QED
    BY <2>1 DEF RevokeApplicationSession, TypeInv, TypeOK, LiveApp, AppRow, Stored
<1>2. RespectsLocks(None)
  BY <1>1, SessionsUntouched
  DEF RespectsLocks, AppsRespected, KeepsToItself, RevokeApplicationSession
<1>3. QED
  BY <1>2, LockStep, IdentitiesAreDistinct DEF EndsCleanly, RevokeApplicationSession

LEMMA AdminUpdateLocks ==
    ASSUME TypeInv, LockInv, NEW v \in Worker, NEW u \in User, NEW want \in Payload,
           AdminUpdate(v, u, want)
    PROVE  LockInv'
<1>1. PICK first :
        req' = [req EXCEPT ![v] = [NoRequest EXCEPT !.op = "admin", !.step = first,
                                                    !.at = now, !.user = u, !.want = want]]
  BY Zenon DEF AdminUpdate
<1> DEFINE x == [NoRequest EXCEPT !.op = "admin", !.step = first, !.at = now, !.user = u,
                                  !.want = want]
<1>2. x.op = "admin" /\ x.verdict = "none"
  BY DEF NoRequest
<1>3. /\ req' = [req EXCEPT ![v] = x] /\ req[v].op = "idle"
      /\ UNCHANGED <<sess, app, ended, lock>>
  BY <1>1 DEF AdminUpdate, Idle
<1> HIDE DEF x
<1>4. QED
  BY <1>2, <1>3, ReadLocks

LEMMA AdminResetLocks ==
    ASSUME TypeInv, LockInv, NEW v \in Worker, NEW u \in User, AdminReset(v, u)
    PROVE  LockInv'
<1> DEFINE x == [NoRequest EXCEPT !.op = "reset", !.step = "sessions", !.user = u]
<1>1. x.op = "reset" /\ x.verdict = "none"
  BY DEF NoRequest
<1>2. /\ req' = [req EXCEPT ![v] = x] /\ req[v].op = "idle"
      /\ UNCHANGED <<sess, app, ended, lock>>
  BY DEF AdminReset, Idle
<1> HIDE DEF x
<1>3. QED
  BY <1>1, <1>2, ReadLocks

LEMMA AdminSessionsLocks ==
    ASSUME TypeInv, LockInv, NEW v \in Worker, AdminSessions(v)
    PROVE  LockInv'
<1> DEFINE rows == TargetSessions(req[v].user)
           x == [req[v] EXCEPT !.step = "codes", !.at = now]
<1>1. /\ req[v].op \in AdminOps /\ req[v].step = "sessions"
      /\ CanLock(v, rows) /\ lock' = Taken(v, rows) /\ req' = [req EXCEPT ![v] = x]
      /\ UNCHANGED <<sess, app, ended>>
  BY DEF AdminSessions
<1>2. /\ req'[v].op = req[v].op /\ req'[v].step = "codes" /\ req'[v].user = req[v].user
      /\ req'[v].verdict = req[v].verdict
  BY <1>1 DEF TypeInv, TypeOK, Request
<1>3. req[v].verdict \notin {"grant", "active"}
  BY <1>1 DEF LockInv, Secured
<1>4. ASSUME NEW s \in Session, lock'[s] = v
      PROVE  Stored(sess[s]) /\ sess[s].user = req[v].user
  <2>1. lock[s] = v \/ s \in rows
    <3> HIDE DEF rows, x
    <3>1. QED
      BY <1>1, <1>4, TakenLocks DEF Row
  <2>2. CASE lock[s] = v
    BY <1>1, <2>2 DEF LockInv, Secured
  <2>3. CASE s \in rows
    BY <2>3 DEF TargetSessions
  <2>4. QED
    BY <2>1, <2>2, <2>3
<1>5. Secured(v)'
  <2> HIDE DEF rows, x
  <2>1. QED
    BY <1>1, <1>2, <1>3, <1>4 DEF Secured, AdminOps
<1> HIDE DEF rows, x
<1>6. QED
  BY <1>1, <1>5, LockingStep

LEMMA AdminCommitLocks ==
    ASSUME TypeInv, LockInv, NEW v \in Worker, AdminCommit(v)
    PROVE  LockInv'
<1>1. req[v].op \in AdminOps /\ req[v].step = "commit" /\ req[v].at # Never
  BY DEF AdminCommit, TypeInv, TypeOK, Request, Never
<1>2. /\ \A s \in Session : lock[s] = v => Stored(sess[s])
      /\ \A a \in AppSession : LiveApp(a) /\ lock[app[a].parent] = v => lock[a] = v
  BY <1>1 DEF LockInv, Secured
<1>3. \A t \in Session :
        /\ sess'[t].user = sess[t].user /\ sess'[t].status = sess[t].status
        /\ sess'[t].revoked = IF lock[t] = v THEN req[v].at ELSE sess[t].revoked
  BY DEF AdminCommit, TypeInv, TypeOK, SessRow
<1>4. SessionsRespected(v)
  BY <1>1, <1>3 DEF SessionsRespected, Stored
<1>5. \A a \in AppSession : LiveApp(a)' =>
            LiveApp(a) /\ app'[a].parent = app[a].parent /\ lock[a] # v
  BY HeldAreRevoked DEF AdminCommit
<1>6. EndsCleanly
  BY <1>1, <1>2, <1>3, <1>5 DEF EndsCleanly, AdminCommit, Stored
<1>7. AppsRespected(v)
  BY <1>5 DEF AppsRespected
<1>8. QED
  BY <1>4, <1>6, <1>7, FinishLocks, LockStep DEF RespectsLocks, AdminCommit

LEMMA CleanupLocks ==
    ASSUME TypeInv, LockInv, Cleanup
    PROVE  LockInv'
<1>1. PICK rows : app' = WithoutApps(app, rows)
  BY DEF Cleanup
<1>2. UNCHANGED <<sess, lock, req, ended>>
  BY DEF Cleanup
<1>3. RespectsLocks(None)
  BY <1>1, <1>2, AppsDeleted, SessionsUntouched DEF RespectsLocks, KeepsToItself
<1>4. QED
  BY <1>2, <1>3, LockStep, IdentitiesAreDistinct DEF EndsCleanly

LEMMA RollbackLocks ==
    ASSUME TypeInv, LockInv, NEW v \in Worker, Rollback(v)
    PROVE  LockInv'
  BY FinishLocks, SessionsUntouched, AppsUntouched, LockStep
  DEF RespectsLocks, EndsCleanly, Rollback

LEMMA LockInvStep == TypeInv /\ LockInv /\ [Next]_vars => LockInv'
<1> SUFFICES ASSUME TypeInv, LockInv, [Next]_vars PROVE LockInv'
  OBVIOUS
<1>1. CASE UNCHANGED <<sess, app, lock, req, ended>>
  BY <1>1 DEF LockInv, Secured, EndedAreRevoked, EndedParentsAreBarren, LiveApp
<1>2. CASE Environment
  <2>1. Tick \/ UpdateRolePermissions \/ UpdateAuthenticationSettings =>
            UNCHANGED <<sess, app, lock, req, ended>>
    BY DEF Tick, UpdateRolePermissions, UpdateAuthenticationSettings, settingsVars
  <2>2. QED
    BY <1>1, <1>2, <2>1, RevokeApplicationSessionLocks, CleanupLocks DEF Environment
<1>3. ASSUME NEW w \in Worker, SignIn(w) PROVE LockInv'
  BY <1>3, LoginReadLocks, LoginCommitLocks DEF SignIn
<1>4. ASSUME NEW w \in Worker, PortalRequest(w) PROVE LockInv'
  BY <1>4, ContextReadLocks, ContextRefreshLocks, ExpireCommitLocks, LogoutStartLocks,
     LogoutLockLocks, LogoutCommitLocks, RevokeCodesLocks, RevokeAppsLocks,
     AuthorizeCheckLocks, AuthorizeDecideLocks, AuthorizeCommitLocks DEF PortalRequest
<1>5. ASSUME NEW w \in Worker, RadarRequest(w) PROVE LockInv'
  BY <1>5, ExchangeReadLocks, ExchangeDecideLocks, ExchangeRejectLocks, ExchangeGrantLocks,
     IntrospectReadLocks, IntrospectDecideLocks, IntrospectRejectLocks, IntrospectActiveLocks
  DEF RadarRequest
<1>6. ASSUME NEW w \in Worker, AdminRequest(w) PROVE LockInv'
  BY <1>6, AdminUpdateLocks, AdminResetLocks, AdminSessionsLocks, AdminCommitLocks
  DEF AdminRequest
<1>7. UNCHANGED vars => UNCHANGED <<sess, app, lock, req, ended>>
  BY DEF vars
<1>8. QED
  BY <1>1, <1>2, <1>3, <1>4, <1>5, <1>6, <1>7, RollbackLocks, NextCases

THEOREM LockInvariance == Spec => [](TypeInv /\ LockInv)
<1>1. Init => TypeInv /\ LockInv
  BY TypeInit, LockInit
<1>2. TypeInv /\ LockInv /\ [Next]_vars => (TypeInv /\ LockInv)'
  BY TypeStep, LockInvStep
<1>3. QED
  BY <1>1, <1>2, PTL DEF Spec

(* No unrevoked application session hangs under a portal session that a    *)
(* logout or an administrator has ended, whatever races that logout.       *)
THEOREM EndedBarren == Spec => []EndedParentsAreBarren
<1>1. LockInv => EndedParentsAreBarren
  BY DEF LockInv
<1>2. QED
  BY <1>1, LockInvariance, PTL

(* The portal session behind a positive verdict of an exchange or an       *)
(* introspection stays unrevoked until the verdict commits.                *)
THEOREM VerdictsHold == Spec => []VerdictsHoldAtCommit
<1>1. LockInv => VerdictsHoldAtCommit
  BY DEF LockInv, Secured, VerdictsHoldAtCommit
<1>2. QED
  BY <1>1, LockInvariance, PTL

-----------------------------------------------------------------------------
(* The absolute end of a stored portal session is never moved. *)
AbsoluteKept ==
    \A s \in Session : Stored(sess[s]) =>
        Stored(sess'[s]) /\ sess'[s].absolute = sess[s].absolute

(* An application session keeps its times or gets new ones within those of *)
(* its parent.                                                             *)
TimesWithin ==
    \A a \in AppSession : Stored(app'[a]) =>
        \/ /\ Stored(app[a]) /\ app'[a].parent = app[a].parent
           /\ app'[a].idle = app[a].idle /\ app'[a].absolute = app[a].absolute
        \/ /\ app'[a].parent \in Session /\ Stored(sess[app'[a].parent])
           /\ app'[a].idle <= app'[a].absolute
           /\ app'[a].absolute <= sess[app'[a].parent].absolute

(* No request has taken a time that has not come, and no exchange has      *)
(* burnt a code.                                                           *)
RequestsTimely == \A w \in Worker : req[w].at <= now /\ req[w].verdict # "burn"

-----------------------------------------------------------------------------
LEMMA EarlierIsLower ==
    ASSUME NEW t \in Nat, NEW u \in Nat
    PROVE  /\ Earlier(t, u) \in {t, u} /\ Earlier(t, u) \in Nat
           /\ Earlier(t, u) <= t /\ Earlier(t, u) <= u
  BY DEF Earlier

LEMMA ChildStep ==
    ASSUME TypeInv, ChildWithinParent, AbsoluteKept, TimesWithin
    PROVE  ChildWithinParent'
<1> SUFFICES ASSUME NEW a \in AppSession, Stored(app'[a])
             PROVE  /\ app'[a].idle <= app'[a].absolute
                    /\ app'[a].absolute <= sess'[app'[a].parent].absolute
  BY DEF ChildWithinParent, Stored
<1>1. CASE /\ Stored(app[a]) /\ app'[a].parent = app[a].parent
           /\ app'[a].idle = app[a].idle /\ app'[a].absolute = app[a].absolute
  BY <1>1 DEF ChildWithinParent, AbsoluteKept, TypeInv, RowReferences
<1>2. CASE /\ app'[a].parent \in Session /\ Stored(sess[app'[a].parent])
           /\ app'[a].idle <= app'[a].absolute
           /\ app'[a].absolute <= sess[app'[a].parent].absolute
  BY <1>2 DEF AbsoluteKept
<1>3. QED
  BY <1>1, <1>2 DEF TimesWithin

LEMMA HeldTimes ==
    ASSUME TypeInv, NEW w \in Worker, RevokeHeld(w)
    PROVE  TimesWithin
  BY DEF RevokeHeld, TypeInv, TypeOK, AppRow, TimesWithin, Stored

LEMMA DeletedTimes ==
    ASSUME TypeInv, NEW rows, app' = WithoutApps(app, rows)
    PROVE  TimesWithin
  BY DeletionType DEF TypeInv, TimesWithin

(* The session an exchange issues ends, idle or not, by the absolute end   *)
(* of its portal session.                                                  *)
LEMMA IssuedTimes ==
    ASSUME TypeInv, NEW w \in Worker, NEW a \in AppSession, ExchangeGrant(w, a)
    PROVE  TimesWithin
<1> DEFINE r == req[w]
           absolute == AbsoluteEnd(sess[r.sess], r.at)
<1>1. r.sess \in Session /\ Stored(sess[r.sess]) /\ sess[r.sess] \in SessRow /\ r.at \in Nat
  BY DEF ExchangeGrant, At, TypeInv, TypeOK, RequestReferences, SessionOps, Request
<1>2. absolute <= sess[r.sess].absolute
  BY <1>1, GrantTimes
<1>3. IdleEnd(absolute, r.at) <= absolute
  BY <1>1, GrantTimes
<1>4. /\ app'[a].parent = r.sess /\ app'[a].idle = IdleEnd(absolute, r.at)
      /\ app'[a].absolute = absolute
      /\ \A b \in AppSession \ {a} : app'[b] = WithoutApps(app, r.doomed)[b]
  BY DEF ExchangeGrant, WithoutApps
<1>5. \A b \in AppSession \ {a} : Stored(app'[b]) => app'[b] = app[b]
  BY <1>4, DeletionType DEF TypeInv
<1>6. /\ app'[a].parent \in Session /\ Stored(sess[app'[a].parent])
      /\ app'[a].idle <= app'[a].absolute
      /\ app'[a].absolute <= sess[app'[a].parent].absolute
  BY <1>1, <1>2, <1>3, <1>4
<1>7. QED
  BY <1>5, <1>6 DEF TimesWithin

LEMMA ActiveTimes ==
    ASSUME TypeInv, ChildWithinParent, NEW w \in Worker, IntrospectActive(w)
    PROVE  TimesWithin
<1> DEFINE a == req[w].app
<1>1. a \in AppSession /\ app[a].absolute \in Nat /\ req[w].at \in Nat
  BY DEF IntrospectActive, At, TypeInv, TypeOK, RequestReferences, AppRow, Request
<1>2. IdleEnd(app[a].absolute, req[w].at) <= app[a].absolute
  BY <1>1, EarlierIsLower, DurationsArePositive DEF IdleEnd
<1>3. \A b \in AppSession :
        /\ app'[b].status = app[b].status /\ app'[b].parent = app[b].parent
        /\ app'[b].absolute = app[b].absolute
        /\ app'[b].idle = IF b = a THEN IdleEnd(app[a].absolute, req[w].at) ELSE app[b].idle
  BY <1>1 DEF IntrospectActive, TypeInv, TypeOK, AppRow
<1>4. QED
  BY <1>2, <1>3 DEF TimesWithin, ChildWithinParent, TypeInv, RowReferences, Stored

-----------------------------------------------------------------------------
(* Which actions write the rows, and that they keep the absolute ends. *)

LEMMA AbsoluteStep ==
    ASSUME TypeInv, NEW w \in Worker,
           \/ \E s \in Session : LoginCommit(w, s)
           \/ ContextRefresh(w) \/ ExpireCommit(w) \/ LogoutCommit(w) \/ AdminCommit(w)
           \/ IntrospectActive(w)
    PROVE  AbsoluteKept
<1>1. ASSUME NEW s \in Session, LoginCommit(w, s) PROVE AbsoluteKept
  BY <1>1 DEF LoginCommit, TypeInv, TypeOK, AbsoluteKept, Stored
<1>2. CASE ContextRefresh(w)
  BY <1>2 DEF ContextRefresh, TypeInv, TypeOK, SessRow, AbsoluteKept, Stored
<1>3. CASE ExpireCommit(w)
  BY <1>3 DEF ExpireCommit, TypeInv, TypeOK, SessRow, AbsoluteKept, Stored
<1>4. CASE LogoutCommit(w)
  BY <1>4 DEF LogoutCommit, TypeInv, TypeOK, SessRow, AbsoluteKept, Stored
<1>5. CASE AdminCommit(w)
  BY <1>5 DEF AdminCommit, TypeInv, TypeOK, SessRow, AbsoluteKept, Stored
<1>6. CASE IntrospectActive(w)
  BY <1>6 DEF IntrospectActive, TypeInv, TypeOK, SessRow, AbsoluteKept, Stored
<1>7. QED
  BY <1>1, <1>2, <1>3, <1>4, <1>5, <1>6

LEMMA RevokedTimes ==
    ASSUME TypeInv,
           \/ \E w \in Worker : IntrospectReject(w)
           \/ \E a \in AppSession : RevokeApplicationSession(a)
    PROVE  TimesWithin
<1>1. PICK b, t : app' = [app EXCEPT ![b].revoked = t]
  BY DEF IntrospectReject, RevokeApplicationSession
<1>2. \A a \in AppSession :
        /\ app'[a].status = app[a].status /\ app'[a].parent = app[a].parent
        /\ app'[a].idle = app[a].idle /\ app'[a].absolute = app[a].absolute
  BY <1>1 DEF TypeInv, TypeOK, AppRow
<1>3. QED
  BY <1>2 DEF TimesWithin, Stored

LEMMA SessUntouched == ASSUME UNCHANGED sess PROVE AbsoluteKept
  BY DEF AbsoluteKept

LEMMA AppUntouched == ASSUME UNCHANGED app PROVE TimesWithin
  BY DEF TimesWithin

LEMMA ChildInvStep == TypeInv /\ ChildWithinParent /\ [Next]_vars => ChildWithinParent'
<1> SUFFICES ASSUME TypeInv, ChildWithinParent, [Next]_vars
             PROVE  AbsoluteKept /\ TimesWithin
  BY ChildStep
<1>1. CASE UNCHANGED <<sess, app>>
  BY <1>1, SessUntouched, AppUntouched
<1>2. CASE Environment
  <2>1. CASE Tick \/ UpdateRolePermissions \/ UpdateAuthenticationSettings
    BY <1>1, <2>1 DEF Tick, UpdateRolePermissions, UpdateAuthenticationSettings, settingsVars
  <2>2. ASSUME NEW a \in AppSession, RevokeApplicationSession(a)
        PROVE  AbsoluteKept /\ TimesWithin
    BY <2>2, RevokedTimes, SessUntouched DEF RevokeApplicationSession
  <2>3. CASE Cleanup
    <3>1. PICK rows : app' = WithoutApps(app, rows) /\ UNCHANGED sess
      BY <2>3 DEF Cleanup
    <3>2. QED
      BY <3>1, DeletedTimes, SessUntouched
  <2>4. QED
    BY <1>2, <2>1, <2>2, <2>3 DEF Environment
<1>3. ASSUME NEW w \in Worker, SignIn(w) PROVE AbsoluteKept /\ TimesWithin
  <2>1. ASSUME NEW u \in User, LoginRead(w, u) PROVE UNCHANGED <<sess, app>>
    BY <2>1 DEF LoginRead
  <2>2. ASSUME NEW s \in Session, LoginCommit(w, s) PROVE AbsoluteKept /\ UNCHANGED app
    BY Zenon, <2>2, AbsoluteStep DEF LoginCommit
  <2>3. QED
    BY <1>1, <1>3, <2>1, <2>2, AppUntouched DEF SignIn
<1>4. ASSUME NEW w \in Worker, PortalRequest(w) PROVE AbsoluteKept /\ TimesWithin
  <2>1. ASSUME \/ \E s \in Session, kind \in {"visit", "authorize"} : ContextRead(w, s, kind)
               \/ \E s \in Session : LogoutStart(w, s)
               \/ LogoutLock(w) \/ RevokeCodes(w) \/ RevokeApps(w)
               \/ AuthorizeCheck(w) \/ AuthorizeDecide(w)
        PROVE  UNCHANGED <<sess, app>>
    BY Zenon, <2>1 DEF ContextRead, LogoutStart, LogoutLock, RevokeCodes, RevokeApps,
                       AuthorizeCheck, AuthorizeDecide
  <2>2. CASE ContextRefresh(w)
    BY Zenon, <2>2, AbsoluteStep, AppUntouched DEF ContextRefresh
  <2>3. CASE ExpireCommit(w)
    BY <2>3, AbsoluteStep, HeldTimes DEF ExpireCommit
  <2>4. CASE LogoutCommit(w)
    BY <2>4, AbsoluteStep, HeldTimes DEF LogoutCommit
  <2>5. ASSUME NEW c \in Code, AuthorizeCommit(w, c) PROVE AbsoluteKept /\ TimesWithin
    BY <2>5, SessUntouched, DeletedTimes DEF AuthorizeCommit
  <2>6. QED
    BY <1>1, <1>4, <2>1, <2>2, <2>3, <2>4, <2>5 DEF PortalRequest
<1>5. ASSUME NEW w \in Worker, RadarRequest(w) PROVE AbsoluteKept /\ TimesWithin
  <2>1. ASSUME \/ \E c \in Code, proof \in BOOLEAN : ExchangeRead(w, c, proof)
               \/ \E a \in AppSession : IntrospectRead(w, a)
               \/ ExchangeDecide(w) \/ IntrospectDecide(w)
        PROVE  UNCHANGED <<sess, app>>
    BY Zenon, <2>1 DEF ExchangeRead, IntrospectRead, ExchangeDecide, IntrospectDecide
  <2>2. CASE ExchangeReject(w)
    BY <2>2, SessUntouched, DeletedTimes DEF ExchangeReject
  <2>3. ASSUME NEW a \in AppSession, ExchangeGrant(w, a) PROVE AbsoluteKept /\ TimesWithin
    <3>1. UNCHANGED sess
      BY <2>3 DEF ExchangeGrant
    <3>2. QED
      BY <2>3, <3>1, SessUntouched, IssuedTimes
  <2>4. CASE IntrospectReject(w)
    BY <2>4, SessUntouched, RevokedTimes DEF IntrospectReject
  <2>5. CASE IntrospectActive(w)
    BY <2>5, AbsoluteStep, ActiveTimes
  <2>6. QED
    BY <1>1, <1>5, <2>1, <2>2, <2>3, <2>4, <2>5 DEF RadarRequest
<1>6. ASSUME NEW w \in Worker, AdminRequest(w) PROVE AbsoluteKept /\ TimesWithin
  <2>1. ASSUME \/ \E u \in User, want \in Payload : AdminUpdate(w, u, want)
               \/ \E u \in User : AdminReset(w, u)
               \/ AdminSessions(w)
        PROVE  UNCHANGED <<sess, app>>
    BY Zenon, <2>1 DEF AdminUpdate, AdminReset, AdminSessions
  <2>2. CASE AdminCommit(w)
    BY <2>2, AbsoluteStep, HeldTimes DEF AdminCommit
  <2>3. QED
    BY <1>1, <1>6, <2>1, <2>2 DEF AdminRequest
<1>7. ASSUME NEW w \in Worker, Rollback(w) PROVE UNCHANGED <<sess, app>>
  BY <1>7 DEF Rollback
<1>8. UNCHANGED vars => UNCHANGED <<sess, app>>
  BY DEF vars
<1>9. QED
  BY <1>1, <1>2, <1>3, <1>4, <1>5, <1>6, <1>7, <1>8, NextCases

(* An application session ends, idle or not, by its own absolute end, and  *)
(* that by the absolute end of its portal session.                         *)
THEOREM ChildrenWithinParents == Spec => []ChildWithinParent
<1>1. Init => TypeInv /\ ChildWithinParent
  BY TypeInit DEF Init, ChildWithinParent, NoApp, Stored
<1>2. TypeInv /\ ChildWithinParent /\ [Next]_vars => (TypeInv /\ ChildWithinParent)'
  BY TypeStep, ChildInvStep
<1>3. QED
  BY <1>1, <1>2, PTL DEF Spec

-----------------------------------------------------------------------------
(* The time of a request and the verdicts it reaches. *)

(* An exchange that may be authorized is before the absolute end of its    *)
(* portal session, and every duration is positive: the session it would    *)
(* issue has not ended yet at the time the exchange took first.            *)
LEMMA NothingBurnt ==
    ASSUME TypeInv, RequestsTimely, NEW w \in Worker, At(w, "exchange", "decide")
    PROVE  ExchangeVerdict(w) # "burn"
<1> DEFINE r == req[w]
           parent == sess[r.sess]
           fin == AbsoluteEnd(parent, r.at)
<1>1. parent.absolute \in Nat /\ r.at \in Nat /\ now \in Nat /\ r.at <= now
  BY DEF At, TypeInv, TypeOK, RequestReferences, SessionOps, SessRow, Request, RequestsTimely
<1>2. ASSUME parent.absolute > now
      PROVE  ~(IdleEnd(fin, r.at) <= r.at)
  BY <1>1, <1>2, DurationsArePositive DEF IdleEnd, AbsoluteEnd, Earlier
<1>3. CanAuthorize(account[parent.user], parent, account[parent.user].assigned)
        => parent.absolute > now
  BY DEF CanAuthorize, ParentIsActive
<1>4. QED
  BY <1>2, <1>3 DEF ExchangeVerdict

(* What a step may do to requests: leave them, start or end one, or take   *)
(* the time and a verdict other than burn.                                 *)
TakesTime ==
    \A w \in Worker :
        /\ req'[w].at \in {req[w].at, now, 0}
        /\ req'[w].verdict = req[w].verdict \/ req'[w].verdict # "burn"

LEMMA TimelyStep ==
    ASSUME TypeInv, RequestsTimely, TakesTime, now' = now
    PROVE  RequestsTimely'
<1>1. now \in Nat
  BY DEF TypeInv, TypeOK
<1>2. QED
  BY <1>1 DEF RequestsTimely, TakesTime

LEMMA ChangeTakesTime ==
    ASSUME TypeInv, NEW w \in Worker, NEW x, req' = [req EXCEPT ![w] = x],
           x.at \in {req[w].at, now, 0}, x.verdict = req[w].verdict \/ x.verdict # "burn"
    PROVE  TakesTime
  BY DEF TypeInv, TypeOK, TakesTime

LEMMA FinishTakesTime ==
    ASSUME TypeInv, NEW w \in Worker, Finish(w)
    PROVE  TakesTime
  BY DEF TypeInv, TypeOK, TakesTime, Finish, NoRequest

LEMMA SameRequests == ASSUME UNCHANGED req PROVE TakesTime
  BY DEF TakesTime

LEMMA SignInTime ==
    ASSUME TypeInv, NEW w \in Worker, SignIn(w)
    PROVE  TakesTime /\ now' = now
<1>1. ASSUME NEW u \in User, LoginRead(w, u) PROVE TakesTime /\ now' = now
  BY <1>1 DEF LoginRead, NoRequest, TypeInv, TypeOK, TakesTime
<1>2. ASSUME NEW s \in Session, LoginCommit(w, s) PROVE TakesTime /\ now' = now
  BY <1>2, FinishTakesTime DEF LoginCommit
<1>3. QED
  BY <1>1, <1>2 DEF SignIn

LEMMA PortalRequestTime ==
    ASSUME TypeInv, NEW w \in Worker, PortalRequest(w)
    PROVE  TakesTime /\ now' = now
<1>1. ASSUME NEW s \in Session, NEW kind \in {"visit", "authorize"}, ContextRead(w, s, kind)
      PROVE  TakesTime /\ now' = now
  BY <1>1 DEF ContextRead, NoRequest, TypeInv, TypeOK, TakesTime
<1>2. CASE ContextRefresh(w)
  <2>1. CASE Finish(w)
    BY <1>2, <2>1, FinishTakesTime DEF ContextRefresh
  <2>2. CASE req' = [req EXCEPT ![w].step = "check"]
    BY <1>2, <2>2 DEF ContextRefresh, TypeInv, TypeOK, Request, TakesTime
  <2>3. QED
    BY <1>2, <2>1, <2>2 DEF ContextRefresh
<1>3. ASSUME NEW s \in Session, LogoutStart(w, s) PROVE TakesTime /\ now' = now
  BY <1>3 DEF LogoutStart, NoRequest, TypeInv, TypeOK, TakesTime
<1>4. CASE LogoutLock(w)
  <2>1. CASE Finish(w)
    BY <1>4, <2>1, FinishTakesTime DEF LogoutLock
  <2>2. CASE req' = [req EXCEPT ![w] = [req[w] EXCEPT !.step = "codes", !.at = now]]
    BY <1>4, <2>2 DEF LogoutLock, TypeInv, TypeOK, Request, TakesTime
  <2>3. QED
    BY <1>4, <2>1, <2>2 DEF LogoutLock
<1>5. CASE ExpireCommit(w) \/ LogoutCommit(w) \/ \E c \in Code : AuthorizeCommit(w, c)
  BY <1>5, FinishTakesTime DEF ExpireCommit, LogoutCommit, AuthorizeCommit, settingsVars
<1>6. CASE RevokeCodes(w) \/ RevokeApps(w)
  <2>1. PICK step : req' = [req EXCEPT ![w] = [req[w] EXCEPT !.step = step]]
    BY <1>6 DEF RevokeCodes, RevokeApps
  <2>2. now' = now
    BY <1>6 DEF RevokeCodes, RevokeApps
  <2>3. QED
    BY <2>1, <2>2 DEF TypeInv, TypeOK, Request, TakesTime
<1>7. CASE AuthorizeCheck(w)
  BY SMTT(30), <1>7 DEF AuthorizeCheck, TypeInv, TypeOK, Request, TakesTime
<1>8. CASE AuthorizeDecide(w)
  <2>1. CASE Finish(w)
    BY Zenon, <1>8, <2>1, FinishTakesTime DEF AuthorizeDecide
  <2>2. ASSUME NEW rows, req' = [req EXCEPT ![w] = [req[w] EXCEPT !.step = "commit", !.at = now,
                                                                 !.doomed = rows]]
        PROVE  TakesTime
    BY <2>2 DEF TypeInv, TypeOK, Request, TakesTime
  <2>3. QED
    BY ZenonT(40), <1>8, <2>1, <2>2 DEF AuthorizeDecide
<1>9. QED
  BY <1>1, <1>2, <1>3, <1>4, <1>5, <1>6, <1>7, <1>8 DEF PortalRequest

LEMMA RadarRequestTime ==
    ASSUME TypeInv, RequestsTimely, NEW w \in Worker, RadarRequest(w)
    PROVE  TakesTime /\ now' = now
<1>1. ASSUME NEW c \in Code, NEW proof \in BOOLEAN, ExchangeRead(w, c, proof)
      PROVE  TakesTime /\ now' = now
  <2>1. PICK rows, step, verdict :
          /\ verdict \in {"reject", "none"}
          /\ req' = [req EXCEPT ![w] =
                [NoRequest EXCEPT !.op = "exchange", !.at = now, !.code = c,
                                  !.sess = code[c].parent, !.proof = proof, !.doomed = rows,
                                  !.step = step, !.verdict = verdict]]
    BY Zenon, <1>1 DEF ExchangeRead
  <2>2. QED
    BY <1>1, <2>1 DEF ExchangeRead, NoRequest, TypeInv, TypeOK, TakesTime
<1>2. CASE ExchangeDecide(w)
  <2> DEFINE x == [req[w] EXCEPT !.step = "commit", !.verdict = ExchangeVerdict(w)]
  <2>1. req' = [req EXCEPT ![w] = x] /\ now' = now
    BY <1>2 DEF ExchangeDecide
  <2>2. x.at = req[w].at /\ x.verdict = ExchangeVerdict(w)
    BY DEF TypeInv, TypeOK, Request
  <2>3. x.verdict # "burn"
    BY <1>2, <2>2, NothingBurnt DEF ExchangeDecide
  <2> HIDE DEF x
  <2>4. QED
    BY <2>1, <2>2, <2>3, ChangeTakesTime
<1>3. ASSUME NEW a \in AppSession, IntrospectRead(w, a) PROVE TakesTime /\ now' = now
  BY <1>3 DEF IntrospectRead, NoRequest, TypeInv, TypeOK, TakesTime
<1>4. CASE IntrospectDecide(w)
  <2>1. CASE Finish(w)
    BY <1>4, <2>1, FinishTakesTime DEF IntrospectDecide
  <2>2. ASSUME NEW verdict \in {"active", "inactive"},
               req' = [req EXCEPT ![w] = [req[w] EXCEPT !.step = "commit", !.idle = idleTimeout,
                                                        !.verdict = verdict]]
        PROVE  TakesTime
    BY <2>2 DEF TypeInv, TypeOK, Request, TakesTime
  <2>3. QED
    BY <1>4, <2>1, <2>2 DEF IntrospectDecide
<1>5. CASE \/ ExchangeReject(w) \/ IntrospectReject(w) \/ IntrospectActive(w)
           \/ \E a \in AppSession : ExchangeGrant(w, a)
  BY <1>5, FinishTakesTime
  DEF ExchangeReject, IntrospectReject, IntrospectActive, ExchangeGrant
<1>6. QED
  BY <1>1, <1>2, <1>3, <1>4, <1>5 DEF RadarRequest

LEMMA AdminRequestTime ==
    ASSUME TypeInv, NEW w \in Worker, AdminRequest(w)
    PROVE  TakesTime /\ now' = now
<1>1. ASSUME NEW u \in User, NEW want \in Payload, AdminUpdate(w, u, want)
      PROVE  TakesTime /\ now' = now
  <2>1. PICK first :
          req' = [req EXCEPT ![w] = [NoRequest EXCEPT !.op = "admin", !.step = first,
                                                      !.at = now, !.user = u, !.want = want]]
    BY Zenon, <1>1 DEF AdminUpdate
  <2>2. QED
    BY <1>1, <2>1 DEF AdminUpdate, NoRequest, TypeInv, TypeOK, TakesTime
<1>2. ASSUME NEW u \in User, AdminReset(w, u) PROVE TakesTime /\ now' = now
  BY <1>2 DEF AdminReset, NoRequest, TypeInv, TypeOK, TakesTime
<1>3. CASE AdminSessions(w)
  BY <1>3 DEF AdminSessions, TypeInv, TypeOK, Request, TakesTime
<1>4. CASE AdminCommit(w)
  BY <1>4, FinishTakesTime DEF AdminCommit
<1>5. QED
  BY <1>1, <1>2, <1>3, <1>4 DEF AdminRequest

LEMMA TimelyInvStep == TypeInv /\ RequestsTimely /\ [Next]_vars => RequestsTimely'
<1> SUFFICES ASSUME TypeInv, RequestsTimely, [Next]_vars PROVE RequestsTimely'
  OBVIOUS
<1>1. CASE Tick
  <2>1. now \in Nat /\ \A w \in Worker : req[w].at \in Nat
    BY DEF TypeInv, TypeOK, Request
  <2>2. QED
    BY <1>1, <2>1 DEF Tick, RequestsTimely
<1>2. ASSUME UNCHANGED req, now' = now PROVE RequestsTimely'
  BY <1>2, SameRequests, TimelyStep
<1>3. CASE Environment
  BY <1>1, <1>2, <1>3 DEF Environment, RevokeApplicationSession, UpdateRolePermissions,
                          UpdateAuthenticationSettings, Cleanup
<1>4. ASSUME NEW w \in Worker, Rollback(w) PROVE TakesTime /\ now' = now
  BY <1>4, FinishTakesTime DEF Rollback
<1>5. UNCHANGED vars => UNCHANGED req /\ now' = now
  BY DEF vars
<1>6. QED
  BY <1>2, <1>3, <1>4, <1>5, SignInTime, PortalRequestTime, RadarRequestTime, AdminRequestTime,
     TimelyStep, NextCases

(* No exchange consumes a code and then refuses the session, although it   *)
(* takes its time before it waits for the locks and checks the end of the  *)
(* portal session after.                                                   *)
THEOREM NothingIsBurnt == Spec => []NoCodeIsBurnt
<1>1. Init => TypeInv /\ RequestsTimely
  BY TypeInit DEF Init, RequestsTimely, NoRequest
<1>2. TypeInv /\ RequestsTimely /\ [Next]_vars => (TypeInv /\ RequestsTimely)'
  BY TypeStep, TimelyInvStep
<1>3. RequestsTimely => NoCodeIsBurnt
  BY DEF RequestsTimely, NoCodeIsBurnt
<1>4. QED
  BY <1>1, <1>2, <1>3, PTL DEF Spec

-----------------------------------------------------------------------------

(* A row that has not been inserted is blank and nobody has locked it.     *)
Inserted(x) ==
    /\ x \in Session => sess[x].status # "absent"
    /\ x \in Code => code[x].status # "absent"
    /\ x \in AppSession => app[x].status # "absent"

BlankUntilInserted ==
    /\ \A x \in Row : lock[x] # None => Inserted(x)
    /\ \A s \in Session : ~Inserted(s) => sess[s].revoked = Never
    /\ \A c \in Code : ~Inserted(c) => code[c].revoked = Never /\ code[c].consumed = Never
    /\ \A a \in AppSession : ~Inserted(a) => app[a].revoked = Never

(* What a request holds of the rows it will write or delete.               *)
Holds(w) ==
    LET r == req[w] IN
    /\ r.op = "exchange" => Inserted(r.code)
    /\ r.op = "introspect" => Inserted(r.app) /\ r.step \in {"decide", "commit"}
    /\ r.op = "introspect" /\ r.step = "commit" => lock[r.app] = w
    /\ \A x \in r.doomed : lock[x] = w
    /\ AppSession \cap r.doomed \subseteq PurgeableApps

HeldInv == BlankUntilInserted /\ \A w \in Worker : Holds(w)

(* What a step of v (None: of the environment) may write.                  *)
SessWritten ==
    \A s \in Session :
        /\ sess'[s].status = "absent" => sess'[s] = sess[s]
        /\ sess[s].revoked # Never => sess'[s].revoked # Never

CodeWritten ==
    \A c \in Code :
        /\ code'[c].status = "absent" => code'[c] = code[c]
        /\ code[c].revoked # Never /\ Stored(code'[c]) => code'[c].revoked # Never
        /\ code[c].consumed # Never /\ Stored(code'[c]) => code'[c].consumed # Never
        /\ Stored(code'[c]) => Stored(code[c]) \/ code[c].status = "absent"

AppWritten(v) ==
    \A a \in AppSession :
        /\ app'[a].status = "absent" => app'[a] = app[a]
        /\ app[a].revoked # Never /\ Stored(app'[a]) => app'[a].revoked # Never
        /\ Stored(app[a]) /\ lock[a] \notin {None, v} => app'[a] = app[a]
        /\ Stored(app[a]) /\ ~Stored(app'[a]) => a \in PurgeableApps
        /\ Stored(app'[a]) => \/ Stored(app[a]) /\ app'[a].code = app[a].code
                              \/ \E w \in Worker : ExchangeGrant(w, a)

Written(v) == SessWritten /\ CodeWritten /\ AppWritten(v)

LocksKept(v) ==
    /\ \A w \in Worker \ {v} : req'[w] = req[w]
    /\ \A w \in Worker \ {v}, x \in Row : lock[x] = w => lock'[x] = w
    /\ \A x \in Row : lock'[x] # None => lock[x] # None \/ Inserted(x)
    /\ now' \in {now, now + 1}

-----------------------------------------------------------------------------
LEMMA InsertedStays ==
    ASSUME NEW v, Written(v)
    PROVE  \A x : Inserted(x) => Inserted(x)'
  BY DEF Written, SessWritten, CodeWritten, AppWritten, Inserted

LEMMA PurgeableStays ==
    ASSUME TypeInv, NEW a \in AppSession, a \in PurgeableApps, app'[a] = app[a],
           now' \in {now, now + 1}
    PROVE  a \in PurgeableApps'
<1>1. /\ app[a] \in AppRow /\ now \in Nat /\ Retention \in Nat
      /\ app[a].idle \in Nat /\ app[a].absolute \in Nat /\ app[a].revoked \in Stamp
  BY DurationsArePositive DEF TypeInv, TypeOK, AppRow
<1>2. QED
  BY <1>1 DEF PurgeableApps, Reached, Stored, Stamp

LEMMA HeldStep ==
    ASSUME TypeInv, HeldInv, NEW v \in Worker \cup {None}, Written(v), LocksKept(v),
           v \in Worker => Holds(v)'
    PROVE  HeldInv'
<1>1. \A x : Inserted(x) => Inserted(x)'
  BY InsertedStays
<1>2. \A x \in Row : lock'[x] # None => Inserted(x)'
  BY <1>1 DEF HeldInv, BlankUntilInserted, LocksKept
<1>3. /\ \A s \in Session : ~Inserted(s)' => sess'[s] = sess[s] /\ ~Inserted(s)
      /\ \A c \in Code : ~Inserted(c)' => code'[c] = code[c] /\ ~Inserted(c)
      /\ \A a \in AppSession : ~Inserted(a)' => app'[a] = app[a] /\ ~Inserted(a)
  BY <1>1, IdentitiesAreDistinct DEF Inserted, Written, SessWritten, CodeWritten, AppWritten
<1>4. BlankUntilInserted'
  BY <1>2, <1>3 DEF BlankUntilInserted, HeldInv
<1>5. ASSUME NEW w \in Worker, w # v PROVE Holds(w)'
  <2>1. req'[w] = req[w] /\ Holds(w) /\ w # None
    BY <1>5, IdentitiesAreDistinct DEF LocksKept, HeldInv
  <2>2. ASSUME req[w].op = "introspect", req[w].step = "commit"
        PROVE  lock'[req[w].app] = w
    <3>1. req[w].app \in Row
      BY <2>2 DEF TypeInv, RequestReferences, Row
    <3>2. lock[req[w].app] = w
      BY <2>1, <2>2 DEF Holds
    <3>3. QED
      BY <1>5, <3>1, <3>2 DEF LocksKept
  <2>3. ASSUME NEW x \in req[w].doomed PROVE lock'[x] = w
    <3>1. lock[x] = w /\ x \in Row
      BY <2>1, <2>3 DEF Holds, TypeInv, TypeOK, Request, Row
    <3>2. QED
      BY <1>5, <3>1 DEF LocksKept
  <2>4. ASSUME NEW a \in AppSession \cap req[w].doomed
        PROVE  a \in PurgeableApps'
    <3>1. lock[a] = w /\ a \in PurgeableApps /\ Stored(app[a]) /\ a \in Row
      BY <2>1, <2>4 DEF Holds, PurgeableApps, Row
    <3>2. app'[a] = app[a]
      BY <1>5, <2>1, <3>1 DEF LocksKept, Written, AppWritten
    <3>3. QED
      BY <3>1, <3>2, PurgeableStays DEF LocksKept
  <2>5. QED
    BY <1>1, <2>1, <2>2, <2>3, <2>4 DEF Holds
<1>6. QED
  BY <1>4, <1>5 DEF HeldInv

-----------------------------------------------------------------------------
(* What the commits write. *)

LEMMA NothingWritten == ASSUME UNCHANGED <<sess, code, app>>, NEW v PROVE Written(v)
  BY DEF Written, SessWritten, CodeWritten, AppWritten, Stored

(* The revoking UPDATEs of a request write rows it has locked. *)
LEMMA HeldWritten ==
    ASSUME TypeInv, HeldInv, NEW v \in Worker, RevokeHeld(v)
    PROVE  CodeWritten /\ AppWritten(v)
<1>1. req[v].at # Never /\ v # None
  BY IdentitiesAreDistinct DEF TypeInv, TypeOK, Request, Never
<1>2. \A c \in Code : /\ code[c] \in CodeRow
                      /\ code'[c] = IF lock[c] = v THEN [code[c] EXCEPT !.revoked = req[v].at]
                                                   ELSE code[c]
                      /\ lock[c] = v => code[c].status # "absent"
  BY <1>1 DEF TypeInv, TypeOK, RevokeHeld, HeldInv, BlankUntilInserted, Inserted, Row
<1>3. CodeWritten
  BY <1>1, <1>2 DEF CodeWritten, CodeRow, Stored
<1>4. \A a \in AppSession : /\ app[a] \in AppRow
                            /\ app'[a] = IF lock[a] = v THEN [app[a] EXCEPT !.revoked = req[v].at]
                                                        ELSE app[a]
                            /\ lock[a] = v => app[a].status # "absent"
  BY <1>1 DEF TypeInv, TypeOK, RevokeHeld, HeldInv, BlankUntilInserted, Inserted, Row
<1>5. AppWritten(v)
  BY <1>1, <1>4 DEF AppWritten, AppRow, Stored
<1>6. QED
  BY <1>3, <1>5

(* A cleanup deletes rows that were due, and that it has locked if it did  *)
(* not just look.                                                          *)
LEMMA CodesDeleted ==
    ASSUME NEW rows
    PROVE  \A c \in Code : LET row == WithoutCodes(code, rows)[c] IN
                row = code[c] \/ (row.status = "deleted" /\ ~Stored(row))
  BY DEF WithoutCodes, NoCode, Stored

LEMMA AppsDeletedWritten ==
    ASSUME NEW v, NEW rows, app' = WithoutApps(app, rows),
           \A a \in AppSession \cap rows : lock[a] \in {None, v} /\ a \in PurgeableApps
    PROVE  AppWritten(v)
<1>1. \A a \in AppSession : IF a \in rows THEN app'[a].status = "deleted" ELSE app'[a] = app[a]
  BY DEF WithoutApps, NoApp
<1>2. QED
  BY <1>1 DEF AppWritten, Stored

LEMMA LoginWritten ==
    ASSUME TypeInv, HeldInv, NEW v \in Worker, NEW s \in Session, LoginCommit(v, s)
    PROVE  Written(v)
<1>1. sess[s].revoked = Never /\ sess'[s].status = "stored"
      /\ \A t \in Session \ {s} : sess'[t] = sess[t]
  BY DEF LoginCommit, TypeInv, TypeOK, HeldInv, BlankUntilInserted, Inserted
<1>2. SessWritten
  BY <1>1 DEF SessWritten
<1>3. QED
  BY <1>2 DEF LoginCommit, Written, CodeWritten, AppWritten, Stored

LEMMA RefreshWritten ==
    ASSUME TypeInv, NEW v \in Worker, ContextRefresh(v)
    PROVE  Written(v)
<1>1. req[v].sess \in Session /\ sess[req[v].sess].status # "absent"
  BY DEF ContextRefresh, TypeInv, RequestReferences, SessionOps, Stored
<1>2. SessWritten
  BY <1>1 DEF ContextRefresh, TypeInv, TypeOK, SessRow, SessWritten
<1>3. QED
  BY <1>2 DEF ContextRefresh, Written, CodeWritten, AppWritten, Stored

LEMMA EndWritten ==
    ASSUME TypeInv, HeldInv, NEW v \in Worker,
           ExpireCommit(v) \/ LogoutCommit(v) \/ AdminCommit(v)
    PROVE  Written(v)
<1>1. req[v].at # Never /\ v # None /\ \A s \in Session : sess[s] \in SessRow
  BY IdentitiesAreDistinct DEF TypeInv, TypeOK, Request, Never
<1>2. CASE ExpireCommit(v) \/ LogoutCommit(v)
  <2>1. req[v].sess \in Session /\ sess[req[v].sess].status # "absent"
    BY <1>2 DEF ExpireCommit, LogoutCommit, At, TypeInv, RequestReferences, SessionOps, Stored
  <2>2. sess' = [sess EXCEPT ![req[v].sess].revoked = req[v].at] /\ RevokeHeld(v)
    BY <1>2 DEF ExpireCommit, LogoutCommit
  <2>3. SessWritten
    BY <1>1, <2>1, <2>2 DEF TypeInv, TypeOK, SessRow, SessWritten
  <2>4. QED
    BY <2>2, <2>3, HeldWritten DEF Written
<1>3. CASE AdminCommit(v)
  <2>1. \A s \in Session :
          /\ sess'[s] = IF lock[s] = v THEN [sess[s] EXCEPT !.revoked = req[v].at] ELSE sess[s]
          /\ lock[s] = v => sess[s].status # "absent"
    BY <1>1, <1>3 DEF AdminCommit, HeldInv, BlankUntilInserted, Inserted, Row
  <2>2. SessWritten
    BY <1>1, <2>1 DEF SessRow, SessWritten
  <2>3. QED
    BY <1>3, <2>2, HeldWritten DEF AdminCommit, Written
<1>4. QED
  BY <1>2, <1>3

LEMMA DoomedAreHeld ==
    ASSUME HeldInv, NEW v \in Worker
    PROVE  \A a \in AppSession \cap req[v].doomed : lock[a] \in {None, v} /\ a \in PurgeableApps
  BY DEF HeldInv, Holds

LEMMA AuthorizeWritten ==
    ASSUME TypeInv, HeldInv, NEW v \in Worker, NEW c \in Code, AuthorizeCommit(v, c)
    PROVE  Written(v)
<1>1. AppWritten(v)
  BY AppsDeletedWritten, DoomedAreHeld DEF AuthorizeCommit
<1>2. code[c].status = "absent" /\ code[c].revoked = Never /\ code[c].consumed = Never
  BY IdentitiesAreDistinct DEF AuthorizeCommit, HeldInv, BlankUntilInserted, Inserted
<1>3. /\ code'[c].status = "stored"
      /\ \A d \in Code \ {c} : code'[d] = WithoutCodes(code, req[v].doomed)[d]
  BY DEF AuthorizeCommit, WithoutCodes
<1>4. CodeWritten
  BY <1>2, <1>3, CodesDeleted DEF CodeWritten, Stored
<1>5. QED
  BY <1>1, <1>4 DEF AuthorizeCommit, Written, SessWritten

LEMMA RejectWritten ==
    ASSUME TypeInv, HeldInv, NEW v \in Worker, ExchangeReject(v)
    PROVE  Written(v)
<1> DEFINE d == req[v].code
           kept == WithoutCodes(code, req[v].doomed)
<1>1. AppWritten(v)
  BY AppsDeletedWritten, DoomedAreHeld DEF ExchangeReject
<1>2. d \in Code /\ code[d].status # "absent" /\ req[v].at # Never
  BY DEF ExchangeReject, At, TypeInv, TypeOK, RequestReferences, Request, HeldInv, Holds,
         Inserted, Never
<1>3. /\ kept \in [Code -> CodeRow]
      /\ \A c \in Code : kept[c] = code[c] \/ (kept[c].status = "deleted" /\ ~Stored(kept[c]))
  BY DeletionType, CodesDeleted DEF TypeInv
<1> HIDE DEF kept
<1>4. code' = [kept EXCEPT ![d] =
            [kept[d] EXCEPT
                !.revoked = IF req[v].verdict = "deny" THEN req[v].at ELSE kept[d].revoked,
                !.consumed = IF req[v].verdict = "burn" THEN req[v].at ELSE kept[d].consumed]]
  BY DEF ExchangeReject, kept
<1>5. /\ code'[d].status = kept[d].status
      /\ code'[d].revoked \in {req[v].at, kept[d].revoked}
      /\ code'[d].consumed \in {req[v].at, kept[d].consumed}
      /\ \A c \in Code \ {d} : code'[c] = kept[c]
  BY <1>2, <1>3, <1>4 DEF CodeRow
<1> HIDE DEF d
<1>6. CodeWritten
  BY <1>2, <1>3, <1>5 DEF CodeWritten, Stored
<1>7. QED
  BY <1>1, <1>6 DEF ExchangeReject, Written, SessWritten

LEMMA GrantWritten ==
    ASSUME TypeInv, HeldInv, NEW v \in Worker, NEW a \in AppSession, ExchangeGrant(v, a)
    PROVE  Written(v)
<1> DEFINE d == req[v].code
           kept == WithoutCodes(code, req[v].doomed)
           rest == WithoutApps(app, req[v].doomed)
<1>1. d \in Code /\ code[d].status # "absent" /\ req[v].at # Never /\ v # None
  BY IdentitiesAreDistinct
  DEF ExchangeGrant, At, TypeInv, TypeOK, RequestReferences, Request, HeldInv, Holds, Inserted,
      Never
<1>2. /\ kept \in [Code -> CodeRow]
      /\ \A c \in Code : kept[c] = code[c] \/ (kept[c].status = "deleted" /\ ~Stored(kept[c]))
  BY DeletionType, CodesDeleted DEF TypeInv
<1>3. code' = [kept EXCEPT ![d].consumed = req[v].at]
  BY DEF ExchangeGrant
<1> HIDE DEF kept
<1>4. /\ code'[d].status = kept[d].status /\ code'[d].revoked = kept[d].revoked
      /\ code'[d].consumed = req[v].at
      /\ \A c \in Code \ {d} : code'[c] = kept[c]
  BY <1>1, <1>2, <1>3 DEF CodeRow
<1>5. CodeWritten
  <2> HIDE DEF d
  <2>1. QED
    BY <1>1, <1>2, <1>4 DEF CodeWritten, Stored
<1>6. /\ app[a].status = "absent" /\ app[a].revoked = Never /\ app'[a].status = "stored"
      /\ \A b \in AppSession \ {a} : app'[b] = rest[b]
  BY DEF ExchangeGrant, HeldInv, BlankUntilInserted, Inserted, WithoutApps
<1>7. \A b \in AppSession : IF b \in req[v].doomed THEN rest[b].status = "deleted"
                                                  ELSE rest[b] = app[b]
  BY DEF WithoutApps, NoApp
<1> HIDE DEF rest
<1>8. AppWritten(v)
  BY <1>6, <1>7, DoomedAreHeld DEF AppWritten, Stored
<1>9. QED
  BY <1>5, <1>8 DEF ExchangeGrant, Written, SessWritten

LEMMA VerdictWritten ==
    ASSUME TypeInv, HeldInv, NEW v \in Worker, IntrospectReject(v) \/ IntrospectActive(v)
    PROVE  Written(v)
<1> DEFINE a == req[v].app
           s == req[v].sess
<1>1. /\ a \in AppSession /\ app[a].status # "absent" /\ lock[a] = v /\ app[a] \in AppRow
      /\ s \in Session /\ sess[s].status # "absent" /\ sess[s] \in SessRow
      /\ req[v].at # Never
  BY DEF IntrospectReject, IntrospectActive, At, TypeInv, TypeOK, RequestReferences, SessionOps,
         Request, HeldInv, Holds, Inserted, Stored, Never
<1>2. /\ \A b \in AppSession \ {a} : app'[b] = app[b]
      /\ app'[a].status = app[a].status /\ app'[a].code = app[a].code
      /\ app'[a].revoked \in {app[a].revoked, req[v].at}
  BY <1>1 DEF IntrospectReject, IntrospectActive, TypeInv, TypeOK, AppRow
<1>3. AppWritten(v)
  <2> HIDE DEF a
  <2>1. QED
    BY <1>1, <1>2 DEF AppWritten, Stored
<1>4. SessWritten
  <2>1. CASE UNCHANGED sess
    BY <2>1 DEF SessWritten
  <2>2. CASE IntrospectActive(v)
    BY <1>1, <2>2 DEF IntrospectActive, TypeInv, TypeOK, SessRow, SessWritten
  <2>3. QED
    BY <2>1, <2>2 DEF IntrospectReject
<1>5. QED
  BY <1>3, <1>4 DEF IntrospectReject, IntrospectActive, Written, CodeWritten, Stored

LEMMA EnvironmentWritten ==
    ASSUME TypeInv, HeldInv, Environment
    PROVE  Written(None) /\ LocksKept(None)
<1>1. CASE Tick \/ UpdateRolePermissions \/ UpdateAuthenticationSettings
  BY <1>1, NothingWritten DEF Tick, UpdateRolePermissions, UpdateAuthenticationSettings,
                              settingsVars, LocksKept
<1>2. ASSUME NEW a \in AppSession, RevokeApplicationSession(a)
      PROVE  Written(None) /\ LocksKept(None)
  <2>1. /\ \A b \in AppSession \ {a} : app'[b] = app[b]
        /\ app'[a].status = app[a].status /\ app'[a].code = app[a].code
        /\ app'[a].revoked = now /\ now # Never
        /\ app[a].status = "stored" /\ lock[a] = None
    BY <1>2 DEF RevokeApplicationSession, TypeInv, TypeOK, AppRow, Stored, Never
  <2>2. AppWritten(None)
    BY <2>1 DEF AppWritten, Stored
  <2>3. QED
    BY <1>2, <2>2 DEF RevokeApplicationSession, Written, SessWritten, CodeWritten, Stored, LocksKept
<1>3. CASE Cleanup
  <2>1. PICK codes \in SUBSET PurgeableCodes, apps \in SUBSET PurgeableApps :
          /\ \A r \in codes \cup apps : lock[r] = None
          /\ code' = WithoutCodes(code, codes) /\ app' = WithoutApps(app, apps)
          /\ UNCHANGED <<sess, lock, req, now>>
    BY <1>3 DEF Cleanup
  <2>2. AppWritten(None)
    BY <2>1, AppsDeletedWritten
  <2>3. CodeWritten
    BY <2>1, CodesDeleted DEF CodeWritten
  <2>4. QED
    BY <2>1, <2>2, <2>3 DEF Written, SessWritten, LocksKept
<1>4. QED
  BY <1>1, <1>2, <1>3 DEF Environment
-----------------------------------------------------------------------------
(* What each step locks, and what its request holds afterwards. *)

LEMMA FinishHolds ==
    ASSUME TypeInv, NEW v \in Worker, Finish(v), now' = now
    PROVE  LocksKept(v) /\ Holds(v)'
<1>1. /\ \A w \in Worker \ {v} : req'[w] = req[w]
      /\ req'[v] = NoRequest
      /\ \A x \in Row : lock'[x] = IF lock[x] = v THEN None ELSE lock[x]
  BY DEF Finish, Released, TypeInv, TypeOK
<1>2. QED
  BY <1>1 DEF LocksKept, Holds, NoRequest

(* The locks of v grow by rows that have been inserted. *)
Locks(v, rows) ==
    /\ CanLock(v, rows) /\ lock' = Taken(v, rows)
    /\ \A x \in rows : Inserted(x)

LEMMA LocksGrow ==
    ASSUME TypeInv, NEW v \in Worker, NEW rows, Locks(v, rows) \/ UNCHANGED lock,
           NEW x, req' = [req EXCEPT ![v] = x], now' = now
    PROVE  LocksKept(v) /\ req'[v] = x /\ \A y \in Row : lock[y] = v => lock'[y] = v
<1>1. \A w \in Worker \ {v}, y \in Row : lock[y] = w => lock'[y] = w
  BY IdentitiesAreDistinct DEF Locks, CanLock, Taken
<1>2. \A y \in Row : lock'[y] # None => lock[y] # None \/ Inserted(y)
  BY DEF Locks, Taken
<1>3. \A y \in Row : lock[y] = v => lock'[y] = v
  BY DEF Locks, Taken
<1>4. req'[v] = x /\ \A w \in Worker \ {v} : req'[w] = req[w]
  BY DEF TypeInv, TypeOK
<1>5. QED
  BY <1>1, <1>2, <1>3, <1>4 DEF LocksKept

(* A request that goes on, or begins without a cleanup, holds what it held. *)
LEMMA HoldsOn ==
    ASSUME TypeInv, HeldInv, NEW v \in Worker, UNCHANGED <<sess, code, app, now>>,
           NEW rows, Locks(v, rows) \/ UNCHANGED lock,
           NEW x, req' = [req EXCEPT ![v] = x],
           x.doomed \in {req[v].doomed, {}},
           x.op = "exchange" => Inserted(x.code),
           x.op = "introspect" => Inserted(x.app) /\ x.step \in {"decide", "commit"},
           x.op = "introspect" /\ x.step = "commit" => lock'[x.app] = v
    PROVE  LocksKept(v) /\ Holds(v)'
<1>1. LocksKept(v) /\ req'[v] = x /\ \A y \in Row : lock[y] = v => lock'[y] = v
  BY LocksGrow
<1>2. PurgeableApps' = PurgeableApps /\ \A y : Inserted(y)' <=> Inserted(y)
  BY DEF PurgeableApps, Inserted, Stored, Reached
<1>3. /\ \A y \in x.doomed : lock'[y] = v
      /\ AppSession \cap x.doomed \subseteq PurgeableApps
  BY <1>1 DEF HeldInv, Holds, TypeInv, TypeOK, Request, Row
<1>4. QED
  BY <1>1, <1>2, <1>3 DEF Holds

(* A request that begins a cleanup locks the rows it will delete. *)
LEMMA HoldsDoomed ==
    ASSUME TypeInv, HeldInv, NEW v \in Worker, UNCHANGED <<sess, code, app, now>>,
           NEW codes \in SUBSET PurgeableCodes, NEW apps \in SUBSET PurgeableApps,
           NEW more \in SUBSET {Radar},
           CanLock(v, codes \cup apps \cup more), lock' = Taken(v, codes \cup apps \cup more),
           NEW x, req' = [req EXCEPT ![v] = x], x.doomed = codes \cup apps,
           x.op = "exchange" => Inserted(x.code), x.op # "introspect"
    PROVE  LocksKept(v) /\ Holds(v)'
<1>1. \A y \in codes \cup apps \cup more : Inserted(y)
  BY IdentitiesAreDistinct DEF PurgeableCodes, PurgeableApps, Inserted, Stored
<1>2. LocksKept(v) /\ req'[v] = x
  BY <1>1, LocksGrow DEF Locks
<1>3. PurgeableApps' = PurgeableApps /\ \A y : Inserted(y)' <=> Inserted(y)
  BY DEF PurgeableApps, Inserted, Stored, Reached
<1>4. /\ \A y \in x.doomed : lock'[y] = v
      /\ AppSession \cap x.doomed \subseteq PurgeableApps
  BY IdentitiesAreDistinct DEF PurgeableCodes, PurgeableApps, Taken, Row
<1>5. QED
  BY <1>2, <1>3, <1>4 DEF Holds

LEMMA SignInHolds ==
    ASSUME TypeInv, HeldInv, NEW v \in Worker, SignIn(v)
    PROVE  Written(v) /\ LocksKept(v) /\ Holds(v)'
<1>1. ASSUME NEW u \in User, LoginRead(v, u) PROVE Written(v) /\ LocksKept(v) /\ Holds(v)'
  <2> DEFINE x == [NoRequest EXCEPT !.op = "login", !.step = "commit", !.user = u]
  <2>1. /\ req' = [req EXCEPT ![v] = x] /\ UNCHANGED <<sess, code, app, now, lock>>
    BY <1>1 DEF LoginRead
  <2>2. x.op = "login" /\ x.doomed = {}
    BY DEF NoRequest
  <2> HIDE DEF x
  <2>3. QED
    BY <2>1, <2>2, HoldsOn, NothingWritten
<1>2. ASSUME NEW s \in Session, LoginCommit(v, s) PROVE Written(v) /\ LocksKept(v) /\ Holds(v)'
  BY <1>2, LoginWritten, FinishHolds DEF LoginCommit
<1>3. QED
  BY <1>1, <1>2 DEF SignIn

LEMMA PortalRequestHolds ==
    ASSUME TypeInv, HeldInv, NEW v \in Worker, PortalRequest(v)
    PROVE  Written(v) /\ LocksKept(v) /\ Holds(v)'
<1> DEFINE Kept == Written(v) /\ LocksKept(v) /\ Holds(v)'
<1>1. ASSUME NEW s \in Session, NEW kind \in {"visit", "authorize"}, ContextRead(v, s, kind)
      PROVE  Kept
  <2> DEFINE ends == ContextExpired(sess[s], now) \/ ~account[sess[s].user].enabled
             x == [NoRequest EXCEPT !.op = IF ends THEN "expire" ELSE kind,
                                    !.step = IF ends THEN "codes" ELSE "start",
                                    !.at = now, !.idle = idleTimeout, !.sess = s]
  <2>1. req' = [req EXCEPT ![v] = x] /\ UNCHANGED <<sess, code, app, now, lock>>
    BY <1>1 DEF ContextRead
  <2> HIDE DEF ends
  <2>2. x.op \in {"expire", "visit", "authorize"} /\ x.doomed = {}
    BY DEF NoRequest
  <2> HIDE DEF x
  <2>3. QED
    BY <2>1, <2>2, HoldsOn, NothingWritten
<1>2. CASE ContextRefresh(v)
  <2>1. CASE Finish(v)
    BY Zenon, <1>2, <2>1, RefreshWritten, FinishHolds DEF ContextRefresh
  <2>2. CASE req' = [req EXCEPT ![v].step = "check"] /\ UNCHANGED lock
    <3> DEFINE x == [req[v] EXCEPT !.step = "check"]
    <3>1. req' = [req EXCEPT ![v] = x] /\ UNCHANGED <<app, now, lock>>
      BY <1>2, <2>2 DEF ContextRefresh
    <3>2. x.op \in {"visit", "authorize"} /\ x.doomed = req[v].doomed
      BY <1>2 DEF ContextRefresh, TypeInv, TypeOK, Request
    <3> HIDE DEF x
    <3>3. LocksKept(v) /\ req'[v] = x
      BY <3>1, LocksGrow
    <3>4. PurgeableApps' = PurgeableApps
      BY <3>1 DEF PurgeableApps, Stored, Reached
    <3>5. Holds(v)'
      BY <3>1, <3>2, <3>3, <3>4 DEF Holds, HeldInv
    <3>6. QED
      BY <1>2, <3>3, <3>5, RefreshWritten
  <2>3. QED
    BY <1>2, <2>1, <2>2 DEF ContextRefresh
<1>3. ASSUME NEW s \in Session, LogoutStart(v, s) PROVE Kept
  <2> DEFINE x == [NoRequest EXCEPT !.op = "logout", !.step = "lock", !.sess = s]
  <2>1. req' = [req EXCEPT ![v] = x] /\ UNCHANGED <<sess, code, app, now, lock>>
    BY <1>3 DEF LogoutStart
  <2>2. x.op = "logout" /\ x.doomed = {}
    BY DEF NoRequest
  <2> HIDE DEF x
  <2>3. QED
    BY <2>1, <2>2, HoldsOn, NothingWritten
<1>4. CASE LogoutLock(v)
  <2>1. CASE Finish(v)
    BY <1>4, <2>1, NothingWritten, FinishHolds DEF LogoutLock
  <2>2. CASE ~Finish(v)
    <3> DEFINE x == [req[v] EXCEPT !.step = "codes", !.at = now]
               s == req[v].sess
    <3>1. /\ CanLock(v, {s}) /\ lock' = Taken(v, {s}) /\ req' = [req EXCEPT ![v] = x]
          /\ UNCHANGED <<sess, code, app, now>>
      BY <1>4, <2>2 DEF LogoutLock
    <3>2. Locks(v, {s})
      BY <1>4, <3>1, IdentitiesAreDistinct
      DEF Locks, Inserted, LogoutLock, At, TypeInv, RequestReferences, SessionOps, Stored
    <3>3. x.op = "logout" /\ x.doomed = req[v].doomed
      BY <1>4 DEF LogoutLock, At, TypeInv, TypeOK, Request
    <3> HIDE DEF x, s
    <3>4. QED
      BY <3>1, <3>2, <3>3, HoldsOn, NothingWritten
  <2>3. QED
    BY <2>1, <2>2
<1>5. CASE ExpireCommit(v) \/ LogoutCommit(v)
  BY <1>5, EndWritten, FinishHolds DEF ExpireCommit, LogoutCommit
<1>6. CASE RevokeCodes(v) \/ RevokeApps(v)
  <2>1. PICK rows, step :
          /\ rows \subseteq TargetCodes(req[v]) \/ rows \subseteq TargetApps(req[v])
          /\ CanLock(v, rows) /\ lock' = Taken(v, rows)
          /\ req' = [req EXCEPT ![v] = [req[v] EXCEPT !.step = step]]
    BY <1>6 DEF RevokeCodes, RevokeApps
  <2>2. Locks(v, rows)
    BY <2>1, IdentitiesAreDistinct DEF Locks, Inserted, TargetCodes, TargetApps, Stored
  <2>3. UNCHANGED <<sess, code, app, now>> /\ req[v].op # "introspect"
    BY <1>6 DEF RevokeCodes, RevokeApps, HeldInv, Holds
  <2> DEFINE x == [req[v] EXCEPT !.step = step]
  <2>4. /\ x.op = req[v].op /\ x.doomed = req[v].doomed /\ x.code = req[v].code
    BY DEF TypeInv, TypeOK, Request
  <2>5. req' = [req EXCEPT ![v] = x]
    BY <2>1
  <2>6. x.op = "exchange" => Inserted(x.code)
    BY <2>4 DEF HeldInv, Holds
  <2> HIDE DEF x
  <2>7. QED
    BY <2>2, <2>3, <2>4, <2>5, <2>6, HoldsOn, NothingWritten
<1>7. CASE AuthorizeCheck(v)
  <2> DEFINE acct == account[sess[req[v].sess].user]
             on == [req[v] EXCEPT !.step = "decide"]
             out == [req[v] EXCEPT !.op = "logout", !.step = "lock"]
  <2>1. UNCHANGED <<sess, code, app, now, lock>> /\ req[v].op = "authorize"
    BY <1>7 DEF AuthorizeCheck, At
  <2>2. req' = [req EXCEPT ![v] = on] \/ req' = [req EXCEPT ![v] = out]
    BY <1>7 DEF AuthorizeCheck
  <2>3. /\ on.op = "authorize" /\ on.doomed = req[v].doomed
        /\ out.op = "logout" /\ out.doomed = req[v].doomed
    BY SMTT(30), <2>1 DEF TypeInv, TypeOK, Request
  <2> HIDE DEF on, out
  <2>4. QED
    BY <2>1, <2>2, <2>3, HoldsOn, NothingWritten
<1>8. CASE AuthorizeDecide(v)
  <2>1. CASE Finish(v)
    BY Zenon, <1>8, <2>1, NothingWritten, FinishHolds DEF AuthorizeDecide
  <2>2. CASE ~Finish(v)
    <3>1. PICK codes \in SUBSET PurgeableCodes, apps \in SUBSET PurgeableApps :
            /\ CanLock(v, codes \cup apps) /\ CanLock(v, {Radar})
            /\ lock' = Taken(v, codes \cup apps \cup {Radar})
            /\ req' = [req EXCEPT ![v] = [req[v] EXCEPT !.step = "commit", !.at = now,
                                                        !.doomed = codes \cup apps]]
      BY ZenonT(40), <1>8, <2>2 DEF AuthorizeDecide
    <3> DEFINE x == [req[v] EXCEPT !.step = "commit", !.at = now, !.doomed = codes \cup apps]
    <3>2. UNCHANGED <<sess, code, app, now>> /\ CanLock(v, codes \cup apps \cup {Radar})
      BY Zenon, <1>8, <3>1 DEF AuthorizeDecide, CanLock
    <3>3. x.op = "authorize" /\ x.doomed = codes \cup apps
      <4>1. req[v] \in Request /\ req[v].op = "authorize"
        BY Zenon, <1>8 DEF AuthorizeDecide, At, TypeInv, TypeOK
      <4> DEFINE rows == codes \cup apps
      <4> HIDE DEF rows
      <4>2. LET y == [req[v] EXCEPT !.step = "commit", !.at = now, !.doomed = rows]
            IN y.op = "authorize" /\ y.doomed = rows
        BY <4>1 DEF Request
      <4>3. QED
        BY SMTT(30), <4>2 DEF rows
    <3>4. req' = [req EXCEPT ![v] = x]
      BY <3>1
    <3> HIDE DEF x
    <3>5. {Radar} \in SUBSET {Radar}
      OBVIOUS
    <3>6. LocksKept(v) /\ Holds(v)'
      BY <3>1, <3>2, <3>3, <3>4, <3>5, HoldsDoomed
    <3>7. QED
      BY <3>2, <3>6, NothingWritten
  <2>3. QED
    BY <2>1, <2>2
<1>9. ASSUME NEW c \in Code, AuthorizeCommit(v, c) PROVE Kept
  BY <1>9, AuthorizeWritten, FinishHolds DEF AuthorizeCommit
<1>10. QED
  BY <1>1, <1>2, <1>3, <1>4, <1>5, <1>6, <1>7, <1>8, <1>9 DEF PortalRequest

LEMMA RadarRequestHolds ==
    ASSUME TypeInv, HeldInv, NEW v \in Worker, RadarRequest(v)
    PROVE  Written(v) /\ LocksKept(v) /\ Holds(v)'
<1> DEFINE Kept == Written(v) /\ LocksKept(v) /\ Holds(v)'
<1>1. ASSUME NEW c \in Code, NEW proof \in BOOLEAN, ExchangeRead(v, c, proof) PROVE Kept
  <2> DEFINE next(codes, apps, step, verdict) ==
                [NoRequest EXCEPT !.op = "exchange", !.at = now, !.code = c,
                                  !.sess = code[c].parent, !.proof = proof,
                                  !.doomed = codes \cup apps,
                                  !.step = step, !.verdict = verdict]
  <2>0. PICK codes \in SUBSET PurgeableCodes, apps \in SUBSET PurgeableApps :
          /\ CanLock(v, codes \cup apps) /\ lock' = Taken(v, codes \cup apps)
          /\ req' = [req EXCEPT ![v] =
                next(codes, apps, IF c \in codes THEN "commit" ELSE "decide",
                                  IF c \in codes THEN "reject" ELSE "none")]
    BY Zenon, <1>1 DEF ExchangeRead
  <2>1. PICK step, verdict : req' = [req EXCEPT ![v] = next(codes, apps, step, verdict)]
    BY Zenon, <2>0
  <2> DEFINE x == next(codes, apps, step, verdict)
  <2>2. UNCHANGED <<sess, code, app, now>> /\ Inserted(c)
    BY <1>1, IdentitiesAreDistinct DEF ExchangeRead, Inserted, Stored
  <2>3. x.op = "exchange" /\ x.doomed = codes \cup apps /\ x.code = c
    BY DEF NoRequest
  <2>4. req' = [req EXCEPT ![v] = x]
    BY <2>1
  <2> HIDE DEF x, next
  <2>5. {} \in SUBSET {Radar} /\ codes \cup apps \cup {} = codes \cup apps
    OBVIOUS
  <2>6. LocksKept(v) /\ Holds(v)'
    BY <2>0, <2>2, <2>3, <2>4, <2>5, HoldsDoomed
  <2>7. QED
    BY <2>2, <2>6, NothingWritten
<1>2. CASE ExchangeDecide(v)
  <2> DEFINE s == req[v].sess
             verdict == ExchangeVerdict(v)
             rows == {s, req[v].code} \cup IF verdict = "reject" THEN {}
                                           ELSE {sess[s].user, Radar}
             x == [req[v] EXCEPT !.step = "commit", !.verdict = verdict]
  <2>1. /\ CanLock(v, rows) /\ lock' = Taken(v, rows) /\ req' = [req EXCEPT ![v] = x]
        /\ UNCHANGED <<sess, code, app, now>>
    BY <1>2 DEF ExchangeDecide
  <2>2. /\ req[v].op = "exchange" /\ s \in Session /\ Stored(sess[s]) /\ sess[s].user \in User
        /\ req[v].code \in Code /\ Inserted(req[v].code)
    BY <1>2 DEF ExchangeDecide, At, TypeInv, RequestReferences, RowReferences, SessionOps,
                HeldInv, Holds
  <2>3. \A y \in rows : Inserted(y)
    <3> HIDE DEF verdict
    <3>1. QED
      BY <2>2, IdentitiesAreDistinct DEF Inserted, Stored
  <2>4. x.op = "exchange" /\ x.code = req[v].code /\ x.doomed = req[v].doomed
    BY <2>2 DEF TypeInv, TypeOK, Request
  <2> HIDE DEF x, rows
  <2>5. Locks(v, rows)
    BY SMTT(30), <2>1, <2>3 DEF Locks
  <2>6. QED
    BY <2>1, <2>2, <2>4, <2>5, HoldsOn, NothingWritten
<1>3. CASE ExchangeReject(v)
  BY ZenonT(40), <1>3, RejectWritten, FinishHolds DEF ExchangeReject
<1>4. ASSUME NEW a \in AppSession, ExchangeGrant(v, a) PROVE Kept
  BY <1>4, GrantWritten, FinishHolds DEF ExchangeGrant
<1>5. ASSUME NEW a \in AppSession, IntrospectRead(v, a) PROVE Kept
  <2> DEFINE x == [NoRequest EXCEPT !.op = "introspect", !.step = "decide", !.at = now,
                                    !.app = a, !.sess = app[a].parent]
  <2>1. /\ req' = [req EXCEPT ![v] = x] /\ UNCHANGED <<sess, code, app, now, lock>>
        /\ Inserted(a)
    BY <1>5, IdentitiesAreDistinct DEF IntrospectRead, Inserted, Stored
  <2>2. x.op = "introspect" /\ x.step = "decide" /\ x.app = a /\ x.doomed = {}
    BY DEF NoRequest
  <2> HIDE DEF x
  <2>3. QED
    BY <2>1, <2>2, HoldsOn, NothingWritten
<1>6. CASE IntrospectDecide(v)
  <2>1. CASE Finish(v)
    BY <1>6, <2>1, NothingWritten, FinishHolds DEF IntrospectDecide
  <2>2. CASE ~Finish(v)
    <3> DEFINE rows == {req[v].sess, req[v].app}
    <3>1. PICK verdict :
            req' = [req EXCEPT ![v] = [req[v] EXCEPT !.step = "commit", !.idle = idleTimeout,
                                                     !.verdict = verdict]]
      BY Zenon, <1>6, <2>2 DEF IntrospectDecide
    <3> DEFINE x == [req[v] EXCEPT !.step = "commit", !.idle = idleTimeout, !.verdict = verdict]
    <3>2. /\ CanLock(v, rows) /\ lock' = Taken(v, rows) /\ Stored(app[req[v].app])
          /\ UNCHANGED <<sess, code, app, now>>
      BY <1>6, <2>2 DEF IntrospectDecide
    <3>3. /\ req[v].op = "introspect" /\ req[v].app \in AppSession
          /\ req[v].sess \in Session /\ Stored(sess[req[v].sess])
      BY <1>6 DEF IntrospectDecide, At, TypeInv, RequestReferences, SessionOps
    <3>4. Locks(v, rows) /\ Inserted(req[v].app) /\ lock'[req[v].app] = v
      BY <3>2, <3>3, IdentitiesAreDistinct DEF Locks, Inserted, Stored, Taken, Row
    <3>5. /\ x.op = "introspect" /\ x.step = "commit" /\ x.app = req[v].app
          /\ x.doomed = req[v].doomed
      BY <3>3 DEF TypeInv, TypeOK, Request
    <3>6. req' = [req EXCEPT ![v] = x]
      BY <3>1
    <3> HIDE DEF x, rows
    <3>7. QED
      BY <3>2, <3>4, <3>5, <3>6, HoldsOn, NothingWritten
  <2>3. QED
    BY <2>1, <2>2
<1>7. CASE IntrospectReject(v) \/ IntrospectActive(v)
  BY Zenon, <1>7, VerdictWritten, FinishHolds DEF IntrospectReject, IntrospectActive
<1>8. QED
  BY <1>1, <1>2, <1>3, <1>4, <1>5, <1>6, <1>7 DEF RadarRequest

LEMMA AdminRequestHolds ==
    ASSUME TypeInv, HeldInv, NEW v \in Worker, AdminRequest(v)
    PROVE  Written(v) /\ LocksKept(v) /\ Holds(v)'
<1> DEFINE Kept == Written(v) /\ LocksKept(v) /\ Holds(v)'
<1>1. ASSUME NEW u \in User, NEW want \in Payload, AdminUpdate(v, u, want) PROVE Kept
  <2>1. PICK first :
          req' = [req EXCEPT ![v] = [NoRequest EXCEPT !.op = "admin", !.step = first,
                                                      !.at = now, !.user = u, !.want = want]]
    BY Zenon, <1>1 DEF AdminUpdate
  <2> DEFINE x == [NoRequest EXCEPT !.op = "admin", !.step = first, !.at = now, !.user = u,
                                    !.want = want]
  <2>2. req' = [req EXCEPT ![v] = x] /\ UNCHANGED <<sess, code, app, now, lock>>
    BY <1>1, <2>1 DEF AdminUpdate
  <2>3. x.op = "admin" /\ x.doomed = {}
    BY DEF NoRequest
  <2> HIDE DEF x
  <2>4. QED
    BY <2>2, <2>3, HoldsOn, NothingWritten
<1>2. ASSUME NEW u \in User, AdminReset(v, u) PROVE Kept
  <2> DEFINE x == [NoRequest EXCEPT !.op = "reset", !.step = "sessions", !.user = u]
  <2>1. req' = [req EXCEPT ![v] = x] /\ UNCHANGED <<sess, code, app, now, lock>>
    BY <1>2 DEF AdminReset
  <2>2. x.op = "reset" /\ x.doomed = {}
    BY DEF NoRequest
  <2> HIDE DEF x
  <2>3. QED
    BY <2>1, <2>2, HoldsOn, NothingWritten
<1>3. CASE AdminSessions(v)
  <2> DEFINE rows == TargetSessions(req[v].user)
             x == [req[v] EXCEPT !.step = "codes", !.at = now]
  <2>1. /\ CanLock(v, rows) /\ lock' = Taken(v, rows) /\ req' = [req EXCEPT ![v] = x]
        /\ UNCHANGED <<sess, code, app, now>> /\ req[v].op \in {"admin", "reset"}
    BY <1>3 DEF AdminSessions, AdminOps
  <2>2. Locks(v, rows)
    BY <2>1, IdentitiesAreDistinct DEF Locks, Inserted, TargetSessions, Stored
  <2>3. x.op \in {"admin", "reset"} /\ x.doomed = req[v].doomed
    BY <2>1 DEF TypeInv, TypeOK, Request
  <2> HIDE DEF x, rows
  <2>4. QED
    BY <2>1, <2>2, <2>3, HoldsOn, NothingWritten
<1>4. CASE AdminCommit(v)
  BY <1>4, EndWritten, FinishHolds DEF AdminCommit
<1>5. QED
  BY <1>1, <1>2, <1>3, <1>4 DEF AdminRequest

(* Every step writes what it may, and the invariant holds on.               *)
LEMMA WrittenStep ==
    TypeInv /\ HeldInv /\ [Next]_vars => HeldInv' /\ \E v \in Worker \cup {None} : Written(v)
<1> SUFFICES ASSUME TypeInv, HeldInv, [Next]_vars
             PROVE  HeldInv' /\ \E v \in Worker \cup {None} : Written(v)
  OBVIOUS
<1>1. CASE Environment
  BY <1>1, EnvironmentWritten, HeldStep, IdentitiesAreDistinct
<1>2. ASSUME NEW v \in Worker,
             SignIn(v) \/ PortalRequest(v) \/ RadarRequest(v) \/ AdminRequest(v) \/ Rollback(v)
      PROVE  HeldInv' /\ Written(v)
  <2>1. ASSUME Rollback(v) PROVE Written(v) /\ LocksKept(v) /\ Holds(v)'
    BY <2>1, NothingWritten, FinishHolds DEF Rollback
  <2>2. Written(v) /\ LocksKept(v) /\ Holds(v)'
    BY <1>2, <2>1, SignInHolds, PortalRequestHolds, RadarRequestHolds, AdminRequestHolds
  <2>3. QED
    BY <2>2, HeldStep
<1>3. CASE UNCHANGED vars
  <2>1. Written(None)
    BY <1>3, NothingWritten DEF vars
  <2>2. LocksKept(None)
    BY <1>3 DEF LocksKept, vars
  <2>3. QED
    BY <2>1, <2>2, HeldStep, IdentitiesAreDistinct
<1>4. QED
  BY <1>1, <1>2, <1>3, NextCases

LEMMA HeldInit == Init => HeldInv
  BY IdentitiesAreDistinct
  DEF Init, HeldInv, BlankUntilInserted, Inserted, Holds, NoSess, NoCode, NoApp, NoRequest

(* No step gives a revoked session or a used code back: what an exchange,  *)
(* an introspection or a refresh writes goes around the revocation.        *)
THEOREM RevocationsAreFinal == Spec => RevocationIsFinal
<1> DEFINE Final ==
        /\ \A s \in Session : sess[s].revoked # Never => sess'[s].revoked # Never
        /\ \A c \in Code : /\ code[c].revoked # Never /\ Stored(code'[c])
                                => code'[c].revoked # Never
                           /\ code[c].consumed # Never /\ Stored(code'[c])
                                => code'[c].consumed # Never
        /\ \A a \in AppSession : app[a].revoked # Never /\ Stored(app'[a])
                                => app'[a].revoked # Never
<1>1. Init => TypeInv /\ HeldInv
  BY TypeInit, HeldInit
<1>2. TypeInv /\ HeldInv /\ [Next]_vars => (TypeInv /\ HeldInv)'
  BY TypeStep, WrittenStep
<1>3. TypeInv /\ HeldInv /\ [Next]_vars => [Final]_vars
  BY WrittenStep DEF Written, SessWritten, CodeWritten, AppWritten
<1>4. QED
  BY <1>1, <1>2, <1>3, PTL DEF Spec, RevocationIsFinal

(* A cleanup, inline or scheduled, deletes no application session that     *)
(* could still be used or that ended less than the retention time ago,     *)
(* however long it has waited for its locks.                               *)
THEOREM CleanupSpares == Spec => CleanupSparesLive
<1> DEFINE Spares ==
        \A a \in AppSession : Stored(app[a]) /\ ~Stored(app'[a]) =>
            \/ app[a].idle + Retention <= now
            \/ Reached(app[a].revoked, now - Retention)
<1>1. Init => TypeInv /\ HeldInv /\ ChildWithinParent
  BY TypeInit, HeldInit DEF Init, ChildWithinParent, NoApp, Stored
<1>2. TypeInv /\ HeldInv /\ ChildWithinParent /\ [Next]_vars
        => (TypeInv /\ HeldInv /\ ChildWithinParent)'
  BY TypeStep, WrittenStep, ChildInvStep
<1>3. TypeInv /\ HeldInv /\ ChildWithinParent /\ [Next]_vars => [Spares]_vars
  <2> SUFFICES ASSUME TypeInv, HeldInv, ChildWithinParent, [Next]_vars,
                      NEW a \in AppSession, Stored(app[a]), ~Stored(app'[a])
               PROVE  \/ app[a].idle + Retention <= now
                      \/ Reached(app[a].revoked, now - Retention)
    OBVIOUS
  <2>1. a \in PurgeableApps
    BY WrittenStep DEF Written, AppWritten
  <2>2. /\ app[a].idle \in Nat /\ app[a].absolute \in Nat /\ now \in Nat /\ Retention \in Nat
        /\ app[a].idle <= app[a].absolute
    BY DurationsArePositive DEF TypeInv, TypeOK, AppRow, ChildWithinParent
  <2>3. QED
    BY <2>1, <2>2 DEF PurgeableApps
<1>4. QED
  BY <1>1, <1>2, <1>3, PTL DEF Spec, CleanupSparesLive

-----------------------------------------------------------------------------
(* Only threads of the server serve requests. *)
PoolServes == \A w \in Worker : req[w].op # "idle" => w \in pool

Others(v) == \A w \in Worker \ {v} : req'[w] = req[w] /\ orm'[w] = orm[w]

LEMMA EnvironmentOthers == Environment => UNCHANGED <<req, orm, lock, sess, account>>
  BY DEF Environment, RevokeApplicationSession, UpdateRolePermissions,
         UpdateAuthenticationSettings, Cleanup, Tick, settingsVars

LEMMA OthersLeft ==
    ASSUME TypeInv, NEW v \in Worker,
           SignIn(v) \/ PortalRequest(v) \/ RadarRequest(v) \/ AdminRequest(v) \/ Rollback(v)
    PROVE  Others(v)
<1>1. req \in [Worker -> Request] /\ orm \in [Worker -> Loaded]
  BY DEF TypeInv, TypeOK
<1>2. Finish(v) => Others(v)
  BY SMTT(30), <1>1 DEF Finish, Others
<1>3. CASE SignIn(v)
  BY Zenon, <1>1, <1>2, <1>3 DEF SignIn, LoginRead, LoginCommit, Others
<1>4. CASE PortalRequest(v)
  <2>1. CASE \E s \in Session, kind \in {"visit", "authorize"} : ContextRead(v, s, kind)
    BY <1>1, <2>1 DEF ContextRead, Others
  <2>2. CASE ContextRefresh(v) \/ ExpireCommit(v)
    BY <1>1, <1>2, <2>2 DEF ContextRefresh, ExpireCommit, Others
  <2>3. CASE (\E s \in Session : LogoutStart(v, s)) \/ LogoutLock(v) \/ LogoutCommit(v)
    BY Zenon, <1>1, <1>2, <2>3 DEF LogoutStart, LogoutLock, LogoutCommit, Others
  <2>4. CASE RevokeCodes(v) \/ RevokeApps(v)
    BY <1>1, <2>4 DEF RevokeCodes, RevokeApps, Others
  <2>5. CASE AuthorizeCheck(v)
    BY SMTT(30), <1>1, <2>5 DEF AuthorizeCheck, Others
  <2>6. CASE AuthorizeDecide(v)
    BY Zenon, <1>1, <1>2, <2>6 DEF AuthorizeDecide, Others
  <2>7. CASE \E c \in Code : AuthorizeCommit(v, c)
    BY <1>2, <2>7 DEF AuthorizeCommit
  <2>8. QED
    BY <1>4, <2>1, <2>2, <2>3, <2>4, <2>5, <2>6, <2>7 DEF PortalRequest
<1>5. CASE RadarRequest(v)
  <2>1. CASE \E c \in Code, proof \in BOOLEAN : ExchangeRead(v, c, proof)
    BY <1>1, <2>1 DEF ExchangeRead, Others
  <2>2. CASE ExchangeDecide(v)
    BY <1>1, <2>2 DEF ExchangeDecide, Others
  <2>3. CASE ExchangeReject(v) \/ \E a \in AppSession : ExchangeGrant(v, a)
    BY <1>2, <2>3 DEF ExchangeReject, ExchangeGrant
  <2>4. CASE \E a \in AppSession : IntrospectRead(v, a)
    BY <1>1, <2>4 DEF IntrospectRead, Others
  <2>5. CASE IntrospectDecide(v)
    BY <1>1, <1>2, <2>5 DEF IntrospectDecide, Others
  <2>6. CASE IntrospectReject(v) \/ IntrospectActive(v)
    BY SMTT(30), <1>2, <2>6 DEF IntrospectReject, IntrospectActive
  <2>7. QED
    BY <1>5, <2>1, <2>2, <2>3, <2>4, <2>5, <2>6 DEF RadarRequest
<1>6. CASE AdminRequest(v)
  BY Zenon, <1>1, <1>2, <1>6
  DEF AdminRequest, AdminUpdate, AdminReset, AdminSessions, AdminCommit, Others
<1>7. CASE Rollback(v)
  BY <1>2, <1>7 DEF Rollback
<1>8. QED
  BY <1>3, <1>4, <1>5, <1>6, <1>7

LEMMA PoolStep == TypeInv /\ PoolServes /\ [Next]_vars => PoolServes'
<1> SUFFICES ASSUME TypeInv, PoolServes, [Next]_vars PROVE PoolServes'
  OBVIOUS
<1>1. CASE Environment \/ UNCHANGED vars
  BY <1>1, EnvironmentOthers, NextCases DEF PoolServes, vars
<1>2. ASSUME NEW v \in pool,
             SignIn(v) \/ PortalRequest(v) \/ RadarRequest(v) \/ AdminRequest(v) \/ Rollback(v)
      PROVE  PoolServes'
  BY <1>2, OthersLeft, NextCases DEF PoolServes, Others
<1>3. QED
  BY <1>1, <1>2, NextCases

-----------------------------------------------------------------------------
(* One thread. *)

Authority == \A a \in AppSession : LiveApp(a) => Authorized(app[a].parent)

(* An edit that ends nothing takes nothing away.                           *)
Harmless(acct, want) == ~EndsSessions(acct, want) /\ (acct.assigned => want.assigned)

(* What the one request relies on.  The account an administrator loaded is *)
(* the present one; an edit that gets to its commit has locked every live  *)
(* application session of the user, or has nothing to end; a grant is      *)
(* given to a session that is authorized.                                  *)
AloneHolds(w) ==
    LET r == req[w] IN
    /\ r.op = "admin" => orm[w].account = account[r.user]
    /\ r.op \in AdminOps /\ r.step = "commit" =>
        \/ \A a \in AppSession : LiveApp(a) /\ sess[app[a].parent].user = r.user => lock[a] = w
        \/ /\ r.op = "admin" /\ Harmless(account[r.user], r.want)
           /\ \A s \in Session : lock[s] # w
    /\ r.op = "expire" /\ r.step = "commit" =>
        \A a \in AppSession : LiveApp(a) /\ app[a].parent = r.sess => lock[a] = w
    /\ r.verdict = "grant" => Authorized(r.sess)

AloneInv == PoolServes /\ (Alone => Authority /\ \A w \in Worker : AloneHolds(w))

LiveShrink ==
    \A a \in AppSession : LiveApp(a)' => LiveApp(a) /\ app'[a].parent = app[a].parent

LEMMA ShrinkKeeps ==
    ASSUME TypeInv, Authority, account' = account, LiveShrink,
           \A s \in Session : Stored(sess[s]) =>
                /\ sess'[s].user = sess[s].user /\ sess'[s].mfa = sess[s].mfa
                /\ sess'[s].revoked = sess[s].revoked
    PROVE  Authority'
<1>1. \A a \in AppSession : LiveApp(a) => app[a].parent \in Session /\ Stored(sess[app[a].parent])
  BY DEF TypeInv, RowReferences, LiveApp
<1>2. QED
  BY <1>1 DEF Authority, Authorized, Entitled, LiveShrink, MfaIsSatisfied

LEMMA DeletedShrink ==
    ASSUME TypeInv, NEW rows, app' = WithoutApps(app, rows)
    PROVE  LiveShrink
<1>1. \A a \in AppSession : Stored(app'[a]) => app'[a] = app[a]
  BY DeletionType DEF TypeInv
<1>2. QED
  BY <1>1 DEF LiveShrink, LiveApp

LEMMA NothingRelied ==
    ASSUME NEW v \in Worker, req'[v].verdict # "grant", req'[v].op \notin AdminOps,
           req'[v].op = "expire" => req'[v].step # "commit"
    PROVE  AloneHolds(v)'
  BY DEF AloneHolds, AdminOps

LEMMA FinishRelied ==
    ASSUME TypeInv, NEW v \in Worker, Finish(v)
    PROVE  AloneHolds(v)'
<1>1. req'[v] = NoRequest
  BY DEF Finish, TypeInv, TypeOK
<1>2. QED
  BY <1>1, NothingRelied DEF NoRequest, AdminOps

(* A request that goes on without writing. *)
LEMMA GoesOn ==
    ASSUME TypeInv, Authority, NEW v \in Worker, UNCHANGED <<account, sess, app>>,
           NEW x, req' = [req EXCEPT ![v] = x], x.verdict # "grant", x.op \notin AdminOps,
           x.op = "expire" => x.step # "commit"
    PROVE  Authority' /\ AloneHolds(v)'
<1>1. req'[v] = x
  BY DEF TypeInv, TypeOK
<1>2. QED
  BY <1>1, NothingRelied DEF Authority, Authorized, Entitled, LiveApp

LEMMA SignInAlone ==
    ASSUME TypeInv, Authority, NEW v \in Worker, SignIn(v)
    PROVE  Authority' /\ AloneHolds(v)'
<1>1. ASSUME NEW u \in User, LoginRead(v, u) PROVE Authority' /\ AloneHolds(v)'
  <2> DEFINE x == [NoRequest EXCEPT !.op = "login", !.step = "commit", !.user = u]
  <2>1. req' = [req EXCEPT ![v] = x] /\ UNCHANGED <<account, sess, app>>
    BY <1>1 DEF LoginRead, settingsVars
  <2>2. x.op = "login" /\ x.verdict = "none"
    BY DEF NoRequest
  <2> HIDE DEF x
  <2>3. QED
    BY <2>1, <2>2, GoesOn DEF AdminOps
<1>2. ASSUME NEW s \in Session, LoginCommit(v, s) PROVE Authority' /\ AloneHolds(v)'
  <2>1. /\ \A t \in Session : Stored(sess[t]) => sess'[t] = sess[t]
        /\ UNCHANGED <<account, app>> /\ Finish(v)
    BY <1>2 DEF LoginCommit, settingsVars, Stored, TypeInv, TypeOK
  <2>2. QED
    BY <2>1, ShrinkKeeps, FinishRelied DEF LiveShrink, LiveApp
<1>3. QED
  BY <1>1, <1>2 DEF SignIn

(* What a logout or an expiry revokes at its commit is all that hung under *)
(* the session.                                                            *)
LEMMA EndAlone ==
    ASSUME TypeInv, LockInv, Authority, NEW v \in Worker, AloneHolds(v),
           ExpireCommit(v) \/ LogoutCommit(v)
    PROVE  Authority' /\ AloneHolds(v)'
<1> DEFINE s == req[v].sess
<1>1. /\ s \in Session /\ sess' = [sess EXCEPT ![s].revoked = req[v].at] /\ RevokeHeld(v)
      /\ account' = account /\ Finish(v)
  BY DEF ExpireCommit, LogoutCommit, At, TypeInv, RequestReferences, SessionOps, settingsVars
<1>2. \A a \in AppSession : LiveApp(a) /\ app[a].parent = s => lock[a] = v
  BY DEF ExpireCommit, LogoutCommit, At, AloneHolds, LockInv, Secured
<1>3. \A a \in AppSession : LiveApp(a)' =>
        LiveApp(a) /\ app'[a].parent = app[a].parent /\ app[a].parent # s
  BY <1>1, <1>2, HeldAreRevoked
<1>4. \A t \in Session \ {s} : sess'[t] = sess[t]
  BY <1>1 DEF TypeInv, TypeOK
<1>5. \A a \in AppSession : LiveApp(a) => app[a].parent \in Session
  BY DEF TypeInv, RowReferences, LiveApp
<1> HIDE DEF s
<1>6. Authority'
  BY <1>1, <1>3, <1>4, <1>5 DEF Authority, Authorized, Entitled
<1>7. QED
  BY <1>1, <1>6, FinishRelied

LEMMA PortalRequestAlone ==
    ASSUME TypeInv, LockInv, Authority, NEW v \in Worker, AloneHolds(v), PortalRequest(v)
    PROVE  Authority' /\ AloneHolds(v)'
<1> DEFINE Kept == Authority' /\ AloneHolds(v)'
<1>0. req[v] \in Request /\ (req[v].verdict = "grant" => req[v].op \in {"exchange", "introspect"})
      /\ (req[v].verdict = "grant" => req[v].step = "commit")
  BY DEF TypeInv, TypeOK, LockInv, Secured, AloneHolds
<1>1. ASSUME NEW s \in Session, NEW kind \in {"visit", "authorize"}, ContextRead(v, s, kind)
      PROVE  Kept
  <2> DEFINE ends == ContextExpired(sess[s], now) \/ ~account[sess[s].user].enabled
             x == [NoRequest EXCEPT !.op = IF ends THEN "expire" ELSE kind,
                                    !.step = IF ends THEN "codes" ELSE "start",
                                    !.at = now, !.idle = idleTimeout, !.sess = s]
  <2>1. req' = [req EXCEPT ![v] = x] /\ UNCHANGED <<account, sess, app>>
    BY <1>1 DEF ContextRead, settingsVars
  <2> HIDE DEF ends
  <2>2. x.op \in {"expire", "visit", "authorize"} /\ x.step # "commit" /\ x.verdict = "none"
    BY DEF NoRequest
  <2> HIDE DEF x
  <2>3. QED
    BY <2>1, <2>2, GoesOn DEF AdminOps
<1>2. CASE ContextRefresh(v)
  <2>1. /\ req[v].sess \in Session /\ UNCHANGED <<account, app>>
        /\ sess' = [sess EXCEPT ![req[v].sess] = [@ EXCEPT !.seen = req[v].at,
                                                  !.expires = req[v].at + req[v].idle]]
    BY <1>2 DEF ContextRefresh, TypeInv, RequestReferences, SessionOps, settingsVars
  <2>2. \A s \in Session : /\ sess'[s].user = sess[s].user /\ sess'[s].mfa = sess[s].mfa
                           /\ sess'[s].revoked = sess[s].revoked
    BY <2>1 DEF TypeInv, TypeOK, SessRow
  <2>3. Authority'
    BY <2>1, <2>2, ShrinkKeeps DEF LiveShrink, LiveApp
  <2>4. CASE Finish(v)
    BY <2>3, <2>4, FinishRelied
  <2>5. CASE req' = [req EXCEPT ![v].step = "check"]
    <3>1. req'[v].op \in {"visit", "authorize"} /\ req'[v].verdict = req[v].verdict
      BY <1>0, <1>2, <2>5 DEF ContextRefresh, TypeInv, TypeOK, Request
    <3>2. QED
      BY <1>0, <1>2, <2>3, <3>1, NothingRelied DEF AdminOps, ContextRefresh
  <2>6. QED
    BY <1>2, <2>4, <2>5 DEF ContextRefresh
<1>3. CASE ExpireCommit(v) \/ LogoutCommit(v)
  BY <1>3, EndAlone
<1>4. ASSUME NEW s \in Session, LogoutStart(v, s) PROVE Kept
  <2> DEFINE x == [NoRequest EXCEPT !.op = "logout", !.step = "lock", !.sess = s]
  <2>1. req' = [req EXCEPT ![v] = x] /\ UNCHANGED <<account, sess, app>>
    BY <1>4 DEF LogoutStart, settingsVars
  <2>2. x.op = "logout" /\ x.verdict = "none"
    BY DEF NoRequest
  <2> HIDE DEF x
  <2>3. QED
    BY <2>1, <2>2, GoesOn DEF AdminOps
<1>5. CASE LogoutLock(v) \/ AuthorizeDecide(v)
  <2>1. UNCHANGED <<account, sess, app>>
    BY Zenon, <1>5 DEF LogoutLock, AuthorizeDecide, settingsVars
  <2>2. Authority'
    BY <2>1 DEF Authority, Authorized, Entitled, LiveApp
  <2>3. CASE Finish(v)
    BY <2>2, <2>3, FinishRelied
  <2>4. CASE ~Finish(v)
    <3>1. PICK x : /\ req' = [req EXCEPT ![v] = x]
                   /\ x.op = req[v].op /\ x.verdict = req[v].verdict
      <4>1. CASE LogoutLock(v)
        <5> DEFINE x == [req[v] EXCEPT !.step = "codes", !.at = now]
        <5>1. req' = [req EXCEPT ![v] = x]
          BY <2>4, <4>1 DEF LogoutLock
        <5>2. x.op = req[v].op /\ x.verdict = req[v].verdict
          BY <1>0 DEF Request
        <5>3. QED
          BY <5>1, <5>2
      <4>2. CASE AuthorizeDecide(v)
        <5>1. PICK rows : req' = [req EXCEPT ![v] = [req[v] EXCEPT !.step = "commit", !.at = now,
                                                                   !.doomed = rows]]
          BY Zenon, <2>4, <4>2 DEF AuthorizeDecide
        <5> DEFINE x == [req[v] EXCEPT !.step = "commit", !.at = now, !.doomed = rows]
        <5>2. x.op = req[v].op /\ x.verdict = req[v].verdict
          BY SMTT(30), <1>0 DEF Request
        <5>3. QED
          BY <5>1, <5>2
      <4>3. QED
        BY <1>5, <4>1, <4>2
    <3>2. req[v].op \in {"logout", "authorize"}
      BY Zenon, <1>5 DEF LogoutLock, AuthorizeDecide, At
    <3>3. QED
      BY <1>0, <2>1, <3>1, <3>2, GoesOn DEF AdminOps
  <2>5. QED
    BY <2>3, <2>4
<1>6. CASE RevokeCodes(v) \/ RevokeApps(v)
  <2>1. UNCHANGED <<account, sess, app, orm>>
    BY <1>6 DEF RevokeCodes, RevokeApps, settingsVars
  <2>2. Authority'
    BY <2>1 DEF Authority, Authorized, Entitled, LiveApp
  <2>3. /\ req'[v].op = req[v].op /\ req'[v].user = req[v].user /\ req'[v].sess = req[v].sess
        /\ req'[v].verdict = req[v].verdict /\ req[v].verdict # "grant"
    BY <1>0, <1>6 DEF RevokeCodes, RevokeApps, TypeInv, TypeOK, Request
  <2>4. req[v].op = "admin" => orm[v].account = account[req[v].user]
    BY DEF AloneHolds
  <2>5. CASE RevokeCodes(v)
    <3>1. req'[v].step = "apps"
      BY <2>5, <1>0 DEF RevokeCodes, TypeInv, TypeOK, Request
    <3>2. QED
      BY <2>1, <2>2, <2>3, <2>4, <3>1 DEF AloneHolds
  <2>6. CASE RevokeApps(v)
    <3>1. \A a \in TargetApps(req[v]) : lock'[a] = v
      BY <2>6 DEF RevokeApps, Taken, TargetApps, Row
    <3>2. /\ req[v].op \in AdminOps => \A a \in AppSession :
                LiveApp(a) /\ sess[app[a].parent].user = req[v].user => lock'[a] = v
          /\ req[v].op = "expire" => \A a \in AppSession :
                LiveApp(a) /\ app[a].parent = req[v].sess => lock'[a] = v
      BY <3>1 DEF TargetApps, LiveApp, AdminOps
    <3>3. \A a : LiveApp(a)' <=> LiveApp(a)
      BY <2>1 DEF LiveApp
    <3>4. QED
      BY <2>1, <2>2, <2>3, <2>4, <3>2, <3>3 DEF AloneHolds
  <2>7. QED
    BY <1>6, <2>5, <2>6
<1>7. CASE AuthorizeCheck(v)
  <2> DEFINE on == [req[v] EXCEPT !.step = "decide"]
             out == [req[v] EXCEPT !.op = "logout", !.step = "lock"]
  <2>1. UNCHANGED <<account, sess, app>> /\ req[v].op = "authorize"
    BY <1>7 DEF AuthorizeCheck, At, settingsVars
  <2>2. req' = [req EXCEPT ![v] = on] \/ req' = [req EXCEPT ![v] = out]
    BY <1>7 DEF AuthorizeCheck
  <2>3. /\ on.op = "authorize" /\ on.verdict = req[v].verdict
        /\ out.op = "logout" /\ out.verdict = req[v].verdict
    BY <1>0, <2>1 DEF Request
  <2> HIDE DEF on, out
  <2>4. QED
    BY <1>0, <2>1, <2>2, <2>3, GoesOn DEF AdminOps
<1>8. ASSUME NEW c \in Code, AuthorizeCommit(v, c) PROVE Kept
  <2>1. UNCHANGED <<account, sess>> /\ app' = WithoutApps(app, req[v].doomed) /\ Finish(v)
    BY <1>8 DEF AuthorizeCommit, settingsVars
  <2>2. QED
    BY <2>1, DeletedShrink, ShrinkKeeps, FinishRelied
<1>9. QED
  BY <1>1, <1>2, <1>3, <1>4, <1>5, <1>6, <1>7, <1>8 DEF PortalRequest

LEMMA RadarRequestAlone ==
    ASSUME TypeInv, LockInv, Authority, NEW v \in Worker, AloneHolds(v), RadarRequest(v)
    PROVE  Authority' /\ AloneHolds(v)'
<1> DEFINE Kept == Authority' /\ AloneHolds(v)'
<1>0. req[v] \in Request
  BY DEF TypeInv, TypeOK
<1>1. ASSUME NEW c \in Code, NEW proof \in BOOLEAN, ExchangeRead(v, c, proof) PROVE Kept
  <2>1. PICK x : /\ req' = [req EXCEPT ![v] = x]
                 /\ x.op = "exchange" /\ x.verdict # "grant"
    <3>1. PICK codes, apps :
            req' = [req EXCEPT ![v] =
                [NoRequest EXCEPT !.op = "exchange", !.at = now, !.code = c,
                                  !.sess = code[c].parent, !.proof = proof,
                                  !.doomed = codes \cup apps,
                                  !.step = IF c \in codes THEN "commit" ELSE "decide",
                                  !.verdict = IF c \in codes THEN "reject" ELSE "none"]]
      BY Zenon, <1>1 DEF ExchangeRead
    <3> DEFINE x == [NoRequest EXCEPT !.op = "exchange", !.at = now, !.code = c,
                                      !.sess = code[c].parent, !.proof = proof,
                                      !.doomed = codes \cup apps,
                                      !.step = IF c \in codes THEN "commit" ELSE "decide",
                                      !.verdict = IF c \in codes THEN "reject" ELSE "none"]
    <3>2. x.op = "exchange" /\ x.verdict # "grant"
      BY DEF NoRequest
    <3>3. req' = [req EXCEPT ![v] = x]
      BY <3>1
    <3> HIDE DEF x
    <3>4. QED
      BY <3>2, <3>3
  <2>2. UNCHANGED <<account, sess, app>>
    BY SMTT(30), <1>1 DEF ExchangeRead, settingsVars
  <2>3. QED
    BY <2>1, <2>2, GoesOn DEF AdminOps
<1>2. CASE ExchangeDecide(v)
  <2>1. /\ UNCHANGED <<account, launchable, now, sess, app>> /\ req[v].op = "exchange"
        /\ req' = [req EXCEPT ![v] = [req[v] EXCEPT !.step = "commit",
                                                    !.verdict = ExchangeVerdict(v)]]
    BY <1>2 DEF ExchangeDecide, At, settingsVars
  <2>2. /\ req'[v].op = "exchange" /\ req'[v].sess = req[v].sess
        /\ req'[v].verdict = ExchangeVerdict(v)
    <3> DEFINE verdict == ExchangeVerdict(v)
    <3> HIDE DEF verdict
    <3>1. req' = [req EXCEPT ![v] = [req[v] EXCEPT !.step = "commit", !.verdict = verdict]]
      BY <2>1 DEF verdict
    <3>2. req'[v] = [req[v] EXCEPT !.step = "commit", !.verdict = verdict]
      BY <3>1 DEF TypeInv, TypeOK
    <3> DEFINE x == [req[v] EXCEPT !.step = "commit", !.verdict = verdict]
    <3>3. x.op = req[v].op /\ x.sess = req[v].sess /\ x.verdict = verdict
      BY <1>0 DEF Request
    <3>4. req'[v].op = "exchange" /\ req'[v].sess = req[v].sess /\ req'[v].verdict = verdict
      BY <2>1, <3>2, <3>3
    <3>5. QED
      BY <3>4 DEF verdict
  <2>3. ExchangeVerdict(v) = "grant" => Authorized(req[v].sess)
    BY DEF ExchangeVerdict, CanAuthorize, ParentIsActive, Authorized, Entitled
  <2>4. Authorized(req[v].sess)' <=> Authorized(req[v].sess)
    BY <2>1, <2>2 DEF Authorized, Entitled
  <2>5. QED
    BY <2>1, <2>2, <2>3, <2>4 DEF Authority, Authorized, Entitled, LiveApp, AloneHolds, AdminOps
<1>3. CASE ExchangeReject(v)
  <2>1. UNCHANGED <<account, sess>> /\ app' = WithoutApps(app, req[v].doomed) /\ Finish(v)
    BY <1>3 DEF ExchangeReject, settingsVars
  <2>2. QED
    BY <2>1, DeletedShrink, ShrinkKeeps, FinishRelied
<1>4. ASSUME NEW a \in AppSession, ExchangeGrant(v, a) PROVE Kept
  <2>1. /\ UNCHANGED <<account, sess>> /\ Finish(v) /\ app'[a].parent = req[v].sess
        /\ \A b \in AppSession \ {a} : app'[b] = WithoutApps(app, req[v].doomed)[b]
    BY <1>4 DEF ExchangeGrant, settingsVars, WithoutApps
  <2>2. Authorized(req[v].sess)
    BY <1>4 DEF ExchangeGrant, AloneHolds
  <2>3. \A b \in AppSession \ {a} : LiveApp(b)' => app'[b] = app[b]
    BY SMTT(30), <2>1 DEF WithoutApps, NoApp, LiveApp, Stored
  <2>4. Authority'
    BY <2>1, <2>2, <2>3 DEF Authority, Authorized, Entitled, LiveApp
  <2>5. QED
    BY <2>1, <2>4, FinishRelied
<1>5. ASSUME NEW a \in AppSession, IntrospectRead(v, a) PROVE Kept
  <2> DEFINE x == [NoRequest EXCEPT !.op = "introspect", !.step = "decide", !.at = now,
                                    !.app = a, !.sess = app[a].parent]
  <2>1. req' = [req EXCEPT ![v] = x] /\ UNCHANGED <<account, sess, app>>
    BY <1>5 DEF IntrospectRead, settingsVars
  <2>2. x.op = "introspect" /\ x.verdict = "none"
    BY DEF NoRequest
  <2> HIDE DEF x
  <2>3. QED
    BY <2>1, <2>2, GoesOn DEF AdminOps
<1>6. CASE IntrospectDecide(v)
  <2>1. UNCHANGED <<account, sess, app>> /\ req[v].op = "introspect"
    BY <1>6 DEF IntrospectDecide, At, settingsVars
  <2>2. CASE Finish(v)
    BY <2>1, <2>2, FinishRelied DEF Authority, Authorized, Entitled, LiveApp
  <2>3. CASE ~Finish(v)
    <3>1. PICK verdict \in {"active", "inactive"} :
            req' = [req EXCEPT ![v] = [req[v] EXCEPT !.step = "commit", !.idle = idleTimeout,
                                                     !.verdict = verdict]]
      BY <1>6, <2>3 DEF IntrospectDecide
    <3> DEFINE x == [req[v] EXCEPT !.step = "commit", !.idle = idleTimeout, !.verdict = verdict]
    <3>2. x.op = "introspect" /\ x.verdict # "grant"
      BY <1>0, <2>1 DEF Request
    <3>3. req' = [req EXCEPT ![v] = x]
      BY <3>1
    <3> HIDE DEF x
    <3>4. QED
      BY <2>1, <3>2, <3>3, GoesOn DEF AdminOps
  <2>4. QED
    BY <2>2, <2>3
<1>7. CASE IntrospectReject(v) \/ IntrospectActive(v)
  <2>0. req[v].op = "introspect" /\ req[v].verdict \in {"active", "inactive"}
    BY <1>7 DEF IntrospectReject, IntrospectActive, At
  <2>1. req[v].app \in AppSession /\ req[v].sess \in Session /\ req[v].at # Never
    <3>1. /\ req[v].app \in AppSession /\ req[v].sess \in Session
      BY <2>0 DEF TypeInv, RequestReferences, SessionOps
    <3>2. req[v].at # Never
      BY <1>0 DEF Request, Never
    <3>3. QED
      BY <3>1, <3>2
  <2>2. LiveShrink
    <3>1. CASE IntrospectReject(v)
      BY <2>1, <3>1 DEF IntrospectReject, TypeInv, TypeOK, AppRow, LiveShrink, LiveApp, Stored
    <3>2. CASE IntrospectActive(v)
      BY <2>1, <3>2 DEF IntrospectActive, TypeInv, TypeOK, AppRow, LiveShrink, LiveApp, Stored
    <3>3. QED
      BY <1>7, <3>1, <3>2
  <2>3. \A s \in Session : /\ sess'[s].user = sess[s].user /\ sess'[s].mfa = sess[s].mfa
                           /\ sess'[s].revoked = sess[s].revoked
    <3>1. CASE IntrospectReject(v)
      BY <3>1 DEF IntrospectReject
    <3>2. CASE IntrospectActive(v)
      BY <2>1, <3>2 DEF IntrospectActive, TypeInv, TypeOK, SessRow
    <3>3. QED
      BY <1>7, <3>1, <3>2
  <2>4. account' = account /\ Finish(v)
    BY <1>7 DEF IntrospectReject, IntrospectActive, settingsVars
  <2>5. QED
    BY <2>2, <2>3, <2>4, ShrinkKeeps, FinishRelied
<1>8. QED
  BY <1>1, <1>2, <1>3, <1>4, <1>5, <1>6, <1>7 DEF RadarRequest

LEMMA AdminRequestAlone ==
    ASSUME TypeInv, LockInv, Authority, Alone, NEW v \in Worker, AloneHolds(v), AdminRequest(v)
    PROVE  Authority' /\ AloneHolds(v)'
<1> DEFINE Kept == Authority' /\ AloneHolds(v)'
<1>0. req[v] \in Request
  BY DEF TypeInv, TypeOK
<1>1. ASSUME NEW u \in User, NEW want \in Payload, AdminUpdate(v, u, want) PROVE Kept
  <2> DEFINE acct == account[u]
             first == IF EndsSessions(acct, want) THEN "sessions"
                      ELSE IF acct.assigned /\ ~want.assigned THEN "codes" ELSE "commit"
             x == [NoRequest EXCEPT !.op = "admin", !.step = first, !.at = now, !.user = u,
                                    !.want = want]
  <2>1. req' = [req EXCEPT ![v] = x]
    BY <1>1 DEF AdminUpdate
  <2>2. first = "commit" => Harmless(account[u], want)
    BY DEF Harmless
  <2> HIDE DEF first
  <2>3. /\ x.op = "admin" /\ x.user = u /\ x.want = want /\ x.step = first
        /\ x.verdict = "none"
    BY DEF NoRequest
  <2> HIDE DEF x
  <2>4. /\ orm' = [orm EXCEPT ![v].account = account[u]] /\ req[v].op = "idle"
        /\ UNCHANGED <<account, sess, app, lock>>
    BY <1>1 DEF AdminUpdate, Idle, settingsVars
  <2>5. orm'[v].account = account[u]
    BY <2>4 DEF TypeInv, TypeOK, Loaded
  <2>6. req'[v] = x
    BY <2>1 DEF TypeInv, TypeOK
  <2>7. \A s \in Session : lock[s] # v
    BY SMTT(30), <2>4 DEF LockInv, Secured, Row
  <2>8. QED
    BY <2>2, <2>3, <2>4, <2>5, <2>6, <2>7 DEF Authority, Authorized, Entitled, LiveApp, AloneHolds
<1>2. ASSUME NEW u \in User, AdminReset(v, u) PROVE Kept
  <2>1. /\ req' = [req EXCEPT ![v] = [NoRequest EXCEPT !.op = "reset", !.step = "sessions",
                                                      !.user = u]]
        /\ UNCHANGED <<account, sess, app>>
    BY <1>2 DEF AdminReset, settingsVars
  <2>2. req'[v].op = "reset" /\ req'[v].step = "sessions" /\ req'[v].verdict = "none"
    BY SMTT(30), <2>1 DEF TypeInv, TypeOK, NoRequest
  <2>3. QED
    BY <2>1, <2>2 DEF Authority, Authorized, Entitled, LiveApp, AloneHolds
<1>3. CASE AdminSessions(v)
  <2>1. /\ req' = [req EXCEPT ![v] = [req[v] EXCEPT !.step = "codes", !.at = now]]
        /\ UNCHANGED <<account, sess, app, orm>> /\ req[v].op \in AdminOps
    BY <1>3 DEF AdminSessions, settingsVars
  <2>2. /\ req'[v].op = req[v].op /\ req'[v].step = "codes" /\ req'[v].user = req[v].user
        /\ req'[v].verdict = req[v].verdict
    BY <1>0, <2>1 DEF TypeInv, TypeOK, Request
  <2>3. req[v].verdict # "grant"
    BY <2>1 DEF LockInv, Secured, AdminOps
  <2>4. QED
    BY <2>1, <2>2, <2>3 DEF Authority, Authorized, Entitled, LiveApp, AloneHolds
<1>4. CASE AdminCommit(v)
  <2> DEFINE r == req[v]
             u == r.user
  <2>1. /\ r.op \in AdminOps /\ r.step = "commit" /\ u \in User /\ r.at # Never /\ Finish(v)
    BY <1>0, <1>4 DEF AdminCommit, TypeInv, RequestReferences, AdminOps, Request, Never
  <2>2. \A s \in Session : /\ sess'[s].user = sess[s].user /\ sess'[s].mfa = sess[s].mfa
                           /\ lock[s] # v => sess'[s] = sess[s]
    <3>1. \A s \in Session : sess[s] \in SessRow
      BY DEF TypeInv, TypeOK
    <3>2. QED
      BY <1>4, <3>1 DEF AdminCommit, SessRow
  <2>3. \A s \in Session : lock[s] = v => sess[s].user = u
    BY <2>1 DEF LockInv, Secured
  <2>4. \A a \in AppSession : LiveApp(a)' =>
          LiveApp(a) /\ app'[a].parent = app[a].parent /\ lock[a] # v
    BY <1>4, HeldAreRevoked DEF AdminCommit
  <2>5. /\ account \in [User -> AccountRow] /\ r.want \in AccountRow
        /\ \A t \in User \ {u} : account'[t] = account[t]
        /\ r.op = "reset" => account'[u] = account[u]
        /\ r.op = "admin" => account'[u] \in Merged(account[u], orm[v].account, r.want)
    BY <1>0, <1>4, <2>1 DEF AdminCommit, AdminOps, TypeInv, TypeOK, Request
  <2>6. \A a \in AppSession : LiveApp(a) => /\ app[a].parent \in Session
                                            /\ sess[app[a].parent].user \in User
    BY DEF TypeInv, RowReferences, LiveApp
  <2>7. ASSUME NEW a \in AppSession, LiveApp(a)'
        PROVE  Authorized(app[a].parent)'
    <3> DEFINE s == app[a].parent
    <3>1. LiveApp(a) /\ app'[a].parent = s /\ lock[a] # v /\ s \in Session /\ sess[s].user \in User
      BY <2>4, <2>6, <2>7
    <3>2. Authorized(s)
      BY <3>1 DEF Authority
    <3>3. CASE sess[s].user # u
      BY <2>2, <2>3, <2>5, <3>1, <3>2, <3>3 DEF Authorized, Entitled, MfaIsSatisfied
    <3>4. CASE sess[s].user = u
      <4>1. /\ r.op = "admin" /\ Harmless(account[u], r.want) /\ orm[v].account = account[u]
            /\ lock[s] # v
        BY <2>1, <3>1, <3>4 DEF AloneHolds
      <4>2. sess'[s] = sess[s] /\ account'[u] \in Merged(account[u], account[u], r.want)
        BY <2>2, <2>5, <3>1, <4>1
      <4>3. /\ account[u].enabled => account'[u].enabled
            /\ account[u].assigned => account'[u].assigned
            /\ account'[u].mfa = account[u].mfa
        <5>1. account[u] \in AccountRow
          BY <2>1, <2>5
        <5>2. QED
          BY <2>5, <4>1, <4>2, <5>1 DEF Harmless, EndsSessions, Merged, AssignedAfter, AccountRow
      <4>4. /\ sess'[app'[a].parent] = sess[s]
            /\ account'[sess[s].user] = account'[u]
        BY <3>1, <3>4, <4>2
      <4>5. QED
        BY <3>2, <3>4, <4>3, <4>4 DEF Authorized, Entitled, MfaIsSatisfied
    <3>5. QED
      BY <3>3, <3>4
  <2>8. Authority'
    BY <2>7 DEF Authority
  <2>9. QED
    BY <2>1, <2>8, FinishRelied
<1>5. QED
  BY <1>1, <1>2, <1>3, <1>4 DEF AdminRequest

LEMMA EnvironmentAlone ==
    ASSUME TypeInv, Authority, Environment \/ UNCHANGED vars
    PROVE  /\ Authority'
           /\ \A w \in Worker : AloneHolds(w) => AloneHolds(w)'
<1>1. UNCHANGED <<req, orm, lock, sess, account>>
  BY EnvironmentOthers DEF vars
<1>2. LiveShrink
  <2>1. CASE UNCHANGED app
    BY <2>1 DEF LiveShrink, LiveApp
  <2>2. ASSUME NEW a \in AppSession, RevokeApplicationSession(a) PROVE LiveShrink
    BY <2>2 DEF RevokeApplicationSession, LiveShrink, LiveApp, TypeInv, TypeOK, AppRow, Stored
  <2>3. CASE Cleanup
    BY <2>3, DeletedShrink DEF Cleanup
  <2>4. QED
    BY <2>1, <2>2, <2>3 DEF Environment, vars, UpdateRolePermissions,
                            UpdateAuthenticationSettings, Tick
<1>3. Authority'
  BY <1>1, <1>2, ShrinkKeeps
<1>4. \A w \in Worker : AloneHolds(w) => AloneHolds(w)'
  BY <1>1, <1>2 DEF AloneHolds, LiveShrink, Authorized, Entitled
<1>5. QED
  BY <1>3, <1>4

LEMMA AloneStep == TypeInv /\ LockInv /\ AloneInv /\ [Next]_vars => AloneInv'
<1> SUFFICES ASSUME TypeInv, LockInv, AloneInv, [Next]_vars, Alone
             PROVE  Authority' /\ \A w \in Worker : AloneHolds(w)'
  BY PoolStep, NextCases DEF AloneInv, Alone
<1>1. Authority /\ \A w \in Worker : AloneHolds(w)
  BY DEF AloneInv
<1>2. CASE Environment \/ UNCHANGED vars
  BY <1>1, <1>2, EnvironmentAlone
<1>3. ASSUME NEW v \in pool,
             SignIn(v) \/ PortalRequest(v) \/ RadarRequest(v) \/ AdminRequest(v) \/ Rollback(v)
      PROVE  Authority' /\ \A w \in Worker : AloneHolds(w)'
  <2>0. v \in Worker
    BY NextCases
  <2>1. ASSUME Rollback(v) PROVE Authority' /\ AloneHolds(v)'
    <3>1. UNCHANGED <<account, sess, app>> /\ Finish(v)
      BY <2>1 DEF Rollback, settingsVars
    <3>2. Authority'
      BY <1>1, <3>1 DEF Authority, Authorized, Entitled, LiveApp
    <3>3. QED
      BY <2>0, <3>1, <3>2, FinishRelied
  <2>2. Authority' /\ AloneHolds(v)'
    BY <1>1, <1>3, <2>0, <2>1, SignInAlone, PortalRequestAlone, RadarRequestAlone,
       AdminRequestAlone
  <2>3. ASSUME NEW w \in Worker \ {v} PROVE AloneHolds(w)'
    <3>1. req[w].op = "idle" /\ req'[w] = req[w]
      BY <1>3, <2>0, OthersLeft DEF AloneInv, PoolServes, Alone, Others
    <3>2. req[w].verdict # "grant"
      BY <3>1 DEF LockInv, Secured
    <3>3. QED
      BY <3>1, <3>2, NothingRelied DEF AdminOps
  <2>4. QED
    BY <2>2, <2>3
<1>4. QED
  BY <1>2, <1>3, NextCases

(* On a server with one thread, an unrevoked application session belongs   *)
(* to an unrevoked portal session of an enabled, assigned user who has met *)
(* the present MFA requirement, whatever accounts are edited or reset in   *)
(* between (update_user, revoke_user_sessions, exchange_authorization_code). *)
THEOREM AuthorityCurrentAlone == Spec => []AuthorityIsCurrentAlone
<1>1. Init => TypeInv /\ LockInv /\ AloneInv
  <2>1. Init => AloneInv
    BY DEF Init, AloneInv, PoolServes, Authority, AloneHolds, NoRequest, NoApp, AdminOps, LiveApp,
           Stored
  <2>2. QED
    BY <2>1, TypeInit, LockInit
<1>2. TypeInv /\ LockInv /\ AloneInv /\ [Next]_vars => (TypeInv /\ LockInv /\ AloneInv)'
  BY TypeStep, LockInvStep, AloneStep
<1>3. AloneInv => AuthorityIsCurrentAlone
  BY DEF AloneInv, AuthorityIsCurrentAlone, Authority
<1>4. QED
  BY <1>1, <1>2, <1>3, PTL DEF Spec

-----------------------------------------------------------------------------
(* n threads and one code. *)

Issued(c) == {a \in AppSession : Stored(app[a]) /\ app[a].code = c}

(* The exchanges of a code that may still issue a session: their copy of   *)
(* it, read before any lock, was not consumed.                             *)
Eager(c) ==
    {w \in Worker : /\ req[w].op = "exchange" /\ req[w].code = c
                    /\ orm[w].code.consumed = Never
                    /\ req[w].step = "decide" \/ req[w].verdict = "grant"}

(* Every session a code issued took the thread that issued it out of its   *)
(* eager exchanges, and no other can come in: whoever reads the code from  *)
(* then on finds it consumed, or gone.                                     *)
CodeSpent(c) ==
    Issued(c) # {} => /\ code[c].status # "absent"
                      /\ Stored(code[c]) => code[c].consumed # Never

WithinPool(c) ==
    /\ IsFiniteSet(Issued(c))
    /\ Cardinality(Issued(c)) + Cardinality(Eager(c)) <= Cardinality(pool)

GrantsAreEager == \A w \in Worker : req[w].verdict = "grant" => w \in Eager(req[w].code)

ReplayInv ==
    /\ PoolServes /\ GrantsAreEager
    /\ \A c \in Code : CodeSpent(c) /\ WithinPool(c)

(* A step of v makes v eager only by reading a code that can be used.      *)
EagerOwn(v) ==
    /\ \A c \in Code : v \in Eager(c)' =>
            v \in Eager(c) \/ (Stored(code[c]) /\ code[c].consumed = Never)
    /\ req'[v].verdict = "grant" => v \in Eager(req[v].code)'

LEMMA NotEager ==
    ASSUME NEW v \in Worker, req'[v].op # "exchange", req'[v].verdict # "grant"
    PROVE  EagerOwn(v)
  BY DEF EagerOwn, Eager

LEMMA FinishEager == ASSUME TypeInv, NEW v \in Worker, Finish(v) PROVE EagerOwn(v)
<1>1. req'[v] = NoRequest
  BY DEF Finish, TypeInv, TypeOK
<1>2. QED
  BY <1>1, NotEager DEF NoRequest

(* A request of another kind begins or goes on. *)
LEMMA OtherKind ==
    ASSUME TypeInv, NEW v \in Worker, NEW x, req' = [req EXCEPT ![v] = x],
           x.op # "exchange", x.verdict # "grant"
    PROVE  EagerOwn(v)
<1>1. req'[v] = x
  BY DEF TypeInv, TypeOK
<1>2. QED
  BY <1>1, NotEager

LEMMA SignInEager == ASSUME TypeInv, NEW v \in Worker, SignIn(v) PROVE EagerOwn(v)
<1>1. ASSUME NEW u \in User, LoginRead(v, u) PROVE EagerOwn(v)
  <2> DEFINE x == [NoRequest EXCEPT !.op = "login", !.step = "commit", !.user = u]
  <2>1. x.op = "login" /\ x.verdict = "none" /\ req' = [req EXCEPT ![v] = x]
    BY <1>1 DEF LoginRead, NoRequest
  <2> HIDE DEF x
  <2>2. QED
    BY <2>1, OtherKind
<1>2. QED
  BY <1>1, FinishEager DEF SignIn, LoginCommit

LEMMA PortalRequestEager ==
    ASSUME TypeInv, GrantsAreEager, NEW v \in Worker, PortalRequest(v)
    PROVE  EagerOwn(v)
<1>0. req[v] \in Request /\ (req[v].verdict = "grant" => req[v].op = "exchange")
  BY DEF TypeInv, TypeOK, GrantsAreEager, Eager
<1>1. ASSUME NEW s \in Session, NEW kind \in {"visit", "authorize"}, ContextRead(v, s, kind)
      PROVE  EagerOwn(v)
  <2> DEFINE ends == ContextExpired(sess[s], now) \/ ~account[sess[s].user].enabled
             x == [NoRequest EXCEPT !.op = IF ends THEN "expire" ELSE kind,
                                    !.step = IF ends THEN "codes" ELSE "start",
                                    !.at = now, !.idle = idleTimeout, !.sess = s]
  <2>1. req' = [req EXCEPT ![v] = x]
    BY <1>1 DEF ContextRead
  <2> HIDE DEF ends
  <2>2. x.op \in {"expire", "visit", "authorize"} /\ x.verdict = "none"
    BY DEF NoRequest
  <2> HIDE DEF x
  <2>3. QED
    BY <2>1, <2>2, OtherKind
<1>2. CASE ContextRefresh(v)
  <2>1. CASE Finish(v)
    BY <2>1, FinishEager
  <2>2. CASE req' = [req EXCEPT ![v].step = "check"]
    <3>1. req'[v].op = req[v].op /\ req'[v].verdict = req[v].verdict
      BY <1>0, <2>2 DEF TypeInv, TypeOK, Request
    <3>2. QED
      BY <1>0, <1>2, <3>1, NotEager DEF ContextRefresh
  <2>3. QED
    BY <1>2, <2>1, <2>2 DEF ContextRefresh
<1>3. CASE ExpireCommit(v) \/ LogoutCommit(v) \/ \E c \in Code : AuthorizeCommit(v, c)
  BY <1>3, FinishEager DEF ExpireCommit, LogoutCommit, AuthorizeCommit
<1>4. ASSUME NEW s \in Session, LogoutStart(v, s) PROVE EagerOwn(v)
  <2> DEFINE x == [NoRequest EXCEPT !.op = "logout", !.step = "lock", !.sess = s]
  <2>1. x.op = "logout" /\ x.verdict = "none" /\ req' = [req EXCEPT ![v] = x]
    BY <1>4 DEF LogoutStart, NoRequest
  <2> HIDE DEF x
  <2>2. QED
    BY <2>1, OtherKind
<1>5. CASE LogoutLock(v)
  <2>1. CASE Finish(v)
    BY <2>1, FinishEager
  <2>2. CASE ~Finish(v)
    <3> DEFINE x == [req[v] EXCEPT !.step = "codes", !.at = now]
    <3>1. req' = [req EXCEPT ![v] = x] /\ req[v].op = "logout"
      BY <1>5, <2>2 DEF LogoutLock, At
    <3>2. x.op = req[v].op /\ x.verdict = req[v].verdict
      BY <1>0 DEF Request
    <3> HIDE DEF x
    <3>3. QED
      BY <1>0, <3>1, <3>2, OtherKind
  <2>3. QED
    BY <2>1, <2>2
<1>6. CASE RevokeCodes(v) \/ RevokeApps(v)
  <2>1. /\ orm' = orm /\ req'[v].op = req[v].op /\ req'[v].code = req[v].code
        /\ req'[v].verdict = req[v].verdict /\ req'[v].step # "decide"
    BY <1>0, <1>6 DEF RevokeCodes, RevokeApps, TypeInv, TypeOK, Request
  <2>2. QED
    BY <2>1 DEF EagerOwn, Eager, GrantsAreEager
<1>7. CASE AuthorizeCheck(v)
  <2> DEFINE on == [req[v] EXCEPT !.step = "decide"]
             out == [req[v] EXCEPT !.op = "logout", !.step = "lock"]
  <2>1. req[v].op = "authorize" /\ (req' = [req EXCEPT ![v] = on] \/ req' = [req EXCEPT ![v] = out])
    BY <1>7 DEF AuthorizeCheck, At
  <2>2. /\ on.op = req[v].op /\ on.verdict = req[v].verdict
        /\ out.op = "logout" /\ out.verdict = req[v].verdict
    BY <1>0 DEF Request
  <2> HIDE DEF on, out
  <2>3. QED
    BY <1>0, <2>1, <2>2, OtherKind
<1>8. CASE AuthorizeDecide(v)
  <2>1. CASE Finish(v)
    BY <2>1, FinishEager
  <2>2. CASE ~Finish(v)
    <3>1. PICK rows : req' = [req EXCEPT ![v] = [req[v] EXCEPT !.step = "commit", !.at = now,
                                                               !.doomed = rows]]
      BY Zenon, <1>8, <2>2 DEF AuthorizeDecide
    <3> DEFINE x == [req[v] EXCEPT !.step = "commit", !.at = now, !.doomed = rows]
    <3>2. x.op = req[v].op /\ x.verdict = req[v].verdict
      BY <1>0 DEF Request
    <3>3. req' = [req EXCEPT ![v] = x] /\ req[v].op = "authorize"
      BY Zenon, <1>8, <3>1 DEF AuthorizeDecide, At
    <3> HIDE DEF x
    <3>4. QED
      BY <1>0, <3>2, <3>3, OtherKind
  <2>3. QED
    BY <2>1, <2>2
<1>9. QED
  BY <1>1, <1>2, <1>3, <1>4, <1>5, <1>6, <1>7, <1>8 DEF PortalRequest

LEMMA RadarRequestEager ==
    ASSUME TypeInv, GrantsAreEager, NEW v \in Worker, RadarRequest(v)
    PROVE  EagerOwn(v)
<1>0. req[v] \in Request /\ orm \in [Worker -> Loaded]
  BY DEF TypeInv, TypeOK
<1>1. ASSUME NEW c \in Code, NEW proof \in BOOLEAN, ExchangeRead(v, c, proof) PROVE EagerOwn(v)
  <2>1. PICK codes, apps :
          req' = [req EXCEPT ![v] =
              [NoRequest EXCEPT !.op = "exchange", !.at = now, !.code = c,
                                !.sess = code[c].parent, !.proof = proof,
                                !.doomed = codes \cup apps,
                                !.step = IF c \in codes THEN "commit" ELSE "decide",
                                !.verdict = IF c \in codes THEN "reject" ELSE "none"]]
    BY Zenon, <1>1 DEF ExchangeRead
  <2> DEFINE x == [NoRequest EXCEPT !.op = "exchange", !.at = now, !.code = c,
                                    !.sess = code[c].parent, !.proof = proof,
                                    !.doomed = codes \cup apps,
                                    !.step = IF c \in codes THEN "commit" ELSE "decide",
                                    !.verdict = IF c \in codes THEN "reject" ELSE "none"]
  <2>2. x.op = "exchange" /\ x.code = c /\ x.verdict # "grant"
    BY DEF NoRequest
  <2>3. req' = [req EXCEPT ![v] = x]
    BY <2>1
  <2> HIDE DEF x
  <2>4. req'[v] = x
    BY <2>3 DEF TypeInv, TypeOK
  <2>5. orm'[v].code = code[c] /\ Stored(code[c])
    BY <1>0, <1>1 DEF ExchangeRead, Loaded
  <2>6. QED
    BY <2>2, <2>4, <2>5 DEF EagerOwn, Eager
<1>2. CASE ExchangeDecide(v)
  <2> DEFINE verdict == ExchangeVerdict(v)
             x == [req[v] EXCEPT !.step = "commit", !.verdict = verdict]
  <2>1. /\ req[v].op = "exchange" /\ req[v].step = "decide" /\ orm' = orm
        /\ req' = [req EXCEPT ![v] = x] /\ req[v].code \in Code
    BY <1>2 DEF ExchangeDecide, At, TypeInv, RequestReferences
  <2>2. verdict = "grant" => orm[v].code.consumed = Never
    BY DEF ExchangeVerdict, CodeIsUsable
  <2> HIDE DEF verdict
  <2>3. x.op = req[v].op /\ x.code = req[v].code /\ x.step = "commit" /\ x.verdict = verdict
    BY <1>0 DEF Request
  <2> HIDE DEF x
  <2>4. req'[v] = x
    BY SMTT(30), <2>1 DEF TypeInv, TypeOK
  <2>5. QED
    BY <2>1, <2>2, <2>3, <2>4 DEF EagerOwn, Eager
<1>3. CASE \/ ExchangeReject(v) \/ \E a \in AppSession : ExchangeGrant(v, a)
           \/ IntrospectReject(v) \/ IntrospectActive(v)
  BY <1>3, FinishEager DEF ExchangeReject, ExchangeGrant, IntrospectReject, IntrospectActive
<1>4. ASSUME NEW a \in AppSession, IntrospectRead(v, a) PROVE EagerOwn(v)
  <2> DEFINE x == [NoRequest EXCEPT !.op = "introspect", !.step = "decide", !.at = now,
                                    !.app = a, !.sess = app[a].parent]
  <2>1. req' = [req EXCEPT ![v] = x]
    BY <1>4 DEF IntrospectRead
  <2>2. x.op = "introspect" /\ x.verdict = "none"
    BY DEF NoRequest
  <2> HIDE DEF x
  <2>3. QED
    BY <2>1, <2>2, OtherKind
<1>5. CASE IntrospectDecide(v)
  <2>1. CASE Finish(v)
    BY <2>1, FinishEager
  <2>2. CASE ~Finish(v)
    <3>1. PICK verdict \in {"active", "inactive"} :
            req' = [req EXCEPT ![v] = [req[v] EXCEPT !.step = "commit", !.idle = idleTimeout,
                                                     !.verdict = verdict]]
      BY <1>5, <2>2 DEF IntrospectDecide
    <3> DEFINE x == [req[v] EXCEPT !.step = "commit", !.idle = idleTimeout, !.verdict = verdict]
    <3>2. x.op = req[v].op /\ x.verdict # "grant"
      BY <1>0 DEF Request
    <3>3. req' = [req EXCEPT ![v] = x] /\ req[v].op = "introspect"
      BY <1>5, <3>1 DEF IntrospectDecide, At
    <3> HIDE DEF x
    <3>4. QED
      BY <3>2, <3>3, OtherKind
  <2>3. QED
    BY <2>1, <2>2
<1>6. QED
  BY <1>1, <1>2, <1>3, <1>4, <1>5 DEF RadarRequest

LEMMA AdminRequestEager ==
    ASSUME TypeInv, GrantsAreEager, NEW v \in Worker, AdminRequest(v)
    PROVE  EagerOwn(v)
<1>0. req[v] \in Request /\ (req[v].verdict = "grant" => req[v].op = "exchange")
  BY DEF TypeInv, TypeOK, GrantsAreEager, Eager
<1>1. ASSUME NEW u \in User, NEW want \in Payload, AdminUpdate(v, u, want) PROVE EagerOwn(v)
  <2> DEFINE acct == account[u]
             first == IF EndsSessions(acct, want) THEN "sessions"
                      ELSE IF acct.assigned /\ ~want.assigned THEN "codes" ELSE "commit"
             x == [NoRequest EXCEPT !.op = "admin", !.step = first, !.at = now, !.user = u,
                                    !.want = want]
  <2>1. req' = [req EXCEPT ![v] = x]
    BY <1>1 DEF AdminUpdate
  <2> HIDE DEF first
  <2>2. x.op = "admin" /\ x.verdict = "none"
    BY DEF NoRequest
  <2> HIDE DEF x
  <2>3. QED
    BY <2>1, <2>2, OtherKind
<1>2. ASSUME NEW u \in User, AdminReset(v, u) PROVE EagerOwn(v)
  <2> DEFINE x == [NoRequest EXCEPT !.op = "reset", !.step = "sessions", !.user = u]
  <2>1. x.op = "reset" /\ x.verdict = "none" /\ req' = [req EXCEPT ![v] = x]
    BY <1>2 DEF AdminReset, NoRequest
  <2> HIDE DEF x
  <2>2. QED
    BY <2>1, OtherKind
<1>3. CASE AdminSessions(v)
  <2> DEFINE x == [req[v] EXCEPT !.step = "codes", !.at = now]
  <2>1. req' = [req EXCEPT ![v] = x] /\ req[v].op \in AdminOps
    BY <1>3 DEF AdminSessions
  <2>2. x.op = req[v].op /\ x.verdict = req[v].verdict
    BY <1>0 DEF Request
  <2> HIDE DEF x
  <2>3. QED
    BY <1>0, <2>1, <2>2, OtherKind DEF AdminOps
<1>4. QED
  BY <1>1, <1>2, <1>3, FinishEager DEF AdminRequest, AdminCommit

(* The numbers: the exchange that issues a session leaves, and while no    *)
(* session is issued the threads bound the exchanges.                      *)
LEMMA Counted ==
    ASSUME TypeInv, NEW c \in Code, WithinPool(c), PoolServes',
           pool' = pool,
           \/ Issued(c)' \subseteq Issued(c) /\ Eager(c)' \subseteq Eager(c)
           \/ Issued(c)' = {}
           \/ \E a, w : /\ w \in Eager(c) /\ Eager(c)' \subseteq Eager(c) \ {w}
                        /\ Issued(c)' \subseteq Issued(c) \cup {a}
    PROVE  WithinPool(c)'
<1>1. /\ IsFiniteSet(Eager(c)) /\ IsFiniteSet(Eager(c)') /\ IsFiniteSet(pool)
      /\ IsFiniteSet(Issued(c))
  BY FS_Subset, ThreadsAreFinite DEF Eager, TypeInv, TypeOK, WithinPool
<1>2. /\ Cardinality(Issued(c)) \in Nat /\ Cardinality(Eager(c)) \in Nat
      /\ Cardinality(pool) \in Nat /\ Cardinality(Eager(c)') \in Nat
      /\ Cardinality(Issued(c)) + Cardinality(Eager(c)) <= Cardinality(pool)
  BY <1>1, FS_CardinalityType DEF WithinPool
<1>3. CASE Issued(c)' \subseteq Issued(c) /\ Eager(c)' \subseteq Eager(c)
  <2>1. /\ IsFiniteSet(Issued(c)') /\ Cardinality(Issued(c)') <= Cardinality(Issued(c))
        /\ Cardinality(Eager(c)') <= Cardinality(Eager(c))
    BY <1>1, <1>3, FS_Subset
  <2>2. Cardinality(Issued(c)') \in Nat
    BY <2>1, FS_CardinalityType
  <2>3. QED
    BY <1>2, <2>1, <2>2 DEF WithinPool
<1>4. CASE Issued(c)' = {}
  <2>1. Eager(c)' \subseteq pool
    BY DEF PoolServes, Eager
  <2>2. Cardinality(Eager(c)') <= Cardinality(pool)
    BY <1>1, <2>1, FS_Subset
  <2>3. IsFiniteSet(Issued(c)') /\ Cardinality(Issued(c)') = 0
    BY <1>4, FS_EmptySet
  <2>4. QED
    BY <1>2, <2>2, <2>3 DEF WithinPool
<1>5. ASSUME NEW a, NEW w, w \in Eager(c), Eager(c)' \subseteq Eager(c) \ {w},
             Issued(c)' \subseteq Issued(c) \cup {a}
      PROVE  WithinPool(c)'
  <2>1. /\ IsFiniteSet(Eager(c) \ {w})
        /\ Cardinality(Eager(c) \ {w}) = Cardinality(Eager(c)) - 1
    BY <1>1, <1>5, FS_RemoveElement
  <2>2. Cardinality(Eager(c)') <= Cardinality(Eager(c)) - 1
    BY <1>5, <2>1, FS_Subset
  <2>3. /\ IsFiniteSet(Issued(c) \cup {a})
        /\ Cardinality(Issued(c) \cup {a}) <= Cardinality(Issued(c)) + 1
    <3>1. /\ IsFiniteSet(Issued(c) \cup {a})
          /\ Cardinality(Issued(c) \cup {a}) \in {Cardinality(Issued(c)), Cardinality(Issued(c)) + 1}
      BY <1>1, FS_AddElement
    <3>2. QED
      BY <1>2, <3>1
  <2>4. /\ IsFiniteSet(Issued(c)')
        /\ Cardinality(Issued(c)') <= Cardinality(Issued(c) \cup {a})
    BY <1>5, <2>3, FS_Subset
  <2>5. Cardinality(Issued(c)') \in Nat /\ Cardinality(Issued(c) \cup {a}) \in Nat
    BY <2>3, <2>4, FS_CardinalityType
  <2>6. Cardinality(Issued(c)') + Cardinality(Eager(c)') <= Cardinality(pool)
    BY <1>2, <2>2, <2>3, <2>4, <2>5
  <2>7. QED
    BY <2>4, <2>6 DEF WithinPool
<1>6. QED
  BY <1>3, <1>4, <1>5

(* The thread that grants. *)
LEMMA GrantCounted ==
    ASSUME TypeInv, HeldInv, ReplayInv, PoolServes', pool' = pool,
           CodeWritten, NEW v \in Worker, NEW a \in AppSession, ExchangeGrant(v, a)
    PROVE  ReplayInv'
<1> DEFINE d == req[v].code
<1>1. /\ d \in Code /\ code[d].status # "absent" /\ req[v].at # Never /\ v \in Eager(d)
      /\ req[v].at \in Nat
  BY DEF ExchangeGrant, At, TypeInv, TypeOK, RequestReferences, Request, HeldInv, Holds, Inserted,
         Never, ReplayInv, GrantsAreEager
<1>2. Others(v) /\ EagerOwn(v) /\ req'[v].op = "idle"
  <2>1. RadarRequest(v)
    BY DEF RadarRequest
  <2>2. QED
    BY <2>1, OthersLeft, FinishEager DEF ExchangeGrant, Finish, NoRequest, TypeInv, TypeOK
<1>3. /\ app'[a].code = d
      /\ \A b \in AppSession \ {a} : Stored(app'[b]) => app'[b] = app[b]
  BY DEF ExchangeGrant, WithoutApps, NoApp, Stored
<1>4. \A c \in Code : Eager(c)' \subseteq Eager(c) \ {v}
  BY <1>2 DEF Eager, Others
<1>5. \A c \in Code : /\ Issued(c)' \subseteq Issued(c) \cup {a}
                      /\ c # d => Issued(c)' \subseteq Issued(c)
  BY <1>3 DEF Issued
<1>6. GrantsAreEager'
  BY <1>2 DEF GrantsAreEager, Others, EagerOwn, ReplayInv, Eager
<1>7. ASSUME NEW c \in Code PROVE WithinPool(c)'
  <2>1. WithinPool(c)
    BY DEF ReplayInv
  <2>2. CASE c = d
    BY <1>1, <1>4, <1>5, <2>1, <2>2, Counted
  <2>3. CASE c # d
    BY <1>4, <1>5, <2>1, <2>3, Counted
  <2>4. QED
    BY <2>2, <2>3
<1>8. ASSUME NEW c \in Code PROVE CodeSpent(c)'
  <2>1. CASE c = d
    <3>1. Stored(code'[d]) => code'[d].consumed # Never
      BY <1>1, DeletionType DEF ExchangeGrant, TypeInv, CodeRow
    <3>2. code'[d].status # "absent"
      BY <1>1 DEF CodeWritten
    <3>3. QED
      BY <2>1, <3>1, <3>2 DEF CodeSpent
  <2>2. CASE c # d
    BY <1>5, <2>2 DEF CodeSpent, ReplayInv, CodeWritten, Stored
  <2>3. QED
    BY <2>1, <2>2
<1>9. QED
  BY <1>6, <1>7, <1>8 DEF ReplayInv

LEMMA ReplayStep == TypeInv /\ HeldInv /\ ReplayInv /\ [Next]_vars => ReplayInv'
<1> SUFFICES ASSUME TypeInv, HeldInv, ReplayInv, [Next]_vars PROVE ReplayInv'
  OBVIOUS
<1>1. PoolServes' /\ pool' = pool
  BY PoolStep, NextCases DEF ReplayInv
<1>2. PICK u \in Worker \cup {None} : Written(u)
  BY WrittenStep
<1>3. CASE \E v \in Worker, a \in AppSession : ExchangeGrant(v, a)
  BY <1>1, <1>2, <1>3, GrantCounted DEF Written
<1>4. CASE ~\E v \in Worker, a \in AppSession : ExchangeGrant(v, a)
  <2>1. \A c \in Code : Issued(c)' \subseteq Issued(c)
    BY <1>2, <1>4 DEF Written, AppWritten, Issued
  <2>2. \A c \in Code : CodeSpent(c)'
    BY <1>2, <2>1 DEF CodeSpent, ReplayInv, Written, CodeWritten, Stored
  <2> DEFINE Joined == \A c \in Code, w \in Worker : w \in Eager(c)' =>
                 w \in Eager(c) \/ (Stored(code[c]) /\ code[c].consumed = Never)
  <2>3. GrantsAreEager' /\ Joined
    <3>1. CASE Environment \/ UNCHANGED vars
      BY <3>1, EnvironmentOthers DEF vars, Eager, GrantsAreEager, ReplayInv
    <3>2. ASSUME NEW v \in pool,
                 SignIn(v) \/ PortalRequest(v) \/ RadarRequest(v) \/ AdminRequest(v) \/ Rollback(v)
          PROVE  GrantsAreEager' /\ Joined
      <4>1. v \in Worker /\ GrantsAreEager
        BY NextCases DEF ReplayInv
      <4>2. EagerOwn(v) /\ Others(v)
        BY <3>2, <4>1, OthersLeft, SignInEager, PortalRequestEager, RadarRequestEager,
           AdminRequestEager, FinishEager DEF Rollback
      <4>3. QED
        BY <4>1, <4>2 DEF EagerOwn, Others, GrantsAreEager, Eager
    <3>3. QED
      BY <3>1, <3>2, NextCases
  <2>4. ASSUME NEW c \in Code PROVE WithinPool(c)'
    <3>1. WithinPool(c) /\ CodeSpent(c)
      BY DEF ReplayInv
    <3>2. CASE Eager(c)' \subseteq Eager(c)
      BY <1>1, <2>1, <3>1, <3>2, Counted
    <3>3. CASE Stored(code[c]) /\ code[c].consumed = Never
      <4>1. Issued(c)' = {}
        BY <2>1, <3>1, <3>3 DEF CodeSpent
      <4>2. QED
        BY <1>1, <3>1, <4>1, Counted
    <3>4. Eager(c)' \subseteq Worker
      BY DEF Eager
    <3>5. QED
      BY <2>3, <3>2, <3>3, <3>4
  <2>5. QED
    BY <1>1, <2>2, <2>3, <2>4 DEF ReplayInv
<1>5. QED
  BY <1>3, <1>4

LEMMA ReplayInit == ASSUME Init PROVE ReplayInv
<1>1. \A c \in Code : Issued(c) = {} /\ Eager(c) = {}
  BY DEF Init, Issued, Eager, NoApp, NoRequest, Stored
<1>2. IsFiniteSet(pool) /\ Cardinality(pool) \in Nat
  <2>1. pool \in SUBSET Worker
    BY DEF Init
  <2>2. QED
    BY <2>1, FS_Subset, FS_CardinalityType, ThreadsAreFinite
<1>3. \A c \in Code : CodeSpent(c) /\ WithinPool(c)
  <2>1. Cardinality({}) + Cardinality({}) <= Cardinality(pool) /\ IsFiniteSet({})
    BY <1>2, FS_EmptySet
  <2>2. QED
    BY <1>1, <2>1 DEF CodeSpent, WithinPool
<1>4. PoolServes /\ GrantsAreEager
  BY DEF Init, PoolServes, GrantsAreEager, NoRequest
<1>5. QED
  BY <1>3, <1>4 DEF ReplayInv

(* However often a code is presented, it yields at most one application    *)
(* session per thread of the server (exchange_authorization_code: the code *)
(* is read without a lock before it is locked and judged by that copy).    *)
THEOREM ReplaysBounded == Spec => []ReplaysAreBounded
<1>1. Init => TypeInv /\ HeldInv /\ ReplayInv
  BY TypeInit, HeldInit, ReplayInit
<1>2. TypeInv /\ HeldInv /\ ReplayInv /\ [Next]_vars => (TypeInv /\ HeldInv /\ ReplayInv)'
  BY TypeStep, WrittenStep, ReplayStep
<1>3. TypeInv /\ ReplayInv => ReplaysAreBounded
  <2>1. ASSUME TypeInv, ReplayInv, NEW c \in Code
        PROVE  Cardinality(Issued(c)) <= Cardinality(pool)
    <3>1. IsFiniteSet(Eager(c)) /\ IsFiniteSet(pool) /\ WithinPool(c)
      <4>1. Eager(c) \subseteq Worker /\ pool \subseteq Worker /\ WithinPool(c)
        BY <2>1 DEF Eager, TypeInv, TypeOK, ReplayInv
      <4>2. QED
        BY <4>1, FS_Subset, ThreadsAreFinite
    <3>2. QED
      BY <3>1, FS_CardinalityType DEF WithinPool
  <2>2. QED
    BY <2>1 DEF ReplaysAreBounded, Issued
<1>4. QED
  BY <1>1, <1>2, <1>3, PTL DEF Spec

-----------------------------------------------------------------------------
(* The abstract specification.                                             *)

(* What an exchange relies on: the code it was read for was issued for its *)
(* portal session, and a grant holds the code and the account it was       *)
(* decided by.                                                             *)
Granted(w) ==
    LET r == req[w]
        acct == account[sess[r.sess].user] IN
    /\ r.op = "exchange"
    /\ Stored(code[r.code]) /\ lock[r.code] = w
    /\ lock[sess[r.sess].user] = w
    /\ acct.enabled /\ MfaIsSatisfied(acct, sess[r.sess])

Backed(w) ==
    LET r == req[w] IN
    /\ r.op = "exchange" /\ Stored(code[r.code]) => code[r.code].parent = r.sess
    /\ r.verdict = "grant" => Granted(w)

GrantInv == \A w \in Worker : Backed(w)

(* What a step of v (None: of the environment) leaves of the rows another  *)
(* worker relies on.                                                       *)
SessKept ==
    \A s \in Session : Stored(sess[s]) =>
        Stored(sess'[s]) /\ sess'[s].user = sess[s].user /\ sess'[s].mfa = sess[s].mfa

CodeKept(v) ==
    \A c \in Code :
        /\ Stored(code[c]) /\ Stored(code'[c]) => code'[c].parent = code[c].parent
        /\ Stored(code[c]) /\ lock[c] \notin {None, v} => Stored(code'[c])

AccountKept(v) ==
    \A u \in User : lock[u] \notin {None, v} =>
        account'[u].enabled = account[u].enabled /\ account'[u].mfa = account[u].mfa

RowsKept(v) == SessKept /\ CodeKept(v) /\ AccountKept(v)

LEMMA GrantStep ==
    ASSUME TypeInv, HeldInv, GrantInv, NEW v \in Worker \cup {None}, Written(v), LocksKept(v),
           RowsKept(v), v \in Worker => Backed(v)'
    PROVE  GrantInv'
<1>1. ASSUME NEW w \in Worker, w # v PROVE Backed(w)'
  <2> DEFINE r == req[w]
             u == sess[r.sess].user
  <2>1. req'[w] = r /\ Backed(w) /\ w # None
    BY <1>1, IdentitiesAreDistinct DEF LocksKept, GrantInv
  <2>2. ASSUME r.op = "exchange"
        PROVE  /\ r.code \in Code /\ Inserted(r.code) /\ r.code \in Row
               /\ r.sess \in Session /\ Stored(sess[r.sess])
               /\ u \in User /\ u \in Row
    BY <2>2 DEF TypeInv, RequestReferences, RowReferences, SessionOps, HeldInv, Holds, Row
  <2>3. ASSUME r.op = "exchange", Stored(code'[r.code])
        PROVE  code'[r.code].parent = r.sess
    <3>1. Stored(code[r.code])
      BY <2>2, <2>3 DEF Written, CodeWritten, Inserted
    <3>2. QED
      BY <2>1, <2>2, <2>3, <3>1 DEF Backed, RowsKept, CodeKept
  <2>4. ASSUME r.verdict = "grant" PROVE Granted(w)'
    <3>1. Granted(w)
      BY <2>1, <2>4 DEF Backed
    <3>2. r.op = "exchange" /\ Stored(code[r.code]) /\ lock[r.code] = w /\ lock[u] = w
      BY <3>1 DEF Granted
    <3>3. Stored(code'[r.code]) /\ lock'[r.code] = w
      BY <1>1, <2>1, <2>2, <3>2 DEF LocksKept, RowsKept, CodeKept
    <3>4. sess'[r.sess].user = u /\ sess'[r.sess].mfa = sess[r.sess].mfa
      BY <2>2, <3>2 DEF RowsKept, SessKept
    <3>5. /\ lock'[u] = w
          /\ account'[u].enabled = account[u].enabled /\ account'[u].mfa = account[u].mfa
      BY <1>1, <2>1, <2>2, <3>2 DEF LocksKept, RowsKept, AccountKept
    <3>6. QED
      BY <2>1, <3>1, <3>2, <3>3, <3>4, <3>5 DEF Granted, MfaIsSatisfied
  <2>5. QED
    BY <2>1, <2>3, <2>4 DEF Backed
<1>2. QED
  BY <1>1 DEF GrantInv

-----------------------------------------------------------------------------
(* Each step leaves those rows. *)

LEMMA NothingMoved == ASSUME UNCHANGED <<account, sess, code>>, NEW v PROVE RowsKept(v)
  BY DEF RowsKept, SessKept, CodeKept, AccountKept

LEMMA HeldCodesKept ==
    ASSUME TypeInv, NEW v \in Worker, RevokeHeld(v)
    PROVE  /\ CodeKept(v)
           /\ \A c \in Code : code'[c].status = code[c].status /\ code'[c].parent = code[c].parent
<1>1. \A c \in Code : /\ code[c] \in CodeRow
                      /\ code'[c] = IF lock[c] = v THEN [code[c] EXCEPT !.revoked = req[v].at]
                                                   ELSE code[c]
  BY DEF TypeInv, TypeOK, RevokeHeld
<1>2. \A c \in Code : code'[c].status = code[c].status /\ code'[c].parent = code[c].parent
  BY <1>1 DEF CodeRow
<1>3. QED
  BY <1>2 DEF CodeKept, Stored

LEMMA PurgedCodesKept ==
    ASSUME NEW v, NEW rows, \A c \in Code \cap rows : lock[c] \in {None, v}
    PROVE  \A c \in Code :
             LET row == WithoutCodes(code, rows)[c] IN
             /\ Stored(row) => row = code[c]
             /\ Stored(code[c]) /\ lock[c] \notin {None, v} => Stored(row)
  BY DEF WithoutCodes, NoCode, Stored

LEMMA EndKept ==
    ASSUME TypeInv, NEW v \in Worker, ExpireCommit(v) \/ LogoutCommit(v) \/ AdminCommit(v)
    PROVE  RowsKept(v)
<1>1. \A s \in Session : sess[s] \in SessRow
  BY DEF TypeInv, TypeOK
<1>2. CASE ExpireCommit(v) \/ LogoutCommit(v)
  <2>1. /\ sess' = [sess EXCEPT ![req[v].sess].revoked = req[v].at] /\ RevokeHeld(v)
        /\ account' = account
    BY <1>2 DEF ExpireCommit, LogoutCommit, settingsVars
  <2>2. SessKept
    BY <1>1, <2>1 DEF TypeInv, TypeOK, SessRow, SessKept, Stored
  <2>3. QED
    BY <2>1, <2>2, HeldCodesKept DEF RowsKept, AccountKept
<1>3. CASE AdminCommit(v)
  <2>1. \A s \in Session :
          sess'[s] = IF lock[s] = v THEN [sess[s] EXCEPT !.revoked = req[v].at] ELSE sess[s]
    BY <1>3 DEF AdminCommit
  <2>2. SessKept
    BY <1>1, <2>1 DEF SessRow, SessKept, Stored
  <2>3. AccountKept(v)
    <3>1. CASE req[v].op = "reset"
      BY <1>3, <3>1 DEF AdminCommit, AccountKept
    <3>2. CASE req[v].op = "admin"
      <4>1. /\ \A u \in User : u # req[v].user => account'[u] = account[u]
            /\ req[v].user \in User =>
                  account'[req[v].user] \in
                      Merged(account[req[v].user], orm[v].account, req[v].want)
        BY <1>3, <3>2 DEF AdminCommit, TypeInv, TypeOK
      <4>2. lock[req[v].user] \in {None, v} \/ ~TouchesAccount(orm[v].account, req[v].want)
        BY <1>3, <3>2 DEF AdminCommit, CanLock
      <4>3. ASSUME NEW cur, NEW loaded, NEW submitted, ~TouchesAccount(loaded, submitted),
                   NEW row \in Merged(cur, loaded, submitted)
            PROVE  row.enabled = cur.enabled /\ row.mfa = cur.mfa
        BY <4>3 DEF Merged, TouchesAccount
      <4>4. QED
        BY <4>1, <4>2, <4>3 DEF AccountKept
    <3>3. QED
      BY <1>3, <3>1, <3>2 DEF AdminCommit, AdminOps
  <2>4. QED
    BY <1>3, <2>2, <2>3, HeldCodesKept DEF AdminCommit, RowsKept
<1>4. QED
  BY <1>2, <1>3

LEMMA SessWriteKept ==
    ASSUME TypeInv, NEW v \in Worker,
           \/ \E s \in Session : LoginCommit(v, s)
           \/ ContextRefresh(v) \/ IntrospectActive(v)
    PROVE  RowsKept(v)
<1>1. sess \in [Session -> SessRow]
  BY DEF TypeInv, TypeOK
<1>2. SessKept /\ UNCHANGED <<account, code>>
  <2>1. ASSUME NEW s \in Session, LoginCommit(v, s) PROVE SessKept /\ UNCHANGED <<account, code>>
    BY <1>1, <2>1 DEF LoginCommit, SessKept, Stored, settingsVars
  <2>2. CASE ContextRefresh(v)
    BY <1>1, <2>2 DEF ContextRefresh, SessRow, SessKept, Stored, settingsVars
  <2>3. CASE IntrospectActive(v)
    BY <1>1, <2>3 DEF IntrospectActive, SessRow, SessKept, Stored, settingsVars
  <2>4. QED
    BY <2>1, <2>2, <2>3
<1>3. QED
  BY <1>2 DEF RowsKept, CodeKept, AccountKept

LEMMA DoomedCodes ==
    ASSUME HeldInv, NEW v \in Worker
    PROVE  \A c \in Code :
             LET row == WithoutCodes(code, req[v].doomed)[c] IN
             /\ Stored(row) => row = code[c]
             /\ Stored(code[c]) /\ lock[c] \notin {None, v} => Stored(row)
<1>1. \A c \in Code \cap req[v].doomed : lock[c] \in {None, v}
  BY DEF HeldInv, Holds
<1>2. QED
  BY <1>1, PurgedCodesKept

LEMMA AuthorizeKept ==
    ASSUME TypeInv, HeldInv, NEW v \in Worker, NEW c \in Code, AuthorizeCommit(v, c)
    PROVE  RowsKept(v)
<1>1. /\ \A d \in Code \ {c} : code'[d] = WithoutCodes(code, req[v].doomed)[d]
      /\ ~Stored(code[c]) /\ UNCHANGED <<account, sess>>
  BY DEF AuthorizeCommit, WithoutCodes, Stored, settingsVars
<1> DEFINE kept == WithoutCodes(code, req[v].doomed)
<1>2. \A d \in Code : /\ Stored(kept[d]) => kept[d] = code[d]
                      /\ Stored(code[d]) /\ lock[d] \notin {None, v} => Stored(kept[d])
  BY DoomedCodes
<1>3. CodeKept(v)
  <2> HIDE DEF kept
  <2>1. \A d \in Code \ {c} : code'[d] = kept[d]
    BY <1>1 DEF kept
  <2>2. QED
    BY <1>1, <1>2, <2>1 DEF CodeKept
<1>4. QED
  BY <1>1, <1>3 DEF RowsKept, SessKept, AccountKept

(* An exchange writes two columns of a code over what its cleanup left.    *)
LEMMA ExchangeCodes ==
    ASSUME TypeInv, NEW v \in Worker,
           ExchangeReject(v) \/ \E a \in AppSession : ExchangeGrant(v, a)
    PROVE  \A c \in Code :
             LET row == WithoutCodes(code, req[v].doomed)[c] IN
             code'[c].status = row.status /\ code'[c].parent = row.parent
<1> DEFINE kept == WithoutCodes(code, req[v].doomed)
           d == req[v].code
<1>1. kept \in [Code -> CodeRow] /\ d \in Code
  BY DeletionType DEF TypeInv, RequestReferences, ExchangeReject, ExchangeGrant, At
<1> HIDE DEF kept
<1>2. CASE ExchangeReject(v)
  <2>1. PICK t, u : code' = [kept EXCEPT ![d] = [kept[d] EXCEPT !.revoked = t, !.consumed = u]]
    BY Zenon, <1>2 DEF ExchangeReject, kept
  <2>2. code'[d] = [kept[d] EXCEPT !.revoked = t, !.consumed = u]
        /\ \A c \in Code \ {d} : code'[c] = kept[c]
    BY <1>1, <2>1
  <2>3. code'[d].status = kept[d].status /\ code'[d].parent = kept[d].parent
    <3> HIDE DEF d
    <3>1. kept[d] \in CodeRow
      BY <1>1
    <3>2. QED
      BY <2>2, <3>1 DEF CodeRow
  <2>4. QED
    BY <2>2, <2>3 DEF kept
<1>3. ASSUME NEW a \in AppSession, ExchangeGrant(v, a)
      PROVE  \A c \in Code : code'[c].status = kept[c].status /\ code'[c].parent = kept[c].parent
  <2>1. code' = [kept EXCEPT ![d].consumed = req[v].at]
    BY <1>3 DEF ExchangeGrant, kept
  <2>2. QED
    BY <1>1, <2>1 DEF CodeRow
<1>4. QED
  BY SMTT(30), <1>2, <1>3 DEF kept

LEMMA ExchangeKept ==
    ASSUME TypeInv, HeldInv, NEW v \in Worker,
           ExchangeReject(v) \/ \E a \in AppSession : ExchangeGrant(v, a)
    PROVE  RowsKept(v)
<1> DEFINE kept == WithoutCodes(code, req[v].doomed)
<1>1. \A c \in Code : /\ Stored(kept[c]) => kept[c] = code[c]
                      /\ Stored(code[c]) /\ lock[c] \notin {None, v} => Stored(kept[c])
  BY DoomedCodes
<1>2. \A c \in Code : code'[c].status = kept[c].status /\ code'[c].parent = kept[c].parent
  BY ExchangeCodes
<1>3. CodeKept(v)
  <2> HIDE DEF kept
  <2>1. QED
    BY <1>1, <1>2 DEF CodeKept, Stored
<1>4. UNCHANGED <<account, sess>>
  BY DEF ExchangeReject, ExchangeGrant, settingsVars
<1>5. QED
  BY <1>3, <1>4 DEF RowsKept, SessKept, AccountKept

LEMMA WorkerKept ==
    ASSUME TypeInv, HeldInv, NEW v \in Worker,
           SignIn(v) \/ PortalRequest(v) \/ RadarRequest(v) \/ AdminRequest(v) \/ Rollback(v)
    PROVE  RowsKept(v)
<1>1. CASE SignIn(v)
  BY ZenonT(40), <1>1, SessWriteKept, NothingMoved DEF SignIn, LoginRead, settingsVars
<1>2. CASE PortalRequest(v)
  <2>1. CASE UNCHANGED <<account, sess, code>>
    BY <2>1, NothingMoved
  <2>2. CASE ContextRefresh(v) \/ ExpireCommit(v) \/ LogoutCommit(v)
    BY <2>2, SessWriteKept, EndKept
  <2>3. CASE \E c \in Code : AuthorizeCommit(v, c)
    BY SMTT(30), <2>3, AuthorizeKept
  <2>4. QED
    BY Zenon, <1>2, <2>1, <2>2, <2>3
    DEF PortalRequest, ContextRead, LogoutStart, LogoutLock, RevokeCodes, RevokeApps,
        AuthorizeCheck, AuthorizeDecide, settingsVars
<1>3. CASE RadarRequest(v)
  <2>1. CASE UNCHANGED <<account, sess, code>>
    BY <2>1, NothingMoved
  <2>2. CASE IntrospectActive(v)
    BY <2>2, SessWriteKept
  <2>3. CASE ExchangeReject(v) \/ \E a \in AppSession : ExchangeGrant(v, a)
    BY SMTT(30), <2>3, ExchangeKept
  <2>4. QED
    BY Zenon, <1>3, <2>1, <2>2, <2>3
    DEF RadarRequest, ExchangeRead, ExchangeDecide, IntrospectRead, IntrospectDecide,
        IntrospectReject, settingsVars
<1>4. CASE AdminRequest(v)
  <2>1. CASE AdminCommit(v)
    BY <2>1, EndKept
  <2>2. QED
    BY Zenon, <1>4, <2>1, NothingMoved
    DEF AdminRequest, AdminUpdate, AdminReset, AdminSessions, settingsVars
<1>5. CASE Rollback(v)
  BY <1>5, NothingMoved DEF Rollback, settingsVars
<1>6. QED
  BY SMTT(30), <1>1, <1>2, <1>3, <1>4, <1>5

LEMMA EnvironmentKept == ASSUME Environment PROVE RowsKept(None)
<1>1. CASE Cleanup
  <2>1. PICK codes \in SUBSET PurgeableCodes :
          /\ \A r \in codes : lock[r] = None
          /\ code' = WithoutCodes(code, codes) /\ UNCHANGED <<account, sess>>
    BY <1>1 DEF Cleanup, settingsVars
  <2>2. CodeKept(None)
    BY <2>1, PurgedCodesKept DEF CodeKept
  <2>3. QED
    BY <2>1, <2>2 DEF RowsKept, SessKept, AccountKept
<1>2. CASE ~Cleanup
  BY <1>2, NothingMoved
  DEF Environment, RevokeApplicationSession, UpdateRolePermissions, UpdateAuthenticationSettings,
      Tick, settingsVars
<1>3. QED
  BY <1>1, <1>2

-----------------------------------------------------------------------------
(* What a request relies on after its own step. *)

LEMMA NoExchangeBegun ==
    ASSUME TypeInv, NEW v \in Worker,
           \/ SignIn(v) \/ AdminRequest(v) \/ Rollback(v)
           \/ PortalRequest(v) /\ ~(RevokeCodes(v) \/ RevokeApps(v))
    PROVE  req'[v].op # "exchange"
<1>0. req \in [Worker -> Request] /\ NoRequest.op = "idle"
  BY DEF TypeInv, TypeOK, NoRequest
<1>1. Finish(v) => req'[v].op # "exchange"
  BY <1>0 DEF Finish
<1>2. CASE SignIn(v)
  <2>1. ASSUME NEW u \in User, LoginRead(v, u) PROVE req'[v].op # "exchange"
    BY <1>0, <2>1 DEF LoginRead, NoRequest
  <2>2. QED
    BY <1>1, <1>2, <2>1 DEF SignIn, LoginCommit
<1>3. CASE PortalRequest(v) /\ ~(RevokeCodes(v) \/ RevokeApps(v))
  <2>1. ASSUME NEW s \in Session, NEW kind \in {"visit", "authorize"}, ContextRead(v, s, kind)
        PROVE  req'[v].op # "exchange"
    BY <1>0, <2>1 DEF ContextRead, NoRequest
  <2>2. CASE ContextRefresh(v)
    BY <1>0, <1>1, <2>2 DEF ContextRefresh, Request
  <2>3. CASE ExpireCommit(v) \/ LogoutCommit(v) \/ \E c \in Code : AuthorizeCommit(v, c)
    BY <1>1, <2>3 DEF ExpireCommit, LogoutCommit, AuthorizeCommit
  <2>4. CASE \E s \in Session : LogoutStart(v, s)
    BY <1>0, <2>4 DEF LogoutStart, NoRequest
  <2>5. CASE LogoutLock(v)
    BY ZenonT(40), <1>0, <1>1, <2>5 DEF LogoutLock, At, Request
  <2>6. CASE AuthorizeCheck(v)
    BY <1>0, <2>6 DEF AuthorizeCheck, At, Request
  <2>7. CASE AuthorizeDecide(v)
    <3>1. req[v].op = "authorize"
      BY ZenonT(40), <2>7 DEF AuthorizeDecide, At
    <3>2. \/ Finish(v)
          \/ \E rows : req' = [req EXCEPT ![v] = [req[v] EXCEPT !.step = "commit", !.at = now,
                                                               !.doomed = rows]]
      BY Zenon, <2>7 DEF AuthorizeDecide
    <3>3. QED
      BY ZenonT(40), <1>0, <1>1, <3>1, <3>2 DEF Request
  <2>8. QED
    BY <1>3, <2>1, <2>2, <2>3, <2>4, <2>5, <2>6, <2>7 DEF PortalRequest
<1>4. CASE AdminRequest(v)
  <2>1. ASSUME NEW u \in User, NEW want \in Payload, AdminUpdate(v, u, want)
        PROVE  req'[v].op # "exchange"
    <3>1. PICK first :
            req' = [req EXCEPT ![v] = [NoRequest EXCEPT !.op = "admin", !.step = first,
                                                        !.at = now, !.user = u, !.want = want]]
      BY Zenon, <2>1 DEF AdminUpdate
    <3>2. QED
      BY <1>0, <3>1 DEF NoRequest
  <2>2. ASSUME NEW u \in User, AdminReset(v, u) PROVE req'[v].op # "exchange"
    BY <1>0, <2>2 DEF AdminReset, NoRequest
  <2>3. CASE AdminSessions(v)
    BY <1>0, <2>3 DEF AdminSessions, AdminOps, Request
  <2>4. CASE AdminCommit(v)
    BY <1>1, <2>4 DEF AdminCommit
  <2>5. QED
    BY <1>4, <2>1, <2>2, <2>3, <2>4 DEF AdminRequest
<1>5. CASE Rollback(v)
  BY SMTT(30), <1>1, <1>5 DEF Rollback
<1>6. QED
  BY <1>2, <1>3, <1>4, <1>5

(* The decision to grant is made with the code, the account and the portal *)
(* session locked, by what they are then.                                  *)
LEMMA DecideBacked ==
    ASSUME TypeInv, HeldInv, GrantInv, NEW v \in Worker, ExchangeDecide(v)
    PROVE  Backed(v)'
<1> DEFINE r == req[v]
           u == sess[r.sess].user
           verdict == ExchangeVerdict(v)
           rows == {r.sess, r.code} \cup IF verdict = "reject" THEN {} ELSE {u, Radar}
           x == [r EXCEPT !.step = "commit", !.verdict = verdict]
<1>1. /\ r.op = "exchange" /\ lock' = Taken(v, rows) /\ req' = [req EXCEPT ![v] = x]
      /\ UNCHANGED <<account, sess, code>>
  BY DEF ExchangeDecide, At, settingsVars
<1>2. /\ r.code \in Code /\ r.code \in Row
      /\ r.sess \in Session /\ Stored(sess[r.sess]) /\ u \in User /\ u \in Row
  BY <1>1 DEF TypeInv, RequestReferences, RowReferences, SessionOps, Row
<1>3. verdict = "grant" =>
          /\ Stored(code[r.code]) /\ account[u].enabled
          /\ MfaIsSatisfied(account[u], sess[r.sess])
  BY DEF ExchangeVerdict, CodeIsUsable, CanAuthorize
<1>4. verdict = "grant" => lock'[r.code] = v /\ lock'[u] = v
  <2> HIDE DEF verdict
  <2>1. QED
    BY <1>1, <1>2 DEF Taken
<1> HIDE DEF verdict
<1>5. x.op = r.op /\ x.code = r.code /\ x.sess = r.sess /\ x.verdict = verdict
  BY DEF TypeInv, TypeOK, Request
<1> HIDE DEF x
<1>6. req'[v] = x
  BY <1>1 DEF TypeInv, TypeOK
<1>7. Stored(code[r.code]) => code[r.code].parent = r.sess
  BY <1>1 DEF GrantInv, Backed
<1>8. QED
  BY <1>1, <1>3, <1>4, <1>5, <1>6, <1>7 DEF Backed, Granted, MfaIsSatisfied

LEMMA ReadBacked ==
    ASSUME TypeInv, NEW v \in Worker, NEW c \in Code, NEW proof \in BOOLEAN,
           ExchangeRead(v, c, proof)
    PROVE  Backed(v)'
<1>1. PICK codes, apps :
        req' = [req EXCEPT ![v] =
            [NoRequest EXCEPT !.op = "exchange", !.at = now, !.code = c,
                              !.sess = code[c].parent, !.proof = proof,
                              !.doomed = codes \cup apps,
                              !.step = IF c \in codes THEN "commit" ELSE "decide",
                              !.verdict = IF c \in codes THEN "reject" ELSE "none"]]
  BY Zenon DEF ExchangeRead
<1> DEFINE x == [NoRequest EXCEPT !.op = "exchange", !.at = now, !.code = c,
                                  !.sess = code[c].parent, !.proof = proof,
                                  !.doomed = codes \cup apps,
                                  !.step = IF c \in codes THEN "commit" ELSE "decide",
                                  !.verdict = IF c \in codes THEN "reject" ELSE "none"]
<1>2. x.code = c /\ x.sess = code[c].parent /\ x.verdict # "grant"
  BY DEF NoRequest
<1>3. req' = [req EXCEPT ![v] = x]
  BY <1>1
<1> HIDE DEF x
<1>4. req'[v] = x /\ code' = code
  BY <1>3 DEF TypeInv, TypeOK, ExchangeRead
<1>5. QED
  BY <1>2, <1>4 DEF Backed

LEMMA RevokeBacked ==
    ASSUME TypeInv, HeldInv, GrantInv, NEW v \in Worker, RevokeCodes(v) \/ RevokeApps(v)
    PROVE  Backed(v)'
<1>1. PICK rows : /\ CanLock(v, rows) /\ lock' = Taken(v, rows)
  BY DEF RevokeCodes, RevokeApps
<1>2. /\ req'[v].op = req[v].op /\ req'[v].code = req[v].code /\ req'[v].sess = req[v].sess
      /\ req'[v].verdict = req[v].verdict
      /\ UNCHANGED <<account, sess, code>>
  BY DEF RevokeCodes, RevokeApps, TypeInv, TypeOK, Request, settingsVars
<1>3. \A y \in Row : lock[y] = v => lock'[y] = v
  BY <1>1 DEF Taken
<1>4. req[v].op = "exchange" =>
          /\ req[v].code \in Row
          /\ sess[req[v].sess].user \in Row
  BY DEF TypeInv, RequestReferences, RowReferences, SessionOps, Row
<1>5. Backed(v)
  BY DEF GrantInv
<1>6. Granted(v) => Granted(v)'
  BY <1>2, <1>3, <1>4 DEF Granted, MfaIsSatisfied
<1>7. QED
  BY <1>2, <1>5, <1>6 DEF Backed

LEMMA WorkerBacked ==
    ASSUME TypeInv, HeldInv, ReplayInv, GrantInv, NEW v \in Worker,
           SignIn(v) \/ PortalRequest(v) \/ RadarRequest(v) \/ AdminRequest(v) \/ Rollback(v)
    PROVE  Backed(v)'
<1>1. EagerOwn(v)
  BY SignInEager, PortalRequestEager, RadarRequestEager, AdminRequestEager, FinishEager
  DEF ReplayInv, Rollback
<1>2. ASSUME req'[v].op # "exchange" PROVE Backed(v)'
  BY <1>1, <1>2 DEF EagerOwn, Eager, Backed
<1>3. CASE RevokeCodes(v) \/ RevokeApps(v)
  BY SMTT(30), <1>3, RevokeBacked
<1>4. CASE RadarRequest(v)
  <2>1. CASE Finish(v)
    BY <2>1, <1>2 DEF Finish, NoRequest, TypeInv, TypeOK
  <2>2. CASE \E a \in AppSession : IntrospectRead(v, a)
    BY <2>2, <1>2 DEF IntrospectRead, NoRequest, TypeInv, TypeOK
  <2>3. CASE IntrospectDecide(v)
    BY ZenonT(40), <2>1, <2>3, <1>2 DEF IntrospectDecide, At, TypeInv, TypeOK, Request
  <2>4. QED
    BY Zenon, <1>4, <2>1, <2>2, <2>3, ReadBacked, DecideBacked
    DEF RadarRequest, ExchangeReject, ExchangeGrant, IntrospectReject, IntrospectActive
<1>5. QED
  BY <1>2, <1>3, <1>4, NoExchangeBegun

LEMMA GrantInvStep ==
    TypeInv /\ HeldInv /\ ReplayInv /\ GrantInv /\ [Next]_vars => GrantInv'
<1> SUFFICES ASSUME TypeInv, HeldInv, ReplayInv, GrantInv, [Next]_vars PROVE GrantInv'
  OBVIOUS
<1>1. CASE Environment
  BY <1>1, EnvironmentWritten, EnvironmentKept, GrantStep, IdentitiesAreDistinct
<1>2. ASSUME NEW v \in Worker,
             SignIn(v) \/ PortalRequest(v) \/ RadarRequest(v) \/ AdminRequest(v) \/ Rollback(v)
      PROVE  GrantInv'
  <2>1. ASSUME Rollback(v) PROVE Written(v) /\ LocksKept(v)
    BY <2>1, NothingWritten, FinishHolds DEF Rollback
  <2>2. Written(v) /\ LocksKept(v)
    BY <1>2, <2>1, SignInHolds, PortalRequestHolds, RadarRequestHolds, AdminRequestHolds
  <2>3. RowsKept(v) /\ Backed(v)'
    BY <1>2, WorkerKept, WorkerBacked
  <2>4. QED
    BY <2>2, <2>3, GrantStep
<1>3. CASE UNCHANGED vars
  BY <1>3 DEF vars, GrantInv, Backed, Granted, MfaIsSatisfied
<1>4. QED
  BY <1>1, <1>2, <1>3, NextCases

-----------------------------------------------------------------------------
(* The tables as Handoff sees them, and what a step does to that view.     *)

LEMMA Views ==
    /\ CodesOf \in [Session -> SUBSET (Code \cup AppSession)]
    /\ LiveOf \in [Session -> SUBSET (Code \cup AppSession)]
    /\ \A s \in Session : \A x :
          /\ x \in CodesOf[s] <=> x \in Code /\ Stored(code[x]) /\ code[x].parent = s
          /\ x \in LiveOf[s] <=> x \in AppSession /\ LiveApp(x) /\ app[x].parent = s
  BY DEF CodesOf, LiveOf

LEMMA ViewsNext ==
    /\ CodesOf' \in [Session -> SUBSET (Code \cup AppSession)]
    /\ LiveOf' \in [Session -> SUBSET (Code \cup AppSession)]
    /\ \A s \in Session : \A x :
          /\ x \in CodesOf'[s] <=> x \in Code /\ Stored(code'[x]) /\ code'[x].parent = s
          /\ x \in LiveOf'[s] <=> x \in AppSession /\ LiveApp(x)' /\ app'[x].parent = s
  BY DEF CodesOf, LiveOf, LiveApp

(* Codes, or live application sessions, are gone; none has come. *)
CodesRemain ==
    \A c \in Code : Stored(code'[c]) => Stored(code[c]) /\ code'[c].parent = code[c].parent
LiveRemain ==
    \A a \in AppSession : LiveApp(a)' => LiveApp(a) /\ app'[a].parent = app[a].parent

LEMMA FewerCodes == ASSUME CodesRemain PROVE CodesOf' \in Promise!Fewer(CodesOf)
  BY Views, ViewsNext DEF CodesRemain, Promise!Fewer

LEMMA FewerLive == ASSUME LiveRemain PROVE LiveOf' \in Promise!Fewer(LiveOf)
  BY Views, ViewsNext DEF LiveRemain, Promise!Fewer

LEMMA SameCodes ==
    ASSUME \A c \in Code : code'[c].status = code[c].status /\ code'[c].parent = code[c].parent
    PROVE  CodesOf' = CodesOf
  BY DEF CodesOf, Stored

LEMMA SameLive == ASSUME UNCHANGED app PROVE LiveOf' = LiveOf
  BY DEF LiveOf, LiveApp

LEMMA SamePortal ==
    ASSUME \A s \in Session : /\ sess'[s].status = sess[s].status
                              /\ sess'[s].revoked = sess[s].revoked
                              /\ sess'[s].user = sess[s].user /\ sess'[s].mfa = sess[s].mfa,
           UNCHANGED <<account, ended>>
    PROVE  PortalOf' = PortalOf /\ EntitledNow' = EntitledNow
  BY DEF PortalOf, EntitledNow, Entitled, MfaIsSatisfied, Stored

LEMMA KnownAreStored ==
    /\ Promise!Known = {s \in Session : Stored(sess[s])}
    /\ Promise!Open = {s \in Session : Stored(sess[s]) /\ s \notin ended /\ sess[s].revoked = Never}
  BY DEF Promise!Known, Promise!Open, PortalOf

(* A step that only cleans up. *)
LEMMA SweepStep ==
    ASSUME CodesRemain, LiveRemain, UNCHANGED <<account, sess, ended>>
    PROVE  Promise!Next
<1>1. PortalOf' = PortalOf /\ EntitledNow' = EntitledNow
  BY SamePortal
<1>2. CodesOf' \in Promise!Fewer(CodesOf) /\ LiveOf' \in Promise!Fewer(LiveOf)
  BY FewerCodes, FewerLive
<1>3. Promise!Sweep
  BY <1>1, <1>2 DEF Promise!Sweep
<1>4. QED
  BY <1>3 DEF Promise!Next

LEMMA StutterStep ==
    ASSUME UNCHANGED <<account, sess, code, app, ended>>
    PROVE  UNCHANGED Promise!handoffVars
  BY SamePortal, SameCodes, SameLive DEF Promise!handoffVars

LEMMA AppsDeletedRemain ==
    ASSUME TypeInv, NEW rows, app' = WithoutApps(app, rows)
    PROVE  LiveRemain
<1>1. \A a \in AppSession : Stored(app'[a]) => app'[a] = app[a]
  BY DeletionType DEF TypeInv
<1>2. QED
  BY <1>1 DEF LiveRemain, LiveApp

-----------------------------------------------------------------------------
(* Each action is a step of Handoff, or none. *)

LEMMA LoginPromised ==
    ASSUME TypeInv, LockInv, NEW v \in Worker, NEW s \in Session, LoginCommit(v, s)
    PROVE  Promise!Next
<1>1. /\ sess' = [sess EXCEPT ![s] = sess'[s]] /\ Stored(sess'[s]) /\ sess'[s].revoked = Never
      /\ ~Stored(sess[s]) /\ UNCHANGED <<account, code, app, ended>>
  BY DEF LoginCommit, TypeInv, TypeOK, Stored, settingsVars
<1>2. s \notin ended /\ \A t \in Session \ {s} : sess'[t] = sess[t]
  BY <1>1 DEF LockInv, EndedAreRevoked, TypeInv, TypeOK
<1>3. PortalOf[s] = "none" /\ PortalOf' = [PortalOf EXCEPT ![s] = "open"]
  BY <1>1, <1>2 DEF PortalOf
<1>4. EntitledNow' \in {EntitledNow, EntitledNow \cup {s}}
  BY <1>1, <1>2 DEF EntitledNow, Entitled, MfaIsSatisfied
<1>5. CodesOf' = CodesOf /\ LiveOf' = LiveOf
  BY <1>1, SameCodes, SameLive
<1>6. Promise!SignIn(s)
  BY <1>3, <1>4, <1>5 DEF Promise!SignIn
<1>7. QED
  BY <1>6 DEF Promise!Next

(* A write of the times of a session, or of an application session. *)
LEMMA TimesWritten ==
    ASSUME TypeInv, NEW s, NEW t, NEW u,
           sess' = [sess EXCEPT ![s] = [sess[s] EXCEPT !.seen = t, !.expires = u]],
           UNCHANGED <<account, ended>>
    PROVE  PortalOf' = PortalOf /\ EntitledNow' = EntitledNow
<1>1. \A q \in Session :
        sess[q] \in SessRow /\ sess'[q] \in {sess[q], [sess[q] EXCEPT !.seen = t, !.expires = u]}
  BY DEF TypeInv, TypeOK
<1>2. ASSUME NEW q \in Session
      PROVE  /\ sess'[q].status = sess[q].status /\ sess'[q].revoked = sess[q].revoked
             /\ sess'[q].user = sess[q].user /\ sess'[q].mfa = sess[q].mfa
  <2>1. CASE sess'[q] = sess[q]
    BY <2>1
  <2>2. CASE sess'[q] = [sess[q] EXCEPT !.seen = t, !.expires = u]
    <3>1. sess[q] \in SessRow
      BY Zenon, <1>1
    <3>2. QED
      BY <2>2, <3>1 DEF SessRow
  <2>3. QED
    BY Zenon, <1>1, <2>1, <2>2
<1>3. QED
  BY <1>2, SamePortal

LEMMA RefreshPromised ==
    ASSUME TypeInv, NEW v \in Worker, ContextRefresh(v) \/ IntrospectActive(v)
    PROVE  UNCHANGED Promise!handoffVars
<1>1. UNCHANGED <<account, code, ended>>
  BY DEF ContextRefresh, IntrospectActive, settingsVars
<1>2. PortalOf' = PortalOf /\ EntitledNow' = EntitledNow
  <2>1. CASE ContextRefresh(v)
    BY Zenon, <1>1, <2>1, TimesWritten DEF ContextRefresh
  <2>2. CASE IntrospectActive(v)
    BY Zenon, <1>1, <2>2, TimesWritten DEF IntrospectActive
  <2>3. QED
    BY <2>1, <2>2
<1>3. \A a \in AppSession : /\ app'[a].status = app[a].status /\ app'[a].parent = app[a].parent
                            /\ app'[a].revoked = app[a].revoked
  BY DEF ContextRefresh, IntrospectActive, TypeInv, TypeOK, AppRow
<1>4. LiveOf' = LiveOf
  BY <1>3 DEF LiveOf, LiveApp, Stored
<1>5. QED
  BY <1>1, <1>2, <1>4, SameCodes DEF Promise!handoffVars

(* The session of an expiry or a logout gets its revocation. *)
LEMMA OneRevoked ==
    ASSUME TypeInv, LockInv, NEW v \in Worker, ExpireCommit(v) \/ LogoutCommit(v)
    PROVE  LET s == req[v].sess IN
           /\ s \in Session /\ Stored(sess[s]) /\ Stored(sess'[s]) /\ sess'[s].revoked # Never
           /\ \A t \in Session \ {s} : sess'[t] = sess[t]
           /\ EntitledNow' = EntitledNow \ {s}
           /\ CodesOf' = CodesOf /\ LiveOf' \in Promise!Fewer(LiveOf)
<1> DEFINE s == req[v].sess
<1>1. /\ s \in Session /\ Stored(sess[s]) /\ req[v].at # Never
      /\ sess' = [sess EXCEPT ![s].revoked = req[v].at] /\ RevokeHeld(v) /\ account' = account
  BY DEF ExpireCommit, LogoutCommit, At, TypeInv, TypeOK, RequestReferences, SessionOps, Request,
         Never, settingsVars
<1>2. /\ Stored(sess'[s]) /\ sess'[s].revoked # Never
      /\ \A t \in Session \ {s} : sess'[t] = sess[t]
  BY SMTT(30), <1>1 DEF TypeInv, TypeOK, SessRow, Stored
<1>3. EntitledNow' = EntitledNow \ {s}
  BY <1>1, <1>2 DEF EntitledNow, Entitled, MfaIsSatisfied
<1>4. CodesOf' = CodesOf /\ LiveOf' \in Promise!Fewer(LiveOf)
  BY <1>1, HeldCodesKept, SameCodes, HeldAreRevoked, FewerLive DEF LiveRemain
<1>5. QED
  BY <1>1, <1>2, <1>3, <1>4

LEMMA ExpirePromised ==
    ASSUME TypeInv, LockInv, NEW v \in Worker, ExpireCommit(v)
    PROVE  Promise!Next
<1> DEFINE s == req[v].sess
<1>1. /\ s \in Session /\ Stored(sess[s]) /\ Stored(sess'[s]) /\ sess'[s].revoked # Never
      /\ \A t \in Session \ {s} : sess'[t] = sess[t]
      /\ EntitledNow' = EntitledNow \ {s}
      /\ CodesOf' = CodesOf /\ LiveOf' \in Promise!Fewer(LiveOf)
  BY OneRevoked
<1> HIDE DEF s
<1>2. ended' = ended /\ \A t \in ended : sess[t].revoked # Never
  BY DEF ExpireCommit, LockInv, EndedAreRevoked
<1>3. PortalOf' = [PortalOf EXCEPT ![s] = IF @ = "open" THEN "lapsed" ELSE @]
  BY <1>1, <1>2 DEF PortalOf
<1>4. Promise!Lapse(s)
  BY <1>1, <1>3, KnownAreStored DEF Promise!Lapse
<1>5. QED
  BY <1>1, <1>4 DEF Promise!Next

LEMMA LogoutPromised ==
    ASSUME TypeInv, LockInv, NEW v \in Worker, LogoutCommit(v)
    PROVE  Promise!Next
<1> DEFINE s == req[v].sess
<1>1. /\ s \in Session /\ Stored(sess[s]) /\ Stored(sess'[s]) /\ sess'[s].revoked # Never
      /\ \A t \in Session \ {s} : sess'[t] = sess[t]
      /\ EntitledNow' = EntitledNow \ {s}
      /\ CodesOf' = CodesOf /\ LiveOf' \in Promise!Fewer(LiveOf)
  BY OneRevoked
<1>2. \A a \in AppSession : LiveApp(a)' => app'[a].parent # s
  <2>1. Secured(v) /\ RevokeHeld(v)
    BY DEF LogoutCommit, LockInv
  <2>2. \A a \in AppSession : LiveApp(a) /\ app[a].parent = s => lock[a] = v
    BY <2>1 DEF LogoutCommit, At, Secured
  <2>3. QED
    BY <2>1, <2>2, HeldAreRevoked
<1>3. ended' = ended \cup {s}
  BY DEF LogoutCommit
<1> HIDE DEF s
<1>4. LiveOf'[s] = {}
  BY <1>1, <1>2, ViewsNext
<1>5. PortalOf' = [t \in Session |-> IF t \in {s} THEN "ended" ELSE PortalOf[t]]
  BY <1>1, <1>3 DEF PortalOf
<1>6. Promise!Logout(s)
  BY <1>1, <1>4, <1>5, KnownAreStored DEF Promise!Logout, Promise!End
<1>7. QED
  BY <1>1, <1>6 DEF Promise!Next

LEMMA AdminPromised ==
    ASSUME TypeInv, LockInv, NEW v \in Worker, AdminCommit(v)
    PROVE  Promise!Next
<1> DEFINE S == {s \in Session : lock[s] = v}
<1>1. /\ req[v].op \in AdminOps /\ req[v].step = "commit" /\ RevokeHeld(v)
      /\ ended' = ended \cup S /\ req[v].at # Never /\ Secured(v)
      /\ \A s \in Session :
            sess'[s] = IF s \in S THEN [sess[s] EXCEPT !.revoked = req[v].at] ELSE sess[s]
  BY DEF AdminCommit, LockInv, TypeInv, TypeOK, Request, Never
<1>2. \A s \in S : Stored(sess[s]) /\ Stored(sess'[s]) /\ sess'[s].revoked # Never
  BY ZenonT(40), <1>1 DEF Secured, TypeInv, TypeOK, SessRow, Stored
<1>3. \A a \in AppSession : LiveApp(a)' => app'[a].parent \notin S
  BY <1>1, HeldAreRevoked DEF Secured
<1>4. LiveOf' \in Promise!Fewer(LiveOf) /\ \A s \in S : LiveOf'[s] = {}
  BY <1>1, <1>3, HeldAreRevoked, FewerLive, ViewsNext DEF LiveRemain
<1>5. CodesOf' = CodesOf
  BY <1>1, HeldCodesKept, SameCodes
<1>6. PortalOf' = [s \in Session |-> IF s \in S THEN "ended" ELSE PortalOf[s]]
  <2> HIDE DEF S
  <2>1. QED
    BY <1>1, <1>2 DEF PortalOf
<1>7. EntitledNow' \in SUBSET (Promise!Open \ S)
  <2>1. ASSUME NEW s \in Session, Stored(sess'[s]), sess'[s].revoked = Never
        PROVE  s \in Promise!Open \ S
    BY <1>1, <1>2, <2>1, KnownAreStored DEF LockInv, EndedAreRevoked
  <2>2. QED
    BY <2>1 DEF EntitledNow, Entitled
<1>8. S \in SUBSET Session /\ S \subseteq Promise!Known
  BY <1>2, KnownAreStored
<1> HIDE DEF S
<1>9. Promise!Administer(S)
  BY <1>4, <1>5, <1>6, <1>7, <1>8 DEF Promise!Administer, Promise!End
<1>10. QED
  BY <1>8, <1>9 DEF Promise!Next

LEMMA AuthorizePromised ==
    ASSUME TypeInv, HeldInv, NEW v \in Worker, NEW c \in Code, AuthorizeCommit(v, c)
    PROVE  Promise!Next
<1> DEFINE s == req[v].sess
           kept == WithoutCodes(code, req[v].doomed)
<1>1. /\ s \in Session /\ Stored(sess[s]) /\ ~Stored(code[c])
      /\ UNCHANGED <<account, sess, ended>>
  BY DEF AuthorizeCommit, At, TypeInv, RequestReferences, SessionOps, Stored, settingsVars
<1>2. /\ \A d \in Code \ {c} : code'[d] = kept[d]
      /\ Stored(code'[c]) /\ code'[c].parent = s
  BY DEF AuthorizeCommit, WithoutCodes, Stored
<1>3. \A d \in Code : Stored(kept[d]) => kept[d] = code[d]
  BY DoomedCodes
<1>4. LiveOf' \in Promise!Fewer(LiveOf)
  BY AppsDeletedRemain, FewerLive DEF AuthorizeCommit
<1> HIDE DEF s, kept
<1>5. \A t \in Session : c \notin CodesOf[t]
  BY <1>1, Views
<1>6. CodesOf' \in Promise!Fewer(Promise!With(CodesOf, s, c)) /\ c \in CodesOf'[s]
  BY <1>1, <1>2, <1>3, Views, ViewsNext DEF Promise!Fewer, Promise!With
<1>7. PortalOf' = PortalOf /\ EntitledNow' = EntitledNow
  BY <1>1, SamePortal
<1>8. Promise!Authorize(s, c)
  BY <1>1, <1>4, <1>5, <1>6, <1>7, KnownAreStored DEF Promise!Authorize
<1>9. QED
  BY <1>1, <1>8 DEF Promise!Next

LEMMA ExchangeCodesRemain ==
    ASSUME TypeInv, HeldInv, NEW v \in Worker,
           ExchangeReject(v) \/ \E a \in AppSession : ExchangeGrant(v, a)
    PROVE  CodesRemain
<1> DEFINE kept == WithoutCodes(code, req[v].doomed)
<1>1. \A c \in Code : Stored(kept[c]) => kept[c] = code[c]
  BY DoomedCodes
<1>2. \A c \in Code : code'[c].status = kept[c].status /\ code'[c].parent = kept[c].parent
  BY ExchangeCodes
<1> HIDE DEF kept
<1>3. QED
  BY <1>1, <1>2 DEF CodesRemain, Stored

(* The heart of it: what was decided still holds when it is committed.     *)
LEMMA GrantPromised ==
    ASSUME TypeInv, HeldInv, LockInv, GrantInv, NEW v \in Worker, NEW a \in AppSession,
           ExchangeGrant(v, a)
    PROVE  Promise!Next
<1> DEFINE s == req[v].sess
           c == req[v].code
           rest == WithoutApps(app, req[v].doomed)
<1>1. /\ req[v].op = "exchange" /\ req[v].verdict = "grant" /\ ~Stored(app[a])
      /\ UNCHANGED <<account, sess, ended>>
  BY DEF ExchangeGrant, At, Stored, settingsVars
<1>2. s \in Session /\ Stored(sess[s]) /\ c \in Code
  BY <1>1 DEF TypeInv, RequestReferences, SessionOps
<1>3. Stored(code[c]) /\ code[c].parent = s /\ Entitled(s)
  <2>1. Granted(v) /\ Backed(v) /\ Secured(v)
    BY <1>1 DEF GrantInv, Backed, LockInv
  <2>2. QED
    BY <1>1, <2>1 DEF Granted, Backed, Secured, Entitled
<1>4. /\ \A b \in AppSession \ {a} : app'[b] = rest[b]
      /\ LiveApp(a)' /\ app'[a].parent = s
  BY DEF ExchangeGrant, WithoutApps, LiveApp, Stored
<1>5. \A b \in AppSession : Stored(rest[b]) => rest[b] = app[b]
  BY DeletionType DEF TypeInv
<1>6. CodesOf' \in Promise!Fewer(CodesOf)
  BY ExchangeCodesRemain, FewerCodes
<1> HIDE DEF s, c, rest
<1>7. s \in EntitledNow /\ c \in CodesOf[s] /\ \A t \in Session : a \notin LiveOf[t]
  BY <1>1, <1>2, <1>3, Views DEF EntitledNow, LiveApp
<1>8. LiveOf' \in Promise!Fewer(Promise!With(LiveOf, s, a)) /\ a \in LiveOf'[s]
  BY <1>2, <1>4, <1>5, Views, ViewsNext DEF Promise!Fewer, Promise!With, LiveApp
<1>9. PortalOf' = PortalOf /\ EntitledNow' = EntitledNow
  BY <1>1, SamePortal
<1>10. Promise!Exchange(s, c, a)
  BY <1>6, <1>7, <1>8, <1>9 DEF Promise!Exchange
<1>11. QED
  BY <1>2, <1>10 DEF Promise!Next

LEMMA RevokedRemain ==
    ASSUME TypeInv, NEW a \in AppSession, NEW t, app' = [app EXCEPT ![a].revoked = t],
           t # Never
    PROVE  LiveRemain
<1>1. app \in [AppSession -> AppRow]
  BY DEF TypeInv, TypeOK
<1>2. app'[a].revoked = t /\ \A b \in AppSession \ {a} : app'[b] = app[b]
  BY <1>1 DEF AppRow
<1>3. QED
  BY <1>2 DEF LiveRemain, LiveApp

LEMMA SameCodesRemain == ASSUME UNCHANGED code PROVE CodesRemain
  BY DEF CodesRemain

-----------------------------------------------------------------------------
LEMMA WorkerPromised ==
    ASSUME TypeInv, HeldInv, LockInv, GrantInv, NEW v \in Worker,
           SignIn(v) \/ PortalRequest(v) \/ RadarRequest(v) \/ AdminRequest(v) \/ Rollback(v)
    PROVE  [Promise!Next]_(Promise!handoffVars)
<1>0. CASE UNCHANGED <<account, sess, code, app, ended>>
  BY SMTT(30), <1>0, StutterStep
<1>1. CASE SignIn(v)
  BY ZenonT(40), <1>0, <1>1, LoginPromised DEF SignIn, LoginRead, settingsVars
<1>2. CASE PortalRequest(v)
  <2>1. CASE ContextRefresh(v)
    BY <2>1, RefreshPromised
  <2>2. CASE ExpireCommit(v) \/ LogoutCommit(v) \/ \E c \in Code : AuthorizeCommit(v, c)
    BY <2>2, ExpirePromised, LogoutPromised, AuthorizePromised
  <2>3. QED
    BY ZenonT(40), <1>0, <1>2, <2>1, <2>2
    DEF PortalRequest, ContextRead, LogoutStart, LogoutLock, RevokeCodes, RevokeApps,
        AuthorizeCheck, AuthorizeDecide, settingsVars
<1>3. CASE RadarRequest(v)
  <2>1. CASE ExchangeReject(v)
    BY Zenon, <2>1, ExchangeCodesRemain, AppsDeletedRemain, SweepStep
     DEF ExchangeReject, settingsVars
  <2>2. CASE \E a \in AppSession : ExchangeGrant(v, a)
    BY <2>2, GrantPromised
  <2>3. CASE IntrospectReject(v)
    <3>1. req[v].app \in AppSession /\ req[v].at # Never
      BY <2>3 DEF IntrospectReject, At, TypeInv, TypeOK, RequestReferences, Request, Never
    <3>2. LiveRemain
      BY <2>3, <3>1, RevokedRemain DEF IntrospectReject
    <3>3. QED
      BY <2>3, <3>2, SameCodesRemain, SweepStep DEF IntrospectReject, settingsVars
  <2>4. CASE IntrospectActive(v)
    BY <2>4, RefreshPromised
  <2>5. QED
    BY ZenonT(40), <1>0, <1>3, <2>1, <2>2, <2>3, <2>4
    DEF RadarRequest, ExchangeRead, ExchangeDecide, IntrospectRead, IntrospectDecide, settingsVars
<1>4. CASE AdminRequest(v)
  BY Zenon, <1>0, <1>4, AdminPromised
  DEF AdminRequest, AdminUpdate, AdminReset, AdminSessions, settingsVars
<1>5. CASE Rollback(v)
  BY <1>0, <1>5 DEF Rollback, settingsVars
<1>6. QED
  BY <1>1, <1>2, <1>3, <1>4, <1>5

LEMMA EnvironmentPromised ==
    ASSUME TypeInv, Environment
    PROVE  [Promise!Next]_(Promise!handoffVars)
<1>1. ASSUME NEW a \in AppSession, RevokeApplicationSession(a) PROVE Promise!Next
  <2>1. now # Never
    BY DEF TypeInv, TypeOK, Never
  <2>2. LiveRemain
    BY <1>1, <2>1, RevokedRemain DEF RevokeApplicationSession
  <2>3. QED
    BY <1>1, <2>2, SameCodesRemain, SweepStep DEF RevokeApplicationSession, settingsVars
<1>2. CASE Cleanup
  <2>1. PICK codes, apps : code' = WithoutCodes(code, codes) /\ app' = WithoutApps(app, apps)
    BY <1>2 DEF Cleanup
  <2>2. CodesRemain
    BY <2>1, DeletionType DEF TypeInv, CodesRemain
  <2>3. QED
    BY <1>2, <2>1, <2>2, AppsDeletedRemain, SweepStep DEF Cleanup, settingsVars
<1>3. CASE UpdateRolePermissions \/ UpdateAuthenticationSettings \/ Tick
  BY <1>3, StutterStep
  DEF UpdateRolePermissions, UpdateAuthenticationSettings, Tick, settingsVars
<1>4. QED
  BY <1>1, <1>2, <1>3 DEF Environment

LEMMA PromisedStep ==
    TypeInv /\ HeldInv /\ LockInv /\ GrantInv /\ [Next]_vars
        => [Promise!Next]_(Promise!handoffVars)
<1> SUFFICES ASSUME TypeInv, HeldInv, LockInv, GrantInv, [Next]_vars
             PROVE  [Promise!Next]_(Promise!handoffVars)
  OBVIOUS
<1>1. CASE UNCHANGED vars
  BY <1>1, StutterStep DEF vars
<1>2. QED
  BY <1>1, WorkerPromised, EnvironmentPromised, NextCases

(* Whatever requests overlap and wherever they wait, the tables only ever  *)
(* go through the steps of Handoff: an application session begins under a  *)
(* portal session that is open and entitled as it commits, by a code       *)
(* issued for that session, and none outlives a logout or the end an       *)
(* administrator puts to it.                                               *)
THEOREM HandoffImplements == Spec => ImplementsHandoff
<1> DEFINE All == TypeInv /\ HeldInv /\ LockInv /\ ReplayInv /\ GrantInv
<1>1. Init => All
  BY TypeInit, HeldInit, LockInit, ReplayInit DEF Init, GrantInv, Backed, NoRequest
<1>2. All /\ [Next]_vars => All'
  BY TypeStep, WrittenStep, LockInvStep, ReplayStep, GrantInvStep
<1>3. Init => Promise!Init
  BY DEF Init, Promise!Init, PortalOf, EntitledNow, CodesOf, LiveOf, LiveApp, NoSess, NoCode,
         NoApp, Stored
<1>4. All /\ [Next]_vars => [Promise!Next]_(Promise!handoffVars)
  BY PromisedStep
<1>5. QED
  BY <1>1, <1>2, <1>3, <1>4, PTL DEF Spec, ImplementsHandoff, Promise!Spec

=============================================================================
