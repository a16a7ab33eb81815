------------------------------ MODULE AppHandoff ------------------------------
(***************************************************************************)
(* The Portal-to-Radar handoff of the backend: portal sessions, one-time   *)
(* authorization codes and application sessions, as the database rows that *)
(* concurrent requests read, lock and write.                               *)
(*                                                                         *)
(* A request runs in a thread of its own with a database transaction of    *)
(* its own (READ COMMITTED, autoflush off).  Its steps are the points at   *)
(* which other transactions can be seen or waited for:                     *)
(*                                                                         *)
(*   - an unlocked SELECT copies a committed row into the request's ORM    *)
(*     session (orm); the ORM keeps the attributes of a row it has already *)
(*     loaded, so a later SELECT ... FOR UPDATE of that row waits for its  *)
(*     lock and shows whether it still exists, but its columns stay as     *)
(*     they were first loaded;                                             *)
(*   - SELECT ... FOR UPDATE, UPDATE and DELETE take row locks, held until *)
(*     the transaction ends; UPDATE and DELETE look at committed rows;     *)
(*   - COMMIT makes the writes visible and releases the locks; a rollback  *)
(*     (lost connection, process restart, deadlock victim) drops them.     *)
(*                                                                         *)
(* The locks one handler takes with no read of its own between them are    *)
(* taken in one step: nothing another transaction can see happens between  *)
(* them.  The order in which they are taken matters only to deadlock.      *)
(***************************************************************************)
EXTENDS Integers, FiniteSets

CONSTANTS
    User, Session, Code, AppSession,  \* the identities rows may take
    Radar,           \* the row of the one application, opportunity-radar
    Worker,          \* threads a server may have
    None,            \* no worker, no target
    Kinds,           \* the requests clients send in this instance
    Payload,         \* the account rows an administrator may submit
    IdleChoices,     \* values of the idle_timeout_minutes setting
    PortalAbsolute,  \* absolute_timeout_minutes
    CodeTtl,         \* application_auth_code_ttl_seconds
    AppIdle,         \* application_session_idle_seconds
    AppAbsolute,     \* application_session_absolute_max_seconds
    Retention,       \* application_auth_cleanup_retention_seconds
    Batch,           \* rows one cleanup deletes from a table
    MaxTime          \* bound on the clock

AllKinds == {"login", "visit", "authorize", "exchange", "introspect", "revoke",
             "logout", "admin", "roles", "settings", "cleanup", "rollback"}

ASSUME DurationsArePositive ==
    /\ IdleChoices \subseteq Nat \ {0} /\ IdleChoices # {}
    /\ PortalAbsolute \in Nat \ {0} /\ CodeTtl \in Nat \ {0}
    /\ AppIdle \in Nat \ {0} /\ AppAbsolute \in Nat \ {0}
    /\ Retention \in Nat /\ Batch \in Nat \ {0} /\ MaxTime \in Nat

ASSUME IdentitiesAreDistinct ==
    /\ Session \cap Code = {} /\ Session \cap AppSession = {}
    /\ Code \cap AppSession = {}
    /\ User \cap (Session \cup Code \cup AppSession) = {}
    /\ Radar \notin User \cup Session \cup Code \cup AppSession
    /\ None \notin Worker \cup User \cup Session \cup Code \cup AppSession

ASSUME ThreadsAreFinite == IsFiniteSet(Worker)

ASSUME KindsAreKnown == Kinds \subseteq AllKinds

VARIABLES
    pool,         \* the threads of this server, each with a connection
    now,          \* the clock every utcnow() reads
    account,      \* users and user_applications, per user
    launchable,   \* application enabled, open to the role, role may launch
    idleTimeout,  \* authentication_settings.idle_timeout_minutes
    sess,         \* table sessions
    code,         \* table application_authorization_codes
    app,          \* table application_sessions
    lock,         \* row locks: the worker that holds each row, or None
    req,          \* the request each worker is serving
    orm,          \* what each worker's ORM session has loaded
    ended         \* history: sessions ended by a logout or an administrator

settingsVars == <<account, launchable, idleTimeout>>
vars == <<pool, now, account, launchable, idleTimeout, sess, code, app, lock, req,
          orm, ended>>

-----------------------------------------------------------------------------
(* Rows.  A nullable timestamp column is a time or Never.                  *)

Never == -1
Stamp == Nat \cup {Never}
Status == {"absent", "stored", "deleted"}

AccountRow == [enabled : BOOLEAN, mfa : BOOLEAN, assigned : BOOLEAN]
ASSUME PayloadsAreRows == Payload \subseteq AccountRow

SessRow == [status : Status, user : User \cup {None}, mfa : BOOLEAN, seen : Nat,
            expires : Nat, absolute : Nat, revoked : Stamp]
CodeRow == [status : Status, parent : Session \cup {None}, expires : Nat,
            consumed : Stamp, revoked : Stamp]
AppRow == [status : Status, code : Code \cup {None},
           parent : Session \cup {None}, idle : Nat, absolute : Nat,
           revoked : Stamp]

NoAccount == [enabled |-> FALSE, mfa |-> FALSE, assigned |-> FALSE]
NoSess == [status |-> "absent", user |-> None, mfa |-> FALSE, seen |-> 0,
           expires |-> 0, absolute |-> 0, revoked |-> Never]
NoCode == [status |-> "absent", parent |-> None, expires |-> 0,
           consumed |-> Never, revoked |-> Never]
NoApp == [status |-> "absent", code |-> None, parent |-> None, idle |-> 0,
          absolute |-> 0, revoked |-> Never]

Stored(row) == row.status = "stored"

(* `stamp <= t` in SQL: a NULL column compares with nothing. *)
Reached(stamp, t) == stamp # Never /\ stamp <= t

Earlier(t, u) == IF t <= u THEN t ELSE u

(* Requests and what their ORM sessions hold. *)
Op == {"idle", "login", "visit", "authorize", "expire", "logout", "admin",
       "reset", "exchange", "introspect"}
AdminOps == {"admin", "reset"}
Step == {"start", "check", "decide", "lock", "sessions", "codes", "apps",
         "commit"}
Verdict == {"none", "reject", "deny", "burn", "grant", "active", "inactive"}

Request == [op : Op, step : Step, at : Nat, idle : Nat,
            user : User \cup {None}, sess : Session \cup {None},
            code : Code \cup {None}, app : AppSession \cup {None},
            proof : BOOLEAN, verdict : Verdict, want : AccountRow,
            doomed : SUBSET (Code \cup AppSession)]

NoRequest == [op |-> "idle", step |-> "start", at |-> 0, idle |-> 0,
              user |-> None, sess |-> None, code |-> None, app |-> None,
              proof |-> FALSE, verdict |-> "none", want |-> NoAccount,
              doomed |-> {}]

Loaded == [account : AccountRow, sess : SessRow, code : CodeRow, app : AppRow]
NothingLoaded == [account |-> NoAccount, sess |-> NoSess, code |-> NoCode,
                  app |-> NoApp]

-----------------------------------------------------------------------------
(* Row locks.                                                              *)

Row == User \cup Session \cup Code \cup AppSession \cup {Radar}

CanLock(w, rows) == \A r \in rows : lock[r] \in {None, w}
Taken(w, rows) == [r \in Row |-> IF r \in rows THEN w ELSE lock[r]]
Released(w) == [r \in Row |-> IF lock[r] = w THEN None ELSE lock[r]]

(* The inserted row's foreign key takes KEY SHARE on its parent session,   *)
(* which waits for a FOR UPDATE lock and not for that of a plain UPDATE.   *)
ParentForUpdate(s, w) ==
    /\ lock[s] \notin {None, w}
    /\ req[lock[s]].op \in {"exchange", "introspect", "logout"}

(* The request of w ends: it releases its locks and its ORM session. *)
Finish(w) ==
    /\ lock' = Released(w)
    /\ req' = [req EXCEPT ![w] = NoRequest]
    /\ orm' = [orm EXCEPT ![w] = NothingLoaded]

(* The codes and application sessions that the revoking UPDATEs of w have   *)
(* locked get their revoked_at.                                            *)
RevokeHeld(w) ==
    /\ code' = [c \in Code |->
            IF lock[c] = w THEN [code[c] EXCEPT !.revoked = req[w].at] ELSE code[c]]
    /\ app' = [a \in AppSession |->
            IF lock[a] = w THEN [app[a] EXCEPT !.revoked = req[w].at] ELSE app[a]]

Idle(w, kind) == req[w].op = "idle" /\ kind \in Kinds
At(w, op, step) == req[w].op = op /\ req[w].step = step

-----------------------------------------------------------------------------
(* The conditions handlers decide by.                                      *)

MfaIsSatisfied(acct, parent) == acct.mfa => parent.mfa

ParentIsActiveNoAbsolute(parent) ==                                 \* mutant
    parent.revoked = Never /\ parent.expires > now

ParentIsActive(parent) ==
    /\ parent.revoked = Never
    /\ parent.expires > now
    /\ parent.absolute > now

(* acct and parent may be stale copies; the assignment is always queried. *)
CanAuthorize(acct, parent, assigned) ==
    /\ acct.enabled
    /\ launchable
    /\ ParentIsActive(parent)
    /\ MfaIsSatisfied(acct, parent)
    /\ assigned

IdleEnd(absolute, t) == Earlier(absolute, t + AppIdle)
AbsoluteEndUnbounded(parent, t) == t + AppAbsolute                  \* mutant
AbsoluteEnd(parent, t) == Earlier(parent.absolute, t + AppAbsolute)

(* Rows a cleanup may delete, and one batch of them, oldest first.  The    *)
(* DELETE fixes its batch before it waits for the rows and does not look   *)
(* at their age again; here it chooses them when they are free, which is   *)
(* the same unless a row outlives the retention while it is waited for.    *)
PurgeableCodes ==
    {c \in Code : Stored(code[c]) /\ \/ code[c].expires <= now
                                     \/ Reached(code[c].consumed, now - Retention)
                                     \/ Reached(code[c].revoked, now - Retention)}

PurgeableAppsNoRetention ==                                         \* mutant
    {a \in AppSession : Stored(app[a]) /\ app[a].idle <= now}

PurgeableApps ==
    {a \in AppSession : Stored(app[a]) /\ \/ app[a].idle <= now - Retention
                                          \/ app[a].absolute <= now - Retention
                                          \/ Reached(app[a].revoked, now - Retention)}

CleanupBatch(codes, apps) ==
    /\ codes \subseteq PurgeableCodes /\ apps \subseteq PurgeableApps
    /\ Cardinality(codes) = Earlier(Batch, Cardinality(PurgeableCodes))
    /\ Cardinality(apps) = Earlier(Batch, Cardinality(PurgeableApps))
    /\ \A c \in codes, d \in PurgeableCodes \ codes : code[c].expires <= code[d].expires
    /\ \A a \in apps, b \in PurgeableApps \ apps : app[a].absolute <= app[b].absolute

WithoutCodes(table, rows) ==
    [c \in Code |-> IF c \in rows THEN [NoCode EXCEPT !.status = "deleted"] ELSE table[c]]
WithoutApps(table, rows) ==
    [a \in AppSession |-> IF a \in rows THEN [NoApp EXCEPT !.status = "deleted"] ELSE table[a]]

-----------------------------------------------------------------------------
(* Signing in.  The password and email code checks end in the insertion of *)
(* a portal session for the account as it was read; a user who must use    *)
(* MFA gets a session that has satisfied it.                               *)

LoginRead(w, u) ==
    /\ Idle(w, "login")
    /\ account[u].enabled
    /\ req' = [req EXCEPT ![w] = [NoRequest EXCEPT !.op = "login", !.step = "commit",
                                                   !.user = u]]
    /\ orm' = [orm EXCEPT ![w].account = account[u]]
    /\ UNCHANGED <<now, settingsVars, sess, code, app, lock, ended>>

LoginCommit(w, s) ==
    /\ At(w, "login", "commit")
    /\ sess[s].status = "absent"
    /\ CanLock(w, {req[w].user})
    /\ sess' = [sess EXCEPT ![s] =
            [status |-> "stored", user |-> req[w].user, mfa |-> orm[w].account.mfa,
             seen |-> now, expires |-> now + idleTimeout,
             absolute |-> now + PortalAbsolute, revoked |-> Never]]
    /\ Finish(w)
    /\ UNCHANGED <<now, settingsVars, code, app, ended>>

-----------------------------------------------------------------------------
(* The session context behind every authenticated request: an unlocked     *)
(* read of the session and its user, then either a refresh or the end of   *)
(* the session and of the application sessions under it.                   *)

ContextExpired(row, t) ==
    \/ row.seen + idleTimeout <= t
    \/ row.absolute <= t
    \/ row.expires <= t

ContextRead(w, s, kind) ==
    /\ kind \in {"visit", "authorize"} /\ Idle(w, kind)
    /\ Stored(sess[s]) /\ sess[s].revoked = Never
    /\ LET ends == ContextExpired(sess[s], now) \/ ~account[sess[s].user].enabled
       IN req' = [req EXCEPT ![w] =
            [NoRequest EXCEPT !.op = IF ends THEN "expire" ELSE kind,
                              !.step = IF ends THEN "codes" ELSE "start",
                              !.at = now, !.idle = idleTimeout, !.sess = s]]
    /\ orm' = [orm EXCEPT ![w].sess = sess[s]]
    /\ UNCHANGED <<now, settingsVars, sess, code, app, lock, ended>>

ContextRefreshWholeRow(w) ==                                        \* mutant
    LET r == req[w] IN
    /\ At(w, "visit", "start")
    /\ CanLock(w, {r.sess})
    /\ sess' = [sess EXCEPT ![r.sess] = [orm[w].sess EXCEPT !.expires = r.at + r.idle]]
    /\ Finish(w)
    /\ UNCHANGED <<now, settingsVars, code, app, ended>>

(* Only the two changed columns are written, over whatever the row holds   *)
(* by then; the commit expires the copy.                                   *)
ContextRefresh(w) ==
    LET r == req[w] IN
    /\ r.op \in {"visit", "authorize"} /\ r.step = "start"
    /\ CanLock(w, {r.sess})
    /\ sess' = [sess EXCEPT ![r.sess] = [@ EXCEPT !.seen = r.at,
                                                  !.expires = r.at + r.idle]]
    /\ IF r.op = "visit"
       THEN Finish(w)
       ELSE /\ req' = [req EXCEPT ![w].step = "check"]
            /\ orm' = [orm EXCEPT ![w] = NothingLoaded]
            /\ UNCHANGED lock
    /\ UNCHANGED <<now, settingsVars, code, app, ended>>

(* The UPDATE of the session itself is flushed last, by the commit. *)
ExpireCommit(w) ==
    LET r == req[w] IN
    /\ At(w, "expire", "commit")
    /\ CanLock(w, {r.sess})
    /\ sess' = [sess EXCEPT ![r.sess].revoked = r.at]
    /\ RevokeHeld(w)
    /\ Finish(w)
    /\ UNCHANGED <<now, settingsVars, ended>>

-----------------------------------------------------------------------------
(* Revoking what hangs under a session (logout, expiry) or under a user    *)
(* (administrator): one UPDATE of the codes, then one of the application   *)
(* sessions.  Each sees its rows and waits for them in one step: a row     *)
(* inserted while it waits is left as one inserted just after it would be. *)

TargetCodes(r) ==
    {c \in Code : /\ Stored(code[c]) /\ code[c].revoked = Never
                  /\ IF r.op \in AdminOps
                     THEN sess[code[c].parent].user = r.user
                     ELSE code[c].parent = r.sess /\ code[c].consumed = Never}

TargetApps(r) ==
    {a \in AppSession : /\ Stored(app[a]) /\ app[a].revoked = Never
                        /\ IF r.op \in AdminOps
                           THEN sess[app[a].parent].user = r.user
                           ELSE app[a].parent = r.sess}

RevokeCodes(w) ==
    /\ req[w].step = "codes"
    /\ CanLock(w, TargetCodes(req[w]))
    /\ lock' = Taken(w, TargetCodes(req[w]))
    /\ req' = [req EXCEPT ![w].step = "apps"]
    /\ UNCHANGED <<now, settingsVars, sess, code, app, orm, ended>>

RevokeApps(w) ==
    /\ req[w].step = "apps"
    /\ CanLock(w, TargetApps(req[w]))
    /\ lock' = Taken(w, TargetApps(req[w]))
    /\ req' = [req EXCEPT ![w].step = "commit"]
    /\ UNCHANGED <<now, settingsVars, sess, code, app, orm, ended>>

-----------------------------------------------------------------------------
(* Logging out.                                                            *)

LogoutStart(w, s) ==
    /\ Idle(w, "logout")
    /\ Stored(sess[s])
    /\ req' = [req EXCEPT ![w] = [NoRequest EXCEPT !.op = "logout", !.step = "lock",
                                                   !.sess = s]]
    /\ UNCHANGED <<now, settingsVars, sess, code, app, lock, orm, ended>>

LogoutUnlocked(w) ==                                                \* mutant
    /\ At(w, "logout", "lock")
    /\ sess[req[w].sess].revoked = Never
    /\ req' = [req EXCEPT ![w] = [@ EXCEPT !.step = "codes", !.at = now]]
    /\ UNCHANGED <<now, settingsVars, sess, code, app, lock, orm, ended>>

(* The authorize endpoint may have loaded the session already. *)
LogoutLock(w) ==
    LET s == req[w].sess
        row == IF Stored(orm[w].sess) THEN orm[w].sess ELSE sess[s] IN
    /\ At(w, "logout", "lock")
    /\ CanLock(w, {s})
    /\ IF row.revoked # Never
       THEN Finish(w)
       ELSE /\ lock' = Taken(w, {s})
            /\ req' = [req EXCEPT ![w] = [@ EXCEPT !.step = "codes", !.at = now]]
            /\ UNCHANGED orm
    /\ UNCHANGED <<now, settingsVars, sess, code, app, ended>>

LogoutCommit(w) ==
    LET r == req[w] IN
    /\ At(w, "logout", "commit")
    /\ sess' = [sess EXCEPT ![r.sess].revoked = r.at]
    /\ RevokeHeld(w)
    /\ ended' = ended \cup {r.sess}
    /\ Finish(w)
    /\ UNCHANGED <<now, settingsVars>>

-----------------------------------------------------------------------------
(* GET /api/app-auth/authorize, after the context has been refreshed and   *)
(* committed.  The user is reloaded to see whether MFA is satisfied, and   *)
(* for a user who must use it the session too: these are the copies the    *)
(* decision uses once the application row is locked.  A session without    *)
(* the required MFA is logged out instead.                                 *)

AuthorizeCheck(w) ==
    LET s == req[w].sess
        acct == account[sess[s].user] IN
    /\ At(w, "authorize", "check")
    /\ orm' = [orm EXCEPT ![w] =
            [NothingLoaded EXCEPT !.account = acct,
                                  !.sess = IF acct.mfa THEN sess[s] ELSE NoSess]]
    /\ req' = IF MfaIsSatisfied(acct, sess[s])
              THEN [req EXCEPT ![w].step = "decide"]
              ELSE [req EXCEPT ![w] = [@ EXCEPT !.op = "logout", !.step = "lock"]]
    /\ UNCHANGED <<now, settingsVars, sess, code, app, lock, ended>>

(* A denial writes nothing but audit and releases the application row. *)
AuthorizeDecide(w) ==
    LET s == req[w].sess
        parent == IF Stored(orm[w].sess) THEN orm[w].sess ELSE sess[s]
        allowed == CanAuthorize(orm[w].account, parent, account[sess[s].user].assigned)
    IN
    /\ At(w, "authorize", "decide")
    /\ CanLock(w, {Radar})
    /\ \/ ~allowed /\ Finish(w)
       \/ /\ allowed
          /\ \E codes \in SUBSET PurgeableCodes, apps \in SUBSET PurgeableApps :
                /\ CleanupBatch(codes, apps)
                /\ CanLock(w, codes \cup apps)
                /\ lock' = Taken(w, codes \cup apps \cup {Radar})
                /\ req' = [req EXCEPT ![w] = [@ EXCEPT !.step = "commit", !.at = now,
                                                           !.doomed = codes \cup apps]]
          /\ UNCHANGED orm
    /\ UNCHANGED <<now, settingsVars, sess, code, app, ended>>

AuthorizeCommit(w, c) ==
    LET r == req[w] IN
    /\ At(w, "authorize", "commit")
    /\ code[c].status = "absent"
    /\ ~ParentForUpdate(r.sess, w)
    /\ code' = [WithoutCodes(code, r.doomed) EXCEPT ![c] =
            [status |-> "stored", parent |-> r.sess, expires |-> r.at + CodeTtl,
             consumed |-> Never, revoked |-> Never]]
    /\ app' = WithoutApps(app, r.doomed)
    /\ Finish(w)
    /\ UNCHANGED <<now, settingsVars, sess, ended>>

-----------------------------------------------------------------------------
(* POST /api/app-auth/exchange.  proof: the verifier and the redirect URI  *)
(* presented are those of the code's challenge and callback.               *)

ExchangeRead(w, c, proof) ==
    /\ Idle(w, "exchange")
    /\ Stored(code[c])
    /\ \E codes \in SUBSET PurgeableCodes, apps \in SUBSET PurgeableApps :
          /\ CleanupBatch(codes, apps)
          /\ CanLock(w, codes \cup apps)
          /\ lock' = Taken(w, codes \cup apps)
          /\ req' = [req EXCEPT ![w] =
                [NoRequest EXCEPT !.op = "exchange", !.at = now, !.code = c,
                                  !.sess = code[c].parent, !.proof = proof,
                                  !.doomed = codes \cup apps,
                                  !.step = IF c \in codes THEN "commit" ELSE "decide",
                                  !.verdict = IF c \in codes THEN "reject" ELSE "none"]]
    /\ orm' = [orm EXCEPT ![w].code = code[c]]
    /\ UNCHANGED <<now, settingsVars, sess, code, app, ended>>

CodeIsUsableTwice(w) ==                                             \* mutant
    /\ Stored(code[req[w].code])
    /\ orm[w].code.revoked = Never
    /\ orm[w].code.expires > req[w].at

(* Line 171: the row's existence is fresh, its columns are the copy's, and *)
(* the time is the one taken before the locks were waited for.             *)
CodeIsUsable(w) ==
    LET copy == orm[w].code IN
    /\ Stored(code[req[w].code])
    /\ copy.consumed = Never
    /\ copy.revoked = Never
    /\ copy.expires > req[w].at

ExchangeVerdict(w) ==
    LET r == req[w]
        parent == sess[r.sess]
        acct == account[parent.user] IN
    IF ~CodeIsUsable(w) \/ ~r.proof THEN "reject"
    ELSE IF ~CanAuthorize(acct, parent, acct.assigned) THEN "deny"
    ELSE IF IdleEnd(AbsoluteEnd(parent, r.at), r.at) <= r.at THEN "burn"
    ELSE "grant"

ExchangeDecideNoUserLock(w) ==                                      \* mutant
    LET r == req[w]
        rows == {r.sess, r.code, Radar} IN
    /\ At(w, "exchange", "decide")
    /\ CanLock(w, rows)
    /\ lock' = Taken(w, rows)
    /\ req' = [req EXCEPT ![w] = [@ EXCEPT !.step = "commit",
                                                !.verdict = ExchangeVerdict(w)]]
    /\ UNCHANGED <<now, settingsVars, sess, code, app, orm, ended>>

(* The locks: parent and code, then the user and the application unless    *)
(* the code was rejected before.                                           *)
ExchangeDecide(w) ==
    LET r == req[w]
        verdict == ExchangeVerdict(w)
        rows == {r.sess, r.code} \cup IF verdict = "reject" THEN {}
                                      ELSE {sess[r.sess].user, Radar} IN
    /\ At(w, "exchange", "decide")
    /\ CanLock(w, rows)
    /\ lock' = Taken(w, rows)
    /\ req' = [req EXCEPT ![w] = [@ EXCEPT !.step = "commit", !.verdict = verdict]]
    /\ UNCHANGED <<now, settingsVars, sess, code, app, orm, ended>>

(* A rejection commits too: it keeps the cleanup, the revocation of a      *)
(* denied code and the consumption of a burnt one.                         *)
ExchangeReject(w) ==
    LET r == req[w]
        kept == WithoutCodes(code, r.doomed) IN
    /\ At(w, "exchange", "commit")
    /\ r.verdict # "grant"
    /\ code' = [kept EXCEPT ![r.code] =
            [kept[r.code] EXCEPT
                !.revoked = IF r.verdict = "deny" THEN r.at ELSE kept[r.code].revoked,
                !.consumed = IF r.verdict = "burn" THEN r.at ELSE kept[r.code].consumed]]
    /\ app' = WithoutApps(app, r.doomed)
    /\ Finish(w)
    /\ UNCHANGED <<now, settingsVars, sess, ended>>

ExchangeGrant(w, a) ==
    LET r == req[w]
        absolute == AbsoluteEnd(sess[r.sess], r.at) IN
    /\ At(w, "exchange", "commit")
    /\ r.verdict = "grant"
    /\ app[a].status = "absent"
    /\ code' = [WithoutCodes(code, r.doomed) EXCEPT ![r.code].consumed = r.at]
    /\ app' = [WithoutApps(app, r.doomed) EXCEPT ![a] =
            [status |-> "stored", code |-> r.code, parent |-> r.sess,
             idle |-> IdleEnd(absolute, r.at), absolute |-> absolute, revoked |-> Never]]
    /\ Finish(w)
    /\ UNCHANGED <<now, settingsVars, sess, ended>>

-----------------------------------------------------------------------------
(* POST /api/app-auth/introspect.                                          *)

IntrospectRead(w, a) ==
    /\ Idle(w, "introspect")
    /\ Stored(app[a])
    /\ req' = [req EXCEPT ![w] =
            [NoRequest EXCEPT !.op = "introspect", !.step = "decide", !.at = now,
                              !.app = a, !.sess = app[a].parent]]
    /\ orm' = [orm EXCEPT ![w].app = app[a]]
    /\ UNCHANGED <<now, settingsVars, sess, code, app, lock, ended>>

(* The copy's columns again, with the parent, the user and the assignment  *)
(* as they are now.                                                        *)
AppIsActive(w) ==
    LET r == req[w]
        copy == orm[w].app
        acct == account[sess[r.sess].user] IN
    /\ copy.idle > r.at
    /\ copy.absolute > r.at
    /\ CanAuthorize(acct, sess[r.sess], acct.assigned)

IntrospectDecideNoParentLock(w) ==                                  \* mutant
    LET r == req[w] IN
    /\ At(w, "introspect", "decide")
    /\ CanLock(w, {r.app}) /\ Stored(app[r.app])
    /\ lock' = Taken(w, {r.app})
    /\ req' = [req EXCEPT ![w].step = "commit",
                          ![w].verdict = IF AppIsActive(w) THEN "active" ELSE "inactive"]
    /\ UNCHANGED <<now, settingsVars, sess, code, app, orm, ended>>

IntrospectDecide(w) ==
    LET r == req[w] IN
    /\ At(w, "introspect", "decide")
    /\ CanLock(w, {r.sess, r.app})
    /\ IF ~Stored(app[r.app]) \/ orm[w].app.revoked # Never
       THEN Finish(w)
       ELSE /\ lock' = Taken(w, {r.sess, r.app})
            /\ req' = [req EXCEPT ![w] =
                    [@ EXCEPT !.step = "commit", !.idle = idleTimeout,
                              !.verdict = IF AppIsActive(w) THEN "active" ELSE "inactive"]]
            /\ UNCHANGED orm
    /\ UNCHANGED <<now, settingsVars, sess, code, app, ended>>

IntrospectReject(w) ==
    LET r == req[w] IN
    /\ At(w, "introspect", "commit")
    /\ r.verdict = "inactive"
    /\ app' = [app EXCEPT ![r.app].revoked = r.at]
    /\ Finish(w)
    /\ UNCHANGED <<now, settingsVars, sess, code, ended>>

(* Activity of the application keeps its session and the portal session    *)
(* behind it alive, each up to its absolute end.                           *)
IntrospectActive(w) ==
    LET r == req[w] IN
    /\ At(w, "introspect", "commit")
    /\ r.verdict = "active"
    /\ app' = [app EXCEPT ![r.app].idle = IdleEnd(app[r.app].absolute, r.at)]
    /\ sess' = [sess EXCEPT ![r.sess] =
            [@ EXCEPT !.seen = r.at, !.expires = Earlier(sess[r.sess].absolute, r.at + r.idle)]]
    /\ Finish(w)
    /\ UNCHANGED <<now, settingsVars, code, ended>>

(* POST /api/app-auth/revoke: one locked read, one write. *)
RevokeApplicationSession(a) ==
    /\ "revoke" \in Kinds
    /\ Stored(app[a]) /\ app[a].revoked = Never
    /\ lock[a] = None
    /\ app' = [app EXCEPT ![a].revoked = now]
    /\ UNCHANGED <<now, settingsVars, sess, code, lock, req, orm, ended>>

-----------------------------------------------------------------------------
(* An administrator edits an account.  Disabling it or changing what MFA   *)
(* it needs ends every session of the user; otherwise losing the           *)
(* application ends its codes and application sessions.  The account row   *)
(* itself is flushed by the commit.                                        *)

EndsSessionsIfDisabled(acct, want) == acct.enabled /\ ~want.enabled  \* mutant

EndsSessions(acct, want) ==
    \/ acct.enabled /\ ~want.enabled
    \/ acct.mfa # want.mfa

AdminUpdate(w, u, want) ==
    LET acct == account[u]
        first == IF EndsSessions(acct, want) THEN "sessions"
                 ELSE IF acct.assigned /\ ~want.assigned THEN "codes" ELSE "commit" IN
    /\ Idle(w, "admin")
    /\ req' = [req EXCEPT ![w] = [NoRequest EXCEPT !.op = "admin", !.step = first,
                                  !.at = now, !.user = u, !.want = want]]
    /\ orm' = [orm EXCEPT ![w].account = acct]
    /\ UNCHANGED <<now, settingsVars, sess, code, app, lock, ended>>

(* Resetting a password or MFA ends every session and leaves the rest. *)
AdminReset(w, u) ==
    /\ Idle(w, "admin")
    /\ req' = [req EXCEPT ![w] = [NoRequest EXCEPT !.op = "reset", !.step = "sessions",
                                  !.user = u]]
    /\ UNCHANGED <<now, settingsVars, sess, code, app, lock, orm, ended>>

TargetSessions(u) ==
    {s \in Session : Stored(sess[s]) /\ sess[s].user = u /\ sess[s].revoked = Never}

AdminSessions(w) ==
    LET rows == TargetSessions(req[w].user) IN
    /\ req[w].op \in AdminOps /\ req[w].step = "sessions"
    /\ CanLock(w, rows)
    /\ lock' = Taken(w, rows)
    /\ req' = [req EXCEPT ![w] = [@ EXCEPT !.step = "codes", !.at = now]]
    /\ UNCHANGED <<now, settingsVars, sess, code, app, orm, ended>>

(* Requests do not overlap. *)
Alone == \A v, w \in pool : v = w

(* Assignments are deleted and inserted anew.  An edit that overlaps meets *)
(* the row it inserts (its own INSERT then fails, which is a Rollback), or *)
(* the DELETE of one that takes the assignment away does not see the row   *)
(* the other has put in the place of the one that was there, and it stays. *)
(* The two rows are not told apart here, so with several threads a row     *)
(* that is there at the commit may always stay.                            *)
AssignedAfter(current, want) == IF want \/ Alone THEN {want} ELSE {want, current}

(* Only columns that differ from the loaded account are written. *)
Merged(current, loaded, want) ==
    {[enabled |-> IF want.enabled # loaded.enabled THEN want.enabled ELSE current.enabled,
      mfa |-> IF want.mfa # loaded.mfa THEN want.mfa ELSE current.mfa,
      assigned |-> assigned] : assigned \in AssignedAfter(current.assigned, want.assigned)}

(* What waits for whoever has the account locked: its UPDATE, and the       *)
(* foreign key of an assignment that is inserted.  Resetting MFA, and      *)
(* taking the assignment away while the columns stay, wait for nobody.     *)
TouchesAccount(loaded, want) ==
    want.assigned \/ want.enabled # loaded.enabled \/ want.mfa # loaded.mfa

AdminCommit(w) ==
    LET r == req[w]
        locked == {s \in Session : lock[s] = w} IN
    /\ r.op \in AdminOps /\ r.step = "commit"
    /\ r.op = "admin" /\ TouchesAccount(orm[w].account, r.want) => CanLock(w, {r.user})
    /\ account' \in IF r.op = "reset" THEN {account}
                    ELSE {[account EXCEPT ![r.user] = row] :
                            row \in Merged(account[r.user], orm[w].account, r.want)}
    /\ sess' = [s \in Session |->
            IF s \in locked THEN [sess[s] EXCEPT !.revoked = r.at] ELSE sess[s]]
    /\ RevokeHeld(w)
    /\ ended' = ended \cup locked
    /\ Finish(w)
    /\ UNCHANGED <<now, launchable, idleTimeout>>

(* Saving role permissions and authentication settings revokes nothing. *)
UpdateRolePermissions ==
    /\ "roles" \in Kinds
    /\ launchable' = ~launchable
    /\ UNCHANGED <<now, account, idleTimeout, sess, code, app, lock, req, orm, ended>>

UnclampedSettings ==                                                \* mutant
    /\ "settings" \in Kinds
    /\ idleTimeout' = idleTimeout - 1
    /\ UNCHANGED <<now, account, launchable, sess, code, app, lock, req, orm, ended>>

UpdateAuthenticationSettings ==
    /\ "settings" \in Kinds
    /\ idleTimeout' \in IdleChoices \ {idleTimeout}
    /\ UNCHANGED <<now, account, launchable, sess, code, app, lock, req, orm, ended>>

-----------------------------------------------------------------------------
(* The scheduled cleanup command, the clock, and what ends a transaction   *)
(* without a commit.                                                       *)

Cleanup ==
    /\ "cleanup" \in Kinds
    /\ \E codes \in SUBSET PurgeableCodes, apps \in SUBSET PurgeableApps :
          /\ CleanupBatch(codes, apps)
          /\ codes \cup apps # {}
          /\ \A r \in codes \cup apps : lock[r] = None
          /\ code' = WithoutCodes(code, codes)
          /\ app' = WithoutApps(app, apps)
    /\ UNCHANGED <<now, settingsVars, sess, lock, req, orm, ended>>

Rollback(w) ==
    /\ "rollback" \in Kinds
    /\ req[w].op # "idle"
    /\ Finish(w)
    /\ UNCHANGED <<now, settingsVars, sess, code, app, ended>>

Tick ==
    /\ now < MaxTime
    /\ now' = now + 1
    /\ UNCHANGED <<settingsVars, sess, code, app, lock, req, orm, ended>>

-----------------------------------------------------------------------------
Init ==
    /\ pool \in SUBSET Worker
    /\ now = 0
    /\ account \in [User -> {[enabled |-> TRUE, mfa |-> m, assigned |-> TRUE] : m \in BOOLEAN}]
    /\ launchable = TRUE
    /\ idleTimeout \in IdleChoices
    /\ sess = [s \in Session |-> NoSess]
    /\ code = [c \in Code |-> NoCode]
    /\ app = [a \in AppSession |-> NoApp]
    /\ lock = [r \in Row |-> None]
    /\ req = [w \in Worker |-> NoRequest]
    /\ orm = [w \in Worker |-> NothingLoaded]
    /\ ended = {}

SignIn(w) == \/ \E u \in User : LoginRead(w, u)
             \/ \E s \in Session : LoginCommit(w, s)

PortalRequest(w) ==
    \/ \E s \in Session, kind \in {"visit", "authorize"} : ContextRead(w, s, kind)
    \/ ContextRefresh(w) \/ ExpireCommit(w)
    \/ \E s \in Session : LogoutStart(w, s)
    \/ LogoutLock(w) \/ LogoutCommit(w)
    \/ RevokeCodes(w) \/ RevokeApps(w)
    \/ AuthorizeCheck(w) \/ AuthorizeDecide(w)
    \/ \E c \in Code : AuthorizeCommit(w, c)

RadarRequest(w) ==
    \/ \E c \in Code, proof \in BOOLEAN : ExchangeRead(w, c, proof)
    \/ ExchangeDecide(w) \/ ExchangeReject(w)
    \/ \E a \in AppSession : ExchangeGrant(w, a)
    \/ \E a \in AppSession : IntrospectRead(w, a)
    \/ IntrospectDecide(w) \/ IntrospectReject(w) \/ IntrospectActive(w)

AdminRequest(w) ==
    \/ \E u \in User, want \in Payload : AdminUpdate(w, u, want)
    \/ \E u \in User : AdminReset(w, u)
    \/ AdminSessions(w) \/ AdminCommit(w)

Environment ==
    \/ \E a \in AppSession : RevokeApplicationSession(a)
    \/ UpdateRolePermissions \/ UpdateAuthenticationSettings
    \/ Cleanup \/ Tick

Next ==
    /\ \/ Environment
       \/ \E w \in pool : \/ SignIn(w) \/ PortalRequest(w) \/ RadarRequest(w)
                          \/ AdminRequest(w) \/ Rollback(w)
    /\ UNCHANGED pool

Spec == Init /\ [][Next]_vars

-----------------------------------------------------------------------------
(* What the rows and the requests are. *)
TypeOK ==
    /\ pool \subseteq Worker
    /\ now \in Nat
    /\ account \in [User -> AccountRow]
    /\ launchable \in BOOLEAN
    /\ idleTimeout \in IdleChoices
    /\ sess \in [Session -> SessRow]
    /\ code \in [Code -> CodeRow]
    /\ app \in [AppSession -> AppRow]
    /\ lock \in [Row -> Worker \cup {None}]
    /\ req \in [Worker -> Request]
    /\ orm \in [Worker -> Loaded]
    /\ ended \subseteq Session

LiveApp(a) == Stored(app[a]) /\ app[a].revoked = Never

(* An application session never outlives its own absolute end, nor that    *)
(* end the absolute end of its portal session, however its introspections  *)
(* and the refreshes of the portal session interleave.                     *)
ChildWithinParent ==
    \A a \in AppSession : Stored(app[a]) =>
        app[a].idle <= app[a].absolute /\ app[a].absolute <= sess[app[a].parent].absolute

(* Once a logout or an administrator has ended a portal session, no        *)
(* unrevoked application session hangs under it: an exchange that races    *)
(* the logout is either refused or its session is revoked with the rest.   *)
EndedParentsAreBarren ==
    \A a \in AppSession : LiveApp(a) => app[a].parent \notin ended

(* A positive verdict of an exchange or an introspection cannot be         *)
(* overtaken: when it commits, its portal session is still unrevoked.      *)
VerdictsHoldAtCommit ==
    \A w \in Worker : req[w].verdict \in {"grant", "active"} =>
        sess[req[w].sess].revoked = Never

(* No code is consumed without a session being issued for it: the guard    *)
(* after the consumption never fires, although its time is taken before    *)
(* the locks are waited for and the parent's expiry is checked after.      *)
NoCodeIsBurnt == \A w \in Worker : req[w].verdict # "burn"

(* An authorization code yields at most one application session. *)
SingleUse ==
    \A a, b \in AppSession :
        Stored(app[a]) /\ Stored(app[b]) /\ app[a].code = app[b].code => a = b

(* A code that is presented again yields another session only to exchanges *)
(* that had read it before the first of them committed: at most one for    *)
(* each thread of the server, and one in all when requests do not overlap  *)
(* (exchange_authorization_code).                                          *)
ReplaysAreBounded ==
    \A c \in Code :
        Cardinality({a \in AppSession : Stored(app[a]) /\ app[a].code = c})
            <= Cardinality(pool)

(* The session is unrevoked, its user enabled, and it has met the MFA      *)
(* requirement of the moment.                                              *)
Entitled(s) ==
    LET acct == account[sess[s].user] IN
    sess[s].revoked = Never /\ acct.enabled /\ MfaIsSatisfied(acct, sess[s])

Authorized(s) == Entitled(s) /\ account[sess[s].user].assigned

(* One at a time, an unrevoked application session belongs to a portal     *)
(* session whose user may use the application as the account is at the     *)
(* moment (update_user, revoke_user_sessions).                             *)
AuthorityIsCurrentAlone ==
    Alone => \A a \in AppSession : LiveApp(a) => Authorized(app[a].parent)

(* No step gives a revoked session or a used code back: a refresh, an      *)
(* introspection or an exchange that read a row before it was revoked      *)
(* writes around the revocation.                                           *)
RevocationIsFinal ==
    [][/\ \A s \in Session : sess[s].revoked # Never => sess'[s].revoked # Never
       /\ \A c \in Code : /\ code[c].revoked # Never /\ Stored(code'[c])
                                => code'[c].revoked # Never
                          /\ code[c].consumed # Never /\ Stored(code'[c])
                                => code'[c].consumed # Never
       /\ \A a \in AppSession : app[a].revoked # Never /\ Stored(app'[a])
                                => app'[a].revoked # Never]_vars

(* No cleanup, inline or scheduled, deletes an application session that    *)
(* could still be used, nor the record of one that ended less than the     *)
(* retention time ago.                                                     *)
CleanupSparesLive ==
    [][\A a \in AppSession : Stored(app[a]) /\ ~Stored(app'[a]) =>
          \/ app[a].idle + Retention <= now
          \/ Reached(app[a].revoked, now - Retention)]_vars

-----------------------------------------------------------------------------
(* However requests overlap, the tables go through the steps of Handoff:   *)
(* each commit is one of them, and it keeps what that step promises of the *)
(* state it commits in, not of the state its decision was made in.         *)
PortalOf == [s \in Session |-> IF ~Stored(sess[s]) THEN "none"
                              ELSE IF s \in ended THEN "ended"
                              ELSE IF sess[s].revoked # Never THEN "lapsed" ELSE "open"]
EntitledNow == {s \in Session : Stored(sess[s]) /\ Entitled(s)}
CodesOf == [s \in Session |-> {c \in Code : Stored(code[c]) /\ code[c].parent = s}]
LiveOf == [s \in Session |-> {a \in AppSession : LiveApp(a) /\ app[a].parent = s}]

Promise == INSTANCE Handoff
    WITH portal <- PortalOf, entitled <- EntitledNow, codes <- CodesOf, live <- LiveOf
ImplementsHandoff == Promise!Spec

=============================================================================
