# Verification of the Blue Ash Digital portal

TLA+ models, TLC configurations and TLAPS proofs for the backend in `src/backend` (FastAPI, SQLAlchemy,
PostgreSQL) and for the sign-in page of `src/frontend`. The portal signs users in, keeps their sessions, and hands them over to an application, Opportunity
Radar, by one-time authorization codes. Almost everything that is hard about it happens between requests: handlers
run in threads, each in a database transaction of its own, and read rows that others change.

## The system and its parts

| Part | State | Operations | Interacts with | Must hold |
|---|---|---|---|---|
| Portal-to-Radar handoff (`services/application_auth_service.py`, `api/application_auth.py`) | tables `application_authorization_codes`, `application_sessions` | authorize, exchange, introspect, revoke, revoke for a parent / a user, cleanup | reads and locks portal sessions, users, the application row; is called by logout, expiry and administration | a code is used once; an application session does not survive, outlive or precede the session it hangs under; cleanup deletes only what has ended |
| Portal sessions (`services/auth_service.py`, `api/dependencies.py`) | table `sessions` | create, session context (refresh, expire, end for a disabled user), logout, end all of a user | every request starts with the context; introspection prolongs the session | revocation is final; idle and absolute ends are respected |
| Account administration (`api/admin.py`) | tables `users`, `user_applications` | list, create, update, delete, reset password, reset MFA | ends sessions, codes and application sessions | an enabled administrator remains; who loses access loses it everywhere |
| Sign-in and email MFA (`api/auth.py`, `services/mfa_email_service.py`) | tables `pre_auth_sessions`, `email_mfa_challenges` | login, verify, resend, cancel | mails a code inside the transaction; ends in a portal session | one usable code, bounded attempts, no session without the code |
| Authentication settings (`services/authentication_settings_service.py`, `api/settings.py`) | one row, values clamped when read | read-or-create, update | read by all of the above at different moments | a change does not break the ends of existing sessions |
| Roles and permissions (`services/permission_service.py`, `api/settings.py`) | tables `portal_roles`, `role_permissions` | read with defaults, replace | asked by every protected endpoint and by the handoff | administrators keep the critical permissions |
| Password reset (`services/password_reset_service.py`) | table `password_reset_tokens` | request, complete | ends the user's sessions | a token works once |
| Rate limiter (`services/rate_limit_service.py`) | process memory | allow | sign-in endpoints | no more than the limit in a window |
| Email settings and delivery (`services/email/`, `api/settings.py`) | one row with the last test's outcome | save, test, send | SMTP | a verified status belongs to the settings tested |
| Audit (`services/audit_service.py`) | append-only table | write | everywhere | nothing decides by it |
| Front end (`src/frontend`) | browser memory, cookies | probe, sign in, MFA prompt, redirect back | the API above | a late answer does not undo a newer one |
| Database access (`database/session.py`) | ORM session per request | open, commit, close | everything | what is not committed is rolled back |

What makes it hard:

* **Stale copies.** `SessionLocal` does not autoflush, and an ORM session keeps the columns of a row it has loaded.
  A handler that reads a row without a lock and selects it `FOR UPDATE` later waits for the lock and then decides by
  the columns it read first. Both exchange and introspection do this with the code or the application session; they
  do not with the parent session, which is loaded for the first time by the locking select.
* **Statements see different states.** Under READ COMMITTED each statement sees what is committed when it starts.
  Ending a user's sessions is three `UPDATE`s; a session, code or application session inserted between them is missed
  unless a lock forbids the insertion.
* **Clock readings age.** `now` is taken before locks are waited for, while `user_can_authorize_application` reads
  the clock again after.
* **Anything may be lost.** A request may end between two statements; `get_db` closes the session and the database
  rolls back.

`PROJECT.json` lists these hazards at the lines where they bite, with the properties that answer them.

## Modules

| Module | What it is |
|---|---|
| `AppHandoff` | the handoff, portal sessions and the administration's effect on them, as interleaved transactions |
| `MCAppHandoff` | its scenarios for TLC |
| `Handoff` | what the handoff promises, each grant and each ending as one step; `AppHandoff` implements it |
| `AppHandoffProofs` | the invariants of types, of locks and of what ends for good, all its properties, and that it implements `Handoff`, proved |
| `AdminUsers` | creation, edit and deletion of accounts by overlapping requests and by the command line tools |
| `MCAdminUsers` | its scenarios for TLC |
| `AdminUsersProofs` | types, unique addresses, final deletions, and the last administrator when requests do not overlap, proved |
| `MfaLogin` | password, mailed code, session: overlapping logins, resends, verifications, cancellations, and the resets that end them |
| `MCMfaLogin` | its scenarios for TLC |
| `MfaLoginProofs` | the invariants of sign-in, for overlapping requests and for one at a time, and all its properties, proved |
| `RateLimiter` | one bucket of the in-memory limiter, shared by threads without a lock |
| `SlidingWindow` | what a rate limit promises; `RateLimiter` implements it when calls do not overlap |
| `MCRateLimiter` | scenarios for TLC and the refinement mapping they check |
| `RateLimiterProofs` | types, the bound of the bucket and the steps of the refinement, proved |
| `RolePermissions`, `MCRolePermissions` | grants of the two roles, replaced by overlapping requests |
| `EmailSettings`, `MCEmailSettings` | the mail settings, their test, and a local mailbox at start-up |
| `SettingsProofs` | all properties of `EmailSettings` and of `RolePermissions`, proved |
| `PasswordReset`, `MCPasswordReset` | mailed reset links, the sessions a password opens, administrators' resets |
| `PasswordResetProofs` | all its properties, proved |
| `RowLocks`, `MCRowLocks` | the order in which the handlers of sessions, sign-ins, resets and administration lock rows, deadlocks and their end |
| `RowLocksProofs` | that requests which keep to the order never deadlock, proved |
| `SignInPage`, `MCSignInPage` | one browser tab: what late, missing and overtaken answers make of the page |
| `SignInPageProofs` | `PortalIsConfirmed` and `NoRedirectLoop`, proved |

`AppHandoff`, `MfaLogin` and `PasswordReset` each model what an administrator's edit or reset does to their own tables;
`RowLocks` lines up the statements of all three, and of the deletion of an account, for the locks alone; `SignInPage` takes a handler of the API as one step.

The database modules share two conventions. `pool` is the set of threads the server has; it is chosen when the server starts and only its members
serve requests. `Alone` says that there is at most one, so that requests do not overlap: a property of requests one at a time is
written `Alone => ...` and holds, as a property, of servers of any size.

### AppHandoff

*State.* `sess`, `code`, `app` are the three tables (a row is absent, stored or deleted; nullable timestamps are a
time or `Never`). `account` is what `users` and `user_applications` say of a user, reduced to what handlers ask:
enabled, must use MFA, has the application assigned. `launchable` is the application's own part (enabled, open to the
role, the role may launch). `idleTimeout` is the setting of that name. `lock` is the database's row locks, `req` the
request each thread serves and how far it has come, `orm` what its ORM session has loaded, `now` the clock. `ended`
is a history variable: the sessions a logout or an administrator has ended.

*Steps.* An action is the stretch of a handler between two points at which other transactions can be seen or waited
for. `ExchangeRead` is the inline cleanup with the unlocked select, `ExchangeDecide` the locking selects and every check, and
`ExchangeGrant` or `ExchangeReject` the commit with all writes. `IntrospectRead`, `IntrospectDecide` and
`IntrospectActive`/`IntrospectReject` are the same for introspection. A session context is `ContextRead`, then
`ContextRefresh` or, when the session has expired or its user is disabled, `RevokeCodes`, `RevokeApps`,
`ExpireCommit`: the ORM flushes the session's own `revoked_at` last, so it is not locked before. A logout is
`LogoutStart`, `LogoutLock`, `RevokeCodes`, `RevokeApps`, `LogoutCommit`. An authorize request continues a refreshed
context with `AuthorizeCheck` (which turns into a logout when MFA is missing), `AuthorizeDecide` and
`AuthorizeCommit`. An administrator's edit is `AdminUpdate`, then `AdminSessions`, `RevokeCodes`, `RevokeApps` as far
as the edit calls for them, then `AdminCommit`. `UpdateRolePermissions` gives or takes the role's permission to launch, `UpdateAuthenticationSettings`
changes the idle timeout; both commit in one step. `Rollback` may end any request anywhere.

*Copies.* `CodeIsUsable` and `AppIsActive` decide by the loaded copy and ask the current row only whether it exists.
A refresh writes the two columns it changed over whatever the row holds by then; `Merged` does the same for accounts.
Assignments are deleted and inserted anew instead (`AssignedAfter`): of two edits that overlap, one may fail on a row the other inserted
(`Rollback`), and one that takes the assignment away may leave the row that the other put in its place.

*Locks.* `FOR UPDATE`, `UPDATE` and `DELETE` wait for a row and hold it to the end of the transaction. The insertion of
a code waits for a `FOR UPDATE` lock of its parent session (foreign key, `ParentForUpdate`), and not for an `UPDATE`
that leaves the key alone. The insertion of a portal session waits for the user's row because it also writes
`last_login_at`. An administrator's commit waits for the user's row when it writes one of its columns or inserts an assignment
(foreign key), and not when it only takes the assignment away (`TouchesAccount`): that changes no row an exchange has locked.

*Abstract specification.* `Handoff` knows for each portal session what has become of it, whether it is entitled (unrevoked, its user
enabled, the MFA requirement met), the codes kept for it and the application sessions that work under it. Each handler is one
step: `SignIn`, `Authorize`, `Exchange`, `Lapse` (an expired or disabled context), `Logout`, `Administer`, `Sweep`. An exchange needs
at that very moment an entitled session and a kept code of the same session, an ending leaves nothing alive under the session,
and an ended session stays ended. `PortalOf`, `EntitledNow`, `CodesOf` and `LiveOf` read these off the tables, and `ImplementsHandoff` says
that the tables take no other steps, although the code decides on copies and commits later. `Handoff` promises neither
that a code is used once (`replay`) nor that the application is still assigned: with that added, TLC finds the exchange that
commits after the assignment has been taken away.

*Simplifications.*

* Locks one handler takes with no read of its own between them are taken in one step. No other transaction can tell
  the difference, except by a deadlock, and those are in `RowLocks`.
* Unlocked reads at the start of a handler (session and user, code and clock) are one step.
* A revoking `UPDATE` sees its rows and waits for them in one step (`RevokeCodes`, `RevokeApps`, `AdminSessions`). It can meet a row
  locked only where its request does not hold the row's parent; a row inserted during such a wait is left as one inserted just after the
  statement is, and those are in the model.
* A cleanup fixes its batch in a subquery, waits for the rows and does not look at their age again; `CleanupBatch` chooses when the
  rows are free. The two differ only if a row is prolonged after its retention has passed while the cleanup waits for it, which takes a
  lock wait longer than the retention. Within that limit `CleanupSparesLive` is what the code keeps.
* `AssignedAfter` does not tell a replaced assignment from the first one: with several threads a row that is there when a removal
  commits may stay, whether or not the other edit overlapped. No property but `AuthorityIsCurrentAlone`, which is about one thread, asks for it.
* A role change counts as a change of the MFA requirement (an administrator must use MFA); an edit that changes a
  role while MFA was required anyway, and the first edit of an administrator created by a CLI, whose stored flag is
  off, end the sessions too. The same effect, sessions ended and no visible change, is a reset.
* Columns that only repeat the parent's (`user_id` of a code, the application's id) are not kept. Two copies of a row
  that cannot differ are not compared.
* `absolute_timeout_minutes` is a constant; changing it affects only sessions created later.
* The deletion of an account is not part of this module.
* Tokens, codes and PKCE verifiers are identities nobody can guess; `proof` says whether the verifier and redirect URI
  presented match.

### AdminUsers

*State.* `account` is the table `users` (role, enabled, address; `deleted` marks an identity that was used), `req` the
request each thread serves: its actor, its target, the copies of both its ORM session holds, and what was submitted.

*Steps.* `Authorize` is the permission check, which loads the actor. `Load` gets the target and refuses addresses in use
and changes to oneself. `EnsureAdminRemains` counts. `UpdateUser`, `DeleteUser` and `CreateUser` are the commits; each
sends its statements only then, because sessions do not autoflush (`create_user` flushes just before). `CreateAdmin` is
the check of either tool; its insertion is `CreateUser` with no actor.

*Copies.* When the target is the actor, `db.get` returns the object the permission check loaded. An `UPDATE` carries the
columns that differ from the loaded copy (`Merged`), so two edits of different columns both last. An `UPDATE` of a row that
has gone affects no row, which the ORM raises as an error; a `DELETE` of such a row does nothing. The audit row of a request
whose actor was deleted violates its foreign key and takes the transaction with it.

*Simplifications.* The user name is an address that does not change: the constraint on it works alike. The three
permissions `users.create`, `users.edit` and `users.delete` are granted to the role USER together or not at all. An early
return is a guard; a request it ends is `Rollback`. Sessions, display names, passwords and assignments are not here.

### MfaLogin

*State.* `pre`, `chal` and `sess` are the tables `pre_auth_sessions`, `email_mfa_challenges` and `sessions`; `via` is the
sign-in a session was opened through. `account` is what login asks of a user, `limit` the attempt limit, `req` the
request each thread serves. `guesses` counts the answers given on a challenge and `outdated` collects what rests on a
password check before the last reset; both are history variables.

*Steps.* `Take` is the `SELECT FOR UPDATE` of the pre-authentication with which resend, verify and cancel begin; the
row is loaded by it, so its columns are current. Verify reads user and settings next, before it waits for the
challenge. `VerifyDecide` locks the challenge and decides; `VerifyReject` and `VerifyAccept` are the commits. An `UPDATE`
over many rows takes two steps, the rows it sees (`SendFind`, or the end of the statement before) and the rows that still match
when nobody else holds them (`SendInvalidate`, `ResetSessions`, `ResetPreAuths`, `ResetChallenges`). `SendCommit` is
the commit after the mail has gone; a delivery that fails is `Rollback`. `AdminStart` loads the
account for an edit, or a reset of the password or of MFA; one that ends sign-ins (`EndsSignIns`) looks for the sessions in `ResetFind`, after
others may have committed.

*Simplifications.* A row that a request holds is a member of `req[w].rows`: nobody else waits for a row and then finds it
changed except by looking again, which each step does. A refusal that changes nothing is a missing guard, and the request
ends by `Rollback`. The pre-authentication and its first code take their expiry from one clock reading; in the code the
former is read a moment earlier. The times for codes and resends are constants. A role change counts as a change of the MFA
requirement, as in `AppHandoff`, and sessions do not expire here. The rate limiter in front of the handlers, which only
refuses, is a module of its own. Two requests that wait for each other are not told apart from one that waits for long: the database
ends one of them, which is `Rollback`.

### RateLimiter and SlidingWindow

*State.* `hits` are all times ever appended to the bucket and `front` how many `popleft` has taken, so the deque is what is
left. `call` is where each thread is in `allow` and the clock reading it works with.

*Steps.* The interpreter may switch threads after a call and at the loop's jump back, so the clock reading (`ReadClock`), each
look at the head, each `popleft`, the count and the append are steps of their own. `Pop` takes whatever is first by then, which
need not be the head that was looked at. On a deque emptied meanwhile `popleft` raises an `IndexError`, which ends the call (`PopEmpty`).

*Abstract specification.* `SlidingWindow` remembers every admission and never forgets one; a call is admitted if and only if fewer than
`Limit` lie in the window before its reading. `RateLimiter` maps `hits` to the log and `call[t].at` to the calls asked.

*What overlap costs.* Two threads may both count before one appends, and one may take a live hit that the other's look at an older head
led it to take. So admissions within a window may exceed `Limit` by more than the number of threads; what stays bounded is the
bucket (`BucketIsBounded`). That several processes have a limiter each is outside the model.

### RolePermissions

*State.* `grants` is the table `role_permissions` by role, `replacing` the replacement each thread serves with the rows its `DELETE` has
found. `last` is what the last replacement to commit had submitted.

*Steps.* `Submit` is the permission check and the refusals; `Find` and `Delete` are the `DELETE`, which sees rows, waits for them and
passes over those deleted meanwhile; `Commit` inserts. An `INSERT` that meets a row of the same key waits for the transaction that is
deleting it and fails if the row stays: then the request is `RolesRollback`. A role without rows has its defaults (`Effective`).

*What holds of the code.* Two administrators' replacements both contain the critical keys, so the second always collides with the
first and one of them fails as a whole. Two replacements for `USER` with no key in common do not collide: their union may
remain, which nobody submitted. An empty set for `USER` gives the defaults back.

### EmailSettings

*State.* `row` and `order` are the table `email_settings`, oldest first; `req` has the copy a save or a test works on; `tested` is what
the last successful test was sent with.

*Steps.* `SaveLoad` validates and computes the new copy, `SaveCommit` writes the columns that differ from what was loaded (`Merged`).
`TestLoad` and `TestCommit` have the SMTP dialogue between them, which succeeds only with switched-on and complete settings.
`Restart` is the local development mailbox that start-up writes.

*What holds of the code.* Both properties are about requests one at a time. Explored with two threads, three saves that switch between the
providers can leave Gmail switched on without an address (`api/settings.py:181` refuses exactly that), since each `UPDATE` carries only the
columns its own copy changed; and a save that overlaps a successful test can leave the new settings `VERIFIED`, although the
page asks for a test after each save.

Not here: encryption and its keys, sender names and reply addresses, the SMTP dialogue.

### PasswordReset

*State.* One account: `enabled`, and `password`, numbered as passwords are set; `tok` and `sess` are the tables of links and sessions, a
session knowing the password it was opened with. Four variables are history: `uses` counts the passwords set by each link, `author` names
the thread that committed it, `unseen` collects the sessions committed since each thread's request looked for sessions to end, and `late` those
the present password could not end: committed after it had looked, or opened by a password that was checked before it and committed after.

*Steps.* `Request`, `HoldLinks`, `RequestCommit` void the earlier links and mail a new one before the commit; the new link is dated
before the mail leaves (`HoldLinks`). `Complete` reads a link with no lock, `CompleteUser` its account; `FindSessions` and `HoldSessions` are the `UPDATE` that ends the sessions; `CompleteCommit` writes password and link. An
administrator's reset or disabling goes the same way and holds the links too. `SignInCheck` and `SignInCommit` are a plain sign-in, whose
session commits some time after the password was checked. A mail that fails is `Rollback`.

*What holds of the code.* A link read by two overlapping completions sets a password twice; a sign-in under way while the password changes
leaves a session of the old one. Hence the bounds by the number of threads, and `SurvivorsCameLate`: a session of an old password was
committed too late for the change to see it, whatever overlaps. When requests do not overlap there is none (`OldPasswordsOutAlone`).
A reset of MFA alone, and edits that change the role or MFA, are in `AppHandoff` and `MfaLogin`.

### RowLocks

*State.* The request each thread serves as the locks it has still to ask for, each a row and a mode with the place of its statement; the
lock it waits for; the locks it has. Modes and their conflicts are PostgreSQL's: the foreign key's `KEY SHARE`, the `NO KEY UPDATE` of
an update, the `UPDATE` of a `FOR UPDATE` or a delete. The rows are those of one user: sessions, codes, application sessions, sign-ins, mailed
codes, reset links, the user, and the row of the one application.

*Steps.* `Begin` picks any request in `Requests`: sign-in with and without MFA, verify, resend, cancel, the session context (visit, expiry), logout,
authorize, exchange, introspection, revocation, cleanup, request and completion of a password reset, and an administrator's reset, edit, removal of an
assignment and deletion. `Ask` and `Grant` lock the rows of the statement at hand in any order; `End` and `Fail`
close the session; `Victim` is PostgreSQL's deadlock detection: a request that is in every set
of requests ahead of it (`Ahead`, `Circle`) waits for itself. Nothing retries a victim: the client gets a 500.

*What holds of the code.* The order is session, code, application session, sign-in, mailed code, user, application. Requests that keep to it never
deadlock, if at most one of them is `Several`, locking more than one row of a table (resends, cancellations, both sides of a password reset, what
administrators do), for no statement orders its rows. The others are `Inverted`: authorize begins with the application, an expiring context with the
codes, a new sign-in with MFA with the key of the user, whose row the codes it voids precede; and a cleanup, or the deletion of an account,
that meets old rows locks these out of turn. They can deadlock with the others, and do in the model.

*Simplifications.* Assignments and MFA methods are locked by administrators only, rows a transaction has just inserted by itself; both are left out, and
so is the row of the settings, which sign-ins read without a lock. Reset links have no place in the order: only `Several` requests lock them. The batch of
an exchange's or authorize's cleanup is any set of sessions whose code and application session are ripe; a code that can still be exchanged is not ripe, so
taking it into the batch adds locks and leaves none out. The cascade of a deletion locks row by row; it is written table by table, which is the same
while all the user's sessions are locked.

### SignInPage

*State.* `place` is the document and whether its address carries a `returnTo` that is accepted; `page` the state of `App`; `calls` the
request of each kind and the answer that is on its way; `jar` the cookies; `attempt` what became of each sign-in at the API.
`hops` counts documents opened by answers alone.

*Steps.* The user's clicks send requests; `Serve` is the API; `Receive` stores the cookies and runs the handler's continuation; `Abort`
and `GiveUp` end a request whose answer may have arrived in part, so that its cookies may be stored or not. `EndSession` is anything
that ends a session elsewhere. `Becomes` runs the effects that follow a change of state, `Load` opens a document.

*Simplifications.* One request of each kind at a time. A request that was given up has been served by then or never is. The reset
pages lead nowhere else and stand behind `signin`. Two tabs, and everything the portal shows, are left out.

*What does not hold of the code.* Besides the finding below, two things seen with this model: a verification under way when Cancel is
clicked signs the browser in after the form has come back (`docs/website.md:139` records no session); and a sign-in that was reported
as failed after its headers had arrived has left its cookie (`docs/website.md:31`). In both the cookie is that of a sign-in that was
completed, so `PortalIsConfirmed` holds. A logout that fails is taken for one until the next document.

## Runs

A run of a component whose properties need different instances explores several scenarios. The MC module adds the variable `scenario`, chosen once;
it says how many threads the pool has, which kinds of requests are sent, how many rows are used and how far the clock goes. A
property of requests one at a time (`Alone => ...`) says something in the scenarios with one thread. The scenarios only refuse to begin a
request, to insert a row or to advance the clock: no step of a request under way is refused for them, except that a row that may not be
inserted or submitted leaves its request to `Rollback`.

| Run | Instance | Shows |
|---|---|---|
| `handoff` | *one at a time*: every request, two application sessions; *settings*: roles and idle timeouts change under running sessions; *logout race*: two threads, every request of users and Radar, cleanup, rollback; *admin race*: two threads, edits and resets against sign-in, authorize, exchange, introspect while the clock stands still; *replay*: two threads, three application sessions, cleanup | `TypeOK`, `ReplaysAreBounded`, `AuthorityIsCurrentAlone`, `ChildWithinParent`, `EndedParentsAreBarren`, `VerdictsHoldAtCommit`, `NoCodeIsBurnt`, `RevocationIsFinal`, `CleanupSparesLive`, `ImplementsHandoff` |
| `replay` | the same | violation: `SingleUse` |
| `admin` | one request at a time on three accounts, by users too; two administrators' requests on two accounts, which submit nothing both demoted and disabled | `TypeOK`, `AdminRemainsAlone`, `DeletionIsFinal` |
| `admin_skew` | two accounts | violation: `AdminRemains` |
| `mfa` | *one at a time*: every request, two sign-ins, three codes; *verifications*: two threads, three codes of one sign-in, a limit that changes; *resets*: two threads, two sign-ins, cancellations and resets | `TypeOK`, `OneAtATime`, `SignInsCompleteOnce`, `OneUsableCode`, `GuessesAreBounded`, `ResendsAreSpaced`, `DeadStaysDead`, `NoCodeIsLost` |
| `rate` | one call at a time for three windows; two threads for two | `BucketIsBounded`, `AloneImplementsSlidingWindow`, `EveryCallEnds` |
| `roles` | two threads, three keys, one of them critical | `RolesTypeOK`, `AdministratorsKeepCritical`, `AdministratorGrantsAreSubmitted` |
| `email` | one thread, two values, start-ups | `VerdictIsCurrent`, `EnabledIsDeliverable` |
| `reset` | one request at a time, two sessions, links that expire; two threads, one session | `TypeOK`, `SurvivorsCameLate`, `LinksAreBounded`, `UsesAreBounded`, `NoLinkIsLost` |
| `locks` | any two requests on two sessions, each with its code, application session, sign-in, mailed code and reset link | `OrderedRequestsNeverDeadlock`, `EveryRequestEnds` |
| `page` | one tab, one sign-in, any answer late or missing | `PortalIsConfirmed`, `NoRedirectLoop`, `FormLeavesPending`, `GateOpens` |
| `page_challenge` | the same | violation: `ChallengeStays` |

Deadlock is checked in `roles`, `email`, `locks` and `page`, where there is always something to do. The others use up rows, passwords or time, so
the system may really stop: `CHECK_DEADLOCK FALSE`.

*Bounds.* Every property of `AppHandoff` relates one application session to its one parent and one code, and a conflict needs two
transactions; a second parent adds only rows that no step on the first one touches. That a code is used twice needs two application
sessions, more than the number of threads needs three. Durations are 1 or 2 ticks and `MaxTime` lets idle end, absolute end, code
expiry and retention pass. The accounts: the last-administrator rule distinguishes none, one and more than one, a conflict needs two.
The properties of `MfaLogin` are about one user's rows; two overlapping resends need three codes with that of the login; a new sign-in
that voids the codes of an older one needs two sign-ins; `CodeTtl` is twice `ResendDelay` (the settings allow the opposite, but then
nothing can be resent) and a code expires in *verifications*, which runs to time 4. The limiter's window is two ticks, so hits expire one
by one. Three links allow one more than two threads may leave. Of `RowLocks` one user: requests of two users share only the application.
The theorems below hold for all numbers of rows, threads and sign-ins.

*What `replay` shows.* Both threads read the code before either commits. The first locks, decides, commits; the second
gets the lock, sees that the row still exists and decides by the `consumed_at` it had loaded. Two application sessions
come of one code, against the one-time code of `src/README.md`. `ReplaysAreBounded` limits the damage: only exchanges that
were under way when the first one committed can succeed. Selecting with `populate_existing` (or locking first) would repair it. The tests
use a mocked session, whose second `scalar` returns what the test says.

*What `admin_skew` shows.* Two administrators submit edits that demote or disable each other. Each request counts two enabled
administrators before the other commits, and both commit. A lock on the administrators' rows, or a higher isolation level, would
order them.

*What `page_challenge` shows.* The sign-in form does not wait for the page's session probe. The probe's 401 may arrive after a sign-in
was answered with a challenge: the challenge closes with the message that the session has expired.

*What the documents record.* `docs/website.md` says that after a resend "the previous code no longer matched the active
challenge" (line 138): `OneAtATime` says it for requests one at a time, `OneUsableCode` within one sign-in for overlapping ones. Two
sign-ins of one user that overlap may each keep a usable code; each code serves its own sign-in only. That a message which cannot be sent
opens no challenge (line 142) is `Rollback`, and `NoCodeIsLost` adds that the earlier code survives.

*What needs requests one at a time.* `AuthorityIsCurrentAlone`: with two threads an exchange may commit just after the removal of an assignment has
looked for application sessions; the next introspection refuses the session. `OneAtATime`: a
sign-in that commits after the reset has chosen the sessions to end stays (`SurvivorsCameLate` says that only such a one does). Nothing in the repository promises more.

## Fairness

Safety runs have none. Three specifications and the abstract one state fairness:

* `RateLimiter`: weak fairness of each thread's next step in a call, because the interpreter lets every runnable thread run. No call has to begin
  and the clock need not move. `SlidingWindow` has the same of its answers.
* `RowLocks`: weak fairness of the statements and the end of a request, weak fairness of the deadlock detection, which runs after
  `deadlock_timeout`, and strong fairness of a lock that is granted, because PostgreSQL queues waiters. No request has to begin or fail.
* `SignInPage`: weak fairness of the browser's timers (`AbortSignal.timeout`) and of handing over an answer that has arrived. The API
  owes nothing. `GateOpens` assumes besides that the user does not load documents for ever.

## Proofs

Every invariant and action property of the runs is stated by a theorem; what is left to TLC is liveness. A theorem
`Spec => []P` comes from an inductive invariant, and most properties are not inductive: what follows says which invariant carries each.

### AppHandoff

`AppHandoffProofs` is about arbitrary finite or infinite sets of users, rows and threads and all
positive durations. The assumptions are the named ones of `AppHandoff`: `DurationsArePositive` (the bounds in
`core/config.py` and `schemas/settings.py`), `IdentitiesAreDistinct`, `KindsAreKnown`, `PayloadsAreRows`, and, for the bound on replays
alone, `ThreadsAreFinite`.

* **`TypeInvariance`, `TypeCorrect`.** `TypeOK` is not inductive: a step that writes the row a request names needs the
  request to name one. `TypeInv` adds what each step of each kind of request has recorded, and that stored children name
  a parent row that is stored.
* **`LockInvariance`, `EndedBarren`, `VerdictsHold`.** `EndedParentsAreBarren` alone is not preserved by
  `ExchangeGrant`, which inserts an application session: it needs that the parent has not been ended, which holds
  because the exchange has held the parent's lock since it looked. `LockInv` states for every request what it has locked
  at its step and what is true of those rows (`Secured`), that an ended session is revoked, and the property itself.
  `RespectsLocks` says what a step of another request leaves alone; a request that respects the locks of others keeps them
  secured (`OthersStaySecured`), so each action is left with its own part (`<Action>Locks`).
* **`ChildrenWithinParents`, `NothingIsBurnt`.** The first adds only types; the second needs that a request's clock reading is not
  ahead of the clock (`RequestsTimely`): a parent that is active now has its absolute end after the reading, and every duration is positive, so
  the idle end computed from the reading lies after it.
* **`RevocationsAreFinal`, `CleanupSpares`.** A commit writes rows chosen statements earlier, so both need `HeldInv`: a row
  not yet inserted is blank and unlocked, a request that prolongs an application session has its row locked, and the
  application sessions a cleanup chose are locked by it and still due. `Written` says what any commit may write and `LocksKept`
  what a step leaves to the other requests (`HeldStep`); each action is shown to do no more. That a due row cannot be a live one
  is `ChildWithinParent`.
* **`AuthorityCurrentAlone`.** With one thread every live application session belongs to an authorized portal session, in every state (`Authority`):
  the removal of an assignment, a disabling, a role change and a reset end them in the transaction that takes the authority away. `AloneHolds` says
  that nothing moved since the request looked: an administrator's copy is the present account, a request at its commit holds every live
  application session of its user or takes no authority, an expiry those of its session, and what an exchange granted upon is still so.
* **`ReplaysBounded`.** An application session is opened by a thread that had read the code unused, and the thread gives that reading up with its
  commit. So the sessions of a code (`Issued`) and the exchanges that may still succeed on a stale copy (`Eager`) are counted together; once the code
  is consumed no thread can join them, and the sum never exceeds the size of the pool.
* **`HandoffImplements`.** Every step of `AppHandoff` is one step of `Handoff` or leaves its variables alone. An exchange is `Handoff`'s at its commit, so
  what its decision rested on has to hold by then: `GrantInv` says that a granting exchange holds its code and its user's row, and
  that the account as it is now is enabled and its MFA requirement met; that the portal session is unrevoked is `LockInv`. `RowsKept` is what
  every step leaves of the rows others hold. Then each commit has a lemma that names its abstract step (`<Handler>Promised`); requests under way, refusals, refreshes
  and rollbacks change nothing that `Handoff` sees.

### Accounts

`AdminUsersProofs` is about any finite set of accounts and any addresses and threads. `TypeOK` needs that a
request past its load names a target (`TargetsAreNamed`). `UniqueEmails` and `DeletedStayDeleted` follow from the three
actions that write the table (`TableStep`). `LastAdminStays` needs that, with one thread, the copies a request
holds are those in the table (`CopiesAreCurrent`): then the account it removes is one of the more than one counted
(`AnotherAdmin`). `UniqueEmails` is not among the runs: the constraint on the column carries it.

### Sign-in

`MfaLoginProofs` is about any sets of users, rows and threads, any positive limits and times. The assumptions
on constants are that rows of different tables, and threads, are different and that limits and durations are positive. The properties alone are not
inductive; `MfaInv` adds what each request relies on. `Secured` says which rows it holds at which step, that held
challenges are usable and held pre-authentications stored; `SecuredResend` that a resend holds, or waits for, every usable code of its
sign-in; `SecuredVerify` that the counter a verification read is still the stored one; `SecuredAdmin` that a reset holds only
codes of its user. A step that writes no table (`Local`) keeps all this (`LocalStep`), and so does a commit that changes no
row another request holds (`Respects`, `CommitStep`); each action is then shown to be one or the other. `AllowedStep` collects the action
properties, which follow from the same invariant one commit at a time.

`OneAtATimeHolds` is about one thread. `Settled` says, of every state, that each user has at most one usable code and that nothing usable rests on a
password check before a reset; `Gathers` that the request under way has in hand, from the step that looked for them, every row it has to
end. So the commit that adds a code leaves no other, and the one that resets the sign-ins leaves none.

### Passwords

`PasswordResetProofs` is about any links, sessions and threads; `UsesBounded` and `LinksBounded` about finitely many threads (`ThreadsAreFinite`).
`TypeInv` says what each step has recorded. `UsesBounded` counts the uses of a link together with the threads that follow it; `LinksBounded` shows that
the usable links have different authors, which are threads of the pool. `OldPasswordsOut` is about any number of threads: whatever a completion or a reset
has looked for, every live session that it neither found nor holds is in its `unseen`, and `late` is what is left of them at its commit.
`OldPasswordsOutAlone` adds that with one thread nothing comes late, so no session survives the password it was opened with.

### Settings

`SettingsProofs` is about what administrators set: two modules side by side, which share no name, no state and no assumption.

*Roles*, for any keys and threads. `RolesInv` adds what each replacement holds at its step: a
replacement of the administrators' grants submits every critical key, and one past its `DELETE` of rows that have changed since
has a conflict.

*Mail*, for any values, rows and threads and requests one at a time. There is then at most one row (`RowsInv`), a request works on
it or on a first one, and its copy is what the row holds (`Current`). So the `UPDATE`, which carries the changed columns only, stores the whole
copy (`WholeCopyIsStored`); what a save stores is complete (`SavedIsSound`), and what a test stores sends as its copy did (`SendsAlike`).

### Row locks

`RowLocksProofs` is about any number of requests and sessions, infinitely many too. `OrderInv` says of every request that keeps to the order
that what it has locked comes before the lock it waits for, and both before all it has still to ask for (`Orderly`); a request that is `Several`
locks the rows of one table in any order, so for it "before" allows the same table. Reset links, which
only such requests lock, count as before and after everything. `Progress` numbers how far a request
has come: the level of the table it waits for, and half a level more for one that is `Several`. Whoever holds a row somebody waits for has come further
(`WaitsForAhead`), which needs that there is one such request, for two may each have a row the other one wants. So the requests further than `w` are a set
that is closed under waiting and does not contain `w`, and `w` is in no circle.

### Rate limiter

`RateLimiterProofs` is about any set of threads, any positive limit and any window. `BucketBounded` (finitely many threads) counts the calls
that have counted and not appended with the bucket, and needs what each of them knows of the length. `LimiterImplements` is about one
thread: its invariant (`Alone`) says that hits are in the order of time and that what was taken lies before the window of the call under
way, so the deque and the window have the same number of hits (`BucketIsWindow`); then every step maps to a step or a stutter
(`StepIsPromised`). That every call is answered is left to the run.

### The page

`SignInPageProofs` is about any number of sign-ins. Both properties need to know which requests can be under way at which place (`InPlace`): the
portal is either loading, with nothing but its probe under way and the probe's cookie still the browser's, or shown, with a session cookie. Session cookies
come from completed sign-ins, and what the API has refused it will refuse again (`CallSound`). Each document starts afresh (`LoadStep`), so an answer either
ends in a new document or stays where it was (`HomeEnds`, `SigninEnds`, `PortalEnds`). For `RedirectsEnd`, `ToGo` is the number of documents that answers
alone may still open: two from a form with a promising request, none from a quiet one, one from the portal. Every document spends one
(`Spends`), the API's steps add none (`ServeStep`), and whatever else happens starts the count anew.

### Model-checked only

* Liveness: `EveryCallEnds`, `EveryRequestEnds`, `FormLeavesPending`, `GateOpens`, and the answers in `AloneImplementsSlidingWindow`. Liveness under
  fairness, ENABLED and induction over data are out of the prover's reach.

## Not modelled

* Token formats and cryptography, CORS, wording and layout, list and profile endpoints: no state the properties are about.
* The SMTP dialogues, templates and the encryption of stored secrets; the normalisation of addresses in `core/redirects.py` and
  `returnTo.ts`, which is string handling.
* Audit rows: nothing decides by them; that they fail with a deleted actor is in `AdminUsers`.
* Migrations: run once, before the server. The constraints they create are modelled where a handler can meet them.
* The administration screens, the password-reset pages and several tabs of the front end.
* Several server processes: the database modules do not tell threads from processes; the limiter would be one for each.
