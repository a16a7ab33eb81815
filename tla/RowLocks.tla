------------------------------- MODULE RowLocks -------------------------------
(***************************************************************************)
(* The row locks of one user's sign-ins: which statements of which handler *)
(* wait for which, and whether requests that wait for each other go on.    *)
(* A handler is here no more than the locks its statements take, in their  *)
(* order; the rows of one statement come in any order.  What handlers read *)
(* and decide is in AppHandoff, MfaLogin and PasswordReset.  Assignments   *)
(* and MFA methods, which only administrators lock, and rows just inserted *)
(* are left out.                                                           *)
(***************************************************************************)
EXTENDS Naturals, Sequences

CONSTANTS
    Session,    \* the user's sessions; each stands for its code and application
                \* session, the sign-in and the mailed code it came of, a reset link
    Worker,
    None

ASSUME NoneIsNoSession == None \notin Session

VARIABLES
    req,    \* the request each worker serves: what it is, and the locks to come
    want,   \* the lock each worker waits for
    held    \* the locks each transaction has

vars == <<req, want, held>>

(* Lock modes of PostgreSQL: KEY SHARE of a foreign key's check, NO KEY    *)
(* UPDATE of an UPDATE, UPDATE of a FOR UPDATE or a DELETE.                *)
Excludes(m, n) == "update" \in {m, n} \/ (m = "no key" /\ n = "no key")

(* A lock is a row, which is a table and a session or None, and a mode. *)
NoLock == <<<<"none", None>>, "key">>

On(table, rows, mode) == {<<<<table, s>>, mode>> : s \in rows}
User(mode) == On("user", {None}, mode)
Radar(mode) == On("radar", {None}, mode)

-----------------------------------------------------------------------------
(* The statements of the handlers.  A lock stands once, where it is        *)
(* strongest, when only weaker ones of the same row come next to it.  A    *)
(* flush sends the rows of different tables in the order of their classes' *)
(* names: audit, which takes a key of the user, first.  old are rows that  *)
(* are over already: codes and application sessions a cleanup finds ripe,  *)
(* sign-ins a deletion does not cancel any more.                           *)

Cleanup(old) == <<On("code", old, "update"), On("app", old, "update")>>

Login == <<User("no key")>>

(* A sign-in with MFA is inserted before the user's other codes are void. *)
MfaLogin == <<User("key"), On("challenge", Session, "no key")>>

(* get_pre_auth_session, then the code, then the new session. *)
Verify(s) == <<On("pre", {s}, "update"), On("challenge", {s}, "update"), User("no key")>>

Resend(s) == <<On("pre", {s}, "update"), On("challenge", Session, "no key"), User("key")>>

Cancel(s) == <<On("pre", {s}, "update"), On("challenge", {s}, "no key"), User("key")>>

Visit(s) == <<On("session", {s}, "no key")>>

(* An expired session: its children, then the flush with its own UPDATE. *)
Expire(s) ==
    <<On("code", {s}, "no key"), On("app", {s}, "no key"), User("key"),
      On("session", {s}, "no key")>>

Logout(s) ==
    <<On("session", {s}, "update"), On("code", {s}, "no key"), On("app", {s}, "no key"),
      User("key")>>

(* The application, the cleanup, the keys of the new code. *)
Authorize(s, old) ==
    <<Radar("update"), On("code", old, "update"), On("app", old, "update"),
      On("session", {s}, "key") \cup User("key")>>

Exchange(s, old) ==
    <<On("code", old, "update"), On("app", old, "update"),
      On("session", {s}, "update"), On("code", {s}, "update"), User("update"),
      Radar("update")>>

IntrospectChildFirst(s) ==                                          \* mutant
    <<On("app", {s}, "update"), On("session", {s}, "update")>>

Introspect(s) == <<On("session", {s}, "update"), On("app", {s}, "update")>>

Revoke(s) == <<On("app", {s}, "update"), User("key")>>

(* revoke_user_auth_state, what it does to the reset links and what        *)
(* follows in x, y and z.                                                  *)
Ends(x, y, z) ==
    <<On("session", Session, "no key"), On("code", Session, "no key"),
      On("app", Session, "no key"), On("pre", Session, "no key"),
      On("challenge", Session, "no key"), x, y, z>>

RequestReset == <<On("token", Session, "no key"), User("key")>>

(* The flush: audit, the link, the password. *)
CompleteReset(s) == Ends(User("key"), On("token", {s}, "no key"), User("no key"))

Reset == Ends(On("token", Session, "no key"), User("no key"), {})

(* An edit of role, MFA or enabled.  It may change the address, which is a *)
(* key of the user's, and assigns the applications that stay again.        *)
Edit == Ends(On("token", Session, "no key"), User("update"), Radar("key"))

(* An edit that takes an application away. *)
Unassign ==
    <<On("code", Session, "no key"), On("app", Session, "no key"), User("update"),
      Radar("key")>>

(* The sessions' cascade is row by row, here table by table: with every    *)
(* session locked that makes no difference.  Sign-ins that are old go      *)
(* last, by the cascade of the user.                                       *)
Delete(old) ==
    <<On("session", Session, "update"), On("code", Session, "update"),
      On("app", Session, "update"), On("token", Session, "update"),
      On("pre", Session \ old, "no key"), On("challenge", Session \ old, "no key"),
      User("update"), On("pre", old, "update") \cup On("challenge", old, "update")>>

(* The locks of a request, each with the place of its statement. *)
Todo(statements) ==
    UNION {{<<i, l>> : l \in statements[i]} : i \in DOMAIN statements}

(* Every request there is: name, old rows, statements. *)
Request(kind, old, statements) ==
    [kind |-> kind, old |-> old, todo |-> Todo(statements)]

OfTheUser ==
    {Request("login", {}, Login), Request("mfa login", {}, MfaLogin),
     Request("request reset", {}, RequestReset), Request("reset", {}, Reset),
     Request("edit", {}, Edit), Request("unassign", {}, Unassign)}

OfSession(s) ==
    {Request("verify", {}, Verify(s)), Request("resend", {}, Resend(s)),
     Request("cancel", {}, Cancel(s)), Request("visit", {}, Visit(s)),
     Request("expire", {}, Expire(s)), Request("logout", {}, Logout(s)),
     Request("introspect", {}, Introspect(s)), Request("revoke", {}, Revoke(s)),
     Request("complete reset", {}, CompleteReset(s))}

WithOld(s, old) ==
    {Request("authorize", old, Authorize(s, old)),
     Request("exchange", old, Exchange(s, old)), Request("cleanup", old, Cleanup(old)),
     Request("delete", old, Delete(old))}

Requests ==
    OfTheUser \cup (UNION {OfSession(s) : s \in Session})
              \cup (UNION {WithOld(s, old) : s \in Session, old \in SUBSET Session})

NoRequest == [kind |-> "idle", old |-> {}, todo |-> {}]

-----------------------------------------------------------------------------
Init ==
    /\ req = [w \in Worker |-> NoRequest]
    /\ want = [w \in Worker |-> NoLock]
    /\ held = [w \in Worker |-> {}]

Begin(w) ==
    /\ req[w].kind = "idle"
    /\ \E r \in Requests : req' = [req EXCEPT ![w] = r]
    /\ UNCHANGED <<want, held>>

(* The next row of the statement at hand. *)
Ask(w) ==
    /\ want[w] = NoLock
    /\ \E x \in req[w].todo :
        /\ \A y \in req[w].todo : x[1] <= y[1]
        /\ want' = [want EXCEPT ![w] = x[2]]
        /\ req' = [req EXCEPT ![w].todo = @ \ {x}]
    /\ UNCHANGED held

(* w waits for a row that v has locked. *)
WaitsFor(w, v) ==
    /\ w # v
    /\ \E l \in held[v] : l[1] = want[w][1] /\ Excludes(l[2], want[w][2])

Grant(w) ==
    /\ want[w] # NoLock /\ \A v \in Worker : ~WaitsFor(w, v)
    /\ held' = [held EXCEPT ![w] = @ \cup {want[w]}]
    /\ want' = [want EXCEPT ![w] = NoLock]
    /\ UNCHANGED req

LeaveOpen(w) ==                                                     \* mutant
    /\ req' = [req EXCEPT ![w] = NoRequest]
    /\ want' = [want EXCEPT ![w] = NoLock]
    /\ UNCHANGED held

(* The session is closed: commit or not, the locks are gone. *)
Close(w) ==
    /\ req' = [req EXCEPT ![w] = NoRequest]
    /\ want' = [want EXCEPT ![w] = NoLock]
    /\ held' = [held EXCEPT ![w] = {}]

End(w) == req[w].kind # "idle" /\ req[w].todo = {} /\ want[w] = NoLock /\ Close(w)

(* Early returns, errors, lost connections. *)
Fail(w) == req[w].kind # "idle" /\ Close(w)

(* S has those of ws whom w waits for, and whom they wait for in turn. *)
Ahead(S, w, ws) == \A u \in S \cup {w}, v \in ws : WaitsFor(u, v) => v \in S

(* Those of ws that wait for each other in a circle: w is ahead of itself. *)
Circle(ws) == {w \in ws : \A S \in SUBSET ws : Ahead(S, w, ws) => w \in S}

(* deadlock_timeout: PostgreSQL breaks the circle; nobody tries again. *)
Victim(w) == w \in Circle(Worker) /\ Close(w)

Step(w) == Ask(w) \/ Grant(w) \/ End(w)

Next == \E w \in Worker : Begin(w) \/ Step(w) \/ Fail(w) \/ Victim(w)

(* Threads that may run do, PostgreSQL looks for deadlocks, and does not   *)
(* pass over a waiter whose row is free again and again.                   *)
Fairness == \A w \in Worker :
    WF_vars(Ask(w)) /\ SF_vars(Grant(w)) /\ WF_vars(End(w)) /\ WF_vars(Victim(w))

Spec == Init /\ [][Next]_vars /\ Fairness

-----------------------------------------------------------------------------
(* Requests that may lock several rows of one table. *)
Several(w) ==
    req[w].kind \in {"resend", "cancel", "request reset", "complete reset", "reset",
                     "edit", "unassign", "delete"}

Inverted(w) ==
    req[w].kind \in {"mfa login", "authorize", "expire"} \/ req[w].old # {}

(* The services lock a session before its code, before its application     *)
(* session, these before a sign-in, before its mailed code, before the     *)
(* user, before the application.  Requests that keep to that never         *)
(* deadlock, one that locks several rows of a table among them: it takes   *)
(* an authorize, which starts at the application, an expiry, which starts  *)
(* at the code, a new sign-in with MFA, which starts at the user, or a     *)
(* cleanup or a deletion that meets old rows (exchange_authorization_code, *)
(* introspect_application_session, revoke_session, get_pre_auth_session,   *)
(* revoke_user_auth_state).                                                *)
OrderedRequestsNeverDeadlock ==
    \A ws \in SUBSET {w \in Worker : ~Inverted(w)} :
        (\A v, w \in ws : Several(v) /\ Several(w) => v = w)
            => Circle(ws) = {}

(* No request waits for ever, whatever it meets (get_db).                  *)
EveryRequestEnds == \A w \in Worker : req[w].kind # "idle" ~> req[w].kind = "idle"

=============================================================================
