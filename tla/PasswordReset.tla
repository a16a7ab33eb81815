----------------------------- MODULE PasswordReset -----------------------------
(***************************************************************************)
(* The mailed password-reset links of one account, the sessions its        *)
(* password opens, and the administrator's resets beside them.  An UPDATE  *)
(* over many rows is two steps, as in MfaLogin: the rows it sees (found),  *)
(* and those that still match once nobody else holds one of them (rows).   *)
(* The ORM's own writes are sent at the commit.                            *)
(***************************************************************************)
EXTENDS Integers, FiniteSets

CONSTANTS
    Token, Session,
    Worker,                  \* threads of the server
    None,
    Ttl,                     \* RESET_TOKEN_TTL_SECONDS
    MaxTime, MaxPassword     \* bounds: the clock, the passwords ever set

ASSUME TtlIsPositive == Ttl \in Nat \ {0} /\ MaxTime \in Nat /\ MaxPassword \in Nat
ASSUME RowsAreDistinct == Token \cap Session = {} /\ None \notin Token \cup Worker
ASSUME ThreadsAreFinite == IsFiniteSet(Worker)

VARIABLES
    pool,                \* the threads of this server, each with a connection
    enabled, password,   \* the account; passwords are numbered as they are set
    tok,                 \* table password_reset_tokens
    sess,                \* table sessions
    req,                 \* the request each worker serves
    now,
    uses,                \* history: how often each link has set a password
    author,              \* history: the worker that committed each link
    unseen,              \* history: sessions opened since each worker looked for them
    late                 \* history: those the present password came too late to end

vars == <<pool, enabled, password, tok, sess, req, now, uses, author, unseen, late>>

NoToken == [status |-> "absent", used |-> FALSE, expires |-> 0]
NoSession == [status |-> "absent", password |-> 0]

NoRequest == [op |-> "idle", step |-> "begin", token |-> None, password |-> 0,
              expires |-> 0, found |-> {}, rows |-> {}]

Finish(w) == req' = [req EXCEPT ![w] = NoRequest]

Free(w, rows) == \A v \in Worker \ {w} : req[v].rows \cap rows = {}

Links == {t \in Token : tok[t].status = "stored" /\ ~tok[t].used}
Live == {s \in Session : sess[s].status = "live"}

Init ==
    /\ pool \in SUBSET Worker
    /\ enabled = TRUE /\ password = 0
    /\ tok = [t \in Token |-> NoToken]
    /\ sess = [s \in Session |-> NoSession]
    /\ req = [w \in Worker |-> NoRequest]
    /\ now = 0
    /\ uses = [t \in Token |-> 0] /\ author = [t \in Token |-> None]
    /\ unseen = [w \in Worker |-> {}] /\ late = {}

-----------------------------------------------------------------------------
Ends(w) == req[w].op \in {"complete", "reset", "disable"}
Looked(w) == Ends(w) /\ req[w].step \in {"sessions", "links", "commit"}

(* A login whose password is right, and the commit of its session. *)
SignInCheck(w) ==
    /\ req[w].op = "idle" /\ enabled
    /\ req' = [req EXCEPT ![w] = [NoRequest EXCEPT !.op = "signin", !.password = password]]
    /\ UNCHANGED <<enabled, password, tok, sess, now, uses, author, unseen, late>>

SignInCommit(w, s) ==
    /\ req[w].op = "signin"
    /\ sess[s].status = "absent"
    /\ sess' = [sess EXCEPT ![s] = [status |-> "live", password |-> req[w].password]]
    /\ Finish(w)
    /\ unseen' = [v \in Worker |-> IF Looked(v) THEN unseen[v] \cup {s} ELSE {}]
    /\ late' = IF req[w].password = password THEN late ELSE late \cup {s}
    /\ UNCHANGED <<enabled, password, tok, now, uses, author>>

-----------------------------------------------------------------------------
RequestKeep(w) ==                                                   \* mutant
    /\ req[w].op = "idle" /\ enabled
    /\ req' = [req EXCEPT ![w] = [NoRequest EXCEPT !.op = "request", !.step = "links"]]
    /\ UNCHANGED <<enabled, password, tok, sess, now, uses, author, unseen, late>>

(* A link is asked for: the UPDATE of the earlier ones begins, *)
Request(w) ==
    /\ req[w].op = "idle" /\ enabled
    /\ req' = [req EXCEPT ![w] = [NoRequest EXCEPT !.op = "request", !.step = "links",
                                                   !.found = Links]]
    /\ UNCHANGED <<enabled, password, tok, sess, now, uses, author, unseen, late>>

(* holds them and dates the new one while the mail is on its way, *)
HoldLinks(w) ==
    /\ req[w].step = "links" /\ Free(w, req[w].found)
    /\ req' = [req EXCEPT ![w].step = "commit",
                          ![w].rows = @ \cup (req[w].found \cap Links),
                          ![w].expires = IF req[w].op = "request" THEN now + Ttl ELSE 0]
    /\ UNCHANGED <<enabled, password, tok, sess, now, uses, author, unseen, late>>

UsedUp(rows) == [t \in Token |-> [tok[t] EXCEPT !.used = @ \/ t \in rows]]

MailFailed(w) ==                                                    \* mutant
    /\ req[w].op # "idle"
    /\ tok' = IF req[w].op = "request" THEN UsedUp(req[w].rows) ELSE tok
    /\ Finish(w)
    /\ UNCHANGED <<enabled, password, sess, now, uses, author, unseen, late>>

(* and commits with the new one when it has gone.  A failed delivery is    *)
(* Rollback.                                                               *)
RequestCommit(w, t) ==
    /\ req[w].op = "request" /\ req[w].step = "commit"
    /\ tok[t].status = "absent"
    /\ tok' = [UsedUp(req[w].rows) EXCEPT ![t] = [status |-> "stored", used |-> FALSE,
                                                  expires |-> req[w].expires]]
    /\ Finish(w)
    /\ author' = [author EXCEPT ![t] = w]
    /\ UNCHANGED <<enabled, password, sess, now, uses, unseen, late>>

-----------------------------------------------------------------------------
CompleteUsed(w, t) ==                                               \* mutant
    /\ req[w].op = "idle"
    /\ tok[t].status = "stored" /\ tok[t].expires > now
    /\ req' = [req EXCEPT ![w] = [NoRequest EXCEPT !.op = "complete", !.step = "user",
                                                   !.token = t]]
    /\ UNCHANGED <<enabled, password, tok, sess, now, uses, author, unseen, late>>

(* A link is presented; it is read without a lock, *)
Complete(w, t) ==
    /\ req[w].op = "idle"
    /\ t \in Links /\ tok[t].expires > now
    /\ req' = [req EXCEPT ![w] = [NoRequest EXCEPT !.op = "complete", !.step = "user",
                                                   !.token = t]]
    /\ UNCHANGED <<enabled, password, tok, sess, now, uses, author, unseen, late>>

(* and then its account; of a disabled one the request is refused, which   *)
(* is Rollback.                                                            *)
CompleteUser(w) ==
    /\ req[w].op = "complete" /\ req[w].step = "user" /\ enabled
    /\ req' = [req EXCEPT ![w].step = "begin"]
    /\ UNCHANGED <<enabled, password, tok, sess, now, uses, author, unseen, late>>

(* An administrator sets a password, or disables the account. *)
AdminStart(w, op) ==
    /\ req[w].op = "idle" /\ op \in {"reset", "disable"}
    /\ op = "disable" => enabled
    /\ req' = [req EXCEPT ![w] = [NoRequest EXCEPT !.op = op]]
    /\ UNCHANGED <<enabled, password, tok, sess, now, uses, author, unseen, late>>

Enable ==
    /\ ~enabled /\ enabled' = TRUE
    /\ UNCHANGED <<password, tok, sess, req, now, uses, author, unseen, late>>

(* revoke_user_auth_state: the sessions, *)
FindSessions(w) ==
    /\ Ends(w) /\ req[w].step = "begin"
    /\ req' = [req EXCEPT ![w].step = "sessions", ![w].found = Live]
    /\ unseen' = [unseen EXCEPT ![w] = {}]
    /\ UNCHANGED <<enabled, password, tok, sess, now, uses, author, late>>

SkipHeld(w) ==                                                      \* mutant
    /\ req[w].step = "sessions"
    /\ req' = [req EXCEPT ![w] = [@ EXCEPT
            !.rows = req[w].rows \cup {s \in req[w].found \cap Live : Free(w, {s})},
            !.step = IF req[w].op = "complete" THEN "commit" ELSE "links",
            !.found = IF req[w].op = "complete" THEN {} ELSE Links]]
    /\ UNCHANGED <<enabled, password, tok, sess, now, uses, author, unseen, late>>

(* and for an administrator the links too (HoldLinks). *)
HoldSessions(w) ==
    /\ req[w].step = "sessions" /\ Free(w, req[w].found)
    /\ req' = [req EXCEPT ![w] = [@ EXCEPT
            !.rows = req[w].rows \cup (req[w].found \cap Live),
            !.step = IF req[w].op = "complete" THEN "commit" ELSE "links",
            !.found = IF req[w].op = "complete" THEN {} ELSE Links]]
    /\ UNCHANGED <<enabled, password, tok, sess, now, uses, author, unseen, late>>

Revoked(rows) == [s \in Session |-> IF s \in rows THEN [sess[s] EXCEPT !.status = "revoked"]
                                                  ELSE sess[s]]

CompleteKeepingLink(w) ==                                           \* mutant
    /\ req[w].op = "complete" /\ req[w].step = "commit"
    /\ Free(w, {req[w].token})
    /\ password < MaxPassword /\ password' = password + 1
    /\ sess' = Revoked(req[w].rows)
    /\ uses' = [uses EXCEPT ![req[w].token] = @ + 1]
    /\ late' = unseen[w]
    /\ Finish(w)
    /\ UNCHANGED <<enabled, tok, now, author, unseen>>

(* The ORM writes the link it read, whatever the row says by now. *)
CompleteCommit(w) ==
    /\ req[w].op = "complete" /\ req[w].step = "commit"
    /\ Free(w, {req[w].token})
    /\ password < MaxPassword /\ password' = password + 1
    /\ tok' = UsedUp({req[w].token})
    /\ sess' = Revoked(req[w].rows)
    /\ uses' = [uses EXCEPT ![req[w].token] = @ + 1]
    /\ late' = unseen[w]
    /\ Finish(w)
    /\ UNCHANGED <<enabled, now, author, unseen>>

AdminCommit(w) ==
    /\ req[w].op \in {"reset", "disable"} /\ req[w].step = "commit"
    /\ IF req[w].op = "reset"
       THEN /\ password < MaxPassword /\ password' = password + 1
            /\ enabled' = enabled /\ late' = unseen[w]
       ELSE enabled' = FALSE /\ UNCHANGED <<password, late>>
    /\ tok' = UsedUp(req[w].rows)
    /\ sess' = Revoked(req[w].rows)
    /\ Finish(w)
    /\ UNCHANGED <<now, uses, author, unseen>>

-----------------------------------------------------------------------------
Rollback(w) ==
    /\ req[w].op # "idle" /\ Finish(w)
    /\ UNCHANGED <<enabled, password, tok, sess, now, uses, author, unseen, late>>

Tick ==
    /\ now < MaxTime /\ now' = now + 1
    /\ UNCHANGED <<enabled, password, tok, sess, req, uses, author, unseen, late>>

(* A request goes on, or its worker gives it up. *)
Step(w) ==
    \/ \E s \in Session : SignInCommit(w, s)
    \/ \E t \in Token : RequestCommit(w, t)
    \/ CompleteUser(w) \/ FindSessions(w) \/ HoldSessions(w) \/ HoldLinks(w)
    \/ CompleteCommit(w) \/ AdminCommit(w) \/ Rollback(w)

Serve(w) ==
    \/ SignInCheck(w) \/ Request(w) \/ Step(w)
    \/ \E t \in Token : Complete(w, t)
    \/ \E op \in {"reset", "disable"} : AdminStart(w, op)

Next ==
    /\ (\E w \in pool : Serve(w)) \/ Enable \/ Tick
    /\ UNCHANGED pool

Spec == Init /\ [][Next]_vars

-----------------------------------------------------------------------------
(* The tables and the requests; a link that has set a password is used up. *)
RowsOK ==
    /\ enabled \in BOOLEAN /\ password \in 0..MaxPassword /\ now \in 0..MaxTime
    /\ tok \in [Token -> [status : {"absent", "stored"}, used : BOOLEAN, expires : Nat]]
    /\ sess \in [Session -> [status : {"absent", "live", "revoked"}, password : 0..password]]
    /\ req \in [Worker -> [op : {"idle", "signin", "request", "complete", "reset", "disable"},
                           step : {"begin", "user", "sessions", "links", "commit"},
                           token : Token \cup {None}, password : 0..password, expires : Nat,
                           found : SUBSET (Token \cup Session),
                           rows : SUBSET (Token \cup Session)]]
    /\ uses \in [Token -> Nat] /\ author \in [Token -> Worker \cup {None}]
    /\ unseen \in [Worker -> SUBSET Session] /\ late \subseteq Session
    /\ \A t \in Token : uses[t] > 0 => tok[t].used

(* The threads of the server are among the workers, the rest is typed; a   *)
(* link that has set a password is used up (complete_password_reset).      *)
TypeOK == pool \subseteq Worker /\ RowsOK

(* A live session was opened with the password of now. *)
OldPasswordsOpenNothing == \A s \in Live : sess[s].password = password

(* Requests do not overlap. *)
Alone == \A v, w \in pool : v = w

(* A session outlives the password that opened it only if it was committed *)
(* after that password's successor had looked for sessions: whoever was in *)
(* before is out, however requests overlap (revoke_user_auth_state, called *)
(* by complete_password_reset and reset_password).                         *)
SurvivorsCameLate == \A s \in Live : sess[s].password # password => s \in late

(* Overlapping requests leave at most one link each, so that one at a time *)
(* there is one link (request_password_reset).                             *)
LinksAreBounded == Cardinality(Links) <= Cardinality(pool)

(* A link works at most once for each thread that had read it unused, so   *)
(* once when requests do not overlap (complete_password_reset).            *)
UsesAreBounded == \A t \in Token : uses[t] <= Cardinality(pool)

(* A link goes out of use because it was followed, a newer one took its    *)
(* place, or an administrator ended it: never for a message that could not *)
(* be sent (request_password_reset).                                       *)
NoLinkIsLost ==
    [][\A t \in Links : t \notin Links' =>
            \/ uses'[t] > uses[t]
            \/ Links' \ Links # {}
            \/ \E w \in Worker : AdminCommit(w)]_vars

=============================================================================
