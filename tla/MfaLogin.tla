------------------------------- MODULE MfaLogin -------------------------------
(***************************************************************************)
(* Sign-in: password, mailed code, session.  A request is a thread with a  *)
(* transaction of its own (READ COMMITTED).                                *)
(*                                                                         *)
(* An UPDATE over many rows takes two steps: the rows it sees when it      *)
(* starts (req.found), and, once no other transaction holds any of them,   *)
(* those that still match, which it then holds to its end (req.rows).  Its *)
(* writes are seen from the commit on.  A SELECT FOR UPDATE of one row is  *)
(* one step.  Two transactions that wait for each other are left to the    *)
(* database, which ends one of them (Rollback).                            *)
(***************************************************************************)
EXTENDS Integers, FiniteSets

CONSTANTS
    User, PreAuth, Challenge, Session,   \* identities of the rows
    Worker,                              \* threads of the server
    None,
    Kinds,                               \* the requests there are
    AttemptLimits,                       \* values of mfa_max_attempts
    CodeTtl, ResendDelay,                \* expiry of a code, least time between two
    MaxTime                              \* bound: where the clock stops

Operations == {"login", "resend", "verify", "cancel", "edit", "reset"}

ASSUME KindsAreKnown == Kinds \subseteq Operations
ASSUME LimitsArePositive == AttemptLimits \subseteq Nat \ {0}
ASSUME TimesArePositive == CodeTtl \in Nat \ {0} /\ ResendDelay \in Nat \ {0} /\ MaxTime \in Nat
ASSUME RowsAreDistinct ==
    /\ None \notin User \cup PreAuth \cup Challenge \cup Session
    /\ PreAuth \cap Challenge = {} /\ PreAuth \cap Session = {} /\ Challenge \cap Session = {}
    /\ Worker \cap (PreAuth \cup Session) = {}

VARIABLES
    pool,      \* the threads of this server, each with a connection
    account,   \* table users
    pre,       \* table pre_auth_sessions
    chal,      \* table email_mfa_challenges
    sess,      \* table sessions
    limit,     \* mfa_max_attempts
    req,       \* the request each worker is serving
    now,
    guesses,   \* history: answers given to codes presented for a challenge
    outdated   \* history: what rests on a password check before the last reset

vars == <<pool, account, pre, chal, sess, limit, req, now, guesses, outdated>>

Account == [enabled : BOOLEAN, mfa : BOOLEAN]

PreRow == [status : {"absent", "stored"}, user : User \cup {None}, expires : Nat,
           sent : Nat, completed : BOOLEAN, cancelled : BOOLEAN]
NoPre == [status |-> "absent", user |-> None, expires |-> 0, sent |-> 0,
          completed |-> FALSE, cancelled |-> FALSE]

ChalRow == [status : {"absent", "stored"}, pre : PreAuth \cup {None}, expires : Nat,
            used : BOOLEAN, invalidated : BOOLEAN, attempts : Nat]
NoChal == [status |-> "absent", pre |-> None, expires |-> 0,
           used |-> FALSE, invalidated |-> FALSE, attempts |-> 0]

SessRow == [status : {"absent", "stored"}, user : User \cup {None},
            via : PreAuth \cup {None}, revoked : BOOLEAN]
NoSess == [status |-> "absent", user |-> None, via |-> None, revoked |-> FALSE]

Verdicts == {"refused", "spent", "wrong", "last", "right"}

Request == [op : Operations \cup {"idle"},
            step : {"begin", "find", "invalidate", "mail", "plain", "locked",
                    "load", "sessions", "preauths", "challenges", "commit"},
            user : User \cup {None}, pre : PreAuth \cup {None},
            chal : Challenge \cup {None}, verdict : Verdicts, attempts : Nat,
            limit : AttemptLimits \cup {0}, at : Nat, copy : Account, want : Account,
            found : SUBSET (PreAuth \cup Challenge \cup Session),
            rows : SUBSET (PreAuth \cup Challenge \cup Session)]
Nothing == [enabled |-> FALSE, mfa |-> FALSE]
NoRequest == [op |-> "idle", step |-> "begin", user |-> None, pre |-> None,
              chal |-> None, verdict |-> "refused", attempts |-> 0, limit |-> 0, at |-> 0,
              copy |-> Nothing, want |-> Nothing, found |-> {}, rows |-> {}]

Finish(w) == req' = [req EXCEPT ![w] = NoRequest]

(* Nobody else holds one of the rows. *)
Free(w, rows) == \A v \in Worker \ {w} : req[v].rows \cap rows = {}

Open(p) == pre[p].status = "stored" /\ ~pre[p].completed /\ ~pre[p].cancelled
OpenOf(u) == {p \in PreAuth : Open(p) /\ pre[p].user = u}

Usable(c) == chal[c].status = "stored" /\ ~chal[c].used /\ ~chal[c].invalidated
UsableOn(p) == {c \in Challenge : Usable(c) /\ chal[c].pre = p}
UsableOf(u) == {c \in Challenge : Usable(c) /\ pre[chal[c].pre].user = u}

Live(s) == sess[s].status = "stored" /\ ~sess[s].revoked
LiveOf(u) == {s \in Session : Live(s) /\ sess[s].user = u}

-----------------------------------------------------------------------------
(* The password is right, the account enabled. *)
LoginRead(w, u) ==
    /\ req[w].op = "idle" /\ "login" \in Kinds
    /\ account[u].enabled
    /\ req' = [req EXCEPT ![w] =
            [NoRequest EXCEPT !.op = "login", !.user = u,
                              !.step = IF account[u].mfa THEN "find" ELSE "plain"]]
    /\ outdated' = outdated \ {w}
    /\ UNCHANGED <<account, pre, chal, sess, limit, now, guesses>>

NewSession(u, p) == [status |-> "stored", user |-> u, via |-> p, revoked |-> FALSE]

PlainLogin(w, s) ==
    /\ req[w].op = "login" /\ req[w].step = "plain"
    /\ sess[s].status = "absent"
    /\ sess' = [sess EXCEPT ![s] = NewSession(req[w].user, None)]
    /\ outdated' = IF w \in outdated THEN outdated \cup {s} ELSE outdated
    /\ Finish(w)
    /\ UNCHANGED <<account, pre, chal, limit, now, guesses>>

TakeUnlocked(w, p, op) ==                                           \* mutant
    /\ req[w].op = "idle"
    /\ pre[p].status = "stored"
    /\ op = "verify" => account[pre[p].user].enabled
    /\ req' = [req EXCEPT ![w] =
            [NoRequest EXCEPT !.op = op, !.step = "locked", !.user = pre[p].user,
                              !.limit = IF op = "verify" THEN limit ELSE 0, !.pre = p]]
    /\ UNCHANGED <<account, pre, chal, sess, limit, now, guesses, outdated>>

(* Resend, verify and cancel lock the row of the pre-authentication first, *)
(* which is also when they read it.  Verify reads the user and the setting *)
(* next, before it waits for the challenge.                                *)
Take(w, p, op) ==
    /\ req[w].op = "idle"
    /\ pre[p].status = "stored"
    /\ op = "verify" => account[pre[p].user].enabled
    /\ Free(w, {p})
    /\ req' = [req EXCEPT ![w] =
            [NoRequest EXCEPT !.op = op, !.step = "locked", !.user = pre[p].user,
                              !.limit = IF op = "verify" THEN limit ELSE 0, !.pre = p,
                              !.rows = {p}]]
    /\ UNCHANGED <<account, pre, chal, sess, limit, now, guesses, outdated>>

-----------------------------------------------------------------------------
MayResend(p) ==
    /\ Open(p) /\ pre[p].expires > now
    /\ account[pre[p].user].enabled
    /\ pre[p].sent + ResendDelay <= now

SendFindOwn(w) ==                                                   \* mutant
    /\ \/ req[w].op = "login" /\ req[w].step = "find"
       \/ req[w].op = "resend" /\ req[w].step = "locked" /\ MayResend(req[w].pre)
    /\ req' = [req EXCEPT ![w].step = "invalidate", ![w].at = now,
                          ![w].found = UsableOn(req[w].pre)]
    /\ UNCHANGED <<account, pre, chal, sess, limit, now, guesses, outdated>>

(* The challenges of the user, whichever sign-in they belong to, are       *)
(* invalidated, a new one is inserted and mailed, all before the commit.   *)
SendFind(w) ==
    /\ \/ req[w].op = "login" /\ req[w].step = "find"
       \/ req[w].op = "resend" /\ req[w].step = "locked" /\ MayResend(req[w].pre)
    /\ req' = [req EXCEPT ![w].step = "invalidate", ![w].at = now,
                          ![w].found = UsableOf(req[w].user)]
    /\ UNCHANGED <<account, pre, chal, sess, limit, now, guesses, outdated>>

SendInvalidate(w) ==
    /\ req[w].step = "invalidate"
    /\ Free(w, req[w].found)
    /\ req' = [req EXCEPT ![w].step = "mail", ![w].found = {},
                          ![w].rows = @ \cup {c \in req[w].found : Usable(c)}]
    /\ UNCHANGED <<account, pre, chal, sess, limit, now, guesses, outdated>>

SentUnsaved(w, p) == [pre[p] EXCEPT !.sent = req[w].at]             \* mutant
Sent(w, p) ==
    IF req[w].op = "login"
    THEN [status |-> "stored", user |-> req[w].user, expires |-> req[w].at + CodeTtl,
          sent |-> req[w].at, completed |-> FALSE, cancelled |-> FALSE]
    ELSE [pre[p] EXCEPT !.sent = req[w].at]

NewChallenge(w, p) ==
    [status |-> "stored", pre |-> p, expires |-> req[w].at + CodeTtl,
     used |-> FALSE, invalidated |-> FALSE, attempts |-> 0]

(* What is held is invalidated by the commit. *)
Invalidated(w) ==
    [c \in Challenge |-> IF c \in req[w].rows THEN [chal[c] EXCEPT !.invalidated = TRUE]
                                              ELSE chal[c]]

SendCommit(w, p, c) ==
    /\ req[w].step = "mail"
    /\ chal[c].status = "absent"
    /\ \/ req[w].op = "login" /\ pre[p].status = "absent"
       \/ req[w].op = "resend" /\ p = req[w].pre
    /\ pre' = [pre EXCEPT ![p] = Sent(w, p)]
    /\ chal' = [Invalidated(w) EXCEPT ![c] = NewChallenge(w, p)]
    /\ outdated' = IF w \in outdated /\ req[w].op = "login" THEN outdated \cup {p} ELSE outdated
    /\ Finish(w)
    /\ UNCHANGED <<account, sess, limit, now, guesses>>

-----------------------------------------------------------------------------
(* The verdict of request r on a code for challenge c. *)
Verdict(r, c, matches) ==
    IF ~Open(r.pre) \/ pre[r.pre].expires <= now THEN "refused"
    ELSE IF chal[c].expires <= now \/ chal[c].attempts >= r.limit THEN "spent"
    ELSE IF matches THEN "right"
    ELSE IF chal[c].attempts + 1 >= r.limit THEN "last" ELSE "wrong"

VerifyDecideUnlocked(w, c, matches) ==                              \* mutant
    LET r == req[w] IN
    /\ r.op = "verify" /\ r.step = "locked"
    /\ c \in UsableOn(r.pre)
    /\ req' = [req EXCEPT ![w].step = "commit", ![w].chal = c,
                          ![w].attempts = chal[c].attempts,
                          ![w].verdict = Verdict(r, c, matches)]
    /\ UNCHANGED <<account, pre, chal, sess, limit, now, guesses, outdated>>

(* The challenge is locked when it is read. *)
VerifyDecide(w, c, matches) ==
    LET r == req[w] IN
    /\ r.op = "verify" /\ r.step = "locked"
    /\ c \in UsableOn(r.pre) /\ Free(w, UsableOn(r.pre))
    /\ req' = [req EXCEPT ![w].step = "commit", ![w].chal = c,
                          ![w].attempts = chal[c].attempts,
                          ![w].verdict = Verdict(r, c, matches),
                          ![w].rows = @ \cup {c}]
    /\ UNCHANGED <<account, pre, chal, sess, limit, now, guesses, outdated>>

(* Given up: the last attempt, or a code that was spent before. *)
GivesUp(verdict) == verdict \in {"spent", "last"}
Compared(verdict) == verdict \in {"wrong", "last", "right"}

VerifyRejectUncounted(w) ==                                         \* mutant
    LET r == req[w] IN
    /\ r.op = "verify" /\ r.step = "commit" /\ r.verdict # "right"
    /\ guesses' = [guesses EXCEPT ![r.chal] = IF Compared(r.verdict) THEN @ + 1 ELSE @]
    /\ Finish(w)
    /\ UNCHANGED <<account, pre, chal, sess, limit, now, outdated>>

VerifyReject(w) ==
    LET r == req[w] IN
    /\ r.op = "verify" /\ r.step = "commit" /\ r.verdict # "right"
    /\ chal' = [chal EXCEPT
            ![r.chal].attempts = IF Compared(r.verdict) THEN r.attempts + 1 ELSE @,
            ![r.chal].invalidated = @ \/ GivesUp(r.verdict)]
    /\ pre' = [pre EXCEPT ![r.pre].cancelled = @ \/ GivesUp(r.verdict)]
    /\ guesses' = [guesses EXCEPT ![r.chal] = IF Compared(r.verdict) THEN @ + 1 ELSE @]
    /\ Finish(w)
    /\ UNCHANGED <<account, sess, limit, now, outdated>>

VerifyAcceptOpen(w, s) ==                                           \* mutant
    LET r == req[w] IN
    /\ r.op = "verify" /\ r.step = "commit" /\ r.verdict = "right"
    /\ sess[s].status = "absent"
    /\ chal' = [chal EXCEPT ![r.chal].attempts = r.attempts + 1, ![r.chal].used = TRUE]
    /\ sess' = [sess EXCEPT ![s] = NewSession(r.user, r.pre)]
    /\ guesses' = [guesses EXCEPT ![r.chal] = @ + 1]
    /\ outdated' = IF r.pre \in outdated THEN outdated \cup {s} ELSE outdated
    /\ Finish(w)
    /\ UNCHANGED <<account, pre, limit, now>>

VerifyAccept(w, s) ==
    LET r == req[w] IN
    /\ r.op = "verify" /\ r.step = "commit" /\ r.verdict = "right"
    /\ sess[s].status = "absent"
    /\ chal' = [chal EXCEPT ![r.chal].attempts = r.attempts + 1, ![r.chal].used = TRUE]
    /\ pre' = [pre EXCEPT ![r.pre].completed = TRUE]
    /\ sess' = [sess EXCEPT ![s] = NewSession(r.user, r.pre)]
    /\ guesses' = [guesses EXCEPT ![r.chal] = @ + 1]
    /\ outdated' = IF r.pre \in outdated THEN outdated \cup {s} ELSE outdated
    /\ Finish(w)
    /\ UNCHANGED <<account, limit, now>>

(* A sign-in is cancelled whether or not it was completed. *)
Cancel(w) ==
    LET p == req[w].pre
        unused == {c \in Challenge : chal[c].status = "stored" /\ chal[c].pre = p /\ ~chal[c].used} IN
    /\ req[w].op = "cancel"
    /\ Free(w, unused)
    /\ pre' = [pre EXCEPT ![p].cancelled = TRUE]
    /\ chal' = [c \in Challenge |-> IF c \in unused THEN [chal[c] EXCEPT !.invalidated = TRUE]
                                                    ELSE chal[c]]
    /\ Finish(w)
    /\ UNCHANGED <<account, sess, limit, now, guesses, outdated>>

-----------------------------------------------------------------------------
(* An administrator's edit, and resets of the password or of MFA. *)
EndsSignIns(r) ==
    \/ r.op = "reset"
    \/ r.copy.enabled /\ ~r.want.enabled
    \/ r.copy.mfa # r.want.mfa

(* The account is loaded; *)
AdminStart(w, u, op, want) ==
    LET r == [NoRequest EXCEPT !.op = op, !.user = u, !.copy = account[u], !.want = want] IN
    /\ req[w].op = "idle"
    /\ op = "reset" => want = account[u]
    /\ req' = [req EXCEPT ![w] = [r EXCEPT !.step = IF EndsSignIns(r) THEN "load" ELSE "commit"]]
    /\ UNCHANGED <<account, pre, chal, sess, limit, now, guesses, outdated>>

(* sessions, then pre-authentications, then challenges: each statement     *)
(* finds its rows when the one before it has finished.                     *)
ResetFind(w) ==
    /\ req[w].step = "load"
    /\ req' = [req EXCEPT ![w].step = "sessions", ![w].found = LiveOf(req[w].user)]
    /\ UNCHANGED <<account, pre, chal, sess, limit, now, guesses, outdated>>

ResetSessions(w) ==
    /\ req[w].step = "sessions"
    /\ Free(w, req[w].found)
    /\ req' = [req EXCEPT ![w].step = "preauths", ![w].found = OpenOf(req[w].user),
                          ![w].rows = @ \cup {s \in req[w].found : Live(s)}]
    /\ UNCHANGED <<account, pre, chal, sess, limit, now, guesses, outdated>>

ResetPreAuthsNone(w) ==                                             \* mutant
    /\ req[w].step = "preauths"
    /\ req' = [req EXCEPT ![w].step = "challenges", ![w].found = UsableOf(req[w].user)]
    /\ UNCHANGED <<account, pre, chal, sess, limit, now, guesses, outdated>>

ResetPreAuths(w) ==
    /\ req[w].step = "preauths"
    /\ Free(w, req[w].found)
    /\ req' = [req EXCEPT ![w].step = "challenges", ![w].found = UsableOf(req[w].user),
                          ![w].rows = @ \cup {p \in req[w].found : Open(p)}]
    /\ UNCHANGED <<account, pre, chal, sess, limit, now, guesses, outdated>>

ResetChallenges(w) ==
    /\ req[w].step = "challenges"
    /\ Free(w, req[w].found)
    /\ req' = [req EXCEPT ![w].step = "commit", ![w].found = {},
                          ![w].rows = @ \cup {c \in req[w].found : Usable(c)}]
    /\ UNCHANGED <<account, pre, chal, sess, limit, now, guesses, outdated>>

(* Only changed columns are written. *)
Merged(current, copy, want) ==
    [enabled |-> IF want.enabled # copy.enabled THEN want.enabled ELSE current.enabled,
     mfa |-> IF want.mfa # copy.mfa THEN want.mfa ELSE current.mfa]

(* What has been built on the user's password until now. *)
BuiltOn(w, u) ==
    {p \in PreAuth : pre[p].user = u} \cup {s \in Session : sess[s].user = u}
        \cup {v \in Worker \ {w} : req[v].op = "login" /\ req[v].user = u}

AdminCommit(w) ==
    LET r == req[w] IN
    /\ r.op \in {"edit", "reset"} /\ r.step = "commit"
    /\ account' = [account EXCEPT ![r.user] = Merged(@, r.copy, r.want)]
    /\ sess' = [s \in Session |-> IF s \in r.rows THEN [sess[s] EXCEPT !.revoked = TRUE]
                                                  ELSE sess[s]]
    /\ pre' = [p \in PreAuth |-> IF p \in r.rows THEN [pre[p] EXCEPT !.cancelled = TRUE]
                                                 ELSE pre[p]]
    /\ chal' = Invalidated(w)
    /\ outdated' = IF EndsSignIns(r) THEN outdated \cup BuiltOn(w, r.user) ELSE outdated
    /\ Finish(w)
    /\ UNCHANGED <<limit, now, guesses>>

UpdateSettings(n) ==
    /\ limit' = n
    /\ UNCHANGED <<account, pre, chal, sess, req, now, guesses, outdated>>

-----------------------------------------------------------------------------
KeepInvalidated(w) ==                                               \* mutant
    /\ req[w].op # "idle"
    /\ Finish(w)
    /\ chal' = IF req[w].step = "mail" THEN Invalidated(w) ELSE chal
    /\ UNCHANGED <<account, pre, sess, limit, now, guesses, outdated>>

(* A refusal, a failed delivery, a lost connection, the victim of a deadlock. *)
Rollback(w) ==
    /\ req[w].op # "idle"
    /\ Finish(w)
    /\ UNCHANGED <<account, pre, chal, sess, limit, now, guesses, outdated>>

Tick ==
    /\ now < MaxTime
    /\ now' = now + 1
    /\ UNCHANGED <<account, pre, chal, sess, limit, req, guesses, outdated>>

Init ==
    /\ pool \in SUBSET Worker
    /\ account \in [User -> [enabled : {TRUE}, mfa : BOOLEAN]]
    /\ pre = [p \in PreAuth |-> NoPre]
    /\ chal = [c \in Challenge |-> NoChal]
    /\ sess = [s \in Session |-> NoSess]
    /\ limit \in AttemptLimits
    /\ req = [w \in Worker |-> NoRequest]
    /\ now = 0
    /\ guesses = [c \in Challenge |-> 0]
    /\ outdated = {}

Serve(w) ==
    \/ \E u \in User : LoginRead(w, u)
    \/ \E s \in Session : PlainLogin(w, s) \/ VerifyAccept(w, s)
    \/ \E p \in PreAuth, op \in Kinds \cap {"resend", "verify", "cancel"} : Take(w, p, op)
    \/ SendFind(w) \/ SendInvalidate(w)
    \/ \E p \in PreAuth, c \in Challenge : SendCommit(w, p, c)
    \/ \E c \in Challenge, matches \in BOOLEAN : VerifyDecide(w, c, matches)
    \/ VerifyReject(w) \/ Cancel(w)
    \/ \E u \in User, op \in Kinds \cap {"edit", "reset"}, want \in Account : AdminStart(w, u, op, want)
    \/ ResetFind(w) \/ ResetSessions(w) \/ ResetPreAuths(w) \/ ResetChallenges(w) \/ AdminCommit(w)
    \/ Rollback(w)

Next ==
    /\ \/ \E w \in pool : Serve(w)
       \/ \E n \in AttemptLimits : UpdateSettings(n)
       \/ Tick
    /\ UNCHANGED pool

Spec == Init /\ [][Next]_vars

-----------------------------------------------------------------------------
(* What the tables and the requests are, that children name rows that are  *)
(* stored, and that a row is held by one request.                          *)
RowsOK ==
    /\ account \in [User -> Account]
    /\ pre \in [PreAuth -> PreRow]
    /\ chal \in [Challenge -> ChalRow]
    /\ sess \in [Session -> SessRow]
    /\ \A p \in PreAuth : pre[p].status = "stored" => pre[p].user \in User
    /\ \A c \in Challenge : chal[c].status = "stored"
            => chal[c].pre \in PreAuth /\ pre[chal[c].pre].status = "stored"
    /\ \A s \in Session : sess[s].via # None => pre[sess[s].via].status = "stored"
    /\ limit \in AttemptLimits
    /\ req \in [Worker -> Request]
    /\ \A w \in Worker : Free(w, req[w].rows)
    /\ now \in Nat
    /\ guesses \in [Challenge -> Nat]
    /\ outdated \subseteq PreAuth \cup Session \cup Worker

(* The threads of the server are among the workers, the rest is typed. *)
TypeOK == pool \subseteq Worker /\ RowsOK

Via(p) == {s \in Session : sess[s].status = "stored" /\ sess[s].via = p}
UsedOn(p) == {c \in Challenge : chal[c].status = "stored" /\ chal[c].pre = p /\ chal[c].used}

(* A session that needed a code has a code of its own behind it: a sign-in *)
(* is completed by one used code, and opens one session, however many      *)
(* verifications, resends and cancellations of it overlap.                 *)
SignInsCompleteOnce ==
    \A p \in PreAuth :
        /\ pre[p].completed <=> Via(p) # {}
        /\ pre[p].completed <=> UsedOn(p) # {}
        /\ \A s, t \in Via(p) : s = t
        /\ \A c, d \in UsedOn(p) : c = d

(* A sign-in has one usable code at most, although resends overlap. *)
OneUsableCode == \A p \in PreAuth : \A c, d \in UsableOn(p) : c = d

(* A cancelled sign-in is not completed any more, a code that is void or   *)
(* used is not used again: not by a verification that had begun before.    *)
DeadStaysDead ==
    [][/\ \A p \in PreAuth : pre[p].cancelled => pre'[p].completed = pre[p].completed
       /\ \A c \in Challenge : chal[c].invalidated => chal'[c].used = chal[c].used]_vars

(* No more codes are tried on a challenge than the largest setting allows, *)
(* whether the setting changes or attempts overlap.                        *)
GuessesAreBounded == \A c \in Challenge : \E n \in AttemptLimits : guesses[c] <= n

(* Two codes of a sign-in are mailed at least the resend delay apart, by   *)
(* the clock that each request read.                                       *)
ResendsAreSpaced ==
    [][\A p \in PreAuth : pre[p].status = "stored" /\ pre'[p].sent # pre[p].sent
            => pre'[p].sent >= pre[p].sent + ResendDelay]_vars

(* A code stops being usable only by being used, with its sign-in, by a    *)
(* reset, or when a new code of the user takes its place: never by a       *)
(* message that could not be sent.                                         *)
NoCodeIsLost ==
    [][\A c \in Challenge : Usable(c) =>
            \/ Usable(c)' \/ chal'[c].used
            \/ pre'[chal[c].pre].cancelled \/ chal[c].pre \in outdated'
            \/ \E d \in Challenge : chal[d].status = "absent" /\ Usable(d)']_vars

(* When requests do not overlap, a message makes every earlier code of the *)
(* user void, whichever sign-in it belongs to.                             *)
OneCodePerUser ==
    \A c, d \in Challenge :
        Usable(c) /\ Usable(d) /\ pre[chal[c].pre].user = pre[chal[d].pre].user => c = d

(* When requests do not overlap, nothing that rests on a password check    *)
(* before a reset is left: no live session, no open sign-in, no code.      *)
ResetEndsSignIns ==
    /\ \A s \in Session : Live(s) => s \notin outdated
    /\ \A p \in PreAuth : Open(p) => p \notin outdated
    /\ \A c \in Challenge : Usable(c) => chal[c].pre \notin outdated

(* Requests do not overlap. *)
Alone == \A v, w \in pool : v = w

(* One at a time, a message makes every earlier code of the user void,     *)
(* whichever sign-in it belongs to, and a reset leaves nothing that rests  *)
(* on an earlier password check: no live session, no open sign-in, no code *)
(* (create_email_challenge, reset_mfa).                                    *)
OneAtATime == Alone => OneCodePerUser /\ ResetEndsSignIns

=============================================================================
