---------------------------- MODULE MfaLoginProofs ----------------------------
(***************************************************************************)
(* Sign-in for any number of users, rows, workers and durations: one       *)
(* usable code and one session for a sign-in, dead codes stay dead,        *)
(* guesses are bounded, messages are spaced, no code is lost.              *)
(*                                                                         *)
(* Each step of a worker either changes nothing but its own request        *)
(* (Local) or ends it and writes only rows that no other request holds     *)
(* (Respects).  What a request relies on (Secured) concerns the rows that  *)
(* it holds, so the steps of others leave it alone.                        *)
(***************************************************************************)
EXTENDS MfaLogin, TLAPS

HoldsPre(op) == op \in {"resend", "verify", "cancel"}
IsAdmin(op) == op \in {"edit", "reset"}

(* What each request relies on. *)
Secured(w) ==
    LET r == req[w] IN
    /\ r.op # "idle" => r.user \in User
    /\ HoldsPre(r.op) => /\ r.pre \in PreAuth /\ r.pre \in r.rows
                         /\ pre[r.pre].status = "stored" /\ pre[r.pre].user = r.user
    /\ r.op = "login" => r.step \in {"find", "plain", "invalidate", "mail"}
    /\ r.op \in {"verify", "cancel"} => r.step \in {"locked", "commit"}
    /\ r.op = "verify" => r.limit \in AttemptLimits
    /\ r.op = "resend" => r.step \in {"locked", "invalidate", "mail"}
    /\ IsAdmin(r.op) => r.step \in {"load", "sessions", "preauths", "challenges", "commit"}
    /\ r.op = "idle" => r.step = "begin"
    /\ ~IsAdmin(r.op) => r.found \subseteq Challenge
    /\ \A q \in r.rows \cap PreAuth : pre[q].status = "stored"
    /\ \A c \in r.rows \cap Challenge : Usable(c)

SecuredResend(w) ==
    LET r == req[w] IN
    r.op = "resend" /\ r.step \in {"invalidate", "mail"} =>
        /\ Open(r.pre) /\ pre[r.pre].sent + ResendDelay <= r.at
        /\ r.step = "invalidate" => UsableOn(r.pre) \subseteq r.found
        /\ r.step = "mail" => UsableOn(r.pre) \subseteq r.rows

SecuredVerify(w) ==
    LET r == req[w] IN
    r.op = "verify" /\ r.step = "commit" =>
        /\ r.chal \in Challenge /\ r.chal \in r.rows
        /\ chal[r.chal].pre = r.pre /\ chal[r.chal].attempts = r.attempts
        /\ r.verdict = "right" => Open(r.pre)
        /\ Compared(r.verdict) => \E n \in AttemptLimits : r.attempts + 1 <= n

SecuredAdmin(w) ==
    LET r == req[w] IN
    IsAdmin(r.op) =>
        /\ r.step # "commit" \/ r.rows # {} => EndsSignIns(r)
        /\ r.step = "sessions" => r.found \subseteq Session
        /\ r.step = "preauths" => r.found \subseteq PreAuth
        /\ r.step = "challenges" => r.found \subseteq Challenge
        /\ \A c \in (r.rows \cup r.found) \cap Challenge :
                chal[c].status = "stored" /\ pre[chal[c].pre].user = r.user

AllSecured == \A w \in Worker :
    Secured(w) /\ SecuredResend(w) /\ SecuredVerify(w) /\ SecuredAdmin(w)

(* Answers given are counted, and only up to a limit. *)
Counted == \A c \in Challenge :
    /\ guesses[c] = chal[c].attempts
    /\ chal[c].status = "absent" => chal[c] = NoChal
    /\ \E n \in AttemptLimits : guesses[c] <= n

MfaInv == RowsOK /\ AllSecured /\ Counted /\ SignInsCompleteOnce /\ OneUsableCode

-----------------------------------------------------------------------------
LEMMA MfaInitInv == Init => MfaInv
<1> SUFFICES ASSUME Init PROVE MfaInv
  OBVIOUS
<1> USE DEF Init
<1>1. RowsOK
  <2>1. NoPre \in PreRow /\ NoChal \in ChalRow /\ NoSess \in SessRow /\ NoRequest \in Request
    BY DEF NoPre, PreRow, NoChal, ChalRow, NoSess, SessRow, NoRequest, Request, Nothing,
           Account, Verdicts, Operations
  <2>2. account \in [User -> Account]
    BY DEF Account
  <2>3. \A w \in Worker : Free(w, req[w].rows)
    BY DEF Free, NoRequest
  <2>4. \A s \in Session : sess[s].via = None
    BY DEF NoSess
  <2>5. \A c \in Challenge : chal[c].status # "stored"
    BY DEF NoChal
  <2>6. \A p \in PreAuth : pre[p].status # "stored"
    BY DEF NoPre
  <2>7. QED
    BY <2>1, <2>2, <2>3, <2>4, <2>5, <2>6 DEF RowsOK
<1>2. AllSecured
  BY DEF AllSecured, Secured, SecuredResend, SecuredVerify, SecuredAdmin, NoRequest, HoldsPre, IsAdmin
<1>3. Counted
  BY LimitsArePositive DEF Counted, NoChal
<1>4. SignInsCompleteOnce
  BY DEF SignInsCompleteOnce, Via, UsedOn, NoPre, NoChal, NoSess
<1>5. OneUsableCode
  BY DEF OneUsableCode, UsableOn, Usable, NoChal
<1>6. QED
  BY <1>1, <1>2, <1>3, <1>4, <1>5 DEF MfaInv

-----------------------------------------------------------------------------
(* A step of w that changes its own request only. *)
Tables == <<account, pre, chal, sess, limit, now, guesses>>

Local(w) ==
    /\ UNCHANGED Tables
    /\ req' = [req EXCEPT ![w] = req'[w]]
    /\ req'[w] \in Request
    /\ \A v \in Worker \ {w} : req[v].rows \cap req'[w].rows = {}
    /\ outdated' = outdated \ {w} \/ outdated' = outdated

(* A step of w that ends its request and spares what others hold. *)
Respects(w) ==
    /\ Finish(w)
    /\ \A v \in Worker \ {w} : \A p \in PreAuth \cap req[v].rows : pre'[p] = pre[p]
    /\ \A v \in Worker \ {w} : \A c \in Challenge \cap req[v].rows : chal'[c] = chal[c]
    /\ \A p \in PreAuth : pre[p].status = "stored"
            => pre'[p].status = "stored" /\ pre'[p].user = pre[p].user
    /\ \A c \in Challenge : chal[c].status = "stored"
            => /\ chal'[c].status = "stored" /\ chal'[c].pre = chal[c].pre
               /\ Usable(c)' => Usable(c)
    /\ \A v \in Worker \ {w} : \A c \in Challenge :
            chal[c].status # "stored" /\ Usable(c)' => chal'[c].pre \notin req[v].rows

LEMMA LocalKeeps ==
    ASSUME MfaInv, NEW w \in Worker, Local(w)
    PROVE  /\ RowsOK' /\ Counted' /\ SignInsCompleteOnce' /\ OneUsableCode'
           /\ \A v \in Worker \ {w} :
                Secured(v)' /\ SecuredResend(v)' /\ SecuredVerify(v)' /\ SecuredAdmin(v)'
<1> USE DEF MfaInv
<1>1. \A v \in Worker \ {w} : req'[v] = req[v]
  BY DEF Local, RowsOK
<1>2. RowsOK'
  <2>1. req' \in [Worker -> Request]
    BY DEF Local, RowsOK
  <2>2. (\A v \in Worker : Free(v, req[v].rows))'
    BY <1>1 DEF Free, RowsOK, Local
  <2>3. (outdated \subseteq PreAuth \cup Session \cup Worker)'
    BY DEF RowsOK, Local
  <2>4. QED
    BY <2>1, <2>2, <2>3 DEF RowsOK, Local, Tables
<1>3. Counted' /\ SignInsCompleteOnce' /\ OneUsableCode'
  BY DEF Local, Tables, Counted, SignInsCompleteOnce, Via, UsedOn, OneUsableCode, UsableOn, Usable
<1>4. ASSUME NEW v \in Worker \ {w}
      PROVE  Secured(v)' /\ SecuredResend(v)' /\ SecuredVerify(v)' /\ SecuredAdmin(v)'
  <2>1. Secured(v) /\ SecuredResend(v) /\ SecuredVerify(v) /\ SecuredAdmin(v)
    BY DEF AllSecured
  <2>2. req'[v] = req[v]
    BY <1>1
  <2>3. pre' = pre /\ chal' = chal
    BY DEF Local, Tables
  <2>4. Secured(v)'
    BY <2>1, <2>2, <2>3 DEF Secured, Usable
  <2>5. SecuredResend(v)'
    BY <2>1, <2>2, <2>3 DEF SecuredResend, Open, UsableOn, Usable
  <2>6. SecuredVerify(v)'
    BY <2>1, <2>2, <2>3 DEF SecuredVerify, Open
  <2>7. SecuredAdmin(v)'
    BY <2>1, <2>2, <2>3 DEF SecuredAdmin
  <2>8. QED
    BY <2>4, <2>5, <2>6, <2>7
<1>5. QED
  BY <1>2, <1>3, <1>4

LEMMA RespectsKeeps ==
    ASSUME MfaInv, NEW w \in Worker, Respects(w)
    PROVE  AllSecured' /\ req' \in [Worker -> Request] /\ (\A v \in Worker : Free(v, req[v].rows))'
<1> USE DEF MfaInv
<1>1. req'[w] = NoRequest /\ \A v \in Worker \ {w} : req'[v] = req[v]
  BY DEF Respects, Finish, RowsOK
<1>2. NoRequest \in Request
  BY DEF NoRequest, Request, Nothing, Account, Verdicts, Operations
<1>3. req' \in [Worker -> Request]
  BY <1>2 DEF Respects, Finish, RowsOK
<1>4. (\A v \in Worker : Free(v, req[v].rows))'
  BY <1>1 DEF Free, RowsOK, NoRequest
<1>5. (Secured(w) /\ SecuredResend(w) /\ SecuredVerify(w) /\ SecuredAdmin(w))'
  BY <1>1 DEF Secured, SecuredResend, SecuredVerify, SecuredAdmin, NoRequest, HoldsPre, IsAdmin
<1>6. ASSUME NEW v \in Worker \ {w}
      PROVE  (Secured(v) /\ SecuredResend(v) /\ SecuredVerify(v) /\ SecuredAdmin(v))'
  <2>1. Secured(v) /\ SecuredResend(v) /\ SecuredVerify(v) /\ SecuredAdmin(v)
    BY DEF AllSecured
  <2>2. req'[v] = req[v]
    BY <1>1
  <2>3. \A c \in Challenge \cap req[v].rows : chal'[c] = chal[c]
    BY DEF Respects
  <2>4. \A p \in PreAuth \cap req[v].rows : pre'[p] = pre[p]
    BY DEF Respects
  <2>5. Secured(v)'
    BY <2>1, <2>2, <2>3, <2>4 DEF Secured, Usable
  <2>6. SecuredResend(v)'
    <3> SUFFICES ASSUME req[v].op = "resend", req[v].step \in {"invalidate", "mail"}
                 PROVE  SecuredResend(v)'
      BY <2>2 DEF SecuredResend
    <3>1. req[v].pre \in PreAuth \cap req[v].rows
      BY <2>1 DEF Secured, HoldsPre
    <3>2. PICK p \in PreAuth \cap req[v].rows : p = req[v].pre
      BY <3>1
    <3>3. UsableOn(p)' \subseteq UsableOn(p)
      BY DEF Respects, UsableOn, Usable, RowsOK, ChalRow
    <3>4. Open(p)' /\ pre'[p] = pre[p]
      BY <2>1, <2>4, <3>2 DEF SecuredResend, Open
    <3>5. QED
      BY <2>1, <2>2, <3>2, <3>3, <3>4 DEF SecuredResend, UsableOn, Usable, Open
  <2>7. SecuredVerify(v)'
    <3> SUFFICES ASSUME req[v].op = "verify", req[v].step = "commit"
                 PROVE  SecuredVerify(v)'
      BY <2>2 DEF SecuredVerify
    <3>1. chal'[req[v].chal] = chal[req[v].chal]
      BY <2>1, <2>3 DEF SecuredVerify
    <3>2. pre'[req[v].pre] = pre[req[v].pre]
      BY <2>1, <2>4 DEF Secured, HoldsPre
    <3>3. QED
      BY <2>1, <2>2, <3>1, <3>2 DEF SecuredVerify, Open
  <2>8. SecuredAdmin(v)'
    <3> SUFFICES ASSUME IsAdmin(req[v].op),
                        NEW c \in (req[v].rows \cup req[v].found) \cap Challenge
                 PROVE  chal'[c].status = "stored" /\ pre'[chal'[c].pre].user = req[v].user
      BY <2>1, <2>2 DEF SecuredAdmin
    <3>1. chal[c].status = "stored" /\ pre[chal[c].pre].user = req[v].user
      BY <2>1 DEF SecuredAdmin
    <3>2. pre[chal[c].pre].status = "stored"
      BY <3>1 DEF RowsOK
    <3>3. chal[c].pre \in PreAuth
      BY <3>1 DEF RowsOK
    <3>4. QED
      BY <3>1, <3>2, <3>3 DEF Respects
  <2>9. QED
    BY <2>5, <2>6, <2>7, <2>8
<1>7. QED
  BY <1>3, <1>4, <1>5, <1>6 DEF AllSecured

-----------------------------------------------------------------------------
(* What the worker of a step relies on after it, with the rest. *)
SecuredSelf(w) == Secured(w) /\ SecuredResend(w) /\ SecuredVerify(w) /\ SecuredAdmin(w)

LEMMA LocalStep ==
    ASSUME MfaInv, NEW w \in Worker, Local(w), SecuredSelf(w)'
    PROVE  MfaInv'
  BY LocalKeeps DEF MfaInv, AllSecured, SecuredSelf

LEMMA RequestIsTyped ==
    ASSUME MfaInv, NEW w \in Worker
    PROVE  /\ req[w] \in Request
           /\ SecuredSelf(w)
           /\ \A v \in Worker \ {w} : req[v].rows \cap req[w].rows = {}
  BY DEF MfaInv, RowsOK, AllSecured, SecuredSelf, Free

LEMMA LoginReadStep ==
    ASSUME MfaInv, NEW w \in Worker, NEW u \in User, LoginRead(w, u)
    PROVE  MfaInv'
<1> DEFINE r == [NoRequest EXCEPT !.op = "login", !.user = u,
                                  !.step = IF account[u].mfa THEN "find" ELSE "plain"]
<1>1. req' = [req EXCEPT ![w] = r] /\ req'[w] = r
  BY DEF LoginRead, MfaInv, RowsOK
<1>2. r \in Request /\ r.rows = {} /\ r.found = {}
  BY DEF NoRequest, Request, Nothing, Account, Verdicts, Operations
<1>3. Local(w)
  BY <1>1, <1>2 DEF LoginRead, Local, Tables
<1>4. SecuredSelf(w)'
  <2>1. r.op = "login" /\ r.user = u /\ r.step \in {"find", "plain"}
    BY DEF NoRequest
  <2>2. QED
    BY <1>1, <1>2, <2>1
       DEF SecuredSelf, Secured, SecuredResend, SecuredVerify, SecuredAdmin, HoldsPre, IsAdmin
<1>5. QED
  BY <1>3, <1>4, LocalStep

LEMMA TakeStep ==
    ASSUME MfaInv, NEW w \in Worker, NEW p \in PreAuth,
           NEW op \in {"resend", "verify", "cancel"}, Take(w, p, op)
    PROVE  MfaInv'
<1> DEFINE r == [NoRequest EXCEPT !.op = op, !.step = "locked", !.user = pre[p].user,
                                  !.limit = IF op = "verify" THEN limit ELSE 0, !.pre = p,
                                  !.rows = {p}]
<1>1. req' = [req EXCEPT ![w] = r] /\ req'[w] = r
  BY DEF Take, MfaInv, RowsOK
<1>2. pre[p] \in PreRow /\ pre[p].status = "stored" /\ pre[p].user \in User /\ limit \in AttemptLimits
  BY DEF Take, MfaInv, RowsOK
<1>3. r \in Request
  BY ZenonT(60), <1>2
     DEF NoRequest, Request, Nothing, Account, Verdicts, Operations, PreRow
<1>4. Local(w)
  BY <1>1, <1>3 DEF Take, Local, Tables, Free, NoRequest
<1>5. SecuredSelf(w)'
  <2>1. r.op = op /\ r.step = "locked" /\ r.user = pre[p].user /\ r.pre = p /\ r.rows = {p}
          /\ r.found = {} /\ (op = "verify" => r.limit = limit)
    BY DEF NoRequest
  <2>2. UNCHANGED <<pre, chal>>
    BY DEF Take
  <2>3. r.rows \cap Challenge = {}
    BY <2>1, RowsAreDistinct
  <2>4. QED
    BY <1>1, <1>2, <2>1, <2>2, <2>3
       DEF SecuredSelf, Secured, SecuredResend, SecuredVerify, SecuredAdmin, HoldsPre, IsAdmin
<1>6. QED
  BY <1>4, <1>5, LocalStep

LEMMA SendFindStep ==
    ASSUME MfaInv, NEW w \in Worker, SendFind(w)
    PROVE  MfaInv'
<1> DEFINE r == [req[w] EXCEPT !.step = "invalidate", !.at = now, !.found = UsableOf(req[w].user)]
<1>1. req[w] \in Request /\ SecuredSelf(w) /\ now \in Nat
  BY RequestIsTyped DEF MfaInv, RowsOK
<1>2. req' = [req EXCEPT ![w] = r] /\ req'[w] = r
  BY <1>1 DEF SendFind, MfaInv, RowsOK, Request
<1>3. r \in Request /\ r.rows = req[w].rows
  BY <1>1 DEF Request, UsableOf
<1>4. Local(w)
  BY <1>2, <1>3, RequestIsTyped DEF SendFind, Local, Tables
<1>5. Secured(w)'
  <2>1. UsableOf(req[w].user) \subseteq Challenge
    BY DEF UsableOf
  <2>2. QED
    BY <1>1, <1>2, <2>1 DEF SendFind, SecuredSelf, Secured, HoldsPre, IsAdmin, Request, Usable
<1>6. SecuredResend(w)'
  <2> SUFFICES ASSUME req[w].op = "resend"
               PROVE  SecuredResend(w)'
    BY <1>1, <1>2 DEF SecuredResend, Request
  <2>1. PICK p \in PreAuth : p = req[w].pre /\ pre[p].user = req[w].user
    BY <1>1 DEF SecuredSelf, Secured, HoldsPre
  <2>2. Open(p) /\ pre[p].sent + ResendDelay <= now
    BY <2>1 DEF SendFind, MayResend
  <2>3. UsableOn(p) \subseteq UsableOf(req[w].user)
    BY <2>1 DEF UsableOn, UsableOf
  <2>4. r.op = "resend" /\ r.step = "invalidate" /\ r.pre = p /\ r.at = now
          /\ r.found = UsableOf(req[w].user)
    BY <1>1, <2>1 DEF Request
  <2>5. UNCHANGED <<pre, chal>>
    BY DEF SendFind
  <2>6. Open(p)' /\ pre'[p] = pre[p] /\ UsableOn(p)' = UsableOn(p)
    BY <2>2, <2>5 DEF Open, UsableOn, Usable
  <2>7. req'[w].op = "resend" /\ req'[w].step = "invalidate" /\ req'[w].pre = p
          /\ req'[w].at = now /\ UsableOn(p) \subseteq req'[w].found
    BY <1>2, <2>3, <2>4
  <2> HIDE DEF r
  <2>8. QED
    BY <2>2, <2>6, <2>7 DEF SecuredResend, Open, UsableOn, Usable
<1>7. SecuredVerify(w)' /\ SecuredAdmin(w)'
  BY <1>1, <1>2 DEF SendFind, SecuredVerify, SecuredAdmin, IsAdmin, Request
<1>8. QED
  BY <1>4, <1>5, <1>6, <1>7, LocalStep DEF SecuredSelf

LEMMA SendInvalidateStep ==
    ASSUME MfaInv, NEW w \in Worker, SendInvalidate(w)
    PROVE  MfaInv'
<1> DEFINE r == [req[w] EXCEPT !.step = "mail", !.found = {},
                     !.rows = @ \cup {c \in req[w].found : Usable(c)}]
<1>1. req[w] \in Request /\ SecuredSelf(w)
  BY RequestIsTyped
<1>2. req' = [req EXCEPT ![w] = r] /\ req'[w] = r
  BY <1>1 DEF SendInvalidate, MfaInv, RowsOK, Request
<1>3. r \in Request /\ r.rows = req[w].rows \cup {c \in req[w].found : Usable(c)}
  BY <1>1 DEF Request
<1>4. Local(w)
  BY <1>2, <1>3, RequestIsTyped DEF SendInvalidate, Local, Tables, Free
<1>5. Secured(w)'
  <2>1. Secured(w) /\ req[w].op \in {"login", "resend"}
    BY <1>1 DEF SendInvalidate, SecuredSelf, Secured, HoldsPre, IsAdmin, Request, Operations
  <2>2. ~IsAdmin(req[w].op) /\ req[w].found \subseteq Challenge
    BY <2>1 DEF Secured, IsAdmin
  <2>3. /\ r.op = req[w].op /\ r.user = req[w].user /\ r.pre = req[w].pre
        /\ r.step = "mail" /\ r.found = {}
    BY <1>1 DEF Request
  <2>4. r.rows \cap PreAuth = req[w].rows \cap PreAuth
    BY <1>3, <2>2, RowsAreDistinct
  <2>5. \A c \in r.rows \cap Challenge : Usable(c)
    BY <1>3, <2>1 DEF Secured
  <2>6. UNCHANGED <<pre, chal>>
    BY DEF SendInvalidate
  <2> HIDE DEF r
  <2>7. QED
    BY <1>2, <1>3, <2>1, <2>2, <2>3, <2>4, <2>5, <2>6 DEF Secured, HoldsPre, Usable
<1>6. SecuredResend(w)'
  <2> SUFFICES ASSUME req[w].op = "resend"
               PROVE  SecuredResend(w)'
    BY <1>1, <1>2 DEF SecuredResend, Request
  <2>1. PICK p \in PreAuth : p = req[w].pre
    BY <1>1 DEF SecuredSelf, Secured, HoldsPre
  <2>2. Open(p) /\ pre[p].sent + ResendDelay <= req[w].at /\ UsableOn(p) \subseteq req[w].found
    BY <1>1, <2>1 DEF SendInvalidate, SecuredSelf, SecuredResend
  <2>3. UsableOn(p) \subseteq r.rows
    BY <1>3, <2>2 DEF UsableOn
  <2>4. QED
    BY ZenonT(60), <1>1, <1>2, <2>1, <2>2, <2>3
       DEF SendInvalidate, SecuredResend, Request, Open, UsableOn, Usable
<1>7. SecuredVerify(w)' /\ SecuredAdmin(w)'
  BY <1>1, <1>2 DEF SendInvalidate, SecuredSelf, Secured, SecuredVerify, SecuredAdmin, IsAdmin, Request
<1>8. QED
  BY <1>4, <1>5, <1>6, <1>7, LocalStep DEF SecuredSelf

LEMMA VerifyDecideStep ==
    ASSUME MfaInv, NEW w \in Worker, NEW c \in Challenge, NEW matches \in BOOLEAN,
           VerifyDecide(w, c, matches)
    PROVE  MfaInv'
<1> DEFINE verdict == Verdict(req[w], c, matches)
           r == [req[w] EXCEPT !.step = "commit", !.chal = c, !.attempts = chal[c].attempts,
                               !.verdict = verdict, !.rows = @ \cup {c}]
<1>1. req[w] \in Request /\ SecuredSelf(w)
  BY RequestIsTyped
<1>2. PICK p \in PreAuth : p = req[w].pre
  BY <1>1 DEF VerifyDecide, SecuredSelf, Secured, HoldsPre
<1>3. /\ req' = [req EXCEPT ![w] = r] /\ req'[w] = r
      /\ Usable(c) /\ chal[c].pre = p /\ Free(w, UsableOn(p)) /\ c \in UsableOn(p)
      /\ UNCHANGED <<pre, chal>>
  BY <1>1, <1>2 DEF VerifyDecide, MfaInv, RowsOK, Request, UsableOn
<1>4. /\ verdict \in Verdicts /\ chal[c].attempts \in Nat
      /\ req[w].limit \in AttemptLimits /\ req[w].limit \in Nat
  BY <1>1, LimitsArePositive
     DEF VerifyDecide, SecuredSelf, Secured, Verdict, Verdicts, MfaInv, RowsOK, ChalRow
<1>5. r \in Request /\ r.rows = req[w].rows \cup {c} /\ r.op = "verify" /\ r.step = "commit"
        /\ r.pre = p /\ r.chal = c /\ r.attempts = chal[c].attempts /\ r.verdict = verdict
        /\ r.user = req[w].user /\ r.found = req[w].found /\ r.limit = req[w].limit
  BY <1>1, <1>2, <1>4 DEF VerifyDecide, Request
<1>6. verdict = "right" => Open(p)
  BY <1>2 DEF Verdict
<1>7. Compared(verdict) => chal[c].attempts + 1 <= req[w].limit
  BY <1>4 DEF Verdict, Compared
<1> HIDE DEF r, verdict
<1>8. Local(w)
  <2>1. \A v \in Worker \ {w} : c \notin req[v].rows /\ req[v].rows \cap req[w].rows = {}
    BY <1>3, RequestIsTyped DEF Free
  <2>2. QED
    BY <1>3, <1>5, <2>1 DEF VerifyDecide, Local, Tables
<1>9. Secured(w)'
  <2>1. Secured(w) /\ req[w].op = "verify"
    BY <1>1 DEF VerifyDecide, SecuredSelf
  <2>2. \A d \in r.rows \cap Challenge : Usable(d)'
    BY <1>3, <1>5, <2>1 DEF Secured, Usable
  <2>3. HoldsPre("verify") /\ ~IsAdmin("verify")
    BY DEF HoldsPre, IsAdmin
  <2>4. r.user \in User /\ p \in PreAuth /\ p \in r.rows /\ pre[p].status = "stored"
          /\ pre[p].user = r.user /\ r.limit \in AttemptLimits
    BY <1>2, <1>4, <1>5, <2>1, <2>3 DEF Secured
  <2>5. /\ r.found \subseteq Challenge
        /\ \A q \in r.rows \cap PreAuth : pre[q].status = "stored"
    BY <1>5, <2>1, <2>3, RowsAreDistinct DEF Secured
  <2>6. QED
    BY <1>3, <1>5, <2>2, <2>3, <2>4, <2>5 DEF Secured, Usable
<1>10. SecuredVerify(w)'
  BY <1>2, <1>3, <1>4, <1>5, <1>6, <1>7 DEF SecuredVerify, Open
<1>11. SecuredResend(w)' /\ SecuredAdmin(w)'
  BY <1>3, <1>5 DEF SecuredResend, SecuredAdmin, IsAdmin
<1>12. QED
  BY <1>8, <1>9, <1>10, <1>11, LocalStep DEF SecuredSelf

LEMMA AdminStartStep ==
    ASSUME MfaInv, NEW w \in Worker, NEW u \in User, NEW op \in {"edit", "reset"},
           NEW want \in Account, AdminStart(w, u, op, want)
    PROVE  MfaInv'
<1> DEFINE r0 == [NoRequest EXCEPT !.op = op, !.user = u, !.copy = account[u], !.want = want]
           step == IF EndsSignIns(r0) THEN "load" ELSE "commit"
           r == [r0 EXCEPT !.step = step]
<1>1. req' = [req EXCEPT ![w] = r] /\ req'[w] = r /\ UNCHANGED <<pre, chal>>
  BY DEF AdminStart, MfaInv, RowsOK
<1>2. r0 \in Request
  BY DEF NoRequest, Request, Nothing, Account, Verdicts, Operations, MfaInv, RowsOK
<1>3. r0.op = op /\ r0.user = u /\ r0.rows = {} /\ r0.found = {}
  BY DEF NoRequest
<1>a. step \in {"load", "commit"} /\ (step = "load" => EndsSignIns(r0))
  OBVIOUS
<1> HIDE DEF r0, step
<1>4. /\ r \in Request /\ r.op = op /\ r.user = u /\ r.rows = {} /\ r.found = {}
      /\ r.step \in {"load", "commit"}
      /\ r.step = "load" => EndsSignIns(r)
  BY <1>2, <1>3, <1>a DEF Request, EndsSignIns
<1> HIDE DEF r
<1>5. Local(w)
  BY <1>1, <1>4 DEF AdminStart, Local, Tables
<1>6. Secured(w)' /\ SecuredResend(w)' /\ SecuredVerify(w)'
  BY <1>1, <1>4 DEF Secured, SecuredResend, SecuredVerify, HoldsPre, IsAdmin
<1>7. SecuredAdmin(w)'
  BY <1>1, <1>4 DEF SecuredAdmin, IsAdmin
<1>8. QED
  BY <1>5, <1>6, <1>7, LocalStep DEF SecuredSelf

LEMMA ResetFindStep == ASSUME MfaInv, NEW w \in Worker, ResetFind(w) PROVE MfaInv'
<1> DEFINE r == [req[w] EXCEPT !.step = "sessions", !.found = LiveOf(req[w].user)]
<1>1. req[w] \in Request /\ SecuredSelf(w) /\ IsAdmin(req[w].op)
  BY RequestIsTyped
     DEF ResetFind, SecuredSelf, Secured, HoldsPre, IsAdmin, Request, Operations
<1>2. req' = [req EXCEPT ![w] = r] /\ req'[w] = r /\ UNCHANGED <<pre, chal>>
  BY <1>1 DEF ResetFind, MfaInv, RowsOK, Request
<1>3. LiveOf(req[w].user) \subseteq Session
  BY DEF LiveOf
<1>4. /\ r \in Request /\ r.op = req[w].op /\ r.user = req[w].user /\ r.rows = req[w].rows
      /\ r.copy = req[w].copy /\ r.want = req[w].want
      /\ r.found \subseteq Session /\ r.step = "sessions"
  BY <1>1, <1>3 DEF Request
<1> HIDE DEF r
<1>5. Local(w)
  <2>1. \A v \in Worker \ {w} : req[v].rows \cap req[w].rows = {}
    BY RequestIsTyped
  <2> QED
    BY <1>2, <1>4, <2>1 DEF ResetFind, Local, Tables
<1>6. Secured(w)' /\ SecuredResend(w)' /\ SecuredVerify(w)'
  BY <1>1, <1>2, <1>4
     DEF SecuredSelf, Secured, SecuredResend, SecuredVerify, HoldsPre, IsAdmin, Usable
<1>7. SecuredAdmin(w)'
  <2>1. EndsSignIns(r)
    BY <1>1, <1>4 DEF ResetFind, SecuredSelf, SecuredAdmin, EndsSignIns
  <2>2. \A c \in (r.rows \cup r.found) \cap Challenge :
            chal[c].status = "stored" /\ pre[chal[c].pre].user = r.user
    BY <1>1, <1>4, RowsAreDistinct DEF SecuredSelf, SecuredAdmin
  <2> QED
    BY <1>2, <1>4, <2>1, <2>2 DEF SecuredAdmin
<1>8. QED
  BY <1>5, <1>6, <1>7, LocalStep DEF SecuredSelf

LEMMA RollbackStep ==
    ASSUME MfaInv, NEW w \in Worker, Rollback(w)
    PROVE  MfaInv'
<1>1. req' = [req EXCEPT ![w] = NoRequest] /\ req'[w] = NoRequest
  BY DEF Rollback, Finish, MfaInv, RowsOK
<1>2. NoRequest \in Request /\ NoRequest.rows = {}
  BY DEF NoRequest, Request, Nothing, Account, Verdicts, Operations
<1>3. Local(w)
  BY <1>1, <1>2 DEF Rollback, Local, Tables
<1>4. SecuredSelf(w)'
  BY <1>1 DEF SecuredSelf, Secured, SecuredResend, SecuredVerify, SecuredAdmin, NoRequest,
              HoldsPre, IsAdmin
<1>5. QED
  BY <1>3, <1>4, LocalStep

(* The statements of a reset: each adds rows it waited for. *)
LEMMA StatementStep ==
    ASSUME MfaInv, NEW w \in Worker, UNCHANGED Tables, UNCHANGED outdated,
           req[w].step \in {"sessions", "preauths", "challenges"},
           NEW step \in {"preauths", "challenges", "commit"},
           NEW found \in SUBSET (PreAuth \cup Challenge \cup Session),
           step = "preauths" => found \subseteq PreAuth,
           step = "challenges" => found \subseteq Challenge,
           NEW more \in SUBSET req[w].found, Free(w, req[w].found),
           \A q \in more \cap PreAuth : pre[q].status = "stored",
           \A c \in more \cap Challenge : Usable(c),
           \A c \in found \cap Challenge :
                chal[c].status = "stored" /\ pre[chal[c].pre].user = req[w].user,
           req' = [req EXCEPT ![w].step = step, ![w].found = found, ![w].rows = @ \cup more]
    PROVE  MfaInv'
<1> DEFINE r == [req[w] EXCEPT !.step = step, !.found = found, !.rows = @ \cup more]
<1>1. req[w] \in Request /\ SecuredSelf(w)
  BY RequestIsTyped
<1>2. req' = [req EXCEPT ![w] = r] /\ req'[w] = r /\ UNCHANGED <<pre, chal>>
  BY <1>1 DEF MfaInv, RowsOK, Request, Tables
<1>3. /\ r \in Request /\ r.op = req[w].op /\ r.user = req[w].user
      /\ r.copy = req[w].copy /\ r.want = req[w].want
      /\ r.step = step /\ r.found = found /\ r.rows = req[w].rows \cup more
  BY ZenonT(60), <1>1 DEF Request
<1>4. IsAdmin(req[w].op)
  BY <1>1 DEF SecuredSelf, Secured, HoldsPre, IsAdmin, Request, Operations
<1> HIDE DEF r
<1>5. Local(w)
  <2>1. \A v \in Worker \ {w} : req[v].rows \cap r.rows = {}
    BY <1>3, RequestIsTyped DEF Free
  <2>2. QED
    BY <1>2, <1>3, <2>1 DEF Local
<1>6. Secured(w)'
  BY <1>1, <1>2, <1>3, <1>4 DEF SecuredSelf, Secured, HoldsPre, IsAdmin, Usable
<1>7. SecuredResend(w)' /\ SecuredVerify(w)'
  BY <1>2, <1>3, <1>4 DEF SecuredResend, SecuredVerify, IsAdmin
<1>8. SecuredAdmin(w)'
  BY <1>1, <1>2, <1>3, <1>4 DEF SecuredSelf, SecuredAdmin, EndsSignIns
<1>9. QED
  BY <1>5, <1>6, <1>7, <1>8, LocalStep DEF SecuredSelf

LEMMA ResetStep ==
    ASSUME MfaInv, NEW w \in Worker,
           ResetSessions(w) \/ ResetPreAuths(w) \/ ResetChallenges(w)
    PROVE  MfaInv'
<1>1. req[w] \in Request /\ SecuredSelf(w)
  BY RequestIsTyped
<1>2. \A u : \A c \in UsableOf(u) : chal[c].status = "stored" /\ pre[chal[c].pre].user = u
  BY DEF UsableOf, Usable
<1>3. OpenOf(req[w].user) \subseteq PreAuth /\ UsableOf(req[w].user) \subseteq Challenge
  BY DEF OpenOf, UsableOf
<1>4. CASE ResetSessions(w)
  <2> DEFINE more == {s \in req[w].found : Live(s)}
  <2>1. req[w].step = "sessions" /\ IsAdmin(req[w].op)
    BY <1>1, <1>4 DEF ResetSessions, SecuredSelf, Secured, HoldsPre, IsAdmin, Request, Operations
  <2>2. more \cap Challenge = {} /\ more \cap PreAuth = {}
    BY <1>1, <2>1, RowsAreDistinct DEF SecuredSelf, SecuredAdmin
  <2>3. OpenOf(req[w].user) \cap Challenge = {}
    BY <1>3, RowsAreDistinct
  <2>4. /\ UNCHANGED Tables /\ UNCHANGED outdated /\ Free(w, req[w].found)
        /\ req' = [req EXCEPT ![w].step = "preauths", ![w].found = OpenOf(req[w].user),
                              ![w].rows = @ \cup more]
    BY <1>4 DEF ResetSessions, Tables
  <2> HIDE DEF more
  <2>5. more \in SUBSET req[w].found
    BY DEF more
  <2>6. QED
    BY <1>3, <2>1, <2>2, <2>3, <2>4, <2>5, StatementStep
<1>5. CASE ResetPreAuths(w)
  <2> DEFINE more == {p \in req[w].found : Open(p)}
  <2>1. req[w].step = "preauths" /\ IsAdmin(req[w].op)
    BY <1>1, <1>5 DEF ResetPreAuths, SecuredSelf, Secured, HoldsPre, IsAdmin, Request, Operations
  <2>2. more \cap Challenge = {} /\ \A q \in more \cap PreAuth : pre[q].status = "stored"
    BY <1>1, <2>1, RowsAreDistinct DEF SecuredSelf, SecuredAdmin, Open
  <2>4. /\ UNCHANGED Tables /\ UNCHANGED outdated /\ Free(w, req[w].found)
        /\ req' = [req EXCEPT ![w].step = "challenges", ![w].found = UsableOf(req[w].user),
                              ![w].rows = @ \cup more]
    BY <1>5 DEF ResetPreAuths, Tables
  <2> HIDE DEF more
  <2>5. more \in SUBSET req[w].found
    BY DEF more
  <2>6. /\ UsableOf(req[w].user) \in SUBSET (PreAuth \cup Challenge \cup Session)
        /\ \A c \in UsableOf(req[w].user) \cap Challenge :
                chal[c].status = "stored" /\ pre[chal[c].pre].user = req[w].user
    BY <1>2, <1>3
  <2>7. QED
    BY <1>3, <2>1, <2>2, <2>4, <2>5, <2>6, StatementStep
<1>6. CASE ResetChallenges(w)
  <2> DEFINE more == {c \in req[w].found : Usable(c)}
  <2>1. req[w].step = "challenges" /\ IsAdmin(req[w].op)
    BY <1>1, <1>6 DEF ResetChallenges, SecuredSelf, Secured, HoldsPre, IsAdmin, Request, Operations
  <2>2. more \cap PreAuth = {}
    BY <1>1, <2>1, RowsAreDistinct DEF SecuredSelf, SecuredAdmin
  <2>4. /\ UNCHANGED Tables /\ UNCHANGED outdated /\ Free(w, req[w].found)
        /\ req' = [req EXCEPT ![w].step = "commit", ![w].found = {},
                              ![w].rows = @ \cup more]
    BY <1>6 DEF ResetChallenges, Tables
  <2>5. more \in SUBSET req[w].found /\ \A c \in more \cap Challenge : Usable(c)
    OBVIOUS
  <2> HIDE DEF more
  <2>6. {} \in SUBSET (PreAuth \cup Challenge \cup Session) /\ {} \cap Challenge = {}
    OBVIOUS
  <2>7. QED
    BY <2>1, <2>2, <2>4, <2>5, <2>6, StatementStep
<1>7. QED
  BY <1>4, <1>5, <1>6

-----------------------------------------------------------------------------
(* Commits. *)
TablesOK ==
    /\ account \in [User -> Account]
    /\ pre \in [PreAuth -> PreRow]
    /\ chal \in [Challenge -> ChalRow]
    /\ sess \in [Session -> SessRow]
    /\ \A p \in PreAuth : pre[p].status = "stored" => pre[p].user \in User
    /\ \A c \in Challenge : chal[c].status = "stored"
            => chal[c].pre \in PreAuth /\ pre[chal[c].pre].status = "stored"
    /\ \A s \in Session : sess[s].via # None => pre[sess[s].via].status = "stored"
    /\ limit \in AttemptLimits
    /\ now \in Nat
    /\ guesses \in [Challenge -> Nat]
    /\ outdated \subseteq PreAuth \cup Session \cup Worker

LEMMA CommitStep ==
    ASSUME MfaInv, NEW w \in Worker, Respects(w),
           TablesOK', Counted', SignInsCompleteOnce', OneUsableCode'
    PROVE  MfaInv'
  BY RespectsKeeps DEF TablesOK, RowsOK, MfaInv

LEMMA PlainLoginStep ==
    ASSUME MfaInv, NEW w \in Worker, NEW s \in Session, PlainLogin(w, s)
    PROVE  MfaInv'
<1>1. req[w] \in Request /\ SecuredSelf(w)
  BY RequestIsTyped
<1>2. NewSession(req[w].user, None) \in SessRow
  BY <1>1 DEF NewSession, SessRow, Request
<1>3. TablesOK'
  BY <1>2 DEF PlainLogin, TablesOK, MfaInv, RowsOK, NewSession
<1>4. Respects(w)
  BY DEF PlainLogin, Respects, Usable, MfaInv, RowsOK
<1>5. Counted' /\ OneUsableCode'
  BY DEF PlainLogin, MfaInv, Counted, OneUsableCode, UsableOn, Usable
<1>6. SignInsCompleteOnce'
  <2>1. \A p \in PreAuth : Via(p)' = Via(p) /\ UsedOn(p)' = UsedOn(p)
    BY RowsAreDistinct DEF PlainLogin, Via, UsedOn, NewSession, MfaInv, RowsOK
  <2>2. QED
    BY <2>1 DEF PlainLogin, MfaInv, SignInsCompleteOnce
<1>7. QED
  BY <1>3, <1>4, <1>5, <1>6, CommitStep

LEMMA VerifyRejectStep ==
    ASSUME MfaInv, NEW w \in Worker, VerifyReject(w)
    PROVE  MfaInv'
<1>1. req[w] \in Request /\ SecuredSelf(w)
  BY RequestIsTyped
<1>2. PICK p \in PreAuth, c \in Challenge : /\ p = req[w].pre /\ c = req[w].chal
                                            /\ p \in req[w].rows /\ c \in req[w].rows
  BY <1>1 DEF VerifyReject, SecuredSelf, Secured, SecuredVerify, HoldsPre
<1>3. /\ pre[p].status = "stored" /\ Usable(c) /\ chal[c].pre = p
      /\ chal[c].attempts = req[w].attempts /\ req[w].attempts \in Nat
      /\ Compared(req[w].verdict) => \E n \in AttemptLimits : req[w].attempts + 1 <= n
  BY <1>1, <1>2 DEF VerifyReject, SecuredSelf, Secured, SecuredVerify, HoldsPre, Request
<1> DEFINE gu == GivesUp(req[w].verdict)
           cp == Compared(req[w].verdict)
<1>4. gu \in BOOLEAN /\ cp \in BOOLEAN
  BY DEF GivesUp, Compared
<1>5. /\ chal' = [chal EXCEPT ![c] = [chal[c] EXCEPT
                    !.attempts = IF cp THEN req[w].attempts + 1 ELSE @,
                    !.invalidated = @ \/ gu]]
      /\ pre' = [pre EXCEPT ![p] = [pre[p] EXCEPT !.cancelled = @ \/ gu]]
      /\ guesses' = [guesses EXCEPT ![c] = IF cp THEN @ + 1 ELSE @]
      /\ Finish(w) /\ UNCHANGED <<account, sess, limit, now, outdated>>
  BY <1>2 DEF VerifyReject, MfaInv, RowsOK, ChalRow, PreRow
<1> HIDE DEF gu, cp
<1>6. /\ chal'[c] \in ChalRow /\ chal'[c].status = "stored" /\ chal'[c].pre = p
      /\ chal'[c].used = chal[c].used
      /\ chal'[c].attempts = IF cp THEN chal[c].attempts + 1 ELSE chal[c].attempts
      /\ \A d \in Challenge \ {c} : chal'[d] = chal[d]
  <2>1. chal[c] \in ChalRow /\ chal[c].status = "stored"
    BY <1>3 DEF MfaInv, RowsOK, Usable
  <2>2. chal'[c] = [chal[c] EXCEPT !.attempts = IF cp THEN req[w].attempts + 1 ELSE @,
                                   !.invalidated = @ \/ gu]
    BY <1>5 DEF MfaInv, RowsOK
  <2>3. \A d \in Challenge \ {c} : chal'[d] = chal[d]
    BY <1>5 DEF MfaInv, RowsOK
  <2> DEFINE n == IF cp THEN req[w].attempts + 1 ELSE chal[c].attempts
             b == chal[c].invalidated \/ gu
  <2>4. n \in Nat
    BY <1>3, <1>4
  <2>5. b \in BOOLEAN
    BY <1>4, <2>1 DEF ChalRow
  <2>6. chal'[c] = [chal[c] EXCEPT !.attempts = n, !.invalidated = b]
    BY <2>2
  <2>7. n = IF cp THEN chal[c].attempts + 1 ELSE chal[c].attempts
    BY <1>3
  <2> HIDE DEF n, b
  <2>8. QED
    BY <1>3, <2>1, <2>3, <2>4, <2>5, <2>6, <2>7 DEF ChalRow
<1>7. /\ pre'[p] \in PreRow /\ pre'[p].status = "stored" /\ pre'[p].user = pre[p].user
      /\ pre'[p].completed = pre[p].completed
      /\ \A q \in PreAuth \ {p} : pre'[q] = pre[q]
  BY <1>3, <1>4, <1>5 DEF MfaInv, RowsOK, PreRow
<1>8. TablesOK'
  BY <1>5, <1>6, <1>7 DEF TablesOK, MfaInv, RowsOK
<1>9. Respects(w)
  <2>1. \A v \in Worker \ {w} : p \notin req[v].rows /\ c \notin req[v].rows
    BY <1>2, RequestIsTyped
  <2>2. QED
    BY <1>3, <1>5, <1>6, <1>7, <2>1 DEF Respects, Usable
<1>10. Counted'
  <2> DEFINE ok(d) == guesses'[d] = chal'[d].attempts
                        /\ (chal'[d].status = "absent" => chal'[d] = NoChal)
                        /\ \E n \in AttemptLimits : guesses'[d] <= n
  <2>1. ok(c)
    BY <1>3, <1>5, <1>6 DEF MfaInv, Counted, RowsOK, cp
  <2>2. \A d \in Challenge \ {c} : ok(d)
    BY <1>5, <1>6 DEF MfaInv, Counted, RowsOK
  <2>3. QED
    BY <2>1, <2>2 DEF Counted
<1>11. SignInsCompleteOnce'
  <2>1. \A q \in PreAuth : Via(q)' = Via(q) /\ UsedOn(q)' = UsedOn(q)
    BY <1>3, <1>5, <1>6 DEF Via, UsedOn, Usable
  <2>2. QED
    BY <1>7, <2>1 DEF MfaInv, SignInsCompleteOnce
<1>12. OneUsableCode'
  <2>1. \A q \in PreAuth : UsableOn(q)' \subseteq UsableOn(q)
    BY <1>3, <1>6 DEF UsableOn, Usable
  <2>2. QED
    BY <2>1 DEF MfaInv, OneUsableCode
<1>13. QED
  BY <1>8, <1>9, <1>10, <1>11, <1>12, CommitStep

LEMMA VerifyAcceptStep ==
    ASSUME MfaInv, NEW w \in Worker, NEW s \in Session, VerifyAccept(w, s)
    PROVE  MfaInv'
<1>1. req[w] \in Request /\ SecuredSelf(w)
  BY RequestIsTyped
<1>2. PICK p \in PreAuth, c \in Challenge : /\ p = req[w].pre /\ c = req[w].chal
                                            /\ p \in req[w].rows /\ c \in req[w].rows
  BY <1>1 DEF VerifyAccept, SecuredSelf, Secured, SecuredVerify, HoldsPre
<1>3. /\ pre[p].status = "stored" /\ Usable(c) /\ chal[c].pre = p /\ Open(p)
      /\ chal[c].attempts = req[w].attempts /\ req[w].attempts \in Nat
      /\ \E n \in AttemptLimits : req[w].attempts + 1 <= n
      /\ req[w].user \in User
  BY <1>1, <1>2 DEF VerifyAccept, SecuredSelf, Secured, SecuredVerify, HoldsPre, Request, Compared
<1>4. /\ chal' = [chal EXCEPT ![c] = [chal[c] EXCEPT !.attempts = req[w].attempts + 1,
                                                    !.used = TRUE]]
      /\ pre' = [pre EXCEPT ![p] = [pre[p] EXCEPT !.completed = TRUE]]
      /\ sess[s].status = "absent"
      /\ sess' = [sess EXCEPT ![s] = NewSession(req[w].user, p)]
      /\ guesses' = [guesses EXCEPT ![c] = @ + 1]
      /\ outdated' \subseteq outdated \cup {s}
      /\ Finish(w) /\ UNCHANGED <<account, limit, now>>
  BY <1>2 DEF VerifyAccept, MfaInv, RowsOK, ChalRow, PreRow
<1>5. chal[c] \in ChalRow /\ pre[p] \in PreRow
  BY DEF MfaInv, RowsOK
<1>6. /\ chal'[c] \in ChalRow /\ chal'[c].status = "stored" /\ chal'[c].pre = p
      /\ chal'[c].used /\ chal'[c].attempts = chal[c].attempts + 1
  <2>1. chal'[c] = [chal[c] EXCEPT !.attempts = req[w].attempts + 1, !.used = TRUE]
    BY <1>4 DEF MfaInv, RowsOK
  <2>2. chal[c].status = "stored" /\ req[w].attempts + 1 \in Nat
    BY <1>3 DEF Usable
  <2>3. QED
    BY <1>3, <1>5, <2>1, <2>2 DEF ChalRow
<1>7. \A d \in Challenge \ {c} : chal'[d] = chal[d]
  BY <1>4 DEF MfaInv, RowsOK
<1>8. /\ pre'[p] \in PreRow /\ pre'[p].status = "stored" /\ pre'[p].user = pre[p].user
      /\ pre'[p].completed
      /\ \A q \in PreAuth \ {p} : pre'[q] = pre[q]
  BY <1>3, <1>4, <1>5 DEF MfaInv, RowsOK, PreRow
<1>9. /\ sess'[s] \in SessRow /\ sess'[s].status = "stored" /\ sess'[s].via = p
      /\ \A t \in Session \ {s} : sess'[t] = sess[t]
  BY <1>3, <1>4 DEF MfaInv, RowsOK, SessRow, NewSession
<1>10. TablesOK'
  BY <1>4, <1>6, <1>7, <1>8, <1>9 DEF TablesOK, MfaInv, RowsOK
<1>11. Respects(w)
  <2>1. \A v \in Worker \ {w} : p \notin req[v].rows /\ c \notin req[v].rows
    BY <1>2, RequestIsTyped
  <2>2. QED
    BY <1>3, <1>4, <1>6, <1>7, <1>8, <2>1 DEF Respects, Usable
<1>12. Counted'
  <2> DEFINE ok(d) == guesses'[d] = chal'[d].attempts
                        /\ (chal'[d].status = "absent" => chal'[d] = NoChal)
                        /\ \E n \in AttemptLimits : guesses'[d] <= n
  <2>1. ok(c)
    BY <1>3, <1>4, <1>6 DEF MfaInv, Counted, RowsOK
  <2>2. \A d \in Challenge \ {c} : ok(d)
    BY <1>4, <1>7 DEF MfaInv, Counted, RowsOK
  <2>3. QED
    BY <2>1, <2>2 DEF Counted
<1>13. SignInsCompleteOnce'
  <2>1. Via(p) = {} /\ UsedOn(p) = {}
    BY <1>3 DEF MfaInv, SignInsCompleteOnce, Open
  <2>2. \A t \in Session : t \in Via(p)' => t = s
    BY <1>9, <2>1 DEF Via
  <2>3. s \in Via(p)'
    BY <1>9 DEF Via
  <2>4. \A d \in Challenge : d \in UsedOn(p)' => d = c
    BY <1>7, <2>1 DEF UsedOn
  <2>5. c \in UsedOn(p)'
    BY <1>6 DEF UsedOn
  <2>6. \A q \in PreAuth \ {p} : Via(q)' = Via(q) /\ UsedOn(q)' = UsedOn(q)
    BY <1>3, <1>4, <1>6, <1>7, <1>9 DEF Via, UsedOn
  <2> DEFINE once(q) == /\ pre'[q].completed <=> Via(q)' # {}
                        /\ pre'[q].completed <=> UsedOn(q)' # {}
                        /\ \A t, u \in Via(q)' : t = u
                        /\ \A d, e \in UsedOn(q)' : d = e
  <2>7. once(p)
    BY <1>8, <2>2, <2>3, <2>4, <2>5 DEF Via, UsedOn
  <2>8. \A q \in PreAuth \ {p} : once(q)
    BY <1>8, <2>6 DEF MfaInv, SignInsCompleteOnce
  <2>9. \A q \in PreAuth : once(q)
    BY <2>7, <2>8
  <2>10. QED
    BY <2>9 DEF SignInsCompleteOnce
<1>14. OneUsableCode'
  <2>1. \A q \in PreAuth : UsableOn(q)' \subseteq UsableOn(q)
    BY <1>3, <1>6, <1>7 DEF UsableOn, Usable
  <2>2. QED
    BY <2>1 DEF MfaInv, OneUsableCode
<1>15. QED
  BY <1>10, <1>11, <1>12, <1>13, <1>14, CommitStep

LEMMA CancelStep ==
    ASSUME MfaInv, NEW w \in Worker, Cancel(w)
    PROVE  MfaInv'
<1>1. req[w] \in Request /\ SecuredSelf(w)
  BY RequestIsTyped
<1>2. PICK p \in PreAuth : p = req[w].pre /\ p \in req[w].rows /\ pre[p].status = "stored"
  BY <1>1 DEF Cancel, SecuredSelf, Secured, HoldsPre
<1> DEFINE unused == {c \in Challenge : chal[c].status = "stored" /\ chal[c].pre = p /\ ~chal[c].used}
<1>3. /\ Free(w, unused)
      /\ pre' = [pre EXCEPT ![p] = [pre[p] EXCEPT !.cancelled = TRUE]]
      /\ chal' = [c \in Challenge |-> IF c \in unused THEN [chal[c] EXCEPT !.invalidated = TRUE]
                                                      ELSE chal[c]]
      /\ Finish(w) /\ UNCHANGED <<account, sess, limit, now, guesses, outdated>>
  BY <1>2 DEF Cancel, MfaInv, RowsOK, PreRow
<1>4. \A c \in Challenge :
        /\ chal'[c] \in ChalRow /\ chal'[c].status = chal[c].status /\ chal'[c].pre = chal[c].pre
        /\ chal'[c].used = chal[c].used /\ chal'[c].attempts = chal[c].attempts
        /\ Usable(c)' => Usable(c)
        /\ c \notin unused => chal'[c] = chal[c]
  BY <1>3 DEF MfaInv, RowsOK, ChalRow, Usable
<1>5. /\ pre'[p] \in PreRow /\ pre'[p].status = "stored" /\ pre'[p].user = pre[p].user
      /\ pre'[p].completed = pre[p].completed
      /\ \A q \in PreAuth \ {p} : pre'[q] = pre[q]
  BY ZenonT(60), <1>2, <1>3 DEF MfaInv, RowsOK, PreRow
<1>11. \A c \in unused : chal[c].status = "stored"
  OBVIOUS
<1> HIDE DEF unused
<1>6. TablesOK'
  <2>1. pre' \in [PreAuth -> PreRow]
    BY <1>3, <1>5 DEF MfaInv, RowsOK
  <2>2. chal' \in [Challenge -> ChalRow]
    BY <1>3, <1>4
  <2>3. \A q \in PreAuth : pre'[q].status = pre[q].status /\ pre'[q].user = pre[q].user
    BY <1>2, <1>5
  <2>4. \A s \in Session : sess[s].via # None => sess[s].via \in PreAuth
    BY DEF MfaInv, RowsOK, SessRow
  <2>5. QED
    BY <1>3, <1>4, <2>1, <2>2, <2>3, <2>4 DEF TablesOK, MfaInv, RowsOK
<1>7. Respects(w)
  <2>1. \A v \in Worker \ {w} : p \notin req[v].rows /\ req[v].rows \cap unused = {}
    BY <1>2, <1>3, RequestIsTyped DEF Free
  <2>2. QED
    BY <1>2, <1>3, <1>4, <1>5, <2>1 DEF Respects, Usable
<1>8. Counted'
  BY <1>3, <1>4, <1>11 DEF MfaInv, Counted
<1>9. SignInsCompleteOnce' /\ OneUsableCode'
  <2>1. \A q \in PreAuth : /\ Via(q)' = Via(q) /\ UsedOn(q)' = UsedOn(q)
                           /\ UsableOn(q)' \subseteq UsableOn(q)
    BY <1>3, <1>4 DEF Via, UsedOn, UsableOn
  <2>2. QED
    BY <1>5, <2>1 DEF MfaInv, SignInsCompleteOnce, OneUsableCode
<1>10. QED
  BY <1>6, <1>7, <1>8, <1>9, CommitStep

(* What a commit invalidates is what it holds. *)
LEMMA InvalidatedRows ==
    ASSUME MfaInv, NEW w \in Worker
    PROVE  /\ Invalidated(w) \in [Challenge -> ChalRow]
           /\ \A c \in Challenge :
                /\ Invalidated(w)[c].status = chal[c].status
                /\ Invalidated(w)[c].pre = chal[c].pre
                /\ Invalidated(w)[c].used = chal[c].used
                /\ Invalidated(w)[c].attempts = chal[c].attempts
                /\ ~Invalidated(w)[c].invalidated => c \notin req[w].rows /\ ~chal[c].invalidated
                /\ c \notin req[w].rows => Invalidated(w)[c] = chal[c]
                /\ chal[c].status = "absent" => c \notin req[w].rows
<1>1. \A c \in Challenge \cap req[w].rows : Usable(c)
  BY RequestIsTyped DEF SecuredSelf, Secured
<1>2. chal \in [Challenge -> ChalRow]
  BY DEF MfaInv, RowsOK
<1>3. QED
  BY <1>1, <1>2 DEF Invalidated, Usable, ChalRow

LEMMA SendCommitStep ==
    ASSUME MfaInv, NEW w \in Worker, NEW p \in PreAuth, NEW c \in Challenge, SendCommit(w, p, c)
    PROVE  MfaInv'
<1>1. req[w] \in Request /\ SecuredSelf(w)
  BY RequestIsTyped
<1>2. /\ pre' = [pre EXCEPT ![p] = Sent(w, p)]
      /\ chal' = [Invalidated(w) EXCEPT ![c] = NewChallenge(w, p)]
      /\ outdated' \subseteq outdated \cup {p}
      /\ Finish(w) /\ UNCHANGED <<account, sess, limit, now, guesses>>
      /\ chal[c].status = "absent" /\ req[w].step = "mail"
  BY DEF SendCommit
<1>3. \/ req[w].op = "login" /\ pre[p].status = "absent"
      \/ /\ req[w].op = "resend" /\ p = req[w].pre /\ p \in req[w].rows
         /\ pre[p].status = "stored" /\ UsableOn(p) \subseteq req[w].rows
  BY <1>1 DEF SendCommit, SecuredSelf, Secured, SecuredResend, HoldsPre
<1>4. req[w].at \in Nat /\ req[w].at + CodeTtl \in Nat /\ req[w].user \in User
  BY <1>1, <1>3, TimesArePositive DEF SecuredSelf, Secured, Request
<1>5. pre[p] \in PreRow /\ pre \in [PreAuth -> PreRow]
  BY DEF MfaInv, RowsOK
<1>6. /\ Sent(w, p) \in PreRow /\ Sent(w, p).status = "stored" /\ Sent(w, p).user \in User
      /\ pre[p].status = "stored" => Sent(w, p).user = pre[p].user
  BY <1>1, <1>3, <1>4, <1>5 DEF Sent, PreRow, MfaInv, RowsOK
<1>7. Sent(w, p).completed = pre[p].completed
  <2>1. CASE req[w].op = "login" /\ pre[p].status = "absent"
    <3>1. Via(p) = {}
      BY <2>1, RowsAreDistinct DEF Via, MfaInv, RowsOK
    <3>2. pre[p].completed = FALSE
      BY <1>5, <3>1 DEF MfaInv, SignInsCompleteOnce, PreRow
    <3>3. QED
      BY <2>1, <3>2 DEF Sent
  <2>2. CASE req[w].op = "resend"
    BY <1>5, <2>2 DEF Sent, PreRow
  <2>3. QED
    BY <1>3, <2>1, <2>2
<1>8. /\ NewChallenge(w, p) \in ChalRow /\ NewChallenge(w, p).status = "stored"
      /\ NewChallenge(w, p).pre = p /\ ~NewChallenge(w, p).used
      /\ NewChallenge(w, p).attempts = 0
  BY <1>4 DEF NewChallenge, ChalRow
<1>9. /\ pre'[p] = Sent(w, p) /\ \A q \in PreAuth \ {p} : pre'[q] = pre[q]
      /\ chal'[c] = NewChallenge(w, p)
      /\ \A d \in Challenge \ {c} : chal'[d] = Invalidated(w)[d]
      /\ chal' \in [Challenge -> ChalRow] /\ pre' \in [PreAuth -> PreRow]
  BY <1>2, <1>5, <1>6, <1>8, InvalidatedRows
<1>10. /\ \A d \in Challenge \ {c} : /\ chal'[d].status = chal[d].status
                                     /\ chal'[d].pre = chal[d].pre /\ chal'[d].used = chal[d].used
                                     /\ chal'[d].attempts = chal[d].attempts
                                     /\ Usable(d)' => Usable(d) /\ d \notin req[w].rows
                                     /\ d \notin req[w].rows => chal'[d] = chal[d]
       /\ chal'[c].status = "stored" /\ chal'[c].pre = p
       /\ ~chal'[c].used /\ chal'[c].attempts = 0
       /\ c \notin req[w].rows
  BY <1>2, <1>8, <1>9, InvalidatedRows DEF Usable
<1>11. \A q \in PreAuth : /\ pre[q].status = "stored" => pre'[q].status = "stored"
                                                         /\ pre'[q].user = pre[q].user
                          /\ pre'[q].completed = pre[q].completed
  BY <1>6, <1>7, <1>9
<1>12. TablesOK'
  <2>1. \A s \in Session : sess[s].via # None => sess[s].via \in PreAuth
    BY DEF MfaInv, RowsOK, SessRow
  <2>2. \A q \in PreAuth : pre'[q].status = "stored" => pre'[q].user \in User
    BY <1>6, <1>9 DEF MfaInv, RowsOK
  <2>3. \A d \in Challenge : chal'[d].status = "stored"
            => chal'[d].pre \in PreAuth /\ pre'[chal'[d].pre].status = "stored"
    BY <1>6, <1>9, <1>10, <1>11 DEF MfaInv, RowsOK
  <2>4. QED
    BY <1>2, <1>9, <1>11, <2>1, <2>2, <2>3 DEF TablesOK, MfaInv, RowsOK
<1>13. Respects(w)
  <2>1. \A v \in Worker \ {w} : c \notin req[v].rows
    BY <1>2 DEF MfaInv, AllSecured, Secured, Usable
  <2>2. \A v \in Worker \ {w} : p \notin req[v].rows
    <3>1. CASE p \in req[w].rows
      BY <3>1, RequestIsTyped
    <3>2. CASE pre[p].status = "absent"
      BY <3>2, RequestIsTyped DEF MfaInv, AllSecured, Secured
    <3>3. QED
      BY <1>3, <3>1, <3>2
  <2>3. \A v \in Worker \ {w} : \A d \in Challenge \cap req[v].rows : chal'[d] = chal[d]
    BY <1>10, <2>1, RequestIsTyped
  <2>4. \A d \in Challenge : chal[d].status = "stored"
            => chal'[d].status = "stored" /\ chal'[d].pre = chal[d].pre /\ (Usable(d)' => Usable(d))
    BY <1>2, <1>10
  <2>5. \A d \in Challenge : chal[d].status # "stored" /\ Usable(d)' => chal'[d].pre = p
    BY <1>10 DEF Usable
  <2>6. \A v \in Worker \ {w} : \A q \in PreAuth \cap req[v].rows : pre'[q] = pre[q]
    BY <1>9, <2>2
  <2>7. QED
    BY <1>2, <1>11, <2>2, <2>3, <2>4, <2>5, <2>6 DEF Respects
<1>14. Counted'
  <2> DEFINE ok(d) == guesses'[d] = chal'[d].attempts
                        /\ (chal'[d].status = "absent" => chal'[d] = NoChal)
                        /\ \E n \in AttemptLimits : guesses'[d] <= n
  <2>1. ok(c)
    BY <1>2, <1>10 DEF MfaInv, Counted, NoChal
  <2>2. ASSUME NEW d \in Challenge \ {c} PROVE ok(d)
    <3>1. chal[d].status = "absent" => chal'[d] = chal[d]
      BY <1>9, InvalidatedRows
    <3>2. QED
      BY <1>2, <1>10, <3>1 DEF MfaInv, Counted
  <2>3. QED
    BY <2>1, <2>2 DEF Counted
<1>15. SignInsCompleteOnce'
  <2>1. \A q \in PreAuth : Via(q)' = Via(q) /\ UsedOn(q)' = UsedOn(q)
    BY <1>2, <1>10 DEF Via, UsedOn
  <2>2. QED
    BY <1>11, <2>1 DEF MfaInv, SignInsCompleteOnce
<1>16. OneUsableCode'
  <2>1. UsableOn(p) \subseteq req[w].rows
    BY <1>3 DEF UsableOn, Usable, MfaInv, RowsOK
  <2>2. UsableOn(p)' \subseteq {c}
    BY <1>10, <2>1 DEF UsableOn
  <2>3. \A q \in PreAuth \ {p} : UsableOn(q)' \subseteq UsableOn(q)
    BY <1>10 DEF UsableOn
  <2>4. QED
    BY <2>2, <2>3 DEF MfaInv, OneUsableCode
<1>17. QED
  BY <1>12, <1>13, <1>14, <1>15, <1>16, CommitStep

LEMMA AdminCommitStep ==
    ASSUME MfaInv, NEW w \in Worker, AdminCommit(w)
    PROVE  MfaInv'
<1>1. req[w] \in Request /\ SecuredSelf(w)
  BY RequestIsTyped
<1>2. account' \in [User -> Account]
  BY <1>1 DEF AdminCommit, Merged, Account, Request, MfaInv, RowsOK
<1>3. \A s \in Session : /\ sess'[s] \in SessRow /\ sess'[s].status = sess[s].status
                          /\ sess'[s].via = sess[s].via
  BY DEF AdminCommit, MfaInv, RowsOK, SessRow
<1>4. \A p \in PreAuth : /\ pre'[p] \in PreRow /\ pre'[p].status = pre[p].status
                          /\ pre'[p].user = pre[p].user
  BY ZenonT(60) DEF AdminCommit, MfaInv, RowsOK, PreRow
<1>13. \A p \in PreAuth : pre'[p].completed <=> pre[p].completed
  BY DEF AdminCommit, MfaInv, RowsOK, PreRow
<1>14. \A p \in PreAuth \ req[w].rows : pre'[p] = pre[p]
  BY DEF AdminCommit
<1>5. /\ chal' = Invalidated(w) /\ Finish(w) /\ UNCHANGED <<limit, now, guesses>>
  BY DEF AdminCommit
<1>15. pre' \in [PreAuth -> PreRow] /\ sess' \in [Session -> SessRow]
  <2>1. pre' = [p \in PreAuth |-> pre'[p]] /\ sess' = [s \in Session |-> sess'[s]]
    BY DEF AdminCommit
  <2>2. QED
    BY <1>3, <1>4, <2>1
<1>6. outdated' \subseteq PreAuth \cup Session \cup Worker
  BY DEF AdminCommit, BuiltOn, MfaInv, RowsOK
<1>7. \A c \in Challenge :
        /\ chal'[c] \in ChalRow /\ chal'[c].status = chal[c].status /\ chal'[c].pre = chal[c].pre
        /\ chal'[c].used = chal[c].used /\ chal'[c].attempts = chal[c].attempts
        /\ Usable(c)' => Usable(c)
        /\ c \notin req[w].rows => chal'[c] = chal[c]
        /\ chal[c].status = "absent" => c \notin req[w].rows
  BY <1>5, InvalidatedRows DEF Usable
<1>8. TablesOK'
  <2>1. chal' \in [Challenge -> ChalRow]
    BY <1>5, InvalidatedRows
  <2>2. \A s \in Session : sess[s].via # None => sess[s].via \in PreAuth
    BY DEF MfaInv, RowsOK, SessRow
  <2>3. \A p \in PreAuth : pre'[p].status = "stored" => pre'[p].user \in User
    BY <1>4 DEF MfaInv, RowsOK
  <2>4. \A c \in Challenge : chal'[c].status = "stored"
            => chal'[c].pre \in PreAuth /\ pre'[chal'[c].pre].status = "stored"
    BY <1>4, <1>7 DEF MfaInv, RowsOK
  <2>5. \A s \in Session : sess'[s].via # None => pre'[sess'[s].via].status = "stored"
    BY <1>3, <1>4, <2>2 DEF MfaInv, RowsOK
  <2>6. limit' \in AttemptLimits /\ now' \in Nat /\ guesses' \in [Challenge -> Nat]
    BY <1>5 DEF MfaInv, RowsOK
  <2>7. QED
    BY <1>2, <1>6, <1>15, <2>1, <2>3, <2>4, <2>5, <2>6 DEF TablesOK
<1>9. Respects(w)
  <2>1. \A v \in Worker \ {w} : req[v].rows \cap req[w].rows = {}
    BY RequestIsTyped
  <2>2. \A v \in Worker \ {w} : \A p \in PreAuth \cap req[v].rows : pre'[p] = pre[p]
    BY <1>14, <2>1
  <2>3. \A v \in Worker \ {w} : \A c \in Challenge \cap req[v].rows : chal'[c] = chal[c]
    BY <1>7, <2>1
  <2>4. \A c \in Challenge : Usable(c)' => chal[c].status = "stored"
    BY <1>7 DEF Usable
  <2>5. QED
    BY <1>4, <1>5, <1>7, <2>2, <2>3, <2>4 DEF Respects
<1>10. Counted'
  BY <1>5, <1>7 DEF MfaInv, Counted
<1>11. SignInsCompleteOnce' /\ OneUsableCode'
  <2>1. \A p \in PreAuth : /\ Via(p)' = Via(p) /\ UsedOn(p)' = UsedOn(p)
                           /\ UsableOn(p)' \subseteq UsableOn(p)
    BY <1>3, <1>7 DEF Via, UsedOn, UsableOn
  <2>2. QED
    BY <1>13, <2>1 DEF MfaInv, SignInsCompleteOnce, OneUsableCode
<1>12. QED
  BY <1>8, <1>9, <1>10, <1>11, CommitStep

-----------------------------------------------------------------------------
(* Steps that no request takes. *)
LEMMA QuietStep ==
    ASSUME MfaInv, UNCHANGED <<account, pre, chal, sess, req, guesses, outdated>>,
           limit' \in AttemptLimits, now' \in Nat
    PROVE  MfaInv'
<1> USE DEF MfaInv
<1>1. RowsOK'
  BY DEF RowsOK, Free
<1>2. Counted' /\ SignInsCompleteOnce' /\ OneUsableCode'
  BY DEF Counted, SignInsCompleteOnce, Via, UsedOn, OneUsableCode, UsableOn, Usable
<1>3. AllSecured'
  <2> SUFFICES ASSUME NEW w \in Worker
               PROVE  (Secured(w) /\ SecuredResend(w) /\ SecuredVerify(w) /\ SecuredAdmin(w))'
    BY DEF AllSecured
  <2>1. Secured(w) /\ SecuredResend(w) /\ SecuredVerify(w) /\ SecuredAdmin(w)
    BY DEF AllSecured
  <2>2. Secured(w)' /\ SecuredAdmin(w)'
    BY <2>1 DEF Secured, SecuredAdmin, Usable
  <2>3. SecuredResend(w)' /\ SecuredVerify(w)'
    BY <2>1 DEF SecuredResend, SecuredVerify, Open, UsableOn, Usable
  <2>4. QED
    BY <2>2, <2>3
<1>4. QED
  BY <1>1, <1>2, <1>3

(* Only threads of the server take steps. *)
PoolOK == pool \subseteq Worker

LEMMA NextCases ==
    ASSUME PoolOK, [Next]_vars
    PROVE  /\ pool' = pool /\ PoolOK'
           /\ \/ \E w \in pool : w \in Worker /\ Serve(w)
              \/ \E n \in AttemptLimits : UpdateSettings(n)
              \/ Tick
              \/ UNCHANGED vars
  BY DEF PoolOK, Next, vars

LEMMA MfaInvStep == ASSUME PoolOK, MfaInv, [Next]_vars PROVE MfaInv'
<1>1. ASSUME NEW w \in Worker, NEW u \in User, LoginRead(w, u) PROVE MfaInv'
  BY <1>1, LoginReadStep
<1>2. ASSUME NEW w \in Worker, NEW s \in Session, PlainLogin(w, s) PROVE MfaInv'
  BY <1>2, PlainLoginStep
<1>3. ASSUME NEW w \in Worker, NEW s \in Session, VerifyAccept(w, s) PROVE MfaInv'
  BY <1>3, VerifyAcceptStep
<1>4. ASSUME NEW w \in Worker, NEW p \in PreAuth, NEW op \in Kinds \cap {"resend", "verify", "cancel"},
             Take(w, p, op)
      PROVE  MfaInv'
  BY <1>4, TakeStep
<1>5. ASSUME NEW w \in Worker, SendFind(w) PROVE MfaInv'
  BY <1>5, SendFindStep
<1>6. ASSUME NEW w \in Worker, SendInvalidate(w) PROVE MfaInv'
  BY <1>6, SendInvalidateStep
<1>7. ASSUME NEW w \in Worker, NEW p \in PreAuth, NEW c \in Challenge, SendCommit(w, p, c)
      PROVE  MfaInv'
  BY <1>7, SendCommitStep
<1>8. ASSUME NEW w \in Worker, NEW c \in Challenge, NEW matches \in BOOLEAN,
             VerifyDecide(w, c, matches)
      PROVE  MfaInv'
  BY <1>8, VerifyDecideStep
<1>9. ASSUME NEW w \in Worker, VerifyReject(w) PROVE MfaInv'
  BY <1>9, VerifyRejectStep
<1>10. ASSUME NEW w \in Worker, Cancel(w) PROVE MfaInv'
  BY <1>10, CancelStep
<1>11. ASSUME NEW w \in Worker, NEW u \in User, NEW op \in Kinds \cap {"edit", "reset"},
              NEW want \in Account, AdminStart(w, u, op, want)
       PROVE  MfaInv'
  BY <1>11, AdminStartStep
<1>12. ASSUME NEW w \in Worker,
              ResetFind(w) \/ ResetSessions(w) \/ ResetPreAuths(w) \/ ResetChallenges(w)
       PROVE  MfaInv'
  BY <1>12, ResetFindStep, ResetStep
<1>13. ASSUME NEW w \in Worker, AdminCommit(w) PROVE MfaInv'
  BY <1>13, AdminCommitStep
<1>14. ASSUME NEW w \in Worker, Rollback(w) PROVE MfaInv'
  BY <1>14, RollbackStep
<1>15. ASSUME NEW n \in AttemptLimits, UpdateSettings(n) PROVE MfaInv'
  BY <1>15, QuietStep DEF UpdateSettings, MfaInv, RowsOK
<1>16. CASE Tick
  BY <1>16, QuietStep DEF Tick, MfaInv, RowsOK
<1>17. CASE UNCHANGED vars
  BY <1>17, QuietStep DEF vars, MfaInv, RowsOK
<1>18. QED
  BY <1>1, <1>2, <1>3, <1>4, <1>5, <1>6, <1>7, <1>8, <1>9, <1>10, <1>11, <1>12, <1>13, <1>14,
     <1>15, <1>16, <1>17, NextCases
     DEF Serve

LEMMA MfaInvariant == Spec => [](PoolOK /\ MfaInv)
<1>1. Init => PoolOK /\ MfaInv
  BY MfaInitInv DEF Init, PoolOK
<1>2. PoolOK /\ MfaInv /\ [Next]_vars => (PoolOK /\ MfaInv)'
  BY MfaInvStep, NextCases
<1>3. QED
  BY <1>1, <1>2, PTL DEF Spec

(* The tables and the requests keep their types; a row has one holder. *)
THEOREM MfaTypeCorrect == Spec => []TypeOK
<1>1. PoolOK /\ MfaInv => TypeOK
  BY DEF MfaInv, PoolOK, TypeOK
<1>2. QED
  BY <1>1, MfaInvariant, PTL

(* A sign-in is completed by one code and opens one session. *)
THEOREM SignInsOnce == Spec => []SignInsCompleteOnce
<1>1. MfaInv => SignInsCompleteOnce
  BY DEF MfaInv
<1>2. QED
  BY <1>1, MfaInvariant, PTL

(* A sign-in has one usable code. *)
THEOREM OneCode == Spec => []OneUsableCode
<1>1. MfaInv => OneUsableCode
  BY DEF MfaInv
<1>2. QED
  BY <1>1, MfaInvariant, PTL

(* Codes are tried no more often than the largest setting allows. *)
THEOREM GuessesBounded == Spec => []GuessesAreBounded
<1>1. MfaInv => GuessesAreBounded
  BY DEF MfaInv, Counted, GuessesAreBounded
<1>2. QED
  BY <1>1, MfaInvariant, PTL

-----------------------------------------------------------------------------
(* What a step may do to sign-ins and codes. *)
DeadStep ==
    /\ \A p \in PreAuth : pre[p].cancelled => pre'[p].completed = pre[p].completed
    /\ \A c \in Challenge : chal[c].invalidated => chal'[c].used = chal[c].used

SpacedStep ==
    \A p \in PreAuth : pre[p].status = "stored" /\ pre'[p].sent # pre[p].sent
            => pre'[p].sent >= pre[p].sent + ResendDelay

KeptStep ==
    \A c \in Challenge : Usable(c) =>
            \/ Usable(c)' \/ chal'[c].used
            \/ pre'[chal[c].pre].cancelled \/ chal[c].pre \in outdated'
            \/ \E d \in Challenge : chal[d].status = "absent" /\ Usable(d)'

AllowedStep == DeadStep /\ SpacedStep /\ KeptStep

LEMMA SendCommitAllowed ==
    ASSUME MfaInv, NEW w \in Worker, NEW p \in PreAuth, NEW c \in Challenge, SendCommit(w, p, c)
    PROVE  AllowedStep
<1>1. req[w] \in Request /\ SecuredSelf(w)
  BY RequestIsTyped
<1>2. pre[p] \in PreRow /\ chal[c] \in ChalRow /\ chal[c].status = "absent"
  BY DEF SendCommit, MfaInv, RowsOK
<1>3. /\ pre'[p] = Sent(w, p) /\ \A q \in PreAuth \ {p} : pre'[q] = pre[q]
      /\ chal'[c] = NewChallenge(w, p)
      /\ \A d \in Challenge \ {c} : chal'[d] = Invalidated(w)[d]
  BY InvalidatedRows DEF SendCommit, MfaInv, RowsOK
<1>4. CASE req[w].op = "login" /\ pre[p].status = "absent"
  <2>1. Via(p) = {}
    BY <1>4, RowsAreDistinct DEF Via, MfaInv, RowsOK
  <2>2. pre[p].completed = FALSE
    BY <1>2, <2>1 DEF MfaInv, SignInsCompleteOnce, PreRow
  <2>3. Sent(w, p).completed = FALSE
    BY <1>4 DEF Sent
  <2>4. \A q \in PreAuth : pre'[q].completed = pre[q].completed
    BY <1>3, <2>2, <2>3
  <2>5. SpacedStep
    BY <1>3, <1>4 DEF SpacedStep
  <2>6. chal[c].invalidated = FALSE
    BY <1>2 DEF MfaInv, Counted, NoChal
  <2>7. DeadStep
    BY <1>3, <2>4, <2>6, InvalidatedRows DEF DeadStep
  <2>8. Usable(c)'
    BY <1>3 DEF Usable, NewChallenge
  <2>9. KeptStep
    BY <1>2, <2>8 DEF KeptStep
  <2>10. QED
    BY <2>5, <2>7, <2>9 DEF AllowedStep
<1>5. CASE req[w].op = "resend" /\ p = req[w].pre
  <2>1. pre[p].sent + ResendDelay <= req[w].at
    BY <1>1, <1>5 DEF SendCommit, SecuredSelf, SecuredResend
  <2>2. Sent(w, p).completed = pre[p].completed /\ Sent(w, p).sent = req[w].at
    BY <1>2, <1>5 DEF Sent, PreRow
  <2>3. \A q \in PreAuth : pre'[q].completed = pre[q].completed
    BY <1>3, <2>2
  <2>4. SpacedStep
    BY <1>3, <2>1, <2>2 DEF SpacedStep
  <2>5. chal[c].invalidated = FALSE
    BY <1>2 DEF MfaInv, Counted, NoChal
  <2>6. DeadStep
    BY <1>3, <2>3, <2>5, InvalidatedRows DEF DeadStep
  <2>7. Usable(c)'
    BY <1>3 DEF Usable, NewChallenge
  <2>8. KeptStep
    BY <1>2, <2>7 DEF KeptStep
  <2>9. QED
    BY <2>4, <2>6, <2>8 DEF AllowedStep
<1>6. QED
  BY <1>4, <1>5 DEF SendCommit

LEMMA VerifyRejectAllowed ==
    ASSUME MfaInv, NEW w \in Worker, VerifyReject(w)
    PROVE  AllowedStep
<1>1. req[w] \in Request /\ SecuredSelf(w)
  BY RequestIsTyped
<1>2. PICK p \in PreAuth, c \in Challenge : p = req[w].pre /\ c = req[w].chal /\ chal[c].pre = p
  BY <1>1 DEF VerifyReject, SecuredSelf, Secured, SecuredVerify, HoldsPre
<1> DEFINE gu == GivesUp(req[w].verdict)
<1>3. /\ pre'[p].cancelled = (pre[p].cancelled \/ gu)
      /\ chal'[c].invalidated = (chal[c].invalidated \/ gu)
      /\ \A d \in Challenge \ {c} : chal'[d] = chal[d]
      /\ \A d \in Challenge : /\ chal'[d].status = chal[d].status
                               /\ chal'[d].used = chal[d].used
      /\ \A q \in PreAuth : pre'[q].completed = pre[q].completed /\ pre'[q].sent = pre[q].sent
  BY SMTT(30), <1>2 DEF VerifyReject, MfaInv, RowsOK, ChalRow, PreRow
<1> HIDE DEF gu
<1>4. DeadStep /\ SpacedStep
  BY <1>3 DEF DeadStep, SpacedStep
<1>5. KeptStep
  BY <1>2, <1>3 DEF KeptStep, Usable
<1>6. QED
  BY <1>4, <1>5 DEF AllowedStep

LEMMA VerifyAcceptAllowed ==
    ASSUME MfaInv, NEW w \in Worker, NEW s \in Session, VerifyAccept(w, s)
    PROVE  AllowedStep
<1>1. req[w] \in Request /\ SecuredSelf(w)
  BY RequestIsTyped
<1>2. PICK p \in PreAuth, c \in Challenge : /\ p = req[w].pre /\ c = req[w].chal
                                            /\ Open(p) /\ Usable(c)
  BY <1>1 DEF VerifyAccept, SecuredSelf, Secured, SecuredVerify, HoldsPre
<1>3. /\ chal'[c].used
      /\ \A d \in Challenge \ {c} : chal'[d] = chal[d]
      /\ \A q \in PreAuth \ {p} : pre'[q] = pre[q]
      /\ pre'[p].sent = pre[p].sent
  BY <1>2 DEF VerifyAccept, MfaInv, RowsOK, ChalRow, PreRow
<1>4. DeadStep /\ SpacedStep
  BY <1>2, <1>3 DEF DeadStep, SpacedStep, Open, Usable
<1>5. KeptStep
  BY <1>3 DEF KeptStep, Usable
<1>6. QED
  BY <1>4, <1>5 DEF AllowedStep

LEMMA CancelAllowed ==
    ASSUME MfaInv, NEW w \in Worker, Cancel(w)
    PROVE  AllowedStep
<1>1. SecuredSelf(w)
  BY RequestIsTyped
<1>2. PICK p \in PreAuth : p = req[w].pre
  BY <1>1 DEF Cancel, SecuredSelf, Secured, HoldsPre
<1>3. /\ pre'[p].cancelled
      /\ \A q \in PreAuth : pre'[q].completed = pre[q].completed /\ pre'[q].sent = pre[q].sent
      /\ \A d \in Challenge : chal'[d].used = chal[d].used
      /\ \A d \in Challenge : chal[d].pre # p => chal'[d] = chal[d]
  BY <1>2 DEF Cancel, MfaInv, RowsOK, ChalRow, PreRow
<1>4. DeadStep /\ SpacedStep
  BY <1>3 DEF DeadStep, SpacedStep
<1>5. KeptStep
  BY <1>3 DEF KeptStep, Usable
<1>6. QED
  BY <1>4, <1>5 DEF AllowedStep

LEMMA AdminCommitAllowed ==
    ASSUME MfaInv, NEW w \in Worker, AdminCommit(w)
    PROVE  AllowedStep
<1>1. SecuredSelf(w)
  BY RequestIsTyped
<1>2. \A p \in PreAuth : pre'[p].completed = pre[p].completed /\ pre'[p].sent = pre[p].sent
  BY DEF AdminCommit, MfaInv, RowsOK, PreRow
<1>3. chal' = Invalidated(w)
  BY DEF AdminCommit
<1>4. DeadStep /\ SpacedStep
  BY <1>2, <1>3, InvalidatedRows DEF DeadStep, SpacedStep
<1>5. KeptStep
  <2> SUFFICES ASSUME NEW c \in Challenge, Usable(c), ~Usable(c)'
               PROVE  chal[c].pre \in outdated'
    BY DEF KeptStep
  <2>1. c \in req[w].rows
    BY <1>3, InvalidatedRows DEF Usable
  <2>2. EndsSignIns(req[w]) /\ chal[c].status = "stored" /\ pre[chal[c].pre].user = req[w].user
    BY <1>1, <2>1 DEF AdminCommit, SecuredSelf, SecuredAdmin, IsAdmin
  <2>3. chal[c].pre \in BuiltOn(w, req[w].user)
    BY <2>2 DEF BuiltOn, MfaInv, RowsOK
  <2>4. QED
    BY <2>2, <2>3 DEF AdminCommit
<1>6. QED
  BY <1>4, <1>5 DEF AllowedStep

LEMMA StepIsAllowed == ASSUME PoolOK, MfaInv, [Next]_vars PROVE AllowedStep
<1>1. ASSUME NEW w \in Worker, NEW p \in PreAuth, NEW c \in Challenge, SendCommit(w, p, c)
      PROVE  AllowedStep
  BY <1>1, SendCommitAllowed
<1>2. ASSUME NEW w \in Worker, VerifyReject(w) PROVE AllowedStep
  BY <1>2, VerifyRejectAllowed
<1>3. ASSUME NEW w \in Worker, NEW s \in Session, VerifyAccept(w, s) PROVE AllowedStep
  BY <1>3, VerifyAcceptAllowed
<1>4. ASSUME NEW w \in Worker, Cancel(w) PROVE AllowedStep
  BY <1>4, CancelAllowed
<1>5. ASSUME NEW w \in Worker, AdminCommit(w) PROVE AllowedStep
  BY <1>5, AdminCommitAllowed
<1>6. CASE UNCHANGED <<pre, chal>>
  BY <1>6 DEF AllowedStep, DeadStep, SpacedStep, KeptStep, Usable
<1>7. ASSUME NEW w \in Worker
      PROVE  /\ \A u \in User : LoginRead(w, u) => UNCHANGED <<pre, chal>>
             /\ \A s \in Session : PlainLogin(w, s) => UNCHANGED <<pre, chal>>
             /\ \A p \in PreAuth, op \in Kinds : Take(w, p, op) => UNCHANGED <<pre, chal>>
             /\ SendFind(w) \/ SendInvalidate(w) => UNCHANGED <<pre, chal>>
             /\ \A c \in Challenge, matches \in BOOLEAN :
                    VerifyDecide(w, c, matches) => UNCHANGED <<pre, chal>>
             /\ \A u \in User, op \in Kinds, want \in Account :
                    AdminStart(w, u, op, want) => UNCHANGED <<pre, chal>>
             /\ ResetFind(w) \/ ResetSessions(w) \/ ResetPreAuths(w) \/ ResetChallenges(w)
                    => UNCHANGED <<pre, chal>>
             /\ Rollback(w) => UNCHANGED <<pre, chal>>
  <2>1. \A u \in User : LoginRead(w, u) => UNCHANGED <<pre, chal>>
    BY DEF LoginRead
  <2>2. \A s \in Session : PlainLogin(w, s) => UNCHANGED <<pre, chal>>
    BY DEF PlainLogin
  <2>3. \A p \in PreAuth, op \in Kinds : Take(w, p, op) => UNCHANGED <<pre, chal>>
    BY DEF Take
  <2>4. SendFind(w) \/ SendInvalidate(w) \/ Rollback(w) => UNCHANGED <<pre, chal>>
    BY DEF SendFind, SendInvalidate, Rollback
  <2>5. \A c \in Challenge, matches \in BOOLEAN :
            VerifyDecide(w, c, matches) => UNCHANGED <<pre, chal>>
    BY DEF VerifyDecide
  <2>6. \A u \in User, op \in Kinds, want \in Account :
            AdminStart(w, u, op, want) => UNCHANGED <<pre, chal>>
    BY DEF AdminStart
  <2>7. ResetFind(w) \/ ResetSessions(w) \/ ResetPreAuths(w) \/ ResetChallenges(w)
            => UNCHANGED <<pre, chal>>
    BY DEF ResetFind, ResetSessions, ResetPreAuths, ResetChallenges
  <2>8. QED
    BY <2>1, <2>2, <2>3, <2>4, <2>5, <2>6, <2>7
<1>8. (\E n \in AttemptLimits : UpdateSettings(n)) \/ Tick \/ UNCHANGED vars
        => UNCHANGED <<pre, chal>>
  BY DEF UpdateSettings, Tick, vars
<1>9. QED
  BY <1>1, <1>2, <1>3, <1>4, <1>5, <1>6, <1>7, <1>8, NextCases DEF Serve

LEMMA StepsAreAllowed == Spec => [][AllowedStep]_vars
<1>1. PoolOK /\ MfaInv /\ [Next]_vars => [AllowedStep]_vars
  BY StepIsAllowed
<1>2. QED
  BY <1>1, MfaInvariant, PTL DEF Spec

(* A cancelled sign-in is not completed, a void code not used, any more. *)
THEOREM TheDeadStayDead == Spec => DeadStaysDead
<1>1. [AllowedStep]_vars
        => [/\ \A p \in PreAuth : pre[p].cancelled => pre'[p].completed = pre[p].completed
            /\ \A c \in Challenge : chal[c].invalidated => chal'[c].used = chal[c].used]_vars
  BY DEF AllowedStep, DeadStep
<1>2. QED
  BY <1>1, StepsAreAllowed, PTL DEF DeadStaysDead

(* Messages of a sign-in are the resend delay apart. *)
THEOREM MessagesAreSpaced == Spec => ResendsAreSpaced
<1>1. [AllowedStep]_vars
        => [\A p \in PreAuth : pre[p].status = "stored" /\ pre'[p].sent # pre[p].sent
                => pre'[p].sent >= pre[p].sent + ResendDelay]_vars
  BY DEF AllowedStep, SpacedStep
<1>2. QED
  BY <1>1, StepsAreAllowed, PTL DEF ResendsAreSpaced

(* A code is replaced, used or ended, and not lost otherwise. *)
THEOREM CodesAreKept == Spec => NoCodeIsLost
<1>1. [AllowedStep]_vars
        => [\A c \in Challenge : Usable(c) =>
                \/ Usable(c)' \/ chal'[c].used
                \/ pre'[chal[c].pre].cancelled \/ chal[c].pre \in outdated'
                \/ \E d \in Challenge : chal[d].status = "absent" /\ Usable(d)']_vars
  BY DEF AllowedStep, KeptStep
<1>2. QED
  BY <1>1, StepsAreAllowed, PTL DEF NoCodeIsLost

-----------------------------------------------------------------------------
(* A server with one thread. *)

PoolServes == \A w \in Worker : req[w].op # "idle" => w \in pool

(* What a password reset has left behind is stored; no thread is outdated; *)
(* a row that is not stored belongs to nobody.                             *)
RowsBuilt ==
    /\ outdated \cap Worker = {}
    /\ \A p \in PreAuth \cap outdated : pre[p].status = "stored"
    /\ \A s \in Session \cap outdated : sess[s].status = "stored"
    /\ \A p \in PreAuth : pre[p].status = "absent" => pre[p].user = None
    /\ \A s \in Session : sess[s].status = "absent" => sess[s].user = None

Settled == OneCodePerUser /\ ResetEndsSignIns /\ RowsBuilt

(* What the request has found or holds is all there is: the codes of the   *)
(* user before a new one, and what a reset ends.                           *)
Gathers(w) ==
    LET r == req[w] IN
    /\ ~IsAdmin(r.op) /\ r.step = "invalidate" => UsableOf(r.user) \subseteq r.found
    /\ ~IsAdmin(r.op) /\ r.step = "mail" => UsableOf(r.user) \subseteq r.rows
    /\ IsAdmin(r.op) /\ EndsSignIns(r) /\ r.step # "load" =>
        /\ LiveOf(r.user) \subseteq IF r.step = "sessions" THEN r.found ELSE r.rows
        /\ r.step # "sessions" =>
            OpenOf(r.user) \subseteq IF r.step = "preauths" THEN r.found ELSE r.rows
        /\ r.step \notin {"sessions", "preauths"} =>
            UsableOf(r.user) \subseteq IF r.step = "challenges" THEN r.found ELSE r.rows

AloneInv == PoolServes /\ (Alone => Settled /\ \A w \in Worker : Gathers(w))

(* A step that makes no code usable and builds only on what counts. *)
LEMMA ShrinkSettles ==
    ASSUME MfaInv, Settled, outdated' = outdated,
           \A c \in Challenge : Usable(c)' => Usable(c) /\ chal'[c].pre = chal[c].pre,
           \A p \in PreAuth : /\ Open(p)' => Open(p)
                              /\ pre'[p].status = pre[p].status /\ pre'[p].user = pre[p].user,
           \A s \in Session : /\ Live(s)' => Live(s) \/ s \notin outdated
                              /\ \/ sess'[s].status = "stored"
                                 \/ /\ sess'[s].status = sess[s].status
                                    /\ sess'[s].user = sess[s].user
    PROVE  Settled'
<1>1. \A c \in Challenge : Usable(c) =>
        chal[c].pre \in PreAuth /\ pre[chal[c].pre].status = "stored"
  BY DEF MfaInv, RowsOK, Usable
<1>2. OneCodePerUser'
  BY <1>1 DEF Settled, OneCodePerUser
<1>3. ResetEndsSignIns'
  BY DEF Settled, ResetEndsSignIns
<1>4. RowsBuilt'
  BY DEF Settled, RowsBuilt
<1>5. QED
  BY <1>2, <1>3, <1>4 DEF Settled

LEMMA SameTablesSettle ==
    ASSUME MfaInv, Settled, UNCHANGED <<pre, chal, sess, outdated>>
    PROVE  Settled'
  BY ShrinkSettles DEF Usable, Open, Live

LEMMA FinishGathers ==
    ASSUME MfaInv, NEW w \in Worker, Finish(w)
    PROVE  Gathers(w)'
<1>1. req'[w] = NoRequest
  BY DEF Finish, MfaInv, RowsOK
<1>2. QED
  BY <1>1 DEF Gathers, NoRequest, IsAdmin

(* What the requests themselves change. *)
LEMMA ReadAlone ==
    ASSUME MfaInv, Settled, NEW w \in Worker, Gathers(w),
           \/ \E u \in User : LoginRead(w, u)
           \/ \E p \in PreAuth, op \in Kinds \cap {"resend", "verify", "cancel"} : Take(w, p, op)
           \/ \E c \in Challenge, matches \in BOOLEAN : VerifyDecide(w, c, matches)
    PROVE  Settled' /\ Gathers(w)'
<1>1. ASSUME NEW u \in User, LoginRead(w, u) PROVE Settled' /\ Gathers(w)'
  <2> DEFINE r == [NoRequest EXCEPT !.op = "login", !.user = u,
                                    !.step = IF account[u].mfa THEN "find" ELSE "plain"]
  <2>1. req'[w] = r
    BY <1>1 DEF LoginRead, MfaInv, RowsOK
  <2>2. r.op = "login" /\ r.step \in {"find", "plain"}
    BY DEF NoRequest
  <2>3. UNCHANGED <<pre, chal, sess, outdated>>
    BY <1>1 DEF LoginRead, Settled, RowsBuilt
  <2> HIDE DEF r
  <2>4. QED
    BY <2>1, <2>2, <2>3, SameTablesSettle DEF Gathers, IsAdmin
<1>2. ASSUME NEW p \in PreAuth, NEW op \in {"resend", "verify", "cancel"}, Take(w, p, op)
      PROVE  Settled' /\ Gathers(w)'
  <2> DEFINE r == [NoRequest EXCEPT !.op = op, !.step = "locked", !.user = pre[p].user,
                                    !.limit = IF op = "verify" THEN limit ELSE 0, !.pre = p,
                                    !.rows = {p}]
  <2>1. req'[w] = r
    BY <1>2 DEF Take, MfaInv, RowsOK
  <2>2. r.op = op /\ r.step = "locked"
    BY DEF NoRequest
  <2>3. UNCHANGED <<pre, chal, sess, outdated>>
    BY <1>2 DEF Take
  <2> HIDE DEF r
  <2>4. QED
    BY <2>1, <2>2, <2>3, SameTablesSettle DEF Gathers, IsAdmin
<1>3. ASSUME NEW c \in Challenge, NEW matches \in BOOLEAN, VerifyDecide(w, c, matches)
      PROVE  Settled' /\ Gathers(w)'
  <2>1. UNCHANGED <<pre, chal, sess, outdated>> /\ req[w].op = "verify"
    BY <1>3 DEF VerifyDecide
  <2> DEFINE verdict == Verdict(req[w], c, matches)
             x == [req[w] EXCEPT !.step = "commit", !.chal = c, !.attempts = chal[c].attempts,
                                 !.verdict = verdict, !.rows = @ \cup {c}]
  <2> HIDE DEF verdict
  <2>2. x.op = req[w].op /\ x.step = "commit"
    BY RequestIsTyped DEF Request
  <2>3. req' = [req EXCEPT ![w] = x]
    BY <1>3, RequestIsTyped DEF VerifyDecide, verdict, Request
  <2>4. req'[w] = x
    BY <2>3 DEF MfaInv, RowsOK
  <2> HIDE DEF x
  <2>5. QED
    BY <2>1, <2>2, <2>4, SameTablesSettle DEF Gathers, IsAdmin
<1>4. QED
  BY <1>1, <1>2, <1>3

LEMMA SendAlone ==
    ASSUME MfaInv, Settled, NEW w \in Worker, Gathers(w), SendFind(w) \/ SendInvalidate(w)
    PROVE  Settled' /\ Gathers(w)'
<1>1. UNCHANGED <<pre, chal, sess, outdated>>
  BY DEF SendFind, SendInvalidate
<1>2. Settled'
  BY <1>1, SameTablesSettle
<1>3. req[w] \in Request /\ ~IsAdmin(req[w].op)
  BY RequestIsTyped DEF SendFind, SendInvalidate, SecuredSelf, Secured, IsAdmin
<1>4. CASE SendFind(w)
  <2>1. /\ req'[w].op = req[w].op /\ req'[w].step = "invalidate"
        /\ req'[w].user = req[w].user /\ req'[w].found = UsableOf(req[w].user)
    BY <1>3, <1>4 DEF SendFind, MfaInv, RowsOK, Request
  <2>2. UsableOf(req[w].user)' = UsableOf(req[w].user)
    <3>1. req'[w].user = req[w].user
      BY <2>1
    <3>2. QED
      BY <1>1, <3>1 DEF UsableOf, Usable
  <2>3. QED
    BY <1>2, <1>3, <2>1, <2>2 DEF Gathers, UsableOf, Usable
<1>5. CASE SendInvalidate(w)
  <2>1. /\ req'[w].op = req[w].op /\ req'[w].step = "mail" /\ req'[w].user = req[w].user
        /\ req'[w].rows = req[w].rows \cup {c \in req[w].found : Usable(c)}
    BY <1>3, <1>5 DEF SendInvalidate, MfaInv, RowsOK, Request
  <2>2. UsableOf(req[w].user) \subseteq req[w].found
    BY <1>3, <1>5 DEF SendInvalidate, Gathers
  <2>3. UsableOf(req[w].user) \subseteq req'[w].rows
    BY <2>1, <2>2 DEF UsableOf
  <2>4. QED
    BY <1>1, <1>2, <1>3, <2>1, <2>3 DEF Gathers, UsableOf, Usable
<1>6. QED
  BY <1>4, <1>5

LEMMA ResetAlone ==
    ASSUME MfaInv, Settled, NEW w \in Worker, Gathers(w),
           ResetSessions(w) \/ ResetPreAuths(w) \/ ResetChallenges(w)
    PROVE  Settled' /\ Gathers(w)'
<1> DEFINE r == req[w]
           u == r.user
<1>1. UNCHANGED <<pre, chal, sess, outdated>>
  BY DEF ResetSessions, ResetPreAuths, ResetChallenges
<1>2. Settled'
  BY <1>1, SameTablesSettle
<1>3. r \in Request /\ IsAdmin(r.op) /\ EndsSignIns(r)
  BY RequestIsTyped
  DEF ResetSessions, ResetPreAuths, ResetChallenges, SecuredSelf, Secured, SecuredAdmin, HoldsPre,
      IsAdmin, Request, Operations
<1>4. /\ req'[w].op = r.op /\ req'[w].user = u
      /\ req'[w].copy = r.copy /\ req'[w].want = r.want
  BY <1>3 DEF ResetSessions, ResetPreAuths, ResetChallenges, MfaInv, RowsOK, Request
<1>5. /\ LiveOf(u)' = LiveOf(u) /\ OpenOf(u)' = OpenOf(u) /\ UsableOf(u)' = UsableOf(u)
  BY <1>1, <1>4 DEF LiveOf, OpenOf, UsableOf, Live, Open, Usable
<1>6. CASE ResetSessions(w)
  <2>1. /\ req'[w].step = "preauths" /\ req'[w].found = OpenOf(u)
        /\ req'[w].rows = r.rows \cup {s \in r.found : Live(s)}
    BY <1>3, <1>6 DEF ResetSessions, MfaInv, RowsOK, Request
  <2>2. LiveOf(u) \subseteq req'[w].rows
    BY <1>3, <1>6, <2>1 DEF ResetSessions, Gathers, LiveOf
  <2>3. QED
    BY <1>2, <1>3, <1>4, <1>5, <2>1, <2>2 DEF Gathers, IsAdmin
<1>7. CASE ResetPreAuths(w)
  <2>1. /\ req'[w].step = "challenges" /\ req'[w].found = UsableOf(u)
        /\ req'[w].rows = r.rows \cup {p \in r.found : Open(p)}
    BY <1>3, <1>7 DEF ResetPreAuths, MfaInv, RowsOK, Request
  <2>2. LiveOf(u) \subseteq req'[w].rows /\ OpenOf(u) \subseteq req'[w].rows
    BY <1>3, <1>7, <2>1 DEF ResetPreAuths, Gathers, OpenOf
  <2>3. QED
    BY <1>2, <1>3, <1>4, <1>5, <2>1, <2>2 DEF Gathers, IsAdmin
<1>8. CASE ResetChallenges(w)
  <2>1. /\ req'[w].step = "commit"
        /\ req'[w].rows = r.rows \cup {c \in r.found : Usable(c)}
    BY <1>3, <1>8 DEF ResetChallenges, MfaInv, RowsOK, Request
  <2>2. /\ LiveOf(u) \subseteq req'[w].rows /\ OpenOf(u) \subseteq req'[w].rows
        /\ UsableOf(u) \subseteq req'[w].rows
    BY <1>3, <1>8, <2>1 DEF ResetChallenges, Gathers, UsableOf
  <2>3. QED
    BY <1>2, <1>3, <1>4, <1>5, <2>1, <2>2 DEF Gathers, IsAdmin
<1>9. QED
  BY <1>6, <1>7, <1>8

LEMMA ResetFindAlone ==
    ASSUME MfaInv, Settled, NEW w \in Worker, ResetFind(w)
    PROVE  Settled' /\ Gathers(w)'
<1>1. UNCHANGED <<pre, chal, sess, outdated>> /\ req[w] \in Request /\ SecuredSelf(w)
  BY RequestIsTyped DEF ResetFind
<1>2. IsAdmin(req[w].op)
  BY <1>1 DEF ResetFind, SecuredSelf, Secured, HoldsPre, IsAdmin, Request, Operations
<1>3. /\ req'[w].op = req[w].op /\ req'[w].user = req[w].user
      /\ req'[w].step = "sessions" /\ req'[w].found = LiveOf(req[w].user)
  BY <1>1 DEF ResetFind, MfaInv, RowsOK, Request
<1>4. LiveOf(req[w].user)' = LiveOf(req[w].user)
  BY <1>1, <1>3 DEF LiveOf, Live
<1>5. Gathers(w)'
  BY <1>2, <1>3, <1>4 DEF Gathers, IsAdmin
<1>6. QED
  BY <1>1, <1>5, SameTablesSettle

LEMMA AdminStartAlone ==
    ASSUME MfaInv, Settled, NEW w \in Worker, NEW u \in User, NEW op \in {"edit", "reset"},
           NEW want \in Account, AdminStart(w, u, op, want)
    PROVE  Settled' /\ Gathers(w)'
<1> DEFINE r == [NoRequest EXCEPT !.op = op, !.user = u, !.copy = account[u], !.want = want]
           x == [r EXCEPT !.step = IF EndsSignIns(r) THEN "load" ELSE "commit"]
<1>1. UNCHANGED <<pre, chal, sess, outdated>> /\ req'[w] = x
  BY DEF AdminStart, MfaInv, RowsOK
<1>2. /\ x.op = r.op /\ x.copy = r.copy /\ x.want = r.want /\ r.op = op
      /\ EndsSignIns(r) => x.step = "load"
  BY DEF NoRequest
<1>3. EndsSignIns(x) <=> EndsSignIns(r)
  BY <1>2 DEF EndsSignIns
<1> HIDE DEF x, r
<1>4. Gathers(w)'
  BY <1>1, <1>2, <1>3 DEF Gathers, IsAdmin
<1>5. QED
  BY <1>1, <1>4, SameTablesSettle

(* What the commits write. *)
LEMMA SignInCommitAlone ==
    ASSUME MfaInv, Settled, NEW w \in Worker,
           \/ \E s \in Session : PlainLogin(w, s) \/ VerifyAccept(w, s)
           \/ VerifyReject(w) \/ Cancel(w) \/ Rollback(w)
    PROVE  Settled' /\ Gathers(w)'
<1>1. req[w] \in Request /\ SecuredSelf(w) /\ w \notin outdated
  BY RequestIsTyped DEF Settled, RowsBuilt
<1>2. ASSUME NEW s \in Session, PlainLogin(w, s) PROVE Settled'
  <2>1. UNCHANGED <<pre, chal, outdated>> /\ s \notin outdated
    BY <1>1, <1>2 DEF PlainLogin, Settled, RowsBuilt
  <2>2. \A t \in Session : /\ Live(t)' => Live(t) \/ t = s
                           /\ sess'[t].status = "stored" \/ sess'[t] = sess[t]
    BY <1>2 DEF PlainLogin, Live, NewSession, MfaInv, RowsOK
  <2>3. QED
    BY <2>1, <2>2, ShrinkSettles DEF Usable, Open
<1>3. ASSUME NEW s \in Session, VerifyAccept(w, s) PROVE Settled'
  <2>1. /\ req[w].pre \in PreAuth /\ Open(req[w].pre)
        /\ req[w].chal \in Challenge
    BY <1>1, <1>3 DEF VerifyAccept, SecuredSelf, Secured, SecuredVerify, HoldsPre
  <2>2. outdated' = outdated /\ s \notin outdated
    BY <1>3, <2>1 DEF VerifyAccept, Settled, RowsBuilt, ResetEndsSignIns
  <2>3. \A t \in Session : /\ Live(t)' => Live(t) \/ t = s
                           /\ sess'[t].status = "stored" \/ sess'[t] = sess[t]
    BY <1>3 DEF VerifyAccept, Live, NewSession, MfaInv, RowsOK
  <2>4. \A p \in PreAuth : /\ Open(p)' => Open(p)
                           /\ pre'[p].status = pre[p].status /\ pre'[p].user = pre[p].user
    BY <1>3, <2>1 DEF VerifyAccept, Open, MfaInv, RowsOK, PreRow
  <2>5. \A c \in Challenge : Usable(c)' => Usable(c) /\ chal'[c].pre = chal[c].pre
    BY <1>3, <2>1 DEF VerifyAccept, Usable, MfaInv, RowsOK, ChalRow
  <2>6. QED
    BY <2>2, <2>3, <2>4, <2>5, ShrinkSettles
<1>4. ASSUME VerifyReject(w) PROVE Settled'
  <2>1. req[w].pre \in PreAuth /\ req[w].chal \in Challenge
    BY <1>1, <1>4 DEF VerifyReject, SecuredSelf, Secured, SecuredVerify, HoldsPre
  <2>2. UNCHANGED <<sess, outdated>>
    BY <1>4 DEF VerifyReject
  <2>3. \A p \in PreAuth : /\ Open(p)' => Open(p)
                           /\ pre'[p].status = pre[p].status /\ pre'[p].user = pre[p].user
    BY <1>4, <2>1 DEF VerifyReject, Open, MfaInv, RowsOK, PreRow
  <2>4. \A c \in Challenge : Usable(c)' => Usable(c) /\ chal'[c].pre = chal[c].pre
    BY <1>4, <2>1 DEF VerifyReject, Usable, MfaInv, RowsOK, ChalRow
  <2>5. QED
    BY <2>2, <2>3, <2>4, ShrinkSettles DEF Live
<1>5. ASSUME Cancel(w) PROVE Settled'
  <2>1. req[w].pre \in PreAuth /\ UNCHANGED <<sess, outdated>>
    BY <1>1, <1>5 DEF Cancel, SecuredSelf, Secured, HoldsPre
  <2>2. \A p \in PreAuth : /\ Open(p)' => Open(p)
                           /\ pre'[p].status = pre[p].status /\ pre'[p].user = pre[p].user
    BY <1>5, <2>1 DEF Cancel, Open, MfaInv, RowsOK, PreRow
  <2>3. \A c \in Challenge : Usable(c)' => Usable(c) /\ chal'[c].pre = chal[c].pre
    BY <1>5, <2>1 DEF Cancel, Usable, MfaInv, RowsOK, ChalRow
  <2>4. QED
    BY <2>1, <2>2, <2>3, ShrinkSettles DEF Live
<1>6. ASSUME Rollback(w) PROVE Settled'
  BY <1>6, SameTablesSettle DEF Rollback
<1>7. Finish(w)
  BY DEF PlainLogin, VerifyAccept, VerifyReject, Cancel, Rollback
<1>8. QED
  BY <1>2, <1>3, <1>4, <1>5, <1>6, <1>7, FinishGathers

(* A new code: the others of the user are held, and void from now on. *)
LEMMA SendCommitAlone ==
    ASSUME MfaInv, Settled, NEW w \in Worker, Gathers(w),
           NEW p \in PreAuth, NEW c \in Challenge, SendCommit(w, p, c)
    PROVE  Settled' /\ Gathers(w)'
<1> DEFINE u == req[w].user
<1>1. /\ req[w] \in Request /\ SecuredSelf(w) /\ w \notin outdated
      /\ pre \in [PreAuth -> PreRow]
  BY RequestIsTyped DEF Settled, RowsBuilt, MfaInv, RowsOK
<1>2. /\ pre' = [pre EXCEPT ![p] = Sent(w, p)]
      /\ chal' = [Invalidated(w) EXCEPT ![c] = NewChallenge(w, p)]
      /\ outdated' = outdated /\ sess' = sess /\ Finish(w)
      /\ req[w].op \in {"login", "resend"} /\ chal[c].status = "absent"
      /\ UsableOf(u) \subseteq req[w].rows
  BY <1>1 DEF SendCommit, Gathers, IsAdmin
<1>3. \/ req[w].op = "login" /\ pre[p].status = "absent"
      \/ /\ req[w].op = "resend" /\ p = req[w].pre /\ Open(p) /\ pre[p].user = u
  BY <1>1 DEF SendCommit, SecuredSelf, Secured, SecuredResend, HoldsPre
<1>4. /\ p \notin outdated
      /\ pre'[p].status = "stored" /\ pre'[p].user = u
      /\ \A q \in PreAuth \ {p} : pre'[q] = pre[q]
  <2>1. CASE req[w].op = "login" /\ pre[p].status = "absent"
    BY <1>1, <1>2, <2>1 DEF Sent, Settled, RowsBuilt
  <2>2. CASE req[w].op = "resend" /\ Open(p) /\ pre[p].user = u
    BY <1>1, <1>2, <2>2 DEF Sent, Open, PreRow, Settled, ResetEndsSignIns
  <2>3. QED
    BY <1>3, <2>1, <2>2
<1>5. /\ \A d \in Challenge \ {c} : Usable(d)' =>
            Usable(d) /\ d \notin req[w].rows /\ chal'[d].pre = chal[d].pre
      /\ chal'[c].pre = p
  <2>1. \A d \in Challenge : /\ Invalidated(w)[d].pre = chal[d].pre
                             /\ Invalidated(w)[d].status = chal[d].status
                             /\ Invalidated(w)[d].used = chal[d].used
                             /\ d \in req[w].rows => Invalidated(w)[d].invalidated
                             /\ d \notin req[w].rows => Invalidated(w)[d] = chal[d]
    BY DEF Invalidated, MfaInv, RowsOK, ChalRow
  <2>2. \A d \in Challenge \ {c} : chal'[d] = Invalidated(w)[d]
    BY <1>2 DEF Invalidated
  <2>3. chal'[c] = NewChallenge(w, p)
    BY <1>2 DEF Invalidated
  <2>4. QED
    BY <2>1, <2>2, <2>3 DEF Usable, NewChallenge
<1>6. \A d \in Challenge : Usable(d) => /\ chal[d].pre \in PreAuth
                                        /\ pre[chal[d].pre].status = "stored"
  BY DEF MfaInv, RowsOK, Usable
<1>7. \A d \in Challenge \ {c} : Usable(d)' =>
        pre'[chal'[d].pre].user = pre[chal[d].pre].user /\ pre[chal[d].pre].user # u
  <2> SUFFICES ASSUME NEW d \in Challenge \ {c}, Usable(d)'
               PROVE  /\ pre'[chal'[d].pre].user = pre[chal[d].pre].user
                      /\ pre[chal[d].pre].user # u
    OBVIOUS
  <2>1. Usable(d) /\ d \notin req[w].rows /\ chal'[d].pre = chal[d].pre
    BY <1>5
  <2>2. pre[chal[d].pre].user # u
    BY <1>2, <2>1 DEF UsableOf
  <2>3. chal[d].pre # p
    BY <1>3, <1>6, <2>1, <2>2
  <2>4. QED
    BY <1>4, <1>6, <2>1, <2>2, <2>3
<1> HIDE DEF u
<1>8. OneCodePerUser'
  <2> SUFFICES ASSUME NEW d \in Challenge, NEW e \in Challenge, Usable(d)', Usable(e)',
                      pre'[chal'[d].pre].user = pre'[chal'[e].pre].user
               PROVE  d = e
    BY DEF OneCodePerUser
  <2>1. CASE d # c /\ e # c
    <3>1. /\ Usable(d) /\ Usable(e)
          /\ pre[chal[d].pre].user = pre[chal[e].pre].user
      BY <1>5, <1>7, <2>1
    <3>2. QED
      BY <3>1 DEF Settled, OneCodePerUser
  <2>2. QED
    BY <1>4, <1>5, <1>7, <2>1
<1>9. ResetEndsSignIns'
  <2>1. \A q \in PreAuth : Open(q)' => q \notin outdated
    BY <1>4 DEF Open, Settled, ResetEndsSignIns
  <2>2. \A d \in Challenge : Usable(d)' => chal'[d].pre \notin outdated
    BY <1>4, <1>5 DEF Settled, ResetEndsSignIns
  <2>3. \A s \in Session : Live(s)' => s \notin outdated
    BY <1>2 DEF Live, Settled, ResetEndsSignIns
  <2>4. QED
    BY <1>2, <2>1, <2>2, <2>3 DEF ResetEndsSignIns
<1>10. RowsBuilt'
  BY <1>2, <1>4 DEF Settled, RowsBuilt
<1>11. QED
  BY <1>2, <1>8, <1>9, <1>10, FinishGathers DEF Settled

(* A reset ends all that was built on the password: it is all held. *)
LEMMA AdminCommitAlone ==
    ASSUME MfaInv, Settled, NEW w \in Worker, Gathers(w), AdminCommit(w),
           \A v \in Worker \ {w} : req[v].op = "idle"
    PROVE  Settled' /\ Gathers(w)'
<1> DEFINE r == req[w]
           u == r.user
<1>1. /\ r \in Request /\ SecuredSelf(w) /\ IsAdmin(r.op) /\ r.step = "commit" /\ u \in User
      /\ Finish(w) /\ chal' = Invalidated(w)
  BY RequestIsTyped DEF AdminCommit, SecuredSelf, Secured, IsAdmin
<1>2. \A s \in Session : /\ sess'[s].status = sess[s].status /\ sess'[s].user = sess[s].user
                         /\ Live(s)' => Live(s) /\ s \notin r.rows
  BY DEF AdminCommit, Live, MfaInv, RowsOK, SessRow
<1>3. \A p \in PreAuth : /\ pre'[p].status = pre[p].status /\ pre'[p].user = pre[p].user
                         /\ Open(p)' => Open(p) /\ p \notin r.rows
  BY DEF AdminCommit, Open, MfaInv, RowsOK, PreRow
<1>4. \A c \in Challenge : /\ chal'[c].pre = chal[c].pre
                           /\ Usable(c)' => Usable(c) /\ c \notin r.rows
  BY <1>1 DEF Invalidated, Usable, MfaInv, RowsOK, ChalRow
<1>5. \A c \in Challenge : Usable(c) => /\ chal[c].pre \in PreAuth
                                        /\ pre[chal[c].pre].status = "stored"
  BY DEF MfaInv, RowsOK, Usable
<1>6. OneCodePerUser'
  BY <1>3, <1>4, <1>5 DEF Settled, OneCodePerUser
<1>7. CASE ~EndsSignIns(r)
  <2>1. outdated' = outdated
    BY <1>7 DEF AdminCommit
  <2>2. QED
    BY <1>1, <1>2, <1>3, <1>4, <2>1, ShrinkSettles, FinishGathers
<1>8. CASE EndsSignIns(r)
  <2>1. /\ LiveOf(u) \subseteq r.rows /\ OpenOf(u) \subseteq r.rows /\ UsableOf(u) \subseteq r.rows
    BY <1>1, <1>8 DEF Gathers
  <2>2. outdated' = outdated \cup {p \in PreAuth : pre[p].user = u}
                             \cup {s \in Session : sess[s].user = u}
    <3>1. outdated' = outdated \cup BuiltOn(w, u)
      BY <1>8 DEF AdminCommit
    <3>2. {v \in Worker \ {w} : req[v].op = "login" /\ req[v].user = u} = {}
      OBVIOUS
    <3>3. QED
      BY <3>1, <3>2 DEF BuiltOn
  <2> HIDE DEF u, r
  <2>3. \A s \in Session : Live(s)' => s \notin outdated'
    BY <1>2, <2>1, <2>2, RowsAreDistinct DEF LiveOf, Settled, ResetEndsSignIns
  <2>4. \A p \in PreAuth : Open(p)' => p \notin outdated'
    BY <1>3, <2>1, <2>2, RowsAreDistinct DEF OpenOf, Settled, ResetEndsSignIns
  <2>5. \A c \in Challenge : Usable(c)' => chal'[c].pre \notin outdated'
    BY <1>4, <1>5, <2>1, <2>2, RowsAreDistinct DEF UsableOf, Settled, ResetEndsSignIns
  <2>6. ResetEndsSignIns'
    BY <2>3, <2>4, <2>5 DEF ResetEndsSignIns
  <2>7. \A p \in PreAuth \cap outdated' : pre'[p].status = "stored"
    <3>1. \A p \in PreAuth : pre[p].user = u => pre[p].status = "stored"
      BY <1>1, RowsAreDistinct DEF Settled, RowsBuilt, MfaInv, RowsOK, PreRow
    <3>2. QED
      BY <1>3, <2>2, <3>1, RowsAreDistinct DEF Settled, RowsBuilt
  <2>8. \A s \in Session \cap outdated' : sess'[s].status = "stored"
    <3>1. \A s \in Session : sess[s].user = u => sess[s].status = "stored"
      BY <1>1, RowsAreDistinct DEF Settled, RowsBuilt, MfaInv, RowsOK, SessRow
    <3>2. QED
      BY <1>2, <2>2, <3>1, RowsAreDistinct DEF Settled, RowsBuilt
  <2>9. RowsBuilt'
    BY <1>2, <1>3, <2>2, <2>7, <2>8, RowsAreDistinct DEF Settled, RowsBuilt
  <2>10. QED
    BY <1>1, <1>6, <2>6, <2>9, FinishGathers DEF Settled
<1>9. QED
  BY <1>7, <1>8

(* A step of a thread, the only one that has work. *)
LEMMA ServeAlone ==
    ASSUME MfaInv, Settled, NEW w \in Worker, Gathers(w), Serve(w),
           \A v \in Worker \ {w} : req[v].op = "idle"
    PROVE  Settled' /\ Gathers(w)'
<1>1. ASSUME NEW p \in PreAuth, NEW c \in Challenge, SendCommit(w, p, c)
      PROVE  Settled' /\ Gathers(w)'
  BY <1>1, SendCommitAlone
<1>2. ASSUME NEW u \in User, NEW op \in Kinds \cap {"edit", "reset"}, NEW want \in Account,
             AdminStart(w, u, op, want)
      PROVE  Settled' /\ Gathers(w)'
  BY <1>2, AdminStartAlone
<1>3. ASSUME AdminCommit(w) PROVE Settled' /\ Gathers(w)'
  BY <1>3, AdminCommitAlone
<1>4. QED
  BY <1>1, <1>2, <1>3, ReadAlone, SendAlone, ResetFindAlone, ResetAlone, SignInCommitAlone
     DEF Serve

LEMMA OthersUntouched ==
    ASSUME MfaInv, NEW w \in Worker, Serve(w)
    PROVE  \A v \in Worker \ {w} : req'[v] = req[v]
<1> USE DEF MfaInv, RowsOK, Finish
<1>1. ASSUME NEW u \in User, LoginRead(w, u) PROVE \A v \in Worker \ {w} : req'[v] = req[v]
  BY <1>1 DEF LoginRead
<1>2. ASSUME NEW s \in Session, PlainLogin(w, s) \/ VerifyAccept(w, s)
      PROVE  \A v \in Worker \ {w} : req'[v] = req[v]
  BY <1>2 DEF PlainLogin, VerifyAccept
<1>3. ASSUME NEW p \in PreAuth, NEW op \in Kinds, Take(w, p, op)
      PROVE  \A v \in Worker \ {w} : req'[v] = req[v]
  BY <1>3 DEF Take
<1>4. ASSUME SendFind(w) \/ SendInvalidate(w) PROVE \A v \in Worker \ {w} : req'[v] = req[v]
  BY <1>4 DEF SendFind, SendInvalidate
<1>5. ASSUME NEW p \in PreAuth, NEW c \in Challenge, SendCommit(w, p, c)
      PROVE  \A v \in Worker \ {w} : req'[v] = req[v]
  BY <1>5 DEF SendCommit
<1>6. ASSUME NEW c \in Challenge, NEW matches \in BOOLEAN, VerifyDecide(w, c, matches)
      PROVE  \A v \in Worker \ {w} : req'[v] = req[v]
  BY <1>6 DEF VerifyDecide
<1>7. ASSUME VerifyReject(w) \/ Cancel(w) \/ Rollback(w)
      PROVE  \A v \in Worker \ {w} : req'[v] = req[v]
  BY <1>7 DEF VerifyReject, Cancel, Rollback
<1>8. ASSUME NEW u \in User, NEW op \in Kinds, NEW want \in Account, AdminStart(w, u, op, want)
      PROVE  \A v \in Worker \ {w} : req'[v] = req[v]
  BY <1>8 DEF AdminStart
<1>9. ASSUME \/ ResetFind(w) \/ ResetSessions(w) \/ ResetPreAuths(w) \/ ResetChallenges(w)
             \/ AdminCommit(w)
      PROVE  \A v \in Worker \ {w} : req'[v] = req[v]
  BY <1>9 DEF ResetFind, ResetSessions, ResetPreAuths, ResetChallenges, AdminCommit
<1> HIDE DEF MfaInv, RowsOK, Finish
<1>10. QED
  BY <1>1, <1>2, <1>3, <1>4, <1>5, <1>6, <1>7, <1>8, <1>9 DEF Serve

LEMMA AloneStep == ASSUME PoolOK, MfaInv, AloneInv, [Next]_vars PROVE AloneInv'
<1>1. \A v \in Worker : req[v].op = "idle" => req[v].step = "begin"
  BY DEF MfaInv, AllSecured, Secured
<1>2. ASSUME NEW w \in pool, w \in Worker, Serve(w), pool' = pool PROVE AloneInv'
  <2>1. \A v \in Worker \ {w} : req'[v] = req[v]
    BY <1>2, OthersUntouched
  <2>2. PoolServes'
    BY <1>2, <2>1 DEF AloneInv, PoolServes
  <2>3. ASSUME Alone PROVE Settled' /\ \A v \in Worker : Gathers(v)'
    <3>1. \A v \in Worker \ {w} : req[v].op = "idle"
      BY <1>2, <2>3 DEF Alone, AloneInv, PoolServes
    <3>2. Settled' /\ Gathers(w)'
      BY <1>2, <2>3, <3>1, ServeAlone DEF AloneInv
    <3>3. \A v \in Worker \ {w} : Gathers(v)'
      BY <1>1, <2>1, <3>1 DEF Gathers, IsAdmin
    <3>4. QED
      BY <3>2, <3>3
  <2>4. QED
    BY <1>2, <2>2, <2>3 DEF AloneInv, Alone
<1>3. ASSUME UNCHANGED <<pool, account, pre, chal, sess, req, outdated>> PROVE AloneInv'
  <2>1. PoolServes' /\ (Alone' <=> Alone)
    BY <1>3 DEF AloneInv, PoolServes, Alone
  <2>2. Settled => Settled'
    BY <1>3, SameTablesSettle
  <2>3. \A v \in Worker : Gathers(v) => Gathers(v)'
    BY <1>3 DEF Gathers, UsableOf, LiveOf, OpenOf, Usable, Live, Open
  <2>4. QED
    BY <2>1, <2>2, <2>3 DEF AloneInv
<1>4. ASSUME NEW n \in AttemptLimits, UpdateSettings(n), pool' = pool PROVE AloneInv'
  BY <1>3, <1>4 DEF UpdateSettings
<1>5. ASSUME Tick, pool' = pool PROVE AloneInv'
  BY <1>3, <1>5 DEF Tick
<1>6. ASSUME UNCHANGED vars PROVE AloneInv'
  BY <1>3, <1>6 DEF vars
<1>7. QED
  BY <1>2, <1>4, <1>5, <1>6, NextCases

LEMMA AloneInit == Init => AloneInv
<1> SUFFICES ASSUME Init PROVE AloneInv
  OBVIOUS
<1>1. \A w \in Worker : req[w].op = "idle" /\ req[w].step = "begin"
  BY DEF Init, NoRequest
<1>2. PoolServes /\ \A w \in Worker : Gathers(w)
  BY <1>1 DEF PoolServes, Gathers, IsAdmin
<1>3. RowsBuilt
  BY DEF Init, RowsBuilt, NoPre, NoSess
<1>4. \A c \in Challenge : ~Usable(c)
  BY DEF Init, Usable, NoChal
<1>5. OneCodePerUser /\ ResetEndsSignIns
  BY <1>4 DEF Init, OneCodePerUser, ResetEndsSignIns
<1>6. QED
  BY <1>2, <1>3, <1>5 DEF AloneInv, Settled

(* With one thread, a message makes the user's other codes void, and a     *)
(* reset leaves nothing that rests on an earlier password check.           *)
THEOREM OneAtATimeHolds == Spec => []OneAtATime
<1>1. Init => AloneInv
  BY AloneInit
<1>2. PoolOK /\ MfaInv /\ AloneInv /\ [Next]_vars => AloneInv'
  BY AloneStep
<1>3. AloneInv => OneAtATime
  BY DEF AloneInv, Settled, OneAtATime
<1>4. QED
  BY <1>1, <1>2, <1>3, MfaInvariant, PTL DEF Spec

=============================================================================
