-------------------------- MODULE PasswordResetProofs --------------------------
(***************************************************************************)
(* Password-reset links for any sets of rows and threads: types, how many  *)
(* links and uses overlapping requests can leave, and which sessions       *)
(* outlive the password that opened them.                                  *)
(***************************************************************************)
EXTENDS PasswordReset, FiniteSetTheorems, TLAPS

RequestRow == [op : {"idle", "signin", "request", "complete", "reset", "disable"},
               step : {"begin", "user", "sessions", "links", "commit"},
               token : Token \cup {None}, password : 0..password, expires : Nat,
               found : SUBSET (Token \cup Session),
               rows : SUBSET (Token \cup Session)]
TokenRow == [status : {"absent", "stored"}, used : BOOLEAN, expires : Nat]

(* A request names rows that are stored. *)
NamesStored(r) ==
    /\ r.op = "complete" => r.token \in Token /\ tok[r.token].status = "stored"
    /\ \A t \in Token : t \in r.found \cup r.rows => tok[t].status = "stored"

TypeInv ==
    /\ RowsOK
    /\ \A w \in Worker : NamesStored(req[w])
    /\ \A t \in Token : tok[t].status = "absent" => ~tok[t].used

LEMMA ResetTypeInit == Init => TypeInv
  BY TtlIsPositive DEF Init, TypeInv, RowsOK, NamesStored, NoToken, NoSession, NoRequest

LEMMA NoRequestIsRow == ASSUME RowsOK PROVE NoRequest \in RequestRow /\ NamesStored(NoRequest)
  BY DEF RowsOK, NoRequest, RequestRow, NamesStored

(* A step of one request that writes no table. *)
LEMMA LocalReset ==
  ASSUME TypeInv, NEW w \in Worker, NEW r \in RequestRow, NamesStored(r),
         req' = [req EXCEPT ![w] = r],
         UNCHANGED <<enabled, password, tok, sess, now, uses, author, late>>,
         unseen' \in [Worker -> SUBSET Session]
  PROVE  TypeInv'
<1>1. RowsOK'
  BY DEF TypeInv, RowsOK, RequestRow
<1>2. \A v \in Worker : NamesStored(req[v])'
  BY DEF TypeInv, RowsOK, NamesStored
<1> QED
  BY <1>1, <1>2 DEF TypeInv

(* A commit: rows stay stored, and what has been used stays used. *)
LEMMA CommitReset ==
  ASSUME TypeInv, NEW w \in Worker, req' = [req EXCEPT ![w] = NoRequest],
         enabled' \in BOOLEAN, password' \in 0..MaxPassword, password' >= password, now' = now,
         tok' \in [Token -> TokenRow],
         sess' \in [Session -> [status : {"absent", "live", "revoked"}, password : 0..password]],
         \A t \in Token : tok[t].status = "stored" => tok'[t].status = "stored",
         \A t \in Token : tok'[t].status = "absent" => ~tok'[t].used,
         uses' \in [Token -> Nat], author' \in [Token -> Worker \cup {None}],
         unseen' \in [Worker -> SUBSET Session], late' \subseteq Session,
         \A t \in Token : uses'[t] > 0 => tok'[t].used
  PROVE  TypeInv'
<1>1. NoRequest \in RequestRow
  BY NoRequestIsRow DEF TypeInv
<1>2. req' \in [Worker -> RequestRow]'
  <2>1. \A v \in Worker : req'[v] \in RequestRow
    BY <1>1 DEF TypeInv, RowsOK, RequestRow
  <2>2. \A r \in RequestRow : r \in RequestRow'
    BY DEF RequestRow, TypeInv, RowsOK
  <2> QED
    BY <2>1, <2>2 DEF TypeInv, RowsOK
<1>3. sess' \in [Session -> [status : {"absent", "live", "revoked"}, password : 0..password']]
  BY DEF TypeInv, RowsOK
<1>4. RowsOK'
  BY <1>2, <1>3 DEF TypeInv, RowsOK, RequestRow, TokenRow
<1>5. \A v \in Worker : NamesStored(req[v])'
  BY DEF TypeInv, RowsOK, NamesStored, NoRequest
<1> QED
  BY <1>4, <1>5 DEF TypeInv

LEMMA UsedUpIsTyped ==
  ASSUME TypeInv, NEW rows
  PROVE  /\ UsedUp(rows) \in [Token -> TokenRow]
         /\ \A t \in Token : UsedUp(rows)[t].status = tok[t].status
         /\ \A t \in Token : UsedUp(rows)[t].used <=> tok[t].used \/ t \in rows
<1>1. \A t \in Token : [tok[t] EXCEPT !.used = @ \/ t \in rows] \in TokenRow
  <2> SUFFICES ASSUME NEW t \in Token
               PROVE  [tok[t] EXCEPT !.used = @ \/ t \in rows] \in TokenRow
    OBVIOUS
  <2>1. tok[t] \in TokenRow
    BY DEF TypeInv, RowsOK, TokenRow
  <2>2. (tok[t].used \/ t \in rows) \in BOOLEAN
    OBVIOUS
  <2> QED
    BY <2>1, <2>2, Zenon DEF TokenRow
<1>2. \A t \in Token : tok[t] \in TokenRow
  BY DEF TypeInv, RowsOK, TokenRow
<1>4. UsedUp(rows) \in [Token -> TokenRow]
  BY <1>1, Zenon DEF UsedUp
<1>5. \A t \in Token : UsedUp(rows)[t].status = tok[t].status
  BY <1>2 DEF UsedUp, TokenRow
<1>6. \A t \in Token : UsedUp(rows)[t].used <=> tok[t].used \/ t \in rows
  BY <1>2 DEF UsedUp, TokenRow
<1> QED
  BY <1>4, <1>5, <1>6, Zenon

LEMMA RevokedIsTyped ==
  ASSUME TypeInv, NEW rows
  PROVE  Revoked(rows) \in [Session -> [status : {"absent", "live", "revoked"}, password : 0..password]]
  BY DEF Revoked, TypeInv, RowsOK

(* Only threads of the server take steps. *)
PoolOK == pool \subseteq Worker

LEMMA NextCases ==
  ASSUME PoolOK, [Next]_vars
  PROVE  /\ pool' = pool /\ PoolOK'
         /\ \/ \E w \in pool : w \in Worker /\ Serve(w)
            \/ Enable \/ Tick \/ UNCHANGED vars
BY DEF PoolOK, Next, vars

LEMMA ResetTypeNext == PoolOK /\ TypeInv /\ [Next]_vars => TypeInv'
<1> SUFFICES ASSUME PoolOK, TypeInv, [Next]_vars PROVE TypeInv'
  OBVIOUS
<1>0. RowsOK /\ NoRequest \in RequestRow /\ NamesStored(NoRequest)
  BY NoRequestIsRow DEF TypeInv
<1>a. unseen \in [Worker -> SUBSET Session] /\ late \subseteq Session
  BY <1>0 DEF RowsOK
<1>1. ASSUME NEW w \in Worker, SignInCheck(w) PROVE TypeInv'
  <2> DEFINE r == [NoRequest EXCEPT !.op = "signin", !.password = password]
  <2>1. r \in RequestRow /\ NamesStored(r)
    <3>1. password \in 0..password
      BY <1>0 DEF RowsOK
    <3> QED
      BY <1>0, <3>1 DEF NoRequest, RequestRow, NamesStored
  <2> QED
    BY <1>a, <1>1, <2>1, LocalReset DEF SignInCheck
<1>2. ASSUME NEW w \in Worker, NEW s \in Session, SignInCommit(w, s) PROVE TypeInv'
  <2>1. sess' \in [Session -> [status : {"absent", "live", "revoked"}, password : 0..password]]
    BY <1>0, <1>2 DEF SignInCommit, RowsOK
  <2>2. /\ req' = [req EXCEPT ![w] = NoRequest]
        /\ UNCHANGED <<enabled, password, tok, now, uses, author>>
    BY <1>2 DEF SignInCommit, Finish
  <2>5. unseen' \in [Worker -> SUBSET Session] /\ late' \subseteq Session
    BY <1>a, <1>2 DEF SignInCommit
  <2>3. /\ tok' \in [Token -> TokenRow]
        /\ \A t \in Token : tok[t].status = "stored" => tok'[t].status = "stored"
        /\ \A t \in Token : tok'[t].status = "absent" => ~tok'[t].used
        /\ \A t \in Token : uses'[t] > 0 => tok'[t].used
    BY <1>0, <2>2 DEF TypeInv, RowsOK, TokenRow
  <2>4. /\ enabled' \in BOOLEAN /\ password' \in 0..MaxPassword /\ password' >= password
        /\ now' = now /\ uses' \in [Token -> Nat] /\ author' \in [Token -> Worker \cup {None}]
    BY <1>0, <2>2 DEF RowsOK
  <2> QED
    BY <2>1, <2>2, <2>3, <2>4, <2>5, CommitReset
<1>3. ASSUME NEW w \in Worker, Request(w) PROVE TypeInv'
  <2> DEFINE r == [NoRequest EXCEPT !.op = "request", !.step = "links", !.found = Links]
  <2>1. r \in RequestRow /\ NamesStored(r)
    BY <1>0 DEF NoRequest, RequestRow, NamesStored, RowsOK, Links
  <2> QED
    BY <1>a, <1>3, <2>1, LocalReset DEF Request
<1>4. ASSUME NEW w \in Worker, HoldLinks(w) PROVE TypeInv'
  <2> DEFINE r == [req[w] EXCEPT !.step = "commit", !.rows = @ \cup (req[w].found \cap Links),
                                 !.expires = IF req[w].op = "request" THEN now + Ttl ELSE 0]
  <2>1. req[w] \in RequestRow /\ NamesStored(req[w])
    BY <1>0 DEF TypeInv, RowsOK, RequestRow
  <2>4. now + Ttl \in Nat
    BY <1>0, TtlIsPositive DEF RowsOK
  <2>2. r \in RequestRow /\ NamesStored(r)
    BY <2>1, <2>4 DEF RequestRow, NamesStored, Links
  <2>3. req' = [req EXCEPT ![w] = r]
    BY <1>0, <1>4 DEF HoldLinks, RowsOK
  <2> QED
    BY <1>a, <1>4, <2>2, <2>3, LocalReset DEF HoldLinks
<1>5. ASSUME NEW w \in Worker, NEW t \in Token, RequestCommit(w, t) PROVE TypeInv'
  <2> DEFINE U == UsedUp(req[w].rows)
             new == [status |-> "stored", used |-> FALSE, expires |-> req[w].expires]
  <2>1. /\ U \in [Token -> TokenRow]
        /\ \A u \in Token : U[u].status = tok[u].status
        /\ \A u \in Token : U[u].used <=> tok[u].used \/ u \in req[w].rows
    BY UsedUpIsTyped
  <2>2. tok' = [U EXCEPT ![t] = new] /\ tok[t].status = "absent"
    BY <1>5 DEF RequestCommit
  <2>3. new \in TokenRow
    BY <1>0 DEF RowsOK, TokenRow
  <2>4. tok' \in [Token -> TokenRow]
    BY <2>1, <2>2, <2>3
  <2>5. tok'[t] = new /\ \A u \in Token \ {t} : tok'[u] = U[u]
    BY <2>1, <2>2
  <2>6. \A u \in Token : tok[u].status = "stored" => tok'[u].status = "stored"
    BY <2>1, <2>5
  <2>7. \A u \in Token : tok'[u].status = "absent" => ~tok'[u].used
    BY <2>1, <2>5 DEF TypeInv, NamesStored
  <2>8. \A u \in Token : uses[u] > 0 => tok'[u].used
    BY <2>1, <2>2, <2>5 DEF TypeInv, RowsOK
  <2>9. author' \in [Token -> Worker \cup {None}]
    BY <1>0, <1>5 DEF RequestCommit, RowsOK
  <2>10. /\ req' = [req EXCEPT ![w] = NoRequest]
         /\ UNCHANGED <<enabled, password, sess, now, uses, unseen, late>>
    BY <1>5 DEF RequestCommit, Finish
  <2>11. /\ enabled' \in BOOLEAN /\ password' \in 0..MaxPassword /\ password' >= password
         /\ now' = now /\ uses' \in [Token -> Nat]
         /\ sess' \in [Session -> [status : {"absent", "live", "revoked"}, password : 0..password]]
    BY <1>0, <2>10 DEF RowsOK
  <2>12. \A u \in Token : uses'[u] > 0 => tok'[u].used
    BY <2>8, <2>10
  <2> QED
    BY <1>a, <2>4, <2>6, <2>7, <2>9, <2>10, <2>11, <2>12, CommitReset
<1>6. ASSUME NEW w \in Worker, NEW t \in Token, Complete(w, t) PROVE TypeInv'
  <2> DEFINE r == [NoRequest EXCEPT !.op = "complete", !.step = "user", !.token = t]
  <2>1. r \in RequestRow /\ NamesStored(r)
    BY <1>0, <1>6 DEF NoRequest, RequestRow, NamesStored, Complete, Links
  <2> QED
    BY <1>a, <1>6, <2>1, LocalReset DEF Complete
<1>7. ASSUME NEW w \in Worker, NEW op \in {"reset", "disable"}, AdminStart(w, op)
      PROVE  TypeInv'
  <2> DEFINE r == [NoRequest EXCEPT !.op = op]
  <2>1. r \in RequestRow /\ NamesStored(r)
    BY <1>0 DEF NoRequest, RequestRow, NamesStored
  <2> QED
    BY <1>a, <1>7, <2>1, LocalReset DEF AdminStart
<1>8. CASE Enable
  BY <1>8 DEF Enable, TypeInv, RowsOK, NamesStored
<1>16. ASSUME NEW w \in Worker, CompleteUser(w) PROVE TypeInv'
  <2> DEFINE r == [req[w] EXCEPT !.step = "begin"]
  <2>1. req[w] \in RequestRow /\ NamesStored(req[w])
    BY <1>0 DEF TypeInv, RowsOK, RequestRow
  <2>2. r \in RequestRow /\ NamesStored(r)
    BY <2>1 DEF RequestRow, NamesStored
  <2>3. req' = [req EXCEPT ![w] = r]
    BY <1>0, <1>16 DEF CompleteUser, RowsOK
  <2> QED
    BY <1>a, <1>16, <2>2, <2>3, LocalReset DEF CompleteUser
<1>9. ASSUME NEW w \in Worker, FindSessions(w) PROVE TypeInv'
  <2> DEFINE r == [req[w] EXCEPT !.step = "sessions", !.found = Live]
  <2>1. req[w] \in RequestRow /\ NamesStored(req[w])
    BY <1>0 DEF TypeInv, RowsOK, RequestRow
  <2>2. r \in RequestRow /\ NamesStored(r)
    BY <2>1, RowsAreDistinct DEF RequestRow, NamesStored, Live
  <2>3. req' = [req EXCEPT ![w] = r]
    BY <1>0, <1>9 DEF FindSessions, RowsOK
  <2> QED
    BY <1>a, <1>9, <2>2, <2>3, LocalReset DEF FindSessions
<1>10. ASSUME NEW w \in Worker, HoldSessions(w) PROVE TypeInv'
  <2> DEFINE r == [req[w] EXCEPT
            !.rows = @ \cup (req[w].found \cap Live),
            !.step = IF req[w].op = "complete" THEN "commit" ELSE "links",
            !.found = IF req[w].op = "complete" THEN {} ELSE Links]
  <2>1. req[w] \in RequestRow /\ NamesStored(req[w])
    BY <1>0 DEF TypeInv, RowsOK, RequestRow
  <2>2. r \in RequestRow /\ NamesStored(r)
    BY <2>1 DEF RequestRow, NamesStored, Live, Links
  <2>3. req' = [req EXCEPT ![w] = r]
    BY <1>0, <1>10 DEF HoldSessions, RowsOK
  <2> QED
    BY <1>a, <1>10, <2>2, <2>3, LocalReset DEF HoldSessions
<1>11. ASSUME NEW w \in Worker, CompleteCommit(w) PROVE TypeInv'
  <2> DEFINE t == req[w].token
  <2>1. t \in Token /\ tok[t].status = "stored"
    BY <1>11 DEF CompleteCommit, TypeInv, NamesStored
  <2>2. /\ tok' \in [Token -> TokenRow]
        /\ \A u \in Token : tok'[u].status = tok[u].status
        /\ \A u \in Token : tok'[u].used <=> tok[u].used \/ u = t
    BY <1>11, UsedUpIsTyped DEF CompleteCommit
  <2>3. sess' \in [Session -> [status : {"absent", "live", "revoked"}, password : 0..password]]
    BY <1>11, RevokedIsTyped DEF CompleteCommit
  <2>4. uses' = [uses EXCEPT ![t] = @ + 1]
    BY <1>11 DEF CompleteCommit
  <2>5. uses' \in [Token -> Nat] /\ \A u \in Token : uses'[u] > 0 => tok'[u].used
    BY <1>0, <2>1, <2>2, <2>4 DEF RowsOK
  <2>6. password' \in 0..MaxPassword /\ password' >= password
    BY <1>0, <1>11, TtlIsPositive DEF CompleteCommit, RowsOK
  <2>7. \A u \in Token : tok'[u].status = "absent" => ~tok'[u].used
    BY <2>1, <2>2 DEF TypeInv
  <2> QED
    BY <1>0, <1>a, <1>11, <2>2, <2>3, <2>5, <2>6, <2>7, CommitReset
       DEF CompleteCommit, Finish, RowsOK
<1>12. ASSUME NEW w \in Worker, AdminCommit(w) PROVE TypeInv'
  <2>1. /\ tok' \in [Token -> TokenRow]
        /\ \A u \in Token : tok'[u].status = tok[u].status
        /\ \A u \in Token : tok'[u].used <=> tok[u].used \/ u \in req[w].rows
    BY <1>12, UsedUpIsTyped DEF AdminCommit
  <2>2. sess' \in [Session -> [status : {"absent", "live", "revoked"}, password : 0..password]]
    BY <1>12, RevokedIsTyped DEF AdminCommit
  <2>3. \A u \in Token : tok'[u].status = "absent" => ~tok'[u].used
    BY <2>1 DEF TypeInv, NamesStored
  <2>4. \A u \in Token : uses[u] > 0 => tok'[u].used
    BY <1>0, <2>1 DEF RowsOK
  <2>5. /\ enabled' \in BOOLEAN
        /\ password' \in 0..MaxPassword /\ password' >= password
    <3>1. CASE req[w].op = "reset"
      BY <1>0, <1>12, <3>1, TtlIsPositive DEF AdminCommit, RowsOK
    <3>2. CASE req[w].op # "reset"
      <4>1. enabled' = FALSE /\ password' = password
        BY <1>12, <3>2 DEF AdminCommit
      <4>2. password \in 0..MaxPassword
        BY <1>0 DEF RowsOK
      <4>3. enabled' \in BOOLEAN
        BY <4>1
      <4>4. password' \in 0..MaxPassword /\ password' >= password
        BY <4>1, <4>2, TtlIsPositive
      <4> QED
        BY <4>3, <4>4
    <3> QED
      BY <3>1, <3>2
  <2>6. unseen' \in [Worker -> SUBSET Session] /\ late' \subseteq Session
    BY <1>a, <1>12 DEF AdminCommit
  <2> QED
    BY <1>0, <1>12, <2>1, <2>2, <2>3, <2>4, <2>5, <2>6, CommitReset
       DEF AdminCommit, Finish, RowsOK
<1>13. ASSUME NEW w \in Worker, Rollback(w) PROVE TypeInv'
  BY <1>0, <1>a, <1>13, LocalReset DEF Rollback, Finish
<1>14. CASE Tick
  BY <1>14, TtlIsPositive DEF Tick, TypeInv, RowsOK, NamesStored
<1>15. CASE UNCHANGED vars
  BY <1>15 DEF vars, TypeInv, RowsOK, NamesStored
<1> QED
  BY <1>1, <1>2, <1>3, <1>4, <1>5, <1>6, <1>7, <1>8, <1>9, <1>10, <1>11, <1>12, <1>13,
     <1>14, <1>15, <1>16, NextCases DEF Serve, Step

(* A thread changes its own request only, and only a thread of the pool    *)
(* has one.                                                                *)
LEMMA OthersWait ==
  ASSUME TypeInv, NEW w \in Worker, Serve(w)
  PROVE  \A v \in Worker \ {w} : req'[v] = req[v]
<1>1. req \in [Worker -> RequestRow]
  BY DEF TypeInv, RowsOK, RequestRow
<1>2. ASSUME NEW r, req' = [req EXCEPT ![w] = r] PROVE \A v \in Worker \ {w} : req'[v] = req[v]
  BY <1>1, <1>2
<1>3. CASE SignInCheck(w) \/ Request(w) \/ Rollback(w)
  BY <1>2, <1>3 DEF SignInCheck, Request, Rollback, Finish
<1>4. ASSUME NEW s \in Session, SignInCommit(w, s)
      PROVE  \A v \in Worker \ {w} : req'[v] = req[v]
  BY <1>2, <1>4 DEF SignInCommit, Finish
<1>5. ASSUME NEW t \in Token, RequestCommit(w, t) \/ Complete(w, t)
      PROVE  \A v \in Worker \ {w} : req'[v] = req[v]
  BY <1>2, <1>5 DEF RequestCommit, Complete, Finish
<1>6. ASSUME NEW op \in {"reset", "disable"}, AdminStart(w, op)
      PROVE  \A v \in Worker \ {w} : req'[v] = req[v]
  BY <1>2, <1>6 DEF AdminStart
<1>7. CASE CompleteUser(w) \/ FindSessions(w) \/ HoldSessions(w) \/ HoldLinks(w)
  BY <1>1, <1>7 DEF CompleteUser, FindSessions, HoldSessions, HoldLinks
<1>8. CASE CompleteCommit(w) \/ AdminCommit(w)
  BY <1>2, <1>8 DEF CompleteCommit, AdminCommit, Finish
<1> QED
  BY <1>3, <1>4, <1>5, <1>6, <1>7, <1>8 DEF Serve, Step

PoolServes == \A w \in Worker : req[w].op # "idle" => w \in pool

LEMMA PoolNext == ASSUME PoolOK, TypeInv, PoolServes, [Next]_vars PROVE PoolServes'
<1>1. ASSUME NEW w \in pool, w \in Worker, Serve(w), pool' = pool PROVE PoolServes'
  BY <1>1, OthersWait DEF PoolServes
<1>2. CASE req' = req /\ pool' = pool
  BY <1>2 DEF PoolServes
<1> QED
  BY <1>1, <1>2, NextCases DEF Enable, Tick, vars

ResetInv == PoolOK /\ PoolServes /\ TypeInv

LEMMA ResetInvariance == Spec => []ResetInv
<1>1. Init => ResetInv
  BY ResetTypeInit DEF Init, ResetInv, PoolOK, PoolServes, NoRequest
<1>2. ResetInv /\ [Next]_vars => ResetInv'
  BY ResetTypeNext, PoolNext, NextCases DEF ResetInv
<1> QED
  BY <1>1, <1>2, PTL DEF Spec

(* Types, and that a link which has set a password is used up, for any     *)
(* number of rows and workers (complete_password_reset).                   *)
THEOREM ResetTypeCorrect == Spec => []TypeOK
<1>1. ResetInv => TypeOK
  BY DEF ResetInv, PoolOK, TypeInv, TypeOK
<1> QED
  BY <1>1, ResetInvariance, PTL

LEMMA PoolIsFinite == ASSUME PoolOK PROVE IsFiniteSet(pool) /\ Cardinality(pool) \in Nat
BY ThreadsAreFinite, FS_Subset, FS_CardinalityType DEF PoolOK

-----------------------------------------------------------------------------
(* What a step does to the links in use: it ends those it names, and only  *)
(* RequestCommit adds one.                                                 *)
LEMMA LinksAfterUse ==
  ASSUME TypeInv, NEW rows, tok' = UsedUp(rows)
  PROVE  Links' = Links \ rows
BY UsedUpIsTyped DEF Links

LEMMA LinksAfterRequest ==
  ASSUME TypeInv, NEW w \in Worker, NEW t \in Token, RequestCommit(w, t)
  PROVE  Links' = (Links \ req[w].rows) \cup {t} /\ t \notin Links
<1> DEFINE U == UsedUp(req[w].rows)
           new == [status |-> "stored", used |-> FALSE, expires |-> req[w].expires]
<1>1. tok' = [U EXCEPT ![t] = new] /\ tok[t].status = "absent"
  BY DEF RequestCommit
<1>2. /\ U \in [Token -> TokenRow]
      /\ \A u \in Token : U[u].status = tok[u].status
      /\ \A u \in Token : U[u].used <=> tok[u].used \/ u \in req[w].rows
  BY UsedUpIsTyped
<1>3. tok'[t] = new /\ \A u \in Token \ {t} : tok'[u] = U[u]
  BY <1>1, <1>2
<1> QED
  BY <1>1, <1>2, <1>3 DEF Links

-----------------------------------------------------------------------------
(* Whoever follows a link read it unused, and sets one password with it.   *)
Followers(t) == {w \in Worker : req[w].op = "complete" /\ req[w].token = t}

LEMMA FollowersServe ==
  ASSUME ResetInv, NEW t \in Token
  PROVE  /\ Followers(t) \subseteq pool /\ IsFiniteSet(Followers(t))
         /\ Cardinality(Followers(t)) \in Nat /\ Cardinality(Followers(t)) <= Cardinality(pool)
<1>1. Followers(t) \subseteq pool
  BY DEF Followers, ResetInv, PoolServes
<1>2. IsFiniteSet(pool)
  BY PoolIsFinite DEF ResetInv
<1> QED
  BY <1>1, <1>2, FS_Subset, FS_CardinalityType

UsesInv == \A t \in Token : uses[t] + Cardinality(Followers(t)) <= Cardinality(pool)

LEMMA FewerFollowers ==
  ASSUME ResetInv, TypeInv', UsesInv, uses' = uses, pool' = pool,
         \A t \in Token : Followers(t)' \subseteq Followers(t)
  PROVE  UsesInv'
<1> SUFFICES ASSUME NEW t \in Token
             PROVE  uses'[t] + Cardinality(Followers(t)') <= Cardinality(pool)
  BY DEF UsesInv
<1>1. IsFiniteSet(Followers(t))
  BY FollowersServe
<1>2. IsFiniteSet(Followers(t)') /\ Cardinality(Followers(t)') <= Cardinality(Followers(t))
  BY <1>1, FS_Subset
<1>3. /\ Cardinality(Followers(t)') \in Nat /\ Cardinality(Followers(t)) \in Nat
      /\ Cardinality(pool) \in Nat /\ uses[t] \in Nat
  BY <1>1, <1>2, FS_CardinalityType, PoolIsFinite DEF ResetInv, TypeInv, RowsOK
<1> QED
  BY <1>2, <1>3 DEF UsesInv

LEMMA UsesNext ==
  ASSUME ResetInv, ResetInv', UsesInv, [Next]_vars
  PROVE  UsesInv'
<1>0. /\ RowsOK /\ TypeInv /\ TypeInv' /\ PoolOK /\ pool' = pool
      /\ Cardinality(pool) \in Nat
  BY NextCases, PoolIsFinite DEF ResetInv, TypeInv
<1>1. ASSUME NEW w \in Worker, NEW t \in Token, Complete(w, t) PROVE UsesInv'
  <2>1. req' = [req EXCEPT ![w] = [NoRequest EXCEPT !.op = "complete", !.step = "user",
                                                    !.token = t]]
    BY <1>1 DEF Complete
  <2>2. /\ uses' = uses /\ uses[t] = 0
    BY <1>0, <1>1 DEF Complete, Links, RowsOK
  <2> SUFFICES ASSUME NEW u \in Token
               PROVE  uses'[u] + Cardinality(Followers(u)') <= Cardinality(pool)
    BY <1>0 DEF UsesInv
  <2>3. CASE u = t
    <3>1. Followers(t)' \subseteq pool
      BY <1>0 DEF Followers, ResetInv, PoolServes
    <3>2. /\ Cardinality(Followers(t)') <= Cardinality(pool)
          /\ Cardinality(Followers(t)') \in Nat
      BY <1>0, <3>1, PoolIsFinite, FS_Subset, FS_CardinalityType
    <3> QED
      BY <2>2, <2>3, <3>2
  <2>4. CASE u # t
    <3>1. Followers(u)' = Followers(u)
      BY <1>0, <1>1, <2>1, <2>4 DEF Followers, Complete, RowsOK, NoRequest
    <3> QED
      BY <1>0, <2>2, <3>1 DEF UsesInv
  <2> QED
    BY <2>3, <2>4
<1>2. ASSUME NEW w \in Worker, CompleteCommit(w) PROVE UsesInv'
  <2> PICK t \in Token : t = req[w].token
    BY <1>0, <1>2 DEF CompleteCommit, TypeInv, NamesStored
  <2>1. /\ req' = [req EXCEPT ![w] = NoRequest]
        /\ uses' = [uses EXCEPT ![t] = @ + 1]
        /\ req[w].op = "complete" /\ t = req[w].token
    BY <1>2 DEF CompleteCommit, Finish
  <2> SUFFICES ASSUME NEW u \in Token
               PROVE  uses'[u] + Cardinality(Followers(u)') <= Cardinality(pool)
    BY <1>0 DEF UsesInv
  <2>2. IsFiniteSet(Followers(u)) /\ Cardinality(Followers(u)) \in Nat
    BY FollowersServe
  <2>3. uses[u] \in Nat /\ Cardinality(pool) \in Nat
    BY <1>0 DEF RowsOK
  <2>4. CASE u = t
    <3>1. Followers(t)' = Followers(t) \ {w} /\ w \in Followers(t)
      BY <1>0, <2>1 DEF Followers, RowsOK, NoRequest
    <3>2. Cardinality(Followers(t)') = Cardinality(Followers(t)) - 1
      BY ZenonT(60), <2>2, <2>4, <3>1, FS_RemoveElement
    <3>3. uses'[t] = uses[t] + 1
      BY <1>0, <2>1 DEF RowsOK
    <3>4. uses[t] + Cardinality(Followers(t)) <= Cardinality(pool)
      BY DEF UsesInv
    <3> QED
      BY <2>2, <2>3, <2>4, <3>2, <3>3, <3>4
  <2>5. CASE u # t
    <3>1. Followers(u)' = Followers(u)
      BY <1>0, <2>1, <2>5 DEF Followers, RowsOK, NoRequest
    <3>2. uses'[u] = uses[u]
      BY <1>0, <2>1, <2>5 DEF RowsOK
    <3> QED
      BY <1>0, <3>1, <3>2 DEF UsesInv
  <2> QED
    BY <2>4, <2>5
<1>3. ASSUME NEW w \in Worker, NEW r, req' = [req EXCEPT ![w] = r], uses' = uses,
             r.op = "complete" => req[w].op = "complete" /\ r.token = req[w].token
      PROVE  UsesInv'
  <2>1. \A t \in Token : Followers(t)' \subseteq Followers(t)
    BY <1>0, <1>3 DEF Followers, RowsOK
  <2> QED
    BY <1>0, <1>3, <2>1, FewerFollowers
<1>4. ASSUME NEW w \in Worker, Finish(w), uses' = uses PROVE UsesInv'
  BY <1>3, <1>4 DEF Finish, NoRequest
<1>5. ASSUME NEW w \in Worker, SignInCheck(w) \/ Request(w) PROVE UsesInv'
  <2> DEFINE a == [NoRequest EXCEPT !.op = "signin", !.password = password]
             b == [NoRequest EXCEPT !.op = "request", !.step = "links", !.found = Links]
  <2>1. a.op = "signin" /\ b.op = "request"
    BY DEF NoRequest
  <2> QED
    BY <1>3, <1>5, <2>1 DEF SignInCheck, Request
<1>6. ASSUME NEW w \in Worker, NEW op \in {"reset", "disable"}, AdminStart(w, op)
      PROVE  UsesInv'
  <2>1. [NoRequest EXCEPT !.op = op].op = op
    BY DEF NoRequest
  <2> QED
    BY <1>3, <1>6, <2>1 DEF AdminStart
<1>7. ASSUME NEW w \in Worker,
             CompleteUser(w) \/ HoldLinks(w) \/ FindSessions(w) \/ HoldSessions(w)
      PROVE  UsesInv'
  <2>1. \A v \in Worker : req'[v].op = req[v].op /\ req'[v].token = req[v].token
    <3>1. CASE HoldLinks(w)
      BY <1>0, <3>1 DEF HoldLinks, RowsOK
    <3>2. CASE FindSessions(w)
      BY <1>0, <3>2 DEF FindSessions, RowsOK
    <3>3. CASE HoldSessions(w)
      BY <1>0, <3>3 DEF HoldSessions, RowsOK
    <3>4. CASE CompleteUser(w)
      BY <1>0, <3>4 DEF CompleteUser, RowsOK
    <3> QED
      BY <1>7, <3>1, <3>2, <3>3, <3>4
  <2>2. \A t \in Token : Followers(t)' = Followers(t)
    BY <2>1 DEF Followers
  <2> QED
    BY <1>0, <1>7, <2>2, FewerFollowers DEF CompleteUser, HoldLinks, FindSessions, HoldSessions
<1>8. ASSUME UNCHANGED <<req, uses>> PROVE UsesInv'
  <2>1. \A t \in Token : Followers(t)' = Followers(t)
    BY <1>8 DEF Followers
  <2> QED
    BY <1>0, <1>8, <2>1, FewerFollowers
<1> QED
  BY <1>0, <1>1, <1>2, <1>4, <1>5, <1>6, <1>7, <1>8, NextCases
     DEF Serve, Step, SignInCommit, RequestCommit, AdminCommit, Rollback, Enable, Tick, vars

(* However many requests overlap, a link sets at most one password for     *)
(* each of them (complete_password_reset).                                 *)
THEOREM UsesBounded == Spec => []UsesAreBounded
<1>1. Init /\ ResetInv => UsesInv
  <2> SUFFICES ASSUME Init, ResetInv, NEW t \in Token
               PROVE  uses[t] + Cardinality(Followers(t)) <= Cardinality(pool)
    BY DEF UsesInv
  <2>1. uses[t] = 0
    BY DEF Init
  <2> QED
    BY <2>1, FollowersServe, PoolIsFinite DEF ResetInv
<1>2. ResetInv /\ ResetInv' /\ UsesInv /\ [Next]_vars => UsesInv'
  BY UsesNext
<1>3. ResetInv /\ UsesInv => UsesAreBounded
  <2> SUFFICES ASSUME ResetInv, UsesInv, NEW t \in Token
               PROVE  uses[t] <= Cardinality(pool)
    BY DEF UsesAreBounded
  <2>1. Cardinality(Followers(t)) \in Nat /\ Cardinality(pool) \in Nat /\ uses[t] \in Nat
    BY FollowersServe, PoolIsFinite DEF ResetInv, TypeInv, RowsOK
  <2> QED
    BY <2>1 DEF UsesInv
<1> QED
  BY <1>1, <1>2, <1>3, ResetInvariance, PTL DEF Spec

-----------------------------------------------------------------------------
(* A worker leaves one link at most: its request finds every link that it  *)
(* made before, and holds them until they are used up.                     *)
Own(w) == {t \in Links : author[t] = w}

LinksInv ==
    /\ \A t \in Links : author[t] \in pool
    /\ \A t, u \in Links : author[t] = author[u] => t = u
    /\ \A w \in Worker : req[w].op = "request" =>
        /\ req[w].step = "links" => Own(w) \subseteq req[w].found
        /\ req[w].step = "commit" => Own(w) \subseteq req[w].rows

(* Links only go, and a request under way goes on to hold its own. *)
LEMMA FewerLinks ==
  ASSUME TypeInv, LinksInv, Links' \subseteq Links, author' = author, pool' = pool,
         \A w \in Worker : req'[w].op = "request" =>
            \/ req'[w] = req[w]
            \/ req'[w].step = "links" /\ req'[w].found = Links
            \/ req'[w].step = "commit" /\ Own(w) \subseteq req'[w].rows
  PROVE  LinksInv'
<1>1. \A w \in Worker : Own(w)' \subseteq Own(w) /\ Own(w) \subseteq Links
  BY DEF Own
<1>2. \A w \in Worker : req'[w].op = "request" =>
        /\ req'[w].step = "links" => Own(w)' \subseteq req'[w].found
        /\ req'[w].step = "commit" => Own(w)' \subseteq req'[w].rows
  BY <1>1 DEF LinksInv
<1>3. /\ \A t \in Links' : author'[t] \in pool'
      /\ \A t, u \in Links' : author'[t] = author'[u] => t = u
  BY DEF LinksInv
<1> QED
  BY <1>2, <1>3 DEF LinksInv

LEMMA LinksNext ==
  ASSUME PoolOK, TypeInv, LinksInv, [Next]_vars
  PROVE  LinksInv'
<1>0. RowsOK /\ pool' = pool
  BY NextCases DEF TypeInv
<1>1. ASSUME NEW w \in Worker, w \in pool, NEW t \in Token, RequestCommit(w, t) PROVE LinksInv'
  <2>1. /\ Links' = (Links \ req[w].rows) \cup {t} /\ t \notin Links
        /\ author' = [author EXCEPT ![t] = w]
        /\ req' = [req EXCEPT ![w] = NoRequest]
        /\ req[w].op = "request" /\ req[w].step = "commit"
    BY <1>1, LinksAfterRequest DEF RequestCommit, Finish
  <2>2. Own(w) \cap (Links \ req[w].rows) = {}
    BY <2>1 DEF LinksInv, Own
  <2>3. author'[t] = w /\ \A u \in Links : author'[u] = author[u]
    BY <1>0, <2>1 DEF RowsOK, Links
  <2>4. \A u \in Links' : u = t \/ (u \in Links /\ author'[u] = author[u] /\ author[u] # w)
    BY <2>1, <2>2, <2>3 DEF Own
  <2>5. \A u \in Links' : author'[u] \in pool'
    BY <1>0, <1>1, <2>3, <2>4 DEF LinksInv
  <2>6. \A u, v \in Links' : author'[u] = author'[v] => u = v
    BY <2>3, <2>4 DEF LinksInv
  <2>7. \A v \in Worker \ {w} : Own(v)' \subseteq Own(v) /\ req'[v] = req[v]
    BY <1>0, <2>1, <2>3, <2>4 DEF Own, RowsOK
  <2>8. req'[w].op = "idle"
    BY <1>0, <2>1 DEF RowsOK, NoRequest
  <2>9. \A v \in Worker : req'[v].op = "request" =>
        /\ req'[v].step = "links" => Own(v)' \subseteq req'[v].found
        /\ req'[v].step = "commit" => Own(v)' \subseteq req'[v].rows
    BY <2>7, <2>8 DEF LinksInv
  <2> QED
    BY <2>5, <2>6, <2>9 DEF LinksInv
<1>2. ASSUME NEW w \in Worker, NEW r, req' = [req EXCEPT ![w] = r], author' = author,
             Links' \subseteq Links,
             r.op = "request" => \/ r.step = "links" /\ r.found = Links
                                 \/ r.step = "commit" /\ Own(w) \subseteq r.rows
      PROVE  LinksInv'
  <2>1. req'[w] = r /\ \A v \in Worker \ {w} : req'[v] = req[v]
    BY <1>0, <1>2 DEF RowsOK
  <2> QED
    BY <1>0, <1>2, <2>1, FewerLinks
<1>3. ASSUME NEW w \in Worker, Finish(w), author' = author, Links' \subseteq Links
      PROVE  LinksInv'
  BY <1>2, <1>3 DEF Finish, NoRequest
<1>4. ASSUME NEW w \in Worker, Request(w) PROVE LinksInv'
  <2> DEFINE r == [NoRequest EXCEPT !.op = "request", !.step = "links", !.found = Links]
  <2>1. r.op = "request" /\ r.step = "links" /\ r.found = Links
    BY DEF NoRequest
  <2>2. Links' = Links
    BY <1>4 DEF Request, Links
  <2> QED
    BY <1>2, <1>4, <2>1, <2>2 DEF Request
<1>6. ASSUME NEW w \in Worker,
             \/ SignInCheck(w)
             \/ \E t \in Token : Complete(w, t)
             \/ \E op \in {"reset", "disable"} : AdminStart(w, op)
      PROVE  LinksInv'
  <2>1. Links' = Links /\ author' = author
    BY <1>6 DEF SignInCheck, Complete, AdminStart, Links
  <2>2. ASSUME NEW r, req' = [req EXCEPT ![w] = r], r.op # "request" PROVE LinksInv'
    BY <1>2, <2>1, <2>2
  <2>3. CASE SignInCheck(w)
    <3> DEFINE r == [NoRequest EXCEPT !.op = "signin", !.password = password]
    <3>1. r.op = "signin" /\ req' = [req EXCEPT ![w] = r]
      BY <2>3 DEF SignInCheck, NoRequest
    <3> QED
      BY <2>2, <3>1
  <2>4. ASSUME NEW t \in Token, Complete(w, t) PROVE LinksInv'
    <3> DEFINE r == [NoRequest EXCEPT !.op = "complete", !.step = "user", !.token = t]
    <3>1. r.op = "complete" /\ req' = [req EXCEPT ![w] = r]
      BY <2>4 DEF Complete, NoRequest
    <3> QED
      BY <2>2, <3>1
  <2>5. ASSUME NEW op \in {"reset", "disable"}, AdminStart(w, op) PROVE LinksInv'
    <3> DEFINE r == [NoRequest EXCEPT !.op = op]
    <3>1. r.op = op /\ req' = [req EXCEPT ![w] = r]
      BY <2>5 DEF AdminStart, NoRequest
    <3> QED
      BY <2>2, <3>1
  <2> QED
    BY <1>6, <2>3, <2>4, <2>5
<1>7. ASSUME NEW w \in Worker, HoldLinks(w) PROVE LinksInv'
  <2> DEFINE r == [req[w] EXCEPT !.step = "commit", !.rows = @ \cup (req[w].found \cap Links),
                                 !.expires = IF req[w].op = "request" THEN now + Ttl ELSE 0]
  <2>1. req' = [req EXCEPT ![w] = r] /\ Links' = Links /\ author' = author
    BY <1>0, <1>7 DEF HoldLinks, RowsOK, Links
  <2>2. /\ r.op = req[w].op /\ r.step = "commit"
        /\ r.rows = req[w].rows \cup (req[w].found \cap Links)
    BY <1>0 DEF RowsOK
  <2>3. req[w].op = "request" => Own(w) \subseteq r.rows
    BY <1>7, <2>2 DEF HoldLinks, LinksInv, Own
  <2> QED
    BY <1>2, <2>1, <2>2, <2>3
<1>8. ASSUME NEW w \in Worker, FindSessions(w) PROVE LinksInv'
  <2>1. req' = [req EXCEPT ![w] = [req[w] EXCEPT !.step = "sessions", !.found = Live]]
    BY <1>0, <1>8 DEF FindSessions, RowsOK
  <2>2. [req[w] EXCEPT !.step = "sessions", !.found = Live].op = req[w].op
    BY <1>0 DEF RowsOK
  <2>3. Links' = Links /\ author' = author /\ req[w].op # "request"
    BY <1>8 DEF FindSessions, Links, Ends
  <2> QED
    BY <1>2, <2>1, <2>2, <2>3
<1>13. ASSUME NEW w \in Worker, CompleteUser(w) PROVE LinksInv'
  <2> DEFINE r == [req[w] EXCEPT !.step = "begin"]
  <2>1. req' = [req EXCEPT ![w] = r]
    BY <1>0, <1>13 DEF CompleteUser, RowsOK
  <2>2. r.op = req[w].op
    BY <1>0 DEF RowsOK
  <2>3. Links' = Links /\ author' = author /\ req[w].op # "request"
    BY <1>13 DEF CompleteUser, Links
  <2> QED
    BY <1>2, <2>1, <2>2, <2>3
<1>9. ASSUME NEW w \in Worker, HoldSessions(w) PROVE LinksInv'
  <2> DEFINE r == [req[w] EXCEPT
            !.rows = req[w].rows \cup (req[w].found \cap Live),
            !.step = IF req[w].op = "complete" THEN "commit" ELSE "links",
            !.found = IF req[w].op = "complete" THEN {} ELSE Links]
  <2>1. req' = [req EXCEPT ![w] = r] /\ Links' = Links /\ author' = author
    BY <1>9 DEF HoldSessions, Links
  <2>2. r.op = "request" => r.step = "links" /\ r.found = Links
    BY <1>0 DEF RowsOK
  <2>3. Links' \subseteq Links
    BY <2>1
  <2> HIDE DEF r
  <2> QED
    BY <1>2, <2>1, <2>2, <2>3
<1>10. ASSUME NEW w \in Worker, CompleteCommit(w) \/ AdminCommit(w) PROVE LinksInv'
  <2>1. Links' \subseteq Links
    BY <1>10, LinksAfterUse DEF CompleteCommit, AdminCommit
  <2> QED
    BY <1>3, <1>10, <2>1 DEF CompleteCommit, AdminCommit
<1>11. ASSUME NEW w \in Worker,
              Rollback(w) \/ \E s \in Session : SignInCommit(w, s)
       PROVE  LinksInv'
  <2>1. Links' = Links
    BY <1>11 DEF Rollback, SignInCommit, Links
  <2> QED
    BY <1>3, <1>11, <2>1 DEF Rollback, SignInCommit
<1>12. ASSUME UNCHANGED <<req, tok, author>> PROVE LinksInv'
  BY <1>0, <1>12, FewerLinks DEF Links
<1> QED
  BY <1>1, <1>4, <1>6, <1>7, <1>8, <1>9, <1>10, <1>11, <1>12, <1>13, NextCases
     DEF Serve, Step, Enable, Tick, vars

(* However many requests overlap, they leave no more links than they are   *)
(* (request_password_reset).                                               *)
THEOREM LinksBounded == Spec => []LinksAreBounded
<1>1. Init => LinksInv
  BY DEF Init, LinksInv, Links, Own, NoToken, NoRequest
<1>2. ResetInv /\ LinksInv /\ [Next]_vars => LinksInv'
  BY LinksNext DEF ResetInv
<1>3. ResetInv /\ LinksInv => LinksAreBounded
  <2> SUFFICES ASSUME ResetInv, LinksInv PROVE Cardinality(Links) <= Cardinality(pool)
    BY DEF LinksAreBounded
  <2> DEFINE f == [t \in Links |-> author[t]]
  <2>1. f \in [Links -> pool] /\ \A t, u \in Links : f[t] = f[u] => t = u
    BY DEF LinksInv
  <2>2. f \in Injection(Links, pool)
    BY <2>1, Zenon DEF Injection, IsInjective
  <2> QED
    BY <2>2, PoolIsFinite, FS_Injection DEF ResetInv
<1> QED
  BY <1>1, <1>2, <1>3, ResetInvariance, PTL DEF Spec

-----------------------------------------------------------------------------
(* A change of the password has, from the step that looks for sessions on, *)
(* every live one in hand but those opened since; and what lives under an  *)
(* older password is what the last change could not have had in hand.      *)
Gathers(w) ==
    /\ Ends(w) /\ req[w].step = "sessions" => Live \subseteq req[w].found \cup unseen[w]
    /\ Ends(w) /\ req[w].step \in {"links", "commit"} => Live \subseteq req[w].rows \cup unseen[w]

LateInv == SurvivorsCameLate /\ \A w \in Worker : Gathers(w)

LEMMA LateInit == Init => LateInv
  BY DEF Init, LateInv, SurvivorsCameLate, Gathers, Live, Ends, NoSession, NoRequest

(* The request of w goes on from one step to another. *)
LEMMA LateLocal ==
  ASSUME TypeInv, LateInv, NEW w \in Worker, NEW r, req' = [req EXCEPT ![w] = r],
         UNCHANGED <<password, sess, late>>,
         \A v \in Worker \ {w} : unseen'[v] = unseen[v],
         r.op \in {"complete", "reset", "disable"} =>
            /\ r.step = "sessions" => Live \subseteq r.found \cup unseen'[w]
            /\ r.step \in {"links", "commit"} => Live \subseteq r.rows \cup unseen'[w]
  PROVE  LateInv'
<1>1. /\ Live' = Live /\ req'[w] = r /\ \A v \in Worker \ {w} : req'[v] = req[v]
  BY DEF TypeInv, RowsOK, Live
<1>2. SurvivorsCameLate'
  BY <1>1 DEF LateInv, SurvivorsCameLate
<1>3. \A v \in Worker : Gathers(v)'
  BY <1>1 DEF LateInv, Gathers, Ends
<1> QED
  BY <1>2, <1>3 DEF LateInv

(* The request of w ends; sessions only go. *)
LEMMA LateFinish ==
  ASSUME TypeInv, LateInv, NEW w \in Worker, Finish(w), unseen' = unseen,
         Live' \subseteq Live, SurvivorsCameLate'
  PROVE  LateInv'
<1>1. req'[w].op = "idle" /\ \A v \in Worker \ {w} : req'[v] = req[v]
  BY DEF TypeInv, RowsOK, Finish, NoRequest
<1>2. \A v \in Worker : Gathers(v)'
  BY <1>1 DEF LateInv, Gathers, Ends
<1> QED
  BY <1>2 DEF LateInv

LEMMA RevokedLive ==
  ASSUME TypeInv, NEW rows, sess' = Revoked(rows)
  PROVE  /\ Live' = Live \ rows
         /\ \A s \in Live' : sess'[s].password = sess[s].password
BY DEF TypeInv, RowsOK, Revoked, Live

LEMMA LateNext ==
  ASSUME PoolOK, TypeInv, LateInv, [Next]_vars
  PROVE  LateInv'
<1>0. RowsOK
  BY DEF TypeInv
<1>1. ASSUME NEW w \in Worker, NEW s \in Session, SignInCommit(w, s) PROVE LateInv'
  <2>1. /\ sess' = [sess EXCEPT ![s] = [status |-> "live", password |-> req[w].password]]
        /\ unseen' = [v \in Worker |-> IF Looked(v) THEN unseen[v] \cup {s} ELSE {}]
        /\ late' = IF req[w].password = password THEN late ELSE late \cup {s}
        /\ password' = password
        /\ req' = [req EXCEPT ![w] = NoRequest]
    BY <1>1 DEF SignInCommit, Finish
  <2>2. /\ Live' = Live \cup {s} /\ sess'[s].password = req[w].password
        /\ \A x \in Session \ {s} : sess'[x] = sess[x]
    BY <1>0, <2>1 DEF RowsOK, Live
  <2>3. SurvivorsCameLate'
    <3> SUFFICES ASSUME NEW x \in Live', sess'[x].password # password' PROVE x \in late'
      BY DEF SurvivorsCameLate
    <3>1. CASE x = s
      BY <2>1, <2>2, <3>1
    <3>2. CASE x # s
      <4>1. x \in Live /\ sess'[x] = sess[x]
        BY <2>2, <3>2 DEF Live
      <4>2. x \in late
        BY <2>1, <4>1 DEF LateInv, SurvivorsCameLate
      <4> QED
        BY <2>1, <4>2
    <3> QED
      BY <3>1, <3>2
  <2>4. ASSUME NEW v \in Worker PROVE Gathers(v)'
    <3>1. CASE v = w
      BY <1>0, <2>1, <3>1 DEF Gathers, Ends, NoRequest, RowsOK
    <3>2. CASE v # w
      <4>1. req'[v] = req[v]
        BY <1>0, <2>1, <3>2 DEF RowsOK
      <4>2. Looked(v) => unseen'[v] = unseen[v] \cup {s}
        BY <2>1
      <4>3. Gathers(v)
        BY DEF LateInv
      <4> QED
        BY <2>2, <4>1, <4>2, <4>3 DEF Gathers, Ends, Looked
    <3> QED
      BY <3>1, <3>2
  <2> QED
    BY <2>3, <2>4 DEF LateInv
<1>2. ASSUME NEW w \in Worker, NEW r, req' = [req EXCEPT ![w] = r],
             UNCHANGED <<password, sess, late, unseen>>,
             r.op \notin {"complete", "reset", "disable"} \/ r.step \in {"begin", "user"}
      PROVE  LateInv'
  BY <1>2, LateLocal
<1>3. ASSUME NEW w \in Worker, SignInCheck(w) \/ Request(w) PROVE LateInv'
  <2> DEFINE a == [NoRequest EXCEPT !.op = "signin", !.password = password]
             b == [NoRequest EXCEPT !.op = "request", !.step = "links", !.found = Links]
  <2>1. a.op = "signin" /\ b.op = "request"
    BY DEF NoRequest
  <2> QED
    BY <1>2, <1>3, <2>1 DEF SignInCheck, Request
<1>4. ASSUME NEW w \in Worker, NEW t \in Token, Complete(w, t) PROVE LateInv'
  <2> DEFINE r == [NoRequest EXCEPT !.op = "complete", !.step = "user", !.token = t]
  <2>1. r.step = "user"
    BY DEF NoRequest
  <2> QED
    BY <1>2, <1>4, <2>1 DEF Complete
<1>5. ASSUME NEW w \in Worker, CompleteUser(w) PROVE LateInv'
  <2> DEFINE r == [req[w] EXCEPT !.step = "begin"]
  <2>1. req' = [req EXCEPT ![w] = r] /\ UNCHANGED <<password, sess, late, unseen>>
    BY <1>0, <1>5 DEF CompleteUser, RowsOK
  <2>2. r.step = "begin"
    BY <1>0 DEF RowsOK
  <2> HIDE DEF r
  <2> QED
    BY <1>2, <2>1, <2>2
<1>6. ASSUME NEW w \in Worker, NEW op \in {"reset", "disable"}, AdminStart(w, op)
      PROVE  LateInv'
  <2> DEFINE r == [NoRequest EXCEPT !.op = op]
  <2>1. r.step = "begin"
    BY DEF NoRequest
  <2> QED
    BY <1>2, <1>6, <2>1 DEF AdminStart
<1>7. ASSUME NEW w \in Worker, FindSessions(w) PROVE LateInv'
  <2> DEFINE r == [req[w] EXCEPT !.step = "sessions", !.found = Live]
  <2>1. /\ req' = [req EXCEPT ![w] = r] /\ UNCHANGED <<password, sess, late>>
        /\ \A v \in Worker \ {w} : unseen'[v] = unseen[v]
    BY <1>0, <1>7 DEF FindSessions, RowsOK
  <2>2. r.step = "sessions" /\ r.found = Live
    BY <1>0 DEF RowsOK
  <2> HIDE DEF r
  <2> QED
    BY <2>1, <2>2, LateLocal
<1>8. ASSUME NEW w \in Worker, HoldSessions(w) PROVE LateInv'
  <2> DEFINE r == [req[w] EXCEPT
            !.rows = req[w].rows \cup (req[w].found \cap Live),
            !.step = IF req[w].op = "complete" THEN "commit" ELSE "links",
            !.found = IF req[w].op = "complete" THEN {} ELSE Links]
  <2>1. /\ req' = [req EXCEPT ![w] = r] /\ UNCHANGED <<password, sess, late, unseen>>
        /\ req[w].step = "sessions"
    BY <1>8 DEF HoldSessions
  <2>2. /\ r.op = req[w].op /\ r.step \in {"links", "commit"}
        /\ r.rows = req[w].rows \cup (req[w].found \cap Live)
    BY <1>0 DEF RowsOK
  <2>3. r.op \in {"complete", "reset", "disable"} => Live \subseteq r.rows \cup unseen[w]
    BY <2>1, <2>2 DEF LateInv, Gathers, Ends
  <2> HIDE DEF r
  <2> QED
    BY <2>1, <2>2, <2>3, LateLocal
<1>9. ASSUME NEW w \in Worker, HoldLinks(w) PROVE LateInv'
  <2> DEFINE r == [req[w] EXCEPT !.step = "commit", !.rows = @ \cup (req[w].found \cap Links),
                                 !.expires = IF req[w].op = "request" THEN now + Ttl ELSE 0]
  <2>1. /\ req' = [req EXCEPT ![w] = r] /\ UNCHANGED <<password, sess, late, unseen>>
        /\ req[w].step = "links"
    BY <1>0, <1>9 DEF HoldLinks, RowsOK
  <2>2. r.op = req[w].op /\ r.step = "commit" /\ req[w].rows \subseteq r.rows
    BY <1>0 DEF RowsOK
  <2>3. r.op \in {"complete", "reset", "disable"} => Live \subseteq r.rows \cup unseen[w]
    BY <2>1, <2>2 DEF LateInv, Gathers, Ends
  <2> HIDE DEF r
  <2> QED
    BY <2>1, <2>2, <2>3, LateLocal
<1>10. ASSUME NEW w \in Worker, CompleteCommit(w) \/ AdminCommit(w) PROVE LateInv'
  <2>1. /\ Finish(w) /\ unseen' = unseen /\ sess' = Revoked(req[w].rows)
        /\ Ends(w) /\ req[w].step = "commit"
        /\ late' = unseen[w] \/ (late' = late /\ password' = password)
    BY <1>10 DEF CompleteCommit, AdminCommit, Ends
  <2>2. /\ Live' = Live \ req[w].rows
        /\ \A s \in Live' : sess'[s].password = sess[s].password
    BY <2>1, RevokedLive
  <2>3. Live' \subseteq unseen[w]
    BY <2>1, <2>2 DEF LateInv, Gathers
  <2>4. SurvivorsCameLate'
    BY <2>1, <2>2, <2>3 DEF LateInv, SurvivorsCameLate
  <2> QED
    BY <2>1, <2>2, <2>4, LateFinish
<1>11. ASSUME NEW w \in Worker, Rollback(w) \/ \E t \in Token : RequestCommit(w, t)
       PROVE  LateInv'
  <2>1. Finish(w) /\ UNCHANGED <<password, sess, unseen, late>>
    BY <1>11 DEF Rollback, RequestCommit
  <2>2. Live' = Live /\ SurvivorsCameLate'
    BY <2>1 DEF Live, LateInv, SurvivorsCameLate
  <2> QED
    BY <2>1, <2>2, LateFinish
<1>12. ASSUME UNCHANGED <<password, sess, req, unseen, late>> PROVE LateInv'
  BY <1>12 DEF LateInv, SurvivorsCameLate, Gathers, Live, Ends
<1> QED
  BY <1>1, <1>3, <1>4, <1>5, <1>6, <1>7, <1>8, <1>9, <1>10, <1>11, <1>12, NextCases
     DEF Serve, Step, Enable, Tick, vars

(* However many requests overlap, a session outlives its password only if  *)
(* the change that ended the password could not have seen it               *)
(* (complete_password_reset, reset_password).                              *)
THEOREM OldPasswordsOut == Spec => []SurvivorsCameLate
<1>1. ResetInv /\ LateInv /\ [Next]_vars => LateInv'
  BY LateNext DEF ResetInv
<1>2. LateInv => SurvivorsCameLate
  BY DEF LateInv
<1> QED
  BY <1>1, <1>2, LateInit, ResetInvariance, PTL DEF Spec

-----------------------------------------------------------------------------
(* One request at a time: no session comes late.                           *)
NoneLate ==
    /\ late = {} /\ \A w \in Worker : unseen[w] = {}
    /\ \A w \in Worker : req[w].op = "signin" => req[w].password = password

AloneInv == Alone => NoneLate

LEMMA AloneNext == ASSUME ResetInv, AloneInv, [Next]_vars PROVE AloneInv'
<1> SUFFICES ASSUME Alone' PROVE NoneLate'
  BY DEF AloneInv
<1>0. /\ PoolOK /\ PoolServes /\ TypeInv /\ RowsOK /\ pool' = pool /\ Alone /\ NoneLate
  BY NextCases DEF ResetInv, Alone, AloneInv, TypeInv
<1>1. ASSUME NEW w \in Worker, NEW r, req' = [req EXCEPT ![w] = r], UNCHANGED <<password, late>>,
             \A v \in Worker : unseen'[v] = {}, r.op = "signin" => r.password = password
      PROVE  NoneLate'
  BY <1>0, <1>1 DEF NoneLate, RowsOK
<1>2. ASSUME NEW w \in Worker, w \in pool, Finish(w), late' = {},
             \A v \in Worker : unseen'[v] = {}
      PROVE  NoneLate'
  <2>1. \A v \in Worker : req'[v].op # "signin"
    BY <1>0, <1>2 DEF Finish, NoRequest, RowsOK, Alone, PoolServes
  <2> QED
    BY <1>2, <2>1 DEF NoneLate
<1>3. ASSUME NEW w \in Worker, SignInCheck(w) \/ Request(w) PROVE NoneLate'
  <2> DEFINE a == [NoRequest EXCEPT !.op = "signin", !.password = password]
             b == [NoRequest EXCEPT !.op = "request", !.step = "links", !.found = Links]
  <2>1. a.op = "signin" /\ a.password = password /\ b.op = "request"
    BY DEF NoRequest
  <2>2. \A v \in Worker : unseen'[v] = {}
    BY <1>0, <1>3 DEF NoneLate, SignInCheck, Request
  <2> QED
    BY <1>1, <1>3, <2>1, <2>2 DEF SignInCheck, Request
<1>4. ASSUME NEW w \in Worker, w \in pool, NEW s \in Session, SignInCommit(w, s) PROVE NoneLate'
  <2>1. req[w].op = "signin" /\ req[w].password = password
    BY <1>0, <1>4 DEF SignInCommit, NoneLate
  <2>2. late' = {}
    BY <1>0, <1>4, <2>1 DEF SignInCommit, NoneLate
  <2>3. \A v \in Worker : ~Looked(v)
    BY <1>0, <2>1 DEF Alone, PoolServes, Looked, Ends
  <2>4. \A v \in Worker : unseen'[v] = {}
    BY <1>4, <2>3 DEF SignInCommit
  <2> QED
    BY <1>2, <1>4, <2>2, <2>4 DEF SignInCommit
<1>5. ASSUME NEW w \in Worker, NEW t \in Token, Complete(w, t) PROVE NoneLate'
  <2> DEFINE r == [NoRequest EXCEPT !.op = "complete", !.step = "user", !.token = t]
  <2>1. r.op = "complete"
    BY DEF NoRequest
  <2>2. \A v \in Worker : unseen'[v] = {}
    BY <1>0, <1>5 DEF NoneLate, Complete
  <2> QED
    BY <1>1, <1>5, <2>1, <2>2 DEF Complete
<1>6. ASSUME NEW w \in Worker, NEW op \in {"reset", "disable"}, AdminStart(w, op)
      PROVE  NoneLate'
  <2> DEFINE r == [NoRequest EXCEPT !.op = op]
  <2>1. r.op = op
    BY DEF NoRequest
  <2>2. \A v \in Worker : unseen'[v] = {}
    BY <1>0, <1>6 DEF NoneLate, AdminStart
  <2> QED
    BY <1>1, <1>6, <2>1, <2>2 DEF AdminStart
<1>7. ASSUME NEW w \in Worker,
             CompleteUser(w) \/ FindSessions(w) \/ HoldSessions(w) \/ HoldLinks(w)
      PROVE  NoneLate'
  <2>1. \A v \in Worker : req'[v].op = req[v].op /\ req'[v].password = req[v].password
    <3>1. CASE CompleteUser(w)
      BY <1>0, <3>1 DEF CompleteUser, RowsOK
    <3>2. CASE FindSessions(w)
      BY <1>0, <3>2 DEF FindSessions, RowsOK
    <3>3. CASE HoldSessions(w)
      BY <1>0, <3>3 DEF HoldSessions, RowsOK
    <3>4. CASE HoldLinks(w)
      BY <1>0, <3>4 DEF HoldLinks, RowsOK
    <3> QED
      BY <1>7, <3>1, <3>2, <3>3, <3>4
  <2>2. UNCHANGED <<password, late>> /\ \A v \in Worker : unseen'[v] = {}
    BY <1>0, <1>7 DEF CompleteUser, FindSessions, HoldSessions, HoldLinks, NoneLate, RowsOK
  <2> QED
    BY <1>0, <2>1, <2>2 DEF NoneLate
<1>8. ASSUME NEW w \in Worker, w \in pool,
             \/ CompleteCommit(w) \/ AdminCommit(w) \/ Rollback(w)
             \/ \E t \in Token : RequestCommit(w, t)
      PROVE  NoneLate'
  <2>1. Finish(w) /\ unseen' = unseen /\ (late' = unseen[w] \/ late' = late)
    BY <1>8 DEF CompleteCommit, AdminCommit, Rollback, RequestCommit
  <2> QED
    BY <1>0, <1>2, <1>8, <2>1 DEF NoneLate
<1>9. ASSUME UNCHANGED <<password, req, unseen, late>> PROVE NoneLate'
  BY <1>0, <1>9 DEF NoneLate
<1> QED
  BY <1>0, <1>3, <1>4, <1>5, <1>6, <1>7, <1>8, <1>9, NextCases
     DEF Serve, Step, Enable, Tick, vars

(* When requests do not overlap, whoever knew an old password is out       *)
(* (complete_password_reset, reset_password).                              *)
THEOREM OldPasswordsOutAlone == Spec => [](Alone => OldPasswordsOpenNothing)
<1>1. Init => AloneInv
  BY DEF Init, AloneInv, NoneLate, NoRequest
<1>2. ResetInv /\ AloneInv /\ [Next]_vars => AloneInv'
  BY AloneNext
<1>3. AloneInv /\ SurvivorsCameLate => (Alone => OldPasswordsOpenNothing)
  BY DEF AloneInv, NoneLate, SurvivorsCameLate, OldPasswordsOpenNothing
<1> QED
  BY <1>1, <1>2, <1>3, OldPasswordsOut, ResetInvariance, PTL DEF Spec

-----------------------------------------------------------------------------
LEMMA LinkEnds ==
  ASSUME PoolOK, TypeInv, [Next]_vars, NEW t \in Links, t \notin Links'
  PROVE  \/ uses'[t] > uses[t]
         \/ Links' \ Links # {}
         \/ \E w \in Worker : AdminCommit(w)
<1>1. ASSUME NEW w \in Worker, CompleteCommit(w) PROVE uses'[t] > uses[t]
  <2>1. Links' = Links \ {req[w].token}
    BY <1>1, LinksAfterUse DEF CompleteCommit
  <2>2. t = req[w].token /\ t \in Token
    BY <2>1 DEF Links
  <2> QED
    BY <1>1, <2>2 DEF CompleteCommit, TypeInv, RowsOK
<1>2. ASSUME NEW w \in Worker, NEW u \in Token, RequestCommit(w, u) PROVE Links' \ Links # {}
  BY <1>2, LinksAfterRequest
<1>3. ASSUME tok' = tok PROVE FALSE
  BY <1>3 DEF Links
<1> QED
  BY <1>1, <1>2, <1>3, NextCases DEF Serve, Step, SignInCheck, SignInCommit, Request, HoldLinks, Complete,
     CompleteUser, AdminStart, Enable, FindSessions, HoldSessions, Rollback, Tick, vars

(* No link is lost to a message that could not be sent, however many       *)
(* requests overlap (request_password_reset).                              *)
THEOREM LinksKept == Spec => NoLinkIsLost
<1>1. ResetInv /\ [Next]_vars =>
        [\A t \in Links : t \notin Links' =>
            \/ uses'[t] > uses[t]
            \/ Links' \ Links # {}
            \/ \E w \in Worker : AdminCommit(w)]_vars
  BY LinkEnds DEF ResetInv
<1> QED
  BY <1>1, ResetInvariance, PTL DEF Spec, NoLinkIsLost

=============================================================================
