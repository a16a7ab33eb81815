---------------------------- MODULE SettingsProofs ----------------------------
(***************************************************************************)
(* What administrators set, for any values, keys, rows and threads.        *)
(*                                                                         *)
(* The mail settings when requests do not overlap: mail that is switched   *)
(* on can be delivered, and VERIFIED is about the settings in force.  What *)
(* a request has loaded is then what the row holds, so its UPDATE, which   *)
(* carries the changed columns only, stores the whole copy                 *)
(* (WholeCopyIsStored).                                                    *)
(*                                                                         *)
(* The grants of the roles, however many replacements overlap.             *)
(***************************************************************************)
EXTENDS EmailSettings, RolePermissions, TLAPS

Option == Value \cup {None}

Settings == [provider : Provider, address : Option, account : Option,
             appPassword : Option, smtpPassword : Option, enabled : BOOLEAN,
             status : {"NOT_CONFIGURED", "CONFIGURED", "VERIFIED", "ERROR"},
             result : {"none", "SUCCESS", "FAILURE"}, error : BOOLEAN]

Delivers(s) == s.enabled => Configured(s)

(* The verdict of s is true if the last test that succeeded used t. *)
Attests(s, t) == s.status = "VERIFIED" =>
    s.enabled /\ t = Sender(s) /\ s.result = "SUCCESS" /\ ~s.error

(* A row is untouched or the one row there is; each is as it should be. *)
RowsInv ==
    /\ row \in [Row -> Settings]
    /\ order = <<>> \/ \E r \in Row : order = <<r>>
    /\ \A r \in Row : row[r] = New \/ order = <<r>>
    /\ \A r \in Row : Delivers(row[r]) /\ Attests(row[r], tested)

(* A request works on the row in force, and its copy is current. *)
Current(w) == LET q == req[w] IN q.step # "idle" =>
    /\ q.step \in {"save", "test"}
    /\ q.row \in Row /\ (order = <<>> \/ order = <<q.row>>)
    /\ q.copy = row[q.row]
    /\ q.step = "save" => q.want \in Settings /\ Configured(q.want) /\ q.want.status = "CONFIGURED"

PoolInv ==
    /\ pool \subseteq Worker
    /\ DOMAIN req = Worker
    /\ \A w \in Worker : req[w].step # "idle" => w \in pool

AloneInv == Alone => RowsInv /\ \A w \in Worker : Current(w)

-----------------------------------------------------------------------------
(* What the operators on settings return. *)
LEMMA Columns ==
  Column = {"provider", "address", "account", "appPassword", "smtpPassword",
            "enabled", "status", "result", "error"}
BY DEF Column, New

LEMMA NewIsSound == New \in Settings /\ Delivers(New) /\ \A t : Attests(New, t)
BY DEF New, Settings, Provider, Option, Delivers, Attests

LEMMA SavedIsSound ==
  ASSUME NEW s \in Settings, NEW p \in Provider, NEW value \in Value, NEW secret \in Option,
         NEW enabled \in BOOLEAN, SecretIsKnown(s, p, secret)
  PROVE  /\ Saved(s, p, value, secret, enabled) \in Settings
         /\ Configured(Saved(s, p, value, secret, enabled))
         /\ Saved(s, p, value, secret, enabled).status = "CONFIGURED"
<1> DEFINE n == Saved(s, p, value, secret, enabled)
<1>1. /\ AddressOf["gmail"] = "address" /\ AddressOf["hostinger"] = "account"
      /\ SecretOf["gmail"] = "appPassword" /\ SecretOf["hostinger"] = "smtpPassword"
  BY DEF AddressOf, SecretOf
<1>2. CASE p = "gmail"
  <2> DEFINE kept == IF secret = None THEN s.appPassword ELSE secret
  <2>1. kept \in Option /\ kept # None
    BY <1>1, <1>2 DEF SecretIsKnown, Settings, Option
  <2>2. n = [s EXCEPT !.provider = "gmail", !.enabled = enabled, !.status = "CONFIGURED",
                      !.error = FALSE, !.address = value, !.account = None,
                      !.appPassword = kept,
                      !.result = IF p = s.provider THEN @ ELSE "none"]
    BY <1>1, <1>2 DEF Saved, Other, Settings
  <2> HIDE DEF n, kept
  <2>3. n \in Settings
    BY <2>1, <2>2 DEF Settings, Option, Provider
  <2>4. /\ n.provider = "gmail" /\ n["address"] = value /\ n["appPassword"] = kept
        /\ n.status = "CONFIGURED"
    BY <2>2 DEF Settings
  <2>5. Configured(n)
    BY <1>1, <2>1, <2>4, NoneIsNeither DEF Configured
  <2> QED
    BY <2>3, <2>4, <2>5 DEF n
<1>3. CASE p = "hostinger"
  <2> DEFINE kept == IF secret = None THEN s.smtpPassword ELSE secret
  <2>1. kept \in Option /\ kept # None
    BY <1>1, <1>3 DEF SecretIsKnown, Settings, Option
  <2>2. n = [s EXCEPT !.provider = "hostinger", !.enabled = enabled, !.status = "CONFIGURED",
                      !.error = FALSE, !.account = value, !.address = None,
                      !.smtpPassword = kept,
                      !.result = IF p = s.provider THEN @ ELSE "none"]
    BY <1>1, <1>3 DEF Saved, Other, Settings
  <2> HIDE DEF n, kept
  <2>3. n \in Settings
    BY <2>1, <2>2 DEF Settings, Option, Provider
  <2>4. /\ n.provider = "hostinger" /\ n["account"] = value /\ n["smtpPassword"] = kept
        /\ n.status = "CONFIGURED"
    BY <2>2 DEF Settings
  <2>5. Configured(n)
    BY <1>1, <2>1, <2>4, NoneIsNeither DEF Configured
  <2> QED
    BY <2>3, <2>4, <2>5 DEF n
<1> QED
  BY <1>2, <1>3 DEF Provider

(* Two settings that agree on these columns send, or do not send, alike. *)
LEMMA SendsAlike ==
  ASSUME NEW s \in Settings, NEW t \in Settings, t.provider = s.provider,
         t.address = s.address, t.account = s.account,
         t.appPassword = s.appPassword, t.smtpPassword = s.smtpPassword
  PROVE  Sender(t) = Sender(s) /\ (Configured(t) <=> Configured(s))
<1>1. /\ AddressOf["gmail"] = "address" /\ AddressOf["hostinger"] = "account"
      /\ SecretOf["gmail"] = "appPassword" /\ SecretOf["hostinger"] = "smtpPassword"
  BY DEF AddressOf, SecretOf
<1>2. s.provider \in {"gmail", "hostinger"}
  BY DEF Settings, Provider
<1>3. /\ t[AddressOf[t.provider]] = s[AddressOf[s.provider]]
      /\ t[SecretOf[t.provider]] = s[SecretOf[s.provider]]
  BY <1>1, <1>2 DEF Settings
<1> QED
  BY <1>3 DEF Sender, Configured

(* A copy that was current is stored as a whole. *)
LEMMA WholeCopyIsStored ==
  ASSUME RowsInv, NEW w \in Worker, Current(w), req[w].step # "idle", NEW want \in Settings
  PROVE  Merged(w, want) = want
<1>1. req[w].copy = row[req[w].row]
  BY DEF Current
<1>2. Merged(w, want) = [c \in Column |-> want[c]]
  BY <1>1 DEF Merged
<1>3. want = [c \in Column |-> want[c]]
  BY Columns DEF Settings
<1> QED
  BY <1>2, <1>3

LEMMA OneRow ==
  ASSUME NEW r \in Row, order = <<r>>
  PROVE  Stored = {r} /\ Head(order) = r /\ order # <<>>
BY DEF Stored

LEMMA NoRow == ASSUME order = <<>> PROVE Stored = {}
BY DEF Stored

(* The row a request loads is the one there is, or a first one. *)
LEMMA ForceIsOneRow ==
  ASSUME RowsInv, NEW r \in InForce
  PROVE  r \in Row /\ (order = <<>> \/ order = <<r>>)
<1>1. CASE order = <<>>
  BY <1>1 DEF InForce, Unused
<1>2. ASSUME NEW x \in Row, order = <<x>> PROVE r \in Row /\ order = <<r>>
  BY <1>2, OneRow DEF InForce
<1> QED
  BY <1>1, <1>2 DEF RowsInv

(* The commit of a request that is alone. *)
LEMMA StoreStep ==
  ASSUME RowsInv, NEW w \in Worker, Current(w), req[w].step # "idle",
         NEW want \in Settings, Store(w, want),
         Delivers(want), Attests(want, tested')
  PROVE  RowsInv'
<1> DEFINE q == req[w].row
<1>1. q \in Row /\ (order = <<>> \/ order = <<q>>)
  BY DEF Current
<1>2. row' = [row EXCEPT ![q] = want]
  BY WholeCopyIsStored DEF Store
<1>3. order' = <<q>>
  <2>1. CASE order = <<q>>
    BY <1>1, <2>1, OneRow DEF Store
  <2>2. CASE order = <<>>
    <3>1. order' \in {Append(order, q), <<q>> \o order}
      BY <2>2, NoRow DEF Store
    <3> QED
      BY <1>1, <2>2, <3>1
  <2> QED
    BY <1>1, <2>1, <2>2
<1> HIDE DEF q
<1>4. row'[q] = want /\ \A r \in Row \ {q} : row'[r] = row[r] /\ row[r] = New
  <2>1. \A r \in Row \ {q} : order # <<r>>
    BY <1>1
  <2> QED
    BY <1>1, <1>2, <2>1 DEF RowsInv
<1>5. row' \in [Row -> Settings]
  BY <1>2 DEF RowsInv
<1>6. \A r \in Row : Delivers(row'[r]) /\ Attests(row'[r], tested')
  BY <1>4, NewIsSound
<1>7. (\A r \in Row : Delivers(row[r]) /\ Attests(row[r], tested))'
  BY <1>6 DEF Delivers, Attests, Configured, Sender
<1> QED
  BY <1>1, <1>3, <1>4, <1>5, <1>7 DEF RowsInv

-----------------------------------------------------------------------------
(* A request writes its own record of the requests, and no other. *)
LEMMA ServeFrame ==
  ASSUME DOMAIN req = Worker, NEW w \in Worker, Serve(w)
  PROVE  DOMAIN req' = Worker /\ \A v \in Worker \ {w} : req'[v] = req[v]
<1>1. \E x : req' = [req EXCEPT ![w] = x]
  <2>1. ASSUME NEW p \in Provider, NEW value \in Value, NEW secret \in Value \cup {None},
               NEW enabled \in BOOLEAN, SaveLoad(w, p, value, secret, enabled)
        PROVE  \E x : req' = [req EXCEPT ![w] = x]
    BY <2>1 DEF SaveLoad
  <2>2. CASE TestLoad(w)
    BY <2>2 DEF TestLoad
  <2>3. CASE SaveCommit(w) \/ Rollback(w)
    BY <2>3 DEF SaveCommit, Rollback, Store, Finish
  <2>4. ASSUME NEW sent \in BOOLEAN, TestCommit(w, sent)
        PROVE  \E x : req' = [req EXCEPT ![w] = x]
    BY <2>4 DEF TestCommit, Store, Finish
  <2> QED
    BY <2>1, <2>2, <2>3, <2>4 DEF Serve
<1> QED
  BY <1>1

(* The pool is what it was, and its threads alone serve requests. *)
LEMMA PoolStep == PoolInv /\ [Next]_vars => PoolInv'
<1> SUFFICES ASSUME PoolInv, [Next]_vars PROVE PoolInv'
  OBVIOUS
<1>1. CASE UNCHANGED vars
  BY <1>1 DEF PoolInv, vars
<1>2. ASSUME NEW w \in pool, Serve(w), UNCHANGED pool PROVE PoolInv'
  <2>1. w \in Worker
    BY DEF PoolInv
  <2>2. DOMAIN req' = Worker /\ \A v \in Worker \ {w} : req'[v] = req[v]
    BY <1>2, <2>1, ServeFrame DEF PoolInv
  <2> QED
    BY <1>2, <2>1, <2>2 DEF PoolInv
<1>3. ASSUME NEW value \in Value, NEW secret \in Value, Restart(value, secret), UNCHANGED pool
      PROVE  PoolInv'
  BY <1>3 DEF PoolInv, Restart, NoRequest
<1> QED
  BY <1>1, <1>2, <1>3 DEF Next

-----------------------------------------------------------------------------
(* What does not touch the table leaves it as it should be. *)
LEMMA RowsStay ==
  ASSUME RowsInv, UNCHANGED <<row, order, tested>>
  PROVE  RowsInv'
BY DEF RowsInv, Delivers, Attests, Configured, Sender

LEMMA SaveLoadStep ==
  ASSUME RowsInv, DOMAIN req = Worker, NEW w \in Worker, NEW p \in Provider, NEW value \in Value,
         NEW secret \in Option, NEW enabled \in BOOLEAN, SaveLoad(w, p, value, secret, enabled)
  PROVE  RowsInv' /\ Current(w)'
<1> PICK r \in InForce :
        /\ SecretIsKnown(row[r], p, secret)
        /\ req' = [req EXCEPT ![w] = [step |-> "save", row |-> r, copy |-> row[r],
                want |-> Saved(row[r], p, value, secret, enabled),
                replaced |-> IF secret = None THEN {} ELSE {SecretOf[p]}]]
  BY DEF SaveLoad
<1> UNCHANGED <<row, order, tested>>
  BY DEF SaveLoad
<1> DEFINE want == Saved(row[r], p, value, secret, enabled)
<1>1. r \in Row /\ (order = <<>> \/ order = <<r>>)
  BY ForceIsOneRow
<1>2. row[r] \in Settings
  BY <1>1 DEF RowsInv
<1>3. want \in Settings /\ Configured(want) /\ want.status = "CONFIGURED"
  BY <1>2, SavedIsSound
<1> HIDE DEF want
<1>4. /\ req'[w].step = "save" /\ req'[w].row = r /\ req'[w].copy = row[r]
      /\ req'[w].want = want
  BY DEF want
<1>5. Current(w)'
  BY <1>1, <1>3, <1>4 DEF Current, Configured
<1> QED
  BY <1>5, RowsStay

LEMMA TestLoadStep ==
  ASSUME RowsInv, DOMAIN req = Worker, NEW w \in Worker, TestLoad(w)
  PROVE  RowsInv' /\ Current(w)'
<1> PICK r \in InForce :
        req' = [req EXCEPT ![w] = [NoRequest EXCEPT !.step = "test", !.row = r,
                                                    !.copy = row[r]]]
  BY DEF TestLoad
<1> UNCHANGED <<row, order, tested>>
  BY DEF TestLoad
<1>1. r \in Row /\ (order = <<>> \/ order = <<r>>)
  BY ForceIsOneRow
<1>2. req'[w].step = "test" /\ req'[w].row = r /\ req'[w].copy = row[r]
  BY DEF NoRequest
<1>3. Current(w)'
  BY <1>1, <1>2 DEF Current
<1> QED
  BY <1>3, RowsStay

LEMMA FinishIsCurrent ==
  ASSUME DOMAIN req = Worker, NEW w \in Worker, Finish(w)
  PROVE  Current(w)'
BY DEF Finish, Current, NoRequest

LEMMA SaveCommitStep ==
  ASSUME RowsInv, DOMAIN req = Worker, NEW w \in Worker, Current(w), SaveCommit(w)
  PROVE  RowsInv' /\ Current(w)'
<1>1. PICK want : want = req[w].want
  OBVIOUS
<1>2. want \in Settings /\ Configured(want) /\ want.status = "CONFIGURED"
  BY <1>1 DEF Current, SaveCommit
<1>3. Store(w, want) /\ req[w].step # "idle"
  BY <1>1 DEF SaveCommit
<1>4. Delivers(want) /\ Attests(want, tested')
  BY <1>2 DEF Delivers, Attests
<1>5. RowsInv'
  BY <1>2, <1>3, <1>4, StoreStep
<1> QED
  BY <1>3, <1>5, FinishIsCurrent DEF Store

LEMMA TestCommitStep ==
  ASSUME RowsInv, DOMAIN req = Worker, NEW w \in Worker, Current(w),
         NEW sent \in BOOLEAN, TestCommit(w, sent)
  PROVE  RowsInv' /\ Current(w)'
<1>1. PICK s : s = req[w].copy
  OBVIOUS
<1>2. req[w].step = "test" /\ (sent => MaySend(s)) /\ tested' = IF sent THEN Sender(s) ELSE tested
  BY <1>1 DEF TestCommit
<1>3. s \in Settings /\ Delivers(s)
  BY <1>1, <1>2 DEF Current, RowsInv
<1>4. PICK want : want = IF sent
          THEN [s EXCEPT !.status = "VERIFIED", !.result = "SUCCESS", !.error = FALSE]
          ELSE [s EXCEPT !.status = "ERROR", !.result = "FAILURE", !.error = TRUE]
  OBVIOUS
<1>5. Store(w, want)
  BY <1>1, <1>4 DEF TestCommit
<1>6. /\ want \in Settings /\ want.enabled = s.enabled
      /\ want.provider = s.provider /\ want.address = s.address /\ want.account = s.account
      /\ want.appPassword = s.appPassword /\ want.smtpPassword = s.smtpPassword
  BY <1>3, <1>4 DEF Settings
<1>7. /\ sent => want.result = "SUCCESS" /\ want.error = FALSE
      /\ ~sent => want.status = "ERROR"
  BY <1>3, <1>4 DEF Settings
<1>8. Sender(want) = Sender(s) /\ (Configured(want) <=> Configured(s))
  BY <1>3, <1>6, SendsAlike
<1>9. Delivers(want)
  BY <1>3, <1>6, <1>8 DEF Delivers
<1>10. Attests(want, tested')
  BY <1>2, <1>6, <1>7, <1>8 DEF Attests, MaySend
<1>11. RowsInv'
  BY <1>2, <1>5, <1>6, <1>9, <1>10, StoreStep
<1> QED
  BY <1>5, <1>11, FinishIsCurrent DEF Store

(* A request of the only thread that serves any. *)
LEMMA ServeStep ==
  ASSUME RowsInv, DOMAIN req = Worker, NEW w \in Worker, Current(w), Serve(w)
  PROVE  RowsInv' /\ Current(w)'
<1>1. ASSUME NEW p \in Provider, NEW value \in Value, NEW secret \in Value \cup {None},
             NEW enabled \in BOOLEAN, SaveLoad(w, p, value, secret, enabled)
      PROVE  RowsInv' /\ Current(w)'
  BY <1>1, SaveLoadStep DEF Option
<1>2. CASE TestLoad(w)
  BY <1>2, TestLoadStep
<1>3. CASE SaveCommit(w)
  BY <1>3, SaveCommitStep
<1>4. CASE Rollback(w)
  BY <1>4, RowsStay, FinishIsCurrent DEF Rollback
<1>5. ASSUME NEW sent \in BOOLEAN, TestCommit(w, sent)
      PROVE  RowsInv' /\ Current(w)'
  BY <1>5, TestCommitStep
<1> QED
  BY <1>1, <1>2, <1>3, <1>4, <1>5 DEF Serve

(* The process starts again with a mailbox of its own. *)
LEMMA RestartStep ==
  ASSUME RowsInv, NEW value \in Value, NEW secret \in Value, Restart(value, secret)
  PROVE  RowsInv' /\ \A w \in Worker : Current(w)'
<1> PICK r \in (IF order = <<>> THEN Row ELSE {Head(order)}) :
        /\ row' = [row EXCEPT ![r] = [@ EXCEPT !.provider = "hostinger", !.account = value,
                !.smtpPassword = secret, !.enabled = TRUE, !.status = "CONFIGURED"]]
        /\ order' = IF order = <<>> THEN <<r>> ELSE order
  BY DEF Restart
<1>1. r \in Row /\ (order = <<>> \/ order = <<r>>)
  <2>1. CASE order = <<>>
    BY <2>1
  <2>2. ASSUME NEW x \in Row, order = <<x>> PROVE r \in Row /\ order = <<r>>
    BY <2>2, OneRow
  <2> QED
    BY <2>1, <2>2 DEF RowsInv
<1>2. order' = <<r>>
  BY <1>1
<1> DEFINE n == [row[r] EXCEPT !.provider = "hostinger", !.account = value,
                !.smtpPassword = secret, !.enabled = TRUE, !.status = "CONFIGURED"]
<1>3. row[r] \in Settings
  BY <1>1 DEF RowsInv
<1>4. n \in Settings
  BY <1>3 DEF Settings, Provider, Option
<1>5. /\ n.provider = "hostinger" /\ n["account"] = value /\ n["smtpPassword"] = secret
      /\ n.status = "CONFIGURED"
  BY <1>3 DEF Settings
<1>6. row' = [row EXCEPT ![r] = n]
  OBVIOUS
<1> HIDE DEF n
<1>7. Delivers(n) /\ Attests(n, tested')
  <2>1. AddressOf["hostinger"] = "account" /\ SecretOf["hostinger"] = "smtpPassword"
    BY DEF AddressOf, SecretOf
  <2>2. Configured(n)
    BY <1>5, <2>1, NoneIsNeither DEF Configured
  <2> QED
    BY <1>5, <2>2 DEF Delivers, Attests
<1>8. row'[r] = n /\ \A x \in Row \ {r} : row'[x] = row[x] /\ row[x] = New
  <2>1. \A x \in Row \ {r} : order # <<x>>
    BY <1>1
  <2> QED
    BY <1>1, <1>6, <2>1 DEF RowsInv
<1>9. row' \in [Row -> Settings]
  BY <1>4, <1>6 DEF RowsInv
<1>10. (\A x \in Row : Delivers(row[x]) /\ Attests(row[x], tested))'
  <2>1. \A x \in Row : Delivers(row'[x]) /\ Attests(row'[x], tested')
    BY <1>7, <1>8, NewIsSound
  <2> QED
    BY <2>1 DEF Delivers, Attests, Configured, Sender
<1>11. RowsInv'
  BY <1>1, <1>2, <1>8, <1>9, <1>10 DEF RowsInv
<1>12. \A w \in Worker : Current(w)'
  BY DEF Restart, Current, NoRequest
<1> QED
  BY <1>11, <1>12

-----------------------------------------------------------------------------
LEMMA InitSound == Init => PoolInv /\ AloneInv
<1> SUFFICES ASSUME Init PROVE PoolInv /\ AloneInv
  OBVIOUS
<1>1. PoolInv
  BY DEF Init, PoolInv, NoRequest
<1>2. RowsInv
  BY NewIsSound DEF Init, RowsInv
<1>3. \A w \in Worker : Current(w)
  BY DEF Init, Current, NoRequest
<1> QED
  BY <1>1, <1>2, <1>3 DEF AloneInv

LEMMA AloneStep == PoolInv /\ AloneInv /\ [Next]_vars => AloneInv'
<1> SUFFICES ASSUME PoolInv, AloneInv, [Next]_vars, Alone' PROVE AloneInv'
  BY DEF AloneInv
<1>1. Alone
  BY DEF Alone, Next, vars
<1>2. RowsInv /\ \A w \in Worker : Current(w)
  BY <1>1 DEF AloneInv
<1>3. CASE UNCHANGED vars
  <2>1. RowsInv'
    BY <1>2, <1>3, RowsStay DEF vars
  <2>2. \A w \in Worker : Current(w)'
    BY <1>2, <1>3 DEF Current, vars, Configured
  <2> QED
    BY <2>1, <2>2 DEF AloneInv
<1>4. ASSUME NEW w \in pool, Serve(w) PROVE AloneInv'
  <2>1. w \in Worker /\ DOMAIN req = Worker
    BY DEF PoolInv
  <2>2. RowsInv' /\ Current(w)'
    BY <1>2, <1>4, <2>1, ServeStep
  <2>3. ASSUME NEW v \in Worker \ {w} PROVE Current(v)'
    <3>1. req[v].step = "idle"
      BY <1>1 DEF PoolInv, Alone
    <3>2. req'[v] = req[v]
      BY <1>4, <2>1, ServeFrame
    <3> QED
      BY <3>1, <3>2 DEF Current
  <2> QED
    BY <2>2, <2>3 DEF AloneInv
<1>5. ASSUME NEW value \in Value, NEW secret \in Value, Restart(value, secret) PROVE AloneInv'
  BY <1>2, <1>5, RestartStep DEF AloneInv
<1> QED
  BY <1>3, <1>4, <1>5 DEF Next

LEMMA EmailInvariance == Spec => [](PoolInv /\ AloneInv)
<1>1. (PoolInv /\ AloneInv) /\ [Next]_vars => (PoolInv /\ AloneInv)'
  BY PoolStep, AloneStep
<1> QED
  BY InitSound, <1>1, PTL DEF Spec

(* With requests one at a time, mail that is switched on has the address   *)
(* and the password of its provider, whatever is saved, tested or rolled   *)
(* back, and after every restart.                                          *)
THEOREM EnabledDelivers == Spec => []EnabledIsDeliverable
<1>1. AloneInv => EnabledIsDeliverable
  <2> SUFFICES ASSUME AloneInv, Alone, NEW r \in Stored PROVE Delivers(row[r])
    BY DEF EnabledIsDeliverable, Delivers
  <2>1. r \in Row
    BY OneRow, NoRow DEF AloneInv, RowsInv
  <2> QED
    BY <2>1 DEF AloneInv, RowsInv
<1> QED
  BY <1>1, EmailInvariance, PTL

(* With requests one at a time, settings are VERIFIED only while they are  *)
(* those the last successful test was sent with, and none has failed since *)
(* (update_email_settings, send_test_email).                               *)
THEOREM VerdictCurrent == Spec => []VerdictIsCurrent
<1>1. AloneInv => VerdictIsCurrent
  <2> SUFFICES ASSUME AloneInv, Alone, NEW r \in Stored PROVE Attests(row[r], tested)
    BY DEF VerdictIsCurrent, Attests
  <2>1. r \in Row
    BY OneRow, NoRow DEF AloneInv, RowsInv
  <2> QED
    BY <2>1 DEF AloneInv, RowsInv
<1> QED
  BY <1>1, EmailInvariance, PTL

-----------------------------------------------------------------------------
(* A replacement of the administrators' grants contains the critical keys. *)
(* It has found all the grants there are, or, when another has committed   *)
(* since, none of them.                                                    *)
ReplacementInv(w) ==
    replacing[w].step # "idle" /\ replacing[w].role = "ADMINISTRATOR" =>
        /\ Critical \subseteq replacing[w].keys
        /\ replacing[w].step # "find" => replacing[w].rows \in {grants["ADMINISTRATOR"], {}}

RolesInv ==
    /\ RolesTypeOK
    /\ Critical \subseteq grants["ADMINISTRATOR"]
    /\ AdministratorGrantsAreSubmitted
    /\ \A w \in Thread : ReplacementInv(w)

LEMMA RolesStart == RolesInit => RolesInv
  BY KeysAreKnown DEF RolesInit, RolesInv, RolesTypeOK, AdministratorGrantsAreSubmitted,
     ReplacementInv, NoReplacement, Defaults, Role

LEMMA CommitKeeps == ASSUME RolesInv, NEW w \in Thread, Commit(w) PROVE RolesInv'
<1> USE DEF RolesInv, RolesTypeOK, Role
<1> DEFINE r == replacing[w].role
<1>1. /\ grants' = [grants EXCEPT ![r] = (@ \ replacing[w].rows) \cup replacing[w].keys]
      /\ last' = [last EXCEPT ![r] = replacing[w].keys]
      /\ Conflicts(w) = {} /\ replacing[w].step = "commit"
      /\ replacing[w].rows \subseteq grants[r]
  BY DEF Commit
<1>2. /\ replacing'[w] = NoReplacement
      /\ \A v \in Rivals(w) : replacing'[v] = [replacing[v] EXCEPT !.rows = @ \ replacing[w].rows]
      /\ \A v \in Thread \ {w} : v \notin Rivals(w) => replacing'[v] = replacing[v]
  BY DEF Commit, Rivals
<1>3. RolesTypeOK'
  <2>1. grants' \in [Role -> SUBSET Key] /\ last' \in [Role -> SUBSET Key]
    BY <1>1
  <2>2. replacing' \in [Thread -> [step : {"idle", "find", "delete", "commit"}, role : Role,
                             keys : SUBSET Key, rows : SUBSET Key]]
    BY DEF Commit, NoReplacement, Rivals
  <2>3. ASSUME NEW v \in Thread PROVE replacing'[v].rows \subseteq grants'[replacing'[v].role]
    <3>1. CASE v = w
      BY <1>2, <3>1 DEF NoReplacement
    <3>2. CASE v \in Rivals(w)
      <4>1. /\ replacing'[v] = [replacing[v] EXCEPT !.rows = @ \ replacing[w].rows]
            /\ replacing[v].role = r
        BY <1>2, <3>2 DEF Rivals
      <4>2. replacing'[v].rows = replacing[v].rows \ replacing[w].rows /\ replacing'[v].role = r
        BY <4>1
      <4>3. grants'[r] = (grants[r] \ replacing[w].rows) \cup replacing[w].keys
        BY <1>1
      <4> QED
        BY <4>1, <4>2, <4>3
    <3>3. CASE v # w /\ v \notin Rivals(w)
      BY <1>1, <1>2, <3>3 DEF Rivals
    <3> QED
      BY <3>1, <3>2, <3>3
  <2> QED
    BY <2>1, <2>2, <2>3
<1>4. CASE r = "ADMINISTRATOR"
  <2>1. Critical \subseteq replacing[w].keys /\ replacing[w].rows \in {grants[r], {}}
    BY <1>1, <1>4 DEF ReplacementInv
  <2>2. RolesEdit \in replacing[w].keys /\ RolesEdit \in grants[r]
    BY <1>4, <2>1, EditIsCritical
  <2>3. replacing[w].rows = grants[r]
    BY <1>1, <2>1, <2>2 DEF Conflicts
  <2>4. grants'["ADMINISTRATOR"] = replacing[w].keys /\ last'["ADMINISTRATOR"] = replacing[w].keys
    BY <1>1, <1>4, <2>3
  <2>5. ASSUME NEW v \in Thread PROVE ReplacementInv(v)'
    <3>1. CASE v = w
      BY <1>2, <3>1 DEF ReplacementInv, NoReplacement
    <3>2. CASE v \in Rivals(w)
      <4>1. replacing[v].rows \subseteq replacing[w].rows
        BY <2>3, <3>2 DEF Rivals
      <4>2. replacing'[v].rows = {}
        <5>1. replacing'[v] = [replacing[v] EXCEPT !.rows = @ \ replacing[w].rows]
          BY <1>2, <3>2
        <5>2. replacing'[v].rows = replacing[v].rows \ replacing[w].rows
          BY <5>1
        <5> QED
          BY <4>1, <5>2
      <4>3. replacing'[v].step = replacing[v].step /\ replacing'[v].keys = replacing[v].keys
            /\ replacing'[v].role = replacing[v].role
        BY <1>2, <3>2 DEF Rivals
      <4> QED
        BY <3>2, <4>2, <4>3 DEF ReplacementInv, Rivals
    <3>3. CASE v # w /\ v \notin Rivals(w)
      BY <1>2, <1>4, <3>3 DEF ReplacementInv, Rivals
    <3> QED
      BY <3>1, <3>2, <3>3
  <2> QED
    BY <1>3, <2>1, <2>4, <2>5 DEF AdministratorGrantsAreSubmitted
<1>5. CASE r # "ADMINISTRATOR"
  <2>1. grants'["ADMINISTRATOR"] = grants["ADMINISTRATOR"]
        /\ last'["ADMINISTRATOR"] = last["ADMINISTRATOR"]
    BY <1>1, <1>5
  <2>2. ASSUME NEW v \in Thread PROVE ReplacementInv(v)'
    <3>1. CASE v = w
      BY <1>2, <3>1 DEF ReplacementInv, NoReplacement
    <3>2. CASE v \in Rivals(w)
      BY ZenonT(60), <1>2, <1>5, <3>2 DEF ReplacementInv, Rivals
    <3>3. CASE v # w /\ v \notin Rivals(w)
      BY <1>2, <2>1, <3>3 DEF ReplacementInv
    <3> QED
      BY <3>1, <3>2, <3>3
  <2> QED
    BY <1>3, <2>1, <2>2 DEF AdministratorGrantsAreSubmitted
<1> QED
  BY <1>4, <1>5

LEMMA RolesStep == RolesInv /\ [RolesNext]_rolesVars => RolesInv'
<1> SUFFICES ASSUME RolesInv, [RolesNext]_rolesVars PROVE RolesInv'
  OBVIOUS
<1> USE DEF RolesInv, RolesTypeOK, Role, ReplacementInv, AdministratorGrantsAreSubmitted
<1>1. ASSUME NEW w \in Thread, NEW actor \in Role, NEW r \in Role, NEW keys \in SUBSET Key,
             Submit(w, actor, r, keys)
      PROVE  RolesInv'
  BY <1>1 DEF Submit
<1>2. ASSUME NEW w \in Thread, Find(w) PROVE RolesInv'
  BY ZenonT(60), <1>2 DEF Find
<1>3. ASSUME NEW w \in Thread, Delete(w) PROVE RolesInv'
  BY <1>3 DEF Delete
<1>4. ASSUME NEW w \in Thread, Commit(w) PROVE RolesInv'
  BY <1>4, CommitKeeps
<1>5. ASSUME NEW w \in Thread, RolesRollback(w) PROVE RolesInv'
  BY <1>5 DEF RolesRollback, EndReplacement, NoReplacement
<1>6. CASE UNCHANGED rolesVars
  BY <1>6 DEF rolesVars
<1> QED
  BY <1>1, <1>2, <1>3, <1>4, <1>5, <1>6 DEF RolesNext

(* RolesInv always holds, whatever replacements overlap.                   *)
THEOREM RolesInvariance == RolesSpec => []RolesInv
<1>1. RolesInit => RolesInv
  BY RolesStart
<1>2. RolesInv /\ [RolesNext]_rolesVars => RolesInv'
  BY RolesStep
<1> QED
  BY <1>1, <1>2, PTL DEF RolesSpec

(* Types, and that a replacement holds no row that is not there, for any   *)
(* number of requests (replace_role_permissions).                          *)
THEOREM RolesTypeCorrect == RolesSpec => []RolesTypeOK
<1>1. RolesInv => RolesTypeOK
  BY DEF RolesInv
<1> QED
  BY <1>1, RolesInvariance, PTL

(* Administrators keep the critical permissions (update_role_permissions). *)
THEOREM CriticalKept == RolesSpec => []AdministratorsKeepCritical
<1>1. RolesInv => AdministratorsKeepCritical
  BY EditIsCritical DEF RolesInv, AdministratorsKeepCritical, Effective
<1> QED
  BY <1>1, RolesInvariance, PTL

(* Replacements of the administrators' grants never mix, however many      *)
(* overlap (replace_role_permissions).                                     *)
THEOREM AdministratorReplacementsAtomic == RolesSpec => []AdministratorGrantsAreSubmitted
<1>1. RolesInv => AdministratorGrantsAreSubmitted
  BY DEF RolesInv
<1> QED
  BY <1>1, RolesInvariance, PTL

=============================================================================
