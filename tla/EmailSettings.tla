----------------------------- MODULE EmailSettings -----------------------------
(***************************************************************************)
(* The settings of outgoing mail and the verdict of their last test.  A    *)
(* save and a test each load the row, work on the copy, and at the commit  *)
(* write the columns in which the copy has changed; between the two a test *)
(* talks to the mail server.  The row in force is the oldest.              *)
(***************************************************************************)
EXTENDS Sequences, Naturals

CONSTANTS
    Value,          \* addresses, accounts, passwords
    Row,
    Worker,         \* threads of the server
    None,
    LocalMailbox    \* the process runs outside production with SMTP_HOST set

ASSUME LocalIsBoolean == LocalMailbox \in BOOLEAN
ASSUME NoneIsNeither == None \notin Value \cup Row

VARIABLES
    pool,     \* the threads of this server, each with a connection
    row,      \* table email_settings
    order,    \* the rows committed, oldest first
    req,      \* the request each worker serves
    tested    \* history: what the last test that succeeded was sent with

vars == <<pool, row, order, req, tested>>

Provider == {"gmail", "hostinger"}
AddressOf == [gmail |-> "address", hostinger |-> "account"]
SecretOf == [gmail |-> "appPassword", hostinger |-> "smtpPassword"]

New == [provider |-> "gmail", address |-> None, account |-> None, appPassword |-> None,
        smtpPassword |-> None, enabled |-> FALSE, status |-> "NOT_CONFIGURED",
        result |-> "none", error |-> FALSE]
Column == DOMAIN New

NoRequest == [step |-> "idle", row |-> None, copy |-> New, want |-> New, replaced |-> {}]

Finish(w) == req' = [req EXCEPT ![w] = NoRequest]

Stored == {order[i] : i \in 1..Len(order)}
Unused == {r \in Row \ Stored : \A w \in Worker : req[w].row # r}

(* get_or_create_email_settings: the oldest row there is, else a new one. *)
InForce == IF order = <<>> THEN Unused ELSE {Head(order)}

(* What _provider_from_settings requires, and what it sends with. *)
Configured(s) == None \notin {s[AddressOf[s.provider]], s[SecretOf[s.provider]]}
MaySend(s) == s.enabled /\ Configured(s)
Sender(s) == <<s.provider, s[AddressOf[s.provider]], s[SecretOf[s.provider]]>>

Init ==
    /\ pool \in SUBSET Worker
    /\ row = [r \in Row |-> New] /\ order = <<>>
    /\ req = [w \in Worker |-> NoRequest]
    /\ tested = <<>>

-----------------------------------------------------------------------------
Other(p) == IF p = "gmail" THEN "hostinger" ELSE "gmail"

SavedQuietly(s, p, value, secret, enabled) ==                       \* mutant
    [s EXCEPT !.provider = p, !.enabled = enabled, !.error = FALSE,
              ![AddressOf[p]] = value, ![AddressOf[Other(p)]] = None,
              ![SecretOf[p]] = IF secret = None THEN @ ELSE secret,
              !.result = IF p = s.provider THEN @ ELSE "none"]

(* The copy after a save of these values; no secret keeps the stored one. *)
Saved(s, p, value, secret, enabled) ==
    [s EXCEPT !.provider = p, !.enabled = enabled, !.status = "CONFIGURED", !.error = FALSE,
              ![AddressOf[p]] = value, ![AddressOf[Other(p)]] = None,
              ![SecretOf[p]] = IF secret = None THEN @ ELSE secret,
              !.result = IF p = s.provider THEN @ ELSE "none"]

SecretInAnyColumn(s, p, secret) ==                                  \* mutant
    secret # None \/ s.appPassword # None \/ s.smtpPassword # None

(* A provider's first configuration needs its password. *)
SecretIsKnown(s, p, secret) == secret # None \/ s[SecretOf[p]] # None

SaveLoad(w, p, value, secret, enabled) ==
    /\ req[w].step = "idle"
    /\ \E r \in InForce :
        /\ SecretIsKnown(row[r], p, secret)
        /\ req' = [req EXCEPT ![w] = [step |-> "save", row |-> r, copy |-> row[r],
                want |-> Saved(row[r], p, value, secret, enabled),
                replaced |-> IF secret = None THEN {} ELSE {SecretOf[p]}]]
    /\ UNCHANGED <<row, order, tested>>

(* An UPDATE carries the columns that differ from the loaded copy; a new   *)
(* password always does, being encrypted afresh.                           *)
Merged(w, want) ==
    LET current == row[req[w].row]
    IN  [c \in Column |-> IF want[c] # req[w].copy[c] \/ c \in req[w].replaced
                          THEN want[c] ELSE current[c]]

(* created_at is when the transaction began, so that of two first rows     *)
(* either may turn out to be the older.                                    *)
Store(w, want) ==
    /\ row' = [row EXCEPT ![req[w].row] = Merged(w, want)]
    /\ IF req[w].row \in Stored THEN order' = order
       ELSE order' \in {Append(order, req[w].row), <<req[w].row>> \o order}
    /\ Finish(w)

SaveCommit(w) ==
    /\ req[w].step = "save"
    /\ Store(w, req[w].want)
    /\ UNCHANGED tested

TestLoad(w) ==
    /\ req[w].step = "idle"
    /\ \E r \in InForce :
        req' = [req EXCEPT ![w] = [NoRequest EXCEPT !.step = "test", !.row = r,
                                                    !.copy = row[r]]]
    /\ UNCHANGED <<row, order, tested>>

(* The message left, or it did not: disabled, not configured, or refused   *)
(* by the server.                                                          *)
TestCommit(w, sent) ==
    LET s == req[w].copy
    IN  /\ req[w].step = "test"
        /\ sent => MaySend(s)
        /\ Store(w, IF sent
                    THEN [s EXCEPT !.status = "VERIFIED", !.result = "SUCCESS", !.error = FALSE]
                    ELSE [s EXCEPT !.status = "ERROR", !.result = "FAILURE", !.error = TRUE])
        /\ tested' = IF sent THEN Sender(s) ELSE tested

(* ensure_local_development_mailbox, when the process starts again; the    *)
(* Gmail address and the outcome of the last test stay.                    *)
Restart(value, secret) ==
    /\ LocalMailbox
    /\ req' = [w \in Worker |-> NoRequest]
    /\ \E r \in (IF order = <<>> THEN Row ELSE {Head(order)}) :
        /\ row' = [row EXCEPT ![r] = [@ EXCEPT !.provider = "hostinger", !.account = value,
                !.smtpPassword = secret, !.enabled = TRUE, !.status = "CONFIGURED"]]
        /\ order' = IF order = <<>> THEN <<r>> ELSE order
    /\ UNCHANGED tested

Rollback(w) == req[w].step # "idle" /\ Finish(w) /\ UNCHANGED <<row, order, tested>>

Serve(w) ==
    \/ \E p \in Provider, value \in Value, secret \in Value \cup {None}, enabled \in BOOLEAN :
            SaveLoad(w, p, value, secret, enabled)
    \/ TestLoad(w) \/ SaveCommit(w) \/ Rollback(w)
    \/ \E sent \in BOOLEAN : TestCommit(w, sent)

Next ==
    /\ \/ \E w \in pool : Serve(w)
       \/ \E value, secret \in Value : Restart(value, secret)
    /\ UNCHANGED pool

Spec == Init /\ [][Next]_vars

-----------------------------------------------------------------------------
(* Requests do not overlap. *)
Alone == \A v, w \in pool : v = w

(* "Gmail Email Address is required.", "Gmail App Password is required for *)
(* initial configuration." and their like for Hostinger (api/settings.py): *)
(* mail that is switched on has the address and the password of its        *)
(* provider.  Without, nobody who must use MFA can sign in.  Requests one  *)
(* at a time keep it so, overlapping saves do not.                         *)
EnabledIsDeliverable ==
    Alone => \A r \in Stored : row[r].enabled => Configured(row[r])

(* One request at a time, VERIFIED is about the settings in force: the     *)
(* last successful test was sent with them and nothing has failed since    *)
(* (update_email_settings, send_test_email).                               *)
VerdictIsCurrent ==
    Alone => \A r \in Stored : row[r].status = "VERIFIED" =>
        /\ row[r].enabled /\ tested = Sender(row[r])
        /\ row[r].result = "SUCCESS" /\ ~row[r].error

=============================================================================
