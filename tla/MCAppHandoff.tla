----------------------------- MODULE MCAppHandoff -----------------------------
(***************************************************************************)
(* Instances of AppHandoff for TLC.  One run explores several scenarios,   *)
(* each with the workers busy at a time, the kinds of requests, the        *)
(* application sessions, the idle timeouts and the time it has.            *)
(***************************************************************************)
EXTENDS AppHandoff, TLC

VARIABLE scenario

(* Account rows administrators submit: everything granted, disabled,       *)
(* unassigned, and with MFA required.                                      *)
Payloads ==
    {[enabled |-> TRUE, mfa |-> FALSE, assigned |-> TRUE],
     [enabled |-> FALSE, mfa |-> FALSE, assigned |-> TRUE],
     [enabled |-> TRUE, mfa |-> FALSE, assigned |-> FALSE],
     [enabled |-> TRUE, mfa |-> TRUE, assigned |-> TRUE]}

Scenarios ==
    {[name |-> "one at a time", workers |-> 1, kinds |-> AllKinds \ {"roles", "settings"},
      apps |-> 2, idle |-> {1}, until |-> 2],
     [name |-> "settings", workers |-> 1, kinds |-> AllKinds \ {"admin", "cleanup"},
      apps |-> 1, idle |-> IdleChoices, until |-> 2],
     [name |-> "logout race", workers |-> 2, kinds |-> AllKinds \ {"admin", "roles", "settings"},
      apps |-> 1, idle |-> {2}, until |-> 2],
     [name |-> "admin race", workers |-> 2,
      kinds |-> {"login", "authorize", "exchange", "introspect", "admin"},
      apps |-> 1, idle |-> {2}, until |-> 0],
     [name |-> "replay", workers |-> 2, kinds |-> {"login", "authorize", "exchange", "cleanup"},
      apps |-> 3, idle |-> {2}, until |-> 2]}

(* Application sessions are numbered as they are inserted. *)
Numbered(n) == {a \in AppSession : app[a].status # "absent"} = 1..n

(* When edits race, the two that take different paths: requiring MFA, which *)
(* ends every session, and unassigning, which ends the application         *)
(* sessions.                                                               *)
Races(row) == row.enabled /\ row.mfa = row.assigned

Within ==
    /\ now <= scenario.until
    /\ \A w \in Worker :
        /\ \/ req[w].op \in scenario.kinds \cup {"idle", "expire"}
           \/ req[w].op = "reset" /\ "admin" \in scenario.kinds
        /\ req[w].op = "admin" /\ scenario.workers > 1 => Races(req[w].want)
    /\ \E n \in 0 .. scenario.apps : Numbered(n)

(* The requests that are served in one step. *)
Offered ==
    /\ "revoke" \in scenario.kinds \/ \A a \in AppSession : ~RevokeApplicationSession(a)
    /\ "roles" \in scenario.kinds \/ ~UpdateRolePermissions
    /\ "settings" \in scenario.kinds \/ ~UpdateAuthenticationSettings
    /\ "cleanup" \in scenario.kinds \/ ~Cleanup

MCInit ==
    /\ Init /\ scenario \in Scenarios
    /\ idleTimeout \in scenario.idle /\ Cardinality(pool) = scenario.workers
MCNext == Next /\ UNCHANGED scenario /\ Within' /\ Offered
MCSpec == MCInit /\ [][MCNext]_<<vars, scenario>>

(* Workers are interchangeable. *)
Symmetry == Permutations(Worker)

=============================================================================
