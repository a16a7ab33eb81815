------------------------------ MODULE MCMfaLogin ------------------------------
(***************************************************************************)
(* Instances of MfaLogin for TLC.  One run explores several scenarios,     *)
(* each with the threads of the server, the kinds of requests, the rows,   *)
(* the limits and the time it has.                                         *)
(***************************************************************************)
EXTENDS MfaLogin, TLC

VARIABLE scenario

Scenarios ==
    {[name |-> "one at a time", workers |-> 1, kinds |-> Operations,
      pre |-> 2, chal |-> 3, sess |-> 2, limits |-> {1}, until |-> 3],
     [name |-> "verifications", workers |-> 2, kinds |-> {"login", "resend", "verify"},
      pre |-> 1, chal |-> 3, sess |-> 2, limits |-> {1, 2}, until |-> 4],
     [name |-> "resets", workers |-> 2,
      kinds |-> {"login", "resend", "verify", "cancel", "reset"},
      pre |-> 2, chal |-> 2, sess |-> 1, limits |-> {1}, until |-> 1]}

Inserted(table) == {row \in DOMAIN table : table[row].status # "absent"}

Within ==
    /\ now <= scenario.until
    /\ limit \in scenario.limits
    /\ \A w \in Worker : req[w].op \in scenario.kinds \cup {"idle"}
    /\ Cardinality(Inserted(pre)) <= scenario.pre
    /\ Cardinality(Inserted(chal)) <= scenario.chal
    /\ Cardinality(Inserted(sess)) <= scenario.sess

MCInit ==
    /\ Init /\ scenario \in Scenarios
    /\ limit \in scenario.limits /\ Cardinality(pool) = scenario.workers
MCNext == Next /\ UNCHANGED scenario /\ Within'
MCSpec == MCInit /\ [][MCNext]_<<vars, scenario>>

Symmetry == Permutations(PreAuth) \cup Permutations(Challenge)
                \cup Permutations(Session) \cup Permutations(Worker)

=============================================================================
