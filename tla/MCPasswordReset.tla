---------------------------- MODULE MCPasswordReset ----------------------------
(***************************************************************************)
(* Instances of PasswordReset for TLC.  One run explores two scenarios:    *)
(* one request at a time while links expire, and two that overlap.         *)
(***************************************************************************)
EXTENDS PasswordReset, TLC

VARIABLE scenario

Scenarios == {[workers |-> 1, sessions |-> 2, until |-> 2],
              [workers |-> 2, sessions |-> 1, until |-> 0]}

Within ==
    /\ now <= scenario.until
    /\ Cardinality({s \in Session : sess[s].status # "absent"}) <= scenario.sessions

MCInit ==
    /\ Init /\ scenario \in Scenarios
    /\ Cardinality(pool) = scenario.workers
MCNext == Next /\ UNCHANGED scenario /\ Within'
MCSpec == MCInit /\ [][MCNext]_<<vars, scenario>>

Symmetry == Permutations(Worker) \cup Permutations(Token) \cup Permutations(Session)

=============================================================================
