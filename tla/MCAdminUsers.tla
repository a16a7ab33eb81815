----------------------------- MODULE MCAdminUsers -----------------------------
(***************************************************************************)
(* Instances of AdminUsers for TLC.  One run explores two scenarios: one   *)
(* request at a time on all the accounts, by whoever may manage users, and *)
(* two requests of administrators that overlap on two accounts and submit  *)
(* no account that is both demoted and disabled.                           *)
(***************************************************************************)
EXTENDS AdminUsers, Functions, TLC

VARIABLE scenario

Scenarios ==
    {[workers |-> 1, rows |-> Cardinality(User), actors |-> BOOLEAN],
     [workers |-> 2, rows |-> 2, actors |-> {TRUE}]}

(* Addresses in use, submitted or remembered by a request. *)
Addresses ==
    {account[u].email : u \in User}
        \cup UNION {{r.want.email, r.self.email, r.copy.email} : r \in Range(req)}

Within ==
    /\ Cardinality({u \in User : account[u].status # "absent"}) <= scenario.rows
    /\ Cardinality(Addresses \ {None}) <= scenario.rows
    /\ \A w \in Worker :
        /\ req[w].actor # None => req[w].self.admin \in scenario.actors
        /\ scenario.workers > 1 /\ req[w].want # NoAccount =>
             req[w].want.admin \/ req[w].want.enabled

MCInit ==
    /\ Init /\ scenario \in Scenarios
    /\ Cardinality(pool) = scenario.workers
MCNext == Next /\ UNCHANGED scenario /\ Within'
MCSpec == MCInit /\ [][MCNext]_<<vars, scenario>>

Symmetry == Permutations(User) \cup Permutations(Email) \cup Permutations(Worker)

=============================================================================
