----------------------------- MODULE MCRateLimiter -----------------------------
(***************************************************************************)
(* Instances of RateLimiter for TLC.  One run explores two scenarios: one  *)
(* call at a time, for longer, and two calls that overlap.                 *)
(***************************************************************************)
EXTENDS RateLimiter, TLC

VARIABLE scenario

Scenarios == {[calls |-> 1, until |-> 6], [calls |-> 2, until |-> 4]}

Within ==
    /\ now <= scenario.until
    /\ Cardinality({t \in Thread : call[t].step # "idle"}) <= scenario.calls

MCInit == Init /\ scenario \in Scenarios
MCNext == Next /\ UNCHANGED scenario /\ Within'
MCSpec == MCInit /\ [][MCNext]_<<vars, scenario>> /\ Fairness

Alone == scenario.calls = 1

(* The promise is about calls one at a time: the others it sees at rest.   *)
AlonePromise == INSTANCE SlidingWindow
    WITH clock <- IF Alone THEN now ELSE 0,
         log <- IF Alone THEN hits ELSE <<>>,
         asked <- [t \in Thread |-> IF Alone THEN call[t].at ELSE -1]

(* One call at a time, the trimmed deque answers exactly as if every hit   *)
(* in the window had been counted, and forgets none that still counts;     *)
(* every call is answered (allow).                                         *)
AloneImplementsSlidingWindow == AlonePromise!SWSpec

=============================================================================
