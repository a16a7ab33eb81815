----------------------------- MODULE SlidingWindow -----------------------------
(***************************************************************************)
(* What a rate limit promises a client (allow): a call made at a time is   *)
(* admitted if fewer than Limit admissions lie in the window before that   *)
(* time, and refused only if there are Limit.  Admissions are all that is  *)
(* remembered, and they are never forgotten.                               *)
(***************************************************************************)
EXTENDS Integers, FiniteSets, Sequences

CONSTANTS Thread, Limit, Window, MaxTime

VARIABLES
    clock,
    log,     \* times of the admissions
    asked    \* what time a call was made at, or -1

swVars == <<clock, log, asked>>

Recent(t) == {i \in 1..Len(log) : log[i] >= t - Window}

SWInit == clock = 0 /\ log = <<>> /\ asked = [t \in Thread |-> -1]

Ask(t) ==
    /\ asked[t] = -1
    /\ asked' = [asked EXCEPT ![t] = clock]
    /\ UNCHANGED <<clock, log>>

Admit(t) ==
    /\ asked[t] # -1
    /\ Cardinality(Recent(asked[t])) < Limit
    /\ log' = Append(log, asked[t])
    /\ asked' = [asked EXCEPT ![t] = -1]
    /\ UNCHANGED clock

Refuse(t) ==
    /\ asked[t] # -1
    /\ Cardinality(Recent(asked[t])) >= Limit
    /\ asked' = [asked EXCEPT ![t] = -1]
    /\ UNCHANGED <<clock, log>>

Pass == clock < MaxTime /\ clock' = clock + 1 /\ UNCHANGED <<log, asked>>

SWNext == Pass \/ \E t \in Thread : Ask(t) \/ Admit(t) \/ Refuse(t)

(* Every call is answered. *)
SWSpec ==
    /\ SWInit /\ [][SWNext]_swVars
    /\ \A t \in Thread : WF_swVars(Admit(t) \/ Refuse(t))

=============================================================================
