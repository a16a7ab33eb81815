------------------------------ MODULE RateLimiter ------------------------------
(***************************************************************************)
(* One bucket of InMemoryRateLimiter.  Handlers run in threads of one      *)
(* process and share the deque without a lock; the interpreter may switch  *)
(* threads after a call and at the loop's jump back, so the clock reading, *)
(* each test of the head, each popleft, the count and the append are steps *)
(* of their own.                                                           *)
(*                                                                         *)
(* Hits are only appended at the back and taken from the front: the deque  *)
(* is what is left of all hits after the first `front'.                    *)
(***************************************************************************)
EXTENDS Integers, FiniteSets, Sequences

CONSTANTS
    Thread,
    Limit, Window,   \* arguments of allow
    MaxTime          \* bound: where the clock stops

ASSUME ArgumentsArePositive == Limit \in Nat \ {0} /\ Window \in Nat /\ MaxTime \in Nat

VARIABLES
    hits,    \* every time ever appended
    front,   \* how many of them popleft has taken
    call,    \* where each thread is in allow, and its clock reading
    now

vars == <<hits, front, call, now>>

Idle == [step |-> "idle", at |-> -1]

Bucket == front + 1 .. Len(hits)

(* bucket and bucket[0] < cutoff *)
HeadIsOldOrEqual(t) == front < Len(hits) /\ hits[front + 1] <= call[t].at - Window   \* mutant
HeadIsOld(t) == front < Len(hits) /\ hits[front + 1] < call[t].at - Window

Init == hits = <<>> /\ front = 0 /\ call = [t \in Thread |-> Idle] /\ now = 0

ReadClock(t) ==
    /\ call[t].step = "idle"
    /\ call' = [call EXCEPT ![t] = [step |-> "trim", at |-> now]]
    /\ UNCHANGED <<hits, front, now>>

Test(t) ==
    /\ call[t].step = "trim"
    /\ call' = [call EXCEPT ![t].step = IF HeadIsOld(t) THEN "pop" ELSE "count"]
    /\ UNCHANGED <<hits, front, now>>

Peek(t) ==                                                          \* mutant
    /\ call[t].step = "pop" /\ front < Len(hits)
    /\ call' = [call EXCEPT ![t].step = "trim"]
    /\ UNCHANGED <<hits, front, now>>

Pop(t) ==
    /\ call[t].step = "pop" /\ front < Len(hits)
    /\ front' = front + 1
    /\ call' = [call EXCEPT ![t].step = "trim"]
    /\ UNCHANGED <<hits, now>>

(* popleft of an empty deque raises; the request ends with status 500. *)
PopEmpty(t) ==
    /\ call[t].step = "pop" /\ front = Len(hits)
    /\ call' = [call EXCEPT ![t] = Idle]
    /\ UNCHANGED <<hits, front, now>>

CountOneMore(t) ==                                                  \* mutant
    /\ call[t].step = "count"
    /\ call' = [call EXCEPT ![t] =
            IF Len(hits) - front > Limit THEN Idle ELSE [@ EXCEPT !.step = "append"]]
    /\ UNCHANGED <<hits, front, now>>

Count(t) ==
    /\ call[t].step = "count"
    /\ call' = [call EXCEPT ![t] =
            IF Len(hits) - front >= Limit THEN Idle ELSE [@ EXCEPT !.step = "append"]]
    /\ UNCHANGED <<hits, front, now>>

AppendHit(t) ==
    /\ call[t].step = "append"
    /\ hits' = Append(hits, call[t].at)
    /\ call' = [call EXCEPT ![t] = Idle]
    /\ UNCHANGED <<front, now>>

Tick == now < MaxTime /\ now' = now + 1 /\ UNCHANGED <<hits, front, call>>

Step(t) == Test(t) \/ Pop(t) \/ PopEmpty(t) \/ Count(t) \/ AppendHit(t)

Next == Tick \/ \E t \in Thread : ReadClock(t) \/ Step(t)

(* The interpreter lets every runnable thread run. *)
Fairness == \A t \in Thread : WF_vars(Step(t))

Spec == Init /\ [][Next]_vars /\ Fairness

-----------------------------------------------------------------------------
Steps == {"idle", "trim", "pop", "count", "append"}

(* Types; what has been taken was there, and nothing is stamped with a     *)
(* time that has not been (allow).                                         *)
TypeOK ==
    /\ now \in 0..MaxTime
    /\ hits \in Seq(0..now) /\ front \in 0..Len(hits)
    /\ call \in [Thread -> [step : Steps, at : -1..now]]
    /\ \A t \in Thread : call[t].step = "idle" <=> call[t].at = -1

(* The calls that have counted and not yet appended. *)
Counted == {t \in Thread : call[t].step = "append"}

(* Overlapping calls may all count before one of them appends, and that is *)
(* all they gain: the bucket never holds more than the limit and one hit   *)
(* for each further thread (allow).                                        *)
BucketIsBounded ==
    Cardinality(Bucket) + Cardinality(Counted) <= Limit + Cardinality(Thread) - 1

(* One call at a time: the trimmed deque answers exactly as if every hit   *)
(* in the window had been counted, and forgets none that still counts.     *)
Promise == INSTANCE SlidingWindow
    WITH clock <- now, log <- hits, asked <- [t \in Thread |-> call[t].at]
ImplementsSlidingWindow == Promise!SWSpec

(* The loop ends: each pass takes a hit, whatever the other threads add.   *)
EveryCallEnds == \A t \in Thread : call[t].step # "idle" ~> call[t].step = "idle"

=============================================================================
