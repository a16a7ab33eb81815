--------------------------- MODULE RateLimiterProofs ---------------------------
(***************************************************************************)
(* The rate limiter for any limit, window and set of threads: types, the   *)
(* bound on the bucket, and, for one call at a time, that it implements    *)
(* SlidingWindow.                                                          *)
(***************************************************************************)
EXTENDS RateLimiter, FiniteSetTheorems, TLAPS

LEMMA TypeInit == Init => TypeOK
  BY ArgumentsArePositive DEF Init, TypeOK, Idle, Steps

LEMMA TypeNext == TypeOK /\ [Next]_vars => TypeOK'
<1> SUFFICES ASSUME TypeOK, [Next]_vars PROVE TypeOK'
  OBVIOUS
<1> USE DEF TypeOK, Steps, Idle
<1>1. ASSUME NEW t \in Thread, ReadClock(t) PROVE TypeOK'
  BY <1>1 DEF ReadClock
<1>2. ASSUME NEW t \in Thread, Test(t) PROVE TypeOK'
  BY <1>2 DEF Test
<1>3. ASSUME NEW t \in Thread, Pop(t) PROVE TypeOK'
  BY <1>3 DEF Pop
<1>4. ASSUME NEW t \in Thread, PopEmpty(t) PROVE TypeOK'
  BY <1>4 DEF PopEmpty
<1>5. ASSUME NEW t \in Thread, Count(t) PROVE TypeOK'
  BY <1>5 DEF Count
<1>6. ASSUME NEW t \in Thread, AppendHit(t) PROVE TypeOK'
  <2>1. call[t].at \in 0..now
    BY <1>6 DEF AppendHit
  <2>2. hits' \in Seq(0..now') /\ front' \in 0..Len(hits')
    BY <1>6, <2>1 DEF AppendHit
  <2> QED
    BY <1>6, <2>2 DEF AppendHit
<1>7. CASE Tick
  BY <1>7, ArgumentsArePositive DEF Tick
<1>8. CASE UNCHANGED vars
  BY <1>8 DEF vars
<1> QED
  BY <1>1, <1>2, <1>3, <1>4, <1>5, <1>6, <1>7, <1>8 DEF Next, Step

(* Types, and hits stamped with times that have been, for any number of    *)
(* threads (allow).                                                        *)
THEOREM LimiterTypeCorrect == Spec => []TypeOK
<1>1. Init => TypeOK
  BY TypeInit
<1>2. TypeOK /\ [Next]_vars => TypeOK'
  BY TypeNext
<1> QED
  BY <1>1, <1>2, PTL DEF Spec

-----------------------------------------------------------------------------
(* The bound counts the calls that may still append. *)
LEMMA BoundNext ==
  ASSUME IsFiniteSet(Thread), TypeOK, BucketIsBounded, [Next]_vars
  PROVE  BucketIsBounded'
<1> DEFINE Held == Len(hits) - front
           N == Cardinality(Counted)
<1>1. /\ Cardinality(Bucket) = Held /\ Cardinality(Bucket)' = Held'
      /\ Held \in Nat
  <2>1. front \in Nat /\ Len(hits) \in Nat /\ front <= Len(hits)
    BY DEF TypeOK
  <2>2. front' \in Nat /\ Len(hits)' \in Nat /\ front' <= Len(hits)'
    BY TypeNext DEF TypeOK
  <2>3. ASSUME NEW a \in Nat, NEW b \in Nat, a <= b PROVE Cardinality(a + 1 .. b) = b - a
    <3>1. \A c, d \in Int : Cardinality(c .. d) = IF c > d THEN 0 ELSE d - c + 1
      BY FS_Interval
    <3>2. a + 1 \in Int /\ b \in Int
      OBVIOUS
    <3>3. Cardinality(a + 1 .. b) = IF a + 1 > b THEN 0 ELSE b - (a + 1) + 1
      BY <3>1, <3>2
    <3> QED
      BY <2>3, <3>3
  <2>4. Cardinality(Bucket) = Held
    BY <2>1, <2>3 DEF Bucket
  <2>5. Cardinality(Bucket)' = Held'
    BY <2>2, <2>3 DEF Bucket
  <2> QED
    BY <2>1, <2>4, <2>5
<1>2. /\ Counted \subseteq Thread /\ Counted' \subseteq Thread
      /\ IsFiniteSet(Counted) /\ IsFiniteSet(Counted')
      /\ N \in Nat /\ N' \in Nat /\ Cardinality(Thread) \in Nat
      /\ N <= Cardinality(Thread)
  <2>1. Counted \subseteq Thread /\ Counted' \subseteq Thread
    BY DEF Counted
  <2>2. /\ IsFiniteSet(Counted) /\ N <= Cardinality(Thread)
        /\ IsFiniteSet(Counted')
    BY <2>1, FS_Subset
  <2> QED
    BY <2>1, <2>2, FS_CardinalityType
<1>3. Held + N <= Limit + Cardinality(Thread) - 1
  BY <1>1 DEF BucketIsBounded
<1>4. SUFFICES Held' + N' <= Limit + Cardinality(Thread) - 1
  BY <1>1 DEF BucketIsBounded
<1>5. ASSUME NEW t \in Thread, ReadClock(t) \/ Test(t) \/ PopEmpty(t) \/ Pop(t)
      PROVE  Held' + N' <= Limit + Cardinality(Thread) - 1
  <2>1. Counted' = Counted
    <3>1. call'[t].step # "append" /\ call[t].step # "append"
      BY <1>5 DEF ReadClock, Test, PopEmpty, Pop, TypeOK, Idle
    <3>2. \A s \in Thread \ {t} : call'[s] = call[s]
      BY <1>5 DEF ReadClock, Test, PopEmpty, Pop, TypeOK
    <3> QED
      BY <3>1, <3>2 DEF Counted
  <2>2. Held' <= Held /\ Held' \in Int
    BY <1>5 DEF ReadClock, Test, PopEmpty, Pop, TypeOK
  <2> QED
    BY <1>1, <1>2, <1>3, <2>1, <2>2, ArgumentsArePositive
<1>6. ASSUME NEW t \in Thread, Count(t)
      PROVE  Held' + N' <= Limit + Cardinality(Thread) - 1
  <2>1. Held' = Held
    BY <1>6 DEF Count
  <2>2. CASE Held >= Limit
    <3>1. Counted' = Counted
      BY <1>6, <2>2 DEF Count, Counted, TypeOK, Idle
    <3> QED
      BY <1>3, <2>1, <3>1
  <2>3. CASE Held < Limit
    <3>1. N' <= Cardinality(Thread)
      BY <1>2, FS_Subset
    <3> QED
      BY <1>1, <1>2, <2>1, <2>3, <3>1, ArgumentsArePositive
  <2> QED
    BY <1>1, <2>2, <2>3, ArgumentsArePositive
<1>7. ASSUME NEW t \in Thread, AppendHit(t)
      PROVE  Held' + N' <= Limit + Cardinality(Thread) - 1
  <2>1. t \in Counted /\ Counted' = Counted \ {t}
    BY <1>7 DEF AppendHit, Counted, TypeOK, Idle
  <2>2. N' = N - 1
    BY <1>2, <2>1, FS_RemoveElement
  <2>3. Held' = Held + 1
    BY <1>7 DEF AppendHit, TypeOK
  <2> QED
    BY <1>1, <1>2, <1>3, <2>2, <2>3
<1>8. CASE Tick \/ UNCHANGED vars
  <2>1. Counted' = Counted /\ Held' = Held
    BY <1>8 DEF Tick, vars, Counted
  <2> QED
    BY <1>3, <2>1
<1> QED
  BY <1>5, <1>6, <1>7, <1>8 DEF Next, Step

(* However many threads call allow at once, the bucket holds at most one   *)
(* hit beyond the limit for each further thread.                           *)
THEOREM BucketBounded ==
  ASSUME IsFiniteSet(Thread), Thread # {} PROVE Spec => []BucketIsBounded
<1>1. Init => BucketIsBounded
  <2> SUFFICES ASSUME Init PROVE BucketIsBounded
    OBVIOUS
  <2>1. Bucket = {} /\ Counted = {}
    BY DEF Init, Bucket, Counted, Idle
  <2>2. Cardinality(Thread) \in Nat /\ Cardinality(Thread) # 0
    BY FS_CardinalityType, FS_EmptySet
  <2> QED
    BY <2>1, <2>2, FS_EmptySet, ArgumentsArePositive DEF BucketIsBounded
<1>2. TypeOK /\ BucketIsBounded /\ [Next]_vars => BucketIsBounded'
  BY BoundNext
<1> QED
  BY <1>1, <1>2, LimiterTypeCorrect, PTL DEF Spec

-----------------------------------------------------------------------------
(* One call at a time.  Hits are in order, what has been taken lies before *)
(* the window, and a call that counts has taken all that does.             *)
Since(t) == IF call[t].step = "idle" THEN now ELSE call[t].at

Alone(t) ==
    /\ \A i, j \in 1..Len(hits) : i <= j => hits[i] <= hits[j]
    /\ \A i \in 1..Len(hits) : hits[i] <= Since(t)
    /\ \A i \in 1..front : hits[i] < Since(t) - Window
    /\ call[t].step = "pop" => HeadIsOld(t)
    /\ call[t].step \in {"count", "append"} =>
            \A i \in Bucket : hits[i] >= call[t].at - Window
    /\ call[t].step = "append" => Len(hits) - front < Limit

LEMMA AloneInit == ASSUME NEW t \in Thread, Init PROVE Alone(t)
  BY DEF Init, Alone, Idle, Since

LEMMA AloneNext ==
  ASSUME NEW t \in Thread, Thread = {t}, TypeOK, Alone(t), [Next]_vars
  PROVE  Alone(t)'
<1> USE ArgumentsArePositive DEF TypeOK, Alone, Since, Idle, HeadIsOld, Bucket
<1>0. /\ Len(hits) \in Nat /\ front \in 0..Len(hits) /\ now \in Nat
      /\ \A i \in 1..Len(hits) : hits[i] \in Nat
      /\ call[t].step # "idle" => call[t].at \in Nat
  OBVIOUS
<1>1. CASE ReadClock(t)
  BY <1>1 DEF ReadClock
<1>2. CASE Test(t)
  <2>1. CASE HeadIsOld(t)
    BY <1>2, <2>1 DEF Test
  <2>2. CASE ~HeadIsOld(t)
    <3>1. ASSUME NEW i \in front + 1 .. Len(hits) PROVE hits[i] >= call[t].at - Window
      <4>1. front + 1 \in 1..Len(hits) /\ i \in 1..Len(hits) /\ front + 1 <= i
        BY <1>0
      <4>2. hits[front + 1] <= hits[i]
        BY <4>1
      <4>3. hits[front + 1] >= call[t].at - Window
        BY <1>0, <1>2, <2>2, <4>1 DEF Test
      <4> QED
        BY SMTT(30), <1>0, <1>2, <4>1, <4>2, <4>3 DEF Test
    <3>2. /\ call' = [call EXCEPT ![t].step = "count"]
          /\ UNCHANGED <<hits, front, now>>
      BY <1>2, <2>2 DEF Test
    <3> QED
      BY <1>2, <3>1, <3>2 DEF Test
  <2> QED
    BY <2>1, <2>2
<1>3. CASE Pop(t)
  BY <1>3 DEF Pop
<1>4. CASE PopEmpty(t)
  BY <1>4 DEF PopEmpty
<1>5. CASE Count(t)
  <2>1. UNCHANGED <<hits, front, now>> /\ call[t].step = "count"
    BY <1>5 DEF Count
  <2>2. CASE Len(hits) - front >= Limit
    <3>1. call'[t] = Idle
      BY <1>5, <2>2 DEF Count
    <3>2. \A i \in 1..front : hits[i] < now - Window
      BY <1>0, <2>1
    <3>3. \A i \in 1..Len(hits) : hits[i] <= now
      BY <1>0, <2>1
    <3> QED
      BY <2>1, <3>1, <3>2, <3>3
  <2>3. CASE ~(Len(hits) - front >= Limit)
    <3>1. call' = [call EXCEPT ![t].step = "append"]
      BY <1>5, <2>3 DEF Count
    <3> QED
      BY <1>0, <2>1, <2>3, <3>1
  <2> QED
    BY <2>2, <2>3
<1>6. CASE AppendHit(t)
  <2> DEFINE n == Len(hits)
  <2>1. call[t].at \in 0..now /\ hits \in Seq(Nat) /\ n \in Nat
    BY <1>6 DEF AppendHit
  <2>2. /\ Len(hits') = n + 1 /\ hits'[n + 1] = call[t].at
        /\ \A i \in 1..n : hits'[i] = hits[i]
    BY <1>6, <2>1 DEF AppendHit
  <2>3. \A i \in 1..n : hits[i] \in Nat /\ hits[i] <= call[t].at
    BY <1>6, <2>1 DEF AppendHit
  <2>4. call'[t] = Idle /\ front' = front /\ now' = now
    BY <1>6 DEF AppendHit
  <2>5. ASSUME NEW i \in 1..Len(hits'), NEW j \in 1..Len(hits'), i <= j
        PROVE  hits'[i] <= hits'[j]
    <3>1. CASE j = n + 1
      BY <2>1, <2>2, <2>3, <3>1
    <3>2. CASE j # n + 1
      <4>1. i \in 1..n /\ j \in 1..n
        BY <2>1, <2>2, <2>5, <3>2
      <4> QED
        BY <2>2, <2>5, <4>1
    <3> QED
      BY <3>1, <3>2
  <2>6. ASSUME NEW i \in 1..Len(hits') PROVE hits'[i] <= now
    <3>1. CASE i = n + 1
      BY <2>1, <2>2, <3>1
    <3>2. CASE i # n + 1
      <4>1. i \in 1..n
        BY <2>1, <2>2, <3>2
      <4> QED
        BY <2>1, <2>2, <2>3, <4>1
    <3> QED
      BY <3>1, <3>2
  <2>7. \A i \in 1..front : hits'[i] < now - Window
    BY SMTT(30), <1>6, <2>1, <2>2, <2>3 DEF AppendHit
  <2> QED
    BY <2>4, <2>5, <2>6, <2>7
<1>7. CASE Tick
  <2>1. now' = now + 1 /\ UNCHANGED <<hits, front, call>>
    BY <1>7 DEF Tick
  <2>2. Since(t)' >= Since(t) /\ Since(t) \in Nat /\ Since(t)' \in Nat
    BY <1>0, <2>1
  <2>3. \A i \in 1..Len(hits) : hits[i] <= Since(t)'
    BY <1>0, <2>2
  <2>4. \A i \in 1..front : hits[i] < Since(t)' - Window
    BY SMTT(30), <1>0, <2>2
  <2> QED
    BY <2>1, <2>3, <2>4
<1>8. CASE UNCHANGED vars
  BY <1>8 DEF vars
<1> QED
  BY <1>1, <1>2, <1>3, <1>4, <1>5, <1>6, <1>7, <1>8 DEF Next, Step

(* The operator reaches SlidingWindow through its own EXTENDS.              *)
LEMMA SameCardinality == ASSUME NEW S PROVE Promise!Cardinality(S) = Cardinality(S)
  BY Zenon DEF Promise!Cardinality, Cardinality

(* What the bucket holds when it is counted is what lies in the window.    *)
LEMMA BucketIsWindow ==
  ASSUME NEW t \in Thread, TypeOK, Alone(t), call[t].step \in {"count", "append"}
  PROVE  Cardinality(Promise!Recent(call[t].at)) = Len(hits) - front
<1>1. call[t].at \in 0..now /\ front \in 0..Len(hits) /\ Len(hits) \in Nat
  BY DEF TypeOK
<1>2. Promise!Recent(call[t].at) = front + 1 .. Len(hits)
  <2>1. ASSUME NEW i \in 1..Len(hits)
        PROVE  hits[i] >= call[t].at - Window <=> i \in front + 1 .. Len(hits)
    <3>1. hits[i] \in Nat
      BY DEF TypeOK
    <3>2. CASE i \in 1..front
      <4>1. hits[i] < call[t].at - Window
        BY <3>2 DEF Alone, Since
      <4> QED
        BY <1>1, <3>1, <3>2, <4>1, ArgumentsArePositive
    <3>3. CASE i \in front + 1 .. Len(hits)
      BY <3>3 DEF Alone, Bucket
    <3> QED
      BY <1>1, <3>2, <3>3
  <2> QED
    BY <1>1, <2>1 DEF Promise!Recent
<1>3. Cardinality(front + 1 .. Len(hits)) = IF front + 1 > Len(hits) THEN 0
                                            ELSE Len(hits) - (front + 1) + 1
  <2>1. front + 1 \in Int /\ Len(hits) \in Int
    BY <1>1
  <2> QED
    BY <2>1, FS_Interval
<1> QED
  BY <1>1, <1>2, <1>3

LEMMA StepIsPromised ==
  ASSUME NEW t \in Thread, Thread = {t}, TypeOK, Alone(t), [Next]_vars
  PROVE  [Promise!SWNext]_(Promise!swVars)
<1> USE DEF TypeOK, Idle
<1>1. CASE ReadClock(t)
  <2>1. Promise!Ask(t)
    BY <1>1 DEF ReadClock, Promise!Ask
  <2> QED
    BY <2>1 DEF Promise!SWNext
<1>2. CASE Test(t) \/ Pop(t)
  <2>1. UNCHANGED Promise!swVars
    BY <1>2 DEF Test, Pop, Promise!swVars
  <2> QED
    BY <2>1
<1>3. CASE PopEmpty(t)
  BY <1>3 DEF PopEmpty, Alone, HeadIsOld
<1>4. CASE Count(t)
  <2>1. CASE Len(hits) - front >= Limit
    <3>1. Cardinality(Promise!Recent(call[t].at)) >= Limit
      BY <1>4, <2>1, BucketIsWindow DEF Count
    <3>2. call[t].at # -1 /\ call' = [call EXCEPT ![t] = Idle]
      BY <1>4, <2>1 DEF Count
    <3>3. [s \in Thread |-> call'[s].at] = [[s \in Thread |-> call[s].at] EXCEPT ![t] = -1]
      BY <3>2
    <3>4. [s \in Thread |-> call[s].at][t] = call[t].at
      OBVIOUS
    <3>5. UNCHANGED <<now, hits>>
      BY <1>4 DEF Count
    <3>6. Promise!Refuse(t)
      BY <3>1, <3>2, <3>3, <3>4, <3>5, SameCardinality, Zenon DEF Promise!Refuse
    <3> QED
      BY <3>6 DEF Promise!SWNext
  <2>2. CASE ~(Len(hits) - front >= Limit)
    <3>1. UNCHANGED Promise!swVars
      BY <1>4, <2>2 DEF Count, Promise!swVars
    <3> QED
      BY <3>1
  <2> QED
    BY <2>1, <2>2
<1>5. CASE AppendHit(t)
  <2>1. Cardinality(Promise!Recent(call[t].at)) < Limit
    BY <1>5, BucketIsWindow DEF AppendHit, Alone
  <2>2. call[t].at # -1 /\ call' = [call EXCEPT ![t] = Idle]
    BY <1>5 DEF AppendHit
  <2>3. [s \in Thread |-> call'[s].at] = [[s \in Thread |-> call[s].at] EXCEPT ![t] = -1]
    BY <2>2
  <2>4. [s \in Thread |-> call[s].at][t] = call[t].at
    OBVIOUS
  <2>5. hits' = Append(hits, call[t].at) /\ UNCHANGED now
    BY <1>5 DEF AppendHit
  <2>6. Promise!Admit(t)
    BY <2>1, <2>2, <2>3, <2>4, <2>5, SameCardinality, Zenon DEF Promise!Admit
  <2> QED
    BY <2>6 DEF Promise!SWNext
<1>6. CASE Tick
  <2>1. Promise!Pass
    BY <1>6 DEF Tick, Promise!Pass
  <2> QED
    BY <2>1 DEF Promise!SWNext
<1>7. CASE UNCHANGED vars
  BY <1>7 DEF vars, Promise!swVars
<1> QED
  BY <1>1, <1>2, <1>3, <1>4, <1>5, <1>6, <1>7 DEF Next, Step

(* One call at a time, the trimmed deque answers as if every admission     *)
(* within the window had been counted (allow).  The fairness part of       *)
(* ImplementsSlidingWindow is left to TLC.                                 *)
THEOREM LimiterImplements ==
  ASSUME NEW t \in Thread, Thread = {t}
  PROVE  Spec => Promise!SWInit /\ [][Promise!SWNext]_(Promise!swVars)
<1>1. Init => Alone(t)
  BY AloneInit
<1>2. TypeOK /\ Alone(t) /\ [Next]_vars => Alone(t)'
  BY AloneNext
<1>3. TypeOK /\ Alone(t) /\ [Next]_vars => [Promise!SWNext]_(Promise!swVars)
  BY StepIsPromised
<1>4. Init => Promise!SWInit
  BY DEF Init, Idle, Promise!SWInit
<1> QED
  BY <1>1, <1>2, <1>3, <1>4, LimiterTypeCorrect, PTL DEF Spec

=============================================================================
