------------------------ MODULE WebhookSenderProofs ------------------------
(***************************************************************************)
(* Proofs about the safety of WebhookSender, for any number of concurrent  *)
(* sends, any thresholds, any capacity and any number of attempts.  That   *)
(* every send ends is a liveness property and is left to TLC.              *)
(***************************************************************************)
EXTENDS WebhookSender, SequenceTheorems, TLAPS

USE BreakerAssumption, SenderAssumption

-----------------------------------------------------------------------------
\* The breaker's operations keep its counts below the thresholds.
GoodBreaker(cb) ==
    cb \in Breaker /\ cb.failures < FailureThreshold /\ cb.successes < SuccessThreshold

LEMMA Zero ==
  /\ 0 \in Nat /\ 0 \in 0..Timeout
  /\ 0 < FailureThreshold /\ 0 < SuccessThreshold
  OBVIOUS

LEMMA ResetGood ==
  /\ GoodBreaker(NewBreaker) /\ GoodBreaker(HalfOpened)
  /\ GoodBreaker([NewBreaker EXCEPT !.state = "open"])
  BY Zero DEF GoodBreaker, NewBreaker, HalfOpened, Breaker

LEMMA AfterSuccessGood == ASSUME NEW cb, GoodBreaker(cb) PROVE GoodBreaker(AfterSuccess(cb))
<1>1. CASE cb.state = "open"
  BY <1>1 DEF AfterSuccess, GoodBreaker, Breaker
<1>2. CASE cb.state = "closed"
  <2>1. AfterSuccess(cb) = [cb EXCEPT !.failures = 0]
    BY <1>2 DEF AfterSuccess
  <2> QED
    BY <2>1 DEF GoodBreaker, Breaker
<1>3. CASE cb.state = "halfOpen" /\ cb.successes + 1 >= SuccessThreshold
  <2>1. AfterSuccess(cb) = NewBreaker
    BY <1>3 DEF AfterSuccess, GoodBreaker, Breaker
  <2> QED
    BY <2>1, ResetGood
<1>4. CASE cb.state = "halfOpen" /\ cb.successes + 1 < SuccessThreshold
  <2>1. AfterSuccess(cb) = [cb EXCEPT !.successes = @ + 1]
    BY <1>4 DEF AfterSuccess, GoodBreaker, Breaker
  <2> QED
    BY <1>4, <2>1 DEF GoodBreaker, Breaker
<1> QED
  BY <1>1, <1>2, <1>3, <1>4 DEF GoodBreaker, Breaker

LEMMA AfterFailureGood == ASSUME NEW cb, GoodBreaker(cb) PROVE GoodBreaker(AfterFailure(cb))
<1>1. CASE cb.state = "open"
  BY <1>1 DEF AfterFailure, GoodBreaker, Breaker
<1>2. CASE cb.state = "halfOpen"
  BY <1>2, ResetGood DEF AfterFailure
<1>3. CASE cb.state = "closed" /\ cb.failures + 1 >= FailureThreshold
  <2>1. AfterFailure(cb) = [cb EXCEPT !.state = "open", !.failures = 0, !.age = 0]
    BY <1>3 DEF AfterFailure, GoodBreaker, Breaker
  <2> QED
    BY <2>1, Zero DEF GoodBreaker, Breaker
<1>4. CASE cb.state = "closed" /\ cb.failures + 1 < FailureThreshold
  <2>1. AfterFailure(cb) = [cb EXCEPT !.failures = @ + 1]
    BY <1>4 DEF AfterFailure, GoodBreaker, Breaker
  <2> QED
    BY <1>4, <2>1 DEF GoodBreaker, Breaker
<1> QED
  BY <1>1, <1>2, <1>3, <1>4 DEF GoodBreaker, Breaker

LEMMA OlderGood == ASSUME NEW cb, GoodBreaker(cb) PROVE GoodBreaker(Older(cb))
  BY DEF GoodBreaker, Older, Breaker

-----------------------------------------------------------------------------
LEMMA Moves ==
  ASSUME TypeOK, NEW r \in Request, NEW l \in Labels, Goto(r, l)
  PROVE  /\ pc' \in [Request -> Labels] /\ pc'[r] = l
         /\ \A q \in Request \ {r} : pc'[q] = pc[q]
  BY DEF TypeOK, Goto

LEMMA AllLabels ==
  {"idle", "limit", "gate", "build", "execute", "upgrade", "attempt", "backoff",
   "recordSuccess", "recordFailure", "success", "failure"} \subseteq Labels
  BY DEF Labels

LEMMA Counting ==
  ASSUME TypeOK, NEW r \in Request, NEW metric, Count(r, metric)
  PROVE  DOMAIN tally' = Request
  BY DEF TypeOK, Count

\* A send waits only when it has an attempt left.
AttemptLeft == \A r \in Request : pc[r] = "backoff" => attempt[r] < MaxAttempts

LEMMA AttemptLeftStep ==
  ASSUME TypeOK, AttemptLeft, [Next]_vars PROVE AttemptLeft'
<1>1. ASSUME NEW r \in Request, SendAsync(r) \/ Step(r) PROVE AttemptLeft'
  <2>1. \A q \in Request \ {r} : pc'[q] = pc[q] /\ attempt'[q] = attempt[q]
    BY <1>1 DEF SendAsync, Step, Goto, TypeOK, Allow, Gate, Build, Execute, Upgrade, Try, Backoff,
       RecordSuccess, RecordFailure, Finish
  <2>2. pc'[r] = "backoff" => attempt'[r] < MaxAttempts
    BY <1>1 DEF SendAsync, Step, Goto, TypeOK, Allow, Gate, Build, Execute, Upgrade, Try, Backoff,
       RecordSuccess, RecordFailure, Finish
  <2> QED
    BY <2>1, <2>2 DEF AttemptLeft
<1>2. CASE ShutDown \/ AllDone \/ GiveUp \/ Tick \/ UNCHANGED vars
  BY <1>2 DEF ShutDown, AllDone, GiveUp, Tick, vars, AttemptLeft
<1> QED
  BY <1>1, <1>2 DEF Next

LEMMA TypesHold == Spec => [](TypeOK /\ AttemptLeft)
<1>0. Init => AttemptLeft
  BY DEF Init, AttemptLeft
<1>1. Init => TypeOK
  <2> SUFFICES ASSUME Init PROVE TypeOK
    OBVIOUS
  <2>1. GoodBreaker(breaker)
    BY ResetGood DEF Init
  <2>2. pc \in [Request -> Labels]
    BY AllLabels DEF Init
  <2>3. attempt \in [Request -> 0..MaxAttempts]
    BY DEF Init
  <2> QED
    <3>1. breaker \in Breaker
             /\ breaker.failures < FailureThreshold /\ breaker.successes < SuccessThreshold
      BY <2>1 DEF GoodBreaker
    <3>2. tokens \in 0..Capacity /\ phase \in {"running", "waiting", "over"}
      BY DEF Init
    <3>4. cancelled \in BOOLEAN /\ DOMAIN tally = Request
      BY DEF Init
    <3>3. failStreak \in 0..FailureThreshold /\ okStreak \in 0..SuccessThreshold
      BY DEF Init
    <3> QED
      BY <2>2, <2>3, <3>1, <3>2, <3>3, <3>4 DEF TypeOK
<1>2. TypeOK /\ AttemptLeft /\ [Next]_vars => TypeOK'
  <2> SUFFICES ASSUME TypeOK, AttemptLeft, [Next]_vars PROVE TypeOK'
    OBVIOUS
  <2>1. ASSUME NEW r \in Request, SendAsync(r) PROVE TypeOK'
    BY <2>1, Moves, AllLabels DEF SendAsync, TypeOK
  <2>2. ASSUME NEW r \in Request, Allow(r) PROVE TypeOK'
    <3>1. pc' \in [Request -> Labels] /\ DOMAIN tally' = Request
      BY <2>2, Moves, AllLabels, Counting DEF Allow, TypeOK
    <3> QED
      BY <2>2, <3>1 DEF Allow, TypeOK
  <2>3. ASSUME NEW r \in Request, Gate(r) PROVE TypeOK'
    <3>1. pc' \in [Request -> Labels] /\ DOMAIN tally' = Request
      BY <2>3, Moves, AllLabels, Counting DEF Gate
    <3> QED
      BY <2>3, <3>1 DEF Gate, TypeOK
  <2>4. ASSUME NEW r \in Request, Build(r) PROVE TypeOK'
    BY <2>4, Moves, AllLabels DEF Build, TypeOK
  <2>5. ASSUME NEW r \in Request, Execute(r) PROVE TypeOK'
    <3>1. pc' \in [Request -> Labels]
      BY <2>5, Moves, AllLabels DEF Execute
    <3>2. attempt' \in [Request -> 0..MaxAttempts]
      BY <2>5 DEF Execute, TypeOK
    <3> QED
      BY <2>5, <3>1, <3>2 DEF Execute, TypeOK
  <2>6. ASSUME NEW r \in Request, Upgrade(r) PROVE TypeOK'
    <3>1. pc' \in [Request -> Labels]
      BY <2>6, Moves, AllLabels DEF Upgrade
    <3>2. GoodBreaker(breaker) => GoodBreaker(breaker')
      BY <2>6, ResetGood DEF Upgrade
    <3> QED
      BY <2>6, <3>1, <3>2 DEF Upgrade, TypeOK, GoodBreaker
  <2>7. ASSUME NEW r \in Request, Try(r) PROVE TypeOK'
    BY <2>7, Moves, AllLabels DEF Try, TypeOK
  <2>8. ASSUME NEW r \in Request, Backoff(r) PROVE TypeOK'
    <3>1. pc' \in [Request -> Labels]
      BY <2>8, Moves, AllLabels DEF Backoff
    <3>2. attempt[r] \in 0..MaxAttempts /\ attempt[r] < MaxAttempts
      BY <2>8 DEF Backoff, AttemptLeft, TypeOK
    <3>3. attempt' \in [Request -> 0..MaxAttempts]
      BY <2>8, <3>2 DEF Backoff, TypeOK
    <3> QED
      BY <2>8, <3>1, <3>3 DEF Backoff, TypeOK
  <2>9. ASSUME NEW r \in Request, RecordSuccess(r) PROVE TypeOK'
    <3>1. pc' \in [Request -> Labels]
      BY <2>9, Moves, AllLabels DEF RecordSuccess
    <3>2. GoodBreaker(breaker')
      BY <2>9, AfterSuccessGood DEF RecordSuccess, TypeOK, GoodBreaker
    <3> QED
      BY <2>9, <3>1, <3>2 DEF RecordSuccess, TypeOK, GoodBreaker
  <2>10. ASSUME NEW r \in Request, RecordFailure(r) PROVE TypeOK'
    <3>1. pc' \in [Request -> Labels]
      BY <2>10, Moves, AllLabels DEF RecordFailure
    <3>2. GoodBreaker(breaker')
      BY <2>10, AfterFailureGood DEF RecordFailure, TypeOK, GoodBreaker
    <3> QED
      BY <2>10, <3>1, <3>2 DEF RecordFailure, TypeOK, GoodBreaker
  <2>11. ASSUME NEW r \in Request, Finish(r) PROVE TypeOK'
    <3>1. pc' \in [Request -> Labels] /\ DOMAIN tally' = Request
      BY <2>11, Moves, AllLabels, Counting DEF Finish
    <3>2. attempt' \in [Request -> 0..MaxAttempts]
      BY <2>11 DEF Finish, TypeOK
    <3> QED
      BY <2>11, <3>1, <3>2 DEF Finish, TypeOK
  <2>12. CASE ShutDown \/ AllDone \/ GiveUp
    BY <2>12 DEF ShutDown, AllDone, GiveUp, TypeOK
  <2>13. CASE Tick
    <3>1. GoodBreaker(breaker')
      BY <2>13, OlderGood DEF Tick, TypeOK, GoodBreaker
    <3>2. tokens' \in 0..Capacity
      BY <2>13 DEF Tick, TypeOK
    <3> QED
      BY <2>13, <3>1, <3>2 DEF Tick, TypeOK, GoodBreaker
  <2>14. CASE UNCHANGED vars
    BY <2>14 DEF vars, TypeOK
  <2> QED
    BY <2>1, <2>2, <2>3, <2>4, <2>5, <2>6, <2>7, <2>8, <2>9, <2>10, <2>11, <2>12, <2>13,
       <2>14 DEF Next, Step
<1> QED
  BY <1>0, <1>1, <1>2, AttemptLeftStep, PTL DEF Spec

\* Type correctness: no more than MaxAttempts attempts, no more tokens than the
\* capacity, and the breaker's counts stay below its thresholds.
THEOREM TypeCorrect == Spec => []TypeOK
  BY TypesHold, PTL

-----------------------------------------------------------------------------
\* The metrics recorded so far, at every point of a send.
CountInv ==
    \A r \in Request :
        /\ pc[r] \in {"limit", "gate"} => tally[r] = <<>>
        /\ pc[r] \notin {"idle", "limit", "gate"} => tally[r] = <<"request">>
        /\ pc[r] = "idle" =>
              tally[r] \in {<<>>, <<"rateLimited">>, <<"circuitOpen">>,
                            <<"request", "success">>, <<"request", "failure">>}

LEMMA AppendToOne ==
  ASSUME NEW x, NEW y PROVE Append(<<x>>, y) = <<x, y>>
<1> DEFINE s == Append(<<x>>, y)
<1>1. <<x>> \in Seq({x, y}) /\ <<x, y>> \in Seq({x, y}) /\ Len(<<x>>) = 1 /\ <<x>>[1] = x
  OBVIOUS
<1>2. s \in Seq({x, y}) /\ Len(s) = 2 /\ s[1] = x /\ s[2] = y
  BY <1>1, AppendProperties
<1>3. Len(<<x, y>>) = 2 /\ <<x, y>>[1] = x /\ <<x, y>>[2] = y
  OBVIOUS
<1>4. Len(s) = Len(<<x, y>>) /\ \A i \in 1..Len(s) : s[i] = <<x, y>>[i]
  BY <1>2, <1>3
<1> QED
  BY <1>1, <1>2, <1>4, SeqEqual

LEMMA CountInvStep ==
  ASSUME TypeOK, CountInv, [Next]_vars PROVE CountInv'
<1> DEFINE Counted(q) ==
      /\ pc[q] \in {"limit", "gate"} => tally[q] = <<>>
      /\ pc[q] \notin {"idle", "limit", "gate"} => tally[q] = <<"request">>
      /\ pc[q] = "idle" =>
            tally[q] \in {<<>>, <<"rateLimited">>, <<"circuitOpen">>,
                          <<"request", "success">>, <<"request", "failure">>}
<1>1. ASSUME NEW r \in Request, SendAsync(r) \/ Step(r) PROVE CountInv'
  <2> USE DEF Goto, Count, TypeOK
  <2>1. \A q \in Request \ {r} : pc'[q] = pc[q] /\ tally'[q] = tally[q]
    BY <1>1 DEF SendAsync, Step, Allow, Gate, Build, Execute, Upgrade, Try, Backoff,
       RecordSuccess, RecordFailure, Finish
  <2>2. Counted(r)
    BY DEF CountInv
  <2>3. CASE SendAsync(r)
    <3>1. Counted(r)'
      BY <2>3 DEF SendAsync
    <3> QED
      BY <2>1, <3>1 DEF CountInv
  <2>4. CASE Allow(r)
    <3>1. Append(<<>>, "rateLimited") = <<"rateLimited">>
      OBVIOUS
    <3>2. Counted(r)'
      BY <2>2, <2>4, <3>1 DEF Allow
    <3> QED
      BY <2>1, <3>2 DEF CountInv
  <2>5. CASE Gate(r)
    <3>1. Append(<<>>, "circuitOpen") = <<"circuitOpen">> /\ Append(<<>>, "request") = <<"request">>
      OBVIOUS
    <3>2. Counted(r)'
      BY <2>2, <2>5, <3>1 DEF Gate
    <3> QED
      BY <2>1, <3>2 DEF CountInv
  <2>6. CASE Finish(r)
    <3>1. /\ Append(<<"request">>, "success") = <<"request", "success">>
          /\ Append(<<"request">>, "failure") = <<"request", "failure">>
      BY AppendToOne
    <3>2. Counted(r)'
      BY <2>2, <2>6, <3>1 DEF Finish
    <3> QED
      BY <2>1, <3>2 DEF CountInv
  <2>7. CASE \/ Build(r) \/ Execute(r) \/ Upgrade(r) \/ Try(r) \/ Backoff(r)
             \/ RecordSuccess(r) \/ RecordFailure(r)
    <3>1. tally' = tally /\ pc[r] \notin {"idle", "limit", "gate"}
            /\ pc'[r] \notin {"idle", "limit", "gate"}
      BY <2>7 DEF Build, Execute, Upgrade, Try, Backoff, RecordSuccess, RecordFailure
    <3>2. Counted(r)'
      BY <2>2, <3>1
    <3> QED
      BY <2>1, <3>2 DEF CountInv
  <2> QED
    BY <1>1, <2>3, <2>4, <2>5, <2>6, <2>7 DEF Step
<1>2. CASE ShutDown \/ AllDone \/ GiveUp \/ Tick \/ UNCHANGED vars
  BY <1>2 DEF ShutDown, AllDone, GiveUp, Tick, vars, CountInv
<1> QED
  BY <1>1, <1>2 DEF Next

\* Whatever path a send takes through limiter, breaker, retries and cancellation, its
\* outcome is counted once.
THEOREM OutcomeCountedOnce == Spec => []CountedOnce
<1>1. Init => CountInv
  BY DEF Init, CountInv
<1>2. CountInv => CountedOnce
  BY DEF CountInv, CountedOnce
<1> QED
  BY <1>1, <1>2, CountInvStep, TypeCorrect, PTL DEF Spec

-----------------------------------------------------------------------------
\* The breaker's own counts never run ahead of the outcomes recorded in a row.
StreakInv ==
    /\ breaker.state = "closed" => breaker.failures <= failStreak
    /\ breaker.state = "halfOpen" => breaker.successes <= okStreak

Earned ==
    /\ breaker.state = "closed" /\ breaker'.state = "open" => failStreak' = FailureThreshold
    /\ breaker.state = "halfOpen" /\ breaker'.state = "closed" => okStreak' = SuccessThreshold
    /\ breaker'.state = "halfOpen" =>
          \/ TimedOut(breaker)
          \/ breaker.state = "halfOpen" /\ breaker'.successes >= breaker.successes

LEMMA StreakStep ==
  ASSUME TypeOK, StreakInv, [Next]_vars PROVE StreakInv' /\ Earned
<1>0. breaker \in Breaker /\ failStreak \in 0..FailureThreshold /\ okStreak \in 0..SuccessThreshold
  BY DEF TypeOK
<1>1. ASSUME NEW r \in Request, RecordSuccess(r) PROVE StreakInv' /\ Earned
  <2>1. breaker' = AfterSuccess(breaker) /\ failStreak' = 0
          /\ okStreak' = IF okStreak < SuccessThreshold THEN okStreak + 1 ELSE okStreak
    BY <1>1 DEF RecordSuccess
  <2>2. CASE breaker.state = "open"
    BY <1>0, <2>1, <2>2 DEF AfterSuccess, StreakInv, Earned, Breaker
  <2>3. CASE breaker.state = "closed"
    <3>1. breaker' = [breaker EXCEPT !.failures = 0]
      BY <2>1, <2>3 DEF AfterSuccess
    <3> QED
      BY <1>0, <2>1, <2>3, <3>1 DEF StreakInv, Earned, Breaker
  <2>4. CASE breaker.state = "halfOpen" /\ breaker.successes + 1 >= SuccessThreshold
    <3>1. breaker' = NewBreaker
      BY <1>0, <2>1, <2>4 DEF AfterSuccess, Breaker
    <3> QED
      BY <1>0, <2>1, <2>4, <3>1 DEF StreakInv, Earned, Breaker, NewBreaker
  <2>5. CASE breaker.state = "halfOpen" /\ breaker.successes + 1 < SuccessThreshold
    <3>1. breaker' = [breaker EXCEPT !.successes = @ + 1]
      BY <1>0, <2>1, <2>5 DEF AfterSuccess, Breaker
    <3> QED
      BY <1>0, <2>1, <2>5, <3>1 DEF StreakInv, Earned, Breaker
  <2> QED
    BY <1>0, <2>2, <2>3, <2>4, <2>5 DEF Breaker
<1>2. ASSUME NEW r \in Request, RecordFailure(r) PROVE StreakInv' /\ Earned
  <2>1. breaker' = AfterFailure(breaker) /\ okStreak' = 0
          /\ failStreak' = IF failStreak < FailureThreshold THEN failStreak + 1 ELSE failStreak
    BY <1>2 DEF RecordFailure
  <2>2. CASE breaker.state = "open"
    BY <1>0, <2>1, <2>2 DEF AfterFailure, StreakInv, Earned, Breaker
  <2>3. CASE breaker.state = "halfOpen"
    <3>1. breaker'.state = "open"
      BY <2>1, <2>3 DEF AfterFailure, NewBreaker
    <3> QED
      BY <2>3, <3>1 DEF StreakInv, Earned
  <2>4. CASE breaker.state = "closed" /\ breaker.failures + 1 >= FailureThreshold
    <3>1. breaker'.state = "open"
      BY <1>0, <2>1, <2>4 DEF AfterFailure, Breaker
    <3> QED
      BY <1>0, <2>1, <2>4, <3>1 DEF StreakInv, Earned, Breaker
  <2>5. CASE breaker.state = "closed" /\ breaker.failures + 1 < FailureThreshold
    <3>1. breaker' = [breaker EXCEPT !.failures = @ + 1]
      BY <1>0, <2>1, <2>5 DEF AfterFailure, Breaker
    <3> QED
      BY <1>0, <2>1, <2>5, <3>1 DEF StreakInv, Earned, Breaker
  <2> QED
    BY <1>0, <2>2, <2>3, <2>4, <2>5 DEF Breaker
<1>3. ASSUME NEW r \in Request, Upgrade(r) PROVE StreakInv' /\ Earned
  <2>1. CASE TimedOut(breaker)
    <3>1. breaker.state = "open" /\ breaker' = HalfOpened /\ okStreak' = 0
      BY <1>3, <2>1 DEF Upgrade, TimedOut
    <3> QED
      BY <2>1, <3>1 DEF StreakInv, Earned, HalfOpened, NewBreaker
  <2>2. CASE ~TimedOut(breaker)
    BY <1>0, <1>3, <2>2 DEF Upgrade, StreakInv, Earned, Breaker
  <2> QED
    BY <2>1, <2>2
<1>4. ASSUME NEW r \in Request,
             \/ SendAsync(r) \/ Allow(r) \/ Gate(r) \/ Build(r) \/ Execute(r) \/ Try(r)
             \/ Backoff(r) \/ Finish(r)
      PROVE  StreakInv' /\ Earned
  <2>1. UNCHANGED <<breaker, failStreak, okStreak>>
    BY <1>4 DEF SendAsync, Allow, Gate, Build, Execute, Try, Backoff, Finish
  <2> QED
    BY <1>0, <2>1 DEF StreakInv, Earned, Breaker
<1>5. CASE Tick
  <2>1. /\ breaker'.state = breaker.state /\ breaker'.failures = breaker.failures
        /\ breaker'.successes = breaker.successes
        /\ failStreak' = failStreak /\ okStreak' = okStreak
    BY <1>0, <1>5 DEF Tick, Older, Breaker
  <2> QED
    BY <1>0, <2>1 DEF StreakInv, Earned, Breaker
<1>6. CASE ShutDown \/ AllDone \/ GiveUp \/ UNCHANGED vars
  BY <1>0, <1>6 DEF ShutDown, AllDone, GiveUp, vars, StreakInv, Earned, Breaker
<1> QED
  BY <1>1, <1>2, <1>3, <1>4, <1>5, <1>6 DEF Next, Step

\* However the outcomes of concurrent sends meet the breaker's transitions, it opens
\* only on FailureThreshold failures in a row, closes only on SuccessThreshold successes
\* in a row, and is half-opened once for each time it was open.
THEOREM BreakerTransitionsEarned == Spec => TransitionsEarned
<1>1. Init => StreakInv
  BY DEF Init, StreakInv, NewBreaker
<1>2. TypeOK /\ StreakInv /\ [Next]_vars => StreakInv' /\ [Earned]_vars
  BY StreakStep
<1> QED
  BY <1>1, <1>2, TypeCorrect, PTL DEF Spec, TransitionsEarned, Earned
=============================================================================
