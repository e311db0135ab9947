--------------------------- MODULE WebhookSender ---------------------------
(***************************************************************************)
(* The webhook Sender: asynchronous sends that pass the rate limiter and   *)
(* the circuit breaker, retry, record their outcome in breaker and metrics, *)
(* and the Shutdown that waits for them.  A step is one critical section   *)
(* or one HTTP attempt of a send.                                          *)
(***************************************************************************)
EXTENDS CircuitBreaker, Sequences

CONSTANTS
    Request,      \* goroutines, each running one send at a time
    Capacity,     \* tokens of the rate limiter
    MaxAttempts,  \* attempts of the retryer
    MayShutDown   \* whether Shutdown is ever called

ASSUME SenderAssumption ==
    /\ Capacity \in Nat /\ MaxAttempts \in Nat \ {0}
    /\ MayShutDown \in BOOLEAN

VARIABLES
    breaker,    \* the circuit breaker
    tokens,     \* whole tokens in the rate limiter
    pc,         \* where each send is
    attempt,    \* the attempt it is in
    phase,      \* "running", "waiting" in Shutdown, or "over"
    cancelled,  \* the sender's context has been cancelled
    tally,      \* history: the metrics recorded for the current or last send
    failStreak, \* history: failures recorded in a row, up to FailureThreshold
    okStreak    \* history: successes recorded in a row since half-open, up to SuccessThreshold

vars == <<breaker, tokens, pc, attempt, phase, cancelled, tally, failStreak, okStreak>>

Goto(r, label) == pc' = [pc EXCEPT ![r] = label]
Count(r, metric) == tally' = [tally EXCEPT ![r] = Append(@, metric)]
Idle == \A r \in Request : pc[r] = "idle"

Init ==
    /\ breaker = NewBreaker
    /\ tokens = Capacity
    /\ pc = [r \in Request |-> "idle"]
    /\ attempt = [r \in Request |-> 0]
    /\ phase = "running" /\ cancelled = FALSE
    /\ tally = [r \in Request |-> <<>>]
    /\ failStreak = 0 /\ okStreak = 0

-----------------------------------------------------------------------------
\* SendAsyncWithContext: the send joins the wait group.
SendAsync(r) ==
    /\ phase = "running" /\ pc[r] = "idle"
    /\ Goto(r, "limit")
    /\ tally' = [tally EXCEPT ![r] = <<>>]
    /\ UNCHANGED <<breaker, tokens, attempt, phase, cancelled, failStreak, okStreak>>

Allow(r) ==
    /\ pc[r] = "limit"
    /\ \/ /\ tokens > 0
          /\ tokens' = tokens - 1 /\ Goto(r, "gate") /\ UNCHANGED tally
       \/ /\ tokens = 0
          /\ Count(r, "rateLimited") /\ Goto(r, "idle") /\ UNCHANGED tokens
    /\ UNCHANGED <<breaker, attempt, phase, cancelled, failStreak, okStreak>>

MutantGate(r) ==
    /\ pc[r] = "gate"
    /\ Count(r, "request")
    /\ Goto(r, IF breaker.state = "open" THEN "idle" ELSE "build")
    /\ UNCHANGED <<breaker, tokens, attempt, phase, cancelled, failStreak, okStreak>>

\* The sender's own check reads the state and never the timeout (GetState).
Gate(r) ==
    /\ pc[r] = "gate"
    /\ \/ /\ breaker.state = "open"
          /\ Count(r, "circuitOpen") /\ Goto(r, "idle")
       \/ /\ breaker.state # "open"
          /\ Count(r, "request") /\ Goto(r, "build")
    /\ UNCHANGED <<breaker, tokens, attempt, phase, cancelled, failStreak, okStreak>>

\* The payload cannot be built or the URL is invalid, or the request is ready.
Build(r) ==
    /\ pc[r] = "build"
    /\ Goto(r, "failure") \/ Goto(r, "execute")
    /\ UNCHANGED <<breaker, tokens, attempt, phase, cancelled, tally, failStreak, okStreak>>

\* Execute: getState under the read lock.
Execute(r) ==
    /\ pc[r] = "execute"
    /\ \/ breaker.state # "open" /\ Goto(r, "attempt")
       \/ TimedOut(breaker) /\ Goto(r, "upgrade")
       \/ breaker.state = "open" /\ ~TimedOut(breaker) /\ Goto(r, "failure")
    /\ attempt' = [attempt EXCEPT ![r] = 1]
    /\ UNCHANGED <<breaker, tokens, phase, cancelled, tally, failStreak, okStreak>>

\* getState under the write lock: a send that finds the transition already made
\* still goes by the state it read before.
Upgrade(r) ==
    /\ pc[r] = "upgrade"
    /\ \/ /\ TimedOut(breaker)
          /\ breaker' = HalfOpened
          /\ okStreak' = 0
          /\ Goto(r, "attempt")
       \/ /\ ~TimedOut(breaker)
          /\ Goto(r, "failure")
          /\ UNCHANGED <<breaker, okStreak>>
    /\ UNCHANGED <<tokens, attempt, phase, cancelled, tally, failStreak>>

\* One HTTP request: it succeeds, fails for good, or fails in a way worth a retry.
\* A cancelled context fails it and ends the retries.
Try(r) ==
    /\ pc[r] = "attempt"
    /\ \/ ~cancelled /\ Goto(r, "recordSuccess")
       \/ Goto(r, "recordFailure")
       \/ ~cancelled /\ attempt[r] < MaxAttempts /\ Goto(r, "backoff")
    /\ UNCHANGED <<breaker, tokens, attempt, phase, cancelled, tally, failStreak, okStreak>>

MutantBackoff(r) ==
    /\ pc[r] = "backoff"
    /\ Goto(r, IF cancelled THEN "recordFailure" ELSE "attempt")
    /\ UNCHANGED <<breaker, tokens, attempt, phase, cancelled, tally, failStreak, okStreak>>

\* The wait before the next attempt; a cancelled context may end it.
Backoff(r) ==
    /\ pc[r] = "backoff"
    /\ \/ Goto(r, "attempt") /\ attempt' = [attempt EXCEPT ![r] = @ + 1]
       \/ cancelled /\ Goto(r, "recordFailure") /\ UNCHANGED attempt
    /\ UNCHANGED <<breaker, tokens, phase, cancelled, tally, failStreak, okStreak>>

RecordSuccess(r) ==
    /\ pc[r] = "recordSuccess"
    /\ breaker' = AfterSuccess(breaker)
    /\ failStreak' = 0
    /\ okStreak' = IF okStreak < SuccessThreshold THEN okStreak + 1 ELSE okStreak
    /\ Goto(r, "success")
    /\ UNCHANGED <<tokens, attempt, phase, cancelled, tally>>

RecordFailure(r) ==
    /\ pc[r] = "recordFailure"
    /\ breaker' = AfterFailure(breaker)
    /\ failStreak' = IF failStreak < FailureThreshold THEN failStreak + 1 ELSE failStreak
    /\ okStreak' = 0
    /\ Goto(r, "failure")
    /\ UNCHANGED <<tokens, attempt, phase, cancelled, tally>>

\* The outcome is counted and the send leaves the wait group.
Finish(r) ==
    /\ pc[r] \in {"success", "failure"}
    /\ Count(r, pc[r])
    /\ Goto(r, "idle")
    /\ attempt' = [attempt EXCEPT ![r] = 0]
    /\ UNCHANGED <<breaker, tokens, phase, cancelled, failStreak, okStreak>>

-----------------------------------------------------------------------------
\* The hook handler's deferred Shutdown: no send is started after it.
ShutDown ==
    /\ MayShutDown /\ phase = "running"
    /\ phase' = "waiting"
    /\ UNCHANGED <<breaker, tokens, pc, attempt, cancelled, tally, failStreak, okStreak>>

AllDone ==
    /\ phase = "waiting" /\ Idle
    /\ phase' = "over" /\ cancelled' = TRUE
    /\ UNCHANGED <<breaker, tokens, pc, attempt, tally, failStreak, okStreak>>

\* The timeout of Shutdown cancels what is still in flight.
GiveUp ==
    /\ phase = "waiting" /\ ~Idle
    /\ cancelled' = TRUE
    /\ phase' = "over"
    /\ UNCHANGED <<breaker, tokens, pc, attempt, tally, failStreak, okStreak>>

\* Time passes for the breaker, and a token is due.
Tick ==
    /\ breaker' = Older(breaker)
    /\ tokens' = IF tokens < Capacity THEN tokens + 1 ELSE tokens
    /\ UNCHANGED <<pc, attempt, phase, cancelled, tally, failStreak, okStreak>>

Step(r) ==
    \/ Allow(r) \/ Gate(r) \/ Build(r) \/ Execute(r) \/ Upgrade(r) \/ Try(r) \/ Backoff(r)
    \/ RecordSuccess(r) \/ RecordFailure(r) \/ Finish(r)

Next ==
    \/ \E r \in Request : SendAsync(r) \/ Step(r)
    \/ ShutDown \/ AllDone \/ GiveUp \/ Tick

\* A started send goes on, time passes, hooks keep sending as long as the sender
\* takes sends, and Shutdown does not wait forever.
Fairness ==
    /\ \A r \in Request : WF_vars(Step(r)) /\ WF_vars(SendAsync(r))
    /\ WF_vars(Tick) /\ WF_vars(AllDone) /\ WF_vars(GiveUp)

Spec == Init /\ [][Next]_vars /\ Fairness

-----------------------------------------------------------------------------
Labels == {"idle", "limit", "gate", "build", "execute", "upgrade", "attempt", "backoff",
           "recordSuccess", "recordFailure", "success", "failure"}

\* Types; the counts of the breaker stay below their thresholds.
TypeOK ==
    /\ breaker \in Breaker
    /\ breaker.failures < FailureThreshold /\ breaker.successes < SuccessThreshold
    /\ tokens \in 0..Capacity
    /\ pc \in [Request -> Labels] /\ attempt \in [Request -> 0..MaxAttempts]
    /\ phase \in {"running", "waiting", "over"} /\ cancelled \in BOOLEAN
    /\ DOMAIN tally = Request
    /\ failStreak \in 0..FailureThreshold /\ okStreak \in 0..SuccessThreshold

\* A send that has ended was counted once: refused by the limiter, refused by the
\* breaker, or as a request and its outcome.
CountedOnce ==
    \A r \in Request : pc[r] = "idle" =>
        tally[r] \in {<<>>, <<"rateLimited">>, <<"circuitOpen">>,
                      <<"request", "success">>, <<"request", "failure">>}

\* A closed breaker opens only on a run of failures no success interrupted, a half-open
\* one closes only on a run of successes no failure interrupted, and only an open one
\* past its timeout becomes half-open: of sends that find it timed out together, the
\* later neither undoes what came of the first's attempt nor discards a success.
TransitionsEarned ==
    [][/\ breaker.state = "closed" /\ breaker'.state = "open" => failStreak' = FailureThreshold
       /\ breaker.state = "halfOpen" /\ breaker'.state = "closed" => okStreak' = SuccessThreshold
       /\ breaker'.state = "halfOpen" =>
             \/ TimedOut(breaker)
             \/ breaker.state = "halfOpen" /\ breaker'.successes >= breaker.successes
      ]_vars

\* A send that has been started ends, through all retries and whatever Shutdown does.
SendsEnd == \A r \in Request : pc[r] # "idle" ~> pc[r] = "idle"

\* An open breaker is tried again once its timeout has passed.
BreakerRecovers == breaker.state = "open" ~> breaker.state = "halfOpen"

=============================================================================
