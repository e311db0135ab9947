--------------------------- MODULE CircuitBreaker ---------------------------
(***************************************************************************)
(* The circuit breaker of internal/webhook as a value and the operations   *)
(* that change it under its mutex.  Time enters as the age of the current  *)
(* state, which stops at Timeout: nothing distinguishes greater ages.      *)
(* Definitions named Mutant... are faulty variants used to show that a     *)
(* property can fail.                                                      *)
(***************************************************************************)
EXTENDS Naturals

CONSTANTS
    FailureThreshold,  \* failures in a row that open a closed breaker
    SuccessThreshold,  \* successes that close a half-open breaker
    Timeout            \* age from which an open breaker may be tried again

ASSUME BreakerAssumption ==
    /\ FailureThreshold \in Nat \ {0}
    /\ SuccessThreshold \in Nat \ {0}
    /\ Timeout \in Nat

Breaker == [state : {"closed", "open", "halfOpen"}, failures : Nat, successes : Nat, age : 0..Timeout]

NewBreaker == [state |-> "closed", failures |-> 0, successes |-> 0, age |-> 0]

TimedOut(cb) == cb.state = "open" /\ cb.age >= Timeout

\* The transition getState makes when the timeout of an open breaker has passed.
HalfOpened == [NewBreaker EXCEPT !.state = "halfOpen"]

MutantAfterSuccess(cb) ==
    IF cb.state = "halfOpen" /\ cb.successes + 1 >= SuccessThreshold
    THEN NewBreaker
    ELSE IF cb.state = "halfOpen" THEN [cb EXCEPT !.successes = @ + 1] ELSE cb

\* recordSuccess; an open breaker takes no notice.
AfterSuccess(cb) ==
    CASE cb.state = "halfOpen" /\ cb.successes + 1 >= SuccessThreshold -> NewBreaker
      [] cb.state = "halfOpen" /\ cb.successes + 1 < SuccessThreshold ->
            [cb EXCEPT !.successes = @ + 1]
      [] cb.state = "closed" -> [cb EXCEPT !.failures = 0]
      [] cb.state = "open" -> cb

MutantAfterFailure(cb) ==
    CASE cb.state = "halfOpen" -> [NewBreaker EXCEPT !.state = "open"]
      [] cb.state = "closed" /\ cb.failures >= FailureThreshold ->
            [cb EXCEPT !.state = "open", !.failures = 0, !.age = 0]
      [] cb.state = "closed" /\ cb.failures < FailureThreshold ->
            [cb EXCEPT !.failures = @ + 1]
      [] cb.state = "open" -> cb

\* recordFailure; a closed breaker that opens keeps its success count.
AfterFailure(cb) ==
    CASE cb.state = "halfOpen" -> [NewBreaker EXCEPT !.state = "open"]
      [] cb.state = "closed" /\ cb.failures + 1 >= FailureThreshold ->
            [cb EXCEPT !.state = "open", !.failures = 0, !.age = 0]
      [] cb.state = "closed" /\ cb.failures + 1 < FailureThreshold ->
            [cb EXCEPT !.failures = @ + 1]
      [] cb.state = "open" -> cb

Older(cb) == [cb EXCEPT !.age = IF @ < Timeout THEN @ + 1 ELSE @]
=============================================================================
