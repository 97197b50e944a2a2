-------------------------------- MODULE Breaker --------------------------------
(***************************************************************************)
(* The circuit breaker of shared/resilience/breaker.go as a value that the *)
(* components with a breaker keep in a variable.  Data-sync, shard-router  *)
(* and saga-hub have copies of it.  The settings are the code's, what they *)
(* mean is gobreaker's.                                                    *)
(*                                                                         *)
(* gobreaker numbers the periods between two resets of its counts and      *)
(* ignores the result of a call that was let through in an earlier one:    *)
(* here "current" holds the callers let through in the present period.  A  *)
(* count is kept only in the state that reads it.                          *)
(***************************************************************************)
EXTENDS Naturals

MaxRequests == 3

(* mutant: the threshold is one too low                                      *)
ReadyToTripEarly(consecutiveFailures) == consecutiveFailures >= 2

ReadyToTrip(consecutiveFailures) == consecutiveFailures >= 3

Breakers(Callers) ==
    [state : {"closed", "half-open", "open"}, failures : 0 .. 2,
     requests : 0 .. MaxRequests, successes : 0 .. MaxRequests,
     current : SUBSET Callers]

NewBreaker(state) ==
    [state |-> state, failures |-> 0, requests |-> 0, successes |-> 0, current |-> {}]

Admits(b) ==
    \/ b.state = "closed"
    \/ b.state = "half-open" /\ b.requests < MaxRequests

Entered(b, c) ==
    [b EXCEPT !.current = @ \cup {c},
              !.requests = IF b.state = "half-open" THEN @ + 1 ELSE @]

(* mutant: it takes one success more than there are test requests            *)
SucceededLate(b) ==
    IF b.state = "closed" THEN [b EXCEPT !.failures = 0]
    ELSE IF b.successes + 1 > MaxRequests THEN NewBreaker("closed")
    ELSE [b EXCEPT !.successes = @ + 1]

Succeeded(b) ==
    IF b.state = "closed" THEN [b EXCEPT !.failures = 0]
    ELSE IF b.successes + 1 >= MaxRequests THEN NewBreaker("closed")
    ELSE [b EXCEPT !.successes = @ + 1]

Failed(b) ==
    IF b.state = "closed" /\ ~ReadyToTrip(b.failures + 1)
    THEN [b EXCEPT !.failures = @ + 1]
    ELSE NewBreaker("open")

Left(b, c) == [b EXCEPT !.current = @ \ {c}]

(* The call of c ends.                                                       *)
Reported(b, c, ok) ==
    IF c \notin b.current THEN b
    ELSE IF ok THEN Succeeded(Left(b, c)) ELSE Failed(Left(b, c))

(* Interval has passed in the closed state, or Timeout in the open one.      *)
Elapsed(b) == NewBreaker(IF b.state = "open" THEN "half-open" ELSE b.state)

MayElapse(b) == b.state # "half-open" /\ Elapsed(b) # b
================================================================================
