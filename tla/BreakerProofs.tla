------------------------------ MODULE BreakerProofs ------------------------------
(***************************************************************************)
(* What the operators of Breaker return, for any callers: the lemmas the   *)
(* proofs about the components with a breaker rest on.                     *)
(***************************************************************************)
EXTENDS Breaker, TLAPS

LEMMA NewBreakerType ==
    ASSUME NEW Callers, NEW state \in {"closed", "half-open", "open"}
    PROVE  /\ NewBreaker(state) \in Breakers(Callers)
           /\ NewBreaker(state).state = state
           /\ NewBreaker(state).failures = 0
           /\ NewBreaker(state).requests = 0
           /\ NewBreaker(state).successes = 0
           /\ NewBreaker(state).current = {}
BY DEF NewBreaker, Breakers, MaxRequests

LEMMA ElapsedType ==
    ASSUME NEW Callers, NEW b \in Breakers(Callers), MayElapse(b)
    PROVE  /\ \/ Elapsed(b) = NewBreaker("closed") /\ b.state = "closed"
              \/ Elapsed(b) = NewBreaker("half-open") /\ b.state = "open"
           /\ Elapsed(b) \in Breakers(Callers)
<1>1. CASE b.state = "open"
  <2>1. Elapsed(b) = NewBreaker("half-open")
    BY <1>1 DEF Elapsed
  <2>. QED
    BY <1>1, <2>1, NewBreakerType
<1>2. CASE b.state # "open"
  <2>1. b.state = "closed"
    BY <1>2 DEF MayElapse, Breakers
  <2>2. Elapsed(b) = NewBreaker("closed")
    BY <1>2, <2>1 DEF Elapsed
  <2>. QED
    BY <2>1, <2>2, NewBreakerType
<1>. QED
  BY <1>1, <1>2

LEMMA EnteredType ==
    ASSUME NEW Callers, NEW c \in Callers, NEW b \in Breakers(Callers), Admits(b)
    PROVE  /\ Entered(b, c) \in Breakers(Callers)
           /\ Entered(b, c).state = b.state
           /\ Entered(b, c).failures = b.failures
           /\ Entered(b, c).successes = b.successes
           /\ Entered(b, c).requests =
                 IF b.state = "half-open" THEN b.requests + 1 ELSE b.requests
           /\ Entered(b, c).current = b.current \cup {c}
<1> DEFINE x == b.current \cup {c}
           r == IF b.state = "half-open" THEN b.requests + 1 ELSE b.requests
           e == [b EXCEPT !.current = x, !.requests = r]
<1>1. x \in SUBSET Callers
  BY DEF Breakers
<1>2. r \in 0 .. MaxRequests
  BY DEF Admits, Breakers, MaxRequests
<1>3. Entered(b, c) = e
  BY DEF Entered
<1> HIDE DEF x, r
<1>4. /\ e \in Breakers(Callers)
      /\ e.state = b.state /\ e.failures = b.failures /\ e.successes = b.successes
      /\ e.requests = r
      /\ e.current = x
  BY <1>1, <1>2 DEF Breakers, MaxRequests
<1> HIDE DEF e
<1>. QED
  BY <1>3, <1>4 DEF x, r

LEMMA LeftType ==
    ASSUME NEW Callers, NEW c, NEW b \in Breakers(Callers)
    PROVE  /\ Left(b, c) \in Breakers(Callers)
           /\ Left(b, c).state = b.state
           /\ Left(b, c).failures = b.failures
           /\ Left(b, c).successes = b.successes
           /\ Left(b, c).requests = b.requests
           /\ Left(b, c).current = b.current \ {c}
BY DEF Left, Breakers

LEMMA ReportedIs ==
    ASSUME NEW c, NEW b, c \in b.current
    PROVE  /\ Reported(b, c, TRUE) = Succeeded(Left(b, c))
           /\ Reported(b, c, FALSE) = Failed(Left(b, c))
BY DEF Reported

(* A success counts, and the last one that is awaited closes the breaker.    *)
LEMMA SuccessType ==
    ASSUME NEW Callers, NEW b \in Breakers(Callers)
    PROVE  /\ Succeeded(b) \in Breakers(Callers)
           /\ \/ /\ Succeeded(b).state = b.state
                 /\ Succeeded(b).failures <= b.failures
                 /\ Succeeded(b).requests = b.requests
                 /\ Succeeded(b).current = b.current
                 /\ Succeeded(b).successes =
                       IF b.state = "closed" THEN b.successes ELSE b.successes + 1
                 /\ b.state # "closed" => b.successes + 1 < MaxRequests
              \/ Succeeded(b) = NewBreaker("closed") /\ b.state # "closed"
<1>1. b.failures \in 0 .. 2 /\ b.successes \in 0 .. MaxRequests
  BY DEF Breakers
<1>2. CASE b.state = "closed"
  <2> DEFINE e == [b EXCEPT !.failures = 0]
  <2>1. Succeeded(b) = e
    BY <1>2 DEF Succeeded
  <2>2. /\ e \in Breakers(Callers)
        /\ e.state = b.state /\ e.failures = 0 /\ e.requests = b.requests
        /\ e.successes = b.successes /\ e.current = b.current
    BY DEF Breakers
  <2> HIDE DEF e
  <2>. QED
    BY <1>1, <1>2, <2>1, <2>2
<1>3. CASE b.state # "closed" /\ b.successes + 1 >= MaxRequests
  <2>1. Succeeded(b) = NewBreaker("closed")
    BY <1>3 DEF Succeeded
  <2>. QED
    BY <1>3, <2>1, NewBreakerType
<1>4. CASE b.state # "closed" /\ ~(b.successes + 1 >= MaxRequests)
  <2> DEFINE e == [b EXCEPT !.successes = b.successes + 1]
  <2>1. Succeeded(b) = e
    BY <1>4 DEF Succeeded
  <2>2. b.successes + 1 \in 0 .. MaxRequests /\ b.successes + 1 < MaxRequests
    BY <1>1, <1>4 DEF MaxRequests
  <2>3. /\ e \in Breakers(Callers)
        /\ e.state = b.state /\ e.failures = b.failures /\ e.requests = b.requests
        /\ e.successes = b.successes + 1 /\ e.current = b.current
    BY <2>2 DEF Breakers
  <2> HIDE DEF e
  <2>. QED
    BY <1>1, <1>4, <2>1, <2>2, <2>3
<1>. QED
  BY <1>2, <1>3, <1>4

(* A failure counts, and the third in a row, or one on trial, opens it.      *)
LEMMA FailureType ==
    ASSUME NEW Callers, NEW b \in Breakers(Callers)
    PROVE  /\ Failed(b) \in Breakers(Callers)
           /\ \/ /\ b.state = "closed" /\ Failed(b).state = "closed"
                 /\ Failed(b).failures = b.failures + 1
                 /\ Failed(b).requests = b.requests
                 /\ Failed(b).successes = b.successes
                 /\ Failed(b).current = b.current
              \/ Failed(b) = NewBreaker("open") /\ (b.state = "closed" => b.failures + 1 >= 3)
<1>1. b.failures \in 0 .. 2
  BY DEF Breakers
<1>2. CASE b.state = "closed" /\ ~(b.failures + 1 >= 3)
  <2> DEFINE e == [b EXCEPT !.failures = b.failures + 1]
  <2>1. Failed(b) = e
    BY <1>2 DEF Failed, ReadyToTrip
  <2>2. b.failures + 1 \in 0 .. 2
    BY <1>1, <1>2
  <2>3. /\ e \in Breakers(Callers)
        /\ e.state = b.state /\ e.failures = b.failures + 1 /\ e.requests = b.requests
        /\ e.successes = b.successes /\ e.current = b.current
    BY <2>2 DEF Breakers
  <2> HIDE DEF e
  <2>. QED
    BY <1>1, <1>2, <2>1, <2>3
<1>3. CASE ~(b.state = "closed" /\ ~(b.failures + 1 >= 3))
  <2>1. Failed(b) = NewBreaker("open")
    BY <1>3 DEF Failed, ReadyToTrip
  <2>. QED
    BY <1>1, <1>3, <2>1, NewBreakerType
<1>. QED
  BY <1>2, <1>3
================================================================================
