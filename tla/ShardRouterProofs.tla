---------------------------- MODULE ShardRouterProofs ----------------------------
(***************************************************************************)
(* Proofs about ShardRouter, for any cells, clients and bounds.            *)
(*                                                                         *)
(* HalfOpenDecides: a half-open breaker has admitted as many calls as have *)
(* succeeded and are out (Awaits), one failure being enough to open it     *)
(* anew; and the calls it awaits are with a cell of its PBC (AreOut), as a *)
(* client has one request at a time.                                       *)
(*                                                                         *)
(* BulkheadHolds: in a PBC that was not hurt the cells are up and so are   *)
(* the answers of the probes in progress, which a tick may have begun long *)
(* before (Unhurt).                                                        *)
(***************************************************************************)
EXTENDS ShardRouter, BreakerProofs, FiniteSetTheorems

Awaits(b) ==
    /\ IsFiniteSet(b.current)
    /\ b.state = "half-open" =>
          b.requests = b.successes + Cardinality(b.current) /\ b.successes < MaxRequests

AreOut(p) == \A c \in breakers[p].current : \E cell \in forwards[c] : cell[2] = p

Unhurt(p) ==
    /\ breakers[p].state = "closed" /\ breakers[p].failures = 0
    /\ \A cell \in Cells : cell[2] = p => /\ cell \in up /\ cell \in healthy
                                         /\ FALSE \notin probes[cell]

Calls ==
    /\ breakers \in [PBCs -> Breakers(Clients)]
    /\ forwards \in [Clients -> SUBSET Cells]
    /\ \A c \in Clients : \A cell \in forwards[c] : forwards[c] = {cell}
    /\ \A p \in PBCs : Awaits(breakers[p]) /\ AreOut(p)

IInv ==
    /\ TypeOK
    /\ Calls
    /\ \A p \in PBCs \ hurt : Unhurt(p)

-----------------------------------------------------------------------------
LEMMA NewAwaits ==
    ASSUME NEW state \in {"closed", "half-open", "open"}
    PROVE  Awaits(NewBreaker(state)) /\ NewBreaker(state).current = {}
<1>1. /\ NewBreaker(state).state = state /\ NewBreaker(state).requests = 0
      /\ NewBreaker(state).successes = 0 /\ NewBreaker(state).current = {}
  BY NewBreakerType
<1>. QED
  BY <1>1, FS_EmptySet DEF Awaits, MaxRequests

LEMMA EnteredAwaits ==
    ASSUME NEW b \in Breakers(Clients), Awaits(b), Admits(b),
           NEW c \in Clients, c \notin b.current
    PROVE  Awaits(Entered(b, c))
<1>1. /\ IsFiniteSet(b.current \cup {c})
      /\ Cardinality(b.current \cup {c}) = Cardinality(b.current) + 1
      /\ Cardinality(b.current) \in Nat
  BY FS_AddElement, FS_CardinalityType DEF Awaits
<1>2. b.requests \in Nat /\ b.successes \in Nat
  BY DEF Breakers, MaxRequests
<1>3. /\ Entered(b, c).state = b.state /\ Entered(b, c).successes = b.successes
      /\ Entered(b, c).requests =
            IF b.state = "half-open" THEN b.requests + 1 ELSE b.requests
      /\ Entered(b, c).current = b.current \cup {c}
  BY EnteredType
<1>. QED
  BY <1>1, <1>2, <1>3 DEF Awaits

(* What remains of a breaker after a call of c, if it was awaited.           *)
LEMMA ReportedAwaits ==
    ASSUME NEW b \in Breakers(Clients), Awaits(b), NEW c \in Clients,
           NEW e, e \in IF c \in b.current THEN {Succeeded(Left(b, c)), Failed(Left(b, c))}
                                         ELSE {b}
    PROVE  e \in Breakers(Clients) /\ Awaits(e) /\ e.current \subseteq b.current \ {c}
<1>1. CASE c \notin b.current
  BY <1>1
<1>2. CASE c \in b.current
  <2> DEFINE l == Left(b, c)
  <2>1. /\ l \in Breakers(Clients) /\ l.state = b.state /\ l.requests = b.requests
        /\ l.successes = b.successes /\ l.current = b.current \ {c}
    BY LeftType
  <2>2. /\ IsFiniteSet(b.current \ {c}) /\ Cardinality(b.current \ {c}) \in Nat
        /\ Cardinality(b.current \ {c}) = Cardinality(b.current) - 1
        /\ Cardinality(b.current) \in Nat
    BY <1>2, FS_RemoveElement, FS_CardinalityType DEF Awaits
  <2>3. b.requests \in Nat /\ b.successes \in Nat
    BY DEF Breakers, MaxRequests
  <2>4. Awaits(NewBreaker("closed")) /\ NewBreaker("closed").current = {}
    BY NewAwaits
  <2>5. Awaits(NewBreaker("open")) /\ NewBreaker("open").current = {}
    BY NewAwaits
  <2> HIDE DEF l
  <2>6. CASE e = Succeeded(l)
    <3>1. /\ e \in Breakers(Clients)
          /\ \/ /\ e.state = l.state /\ e.requests = l.requests /\ e.current = l.current
                /\ e.successes = IF l.state = "closed" THEN l.successes ELSE l.successes + 1
                /\ l.state # "closed" => l.successes + 1 < MaxRequests
             \/ e = NewBreaker("closed")
      BY <2>1, <2>6, SuccessType
    <3>2. CASE e = NewBreaker("closed")
      BY <2>4, <3>1, <3>2
    <3>3. CASE e # NewBreaker("closed")
      <4>1. ASSUME e.state = "half-open"
            PROVE  e.requests = e.successes + Cardinality(e.current) /\ e.successes < MaxRequests
        <5>1. b.state = "half-open" /\ e.successes = b.successes + 1 /\ e.requests = b.requests
          BY <2>1, <3>1, <3>3, <4>1
        <5>2. b.requests = b.successes + Cardinality(b.current)
          BY <5>1 DEF Awaits
        <5>3. e.successes < MaxRequests
          BY <2>1, <3>1, <3>3, <4>1
        <5>4. Cardinality(e.current) = Cardinality(b.current) - 1
          BY <2>1, <2>2, <3>1, <3>3
        <5>. QED
          BY <2>2, <2>3, <5>1, <5>2, <5>3, <5>4
      <4>. QED
        BY <2>1, <2>2, <3>1, <3>3, <4>1 DEF Awaits
    <3>. QED
      BY <3>2, <3>3
  <2>7. CASE e = Failed(l)
    <3>1. /\ e \in Breakers(Clients)
          /\ \/ e.state = "closed" /\ e.current = l.current
             \/ e = NewBreaker("open")
      BY <2>1, <2>7, FailureType
    <3>2. CASE e = NewBreaker("open")
      BY <2>5, <3>1, <3>2
    <3>3. CASE e # NewBreaker("open")
      BY <2>1, <2>2, <3>1, <3>3 DEF Awaits
    <3>. QED
      BY <3>2, <3>3
  <2>. QED
    BY <1>2, <2>6, <2>7 DEF l
<1>. QED
  BY <1>1, <1>2

-----------------------------------------------------------------------------
(* One breaker changes, to what it is after a call or a time has ended: the  *)
(* others await no call of that client.                                      *)
LEMMA CallEnds ==
    ASSUME Calls, NEW p \in PBCs, NEW c \in Clients, NEW cell \in forwards[c], cell[2] = p,
           NEW ok \in BOOLEAN,
           breakers' = [breakers EXCEPT ![p] = Reported(@, c, ok)],
           forwards' = [forwards EXCEPT ![c] = {}]
    PROVE  Calls'
<1> DEFINE b == breakers[p]
           e == breakers'[p]
<1>1. b \in Breakers(Clients) /\ Awaits(b)
  BY DEF Calls
<1>2. e = Reported(b, c, ok)
  BY DEF Calls
<1>3. e \in IF c \in b.current THEN {Succeeded(Left(b, c)), Failed(Left(b, c))} ELSE {b}
  BY <1>2 DEF Reported
<1>4. e \in Breakers(Clients) /\ Awaits(e) /\ e.current \subseteq b.current \ {c}
  BY <1>1, <1>3, ReportedAwaits
<1>5. \A q \in PBCs \ {p} : breakers'[q] = breakers[q]
  BY DEF Calls
<1>6. breakers' \in [PBCs -> Breakers(Clients)]
  BY <1>2, <1>4 DEF Calls
<1>7. /\ forwards' \in [Clients -> SUBSET Cells] /\ forwards'[c] = {}
      /\ \A d \in Clients \ {c} : forwards'[d] = forwards[d]
  BY DEF Calls
<1>8. ASSUME NEW q \in PBCs PROVE Awaits(breakers[q])' /\ AreOut(q)'
  <2>1. CASE q = p
    <3>1. \A d \in e.current : d \in Clients \ {c} /\ d \in b.current
      BY <1>1, <1>4 DEF Breakers
    <3>. QED
      BY <1>4, <1>7, <2>1, <3>1 DEF Calls, AreOut, Awaits
  <2>2. CASE q # p
    <3>1. ASSUME NEW d \in breakers[q].current
          PROVE  d \in Clients \ {c} /\ \E x \in forwards[d] : x[2] = q
      <4>1. d \in Clients
        BY DEF Calls, Breakers
      <4>2. PICK x \in forwards[d] : x[2] = q
        BY DEF Calls, AreOut
      <4>3. d # c
        BY <2>2, <4>1, <4>2 DEF Calls
      <4>. QED
        BY <4>1, <4>2, <4>3
    <3>. QED
      BY <1>5, <1>7, <2>2, <3>1 DEF Calls, AreOut, Awaits
  <2>. QED
    BY <2>1, <2>2
<1>. QED
  BY <1>6, <1>7, <1>8 DEF Calls

-----------------------------------------------------------------------------
LEMMA CellFacts ==
    ASSUME NEW cell \in Cells
    PROVE  cell[2] \in PBCs
BY DEF PBCs

LEMMA InitInv == Init => IInv
<1> SUFFICES ASSUME Init PROVE IInv
  OBVIOUS
<1>1. /\ NewBreaker("closed") \in Breakers(Clients) /\ NewBreaker("closed").state = "closed"
      /\ NewBreaker("closed").failures = 0 /\ NewBreaker("closed").current = {}
      /\ Awaits(NewBreaker("closed"))
  BY NewBreakerType, NewAwaits
<1>2. Cardinality({cell \in Cells : probes[cell] # {}}) <= Slots
  <2>1. {cell \in Cells : probes[cell] # {}} = {}
    BY DEF Init
  <2>. QED
    BY <2>1, FS_EmptySet, RouterAssumption
<1>3. TypeOK
  BY <1>1, <1>2, RouterAssumption DEF Init, TypeOK
<1>4. Calls
  BY <1>1 DEF Init, Calls, AreOut
<1>5. ASSUME NEW p \in PBCs PROVE Unhurt(p)
  BY <1>1, <1>5 DEF Init, Unhurt
<1>. QED
  BY <1>3, <1>4, <1>5 DEF IInv

LEMMA Faults ==
    ASSUME TypeOK, NEW cell \in Cells, Fault(cell) \/ NoFault
    PROVE  /\ hurt' \subseteq PBCs /\ faults' \in 0 .. MaxFaults /\ hurt \subseteq hurt'
           /\ Fault(cell) => cell[2] \in hurt'
BY CellFacts, RouterAssumption DEF TypeOK, Fault, NoFault

LEMMA CellInv ==
    ASSUME IInv, NEW cell \in Cells, Crash(cell) \/ Recover(cell)
    PROVE  IInv'
<1>1. /\ UNCHANGED <<healthy, probes, breakers, forwards>>
      /\ up' \subseteq Cells
      /\ (Fault(cell) /\ up' = up \ {cell}) \/ (NoFault /\ up \subseteq up')
  BY DEF Crash, Recover, IInv, TypeOK
<1>2. /\ hurt' \subseteq PBCs /\ faults' \in 0 .. MaxFaults /\ hurt \subseteq hurt'
      /\ Fault(cell) => cell[2] \in hurt'
  BY <1>1, Faults DEF IInv
<1>3. TypeOK'
  BY <1>1, <1>2 DEF IInv, TypeOK
<1>4. Calls'
  BY <1>1 DEF IInv, Calls, AreOut, Awaits
<1>5. ASSUME NEW p \in PBCs \ hurt' PROVE Unhurt(p)'
  BY <1>1, <1>2 DEF IInv, Unhurt
<1>. QED
  BY <1>3, <1>4, <1>5 DEF IInv

(* The probes in progress are one more, and there was a slot for it.         *)
LEMMA CheckInv ==
    ASSUME IInv, NEW cell \in Cells, Check(cell)
    PROVE  IInv'
<1>1. PICK ok \in BOOLEAN :
        /\ probes' = [probes EXCEPT ![cell] = {ok}]
        /\ (cell \in up /\ ok) \/ cell \notin up \/ Fault(cell)
        /\ Fault(cell) \/ NoFault
  BY Zenon DEF Check
<1>2. /\ probes[cell] = {} /\ HasSlot /\ UNCHANGED <<up, healthy, breakers, forwards>>
  BY DEF Check
<1>3. /\ hurt' \subseteq PBCs /\ faults' \in 0 .. MaxFaults /\ hurt \subseteq hurt'
      /\ Fault(cell) => cell[2] \in hurt'
  BY <1>1, Faults DEF IInv
<1>4. /\ probes' \in [Cells -> SUBSET BOOLEAN]
      /\ probes'[cell] = {ok}
      /\ \A x \in Cells \ {cell} : probes'[x] = probes[x]
  BY <1>1, Zenon DEF IInv, TypeOK
<1>5. Cardinality({x \in Cells : probes'[x] # {}}) <= Slots
  <2> DEFINE S == {x \in Cells : probes[x] # {}}
  <2>1. {x \in Cells : probes'[x] # {}} = S \cup {cell}
    BY <1>2, <1>4
  <2>2. IsFiniteSet(S) /\ cell \notin S
    BY <1>2, FS_Subset, RouterAssumption
  <2>3. Cardinality(S) < Slots
    BY <1>2 DEF HasSlot
  <2>4. Cardinality(S \cup {cell}) = Cardinality(S) + 1 /\ Cardinality(S) \in Nat
    BY <2>2, FS_AddElement, FS_CardinalityType
  <2>. HIDE DEF S
  <2>. QED
    BY <2>1, <2>3, <2>4, RouterAssumption
<1>6. TypeOK'
  BY <1>2, <1>3, <1>4, <1>5 DEF IInv, TypeOK
<1>7. Calls'
  BY <1>2 DEF IInv, Calls, AreOut, Awaits
<1>8. ASSUME NEW p \in PBCs \ hurt' PROVE Unhurt(p)'
  <2>1. Unhurt(p)
    BY <1>3 DEF IInv
  <2>2. cell[2] = p => ok
    BY <1>1, <1>3, <2>1 DEF Unhurt
  <2>3. ASSUME NEW x \in Cells, x[2] = p PROVE FALSE \notin probes'[x]
    <3>1. CASE x = cell
      BY <1>4, <2>2, <2>3, <3>1, Zenon
    <3>2. CASE x # cell
      BY <1>4, <2>1, <2>3, <3>2, Zenon DEF Unhurt
    <3>. QED
      BY <3>1, <3>2
  <2>. QED
    BY <1>2, <2>1, <2>3 DEF Unhurt
<1>. QED
  BY <1>6, <1>7, <1>8 DEF IInv

LEMMA SetHealthyInv ==
    ASSUME IInv, NEW cell \in Cells, SetHealthy(cell)
    PROVE  IInv'
<1>1. PICK ok \in probes[cell] :
        /\ healthy' = IF ok THEN healthy \cup {cell} ELSE healthy \ {cell}
        /\ probes' = [probes EXCEPT ![cell] = {}]
        /\ NoFault
        /\ UNCHANGED <<up, breakers, forwards>>
  BY DEF SetHealthy
<1>2. /\ probes' \in [Cells -> SUBSET BOOLEAN] /\ probes'[cell] = {}
      /\ \A x \in Cells \ {cell} : probes'[x] = probes[x]
  BY <1>1, Zenon DEF IInv, TypeOK
<1>3. /\ healthy' \subseteq Cells
      /\ \A x \in healthy : x # cell => x \in healthy'
      /\ ok \in BOOLEAN /\ (ok = TRUE => cell \in healthy')
  BY <1>1 DEF IInv, TypeOK
<1>4. Cardinality({x \in Cells : probes'[x] # {}}) <= Slots
  <2> DEFINE S == {x \in Cells : probes[x] # {}}
             T == {x \in Cells : probes'[x] # {}}
  <2>1. T \subseteq S /\ IsFiniteSet(S)
    BY <1>2, FS_Subset, RouterAssumption
  <2>2. Cardinality(T) <= Cardinality(S) /\ Cardinality(T) \in Nat /\ Cardinality(S) \in Nat
    BY <2>1, FS_Subset, FS_CardinalityType
  <2>3. Cardinality(S) <= Slots
    BY DEF IInv, TypeOK
  <2>. HIDE DEF S
  <2>. QED
    BY <2>2, <2>3, RouterAssumption
<1>5. TypeOK'
  BY <1>1, <1>2, <1>3, <1>4 DEF IInv, TypeOK, NoFault
<1>6. Calls'
  BY <1>1 DEF IInv, Calls, AreOut, Awaits
<1>7. ASSUME NEW p \in PBCs \ hurt' PROVE Unhurt(p)'
  <2>1. Unhurt(p)
    BY <1>1 DEF IInv, NoFault
  <2>2. cell[2] = p => ok = TRUE
    BY <1>1, <1>3, <2>1, Zenon DEF Unhurt
  <2>3. ASSUME NEW x \in Cells, x[2] = p PROVE x \in healthy' /\ FALSE \notin probes'[x]
    <3>1. CASE x = cell
      BY <1>2, <1>3, <2>2, <2>3, <3>1
    <3>2. CASE x # cell
      BY <1>2, <1>3, <2>1, <2>3, <3>2 DEF Unhurt
    <3>. QED
      BY <3>1, <3>2
  <2>. QED
    BY <1>1, <2>1, <2>3 DEF Unhurt
<1>. QED
  BY <1>5, <1>6, <1>7 DEF IInv

LEMMA ProxyInv ==
    ASSUME IInv, NEW c \in Clients, NEW p \in PBCs, Proxy(c, p)
    PROVE  IInv'
<1> DEFINE b == breakers[p]
<1>1. PICK cell \in ActiveCell(Route[c], p) :
        /\ Admits(b)
        /\ breakers' = [breakers EXCEPT ![p] = Entered(@, c)]
        /\ forwards' = [forwards EXCEPT ![c] = {cell}]
  BY DEF Proxy, BreakerOf
<1>2. forwards[c] = {} /\ UNCHANGED <<hurt, faults, up, healthy, probes>>
  BY DEF Proxy, NoFault
<1>3. cell \in Cells /\ cell[2] = p
  BY DEF ActiveCell, IInv, TypeOK
<1>4. b \in Breakers(Clients) /\ Awaits(b)
  BY DEF IInv, Calls
<1>5. c \notin b.current
  BY <1>2 DEF IInv, Calls, AreOut
<1>6. Awaits(Entered(b, c))
  BY <1>1, <1>4, <1>5, EnteredAwaits
<1>7. /\ Entered(b, c) \in Breakers(Clients) /\ Entered(b, c).current = b.current \cup {c}
      /\ Entered(b, c).state = b.state /\ Entered(b, c).failures = b.failures
  BY <1>1, <1>4, EnteredType
<1>8. /\ breakers' \in [PBCs -> Breakers(Clients)] /\ breakers'[p] = Entered(b, c)
      /\ \A q \in PBCs \ {p} : breakers'[q] = breakers[q]
  BY <1>1, <1>7 DEF IInv, Calls
<1>9. /\ forwards' \in [Clients -> SUBSET Cells] /\ forwards'[c] = {cell}
      /\ \A d \in Clients \ {c} : forwards'[d] = forwards[d]
  BY <1>1, <1>3 DEF IInv, Calls
<1>10. Calls'
  <2>1. \A d \in Clients : \A x \in forwards'[d] : forwards'[d] = {x}
    BY <1>9 DEF IInv, Calls
  <2>2. ASSUME NEW q \in PBCs, NEW d \in breakers'[q].current
        PROVE  \E x \in forwards'[d] : x[2] = q
    <3>1. d \in Clients
      BY <1>8 DEF Breakers
    <3>2. CASE d = c
      <4>1. q = p
        BY <1>2, <1>8, <2>2, <3>2 DEF IInv, Calls, AreOut
      <4>. QED
        BY <1>3, <1>9, <3>2, <4>1
    <3>3. CASE d # c
      <4>1. d \in breakers[q].current
        BY <1>7, <1>8, <2>2, <3>3
      <4>. QED
        BY <1>9, <3>1, <3>3, <4>1 DEF IInv, Calls, AreOut
    <3>. QED
      BY <3>2, <3>3
  <2>3. \A q \in PBCs : Awaits(breakers[q])'
    BY <1>6, <1>8 DEF IInv, Calls, Awaits
  <2>. QED
    BY <1>8, <1>9, <2>1, <2>2, <2>3 DEF Calls, AreOut
<1>11. TypeOK'
  BY <1>2, <1>8, <1>9 DEF IInv, TypeOK
<1>12. ASSUME NEW q \in PBCs \ hurt' PROVE Unhurt(q)'
  BY <1>2, <1>7, <1>8 DEF IInv, Unhurt
<1>. QED
  BY <1>10, <1>11, <1>12 DEF IInv

(* The call to a cell of a PBC that is not hurt succeeds.                    *)
LEMMA ReturnsInv ==
    ASSUME IInv, NEW c \in Clients, NEW cell \in forwards[c], NEW ok \in BOOLEAN,
           Returns(c, cell[2], ok),
           \/ NoFault /\ (ok <=> cell \in up)
           \/ Fault(cell)
    PROVE  IInv'
<1> DEFINE p == cell[2]
<1>1. /\ breakers' = [breakers EXCEPT ![p] = Reported(@, c, ok)]
      /\ forwards' = [forwards EXCEPT ![c] = {}]
      /\ UNCHANGED <<up, healthy, probes>>
  BY DEF Returns, BreakerOf
<1>2. cell \in Cells /\ p \in PBCs
  BY CellFacts DEF IInv, Calls
<1>3. Calls'
  BY <1>1, <1>2, CallEnds DEF IInv
<1>4. /\ hurt' \subseteq PBCs /\ faults' \in 0 .. MaxFaults /\ hurt \subseteq hurt'
      /\ Fault(cell) => cell[2] \in hurt'
  BY <1>2, Faults DEF IInv
<1>5. TypeOK'
  BY <1>1, <1>3, <1>4 DEF IInv, TypeOK, Calls
<1>6. \A q \in PBCs \ {p} : breakers'[q] = breakers[q]
  BY <1>1 DEF IInv, Calls
<1>7. ASSUME p \notin hurt'
      PROVE  breakers'[p].state = "closed" /\ breakers'[p].failures = 0
  <2>1. Unhurt(p)
    BY <1>2, <1>4, <1>7 DEF IInv
  <2>2. ok
    BY <1>2, <1>4, <1>7, <2>1 DEF Unhurt
  <2>3. breakers'[p] = IF c \in breakers[p].current
                       THEN Succeeded(Left(breakers[p], c)) ELSE breakers[p]
    BY <1>1, <1>2, <2>2 DEF IInv, Calls, Reported
  <2>4. /\ Left(breakers[p], c) \in Breakers(Clients)
        /\ Left(breakers[p], c).state = "closed" /\ Left(breakers[p], c).failures = 0
    BY <1>2, <2>1, LeftType DEF IInv, Calls, Unhurt
  <2>5. /\ Succeeded(Left(breakers[p], c)).state = "closed"
        /\ Succeeded(Left(breakers[p], c)).failures <= 0
        /\ Succeeded(Left(breakers[p], c)).failures \in Nat
    BY <2>4, SuccessType DEF Breakers
  <2>. QED
    BY <2>1, <2>3, <2>5 DEF Unhurt
<1>8. ASSUME NEW q \in PBCs \ hurt' PROVE Unhurt(q)'
  <2>1. Unhurt(q)
    BY <1>4 DEF IInv
  <2>2. breakers'[q].state = "closed" /\ breakers'[q].failures = 0
    BY <1>6, <1>7, <2>1 DEF Unhurt
  <2>. QED
    BY <1>1, <2>1, <2>2 DEF Unhurt
<1>. QED
  BY <1>3, <1>5, <1>8 DEF IInv

LEMMA BreakerElapsesInv ==
    ASSUME IInv, NEW p \in PBCs, BreakerElapses(p)
    PROVE  IInv'
<1>1. /\ MayElapse(breakers[p])
      /\ breakers' = [breakers EXCEPT ![p] = Elapsed(@)]
      /\ UNCHANGED <<hurt, faults, up, healthy, probes, forwards>>
  BY DEF BreakerElapses, NoFault
<1>2. breakers[p] \in Breakers(Clients)
  BY DEF IInv, Calls
<1>3. /\ Elapsed(breakers[p]) \in Breakers(Clients)
      /\ \/ Elapsed(breakers[p]) = NewBreaker("closed") /\ breakers[p].state = "closed"
         \/ Elapsed(breakers[p]) = NewBreaker("half-open") /\ breakers[p].state = "open"
  BY <1>1, <1>2, ElapsedType
<1>4. /\ breakers' \in [PBCs -> Breakers(Clients)] /\ breakers'[p] = Elapsed(breakers[p])
      /\ \A q \in PBCs \ {p} : breakers'[q] = breakers[q]
  BY <1>1, <1>3 DEF IInv, Calls
<1>5. /\ Awaits(NewBreaker("closed")) /\ NewBreaker("closed").current = {}
      /\ NewBreaker("closed").state = "closed" /\ NewBreaker("closed").failures = 0
  BY NewAwaits, NewBreakerType
<1>6. Awaits(NewBreaker("half-open")) /\ NewBreaker("half-open").current = {}
  BY NewAwaits
<1>7. Awaits(breakers'[p]) /\ breakers'[p].current = {}
  BY <1>3, <1>4, <1>5, <1>6
<1>8. Calls'
  <2>1. ASSUME NEW q \in PBCs PROVE Awaits(breakers[q])' /\ AreOut(q)'
    <3>1. CASE q = p
      BY <1>7, <3>1 DEF AreOut, Awaits
    <3>2. CASE q # p
      BY <1>1, <1>4, <3>2 DEF IInv, Calls, AreOut, Awaits
    <3>. QED
      BY <3>1, <3>2
  <2>. QED
    BY <1>1, <1>4, <2>1 DEF IInv, Calls
<1>9. TypeOK'
  BY <1>1, <1>4 DEF IInv, TypeOK
<1>10. ASSUME NEW q \in PBCs \ hurt' PROVE Unhurt(q)'
  BY <1>1, <1>3, <1>4, <1>5 DEF IInv, Unhurt
<1>. QED
  BY <1>8, <1>9, <1>10 DEF IInv

-----------------------------------------------------------------------------
THEOREM Inductive == Spec => []IInv
<1>1. IInv /\ [Next]_vars => IInv'
  <2> SUFFICES ASSUME IInv, [Next]_vars PROVE IInv'
    OBVIOUS
  <2>1. CASE UNCHANGED vars
    BY <2>1 DEF vars, IInv, TypeOK, Calls, Awaits, AreOut, Unhurt
  <2>2. ASSUME NEW cell \in Cells,
               Crash(cell) \/ Recover(cell) \/ Check(cell) \/ SetHealthy(cell)
        PROVE  IInv'
    BY <2>2, CellInv, CheckInv, SetHealthyInv
  <2>3. ASSUME NEW c \in Clients, NEW p \in PBCs, Proxy(c, p) PROVE IInv'
    BY <2>3, ProxyInv
  <2>4. ASSUME NEW c \in Clients, ProxyReturns(c) PROVE IInv'
    <3>1. PICK cell \in forwards[c], ok \in BOOLEAN :
            (ok <=> cell \in up) /\ Returns(c, cell[2], ok) /\ NoFault
      BY <2>4, Zenon DEF ProxyReturns
    <3>. QED
      BY <3>1, ReturnsInv
  <2>5. ASSUME NEW c \in Clients, ClientGone(c) PROVE IInv'
    BY <2>5, ReturnsInv DEF ClientGone
  <2>6. ASSUME NEW p \in PBCs, BreakerElapses(p) PROVE IInv'
    BY <2>6, BreakerElapsesInv
  <2>. QED
    BY <2>1, <2>2, <2>3, <2>4, <2>5, <2>6 DEF Next
<1>. QED
  BY InitInv, <1>1, PTL DEF Spec

(* The variables keep to their sets; the semaphore of the watcher is never   *)
(* held by more probes than it has slots.                                    *)
THEOREM TypeCorrect == Spec => []TypeOK
<1>1. IInv => TypeOK
  BY DEF IInv
<1>. QED
  BY <1>1, Inductive, PTL

(* Failures of one PBC's cells and clients leave the other PBCs' cells       *)
(* healthy and their breakers closed, with no failure counted.               *)
THEOREM BulkheadIsSafe == Spec => []BulkheadHolds
<1>1. IInv => BulkheadHolds
  BY DEF IInv, BulkheadHolds, Unhurt
<1>. QED
  BY <1>1, Inductive, PTL

(* A half-open breaker that admits no more has a call out with a cell of its *)
(* PBC, whose end will decide.                                               *)
THEOREM HalfOpenIsAwaited == Spec => []HalfOpenDecides
<1>1. IInv => HalfOpenDecides
  <2> SUFFICES ASSUME IInv, NEW p \in PBCs, breakers[p].state = "half-open",
                      ~Admits(breakers[p])
               PROVE  \E c \in breakers[p].current : \E cell \in forwards[c] : cell[2] = p
    BY DEF HalfOpenDecides
  <2> DEFINE b == breakers[p]
  <2>1. b \in Breakers(Clients) /\ Awaits(b) /\ AreOut(p)
    BY DEF IInv, Calls
  <2>2. b.requests \in Nat /\ b.successes \in Nat /\ b.requests >= MaxRequests
    BY <2>1 DEF Breakers, Admits, MaxRequests
  <2>3. /\ IsFiniteSet(b.current) /\ b.successes < MaxRequests
        /\ b.requests = b.successes + Cardinality(b.current)
    BY <2>1 DEF Awaits
  <2>4. Cardinality(b.current) # 0
    BY <2>2, <2>3 DEF MaxRequests
  <2>5. b.current # {}
    BY <2>4, FS_EmptySet
  <2>. QED
    BY <2>1, <2>5 DEF AreOut
<1>. QED
  BY <1>1, Inductive, PTL
================================================================================
