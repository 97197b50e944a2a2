------------------------------ MODULE DataSyncProofs ------------------------------
(***************************************************************************)
(* Proofs about DataSync, for any rows and bounds.                         *)
(*                                                                         *)
(* A change is given up after three attempts, so LossesAreFounded needs to *)
(* know of the attempt at hand how many failed before it, and of the       *)
(* breaker that it counts no failure twice (Counted).                      *)
(*                                                                         *)
(* ReadyWhenCaughtUp speaks of the end of the log only.  After a restart   *)
(* the passive table is ahead of the changes read, and what it holds       *)
(* depends on how far it had come; Follows says just enough of it.  A row  *)
(* that some change made is there, unless a deletion is still to come; a   *)
(* deletion leaves nothing older than itself; and at the end of the log    *)
(* the row is in its last version.                                         *)
(***************************************************************************)
EXTENDS DataSync, BreakerProofs

(* A row is inserted first and again after its deletion, and only then.      *)
WellFormed(r) ==
    /\ Len(cdc[r]) <= MaxChanges
    /\ \A i \in 1 .. Len(cdc[r]) :
          cdc[r][i] = "c" <=> i = 1 \/ cdc[r][i - 1] = "d"

(* The change at hand is the last one read of its row.                       *)
AtPosition == \A m \in current : m.n = position[m.row]

Pending(r) == \E m \in current : m.row = r /\ ~m.done

(* The number of changes of row r that were read and applied, or given up.   *)
Done(r) == IF Pending(r) THEN position[r] - 1 ELSE position[r]

(* Change n made the row and no later change removes it.                     *)
Stays(r, n) ==
    /\ n >= 1
    /\ \A i \in 1 .. Len(cdc[r]) : i >= n => cdc[r][i] # "d"

(* What the passive row is when the first n changes were applied, and        *)
(* perhaps, before a restart, others.                                        *)
FollowsAt(r, n) ==
    /\ lost[r] \subseteq {"unidentified"} =>
          /\ Stays(r, n) => passive[r] # 0
          /\ \A k \in 1 .. Len(cdc[r]) :
                k <= n /\ cdc[r][k] = "d" => passive[r] = 0 \/ passive[r] > k
    /\ lost[r] = {} /\ n = Len(cdc[r]) => passive[r] = Active(r)

Follows(r) == committed[r] <= Done(r) /\ FollowsAt(r, Done(r))

Counted ==
    /\ breaker.state = "closed" => breaker.failures <= failed
    /\ breaker.state # "closed" => failed = 3
    /\ \A m \in current : failed < 3 /\ ~m.done => m.attempt - 1 <= failed

IInv ==
    /\ TypeOK
    /\ AtPosition
    /\ Counted
    /\ LossesAreFounded
    /\ \A r \in Rows : WellFormed(r) /\ Follows(r)

-----------------------------------------------------------------------------
LEMMA ChangeType ==
    ASSUME NEW m \in Change
    PROVE  /\ m.row \in Rows /\ m.n \in 1 .. MaxChanges
           /\ m.attempt \in 1 .. Attempts /\ m.done \in BOOLEAN
           /\ LET e == [m EXCEPT !.done = TRUE]
              IN  e \in Change /\ e.row = m.row /\ e.n = m.n /\ e.done = TRUE
           /\ m.attempt < Attempts =>
                 LET e == [m EXCEPT !.attempt = @ + 1]
                 IN  /\ e \in Change /\ e.row = m.row /\ e.n = m.n /\ e.done = m.done
                     /\ e.attempt = m.attempt + 1
<1>1. /\ m.row \in Rows /\ m.n \in 1 .. MaxChanges
      /\ m.attempt \in 1 .. Attempts /\ m.done \in BOOLEAN
  BY DEF Change
<1>2. LET e == [m EXCEPT !.done = TRUE]
      IN  e \in Change /\ e.row = m.row /\ e.n = m.n /\ e.done = TRUE
  BY DEF Change
<1>3. ASSUME m.attempt < Attempts
      PROVE  LET e == [m EXCEPT !.attempt = @ + 1]
             IN  /\ e \in Change /\ e.row = m.row /\ e.n = m.n /\ e.done = m.done
                 /\ e.attempt = m.attempt + 1
  BY <1>1, <1>3 DEF Change, Attempts
<1>. QED
  BY <1>1, <1>2, <1>3

(* What a call through the breaker makes of it: it never counts a failure    *)
(* that was none.                                                            *)
LEMMA CallCounted ==
    ASSUME NEW b \in Breakers({"loop"}), Admits(b), NEW f \in Nat,
           b.state = "closed" => b.failures <= f,
           b.state # "closed" => f >= 3
    PROVE  LET l == Left(Entered(b, "loop"), "loop")
           IN  /\ Reported(Entered(b, "loop"), "loop", TRUE) = Succeeded(l)
               /\ Reported(Entered(b, "loop"), "loop", FALSE) = Failed(l)
               /\ Succeeded(l) \in Breakers({"loop"})
               /\ Failed(l) \in Breakers({"loop"})
               /\ Succeeded(l).state = "closed" => Succeeded(l).failures <= f
               /\ Succeeded(l).state # "closed" => f >= 3
               /\ Failed(l).state = "closed" => Failed(l).failures <= f + 1
               /\ Failed(l).state # "closed" => f + 1 >= 3
<1> DEFINE e == Entered(b, "loop")
           l == Left(e, "loop")
<1>1. /\ e \in Breakers({"loop"}) /\ "loop" \in e.current
      /\ e.state = b.state /\ e.failures = b.failures
  BY EnteredType
<1>2. /\ Reported(e, "loop", TRUE) = Succeeded(l)
      /\ Reported(e, "loop", FALSE) = Failed(l)
  BY <1>1, ReportedIs
<1>3. l \in Breakers({"loop"}) /\ l.state = b.state /\ l.failures = b.failures
  BY <1>1, LeftType
<1>4. b.state \in {"closed", "half-open", "open"} /\ b.failures \in 0 .. 2
  BY DEF Breakers
<1> HIDE DEF l
<1>5. /\ Succeeded(l) \in Breakers({"loop"})
      /\ Succeeded(l).state = "closed" => Succeeded(l).failures <= f
      /\ Succeeded(l).state # "closed" => f >= 3
  <2>1. Succeeded(l).failures \in 0 .. 2
    BY <1>3, SuccessType DEF Breakers
  <2>2. NewBreaker("closed").state = "closed" /\ NewBreaker("closed").failures = 0
    BY NewBreakerType
  <2>. QED
    BY <1>3, <1>4, <2>1, <2>2, SuccessType
<1>6. /\ Failed(l) \in Breakers({"loop"})
      /\ Failed(l).state = "closed" => Failed(l).failures <= f + 1
      /\ Failed(l).state # "closed" => f + 1 >= 3
  <2>1. NewBreaker("open").state = "open"
    BY NewBreakerType
  <2>. QED
    BY <1>3, <1>4, <2>1, FailureType
<1>. QED
  BY <1>2, <1>5, <1>6 DEF l

(* What the invariant says of one row.                                       *)
LEMMA RowFacts ==
    ASSUME IInv, NEW r \in Rows
    PROVE  /\ position[r] \in Nat /\ committed[r] \in Nat /\ passive[r] \in Nat
           /\ Len(cdc[r]) \in Nat /\ Done(r) \in Nat
           /\ cdc[r] \in Seq({"c", "u", "d"}) /\ lost[r] \in SUBSET Reasons
           /\ committed[r] <= Done(r) /\ Done(r) <= position[r]
           /\ position[r] <= Len(cdc[r]) /\ passive[r] <= Len(cdc[r])
BY DEF IInv, TypeOK, Follows, Done

(* The change at hand is the last one read, and the first one not done with. *)
LEMMA CurrentFacts ==
    ASSUME IInv, NEW m \in current
    PROVE  /\ current = {m} /\ m \in Change /\ m.row \in Rows
           /\ m.n = position[m.row] /\ m.n \in Nat /\ 1 <= m.n
           /\ m.n <= Len(cdc[m.row]) /\ cdc[m.row][m.n] \in {"c", "u", "d"}
           /\ ~m.done => Done(m.row) = m.n - 1
<1>1. /\ current = {m} /\ m \in Change /\ m.row \in Rows /\ m.n \in 1 .. MaxChanges
      /\ m.n = position[m.row]
  BY ChangeType DEF IInv, TypeOK, AtPosition
<1>2. /\ Len(cdc[m.row]) \in Nat /\ m.n <= Len(cdc[m.row])
      /\ cdc[m.row] \in Seq({"c", "u", "d"}) /\ m.n \in Nat /\ 1 <= m.n
  BY <1>1, RowFacts
<1>3. ~m.done => Done(m.row) = m.n - 1
  BY <1>1 DEF Done, Pending
<1>. QED
  BY <1>1, <1>2, <1>3

(* A row's state is described by its log, its version and its losses.        *)
LEMMA FollowsUnchanged ==
    ASSUME NEW r \in Rows, NEW n \in Nat, FollowsAt(r, n),
           cdc'[r] = cdc[r], passive'[r] = passive[r], lost'[r] = lost[r]
    PROVE  FollowsAt(r, n)'
BY DEF FollowsAt, Stays, Active, Deleted

(* The statement of the change at hand changes its row only, to a version    *)
(* captured, and the row then follows its log whether the change is taken    *)
(* for applied or not.                                                       *)
LEMMA ExecuteSound ==
    ASSUME IInv, NEW m \in current, ~m.done, Execute(m),
           UNCHANGED <<cdc, lost>>
    PROVE  /\ FollowsAt(m.row, m.n)'
           /\ FollowsAt(m.row, m.n - 1)'
<1> DEFINE r == m.row
           n == m.n
<1>1. /\ r \in Rows /\ n \in Nat /\ 1 <= n /\ n <= Len(cdc[r])
      /\ cdc[r][n] \in {"c", "u", "d"} /\ Done(r) = n - 1
  BY CurrentFacts
<1>2. /\ Len(cdc[r]) \in Nat /\ cdc[r] \in Seq({"c", "u", "d"})
      /\ passive[r] \in Nat /\ passive[r] <= Len(cdc[r])
  BY <1>1, RowFacts
<1>3. passive'[r] = Applied(cdc[r][n], passive[r], n)
  BY <1>1 DEF Execute, IInv, TypeOK
<1>4. /\ cdc[r][n] = "c" <=> n = 1 \/ cdc[r][n - 1] = "d"
      /\ FollowsAt(r, n - 1)
  BY <1>1 DEF IInv, WellFormed, Follows
<1>5. n > 1 => n - 1 \in 1 .. Len(cdc[r])
  BY <1>1, <1>2
<1>6. n \in 1 .. Len(cdc[r])
  BY <1>1, <1>2
<1> HIDE DEF r, n
<1>7. ASSUME lost[r] \subseteq {"unidentified"}
      PROVE  /\ Stays(r, n) => passive'[r] # 0
             /\ \A k \in 1 .. Len(cdc[r]) :
                   k <= n /\ cdc[r][k] = "d" => passive'[r] = 0 \/ passive'[r] > k
  <2>1. /\ Stays(r, n - 1) => passive[r] # 0
        /\ \A k \in 1 .. Len(cdc[r]) :
              k <= n - 1 /\ cdc[r][k] = "d" => passive[r] = 0 \/ passive[r] > k
    BY <1>4, <1>7 DEF FollowsAt
  <2>2. CASE cdc[r][n] = "c"
    <3>1. passive'[r] = IF passive[r] = 0 THEN n ELSE passive[r]
      BY <1>3, <2>2 DEF Applied, ApplyInsert
    <3>. QED
      BY <1>1, <1>2, <2>1, <2>2, <3>1
  <2>3. CASE cdc[r][n] = "u"
    <3>1. passive'[r] = IF passive[r] = 0 THEN 0 ELSE n
      BY <1>3, <2>3 DEF Applied, ApplyUpdate
    <3>2. n > 1 /\ cdc[r][n - 1] # "d"
      BY <1>1, <1>4, <2>3
    <3>3. Stays(r, n) => Stays(r, n - 1)
      BY <1>1, <1>2, <3>2 DEF Stays
    <3>. QED
      BY <1>1, <1>2, <2>1, <2>3, <3>1, <3>3
  <2>4. CASE cdc[r][n] = "d"
    <3>1. passive'[r] = 0
      BY <1>3, <2>4 DEF Applied, ApplyDelete
    <3>2. ~Stays(r, n)
      BY <1>1, <1>6, <2>4 DEF Stays
    <3>. QED
      BY <3>1, <3>2
  <2>. QED
    BY <1>1, <2>2, <2>3, <2>4
<1>8. ASSUME lost[r] = {}, n = Len(cdc[r])
      PROVE  passive'[r] = Active(r)
  <2>1. /\ Stays(r, n - 1) => passive[r] # 0
        /\ \A k \in 1 .. Len(cdc[r]) :
              k <= n - 1 /\ cdc[r][k] = "d" => passive[r] = 0 \/ passive[r] > k
    BY <1>4, <1>8 DEF FollowsAt
  <2>2. /\ cdc[r][n] = "d" => Active(r) = 0
        /\ cdc[r][n] # "d" => Active(r) = n
    BY <1>1, <1>2, <1>8 DEF Active, Deleted
  <2>3. CASE cdc[r][n] = "c"
    <3>1. passive'[r] = IF passive[r] = 0 THEN n ELSE passive[r]
      BY <1>3, <2>3 DEF Applied, ApplyInsert
    <3>2. n > 1 => passive[r] = 0 \/ passive[r] > n - 1
      BY <1>1, <1>4, <1>5, <2>1, <2>3
    <3>. QED
      BY <1>1, <1>2, <1>8, <2>2, <2>3, <3>1, <3>2
  <2>4. CASE cdc[r][n] = "u"
    <3>1. passive'[r] = IF passive[r] = 0 THEN 0 ELSE n
      BY <1>3, <2>4 DEF Applied, ApplyUpdate
    <3>2. n > 1 /\ cdc[r][n - 1] # "d"
      BY <1>1, <1>4, <2>4
    <3>3. Stays(r, n - 1)
      BY <1>1, <1>2, <1>8, <2>4, <3>2 DEF Stays
    <3>. QED
      BY <2>1, <2>2, <2>4, <3>1, <3>3
  <2>5. CASE cdc[r][n] = "d"
    BY <1>3, <2>2, <2>5 DEF Applied, ApplyDelete
  <2>. QED
    BY <1>1, <2>3, <2>4, <2>5
<1>9. Stays(r, n - 1) => Stays(r, n)
  BY <1>1, <1>2 DEF Stays
<1>10. UNCHANGED <<cdc, lost>> /\ Active(r)' = Active(r)
  BY DEF Active, Deleted
<1>11. FollowsAt(r, n)'
  BY <1>7, <1>8, <1>10 DEF FollowsAt, Stays
<1>12. FollowsAt(r, n - 1)'
  BY <1>1, <1>2, <1>7, <1>9, <1>10 DEF FollowsAt, Stays
<1>. QED
  BY <1>11, <1>12 DEF r, n

(* An update that names no row leaves the row as it is, which was there.     *)
LEMMA UnidentifiedSound ==
    ASSUME IInv, NEW m \in current, ~m.done, cdc[m.row][m.n] = "u",
           UNCHANGED <<cdc, passive>>,
           lost' = [lost EXCEPT ![m.row] = @ \cup {"unidentified"}]
    PROVE  FollowsAt(m.row, m.n)'
<1> DEFINE r == m.row
           n == m.n
<1>1. /\ r \in Rows /\ n \in Nat /\ 1 <= n /\ n <= Len(cdc[r]) /\ Done(r) = n - 1
  BY CurrentFacts
<1>2. /\ Len(cdc[r]) \in Nat /\ n \in 1 .. Len(cdc[r])
      /\ lost'[r] = lost[r] \cup {"unidentified"}
  BY <1>1, RowFacts DEF IInv, TypeOK
<1>3. /\ n > 1 /\ cdc[r][n - 1] # "d" /\ cdc[r][n] = "u"
      /\ FollowsAt(r, n - 1)
  BY <1>1, <1>2 DEF IInv, WellFormed, Follows
<1> HIDE DEF r, n
<1>4. Stays(r, n) => Stays(r, n - 1)
  BY <1>1, <1>2, <1>3 DEF Stays
<1>5. ASSUME lost'[r] \subseteq {"unidentified"}
      PROVE  /\ Stays(r, n) => passive[r] # 0
             /\ \A k \in 1 .. Len(cdc[r]) :
                   k <= n /\ cdc[r][k] = "d" => passive[r] = 0 \/ passive[r] > k
  <2>1. lost[r] \subseteq {"unidentified"}
    BY <1>2, <1>5
  <2>2. ASSUME NEW k \in 1 .. Len(cdc[r]), k <= n, cdc[r][k] = "d"
        PROVE  passive[r] = 0 \/ passive[r] > k
    <3>1. k <= n - 1
      BY <1>1, <1>2, <1>3, <2>2
    <3>. QED
      BY <1>3, <2>1, <2>2, <3>1 DEF FollowsAt
  <2>. QED
    BY <1>3, <1>4, <2>1, <2>2 DEF FollowsAt
<1>6. lost'[r] # {}
  BY <1>2
<1>7. FollowsAt(r, n)'
  BY <1>5, <1>6 DEF FollowsAt, Stays
<1>. QED
  BY <1>7 DEF r, n

-----------------------------------------------------------------------------
LEMMA InitInv == Init => IInv
<1> SUFFICES ASSUME Init PROVE IInv
  OBVIOUS
<1>1. TypeOK
  <2>1. NewBreaker("closed") \in Breakers({"loop"})
    BY NewBreakerType
  <2>2. /\ cdc \in [Rows -> Seq({"c", "u", "d"})]
        /\ lost \in [Rows -> SUBSET Reasons]
        /\ \A r \in Rows : Len(cdc[r]) = 0
    BY DEF Init
  <2>3. /\ passive \in [Rows -> Nat] /\ position \in [Rows -> Nat]
        /\ committed \in [Rows -> Nat]
        /\ \A r \in Rows : passive[r] = 0 /\ position[r] = 0 /\ committed[r] = 0
    BY DEF Init
  <2>4. /\ routed \in BOOLEAN /\ identityFull \in BOOLEAN /\ stopping = FALSE
        /\ breaker = NewBreaker("closed")
    BY DEF Init
  <2>5. failed \in 0 .. 3 /\ faults \in 0 .. MaxFaults
    BY SyncAssumption DEF Init
  <2>6. current \subseteq Change /\ \A m \in current : current = {m}
    BY DEF Init
  <2>7. \A r \in Rows :
          /\ committed[r] <= position[r]
          /\ position[r] <= Len(cdc[r])
          /\ passive[r] <= Len(cdc[r])
    BY <2>2, <2>3
  <2>8. breaker \in Breakers({"loop"}) /\ stopping \in BOOLEAN
    BY <2>1, <2>4
  <2>. QED
    BY <2>2, <2>3, <2>4, <2>5, <2>6, <2>7, <2>8 DEF TypeOK
<1>2. AtPosition
  BY DEF Init, AtPosition
<1>3. Counted /\ LossesAreFounded
  BY NewBreakerType DEF Init, Counted, LossesAreFounded
<1>4. ASSUME NEW r \in Rows PROVE WellFormed(r) /\ Follows(r)
  BY SyncAssumption DEF Init, WellFormed, Follows, FollowsAt, Stays, Done, Pending,
                        Active, Deleted
<1>. QED
  BY <1>1, <1>2, <1>3, <1>4 DEF IInv

LEMMA CaptureInv ==
    ASSUME IInv, NEW r \in Rows, Capture(r)
    PROVE  IInv'
<1>1. PICK op \in IF Active(r) = 0 THEN {"c"} ELSE {"u", "d"} :
         cdc' = [cdc EXCEPT ![r] = Append(@, op)]
  BY DEF Capture
<1>2. /\ UNCHANGED <<routed, identityFull, passive, position, committed, current,
                     breaker, stopping, lost, failed, faults>>
      /\ Len(cdc[r]) < MaxChanges
  BY DEF Capture, config
<1>3. /\ cdc[r] \in Seq({"c", "u", "d"}) /\ Len(cdc[r]) \in Nat
      /\ op \in {"c", "u", "d"}
      /\ op = "c" <=> Len(cdc[r]) = 0 \/ cdc[r][Len(cdc[r])] = "d"
  <2>1. cdc[r] \in Seq({"c", "u", "d"}) /\ Len(cdc[r]) \in Nat
    BY RowFacts
  <2>2. op \in {"c", "u", "d"} /\ (op = "c" <=> Active(r) = 0)
    BY <1>1
  <2>3. Active(r) = 0 <=> Len(cdc[r]) = 0 \/ cdc[r][Len(cdc[r])] = "d"
    BY <2>1 DEF Active, Deleted
  <2>. QED
    BY <2>1, <2>2, <2>3
<1>4. /\ cdc' \in [Rows -> Seq({"c", "u", "d"})]
      /\ cdc'[r] = Append(cdc[r], op)
      /\ \A q \in Rows \ {r} : cdc'[q] = cdc[q]
  BY <1>1, <1>3 DEF IInv, TypeOK
<1>5. /\ Len(cdc'[r]) = Len(cdc[r]) + 1
      /\ \A i \in 1 .. Len(cdc[r]) : cdc'[r][i] = cdc[r][i]
      /\ cdc'[r][Len(cdc[r]) + 1] = op
  BY <1>3, <1>4
<1>6. TypeOK'
  <2>1. ASSUME NEW q \in Rows
        PROVE  committed[q] <= position[q] /\ position[q] <= Len(cdc'[q])
               /\ passive[q] <= Len(cdc'[q])
    <3>1. CASE q = r
      BY <3>1, <1>3, <1>5, RowFacts DEF IInv, TypeOK
    <3>2. CASE q # r
      BY <3>2, <1>4 DEF IInv, TypeOK
    <3>. QED
      BY <3>1, <3>2
  <2>. QED
    BY <1>2, <1>4, <2>1 DEF IInv, TypeOK
<1>7. AtPosition' /\ Counted' /\ LossesAreFounded'
  BY <1>2 DEF IInv, AtPosition, Counted, LossesAreFounded
<1>8. ASSUME NEW q \in Rows PROVE WellFormed(q)' /\ Follows(q)'
  <2>1. Done(q)' = Done(q) /\ Done(q) \in Nat /\ committed[q] <= Done(q)
    BY <1>2, RowFacts DEF Done, Pending
  <2>2. CASE q = r
    <3>1. WellFormed(r)'
      <4>1. ASSUME NEW i \in 1 .. Len(cdc'[r])
            PROVE  cdc'[r][i] = "c" <=> i = 1 \/ cdc'[r][i - 1] = "d"
        <5>1. CASE i \in 1 .. Len(cdc[r])
          <6>1. /\ cdc'[r][i] = cdc[r][i]
                /\ i # 1 => cdc'[r][i - 1] = cdc[r][i - 1]
            BY <1>3, <1>5, <5>1
          <6>2. cdc[r][i] = "c" <=> i = 1 \/ cdc[r][i - 1] = "d"
            BY <5>1 DEF IInv, WellFormed
          <6>. QED
            BY <6>1, <6>2
        <5>2. CASE i = Len(cdc[r]) + 1
          <6>1. i # 1 => cdc'[r][i - 1] = cdc[r][Len(cdc[r])]
            BY <1>3, <1>5, <5>2
          <6>. QED
            BY <1>3, <1>5, <5>2, <6>1
        <5>. QED
          BY <1>3, <1>5, <4>1, <5>1, <5>2
      <4>2. Len(cdc'[r]) <= MaxChanges
        BY <1>2, <1>3, <1>5, SyncAssumption
      <4>. QED
        BY <4>1, <4>2 DEF WellFormed
    <3>2. Done(r) <= Len(cdc[r]) /\ Done(r) \in Nat
      BY <1>3, RowFacts
    <3>3. ASSUME Stays(r, Done(r))', lost[r] \subseteq {"unidentified"}
          PROVE  passive[r] # 0
      <4>1. Stays(r, Done(r))
        BY <1>3, <1>5, <2>1, <2>2, <3>2, <3>3 DEF Stays
      <4>. QED
        BY <3>3, <4>1 DEF IInv, Follows, FollowsAt
    <3>4. ASSUME NEW k \in 1 .. Len(cdc'[r]), k <= Done(r), cdc'[r][k] = "d",
                 lost[r] \subseteq {"unidentified"}
          PROVE  passive[r] = 0 \/ passive[r] > k
      <4>1. k \in 1 .. Len(cdc[r]) /\ cdc[r][k] = "d"
        BY <1>3, <1>5, <3>2, <3>4
      <4>. QED
        BY <3>4, <4>1 DEF IInv, Follows, FollowsAt
    <3>5. Done(r) # Len(cdc'[r])
      BY <1>3, <1>5, <3>2
    <3>6. FollowsAt(r, Done(r))'
      BY <1>2, <2>1, <2>2, <3>3, <3>4, <3>5 DEF FollowsAt
    <3>. QED
      BY <1>2, <2>1, <2>2, <3>1, <3>6 DEF Follows
  <2>3. CASE q # r
    <3>1. WellFormed(q)'
      BY <1>4, <2>3 DEF IInv, WellFormed
    <3>2. FollowsAt(q, Done(q))'
      BY <1>2, <1>4, <2>1, <2>3, FollowsUnchanged DEF IInv, Follows
    <3>. QED
      BY <1>2, <2>1, <3>1, <3>2 DEF Follows
  <2>. QED
    BY <2>2, <2>3
<1>. QED
  BY <1>6, <1>7, <1>8 DEF IInv

(* A step that leaves the rows alone and calls no change done that was not.  *)
LEMMA RowsUntouched ==
    ASSUME IInv, UNCHANGED <<cdc, passive, committed, lost>>,
           \A r \in Rows : Done(r)' = Done(r)
    PROVE  \A r \in Rows : WellFormed(r)' /\ Follows(r)'
<1> SUFFICES ASSUME NEW r \in Rows PROVE WellFormed(r)' /\ Follows(r)'
  OBVIOUS
<1>1. WellFormed(r)'
  BY DEF IInv, WellFormed
<1>2. Done(r) \in Nat /\ FollowsAt(r, Done(r)) /\ committed[r] <= Done(r)
  BY RowFacts DEF IInv, Follows
<1>3. Done(r)' = Done(r)
  OBVIOUS
<1>4. FollowsAt(r, Done(r))'
  BY <1>2, <1>3 DEF FollowsAt, Stays, Active, Deleted
<1>. QED
  BY <1>1, <1>2, <1>3, <1>4 DEF Follows

LEMMA ReadMessageInv ==
    ASSUME IInv, NEW r \in Rows, ReadMessage(r)
    PROVE  IInv'
<1> DEFINE m == [row |-> r, n |-> position[r] + 1, attempt |-> 1, done |-> FALSE]
<1>1. /\ current = {} /\ current' = {m} /\ position[r] < Len(cdc[r])
      /\ position' = [position EXCEPT ![r] = @ + 1]
      /\ UNCHANGED <<routed, identityFull, cdc, passive, committed, breaker, stopping,
                     lost, failed, faults>>
  BY DEF ReadMessage, config
<1>2. /\ position \in [Rows -> Nat] /\ position[r] \in Nat
      /\ Len(cdc[r]) \in Nat /\ Len(cdc[r]) <= MaxChanges
      /\ \A q \in Rows : position[q] \in Nat /\ committed[q] \in Nat
  BY RowFacts DEF IInv, TypeOK, WellFormed
<1>3. m \in Change
  BY <1>1, <1>2, SyncAssumption DEF Change, Attempts
<1>4. m.row = r /\ m.n = position[r] + 1 /\ m.attempt = 1 /\ m.done = FALSE
  OBVIOUS
<1> HIDE DEF m
<1>5. TypeOK'
  <2>1. position' \in [Rows -> Nat]
    BY <1>1, <1>2
  <2>2. ASSUME NEW q \in Rows
        PROVE  committed[q] <= position'[q] /\ position'[q] <= Len(cdc[q])
               /\ passive[q] <= Len(cdc[q])
    BY <1>1, <1>2 DEF IInv, TypeOK
  <2>. QED
    BY <1>1, <1>3, <2>1, <2>2 DEF IInv, TypeOK
<1>6. AtPosition'
  BY <1>1, <1>2, <1>4 DEF AtPosition
<1>7. Counted' /\ LossesAreFounded'
  <2>1. failed \in Nat
    BY DEF IInv, TypeOK
  <2>. QED
    BY <1>1, <1>4, <2>1 DEF IInv, Counted, LossesAreFounded
<1>8. ASSUME NEW q \in Rows PROVE Done(q)' = Done(q)
  <2>1. ~Pending(q)
    BY <1>1 DEF Pending
  <2>2. Pending(q)' <=> q = r
    BY <1>1, <1>4 DEF Pending
  <2>. QED
    BY <1>1, <1>2, <2>1, <2>2 DEF Done
<1>9. \A q \in Rows : WellFormed(q)' /\ Follows(q)'
  BY <1>1, <1>8, RowsUntouched
<1>. QED
  BY <1>5, <1>6, <1>7, <1>9 DEF IInv

(* A step of the change at hand that keeps its row and number.  What is left *)
(* of the rows depends on whether it is done with, and how.                  *)
LEMMA ChangeRows ==
    ASSUME IInv, NEW m \in current, ~m.done,
           NEW e \in Change, e.row = m.row, e.n = m.n, current' = {e},
           UNCHANGED <<cdc, position, committed>>,
           \/ ~e.done /\ UNCHANGED lost /\ (Execute(m) \/ UNCHANGED passive)
           \/ e.done /\ UNCHANGED lost /\ Execute(m)
           \/ /\ e.done /\ cdc[m.row][m.n] = "u" /\ UNCHANGED passive
              /\ lost' = [lost EXCEPT ![m.row] = @ \cup {"unidentified"}]
           \/ /\ e.done /\ (Execute(m) \/ UNCHANGED passive)
              /\ \E why \in Reasons \ {"unidentified"} :
                    lost' = [lost EXCEPT ![m.row] = @ \cup {why}]
    PROVE  /\ passive' \in [Rows -> Nat]
           /\ \A r \in Rows : passive'[r] <= Len(cdc[r])
           /\ lost' \in [Rows -> SUBSET Reasons]
           /\ AtPosition'
           /\ \A r \in Rows : WellFormed(r)' /\ Follows(r)'
<1>1. /\ current = {m} /\ m \in Change /\ m.row \in Rows /\ e.done \in BOOLEAN
      /\ m.n = position[m.row] /\ m.n \in Nat /\ 1 <= m.n /\ m.n <= Len(cdc[m.row])
      /\ cdc[m.row][m.n] \in {"c", "u", "d"} /\ Done(m.row) = m.n - 1
  BY CurrentFacts, ChangeType
<1>2. /\ lost' \in [Rows -> SUBSET Reasons]
      /\ \A r \in Rows \ {m.row} : lost'[r] = lost[r]
  <2>1. lost \in [Rows -> SUBSET Reasons]
    BY DEF IInv, TypeOK
  <2>2. \A why \in Reasons :
           lost' = [lost EXCEPT ![m.row] = @ \cup {why}] =>
              /\ lost' \in [Rows -> SUBSET Reasons]
              /\ \A r \in Rows \ {m.row} : lost'[r] = lost[r]
    BY <1>1, <2>1
  <2>3. "unidentified" \in Reasons
    BY DEF Reasons
  <2>. QED
    BY <2>1, <2>2, <2>3
<1>3. /\ passive' \in [Rows -> Nat]
      /\ \A r \in Rows \ {m.row} : passive'[r] = passive[r]
      /\ \A r \in Rows : passive'[r] <= Len(cdc[r])
  <2>1. passive \in [Rows -> Nat] /\ \A r \in Rows : passive[r] <= Len(cdc[r])
    BY DEF IInv, TypeOK
  <2>2. CASE UNCHANGED passive
    BY <2>1, <2>2
  <2>3. CASE Execute(m)
    <3>1. /\ Applied(cdc[m.row][m.n], passive[m.row], m.n) \in Nat
          /\ Applied(cdc[m.row][m.n], passive[m.row], m.n) <= Len(cdc[m.row])
      <4>1. passive[m.row] \in Nat /\ passive[m.row] <= Len(cdc[m.row])
            /\ Len(cdc[m.row]) \in Nat
        BY <1>1, RowFacts
      <4>. QED
        BY <1>1, <4>1 DEF Applied, ApplyInsert, ApplyUpdate, ApplyDelete
    <3>. QED
      BY <1>1, <2>1, <2>3, <3>1 DEF Execute
  <2>. QED
    BY <2>2, <2>3
<1>4. AtPosition'
  BY <1>1 DEF AtPosition
<1>5. ASSUME NEW r \in Rows PROVE WellFormed(r)' /\ Follows(r)'
  <2>1. WellFormed(r)'
    BY DEF IInv, WellFormed
  <2>2. CASE r # m.row
    <3>1. Done(r)' = Done(r) /\ Done(r) \in Nat /\ committed[r] <= Done(r)
      BY <1>1, <2>2, RowFacts DEF Done, Pending
    <3>2. FollowsAt(r, Done(r))
      BY DEF IInv, Follows
    <3>3. cdc'[r] = cdc[r] /\ passive'[r] = passive[r] /\ lost'[r] = lost[r]
      BY <1>2, <1>3, <2>2
    <3>4. FollowsAt(r, Done(r))'
      BY <3>1, <3>2, <3>3 DEF FollowsAt, Stays, Active, Deleted
    <3>. QED
      BY <2>1, <3>1, <3>4 DEF Follows
  <2>3. CASE r = m.row
    <3>1. Done(r)' = IF e.done THEN m.n ELSE m.n - 1
      BY <1>1, <2>3 DEF Done, Pending
    <3>2. committed'[r] <= Done(r)'
      BY <1>1, <2>3, <3>1, RowFacts
    <3>3. CASE ~e.done /\ UNCHANGED lost /\ (Execute(m) \/ UNCHANGED passive)
      <4>1. FollowsAt(r, m.n - 1)
        BY <1>1, <2>3 DEF IInv, Follows
      <4>2. FollowsAt(r, m.n - 1)'
        <5>1. CASE Execute(m)
          BY <2>3, <3>3, <5>1, ExecuteSound
        <5>2. CASE UNCHANGED passive
          BY <3>3, <4>1, <1>1, <5>2 DEF FollowsAt, Stays, Active, Deleted
        <5>. QED
          BY <3>3, <5>1, <5>2
      <4>. QED
        BY <2>1, <3>1, <3>2, <3>3, <4>2 DEF Follows, FollowsAt, Stays
    <3>4. CASE e.done /\ UNCHANGED lost /\ Execute(m)
      <4>1. FollowsAt(r, m.n)'
        BY <2>3, <3>4, ExecuteSound
      <4>. QED
        BY <2>1, <3>1, <3>2, <3>4, <4>1 DEF Follows, FollowsAt, Stays
    <3>5. CASE /\ e.done /\ cdc[m.row][m.n] = "u" /\ UNCHANGED passive
               /\ lost' = [lost EXCEPT ![m.row] = @ \cup {"unidentified"}]
      <4>1. FollowsAt(r, m.n)'
        BY <2>3, <3>5, UnidentifiedSound
      <4>. QED
        BY <2>1, <3>1, <3>2, <3>5, <4>1 DEF Follows, FollowsAt, Stays
    <3>6. ASSUME NEW why \in Reasons \ {"unidentified"},
                 lost' = [lost EXCEPT ![m.row] = @ \cup {why}]
          PROVE  Follows(r)'
      <4>1. lost'[r] = lost[r] \cup {why}
        BY <1>1, <2>3, <3>6 DEF IInv, TypeOK
      <4>2. ~(lost'[r] \subseteq {"unidentified"}) /\ lost'[r] # {}
        BY <4>1
      <4>. QED
        BY <3>2, <4>2 DEF Follows, FollowsAt
    <3>. QED
      BY <2>1, <3>3, <3>4, <3>5, <3>6
  <2>. QED
    BY <2>2, <2>3
<1>. QED
  BY <1>2, <1>3, <1>4, <1>5

(* The change at hand is given up for a reason; the rest is as it was.       *)
LEMMA GivenUp ==
    ASSUME IInv, NEW m \in current, ~m.done,
           NEW why \in Reasons \ {"unidentified"}, GivesUp(m, why),
           why = "failures" => failed' = 3, why = "stopped" => failed' >= 1,
           why = "unrouted" => ~routed,
           Execute(m) \/ UNCHANGED passive,
           breaker' \in Breakers({"loop"}),
           breaker'.state = "closed" => breaker'.failures <= failed',
           breaker'.state # "closed" => failed' = 3,
           failed' \in 0 .. 3, failed <= failed', faults' \in 0 .. MaxFaults,
           UNCHANGED <<routed, identityFull, cdc, position, committed, stopping>>
    PROVE  IInv'
<1> DEFINE e == [m EXCEPT !.done = TRUE]
<1>1. m \in Change /\ m.row \in Rows
  BY CurrentFacts
<1>2. e \in Change /\ e.row = m.row /\ e.n = m.n /\ e.done = TRUE
  BY <1>1, ChangeType
<1> HIDE DEF e
<1>3. current' = {e} /\ lost' = [lost EXCEPT ![m.row] = @ \cup {why}]
  BY DEF GivesUp, e
<1>4. /\ passive' \in [Rows -> Nat]
      /\ \A r \in Rows : passive'[r] <= Len(cdc[r])
      /\ lost' \in [Rows -> SUBSET Reasons]
      /\ AtPosition'
      /\ \A r \in Rows : WellFormed(r)' /\ Follows(r)'
  BY <1>2, <1>3, ChangeRows
<1>5. TypeOK'
  BY <1>2, <1>3, <1>4 DEF IInv, TypeOK
<1>6. Counted'
  BY <1>2, <1>3 DEF Counted
<1>7. LossesAreFounded'
  <2>1. failed \in 0 .. 3 /\ lost \in [Rows -> SUBSET Reasons] /\ LossesAreFounded
    BY DEF IInv, TypeOK
  <2>2. \A r \in Rows : lost'[r] = IF r = m.row THEN lost[r] \cup {why} ELSE lost[r]
    BY <1>1, <1>3, <2>1
  <2>3. ASSUME NEW r \in Rows
        PROVE  /\ "failures" \in lost'[r] => failed' = 3
               /\ "stopped" \in lost'[r] => failed' >= 1
               /\ "unidentified" \in lost'[r] => ~identityFull
               /\ "unrouted" \in lost'[r] => ~routed
    <3>1. /\ "failures" \in lost[r] => failed = 3
          /\ "stopped" \in lost[r] => failed >= 1
          /\ "unidentified" \in lost[r] => ~identityFull
          /\ "unrouted" \in lost[r] => ~routed
      BY <2>1 DEF LossesAreFounded
    <3>2. (failed = 3 => failed' = 3) /\ (failed >= 1 => failed' >= 1)
      BY <2>1
    <3>3. \A w \in lost'[r] : w \in lost[r] \/ w = why
      BY <2>2
    <3>. QED
      BY <3>1, <3>2, <3>3
  <2>. QED
    BY <2>3 DEF LossesAreFounded
<1>. QED
  BY <1>4, <1>5, <1>6, <1>7 DEF IInv

(* What an attempt knows of the failures before it.                          *)
LEMMA AttemptFacts ==
    ASSUME IInv, NEW m \in current, ~m.done
    PROVE  /\ m \in Change /\ m.attempt \in 1 .. Attempts /\ m.row \in Rows
           /\ breaker \in Breakers({"loop"})
           /\ failed \in 0 .. 3 /\ faults \in 0 .. MaxFaults /\ MaxFaults \in Nat
           /\ breaker.state = "closed" => breaker.failures <= failed
           /\ breaker.state # "closed" => failed = 3
           /\ failed < 3 => m.attempt - 1 <= failed
<1>1. /\ m \in Change /\ breaker \in Breakers({"loop"}) /\ failed \in 0 .. 3
      /\ faults \in 0 .. MaxFaults /\ Counted
  BY DEF IInv, TypeOK
<1>2. m.attempt \in 1 .. Attempts /\ m.row \in Rows
  BY <1>1, ChangeType
<1>. QED
  BY <1>1, <1>2, SyncAssumption DEF Counted

(* Retry after a failure that the breaker and failed have counted.           *)
LEMMA NextAttemptSound ==
    ASSUME IInv, NEW m \in current, ~m.done, NextAttempt(m),
           Execute(m) \/ UNCHANGED passive,
           breaker' \in Breakers({"loop"}),
           breaker'.state = "closed" => breaker'.failures <= failed',
           breaker'.state # "closed" => failed' = 3,
           failed' = IF failed = 3 THEN 3 ELSE failed + 1,
           faults' \in 0 .. MaxFaults,
           UNCHANGED <<routed, identityFull, cdc, position, committed, stopping>>
    PROVE  IInv'
<1>1. /\ m \in Change /\ m.attempt \in 1 .. Attempts /\ m.row \in Rows
      /\ failed \in 0 .. 3
      /\ failed < 3 => m.attempt - 1 <= failed
  BY AttemptFacts
<1>2. failed' \in 0 .. 3 /\ failed <= failed' /\ failed' >= 1
  BY <1>1
<1>3. CASE m.attempt = Attempts
  <2>1. failed' = 3
    BY <1>1, <1>3 DEF Attempts
  <2>2. GivesUp(m, "failures") /\ "failures" \in Reasons \ {"unidentified"}
    BY <1>3 DEF NextAttempt, Reasons
  <2>. QED
    BY <1>2, <2>1, <2>2, GivenUp
<1>4. CASE m.attempt # Attempts /\ stopping
  <2>1. GivesUp(m, "stopped") /\ "stopped" \in Reasons \ {"unidentified"}
    BY <1>4 DEF NextAttempt, Reasons
  <2>. QED
    BY <1>2, <2>1, GivenUp
<1>5. CASE m.attempt # Attempts /\ ~stopping
  <2> DEFINE e == [m EXCEPT !.attempt = @ + 1]
  <2>1. m.attempt < Attempts
    BY <1>1, <1>5 DEF Attempts
  <2>2. /\ e \in Change /\ e.row = m.row /\ e.n = m.n /\ e.done = m.done
        /\ e.attempt = m.attempt + 1
    BY <1>1, <2>1, ChangeType
  <2> HIDE DEF e
  <2>3. current' = {e} /\ UNCHANGED lost
    BY <1>5 DEF NextAttempt, e
  <2>4. /\ passive' \in [Rows -> Nat]
        /\ \A r \in Rows : passive'[r] <= Len(cdc[r])
        /\ lost' \in [Rows -> SUBSET Reasons]
        /\ AtPosition'
        /\ \A r \in Rows : WellFormed(r)' /\ Follows(r)'
    BY <2>2, <2>3, ChangeRows
  <2>5. TypeOK'
    BY <1>2, <2>2, <2>3, <2>4 DEF IInv, TypeOK
  <2>6. Counted'
    BY <1>1, <2>2, <2>3 DEF Counted
  <2>7. LossesAreFounded'
    BY <1>1, <2>3 DEF IInv, LossesAreFounded
  <2>. QED
    BY <2>4, <2>5, <2>6, <2>7 DEF IInv
<1>. QED
  BY <1>3, <1>4, <1>5

LEMMA AttemptInv ==
    ASSUME IInv, Attempt
    PROVE  IInv'
<1>1. PICK m \in current :
        /\ ~m.done
        /\ AttemptSucceeds(m) \/ AttemptFails(m) \/ AttemptRefused(m)
        /\ UNCHANGED <<config, cdc, position, committed, stopping>>
  BY DEF Attempt
<1>2. UNCHANGED <<routed, identityFull, cdc, position, committed, stopping>>
  BY <1>1 DEF config
<1>3. /\ m \in Change /\ m.attempt \in 1 .. Attempts /\ m.row \in Rows
      /\ breaker \in Breakers({"loop"})
      /\ failed \in 0 .. 3 /\ faults \in 0 .. MaxFaults /\ MaxFaults \in Nat
      /\ breaker.state = "closed" => breaker.failures <= failed
      /\ breaker.state # "closed" => failed = 3
      /\ failed < 3 => m.attempt - 1 <= failed
  BY <1>1, AttemptFacts
<1>4. failed \in Nat /\ (breaker.state # "closed" => failed >= 3)
  BY <1>3
<1>5. CASE AttemptSucceeds(m)
  <2> DEFINE e == [m EXCEPT !.done = TRUE]
  <2>1. e \in Change /\ e.row = m.row /\ e.n = m.n /\ e.done = TRUE
    BY <1>3, ChangeType
  <2> HIDE DEF e
  <2>2. /\ Admits(breaker)
        /\ breaker' = Reported(Entered(breaker, "loop"), "loop", TRUE)
        /\ UNCHANGED <<failed, faults>>
    BY <1>5 DEF AttemptSucceeds
  <2>3. /\ breaker' \in Breakers({"loop"})
        /\ breaker'.state = "closed" => breaker'.failures <= failed
        /\ breaker'.state # "closed" => failed >= 3
    BY <1>3, <1>4, <2>2, CallCounted
  <2>4. /\ current' = {e}
        /\ \/ /\ cdc[m.row][m.n] = "u" /\ UNCHANGED passive /\ ~identityFull
              /\ lost' = [lost EXCEPT ![m.row] = @ \cup {"unidentified"}]
           \/ UNCHANGED lost /\ Execute(m)
    BY <1>5 DEF AttemptSucceeds, GivesUp, Unidentified, e
  <2>5. /\ passive' \in [Rows -> Nat]
        /\ \A r \in Rows : passive'[r] <= Len(cdc[r])
        /\ lost' \in [Rows -> SUBSET Reasons]
        /\ AtPosition'
        /\ \A r \in Rows : WellFormed(r)' /\ Follows(r)'
    BY <1>1, <1>2, <2>1, <2>4, ChangeRows
  <2>6. TypeOK'
    BY <1>2, <2>1, <2>2, <2>3, <2>4, <2>5 DEF IInv, TypeOK
  <2>7. Counted'
    <3>1. breaker'.state # "closed" => failed = 3
      BY <1>3, <2>3
    <3>. QED
      BY <2>1, <2>2, <2>3, <2>4, <3>1 DEF Counted
  <2>8. LossesAreFounded'
    <3>1. lost \in [Rows -> SUBSET Reasons] /\ LossesAreFounded
      BY DEF IInv, TypeOK
    <3>2. CASE UNCHANGED lost
      BY <1>2, <2>2, <3>1, <3>2 DEF LossesAreFounded
    <3>3. CASE ~identityFull /\ lost' = [lost EXCEPT ![m.row] = @ \cup {"unidentified"}]
      <4>1. \A r \in Rows : lost'[r] \subseteq lost[r] \cup {"unidentified"}
        BY <1>3, <3>1, <3>3
      <4>. QED
        BY <1>2, <2>2, <3>1, <3>3, <4>1 DEF LossesAreFounded
    <3>. QED
      BY <2>4, <3>2, <3>3
  <2>. QED
    BY <2>5, <2>6, <2>7, <2>8 DEF IInv
<1>6. CASE AttemptFails(m)
  <2>1. /\ Admits(breaker) /\ NextAttempt(m)
        /\ Execute(m) \/ UNCHANGED passive
        /\ breaker' = Reported(Entered(breaker, "loop"), "loop", FALSE)
        /\ failed' = IF failed = 3 THEN 3 ELSE failed + 1
        /\ faults' \in {faults, faults + 1} /\ (faults' = faults \/ faults < MaxFaults)
    BY <1>6 DEF AttemptFails, Fault
  <2>2. /\ breaker' \in Breakers({"loop"})
        /\ breaker'.state = "closed" => breaker'.failures <= failed + 1
        /\ breaker'.state # "closed" => failed + 1 >= 3
    BY <1>3, <1>4, <2>1, CallCounted
  <2>3. breaker'.failures \in 0 .. 2
    BY <2>2 DEF Breakers
  <2>4. /\ breaker'.state = "closed" => breaker'.failures <= failed'
        /\ breaker'.state # "closed" => failed' = 3
    <3>1. CASE failed = 3
      <4>1. failed' = 3
        BY <2>1, <3>1
      <4>. QED
        BY <2>3, <4>1
    <3>2. CASE failed # 3
      <4>1. failed' = failed + 1 /\ (failed + 1 >= 3 => failed + 1 = 3)
        BY <1>3, <2>1, <3>2
      <4>. QED
        BY <2>2, <4>1
    <3>. QED
      BY <3>1, <3>2
  <2>5. faults' \in 0 .. MaxFaults
    BY <1>3, <2>1
  <2>. QED
    BY <1>1, <1>2, <2>1, <2>2, <2>4, <2>5, NextAttemptSound
<1>7. CASE AttemptRefused(m)
  <2>1. failed = 3
    BY <1>3, <1>7 DEF AttemptRefused, Admits
  <2>2. NextAttempt(m) /\ UNCHANGED <<passive, breaker, failed, faults>>
    BY <1>7 DEF AttemptRefused
  <2>3. failed' = IF failed = 3 THEN 3 ELSE failed + 1
    BY <2>1, <2>2
  <2>. QED
    BY <1>1, <1>2, <1>3, <2>1, <2>2, <2>3, NextAttemptSound
<1>. QED
  BY <1>1, <1>5, <1>6, <1>7

LEMMA UnroutedInv ==
    ASSUME IInv, Unrouted
    PROVE  IInv'
<1>1. PICK m \in current :
        /\ ~m.done
        /\ ~routed
        /\ GivesUp(m, "unrouted")
        /\ UNCHANGED <<config, cdc, passive, position, committed, breaker, stopping,
                       failed, faults>>
  BY DEF Unrouted
<1>2. "unrouted" \in Reasons \ {"unidentified"}
  BY DEF Reasons
<1>3. /\ breaker \in Breakers({"loop"}) /\ failed \in 0 .. 3 /\ faults \in 0 .. MaxFaults
      /\ breaker.state = "closed" => breaker.failures <= failed
      /\ breaker.state # "closed" => failed = 3
  BY <1>1, AttemptFacts
<1>. QED
  BY <1>1, <1>2, <1>3, GivenUp DEF config

LEMMA ContextDoneInv ==
    ASSUME IInv, ContextDone
    PROVE  IInv'
<1>1. PICK m \in current :
        /\ ~m.done
        /\ m.attempt > 1
        /\ GivesUp(m, "stopped")
        /\ UNCHANGED <<config, cdc, passive, position, committed, breaker, stopping,
                       failed, faults>>
  BY DEF ContextDone
<1>2. "stopped" \in Reasons \ {"unidentified"}
  BY DEF Reasons
<1>3. /\ breaker \in Breakers({"loop"}) /\ failed \in 0 .. 3 /\ faults \in 0 .. MaxFaults
      /\ breaker.state = "closed" => breaker.failures <= failed
      /\ breaker.state # "closed" => failed = 3
      /\ m.attempt \in 1 .. Attempts
      /\ failed < 3 => m.attempt - 1 <= failed
  BY <1>1, AttemptFacts
<1>4. failed >= 1
  BY <1>1, <1>3 DEF Attempts
<1>. QED
  BY <1>1, <1>2, <1>3, <1>4, GivenUp DEF config

LEMMA CommitMessageInv ==
    ASSUME IInv, CommitMessage
    PROVE  IInv'
<1>1. PICK m \in current :
        /\ m.done
        /\ current' = {}
        /\ \/ committed' = [committed EXCEPT ![m.row] = m.n] /\ UNCHANGED faults
           \/ UNCHANGED committed /\ Fault
        /\ UNCHANGED <<config, cdc, passive, position, breaker, stopping, lost, failed>>
  BY DEF CommitMessage
<1>2. current = {m} /\ m \in Change /\ m.row \in Rows /\ m.n = position[m.row]
  BY CurrentFacts
<1>3. /\ committed' \in [Rows -> Nat]
      /\ \A r \in Rows : committed'[r] <= position[r]
  <2>1. CASE committed' = [committed EXCEPT ![m.row] = position[m.row]]
    BY <1>2, <2>1, RowFacts DEF IInv, TypeOK
  <2>2. CASE UNCHANGED committed
    BY <2>2, RowFacts DEF IInv, TypeOK
  <2>. QED
    BY <1>1, <1>2, <2>1, <2>2
<1>4. faults' \in 0 .. MaxFaults
  BY <1>1, SyncAssumption DEF IInv, TypeOK, Fault
<1>5. TypeOK'
  BY <1>1, <1>3, <1>4 DEF IInv, TypeOK, config
<1>6. AtPosition' /\ Counted' /\ LossesAreFounded'
  BY <1>1 DEF IInv, AtPosition, Counted, LossesAreFounded, config
<1>7. ASSUME NEW r \in Rows PROVE WellFormed(r)' /\ Follows(r)'
  <2>1. Done(r) = position[r] /\ Done(r)' = position[r]
    BY <1>1, <1>2 DEF Done, Pending
  <2>2. FollowsAt(r, position[r])
    BY <2>1 DEF IInv, Follows
  <2>3. FollowsAt(r, position[r])'
    BY <1>1, <2>2 DEF FollowsAt, Stays, Active, Deleted
  <2>. QED
    BY <1>1, <1>3, <2>1, <2>3 DEF IInv, WellFormed, Follows
<1>. QED
  BY <1>5, <1>6, <1>7 DEF IInv

LEMMA StopInv ==
    ASSUME IInv, Stop
    PROVE  IInv'
<1>1. /\ stopping' = TRUE /\ faults' = faults + 1 /\ faults < MaxFaults
      /\ UNCHANGED <<routed, identityFull, cdc, passive, position, committed, current,
                     breaker, lost, failed>>
  BY DEF Stop, Fault, config
<1>2. faults' \in 0 .. MaxFaults
  BY <1>1, SyncAssumption DEF IInv, TypeOK
<1>3. TypeOK'
  BY <1>1, <1>2 DEF IInv, TypeOK
<1>4. AtPosition' /\ Counted' /\ LossesAreFounded'
  BY <1>1 DEF IInv, AtPosition, Counted, LossesAreFounded
<1>5. \A r \in Rows : Done(r)' = Done(r)
  BY <1>1 DEF Done, Pending
<1>6. \A r \in Rows : WellFormed(r)' /\ Follows(r)'
  BY <1>1, <1>5, RowsUntouched
<1>. QED
  BY <1>3, <1>4, <1>6 DEF IInv

(* The passive table is where it was, or ahead of the changes that are read  *)
(* again from the commit on.                                                 *)
LEMMA RestartInv ==
    ASSUME IInv, Restart
    PROVE  IInv'
<1>1. /\ current' = {} /\ position' = committed /\ breaker' = NewBreaker("closed")
      /\ stopping' = FALSE
      /\ UNCHANGED <<routed, identityFull, cdc, passive, committed, lost, failed>>
      /\ faults' \in {faults, faults + 1} /\ (faults' = faults \/ faults < MaxFaults)
  BY DEF Restart, Fault, config
<1>2. /\ breaker' \in Breakers({"loop"})
      /\ breaker'.state = "closed" /\ breaker'.failures = 0
  BY <1>1, NewBreakerType
<1>3. TypeOK'
  <2>1. ASSUME NEW r \in Rows
        PROVE  committed[r] <= committed[r] /\ committed[r] <= Len(cdc[r])
    BY RowFacts
  <2>2. faults' \in 0 .. MaxFaults
    BY <1>1, SyncAssumption DEF IInv, TypeOK
  <2>. QED
    BY <1>1, <1>2, <2>1, <2>2 DEF IInv, TypeOK
<1>4. AtPosition' /\ Counted' /\ LossesAreFounded'
  <2>1. failed \in Nat
    BY DEF IInv, TypeOK
  <2>. QED
    BY <1>1, <1>2, <2>1 DEF IInv, AtPosition, Counted, LossesAreFounded
<1>5. ASSUME NEW r \in Rows PROVE WellFormed(r)' /\ Follows(r)'
  <2>1. Done(r)' = committed[r]
    BY <1>1 DEF Done, Pending
  <2>2. /\ committed[r] \in Nat /\ Done(r) \in Nat /\ Len(cdc[r]) \in Nat
        /\ committed[r] <= Done(r) /\ Done(r) <= Len(cdc[r])
    BY RowFacts
  <2>3. FollowsAt(r, Done(r))
    BY DEF IInv, Follows
  <2>4. Stays(r, committed[r]) => Stays(r, Done(r))
    BY <2>2 DEF Stays
  <2>5. FollowsAt(r, committed[r])
    <3>1. ASSUME NEW k \in 1 .. Len(cdc[r]), k <= committed[r] PROVE k <= Done(r)
      BY <2>2, <3>1
    <3>2. committed[r] = Len(cdc[r]) => Done(r) = Len(cdc[r])
      BY <2>2
    <3>. QED
      BY <2>3, <2>4, <3>1, <3>2 DEF FollowsAt
  <2>6. FollowsAt(r, committed[r])'
    BY <1>1, <2>5 DEF FollowsAt, Stays, Active, Deleted
  <2>. QED
    BY <1>1, <2>1, <2>2, <2>6 DEF IInv, WellFormed, Follows
<1>. QED
  BY <1>3, <1>4, <1>5 DEF IInv

LEMMA BreakerElapsesInv ==
    ASSUME IInv, BreakerElapses
    PROVE  IInv'
<1>1. /\ MayElapse(breaker) /\ breaker' = Elapsed(breaker)
      /\ UNCHANGED <<routed, identityFull, cdc, passive, position, committed, current,
                     stopping, lost, failed, faults>>
  BY DEF BreakerElapses, config
<1>2. /\ breaker' \in Breakers({"loop"})
      /\ \/ breaker' = NewBreaker("closed")
         \/ breaker' = NewBreaker("half-open") /\ breaker.state = "open"
  BY <1>1, ElapsedType DEF IInv, TypeOK
<1>3. /\ breaker'.state = "closed" => breaker'.failures = 0
      /\ breaker'.state # "closed" => breaker.state = "open"
  BY <1>2, NewBreakerType
<1>4. TypeOK'
  BY <1>1, <1>2 DEF IInv, TypeOK
<1>5. AtPosition' /\ Counted' /\ LossesAreFounded'
  <2>1. failed \in Nat
    BY DEF IInv, TypeOK
  <2>. QED
    BY <1>1, <1>3, <2>1 DEF IInv, AtPosition, Counted, LossesAreFounded
<1>6. \A r \in Rows : Done(r)' = Done(r)
  BY <1>1 DEF Done, Pending
<1>7. \A r \in Rows : WellFormed(r)' /\ Follows(r)'
  BY <1>1, <1>6, RowsUntouched
<1>. QED
  BY <1>4, <1>5, <1>7 DEF IInv

-----------------------------------------------------------------------------
(* IInv holds in every state of DataSync.                                    *)
THEOREM Inductive == Spec => []IInv
<1>1. IInv /\ [Next]_vars => IInv'
  <2> SUFFICES ASSUME IInv, [Next]_vars PROVE IInv'
    OBVIOUS
  <2>1. CASE UNCHANGED vars
    <3>1. UNCHANGED <<routed, identityFull, cdc, passive, position, committed, current,
                      breaker, stopping, lost, failed, faults>>
      BY <2>1 DEF vars, config
    <3>2. TypeOK' /\ AtPosition' /\ Counted' /\ LossesAreFounded'
      BY <3>1 DEF IInv, TypeOK, AtPosition, Counted, LossesAreFounded
    <3>3. \A r \in Rows : Done(r)' = Done(r)
      BY <3>1 DEF Done, Pending
    <3>4. \A r \in Rows : WellFormed(r)' /\ Follows(r)'
      BY <3>1, <3>3, RowsUntouched
    <3>. QED
      BY <3>2, <3>4 DEF IInv
  <2>2. ASSUME NEW r \in Rows, Capture(r) PROVE IInv'
    BY <2>2, CaptureInv
  <2>3. CASE LoopStep
    BY <2>3, ReadMessageInv, UnroutedInv, AttemptInv, ContextDoneInv, CommitMessageInv
       DEF LoopStep
  <2>4. CASE Stop
    BY <2>4, StopInv
  <2>5. CASE Restart
    BY <2>5, RestartInv
  <2>6. CASE BreakerElapses
    BY <2>6, BreakerElapsesInv
  <2>. QED
    BY <2>1, <2>2, <2>3, <2>4, <2>5, <2>6 DEF Next
<1>. QED
  BY InitInv, <1>1, PTL DEF Spec

(* The variables keep to their sets, and no row of the passive table is of a *)
(* version that was not captured: the code's position never passes the log's *)
(* end, nor the commit the position.                                         *)
THEOREM TypeCorrect == Spec => []TypeOK
<1>1. IInv => TypeOK
  BY DEF IInv
<1>. QED
  BY <1>1, Inductive, PTL

(* applyWithResilience gives no change up before the database failed three   *)
(* times, or once when the process is stopping; apply drops one without an   *)
(* attempt only for a missing pool or table, or a missing row before.        *)
THEOREM LossIsFounded == Spec => []LossesAreFounded
<1>1. IInv => LossesAreFounded
  BY DEF IInv
<1>. QED
  BY <1>1, Inductive, PTL

(* When all changes were read and the last one is done with, the passive row *)
(* is the active one in its last version unless a change of it was given up, *)
(* and exists as that one does unless a change other than an update without  *)
(* a row was, however often Run was restarted and applied old changes again. *)
THEOREM PassiveIsReady == Spec => []ReadyWhenCaughtUp
<1>1. IInv => ReadyWhenCaughtUp
  <2> SUFFICES ASSUME IInv, current = {}, \A r \in Rows : position[r] = Len(cdc[r]),
                      NEW r \in Rows
               PROVE  Agree(r)
    BY DEF ReadyWhenCaughtUp
  <2>1. Done(r) = Len(cdc[r])
    BY DEF Done, Pending
  <2>2. FollowsAt(r, Len(cdc[r]))
    BY <2>1 DEF IInv, Follows
  <2>3. /\ passive[r] \in Nat /\ Len(cdc[r]) \in Nat /\ passive[r] <= Len(cdc[r])
        /\ cdc[r] \in Seq({"c", "u", "d"})
    BY RowFacts
  <2>4. ASSUME lost[r] \subseteq {"unidentified"}
        PROVE  passive[r] = 0 <=> Active(r) = 0
    <3>1. /\ Stays(r, Len(cdc[r])) => passive[r] # 0
          /\ \A k \in 1 .. Len(cdc[r]) :
                k <= Len(cdc[r]) /\ cdc[r][k] = "d" => passive[r] = 0 \/ passive[r] > k
      BY <2>2, <2>4 DEF FollowsAt
    <3>2. CASE Len(cdc[r]) = 0
      BY <2>3, <3>2 DEF Active, Deleted
    <3>3. CASE Len(cdc[r]) > 0 /\ cdc[r][Len(cdc[r])] = "d"
      <4>1. Len(cdc[r]) \in 1 .. Len(cdc[r])
        BY <2>3, <3>3
      <4>2. passive[r] = 0
        BY <2>3, <3>1, <3>3, <4>1
      <4>. QED
        BY <2>3, <3>3, <4>2 DEF Active, Deleted
    <3>4. CASE Len(cdc[r]) > 0 /\ cdc[r][Len(cdc[r])] # "d"
      <4>1. Stays(r, Len(cdc[r]))
        BY <2>3, <3>4 DEF Stays
      <4>. QED
        BY <2>3, <3>1, <3>4, <4>1 DEF Active, Deleted
    <3>. QED
      BY <2>3, <3>2, <3>3, <3>4
  <2>5. lost[r] = {} => passive[r] = Active(r)
    BY <2>2 DEF FollowsAt
  <2>. QED
    BY <2>4, <2>5 DEF Agree
<1>. QED
  BY <1>1, Inductive, PTL
================================================================================
