---------------------------- MODULE EstoqueStoreProofs ----------------------------
(***************************************************************************)
(* Proofs about EstoqueStore, for any products, orders, numbers of         *)
(* consumers and requests, and bounds.                                     *)
(*                                                                         *)
(* StockNeverNegative and TypeOK are not inductive together: what a commit *)
(* writes comes from the uncommitted rows of its transaction, and what     *)
(* Salvar writes from a request, which may have it from the cache.  IInv   *)
(* says of all of them that they hold natural numbers.                     *)
(*                                                                         *)
(* ImplementsLedger needs to know what an open transaction has done:       *)
(* LedgerInv says that it holds its rows alone and that, in them, the      *)
(* items it has come to are moved and no others.  How much they ask for is *)
(* a fold over the order.  Its facts are proved by induction with a set as *)
(* the hypothesis, since the library's induction theorems take an operator.*)
(*                                                                         *)
(* NobodyWaitsInVain is what TransactionsEnd rests on besides fairness: a  *)
(* smallest set of transactions that wait only for each other is one that  *)
(* the deadlock detector finds.                                            *)
(***************************************************************************)
EXTENDS EstoqueStore, TLAPS, WellFoundedInduction, FiniteSetTheorems

Rows == UNION {[S -> Nat] : S \in SUBSET Produtos}

Tx == [saga : Sagas, type : {"reservar", "liberar"}, next : Nat \ {0}, rows : Rows]

NatRequest == [produto : Produtos, add : Restocks \cup {0}, quantity : Nat,
               stage : {"fill", "save", "del"}]

(* A consumer runs at most one transaction, whose "next" is at most one past *)
(* the last item.                                                            *)
TxInv ==
    /\ tx \in [Consumers -> SUBSET Tx]
    /\ \A c \in Consumers : \A t \in tx[c] :
          /\ tx[c] = {t}
          /\ t.next <= Len(Itens[t.saga]) + 1

IInv ==
    /\ produtos \in [Produtos -> Nat]
    /\ cache \in [Produtos -> SUBSET Nat]
    /\ TxInv
    /\ requests \in [Requests -> SUBSET NatRequest]
    /\ answers \in [Sagas -> [Outcomes -> Nat]]
    /\ held \in [Sagas -> Int]
    /\ calls \in 0 .. MaxCalls
    /\ faults \in 0 .. MaxFaults

-----------------------------------------------------------------------------
(* The items of an order have the type of Item.                              *)
LEMMA ItemType ==
    ASSUME NEW t \in Tx, HasItem(t)
    PROVE  /\ Wanted(t).quantidade \in Nat \ {0}
           /\ t.next \in 1 .. Len(Itens[t.saga])
<1>1. Itens[t.saga] \in Seq(Item)
  BY OrdersAssumption DEF Tx
<1>2. t.next \in Nat \ {0} /\ t.next <= Len(Itens[t.saga])
  BY DEF Tx, HasItem
<1>3. Len(Itens[t.saga]) \in Nat
  BY <1>1
<1>4. t.next \in 1 .. Len(Itens[t.saga])
  BY <1>2, <1>3
<1>5. Wanted(t) \in Item
  BY <1>1, <1>4 DEF Wanted
<1>. QED
  BY <1>4, <1>5 DEF Item

(* A transaction sees natural quantities if the table and its own rows hold  *)
(* nothing else.                                                             *)
LEMMA SeenType ==
    ASSUME NEW t \in Tx, NEW p \in Produtos, produtos \in [Produtos -> Nat]
    PROVE  Seen(t, p) \in Nat
<1>1. PICK S \in SUBSET Produtos : t.rows \in [S -> Nat]
  BY DEF Tx, Rows
<1>. QED
  BY <1>1 DEF Seen

(* Updating a row of a transaction to a natural number keeps its type.       *)
LEMMA UpdatedType ==
    ASSUME NEW t \in Tx, NEW q \in Nat, Wanted(t).produto \in Produtos
    PROVE  /\ Updated(t, q) \in Tx
           /\ Updated(t, q).next = t.next + 1
           /\ Updated(t, q).saga = t.saga
<1>1. PICK S \in SUBSET Produtos : t.rows \in [S -> Nat]
  BY DEF Tx, Rows
<1>. DEFINE w == Wanted(t).produto
            rows == [p \in DOMAIN t.rows \cup {w} |-> IF p = w THEN q ELSE t.rows[p]]
<1>2. rows \in [S \cup {w} -> Nat]
  BY <1>1
<1>3. S \cup {w} \in SUBSET Produtos
  OBVIOUS
<1>4. rows \in Rows
  BY <1>2, <1>3 DEF Rows
<1>5. Updated(t, q) = [t EXCEPT !.next = t.next + 1, !.rows = rows]
  BY DEF Updated
<1>. HIDE DEF rows
<1>6. t = [saga |-> t.saga, type |-> t.type, next |-> t.next, rows |-> t.rows]
  BY DEF Tx
<1>7. Updated(t, q) = [saga |-> t.saga, type |-> t.type, next |-> t.next + 1,
                       rows |-> rows]
  BY <1>5, <1>6
<1>8. t.saga \in Sagas /\ t.type \in {"reservar", "liberar"} /\ t.next + 1 \in Nat \ {0}
  BY DEF Tx
<1>. QED
  BY <1>4, <1>7, <1>8 DEF Tx

-----------------------------------------------------------------------------
(* The seeded table satisfies IInv.                                          *)
LEMMA InitIInv == Init => IInv
  BY OrdersAssumption, StoreAssumption DEF Init, IInv, TxInv, Produtos, Outcomes

(* Answering counts the answer.                                              *)
LEMMA AnswerType ==
    ASSUME IInv, NEW c \in Consumers, NEW t \in tx[c], NEW o \in Outcomes,
           Answer(t.saga, o)
    PROVE  answers' \in [Sagas -> [Outcomes -> Nat]]
<1>1. t.saga \in Sagas
  BY DEF IInv, TxInv, Tx
<1>. QED
  BY <1>1 DEF IInv, Answer

(* A transaction that ends, rolled back or committed, keeps IInv.            *)
LEMMA EndIInv ==
    ASSUME IInv, NEW c \in Consumers, NEW t \in tx[c],
           Applied(c, t) \/ RolledBack(c),
           answers' \in [Sagas -> [Outcomes -> Nat]], faults' \in 0 .. MaxFaults
    PROVE  IInv'
<1>1. t \in Tx
  BY DEF IInv, TxInv
<1>2. TxInv'
  BY DEF IInv, TxInv, Applied, RolledBack
<1>3. CASE Applied(c, t)
  <2>1. produtos' \in [Produtos -> Nat]
    BY <1>1, <1>3, SeenType DEF IInv, Applied
  <2>2. held' \in [Sagas -> Int]
    BY <1>1, <1>3 DEF IInv, Applied, Tx
  <2>. QED
    BY <1>2, <1>3, <2>1, <2>2 DEF IInv, Applied
<1>4. CASE RolledBack(c)
  BY <1>2, <1>4 DEF IInv, RolledBack
<1>. QED
  BY <1>3, <1>4

(* Rolling a transaction back keeps IInv.                                    *)
LEMMA RollbackIInv ==
    ASSUME IInv, NEW c \in Consumers, NEW t \in tx[c], Rollback(c, t),
           faults' \in 0 .. MaxFaults
    PROVE  IInv'
  BY AnswerType, EndIInv DEF Rollback, Outcomes

(* Every step keeps IInv: a reservation subtracts no more than it sees, and  *)
(* all else that is written is a sum of natural numbers.                     *)
LEMMA NextIInv == IInv /\ [Next]_vars => IInv'
<1>. SUFFICES ASSUME IInv, [Next]_vars PROVE IInv'
  OBVIOUS
<1>. USE DEF IInv
<1>1. ASSUME NEW c \in Consumers, NEW s \in Sagas, NEW type \in {"reservar", "liberar"},
             Begin(c, s, type)
      PROVE  IInv'
  <2>. DEFINE t == [saga |-> s, type |-> type, next |-> 1, rows |-> <<>>]
  <2>1. <<>> \in Rows
    <3>1. <<>> \in [{} -> Nat]
      OBVIOUS
    <3>. QED
      BY <3>1 DEF Rows
  <2>2. t \in Tx
    BY <2>1 DEF Tx
  <2>3. Len(Itens[s]) \in Nat
    BY OrdersAssumption
  <2>4. TxInv'
    BY <1>1, <2>2, <2>3 DEF Begin, TxInv
  <2>. QED
    BY <1>1, <2>4, StoreAssumption DEF Begin, Call
<1>2. ASSUME NEW c \in Consumers, ReserveItem(c) PROVE IInv'
  <2>1. PICK t \in tx[c] :
          /\ HasItem(t)
          /\ Wanted(t).produto \in Produtos
          /\ Seen(t, Wanted(t).produto) >= Wanted(t).quantidade
          /\ tx' = [tx EXCEPT ![c] =
                {Updated(t, Seen(t, Wanted(t).produto) - Wanted(t).quantidade)}]
          /\ UNCHANGED <<produtos, cache, requests, answers, held, calls, faults>>
    BY <1>2 DEF ReserveItem
  <2>. DEFINE q == Seen(t, Wanted(t).produto) - Wanted(t).quantidade
  <2>2. t \in Tx
    BY DEF TxInv
  <2>3. q \in Nat
    BY <2>1, <2>2, ItemType, SeenType
  <2>4. Len(Itens[t.saga]) \in Nat
    BY <2>2, OrdersAssumption DEF Tx
  <2>. HIDE DEF q
  <2>5. /\ Updated(t, q) \in Tx
        /\ Updated(t, q).next <= Len(Itens[Updated(t, q).saga]) + 1
    <3>. HIDE DEF IInv
    <3>1. t.next \in 1 .. Len(Itens[t.saga])
      BY <2>1, <2>2, ItemType
    <3>2. /\ Updated(t, q) \in Tx
          /\ Updated(t, q).next = t.next + 1
          /\ Updated(t, q).saga = t.saga
      BY <2>1, <2>2, <2>3, UpdatedType
    <3>. QED
      BY <2>4, <3>1, <3>2
  <2>6. tx' = [tx EXCEPT ![c] = {Updated(t, q)}]
    BY <2>1 DEF q
  <2>7. TxInv'
    BY <2>5, <2>6 DEF TxInv
  <2>. QED
    BY <2>1, <2>7
<1>3. ASSUME NEW c \in Consumers, ReleaseItem(c) PROVE IInv'
  <2>1. PICK t \in tx[c] :
          /\ HasItem(t)
          /\ IF Wanted(t).produto \in Produtos
             THEN tx' = [tx EXCEPT ![c] =
                    {Updated(t, Seen(t, Wanted(t).produto) + Wanted(t).quantidade)}]
             ELSE tx' = [tx EXCEPT ![c] = {[t EXCEPT !.next = @ + 1]}]
          /\ UNCHANGED <<produtos, cache, requests, answers, held, calls, faults>>
    BY <1>3 DEF ReleaseItem
  <2>2. t \in Tx
    BY DEF TxInv
  <2>3. Len(Itens[t.saga]) \in Nat /\ t.next \in 1 .. Len(Itens[t.saga])
    BY <2>1, <2>2, OrdersAssumption, ItemType DEF Tx
  <2>4. CASE Wanted(t).produto \in Produtos
    <3>. DEFINE q == Seen(t, Wanted(t).produto) + Wanted(t).quantidade
    <3>1. q \in Nat
      BY <2>1, <2>2, <2>4, ItemType, SeenType
    <3>2. tx' = [tx EXCEPT ![c] = {Updated(t, q)}]
      BY <2>1, <2>4
    <3>. HIDE DEF q
    <3>3. /\ Updated(t, q) \in Tx
          /\ Updated(t, q).next <= Len(Itens[Updated(t, q).saga]) + 1
      BY <2>2, <2>3, <2>4, <3>1, UpdatedType
    <3>4. TxInv'
      BY <3>2, <3>3 DEF TxInv
    <3>. QED
      BY <2>1, <3>4
  <2>5. CASE Wanted(t).produto \notin Produtos
    <3>. DEFINE u == [t EXCEPT !.next = t.next + 1]
    <3>1. tx' = [tx EXCEPT ![c] = {u}]
      BY <2>1, <2>5
    <3>2. u \in Tx /\ u.next = t.next + 1 /\ u.saga = t.saga
      <4>. HIDE DEF IInv
      <4>. QED
        BY <2>2 DEF Tx
    <3>. HIDE DEF u
    <3>3. TxInv'
      BY <2>3, <3>1, <3>2 DEF TxInv
    <3>. QED
      BY <2>1, <3>3
  <2>. QED
    BY <2>4, <2>5
<1>4. ASSUME NEW c \in Consumers, Refuse(c) PROVE IInv'
  BY <1>4, RollbackIInv DEF Refuse
<1>5. ASSUME NEW c \in Consumers,
             Commit(c) \/ CommitUnheard(c) \/ ConsumerDies(c)
      PROVE  IInv'
  <2>1. PICK t \in tx[c] :
          /\ Applied(c, t) \/ RolledBack(c)
          /\ UNCHANGED answers \/ \E o \in Outcomes : Answer(t.saga, o)
    BY <1>5 DEF Commit, CommitUnheard, ConsumerDies, Outcomes
  <2>2. answers' \in [Sagas -> [Outcomes -> Nat]]
    BY <2>1, AnswerType
  <2>3. faults' \in 0 .. MaxFaults
    BY <1>5, StoreAssumption DEF Commit, CommitUnheard, ConsumerDies, Fault
  <2>. QED
    BY <2>1, <2>2, <2>3, EndIInv
<1>6. ASSUME NEW c \in Consumers, AbortDeadlock(c) PROVE IInv'
  BY <1>6, RollbackIInv DEF AbortDeadlock
<1>7. ASSUME NEW c \in Consumers, AbortError(c) PROVE IInv'
  <2>1. faults' \in 0 .. MaxFaults
    BY <1>7, StoreAssumption DEF AbortError, Fault
  <2>. QED
    BY <1>7, <2>1, RollbackIInv DEF AbortError
<1>8. ASSUME NEW r \in Requests, NEW p \in Produtos, NEW add \in Restocks \cup {0},
             BuscarHit(r, p, add) \/ BuscarMiss(r, p, add)
      PROVE  IInv'
  <2>1. requests' \in [Requests -> SUBSET NatRequest]
    BY <1>8, StoreAssumption
       DEF BuscarHit, BuscarMiss, AfterBuscar, Enters, Ends, NatRequest
  <2>. QED
    BY <1>8, <2>1, StoreAssumption DEF BuscarHit, BuscarMiss, Call, Fault, TxInv
<1>9. ASSUME NEW r \in Requests, Fill(r) PROVE IInv'
  <2>1. requests' \in [Requests -> SUBSET NatRequest]
    <3>1. PICK q \in requests[r] : AfterBuscar(r, q.produto, q.add, q.quantity)
      BY <1>9 DEF Fill
    <3>2. q \in NatRequest
      OBVIOUS
    <3>3. CASE q.add = 0
      BY <3>1, <3>3 DEF AfterBuscar, Ends
    <3>4. CASE q.add # 0
      <4>0. q.add \in Restocks /\ q.quantity \in Nat
        BY <3>2, <3>4 DEF NatRequest
      <4>1. q.add \in Nat
        BY <4>0, StoreAssumption
      <4>2. q.quantity + q.add \in Nat
        BY <4>0, <4>1
      <4>3. [produto |-> q.produto, add |-> q.add, stage |-> "save",
             quantity |-> q.quantity + q.add] \in NatRequest
        BY <3>2, <4>0, <4>2 DEF NatRequest
      <4>. QED
        BY <3>1, <3>4, <4>3 DEF AfterBuscar, Enters
    <3>. QED
      BY <3>3, <3>4
  <2>2. cache' \in [Produtos -> SUBSET Nat]
    BY <1>9 DEF Fill, NatRequest
  <2>. QED
    BY <1>9, <2>1, <2>2, StoreAssumption DEF Fill, Fault, TxInv
<1>10. ASSUME NEW r \in Requests, Salvar(r) \/ SalvarUnheard(r) PROVE IInv'
  <2>1. requests' \in [Requests -> SUBSET NatRequest]
    BY <1>10 DEF Salvar, SalvarUnheard, Enters, Ends, NatRequest
  <2>2. produtos' \in [Produtos -> Nat]
    BY <1>10 DEF Salvar, SalvarUnheard, NatRequest
  <2>3. faults' \in 0 .. MaxFaults
    BY <1>10, StoreAssumption DEF Salvar, SalvarUnheard, Fault
  <2>. QED
    BY <1>10, <2>1, <2>2, <2>3 DEF Salvar, SalvarUnheard, TxInv
<1>11. ASSUME NEW r \in Requests, SalvarFails(r) \/ Del(r) PROVE IInv'
  <2>1. requests' \in [Requests -> SUBSET NatRequest]
    BY <1>11 DEF SalvarFails, Del, Ends
  <2>2. cache' \in [Produtos -> SUBSET Nat]
    BY <1>11 DEF SalvarFails, Del
  <2>3. faults' \in 0 .. MaxFaults
    BY <1>11, StoreAssumption DEF SalvarFails, Del, Fault
  <2>. QED
    BY <1>11, <2>1, <2>2, <2>3 DEF SalvarFails, Del, TxInv
<1>12. ASSUME NEW p \in Produtos, Expire(p) PROVE IInv'
  BY <1>12 DEF Expire, TxInv
<1>13. CASE UNCHANGED vars
  BY <1>13 DEF vars, TxInv
<1>. QED
  BY <1>1, <1>2, <1>3, <1>4, <1>5, <1>6, <1>7, <1>8, <1>9, <1>10, <1>11, <1>12, <1>13
     DEF Next, TxStep

(* IInv is an invariant of the store.                                        *)
LEMMA IInvHolds == Spec => []IInv
  BY InitIInv, NextIInv, PTL DEF Spec

(* Every variable keeps its type: a transaction never counts past its items  *)
(* nor holds a row that is not in the table.                                 *)
THEOREM TypeCorrect == Spec => []TypeOK
<1>1. IInv => TypeOK
  <2>. SUFFICES ASSUME IInv PROVE TypeOK
    OBVIOUS
  <2>1. ASSUME NEW c \in Consumers, NEW t \in tx[c] PROVE tx[c] = {t} /\ IsTx(t)
    <3>1. t \in Tx /\ tx[c] = {t} /\ t.next <= Len(Itens[t.saga]) + 1
      BY DEF IInv, TxInv
    <3>2. PICK S \in SUBSET Produtos : t.rows \in [S -> Nat]
      BY <3>1 DEF Tx, Rows
    <3>3. Len(Itens[t.saga]) \in Nat
      BY <3>1, OrdersAssumption DEF Tx
    <3>4. t.next \in 1 .. Len(Itens[t.saga]) + 1
      BY <3>1, <3>3 DEF Tx
    <3>5. DOMAIN t.rows \subseteq Produtos /\ t.rows \in [DOMAIN t.rows -> Int]
      BY <3>2
    <3>. QED
      BY <3>1, <3>4, <3>5 DEF IsTx, Tx
  <2>2. requests \in [Requests -> SUBSET Request]
    BY DEF IInv, NatRequest, Request
  <2>. QED
    BY <2>1, <2>2 DEF TypeOK, IInv, TxInv
<1>. QED
  BY <1>1, IInvHolds, PTL

(* However reservations, releases, restocks from stale cache entries, aborts *)
(* and failures interleave, no product goes below zero.                      *)
THEOREM NeverNegative == Spec => []StockNeverNegative
<1>1. IInv => StockNeverNegative
  BY DEF IInv, StockNeverNegative
<1>. QED
  BY <1>1, IInvHolds, PTL

-----------------------------------------------------------------------------
(* A set of natural numbers has a least element.                            *)
LEMMA LeastNat ==
    ASSUME NEW T, T \subseteq Nat, T # {}
    PROVE  \E n \in T : \A m \in T : n <= m
<1>1. PICK n \in T : \A m \in T : ~ (<<m, n>> \in OpToRel(<, Nat))
  BY WFMin, NatLessThanWellFounded
<1>2. ASSUME NEW m \in T PROVE n <= m
  <2>1. <<m, n>> \notin OpToRel(<, Nat)
    BY <1>1
  <2>2. ~(m < n)
    BY <2>1 DEF OpToRel
  <2>. QED
    BY <2>2
<1>. QED
  BY <1>2

(* Induction over the natural numbers, with a set for the induction         *)
(* hypothesis.                                                              *)
LEMMA NatSetInduction ==
    ASSUME NEW S, 0 \in S, \A n \in Nat : n \in S => n + 1 \in S
    PROVE  Nat \subseteq S
<1>. SUFFICES ASSUME Nat \ S # {} PROVE FALSE
  OBVIOUS
<1>1. PICK n \in Nat \ S : \A m \in Nat \ S : n <= m
  BY LeastNat
<1>2. n # 0
  OBVIOUS
<1>3. n - 1 \in Nat /\ ~(n <= n - 1)
  BY <1>2
<1>4. n - 1 \in S
  BY <1>1, <1>3
<1>. QED
  BY <1>3, <1>4

(* The equation that FoldLeft solves in Demand, over the first k items.      *)
IsFold(iter, s, p, k) ==
    iter = [S \in SUBSET (1 .. k) |->
              IF S = {} THEN 0
              ELSE IF Itens[s][Max(S)].produto = p
                   THEN iter[S \ {Max(S)}] + Itens[s][Max(S)].quantidade
                   ELSE iter[S \ {Max(S)}]]

(* How much of product p the first n items of the order of saga s ask for.   *)
DemandTo(s, p, n) == (CHOOSE iter : IsFold(iter, s, p, Len(Itens[s])))[1 .. n]

(* A set of item numbers has a largest element, which Max chooses.          *)
LEMMA MaxOfItems ==
    ASSUME NEW k \in Nat, NEW S, S \subseteq 1 .. k, S # {}
    PROVE  Max(S) \in S /\ \A i \in S : Max(S) >= i
<1>. DEFINE T == {k - i : i \in S}
<1>1. \A i \in S : i \in Int /\ k - i \in Nat
  OBVIOUS
<1>2. T \subseteq Nat /\ T # {}
  BY <1>1
<1>. HIDE DEF T
<1>3. PICK n \in T : \A m \in T : n <= m
  BY <1>2, LeastNat
<1>4. PICK i \in S : n = k - i
  BY DEF T
<1>5. ASSUME NEW j \in S PROVE i >= j
  <2>1. k - j \in T
    BY DEF T
  <2>2. k - i <= k - j
    BY <1>3, <1>4, <2>1
  <2>3. i \in Int /\ j \in Int
    OBVIOUS
  <2>. QED
    BY <2>2, <2>3
<1>. QED
  BY <1>5 DEF Max

(* The largest of a set of numbers up to k that has k in it is k.           *)
LEMMA MaxOfPrefix ==
    ASSUME NEW k \in Nat, NEW S, S \subseteq 1 .. k, k \in S
    PROVE  Max(S) = k
<1>1. Max(S) \in 1 .. k /\ Max(S) >= k
  BY MaxOfItems
<1>. QED
  BY <1>1

(* FoldLeft's equation has a solution for every order, by induction over    *)
(* how many of its items are folded.                                        *)
LEMMA FoldExists ==
    ASSUME NEW s \in Sagas, NEW p
    PROVE  \E iter : IsFold(iter, s, p, Len(Itens[s]))
<1>. DEFINE K == {k \in Nat : \E iter : IsFold(iter, s, p, k)}
<1>1. 0 \in K
  <2>. DEFINE iter == [S \in SUBSET (1 .. 0) |-> 0]
  <2>1. \A S \in SUBSET (1 .. 0) : S = {}
    OBVIOUS
  <2>2. IsFold(iter, s, p, 0)
    BY <2>1 DEF IsFold
  <2>. QED
    BY <2>2
<1>2. ASSUME NEW k \in Nat, k \in K PROVE k + 1 \in K
  <2>1. PICK h : IsFold(h, s, p, k)
    BY <1>2
  <2>. DEFINE it == Itens[s][k + 1]
              g == [S \in SUBSET (1 .. k + 1) |->
                      IF k + 1 \in S
                      THEN IF it.produto = p THEN h[S \ {k + 1}] + it.quantidade
                           ELSE h[S \ {k + 1}]
                      ELSE h[S]]
  <2>2. ASSUME NEW S \in SUBSET (1 .. k + 1)
        PROVE  g[S] = IF S = {} THEN 0
                      ELSE IF Itens[s][Max(S)].produto = p
                           THEN g[S \ {Max(S)}] + Itens[s][Max(S)].quantidade
                           ELSE g[S \ {Max(S)}]
    <3>1. CASE S = {}
      <4>1. g[S] = h[S]
        BY <3>1
      <4>2. h[S] = 0
        BY <2>1, <3>1 DEF IsFold
      <4>. QED
        BY <3>1, <4>1, <4>2
    <3>2. CASE k + 1 \in S
      <4>1. Max(S) = k + 1
        <5>1. k + 1 \in Nat /\ S \subseteq 1 .. k + 1
          OBVIOUS
        <5>. HIDE DEF K, g, it
        <5>. QED
          BY ONLY <5>1, <3>2, MaxOfPrefix
      <4>2. S \ {k + 1} \in SUBSET (1 .. k + 1) /\ k + 1 \notin S \ {k + 1}
        OBVIOUS
      <4>3. g[S \ {k + 1}] = h[S \ {k + 1}]
        BY <4>2
      <4>. QED
        BY <3>2, <4>1, <4>3
    <3>3. CASE S # {} /\ k + 1 \notin S
      <4>1. S \in SUBSET (1 .. k)
        BY <3>3
      <4>2. S \ {Max(S)} \in SUBSET (1 .. k + 1) /\ k + 1 \notin S \ {Max(S)}
        BY <3>3
      <4>3. g[S] = h[S] /\ g[S \ {Max(S)}] = h[S \ {Max(S)}]
        BY <3>3, <4>2
      <4>4. h[S] = IF Itens[s][Max(S)].produto = p
                   THEN h[S \ {Max(S)}] + Itens[s][Max(S)].quantidade
                   ELSE h[S \ {Max(S)}]
        BY <2>1, <3>3, <4>1 DEF IsFold
      <4>. QED
        BY <3>3, <4>3, <4>4
    <3>. QED
      BY <3>1, <3>2, <3>3
  <2>3. g = [S \in SUBSET (1 .. k + 1) |-> g[S]]
    OBVIOUS
  <2>. HIDE DEF g
  <2>4. IsFold(g, s, p, k + 1)
    BY <2>2, <2>3 DEF IsFold
  <2>. QED
    BY <2>4
<1>. HIDE DEF K
<1>3. Nat \subseteq K
  BY <1>1, <1>2, NatSetInduction
<1>4. Len(Itens[s]) \in Nat
  BY OrdersAssumption
<1>. QED
  BY <1>3, <1>4 DEF K

(* What the first items ask for: nothing, and then item by item.             *)
LEMMA DemandByItem ==
    ASSUME NEW s \in Sagas, NEW p
    PROVE  /\ Demand(s, p) = DemandTo(s, p, Len(Itens[s]))
           /\ DemandTo(s, p, 0) = 0
           /\ \A n \in 1 .. Len(Itens[s]) :
                 DemandTo(s, p, n) = IF Itens[s][n].produto = p
                                     THEN DemandTo(s, p, n - 1) + Itens[s][n].quantidade
                                     ELSE DemandTo(s, p, n - 1)
<1>. DEFINE L == Len(Itens[s])
            iter == CHOOSE iter : IsFold(iter, s, p, L)
<1>1. DOMAIN Itens[s] = 1 .. L /\ L \in Nat
  BY OrdersAssumption
<1>2. Demand(s, p) = DemandTo(s, p, L)
  BY <1>1, Zenon DEF Demand, FoldLeft, MapThenFoldSet, IsFold, DemandTo
<1>3. \A n : DemandTo(s, p, n) = iter[1 .. n]
  BY DEF DemandTo
<1>4. IsFold(iter, s, p, L)
  BY FoldExists
<1>. HIDE DEF iter, L
<1>5. DemandTo(s, p, 0) = 0
  <2>1. 1 .. 0 = {} /\ 1 .. 0 \in SUBSET (1 .. L)
    OBVIOUS
  <2>. QED
    BY <1>3, <1>4, <2>1 DEF IsFold
<1>6. ASSUME NEW n \in 1 .. L
      PROVE  DemandTo(s, p, n) = IF Itens[s][n].produto = p
                                 THEN DemandTo(s, p, n - 1) + Itens[s][n].quantidade
                                 ELSE DemandTo(s, p, n - 1)
  <2>1. 1 .. n # {} /\ 1 .. n \in SUBSET (1 .. L)
    BY <1>1
  <2>2. Max(1 .. n) = n
    <3>1. n \in Nat /\ n \in 1 .. n
      BY <1>1
    <3>. QED
      BY <3>1, MaxOfPrefix
  <2>3. (1 .. n) \ {n} = 1 .. n - 1
    BY <1>1
  <2>4. iter[1 .. n] = IF Itens[s][n].produto = p
                       THEN iter[1 .. n - 1] + Itens[s][n].quantidade
                       ELSE iter[1 .. n - 1]
    BY <1>4, <2>1, <2>2, <2>3 DEF IsFold
  <2>. QED
    BY <1>3, <2>4
<1>. QED
  BY <1>2, <1>5, <1>6 DEF L

(* What the first items ask for is a natural number.                        *)
LEMMA DemandToType ==
    ASSUME NEW s \in Sagas, NEW p, NEW n \in 0 .. Len(Itens[s])
    PROVE  DemandTo(s, p, n) \in Nat
<1>. DEFINE K == {k \in Nat : k <= Len(Itens[s]) => DemandTo(s, p, k) \in Nat}
<1>0. Itens[s] \in Seq(Item)
  BY OrdersAssumption
<1>1. Len(Itens[s]) \in Nat /\ \A k \in 1 .. Len(Itens[s]) : Itens[s][k].quantidade \in Nat
  <2>1. \A k \in 1 .. Len(Itens[s]) : Itens[s][k] \in Item
    BY <1>0
  <2>2. \A i \in Item : i.quantidade \in Nat
    BY DEF Item
  <2>. QED
    BY <1>0, <2>1, <2>2
<1>2. 0 \in K
  BY DemandByItem
<1>3. ASSUME NEW k \in Nat, k \in K PROVE k + 1 \in K
  <2>. SUFFICES ASSUME k + 1 <= Len(Itens[s]) PROVE DemandTo(s, p, k + 1) \in Nat
    OBVIOUS
  <2>1. k + 1 \in 1 .. Len(Itens[s]) /\ (k + 1) - 1 = k /\ DemandTo(s, p, k) \in Nat
    BY <1>1, <1>3
  <2>2. DemandTo(s, p, k + 1) = IF Itens[s][k + 1].produto = p
                                THEN DemandTo(s, p, k) + Itens[s][k + 1].quantidade
                                ELSE DemandTo(s, p, k)
    <3>. DEFINE j == k + 1
    <3>1. DemandTo(s, p, j) = IF Itens[s][j].produto = p
                              THEN DemandTo(s, p, j - 1) + Itens[s][j].quantidade
                              ELSE DemandTo(s, p, j - 1)
      BY <2>1, DemandByItem
    <3>. QED
      BY <2>1, <3>1
  <2>. QED
    BY <1>1, <2>1, <2>2
<1>. HIDE DEF K
<1>4. Nat \subseteq K
  BY <1>2, <1>3, NatSetInduction
<1>. QED
  BY <1>1, <1>4 DEF K

-----------------------------------------------------------------------------
(* The quantity of product p with the items transaction t has moved so far.  *)
Moved(t, p) ==
    IF t.type = "reservar"
    THEN produtos[p] - DemandTo(t.saga, p, t.next - 1)
    ELSE produtos[p] + DemandTo(t.saga, p, t.next - 1)

(* Transaction t has moved its first items, and nothing else.                *)
Follows(t) ==
    /\ \A p \in Produtos : Seen(t, p) = Moved(t, p)
    /\ t.type = "reservar" =>
          \A i \in 1 .. t.next - 1 : Itens[t.saga][i].produto \in Produtos

(* No two transactions hold the same row.                                    *)
RowsExclusive ==
    \A c, d \in Consumers : \A t \in tx[c], u \in tx[d] :
        c # d => DOMAIN t.rows \cap DOMAIN u.rows = {}

LedgerInv ==
    /\ IInv
    /\ RowsExclusive
    /\ \A c \in Consumers : \A t \in tx[c] : Follows(t)

-----------------------------------------------------------------------------
(* A transaction follows its items whatever is written to rows that it does *)
(* not hold.                                                                *)
LEMMA FollowsFrame ==
    ASSUME NEW t \in Tx, Follows(t),
           \A p \in DOMAIN t.rows : produtos'[p] = produtos[p],
           produtos \in [Produtos -> Nat], produtos' \in [Produtos -> Nat],
           t.next <= Len(Itens[t.saga]) + 1
    PROVE  Follows(t)'
<1>1. t.saga \in Sagas /\ t.next \in Nat \ {0} /\ Len(Itens[t.saga]) \in Nat
  BY OrdersAssumption DEF Tx
<1>2. t.next - 1 \in 0 .. Len(Itens[t.saga])
  BY <1>1
<1>3. ASSUME NEW p \in Produtos PROVE (Seen(t, p) = Moved(t, p))'
  <2>1. PICK d \in Nat : d = DemandTo(t.saga, p, t.next - 1)
    BY <1>1, <1>2, DemandToType
  <2>2. Seen(t, p) = Moved(t, p) /\ produtos[p] \in Nat /\ produtos'[p] \in Nat
    BY DEF Follows
  <2>3. CASE p \in DOMAIN t.rows
    BY <2>2, <2>3 DEF Seen, Moved
  <2>4. CASE p \notin DOMAIN t.rows
    BY <2>1, <2>2, <2>4 DEF Seen, Moved
  <2>. QED
    BY <2>3, <2>4
<1>. QED
  BY <1>3 DEF Follows

(* A transaction that takes a row nobody holds and adds its next item to     *)
(* what it has moved still follows its items.                                *)
LEMMA UpdatedFollows ==
    ASSUME NEW t \in Tx, HasItem(t), Wanted(t).produto \in Produtos,
           produtos \in [Produtos -> Nat], Follows(t), NEW q \in Nat,
           q = IF t.type = "reservar"
               THEN Seen(t, Wanted(t).produto) - Wanted(t).quantidade
               ELSE Seen(t, Wanted(t).produto) + Wanted(t).quantidade
    PROVE  /\ Follows(Updated(t, q))
           /\ DOMAIN Updated(t, q).rows = DOMAIN t.rows \cup {Wanted(t).produto}
<1>. DEFINE u == Updated(t, q)
            w == Wanted(t).produto
            n == t.next
            s == t.saga
<1>1. s \in Sagas /\ n \in 1 .. Len(Itens[s]) /\ Len(Itens[s]) \in Nat
      /\ Wanted(t).quantidade \in Nat \ {0} /\ t.type \in {"reservar", "liberar"}
  BY ItemType, OrdersAssumption DEF Tx
<1>2. u.saga = s /\ u.next = n + 1 /\ u.type = t.type
      /\ u.rows = [p \in DOMAIN t.rows \cup {w} |-> IF p = w THEN q ELSE t.rows[p]]
  BY DEF Updated, Tx
<1>. HIDE DEF u
<1>3. ASSUME NEW p \in Produtos PROVE Seen(u, p) = Moved(u, p)
  <2>1. PICK d \in Nat : d = DemandTo(s, p, n - 1)
    <3>1. n - 1 \in 0 .. Len(Itens[s])
      BY <1>1
    <3>. QED
      BY <1>1, <3>1, DemandToType
  <2>2. DemandTo(s, p, n) = IF p = w THEN d + Wanted(t).quantidade ELSE d
    <3>1. DemandTo(s, p, n) = IF Itens[s][n].produto = p
                              THEN DemandTo(s, p, n - 1) + Itens[s][n].quantidade
                              ELSE DemandTo(s, p, n - 1)
      <4>1. s \in Sagas /\ n \in 1 .. Len(Itens[s])
        BY <1>1
      <4>. HIDE DEF s, n
      <4>. QED
        BY <4>1, DemandByItem
    <3>2. Wanted(t) = Itens[s][n]
      BY DEF Wanted
    <3>. QED
      BY <2>1, <3>1, <3>2
  <2>3. Seen(t, p) = Moved(t, p) /\ produtos[p] \in Nat
    BY DEF Follows
  <2>4. Seen(t, p) = IF t.type = "reservar" THEN produtos[p] - d ELSE produtos[p] + d
    BY <2>1, <2>3 DEF Moved
  <2>5. Moved(u, p) = IF t.type = "reservar" THEN produtos[p] - DemandTo(s, p, n)
                                             ELSE produtos[p] + DemandTo(s, p, n)
    <3>1. u.next - 1 = n
      BY <1>1, <1>2
    <3>. QED
      BY <1>2, <3>1 DEF Moved
  <2>6. CASE p = w
    <3>1. Seen(u, p) = q
      BY <1>2, <2>6 DEF Seen
    <3>. QED
      BY <1>1, <2>2, <2>3, <2>4, <2>5, <2>6, <3>1
  <2>7. CASE p # w
    <3>1. Seen(u, p) = Seen(t, p)
      BY <1>2, <2>7 DEF Seen
    <3>. QED
      BY <2>2, <2>4, <2>5, <2>7, <3>1
  <2>. QED
    BY <2>6, <2>7
<1>4. ASSUME t.type = "reservar", NEW i \in 1 .. n PROVE Itens[s][i].produto \in Produtos
  <2>1. CASE i = n
    BY <2>1 DEF Wanted
  <2>2. CASE i # n
    <3>1. i \in 1 .. n - 1
      BY <1>1, <2>2
    <3>. QED
      BY <1>4, <3>1 DEF Follows
  <2>. QED
    BY <2>1, <2>2
<1>5. 1 .. u.next - 1 = 1 .. n
  BY <1>1, <1>2
<1>. QED
  BY <1>2, <1>3, <1>4, <1>5 DEF Follows, u

(* A transaction that updates a row no other one holds keeps LedgerInv.     *)
LEMMA LedgerUpdate ==
    ASSUME LedgerInv, IInv', NEW c \in Consumers, NEW t \in tx[c], NEW u,
           Follows(u), tx' = [tx EXCEPT ![c] = {u}], UNCHANGED produtos,
           \A d \in Consumers \ {c} : \A v \in tx[d] :
               DOMAIN v.rows \cap DOMAIN u.rows = {}
    PROVE  LedgerInv'
<1>1. RowsExclusive'
  BY DEF LedgerInv, IInv, TxInv, RowsExclusive
<1>2. ASSUME NEW d \in Consumers, NEW v \in tx'[d] PROVE Follows(v)'
  <2>1. Follows(v)
    BY DEF LedgerInv, IInv, TxInv
  <2>. QED
    BY <2>1 DEF Follows, Seen, Moved
<1>. QED
  BY <1>1, <1>2 DEF LedgerInv

(* So does the end of a transaction, and a write to rows that no            *)
(* transaction still running holds.                                         *)
LEMMA LedgerEnd ==
    ASSUME LedgerInv, IInv',
           \A c \in Consumers : tx'[c] \subseteq tx[c],
           \A c \in Consumers : \A t \in tx'[c] :
              \A p \in DOMAIN t.rows : produtos'[p] = produtos[p]
    PROVE  LedgerInv'
<1>1. RowsExclusive'
  BY DEF LedgerInv, RowsExclusive
<1>2. ASSUME NEW d \in Consumers, NEW v \in tx'[d] PROVE Follows(v)'
  <2>1. Follows(v) /\ v \in Tx /\ v.next <= Len(Itens[v.saga]) + 1
    BY DEF LedgerInv, IInv, TxInv
  <2>. QED
    BY <2>1, FollowsFrame DEF LedgerInv, IInv
<1>. QED
  BY <1>1, <1>2 DEF LedgerInv

(* The ways in which a transaction ends.                                    *)
LEMMA TransactionEnds ==
    ASSUME NEW c \in Consumers,
           \/ Refuse(c) \/ AbortDeadlock(c) \/ AbortError(c)
           \/ Commit(c) \/ CommitUnheard(c) \/ ConsumerDies(c)
    PROVE  RolledBack(c) \/ \E t \in tx[c] : Applied(c, t)
  BY DEF Refuse, AbortDeadlock, AbortError, Rollback, Commit, CommitUnheard, ConsumerDies

(* No transaction runs at first.                                            *)
LEMMA InitLedgerInv == Init => LedgerInv
  BY InitIInv DEF Init, LedgerInv, RowsExclusive

(* Every step keeps LedgerInv: of the rows that others hold, none is taken  *)
(* or written.                                                              *)
LEMMA NextLedgerInv == LedgerInv /\ [Next]_vars => LedgerInv'
<1>. SUFFICES ASSUME LedgerInv, [Next]_vars PROVE LedgerInv'
  OBVIOUS
<1>0. IInv /\ IInv'
  BY NextIInv DEF LedgerInv
<1>1. ASSUME NEW c \in Consumers, NEW s \in Sagas, NEW type \in {"reservar", "liberar"},
             Begin(c, s, type)
      PROVE  LedgerInv'
  <2>. DEFINE u == [saga |-> s, type |-> type, next |-> 1, rows |-> <<>>]
  <2>1. tx' = [tx EXCEPT ![c] = {u}] /\ UNCHANGED produtos
    BY <1>1 DEF Begin
  <2>2. u.rows = <<>> /\ u.saga = s /\ u.next - 1 = 0 /\ 1 .. u.next - 1 = {}
    OBVIOUS
  <2>. HIDE DEF u
  <2>3. DOMAIN u.rows = {}
    BY <2>2
  <2>4. Follows(u)
    <3>1. ASSUME NEW p \in Produtos PROVE Seen(u, p) = Moved(u, p)
      <4>1. DemandTo(s, p, 0) = 0
        BY DemandByItem
      <4>2. produtos[p] \in Nat
        BY <1>0 DEF IInv
      <4>. QED
        BY <2>2, <2>3, <4>1, <4>2 DEF Seen, Moved
    <3>. QED
      BY <2>2, <3>1 DEF Follows
  <2>5. RowsExclusive'
    BY <2>1, <2>3 DEF LedgerInv, RowsExclusive, IInv, TxInv
  <2>6. ASSUME NEW d \in Consumers, NEW v \in tx'[d] PROVE Follows(v)'
    <3>1. Follows(v)
      BY <2>1, <2>4 DEF LedgerInv, IInv, TxInv
    <3>. QED
      BY <2>1, <3>1 DEF Follows, Seen, Moved
  <2>. QED
    BY <1>0, <2>5, <2>6 DEF LedgerInv
<1>2. ASSUME NEW c \in Consumers, ReserveItem(c) PROVE LedgerInv'
  <2>1. PICK t \in tx[c] :
          /\ t.type = "reservar"
          /\ HasItem(t)
          /\ Wanted(t).produto \in Produtos
          /\ Free(c, Wanted(t).produto)
          /\ Seen(t, Wanted(t).produto) >= Wanted(t).quantidade
          /\ tx' = [tx EXCEPT ![c] =
                {Updated(t, Seen(t, Wanted(t).produto) - Wanted(t).quantidade)}]
          /\ UNCHANGED produtos
    BY <1>2 DEF ReserveItem
  <2>2. t \in Tx /\ Follows(t)
    BY DEF LedgerInv, IInv, TxInv
  <2>3. Seen(t, Wanted(t).produto) - Wanted(t).quantidade \in Nat
    <3>1. Wanted(t).quantidade \in Nat
      BY <2>1, <2>2, ItemType
    <3>2. Seen(t, Wanted(t).produto) \in Nat
      BY <1>0, <2>1, <2>2, SeenType DEF IInv
    <3>. QED
      BY <2>1, <3>1, <3>2
  <2>4. PICK q \in Nat : q = Seen(t, Wanted(t).produto) - Wanted(t).quantidade
    BY <2>3
  <2>5. Follows(Updated(t, q))
        /\ DOMAIN Updated(t, q).rows = DOMAIN t.rows \cup {Wanted(t).produto}
    BY <1>0, <2>1, <2>2, <2>4, UpdatedFollows DEF IInv
  <2>6. \A d \in Consumers \ {c} : \A v \in tx[d] :
           DOMAIN v.rows \cap DOMAIN Updated(t, q).rows = {}
    BY <2>1, <2>5 DEF Free, LedgerInv, RowsExclusive
  <2>7. tx' = [tx EXCEPT ![c] = {Updated(t, q)}]
    BY <2>1, <2>4
  <2>. QED
    BY <1>0, <2>1, <2>5, <2>6, <2>7, LedgerUpdate
<1>3. ASSUME NEW c \in Consumers, ReleaseItem(c) PROVE LedgerInv'
  <2>1. PICK t \in tx[c] :
          /\ t.type = "liberar"
          /\ HasItem(t)
          /\ IF Wanted(t).produto \in Produtos
             THEN /\ Free(c, Wanted(t).produto)
                  /\ tx' = [tx EXCEPT ![c] =
                    {Updated(t, Seen(t, Wanted(t).produto) + Wanted(t).quantidade)}]
             ELSE tx' = [tx EXCEPT ![c] = {[t EXCEPT !.next = @ + 1]}]
          /\ UNCHANGED produtos
    BY <1>3 DEF ReleaseItem
  <2>2. t \in Tx /\ Follows(t)
    BY DEF LedgerInv, IInv, TxInv
  <2>3. CASE Wanted(t).produto \in Produtos
    <3>3. Seen(t, Wanted(t).produto) + Wanted(t).quantidade \in Nat
      <4>1. Wanted(t).quantidade \in Nat
        BY <2>1, <2>2, ItemType
      <4>2. Seen(t, Wanted(t).produto) \in Nat
        BY <1>0, <2>2, <2>3, SeenType DEF IInv
      <4>. QED
        BY <4>1, <4>2
    <3>4. PICK q \in Nat : q = Seen(t, Wanted(t).produto) + Wanted(t).quantidade
      BY <3>3
    <3>5. Follows(Updated(t, q))
          /\ DOMAIN Updated(t, q).rows = DOMAIN t.rows \cup {Wanted(t).produto}
      BY <1>0, <2>1, <2>2, <2>3, <3>4, UpdatedFollows DEF IInv
    <3>6. \A d \in Consumers \ {c} : \A v \in tx[d] :
             DOMAIN v.rows \cap DOMAIN Updated(t, q).rows = {}
      BY <2>1, <2>3, <3>5 DEF Free, LedgerInv, RowsExclusive
    <3>7. tx' = [tx EXCEPT ![c] = {Updated(t, q)}]
      BY <2>1, <2>3, <3>4
    <3>. QED
      BY <1>0, <2>1, <3>5, <3>6, <3>7, LedgerUpdate
  <2>4. CASE Wanted(t).produto \notin Produtos
    <3>. DEFINE u == [t EXCEPT !.next = @ + 1]
                n == t.next
                s == t.saga
    <3>1. tx' = [tx EXCEPT ![c] = {u}]
      BY <2>1, <2>4
    <3>2. /\ s \in Sagas /\ n \in 1 .. Len(Itens[s])
          /\ u.saga = s /\ u.next = n + 1 /\ u.type = t.type /\ u.rows = t.rows
      BY <2>1, <2>2, ItemType DEF Tx
    <3>. HIDE DEF u
    <3>3. ASSUME NEW p \in Produtos PROVE Seen(u, p) = Moved(u, p)
      <4>1. u.next - 1 = n
        BY <3>2
      <4>2. DemandTo(s, p, n) = DemandTo(s, p, n - 1)
        <5>1. s \in Sagas /\ n \in 1 .. Len(Itens[s])
          BY <3>2
        <5>2. Itens[s][n].produto # p
          BY <2>4 DEF Wanted
        <5>. HIDE DEF s, n
        <5>. QED
          BY <5>1, <5>2, DemandByItem
      <4>3. Seen(u, p) = Seen(t, p)
        BY <3>2 DEF Seen
      <4>4. Moved(u, p) = Moved(t, p)
        BY <3>2, <4>1, <4>2 DEF Moved
      <4>. QED
        BY <2>2, <4>3, <4>4 DEF Follows
    <3>4. Follows(u)
      BY <2>1, <3>2, <3>3 DEF Follows
    <3>5. \A d \in Consumers \ {c} : \A v \in tx[d] :
             DOMAIN v.rows \cap DOMAIN u.rows = {}
      BY <3>2 DEF LedgerInv, RowsExclusive
    <3>. QED
      BY <1>0, <2>1, <3>1, <3>4, <3>5, LedgerUpdate
  <2>. QED
    BY <2>3, <2>4
<1>4. ASSUME NEW c \in Consumers, RolledBack(c) PROVE LedgerInv'
  <2>1. \A d \in Consumers : tx'[d] \subseteq tx[d]
    BY <1>0, <1>4 DEF RolledBack, IInv, TxInv
  <2>2. UNCHANGED produtos
    BY <1>4 DEF RolledBack
  <2>. QED
    BY <1>0, <2>1, <2>2, LedgerEnd
<1>5. ASSUME NEW c \in Consumers, NEW t \in tx[c], Applied(c, t) PROVE LedgerInv'
  <2>1. /\ produtos' = [p \in Produtos |-> Seen(t, p)]
        /\ tx' = [tx EXCEPT ![c] = {}]
    BY <1>5 DEF Applied
  <2>2. \A d \in Consumers : tx'[d] = IF d = c THEN {} ELSE tx[d]
    BY <1>0, <2>1 DEF IInv, TxInv
  <2>3. ASSUME NEW d \in Consumers, NEW u \in tx'[d], NEW p \in DOMAIN u.rows
        PROVE  produtos'[p] = produtos[p]
    <3>1. d # c /\ u \in tx[d]
      BY <2>2
    <3>2. u \in Tx
      BY <1>0, <3>1 DEF IInv, TxInv
    <3>3. p \in Produtos
      BY <3>2 DEF Tx, Rows
    <3>4. p \notin DOMAIN t.rows
      BY <3>1 DEF LedgerInv, RowsExclusive
    <3>. QED
      BY <2>1, <3>3, <3>4 DEF Seen
  <2>. QED
    BY <1>0, <2>2, <2>3, LedgerEnd
<1>6. ASSUME NEW r \in Requests, Salvar(r) \/ SalvarUnheard(r) PROVE LedgerInv'
  <2>1. PICK q \in requests[r] :
          /\ \A c \in Consumers : \A t \in tx[c] : q.produto \notin DOMAIN t.rows
          /\ produtos' = [produtos EXCEPT ![q.produto] = q.quantity]
          /\ UNCHANGED tx
    BY <1>6 DEF Salvar, SalvarUnheard
  <2>2. ASSUME NEW d \in Consumers, NEW u \in tx'[d], NEW p \in DOMAIN u.rows
        PROVE  produtos'[p] = produtos[p]
    <3>1. p # q.produto
      BY <2>1
    <3>2. u \in Tx
      BY <1>0, <2>1 DEF IInv, TxInv
    <3>3. p \in Produtos
      BY <3>2 DEF Tx, Rows
    <3>. QED
      BY <1>0, <2>1, <3>1, <3>3 DEF IInv
  <2>. QED
    BY <1>0, <2>1, <2>2, LedgerEnd
<1>7. CASE UNCHANGED <<produtos, tx>>
  BY <1>0, <1>7, LedgerEnd
<1>8. UNCHANGED <<produtos, tx>>
      \/ (\E c \in Consumers :
            \/ \E s \in Sagas : \E type \in {"reservar", "liberar"} : Begin(c, s, type)
            \/ ReserveItem(c) \/ ReleaseItem(c)
            \/ RolledBack(c) \/ \E t \in tx[c] : Applied(c, t))
      \/ \E r \in Requests : Salvar(r) \/ SalvarUnheard(r)
  BY TransactionEnds
     DEF Next, TxStep, vars, BuscarHit, BuscarMiss, Fill, SalvarFails, Del, Expire
<1>. QED
  BY <1>1, <1>2, <1>3, <1>4, <1>5, <1>6, <1>7, <1>8

(* LedgerInv is an invariant of the store.                                  *)
LEMMA LedgerInvHolds == Spec => []LedgerInv
  BY InitLedgerInv, NextLedgerInv, PTL DEF Spec


(* The ledger is of the same orders.                                         *)
LEMMA LedgerDemand ==
    ASSUME NEW s, NEW p
    PROVE  Ledger!Demand(s, p) = Demand(s, p)
  BY DEF Ledger!Demand, Demand, Ledger!FoldLeft, FoldLeft,
     Ledger!MapThenFoldSet, MapThenFoldSet, Ledger!Max, Max

(* It has the same products.                                                *)
LEMMA LedgerProdutos == Ledger!Produtos = Produtos
  BY DEF Ledger!Produtos, Produtos

(* The seeded table is the ledger's initial stock, and no saga holds        *)
(* anything.                                                                *)
LEMMA InitLedger == Init => Ledger!Init
  BY DEF Init, Ledger!Init

(* A commit reserves or releases the whole order at that moment: it finds   *)
(* the rows as the transaction has seen them, so that together its items    *)
(* were there.                                                              *)
LEMMA CommitLedger ==
    ASSUME LedgerInv, NEW c \in Consumers, NEW t \in tx[c], Applied(c, t)
    PROVE  \E s \in Sagas : Ledger!Reserve(s) \/ Ledger!Release(s)
<1>1. /\ ~HasItem(t)
      /\ produtos' = [p \in Produtos |-> Seen(t, p)]
      /\ held' = [held EXCEPT ![t.saga] = IF t.type = "reservar" THEN @ + 1 ELSE @ - 1]
  BY DEF Applied
<1>. DEFINE L == Len(Itens[t.saga])
<1>2. t \in Tx /\ Follows(t) /\ t.next <= L + 1
  BY DEF LedgerInv, IInv, TxInv
<1>3. t.saga \in Sagas /\ t.type \in {"reservar", "liberar"} /\ L \in Nat /\ t.next \in Nat
  BY <1>2, OrdersAssumption DEF Tx
<1>4. t.next - 1 = L
  BY <1>1, <1>2, <1>3 DEF HasItem
<1>. HIDE DEF L
<1>5. ASSUME NEW p \in Produtos
      PROVE  /\ Ledger!Demand(t.saga, p) \in Nat
             /\ produtos[p] \in Nat
             /\ Seen(t, p) \in Nat
             /\ Seen(t, p) = IF t.type = "reservar"
                             THEN produtos[p] - Ledger!Demand(t.saga, p)
                             ELSE produtos[p] + Ledger!Demand(t.saga, p)
  <2>1. Ledger!Demand(t.saga, p) = DemandTo(t.saga, p, L)
    BY <1>3, LedgerDemand, DemandByItem DEF L
  <2>2. L \in 0 .. Len(Itens[t.saga])
    BY <1>3 DEF L
  <2>3. Ledger!Demand(t.saga, p) \in Nat
    BY <1>3, <2>1, <2>2, DemandToType
  <2>4. Seen(t, p) \in Nat /\ produtos[p] \in Nat
    BY <1>2, SeenType DEF LedgerInv, IInv
  <2>5. Seen(t, p) = Moved(t, p)
    BY <1>2 DEF Follows
  <2>. QED
    BY <1>4, <2>1, <2>3, <2>4, <2>5 DEF Moved
<1>7. CASE t.type = "reservar"
  <2>1. \A i \in DOMAIN Itens[t.saga] : Itens[t.saga][i].produto \in Ledger!Produtos
    <3>1. DOMAIN Itens[t.saga] = 1 .. t.next - 1
      BY <1>3, <1>4, OrdersAssumption DEF L
    <3>. QED
      BY <1>2, <1>7, <3>1, LedgerProdutos DEF Follows
  <2>2. \A p \in Ledger!Produtos : Ledger!Demand(t.saga, p) <= produtos[p]
    BY <1>5, <1>7, LedgerProdutos
  <2>3. produtos' = [p \in Ledger!Produtos |-> produtos[p] - Ledger!Demand(t.saga, p)]
    BY <1>1, <1>5, <1>7, LedgerProdutos
  <2>4. held' = [held EXCEPT ![t.saga] = @ + 1]
    BY <1>1, <1>7
  <2>. QED
    BY <1>3, <2>1, <2>2, <2>3, <2>4 DEF Ledger!Reserve
<1>8. CASE t.type = "liberar"
  <2>1. produtos' = [p \in Ledger!Produtos |-> produtos[p] + Ledger!Demand(t.saga, p)]
    BY <1>1, <1>5, <1>8, LedgerProdutos
  <2>2. held' = [held EXCEPT ![t.saga] = @ - 1]
    BY <1>1, <1>8
  <2>. QED
    BY <1>3, <2>1, <2>2 DEF Ledger!Release
<1>. QED
  BY <1>3, <1>7, <1>8

(* Salvar restocks.                                                         *)
LEMMA SalvarLedger ==
    ASSUME LedgerInv, NEW r \in Requests, Salvar(r) \/ SalvarUnheard(r)
    PROVE  \E p \in Ledger!Produtos : Ledger!Restock(p)
<1>1. PICK q \in requests[r] :
        /\ produtos' = [produtos EXCEPT ![q.produto] = q.quantity]
        /\ UNCHANGED held
  BY DEF Salvar, SalvarUnheard
<1>2. q.produto \in Produtos /\ q.quantity \in Nat
  BY DEF LedgerInv, IInv, NatRequest
<1>3. produtos'[q.produto] = q.quantity
  BY <1>1, <1>2 DEF LedgerInv, IInv
<1>. QED
  BY <1>1, <1>2, <1>3, LedgerProdutos DEF Ledger!Restock

(* Every step of the store is a step of the ledger or leaves it as it is.   *)
LEMMA StepLedger ==
    LedgerInv /\ [Next]_vars => [Ledger!Next]_(Ledger!vars)
<1>. SUFFICES ASSUME LedgerInv, [Next]_vars PROVE [Ledger!Next]_(Ledger!vars)
  OBVIOUS
<1>1. CASE UNCHANGED <<produtos, held>>
  BY <1>1 DEF Ledger!vars
<1>2. ASSUME NEW c \in Consumers, RolledBack(c) PROVE UNCHANGED <<produtos, held>>
  BY <1>2 DEF RolledBack
<1>3. ASSUME NEW c \in Consumers, NEW t \in tx[c], Applied(c, t) PROVE Ledger!Next
  BY <1>3, CommitLedger DEF Ledger!Next
<1>4. ASSUME NEW r \in Requests, Salvar(r) \/ SalvarUnheard(r) PROVE Ledger!Next
  BY <1>4, SalvarLedger DEF Ledger!Next
<1>5. UNCHANGED <<produtos, held>>
      \/ (\E c \in Consumers : RolledBack(c) \/ \E t \in tx[c] : Applied(c, t))
      \/ \E r \in Requests : Salvar(r) \/ SalvarUnheard(r)
  BY TransactionEnds
     DEF Next, TxStep, vars, Begin, ReserveItem, ReleaseItem, BuscarHit, BuscarMiss,
         Fill, SalvarFails, Del, Expire
<1>. QED
  BY <1>1, <1>2, <1>3, <1>4, <1>5

(* The store implements the ledger: orders move the stock as a whole and at *)
(* one moment, however the statements of their transactions interleave,     *)
(* whichever of them PostgreSQL aborts, whether or not the consumer hears   *)
(* of a commit, and whether or not an order names a product twice.          *)
THEOREM RefinesLedger == Spec => ImplementsLedger
  BY InitLedger, StepLedger, LedgerInvHolds, PTL DEF Spec, Ledger!Spec, ImplementsLedger

-----------------------------------------------------------------------------
(* Why reservations and releases end *)

(* The guards of ReserveItem, ReleaseItem, Refuse and Commit.                *)
Proceeds(c) ==
    \E t \in tx[c] :
        \/ /\ t.type = "reservar" /\ HasItem(t)
           /\ Wanted(t).produto \in Produtos
           /\ Free(c, Wanted(t).produto)
           /\ Seen(t, Wanted(t).produto) >= Wanted(t).quantidade
        \/ /\ t.type = "liberar" /\ HasItem(t)
           /\ Wanted(t).produto \in Produtos => Free(c, Wanted(t).produto)
        \/ /\ t.type = "reservar" /\ HasItem(t)
           /\ Wanted(t).produto \in Produtos =>
                 /\ Free(c, Wanted(t).produto)
                 /\ Seen(t, Wanted(t).produto) < Wanted(t).quantidade
        \/ ~HasItem(t)

(* The guard of AbortDeadlock.                                               *)
Deadlocked(c) ==
    \E S \in SUBSET Consumers :
        /\ c \in S
        /\ \A d \in S : (\E e \in S : WaitsFor(d, e)) /\ (\E e \in S : WaitsFor(e, d))

Running == {c \in Consumers : tx[c] # {}}

(* Consumers with open transactions that wait for none outside.              *)
Closed(S) ==
    /\ S \subseteq Running
    /\ S # {}
    /\ \A c \in S : \A d \in Consumers : WaitsFor(c, d) => d \in S

(* No transactions are left to wait for one another: the code locks the rows *)
(* in the order of the payload, so what gets it out is deadlock_timeout.     *)
NobodyWaitsInVain ==
    \A S \in SUBSET Consumers : Closed(S) => \E c \in S : Proceeds(c) \/ Deadlocked(c)

(* A transaction that does not proceed waits for another one.                *)
LEMMA WaitsIfBlocked ==
    ASSUME IInv, NEW c \in Running, ~Proceeds(c)
    PROVE  \E d \in Consumers : WaitsFor(c, d)
<1>1. PICK t \in tx[c] : t \in Tx
  BY DEF IInv, TxInv, Running
<1>2. HasItem(t) /\ t.type \in {"reservar", "liberar"}
  BY <1>1 DEF Proceeds, Tx
<1>3. ~(Wanted(t).produto \in Produtos => Free(c, Wanted(t).produto))
  <2>1. SUFFICES ASSUME Wanted(t).produto \in Produtos => Free(c, Wanted(t).produto)
                 PROVE  FALSE
    OBVIOUS
  <2>2. t.type = "reservar" /\ Wanted(t).produto \in Produtos
    BY <1>2, <2>1 DEF Proceeds
  <2>3. Seen(t, Wanted(t).produto) \in Nat /\ Wanted(t).quantidade \in Nat
    BY <1>1, <1>2, <2>2, SeenType, ItemType DEF IInv
  <2>4. \/ Seen(t, Wanted(t).produto) >= Wanted(t).quantidade
        \/ Seen(t, Wanted(t).produto) < Wanted(t).quantidade
    BY <2>3
  <2>. QED
    BY <1>2, <2>1, <2>2, <2>4 DEF Proceeds
<1>4. PICK d \in Consumers \ {c} : \E u \in tx[d] : Wanted(t).produto \in DOMAIN u.rows
  BY <1>3 DEF Free
<1>. QED
  BY <1>2, <1>4 DEF WaitsFor

(* Of the closed sets within a finite one, a smallest is a deadlock if none  *)
(* of its transactions proceeds: one that none of the others waits for could *)
(* be left out.                                                              *)
LEMMA SmallestIsDeadlock ==
    ASSUME IInv, IsFiniteSet(Running), NEW S \in SUBSET Consumers, Closed(S)
    PROVE  \E c \in S : Proceeds(c) \/ Deadlocked(c)
<1>. SUFFICES ASSUME \A c \in S : ~Proceeds(c)
              PROVE  \E c \in S : Deadlocked(c)
  OBVIOUS
<1> DEFINE Sizes == {Cardinality(T) : T \in {U \in SUBSET S : Closed(U)}}
<1>1. S \subseteq Running /\ IsFiniteSet(S)
  BY FS_Subset DEF Closed, Running
<1>2. \A T \in SUBSET S : IsFiniteSet(T) /\ Cardinality(T) \in Nat
  BY <1>1, FS_Subset, FS_CardinalityType
<1>3. Sizes \subseteq Nat /\ Sizes # {}
  BY <1>2
<1>4. PICK n \in Sizes : \A m \in Sizes : n <= m
  BY <1>3, LeastNat
<1>5. PICK T \in SUBSET S : Closed(T) /\ n = Cardinality(T)
  BY <1>4
<1>6. \A U \in SUBSET T : Closed(U) => Cardinality(T) <= Cardinality(U)
  BY <1>4, <1>5
<1> HIDE DEF Sizes
<1>7. ASSUME NEW d \in T PROVE \E e \in T : WaitsFor(d, e)
  <2>1. d \in Running /\ ~Proceeds(d)
    BY <1>1, <1>5
  <2>. QED
    BY <1>5, <2>1, WaitsIfBlocked DEF Closed
<1>8. ASSUME NEW d \in T PROVE \E e \in T : WaitsFor(e, d)
  <2>. SUFFICES ASSUME \A e \in T : ~WaitsFor(e, d) PROVE FALSE
    OBVIOUS
  <2>1. PICK e \in T : WaitsFor(d, e)
    BY <1>7
  <2>2. e # d
    BY <2>1 DEF WaitsFor
  <2>3. Closed(T \ {d})
    BY <1>5, <2>2 DEF Closed
  <2>4. /\ Cardinality(T \ {d}) = Cardinality(T) - 1
        /\ Cardinality(T) \in Nat
    BY <1>2, FS_RemoveElement
  <2>5. Cardinality(T) <= Cardinality(T \ {d})
    BY <1>6, <2>3
  <2>. QED
    BY <2>4, <2>5
<1>9. T # {} /\ T \in SUBSET Consumers
  BY <1>5 DEF Closed
<1>10. PICK c \in T : TRUE
  BY <1>9
<1>. QED
  BY <1>7, <1>8, <1>9, <1>10 DEF Deadlocked

(* A step opens one transaction at most.                                     *)
LEMMA RunningFinite == Spec => []IsFiniteSet(Running)
<1>1. Init => IsFiniteSet(Running)
  <2>. SUFFICES ASSUME Init PROVE IsFiniteSet(Running)
    OBVIOUS
  <2>1. Running = {}
    BY DEF Init, Running
  <2>. QED
    BY <2>1, FS_EmptySet
<1>2. IInv /\ IsFiniteSet(Running) /\ [Next]_vars => IsFiniteSet(Running)'
  <2>. SUFFICES ASSUME IInv, IsFiniteSet(Running), [Next]_vars
                PROVE  IsFiniteSet(Running')
    OBVIOUS
  <2>1. \E c : Running' \subseteq Running \cup {c}
    <3>1. ASSUME NEW c \in Consumers, NEW x, tx' = [tx EXCEPT ![c] = x]
          PROVE  \E d : Running' \subseteq Running \cup {d}
      <4>1. Running' \subseteq Running \cup {c}
        BY <3>1 DEF Running, IInv, TxInv
      <4>. QED
        BY <4>1
    <3>2. CASE UNCHANGED tx
      BY <3>2 DEF Running
    <3>3. ASSUME NEW c \in Consumers, NEW s \in Sagas, NEW type, Begin(c, s, type)
          PROVE  \E d : Running' \subseteq Running \cup {d}
      BY <3>1, <3>3 DEF Begin
    <3>4. ASSUME NEW c \in Consumers,
                 TxStep(c) \/ AbortError(c) \/ CommitUnheard(c) \/ ConsumerDies(c)
          PROVE  \E d : Running' \subseteq Running \cup {d}
      <4>1. CASE ReserveItem(c) \/ ReleaseItem(c)
        BY <3>1, <4>1 DEF ReserveItem, ReleaseItem
      <4>2. CASE RolledBack(c) \/ \E t \in tx[c] : Applied(c, t)
        BY <3>1, <4>2 DEF RolledBack, Applied
      <4>. QED
        BY <3>4, <4>1, <4>2, TransactionEnds DEF TxStep
    <3>5. CASE UNCHANGED vars
      BY <3>2, <3>5 DEF vars
    <3>6. ASSUME NEW r \in Requests,
                 \/ \E p \in Produtos : \E add \in Restocks \cup {0} :
                       BuscarHit(r, p, add) \/ BuscarMiss(r, p, add)
                 \/ Fill(r) \/ Salvar(r) \/ SalvarUnheard(r) \/ SalvarFails(r) \/ Del(r)
          PROVE  UNCHANGED tx
      BY <3>6 DEF BuscarHit, BuscarMiss, Fill, Salvar, SalvarUnheard, SalvarFails, Del
    <3>7. ASSUME NEW p \in Produtos, Expire(p) PROVE UNCHANGED tx
      BY <3>7 DEF Expire
    <3>. QED
      BY <3>2, <3>3, <3>4, <3>5, <3>6, <3>7 DEF Next
  <2>2. PICK c : Running' \subseteq Running \cup {c}
    BY <2>1
  <2>3. IsFiniteSet(Running \cup {c})
    BY FS_AddElement
  <2>. QED
    BY <2>2, <2>3, FS_Subset
<1>. QED
  BY <1>1, <1>2, IInvHolds, PTL DEF Spec

(* Of any transactions that wait for none but themselves, one can go on or   *)
(* be aborted by the deadlock detector, whatever rows the orders name and in *)
(* whatever order: each transaction waits, in the end, for one that can act. *)
THEOREM NoneWaitsInVain == Spec => []NobodyWaitsInVain
<1>1. IInv /\ IsFiniteSet(Running) => NobodyWaitsInVain
  BY SmallestIsDeadlock DEF NobodyWaitsInVain
<1>. QED
  BY <1>1, IInvHolds, RunningFinite, PTL
====================================================================================
