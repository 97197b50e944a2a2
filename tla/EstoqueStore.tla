------------------------------ MODULE EstoqueStore ------------------------------
(***************************************************************************)
(* The store of cell-estoque (infra/db/store.go) under concurrent calls:   *)
(* the reservations and releases its command consumers run as PostgreSQL   *)
(* transactions, one per replica of the active cell at a time, and the     *)
(* GET /estoque/:id and PUT /estoque/:id/repor requests, which go through  *)
(* the Redis cache that all replicas of the shard share.                   *)
(*                                                                         *)
(* A transaction holds the rows it has read FOR UPDATE or updated, each    *)
(* with its uncommitted quantity; reading a row and updating it is one     *)
(* step, the lock being held in between.  PostgreSQL ends a cycle of       *)
(* waiting transactions by aborting one of them.                           *)
(*                                                                         *)
(* A reservation may be asked for at any time and again (Kafka delivers at *)
(* least once), a release only after the saga was refused a reservation,   *)
(* which is when saga-hub compensates it.                                  *)
(***************************************************************************)
EXTENDS EstoqueOrders

CONSTANTS
    Consumers,      \* the command consumers of the cell's replicas
    Requests,       \* the HTTP requests that may be in flight at a time
    Restocks,       \* the quantities repor may be asked to add
    MaxCalls,       \* bound on the commands and requests made
    MaxFaults       \* bound on the failures of PostgreSQL and Redis

(* repor binds its quantity with min=1.                                       *)
ASSUME StoreAssumption ==
    /\ Restocks \subseteq Nat \ {0}
    /\ MaxCalls \in Nat
    /\ MaxFaults \in Nat

VARIABLES
    produtos,   \* the committed column quantidade_disponivel of each row
    cache,      \* per product, the cached quantity, or nothing
    tx,         \* per consumer, the transaction it runs, if any
    requests,   \* per request, how far it has come, if it is running
    answers,    \* history: per saga, how often each outcome was answered
    held,       \* history: per saga, the reservations less the releases committed
    calls,      \* commands and requests made so far
    faults      \* failures so far

vars == <<produtos, cache, tx, requests, answers, held, calls, faults>>

(* "rows" maps the rows the transaction holds to their uncommitted quantity. *)
IsTx(t) ==
    /\ t.saga \in Sagas
    /\ t.type \in {"reservar", "liberar"}
    /\ t.next \in 1 .. Len(Itens[t.saga]) + 1
    /\ DOMAIN t.rows \subseteq Produtos
    /\ t.rows \in [DOMAIN t.rows -> Int]

(* "add" is what repor adds, 0 for a GET; "quantity" the Produto in memory.  *)
Request == [produto : Produtos, add : Restocks \cup {0}, quantity : Int,
            stage : {"fill", "save", "del"}]

Outcomes == {"reserved", "refused", "released", "failed"}

TypeOK ==
    /\ produtos \in [Produtos -> Int]
    /\ cache \in [Produtos -> SUBSET Int]
    /\ DOMAIN tx = Consumers
    /\ \A c \in Consumers : \A t \in tx[c] : tx[c] = {t} /\ IsTx(t)
    /\ requests \in [Requests -> SUBSET Request]
    /\ answers \in [Sagas -> [Outcomes -> Nat]]
    /\ held \in [Sagas -> Int]
    /\ calls \in 0 .. MaxCalls
    /\ faults \in 0 .. MaxFaults

Init ==
    /\ produtos = InitialStock
    /\ cache = [p \in Produtos |-> {}]
    /\ tx = [c \in Consumers |-> {}]
    /\ requests = [r \in Requests |-> {}]
    /\ answers = [s \in Sagas |-> [o \in Outcomes |-> 0]]
    /\ held = [s \in Sagas |-> 0]
    /\ calls = 0
    /\ faults = 0

Call == calls < MaxCalls /\ calls' = calls + 1

Fault == faults < MaxFaults /\ faults' = faults + 1

-----------------------------------------------------------------------------
(* Transactions *)

Wanted(t) == Itens[t.saga][t.next]

HasItem(t) == t.next <= Len(Itens[t.saga])

(* mutant: the row is read without FOR UPDATE                                *)
FreeUnlocked(c, p) == TRUE

(* mutant: the statements run on other connections of the pool               *)
FreeOnPool(c, p) ==
    \A d \in Consumers : \A u \in tx[d] : p \notin DOMAIN u.rows

(* No other transaction holds the row of product p.                          *)
Free(c, p) ==
    \A d \in Consumers \ {c} : \A u \in tx[d] : p \notin DOMAIN u.rows

(* The quantity transaction t sees: its own update, else the committed row.  *)
Seen(t, p) == IF p \in DOMAIN t.rows THEN t.rows[p] ELSE produtos[p]

(* Transaction t after it has updated the row of its next item.              *)
Updated(t, quantity) ==
    [t EXCEPT !.next = @ + 1,
              !.rows = [p \in DOMAIN @ \cup {Wanted(t).produto} |->
                           IF p = Wanted(t).produto THEN quantity ELSE @[p]]]

(* mutant: the items are counted from zero                                   *)
BeginAtZero(c, s, type) ==
    /\ tx[c] = {}
    /\ type = "liberar" => answers[s]["refused"] > 0
    /\ tx' = [tx EXCEPT ![c] = {[saga |-> s, type |-> type, next |-> 0, rows |-> <<>>]}]
    /\ Call
    /\ UNCHANGED <<produtos, cache, requests, answers, held, faults>>

Begin(c, s, type) ==
    /\ tx[c] = {}
    /\ type = "liberar" => answers[s]["refused"] > 0
    /\ tx' = [tx EXCEPT ![c] = {[saga |-> s, type |-> type, next |-> 1, rows |-> <<>>]}]
    /\ Call
    /\ UNCHANGED <<produtos, cache, requests, answers, held, faults>>

(* mutant: the check reads the row outside the transaction                   *)
ReserveItemUnseen(c) ==
    \E t \in tx[c] :
        /\ t.type = "reservar"
        /\ HasItem(t)
        /\ Wanted(t).produto \in Produtos
        /\ Free(c, Wanted(t).produto)
        /\ produtos[Wanted(t).produto] >= Wanted(t).quantidade
        /\ tx' = [tx EXCEPT ![c] =
              {Updated(t, Seen(t, Wanted(t).produto) - Wanted(t).quantidade)}]
        /\ UNCHANGED <<produtos, cache, requests, answers, held, calls, faults>>

ReserveItem(c) ==
    \E t \in tx[c] :
        /\ t.type = "reservar"
        /\ HasItem(t)
        /\ Wanted(t).produto \in Produtos
        /\ Free(c, Wanted(t).produto)
        /\ Seen(t, Wanted(t).produto) >= Wanted(t).quantidade
        /\ tx' = [tx EXCEPT ![c] =
              {Updated(t, Seen(t, Wanted(t).produto) - Wanted(t).quantidade)}]
        /\ UNCHANGED <<produtos, cache, requests, answers, held, calls, faults>>

(* An UPDATE of a row that is not there updates nothing.                     *)
ReleaseItem(c) ==
    \E t \in tx[c] :
        /\ t.type = "liberar"
        /\ HasItem(t)
        /\ IF Wanted(t).produto \in Produtos
           THEN /\ Free(c, Wanted(t).produto)
                /\ tx' = [tx EXCEPT ![c] =
                      {Updated(t, Seen(t, Wanted(t).produto) + Wanted(t).quantidade)}]
           ELSE tx' = [tx EXCEPT ![c] = {[t EXCEPT !.next = @ + 1]}]
        /\ UNCHANGED <<produtos, cache, requests, answers, held, calls, faults>>

Answer(s, outcome) == answers' = [answers EXCEPT ![s][outcome] = @ + 1]

RolledBack(c) ==
    /\ tx' = [tx EXCEPT ![c] = {}]
    /\ UNCHANGED <<produtos, cache, requests, held, calls>>

(* The deferred Rollback and the reply: every error of ReservarItens is      *)
(* answered as "estoque insuficiente", one of LiberarItens as a failure.     *)
Rollback(c, t) ==
    /\ RolledBack(c)
    /\ Answer(t.saga, IF t.type = "reservar" THEN "refused" ELSE "failed")

(* No such product, or too little of it.                                     *)
Refuse(c) ==
    \E t \in tx[c] :
        /\ t.type = "reservar"
        /\ HasItem(t)
        /\ Wanted(t).produto \in Produtos =>
              /\ Free(c, Wanted(t).produto)
              /\ Seen(t, Wanted(t).produto) < Wanted(t).quantidade
        /\ Rollback(c, t)
        /\ UNCHANGED faults

(* PostgreSQL commits the transaction: the stock moves.                      *)
Applied(c, t) ==
    /\ ~HasItem(t)
    /\ produtos' = [p \in Produtos |-> Seen(t, p)]
    /\ tx' = [tx EXCEPT ![c] = {}]
    /\ held' = [held EXCEPT ![t.saga] = IF t.type = "reservar" THEN @ + 1 ELSE @ - 1]
    /\ UNCHANGED <<cache, requests, calls>>

Commit(c) ==
    \E t \in tx[c] :
        /\ Applied(c, t)
        /\ Answer(t.saga, IF t.type = "reservar" THEN "reserved" ELSE "released")
        /\ UNCHANGED faults

(* The commit is applied and its answer does not arrive, the connection or   *)
(* the context being gone: tx.Commit returns an error like any other.        *)
CommitUnheard(c) ==
    \E t \in tx[c] :
        /\ Applied(c, t)
        /\ Answer(t.saga, IF t.type = "reservar" THEN "refused" ELSE "failed")
        /\ Fault

(* Transaction of c waits for a row that the transaction of d holds.         *)
WaitsFor(c, d) ==
    /\ c # d
    /\ \E t \in tx[c] : \E u \in tx[d] :
          HasItem(t) /\ Wanted(t).produto \in DOMAIN u.rows

(* deadlock_timeout: c is one of transactions that wait for one another.     *)
AbortDeadlock(c) ==
    \E S \in SUBSET Consumers :
        /\ c \in S
        /\ \A d \in S : (\E e \in S : WaitsFor(d, e)) /\ (\E e \in S : WaitsFor(e, d))
        /\ \E t \in tx[c] : Rollback(c, t)
        /\ UNCHANGED faults

(* A statement or the commit fails, and PostgreSQL rolls back.               *)
AbortError(c) ==
    \E t \in tx[c] : Rollback(c, t) /\ Fault

(* The replica dies before its consumer answers, the transaction committed   *)
(* or, its connection closed, rolled back; Kafka delivers the command again. *)
ConsumerDies(c) ==
    \E t \in tx[c] :
        /\ Applied(c, t) \/ RolledBack(c)
        /\ Fault
        /\ UNCHANGED answers

-----------------------------------------------------------------------------
(* Requests.  A GET that hits the cache changes nothing.                     *)

Enters(r, p, add, stage, quantity) ==
    requests' = [requests EXCEPT ![r] =
        {[produto |-> p, add |-> add, stage |-> stage, quantity |-> quantity]}]

Ends(r) == requests' = [requests EXCEPT ![r] = {}]

(* Repor adds to the Produto that BuscarPorID returned.                      *)
AfterBuscar(r, p, add, quantity) ==
    IF add = 0 THEN Ends(r) ELSE Enters(r, p, add, "save", quantity + add)

BuscarHit(r, p, add) ==
    /\ requests[r] = {}
    /\ add > 0
    /\ \E quantity \in cache[p] : AfterBuscar(r, p, add, quantity)
    /\ Call
    /\ UNCHANGED <<produtos, cache, tx, answers, held, faults>>

(* An error of Get is a miss.                                                *)
BuscarMiss(r, p, add) ==
    /\ requests[r] = {}
    /\ IF cache[p] = {} THEN UNCHANGED faults ELSE Fault
    /\ Enters(r, p, add, "fill", produtos[p])
    /\ Call
    /\ UNCHANGED <<produtos, cache, tx, answers, held>>

(* The cache's errors are dropped.                                           *)
Fill(r) ==
    \E q \in requests[r] :
        /\ q.stage = "fill"
        /\ AfterBuscar(r, q.produto, q.add, q.quantity)
        /\ \/ cache' = [cache EXCEPT ![q.produto] = {q.quantity}] /\ UNCHANGED faults
           \/ UNCHANGED cache /\ Fault
        /\ UNCHANGED <<produtos, tx, answers, held, calls>>

(* Salvar, the upsert: it waits for the row and replaces the quantity.       *)
Salvar(r) ==
    \E q \in requests[r] :
        /\ q.stage = "save"
        /\ \A c \in Consumers : \A t \in tx[c] : q.produto \notin DOMAIN t.rows
        /\ produtos' = [produtos EXCEPT ![q.produto] = q.quantity]
        /\ Enters(r, q.produto, q.add, "del", q.quantity)
        /\ UNCHANGED <<cache, tx, answers, held, calls, faults>>

(* The upsert is applied and its error returned: Retry repeats it, until its *)
(* third attempt.                                                            *)
SalvarUnheard(r) ==
    \E q \in requests[r] :
        /\ q.stage = "save"
        /\ \A c \in Consumers : \A t \in tx[c] : q.produto \notin DOMAIN t.rows
        /\ produtos' = [produtos EXCEPT ![q.produto] = q.quantity]
        /\ UNCHANGED requests \/ Ends(r)
        /\ Fault
        /\ UNCHANGED <<cache, tx, answers, held, calls>>

(* The error is dropped too and the request answered 200.                    *)
SalvarFails(r) ==
    \E q \in requests[r] :
        /\ q.stage = "save"
        /\ Ends(r)
        /\ Fault
        /\ UNCHANGED <<produtos, cache, tx, answers, held, calls>>

Del(r) ==
    \E q \in requests[r] :
        /\ q.stage = "del"
        /\ Ends(r)
        /\ \/ cache' = [cache EXCEPT ![q.produto] = {}] /\ UNCHANGED faults
           \/ UNCHANGED cache /\ Fault
        /\ UNCHANGED <<produtos, tx, answers, held, calls>>

(* The entry's time to live, 60 seconds unless configured, has passed.       *)
Expire(p) ==
    /\ cache[p] # {}
    /\ cache' = [cache EXCEPT ![p] = {}]
    /\ UNCHANGED <<produtos, tx, requests, answers, held, calls, faults>>

-----------------------------------------------------------------------------
TxStep(c) == ReserveItem(c) \/ ReleaseItem(c) \/ Refuse(c) \/ Commit(c) \/ AbortDeadlock(c)

Next ==
    \/ \E c \in Consumers :
          \/ \E s \in Sagas : \E type \in {"reservar", "liberar"} : Begin(c, s, type)
          \/ TxStep(c)
          \/ AbortError(c)
          \/ CommitUnheard(c)
          \/ ConsumerDies(c)
    \/ \E r \in Requests :
          \/ \E p \in Produtos : \E add \in Restocks \cup {0} :
                BuscarHit(r, p, add) \/ BuscarMiss(r, p, add)
          \/ Fill(r)
          \/ Salvar(r)
          \/ SalvarUnheard(r)
          \/ SalvarFails(r)
          \/ Del(r)
    \/ \E p \in Produtos : Expire(p)

Spec == Init /\ [][Next]_vars

(* PostgreSQL keeps executing the statements of an open transaction, and its *)
(* deadlock detector runs.                                                   *)
FairSpec == Spec /\ \A c \in Consumers : WF_vars(TxStep(c))

-----------------------------------------------------------------------------
(* Orders move the stock as a whole and at one moment, however the           *)
(* statements of their transactions interleave, whichever of them are        *)
(* aborted, whether or not an order names a product twice, and whether or    *)
(* not the consumer hears that its transaction was committed.  What it       *)
(* answers may differ: see CommitUnheard.                                    *)
Ledger == INSTANCE StockLedger WITH stock <- produtos, held <- held

ImplementsLedger == Ledger!Spec

(* TestReservarItensConcorrente, for any number of reservations: what is     *)
(* promised to orders was there.  A restock from a stale cache entry may be  *)
(* wrong, but not below zero.                                                *)
StockNeverNegative == \A p \in Produtos : produtos[p] >= 0

(* Every reservation and release comes to an end: transactions that take     *)
(* the same rows in different orders do not wait for ever.                   *)
TransactionsEnd == \A c \in Consumers : tx[c] # {} ~> tx[c] = {}

(* REFINE.md R1.2 asks for a guard in LiberarItens: with one, no release      *)
(* returns what no reservation took, and without restocks no product comes to *)
(* have more than it was seeded with.                                         *)
NoStockFromNothing ==
    Restocks = {} => \A p \in Produtos : produtos[p] <= InitialStock[p]
==============================================================================
