------------------------------ MODULE PedidosStore ------------------------------
(***************************************************************************)
(* The orders of a cell-pedidos: the table, the Redis cache in front of it *)
(* and the idempotency keys in that cache (infra/db/store.go), under the   *)
(* requests and saga commands that work on them at the same time           *)
(* (api/handlers.go), each database call going through the breaker, and    *)
(* saves through Retry.                                                    *)
(*                                                                         *)
(* A task is a request or command in progress.  Its calls to the database  *)
(* and the cache are steps of their own, so tasks interleave between them; *)
(* a failed save may or may not have written the row.  Requests answered   *)
(* from the cache, or replayed from an idempotency key, change nothing and *)
(* are no steps.                                                           *)
(***************************************************************************)
EXTENDS Breaker, PedidosListing

CONSTANTS
    Orders,         \* the ids that NewPedido may draw, numbers as UUIDs are ordered
    Cliente,        \* the client each order is for
    Keys,           \* idempotency keys, each with its X-Client-ID
    Cancellable,    \* the orders that cancelar_pedido may name
    Tasks,          \* the requests and commands that may be in progress at a time
    MaxCalls,       \* bound on the requests and commands made
    MaxFaults       \* bound on the failures of PostgreSQL and Redis

ASSUME PedidosAssumption ==
    /\ Orders \subseteq Nat
    /\ Cancellable \subseteq Orders
    /\ Keys \cap {"nothing", "saga"} = {}
    /\ MaxCalls \in Nat
    /\ MaxFaults \in Nat

VARIABLES
    rows,       \* the status in each order's row, or NONE
    cache,      \* per order, the status of the cached copy, or nothing
    idem,       \* per key, the order of the stored answer, or nothing
    breaker,    \* the store's breaker
    tasks,      \* per task, how far it has come, if it is running
    origin,     \* history: what each order was created for
    fate,       \* history: what has happened to each order
    failed,     \* history: database calls that failed, up to three
    calls,      \* requests and commands made so far
    faults      \* failures so far

history == <<origin, fate, failed>>

vars == <<rows, cache, idem, breaker, tasks, origin, fate, failed, calls, faults>>

Status == {"PENDENTE", "CANCELADO"}

Clientes == {Cliente[o] : o \in Orders}

Attempts == 3       \* resilience.Retry(ctx, 3, ...)

(* "status" is that of the Pedido in memory.                                 *)
Task == [op : {"criar", "buscar", "cancelar"}, o : Orders,
         stage : {"save", "saving", "del", "idem", "select", "selecting", "fill"},
         status : Status, attempt : 1 .. Attempts]

TypeOK ==
    /\ rows \in [Orders -> Status \cup {"NONE"}]
    /\ cache \in [Orders -> SUBSET Status]
    /\ idem \in [Keys -> SUBSET Orders]
    /\ breaker \in Breakers(Tasks)
    /\ tasks \in [Tasks -> SUBSET Task]
    /\ origin \in [Orders -> Keys \cup {"nothing", "saga"}]
    /\ fate \in [Orders -> SUBSET {"answered", "deleted", "erased"}]
    /\ failed \in 0 .. 3
    /\ calls \in 0 .. MaxCalls
    /\ faults \in 0 .. MaxFaults

Init ==
    /\ rows = [o \in Orders |-> "NONE"]
    /\ cache = [o \in Orders |-> {}]
    /\ idem = [k \in Keys |-> {}]
    /\ breaker = NewBreaker("closed")
    /\ tasks = [t \in Tasks |-> {}]
    /\ origin = [o \in Orders |-> "nothing"]
    /\ fate = [o \in Orders |-> {}]
    /\ failed = 0
    /\ calls = 0
    /\ faults = 0

Call == calls < MaxCalls /\ calls' = calls + 1

Fault == faults < MaxFaults /\ faults' = faults + 1

Begins(t, op, o, stage, status) ==
    /\ tasks[t] = {}
    /\ tasks' = [tasks EXCEPT ![t] =
           {[op |-> op, o |-> o, stage |-> stage, status |-> status, attempt |-> 1]}]
    /\ Call

Goes(t, stage) == tasks' = [tasks EXCEPT ![t] = {[u EXCEPT !.stage = stage] : u \in @}]

Ends(t) == tasks' = [tasks EXCEPT ![t] = {}]

Happens(o, what) == fate' = [fate EXCEPT ![o] = @ \cup {what}]

-----------------------------------------------------------------------------
(* What requests and commands begin with *)

NewPedido(t, o, for) ==
    /\ origin[o] = "nothing"
    /\ origin' = [origin EXCEPT ![o] = for]
    /\ Begins(t, "criar", o, "save", "PENDENTE")
    /\ UNCHANGED <<rows, cache, idem, breaker, fate, failed>>

(* A step that needs the cache: Get finds nothing, or it fails, which is     *)
(* taken for the same.                                                       *)
Misses(cached) == IF cached = {} THEN UNCHANGED faults ELSE Fault

(* POST: CheckIdempotency finds nothing, or fails.                           *)
CriarPedido(t, o, k) ==
    /\ Misses(idem[k])
    /\ NewPedido(t, o, k)

(* The command criar_pedido; there is no key, and each delivery creates.     *)
CmdCriarPedido(t, o) ==
    /\ NewPedido(t, o, "saga")
    /\ UNCHANGED faults

(* GET of any id.                                                            *)
BuscarPedido(t, o) ==
    /\ Misses(cache[o])
    /\ Begins(t, "buscar", o, "select", "PENDENTE")
    /\ UNCHANGED <<rows, cache, idem, breaker, history>>

(* The command cancelar_pedido, for an order that an answer has named.       *)
(* Cancelar sets the status, whatever it was: nothing confirms an order.     *)
CmdCancelarPedido(t, o) ==
    /\ o \in Cancellable
    /\ "answered" \in fate[o]
    /\ \/ Misses(cache[o]) /\ Begins(t, "cancelar", o, "select", "CANCELADO")
       \/ /\ cache[o] # {}
          /\ Begins(t, "cancelar", o, "save", "CANCELADO")
          /\ UNCHANGED faults
    /\ UNCHANGED <<rows, cache, idem, breaker, history>>

-----------------------------------------------------------------------------
(* Database calls *)

Report(t, ok) ==
    /\ breaker' = Reported(breaker, t, ok)
    /\ failed' = IF ok \/ failed = 3 THEN failed ELSE failed + 1

TriesAgain(t, u) ==
    tasks' = [tasks EXCEPT ![t] = {[u EXCEPT !.stage = "save", !.attempt = @ + 1]}]

(* mutant: the attempts are counted from zero                                *)
AttemptFailedOnceMore(t, u) ==
    IF u.attempt <= Attempts THEN TriesAgain(t, u) ELSE Ends(t)

(* mutant: after the last attempt Retry returns nil                          *)
AttemptFailedSilently(t, u) ==
    IF u.attempt < Attempts THEN TriesAgain(t, u) ELSE Goes(t, "del")

(* Retry, after an attempt that failed.                                      *)
AttemptFailed(t, u) ==
    IF u.attempt < Attempts THEN TriesAgain(t, u) ELSE Ends(t)

(* Execute lets the call through, or refuses it.                             *)
Execute(t) ==
    \E u \in tasks[t] :
        /\ u.stage \in {"save", "select"}
        /\ \/ /\ Admits(breaker)
              /\ breaker' = Entered(breaker, t)
              /\ Goes(t, IF u.stage = "save" THEN "saving" ELSE "selecting")
           \/ /\ ~Admits(breaker)
              /\ IF u.stage = "save" THEN AttemptFailed(t, u) ELSE Ends(t)
              /\ UNCHANGED breaker
        /\ UNCHANGED <<rows, cache, idem, history, calls, faults>>

(* The client has gone, or its time is up, before another attempt.           *)
ContextDone(t) ==
    \E u \in tasks[t] :
        /\ u.stage = "save"
        /\ u.attempt > 1
        /\ Ends(t)
        /\ UNCHANGED <<rows, cache, idem, breaker, history, calls, faults>>

Upsert(u) == rows' = [rows EXCEPT ![u.o] = u.status]

Salvar(t) ==
    \E u \in tasks[t] :
        /\ u.stage = "saving"
        /\ \/ Upsert(u) /\ Goes(t, "del") /\ Report(t, TRUE) /\ UNCHANGED faults
           \/ /\ Upsert(u) \/ UNCHANGED rows
              /\ AttemptFailed(t, u)
              /\ Report(t, FALSE)
              /\ Fault
        /\ UNCHANGED <<cache, idem, origin, fate, calls>>

(* A row that is not there is an error like any other: 404, and a failure    *)
(* for the breaker.                                                          *)
BuscarPorID(t) ==
    \E u \in tasks[t] :
        /\ u.stage = "selecting"
        /\ \/ /\ rows[u.o] # "NONE"
              /\ tasks' = [tasks EXCEPT ![t] =
                    {[u EXCEPT !.stage = "fill", !.status = rows[u.o]]}]
              /\ Report(t, TRUE)
              /\ UNCHANGED faults
           \/ rows[u.o] = "NONE" /\ Ends(t) /\ Report(t, FALSE) /\ UNCHANGED faults
           \/ Ends(t) /\ Report(t, FALSE) /\ Fault
        /\ UNCHANGED <<rows, cache, idem, origin, fate, calls>>

-----------------------------------------------------------------------------
(* Cache calls, whose errors are dropped *)

CacheSet(o, value) ==
    \/ cache' = [cache EXCEPT ![o] = value] /\ UNCHANGED faults
    \/ UNCHANGED cache /\ Fault

Fill(t) ==
    \E u \in tasks[t] :
        /\ u.stage = "fill"
        /\ IF u.op = "buscar" THEN Ends(t)
           ELSE tasks' = [tasks EXCEPT ![t] =
                    {[u EXCEPT !.stage = "save", !.status = "CANCELADO"]}]
        /\ CacheSet(u.o, {u.status})
        /\ UNCHANGED <<rows, idem, breaker, history, calls>>

(* The end of Salvar; a command is answered next, a POST after its key.      *)
Del(t) ==
    \E u \in tasks[t] :
        /\ u.stage = "del"
        /\ CacheSet(u.o, {})
        /\ IF u.op = "criar" /\ origin[u.o] \in Keys
           THEN Goes(t, "idem") /\ UNCHANGED fate
           ELSE Ends(t) /\ Happens(u.o, "answered")
        /\ UNCHANGED <<rows, idem, breaker, origin, failed, calls>>

StoreIdempotency(t) ==
    \E u \in tasks[t] :
        /\ u.stage = "idem"
        /\ \/ idem' = [idem EXCEPT ![origin[u.o]] = {u.o}] /\ UNCHANGED faults
           \/ UNCHANGED idem /\ Fault
        /\ Ends(t)
        /\ Happens(u.o, "answered")
        /\ UNCHANGED <<rows, cache, breaker, origin, failed, calls>>

(* mutant: entries are kept without a time to live                           *)
ExpireNever(o) ==
    /\ FALSE
    /\ UNCHANGED vars

(* The time to live, for orders and keys alike 60 s unless configured.       *)
Expire(o) ==
    /\ cache[o] # {}
    /\ cache' = [cache EXCEPT ![o] = {}]
    /\ UNCHANGED <<rows, idem, breaker, tasks, history, calls, faults>>

ExpireKey(k) ==
    /\ idem[k] # {}
    /\ idem' = [idem EXCEPT ![k] = {}]
    /\ UNCHANGED <<rows, cache, breaker, tasks, history, calls, faults>>

-----------------------------------------------------------------------------
(* DELETE /v1/clientes/:cliente_id/dados: one statement, past the breaker.   *)
(* The cache key it deletes is the client's, which no entry has.             *)
DeletarPorCliente(c) ==
    LET gone == {o \in Orders : Cliente[o] = c /\ rows[o] # "NONE"}
    IN  /\ rows' = [o \in Orders |-> IF o \in gone THEN "NONE" ELSE rows[o]]
        /\ fate' = [o \in Orders |->
              IF o \notin gone THEN fate[o]
              ELSE fate[o] \cup {"deleted"} \cup
                   (IF "answered" \in fate[o] THEN {"erased"} ELSE {})]
        /\ Call
        /\ UNCHANGED <<cache, idem, breaker, tasks, origin, failed, faults>>

BreakerElapses ==
    /\ MayElapse(breaker)
    /\ breaker' = Elapsed(breaker)
    /\ UNCHANGED <<rows, cache, idem, tasks, history, calls, faults>>

TaskStep(t) ==
    \/ Execute(t) \/ ContextDone(t)
    \/ Salvar(t) \/ BuscarPorID(t)
    \/ Fill(t) \/ Del(t) \/ StoreIdempotency(t)

Next ==
    \/ \E t \in Tasks :
          \/ \E o \in Orders :
                \/ \E k \in Keys : CriarPedido(t, o, k)
                \/ CmdCriarPedido(t, o)
                \/ BuscarPedido(t, o)
                \/ CmdCancelarPedido(t, o)
          \/ TaskStep(t)
    \/ \E c \in Clientes : DeletarPorCliente(c)
    \/ \E o \in Orders : Expire(o)
    \/ \E k \in Keys : ExpireKey(k)
    \/ BreakerElapses

Spec == Init /\ [][Next]_vars

(* Requests and commands are served, and Redis drops what has expired.       *)
FairSpec ==
    /\ Spec
    /\ \A t \in Tasks : WF_vars(TaskStep(t))
    /\ \A o \in Orders : WF_vars(Expire(o))
    /\ \A k \in Keys : WF_vars(ExpireKey(k))

-----------------------------------------------------------------------------
(* What was answered as created or cancelled is stored, unless its client's  *)
(* data were deleted meanwhile: neither Retry nor the breaker loses a        *)
(* failure on its way to the answer.                                         *)
AnsweredIsStored ==
    \A o \in Orders : "answered" \in fate[o] /\ rows[o] = "NONE" => "deleted" \in fate[o]

(* Callers are refused the database only after three calls of theirs failed, *)
(* of which lookups of orders that are not there count as much as errors.    *)
RefusalsAreFounded == breaker.state # "closed" => failed = 3

(* The right to erasure: an order deleted with its client's data is, in the  *)
(* end, read no more: not from the table, nor from the cache entry or the    *)
(* stored answer of its POST, which the deletion does not find, whatever     *)
(* reads, fills and saves were under way; unless cancelar_pedido names it,   *)
(* which can write it back from the cache.                                   *)
ErasureCompletes ==
    \A o \in Orders \ Cancellable :
        "erased" \in fate[o] ~>
            [](rows[o] = "NONE" /\ cache[o] = {} /\ \A k \in Keys : o \notin idem[k])

(* The orders that can be listed.                                            *)
Listed == {o \in Orders : rows[o] # "NONE"}

(* PROD.md P2.2: whatever the creation times of the orders in the table, the *)
(* walk over the pages is sound for every limit up to the maximum.           *)
ListingIsSound ==
    \A criado \in [Listed -> 1 .. 3] : \A limit \in 1 .. MaxLimit :
        WalkIsSound(Listed, criado, limit)

(* PROD.md P2.2: the answer has a next_cursor if there are more orders to    *)
(* list than it holds, whatever limit was asked for.                         *)
CursorIfMore ==
    \A criado \in [Listed -> 1 .. 3] : \A limit \in 1 .. MaxLimit + 1 :
        LET page == Page(Listed, criado, 4, limit)
        IN  Listed # page => HasCursor(page, limit)
================================================================================
