-------------------------------- MODULE SagaHub --------------------------------
(***************************************************************************)
(* saga-hub at work: the HTTP handler that starts sagas, the loop of       *)
(* infra/messaging/consumer.go that feeds replies to orchestrator/pedido.go *)
(* and the Kafka topics in between, with the command consumers of the      *)
(* cells (their loops, not their data) at the other end.                   *)
(*                                                                         *)
(* One partition of every topic is modelled, the one all Sagas hash to;    *)
(* partitions share nothing else.  A topic is the sequence of everything   *)
(* produced to it.  Each consumer group has a position (the next offset    *)
(* its member reads, in memory) and a committed offset (where a member     *)
(* starts after a restart or a rebalance).  Every shard's active cells     *)
(* form groups of their own, "cell-<pbc>-<shard>-active-cmd", on topics    *)
(* that all shards share, and no cell looks at the command's shard_id: a   *)
(* command is therefore executed once per shard.                           *)
(*                                                                         *)
(* What can go wrong is a fault of a kind in Faults, at most MaxFaults of  *)
(* them.  Produce only queues a message in the producer's process, and     *)
(* nothing waits for its delivery: a commit, which another client sends at *)
(* once, overtakes it.  Whether a queued message will ever reach its topic *)
(* is decided when it is queued.  One that will is appended at once, since *)
(* a delay of the producer only delays its readers; one that will not,     *)
(* because its delivery fails or because its process dies, or closes       *)
(* without Flush, with the message still queued, is not appended at all    *)
(* and everything after it happens as if it were (CommandLost,             *)
(* StartPublishFails, EventLost, CellReplyDropped).  A crash itself then   *)
(* finds nothing queued; processes that may crash may lose messages in     *)
(* this way (FaultsAssumption).                                            *)
(*                                                                         *)
(* The bulkhead (20 slots, one caller) never rejects, messages are always  *)
(* valid JSON, and metrics and audit change nothing here.  A cell sends a  *)
(* command to its dead letter queue when it fails for the third time in    *)
(* one process; a process reads an offset again only if its group          *)
(* rebalances, which is not modelled for cells, so that every failure is   *)
(* answered.                                                               *)
(***************************************************************************)
EXTENDS SagaHandlers, Naturals, Sequences

CONSTANTS
    Hubs,              \* replicas of saga-hub, all in saga-hub-replies-group
    Shards,            \* shards, each with one active cell per PBC
    FailingCommands,   \* command types for which cells' own failures are explored
    Faults,            \* kinds of fault that may happen
    MaxFaults          \* bound on the number of faults

FaultKinds == {"find", "save", "event", "publish", "delivery", "commit", "crash",
               "rebalance", "cell_publish", "cell_delivery", "cell_commit",
               "cell_crash"}

(* After these a message may be handled again, or with a row left behind.    *)
Disturbing == {"save", "crash", "rebalance", "cell_crash"}

(* A process that may die may do so with messages still in its queue.        *)
ASSUME FaultsAssumption ==
    /\ Faults \subseteq FaultKinds /\ MaxFaults \in Nat
    /\ "crash" \in Faults => "delivery" \in Faults
    /\ "cell_crash" \in Faults => "cell_delivery" \in Faults

ReplyTopics == {"pedidos.criado", "pedidos.cancelado", "estoque.reservado",
                "estoque.insuficiente", "estoque.liberado", "notificacoes.enviada"}

(* There is one command topic per command type, named by it.                 *)
VARIABLES
    sagas,          \* the table sagas
    starting,       \* per replica, the sagas whose Start has saved and not yet published
    commandLog,     \* per command topic, the commands produced
    replyLog,       \* per reply topic, the replies produced
    events,         \* how often each business event was published for each saga
    owner,          \* the replica the reply partitions are assigned to
    position,       \* per reply topic, the owner's next offset
    committed,      \* per reply topic, the group's committed offset
    pc,             \* per replica, the next step of its running handler
    task,           \* per replica, the message in its handler and the row read for it
    cellPosition,   \* per shard and command topic, the cell's next offset
    cellCommitted,  \* per shard and command topic, the cell's committed offset
    handled,        \* history: the offsets whose handler returned nil
    faults,         \* how many faults have happened
    disturbed,      \* history: the kinds of those faults that are Disturbing
    lost            \* history: the sagas a message or a row of which was lost

vars == <<sagas, starting, commandLog, replyLog, events, owner, position, committed,
          pc, task, cellPosition, cellCommitted, handled, faults, disturbed, lost>>

storeVars == <<sagas, events>>
readerVars == <<owner, position, committed, handled>>
cellVars == <<cellPosition, cellCommitted>>
handlerVars == <<pc, task>>
faultVars == <<faults, disturbed, lost>>

Task == [topic : ReplyTopics, offset : Nat, reply : Reply, row : Row]

TypeOK ==
    /\ sagas \in [Sagas -> Row]
    /\ starting \in [Hubs -> SUBSET Sagas]
    /\ commandLog \in [CommandTypes -> Seq(Command)]
    /\ replyLog \in [ReplyTopics -> Seq(Reply)]
    /\ events \in [Sagas -> [EventTypes -> Nat]]
    /\ owner \in Hubs
    /\ position \in [ReplyTopics -> Nat]
    /\ committed \in [ReplyTopics -> Nat]
    /\ pc \in [Hubs -> {"idle", "save", "event", "publish", "commit"}]
    /\ task \in [Hubs -> SUBSET Task]
    /\ cellPosition \in [Shards -> [CommandTypes -> Nat]]
    /\ cellCommitted \in [Shards -> [CommandTypes -> Nat]]
    /\ handled \subseteq ReplyTopics \X Nat
    /\ faults \in 0 .. MaxFaults
    /\ disturbed \subseteq Disturbing
    /\ lost \subseteq Sagas

Init ==
    /\ sagas = [s \in Sagas |-> Absent]
    /\ starting = [h \in Hubs |-> {}]
    /\ commandLog = [c \in CommandTypes |-> <<>>]
    /\ replyLog = [t \in ReplyTopics |-> <<>>]
    /\ events = [s \in Sagas |-> [e \in EventTypes |-> 0]]
    /\ owner \in Hubs
    /\ position = [t \in ReplyTopics |-> 0]
    /\ committed = [t \in ReplyTopics |-> 0]
    /\ pc = [h \in Hubs |-> "idle"]
    /\ task = [h \in Hubs |-> {}]
    /\ cellPosition = [g \in Shards |-> [c \in CommandTypes |-> 0]]
    /\ cellCommitted = [g \in Shards |-> [c \in CommandTypes |-> 0]]
    /\ handled = {}
    /\ faults = 0
    /\ disturbed = {}
    /\ lost = {}

NoFault == UNCHANGED faultVars

Happens(kind) ==
    /\ kind \in Faults
    /\ faults < MaxFaults
    /\ faults' = faults + 1
    /\ disturbed' = disturbed \cup ({kind} \cap Disturbing)

Fault(kind) == Happens(kind) /\ UNCHANGED lost

(* A fault by which a message of saga s is not read, not sent or never       *)
(* arrives, or its row is not saved, and nothing tries again.                *)
Loses(kind, s) == Happens(kind) /\ lost' = lost \cup {s}

Produce(cmd) == commandLog' = [commandLog EXCEPT ![cmd.type] = Append(@, cmd)]

-----------------------------------------------------------------------------
(* POST /saga/pedido.  A Save that fails ends Start with nothing done.       *)

StartSave(h, s, payload) ==
    /\ sagas[s] = Absent
    /\ sagas' = [sagas EXCEPT ![s] = NewSaga(payload)]
    /\ starting' = [starting EXCEPT ![h] = @ \cup {s}]
    /\ NoFault
    /\ UNCHANGED <<commandLog, replyLog, events, readerVars, handlerVars, cellVars>>

StartPublish(h, s) ==
    /\ s \in starting[h]
    /\ Produce(StartCmd(s, sagas[s].payload))
    /\ starting' = [starting EXCEPT ![h] = @ \ {s}]
    /\ NoFault
    /\ UNCHANGED <<replyLog, storeVars, readerVars, handlerVars, cellVars>>

(* Produce fails, which the client is told, or the queued command never      *)
(* reaches its topic, which it is not.  The row stays.                       *)
StartPublishFails(h, s) ==
    /\ s \in starting[h]
    /\ starting' = [starting EXCEPT ![h] = @ \ {s}]
    /\ Loses("publish", s) \/ Loses("delivery", s)
    /\ UNCHANGED <<commandLog, replyLog, storeVars, readerVars, handlerVars, cellVars>>

-----------------------------------------------------------------------------
(* The reply loop.  A handler goes through the steps of its Effect in the    *)
(* order save, event, publish, commit; steps it does not have are skipped.   *)

EffectOf(t) == HandleReply(t.row, t.reply)

AfterRead(e) == IF e.saves THEN "save" ELSE "commit"
AfterSave(e) == IF e.events # {} THEN "event" ELSE "publish"
AfterEvent(e) == IF e.commands # {} THEN "publish" ELSE "commit"

NextReply(t) == replyLog[t][position[t] + 1]

CanRead(h, t) ==
    /\ owner = h
    /\ task[h] = {}
    /\ position[t] < Len(replyLog[t])

(* mutant: the offset is committed when it is read (enable.auto.commit)      *)
ReceiveCommits(h, t) ==
    /\ CanRead(h, t)
    /\ sagas[NextReply(t).saga] # Absent
    /\ LET tk == [topic |-> t, offset |-> position[t], reply |-> NextReply(t),
                  row |-> sagas[NextReply(t).saga]]
       IN /\ task' = [task EXCEPT ![h] = {tk}]
          /\ pc' = [pc EXCEPT ![h] = AfterRead(EffectOf(tk))]
    /\ position' = [position EXCEPT ![t] = @ + 1]
    /\ committed' = [committed EXCEPT ![t] = position[t] + 1]
    /\ NoFault
    /\ UNCHANGED <<starting, commandLog, replyLog, storeVars, owner, handled, cellVars>>

(* ReadMessage and FindByCorrelationID.                                      *)
Receive(h, t) ==
    /\ CanRead(h, t)
    /\ sagas[NextReply(t).saga] # Absent
    /\ LET tk == [topic |-> t, offset |-> position[t], reply |-> NextReply(t),
                  row |-> sagas[NextReply(t).saga]]
       IN /\ task' = [task EXCEPT ![h] = {tk}]
          /\ pc' = [pc EXCEPT ![h] = AfterRead(EffectOf(tk))]
    /\ position' = [position EXCEPT ![t] = @ + 1]
    /\ NoFault
    /\ UNCHANGED <<starting, commandLog, replyLog, storeVars, owner, committed,
                   handled, cellVars>>

(* "saga not found": the handler fails, the loop goes on without a commit.   *)
ReceiveFails(h, t) ==
    /\ CanRead(h, t)
    /\ position' = [position EXCEPT ![t] = @ + 1]
    /\ Loses("find", NextReply(t).saga)
    /\ UNCHANGED <<starting, commandLog, replyLog, storeVars, owner, committed,
                   handled, handlerVars, cellVars>>

(* mutant: the upsert leaves the column step out                             *)
SaveStatusOnly(h) ==
    \E t \in task[h] :
        /\ pc[h] = "save"
        /\ sagas' = [sagas EXCEPT ![t.reply.saga].status = EffectOf(t).row.status]
        /\ pc' = [pc EXCEPT ![h] = AfterSave(EffectOf(t))]
        /\ NoFault
        /\ UNCHANGED <<starting, commandLog, replyLog, events, readerVars, task, cellVars>>

Save(h) ==
    \E t \in task[h] :
        /\ pc[h] = "save"
        /\ sagas' = [sagas EXCEPT ![t.reply.saga] = EffectOf(t).row]
        /\ pc' = [pc EXCEPT ![h] = AfterSave(EffectOf(t))]
        /\ NoFault
        /\ UNCHANGED <<starting, commandLog, replyLog, events, readerVars, task, cellVars>>

(* All three attempts fail, or the breaker is open: logged, and on it goes.  *)
SaveFails(h) ==
    \E t \in task[h] :
        /\ pc[h] = "save"
        /\ pc' = [pc EXCEPT ![h] = AfterSave(EffectOf(t))]
        /\ Loses("save", t.reply.saga)
        /\ UNCHANGED <<starting, commandLog, replyLog, storeVars, readerVars, task, cellVars>>

PublishEvent(h) ==
    \E t \in task[h] : \E e \in EffectOf(t).events :
        /\ pc[h] = "event"
        /\ events' = [events EXCEPT ![t.reply.saga][e] = @ + 1]
        /\ pc' = [pc EXCEPT ![h] = AfterEvent(EffectOf(t))]
        /\ NoFault
        /\ UNCHANGED <<sagas, starting, commandLog, replyLog, readerVars, task, cellVars>>

(* PublishBusinessEvent returns nothing: its errors are logged, and so are   *)
(* those of a later delivery.                                                *)
EventLost(h) ==
    \E t \in task[h] :
        /\ pc[h] = "event"
        /\ pc' = [pc EXCEPT ![h] = AfterEvent(EffectOf(t))]
        /\ Fault("event")
        /\ UNCHANGED <<starting, commandLog, replyLog, storeVars, readerVars, task, cellVars>>

PublishCommand(h) ==
    \E t \in task[h] : \E cmd \in EffectOf(t).commands :
        /\ pc[h] = "publish"
        /\ Produce(cmd)
        /\ pc' = [pc EXCEPT ![h] = "commit"]
        /\ NoFault
        /\ UNCHANGED <<starting, replyLog, storeVars, readerVars, task, cellVars>>

(* Produce refuses the message, or the breaker is open.  An error the        *)
(* handler returns makes the loop skip the commit and read on.               *)
PublishCommandFails(h) ==
    \E t \in task[h] :
        /\ pc[h] = "publish"
        /\ IF EffectOf(t).returnsErr
           THEN /\ pc' = [pc EXCEPT ![h] = "idle"]
                /\ task' = [task EXCEPT ![h] = {}]
           ELSE /\ pc' = [pc EXCEPT ![h] = "commit"]
                /\ UNCHANGED task
        /\ Loses("publish", t.reply.saga)
        /\ UNCHANGED <<starting, commandLog, replyLog, storeVars, readerVars, cellVars>>

(* Produce queued the command and returned nil, so the handler succeeds and  *)
(* its reply may be committed, but the command never reaches its topic: the  *)
(* delivery fails, which another goroutine logs, or the process dies or      *)
(* closes before it was sent.                                                *)
CommandLost(h) ==
    \E t \in task[h] :
        /\ pc[h] = "publish"
        /\ pc' = [pc EXCEPT ![h] = "commit"]
        /\ Loses("delivery", t.reply.saga)
        /\ UNCHANGED <<starting, commandLog, replyLog, storeVars, readerVars, task,
                       cellVars>>

HandlerReturns(h) ==
    /\ pc[h] = "commit"
    /\ handled' = handled \cup {<<t.topic, t.offset>> : t \in task[h]}
    /\ pc' = [pc EXCEPT ![h] = "idle"]
    /\ task' = [task EXCEPT ![h] = {}]
    /\ UNCHANGED <<starting, commandLog, replyLog, storeVars, owner, position, cellVars>>

(* The commit of a replica that lost the partition is refused by the group.  *)
Commit(h) ==
    /\ HandlerReturns(h)
    /\ IF owner = h
       THEN \E t \in task[h] :
               committed' = [committed EXCEPT ![t.topic] = t.offset + 1]
       ELSE UNCHANGED committed
    /\ NoFault

CommitFails(h) ==
    /\ HandlerReturns(h)
    /\ UNCHANGED committed
    /\ Fault("commit")

(* mutant: auto.offset.reset applies in place of the committed offsets       *)
HubCrashSkipsAhead(h) ==
    /\ starting' = [starting EXCEPT ![h] = {}]
    /\ pc' = [pc EXCEPT ![h] = "idle"]
    /\ task' = [task EXCEPT ![h] = {}]
    /\ position' = [t \in ReplyTopics |-> Len(replyLog[t])]
    /\ Fault("crash")
    /\ UNCHANGED <<commandLog, replyLog, storeVars, owner, committed, handled, cellVars>>

(* The replica dies and is started again.  What it had queued and not sent   *)
(* goes with it: that part of the crash is CommandLost, EventLost and        *)
(* StartPublishFails, at the moment of the Produce.                          *)
HubCrash(h) ==
    /\ starting' = [starting EXCEPT ![h] = {}]
    /\ pc' = [pc EXCEPT ![h] = "idle"]
    /\ task' = [task EXCEPT ![h] = {}]
    /\ position' = IF owner = h THEN committed ELSE position
    /\ Fault("crash")
    /\ UNCHANGED <<commandLog, replyLog, storeVars, owner, committed, handled, cellVars>>

(* mutant: the new owner starts where the old one had read to                *)
RebalanceKeepsPosition(h) ==
    /\ owner # h
    /\ task[h] = {}
    /\ owner' = h
    /\ Fault("rebalance")
    /\ UNCHANGED <<starting, commandLog, replyLog, storeVars, position, committed,
                   handled, handlerVars, cellVars>>

(* The partitions move to h.  The old owner, stalled in a handler past its   *)
(* poll interval, does not know and goes on.  A replica is assigned          *)
(* partitions only when it polls, so h is not in a handler.                  *)
Rebalance(h) ==
    /\ owner # h
    /\ task[h] = {}
    /\ owner' = h
    /\ position' = committed
    /\ Fault("rebalance")
    /\ UNCHANGED <<starting, commandLog, replyLog, storeVars, committed, handled,
                   handlerVars, cellVars>>

-----------------------------------------------------------------------------
(* The command loops of the cells: process, publish the reply, commit.       *)

PBCs == {"pedidos", "estoque", "notificacoes"}

CommandsOf(pbc) ==
    CASE pbc = "pedidos" -> {"criar_pedido", "cancelar_pedido"}
      [] pbc = "estoque" -> {"reservar_estoque", "liberar_estoque"}
      [] pbc = "notificacoes" -> {"enviar_notificacao"}

ReplyTopicFor(reply) ==
    CASE reply.type = "criar_pedido" -> "pedidos.criado"
      [] reply.type = "cancelar_pedido" -> "pedidos.cancelado"
      [] reply.type = "reservar_estoque" ->
            IF reply.status = "failure" THEN "estoque.insuficiente"
                                        ELSE "estoque.reservado"
      [] reply.type = "liberar_estoque" -> "estoque.liberado"
      [] reply.type = "enviar_notificacao" -> "notificacoes.enviada"

NextCommand(g, type) == commandLog[type][cellPosition[g][type] + 1]

(* The cell of shard g reads its next command of a type and comes to an      *)
(* outcome.                                                                  *)
CellProcess(g, type, st) ==
    /\ cellPosition[g][type] < Len(commandLog[type])
    /\ LET cmd == NextCommand(g, type)
       IN /\ st \in Answers(cmd)
          /\ st = "failure" => type \in FailingCommands \/ Answers(cmd) = {st}
    /\ cellPosition' = [cellPosition EXCEPT ![g][type] = @ + 1]
    /\ UNCHANGED <<starting, commandLog, storeVars, readerVars, handlerVars>>

CellReplies(g, type, st) ==
    LET reply == ReplyTo(NextCommand(g, type), st)
    IN replyLog' = [replyLog EXCEPT ![ReplyTopicFor(reply)] = Append(@, reply)]

CellCommits(g, type) ==
    cellCommitted' = [cellCommitted EXCEPT ![g][type] = cellPosition[g][type] + 1]

(* cell-notificacoes does not commit a command that failed.                  *)
CellCommitsAnswered(g, type, st) ==
    IF type = "enviar_notificacao" /\ st = "failure"
    THEN UNCHANGED cellCommitted
    ELSE CellCommits(g, type)

CellAnswers(g, type, st) ==
    /\ CellProcess(g, type, st)
    /\ CellReplies(g, type, st)
    /\ CellCommitsAnswered(g, type, st)
    /\ NoFault

CellCommitFails(g, type, st) ==
    /\ CellProcess(g, type, st)
    /\ CellReplies(g, type, st)
    /\ UNCHANGED cellCommitted
    /\ Fault("cell_commit")

(* PublishReply fails: cell-notificacoes ignores it and commits, the others  *)
(* read on without a commit.                                                 *)
CellReplyLost(g, type, st) ==
    /\ CellProcess(g, type, st)
    /\ IF type = "enviar_notificacao" /\ st = "success"
       THEN CellCommits(g, type)
       ELSE UNCHANGED cellCommitted
    /\ Loses("cell_publish", NextCommand(g, type).saga)
    /\ UNCHANGED replyLog

(* PublishReply queued the reply and returned nil, the command is committed, *)
(* and the reply never reaches its topic: its delivery fails, or the process *)
(* dies before it was sent.                                                  *)
CellReplyDropped(g, type, st) ==
    /\ CellProcess(g, type, st)
    /\ CellCommitsAnswered(g, type, st)
    /\ Loses("cell_delivery", NextCommand(g, type).saga)
    /\ UNCHANGED replyLog

(* mutant: auto.offset.reset applies in place of the committed offsets       *)
CellCrashSkipsAhead(g, pbc) ==
    /\ cellPosition' = [cellPosition EXCEPT ![g] =
          [c \in CommandTypes |-> IF c \in CommandsOf(pbc) THEN Len(commandLog[c])
                                                           ELSE @[c]]]
    /\ Fault("cell_crash")
    /\ UNCHANGED <<starting, commandLog, replyLog, storeVars, readerVars, handlerVars,
                   cellCommitted>>

(* A cell's process dies and is started again; the replies it had queued and *)
(* not sent are those of CellReplyDropped.                                   *)
CellCrash(g, pbc) ==
    /\ cellPosition' = [cellPosition EXCEPT ![g] =
          [c \in CommandTypes |-> IF c \in CommandsOf(pbc) THEN cellCommitted[g][c]
                                                           ELSE @[c]]]
    /\ Fault("cell_crash")
    /\ UNCHANGED <<starting, commandLog, replyLog, storeVars, readerVars, handlerVars,
                   cellCommitted>>

-----------------------------------------------------------------------------
HubStep(h) ==
    \/ \E s \in Sagas : StartPublish(h, s)
    \/ \E t \in ReplyTopics : Receive(h, t)
    \/ Save(h)
    \/ PublishEvent(h)
    \/ PublishCommand(h)
    \/ Commit(h)

HubFault(h) ==
    \/ \E s \in Sagas : StartPublishFails(h, s)
    \/ \E t \in ReplyTopics : ReceiveFails(h, t)
    \/ SaveFails(h)
    \/ EventLost(h)
    \/ PublishCommandFails(h)
    \/ CommandLost(h)
    \/ CommitFails(h)
    \/ HubCrash(h)
    \/ Rebalance(h)

CellStep(g) ==
    \E type \in CommandTypes : \E st \in ReplyStatuses : CellAnswers(g, type, st)

CellFault(g) ==
    \/ \E type \in CommandTypes : \E st \in ReplyStatuses :
          \/ CellCommitFails(g, type, st)
          \/ CellReplyLost(g, type, st)
          \/ CellReplyDropped(g, type, st)
    \/ \E pbc \in PBCs : CellCrash(g, pbc)

Next ==
    \/ \E h \in Hubs : \E s \in Sagas : \E p \in ClientPayloads : StartSave(h, s, p)
    \/ \E h \in Hubs : HubStep(h) \/ HubFault(h)
    \/ \E g \in Shards : CellStep(g) \/ CellFault(g)

(* The loops of saga-hub and of the cells run for as long as the process     *)
(* lives, and a started Start runs to its end; clients owe nothing and       *)
(* faults need not happen.                                                   *)
Fairness ==
    /\ \A h \in Hubs : WF_vars(HubStep(h))
    /\ \A g \in Shards : WF_vars(CellStep(g))

Spec == Init /\ [][Next]_vars

FairSpec == Spec /\ Fairness

-----------------------------------------------------------------------------
Contents(log) == UNION {{log[t][i] : i \in DOMAIN log[t]} : t \in DOMAIN log}

Sent(s, type) == \E cmd \in Contents(commandLog) : cmd.saga = s /\ cmd.type = type

Executed(g, s, type) ==
    \E i \in 1 .. cellPosition[g][type] : commandLog[type][i].saga = s

Noticed(s, tipo) == \E cmd \in Contents(commandLog) : cmd.saga = s /\ tipo \in cmd.payload

Announced(s, e) == events[s][e] > 0

(* Every behaviour of the hub, its topics and its offsets, is one of         *)
(* SagaProtocol: the messages are those in the topics, and a replica handles *)
(* a reply from ReadMessage to the end of its loop body.                     *)
Protocol == INSTANCE SagaProtocol WITH
    commands <- Contents(commandLog),
    replies <- Contents(replyLog),
    events <- {e \in [saga : Sagas, type : EventTypes] : Announced(e.saga, e.type)},
    handling <- [h \in Hubs |-> {[reply |-> t.reply, row |-> t.row] : t \in task[h]}]

ImplementsProtocol == Protocol!Spec

(* What SagaProtocol promises, of the hub on Kafka: the protocol's           *)
(* definitions, with the topics for its sets of messages.                    *)

(* pedido.go closes a saga as FAILED, and announces it, only if its order    *)
(* was refused or every compensation step was answered, whatever is lost,    *)
(* repeated, interrupted or handled by two replicas at once.                 *)
FailureIsFounded == Protocol!FailureIsFounded

(* pedido.go completes and confirms a saga only after its order was created  *)
(* and its stock reserved, or its compensation run.                          *)
ConfirmationIsFounded == Protocol!ConfirmationIsFounded

(* Stock is reserved, an order cancelled and stock released only after the   *)
(* replies that call for it, although no handler checks the step it is at.   *)
CommandsAreFounded == Protocol!CommandsAreFounded

(* Nothing made a message be handled or executed twice, and no save failed.  *)
(* (A commit that fails does so only together with a restart.)               *)
HandledOnce == disturbed = {}

(* The outside world hears one story per saga: at most one business event,   *)
(* published once, and at most one kind of notice to the client, and never   *)
(* a notice that contradicts the event.  pedido.go has no record of what it  *)
(* published, so this hangs on every reply being handled at most once.       *)
OneStory ==
    HandledOnce =>
    \A s \in Sagas :
        /\ \A e, f \in EventTypes :
              Announced(s, e) /\ Announced(s, f) => e = f /\ events[s][e] = 1
        /\ Noticed(s, "PEDIDO_CONFIRMADO") =>
              /\ ~Noticed(s, "PEDIDO_CANCELADO")
              /\ ~Announced(s, "PedidoCancelado")
              /\ ~Announced(s, "PedidoFalhou")
        /\ Noticed(s, "PEDIDO_CANCELADO") => ~Announced(s, "PedidoConfirmado")

(* A row that says COMPLETED or FAILED is never written again, whatever is   *)
(* lost, as long as nothing is handled twice: the replies that can still     *)
(* arrive (the cancellation notice's, for one) are recognised as too late.   *)
TerminalIsFinal ==
    [][HandledOnce' =>
       \A s \in Sagas : sagas[s].status \in Terminal => sagas'[s] = sagas[s]]_vars

(* What was announced is what GET /saga/:id answers from then on, as long as *)
(* nothing is handled twice and no save fails.                               *)
AnnouncementMatchesRow ==
    HandledOnce =>
    \A s \in Sagas :
        /\ Announced(s, "PedidoConfirmado") => sagas[s].status = "COMPLETED"
        /\ Announced(s, "PedidoCancelado") \/ Announced(s, "PedidoFalhou") =>
              sagas[s].status = "FAILED"

(* onNotificacaoReply: "Compensation path also sends a notification; don't   *)
(* override the FAILED status."  A saga whose cancellation was announced is  *)
(* not COMPLETED by the reply to its own cancellation notice.                *)
CompensatedStaysFailed ==
    \A s \in Sagas :
        Announced(s, "PedidoCancelado") => sagas[s].status # "COMPLETED"

(* README: the compensation sends commands.pedidos.cancelar, and the order's *)
(* final status is CANCELADO.  By the time PedidoCancelado is announced, the *)
(* order was cancelled, as cell-pedidos' reply says.  (onEstoqueReply sends  *)
(* cancelar_pedido with the key "motivo" alone, and cmdCancelarPedido asks   *)
(* for "pedido_id".)                                                         *)
CompensationCancelsOrder ==
    \A s \in Sagas :
        Announced(s, "PedidoCancelado") =>
            [saga |-> s, type |-> "cancelar_pedido", status |-> "success"]
               \in Contents(replyLog)

(* PROD.md, P2.6: a client's shard is deterministic, so that its data is to  *)
(* be deleted in one shard only.  The order of a saga is then created by the *)
(* cell of one shard.                                                        *)
OrderInOneShard ==
    \A s \in Sagas : \A g, k \in Shards :
        Executed(g, s, "criar_pedido") /\ Executed(k, s, "criar_pedido") => g = k

(* Manual commits make delivery at-least-once: an offset is committed past a *)
(* reply only when its handler has succeeded, by whichever replica, unless   *)
(* its saga was hit by a fault of Loses, such as a handler that failed and   *)
(* whose reply the next commit covers.                                       *)
AtLeastOnce ==
    \A t \in ReplyTopics : \A offset \in 0 .. committed[t] - 1 :
        <<t, offset>> \in handled \/ replyLog[t][offset + 1].saga \in lost

(* A command for saga s that a cell has not read, a reply that the replies'  *)
(* owner has not read, a handler that is still to save a row or to publish.  *)
UnreadCommand(s) ==
    \E g \in Shards : \E type \in CommandTypes :
        \E i \in cellPosition[g][type] + 1 .. Len(commandLog[type]) :
            commandLog[type][i].saga = s

UnreadReply(s) ==
    \E t \in ReplyTopics : \E i \in position[t] + 1 .. Len(replyLog[t]) :
        replyLog[t][i].saga = s

AtWork(s) ==
    \E h \in Hubs : \E t \in task[h] :
        /\ t.reply.saga = s
        /\ \/ pc[h] = "save"
           \/ pc[h] \in {"event", "publish"} /\ EffectOf(t).commands # {}

(* No saga is dropped unless a fault of Loses hits it: as long as its row is *)
(* not COMPLETED or FAILED, there is something that will still move it on,   *)
(* through crashes, failed commits and replies handled twice, with the row   *)
(* as it is or as it once was.  Only a replica that lost its partitions and  *)
(* dies between its stale save and its command breaks this.                  *)
NoSagaIsDropped ==
    ~({"crash", "rebalance"} \subseteq disturbed) =>
    \A s \in Sagas \ lost :
        Sent(s, "criar_pedido") /\ sagas[s].status \notin Terminal =>
            UnreadCommand(s) \/ UnreadReply(s) \/ AtWork(s)

(* A saga whose first command reached its topic comes to COMPLETED or FAILED *)
(* and, once the last reply is handled, remains there, unless a message or a *)
(* save of its own is lost: restarts and what is lost of other sagas do not  *)
(* keep it open.                                                             *)
SagaSettles ==
    \A s \in Sagas :
        [](Sent(s, "criar_pedido") =>
              <>(s \in lost) \/ <>[](sagas[s].status \in Terminal))

(* README, R1.2: a saga no longer ends in COMPENSATING without releasing the *)
(* stock.  True of the sagas of which nothing is lost.                       *)
CompensationReleases ==
    \A s \in Sagas :
        sagas[s].status = "COMPENSATING" ~> Sent(s, "liberar_estoque") \/ s \in lost
==============================================================================
