----------------------------- MODULE SagaHubProofs -----------------------------
(***************************************************************************)
(* Proofs about SagaHub, for any sets of sagas, replicas, shards, client   *)
(* payloads and faults.                                                    *)
(*                                                                         *)
(* Five results, under all faults.  TypeOK is inductive once it is known   *)
(* that a handler yields an Effect.  ImplementsProtocol: Flow adds to the  *)
(* types that a saga once inserted stays so, also in the rows replicas     *)
(* hold, and that a handler comes to its save only if it has one.          *)
(* AtLeastOnce: its invariant Delivery says that whatever the owner has    *)
(* read has come to its end or is in its handler.  OneStory,               *)
(* AnnouncementMatchesRow and TerminalIsFinal: until something makes a     *)
(* message be read twice or a save fails, a saga has one token at a time,  *)
(* and Line says what it has told the world by each step.                  *)
(* NoSagaIsDropped: Traced and Reached say that whatever a restart         *)
(* interrupts is read again, and a step that drops something makes its     *)
(* saga one of the lost.                                                   *)
(***************************************************************************)
EXTENDS SagaHub, SequenceTheorems, TLAPS

(* The abstract specification with what is proved of it.                     *)
Proved == INSTANCE SagaProtocolProofs WITH
    commands <- Contents(commandLog),
    replies <- Contents(replyLog),
    events <- {e \in [saga : Sagas, type : EventTypes] : Announced(e.saga, e.type)},
    handling <- [h \in Hubs |-> {[reply |-> t.reply, row |-> t.row] : t \in task[h]}]

-----------------------------------------------------------------------------
(* A handler yields an Effect with at most one event and one command.        *)
LEMMA EffectType ==
    ASSUME NEW t \in Task
    PROVE  EffectOf(t) \in Effect
<1>1. t.row \in Proved!Row /\ t.reply \in Proved!Reply
  BY DEF Task, HandleReply, OnPedidoCriado, FailSaga, OnEstoqueReply,
     OnNotificacaoReply, OnPedidoCancelado, OnEstoqueLiberado, NewCmd, Effect, Row,
     Reply, Command, CommandTypes, Statuses, Steps, PayloadKeys, EventTypes,
     ReplyStatuses, Proved!HandleReply, Proved!OnPedidoCriado, Proved!FailSaga,
     Proved!OnEstoqueReply, Proved!OnNotificacaoReply, Proved!OnPedidoCancelado,
     Proved!OnEstoqueLiberado, Proved!NewCmd, Proved!Effect, Proved!Row, Proved!Reply,
     Proved!Command, Proved!CommandTypes, Proved!Statuses, Proved!Steps,
     Proved!PayloadKeys, Proved!EventTypes, Proved!ReplyStatuses
<1>2. ClientPayloads \subseteq SUBSET Proved!PayloadKeys
  BY PayloadsAssumption DEF PayloadKeys, Proved!PayloadKeys
<1>3. Proved!HandleReply(t.row, t.reply) \in Proved!Effect
  BY <1>1, <1>2, Proved!EffectType
<1>. QED
  BY <1>3 DEF EffectOf, HandleReply, OnPedidoCriado, FailSaga, OnEstoqueReply,
     OnNotificacaoReply, OnPedidoCancelado, OnEstoqueLiberado, NewCmd, Effect, Row,
     Reply, Command, CommandTypes, Statuses, Steps, PayloadKeys, EventTypes,
     ReplyStatuses, Proved!HandleReply, Proved!OnPedidoCriado, Proved!FailSaga,
     Proved!OnEstoqueReply, Proved!OnNotificacaoReply, Proved!OnPedidoCancelado,
     Proved!OnEstoqueLiberado, Proved!NewCmd, Proved!Effect, Proved!Row, Proved!Reply,
     Proved!Command, Proved!CommandTypes, Proved!Statuses, Proved!Steps,
     Proved!PayloadKeys, Proved!EventTypes, Proved!ReplyStatuses

LEMMA EffectIsSingle ==
    ASSUME NEW t \in Task
    PROVE  /\ \A e \in EffectOf(t).events : EffectOf(t).events = {e}
           /\ \A cmd \in EffectOf(t).commands : EffectOf(t).commands = {cmd}
<1>1. t.reply.type \in CommandTypes
  BY DEF Task, Reply
<1>. QED
  BY <1>1 DEF EffectOf, HandleReply, CommandTypes, OnPedidoCriado, FailSaga,
     OnEstoqueReply, OnNotificacaoReply, OnPedidoCancelado, OnEstoqueLiberado

(* No handler takes a row back to the one that was never inserted.           *)
LEMMA EffectIsInserted ==
    ASSUME NEW t \in Task, t.row.status # "ABSENT"
    PROVE  EffectOf(t).row.status # "ABSENT"
<1>1. t.reply.type \in CommandTypes /\ t.row \in Row
  BY DEF Task, Reply
<1>. QED
  BY <1>1 DEF EffectOf, HandleReply, CommandTypes, OnPedidoCriado, FailSaga, Row,
     OnEstoqueReply, OnNotificacaoReply, OnPedidoCancelado, OnEstoqueLiberado

(* Producing to one topic adds one message to the contents of all.           *)
Logs(topics, messages) == [topics -> Seq(messages)]

Produced(new, log, t, m) == new = [log EXCEPT ![t] = Append(@, m)]

LEMMA ContentsOfProduced ==
    ASSUME NEW T, NEW M, NEW log \in Logs(T, M), NEW t \in T, NEW m \in M,
           NEW new, Produced(new, log, t, m)
    PROVE  Contents(new) = Contents(log) \cup {m}
<1>. USE DEF Logs, Produced
<1>. DEFINE Of(l, u) == {l[u][i] : i \in DOMAIN l[u]}
<1>1. DOMAIN new = T /\ DOMAIN log = T /\ new[t] = Append(log[t], m)
  OBVIOUS
<1>2. \A u \in T : u # t => new[u] = log[u]
  OBVIOUS
<1>. DEFINE n == Len(log[t])
<1>4. /\ DOMAIN log[t] = 1 .. n
      /\ DOMAIN new[t] = 1 .. n + 1
      /\ \A i \in 1 .. n : new[t][i] = log[t][i]
      /\ new[t][n + 1] = m
      /\ n \in Nat
  <2>1. log[t] \in Seq(M)
    OBVIOUS
  <2>. QED
    BY <1>1, <2>1, AppendProperties
<1>5. Of(new, t) = Of(log, t) \cup {m}
  <2>. HIDE DEF n
  <2>1. \A i : i \in 1 .. n + 1 <=> i \in 1 .. n \/ i = n + 1
    BY <1>4
  <2>. QED
    BY <1>4, <2>1
<1>6. \A u \in T : u # t => Of(new, u) = Of(log, u)
  BY <1>2
<1>7. Contents(new) = UNION {Of(new, u) : u \in T}
  BY <1>1 DEF Contents
<1>8. Contents(log) = UNION {Of(log, u) : u \in T}
  BY <1>1 DEF Contents
<1>. HIDE DEF Of
<1>9. \A x : x \in Contents(new) <=> \E u \in T : x \in Of(new, u)
  BY <1>7
<1>10. \A x : x \in Contents(log) <=> \E u \in T : x \in Of(log, u)
  BY <1>8
<1>11. \A x : x \in Contents(new) <=> x \in Contents(log) \cup {m}
  BY <1>5, <1>6, <1>9, <1>10, Zenon
<1>. QED
  BY <1>11, Zenon

LEMMA ContentsOfLog ==
    ASSUME NEW T, NEW M, NEW log \in [T -> Seq(M)], NEW t \in T,
           NEW i \in 1 .. Len(log[t])
    PROVE  log[t][i] \in Contents(log) /\ log[t][i] \in M
<1>1. log[t] \in Seq(M) /\ DOMAIN log = T
  OBVIOUS
<1>2. DOMAIN log[t] = 1 .. Len(log[t])
  BY <1>1
<1>. QED
  BY <1>1, <1>2 DEF Contents

(* What a replica finds at its position, and a cell at its own.              *)
LEMMA NextReplyType ==
    ASSUME TypeOK, NEW h \in Hubs, NEW t \in ReplyTopics, CanRead(h, t)
    PROVE  NextReply(t) \in Reply /\ NextReply(t) \in Contents(replyLog)
<1>1. replyLog \in [ReplyTopics -> Seq(Reply)] /\ position[t] \in Nat
  BY DEF TypeOK
<1>2. Len(replyLog[t]) \in Nat
  BY <1>1
<1>3. position[t] + 1 \in 1 .. Len(replyLog[t])
  BY <1>1, <1>2 DEF CanRead
<1>. QED
  BY <1>1, <1>3, ContentsOfLog DEF NextReply

LEMMA NextCommandType ==
    ASSUME TypeOK, NEW g \in Shards, NEW type \in CommandTypes,
           cellPosition[g][type] < Len(commandLog[type])
    PROVE  /\ NextCommand(g, type) \in Command
           /\ NextCommand(g, type) \in Contents(commandLog)
<1>1. commandLog \in [CommandTypes -> Seq(Command)] /\ cellPosition[g][type] \in Nat
  BY DEF TypeOK
<1>2. Len(commandLog[type]) \in Nat
  BY <1>1
<1>3. cellPosition[g][type] + 1 \in 1 .. Len(commandLog[type])
  BY <1>1, <1>2
<1>. QED
  BY <1>1, <1>3, ContentsOfLog DEF NextCommand

LEMMA StartCmdType ==
    ASSUME TypeOK, NEW s \in Sagas
    PROVE  StartCmd(s, sagas[s].payload) \in Command
BY DEF TypeOK, StartCmd, NewCmd, Command, CommandTypes, Row, PayloadKeys

-----------------------------------------------------------------------------
(* Type correctness, one lemma per part of the system.                       *)
LEMMA TypeInit == Init => TypeOK
BY FaultsAssumption DEF Init, TypeOK, Row, Absent, Statuses, Steps, PayloadKeys

FaultsTyped ==
    /\ faults \in 0 .. MaxFaults
    /\ disturbed \subseteq Disturbing
    /\ lost \subseteq Sagas

LEMMA FaultType ==
    ASSUME TypeOK,
           \/ NoFault
           \/ \E kind : Fault(kind)
           \/ \E kind : \E s \in Sagas : Loses(kind, s)
    PROVE  FaultsTyped'
<1>1. MaxFaults \in Nat
  BY FaultsAssumption
<1>2. UNCHANGED <<faults, disturbed>> \/ \E kind : Happens(kind)
  BY DEF NoFault, faultVars, Fault, Loses
<1>3. UNCHANGED lost \/ \E s \in Sagas : lost' = lost \cup {s}
  BY DEF NoFault, faultVars, Fault, Loses
<1>4. faults' \in 0 .. MaxFaults /\ disturbed' \subseteq Disturbing
  BY <1>1, <1>2 DEF TypeOK, Happens
<1>. QED
  BY <1>3, <1>4 DEF TypeOK, FaultsTyped

LEMMA TypeOfStart ==
    ASSUME TypeOK, NEW h \in Hubs, NEW s \in Sagas,
           \/ \E p \in ClientPayloads : StartSave(h, s, p)
           \/ StartPublish(h, s)
           \/ StartPublishFails(h, s)
    PROVE  TypeOK'
<1>1. CASE \E p \in ClientPayloads : StartSave(h, s, p)
  <2>1. PICK p \in ClientPayloads : StartSave(h, s, p)
    BY <1>1
  <2>2. NewSaga(p) \in Row
    BY PayloadsAssumption DEF NewSaga, Row, Statuses, Steps
  <2>. QED
    BY <2>1, <2>2 DEF TypeOK, StartSave, readerVars, handlerVars, cellVars,
       NoFault, faultVars
<1>2. CASE StartPublish(h, s)
  <2>1. StartCmd(s, sagas[s].payload) \in Command
    BY StartCmdType
  <2>2. StartCmd(s, sagas[s].payload).type \in CommandTypes
    BY <2>1 DEF Command
  <2>3. commandLog' \in [CommandTypes -> Seq(Command)]
    BY <1>2, <2>1, <2>2 DEF StartPublish, Produce, TypeOK
  <2>. QED
    BY <1>2, <2>3 DEF TypeOK, StartPublish, storeVars, readerVars,
       handlerVars, cellVars, NoFault, faultVars
<1>3. CASE StartPublishFails(h, s)
  <2>1. FaultsTyped'
    BY <1>3, FaultType DEF StartPublishFails
  <2>. QED
    BY <1>3, <2>1 DEF TypeOK, FaultsTyped, StartPublishFails, storeVars, readerVars,
       handlerVars, cellVars
<1>. QED
  BY <1>1, <1>2, <1>3

LEMMA ReceivedTask ==
    ASSUME TypeOK, NEW h \in Hubs, NEW t \in ReplyTopics, Receive(h, t)
    PROVE  LET tk == [topic |-> t, offset |-> position[t], reply |-> NextReply(t),
                      row |-> sagas[NextReply(t).saga]]
           IN  /\ tk \in Task
               /\ tk.row.status = sagas[NextReply(t).saga].status
               /\ task' = [task EXCEPT ![h] = {tk}]
               /\ pc' = [pc EXCEPT ![h] = AfterRead(EffectOf(tk))]
<1>1. NextReply(t) \in Reply
  BY NextReplyType DEF Receive
<1>2. sagas[NextReply(t).saga] \in Row /\ position[t] \in Nat
  BY <1>1 DEF TypeOK, Reply
<1>. QED
  BY <1>1, <1>2 DEF Receive, Task

LEMMA TypeOfReceive ==
    ASSUME TypeOK, NEW h \in Hubs, NEW t \in ReplyTopics,
           Receive(h, t) \/ ReceiveFails(h, t)
    PROVE  TypeOK'
<1>1. CASE Receive(h, t)
  <2>. DEFINE tk == [topic |-> t, offset |-> position[t], reply |-> NextReply(t),
                     row |-> sagas[NextReply(t).saga]]
  <2>1. /\ tk \in Task
        /\ task' = [task EXCEPT ![h] = {tk}]
        /\ pc' = [pc EXCEPT ![h] = AfterRead(EffectOf(tk))]
    BY <1>1, ReceivedTask
  <2>2. AfterRead(EffectOf(tk)) \in {"save", "commit"}
    BY DEF AfterRead
  <2>. HIDE DEF tk
  <2>. QED
    BY <1>1, <2>1, <2>2 DEF TypeOK, Receive, storeVars, cellVars, NoFault,
       faultVars
<1>2. CASE ReceiveFails(h, t)
  <2>1. FaultsTyped'
    BY <1>2, NextReplyType, FaultType DEF ReceiveFails, Reply
  <2>. QED
    BY <1>2, <2>1 DEF TypeOK, FaultsTyped, ReceiveFails, storeVars, handlerVars,
       cellVars
<1>. QED
  BY <1>1, <1>2

LEMMA TypeOfHandler ==
    ASSUME TypeOK, NEW h \in Hubs,
           \/ Save(h) \/ SaveFails(h)
           \/ PublishEvent(h) \/ EventLost(h)
           \/ PublishCommand(h) \/ PublishCommandFails(h) \/ CommandLost(h)
    PROVE  TypeOK'
<1>0. \A t : /\ AfterSave(EffectOf(t)) \in {"event", "publish"}
             /\ AfterEvent(EffectOf(t)) \in {"publish", "commit"}
  BY DEF AfterSave, AfterEvent
<1>a. \A t \in task[h] : t.reply.saga \in Sagas
  BY DEF TypeOK, Task, Reply
<1>1. CASE Save(h)
  <2>1. PICK t \in task[h] :
            /\ sagas' = [sagas EXCEPT ![t.reply.saga] = EffectOf(t).row]
            /\ pc' = [pc EXCEPT ![h] = AfterSave(EffectOf(t))]
    BY <1>1 DEF Save
  <2>2. t \in Task
    BY <2>1 DEF TypeOK
  <2>3. EffectOf(t).row \in Row
    BY <2>2, EffectType DEF Effect
  <2>4. t.reply.saga \in Sagas
    BY <2>2 DEF Task, Reply
  <2>5. sagas' \in [Sagas -> Row]
    BY <2>1, <2>3 DEF TypeOK
  <2>. QED
    BY <1>0, <1>1, <2>1, <2>5 DEF TypeOK, Save, readerVars, cellVars,
       NoFault, faultVars
<1>2. CASE SaveFails(h)
  <2>1. FaultsTyped'
    BY <1>a, <1>2, FaultType DEF SaveFails
  <2>. QED
    BY <1>0, <1>2, <2>1 DEF TypeOK, FaultsTyped, SaveFails, storeVars, readerVars,
       cellVars
<1>3. CASE PublishEvent(h)
  <2>1. PICK t \in task[h] : \E e \in EffectOf(t).events :
            /\ events' = [events EXCEPT ![t.reply.saga][e] = @ + 1]
            /\ pc' = [pc EXCEPT ![h] = AfterEvent(EffectOf(t))]
    BY <1>3 DEF PublishEvent
  <2>2. t \in Task
    BY <2>1 DEF TypeOK
  <2>3. EffectOf(t).events \subseteq EventTypes
    BY <2>2, EffectType DEF Effect
  <2>4. t.reply.saga \in Sagas
    BY <2>2 DEF Task, Reply
  <2>5. events' \in [Sagas -> [EventTypes -> Nat]]
    BY <2>1, <2>3, <2>4 DEF TypeOK
  <2>. QED
    BY <1>0, <1>3, <2>1, <2>5 DEF TypeOK, PublishEvent, readerVars,
       cellVars, NoFault, faultVars
<1>4. CASE EventLost(h)
  <2>1. FaultsTyped'
    BY <1>4, FaultType DEF EventLost
  <2>. QED
    BY <1>0, <1>4, <2>1 DEF TypeOK, FaultsTyped, EventLost, storeVars, readerVars,
       cellVars
<1>5. CASE PublishCommand(h)
  <2>1. PICK t \in task[h] : \E cmd \in EffectOf(t).commands : Produce(cmd)
    BY <1>5 DEF PublishCommand
  <2>2. t \in Task
    BY <2>1 DEF TypeOK
  <2>3. PICK cmd \in EffectOf(t).commands : Produce(cmd)
    BY <2>1
  <2>4. cmd \in Command /\ cmd.type \in CommandTypes
    BY <2>2, <2>3, EffectType DEF Effect, Command
  <2>5. commandLog' \in [CommandTypes -> Seq(Command)]
    BY <2>3, <2>4 DEF Produce, TypeOK
  <2>. QED
    BY <1>5, <2>5 DEF TypeOK, PublishCommand, storeVars, readerVars,
       cellVars, NoFault, faultVars
<1>6. CASE PublishCommandFails(h)
  <2>1. FaultsTyped'
    BY <1>a, <1>6, FaultType DEF PublishCommandFails
  <2>. QED
    BY <1>6, <2>1 DEF TypeOK, FaultsTyped, PublishCommandFails, storeVars, readerVars,
       cellVars
<1>7. CASE CommandLost(h)
  <2>1. FaultsTyped'
    BY <1>a, <1>7, FaultType DEF CommandLost
  <2>. QED
    BY <1>7, <2>1 DEF TypeOK, FaultsTyped, CommandLost, storeVars, readerVars, cellVars
<1>. QED
  BY <1>1, <1>2, <1>3, <1>4, <1>5, <1>6, <1>7

LEMMA TypeOfLoop ==
    ASSUME TypeOK, NEW h \in Hubs,
           Commit(h) \/ CommitFails(h) \/ HubCrash(h) \/ Rebalance(h)
    PROVE  TypeOK'
<1>1. CASE Commit(h) \/ CommitFails(h)
  <2>1. {<<t.topic, t.offset>> : t \in task[h]} \subseteq ReplyTopics \X Nat
    BY DEF TypeOK, Task
  <2>2. committed' \in [ReplyTopics -> Nat]
    <3>1. CASE UNCHANGED committed
      BY <3>1 DEF TypeOK
    <3>2. CASE \E t \in task[h] :
                  committed' = [committed EXCEPT ![t.topic] = t.offset + 1]
      <4>1. PICK t \in task[h] :
                  committed' = [committed EXCEPT ![t.topic] = t.offset + 1]
        BY <3>2
      <4>2. t \in Task
        BY <4>1 DEF TypeOK
      <4>3. t.offset + 1 \in Nat
        BY <4>2 DEF Task
      <4>. QED
        BY <4>1, <4>3 DEF TypeOK, FaultsTyped
    <3>. QED
      BY <1>1, <3>1, <3>2 DEF Commit, CommitFails
  <2>3. FaultsTyped'
    BY <1>1, FaultType DEF Commit, CommitFails, NoFault, faultVars, TypeOK
  <2>4. HandlerReturns(h)
    BY <1>1 DEF Commit, CommitFails
  <2>. QED
    BY <2>1, <2>2, <2>3, <2>4 DEF TypeOK, FaultsTyped, HandlerReturns, storeVars,
       cellVars
<1>2. CASE HubCrash(h)
  <2>1. FaultsTyped'
    BY <1>2, FaultType DEF HubCrash
  <2>. QED
    BY <1>2, <2>1 DEF TypeOK, FaultsTyped, HubCrash, storeVars, cellVars
<1>3. CASE Rebalance(h)
  <2>1. FaultsTyped'
    BY <1>3, FaultType DEF Rebalance
  <2>. QED
    BY <1>3, <2>1 DEF TypeOK, FaultsTyped, Rebalance, storeVars, handlerVars, cellVars
<1>. QED
  BY <1>1, <1>2, <1>3

(* A cell's outcome for the command it reads.                                *)
LEMMA ReplyType ==
    ASSUME NEW cmd \in Command, NEW st \in ReplyStatuses
    PROVE  /\ ReplyTo(cmd, st) \in Reply
           /\ ReplyTopicFor(ReplyTo(cmd, st)) \in ReplyTopics
<1>1. cmd.saga \in Sagas /\ cmd.type \in CommandTypes
  BY DEF Command
<1>2. ReplyTo(cmd, st) \in Reply /\ ReplyTo(cmd, st).type = cmd.type
  BY <1>1 DEF ReplyTo, Reply
<1>. QED
  BY <1>1, <1>2 DEF ReplyTopicFor, ReplyTopics, CommandTypes

LEMMA TypeOfCell ==
    ASSUME TypeOK, NEW g \in Shards, CellStep(g) \/ CellFault(g)
    PROVE  TypeOK'
<1>1. ASSUME NEW type \in CommandTypes, NEW st \in ReplyStatuses,
             \/ CellAnswers(g, type, st)
             \/ CellCommitFails(g, type, st)
             \/ CellReplyLost(g, type, st)
             \/ CellReplyDropped(g, type, st)
      PROVE  TypeOK'
  <2>1. CellProcess(g, type, st)
    BY <1>1 DEF CellAnswers, CellCommitFails, CellReplyLost, CellReplyDropped,
       CellCommitsAnswered
  <2>2. cellPosition' \in [Shards -> [CommandTypes -> Nat]]
    BY <2>1 DEF CellProcess, TypeOK
  <2>3. cellCommitted' \in [Shards -> [CommandTypes -> Nat]]
    <3>1. cellPosition[g][type] + 1 \in Nat
      BY DEF TypeOK
    <3>2. CASE UNCHANGED cellCommitted
      BY <3>2 DEF TypeOK
    <3>3. CASE CellCommits(g, type)
      BY <3>1, <3>3 DEF TypeOK, CellCommits
    <3>. QED
      BY <1>1, <3>2, <3>3 DEF CellAnswers, CellCommitFails, CellReplyLost,
         CellReplyDropped, CellCommitsAnswered
  <2>4. replyLog' \in [ReplyTopics -> Seq(Reply)]
    <3>. DEFINE cmd == NextCommand(g, type)
    <3>1. cmd \in Command
      BY <2>1, NextCommandType DEF CellProcess
    <3>2. /\ ReplyTo(cmd, st) \in Reply
          /\ ReplyTopicFor(ReplyTo(cmd, st)) \in ReplyTopics
      BY <3>1, ReplyType
    <3>3. CASE UNCHANGED replyLog
      BY <3>3 DEF TypeOK
    <3>4. CASE CellReplies(g, type, st)
      <4>. DEFINE reply == ReplyTo(cmd, st)
                  topic == ReplyTopicFor(reply)
      <4>1. replyLog' = [replyLog EXCEPT ![topic] = Append(@, reply)]
        BY <3>4 DEF CellReplies, NextCommand
      <4>2. reply \in Reply /\ topic \in ReplyTopics
        BY <3>2
      <4>. HIDE DEF reply, topic, cmd
      <4>. QED
        BY <4>1, <4>2 DEF TypeOK, FaultsTyped
    <3>. QED
      BY <1>1, <3>3, <3>4 DEF CellAnswers, CellCommitFails, CellReplyLost,
         CellReplyDropped, CellCommitsAnswered
  <2>0. NextCommand(g, type).saga \in Sagas
    BY <2>1, NextCommandType DEF CellProcess, Command
  <2>5. FaultsTyped'
    BY <1>1, <2>0, FaultType DEF CellAnswers, CellCommitFails, CellReplyLost,
       CellReplyDropped, CellCommitsAnswered, NoFault, faultVars, TypeOK
  <2>. QED
    BY <2>1, <2>2, <2>3, <2>4, <2>5 DEF TypeOK, FaultsTyped, CellProcess, storeVars,
       readerVars, handlerVars
<1>2. ASSUME NEW pbc \in PBCs, CellCrash(g, pbc)
      PROVE  TypeOK'
  <2>1. FaultsTyped'
    BY <1>2, FaultType DEF CellCrash
  <2>2. cellPosition' \in [Shards -> [CommandTypes -> Nat]]
    BY <1>2 DEF CellCrash, TypeOK
  <2>. QED
    BY <1>2, <2>1, <2>2 DEF TypeOK, FaultsTyped, CellCrash, storeVars, readerVars,
       handlerVars
<1>. QED
  BY <1>1, <1>2 DEF CellStep, CellFault

LEMMA TypeStep == TypeOK /\ [Next]_vars => TypeOK'
<1>. SUFFICES ASSUME TypeOK, [Next]_vars PROVE TypeOK'
  OBVIOUS
<1>1. ASSUME NEW h \in Hubs, NEW s \in Sagas, NEW p \in ClientPayloads,
             StartSave(h, s, p)
      PROVE  TypeOK'
  BY <1>1, TypeOfStart
<1>2. ASSUME NEW h \in Hubs, HubStep(h) \/ HubFault(h)
      PROVE  TypeOK'
  BY <1>2, TypeOfStart, TypeOfReceive, TypeOfHandler, TypeOfLoop DEF HubStep, HubFault
<1>3. ASSUME NEW g \in Shards, CellStep(g) \/ CellFault(g)
      PROVE  TypeOK'
  BY <1>3, TypeOfCell
<1>4. CASE UNCHANGED vars
  BY <1>4 DEF vars, TypeOK
<1>. QED
  BY <1>1, <1>2, <1>3, <1>4 DEF Next

(* The logs, offsets, rows and handlers of the hub keep their types: offsets *)
(* stay natural and every produced message goes to a topic that exists.      *)
THEOREM TypeCorrect == Spec => []TypeOK
BY TypeInit, TypeStep, PTL DEF Spec

-----------------------------------------------------------------------------
(* The refinement of SagaProtocol.                                           *)
Flow ==
    /\ \A s \in Sagas : sagas[s] = Absent \/ sagas[s].status # "ABSENT"
    /\ \A h \in Hubs : \A s \in starting[h] : sagas[s] # Absent
    /\ \A h \in Hubs : \A t \in task[h] :
          /\ t.row.status # "ABSENT"
          /\ pc[h] = "save" => EffectOf(t).saves

LEMMA FlowInit == Init => Flow
BY DEF Init, Flow

LEMMA FlowOfStart ==
    ASSUME TypeOK, Flow, NEW h \in Hubs, NEW s \in Sagas,
           \/ \E p \in ClientPayloads : StartSave(h, s, p)
           \/ StartPublish(h, s)
           \/ StartPublishFails(h, s)
    PROVE  Flow'
<1>1. CASE \E p \in ClientPayloads : StartSave(h, s, p)
  <2>1. PICK p \in ClientPayloads : StartSave(h, s, p)
    BY <1>1
  <2>2. NewSaga(p).status # "ABSENT" /\ Absent.status = "ABSENT"
    BY DEF NewSaga, Absent
  <2>3. NewSaga(p) # Absent
    BY <2>2
  <2>4. /\ sagas' = [sagas EXCEPT ![s] = NewSaga(p)]
        /\ starting' = [starting EXCEPT ![h] = @ \cup {s}]
        /\ UNCHANGED <<pc, task>>
    BY <2>1 DEF StartSave, handlerVars
  <2>5. sagas \in [Sagas -> Row] /\ starting \in [Hubs -> SUBSET Sagas]
    BY DEF TypeOK
  <2>6. \A u \in Sagas : sagas[u] # Absent => sagas'[u] # Absent
    BY <2>3, <2>4, <2>5
  <2>7. \A u \in Sagas : sagas'[u] = Absent \/ sagas'[u].status # "ABSENT"
    BY <2>2, <2>4, <2>5 DEF Flow
  <2>8. \A k \in Hubs : \A u \in starting'[k] : u \in Sagas /\ sagas'[u] # Absent
    BY <2>3, <2>4, <2>5, <2>6 DEF Flow
  <2>. QED
    BY <2>4, <2>7, <2>8 DEF Flow
<1>2. CASE StartPublish(h, s) \/ StartPublishFails(h, s)
  <2>1. /\ UNCHANGED <<sagas, pc, task>>
        /\ \A k \in Hubs : starting'[k] \subseteq starting[k]
    BY <1>2 DEF StartPublish, StartPublishFails, storeVars, handlerVars, TypeOK
  <2>. QED
    BY <2>1 DEF Flow
<1>. QED
  BY <1>1, <1>2

LEMMA FlowOfReceive ==
    ASSUME TypeOK, Flow, NEW h \in Hubs, NEW t \in ReplyTopics, Receive(h, t)
    PROVE  Flow'
<1>. DEFINE tk == [topic |-> t, offset |-> position[t], reply |-> NextReply(t),
                   row |-> sagas[NextReply(t).saga]]
<1>1. /\ task' = [task EXCEPT ![h] = {tk}]
      /\ pc' = [pc EXCEPT ![h] = AfterRead(EffectOf(tk))]
      /\ tk.row.status = sagas[NextReply(t).saga].status
  BY ReceivedTask
<1>2. NextReply(t).saga \in Sagas
  BY NextReplyType DEF Receive, Reply
<1>3. tk.row.status # "ABSENT"
  BY <1>1, <1>2 DEF Receive, Flow
<1>4. AfterRead(EffectOf(tk)) = "save" => EffectOf(tk).saves
  BY DEF AfterRead
<1>5. UNCHANGED <<sagas, starting>>
  BY DEF Receive, storeVars
<1>6. task \in [Hubs -> SUBSET Task] /\ DOMAIN pc = Hubs
  BY DEF TypeOK
<1>7. ASSUME NEW k \in Hubs, NEW u \in task'[k]
      PROVE  u.row.status # "ABSENT" /\ (pc'[k] = "save" => EffectOf(u).saves)
  <2>. HIDE DEF tk
  <2>1. CASE k = h
    BY <1>1, <1>3, <1>4, <1>6, <1>7, <2>1
  <2>2. CASE k # h
    BY <1>1, <1>6, <1>7, <2>2 DEF Flow
  <2>. QED
    BY <2>1, <2>2
<1>. QED
  BY <1>5, <1>7 DEF Flow

LEMMA FlowOfSave ==
    ASSUME TypeOK, Flow, NEW h \in Hubs, Save(h)
    PROVE  Flow'
<1>1. PICK t \in task[h] :
          /\ sagas' = [sagas EXCEPT ![t.reply.saga] = EffectOf(t).row]
          /\ pc' = [pc EXCEPT ![h] = AfterSave(EffectOf(t))]
          /\ UNCHANGED <<starting, task>>
  BY DEF Save
<1>2. t \in Task /\ sagas \in [Sagas -> Row] /\ DOMAIN pc = Hubs
  BY <1>1 DEF TypeOK
<1>3. EffectOf(t).row.status # "ABSENT"
  BY <1>1, <1>2, EffectIsInserted DEF Flow
<1>4. Absent.status = "ABSENT"
  BY DEF Absent
<1>5. \A u \in Sagas : /\ sagas'[u] = Absent \/ sagas'[u].status # "ABSENT"
                       /\ sagas[u] # Absent => sagas'[u] # Absent
  BY <1>1, <1>2, <1>3, <1>4 DEF Flow
<1>6. \A k \in Hubs : pc'[k] = "save" => pc[k] = "save"
  BY <1>1, <1>2 DEF AfterSave
<1>7. \A k \in Hubs : starting[k] \subseteq Sagas
  BY DEF TypeOK
<1>. QED
  BY <1>1, <1>5, <1>6, <1>7 DEF Flow

(* The other steps write no row and bring no handler to its save.            *)
LEMMA FlowOfRest ==
    ASSUME TypeOK, Flow, UNCHANGED sagas,
           \A h \in Hubs : /\ starting'[h] \subseteq starting[h]
                           /\ task'[h] \subseteq task[h]
                           /\ pc'[h] = "save" => pc[h] = "save"
    PROVE  Flow'
BY DEF Flow

LEMMA FlowStep == TypeOK /\ Flow /\ [Next]_vars => Flow'
<1>. SUFFICES ASSUME TypeOK, Flow, [Next]_vars PROVE Flow'
  OBVIOUS
<1>1. ASSUME NEW h \in Hubs, NEW s \in Sagas, NEW p \in ClientPayloads,
             StartSave(h, s, p)
      PROVE  Flow'
  BY <1>1, FlowOfStart
<1>2. ASSUME NEW h \in Hubs, HubStep(h) \/ HubFault(h)
      PROVE  Flow'
  <2>1. CASE \E s \in Sagas : StartPublish(h, s) \/ StartPublishFails(h, s)
    BY <2>1, FlowOfStart
  <2>2. CASE \E t \in ReplyTopics : Receive(h, t)
    BY <2>2, FlowOfReceive
  <2>3. CASE Save(h)
    BY <2>3, FlowOfSave
  <2>4. ASSUME \/ \E t \in ReplyTopics : ReceiveFails(h, t)
               \/ SaveFails(h) \/ PublishEvent(h) \/ EventLost(h)
               \/ PublishCommand(h) \/ PublishCommandFails(h) \/ CommandLost(h)
               \/ Commit(h) \/ CommitFails(h) \/ HubCrash(h) \/ Rebalance(h)
        PROVE  Flow'
    <3>1. UNCHANGED sagas
      BY <2>4 DEF ReceiveFails, SaveFails, PublishEvent, EventLost, PublishCommand,
         PublishCommandFails, CommandLost, Commit, CommitFails, HandlerReturns,
         HubCrash, Rebalance, storeVars
    <3>2. \A k \in Hubs : starting'[k] \subseteq starting[k]
      BY <2>4 DEF ReceiveFails, SaveFails, PublishEvent, EventLost, PublishCommand,
         PublishCommandFails, CommandLost, Commit, CommitFails, HandlerReturns,
         HubCrash, Rebalance, TypeOK
    <3>3. \A k \in Hubs : task'[k] \subseteq task[k]
      BY <2>4 DEF ReceiveFails, SaveFails, PublishEvent, EventLost, PublishCommand,
         PublishCommandFails, CommandLost, Commit, CommitFails, HandlerReturns,
         HubCrash, Rebalance, handlerVars, TypeOK
    <3>4. \A k \in Hubs : pc'[k] = "save" => pc[k] = "save"
      BY <2>4 DEF ReceiveFails, SaveFails, PublishEvent, EventLost, PublishCommand,
         PublishCommandFails, CommandLost, Commit, CommitFails, HandlerReturns,
         HubCrash, Rebalance, handlerVars, TypeOK, AfterSave, AfterEvent
    <3>. QED
      BY <3>1, <3>2, <3>3, <3>4, FlowOfRest
  <2>. QED
    BY <1>2, <2>1, <2>2, <2>3, <2>4 DEF HubStep, HubFault
<1>3. ASSUME NEW g \in Shards, CellStep(g) \/ CellFault(g)
      PROVE  Flow'
  <2>1. UNCHANGED <<sagas, starting, pc, task>>
    BY <1>3 DEF CellStep, CellFault, CellAnswers, CellCommitFails, CellReplyLost,
       CellReplyDropped, CellCommitsAnswered, CellProcess, CellCrash, storeVars,
       handlerVars
  <2>. QED
    BY <2>1, FlowOfRest
<1>4. CASE UNCHANGED vars
  BY <1>4, FlowOfRest DEF vars
<1>. QED
  BY <1>1, <1>2, <1>3, <1>4 DEF Next

(* The two modules share SagaHandlers; what it decides is the same in both.  *)
LEMMA SameHandlers ==
    /\ Protocol!Absent = Absent
    /\ \A p : Protocol!NewSaga(p) = NewSaga(p)
    /\ \A s, p : Protocol!StartCmd(s, p) = StartCmd(s, p)
    /\ \A row, reply : Protocol!HandleReply(row, reply) = HandleReply(row, reply)
    /\ \A cmd : Protocol!Answers(cmd) = Answers(cmd)
    /\ \A cmd, st : Protocol!ReplyTo(cmd, st) = ReplyTo(cmd, st)
    /\ Protocol!ReplyStatuses = ReplyStatuses
BY DEF Protocol!Absent, Absent, Protocol!NewSaga, NewSaga, Protocol!StartCmd, StartCmd,
   Protocol!NewCmd, NewCmd, Protocol!HandleReply, HandleReply, Protocol!OnPedidoCriado,
   OnPedidoCriado, Protocol!FailSaga, FailSaga, Protocol!OnEstoqueReply,
   OnEstoqueReply, Protocol!OnNotificacaoReply, OnNotificacaoReply,
   Protocol!OnPedidoCancelado, OnPedidoCancelado, Protocol!OnEstoqueLiberado,
   OnEstoqueLiberado, Protocol!Answers, Answers, Protocol!RequiredKeys, RequiredKeys,
   Protocol!ReplyTo, ReplyTo, Protocol!ReplyStatuses, ReplyStatuses

(* The abstract variables as functions of the detailed ones.                 *)
Handled(t) == [reply |-> t.reply, row |-> t.row]

Handling(tasks) == [h \in Hubs |-> {Handled(t) : t \in tasks[h]}]

EventsIn(counts) ==
    {e \in [saga : Sagas, type : EventTypes] : counts[e.saga][e.type] > 0}

(* What the steps of the protocol are, in terms of the detailed variables.   *)
AbstractStutters ==
    /\ UNCHANGED sagas
    /\ Contents(commandLog)' = Contents(commandLog)
    /\ Contents(replyLog)' = Contents(replyLog)
    /\ EventsIn(events)' = EventsIn(events)
    /\ Handling(task)' = Handling(task)

AbstractLeaves(h) ==
    /\ UNCHANGED sagas
    /\ Contents(commandLog)' = Contents(commandLog)
    /\ Contents(replyLog)' = Contents(replyLog)
    /\ EventsIn(events)' = EventsIn(events)
    /\ Handling(task)' = [Handling(task) EXCEPT ![h] = {}]

AbstractStep == [Protocol!Next]_(Protocol!vars)

LEMMA Stutters ==
    ASSUME AbstractStutters
    PROVE  AbstractStep
BY DEF AbstractStutters, AbstractStep, Protocol!vars, EventsIn, Handling, Handled,
   Announced

LEMMA Leaves ==
    ASSUME NEW h \in Hubs, AbstractLeaves(h)
    PROVE  AbstractStep
<1>1. Protocol!Leave(h)
  BY DEF AbstractLeaves, Protocol!Leave, EventsIn, Handling, Handled, Announced
<1>. QED
  BY <1>1 DEF AbstractStep, Protocol!Next

LEMMA HandlingOfTask ==
    ASSUME TypeOK, NEW h \in Hubs, NEW S, task' = [task EXCEPT ![h] = S]
    PROVE  Handling(task)' = [Handling(task) EXCEPT ![h] = {Handled(t) : t \in S}]
BY DEF TypeOK, Handling

LEMMA HandlingCleared ==
    ASSUME TypeOK, NEW h \in Hubs, task' = [task EXCEPT ![h] = {}]
    PROVE  Handling(task)' = [Handling(task) EXCEPT ![h] = {}]
BY DEF TypeOK, Handling

LEMMA CommandProduced ==
    ASSUME TypeOK, NEW cmd \in Command, cmd.type \in CommandTypes,
           commandLog' = [commandLog EXCEPT ![cmd.type] = Append(@, cmd)]
    PROVE  Contents(commandLog)' = Contents(commandLog) \cup {cmd}
<1>1. commandLog \in Logs(CommandTypes, Command)
  BY DEF TypeOK, Logs
<1>2. Produced(commandLog', commandLog, cmd.type, cmd)
  BY DEF Produced
<1>. QED
  BY <1>1, <1>2, ContentsOfProduced

(* A row is inserted, and the first command published.                       *)
LEMMA RefinesStart ==
    ASSUME TypeOK, Flow, NEW h \in Hubs, NEW s \in Sagas,
           \/ \E p \in ClientPayloads : StartSave(h, s, p)
           \/ StartPublish(h, s)
           \/ StartPublishFails(h, s)
    PROVE  AbstractStep
<1>1. CASE \E p \in ClientPayloads : StartSave(h, s, p)
  <2>1. PICK p \in ClientPayloads : StartSave(h, s, p)
    BY <1>1
  <2>2. Protocol!StartSave(s, p)
    BY <2>1, SameHandlers DEF StartSave, handlerVars, Protocol!StartSave, Announced
  <2>. QED
    BY <2>2 DEF AbstractStep, Protocol!Next
<1>2. CASE StartPublish(h, s)
  <2>. DEFINE cmd == StartCmd(s, sagas[s].payload)
  <2>1. cmd \in Command /\ cmd.type \in CommandTypes
    BY StartCmdType DEF Command
  <2>2. commandLog' = [commandLog EXCEPT ![cmd.type] = Append(@, cmd)]
    BY <1>2 DEF StartPublish, Produce
  <2>3. Contents(commandLog)' = Contents(commandLog) \cup {cmd}
    <3>. HIDE DEF cmd
    <3>. QED
      BY <2>1, <2>2, CommandProduced
  <2>4. Protocol!StartPublish(s)
    BY <1>2, <2>3, SameHandlers DEF StartPublish, Flow, storeVars, handlerVars,
       Protocol!StartPublish, Announced
  <2>. QED
    BY <2>4 DEF AbstractStep, Protocol!Next
<1>3. CASE StartPublishFails(h, s)
  <2>1. AbstractStutters
    BY <1>3 DEF AbstractStutters, StartPublishFails, storeVars, handlerVars
  <2>. QED
    BY <2>1, Stutters
<1>. QED
  BY <1>1, <1>2, <1>3

(* A replica takes a reply and reads the row.                                *)
LEMMA RefinesReceive ==
    ASSUME TypeOK, NEW h \in Hubs, NEW t \in ReplyTopics,
           Receive(h, t) \/ ReceiveFails(h, t)
    PROVE  AbstractStep
<1>1. CASE Receive(h, t)
  <2>1. PICK reply \in Contents(replyLog) : reply = NextReply(t)
    BY <1>1, NextReplyType DEF Receive
  <2>. DEFINE tk == [topic |-> t, offset |-> position[t], reply |-> reply,
                     row |-> sagas[reply.saga]]
  <2>2. task' = [task EXCEPT ![h] = {tk}]
    BY <1>1, <2>1, ReceivedTask
  <2>3. Handled(tk) = [reply |-> reply, row |-> sagas[reply.saga]]
    BY DEF Handled
  <2>4. Handling(task)' = [Handling(task) EXCEPT ![h] = {Handled(tk)}]
    <3>. HIDE DEF tk
    <3>1. Handling(task)' = [Handling(task) EXCEPT ![h] = {Handled(u) : u \in {tk}}]
      BY <2>2, HandlingOfTask
    <3>. QED
      BY <3>1
  <2>5. Handling(task)[h] = {}
    BY <1>1 DEF Receive, CanRead, Handling
  <2>6. /\ sagas[reply.saga] # Absent
        /\ UNCHANGED <<sagas, commandLog, replyLog, events>>
    BY <1>1, <2>1 DEF Receive, storeVars
  <2>. HIDE DEF tk
  <2>7. Protocol!Find(h, reply)
    BY <2>3, <2>4, <2>5, <2>6, SameHandlers DEF Protocol!Find, Handling, Handled,
       Announced
  <2>. QED
    BY <2>1, <2>7 DEF AbstractStep, Protocol!Next
<1>2. CASE ReceiveFails(h, t)
  <2>1. AbstractStutters
    BY <1>2 DEF AbstractStutters, ReceiveFails, storeVars, handlerVars
  <2>. QED
    BY <2>1, Stutters
<1>. QED
  BY <1>1, <1>2

(* The steps of a handler.  Those that fail leave the abstract state alone.  *)
LEMMA RefinesSave ==
    ASSUME TypeOK, Flow, NEW h \in Hubs, Save(h)
    PROVE  AbstractStep
<1>1. PICK t \in task[h] :
          /\ pc[h] = "save"
          /\ sagas' = [sagas EXCEPT ![t.reply.saga] = EffectOf(t).row]
          /\ UNCHANGED <<commandLog, replyLog, events, task>>
  BY DEF Save
<1>2. EffectOf(t).saves
  BY <1>1 DEF Flow
<1>3. PICK u \in Handling(task)[h] : u = Handled(t)
  BY <1>1 DEF Handling
<1>4. u.row = t.row /\ u.reply = t.reply
  BY <1>3 DEF Handled
<1>5. Protocol!HandleReply(u.row, u.reply) = EffectOf(t)
  BY <1>4, SameHandlers DEF EffectOf
<1>6. UNCHANGED <<Contents(commandLog), Contents(replyLog), EventsIn(events),
                  Handling(task)>>
  BY <1>1
<1>7. Protocol!Save(h)
  BY <1>1, <1>2, <1>3, <1>4, <1>5, <1>6
     DEF Protocol!Save, Handling, Handled, EventsIn, Announced
<1>. QED
  BY <1>7 DEF AbstractStep, Protocol!Next

LEMMA EventCounted ==
    ASSUME TypeOK, NEW s \in Sagas, NEW e \in EventTypes,
           events' = [events EXCEPT ![s][e] = @ + 1]
    PROVE  EventsIn(events)' = EventsIn(events) \cup [saga : {s}, type : {e}]
<1>1. events \in [Sagas -> [EventTypes -> Nat]]
  BY DEF TypeOK
<1>2. \A u \in Sagas, f \in EventTypes :
          events'[u][f] > 0 <=> events[u][f] > 0 \/ (u = s /\ f = e)
  BY <1>1
<1>3. ASSUME NEW x
      PROVE  x \in EventsIn(events)' <=>
                x \in EventsIn(events) \cup [saga : {s}, type : {e}]
  <2>1. x \in [saga : {s}, type : {e}] <=>
            x \in [saga : Sagas, type : EventTypes] /\ x.saga = s /\ x.type = e
    OBVIOUS
  <2>2. CASE x \in [saga : Sagas, type : EventTypes]
    <3>1. x.saga \in Sagas /\ x.type \in EventTypes
      BY <2>2
    <3>. QED
      BY <1>2, <2>1, <2>2, <3>1 DEF EventsIn
  <2>3. CASE x \notin [saga : Sagas, type : EventTypes]
    BY <2>1, <2>3 DEF EventsIn
  <2>. QED
    BY <2>2, <2>3
<1>. QED
  BY <1>3

LEMMA RefinesPublishEvent ==
    ASSUME TypeOK, NEW h \in Hubs, PublishEvent(h)
    PROVE  AbstractStep
<1>1. PICK t \in task[h] : \E e \in EffectOf(t).events :
          /\ events' = [events EXCEPT ![t.reply.saga][e] = @ + 1]
          /\ UNCHANGED <<sagas, commandLog, replyLog, task>>
  BY DEF PublishEvent
<1>2. PICK e \in EffectOf(t).events :
          /\ events' = [events EXCEPT ![t.reply.saga][e] = @ + 1]
          /\ UNCHANGED <<sagas, commandLog, replyLog, task>>
  BY <1>1
<1>3. t \in Task
  BY DEF TypeOK
<1>4. e \in EventTypes /\ t.reply.saga \in Sagas
  BY <1>2, <1>3, EffectType DEF Effect, Task, Reply
<1>5. EffectOf(t).events = {e}
  BY <1>2, <1>3, EffectIsSingle
<1>6. PICK u \in Handling(task)[h] : u = Handled(t)
  BY DEF Handling
<1>7. u.row = t.row /\ u.reply = t.reply
  BY <1>6 DEF Handled
<1>8. Protocol!HandleReply(u.row, u.reply) = EffectOf(t)
  BY <1>7, SameHandlers DEF EffectOf
<1>9. EventsIn(events)' = EventsIn(events) \cup [saga : {t.reply.saga}, type : {e}]
  <2>1. PICK s \in Sagas : s = t.reply.saga
    BY <1>4
  <2>. QED
    BY <1>2, <1>4, <2>1, EventCounted
<1>10. EventsIn(events)' = EventsIn(events) \cup
          [saga : {u.reply.saga}, type : Protocol!HandleReply(u.row, u.reply).events]
  BY <1>5, <1>7, <1>8, <1>9
<1>11. UNCHANGED <<sagas, Contents(commandLog), Contents(replyLog), Handling(task)>>
  BY <1>2
<1>12. Protocol!PublishEvent(h)
  BY <1>6, <1>10, <1>11 DEF Protocol!PublishEvent, Handling, Handled, EventsIn, Announced
<1>. QED
  BY <1>12 DEF AbstractStep, Protocol!Next

LEMMA RefinesPublishCommand ==
    ASSUME TypeOK, NEW h \in Hubs, PublishCommand(h)
    PROVE  AbstractStep
<1>1. PICK t \in task[h] : \E cmd \in EffectOf(t).commands :
          Produce(cmd) /\ UNCHANGED <<sagas, replyLog, events, task>>
  BY DEF PublishCommand, storeVars
<1>2. PICK cmd \in EffectOf(t).commands :
          Produce(cmd) /\ UNCHANGED <<sagas, replyLog, events, task>>
  BY <1>1
<1>3. t \in Task
  BY DEF TypeOK
<1>4. cmd \in Command /\ cmd.type \in CommandTypes
  BY <1>2, <1>3, EffectType DEF Effect, Command
<1>5. EffectOf(t).commands = {cmd}
  BY <1>2, <1>3, EffectIsSingle
<1>6. PICK u \in Handling(task)[h] : u = Handled(t)
  BY DEF Handling
<1>7. u.row = t.row /\ u.reply = t.reply
  BY <1>6 DEF Handled
<1>8. Protocol!HandleReply(u.row, u.reply) = EffectOf(t)
  BY <1>7, SameHandlers DEF EffectOf
<1>9. Contents(commandLog)' = Contents(commandLog) \cup {cmd}
  BY <1>2, <1>4, CommandProduced DEF Produce
<1>10. UNCHANGED <<sagas, Contents(replyLog), EventsIn(events), Handling(task)>>
  BY <1>2
<1>11. Protocol!PublishCommand(h)
  BY <1>5, <1>6, <1>8, <1>9, <1>10
     DEF Protocol!PublishCommand, Handling, Handled, EventsIn, Announced
<1>. QED
  BY <1>11 DEF AbstractStep, Protocol!Next

LEMMA RefinesFailures ==
    ASSUME TypeOK, NEW h \in Hubs,
           SaveFails(h) \/ EventLost(h) \/ CommandLost(h) \/ PublishCommandFails(h)
    PROVE  AbstractStep
<1>0. UNCHANGED <<sagas, commandLog, replyLog, events>>
  BY DEF SaveFails, EventLost, CommandLost, PublishCommandFails, storeVars
<1>1. CASE UNCHANGED task
  BY <1>0, <1>1, Stutters DEF AbstractStutters
<1>2. CASE task' = [task EXCEPT ![h] = {}]
  <2>1. Handling(task)' = [Handling(task) EXCEPT ![h] = {}]
    BY <1>2, HandlingCleared
  <2>. QED
    BY <1>0, <2>1, Leaves DEF AbstractLeaves
<1>. QED
  BY <1>1, <1>2 DEF SaveFails, EventLost, CommandLost, PublishCommandFails

LEMMA RefinesLoop ==
    ASSUME TypeOK, NEW h \in Hubs,
           Commit(h) \/ CommitFails(h) \/ HubCrash(h) \/ Rebalance(h)
    PROVE  AbstractStep
<1>1. UNCHANGED <<sagas, commandLog, replyLog, events>>
  BY DEF Commit, CommitFails, HandlerReturns, HubCrash, Rebalance, storeVars
<1>2. CASE Commit(h) \/ CommitFails(h) \/ HubCrash(h)
  <2>1. task' = [task EXCEPT ![h] = {}]
    BY <1>2 DEF Commit, CommitFails, HandlerReturns, HubCrash
  <2>2. Handling(task)' = [Handling(task) EXCEPT ![h] = {}]
    BY <2>1, HandlingCleared
  <2>. QED
    BY <1>1, <2>2, Leaves DEF AbstractLeaves
<1>3. CASE Rebalance(h)
  <2>1. AbstractStutters
    BY <1>1, <1>3 DEF AbstractStutters, Rebalance, handlerVars
  <2>. QED
    BY <2>1, Stutters
<1>. QED
  BY <1>2, <1>3

(* A cell answers a command of its topic.                                    *)
LEMMA RefinesCell ==
    ASSUME TypeOK, NEW g \in Shards, CellStep(g) \/ CellFault(g)
    PROVE  AbstractStep
<1>1. ASSUME NEW type \in CommandTypes, NEW st \in ReplyStatuses,
             CellAnswers(g, type, st) \/ CellCommitFails(g, type, st)
      PROVE  AbstractStep
  <2>1. CellProcess(g, type, st) /\ CellReplies(g, type, st)
    BY <1>1 DEF CellAnswers, CellCommitFails
  <2>2. cellPosition[g][type] < Len(commandLog[type])
    BY <2>1 DEF CellProcess
  <2>3. PICK cmd \in Contents(commandLog) :
            cmd \in Command /\ cmd = NextCommand(g, type)
    BY <2>2, NextCommandType
  <2>4. /\ st \in Answers(cmd)
        /\ UNCHANGED <<sagas, commandLog, events, task>>
    BY <2>1, <2>3 DEF CellProcess, storeVars, handlerVars
  <2>5. PICK reply \in Reply : reply = ReplyTo(cmd, st)
    BY <2>3, ReplyType
  <2>6. ReplyTopicFor(reply) \in ReplyTopics
    BY <2>3, <2>5, ReplyType
  <2>7. Contents(replyLog)' = Contents(replyLog) \cup {reply}
    <3>1. replyLog \in Logs(ReplyTopics, Reply)
      BY DEF TypeOK, Logs
    <3>2. Produced(replyLog', replyLog, ReplyTopicFor(reply), reply)
      BY <2>1, <2>3, <2>5 DEF CellReplies, NextCommand, Produced
    <3>. QED
      BY <2>6, <3>1, <3>2, ContentsOfProduced
  <2>8. Protocol!Answer(cmd, st)
    BY <2>4, <2>5, <2>7, SameHandlers
       DEF Protocol!Answer, Handling, Handled, EventsIn, Announced
  <2>9. st \in Protocol!ReplyStatuses
    BY SameHandlers
  <2>. QED
    BY <2>3, <2>8, <2>9 DEF AbstractStep, Protocol!Next
<1>2. ASSUME NEW type \in CommandTypes, NEW st \in ReplyStatuses,
             CellReplyLost(g, type, st) \/ CellReplyDropped(g, type, st)
      PROVE  AbstractStep
  <2>1. AbstractStutters
    BY <1>2 DEF AbstractStutters, CellReplyLost, CellReplyDropped, CellCommitsAnswered,
       CellProcess, storeVars, handlerVars
  <2>. QED
    BY <2>1, Stutters
<1>3. ASSUME NEW pbc \in PBCs, CellCrash(g, pbc)
      PROVE  AbstractStep
  <2>1. AbstractStutters
    BY <1>3 DEF AbstractStutters, CellCrash, storeVars, handlerVars
  <2>. QED
    BY <2>1, Stutters
<1>. QED
  BY <1>1, <1>2, <1>3 DEF CellStep, CellFault

LEMMA RefinesInit == Init => Protocol!Init
<1>. SUFFICES ASSUME Init PROVE Protocol!Init
  OBVIOUS
<1>1. Contents(commandLog) = {} /\ Contents(replyLog) = {}
  BY DEF Init, Contents
<1>2. {e \in [saga : Sagas, type : EventTypes] : Announced(e.saga, e.type)} = {}
  BY DEF Init, Announced
<1>3. sagas = [s \in Sagas |-> Protocol!Absent]
  BY SameHandlers DEF Init
<1>4. [h \in Hubs |-> {Handled(t) : t \in task[h]}] = [h \in Hubs |-> {}]
  BY DEF Init
<1>. QED
  BY <1>1, <1>2, <1>3, <1>4 DEF Protocol!Init, Handled

LEMMA RefinesNext == TypeOK /\ Flow /\ [Next]_vars => [Protocol!Next]_(Protocol!vars)
<1>. SUFFICES ASSUME TypeOK, Flow, [Next]_vars PROVE AbstractStep
  BY DEF AbstractStep
<1>1. ASSUME NEW h \in Hubs, NEW s \in Sagas, NEW p \in ClientPayloads,
             StartSave(h, s, p)
      PROVE  AbstractStep
  BY <1>1, RefinesStart
<1>2. ASSUME NEW h \in Hubs, HubStep(h) \/ HubFault(h)
      PROVE  AbstractStep
  BY <1>2, RefinesStart, RefinesReceive, RefinesSave, RefinesPublishEvent,
     RefinesPublishCommand, RefinesFailures, RefinesLoop DEF HubStep, HubFault
<1>3. ASSUME NEW g \in Shards, CellStep(g) \/ CellFault(g)
      PROVE  AbstractStep
  BY <1>3, RefinesCell
<1>4. CASE UNCHANGED vars
  <2>1. AbstractStutters
    BY <1>4 DEF vars, AbstractStutters
  <2>. QED
    BY <2>1, Stutters
<1>. QED
  BY <1>1, <1>2, <1>3, <1>4 DEF Next

(* The hub with its topics, offsets, crashes, rebalances and lost messages   *)
(* does nothing that SagaProtocol does not allow: whatever order replicas of *)
(* consumer.go read and commit in, their handlers' effects are those of a    *)
(* handler that read a row some time ago and skipped some of its effects.    *)
THEOREM HubImplementsProtocol == Spec => ImplementsProtocol
<1>1. Spec => []TypeOK
  BY TypeCorrect
<1>2. Spec => []Flow
  BY <1>1, FlowInit, FlowStep, PTL DEF Spec
<1>. QED
  BY <1>1, <1>2, RefinesInit, RefinesNext, PTL DEF Spec, ImplementsProtocol, Protocol!Spec

(* What SagaProtocolProofs establishes of the protocol holds of the hub.     *)
LEMMA SameProtocol == Protocol!Spec <=> Proved!Spec
<1>1. Protocol!Init <=> Proved!Init
  BY DEF Protocol!Init, Proved!Init, Protocol!Absent, Proved!Absent
<1>2. [Protocol!Next]_(Protocol!vars) <=> [Proved!Next]_(Proved!vars)
  BY DEF Proved!StartSave, Protocol!StartSave, Proved!StartPublish,
     Protocol!StartPublish, Proved!Answer, Protocol!Answer, Proved!Find,
     Protocol!Find, Proved!Save, Protocol!Save, Proved!PublishEvent,
     Protocol!PublishEvent, Proved!PublishCommand, Protocol!PublishCommand,
     Proved!Leave, Protocol!Leave, Proved!Absent, Protocol!Absent, Proved!NewSaga,
     Protocol!NewSaga, Proved!StartCmd, Protocol!StartCmd, Proved!NewCmd,
     Protocol!NewCmd, Proved!HandleReply, Protocol!HandleReply,
     Proved!OnPedidoCriado, Protocol!OnPedidoCriado, Proved!FailSaga,
     Protocol!FailSaga, Proved!OnEstoqueReply, Protocol!OnEstoqueReply,
     Proved!OnNotificacaoReply, Protocol!OnNotificacaoReply,
     Proved!OnPedidoCancelado, Protocol!OnPedidoCancelado, Proved!OnEstoqueLiberado,
     Protocol!OnEstoqueLiberado, Proved!Answers, Protocol!Answers,
     Proved!RequiredKeys, Protocol!RequiredKeys, Proved!ReplyTo, Protocol!ReplyTo,
     Proved!ReplyStatuses, Protocol!ReplyStatuses, Proved!Next, Protocol!Next,
     Proved!vars, Protocol!vars
<1>. QED
  BY <1>1, <1>2, PTL DEF Protocol!Spec, Proved!Spec

(* A saga whose clients are told it failed, or whose row says so, was        *)
(* refused or compensated in full, whatever Kafka and the replicas' crashes  *)
(* and rebalances do to it.                                                  *)
THEOREM HubFailsFounded == Spec => []FailureIsFounded
<1>1. Proved!FailureIsFounded <=> Protocol!FailureIsFounded
  BY DEF Proved!FailureIsFounded, Protocol!FailureIsFounded, Proved!Compensated,
     Protocol!Compensated, Proved!Answered, Protocol!Answered, Proved!Replied,
     Protocol!Replied, Proved!ReplyStatuses, Protocol!ReplyStatuses
<1>2. ClientPayloads \subseteq SUBSET Proved!PayloadKeys
  BY PayloadsAssumption DEF PayloadKeys, Proved!PayloadKeys
<1>3. Proved!Spec => []Proved!FailureIsFounded
  BY <1>2, Proved!FailureFounded
<1>. QED
  BY <1>1, <1>3, SameProtocol, HubImplementsProtocol, PTL
     DEF ImplementsProtocol, FailureIsFounded

(* No saga is completed or confirmed without its replies, in whatever order, *)
(* however often and to whichever replica they are delivered.                *)
THEOREM HubConfirmsFounded == Spec => []ConfirmationIsFounded
<1>1. Proved!ConfirmationIsFounded <=> Protocol!ConfirmationIsFounded
  BY DEF Proved!ConfirmationIsFounded, Protocol!ConfirmationIsFounded,
     Proved!Compensated, Protocol!Compensated, Proved!Answered, Protocol!Answered,
     Proved!Replied, Protocol!Replied, Proved!ReplyStatuses, Protocol!ReplyStatuses
<1>2. ClientPayloads \subseteq SUBSET Proved!PayloadKeys
  BY PayloadsAssumption DEF PayloadKeys, Proved!PayloadKeys
<1>3. Proved!Spec => []Proved!ConfirmationIsFounded
  BY <1>2, Proved!ConfirmationFounded
<1>. QED
  BY <1>1, <1>3, SameProtocol, HubImplementsProtocol, PTL
     DEF ImplementsProtocol, ConfirmationIsFounded

(* No command is sent before the replies that call for it, although no       *)
(* handler of pedido.go checks the step its row is at.                       *)
THEOREM HubCommandsFounded == Spec => []CommandsAreFounded
<1>1. Proved!CommandsAreFounded <=> Protocol!CommandsAreFounded
  BY DEF Proved!CommandsAreFounded, Protocol!CommandsAreFounded, Proved!Published,
     Protocol!Published, Proved!Answered, Protocol!Answered, Proved!Replied,
     Protocol!Replied, Proved!ReplyStatuses, Protocol!ReplyStatuses
<1>2. ClientPayloads \subseteq SUBSET Proved!PayloadKeys
  BY PayloadsAssumption DEF PayloadKeys, Proved!PayloadKeys
<1>3. Proved!Spec => []Proved!CommandsAreFounded
  BY <1>2, Proved!CommandsFounded
<1>. QED
  BY <1>1, <1>3, SameProtocol, HubImplementsProtocol, PTL
     DEF ImplementsProtocol, CommandsAreFounded

-----------------------------------------------------------------------------
(* Topics and histories only grow.                                           *)
Grows(T, new, log) == \A t \in T :
    Len(log[t]) <= Len(new[t]) /\ \A i \in 1 .. Len(log[t]) : new[t][i] = log[t][i]

LEMMA LogGrows ==
    ASSUME NEW T, NEW M, NEW log \in Logs(T, M), NEW t \in T, NEW m \in M,
           NEW new, Produced(new, log, t, m)
    PROVE  /\ Grows(T, new, log)
           /\ Len(new[t]) = Len(log[t]) + 1 /\ new[t][Len(log[t]) + 1] = m
<1>1. \A u \in T : log[u] \in Seq(M) /\ Len(log[u]) \in Nat
  BY DEF Logs
<1>2. new[t] = Append(log[t], m) /\ \A u \in T : u # t => new[u] = log[u]
  BY DEF Logs, Produced
<1>3. /\ Len(new[t]) = Len(log[t]) + 1 /\ new[t][Len(log[t]) + 1] = m
      /\ \A i \in 1 .. Len(log[t]) : new[t][i] = log[t][i]
  BY <1>1, <1>2, AppendProperties
<1>. QED
  BY <1>1, <1>2, <1>3 DEF Grows

LEMMA LogStays ==
    ASSUME NEW T, NEW M, NEW log \in Logs(T, M)
    PROVE  Grows(T, log, log)
<1>1. \A u \in T : Len(log[u]) \in Nat
  BY DEF Logs
<1>. QED
  BY <1>1 DEF Grows

(* Every step of the hub and the cells only adds to the topics.              *)
LEMMA CommandsGrow ==
    ASSUME TypeOK, NEW cmd \in Command, Produce(cmd)
    PROVE  /\ Grows(CommandTypes, commandLog', commandLog)
           /\ Len(commandLog'[cmd.type]) = Len(commandLog[cmd.type]) + 1
           /\ commandLog'[cmd.type][Len(commandLog[cmd.type]) + 1] = cmd
<1>1. commandLog \in Logs(CommandTypes, Command) /\ cmd.type \in CommandTypes
  BY DEF TypeOK, Logs, Command
<1>2. Produced(commandLog', commandLog, cmd.type, cmd)
  BY DEF Produce, Produced
<1>. QED
  BY <1>1, <1>2, LogGrows

(* What a step leaves alone is kept.                                         *)
LEMMA ReadersStay ==
    ASSUME TypeOK
    PROVE  /\ UNCHANGED cellPosition =>
                \A g \in Shards : \A c \in CommandTypes :
                    cellPosition'[g][c] <= cellPosition[g][c]
           /\ UNCHANGED position => \A t \in ReplyTopics : position'[t] <= position[t]
           /\ UNCHANGED commandLog => Grows(CommandTypes, commandLog', commandLog)
           /\ UNCHANGED replyLog => Grows(ReplyTopics, replyLog', replyLog)
<1>1. /\ \A g \in Shards : \A c \in CommandTypes : cellPosition[g][c] \in Nat
      /\ \A t \in ReplyTopics : position[t] \in Nat
      /\ commandLog \in Logs(CommandTypes, Command) /\ replyLog \in Logs(ReplyTopics, Reply)
  BY DEF TypeOK, Logs
<1>2. \A n \in Nat : n <= n
  OBVIOUS
<1>3. Grows(CommandTypes, commandLog, commandLog) /\ Grows(ReplyTopics, replyLog, replyLog)
  BY <1>1, LogStays
<1>. QED
  BY <1>1, <1>2, <1>3

(* A cell that answers a command of a saga adds a reply of that saga.        *)
LEMMA CellsAnswer ==
    ASSUME TypeOK, NEW g \in Shards, NEW type \in CommandTypes, NEW st \in ReplyStatuses,
           CellProcess(g, type, st), CellReplies(g, type, st)
    PROVE  LET reply == ReplyTo(NextCommand(g, type), st)
               topic == ReplyTopicFor(reply)
           IN  /\ reply \in Reply /\ topic \in ReplyTopics
               /\ reply.saga = NextCommand(g, type).saga
               /\ Grows(ReplyTopics, replyLog', replyLog)
               /\ Len(replyLog'[topic]) = Len(replyLog[topic]) + 1
               /\ replyLog'[topic][Len(replyLog[topic]) + 1] = reply
<1>. DEFINE cmd == NextCommand(g, type)
            reply == ReplyTo(cmd, st)
            topic == ReplyTopicFor(reply)
<1>1. cmd \in Command
  BY NextCommandType DEF CellProcess
<1>2. reply \in Reply /\ topic \in ReplyTopics
  BY <1>1, ReplyType
<1>3. reply.saga = cmd.saga
  BY DEF ReplyTo
<1>4. replyLog' = [replyLog EXCEPT ![topic] = Append(@, reply)]
  BY DEF CellReplies, NextCommand
<1>5. replyLog \in Logs(ReplyTopics, Reply)
  BY DEF TypeOK, Logs
<1>. HIDE DEF reply, topic, cmd
<1>6. Produced(replyLog', replyLog, topic, reply)
  BY <1>4 DEF Produced
<1>7. /\ Grows(ReplyTopics, replyLog', replyLog)
      /\ Len(replyLog'[topic]) = Len(replyLog[topic]) + 1
      /\ replyLog'[topic][Len(replyLog[topic]) + 1] = reply
  BY <1>2, <1>5, <1>6, LogGrows
<1>. QED
  BY <1>2, <1>3, <1>7 DEF reply, topic, cmd

LEMMA LogsGrow ==
    ASSUME TypeOK, [Next]_vars
    PROVE  /\ Grows(CommandTypes, commandLog', commandLog)
           /\ Grows(ReplyTopics, replyLog', replyLog)
<1>1. ASSUME UNCHANGED <<commandLog, replyLog>>
      PROVE  /\ Grows(CommandTypes, commandLog', commandLog)
             /\ Grows(ReplyTopics, replyLog', replyLog)
  BY <1>1, ReadersStay
<1>2. ASSUME UNCHANGED replyLog, NEW cmd \in Command, Produce(cmd)
      PROVE  /\ Grows(CommandTypes, commandLog', commandLog)
             /\ Grows(ReplyTopics, replyLog', replyLog)
  BY <1>2, CommandsGrow, ReadersStay
<1>3. ASSUME NEW h \in Hubs, HubStep(h) \/ HubFault(h)
      PROVE  /\ Grows(CommandTypes, commandLog', commandLog)
             /\ Grows(ReplyTopics, replyLog', replyLog)
  <2>1. ASSUME NEW s \in Sagas, StartPublish(h, s)
        PROVE  \E cmd \in Command : Produce(cmd) /\ UNCHANGED replyLog
    BY <2>1, StartCmdType DEF StartPublish
  <2>2. ASSUME PublishCommand(h)
        PROVE  \E cmd \in Command : Produce(cmd) /\ UNCHANGED replyLog
    <3>1. PICK t \in task[h] : \E cmd \in EffectOf(t).commands : Produce(cmd)
      BY <2>2 DEF PublishCommand
    <3>2. PICK cmd \in EffectOf(t).commands : Produce(cmd)
      BY <3>1
    <3>3. t \in Task
      BY <3>1 DEF TypeOK
    <3>4. cmd \in Command
      BY <3>2, <3>3, EffectType DEF Effect
    <3>. QED
      BY <2>2, <3>2, <3>4 DEF PublishCommand
  <2>3. \/ UNCHANGED <<commandLog, replyLog>>
        \/ \E s \in Sagas : StartPublish(h, s)
        \/ PublishCommand(h)
    BY <1>3 DEF HubStep, HubFault, StartPublishFails, Receive, ReceiveFails, Save,
       SaveFails, PublishEvent, EventLost, PublishCommandFails, CommandLost, Commit,
       CommitFails, HandlerReturns, HubCrash, Rebalance
  <2>. QED
    BY <1>1, <1>2, <2>1, <2>2, <2>3
<1>4. ASSUME NEW g \in Shards, CellStep(g) \/ CellFault(g)
      PROVE  /\ Grows(CommandTypes, commandLog', commandLog)
             /\ Grows(ReplyTopics, replyLog', replyLog)
  <2>1. UNCHANGED commandLog
    BY <1>4 DEF CellStep, CellFault, CellAnswers, CellCommitFails, CellReplyLost,
       CellReplyDropped, CellProcess, CellCrash
  <2>2. ASSUME NEW type \in CommandTypes, NEW st \in ReplyStatuses,
               CellAnswers(g, type, st) \/ CellCommitFails(g, type, st)
        PROVE  Grows(ReplyTopics, replyLog', replyLog)
    BY <2>2, CellsAnswer DEF CellAnswers, CellCommitFails
  <2>3. \/ UNCHANGED replyLog
        \/ \E type \in CommandTypes : \E st \in ReplyStatuses :
              CellAnswers(g, type, st) \/ CellCommitFails(g, type, st)
    BY <1>4 DEF CellStep, CellFault, CellReplyLost, CellReplyDropped, CellCrash
  <2>. QED
    BY <2>1, <2>2, <2>3, ReadersStay
<1>5. ASSUME NEW h \in Hubs, NEW s \in Sagas, NEW p \in ClientPayloads,
             StartSave(h, s, p)
      PROVE  UNCHANGED <<commandLog, replyLog>>
  BY <1>5 DEF StartSave
<1>6. UNCHANGED vars => UNCHANGED <<commandLog, replyLog>>
  BY DEF vars
<1>. QED
  BY <1>1, <1>3, <1>4, <1>5, <1>6 DEF Next

(* What happened remains so.                                                 *)
Remembers ==
    handled \subseteq handled' /\ disturbed \subseteq disturbed' /\ lost \subseteq lost'

LEMMA HistoryGrows == [Next]_vars => Remembers
<1>. SUFFICES ASSUME [Next]_vars PROVE Remembers
  OBVIOUS
<1>1. /\ NoFault => disturbed \subseteq disturbed' /\ lost \subseteq lost'
      /\ \A kind : Fault(kind) => disturbed \subseteq disturbed' /\ lost \subseteq lost'
      /\ \A kind, s : Loses(kind, s) => disturbed \subseteq disturbed' /\ lost \subseteq lost'
  BY DEF NoFault, faultVars, Fault, Loses, Happens
<1>2. ASSUME NEW h \in Hubs, HubStep(h) \/ HubFault(h)
      PROVE  Remembers
  <2>1. disturbed \subseteq disturbed' /\ lost \subseteq lost'
    BY <1>1, <1>2 DEF HubStep, HubFault, StartPublish, StartPublishFails, Receive,
       ReceiveFails, Save, SaveFails, PublishEvent, EventLost, PublishCommand,
       PublishCommandFails, CommandLost, Commit, CommitFails, HubCrash, Rebalance
  <2>2. handled \subseteq handled'
    BY <1>2 DEF HubStep, HubFault, StartPublish, StartPublishFails, Receive,
       ReceiveFails, Save, SaveFails, PublishEvent, EventLost, PublishCommand,
       PublishCommandFails, CommandLost, Commit, CommitFails, HandlerReturns, HubCrash,
       Rebalance, readerVars
  <2>. QED
    BY <2>1, <2>2 DEF Remembers
<1>3. ASSUME NEW g \in Shards, CellStep(g) \/ CellFault(g)
      PROVE  Remembers
  <2>1. disturbed \subseteq disturbed' /\ lost \subseteq lost'
    BY <1>1, <1>3 DEF CellStep, CellFault, CellAnswers, CellCommitFails, CellReplyLost,
       CellReplyDropped, CellCrash
  <2>2. UNCHANGED handled
    BY <1>3 DEF CellStep, CellFault, CellAnswers, CellCommitFails, CellReplyLost,
       CellReplyDropped, CellProcess, CellCrash, readerVars
  <2>. QED
    BY <2>1, <2>2 DEF Remembers
<1>4. ASSUME NEW h \in Hubs, NEW s \in Sagas, NEW p \in ClientPayloads,
             StartSave(h, s, p)
      PROVE  Remembers
  BY <1>4 DEF StartSave, readerVars, NoFault, faultVars, Remembers
<1>5. UNCHANGED vars => Remembers
  BY DEF vars, Remembers
<1>. QED
  BY <1>2, <1>3, <1>4, <1>5 DEF Next

-----------------------------------------------------------------------------
(* Delivery.  What the owner of the partitions has read has come to its end, *)
(* being handled or of a saga that lost something, or is in its handler;     *)
(* what is committed has come to its end; and the reply in its handler was   *)
(* read under its present assignment: a replica is assigned partitions only  *)
(* between two handlers.                                                     *)
Ended(t, o) ==
    \/ <<t, o>> \in handled
    \/ o < Len(replyLog[t]) /\ replyLog[t][o + 1].saga \in lost

EndsLast == \A t \in ReplyTopics : \A o \in Nat : Ended(t, o) => Ended(t, o)'

LEMMA EndedStays ==
    ASSUME TypeOK, TypeOK', [Next]_vars
    PROVE  EndsLast
<1>. SUFFICES ASSUME NEW t \in ReplyTopics, NEW o \in Nat, Ended(t, o)
              PROVE  Ended(t, o)'
  BY DEF EndsLast
<1>1. Remembers /\ Grows(ReplyTopics, replyLog', replyLog)
  BY HistoryGrows, LogsGrow
<1>2. Len(replyLog[t]) \in Nat /\ Len(replyLog'[t]) \in Nat
  BY DEF TypeOK
<1>3. CASE <<t, o>> \in handled
  BY <1>1, <1>3 DEF Ended, Remembers
<1>4. CASE o < Len(replyLog[t]) /\ replyLog[t][o + 1].saga \in lost
  <2>1. o + 1 \in 1 .. Len(replyLog[t])
    BY <1>2, <1>4
  <2>2. replyLog'[t][o + 1] = replyLog[t][o + 1] /\ o < Len(replyLog'[t])
    BY <1>1, <1>2, <1>4, <2>1 DEF Grows
  <2>. QED
    BY <1>1, <1>4, <2>2 DEF Ended, Remembers
<1>. QED
  BY <1>3, <1>4 DEF Ended

(* A handler's reply is where it was read from.                              *)
Located ==
    \A h \in Hubs : \A k \in task[h] :
        k.offset < Len(replyLog[k.topic]) /\ replyLog[k.topic][k.offset + 1] = k.reply

LEMMA TasksOfStep ==
    ASSUME [Next]_vars
    PROVE  \/ UNCHANGED task
           \/ \E h \in Hubs : \/ \E t \in ReplyTopics : Receive(h, t)
                              \/ task' = [task EXCEPT ![h] = {}]
<1>1. ASSUME NEW h \in Hubs, HubStep(h) \/ HubFault(h)
      PROVE  \/ UNCHANGED task
             \/ \E t \in ReplyTopics : Receive(h, t)
             \/ task' = [task EXCEPT ![h] = {}]
  BY <1>1 DEF HubStep, HubFault, StartPublish, StartPublishFails, Save, SaveFails,
     PublishEvent, EventLost, PublishCommand, PublishCommandFails, CommandLost, Commit,
     CommitFails, HandlerReturns, HubCrash, Rebalance, ReceiveFails, handlerVars
<1>2. ASSUME NEW g \in Shards, CellStep(g) \/ CellFault(g)
      PROVE  UNCHANGED task
  BY <1>2 DEF CellStep, CellFault, CellAnswers, CellCommitFails, CellReplyLost,
     CellReplyDropped, CellProcess, CellCrash, handlerVars
<1>3. ASSUME NEW h \in Hubs, NEW s \in Sagas, NEW p \in ClientPayloads,
             StartSave(h, s, p)
      PROVE  UNCHANGED task
  BY <1>3 DEF StartSave, handlerVars
<1>4. UNCHANGED vars => UNCHANGED task
  BY DEF vars
<1>. QED
  BY <1>1, <1>2, <1>3, <1>4 DEF Next

LEMMA LocatedStep ==
    ASSUME TypeOK, TypeOK', Located, [Next]_vars
    PROVE  Located'
<1>0. task \in [Hubs -> SUBSET Task]
  BY DEF TypeOK
<1>1. Grows(ReplyTopics, replyLog', replyLog)
  BY LogsGrow
<1>2. ASSUME NEW h \in Hubs, NEW k \in task[h]
      PROVE  /\ k.offset < Len(replyLog'[k.topic])
             /\ replyLog'[k.topic][k.offset + 1] = k.reply
  <2>1. k.topic \in ReplyTopics /\ k.offset \in Nat
    BY <1>0, <1>2 DEF Task
  <2>2. Len(replyLog[k.topic]) \in Nat /\ Len(replyLog'[k.topic]) \in Nat
    BY <2>1 DEF TypeOK
  <2>3. k.offset < Len(replyLog[k.topic]) /\ replyLog[k.topic][k.offset + 1] = k.reply
    BY <1>2 DEF Located
  <2>4. k.offset + 1 \in 1 .. Len(replyLog[k.topic])
    BY <2>1, <2>2, <2>3
  <2>. QED
    BY <1>1, <2>1, <2>2, <2>3, <2>4 DEF Grows
<1>3. CASE \A h \in Hubs : task'[h] \subseteq task[h]
  BY <1>2, <1>3 DEF Located
<1>4. ASSUME NEW h \in Hubs, NEW t \in ReplyTopics, Receive(h, t)
      PROVE  Located'
  <2>. DEFINE tk == [topic |-> t, offset |-> position[t], reply |-> NextReply(t),
                     row |-> sagas[NextReply(t).saga]]
  <2>1. /\ task' = [task EXCEPT ![h] = {tk}]
        /\ position[t] < Len(replyLog[t]) /\ UNCHANGED replyLog
    BY <1>4, ReceivedTask DEF Receive, CanRead
  <2>2. /\ tk.topic = t /\ tk.offset = position[t]
        /\ tk.reply = replyLog[t][position[t] + 1]
    BY DEF NextReply
  <2>. HIDE DEF tk
  <2>3. \A k \in Hubs : \A u \in task'[k] : u = tk \/ u \in task[k]
    BY <1>0, <2>1
  <2>. QED
    BY <1>2, <2>1, <2>2, <2>3 DEF Located
<1>. QED
  BY <1>0, <1>3, <1>4, TasksOfStep

Pending(t, o) == \E k \in task[owner] : k.topic = t /\ k.offset = o

Delivery ==
    /\ \A t \in ReplyTopics : \A o \in Nat :
          /\ o < committed[t] => Ended(t, o)
          /\ o < position[t] => Ended(t, o) \/ Pending(t, o)
    /\ \A k \in task[owner] : k.offset < position[k.topic]
    /\ \A k, l \in task[owner] : k = l

LEMMA DeliveryInit == Init => Delivery
BY DEF Init, Delivery

LEMMA DeliveryOfReceive ==
    ASSUME TypeOK, Delivery, EndsLast, NEW h \in Hubs, NEW t \in ReplyTopics,
           Receive(h, t)
    PROVE  Delivery'
<1>. DEFINE tk == [topic |-> t, offset |-> position[t], reply |-> NextReply(t),
                   row |-> sagas[NextReply(t).saga]]
<1>1. /\ task' = [task EXCEPT ![h] = {tk}]
      /\ task[h] = {} /\ owner = h
      /\ position' = [position EXCEPT ![t] = @ + 1]
      /\ UNCHANGED <<owner, committed, handled>>
  BY ReceivedTask DEF Receive, CanRead
<1>2. /\ position \in [ReplyTopics -> Nat]
      /\ task \in [Hubs -> SUBSET Task]
  BY DEF TypeOK
<1>3. tk.topic = t /\ tk.offset = position[t]
  OBVIOUS
<1>. HIDE DEF tk
<1>4. task'[owner'] = {tk}
  BY <1>1, <1>2
<1>5. ASSUME NEW u \in ReplyTopics, NEW o \in Nat, o < position'[u]
      PROVE  Ended(u, o)' \/ Pending(u, o)'
  <2>1. CASE o < position[u]
    BY <1>1, <2>1 DEF Delivery, Pending, EndsLast
  <2>2. CASE ~(o < position[u])
    <3>1. u = t /\ o = position[t]
      BY <1>1, <1>2, <1>5, <2>2
    <3>. QED
      BY <1>3, <1>4, <3>1 DEF Pending
  <2>. QED
    BY <2>1, <2>2
<1>6. tk.offset < position'[tk.topic]
  BY <1>1, <1>2, <1>3
<1>. QED
  BY <1>1, <1>4, <1>5, <1>6 DEF Delivery, EndsLast

LEMMA DeliveryOfReadFailure ==
    ASSUME TypeOK, Delivery, EndsLast, NEW h \in Hubs, NEW t \in ReplyTopics,
           ReceiveFails(h, t)
    PROVE  Delivery'
<1>1. /\ owner = h /\ task[h] = {} /\ position[t] < Len(replyLog[t])
      /\ position' = [position EXCEPT ![t] = @ + 1]
      /\ replyLog[t][position[t] + 1].saga \in lost'
      /\ UNCHANGED <<task, owner, committed, replyLog>>
  BY DEF ReceiveFails, CanRead, Loses, NextReply, handlerVars
<1>2. position \in [ReplyTopics -> Nat]
  BY DEF TypeOK
<1>3. ASSUME NEW u \in ReplyTopics, NEW o \in Nat, o < position'[u]
      PROVE  Ended(u, o)' \/ Pending(u, o)'
  <2>1. CASE o < position[u]
    BY <1>1, <2>1 DEF Delivery, Pending, EndsLast
  <2>2. CASE ~(o < position[u])
    <3>1. u = t /\ o = position[t]
      BY <1>1, <1>2, <1>3, <2>2
    <3>. QED
      BY <1>1, <3>1 DEF Ended
  <2>. QED
    BY <2>1, <2>2
<1>. QED
  BY <1>1, <1>3 DEF Delivery, EndsLast

(* A handler that fails to publish gives its reply up.                       *)
LEMMA DeliveryOfPublishFailure ==
    ASSUME TypeOK, Delivery, Located, EndsLast, NEW h \in Hubs, PublishCommandFails(h)
    PROVE  Delivery'
<1>1. PICK k \in task[h] :
          /\ task' = [task EXCEPT ![h] = {}] \/ UNCHANGED task
          /\ k.reply.saga \in lost'
          /\ UNCHANGED <<owner, position, committed, replyLog>>
  BY DEF PublishCommandFails, Loses, readerVars
<1>2. task \in [Hubs -> SUBSET Task] /\ owner \in Hubs
  BY DEF TypeOK
<1>3. CASE UNCHANGED task \/ h # owner
  <2>1. task'[owner'] = task[owner]
    BY <1>1, <1>2, <1>3
  <2>. QED
    BY <1>1, <2>1 DEF Delivery, Pending, EndsLast
<1>4. CASE task' = [task EXCEPT ![h] = {}] /\ h = owner
  <2>1. task'[owner'] = {}
    BY <1>1, <1>2, <1>4
  <2>2. k.offset < Len(replyLog[k.topic]) /\ replyLog[k.topic][k.offset + 1] = k.reply
    BY <1>1 DEF Located
  <2>3. Ended(k.topic, k.offset)'
    BY <1>1, <2>2 DEF Ended
  <2>4. ASSUME NEW u \in ReplyTopics, NEW o \in Nat, o < position[u]
        PROVE  Ended(u, o)'
    <3>1. CASE Ended(u, o)
      BY <3>1 DEF EndsLast
    <3>2. CASE Pending(u, o)
      <4>1. k.topic = u /\ k.offset = o
        BY <1>1, <1>4, <3>2 DEF Pending, Delivery
      <4>. QED
        BY <2>3, <4>1
    <3>. QED
      BY <2>4, <3>1, <3>2 DEF Delivery
  <2>. QED
    BY <1>1, <2>1, <2>4 DEF Delivery, EndsLast
<1>. QED
  BY <1>1, <1>3, <1>4

LEMMA DeliveryOfCommit ==
    ASSUME TypeOK, Delivery, EndsLast, NEW h \in Hubs, Commit(h) \/ CommitFails(h)
    PROVE  Delivery'
<1>1. /\ handled' = handled \cup {<<t.topic, t.offset>> : t \in task[h]}
      /\ task' = [task EXCEPT ![h] = {}]
      /\ UNCHANGED <<owner, position>>
  BY DEF Commit, CommitFails, HandlerReturns
<1>2. /\ committed \in [ReplyTopics -> Nat]
      /\ position \in [ReplyTopics -> Nat]
      /\ task \in [Hubs -> SUBSET Task]
  BY DEF TypeOK
<1>3. ASSUME NEW u \in ReplyTopics, NEW o \in Nat, o < position[u]
      PROVE  Ended(u, o)' \/ Pending(u, o)'
  <2>1. CASE Ended(u, o)
    BY <2>1 DEF EndsLast
  <2>2. CASE Pending(u, o) /\ owner = h
    BY <1>1, <2>2 DEF Pending, Ended
  <2>3. CASE Pending(u, o) /\ owner # h
    BY <1>1, <1>2, <2>3 DEF Pending, TypeOK
  <2>. QED
    BY <1>3, <2>1, <2>2, <2>3 DEF Delivery
<1>4. ASSUME NEW u \in ReplyTopics, NEW o \in Nat, o < committed'[u]
      PROVE  Ended(u, o)'
  <2>1. CASE o < committed[u]
    BY <2>1 DEF Delivery, EndsLast
  <2>2. CASE ~(o < committed[u])
    <3>1. committed # committed'
      BY <1>4, <2>2
    <3>2. PICK k \in task[h] :
              owner = h /\ committed' = [committed EXCEPT ![k.topic] = k.offset + 1]
      BY <3>1 DEF Commit, CommitFails
    <3>3. k.offset \in Nat /\ k.topic \in ReplyTopics
      BY <1>2 DEF Task
    <3>4. u = k.topic /\ o < k.offset + 1
      BY <1>2, <1>4, <2>2, <3>2, <3>3
    <3>5. k.offset < position[u]
      BY <3>2, <3>4 DEF Delivery
    <3>6. position[u] \in Nat
      BY <1>2
    <3>7. o < position[u]
      BY <3>3, <3>4, <3>5, <3>6
    <3>8. CASE Pending(u, o)
      BY <1>1, <3>2, <3>8 DEF Pending, Ended
    <3>. QED
      BY <3>7, <3>8 DEF Delivery, EndsLast
  <2>. QED
    BY <2>1, <2>2
<1>5. task'[owner'] \subseteq task[owner]
  BY <1>1, <1>2 DEF TypeOK
<1>. QED
  BY <1>1, <1>3, <1>4, <1>5 DEF Delivery

(* After a crash or a rebalance the owner reads on from the committed        *)
(* offsets with no handler running.                                          *)
LEMMA DeliveryOfRestart ==
    ASSUME TypeOK, Delivery, EndsLast, NEW h \in Hubs, HubCrash(h) \/ Rebalance(h)
    PROVE  Delivery'
<1>1. task \in [Hubs -> SUBSET Task] /\ owner \in Hubs
  BY DEF TypeOK
<1>2. UNCHANGED <<committed, handled>>
  BY DEF HubCrash, Rebalance
<1>3. CASE owner' = h
  <2>1. position' = committed
    BY <1>3 DEF HubCrash, Rebalance
  <2>2. task'[owner'] = {}
    BY <1>1, <1>3 DEF HubCrash, Rebalance, handlerVars
  <2>. QED
    BY <1>2, <2>1, <2>2 DEF Delivery, EndsLast
<1>4. CASE owner' # h
  <2>1. UNCHANGED <<owner, position>>
    BY <1>4 DEF HubCrash, Rebalance
  <2>2. task'[owner'] = task[owner]
    BY <1>1, <1>4, <2>1 DEF HubCrash, Rebalance
  <2>. QED
    BY <1>2, <2>1, <2>2 DEF Delivery, Pending, EndsLast
<1>. QED
  BY <1>3, <1>4

LEMMA DeliveryOfRest ==
    ASSUME Delivery, EndsLast, UNCHANGED <<owner, position, committed, task>>
    PROVE  Delivery'
BY DEF Delivery, Pending, EndsLast

LEMMA DeliveryStep ==
    ASSUME TypeOK, TypeOK', Located, Delivery, [Next]_vars
    PROVE  Delivery'
<1>0. EndsLast
  BY EndedStays
<1>1. ASSUME NEW h \in Hubs, NEW s \in Sagas, NEW p \in ClientPayloads,
             StartSave(h, s, p)
      PROVE  Delivery'
  BY <1>0, <1>1, DeliveryOfRest DEF StartSave, readerVars, handlerVars
<1>2. ASSUME NEW h \in Hubs, HubStep(h) \/ HubFault(h)
      PROVE  Delivery'
  <2>1. CASE \E t \in ReplyTopics : Receive(h, t)
    BY <1>0, <2>1, DeliveryOfReceive
  <2>2. CASE Commit(h) \/ CommitFails(h)
    BY <1>0, <2>2, DeliveryOfCommit
  <2>3. CASE HubCrash(h) \/ Rebalance(h)
    BY <1>0, <2>3, DeliveryOfRestart
  <2>4. ASSUME NEW s \in Sagas, StartPublish(h, s) \/ StartPublishFails(h, s)
        PROVE  Delivery'
    BY <1>0, <2>4, DeliveryOfRest DEF StartPublish, StartPublishFails, readerVars, handlerVars
  <2>5. CASE \/ Save(h) \/ SaveFails(h) \/ PublishEvent(h) \/ EventLost(h)
             \/ PublishCommand(h) \/ CommandLost(h)
    BY <1>0, <2>5, DeliveryOfRest DEF Save, SaveFails, PublishEvent, EventLost,
       PublishCommand, CommandLost, readerVars
  <2>6. CASE \E t \in ReplyTopics : ReceiveFails(h, t)
    BY <1>0, <2>6, DeliveryOfReadFailure
  <2>7. CASE PublishCommandFails(h)
    BY <1>0, <2>7, DeliveryOfPublishFailure
  <2>. QED
    BY <1>2, <2>1, <2>2, <2>3, <2>4, <2>5, <2>6, <2>7 DEF HubStep, HubFault
<1>3. ASSUME NEW g \in Shards, CellStep(g) \/ CellFault(g)
      PROVE  Delivery'
  BY <1>0, <1>3, DeliveryOfRest DEF CellStep, CellFault, CellAnswers, CellCommitFails,
     CellReplyLost, CellReplyDropped, CellCommitsAnswered, CellProcess, CellCrash,
     readerVars, handlerVars
<1>4. CASE UNCHANGED vars
  BY <1>0, <1>4, DeliveryOfRest DEF vars
<1>. QED
  BY <1>1, <1>2, <1>3, <1>4 DEF Next

(* In every deployment and under every fault, no offset is committed past a  *)
(* reply that was not handled, unless its saga lost something: through       *)
(* crashes, rebalances, failed commits, handlers that outlive their          *)
(* assignment and handlers that fail and whose reply a later commit covers.  *)
THEOREM CommittedIsHandled == Spec => []AtLeastOnce
<1>1. Delivery /\ TypeOK => AtLeastOnce
  <2>. SUFFICES ASSUME Delivery, TypeOK, NEW t \in ReplyTopics,
                       NEW o \in 0 .. committed[t] - 1
                PROVE  <<t, o>> \in handled \/ replyLog[t][o + 1].saga \in lost
    BY DEF AtLeastOnce
  <2>1. committed[t] \in Nat
    BY DEF TypeOK
  <2>2. o \in Nat /\ o < committed[t]
    BY <2>1
  <2>. QED
    BY <2>2 DEF Delivery, Ended
<1>2. Init => Located /\ Delivery
  BY DeliveryInit DEF Init, Located
<1>3. TypeOK /\ TypeOK' /\ Located /\ Delivery /\ [Next]_vars => Located' /\ Delivery'
  BY LocatedStep, DeliveryStep
<1>. QED
  BY <1>1, <1>2, <1>3, TypeCorrect, PTL DEF Spec

-----------------------------------------------------------------------------
(* One pass.  As long as nothing makes a reply or a command be read twice    *)
(* and no save has failed, with one cell per command, every saga has at most *)
(* one token: its Start, a reply in a handler, or a message not yet read.    *)
(* Line says so, and for each token what row, event and notices there can be *)
(* when it is its turn.                                                      *)
Tipos == {"PEDIDO_CONFIRMADO", "PEDIDO_CANCELADO"}

OnePass ==
    /\ \A g, k \in Shards : g = k
    /\ \A p \in ClientPayloads : p \cap Tipos = {}

Notices(s) == {tipo \in Tipos : Noticed(s, tipo)}

Facts(s) == <<sagas[s], events[s], Notices(s)>>

At(s, status, E, N) ==
    /\ sagas[s].status = status
    /\ \A e \in EventTypes : events[s][e] = 0 \/ (e \in E /\ events[s][e] = 1)
    /\ Notices(s) \subseteq N

(* What there is when a command of a type, or the reply to it, waits.        *)
Before(s, type) ==
    \/ type \in {"criar_pedido", "reservar_estoque"} /\ At(s, "STARTED", {}, {})
    \/ type \in {"cancelar_pedido", "liberar_estoque"} /\ At(s, "COMPENSATING", {}, {})
    \/ /\ type = "enviar_notificacao"
       /\ \/ At(s, "STARTED", {}, {"PEDIDO_CONFIRMADO"})
          \/ At(s, "FAILED", {"PedidoCancelado"}, {"PEDIDO_CANCELADO"})

RowBefore(type) ==
    IF type \in {"cancelar_pedido", "liberar_estoque"} THEN "COMPENSATING" ELSE "STARTED"

NoticesBefore(type) ==
    IF type = "enviar_notificacao" THEN {"PEDIDO_CONFIRMADO"} ELSE {}

(* What there is when the handler of t comes to a step.                      *)
Working(s, t, step) ==
    LET after == EffectOf(t).row.status
        N == NoticesBefore(t.reply.type)
    IN  /\ t.row.status = RowBefore(t.reply.type)
        /\ step = "save" => At(s, t.row.status, {}, N)
        /\ step = "event" => At(s, after, {}, N)
        /\ step = "publish" => At(s, after, EffectOf(t).events, N)

(* The stories there are: a status, an event and a notice.                   *)
Stories ==
    {<<"ABSENT", {}, {}>>, <<"STARTED", {}, {"PEDIDO_CONFIRMADO"}>>,
     <<"COMPENSATING", {}, {}>>,
     <<"COMPLETED", {"PedidoConfirmado"}, {"PEDIDO_CONFIRMADO"}>>,
     <<"FAILED", {"PedidoFalhou"}, {}>>,
     <<"FAILED", {"PedidoCancelado"}, {"PEDIDO_CANCELADO"}>>}

Fits(status, E, N) ==
    \E x \in Stories : status = x[1] /\ E \subseteq x[2] /\ N \subseteq x[3]

Told(s) == \E x \in Stories : At(s, x[1], x[2], x[3])

StartToken(s, x) ==
    \E h \in Hubs : s \in starting[h] /\ x = <<"start", h, 0, "criar_pedido">>

TaskToken(s, x) ==
    \E h \in Hubs : \E t \in task[h] :
        /\ t.reply.saga = s
        /\ pc[h] \in {"save", "event", "publish"}
        /\ x = <<"task", h, t, pc[h]>>

CommandToken(s, x) ==
    \E g \in Shards : \E c \in CommandTypes : \E n \in DOMAIN commandLog[c] :
        /\ cellPosition[g][c] < n
        /\ commandLog[c][n].saga = s
        /\ x = <<"command", c, n, commandLog[c][n].type>>

ReplyToken(s, x) ==
    \E t \in ReplyTopics : \E n \in DOMAIN replyLog[t] :
        /\ position[t] < n
        /\ replyLog[t][n].saga = s
        /\ x = <<"reply", t, n, replyLog[t][n].type>>

Token(s, x) == StartToken(s, x) \/ TaskToken(s, x) \/ CommandToken(s, x) \/ ReplyToken(s, x)

Phase(s, x) == IF x[1] = "task" THEN Working(s, x[3], x[4]) ELSE Before(s, x[4])

LineOf(s) ==
    /\ \A x, y : Token(s, x) /\ Token(s, y) => x = y
    /\ \A x : Token(s, x) => Phase(s, x)
    /\ Told(s)

Line == \A s \in Sagas : LineOf(s)

(* No row carries a notice's type, and a replica handles one reply.          *)
Plain ==
    /\ \A s \in Sagas : sagas[s].payload \cap Tipos = {}
    /\ \A h \in Hubs : \A t \in task[h] : t.row.payload \cap Tipos = {}

Single == \A h \in Hubs : \A t, u \in task[h] : t = u

-----------------------------------------------------------------------------
LEMMA Kinds ==
    ASSUME NEW s, NEW x
    PROVE  /\ StartToken(s, x) => x[1] = "start" /\ x[4] = "criar_pedido"
           /\ TaskToken(s, x) => x[1] = "task"
           /\ CommandToken(s, x) => x[1] = "command"
           /\ ReplyToken(s, x) => x[1] = "reply"
BY DEF StartToken, TaskToken, CommandToken, ReplyToken

LEMMA AtKept ==
    ASSUME NEW s, UNCHANGED Facts(s), NEW status, NEW E, NEW N, At(s, status, E, N)
    PROVE  At(s, status, E, N)'
BY DEF At, Facts

LEMMA AtIsTold ==
    ASSUME NEW s, NEW status, NEW E, NEW N, Fits(status, E, N)
    PROVE  /\ At(s, status, E, N) => Told(s)
           /\ At(s, status, E, N)' => Told(s)'
BY DEF Fits, At, Told

LEMMA PhaseKept ==
    ASSUME NEW s, UNCHANGED Facts(s)
    PROVE  /\ Told(s) => Told(s)'
           /\ \A x : Phase(s, x) => Phase(s, x)'
<1>1. \A status, E, N : At(s, status, E, N) => At(s, status, E, N)'
  BY AtKept
<1>2. Told(s) => Told(s)'
  BY <1>1 DEF Told
<1>3. \A type : Before(s, type) => Before(s, type)'
  BY <1>1 DEF Before
<1>4. \A t, step : Working(s, t, step) => Working(s, t, step)'
  BY <1>1 DEF Working
<1>. QED
  BY <1>2, <1>3, <1>4 DEF Phase

(* An action of saga s consumes the token a and may leave the token b.       *)
Passes(s, a, b) ==
    \A u \in Sagas : \A x :
        Token(u, x)' => (Token(u, x) /\ (u = s => x # a)) \/ (u = s /\ x = b)

LEMMA LineOfPass ==
    ASSUME Line, NEW s \in Sagas, NEW a, NEW b, Passes(s, a, b),
           \A x : Token(s, x) => x = a,
           \A u \in Sagas : u # s => UNCHANGED Facts(u),
           Told(s)', Token(s, b)' => Phase(s, b)'
    PROVE  Line'
<1>1. ASSUME NEW u \in Sagas, u # s
      PROVE  LineOf(u)'
  <2>1. \A x : Token(u, x)' => Token(u, x)
    BY <1>1 DEF Passes
  <2>2. LineOf(u) /\ UNCHANGED Facts(u)
    BY <1>1 DEF Line
  <2>. QED
    BY <2>1, <2>2, PhaseKept DEF LineOf
<1>2. LineOf(s)'
  <2>2. \A x : Token(s, x)' => x = b
    BY DEF Passes
  <2>. QED
    BY <2>2 DEF LineOf
<1>. QED
  BY <1>1, <1>2 DEF Line

(* An action that touches no saga's facts and leaves no new token.           *)
LEMMA LineOfRest ==
    ASSUME Line, \A u \in Sagas : UNCHANGED Facts(u),
           \A u \in Sagas : \A x : Token(u, x)' => Token(u, x)
    PROVE  Line'
<1>1. ASSUME NEW u \in Sagas
      PROVE  LineOf(u)'
  <2>1. LineOf(u) /\ UNCHANGED Facts(u)
    BY DEF Line
  <2>. QED
    BY <2>1, PhaseKept DEF LineOf
<1>. QED
  BY <1>1 DEF Line

-----------------------------------------------------------------------------
(* Notices of a saga, before and after a command is produced.                *)
LEMMA NoticesKept ==
    ASSUME NEW s, UNCHANGED commandLog
    PROVE  UNCHANGED Notices(s)
BY DEF Notices, Noticed

LEMMA NoticesOfProduce ==
    ASSUME TypeOK, NEW cmd \in Command, Produce(cmd), NEW s
    PROVE  Notices(s)' = Notices(s) \cup {x \in cmd.payload : cmd.saga = s /\ x \in Tipos}
<1>1. commandLog \in Logs(CommandTypes, Command) /\ cmd.type \in CommandTypes
  BY DEF TypeOK, Logs, Command
<1>2. Produced(commandLog', commandLog, cmd.type, cmd)
  BY DEF Produce, Produced
<1>3. Contents(commandLog') = Contents(commandLog) \cup {cmd}
  BY <1>1, <1>2, ContentsOfProduced
<1>. QED
  BY <1>3 DEF Notices, Noticed

LEMMA PlainProduce ==
    ASSUME TypeOK, NEW cmd \in Command, Produce(cmd), NEW s,
           cmd.payload \cap Tipos = {} \/ cmd.saga # s
    PROVE  UNCHANGED Notices(s)
BY NoticesOfProduce

(* Where the tokens in a log are after a message is produced to it.          *)
LEMMA ProducedAt ==
    ASSUME NEW T, NEW M, NEW log \in Logs(T, M), NEW t \in T, NEW m \in M,
           NEW new, Produced(new, log, t, m), NEW u \in T, NEW n \in DOMAIN new[u]
    PROVE  \/ n \in DOMAIN log[u] /\ new[u][n] = log[u][n]
           \/ u = t /\ n = Len(log[t]) + 1 /\ new[u][n] = m
<1>. USE DEF Logs, Produced
<1>1. log[u] \in Seq(M) /\ log[t] \in Seq(M)
  OBVIOUS
<1>2. CASE u # t
  BY <1>2
<1>3. CASE u = t
  <2>1. new[u] = Append(log[u], m)
    BY <1>3
  <2>2. /\ DOMAIN log[u] = 1 .. Len(log[u])
        /\ DOMAIN new[u] = 1 .. Len(log[u]) + 1
        /\ \A i \in 1 .. Len(log[u]) : new[u][i] = log[u][i]
        /\ new[u][Len(log[u]) + 1] = m
        /\ Len(log[u]) \in Nat
    BY <1>1, <2>1, AppendProperties
  <2>. QED
    BY <1>3, <2>2
<1>. QED
  BY <1>2, <1>3

LEMMA CommandTokenOfProduce ==
    ASSUME TypeOK, NEW cmd \in Command, Produce(cmd), UNCHANGED cellPosition,
           NEW s, NEW x, CommandToken(s, x)'
    PROVE  \/ CommandToken(s, x)
           \/ /\ s = cmd.saga
              /\ x = <<"command", cmd.type, Len(commandLog[cmd.type]) + 1, cmd.type>>
<1>1. commandLog \in Logs(CommandTypes, Command) /\ cmd.type \in CommandTypes
  BY DEF TypeOK, Logs, Command
<1>2. Produced(commandLog', commandLog, cmd.type, cmd)
  BY DEF Produce, Produced
<1>0. PICK g \in Shards, c \in CommandTypes : \E n \in DOMAIN commandLog'[c] :
          /\ cellPosition[g][c] < n
          /\ commandLog'[c][n].saga = s
          /\ x = <<"command", c, n, commandLog'[c][n].type>>
  BY DEF CommandToken
<1>3. PICK n \in DOMAIN commandLog'[c] :
          /\ cellPosition[g][c] < n
          /\ commandLog'[c][n].saga = s
          /\ x = <<"command", c, n, commandLog'[c][n].type>>
  BY <1>0
<1>4. CASE n \in DOMAIN commandLog[c] /\ commandLog'[c][n] = commandLog[c][n]
  BY <1>3, <1>4 DEF CommandToken
<1>5. CASE c = cmd.type /\ n = Len(commandLog[cmd.type]) + 1 /\ commandLog'[c][n] = cmd
  BY <1>3, <1>5
<1>6. \/ n \in DOMAIN commandLog[c] /\ commandLog'[c][n] = commandLog[c][n]
      \/ c = cmd.type /\ n = Len(commandLog[cmd.type]) + 1 /\ commandLog'[c][n] = cmd
  BY <1>1, <1>2, ProducedAt
<1>. QED
  BY <1>4, <1>5, <1>6

LEMMA ReplyTokenOfProduce ==
    ASSUME TypeOK, NEW reply \in Reply, NEW t \in ReplyTopics,
           replyLog' = [replyLog EXCEPT ![t] = Append(@, reply)], UNCHANGED position,
           NEW s, NEW x, ReplyToken(s, x)'
    PROVE  \/ ReplyToken(s, x)
           \/ /\ s = reply.saga
              /\ x = <<"reply", t, Len(replyLog[t]) + 1, reply.type>>
<1>1. replyLog \in Logs(ReplyTopics, Reply)
  BY DEF TypeOK, Logs
<1>2. Produced(replyLog', replyLog, t, reply)
  BY DEF Produced
<1>0. PICK u \in ReplyTopics : \E n \in DOMAIN replyLog'[u] :
          /\ position[u] < n
          /\ replyLog'[u][n].saga = s
          /\ x = <<"reply", u, n, replyLog'[u][n].type>>
  BY DEF ReplyToken
<1>3. PICK n \in DOMAIN replyLog'[u] :
          /\ position[u] < n
          /\ replyLog'[u][n].saga = s
          /\ x = <<"reply", u, n, replyLog'[u][n].type>>
  BY <1>0
<1>4. CASE n \in DOMAIN replyLog[u] /\ replyLog'[u][n] = replyLog[u][n]
  BY <1>3, <1>4 DEF ReplyToken
<1>5. CASE u = t /\ n = Len(replyLog[t]) + 1 /\ replyLog'[u][n] = reply
  BY <1>3, <1>5
<1>6. \/ n \in DOMAIN replyLog[u] /\ replyLog'[u][n] = replyLog[u][n]
      \/ u = t /\ n = Len(replyLog[t]) + 1 /\ replyLog'[u][n] = reply
  BY <1>1, <1>2, ProducedAt
<1>. QED
  BY <1>4, <1>5, <1>6

(* Tokens of parts that a step leaves alone.                                 *)
LEMMA TokensKept ==
    ASSUME NEW s, NEW x
    PROVE  /\ UNCHANGED starting => UNCHANGED StartToken(s, x)
           /\ UNCHANGED <<pc, task>> => UNCHANGED TaskToken(s, x)
           /\ UNCHANGED <<commandLog, cellPosition>> => UNCHANGED CommandToken(s, x)
           /\ UNCHANGED <<replyLog, position>> => UNCHANGED ReplyToken(s, x)
BY DEF StartToken, TaskToken, CommandToken, ReplyToken

-----------------------------------------------------------------------------
(* Start.                                                                    *)
LEMMA NoTokenBeforeStart ==
    ASSUME TypeOK, Flow, NEW s \in Sagas, LineOf(s), sagas[s] = Absent, NEW x
    PROVE  ~Token(s, x)
<1>1. sagas[s].status = "ABSENT"
  BY DEF Absent
<1>2. \A type : ~Before(s, type)
  BY <1>1 DEF Before, At
<1>3. ASSUME NEW h \in Hubs, NEW t \in task[h], NEW step \in {"save", "event", "publish"}
      PROVE  ~Working(s, t, step)
  <2>1. t \in Task /\ t.row.status # "ABSENT"
    BY <1>3 DEF TypeOK, Flow
  <2>2. EffectOf(t).row.status # "ABSENT"
    BY <2>1, EffectIsInserted
  <2>. QED
    BY <1>1, <1>3, <2>1, <2>2 DEF Working, At
<1>. SUFFICES ASSUME Token(s, x) PROVE FALSE
  OBVIOUS
<1>4. Phase(s, x)
  BY DEF LineOf
<1>5. CASE TaskToken(s, x)
  <2>0. PICK h \in Hubs : \E t \in task[h] :
            pc[h] \in {"save", "event", "publish"} /\ x = <<"task", h, t, pc[h]>>
    BY <1>5 DEF TaskToken
  <2>1. PICK t \in task[h] :
            pc[h] \in {"save", "event", "publish"} /\ x = <<"task", h, t, pc[h]>>
    BY <2>0
  <2>2. Working(s, t, pc[h])
    BY <1>4, <2>1 DEF Phase
  <2>. QED
    BY <1>3, <2>1, <2>2
<1>6. CASE ~TaskToken(s, x)
  <2>1. x[1] # "task"
    BY <1>6, Kinds DEF Token
  <2>. QED
    BY <1>2, <1>4, <2>1 DEF Phase
<1>. QED
  BY <1>5, <1>6


LEMMA OneToken ==
    ASSUME Line, NEW s \in Sagas, NEW a, Token(s, a)
    PROVE  /\ \A x : Token(s, x) => x = a
           /\ Phase(s, a)
BY DEF Line, LineOf

LEMMA FactsKept ==
    ASSUME NEW s, sagas'[s] = sagas[s], events'[s] = events[s], UNCHANGED Notices(s)
    PROVE  UNCHANGED Facts(s)
BY DEF Facts

LEMMA LineOfStartSave ==
    ASSUME TypeOK, Flow, Line, NEW h \in Hubs, NEW s \in Sagas, NEW p \in ClientPayloads,
           StartSave(h, s, p)
    PROVE  Line'
<1>. DEFINE b == <<"start", h, 0, "criar_pedido">>
<1>1. /\ sagas[s] = Absent
      /\ sagas' = [sagas EXCEPT ![s] = NewSaga(p)]
      /\ starting' = [starting EXCEPT ![h] = @ \cup {s}]
      /\ UNCHANGED <<commandLog, replyLog, events, position, pc, task, cellPosition>>
  BY DEF StartSave, readerVars, handlerVars, cellVars
<1>2. sagas \in [Sagas -> Row] /\ starting \in [Hubs -> SUBSET Sagas]
  BY DEF TypeOK
<1>3. \A u \in Sagas : UNCHANGED Notices(u)
  BY <1>1, NoticesKept
<1>4. \A u \in Sagas : u # s => UNCHANGED Facts(u)
  BY <1>1, <1>2, <1>3, FactsKept
<1>5. \A x : ~Token(s, x)
  BY <1>1, NoTokenBeforeStart DEF Line
<1>6. \A u \in Sagas : \A x : StartToken(u, x)' => StartToken(u, x) \/ (u = s /\ x = b)
  BY <1>1, <1>2 DEF StartToken
<1>7. Passes(s, b, b)
  BY <1>1, <1>5, <1>6, TokensKept DEF Passes, Token
<1>8. At(s, "STARTED", {}, {})'
  <2>1. Told(s)
    BY DEF Line, LineOf
  <2>2. At(s, "ABSENT", {}, {})
    BY <1>1, <2>1 DEF Told, Stories, At, Absent
  <2>3. sagas'[s].status = "STARTED"
    BY <1>1, <1>2 DEF NewSaga
  <2>. QED
    BY <1>1, <1>3, <2>2, <2>3 DEF At
<1>9. Told(s)' /\ Phase(s, b)'
  <2>1. Fits("STARTED", {}, {})
    BY DEF Fits, Stories
  <2>. QED
    BY <1>8, <2>1, AtIsTold DEF Phase, Before
<1>. HIDE DEF b
<1>. QED
  BY <1>4, <1>5, <1>7, <1>9, LineOfPass

LEMMA LineOfStartPublish ==
    ASSUME TypeOK, Plain, Line, NEW h \in Hubs, NEW s \in Sagas,
           StartPublish(h, s) \/ StartPublishFails(h, s)
    PROVE  Line'
<1>. DEFINE a == <<"start", h, 0, "criar_pedido">>
            cmd == StartCmd(s, sagas[s].payload)
<1>1. /\ s \in starting[h]
      /\ starting' = [starting EXCEPT ![h] = @ \ {s}]
      /\ UNCHANGED <<sagas, replyLog, events, position, pc, task, cellPosition>>
  BY DEF StartPublish, StartPublishFails, storeVars, readerVars, handlerVars, cellVars
<1>2. starting \in [Hubs -> SUBSET Sagas]
  BY DEF TypeOK
<1>3. Token(s, a)
  BY <1>1 DEF Token, StartToken
<1>4. At(s, "STARTED", {}, {})
  <2>1. Phase(s, a)
    BY <1>3, OneToken
  <2>. QED
    BY <2>1 DEF Phase, Before
<1>5. \A u \in Sagas : \A x : StartToken(u, x)' => StartToken(u, x) /\ (u = s => x # a)
  BY <1>1, <1>2 DEF StartToken
<1>6. \A x : TaskToken(s, x) \/ CommandToken(s, x) \/ ReplyToken(s, x) => x # a
  BY Kinds
<1>. HIDE DEF a
<1>7. CASE StartPublish(h, s)
  <2>1. /\ cmd \in Command /\ Produce(cmd)
        /\ cmd.saga = s /\ cmd.type = "criar_pedido"
        /\ cmd.payload = sagas[s].payload \cup {"cliente_id"}
    BY <1>7, StartCmdType DEF StartPublish, StartCmd, NewCmd
  <2>2. cmd.payload \cap Tipos = {}
    BY <2>1 DEF Plain, Tipos
  <2>3. \A u \in Sagas : UNCHANGED Notices(u)
    BY <2>1, <2>2, PlainProduce
  <2>4. \A u \in Sagas : UNCHANGED Facts(u)
    BY <1>1, <2>3, FactsKept
  <2>. PICK b : b = <<"command", "criar_pedido", Len(commandLog["criar_pedido"]) + 1,
                      "criar_pedido">>
    OBVIOUS
  <2>5. \A u, x : CommandToken(u, x)' => CommandToken(u, x) \/ (u = s /\ x = b)
    BY <1>1, <2>1, CommandTokenOfProduce
  <2>6. Passes(s, a, b)
    BY <1>1, <1>5, <1>6, <2>5, TokensKept DEF Passes, Token
  <2>7. At(s, "STARTED", {}, {})'
    BY <1>4, <2>4, AtKept
  <2>8. Told(s)' /\ Phase(s, b)'
    BY <2>4, <2>7, PhaseKept DEF Line, LineOf, Phase, Before
  <2>9. \A x : Token(s, x) => x = a
    BY <1>3, OneToken
  <2>. QED
    BY <2>4, <2>6, <2>8, <2>9, LineOfPass
<1>8. CASE StartPublishFails(h, s)
  <2>1. UNCHANGED commandLog
    BY <1>8 DEF StartPublishFails
  <2>2. \A u \in Sagas : UNCHANGED Facts(u)
    BY <1>1, <2>1, NoticesKept, FactsKept
  <2>3. \A u \in Sagas : \A x : Token(u, x)' => Token(u, x)
    BY <1>1, <1>5, <2>1, TokensKept DEF Token
  <2>. QED
    BY <2>2, <2>3, LineOfRest
<1>. QED
  BY <1>7, <1>8

-----------------------------------------------------------------------------
(* The reply loop.                                                           *)

LEMMA BeforeWorks ==
    ASSUME NEW s, NEW t \in Task, t.row = sagas[s], Before(s, t.reply.type),
           EffectOf(t).saves
    PROVE  Working(s, t, "save")
<1>1. t.reply.type \in CommandTypes
  BY DEF Task, Reply
<1>2. CASE t.reply.type = "enviar_notificacao"
  <2>1. t.row.status # "FAILED"
    BY <1>2 DEF EffectOf, HandleReply, OnNotificacaoReply
  <2>. QED
    BY <1>2, <2>1 DEF Before, At, Working, RowBefore, NoticesBefore
<1>3. CASE t.reply.type # "enviar_notificacao"
  BY <1>1, <1>3 DEF Before, At, Working, RowBefore, NoticesBefore
<1>. QED
  BY <1>2, <1>3

LEMMA LineOfReceive ==
    ASSUME TypeOK, Line, NEW h \in Hubs, NEW t \in ReplyTopics,
           Receive(h, t) \/ ReceiveFails(h, t)
    PROVE  Line'
<1>1. CanRead(h, t)
  BY DEF Receive, ReceiveFails
<1>. PICK reply \in Reply : reply = NextReply(t)
  BY <1>1, NextReplyType
<1>. PICK s \in Sagas : s = reply.saga
  BY DEF Reply
<1>. PICK a : a = <<"reply", t, position[t] + 1, reply.type>>
  OBVIOUS
<1>2. /\ position' = [position EXCEPT ![t] = @ + 1]
      /\ UNCHANGED <<sagas, starting, commandLog, replyLog, events, cellPosition>>
  BY DEF Receive, ReceiveFails, storeVars, cellVars
<1>3. /\ position \in [ReplyTopics -> Nat] /\ replyLog \in [ReplyTopics -> Seq(Reply)]
      /\ task \in [Hubs -> SUBSET Task] /\ DOMAIN pc = Hubs
  BY DEF TypeOK
<1>4. Token(s, a)
  <2>1. position[t] + 1 \in DOMAIN replyLog[t] /\ position[t] < position[t] + 1
    BY <1>1, <1>3 DEF CanRead
  <2>. QED
    BY <2>1 DEF Token, ReplyToken, NextReply
<1>5. \A u \in Sagas : \A x : ReplyToken(u, x)' => ReplyToken(u, x) /\ x # a
  <2>1. \A n \in Nat : \A k \in ReplyTopics :
            position'[k] < n => position[k] < n /\ (k = t => n # position[t] + 1)
    BY <1>2, <1>3
  <2>2. \A k \in ReplyTopics : DOMAIN replyLog[k] \subseteq Nat
    BY <1>3
  <2>. QED
    BY <1>2, <2>1, <2>2 DEF ReplyToken
<1>6. \A u, x : StartToken(u, x) \/ TaskToken(u, x) \/ CommandToken(u, x) => x # a
  BY Kinds
<1>7. \A u \in Sagas : UNCHANGED Facts(u)
  BY <1>2, NoticesKept, FactsKept
<1>8. Before(s, reply.type)
  BY <1>4, OneToken DEF Phase
<1>9. CASE Receive(h, t)
  <2>. PICK tk \in Task : tk = [topic |-> t, offset |-> position[t], reply |-> NextReply(t),
                                row |-> sagas[NextReply(t).saga]]
    BY <1>9, ReceivedTask
  <2>1. /\ task' = [task EXCEPT ![h] = {tk}]
        /\ pc' = [pc EXCEPT ![h] = AfterRead(EffectOf(tk))]
        /\ tk.reply = reply /\ tk.row = sagas[s]
    BY <1>9, ReceivedTask
  <2>2. CASE EffectOf(tk).saves
    <3>. PICK b : b = <<"task", h, tk, "save">>
      OBVIOUS
    <3>1. \A u \in Sagas : \A x : TaskToken(u, x)' => TaskToken(u, x) \/ (u = s /\ x = b)
      BY <1>3, <2>1, <2>2 DEF TaskToken, AfterRead
    <3>2. Passes(s, a, b)
      BY <1>2, <1>5, <1>6, <3>1, TokensKept DEF Passes, Token
    <3>3. Working(s, tk, "save")
      BY <1>8, <2>1, <2>2, BeforeWorks
    <3>4. Phase(s, b)'
      <4>1. Phase(s, b)
        BY <3>3 DEF Phase
      <4>. QED
        BY <1>7, <4>1, PhaseKept
    <3>5. Told(s)'
      BY <1>7, PhaseKept DEF Line, LineOf
    <3>6. \A x : Token(s, x) => x = a
      BY <1>4, OneToken
    <3>. QED
      BY <1>7, <3>2, <3>4, <3>5, <3>6, LineOfPass
  <2>3. CASE ~EffectOf(tk).saves
    <3>1. \A u \in Sagas : \A x : TaskToken(u, x)' => TaskToken(u, x)
      BY <1>3, <2>1, <2>3 DEF TaskToken, AfterRead
    <3>2. \A u \in Sagas : \A x : Token(u, x)' => Token(u, x)
      BY <1>2, <1>5, <3>1, TokensKept DEF Token
    <3>. QED
      BY <1>7, <3>2, LineOfRest
  <2>. QED
    BY <2>2, <2>3
<1>10. CASE ReceiveFails(h, t)
  <2>1. UNCHANGED <<pc, task>>
    BY <1>10 DEF ReceiveFails, handlerVars
  <2>2. \A u \in Sagas : \A x : Token(u, x)' => Token(u, x)
    BY <1>2, <1>5, <2>1, TokensKept DEF Token
  <2>. QED
    BY <1>7, <2>2, LineOfRest
<1>. QED
  BY <1>9, <1>10

(* What a handler may leave a saga with, and what its command goes out with. *)
LEMMA Outcomes ==
    ASSUME NEW t \in Task, t.row.status = RowBefore(t.reply.type),
           t.row.payload \cap Tipos = {}
    PROVE  LET e == EffectOf(t)
               N == NoticesBefore(t.reply.type)
           IN  /\ \/ e.row.status \in {"STARTED", "COMPENSATING"} /\ e.events = {} /\ N = {}
                  \/ e.row.status = "FAILED" /\ e.events = {"PedidoFalhou"} /\ N = {}
                  \/ e.row.status = "FAILED" /\ e.events = {"PedidoCancelado"} /\ N = {}
                  \/ /\ e.row.status = "COMPLETED" /\ e.events = {"PedidoConfirmado"}
                     /\ N = {"PEDIDO_CONFIRMADO"}
               /\ e.row.payload = t.row.payload
               /\ \A cmd \in e.commands :
                     /\ cmd.saga = t.reply.saga /\ N = {}
                     /\ \/ /\ e.row.status = "STARTED" /\ e.events = {}
                           /\ cmd.type = "reservar_estoque" /\ cmd.payload \cap Tipos = {}
                        \/ /\ e.row.status = "COMPENSATING" /\ e.events = {}
                           /\ cmd.type \in {"cancelar_pedido", "liberar_estoque"}
                           /\ cmd.payload \cap Tipos = {}
                        \/ /\ e.row.status = "STARTED" /\ e.events = {}
                           /\ cmd.type = "enviar_notificacao"
                           /\ cmd.payload \cap Tipos = {"PEDIDO_CONFIRMADO"}
                        \/ /\ e.row.status = "FAILED" /\ e.events = {"PedidoCancelado"}
                           /\ cmd.type = "enviar_notificacao"
                           /\ cmd.payload \cap Tipos = {"PEDIDO_CANCELADO"}
<1>0. t.reply.type \in CommandTypes /\ t.row \in Row /\ t.reply \in Reply
  BY DEF Task, Reply
<1>. DEFINE type == t.reply.type
<1>1. CASE type = "criar_pedido"
  <2>1. EffectOf(t) = OnPedidoCriado(t.reply.saga, t.row, t.reply)
    BY <1>1 DEF EffectOf, HandleReply
  <2>. QED
    BY <1>0, <1>1, <2>1 DEF OnPedidoCriado, FailSaga, NewCmd, Row, RowBefore, NoticesBefore
<1>2. CASE type = "reservar_estoque"
  <2>1. EffectOf(t) = OnEstoqueReply(t.reply.saga, t.row, t.reply)
    BY <1>2 DEF EffectOf, HandleReply
  <2>. QED
    BY <1>0, <1>2, <2>1 DEF OnEstoqueReply, NewCmd, Row, RowBefore, NoticesBefore, Tipos
<1>3. CASE type = "enviar_notificacao"
  <2>1. EffectOf(t) = OnNotificacaoReply(t.row)
    BY <1>3 DEF EffectOf, HandleReply
  <2>. QED
    BY <1>0, <1>3, <2>1 DEF OnNotificacaoReply, Row, RowBefore, NoticesBefore
<1>4. CASE type = "cancelar_pedido"
  <2>1. EffectOf(t) = OnPedidoCancelado(t.reply.saga, t.row)
    BY <1>4 DEF EffectOf, HandleReply
  <2>. QED
    BY <1>0, <1>4, <2>1 DEF OnPedidoCancelado, NewCmd, Row, RowBefore, NoticesBefore
<1>5. CASE type = "liberar_estoque"
  <2>1. EffectOf(t) = OnEstoqueLiberado(t.reply.saga, t.row)
    BY <1>5 DEF EffectOf, HandleReply
  <2>. QED
    BY <1>0, <1>5, <2>1 DEF OnEstoqueLiberado, NewCmd, Row, RowBefore, NoticesBefore, Tipos
<1>. QED
  BY <1>0, <1>1, <1>2, <1>3, <1>4, <1>5 DEF CommandTypes

LEMMA OutcomeFits ==
    ASSUME NEW t \in Task, t.row.status = RowBefore(t.reply.type),
           t.row.payload \cap Tipos = {}, NEW E \in SUBSET EffectOf(t).events
    PROVE  Fits(EffectOf(t).row.status, E, NoticesBefore(t.reply.type))
<1>. DEFINE e == EffectOf(t)
            N == NoticesBefore(t.reply.type)
<1>. HIDE DEF e, N
<1>1. \/ e.row.status \in {"STARTED", "COMPENSATING"} /\ e.events = {} /\ N = {}
      \/ e.row.status = "FAILED" /\ e.events = {"PedidoFalhou"} /\ N = {}
      \/ e.row.status = "FAILED" /\ e.events = {"PedidoCancelado"} /\ N = {}
      \/ /\ e.row.status = "COMPLETED" /\ e.events = {"PedidoConfirmado"}
         /\ N = {"PEDIDO_CONFIRMADO"}
  BY Outcomes DEF e, N
<1>2. E \subseteq e.events
  BY DEF e
<1>3. Fits(e.row.status, E, N)
  BY <1>1, <1>2 DEF Fits, Stories
<1>. QED
  BY <1>3 DEF e, N

(* The handler of h goes from one step to another, or comes to its commit.   *)
StepsTo(h, t, s, step, a, b) ==
    /\ t \in task[h] /\ t.reply.saga = s
    /\ a = <<"task", h, t, pc[h]>> /\ b = <<"task", h, t, step>>
    /\ pc[h] \in {"save", "event", "publish"}
    /\ pc' = [pc EXCEPT ![h] = step]
    /\ UNCHANGED <<task, starting, replyLog, position, cellPosition>>

TasksPass(s, a, b, step) ==
    \A u \in Sagas : \A x :
        /\ StartToken(u, x) \/ CommandToken(u, x) \/ ReplyToken(u, x) => x # a
        /\ TaskToken(u, x)' =>
              \/ TaskToken(u, x) /\ x # a
              \/ u = s /\ x = b /\ step \in {"save", "event", "publish"}

LEMMA TokensOfStep ==
    ASSUME TypeOK, Single, Line, NEW h \in Hubs, NEW t, NEW s \in Sagas, NEW step,
           NEW a, NEW b, StepsTo(h, t, s, step, a, b)
    PROVE  /\ Token(s, a) /\ Working(s, t, pc[h])
           /\ TasksPass(s, a, b, step)
<1>1. DOMAIN pc = Hubs
  BY DEF TypeOK
<1>2. Token(s, a)
  BY DEF Token, TaskToken, StepsTo
<1>3. Working(s, t, pc[h])
  <2>1. Phase(s, a)
    BY <1>2, OneToken
  <2>. QED
    BY <2>1 DEF Phase, StepsTo
<1>4. \A u, x : StartToken(u, x) \/ CommandToken(u, x) \/ ReplyToken(u, x) => x # a
  BY Kinds DEF StepsTo
<1>5. ASSUME NEW u \in Sagas, NEW x, TaskToken(u, x)'
      PROVE  \/ TaskToken(u, x) /\ x # a
             \/ u = s /\ x = b /\ step \in {"save", "event", "publish"}
  <2>1. PICK k \in Hubs : \E v \in task[k] :
            /\ v.reply.saga = u /\ pc'[k] \in {"save", "event", "publish"}
            /\ x = <<"task", k, v, pc'[k]>>
    BY <1>5 DEF TaskToken, StepsTo
  <2>2. PICK v \in task[k] :
            /\ v.reply.saga = u /\ pc'[k] \in {"save", "event", "publish"}
            /\ x = <<"task", k, v, pc'[k]>>
    BY <2>1
  <2>3. CASE k = h
    <3>1. v = t /\ pc'[k] = step
      BY <1>1, <2>3 DEF Single, StepsTo
    <3>. QED
      BY <2>2, <2>3, <3>1 DEF StepsTo
  <2>4. CASE k # h
    <3>1. pc'[k] = pc[k] /\ x # a
      BY <1>1, <2>2, <2>4 DEF StepsTo
    <3>. QED
      BY <2>2, <3>1 DEF TaskToken
  <2>. QED
    BY <2>3, <2>4
<1>. QED
  BY <1>2, <1>3, <1>4, <1>5 DEF TasksPass

LEMMA PassesOfStep ==
    ASSUME TypeOK, Single, Line, NEW h \in Hubs, NEW t, NEW s \in Sagas, NEW step,
           NEW a, NEW b, StepsTo(h, t, s, step, a, b), UNCHANGED commandLog
    PROVE  Passes(s, a, b)
<1>1. TasksPass(s, a, b, step)
  BY TokensOfStep
<1>2. UNCHANGED <<starting, commandLog, replyLog, position, cellPosition>>
  BY DEF StepsTo
<1>. QED
  BY <1>1, <1>2, TokensKept DEF TasksPass, Passes, Token

LEMMA LineOfSave ==
    ASSUME TypeOK, Flow, Plain, Single, Line, NEW h \in Hubs, Save(h)
    PROVE  /\ Line'
           /\ \A s \in Sagas : sagas[s].status \in Terminal => sagas'[s] = sagas[s]
<1>1. PICK t \in task[h] :
          /\ pc[h] = "save"
          /\ sagas' = [sagas EXCEPT ![t.reply.saga] = EffectOf(t).row]
          /\ pc' = [pc EXCEPT ![h] = AfterSave(EffectOf(t))]
          /\ UNCHANGED <<starting, commandLog, replyLog, events, position, task,
                         cellPosition>>
  BY DEF Save, readerVars, cellVars
<1>2. t \in Task /\ sagas \in [Sagas -> Row] /\ t.row.payload \cap Tipos = {}
  BY <1>1 DEF TypeOK, Plain
<1>. PICK s \in Sagas : s = t.reply.saga
  BY <1>2 DEF Task, Reply
<1>. PICK step : step = AfterSave(EffectOf(t))
  OBVIOUS
<1>. PICK a, b : a = <<"task", h, t, pc[h]>> /\ b = <<"task", h, t, step>>
  OBVIOUS
<1>3. StepsTo(h, t, s, step, a, b)
  BY <1>1 DEF StepsTo
<1>4. /\ Working(s, t, "save")
      /\ \A x : Token(s, x) => x = a
      /\ Passes(s, a, b)
  BY <1>1, <1>3, TokensOfStep, PassesOfStep, OneToken
<1>5. \A u \in Sagas : UNCHANGED Notices(u)
  BY <1>1, NoticesKept
<1>6. \A u \in Sagas : u # s => UNCHANGED Facts(u)
  BY <1>1, <1>2, <1>5, FactsKept
<1>. DEFINE after == EffectOf(t).row.status
            N == NoticesBefore(t.reply.type)
<1>7. At(s, t.row.status, {}, N) /\ t.row.status = RowBefore(t.reply.type)
  BY <1>4 DEF Working
<1>8. \A E : At(s, after, E, N)'
  BY <1>1, <1>2, <1>5, <1>7 DEF At
<1>9. Told(s)'
  <2>1. {} \in SUBSET EffectOf(t).events
    OBVIOUS
  <2>2. Fits(after, {}, N)
    BY <1>2, <1>7, <2>1, OutcomeFits
  <2>. HIDE DEF after, N
  <2>. QED
    BY <1>8, <2>2, AtIsTold
<1>10. Phase(s, b)'
  BY <1>7, <1>8 DEF Phase, Working, AfterSave
<1>11. Line'
  BY <1>4, <1>6, <1>9, <1>10, LineOfPass
<1>12. sagas[s].status \notin Terminal
  BY <1>7 DEF At, RowBefore, Terminal
<1>. QED
  BY <1>1, <1>2, <1>11, <1>12

LEMMA LineOfEvent ==
    ASSUME TypeOK, Plain, Single, Line, NEW h \in Hubs, PublishEvent(h) \/ EventLost(h)
    PROVE  Line'
<1>1. PICK t \in task[h] :
          /\ pc[h] = "event"
          /\ pc' = [pc EXCEPT ![h] = AfterEvent(EffectOf(t))]
          /\ \/ UNCHANGED events
             \/ \E e \in EffectOf(t).events :
                   events' = [events EXCEPT ![t.reply.saga][e] = @ + 1]
          /\ UNCHANGED <<sagas, starting, commandLog, replyLog, position, task,
                         cellPosition>>
  BY DEF PublishEvent, EventLost, storeVars, readerVars, cellVars
<1>2. /\ t \in Task /\ t.row.payload \cap Tipos = {}
      /\ events \in [Sagas -> [EventTypes -> Nat]]
  BY <1>1 DEF TypeOK, Plain
<1>. PICK s \in Sagas : s = t.reply.saga
  BY <1>2 DEF Task, Reply
<1>. PICK step : step = AfterEvent(EffectOf(t))
  OBVIOUS
<1>. PICK a, b : a = <<"task", h, t, pc[h]>> /\ b = <<"task", h, t, step>>
  OBVIOUS
<1>3. StepsTo(h, t, s, step, a, b)
  BY <1>1 DEF StepsTo
<1>4. /\ Working(s, t, "event")
      /\ \A x : Token(s, x) => x = a
      /\ Passes(s, a, b)
  BY <1>1, <1>3, TokensOfStep, PassesOfStep, OneToken
<1>5. \A u \in Sagas : UNCHANGED Notices(u)
  BY <1>1, NoticesKept
<1>6. \A u \in Sagas : u # s => UNCHANGED Facts(u)
  BY <1>1, <1>2, <1>5, FactsKept
<1>. DEFINE after == EffectOf(t).row.status
            published == EffectOf(t).events
            N == NoticesBefore(t.reply.type)
<1>7. At(s, after, {}, N) /\ t.row.status = RowBefore(t.reply.type)
  BY <1>4 DEF Working
<1>8. At(s, after, published, N)'
  <2>1. UNCHANGED <<sagas[s], Notices(s)>>
    BY <1>1, <1>5
  <2>2. \A e \in EventTypes : events[s][e] = 0
    BY <1>7 DEF At
  <2>3. \A e \in EventTypes : events'[s][e] = 0 \/ (e \in published /\ events'[s][e] = 1)
    <3>1. CASE UNCHANGED events
      BY <2>2, <3>1
    <3>2. CASE \E e \in published : events' = [events EXCEPT ![s][e] = @ + 1]
      <4>1. PICK e \in published : events' = [events EXCEPT ![s][e] = @ + 1]
        BY <3>2
      <4>. HIDE DEF published
      <4>2. \A f \in EventTypes : events'[s][f] = IF f = e THEN 1 ELSE 0
        BY <1>2, <2>2, <4>1
      <4>. QED
        BY <4>1, <4>2
    <3>. QED
      BY <1>1, <3>1, <3>2
  <2>. QED
    BY <1>7, <2>1, <2>3 DEF At
<1>9. Told(s)'
  <2>1. published \in SUBSET EffectOf(t).events
    OBVIOUS
  <2>2. Fits(after, published, N)
    BY <1>2, <1>7, <2>1, OutcomeFits
  <2>. HIDE DEF after, published, N
  <2>. QED
    BY <1>8, <2>2, AtIsTold
<1>10. Phase(s, b)'
  BY <1>7, <1>8 DEF Phase, Working, AfterEvent
<1>. QED
  BY <1>4, <1>6, <1>9, <1>10, LineOfPass

(* The command takes the token along; its notice is the only one there is.   *)
LEMMA LineOfPublish ==
    ASSUME TypeOK, Plain, Single, Line, NEW h \in Hubs, PublishCommand(h)
    PROVE  Line'
<1>1. PICK t \in task[h] : \E c \in EffectOf(t).commands :
          /\ pc[h] = "publish"
          /\ Produce(c)
          /\ pc' = [pc EXCEPT ![h] = "commit"]
          /\ UNCHANGED <<sagas, starting, replyLog, events, position, task, cellPosition>>
  BY DEF PublishCommand, storeVars, readerVars, cellVars
<1>2. t \in Task /\ t.row.payload \cap Tipos = {}
  BY <1>1 DEF TypeOK, Plain
<1>. PICK cmd \in EffectOf(t).commands : Produce(cmd)
  BY <1>1
<1>3. cmd \in Command
  BY <1>2, EffectType DEF Effect
<1>. PICK s \in Sagas : s = t.reply.saga
  BY <1>2 DEF Task, Reply
<1>. PICK a, d : a = <<"task", h, t, pc[h]>> /\ d = <<"task", h, t, "commit">>
  OBVIOUS
<1>. PICK b : b = <<"command", cmd.type, Len(commandLog[cmd.type]) + 1, cmd.type>>
  OBVIOUS
<1>4. StepsTo(h, t, s, "commit", a, d)
  BY <1>1 DEF StepsTo
<1>5. /\ Token(s, a) /\ Working(s, t, "publish")
      /\ TasksPass(s, a, d, "commit")
  BY <1>1, <1>4, TokensOfStep
<1>. DEFINE e == EffectOf(t)
            N == NoticesBefore(t.reply.type)
<1>6. At(s, e.row.status, e.events, N) /\ t.row.status = RowBefore(t.reply.type)
  BY <1>5 DEF Working
<1>7. /\ cmd.saga = s /\ N = {}
      /\ \/ /\ e.row.status = "STARTED" /\ e.events = {}
            /\ cmd.type = "reservar_estoque" /\ cmd.payload \cap Tipos = {}
         \/ /\ e.row.status = "COMPENSATING" /\ e.events = {}
            /\ cmd.type \in {"cancelar_pedido", "liberar_estoque"}
            /\ cmd.payload \cap Tipos = {}
         \/ /\ e.row.status = "STARTED" /\ e.events = {}
            /\ cmd.type = "enviar_notificacao"
            /\ cmd.payload \cap Tipos = {"PEDIDO_CONFIRMADO"}
         \/ /\ e.row.status = "FAILED" /\ e.events = {"PedidoCancelado"}
            /\ cmd.type = "enviar_notificacao"
            /\ cmd.payload \cap Tipos = {"PEDIDO_CANCELADO"}
  BY <1>2, <1>6, Outcomes
<1>8. Notices(s)' = Notices(s) \cup (cmd.payload \cap Tipos)
  BY <1>3, <1>7, NoticesOfProduce
<1>9. \A u \in Sagas : u # s => UNCHANGED Facts(u)
  <2>1. \A u \in Sagas : u # s => UNCHANGED Notices(u)
    BY <1>3, <1>7, PlainProduce
  <2>. QED
    BY <1>1, <2>1, FactsKept
<1>10. At(s, e.row.status, e.events, cmd.payload \cap Tipos)'
  BY <1>1, <1>6, <1>7, <1>8 DEF At
<1>11. Phase(s, b)'
  <2>. HIDE DEF e, N
  <2>1. Before(s, cmd.type)'
    BY <1>7, <1>10 DEF Before
  <2>. QED
    BY <2>1 DEF Phase
<1>12. Told(s)'
  <2>. HIDE DEF e, N
  <2>1. Fits(e.row.status, e.events, cmd.payload \cap Tipos)
    BY <1>7 DEF Fits, Stories
  <2>. QED
    BY <1>10, <2>1, AtIsTold
<1>13. Passes(s, a, b)
  <2>1. \A u, x : CommandToken(u, x)' => CommandToken(u, x) \/ (u = s /\ x = b)
    BY <1>1, <1>3, <1>7, CommandTokenOfProduce
  <2>2. \A u \in Sagas : \A x : TaskToken(u, x)' => TaskToken(u, x) /\ x # a
    BY <1>5 DEF TasksPass
  <2>3. \A u \in Sagas : \A x :
            StartToken(u, x) \/ CommandToken(u, x) \/ ReplyToken(u, x) => x # a
    BY <1>5 DEF TasksPass
  <2>. QED
    BY <1>1, <2>1, <2>2, <2>3, TokensKept DEF Passes, Token
<1>14. \A x : Token(s, x) => x = a
  BY <1>5, OneToken
<1>. QED
  BY <1>9, <1>11, <1>12, <1>13, <1>14, LineOfPass

(* A handler that ends, or whose command is lost, leaves no token.           *)
LEMMA LineOfEnd ==
    ASSUME TypeOK, Line, NEW h \in Hubs,
           Commit(h) \/ CommitFails(h) \/ PublishCommandFails(h) \/ CommandLost(h)
    PROVE  Line'
<1>1. /\ UNCHANGED <<sagas, starting, commandLog, replyLog, events, position, cellPosition>>
      /\ \/ pc' = [pc EXCEPT ![h] = "commit"] /\ UNCHANGED task
         \/ pc' = [pc EXCEPT ![h] = "idle"] /\ task' = [task EXCEPT ![h] = {}]
  BY DEF Commit, CommitFails, HandlerReturns, PublishCommandFails, CommandLost,
     storeVars, readerVars, cellVars
<1>2. task \in [Hubs -> SUBSET Task] /\ DOMAIN pc = Hubs
  BY DEF TypeOK
<1>3. \A u \in Sagas : \A x : TaskToken(u, x)' => TaskToken(u, x)
  BY <1>1, <1>2 DEF TaskToken
<1>4. \A u \in Sagas : UNCHANGED Facts(u)
  BY <1>1, NoticesKept, FactsKept
<1>5. \A u \in Sagas : \A x : Token(u, x)' => Token(u, x)
  BY <1>1, <1>3, TokensKept DEF Token
<1>. QED
  BY <1>4, <1>5, LineOfRest

(* A cell trades a command for its reply.                                    *)
LEMMA LineOfCell ==
    ASSUME TypeOK, OnePass, Line, HandledOnce', NEW g \in Shards,
           CellStep(g) \/ CellFault(g)
    PROVE  Line'
<1>1. ~ \E pbc \in PBCs : CellCrash(g, pbc)
  BY DEF HandledOnce, CellCrash, Fault, Happens, Disturbing
<1>2. PICK type \in CommandTypes, st \in ReplyStatuses :
          \/ CellAnswers(g, type, st)
          \/ CellCommitFails(g, type, st)
          \/ CellReplyLost(g, type, st)
          \/ CellReplyDropped(g, type, st)
  BY <1>1 DEF CellStep, CellFault
<1>3. /\ cellPosition[g][type] < Len(commandLog[type])
      /\ cellPosition' = [cellPosition EXCEPT ![g][type] = @ + 1]
      /\ UNCHANGED <<sagas, starting, commandLog, events, position, pc, task>>
  BY <1>2 DEF CellAnswers, CellCommitFails, CellReplyLost, CellReplyDropped,
     CellCommitsAnswered, CellProcess, storeVars, readerVars, handlerVars
<1>. PICK cmd \in Command : cmd = NextCommand(g, type)
  BY <1>3, NextCommandType
<1>. PICK s \in Sagas : s = cmd.saga
  BY DEF Command
<1>. PICK a : a = <<"command", type, cellPosition[g][type] + 1, cmd.type>>
  OBVIOUS
<1>4. /\ cellPosition \in [Shards -> [CommandTypes -> Nat]]
      /\ commandLog \in [CommandTypes -> Seq(Command)]
  BY DEF TypeOK
<1>5. Token(s, a)
  <2>1. /\ cellPosition[g][type] + 1 \in DOMAIN commandLog[type]
        /\ cellPosition[g][type] < cellPosition[g][type] + 1
    BY <1>3, <1>4
  <2>. QED
    BY <2>1 DEF Token, CommandToken, NextCommand
<1>6. \A u, x : CommandToken(u, x)' => CommandToken(u, x) /\ x # a
  <2>1. \A n \in Nat : \A k \in Shards : \A c \in CommandTypes :
            cellPosition'[k][c] < n =>
               /\ cellPosition[k][c] < n
               /\ c = type => n # cellPosition[g][type] + 1
    BY <1>3, <1>4 DEF OnePass
  <2>2. \A c \in CommandTypes : DOMAIN commandLog[c] \subseteq Nat
    BY <1>4
  <2>. QED
    BY <1>3, <2>1, <2>2 DEF CommandToken
<1>7. \A u, x : StartToken(u, x) \/ TaskToken(u, x) \/ ReplyToken(u, x) => x # a
  BY Kinds
<1>8. \A u \in Sagas : UNCHANGED Facts(u)
  BY <1>3, NoticesKept, FactsKept
<1>9. CASE CellReplyLost(g, type, st) \/ CellReplyDropped(g, type, st)
  <2>1. UNCHANGED replyLog
    BY <1>9 DEF CellReplyLost, CellReplyDropped
  <2>2. \A u \in Sagas : \A x : Token(u, x)' => Token(u, x)
    BY <1>3, <1>6, <2>1, TokensKept DEF Token
  <2>. QED
    BY <1>8, <2>2, LineOfRest
<1>10. CASE CellAnswers(g, type, st) \/ CellCommitFails(g, type, st)
  <2>. PICK reply \in Reply : reply = ReplyTo(cmd, st)
    BY ReplyType
  <2>. PICK topic \in ReplyTopics : topic = ReplyTopicFor(reply)
    BY ReplyType
  <2>. PICK b : b = <<"reply", topic, Len(replyLog[topic]) + 1, reply.type>>
    OBVIOUS
  <2>1. replyLog' = [replyLog EXCEPT ![topic] = Append(@, reply)]
    BY <1>10 DEF CellAnswers, CellCommitFails, CellReplies
  <2>2. reply.saga = s /\ reply.type = cmd.type
    BY DEF ReplyTo
  <2>3. \A u, x : ReplyToken(u, x)' => ReplyToken(u, x) \/ (u = s /\ x = b)
    BY <1>3, <2>1, <2>2, ReplyTokenOfProduce
  <2>4. Passes(s, a, b)
    BY <1>3, <1>6, <1>7, <2>3, TokensKept DEF Passes, Token
  <2>5. Phase(s, b)'
    <3>1. Phase(s, a)
      BY <1>5, OneToken
    <3>2. Phase(s, b)
      BY <2>2, <3>1 DEF Phase
    <3>. QED
      BY <1>8, <3>2, PhaseKept
  <2>6. Told(s)'
    BY <1>8, PhaseKept DEF Line, LineOf
  <2>7. \A x : Token(s, x) => x = a
    BY <1>5, OneToken
  <2>. QED
    BY <1>8, <2>4, <2>5, <2>6, <2>7, LineOfPass
<1>. QED
  BY <1>2, <1>9, <1>10

-----------------------------------------------------------------------------
(* Payloads and handlers.                                                    *)
LEMMA EffectKeepsPayload ==
    ASSUME NEW t \in Task
    PROVE  EffectOf(t).row.payload = t.row.payload
<1>1. t.reply.type \in CommandTypes /\ t.row \in Row
  BY DEF Task, Reply
<1>. QED
  BY <1>1 DEF EffectOf, HandleReply, CommandTypes, OnPedidoCriado, FailSaga, Row,
     OnEstoqueReply, OnNotificacaoReply, OnPedidoCancelado, OnEstoqueLiberado

LEMMA PlainOfStartSave ==
    ASSUME TypeOK, OnePass, Plain, Single, NEW h \in Hubs, NEW s \in Sagas,
           NEW p \in ClientPayloads, StartSave(h, s, p)
    PROVE  Plain' /\ Single'
<1>1. sagas' = [sagas EXCEPT ![s] = NewSaga(p)] /\ UNCHANGED task
  BY DEF StartSave, handlerVars
<1>2. p \cap Tipos = {} /\ NewSaga(p).payload = p /\ DOMAIN sagas = Sagas
  BY DEF OnePass, NewSaga, TypeOK
<1>3. \A u \in Sagas : sagas'[u].payload \cap Tipos = {}
  BY <1>1, <1>2 DEF Plain
<1>. QED
  BY <1>1, <1>3 DEF Plain, Single

LEMMA PlainOfReceive ==
    ASSUME TypeOK, Plain, Single, NEW h \in Hubs, NEW t \in ReplyTopics, Receive(h, t)
    PROVE  Plain' /\ Single'
<1>. PICK tk \in Task : tk = [topic |-> t, offset |-> position[t], reply |-> NextReply(t),
                              row |-> sagas[NextReply(t).saga]]
  BY ReceivedTask
<1>1. /\ task' = [task EXCEPT ![h] = {tk}] /\ UNCHANGED sagas
      /\ tk.row = sagas[NextReply(t).saga]
  BY ReceivedTask DEF Receive, storeVars
<1>2. NextReply(t).saga \in Sagas /\ DOMAIN task = Hubs
  BY NextReplyType DEF Receive, Reply, TypeOK
<1>3. tk.row.payload \cap Tipos = {}
  BY <1>1, <1>2 DEF Plain
<1>4. \A k \in Hubs : task'[k] = IF k = h THEN {tk} ELSE task[k]
  BY <1>1, <1>2
<1>. QED
  BY <1>1, <1>3, <1>4 DEF Plain, Single

LEMMA PlainOfSave ==
    ASSUME TypeOK, Plain, Single, NEW h \in Hubs, Save(h)
    PROVE  Plain' /\ Single'
<1>1. PICK t \in task[h] :
          sagas' = [sagas EXCEPT ![t.reply.saga] = EffectOf(t).row] /\ UNCHANGED task
  BY DEF Save
<1>2. t \in Task /\ DOMAIN sagas = Sagas
  BY <1>1 DEF TypeOK
<1>3. EffectOf(t).row.payload \cap Tipos = {}
  BY <1>1, <1>2, EffectKeepsPayload DEF Plain
<1>4. \A u \in Sagas : sagas'[u].payload \cap Tipos = {}
  BY <1>1, <1>2, <1>3 DEF Plain
<1>. QED
  BY <1>1, <1>4 DEF Plain, Single

LEMMA PlainOfRest ==
    ASSUME Plain, Single, UNCHANGED sagas, \A h \in Hubs : task'[h] \subseteq task[h]
    PROVE  Plain' /\ Single'
BY DEF Plain, Single

-----------------------------------------------------------------------------
Story == Plain /\ Single /\ Line

LEMMA StoryInit == Init => Story
<1>. SUFFICES ASSUME Init PROVE Story
  OBVIOUS
<1>1. Plain /\ Single
  BY DEF Init, Plain, Single, Absent
<1>2. \A s, x : ~Token(s, x)
  BY DEF Init, Token, StartToken, TaskToken, CommandToken, ReplyToken
<1>3. ASSUME NEW s \in Sagas
      PROVE  Told(s)
  <2>1. Contents(commandLog) = {}
    BY DEF Init, Contents
  <2>2. At(s, "ABSENT", {}, {})
    BY <2>1 DEF Init, At, Absent, Notices, Noticed
  <2>3. Fits("ABSENT", {}, {})
    BY DEF Fits, Stories
  <2>. QED
    BY <2>2, <2>3, AtIsTold
<1>. QED
  BY <1>1, <1>2, <1>3 DEF Story, Line, LineOf

(* A row is written by the handler of its saga only, which is never that of  *)
(* a saga that is over.                                                      *)
Final == \A s \in Sagas : sagas[s].status \in Terminal => sagas'[s] = sagas[s]

LEMMA StoryStep ==
    ASSUME OnePass, TypeOK, Flow, Story, HandledOnce', [Next]_vars
    PROVE  Story' /\ Final
<1>. USE DEF Story
<1>1. ASSUME NEW h \in Hubs, NEW s \in Sagas, NEW p \in ClientPayloads,
             StartSave(h, s, p)
      PROVE  Story' /\ Final
  <2>1. Line' /\ Plain' /\ Single'
    BY <1>1, LineOfStartSave, PlainOfStartSave
  <2>2. sagas[s].status \notin Terminal
    BY <1>1 DEF StartSave, Absent, Terminal
  <2>3. \A u \in Sagas : u # s => sagas'[u] = sagas[u]
    BY <1>1 DEF StartSave, TypeOK
  <2>. QED
    BY <2>1, <2>2, <2>3 DEF Final
<1>2. ASSUME NEW h \in Hubs, HubStep(h) \/ HubFault(h)
      PROVE  Story' /\ Final
  <2>1. CASE Save(h)
    <3>1. Line' /\ Final
      BY <2>1, LineOfSave DEF Final
    <3>. QED
      BY <2>1, <3>1, PlainOfSave
  <2>2. ASSUME NEW t \in ReplyTopics, Receive(h, t)
        PROVE  Story' /\ Final
    <3>1. Final
      BY <2>2 DEF Receive, storeVars, Final
    <3>. QED
      BY <2>2, <3>1, LineOfReceive, PlainOfReceive
  <2>3. ASSUME NEW t \in ReplyTopics, ReceiveFails(h, t)
        PROVE  Story' /\ Final
    <3>1. UNCHANGED <<sagas, task>>
      BY <2>3 DEF ReceiveFails, storeVars, handlerVars
    <3>. QED
      BY <2>3, <3>1, LineOfReceive, PlainOfRest DEF Final
  <2>4. ASSUME NEW s \in Sagas, StartPublish(h, s) \/ StartPublishFails(h, s)
        PROVE  Story' /\ Final
    <3>1. UNCHANGED <<sagas, task>>
      BY <2>4 DEF StartPublish, StartPublishFails, storeVars, handlerVars
    <3>. QED
      BY <2>4, <3>1, LineOfStartPublish, PlainOfRest DEF Final
  <2>5. CASE PublishEvent(h) \/ EventLost(h)
    <3>1. UNCHANGED <<sagas, task>>
      BY <2>5 DEF PublishEvent, EventLost, storeVars
    <3>. QED
      BY <2>5, <3>1, LineOfEvent, PlainOfRest DEF Final
  <2>6. CASE PublishCommand(h)
    <3>1. UNCHANGED <<sagas, task>>
      BY <2>6 DEF PublishCommand, storeVars
    <3>. QED
      BY <2>6, <3>1, LineOfPublish, PlainOfRest DEF Final
  <2>7. CASE Commit(h) \/ CommitFails(h) \/ PublishCommandFails(h) \/ CommandLost(h)
    <3>1. /\ UNCHANGED sagas
          /\ UNCHANGED task \/ task' = [task EXCEPT ![h] = {}]
      BY <2>7 DEF Commit, CommitFails, HandlerReturns, PublishCommandFails, CommandLost,
         storeVars
    <3>2. \A k \in Hubs : task'[k] \subseteq task[k]
      BY <3>1 DEF TypeOK
    <3>. QED
      BY <2>7, <3>1, <3>2, LineOfEnd, PlainOfRest DEF Final
  <2>8. ~(SaveFails(h) \/ HubCrash(h) \/ Rebalance(h))
    BY DEF HandledOnce, Disturbing, SaveFails, HubCrash, Rebalance, Fault, Happens,
       Loses
  <2>. QED
    BY <1>2, <2>1, <2>2, <2>3, <2>4, <2>5, <2>6, <2>7, <2>8 DEF HubStep, HubFault
<1>3. ASSUME NEW g \in Shards, CellStep(g) \/ CellFault(g)
      PROVE  Story' /\ Final
  <2>1. UNCHANGED <<sagas, task>>
    BY <1>3 DEF CellStep, CellFault, CellAnswers, CellCommitFails, CellReplyLost,
       CellReplyDropped, CellCommitsAnswered, CellProcess, CellCrash, storeVars,
       handlerVars
  <2>. QED
    BY <1>3, <2>1, LineOfCell, PlainOfRest DEF Final
<1>4. CASE UNCHANGED vars
  <2>1. UNCHANGED <<sagas, task, starting, commandLog, replyLog, events, position, pc,
                    cellPosition>>
    BY <1>4 DEF vars
  <2>2. \A u \in Sagas : UNCHANGED Facts(u)
    BY <2>1, NoticesKept, FactsKept
  <2>3. \A u \in Sagas : \A x : Token(u, x)' => Token(u, x)
    BY <2>1, TokensKept DEF Token
  <2>4. Line'
    BY <2>2, <2>3, LineOfRest
  <2>. QED
    BY <2>1, <2>4, PlainOfRest DEF Final
<1>. QED
  BY <1>1, <1>2, <1>3, <1>4 DEF Next

StoryOnce == TypeOK /\ Flow /\ (HandledOnce => Story)

LEMMA StoryInvariant == ASSUME OnePass PROVE Spec => []StoryOnce
<1>1. Init => StoryOnce
  BY TypeInit, FlowInit, StoryInit DEF StoryOnce
<1>2. StoryOnce /\ [Next]_vars => StoryOnce'
  <2>. SUFFICES ASSUME StoryOnce, [Next]_vars PROVE StoryOnce'
    OBVIOUS
  <2>1. TypeOK' /\ Flow'
    BY TypeStep, FlowStep DEF StoryOnce
  <2>2. HandledOnce' => HandledOnce
    BY HistoryGrows DEF Remembers, HandledOnce
  <2>. QED
    BY <2>1, <2>2, StoryStep DEF StoryOnce
<1>. QED
  BY <1>1, <1>2, PTL DEF Spec

(* What a saga's story says of its event, its notices and its row.           *)
LEMMA ToldOnce ==
    ASSUME Line, NEW s \in Sagas
    PROVE  \E x \in Stories :
              /\ sagas[s].status = x[1]
              /\ \A e \in EventTypes : Announced(s, e) => e \in x[2] /\ events[s][e] = 1
              /\ \A tipo \in Tipos : Noticed(s, tipo) => tipo \in x[3]
<1>1. PICK x \in Stories : At(s, x[1], x[2], x[3])
  BY DEF Line, LineOf, Told
<1>. QED
  BY <1>1 DEF At, Announced, Notices

(* The handlers of pedido.go tell the world one story per saga: at most one  *)
(* event, published once, and no notice that contradicts it, for any number  *)
(* of sagas and replicas and any losses, until a message may be read or      *)
(* executed twice or a save fails.                                           *)
THEOREM HubTellsOneStory == ASSUME OnePass PROVE Spec => []OneStory
<1>1. ASSUME Line, NEW s \in Sagas
      PROVE  /\ \A e, f \in EventTypes :
                   Announced(s, e) /\ Announced(s, f) => e = f /\ events[s][e] = 1
             /\ Noticed(s, "PEDIDO_CONFIRMADO") =>
                   /\ ~Noticed(s, "PEDIDO_CANCELADO")
                   /\ ~Announced(s, "PedidoCancelado")
                   /\ ~Announced(s, "PedidoFalhou")
             /\ Noticed(s, "PEDIDO_CANCELADO") => ~Announced(s, "PedidoConfirmado")
  <2>. PICK x \in Stories :
              /\ \A e \in EventTypes : Announced(s, e) => e \in x[2] /\ events[s][e] = 1
              /\ \A tipo \in Tipos : Noticed(s, tipo) => tipo \in x[3]
    BY <1>1, ToldOnce
  <2>1. /\ \A e, f \in x[2] : e = f
        /\ "PEDIDO_CONFIRMADO" \in x[3] =>
              /\ "PEDIDO_CANCELADO" \notin x[3]
              /\ "PedidoCancelado" \notin x[2] /\ "PedidoFalhou" \notin x[2]
        /\ "PEDIDO_CANCELADO" \in x[3] => "PedidoConfirmado" \notin x[2]
    BY DEF Stories
  <2>. QED
    BY <2>1 DEF Tipos, EventTypes
<1>2. StoryOnce => OneStory
  BY <1>1 DEF OneStory, StoryOnce, Story
<1>. QED
  BY <1>2, StoryInvariant, PTL

(* What PublishBusinessEvent announced of a saga is what its row says from   *)
(* then on, as the row is saved first and later replies know it, until a     *)
(* message may be handled twice or a save fails.                             *)
THEOREM HubAnnouncesRows == ASSUME OnePass PROVE Spec => []AnnouncementMatchesRow
<1>1. ASSUME Line, NEW s \in Sagas
      PROVE  /\ Announced(s, "PedidoConfirmado") => sagas[s].status = "COMPLETED"
             /\ Announced(s, "PedidoCancelado") \/ Announced(s, "PedidoFalhou") =>
                   sagas[s].status = "FAILED"
  <2>. PICK x \in Stories :
              /\ sagas[s].status = x[1]
              /\ \A e \in EventTypes : Announced(s, e) => e \in x[2]
    BY <1>1, ToldOnce
  <2>1. /\ "PedidoConfirmado" \in x[2] => x[1] = "COMPLETED"
        /\ "PedidoCancelado" \in x[2] \/ "PedidoFalhou" \in x[2] => x[1] = "FAILED"
    BY DEF Stories
  <2>. QED
    BY <2>1 DEF EventTypes
<1>2. StoryOnce => AnnouncementMatchesRow
  BY <1>1 DEF AnnouncementMatchesRow, StoryOnce, Story
<1>. QED
  BY <1>2, StoryInvariant, PTL

(* Until a message may be handled twice, a saga that is COMPLETED or FAILED  *)
(* is never written again: no reply but the cancellation notice's can still  *)
(* come, and it is recognised.                                               *)
THEOREM HubKeepsTerminal == ASSUME OnePass PROVE Spec => TerminalIsFinal
<1>1. StoryOnce /\ [Next]_vars => [HandledOnce' => Final]_vars
  <2>1. Remembers /\ HandledOnce' => HandledOnce
    BY DEF Remembers, HandledOnce
  <2>. QED
    BY <2>1, HistoryGrows, StoryStep DEF StoryOnce
<1>2. [HandledOnce' => Final]_vars <=>
          [HandledOnce' =>
             \A s \in Sagas : sagas[s].status \in Terminal => sagas'[s] = sagas[s]]_vars
  BY DEF Final
<1>. QED
  BY <1>1, <1>2, StoryInvariant, PTL DEF Spec, TerminalIsFinal

-----------------------------------------------------------------------------
(* No saga is dropped.  A message stays unread while readers only go back,   *)
(* and whoever takes one for an open saga has a row to save or a command to  *)
(* publish before it is done with it.                                        *)
(* A cell has read no further than its topic goes, and committed no further  *)
(* than it has read.                                                         *)
Reached == \A g \in Shards : \A c \in CommandTypes :
    cellCommitted[g][c] <= cellPosition[g][c] /\ cellPosition[g][c] <= Len(commandLog[c])

(* The reply in the owner's handler is among those a restart reads again,    *)
(* and until a first rebalance all handlers are the owner's.                 *)
Traced ==
    /\ \A t \in ReplyTopics :
          committed[t] <= position[t] /\ position[t] <= Len(replyLog[t])
    /\ \A k \in task[owner] : committed[k.topic] <= k.offset
    /\ "rebalance" \notin disturbed => \A h \in Hubs : task[h] # {} => h = owner

(* The handler of replica h is still to save saga s or to publish for it.    *)
Works(h, s) == \E t \in task[h] :
    /\ t.reply.saga = s
    /\ \/ pc[h] = "save"
       \/ pc[h] \in {"event", "publish"} /\ EffectOf(t).commands # {}

(* A message stays unread as long as no reader goes forward.                 *)
LEMMA UnreadCommandKept ==
    ASSUME TypeOK, TypeOK', NEW s, UnreadCommand(s),
           Grows(CommandTypes, commandLog', commandLog),
           \A g \in Shards : \A c \in CommandTypes : cellPosition'[g][c] <= cellPosition[g][c]
    PROVE  UnreadCommand(s)'
<1>1. PICK g \in Shards, c \in CommandTypes :
          \E i \in cellPosition[g][c] + 1 .. Len(commandLog[c]) : commandLog[c][i].saga = s
  BY DEF UnreadCommand
<1>2. PICK i \in cellPosition[g][c] + 1 .. Len(commandLog[c]) : commandLog[c][i].saga = s
  BY <1>1
<1>3. /\ cellPosition[g][c] \in Nat /\ cellPosition'[g][c] \in Nat
      /\ Len(commandLog[c]) \in Nat /\ Len(commandLog'[c]) \in Nat
  BY DEF TypeOK
<1>4. i \in 1 .. Len(commandLog[c]) /\ i \in cellPosition'[g][c] + 1 .. Len(commandLog'[c])
  BY <1>2, <1>3 DEF Grows
<1>5. commandLog'[c][i] = commandLog[c][i]
  BY <1>4 DEF Grows
<1>. QED
  BY <1>2, <1>4, <1>5 DEF UnreadCommand

LEMMA UnreadReplyKept ==
    ASSUME TypeOK, TypeOK', NEW s, UnreadReply(s),
           Grows(ReplyTopics, replyLog', replyLog),
           \A t \in ReplyTopics : position'[t] <= position[t]
    PROVE  UnreadReply(s)'
<1>1. PICK t \in ReplyTopics :
          \E i \in position[t] + 1 .. Len(replyLog[t]) : replyLog[t][i].saga = s
  BY DEF UnreadReply
<1>2. PICK i \in position[t] + 1 .. Len(replyLog[t]) : replyLog[t][i].saga = s
  BY <1>1
<1>3. /\ position[t] \in Nat /\ position'[t] \in Nat
      /\ Len(replyLog[t]) \in Nat /\ Len(replyLog'[t]) \in Nat
  BY DEF TypeOK
<1>4. i \in 1 .. Len(replyLog[t]) /\ i \in position'[t] + 1 .. Len(replyLog'[t])
  BY <1>2, <1>3 DEF Grows
<1>5. replyLog'[t][i] = replyLog[t][i]
  BY <1>4 DEF Grows
<1>. QED
  BY <1>2, <1>4, <1>5 DEF UnreadReply

(* A handler that saves an open row publishes a command of its saga after    *)
(* that; one that saves nothing found the row FAILED.                        *)
LEMMA OpenEffect ==
    ASSUME NEW t \in Task
    PROVE  /\ EffectOf(t).row.status \notin Terminal => EffectOf(t).commands # {}
           /\ ~EffectOf(t).saves => t.row.status = "FAILED"
           /\ \A cmd \in EffectOf(t).commands : cmd.saga = t.reply.saga
<1>. DEFINE e == EffectOf(t)
<1>1. t.reply.type \in CommandTypes /\ t.row \in Row
  BY DEF Task, Reply
<1>0. \A s, type, payload : NewCmd(s, type, payload).saga = s
  BY DEF NewCmd
<1>2. CASE t.reply.type = "criar_pedido"
  <2>1. e = OnPedidoCriado(t.reply.saga, t.row, t.reply)
    BY <1>2 DEF EffectOf, HandleReply
  <2>. QED
    BY <1>0, <1>1, <2>1 DEF OnPedidoCriado, FailSaga, Terminal, Row
<1>3. CASE t.reply.type = "reservar_estoque"
  <2>1. e = OnEstoqueReply(t.reply.saga, t.row, t.reply)
    BY <1>3 DEF EffectOf, HandleReply
  <2>. QED
    BY <1>0, <2>1 DEF OnEstoqueReply
<1>4. CASE t.reply.type = "enviar_notificacao"
  <2>1. e = OnNotificacaoReply(t.row)
    BY <1>4 DEF EffectOf, HandleReply
  <2>. QED
    BY <1>1, <2>1 DEF OnNotificacaoReply, Terminal, Row
<1>5. CASE t.reply.type = "cancelar_pedido"
  <2>1. e = OnPedidoCancelado(t.reply.saga, t.row)
    BY <1>5 DEF EffectOf, HandleReply
  <2>. QED
    BY <1>0, <2>1 DEF OnPedidoCancelado
<1>6. CASE t.reply.type = "liberar_estoque"
  <2>1. e = OnEstoqueLiberado(t.reply.saga, t.row)
    BY <1>6 DEF EffectOf, HandleReply
  <2>. QED
    BY <1>0, <2>1 DEF OnEstoqueLiberado
<1>. QED
  BY <1>1, <1>2, <1>3, <1>4, <1>5, <1>6 DEF CommandTypes

(* A replica has one reply in its handler.                                   *)
LEMMA SingleStep ==
    ASSUME TypeOK, Single, [Next]_vars
    PROVE  Single'
<1>1. task \in [Hubs -> SUBSET Task]
  BY DEF TypeOK
<1>2. ASSUME NEW h \in Hubs, NEW t \in ReplyTopics, Receive(h, t)
      PROVE  Single'
  <2>1. PICK tk : task' = [task EXCEPT ![h] = {tk}]
    BY <1>2, ReceivedTask
  <2>. QED
    BY <1>1, <2>1 DEF Single
<1>3. ASSUME NEW h \in Hubs, task' = [task EXCEPT ![h] = {}]
      PROVE  Single'
  BY <1>1, <1>3 DEF Single
<1>4. CASE UNCHANGED task
  BY <1>4 DEF Single
<1>. QED
  BY <1>2, <1>3, <1>4, TasksOfStep

(* The cells read and commit within what was produced.                       *)
LEMMA ReachedOfRest ==
    ASSUME TypeOK, TypeOK', Reached, UNCHANGED cellVars,
           Grows(CommandTypes, commandLog', commandLog)
    PROVE  Reached'
<1>1. ASSUME NEW g \in Shards, NEW c \in CommandTypes
      PROVE  /\ cellCommitted[g][c] <= cellPosition[g][c]
             /\ cellPosition[g][c] <= Len(commandLog'[c])
  <2>1. /\ cellPosition[g][c] \in Nat /\ Len(commandLog[c]) \in Nat
        /\ Len(commandLog'[c]) \in Nat
    BY DEF TypeOK
  <2>. QED
    BY <2>1 DEF Reached, Grows
<1>. QED
  BY <1>1 DEF Reached, cellVars

LEMMA ReachedOfCell ==
    ASSUME TypeOK, Reached, NEW g \in Shards, CellStep(g) \/ CellFault(g)
    PROVE  Reached'
<1>1. /\ cellPosition \in [Shards -> [CommandTypes -> Nat]]
      /\ cellCommitted \in [Shards -> [CommandTypes -> Nat]]
      /\ \A c \in CommandTypes : Len(commandLog[c]) \in Nat
  BY DEF TypeOK
<1>2. ASSUME NEW type \in CommandTypes, NEW st \in ReplyStatuses,
             \/ CellAnswers(g, type, st)
             \/ CellCommitFails(g, type, st)
             \/ CellReplyLost(g, type, st)
             \/ CellReplyDropped(g, type, st)
      PROVE  Reached'
  <2>1. /\ cellPosition[g][type] < Len(commandLog[type])
        /\ cellPosition' = [cellPosition EXCEPT ![g][type] = @ + 1]
        /\ commandLog' = commandLog
    BY <1>2 DEF CellAnswers, CellCommitFails, CellReplyLost, CellReplyDropped,
       CellCommitsAnswered, CellProcess
  <2>2. \/ cellCommitted' = cellCommitted
        \/ cellCommitted' = [cellCommitted EXCEPT ![g][type] = cellPosition[g][type] + 1]
    BY <1>2 DEF CellAnswers, CellCommitFails, CellReplyLost, CellReplyDropped,
       CellCommitsAnswered, CellCommits
  <2>3. ASSUME NEW k \in Shards, NEW c \in CommandTypes, ~(k = g /\ c = type)
        PROVE  /\ cellPosition'[k][c] = cellPosition[k][c]
               /\ cellCommitted'[k][c] = cellCommitted[k][c]
    BY <1>1, <2>1, <2>2, <2>3
  <2>4. /\ cellPosition'[g][type] = cellPosition[g][type] + 1
        /\ cellCommitted'[g][type] \in {cellCommitted[g][type], cellPosition[g][type] + 1}
    BY <1>1, <2>1, <2>2
  <2>5. /\ cellPosition[g][type] \in Nat /\ cellCommitted[g][type] \in Nat
        /\ Len(commandLog[type]) \in Nat
    BY <1>1
  <2>6. /\ cellCommitted'[g][type] <= cellPosition'[g][type]
        /\ cellPosition'[g][type] <= Len(commandLog'[type])
    <3>1. cellCommitted[g][type] <= cellPosition[g][type]
      BY DEF Reached
    <3>. QED
      BY <2>1, <2>4, <2>5, <3>1
  <2>. QED
    BY <2>1, <2>3, <2>6 DEF Reached
<1>3. ASSUME NEW pbc \in PBCs, CellCrash(g, pbc)
      PROVE  Reached'
  <2>1. /\ commandLog' = commandLog /\ cellCommitted' = cellCommitted
        /\ \A k \in Shards : \A c \in CommandTypes :
              cellPosition'[k][c] \in {cellPosition[k][c], cellCommitted[k][c]}
    BY <1>1, <1>3 DEF CellCrash
  <2>2. ASSUME NEW k \in Shards, NEW c \in CommandTypes
        PROVE  cellCommitted[k][c] <= cellPosition'[k][c]
               /\ cellPosition'[k][c] <= Len(commandLog[c])
    <3>1. /\ cellCommitted[k][c] <= cellPosition[k][c]
          /\ cellPosition[k][c] <= Len(commandLog[c])
      BY DEF Reached
    <3>2. /\ cellPosition[k][c] \in Nat /\ cellCommitted[k][c] \in Nat
          /\ Len(commandLog[c]) \in Nat
      BY <1>1
    <3>. QED
      BY <2>1, <3>1, <3>2
  <2>. QED
    BY <2>1, <2>2 DEF Reached
<1>. QED
  BY <1>2, <1>3 DEF CellStep, CellFault

(* So does the owner of the replies, and every handler's reply stays where   *)
(* it was read from.                                                         *)
LEMMA TracedOfRest ==
    ASSUME TypeOK, TypeOK', Traced, UNCHANGED <<owner, position, committed>>,
           \A h \in Hubs : task'[h] \subseteq task[h],
           Grows(ReplyTopics, replyLog', replyLog), Remembers
    PROVE  Traced'
<1>1. ASSUME NEW t \in ReplyTopics
      PROVE  committed[t] <= position[t] /\ position[t] <= Len(replyLog'[t])
  <2>1. position[t] \in Nat /\ Len(replyLog[t]) \in Nat /\ Len(replyLog'[t]) \in Nat
    BY DEF TypeOK
  <2>. QED
    BY <2>1 DEF Traced, Grows
<1>2. owner \in Hubs
  BY DEF TypeOK
<1>. QED
  BY <1>1, <1>2 DEF Traced, Remembers

LEMMA TracedOfReadFailure ==
    ASSUME TypeOK, Traced, NEW h \in Hubs, NEW t \in ReplyTopics, ReceiveFails(h, t),
           Remembers
    PROVE  Traced'
<1>1. /\ position[t] < Len(replyLog[t])
      /\ position' = [position EXCEPT ![t] = @ + 1]
      /\ UNCHANGED <<owner, committed, task, replyLog>>
  BY DEF ReceiveFails, CanRead, handlerVars
<1>2. ASSUME NEW u \in ReplyTopics
      PROVE  committed[u] <= position'[u] /\ position'[u] <= Len(replyLog[u])
  <2>1. /\ position \in [ReplyTopics -> Nat] /\ committed[u] \in Nat
        /\ Len(replyLog[u]) \in Nat
    BY DEF TypeOK
  <2>2. committed[u] <= position[u] /\ position[u] <= Len(replyLog[u])
    BY DEF Traced
  <2>. QED
    BY <1>1, <2>1, <2>2
<1>. QED
  BY <1>1, <1>2 DEF Traced, Remembers

LEMMA TracedOfReceive ==
    ASSUME TypeOK, Traced, NEW h \in Hubs, NEW t \in ReplyTopics, Receive(h, t), Remembers
    PROVE  Traced'
<1>. DEFINE tk == [topic |-> t, offset |-> position[t], reply |-> NextReply(t),
                   row |-> sagas[NextReply(t).saga]]
<1>1. /\ task' = [task EXCEPT ![h] = {tk}]
      /\ task[h] = {} /\ owner = h
      /\ position[t] < Len(replyLog[t])
      /\ position' = [position EXCEPT ![t] = @ + 1]
      /\ UNCHANGED <<owner, committed, replyLog>>
  BY ReceivedTask DEF Receive, CanRead
<1>2. /\ position \in [ReplyTopics -> Nat] /\ committed \in [ReplyTopics -> Nat]
      /\ task \in [Hubs -> SUBSET Task]
      /\ \A u \in ReplyTopics : Len(replyLog[u]) \in Nat
  BY DEF TypeOK
<1>3. tk.topic = t /\ tk.offset = position[t]
  OBVIOUS
<1>. HIDE DEF tk
<1>4. /\ task'[h] = {tk}
      /\ \A k \in Hubs : k # h => task'[k] = task[k]
  BY <1>1, <1>2
<1>5. ASSUME NEW u \in ReplyTopics
      PROVE  committed[u] <= position'[u] /\ position'[u] <= Len(replyLog[u])
  <2>1. committed[u] <= position[u] /\ position[u] <= Len(replyLog[u])
    BY DEF Traced
  <2>. QED
    BY <1>1, <1>2, <2>1
<1>6. committed[t] <= position[t]
  BY DEF Traced
<1>. QED
  BY <1>1, <1>3, <1>4, <1>5, <1>6 DEF Traced, Remembers

LEMMA TracedOfCommit ==
    ASSUME TypeOK, Delivery, Traced, NEW h \in Hubs, Commit(h) \/ CommitFails(h), Remembers
    PROVE  Traced'
<1>1. /\ task' = [task EXCEPT ![h] = {}]
      /\ UNCHANGED <<owner, position, replyLog>>
  BY DEF Commit, CommitFails, HandlerReturns
<1>2. /\ committed \in [ReplyTopics -> Nat]
      /\ position \in [ReplyTopics -> Nat]
      /\ task \in [Hubs -> SUBSET Task] /\ owner \in Hubs
  BY DEF TypeOK
<1>3. \A k \in Hubs : task'[k] \subseteq task[k]
  BY <1>1, <1>2
<1>4. CASE UNCHANGED committed
  BY <1>1, <1>2, <1>3, <1>4 DEF Traced, Remembers
<1>5. CASE ~UNCHANGED committed
  <2>1. PICK k \in task[h] :
            owner = h /\ committed' = [committed EXCEPT ![k.topic] = k.offset + 1]
    BY <1>5 DEF Commit, CommitFails
  <2>2. k.topic \in ReplyTopics /\ k.offset \in Nat /\ k.offset < position[k.topic]
    BY <1>2, <2>1 DEF Delivery, Task
  <2>3. position[k.topic] \in Nat
    BY <1>2, <2>2
  <2>4. k.offset + 1 <= position[k.topic]
    BY <2>2, <2>3
  <2>5. \A t \in ReplyTopics : committed'[t] <= position[t]
    BY <1>2, <2>1, <2>4 DEF Traced
  <2>6. task'[owner'] = {}
    BY <1>1, <1>2, <2>1
  <2>. QED
    BY <1>1, <1>3, <2>5, <2>6 DEF Traced, Remembers
<1>. QED
  BY <1>4, <1>5

LEMMA TracedOfRestart ==
    ASSUME TypeOK, Traced, NEW h \in Hubs, HubCrash(h) \/ Rebalance(h), Remembers
    PROVE  Traced'
<1>1. task \in [Hubs -> SUBSET Task] /\ owner \in Hubs
  BY DEF TypeOK
<1>2. UNCHANGED <<committed, replyLog>>
  BY DEF HubCrash, Rebalance
<1>3. \A k \in Hubs : task'[k] \subseteq task[k]
  BY <1>1 DEF HubCrash, Rebalance, handlerVars
<1>4. \A t \in ReplyTopics : position'[t] \in {position[t], committed[t]}
  BY DEF HubCrash, Rebalance, TypeOK
<1>5. \A t \in ReplyTopics : committed[t] <= position'[t] /\ position'[t] <= Len(replyLog[t])
  <2>. TAKE t \in ReplyTopics
  <2>1. committed[t] \in Nat /\ position[t] \in Nat /\ Len(replyLog[t]) \in Nat
    BY DEF TypeOK
  <2>. QED
    BY <1>4, <2>1 DEF Traced
<1>6. \A k \in task'[owner'] : committed[k.topic] <= k.offset
  <2>1. CASE owner' = owner
    BY <1>1, <1>3, <2>1 DEF Traced
  <2>2. CASE owner' # owner
    BY <1>1, <2>2 DEF HubCrash, Rebalance, handlerVars
  <2>. QED
    BY <2>1, <2>2
<1>7. "rebalance" \notin disturbed' => UNCHANGED owner
  BY DEF HubCrash, Rebalance, Fault, Happens, Disturbing
<1>. QED
  BY <1>2, <1>3, <1>5, <1>6, <1>7 DEF Traced, Remembers

(* Saga s needs nothing, or something will still move it on.                 *)
Moves(s) == UnreadCommand(s) \/ UnreadReply(s) \/ \E h \in Hubs : Works(h, s)

Open(s) == Sent(s, "criar_pedido") /\ sagas[s].status \notin Terminal

(* The property in terms of the parts that steps keep or take.               *)
Watched == ~({"crash", "rebalance"} \subseteq disturbed)

Kept == \A s \in Sagas : s \notin lost /\ Open(s) => Moves(s)

LEMMA DroppedNever == NoSagaIsDropped <=> (Watched => Kept)
BY DEF NoSagaIsDropped, Watched, Kept, Open, Moves, AtWork, Works

(* A step at which no saga comes to need anything, no reader goes on and no  *)
(* handler ends.                                                             *)
LEMMA KeepsMoving ==
    ASSUME TypeOK, TypeOK', NEW s, Moves(s),
           Grows(CommandTypes, commandLog', commandLog),
           Grows(ReplyTopics, replyLog', replyLog),
           \A g \in Shards : \A c \in CommandTypes : cellPosition'[g][c] <= cellPosition[g][c],
           \A t \in ReplyTopics : position'[t] <= position[t],
           \A h \in Hubs : Works(h, s) => Works(h, s)'
    PROVE  Moves(s)'
<1>1. CASE UnreadCommand(s)
  BY <1>1, UnreadCommandKept DEF Moves
<1>2. CASE UnreadReply(s)
  BY <1>2, UnreadReplyKept DEF Moves
<1>3. CASE \E h \in Hubs : Works(h, s)
  BY <1>3 DEF Moves
<1>. QED
  BY <1>1, <1>2, <1>3 DEF Moves

LEMMA WorkersStay ==
    ASSUME NEW s, NEW h, task'[h] = task[h], pc'[h] = pc[h], Works(h, s)
    PROVE  Works(h, s)'
BY DEF Works

(* A command that is produced has not been read by any cell.                 *)
LEMMA ProducedIsUnread ==
    ASSUME TypeOK, Reached, Shards # {}, NEW cmd \in Command, Produce(cmd),
           UNCHANGED cellPosition
    PROVE  UnreadCommand(cmd.saga)'
<1>1. PICK g \in Shards : TRUE
  OBVIOUS
<1>. DEFINE c == cmd.type
            n == Len(commandLog[c]) + 1
<1>2. c \in CommandTypes
  BY DEF Command
<1>3. Len(commandLog[c]) \in Nat /\ cellPosition[g][c] \in Nat
  BY <1>2 DEF TypeOK
<1>4. Len(commandLog'[c]) = n /\ commandLog'[c][n] = cmd
  BY CommandsGrow
<1>5. n \in cellPosition[g][c] + 1 .. Len(commandLog'[c])
  BY <1>2, <1>3, <1>4 DEF Reached
<1>. QED
  BY <1>2, <1>4, <1>5 DEF UnreadCommand

(* A saga's first command is sent when it is produced.                       *)
LEMMA SentOfProduce ==
    ASSUME TypeOK, NEW cmd \in Command, Produce(cmd), NEW s, Sent(s, "criar_pedido")'
    PROVE  Sent(s, "criar_pedido") \/ s = cmd.saga
<1>1. commandLog \in Logs(CommandTypes, Command) /\ cmd.type \in CommandTypes
  BY DEF TypeOK, Logs, Command
<1>2. Produced(commandLog', commandLog, cmd.type, cmd)
  BY DEF Produce, Produced
<1>3. Contents(commandLog') = Contents(commandLog) \cup {cmd}
  BY <1>1, <1>2, ContentsOfProduced
<1>. QED
  BY <1>3 DEF Sent

LEMMA SentStays ==
    ASSUME UNCHANGED commandLog, NEW s, Sent(s, "criar_pedido")'
    PROVE  Sent(s, "criar_pedido")
BY DEF Sent

-----------------------------------------------------------------------------
(* No saga is dropped by any action.                                         *)
LEMMA MovesOfStart ==
    ASSUME TypeOK, TypeOK', Reached, Remembers, Kept, Shards # {},
           NEW h \in Hubs, NEW u \in Sagas,
           \/ \E p \in ClientPayloads : StartSave(h, u, p)
           \/ StartPublish(h, u) \/ StartPublishFails(h, u)
    PROVE  Kept'
<1>. SUFFICES ASSUME NEW s \in Sagas, s \notin lost', Open(s)' PROVE Moves(s)'
  BY DEF Kept
<1>0. s \notin lost
  BY DEF Remembers
<1>1. UNCHANGED <<replyLog, position, cellPosition, task, pc>>
  BY DEF StartSave, StartPublish, StartPublishFails, readerVars, handlerVars, cellVars
<1>2. \A k \in Hubs : Works(k, s) => Works(k, s)'
  BY <1>1, WorkersStay
<1>3. CASE StartPublish(h, u)
  <2>. DEFINE cmd == StartCmd(u, sagas[u].payload)
  <2>1. Produce(cmd) /\ sagas' = sagas
    BY <1>3 DEF StartPublish, storeVars
  <2>2. cmd \in Command /\ cmd.saga = u
    BY StartCmdType DEF StartCmd, NewCmd
  <2>. HIDE DEF cmd
  <2>3. CASE s = u
    BY <1>1, <2>1, <2>2, <2>3, ProducedIsUnread DEF Moves
  <2>4. CASE s # u
    <3>1. Open(s)
      BY <2>1, <2>2, <2>4, SentOfProduce DEF Open
    <3>2. Grows(CommandTypes, commandLog', commandLog)
      BY <2>1, <2>2, CommandsGrow
    <3>3. Moves(s)
      BY <1>0, <3>1 DEF Kept
    <3>. QED
      BY <1>1, <1>2, <3>2, <3>3, KeepsMoving, ReadersStay
  <2>. QED
    BY <2>3, <2>4
<1>4. CASE StartPublishFails(h, u) \/ \E p \in ClientPayloads : StartSave(h, u, p)
  <2>1. UNCHANGED commandLog
    BY <1>4 DEF StartSave, StartPublishFails
  <2>2. sagas[s].status \notin Terminal
    <3>1. CASE sagas'[s] = sagas[s]
      BY <3>1 DEF Open
    <3>2. CASE sagas'[s] # sagas[s]
      <4>1. sagas[s] = Absent
        BY <1>4, <3>2 DEF StartSave, StartPublishFails, storeVars, TypeOK
      <4>. QED
        BY <4>1 DEF Absent, Terminal
    <3>. QED
      BY <3>1, <3>2
  <2>3. Open(s)
    BY <2>1, <2>2, SentStays DEF Open
  <2>4. Moves(s)
    BY <1>0, <2>3 DEF Kept
  <2>. QED
    BY <1>1, <1>2, <2>1, <2>4, KeepsMoving, ReadersStay
<1>. QED
  BY <1>3, <1>4

(* Of an open saga, a handler that was given a reply has a row to save.      *)
LEMMA MovesOfReceive ==
    ASSUME TypeOK, TypeOK', Remembers, Kept, NEW h \in Hubs, NEW t \in ReplyTopics,
           Receive(h, t)
    PROVE  Kept'
<1>. SUFFICES ASSUME NEW s \in Sagas, s \notin lost', Open(s)' PROVE Moves(s)'
  BY DEF Kept
<1>0. s \notin lost
  BY DEF Remembers
<1>. DEFINE tk == [topic |-> t, offset |-> position[t], reply |-> NextReply(t),
                   row |-> sagas[NextReply(t).saga]]
<1>1. /\ UNCHANGED <<commandLog, replyLog, cellPosition, sagas>>
      /\ position' = [position EXCEPT ![t] = @ + 1]
      /\ task[h] = {}
  BY DEF Receive, CanRead, storeVars, cellVars
<1>2. /\ tk \in Task
      /\ task' = [task EXCEPT ![h] = {tk}]
      /\ pc' = [pc EXCEPT ![h] = AfterRead(EffectOf(tk))]
  BY ReceivedTask
<1>3. tk.reply = NextReply(t) /\ tk.row = sagas[NextReply(t).saga]
  OBVIOUS
<1>. HIDE DEF tk
<1>4. /\ position \in [ReplyTopics -> Nat]
      /\ task \in [Hubs -> SUBSET Task] /\ DOMAIN pc = Hubs
      /\ \A u \in ReplyTopics : Len(replyLog[u]) \in Nat
  BY DEF TypeOK
<1>5. Open(s)
  BY <1>1, SentStays DEF Open
<1>6. Moves(s)
  BY <1>0, <1>5 DEF Kept
<1>7. CASE UnreadCommand(s)
  BY <1>1, <1>7, UnreadCommandKept, ReadersStay DEF Moves
<1>8. CASE \E k \in Hubs : Works(k, s)
  <2>1. PICK k \in Hubs : Works(k, s)
    BY <1>8
  <2>2. k # h
    BY <1>1, <2>1 DEF Works
  <2>3. task'[k] = task[k] /\ pc'[k] = pc[k]
    BY <1>2, <1>4, <2>2
  <2>. QED
    BY <2>1, <2>3, WorkersStay DEF Moves
<1>9. CASE UnreadReply(s)
  <2>1. PICK u \in ReplyTopics :
            \E i \in position[u] + 1 .. Len(replyLog[u]) : replyLog[u][i].saga = s
    BY <1>9 DEF UnreadReply
  <2>2. PICK i \in position[u] + 1 .. Len(replyLog[u]) : replyLog[u][i].saga = s
    BY <2>1
  <2>3. CASE u = t /\ i = position[t] + 1
    <3>1. NextReply(t).saga = s
      BY <2>2, <2>3 DEF NextReply
    <3>2. EffectOf(tk).saves
      <4>1. tk.row.status \notin Terminal
        BY <1>3, <1>5, <3>1 DEF Open
      <4>2. tk.row.status # "FAILED"
        BY <4>1 DEF Terminal
      <4>. QED
        BY <1>2, <4>2, OpenEffect
    <3>3. pc'[h] = "save" /\ task'[h] = {tk}
      BY <1>2, <1>4, <3>2 DEF AfterRead
    <3>. QED
      BY <1>3, <3>1, <3>3 DEF Moves, Works
  <2>4. CASE ~(u = t /\ i = position[t] + 1)
    <3>1. i \in position'[u] + 1 .. Len(replyLog'[u])
      BY <1>1, <1>4, <2>2, <2>4
    <3>. QED
      BY <1>1, <2>2, <3>1 DEF Moves, UnreadReply
  <2>. QED
    BY <2>3, <2>4
<1>. QED
  BY <1>6, <1>7, <1>8, <1>9 DEF Moves

(* A reply that is given up is not one of a saga that loses nothing.         *)
LEMMA MovesOfReadFailure ==
    ASSUME TypeOK, TypeOK', Remembers, Kept, NEW h \in Hubs, NEW t \in ReplyTopics,
           ReceiveFails(h, t)
    PROVE  Kept'
<1>. SUFFICES ASSUME NEW s \in Sagas, s \notin lost', Open(s)' PROVE Moves(s)'
  BY DEF Kept
<1>0. s \notin lost
  BY DEF Remembers
<1>1. /\ UNCHANGED <<commandLog, replyLog, cellPosition, sagas, task, pc>>
      /\ position' = [position EXCEPT ![t] = @ + 1]
      /\ NextReply(t).saga # s
  BY DEF ReceiveFails, Loses, storeVars, handlerVars, cellVars
<1>2. Moves(s)
  BY <1>0, <1>1, SentStays DEF Open, Kept
<1>3. CASE UnreadCommand(s)
  BY <1>1, <1>3, UnreadCommandKept, ReadersStay DEF Moves
<1>4. CASE \E k \in Hubs : Works(k, s)
  BY <1>1, <1>4, WorkersStay DEF Moves
<1>5. CASE UnreadReply(s)
  <2>1. PICK u \in ReplyTopics :
            \E i \in position[u] + 1 .. Len(replyLog[u]) : replyLog[u][i].saga = s
    BY <1>5 DEF UnreadReply
  <2>2. PICK i \in position[u] + 1 .. Len(replyLog[u]) : replyLog[u][i].saga = s
    BY <2>1
  <2>3. ~(u = t /\ i = position[t] + 1)
    BY <1>1, <2>2 DEF NextReply
  <2>4. position \in [ReplyTopics -> Nat] /\ Len(replyLog[u]) \in Nat
    BY DEF TypeOK
  <2>5. i \in position'[u] + 1 .. Len(replyLog'[u])
    BY <1>1, <2>2, <2>3, <2>4
  <2>. QED
    BY <1>1, <2>2, <2>5 DEF Moves, UnreadReply
<1>. QED
  BY <1>2, <1>3, <1>4, <1>5 DEF Moves

(* So is a handler that loses its row or its command.                        *)
LEMMA MovesOfLoss ==
    ASSUME TypeOK, TypeOK', Single, Remembers, Kept, NEW h \in Hubs,
           SaveFails(h) \/ PublishCommandFails(h) \/ CommandLost(h)
    PROVE  Kept'
<1>. SUFFICES ASSUME NEW s \in Sagas, s \notin lost', Open(s)' PROVE Moves(s)'
  BY DEF Kept
<1>0. s \notin lost
  BY DEF Remembers
<1>1. /\ UNCHANGED <<commandLog, replyLog, position, cellPosition, sagas>>
      /\ \A k \in Hubs : k # h => pc'[k] = pc[k] /\ task'[k] = task[k]
  BY DEF SaveFails, PublishCommandFails, CommandLost, storeVars, readerVars, cellVars,
     TypeOK
<1>2. PICK t \in task[h] : t.reply.saga # s
  BY DEF SaveFails, PublishCommandFails, CommandLost, Loses
<1>3. ~Works(h, s)
  BY <1>2 DEF Single, Works
<1>4. \A k \in Hubs : Works(k, s) => Works(k, s)'
  BY <1>1, <1>3, WorkersStay
<1>5. Moves(s)
  BY <1>0, <1>1, SentStays DEF Open, Kept
<1>. QED
  BY <1>1, <1>4, <1>5, KeepsMoving, ReadersStay

(* The steps of a handler between its read and its return.                   *)
LEMMA MovesOfHandler ==
    ASSUME TypeOK, TypeOK', Reached, Single, Remembers, Kept, Shards # {},
           NEW h \in Hubs,
           \/ Save(h) \/ PublishEvent(h) \/ EventLost(h) \/ PublishCommand(h)
    PROVE  Kept'
<1>. SUFFICES ASSUME NEW s \in Sagas, s \notin lost', Open(s)' PROVE Moves(s)'
  BY DEF Kept
<1>0. s \notin lost
  BY DEF Remembers
<1>1. /\ UNCHANGED <<replyLog, position, cellPosition, task>>
      /\ \A k \in Hubs : k # h => pc'[k] = pc[k]
  BY DEF Save, PublishEvent, EventLost, PublishCommand, readerVars, cellVars, TypeOK
<1>2. PICK t \in task[h] : TRUE
  BY DEF Save, PublishEvent, EventLost, PublishCommand
<1>3. t \in Task /\ task[h] = {t}
  BY <1>2 DEF TypeOK, Single
<1>4. \A k \in Hubs : k # h /\ Works(k, s) => Works(k, s)'
  BY <1>1, WorkersStay
<1>5. ASSUME Open(s), Grows(CommandTypes, commandLog', commandLog),
             Works(h, s) => Works(h, s)'
      PROVE  Moves(s)'
  <2>1. Moves(s)
    BY <1>0, <1>5 DEF Kept
  <2>2. \A k \in Hubs : Works(k, s) => Works(k, s)'
    BY <1>4, <1>5
  <2>. QED
    BY <1>1, <1>5, <2>1, <2>2, KeepsMoving, ReadersStay
<1>6. CASE Save(h)
  <2>1. /\ sagas' = [sagas EXCEPT ![t.reply.saga] = EffectOf(t).row]
        /\ pc' = [pc EXCEPT ![h] = AfterSave(EffectOf(t))]
        /\ UNCHANGED commandLog
    BY <1>3, <1>6 DEF Save
  <2>2. CASE s = t.reply.saga
    <3>1. EffectOf(t).row.status \notin Terminal
      BY <2>1, <2>2 DEF Open, TypeOK
    <3>2. EffectOf(t).commands # {}
      BY <1>3, <3>1, OpenEffect
    <3>3. pc'[h] \in {"event", "publish"}
      BY <2>1 DEF TypeOK, AfterSave
    <3>. QED
      BY <1>1, <1>3, <2>2, <3>2, <3>3 DEF Moves, Works
  <2>3. CASE s # t.reply.saga
    <3>1. Open(s)
      BY <2>1, <2>3, SentStays DEF Open, TypeOK
    <3>2. ~Works(h, s)
      BY <1>3, <2>3 DEF Works
    <3>. QED
      BY <1>5, <2>1, <3>1, <3>2, ReadersStay
  <2>. QED
    BY <2>2, <2>3
<1>7. CASE PublishEvent(h) \/ EventLost(h)
  <2>1. /\ pc[h] = "event"
        /\ pc' = [pc EXCEPT ![h] = AfterEvent(EffectOf(t))]
        /\ UNCHANGED <<commandLog, sagas>>
    BY <1>3, <1>7 DEF PublishEvent, EventLost, storeVars
  <2>2. Works(h, s) => Works(h, s)'
    BY <1>1, <1>3, <2>1 DEF Works, AfterEvent, TypeOK
  <2>3. Open(s)
    BY <2>1, SentStays DEF Open
  <2>. QED
    BY <1>5, <2>1, <2>2, <2>3, ReadersStay
<1>8. CASE PublishCommand(h)
  <2>1. PICK cmd \in EffectOf(t).commands : Produce(cmd)
    BY <1>3, <1>8 DEF PublishCommand
  <2>2. cmd \in Command /\ cmd.saga = t.reply.saga
    BY <1>3, <2>1, OpenEffect, EffectType DEF Effect
  <2>3. UNCHANGED sagas
    BY <1>8 DEF PublishCommand, storeVars
  <2>4. CASE s = cmd.saga
    BY <1>1, <2>1, <2>2, <2>4, ProducedIsUnread DEF Moves
  <2>5. CASE s # cmd.saga
    <3>1. Open(s)
      BY <2>1, <2>2, <2>3, <2>5, SentOfProduce DEF Open
    <3>2. ~Works(h, s)
      BY <1>3, <2>2, <2>5 DEF Works
    <3>3. Grows(CommandTypes, commandLog', commandLog)
      BY <2>1, <2>2, CommandsGrow
    <3>. QED
      BY <1>5, <3>1, <3>2, <3>3
  <2>. QED
    BY <2>4, <2>5
<1>. QED
  BY <1>6, <1>7, <1>8

(* A handler that returns had nothing left to do.                            *)
LEMMA MovesOfCommit ==
    ASSUME TypeOK, TypeOK', Remembers, Kept, NEW h \in Hubs, Commit(h) \/ CommitFails(h)
    PROVE  Kept'
<1>. SUFFICES ASSUME NEW s \in Sagas, s \notin lost', Open(s)' PROVE Moves(s)'
  BY DEF Kept
<1>0. s \notin lost
  BY DEF Remembers
<1>1. /\ pc[h] = "commit"
      /\ UNCHANGED <<commandLog, replyLog, position, cellPosition, sagas>>
      /\ \A k \in Hubs : k # h => pc'[k] = pc[k] /\ task'[k] = task[k]
  BY DEF Commit, CommitFails, HandlerReturns, storeVars, cellVars, TypeOK
<1>2. ~Works(h, s)
  BY <1>1 DEF Works
<1>3. \A k \in Hubs : Works(k, s) => Works(k, s)'
  BY <1>1, <1>2, WorkersStay
<1>4. Moves(s)
  BY <1>0, <1>1, SentStays DEF Open, Kept
<1>. QED
  BY <1>1, <1>3, <1>4, KeepsMoving, ReadersStay

(* A restart reads the reply of an interrupted handler again.                *)
LEMMA MovesOfRestart ==
    ASSUME TypeOK, TypeOK', Located, Traced, Remembers, Watched', Kept, NEW h \in Hubs,
           HubCrash(h) \/ Rebalance(h)
    PROVE  Kept'
<1>. SUFFICES ASSUME NEW s \in Sagas, s \notin lost', Open(s)' PROVE Moves(s)'
  BY DEF Kept
<1>0. s \notin lost
  BY DEF Remembers
<1>1. UNCHANGED <<commandLog, replyLog, cellPosition, sagas, committed>>
  BY DEF HubCrash, Rebalance, storeVars, cellVars
<1>2. \A t \in ReplyTopics : position'[t] <= position[t]
  <2>. TAKE t \in ReplyTopics
  <2>1. position[t] \in Nat /\ committed[t] <= position[t]
    BY DEF TypeOK, Traced
  <2>2. position'[t] \in {position[t], committed[t]}
    BY DEF HubCrash, Rebalance
  <2>. QED
    BY <2>1, <2>2
<1>3. Moves(s)
  BY <1>0, <1>1, SentStays DEF Open, Kept
<1>4. CASE \A k \in Hubs : Works(k, s) => Works(k, s)'
  BY <1>1, <1>2, <1>3, <1>4, KeepsMoving, ReadersStay
<1>5. CASE \E k \in Hubs : Works(k, s) /\ ~Works(k, s)'
  <2>1. Works(h, s) /\ HubCrash(h)
    <3>1. PICK k \in Hubs : Works(k, s) /\ ~Works(k, s)'
      BY <1>5
    <3>2. ~(task'[k] = task[k] /\ pc'[k] = pc[k])
      BY <3>1, WorkersStay
    <3>3. HubCrash(h) /\ k = h
      BY <3>2 DEF HubCrash, Rebalance, handlerVars, TypeOK
    <3>. QED
      BY <3>1, <3>3
  <2>2. PICK t \in task[h] : t.reply.saga = s
    BY <2>1 DEF Works
  <2>3. owner = h
    <3>1. "crash" \in disturbed'
      BY <2>1 DEF HubCrash, Fault, Happens, Disturbing
    <3>2. "rebalance" \notin disturbed
      BY <3>1 DEF Watched, Remembers
    <3>. QED
      BY <2>2, <3>2 DEF Traced
  <2>4. position' = committed
    BY <2>1, <2>3 DEF HubCrash
  <2>5. /\ t.topic \in ReplyTopics /\ t.offset \in Nat
        /\ committed[t.topic] <= t.offset
        /\ t.offset < Len(replyLog[t.topic])
        /\ replyLog[t.topic][t.offset + 1] = t.reply
    BY <2>2, <2>3 DEF Traced, Located, TypeOK, Task
  <2>6. committed[t.topic] \in Nat /\ Len(replyLog[t.topic]) \in Nat
    BY <2>5 DEF TypeOK
  <2>7. t.offset + 1 \in position'[t.topic] + 1 .. Len(replyLog'[t.topic])
    BY <1>1, <2>4, <2>5, <2>6
  <2>. QED
    BY <1>1, <2>2, <2>5, <2>7 DEF Moves, UnreadReply
<1>. QED
  BY <1>4, <1>5

(* A cell that dies reads commands again; one that answers leaves a reply.   *)
LEMMA MovesOfCell ==
    ASSUME TypeOK, TypeOK', Reached, Traced, Remembers, Kept,
           NEW g \in Shards, CellStep(g) \/ CellFault(g)
    PROVE  Kept'
<1>. SUFFICES ASSUME NEW s \in Sagas, s \notin lost', Open(s)' PROVE Moves(s)'
  BY DEF Kept
<1>0. s \notin lost
  BY DEF Remembers
<1>1. UNCHANGED <<commandLog, position, sagas, task, pc>>
  BY DEF CellStep, CellFault, CellAnswers, CellCommitFails, CellReplyLost,
     CellReplyDropped, CellCommitsAnswered, CellProcess, CellCrash, storeVars,
     readerVars, handlerVars
<1>2. \A k \in Hubs : Works(k, s) => Works(k, s)'
  BY <1>1, WorkersStay
<1>3. Moves(s)
  BY <1>0, <1>1, SentStays DEF Open, Kept
<1>4. ASSUME NEW pbc \in PBCs, CellCrash(g, pbc)
      PROVE  Moves(s)'
  <2>1. UNCHANGED replyLog
    BY <1>4 DEF CellCrash
  <2>2. \A k \in Shards : \A c \in CommandTypes : cellPosition'[k][c] <= cellPosition[k][c]
    <3>. SUFFICES ASSUME NEW k \in Shards, NEW c \in CommandTypes
                  PROVE  cellPosition'[k][c] <= cellPosition[k][c]
      OBVIOUS
    <3>1. cellPosition'[k][c] \in {cellPosition[k][c], cellCommitted[k][c]}
      BY <1>4 DEF CellCrash, TypeOK
    <3>2. cellPosition[k][c] \in Nat /\ cellCommitted[k][c] <= cellPosition[k][c]
      BY DEF TypeOK, Reached
    <3>. QED
      BY <3>1, <3>2
  <2>. QED
    BY <1>1, <1>2, <1>3, <2>1, <2>2, KeepsMoving, ReadersStay
<1>5. ASSUME NEW type \in CommandTypes, NEW st \in ReplyStatuses,
             \/ CellAnswers(g, type, st)
             \/ CellCommitFails(g, type, st)
             \/ CellReplyLost(g, type, st)
             \/ CellReplyDropped(g, type, st)
      PROVE  Moves(s)'
  <2>. DEFINE cmd == NextCommand(g, type)
              reply == ReplyTo(cmd, st)
              topic == ReplyTopicFor(reply)
  <2>1. /\ CellProcess(g, type, st)
        /\ \/ CellReplies(g, type, st)
           \/ UNCHANGED replyLog /\ cmd.saga # s
    <3>1. CASE CellAnswers(g, type, st) \/ CellCommitFails(g, type, st)
      BY <3>1 DEF CellAnswers, CellCommitFails
    <3>2. CASE CellReplyLost(g, type, st) \/ CellReplyDropped(g, type, st)
      <4>1. lost' = lost \cup {cmd.saga}
        BY <3>2 DEF CellReplyLost, CellReplyDropped, Loses
      <4>2. cmd.saga # s
        BY <4>1
      <4>. QED
        BY <3>2, <4>2 DEF CellReplyLost, CellReplyDropped
    <3>. QED
      BY <1>5, <3>1, <3>2
  <2>2. ASSUME CellReplies(g, type, st)
        PROVE  /\ reply \in Reply /\ topic \in ReplyTopics
               /\ reply.saga = cmd.saga
               /\ Grows(ReplyTopics, replyLog', replyLog)
               /\ Len(replyLog'[topic]) = Len(replyLog[topic]) + 1
               /\ replyLog'[topic][Len(replyLog[topic]) + 1] = reply
    <3>1. CellProcess(g, type, st)
      BY <2>1
    <3>. QED
      BY <3>1, <2>2, CellsAnswer
  <2>0. Grows(ReplyTopics, replyLog', replyLog)
    BY <2>1, <2>2, ReadersStay
  <2>3. /\ cellPosition' = [cellPosition EXCEPT ![g][type] = @ + 1]
        /\ cellPosition \in [Shards -> [CommandTypes -> Nat]]
    BY <2>1 DEF CellProcess, TypeOK
  <2>. HIDE DEF topic, reply
  <2>4. CASE cmd.saga = s
    <3>0. CellReplies(g, type, st)
      BY <2>1, <2>4
    <3>1. Len(replyLog[topic]) \in Nat /\ position[topic] \in Nat
          /\ position[topic] <= Len(replyLog[topic])
      BY <2>2, <3>0 DEF TypeOK, Traced
    <3>2. Len(replyLog[topic]) + 1 \in position'[topic] + 1 .. Len(replyLog'[topic])
      BY <1>1, <2>2, <3>0, <3>1
    <3>. QED
      BY <2>2, <2>4, <3>0, <3>2 DEF Moves, UnreadReply
  <2>5. CASE cmd.saga # s
    <3>1. CASE UnreadReply(s)
      BY <1>1, <2>0, <3>1, UnreadReplyKept, ReadersStay DEF Moves
    <3>2. CASE \E k \in Hubs : Works(k, s)
      BY <1>2, <3>2 DEF Moves
    <3>3. CASE UnreadCommand(s)
      <4>1. PICK k \in Shards, c \in CommandTypes :
                \E i \in cellPosition[k][c] + 1 .. Len(commandLog[c]) :
                    commandLog[c][i].saga = s
        BY <3>3 DEF UnreadCommand
      <4>2. PICK i \in cellPosition[k][c] + 1 .. Len(commandLog[c]) :
                commandLog[c][i].saga = s
        BY <4>1
      <4>3. Len(commandLog[c]) \in Nat /\ cellPosition[k][c] \in Nat
        BY DEF TypeOK
      <4>4. ~(k = g /\ c = type /\ i = cellPosition[g][type] + 1)
        BY <2>5, <4>2 DEF NextCommand
      <4>5. i \in cellPosition'[k][c] + 1 .. Len(commandLog'[c])
        <5>1. CASE k = g /\ c = type
          <6>1. cellPosition'[k][c] = cellPosition[k][c] + 1
            BY <2>3, <5>1
          <6>. QED
            BY <1>1, <4>2, <4>3, <4>4, <5>1, <6>1
        <5>2. CASE ~(k = g /\ c = type)
          <6>1. cellPosition'[k][c] = cellPosition[k][c]
            BY <2>3, <5>2
          <6>. QED
            BY <1>1, <4>2, <6>1
        <5>. QED
          BY <5>1, <5>2
      <4>. QED
        BY <1>1, <4>2, <4>5 DEF Moves, UnreadCommand
    <3>. QED
      BY <1>3, <3>1, <3>2, <3>3 DEF Moves
  <2>. QED
    BY <2>4, <2>5
<1>. QED
  BY <1>4, <1>5 DEF CellStep, CellFault

(* The inductive invariant.                                                  *)
Going == TypeOK /\ Located /\ Delivery /\ Single /\ Reached /\ Traced /\ NoSagaIsDropped

LEMMA GoingInit == Init => Going
<1>. SUFFICES ASSUME Init PROVE Going
  OBVIOUS
<1>1. TypeOK /\ Delivery
  BY TypeInit, DeliveryInit
<1>2. Located /\ Single
  BY DEF Init, Located, Single
<1>3. Reached /\ Traced
  BY DEF Init, Reached, Traced
<1>4. \A s \in Sagas : ~Sent(s, "criar_pedido")
  <2>1. \A c \in DOMAIN commandLog : DOMAIN commandLog[c] = {}
    BY DEF Init
  <2>2. Contents(commandLog) = {}
    BY <2>1 DEF Contents
  <2>. QED
    BY <2>2 DEF Sent
<1>. QED
  BY <1>1, <1>2, <1>3, <1>4 DEF Going, NoSagaIsDropped

(* What is unread and the offsets of the readers are kept track of by every  *)
(* step.                                                                     *)
LEMMA TraceStep ==
    ASSUME TypeOK, TypeOK', Delivery, Reached, Traced, [Next]_vars
    PROVE  Reached' /\ Traced'
<1>0. /\ Grows(CommandTypes, commandLog', commandLog)
      /\ Grows(ReplyTopics, replyLog', replyLog) /\ Remembers
  BY LogsGrow, HistoryGrows
<1>1. ASSUME UNCHANGED <<cellVars, owner, position, committed>>,
             \A h \in Hubs : task'[h] \subseteq task[h]
      PROVE  Reached' /\ Traced'
  BY <1>0, <1>1, ReachedOfRest, TracedOfRest
<1>2. ASSUME NEW h \in Hubs, HubStep(h) \/ HubFault(h)
      PROVE  Reached' /\ Traced'
  <2>1. ASSUME NEW t \in ReplyTopics, Receive(h, t) \/ ReceiveFails(h, t)
        PROVE  Reached' /\ Traced'
    <3>1. UNCHANGED cellVars
      BY <2>1 DEF Receive, ReceiveFails
    <3>. QED
      BY <1>0, <2>1, <3>1, TracedOfReceive, TracedOfReadFailure, ReachedOfRest
  <2>2. CASE Commit(h) \/ CommitFails(h)
    <3>1. UNCHANGED cellVars
      BY <2>2 DEF Commit, CommitFails, HandlerReturns
    <3>. QED
      BY <1>0, <2>2, <3>1, TracedOfCommit, ReachedOfRest
  <2>3. CASE HubCrash(h) \/ Rebalance(h)
    <3>1. UNCHANGED cellVars
      BY <2>3 DEF HubCrash, Rebalance
    <3>. QED
      BY <1>0, <2>3, <3>1, TracedOfRestart, ReachedOfRest
  <2>4. CASE \/ \E s \in Sagas : StartPublish(h, s) \/ StartPublishFails(h, s)
             \/ Save(h) \/ SaveFails(h) \/ PublishEvent(h) \/ EventLost(h)
             \/ PublishCommand(h) \/ PublishCommandFails(h) \/ CommandLost(h)
    <3>1. UNCHANGED <<cellVars, owner, position, committed>>
      BY <2>4 DEF StartPublish, StartPublishFails, Save, SaveFails, PublishEvent,
         EventLost, PublishCommand, PublishCommandFails, CommandLost, readerVars
    <3>2. UNCHANGED task \/ task' = [task EXCEPT ![h] = {}]
      BY <2>4 DEF StartPublish, StartPublishFails, Save, SaveFails, PublishEvent,
         EventLost, PublishCommand, PublishCommandFails, CommandLost, handlerVars
    <3>3. \A k \in Hubs : task'[k] \subseteq task[k]
      BY <3>2 DEF TypeOK
    <3>. QED
      BY <1>1, <3>1, <3>3
  <2>. QED
    BY <1>2, <2>1, <2>2, <2>3, <2>4 DEF HubStep, HubFault
<1>3. ASSUME NEW g \in Shards, CellStep(g) \/ CellFault(g)
      PROVE  Reached' /\ Traced'
  <2>1. UNCHANGED <<owner, position, committed, task>>
    BY <1>3 DEF CellStep, CellFault, CellAnswers, CellCommitFails, CellReplyLost,
       CellReplyDropped, CellProcess, CellCrash, readerVars, handlerVars
  <2>. QED
    BY <1>0, <1>3, <2>1, ReachedOfCell, TracedOfRest
<1>4. ASSUME NEW h \in Hubs, NEW s \in Sagas, NEW p \in ClientPayloads,
             StartSave(h, s, p)
      PROVE  Reached' /\ Traced'
  <2>1. UNCHANGED <<cellVars, owner, position, committed, task>>
    BY <1>4 DEF StartSave, readerVars, handlerVars
  <2>. QED
    BY <1>1, <2>1
<1>5. CASE UNCHANGED vars
  <2>1. UNCHANGED <<cellVars, owner, position, committed, task>>
    BY <1>5 DEF vars, cellVars
  <2>. QED
    BY <1>1, <2>1
<1>. QED
  BY <1>2, <1>3, <1>4, <1>5 DEF Next

LEMMA KeptStep ==
    ASSUME Shards # {}, Going, TypeOK', Watched', Kept, [Next]_vars
    PROVE  Kept'
<1>. USE DEF Going
<1>0. Remembers
  BY HistoryGrows
<1>1. ASSUME NEW h \in Hubs, HubStep(h) \/ HubFault(h)
      PROVE  Kept'
  <2>1. CASE \E s \in Sagas : StartPublish(h, s) \/ StartPublishFails(h, s)
    BY <1>0, <2>1, MovesOfStart
  <2>2. CASE \E t \in ReplyTopics : Receive(h, t)
    BY <1>0, <2>2, MovesOfReceive
  <2>3. CASE \E t \in ReplyTopics : ReceiveFails(h, t)
    BY <1>0, <2>3, MovesOfReadFailure
  <2>4. CASE Save(h) \/ PublishEvent(h) \/ EventLost(h) \/ PublishCommand(h)
    BY <1>0, <2>4, MovesOfHandler
  <2>5. CASE SaveFails(h) \/ PublishCommandFails(h) \/ CommandLost(h)
    BY <1>0, <2>5, MovesOfLoss
  <2>6. CASE Commit(h) \/ CommitFails(h)
    BY <1>0, <2>6, MovesOfCommit
  <2>7. CASE HubCrash(h) \/ Rebalance(h)
    BY <1>0, <2>7, MovesOfRestart
  <2>. QED
    BY <1>1, <2>1, <2>2, <2>3, <2>4, <2>5, <2>6, <2>7 DEF HubStep, HubFault
<1>2. ASSUME NEW h \in Hubs, NEW s \in Sagas, NEW p \in ClientPayloads,
             StartSave(h, s, p)
      PROVE  Kept'
  BY <1>0, <1>2, MovesOfStart
<1>3. ASSUME NEW g \in Shards, CellStep(g) \/ CellFault(g)
      PROVE  Kept'
  BY <1>0, <1>3, MovesOfCell
<1>4. CASE UNCHANGED vars
  BY <1>4 DEF vars, Kept, Open, Moves, Works, Sent, UnreadCommand, UnreadReply
<1>. QED
  BY <1>1, <1>2, <1>3, <1>4 DEF Next

LEMMA GoingStep ==
    ASSUME Shards # {}, Going, [Next]_vars
    PROVE  Going'
<1>. USE DEF Going
<1>1. TypeOK'
  BY TypeStep
<1>2. Located' /\ Delivery'
  BY <1>1, LocatedStep, DeliveryStep
<1>3. Single'
  BY SingleStep
<1>4. Reached' /\ Traced'
  BY <1>1, TraceStep
<1>5. Watched' => Watched
  BY HistoryGrows DEF Watched, Remembers
<1>6. Watched' => Kept'
  BY <1>1, <1>5, KeptStep, DroppedNever
<1>7. NoSagaIsDropped'
  BY <1>6 DEF NoSagaIsDropped, Watched, Kept, Open, Moves, AtWork, Works
<1>. QED
  BY <1>1, <1>2, <1>3, <1>4, <1>7

(* In every deployment with a shard and under every fault, a saga of which   *)
(* nothing is lost is not dropped before it is COMPLETED or FAILED: not by   *)
(* crashes and failed commits of any number of replicas and cells, nor by    *)
(* replicas that go on handling replies of partitions they have lost, with   *)
(* old rows in their hands.  After both a crash and a rebalance the hub may  *)
(* forget one: a replica that has lost its partitions saves its old row over *)
(* that of a finished saga and dies before it publishes.                     *)
THEOREM HubDropsNoSaga ==
    ASSUME Shards # {} PROVE Spec => []NoSagaIsDropped
<1>1. Going /\ [Next]_vars => Going'
  BY GoingStep
<1>2. Going => NoSagaIsDropped
  BY DEF Going
<1>. QED
  BY <1>1, <1>2, GoingInit, PTL DEF Spec
==============================================================================
