--------------------------- MODULE SagaProtocolProofs ---------------------------
(***************************************************************************)
(* Proofs about SagaProtocol, for any sets of sagas, replicas and client   *)
(* payloads.                                                               *)
(*                                                                         *)
(* The four safety invariants are not inductive: they say nothing of the   *)
(* rows held by running handlers nor of why a reply exists.  IInv adds     *)
(* both.  Everything in IInv asks for replies that were given, and replies *)
(* are never taken back, so a step that adds a reply keeps all of it, and  *)
(* what remains is that a handler's effect is founded on the reply it is   *)
(* handling (EffectIsFounded).                                             *)
(***************************************************************************)
EXTENDS SagaProtocol, TLAPS

RowFounded(s, row) ==
    /\ row.status = "FAILED" => Compensated(s) \/ Replied(s, "criar_pedido", "failure")
    /\ row.status = "COMPLETED" =>
          /\ Replied(s, "criar_pedido", "success")
          /\ Answered(s, "enviar_notificacao")
          /\ Replied(s, "reservar_estoque", "success") \/ Compensated(s)

CommandFounded(cmd) ==
    /\ cmd.type = "reservar_estoque" => Replied(cmd.saga, "criar_pedido", "success")
    /\ cmd.type = "enviar_notificacao" =>
          /\ Replied(cmd.saga, "criar_pedido", "success")
          /\ Replied(cmd.saga, "reservar_estoque", "success") \/ Compensated(cmd.saga)
    /\ cmd.type = "cancelar_pedido" =>
          /\ Replied(cmd.saga, "criar_pedido", "success")
          /\ Replied(cmd.saga, "reservar_estoque", "failure")
    /\ cmd.type = "liberar_estoque" =>
          /\ Replied(cmd.saga, "criar_pedido", "success")
          /\ Replied(cmd.saga, "reservar_estoque", "failure")
          /\ Answered(cmd.saga, "cancelar_pedido")

ReplyFounded(reply) ==
    \E cmd \in commands :
        /\ cmd.saga = reply.saga
        /\ cmd.type = reply.type
        /\ reply.status \in Answers(cmd)

EventFounded(e) ==
    /\ e.type = "PedidoConfirmado" =>
          /\ Replied(e.saga, "criar_pedido", "success")
          /\ Answered(e.saga, "enviar_notificacao")
          /\ Replied(e.saga, "reservar_estoque", "success") \/ Compensated(e.saga)
    /\ e.type = "PedidoCancelado" => Compensated(e.saga)
    /\ e.type = "PedidoFalhou" => Replied(e.saga, "criar_pedido", "failure")

IInv ==
    /\ TypeOK
    /\ \A s \in Sagas : RowFounded(s, sagas[s])
    /\ \A h \in Hubs : \A t \in handling[h] :
          t.reply \in replies /\ RowFounded(t.reply.saga, t.row)
    /\ \A cmd \in commands : CommandFounded(cmd)
    /\ \A reply \in replies : ReplyFounded(reply)
    /\ \A e \in events : EventFounded(e)

EffectOf(t) == HandleReply(t.row, t.reply)

-----------------------------------------------------------------------------
(* A handler given a row and a reply of the right type yields an Effect.     *)
LEMMA EffectType ==
    ASSUME NEW row \in Row, NEW reply \in Reply
    PROVE  HandleReply(row, reply) \in Effect
<1>. DEFINE E == HandleReply(row, reply)
<1>0. /\ reply.saga \in Sagas
      /\ row \in Row
      /\ row.payload \in SUBSET PayloadKeys
      /\ {"cliente_id", "PEDIDO_CONFIRMADO", "payload"} \in SUBSET PayloadKeys
      /\ {"cliente_id", "PEDIDO_CANCELADO"} \in SUBSET PayloadKeys
      /\ {"motivo"} \in SUBSET PayloadKeys
  BY DEF Row, Reply, PayloadKeys
<1>1. CASE reply.type = "criar_pedido"
  <2>1. E = OnPedidoCriado(reply.saga, row, reply)
    BY <1>1 DEF HandleReply
  <2>. QED
    BY <1>0, <2>1 DEF OnPedidoCriado, FailSaga, Effect, Row, Command, CommandTypes,
       Statuses, Steps, EventTypes, NewCmd
<1>2. CASE reply.type = "reservar_estoque"
  <2>1. E = OnEstoqueReply(reply.saga, row, reply)
    BY <1>2 DEF HandleReply
  <2>2. CASE reply.status = "failure"
    <3>1. [row EXCEPT !.status = "COMPENSATING", !.step = "COMPENSAR_PEDIDO"] \in Row
      BY <1>0 DEF Row, Statuses, Steps
    <3>2. {NewCmd(reply.saga, "cancelar_pedido", {"motivo"})} \in SUBSET Command
      BY <1>0 DEF Command, CommandTypes, NewCmd
    <3>. QED
      BY <2>1, <2>2, <3>1, <3>2 DEF OnEstoqueReply, Effect, EventTypes
  <2>3. CASE reply.status # "failure"
    <3>1. [row EXCEPT !.step = "ENVIAR_NOTIFICACAO"] \in Row
      BY <1>0 DEF Row, Steps
    <3>2. {NewCmd(reply.saga, "enviar_notificacao",
              {"cliente_id", "PEDIDO_CONFIRMADO", "payload"})} \in SUBSET Command
      BY <1>0 DEF Command, CommandTypes, NewCmd
    <3>. QED
      BY <2>1, <2>3, <3>1, <3>2 DEF OnEstoqueReply, Effect, EventTypes
  <2>. QED
    BY <2>2, <2>3
<1>3. CASE reply.type = "enviar_notificacao"
  <2>1. E = OnNotificacaoReply(row)
    BY <1>3 DEF HandleReply
  <2>. QED
    BY <1>0, <2>1 DEF OnNotificacaoReply, Effect, Row, Statuses, EventTypes
<1>4. CASE reply.type = "cancelar_pedido"
  <2>1. E = OnPedidoCancelado(reply.saga, row)
    BY <1>4 DEF HandleReply
  <2>. QED
    BY <1>0, <2>1 DEF OnPedidoCancelado, Effect, Row, Command, CommandTypes,
       Steps, EventTypes, NewCmd
<1>5. CASE reply.type = "liberar_estoque"
  <2>1. E = OnEstoqueLiberado(reply.saga, row)
    BY <1>5 DEF HandleReply
  <2>. QED
    BY <1>0, <2>1 DEF OnEstoqueLiberado, Effect, Row, Command, CommandTypes,
       Statuses, EventTypes, NewCmd
<1>. QED
  BY <1>1, <1>2, <1>3, <1>4, <1>5 DEF Reply, CommandTypes

(* Whatever a handler does with a reply is founded on that reply, provided   *)
(* the row it read was: the reply was given, and the command it answers was  *)
(* itself founded on earlier replies.                                        *)
LEMMA EffectIsFounded ==
    ASSUME IInv, NEW h \in Hubs, NEW t \in handling[h]
    PROVE  /\ EffectOf(t) \in Effect
           /\ t.reply.saga \in Sagas
           /\ RowFounded(t.reply.saga, EffectOf(t).row)
           /\ \A cmd \in EffectOf(t).commands : CommandFounded(cmd)
           /\ \A e \in [saga : {t.reply.saga}, type : EffectOf(t).events] :
                 EventFounded(e)
<1>. DEFINE s == t.reply.saga
            E == EffectOf(t)
<1>1. /\ t.reply \in Reply
      /\ t.row \in Row
      /\ t.reply \in replies
      /\ RowFounded(s, t.row)
  BY DEF IInv, TypeOK, Handling
<1>2. E \in Effect
  BY <1>1, EffectType DEF EffectOf
<1>3. /\ s \in Sagas
      /\ t.reply.type \in CommandTypes
      /\ t.reply.status \in ReplyStatuses
      /\ Replied(s, t.reply.type, t.reply.status)
      /\ Answered(s, t.reply.type)
  BY <1>1 DEF Reply, Replied, Answered
<1>4. PICK cmd \in commands : /\ cmd.saga = s
                              /\ cmd.type = t.reply.type
                              /\ CommandFounded(cmd)
  BY <1>1 DEF IInv, ReplyFounded
<1>5. CASE t.reply.type = "criar_pedido"
  <2>1. E = OnPedidoCriado(s, t.row, t.reply)
    BY <1>5 DEF EffectOf, HandleReply
  <2>2. CASE t.reply.status = "failure"
    <3>1. /\ E.row = [t.row EXCEPT !.status = "FAILED"]
          /\ E.commands = {} /\ E.events = {"PedidoFalhou"}
      BY <2>1, <2>2 DEF OnPedidoCriado, FailSaga
    <3>2. Replied(s, "criar_pedido", "failure") /\ E.row.status = "FAILED"
      BY <1>1, <1>3, <1>5, <2>2, <3>1 DEF Row
    <3>. QED
      BY <1>2, <1>3, <3>1, <3>2 DEF RowFounded, EventFounded
  <2>3. CASE t.reply.status = "success"
    <3>1. /\ E.row = [t.row EXCEPT !.step = "RESERVAR_ESTOQUE"]
          /\ E.events = {}
          /\ E.commands = {NewCmd(s, "reservar_estoque", t.row.payload)}
      BY <2>1, <2>3 DEF OnPedidoCriado
    <3>2. Replied(s, "criar_pedido", "success") /\ E.row.status = t.row.status
      BY <1>1, <1>3, <1>5, <2>3, <3>1 DEF Row
    <3>. QED
      BY <1>1, <1>2, <1>3, <3>1, <3>2 DEF RowFounded, CommandFounded, NewCmd
  <2>. QED
    BY <1>3, <2>2, <2>3 DEF ReplyStatuses
<1>6. CASE t.reply.type = "reservar_estoque"
  <2>1. E = OnEstoqueReply(s, t.row, t.reply)
    BY <1>6 DEF EffectOf, HandleReply
  <2>2. Replied(s, "criar_pedido", "success")
    BY <1>4, <1>6 DEF CommandFounded
  <2>3. CASE t.reply.status = "failure"
    <3>1. /\ E.row = [t.row EXCEPT !.status = "COMPENSATING",
                                   !.step = "COMPENSAR_PEDIDO"]
          /\ E.events = {}
          /\ E.commands = {NewCmd(s, "cancelar_pedido", {"motivo"})}
      BY <2>1, <2>3 DEF OnEstoqueReply
    <3>2. Replied(s, "reservar_estoque", "failure") /\ E.row.status = "COMPENSATING"
      BY <1>1, <1>3, <1>6, <2>3, <3>1 DEF Row
    <3>. QED
      BY <1>2, <1>3, <2>2, <3>1, <3>2 DEF RowFounded, CommandFounded, NewCmd
  <2>4. CASE t.reply.status = "success"
    <3>1. /\ E.row = [t.row EXCEPT !.step = "ENVIAR_NOTIFICACAO"]
          /\ E.events = {}
          /\ E.commands = {NewCmd(s, "enviar_notificacao",
                              {"cliente_id", "PEDIDO_CONFIRMADO", "payload"})}
      BY <2>1, <2>4 DEF OnEstoqueReply
    <3>2. Replied(s, "reservar_estoque", "success") /\ E.row.status = t.row.status
      BY <1>1, <1>3, <1>6, <2>4, <3>1 DEF Row
    <3>. QED
      BY <1>1, <1>2, <1>3, <2>2, <3>1, <3>2 DEF RowFounded, CommandFounded, NewCmd
  <2>. QED
    BY <1>3, <2>3, <2>4 DEF ReplyStatuses
<1>7. CASE t.reply.type = "enviar_notificacao"
  <2>1. E = OnNotificacaoReply(t.row)
    BY <1>7 DEF EffectOf, HandleReply
  <2>2. /\ Replied(s, "criar_pedido", "success")
        /\ Replied(s, "reservar_estoque", "success") \/ Compensated(s)
        /\ Answered(s, "enviar_notificacao")
    BY <1>3, <1>4, <1>7 DEF CommandFounded
  <2>3. CASE t.row.status = "FAILED"
    BY <1>1, <1>2, <1>3, <2>1, <2>3 DEF OnNotificacaoReply
  <2>4. CASE t.row.status # "FAILED"
    <3>1. /\ E.row = [t.row EXCEPT !.status = "COMPLETED"]
          /\ E.events = {"PedidoConfirmado"}
          /\ E.commands = {}
          /\ E.row.status = "COMPLETED"
      BY <1>1, <2>1, <2>4 DEF OnNotificacaoReply, Row
    <3>. QED
      BY <1>2, <1>3, <2>2, <3>1 DEF RowFounded, EventFounded
  <2>. QED
    BY <2>3, <2>4
<1>8. CASE t.reply.type = "cancelar_pedido"
  <2>1. E = OnPedidoCancelado(s, t.row)
    BY <1>8 DEF EffectOf, HandleReply
  <2>2. /\ Replied(s, "criar_pedido", "success")
        /\ Replied(s, "reservar_estoque", "failure")
        /\ Answered(s, "cancelar_pedido")
    BY <1>3, <1>4, <1>8 DEF CommandFounded
  <2>3. /\ E.row.status = t.row.status
        /\ E.events = {}
        /\ E.commands = {NewCmd(s, "liberar_estoque", t.row.payload)}
    BY <1>1, <2>1 DEF OnPedidoCancelado, Row
  <2>. QED
    BY <1>1, <1>2, <1>3, <2>2, <2>3 DEF RowFounded, CommandFounded, NewCmd
<1>9. CASE t.reply.type = "liberar_estoque"
  <2>1. E = OnEstoqueLiberado(s, t.row)
    BY <1>9 DEF EffectOf, HandleReply
  <2>2. Compensated(s)
    BY <1>3, <1>4, <1>9 DEF CommandFounded, Compensated
  <2>3. /\ E.row.status = "FAILED"
        /\ E.events = {"PedidoCancelado"}
        /\ E.commands = {NewCmd(s, "enviar_notificacao",
                            {"cliente_id", "PEDIDO_CANCELADO"})}
    BY <1>1, <2>1 DEF OnEstoqueLiberado, Row
  <2>. QED
    BY <1>2, <1>3, <2>2, <2>3
    DEF RowFounded, CommandFounded, EventFounded, Compensated, NewCmd
<1>. QED
  BY <1>3, <1>5, <1>6, <1>7, <1>8, <1>9 DEF CommandTypes

-----------------------------------------------------------------------------
(* Nothing has been published and no row exists: IInv holds initially.       *)
LEMMA InitIInv == Init => IInv
<1>. SUFFICES ASSUME Init PROVE IInv
  OBVIOUS
<1>1. Absent \in Row /\ Absent.status = "ABSENT"
  BY DEF Absent, Row, Statuses, Steps, PayloadKeys
<1>2. TypeOK
  BY <1>1 DEF Init, TypeOK
<1>3. \A s \in Sagas : RowFounded(s, sagas[s])
  BY <1>1 DEF Init, RowFounded
<1>. QED
  BY <1>2, <1>3 DEF Init, IInv

(* A step that takes no reply back keeps whatever is founded on replies.     *)
LEMMA FoundedIsStable ==
    ASSUME replies \subseteq replies'
    PROVE  /\ \A s, row : RowFounded(s, row) => RowFounded(s, row)'
           /\ \A cmd : CommandFounded(cmd) => CommandFounded(cmd)'
           /\ \A e : EventFounded(e) => EventFounded(e)'
<1>1. \A s, type, st : Replied(s, type, st) => Replied(s, type, st)'
  BY DEF Replied
<1>2. \A s, type : Answered(s, type) => Answered(s, type)'
  BY <1>1 DEF Answered
<1>3. \A s : Compensated(s) => Compensated(s)'
  BY <1>1, <1>2 DEF Compensated
<1>4. \A s, row : RowFounded(s, row) => RowFounded(s, row)'
  BY <1>1, <1>2, <1>3 DEF RowFounded
<1>5. \A cmd : CommandFounded(cmd) => CommandFounded(cmd)'
  BY <1>1, <1>2, <1>3 DEF CommandFounded
<1>6. \A e : EventFounded(e) => EventFounded(e)'
  BY <1>1, <1>2, <1>3 DEF EventFounded
<1>. QED
  BY <1>4, <1>5, <1>6

(* Every step of the protocol keeps IInv: what StartSave, Save and the two   *)
(* publish steps write is founded on replies already given.                  *)
LEMMA NextIInv == IInv /\ [Next]_vars => IInv'
<1>. SUFFICES ASSUME IInv, [Next]_vars PROVE IInv'
  OBVIOUS
<1>. USE PayloadsAssumption
<1>. TypeOK
  BY DEF IInv
<1>1. ASSUME NEW s \in Sagas, NEW p \in ClientPayloads, StartSave(s, p)
      PROVE  IInv'
  <2>1. NewSaga(p) \in Row /\ NewSaga(p).status = "STARTED"
    BY DEF NewSaga, Row, Statuses, Steps
  <2>2. TypeOK'
    BY <1>1, <2>1 DEF TypeOK, StartSave
  <2>3. \A x \in Sagas : RowFounded(x, sagas[x])'
    BY <1>1, <2>1, FoundedIsStable DEF IInv, TypeOK, StartSave, RowFounded
  <2>. QED
    BY <1>1, <2>2, <2>3, FoundedIsStable DEF IInv, StartSave, ReplyFounded
<1>2. ASSUME NEW s \in Sagas, StartPublish(s)
      PROVE  IInv'
  <2>. DEFINE cmd == StartCmd(s, sagas[s].payload)
  <2>1. cmd \in Command /\ cmd.type = "criar_pedido"
    BY DEF StartCmd, NewCmd, Command, CommandTypes, TypeOK, Row, PayloadKeys
  <2>2. CommandFounded(cmd)
    BY <2>1 DEF CommandFounded
  <2>3. TypeOK'
    BY <1>2, <2>1 DEF TypeOK, StartPublish
  <2>4. \A c \in commands' : CommandFounded(c)'
    BY <1>2, <2>2, FoundedIsStable DEF IInv, StartPublish
  <2>. QED
    BY <1>2, <2>3, <2>4, FoundedIsStable DEF IInv, StartPublish, ReplyFounded
<1>3. ASSUME NEW cmd \in commands, NEW st \in ReplyStatuses, Answer(cmd, st)
      PROVE  IInv'
  <2>1. ReplyTo(cmd, st) \in Reply
    BY DEF ReplyTo, Reply, TypeOK, Command
  <2>2. TypeOK'
    BY <1>3, <2>1 DEF TypeOK, Answer
  <2>3. replies \subseteq replies'
    BY <1>3 DEF Answer
  <2>4. ReplyFounded(ReplyTo(cmd, st))
    BY <1>3 DEF Answer, ReplyFounded, ReplyTo
  <2>5. \A reply \in replies' : ReplyFounded(reply)'
    BY <1>3, <2>4 DEF IInv, Answer, ReplyFounded
  <2>. QED
    BY <1>3, <2>2, <2>3, <2>5, FoundedIsStable DEF IInv, Answer
<1>4. ASSUME NEW h \in Hubs, NEW reply \in replies, Find(h, reply)
      PROVE  IInv'
  <2>. DEFINE t == [reply |-> reply, row |-> sagas[reply.saga]]
  <2>1. t \in Handling /\ RowFounded(t.reply.saga, t.row)
    BY DEF IInv, TypeOK, Handling, Reply
  <2>2. TypeOK'
    BY <1>4, <2>1 DEF TypeOK, Find
  <2>3. \A g \in Hubs : \A u \in handling'[g] :
           u.reply \in replies' /\ RowFounded(u.reply.saga, u.row)'
    BY <1>4, <2>1, FoundedIsStable DEF IInv, TypeOK, Find
  <2>. QED
    BY <1>4, <2>2, <2>3, FoundedIsStable DEF IInv, Find, ReplyFounded
<1>5. ASSUME NEW h \in Hubs, Save(h)
      PROVE  IInv'
  <2>1. PICK t \in handling[h] :
           sagas' = [sagas EXCEPT ![t.reply.saga] = EffectOf(t).row]
    BY <1>5 DEF Save, EffectOf
  <2>2. EffectOf(t).row \in Row /\ RowFounded(t.reply.saga, EffectOf(t).row)
    BY EffectIsFounded DEF Effect
  <2>3. TypeOK'
    BY <1>5, <2>1, <2>2 DEF TypeOK, Save
  <2>4. \A s \in Sagas : RowFounded(s, sagas[s])'
    <3>. SUFFICES ASSUME NEW s \in Sagas PROVE RowFounded(s, sagas'[s])
      BY <1>5, FoundedIsStable DEF Save
    <3>. QED
      BY <2>1, <2>2 DEF IInv, TypeOK
  <2>. QED
    BY <1>5, <2>3, <2>4, FoundedIsStable DEF IInv, Save, ReplyFounded
<1>6. ASSUME NEW h \in Hubs, PublishEvent(h)
      PROVE  IInv'
  <2>1. PICK t \in handling[h] :
           events' = events \cup [saga : {t.reply.saga}, type : EffectOf(t).events]
    BY <1>6 DEF PublishEvent, EffectOf
  <2>2. [saga : {t.reply.saga}, type : EffectOf(t).events] \subseteq Event
    BY EffectIsFounded DEF Effect, Event
  <2>3. \A e \in [saga : {t.reply.saga}, type : EffectOf(t).events] : EventFounded(e)
    BY EffectIsFounded
  <2>4. TypeOK'
    BY <1>6, <2>1, <2>2 DEF TypeOK, PublishEvent
  <2>5. \A e \in events' : EventFounded(e)'
    BY <1>6, <2>1, <2>3, FoundedIsStable DEF IInv, PublishEvent
  <2>. QED
    BY <1>6, <2>4, <2>5, FoundedIsStable DEF IInv, PublishEvent, ReplyFounded
<1>7. ASSUME NEW h \in Hubs, PublishCommand(h)
      PROVE  IInv'
  <2>1. PICK t \in handling[h] : commands' = commands \cup EffectOf(t).commands
    BY <1>7 DEF PublishCommand, EffectOf
  <2>2. EffectOf(t).commands \subseteq Command
    BY EffectIsFounded DEF Effect
  <2>3. \A cmd \in EffectOf(t).commands : CommandFounded(cmd)
    BY EffectIsFounded
  <2>4. TypeOK'
    BY <1>7, <2>1, <2>2 DEF TypeOK, PublishCommand
  <2>5. \A cmd \in commands' : CommandFounded(cmd)'
    BY <1>7, <2>1, <2>3, FoundedIsStable DEF IInv, PublishCommand
  <2>6. \A reply \in replies' : ReplyFounded(reply)'
    BY <1>7, <2>1 DEF IInv, PublishCommand, ReplyFounded
  <2>. QED
    BY <1>7, <2>4, <2>5, <2>6, FoundedIsStable DEF IInv, PublishCommand
<1>8. ASSUME NEW h \in Hubs, Leave(h)
      PROVE  IInv'
  <2>1. TypeOK'
    BY <1>8 DEF TypeOK, Leave
  <2>2. \A g \in Hubs : \A u \in handling'[g] :
           u.reply \in replies' /\ RowFounded(u.reply.saga, u.row)'
    BY <1>8, FoundedIsStable DEF IInv, TypeOK, Leave
  <2>. QED
    BY <1>8, <2>1, <2>2, FoundedIsStable DEF IInv, Leave, ReplyFounded
<1>9. ASSUME UNCHANGED vars
      PROVE  IInv'
  BY <1>9, FoundedIsStable DEF IInv, TypeOK, vars, ReplyFounded
<1>. QED
  BY <1>1, <1>2, <1>3, <1>4, <1>5, <1>6, <1>7, <1>8, <1>9 DEF Next

-----------------------------------------------------------------------------
(* IInv is an invariant of the protocol; the theorems below are parts of it. *)
LEMMA IInvHolds == Spec => []IInv
BY InitIInv, NextIInv, PTL DEF Spec

(* Rows, commands, replies and events only ever take the values the code     *)
(* declares for them.                                                        *)
THEOREM TypeCorrect == Spec => []TypeOK
<1>1. IInv => TypeOK
  BY DEF IInv
<1>. QED
  BY <1>1, IInvHolds, PTL

(* No crash, stale read, repeated or reordered reply makes pedido.go close a *)
(* saga as FAILED half way through its compensation.                         *)
THEOREM FailureFounded == Spec => []FailureIsFounded
<1>1. IInv => FailureIsFounded
  BY DEF IInv, FailureIsFounded, RowFounded, EventFounded
<1>. QED
  BY <1>1, IInvHolds, PTL

(* A saga is COMPLETED and confirmed only after its order was created and    *)
(* its stock reserved, or its compensation run.                              *)
THEOREM ConfirmationFounded == Spec => []ConfirmationIsFounded
<1>1. IInv => ConfirmationIsFounded
  BY DEF IInv, ConfirmationIsFounded, RowFounded, EventFounded
<1>. QED
  BY <1>1, IInvHolds, PTL

(* Each command is published only in the situation that calls for it.        *)
THEOREM CommandsFounded == Spec => []CommandsAreFounded
<1>1. IInv => CommandsAreFounded
  BY DEF IInv, CommandsAreFounded, CommandFounded, Published
<1>. QED
  BY <1>1, IInvHolds, PTL
==============================================================================
