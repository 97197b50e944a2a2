------------------------------ MODULE SagaProtocol ------------------------------
(***************************************************************************)
(* What the saga protocol promises whatever the deployment does: any       *)
(* number of saga-hub replicas, of shards whose cells consume a command,   *)
(* of crashes, rebalances, lost and repeated messages.                     *)
(*                                                                         *)
(* Messages are the sets of everything ever published, so a message can be *)
(* handled late, out of order, never, or again.  A handler of pedido.go    *)
(* first reads the row of the saga and then saves, publishes an event and  *)
(* publishes a command; each of the three may be skipped (the code logs    *)
(* the error and goes on, or the process dies), and other replicas may run *)
(* between any two of them.  SagaHub, with Kafka's logs and offsets, is    *)
(* shown to implement this specification.                                  *)
(***************************************************************************)
EXTENDS SagaHandlers

CONSTANT Hubs         \* the replicas of saga-hub

VARIABLES
    sagas,        \* the table sagas
    commands,     \* every command ever published
    replies,      \* every reply ever published
    events,       \* every business event ever published
    handling      \* per replica, the reply in its handler and the row read for it

vars == <<sagas, commands, replies, events, handling>>

Handling == [reply : Reply, row : Row]
Event == [saga : Sagas, type : EventTypes]

TypeOK ==
    /\ sagas \in [Sagas -> Row]
    /\ commands \subseteq Command
    /\ replies \subseteq Reply
    /\ events \subseteq Event
    /\ handling \in [Hubs -> SUBSET Handling]

Init ==
    /\ sagas = [s \in Sagas |-> Absent]
    /\ commands = {}
    /\ replies = {}
    /\ events = {}
    /\ handling = [h \in Hubs |-> {}]

-----------------------------------------------------------------------------
(* Start, first half: the row is inserted.                                   *)
StartSave(s, payload) ==
    /\ sagas[s] = Absent
    /\ sagas' = [sagas EXCEPT ![s] = NewSaga(payload)]
    /\ UNCHANGED <<commands, replies, events, handling>>

(* Start, second half: the saga's payload never changes after the insert, so *)
(* the row still holds the one Start was called with.                        *)
StartPublish(s) ==
    /\ sagas[s] # Absent
    /\ commands' = commands \cup {StartCmd(s, sagas[s].payload)}
    /\ UNCHANGED <<sagas, replies, events, handling>>

(* A cell answers a command; several cells may, and each more than once.     *)
Answer(cmd, st) ==
    /\ st \in Answers(cmd)
    /\ replies' = replies \cup {ReplyTo(cmd, st)}
    /\ UNCHANGED <<sagas, commands, events, handling>>

(* A replica takes a reply and reads the saga's row.                         *)
Find(h, reply) ==
    /\ handling[h] = {}
    /\ sagas[reply.saga] # Absent
    /\ handling' = [handling EXCEPT
                       ![h] = {[reply |-> reply, row |-> sagas[reply.saga]]}]
    /\ UNCHANGED <<sagas, commands, replies, events>>

Save(h) ==
    \E t \in handling[h] :
        /\ HandleReply(t.row, t.reply).saves
        /\ sagas' = [sagas EXCEPT ![t.reply.saga] = HandleReply(t.row, t.reply).row]
        /\ UNCHANGED <<commands, replies, events, handling>>

PublishEvent(h) ==
    \E t \in handling[h] :
        /\ events' = events \cup [saga : {t.reply.saga},
                                  type : HandleReply(t.row, t.reply).events]
        /\ UNCHANGED <<sagas, commands, replies, handling>>

PublishCommand(h) ==
    \E t \in handling[h] :
        /\ commands' = commands \cup HandleReply(t.row, t.reply).commands
        /\ UNCHANGED <<sagas, replies, events, handling>>

(* The handler returns, or the replica dies in it.                           *)
Leave(h) ==
    /\ handling' = [handling EXCEPT ![h] = {}]
    /\ UNCHANGED <<sagas, commands, replies, events>>

Next ==
    \/ \E s \in Sagas : \E p \in ClientPayloads : StartSave(s, p)
    \/ \E s \in Sagas : StartPublish(s)
    \/ \E cmd \in commands : \E st \in ReplyStatuses : Answer(cmd, st)
    \/ \E h \in Hubs :
          \/ \E reply \in replies : Find(h, reply)
          \/ Save(h)
          \/ PublishEvent(h)
          \/ PublishCommand(h)
          \/ Leave(h)

Spec == Init /\ [][Next]_vars

-----------------------------------------------------------------------------
Replied(s, type, st) == [saga |-> s, type |-> type, status |-> st] \in replies

Answered(s, type) == \E st \in ReplyStatuses : Replied(s, type, st)

Published(s, type) == \E cmd \in commands : cmd.saga = s /\ cmd.type = type

(* The whole compensation took place: the order was created, some cell       *)
(* refused the reservation, and both undo steps were answered.               *)
Compensated(s) ==
    /\ Replied(s, "criar_pedido", "success")
    /\ Replied(s, "reservar_estoque", "failure")
    /\ Answered(s, "cancelar_pedido")
    /\ Answered(s, "liberar_estoque")

(* A saga is FAILED, and its clients are told PedidoFalhou or                *)
(* PedidoCancelado, only if its order was refused or every compensation step *)
(* was taken and answered: no crash, stale read, repeated or reordered reply *)
(* makes pedido.go close a saga half way through its compensation.           *)
FailureIsFounded ==
    \A s \in Sagas :
        /\ sagas[s].status = "FAILED" =>
              Compensated(s) \/ Replied(s, "criar_pedido", "failure")
        /\ [saga |-> s, type |-> "PedidoCancelado"] \in events => Compensated(s)
        /\ [saga |-> s, type |-> "PedidoFalhou"] \in events =>
              Replied(s, "criar_pedido", "failure")

(* A saga is COMPLETED, and PedidoConfirmado published, only after its order *)
(* was created and either some cell reserved the stock or the compensation   *)
(* ran: the notification whose reply completes the saga has no other source. *)
(* The second disjunct cannot be dropped, see CompensatedStaysFailed in      *)
(* SagaHub.                                                                  *)
ConfirmationIsFounded ==
    \A s \in Sagas :
        sagas[s].status = "COMPLETED"
           \/ [saga |-> s, type |-> "PedidoConfirmado"] \in events =>
        /\ Replied(s, "criar_pedido", "success")
        /\ Answered(s, "enviar_notificacao")
        /\ Replied(s, "reservar_estoque", "success") \/ Compensated(s)

(* Stock is reserved, an order cancelled and stock released only for a saga  *)
(* in the situation that calls for it: the reply that triggers each command  *)
(* was given, and so were all replies before it.                             *)
CommandsAreFounded ==
    \A s \in Sagas :
        /\ Published(s, "reservar_estoque") => Replied(s, "criar_pedido", "success")
        /\ Published(s, "cancelar_pedido") =>
              /\ Replied(s, "criar_pedido", "success")
              /\ Replied(s, "reservar_estoque", "failure")
        /\ Published(s, "liberar_estoque") =>
              /\ Replied(s, "criar_pedido", "success")
              /\ Replied(s, "reservar_estoque", "failure")
              /\ Answered(s, "cancelar_pedido")
==============================================================================
