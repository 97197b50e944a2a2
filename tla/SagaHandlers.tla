------------------------------ MODULE SagaHandlers ------------------------------
(***************************************************************************)
(* What saga-hub decides for one reply: the pure part of                   *)
(* saga-hub/orchestrator/pedido.go.  A handler is given the row of the     *)
(* saga as FindByCorrelationID read it and the reply, and yields an        *)
(* Effect: the row it saves, the business event and the command it         *)
(* publishes.  The modules that extend this one say when and how often     *)
(* handlers run and which parts of an Effect take place.                   *)
(*                                                                         *)
(* Data is abstracted to what the handlers and the cells look at.  A saga  *)
(* stands for both its id and its correlation id.  A payload is the set of *)
(* its keys; the two values of the key "tipo" are written as keys.  Ids,   *)
(* timestamps, the shard label (no cell reads it) and error texts are left *)
(* out.                                                                    *)
(***************************************************************************)

CONSTANTS
    Sagas,            \* the sagas clients may start
    ClientPayloads    \* the payloads POST /saga/pedido may carry

PayloadKeys == {"itens", "cliente_id", "pedido_id", "motivo", "payload",
                "PEDIDO_CONFIRMADO", "PEDIDO_CANCELADO"}

ASSUME PayloadsAssumption == ClientPayloads \subseteq SUBSET PayloadKeys

-----------------------------------------------------------------------------
(* Rows of the table sagas.  ABSENT is the row that was never inserted.      *)

Statuses == {"ABSENT", "STARTED", "COMPLETED", "COMPENSATING", "FAILED"}
Terminal == {"COMPLETED", "FAILED"}

Steps == {"CRIAR_PEDIDO", "RESERVAR_ESTOQUE", "ENVIAR_NOTIFICACAO",
          "COMPENSAR_PEDIDO", "LIBERAR_ESTOQUE"}

Row == [status : Statuses, step : Steps, payload : SUBSET PayloadKeys]

Absent == [status |-> "ABSENT", step |-> "CRIAR_PEDIDO", payload |-> {}]

(* mutant: the row is inserted before its status is set                      *)
NewSagaUnset(payload) ==
    [status |-> "", step |-> "CRIAR_PEDIDO", payload |-> payload]

NewSaga(payload) ==
    [status |-> "STARTED", step |-> "CRIAR_PEDIDO", payload |-> payload]

-----------------------------------------------------------------------------
(* Messages *)

CommandTypes == {"criar_pedido", "reservar_estoque", "enviar_notificacao",
                 "cancelar_pedido", "liberar_estoque"}

Command == [saga : Sagas, type : CommandTypes, payload : SUBSET PayloadKeys]

ReplyStatuses == {"success", "failure"}

Reply == [saga : Sagas, type : CommandTypes, status : ReplyStatuses]

EventTypes == {"PedidoConfirmado", "PedidoCancelado", "PedidoFalhou"}

NewCmd(s, type, payload) == [saga |-> s, type |-> type, payload |-> payload]

(* The command Start publishes: the client's payload plus cliente_id.        *)
StartCmd(s, payload) == NewCmd(s, "criar_pedido", payload \cup {"cliente_id"})

-----------------------------------------------------------------------------
(* Effects.  "events" and "commands" hold at most one element.  "returnsErr" *)
(* says that an error of PublishCommand is returned, so that the consumer    *)
(* loop skips the commit, and not merely logged.                             *)

Effect == [saves : BOOLEAN, row : Row, events : SUBSET EventTypes,
           commands : SUBSET Command, returnsErr : BOOLEAN]

FailSaga(row) ==
    [saves |-> TRUE, row |-> [row EXCEPT !.status = "FAILED"],
     events |-> {"PedidoFalhou"}, commands |-> {}, returnsErr |-> FALSE]

(* mutant: reserves stock whatever became of the order                       *)
OnPedidoCriadoAnyway(s, row, reply) ==
    [saves |-> TRUE, row |-> [row EXCEPT !.step = "RESERVAR_ESTOQUE"],
     events |-> {}, returnsErr |-> TRUE,
     commands |-> {NewCmd(s, "reservar_estoque", row.payload)}]

OnPedidoCriado(s, row, reply) ==
    IF reply.status = "failure"
    THEN FailSaga(row)
    ELSE [saves |-> TRUE, row |-> [row EXCEPT !.step = "RESERVAR_ESTOQUE"],
          events |-> {}, returnsErr |-> TRUE,
          commands |-> {NewCmd(s, "reservar_estoque", row.payload)}]

(* mutant: the failure branch is gone                                        *)
OnEstoqueReplyAnyway(s, row, reply) ==
    [saves |-> TRUE, row |-> [row EXCEPT !.step = "ENVIAR_NOTIFICACAO"],
     events |-> {}, returnsErr |-> TRUE,
     commands |-> {NewCmd(s, "enviar_notificacao",
                      {"cliente_id", "PEDIDO_CONFIRMADO", "payload"})}]

OnEstoqueReply(s, row, reply) ==
    IF reply.status = "failure"
    THEN [saves |-> TRUE, events |-> {}, returnsErr |-> TRUE,
          row |-> [row EXCEPT !.status = "COMPENSATING",
                              !.step = "COMPENSAR_PEDIDO"],
          commands |-> {NewCmd(s, "cancelar_pedido", {"motivo"})}]
    ELSE [saves |-> TRUE, row |-> [row EXCEPT !.step = "ENVIAR_NOTIFICACAO"],
          events |-> {}, returnsErr |-> TRUE,
          commands |-> {NewCmd(s, "enviar_notificacao",
                           {"cliente_id", "PEDIDO_CONFIRMADO", "payload"})}]

(* mutant: "don't override the FAILED status" is forgotten                   *)
OnNotificacaoReplyAlways(row) ==
    [saves |-> TRUE, row |-> [row EXCEPT !.status = "COMPLETED"],
     events |-> {"PedidoConfirmado"}, commands |-> {}, returnsErr |-> FALSE]

(* The reply's own status is never read.                                     *)
OnNotificacaoReply(row) ==
    IF row.status = "FAILED"
    THEN [saves |-> FALSE, row |-> row, events |-> {}, commands |-> {},
          returnsErr |-> FALSE]
    ELSE [saves |-> TRUE, row |-> [row EXCEPT !.status = "COMPLETED"],
          events |-> {"PedidoConfirmado"}, commands |-> {},
          returnsErr |-> FALSE]

(* mutant: closes the saga before the stock is released                      *)
OnPedidoCanceladoCloses(s, row) ==
    [saves |-> TRUE, events |-> {}, returnsErr |-> TRUE,
     row |-> [row EXCEPT !.status = "FAILED", !.step = "LIBERAR_ESTOQUE"],
     commands |-> {NewCmd(s, "liberar_estoque", row.payload)}]

(* mutant: the compensation ends with the order                              *)
OnPedidoCanceladoEnds(s, row) ==
    [saves |-> TRUE, row |-> [row EXCEPT !.status = "FAILED"],
     events |-> {"PedidoCancelado"}, commands |-> {}, returnsErr |-> FALSE]

OnPedidoCancelado(s, row) ==
    [saves |-> TRUE, row |-> [row EXCEPT !.step = "LIBERAR_ESTOQUE"],
     events |-> {}, returnsErr |-> TRUE,
     commands |-> {NewCmd(s, "liberar_estoque", row.payload)}]

(* mutant: the row is left COMPENSATING                                      *)
OnEstoqueLiberadoUnsaved(s, row) ==
    [saves |-> TRUE, row |-> row,
     events |-> {"PedidoCancelado"}, returnsErr |-> FALSE,
     commands |-> {NewCmd(s, "enviar_notificacao",
                      {"cliente_id", "PEDIDO_CANCELADO"})}]

OnEstoqueLiberado(s, row) ==
    [saves |-> TRUE, row |-> [row EXCEPT !.status = "FAILED"],
     events |-> {"PedidoCancelado"}, returnsErr |-> FALSE,
     commands |-> {NewCmd(s, "enviar_notificacao",
                      {"cliente_id", "PEDIDO_CANCELADO"})}]

HandleReply(row, reply) ==
    CASE reply.type = "criar_pedido" -> OnPedidoCriado(reply.saga, row, reply)
      [] reply.type = "reservar_estoque" -> OnEstoqueReply(reply.saga, row, reply)
      [] reply.type = "enviar_notificacao" -> OnNotificacaoReply(row)
      [] reply.type = "cancelar_pedido" -> OnPedidoCancelado(reply.saga, row)
      [] reply.type = "liberar_estoque" -> OnEstoqueLiberado(reply.saga, row)

-----------------------------------------------------------------------------
(* What the cells can answer.  A command whose payload lacks a key the cell  *)
(* requires can only be answered with a failure; any other may succeed, or   *)
(* fail for the cell's own reasons (no stock, a database error).             *)

RequiredKeys(type) ==
    CASE type = "criar_pedido" -> {"cliente_id", "itens"}
      [] type = "cancelar_pedido" -> {"pedido_id"}
      [] type \in {"reservar_estoque", "liberar_estoque"} -> {"itens"}
      [] type = "enviar_notificacao" -> {}

Answers(cmd) ==
    {st \in ReplyStatuses :
        st = "success" => RequiredKeys(cmd.type) \subseteq cmd.payload}

ReplyTo(cmd, st) == [saga |-> cmd.saga, type |-> cmd.type, status |-> st]
==============================================================================
