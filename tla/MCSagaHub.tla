------------------------------- MODULE MCSagaHub -------------------------------
(* Values for the runs of SagaHub.                                            *)
EXTENDS SagaHub, TLC

(* Orders with items: one without them is refused by cell-pedidos, an outcome *)
(* that the failure of criar_pedido already stands for.                       *)
MCPayloads == {{"itens"}}

AllCommands == CommandTypes
StockOnly == {"reservar_estoque"}
OrdersAndStock == {"criar_pedido", "reservar_estoque"}

NoFaults == {}
OnlySave == {"save"}

(* Safety runs only: replicas and shards are interchangeable.                 *)
Replicas == Permutations(Hubs)
ShardSymmetry == Permutations(Shards)
==============================================================================
