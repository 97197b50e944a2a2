----------------------------- MODULE MCPedidosStore -----------------------------
(* Values for the run of PedidosStore.                                       *)
EXTENDS PedidosStore, TLC

MCOrders == 1 .. 2
MCCliente == <<"ana", "rui">>
MCCancellable == {2}
================================================================================
