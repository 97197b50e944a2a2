--------------------------- MODULE MCCommandConsumer ---------------------------
(* Values for the run of CommandConsumer.                                     *)
EXTENDS CommandConsumer, TLC

MCPBCs == {"pedidos", "notificacoes"}
================================================================================
