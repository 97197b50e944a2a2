----------------------------- MODULE MCShardRouter -----------------------------
(* Values for the run of ShardRouter: one shard with both cells of a PBC and  *)
(* a cell of another, and a second shard.                                     *)
EXTENDS ShardRouter, TLC

CONSTANTS c1, c2

MCCells == {<<"s1", "pedidos", "active">>, <<"s1", "pedidos", "passive">>,
            <<"s2", "pedidos", "active">>, <<"s1", "estoque", "active">>}
MCClients == {c1, c2}
MCRoute == c1 :> "s1" @@ c2 :> "s2"
================================================================================
