------------------------------ MODULE EstoqueOrders ------------------------------
(* The products of cell-estoque and the orders that ask for them.              *)
EXTENDS Integers, Sequences, SequencesExt

CONSTANTS
    Sagas,          \* the sagas, each with one order
    Itens,          \* per saga, its items in the order of the payload
    InitialStock    \* per product of the table, its seeded quantity

Item == [produto : STRING, quantidade : Nat \ {0}]

(* NewPedido refuses orders without items and quantities that are not        *)
(* positive, so that none reaches cell-estoque.                              *)
ASSUME OrdersAssumption ==
    /\ DOMAIN InitialStock \subseteq STRING
    /\ InitialStock \in [DOMAIN InitialStock -> Nat]
    /\ Itens \in [Sagas -> Seq(Item)]
    /\ \A s \in Sagas : Itens[s] # <<>>

Produtos == DOMAIN InitialStock

(* How much of product p the order of saga s asks for, over all its items.   *)
Demand(s, p) ==
    FoldLeft(LAMBDA sum, item : IF item.produto = p THEN sum + item.quantidade ELSE sum,
             0, Itens[s])
==============================================================================
