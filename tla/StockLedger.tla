------------------------------ MODULE StockLedger ------------------------------
(***************************************************************************)
(* What cell-estoque promises about the stock: every order is reserved or  *)
(* released whole, at one moment, and is reserved only if there is enough  *)
(* of every product for all of its items, a product that is named twice    *)
(* included.  A restock overwrites the quantity of one product with any    *)
(* amount: of it nothing more is promised.                                 *)
(***************************************************************************)
EXTENDS EstoqueOrders

VARIABLES
    stock,    \* per product, the quantity available
    held      \* per saga, how often its items were reserved and not released

vars == <<stock, held>>

Init ==
    /\ stock = InitialStock
    /\ held = [s \in Sagas |-> 0]

Reserve(s) ==
    /\ \A i \in DOMAIN Itens[s] : Itens[s][i].produto \in Produtos
    /\ \A p \in Produtos : Demand(s, p) <= stock[p]
    /\ stock' = [p \in Produtos |-> stock[p] - Demand(s, p)]
    /\ held' = [held EXCEPT ![s] = @ + 1]

(* Nothing asks whether the saga holds anything.                             *)
Release(s) ==
    /\ stock' = [p \in Produtos |-> stock[p] + Demand(s, p)]
    /\ held' = [held EXCEPT ![s] = @ - 1]

Restock(p) ==
    /\ stock'[p] \in Nat
    /\ stock' = [stock EXCEPT ![p] = stock'[p]]
    /\ UNCHANGED held

Next ==
    \/ \E s \in Sagas : Reserve(s) \/ Release(s)
    \/ \E p \in Produtos : Restock(p)

Spec == Init /\ [][Next]_vars
==============================================================================
