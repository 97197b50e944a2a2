----------------------------- MODULE MCEstoqueStore -----------------------------
(* Values for the runs of EstoqueStore.                                       *)
EXTENDS EstoqueStore, TLC

MCStock == [mouse |-> 2, teclado |-> 1]

(* Two orders that take two rows in opposite orders, and one that names a     *)
(* product twice.                                                             *)
MCItens ==
    [s1 |-> <<[produto |-> "mouse", quantidade |-> 1],
              [produto |-> "teclado", quantidade |-> 1]>>,
     s2 |-> <<[produto |-> "teclado", quantidade |-> 1],
              [produto |-> "mouse", quantidade |-> 1]>>,
     s3 |-> <<[produto |-> "mouse", quantidade |-> 1],
              [produto |-> "mouse", quantidade |-> 2]>>,
     s4 |-> <<[produto |-> "mouse", quantidade |-> 1],
              [produto |-> "retirado", quantidade |-> 1]>>]

MCSagas == DOMAIN MCItens
MCRestocks == {1}
NoRestocks == {}
==============================================================================
