----------------------------- MODULE PedidosListing -----------------------------
(***************************************************************************)
(* GET /v1/pedidos of cell-pedidos: the pages a client reads by sending    *)
(* each next_cursor back as "after" (ListarPedidos in api/handlers.go and  *)
(* Listar in infra/db/store.go).  Orders are numbered as their UUIDs are   *)
(* ordered; creation times are numbers.                                    *)
(***************************************************************************)
EXTENDS Naturals, Sequences, FiniteSets, FiniteSetsExt

CONSTANTS
    DefaultLimit,   \* 20 in the code
    MaxLimit        \* 100 in the code

ASSUME ListingAssumption ==
    /\ DefaultLimit \in Nat \ {0}
    /\ MaxLimit \in Nat
    /\ DefaultLimit <= MaxLimit

(* What the store makes of the limit the handler asks for.                   *)
Capped(limit) == IF limit > MaxLimit THEN DefaultLimit ELSE limit

(* ORDER BY criado_em DESC, id DESC                                          *)
Precedes(criado, p, q) ==
    criado[p] > criado[q] \/ (criado[p] = criado[q] /\ p > q)

(* The page of the orders in S created before "after".                       *)
Page(S, criado, after, limit) ==
    LET older == {o \in S : criado[o] < after}
    IN  {o \in older :
            Cardinality({p \in older : Precedes(criado, p, o)}) < Capped(limit)}

(* mutant: the cursor is formatted without its fraction of a second          *)
NextCursorTruncated(page, criado) == Min({criado[o] : o \in page}) - 1

NextCursor(page, criado) == Min({criado[o] : o \in page})

(* The handler gives a cursor with as many orders as it was asked for.       *)
HasCursor(page, limit) == Cardinality(page) = limit

(* The pages of a client that goes on while there is a cursor.               *)
Walk(S, criado, limit) ==
    LET From[after \in 0 .. Max({criado[o] : o \in S} \cup {0}) + 1] ==
            LET page == Page(S, criado, after, limit)
            IN  IF HasCursor(page, limit)
                THEN <<page>> \o From[NextCursor(page, criado)]
                ELSE <<page>>
    IN  From[Max({criado[o] : o \in S} \cup {0}) + 1]

(* A walk goes from newer orders to older ones, so that it answers none      *)
(* twice, and answers every order that shares its creation time with none.   *)
WalkIsSound(S, criado, limit) ==
    LET pages == Walk(S, criado, limit)
    IN  /\ \A i, j \in DOMAIN pages :
              i < j => \A p \in pages[i], q \in pages[j] : criado[q] < criado[p]
        /\ \A o \in S : (\A p \in S \ {o} : criado[p] # criado[o]) =>
              \E i \in DOMAIN pages : o \in pages[i]
================================================================================
