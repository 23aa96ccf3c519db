------------------------------- MODULE Orders -------------------------------
(***************************************************************************)
(* Purchases, watched.  Most of what an order and its payable promise is   *)
(* lost when two handlers of the same order overlap (each writes from what *)
(* it read before the other); the history variable overlapped tells on     *)
(* which orders that has happened, and what follows is promised of the     *)
(* others, while any handlers of other orders overlap.                     *)
(***************************************************************************)
EXTENDS Purchases

VARIABLE overlapped

orderVars == <<vars, overlapped>>

Overlaps(i) ==
    \E t, u \in Terminals : t # u /\ job'[t].id = i /\ job'[u].id = i

OrdersInit == Init /\ overlapped = {}
OrdersNext == Next /\ overlapped' = overlapped \cup {i \in DOMAIN orders : Overlaps(i)}
OrdersSpec == OrdersInit /\ [][OrdersNext]_orderVars

Alone == DOMAIN orders \ overlapped

(* PurchaseService::receive: "Orden ya recibida", "excede": the units that
   entered for an order are those it shows. *)
EnteredAsShown == \A i \in Alone : entered[i] = orders[i].received

(* PurchaseService: a cancelled order has received nothing and owes nothing. *)
CancelledIsEmpty ==
    \A i \in Alone :
        orders[i].status = "Cancelada" => entered[i] = 0 /\ ~payables[i].exists

(* "Orden cancelada" is refused by receive: no delivery brings it back. *)
CancelledOrderStays ==
    [][\A i \in DOMAIN orders \ overlapped' :
          orders[i].status = "Cancelada" => UNCHANGED orders[i]]_orderVars

(* addPayment: "el pago podia perderse con el saldo ya descontado": what the
   payable shows as paid is the sum of its payments, and what is left of the
   deliveries is its balance, up to a cent per payment. *)
PayableSquares ==
    \A i \in Alone : LET p == payables[i] IN
        /\ p.paid = payments[i].sum
        /\ p.paid + p.balance - p.amount \in -payments[i].rows..payments[i].rows

(* An order tells its receptions, and a supplier's payable its deliveries and
   payments. *)
OrdersSquare == StatusTellsReception /\ EnteredAsShown /\ CancelledIsEmpty /\ PayableSquares
=============================================================================
