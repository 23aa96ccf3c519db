----------------------------- MODULE Promotions -----------------------------
(***************************************************************************)
(* Checkout with a history.  The uses of a promotion are compared with     *)
(* their limit before the transaction of the sale: two cajas that pay with *)
(* one code at once may both count.  overlapped tells on which codes that  *)
(* has happened.                                                           *)
(***************************************************************************)
EXTENDS Checkout

VARIABLE overlapped

PayingWith(t, c) == cart[t].paying /\ cart[t].code = c
Overlapped(c) ==
    \E t, u \in Terminals : t # u /\ PayingWith(t, c)' /\ PayingWith(u, c)'

PromosInit == Init /\ overlapped = {}
PromosNext == Next /\ overlapped' = overlapped \cup {c \in Codes : Overlapped(c)}
PromosSpec == PromosInit /\ [][PromosNext]_<<vars, overlapped>>

(* evaluate: "agoto sus usos": the uses of a promotion are the sales made with
   it, and never more than its limit, unless two cajas were paying with it at
   the same time. *)
UsesAreCounted ==
    /\ UsesCountSales
    /\ \A c \in Codes \ overlapped :
          promos[c].max > 0 => promos[c].uses <= promos[c].max

-----------------------------------------------------------------------------
(* The inductive invariant of the proofs *)

Promo == [exists : BOOLEAN, active : BOOLEAN, max : Nat, uses : Nat, since : Nat]

(* A promotion was made before the sales that count for it; what is not there
   has no limit. *)
RowsCount ==
    \A c \in Codes :
        IF promos[c].exists
        THEN promos[c].since <= Len(sales) /\ promos[c].uses = Cardinality(Since(c))
        ELSE promos[c].max = 0

(* One caja at most is paying with the code, and while it does there is a use
   left for it, although the promotion may have been made anew since it looked. *)
UseLeft(c) ==
    /\ promos[c].max > 0 => promos[c].uses <= promos[c].max
    /\ \A t \in Terminals : PayingWith(t, c) =>
          /\ promos[c].max > 0 => promos[c].uses < promos[c].max
          /\ \A u \in Terminals : PayingWith(u, c) => t = u

PromosInv ==
    /\ promos \in [Codes -> Promo]
    /\ RowsCount
    /\ \A c \in Codes \ overlapped : UseLeft(c)
=============================================================================
