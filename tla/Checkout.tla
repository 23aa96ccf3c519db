------------------------------ MODULE Checkout ------------------------------
(***************************************************************************)
(* The cart of a caja, and what its checkout does to the units with a      *)
(* serial number and to the uses of a promotion.                           *)
(*                                                                         *)
(* A cart is in the memory of one process and is checked against tables    *)
(* all cajas share, line by line as it is filled and as a whole when it is *)
(* paid; CheckoutCommit is the transaction of the sale.  Its other effects *)
(* are in Stock (ledger, reservations, kardex) and Sales (document, credit *)
(* and till).                                                              *)
(***************************************************************************)
EXTENDS Integers, Sequences, FiniteSets, SequencesExt

CONSTANTS
    Terminals,      \* the cajas
    Products,
    Serials,        \* serial numbers
    Codes,          \* codes of promotions
    None,           \* no serial, no code
    OpeningStock,   \* units of each product
    Statuses,       \* states a unit is set to by hand
    Quantities,     \* quantities typed for a line
    Limits,         \* max_uses of promotions; 0 is no limit
    MaxLines,       \* bound: lines of a cart
    MaxSales        \* bound: sales

UnitStatus == {"in_stock", "sold", "rma", "repaired"}

ASSUME CheckoutAssumption ==
    /\ None \notin Serials \cup Codes
    /\ Products # {} /\ OpeningStock \in Nat
    /\ Statuses \subseteq UnitStatus
    /\ Quantities \subseteq Nat \ {0} /\ Limits \subseteq Nat

VARIABLES
    stock,      \* products.stock, nothing set aside
    units,      \* the row of serials of each number
    promos,     \* the row of promos of each code
    sales,      \* the sales, in the order of their folios
    cart,       \* the cart of each caja, its code, and whether it is being paid
    handled     \* history: units whose state somebody set by hand

vars == <<stock, units, promos, sales, cart, handled>>

Line == [product : Products, qty : Nat, serial : Serials \cup {None}]
Cart == [lines : Seq(Line), code : Codes \cup {None}, paying : BOOLEAN]
Sale == [lines : Seq(Line), code : Codes \cup {None}, live : BOOLEAN]
Unit == [known : BOOLEAN, product : Products, status : UnitStatus, sale : Nat]

NoUnit == [known |-> FALSE, product |-> CHOOSE p \in Products : TRUE,
           status |-> "in_stock", sale |-> 0]
NoPromo == [exists |-> FALSE, active |-> FALSE, max |-> 0, uses |-> 0, since |-> 0]
EmptyCart == [lines |-> <<>>, code |-> None, paying |-> FALSE]

(* isTracked: a product is sold by the unit as soon as one has a serial. *)
Tracked(p) == \E s \in Serials : units[s].known /\ units[s].product = p

InStock(p) == {s \in Serials : /\ units[s].known /\ units[s].product = p
                               /\ units[s].status = "in_stock"}

LinesOf(t) == cart[t].lines
Of(lines, p) == {i \in DOMAIN lines : lines[i].product = p}
QtyIn(lines, p) ==
    FoldSeq(LAMBDA line, n : IF line.product = p THEN n + line.qty ELSE n, 0, lines)
SerialsIn(lines) == {lines[i].serial : i \in DOMAIN lines} \ {None}

(* Every method of the cart recomputes its totals, which reads only. *)
SetLines(t, lines) ==
    /\ ~cart[t].paying
    /\ cart' = [cart EXCEPT ![t].lines = lines]
    /\ UNCHANGED <<stock, units, promos, sales, handled>>

-----------------------------------------------------------------------------
(* The cart *)

(* addToCart: a tracked product takes a line per unit, any other one line. *)
AddToCart(t, p) ==
    LET lines == LinesOf(t)
        new == [product |-> p, qty |-> 1, serial |-> None]
    IN  /\ stock[p] >= QtyIn(lines, p) + 1
        /\ \/ /\ Tracked(p)
              /\ Cardinality(InStock(p)) > Cardinality(Of(lines, p))
              /\ Len(lines) < MaxLines
              /\ SetLines(t, Append(lines, new))
           \/ /\ ~Tracked(p) /\ Of(lines, p) = {}
              /\ Len(lines) < MaxLines
              /\ SetLines(t, Append(lines, new))
           \/ /\ ~Tracked(p)
              /\ \E i \in Of(lines, p) :
                    /\ \A k \in Of(lines, p) : i <= k
                    /\ SetLines(t, [lines EXCEPT ![i].qty = @ + 1])

SetQty(t, i, q) ==
    /\ i \in DOMAIN LinesOf(t)
    /\ LinesOf(t)[i].serial = None /\ ~Tracked(LinesOf(t)[i].product)
    /\ SetLines(t, [LinesOf(t) EXCEPT ![i].qty = q])

RemoveLine(t, i) ==
    i \in DOMAIN LinesOf(t) /\ SetLines(t, RemoveAt(LinesOf(t), i))

(* setLineSerial: the unit is free and no other line has it.  The field takes
   any serial number, of whatever product. *)
SetLineSerial(t, i, s) ==
    /\ i \in DOMAIN LinesOf(t) /\ Tracked(LinesOf(t)[i].product)
    /\ units[s].known /\ units[s].status = "in_stock"
    /\ \A k \in DOMAIN LinesOf(t) : k # i => LinesOf(t)[k].serial # s
    /\ SetLines(t, [LinesOf(t) EXCEPT ![i].serial = s])

ClearCart(t) ==
    /\ ~cart[t].paying
    /\ cart' = [cart EXCEPT ![t] = EmptyCart]
    /\ UNCHANGED <<stock, units, promos, sales, handled>>

(* PromoRepository::evaluate: known, active, and with uses left. *)
Applicable_OneMore(c) ==
    /\ promos[c].exists /\ promos[c].active
    /\ promos[c].max > 0 => promos[c].uses <= promos[c].max
Applicable(c) ==
    /\ promos[c].exists /\ promos[c].active
    /\ promos[c].max > 0 => promos[c].uses < promos[c].max

ApplyPromo(t, c) ==
    /\ ~cart[t].paying
    /\ c # None => Applicable(c)
    /\ cart' = [cart EXCEPT ![t].code = c]
    /\ UNCHANGED <<stock, units, promos, sales, handled>>

-----------------------------------------------------------------------------
(* Paying it *)

(* buildTotals: each line by itself against the stock; the lines of a tracked
   product are units with a serial each, free and different. *)
Sellable(lines) ==
    /\ lines # <<>>
    /\ \A i \in DOMAIN lines : LET l == lines[i] IN
          /\ stock[l.product] >= l.qty
          /\ Tracked(l.product) =>
                /\ l.qty = 1 /\ l.serial # None
                /\ units[l.serial].known /\ units[l.serial].status = "in_stock"
                /\ \A k \in DOMAIN lines : k # i => lines[k].serial # l.serial
                /\ Cardinality(InStock(l.product)) >= Cardinality(Of(lines, l.product))

CheckoutStart(t) ==
    /\ ~cart[t].paying
    /\ Sellable(LinesOf(t))
    /\ cart[t].code # None => Applicable(cart[t].code)
    /\ Len(sales) < MaxSales
    /\ cart' = [cart EXCEPT ![t].paying = TRUE]
    /\ UNCHANGED <<stock, units, promos, sales, handled>>

(* addMovement: the units are in the warehouse when the statement runs. *)
Enough(lines, p) == stock[p] >= QtyIn(lines, p)

(* SerialRepository::sell: UPDATE ... WHERE status = 'in_stock'. *)
Free_Unchecked(s) == units[s].known
Free(s) == units[s].known /\ units[s].status = "in_stock"

(* registerUse counts in the statement; a promotion deleted since the check
   matches no row, which is only logged. *)
Counted_Stale(c) == [promos[c] EXCEPT !.uses = 1]
Counted(c) == [promos[c] EXCEPT !.uses = @ + 1]

CheckoutCommit(t) ==
    LET lines == LinesOf(t)
        code == cart[t].code
        n == Len(sales) + 1
    IN  /\ cart[t].paying
        /\ \A p \in Products : Enough(lines, p)
        /\ \A s \in SerialsIn(lines) : Free(s)
        /\ stock' = [p \in Products |-> stock[p] - QtyIn(lines, p)]
        /\ units' = [s \in Serials |->
                        IF s \in SerialsIn(lines)
                        THEN [units[s] EXCEPT !.status = "sold", !.sale = n]
                        ELSE units[s]]
        /\ promos' = IF code # None /\ promos[code].exists
                     THEN [promos EXCEPT ![code] = Counted(code)]
                     ELSE promos
        /\ sales' = Append(sales, [lines |-> lines, code |-> code, live |-> TRUE])
        /\ cart' = [cart EXCEPT ![t] = EmptyCart]
        /\ UNCHANGED handled

(* A guard of the transaction fails or the commit is refused: the cart stays. *)
CheckoutRefused(t) ==
    /\ cart[t].paying
    /\ cart' = [cart EXCEPT ![t].paying = FALSE]
    /\ UNCHANGED <<stock, units, promos, sales, handled>>

(* The process dies: the cart is gone. *)
Crash(t) ==
    /\ cart[t] # EmptyCart
    /\ cart' = [cart EXCEPT ![t] = EmptyCart]
    /\ UNCHANGED <<stock, units, promos, sales, handled>>

-----------------------------------------------------------------------------
(* SalesService::cancel: what a sale holds does not change, and its state is
   read again inside the transaction, so check and transaction are one step.
   revertSale frees the units that are still sold under its number. *)
Reverts(i, s) == units[s].sale = i /\ units[s].status = "sold"

Cancel(i) ==
    LET lines == sales[i].lines IN
    /\ i \in DOMAIN sales /\ sales[i].live
    /\ stock' = [p \in Products |-> stock[p] + QtyIn(lines, p)]
    /\ units' = [s \in Serials |->
                    IF Reverts(i, s)
                    THEN [units[s] EXCEPT !.status = "in_stock", !.sale = 0]
                    ELSE units[s]]
    /\ sales' = [sales EXCEPT ![i].live = FALSE]
    /\ UNCHANGED <<promos, cart, handled>>

-----------------------------------------------------------------------------
(* The other screens *)

AddSerial(s, p) ==
    /\ ~units[s].known
    /\ units' = [units EXCEPT ![s] = [NoUnit EXCEPT !.known = TRUE, !.product = p]]
    /\ UNCHANGED <<stock, promos, sales, cart, handled>>

(* setStatus: any state, whatever the unit's state and sale. *)
SetStatus(s, status) ==
    /\ units[s].known
    /\ units' = [units EXCEPT ![s].status = status]
    /\ handled' = handled \cup {s}
    /\ UNCHANGED <<stock, promos, sales, cart>>

(* A promotion is added active: add() of an inactive one reads a row that its
   own query does not find. *)
AddPromo(c, max) ==
    /\ ~promos[c].exists
    /\ promos' = [promos EXCEPT ![c] =
                    [exists |-> TRUE, active |-> TRUE, max |-> max, uses |-> 0,
                     since |-> Len(sales)]]
    /\ UNCHANGED <<stock, units, sales, cart, handled>>

(* update() writes every column but uses. *)
SetActive(c, active) ==
    /\ promos[c].exists
    /\ promos' = [promos EXCEPT ![c].active = active]
    /\ UNCHANGED <<stock, units, sales, cart, handled>>

RemovePromo(c) ==
    /\ promos[c].exists
    /\ promos' = [promos EXCEPT ![c] = NoPromo]
    /\ UNCHANGED <<stock, units, sales, cart, handled>>

-----------------------------------------------------------------------------
Init ==
    /\ stock = [p \in Products |-> OpeningStock]
    /\ units = [s \in Serials |-> NoUnit]
    /\ promos = [c \in Codes |-> NoPromo]
    /\ sales = <<>>
    /\ cart = [t \in Terminals |-> EmptyCart]
    /\ handled = {}

Filling(t) ==
    \/ \E p \in Products : AddToCart(t, p)
    \/ \E i \in DOMAIN LinesOf(t) :
          \/ \E q \in Quantities : SetQty(t, i, q)
          \/ RemoveLine(t, i)
          \/ \E s \in Serials : SetLineSerial(t, i, s)
    \/ ClearCart(t)
    \/ \E c \in Codes \cup {None} : ApplyPromo(t, c)

Paying(t) == CheckoutStart(t) \/ CheckoutCommit(t) \/ CheckoutRefused(t)

Office ==
    \/ \E i \in DOMAIN sales : Cancel(i)
    \/ \E s \in Serials : \/ \E p \in Products : AddSerial(s, p)
                          \/ \E status \in Statuses : SetStatus(s, status)
    \/ \E c \in Codes : \/ \E max \in Limits : AddPromo(c, max)
                        \/ \E active \in BOOLEAN : SetActive(c, active)
                        \/ RemovePromo(c)

Next == Office \/ \E t \in Terminals : Filling(t) \/ Paying(t) \/ Crash(t)

Spec == Init /\ [][Next]_vars

-----------------------------------------------------------------------------
TypeOK ==
    /\ units \in [Serials -> Unit]
    /\ sales \in Seq(Sale)
    /\ cart \in [Terminals -> Cart]

Holds(i, s) == sales[i].live /\ s \in SerialsIn(sales[i].lines)

(* A unit nobody touched by hand is sold exactly while a standing sale holds
   it, under the number of that sale: two carts with the same unit make one
   sale, and its cancellation frees it to be sold again. *)
UnitFollowsSale ==
    \A s \in Serials \ handled :
        /\ \A i \in DOMAIN sales :
              Holds(i, s) => units[s].status = "sold" /\ units[s].sale = i
        /\ units[s].status = "sold" =>
              units[s].sale \in DOMAIN sales /\ Holds(units[s].sale, s)

Since(c) == {i \in DOMAIN sales : sales[i].code = c /\ i > promos[c].since}

(* "Cuenta un uso (solo ventas exitosas lo llaman)": the uses of a promotion
   are the sales made with it since it was added, cancelled ones included. *)
UsesCountSales ==
    \A c \in Codes : promos[c].exists => promos[c].uses = Cardinality(Since(c))
=============================================================================
