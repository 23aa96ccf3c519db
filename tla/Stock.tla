------------------------------- MODULE Stock -------------------------------
(***************************************************************************)
(* Stock of products in several warehouses, sold and managed by several    *)
(* terminals that share one SQLite file.                                   *)
(*                                                                         *)
(* A handler of the services reads what its preconditions need OUTSIDE the *)
(* transaction and then writes inside one BEGIN IMMEDIATE transaction, so  *)
(* it is two steps here: XCheck (the reads, kept in job[t]) and XCommit    *)
(* (all the writes at once; module Transaction says why at once).  What is *)
(* written outside a transaction is a step per statement.                  *)
(*                                                                         *)
(* Quantities are whole units: the 1e-9 tolerances of the code vanish.     *)
(***************************************************************************)
EXTENDS Integers, Sequences, FiniteSets, Sums

CONSTANTS
    Terminals,      \* the concurrent cajas, each with its own connection
    Skus,           \* products
    Locations,      \* warehouses
    Principal,      \* LocationRepository::kPrincipalId
    Opening,        \* stock_by_location when the behaviour starts
    Ops,            \* handlers the terminals may invoke
    MaxStock,       \* bound: a handler is not started to take stock above it
    MaxSales,       \* bound: sales made in a behaviour
    MaxCounts,      \* bound: cyclic counts opened in a behaviour
    MaxApplied      \* bound: a count is not applied again once it was so often

FloorOps == {"sale", "cancel", "reserve", "release"}
OfficeOps == {"adjust", "transfer", "entry", "edit", "count"}

ASSUME StockAssumption ==
    /\ Principal \in Locations
    /\ Skus # {}
    /\ IsFiniteSet(Skus) /\ IsFiniteSet(Locations)
    /\ Opening \in [Skus -> [Locations -> Nat]]
    /\ Ops \subseteq FloorOps \cup OfficeOps
    /\ MaxStock \in Nat /\ MaxSales \in Nat /\ MaxCounts \in Nat
    /\ MaxApplied \in Nat

VARIABLES
    stock,      \* products.stock, the aggregate
    reserved,   \* products.stock_reserved
    ledger,     \* stock_by_location.qty
    kardex,     \* the newest movement of a product, and its "after" column
    sales,      \* sales made, in folio order: cart, warehouse, not cancelled?
    counts,     \* inventory_counts rows, with how often each was applied
    formed,     \* history: products whose aggregate the product form has written
    job         \* what each terminal's running handler has read so far

db == <<stock, reserved, ledger, kardex, sales, counts, formed>>
vars == <<db, job>>

Units == 1..MaxStock
Carts == [Skus -> Nat]

(* The steps a handler can be stopped at. *)
JobOps == {"idle", "sale", "cancel", "adjust", "transfer", "entry",
           "edit", "editOthers", "editLedger", "countRead", "countMark"}

JobType ==
    [op : JobOps, sku : Skus, qty : Int, snap : Int, id : Nat,
     from : Locations, to : Locations, cart : Carts]

Idle ==
    [op |-> "idle", sku |-> CHOOSE s \in Skus : TRUE, qty |-> 0, snap |-> 0,
     id |-> 0, from |-> Principal, to |-> Principal,
     cart |-> [s \in Skus |-> 0]]

Max0(n) == IF n > 0 THEN n ELSE 0

(* What the "after" of a movement is a figure of: the stock (sales, entries,
   adjustments), what is available (Apartado, Liberado) or the shelf a transfer
   went to (Transferencia, of which the entry is recorded last). *)
Movement(of, after) == [of |-> of, after |-> after]
MovementType == [of : {"stock", "available", "shelf"}, after : Int]

(* products.stock - products.stock_reserved *)
Available(s) == stock[s] - reserved[s]

Start(t, j) ==
    /\ job[t] = Idle
    /\ job' = [job EXCEPT ![t] = j]
    /\ UNCHANGED db

Finish(t) == job' = [job EXCEPT ![t] = Idle]

-----------------------------------------------------------------------------
(* Sales and their cancellation *)

(* The shelf checks of SalesService::buildTotals, before the transaction. *)
SaleCheck(t, cart, loc) ==
    /\ "sale" \in Ops
    /\ Len(sales) < MaxSales
    /\ \E s \in Skus : cart[s] > 0
    /\ \A s \in Skus : cart[s] > 0 => /\ Available(s) >= cart[s]
                                      /\ ledger[s][loc] >= cart[s]
    /\ Start(t, [Idle EXCEPT !.op = "sale", !.cart = cart, !.from = loc])

SaleFits_NoLedgerGuard(cart, loc) == \A s \in Skus : stock[s] >= cart[s]

(* The guards of takeLedger and of the UPDATE on products: a line that does
   not find its units rolls the whole sale back. *)
SaleFits(cart, loc) ==
    \A s \in Skus : cart[s] > 0 => /\ ledger[s][loc] >= cart[s]
                                   /\ stock[s] >= cart[s]

(* What a sale of q units writes: the warehouse's row, what is left of the
   reservations (sold units consume them first), and the movement's "after"
   (a product that is not in the cart gets no movement). *)
TakeLedger_Skipped(row, loc, q) == row
TakeLedger(row, loc, q) == [row EXCEPT ![loc] = @ - q]

Consumed_Skipped(r, q) == r
Consumed(r, q) == IF q > 0 THEN Max0(r - q) ELSE r

Recorded_Before(q, before, after, newest) ==
    IF q > 0 THEN Movement("stock", before) ELSE newest
Recorded(q, before, after, newest) ==
    IF q > 0 THEN Movement("stock", after) ELSE newest

(* The sale: ledger and aggregate down, reservations consumed first, one
   movement per line, the sale itself recorded. *)
SaleCommit(t) ==
    LET cart == job[t].cart
        loc == job[t].from
    IN  /\ job[t].op = "sale"
        /\ Len(sales) < MaxSales
        /\ SaleFits(cart, loc)
        /\ ledger' = [s \in Skus |-> TakeLedger(ledger[s], loc, cart[s])]
        /\ stock' = [s \in Skus |-> stock[s] - cart[s]]
        /\ reserved' = [s \in Skus |-> Consumed(reserved[s], cart[s])]
        /\ kardex' = [s \in Skus |-> Recorded(cart[s], stock[s], stock'[s], kardex[s])]
        /\ sales' = Append(sales, [cart |-> cart, loc |-> loc, live |-> TRUE])
        /\ Finish(t)
        /\ UNCHANGED <<counts, formed>>

CancelCheck(t, i) ==
    /\ "cancel" \in Ops
    /\ sales[i].live
    /\ Start(t, [Idle EXCEPT !.op = "cancel", !.id = i])

StillLive_Unread(i) == TRUE
StillLive(i) == sales[i].live

(* Every line goes back to Principal; markCancelled reads the status again
   inside the transaction, so a second cancellation rolls back. *)
CancelCommit(t) ==
    LET i == job[t].id
        cart == sales[i].cart
    IN  /\ job[t].op = "cancel"
        /\ StillLive(i)
        /\ stock' = [s \in Skus |-> stock[s] + cart[s]]
        /\ ledger' = [s \in Skus |-> [ledger[s] EXCEPT ![Principal] = @ + cart[s]]]
        /\ kardex' = [s \in Skus |-> Recorded(cart[s], stock[s], stock'[s], kardex[s])]
        /\ sales' = [sales EXCEPT ![i].live = FALSE]
        /\ Finish(t)
        /\ UNCHANGED <<reserved, counts, formed>>

-----------------------------------------------------------------------------
(* Reservations: guard and write are one UPDATE, and the movement tells what
   is available when it is read again in the same transaction *)

Reserve(t, s, q) ==
    /\ "reserve" \in Ops
    /\ job[t] = Idle
    /\ Available(s) >= q
    /\ reserved' = [reserved EXCEPT ![s] = @ + q]
    /\ kardex' = [kardex EXCEPT ![s] = Movement("available", stock[s] - reserved'[s])]
    /\ UNCHANGED <<stock, ledger, sales, counts, formed, job>>

Release(t, s, q) ==
    /\ "release" \in Ops
    /\ job[t] = Idle
    /\ reserved' = [reserved EXCEPT ![s] = Max0(@ - q)]
    /\ kardex' = [kardex EXCEPT ![s] = Movement("available", stock[s] - reserved'[s])]
    /\ UNCHANGED <<stock, ledger, sales, counts, formed, job>>

-----------------------------------------------------------------------------
(* Adjustments, waste and cyclic counts *)

(* registerAdjustment; registerWaste is the same with a negative quantity. *)
AdjustCheck(t, s, d) ==
    /\ "adjust" \in Ops
    /\ d # 0
    /\ stock[s] + d \in 0..MaxStock
    /\ Start(t, [Idle EXCEPT !.op = "adjust", !.sku = s, !.qty = d,
                             !.snap = stock[s]])

(* The aggregate after setStock(Principal, new): it moves by the difference
   to the ledger row, which setStock reads inside the transaction. *)
Restated_Swapped(s, new) == stock[s] + ledger[s][Principal] - new
Restated(s, new) == stock[s] + new - ledger[s][Principal]

(* LocationRepository::setStock on Principal with the value computed from
   the aggregate that was read before the transaction.  An adjustment that
   comes from a count (id # 0) leaves the count still to be marked. *)
AdjustCommit(t) ==
    LET s == job[t].sku
        i == job[t].id
        new == job[t].snap + job[t].qty
    IN  /\ job[t].op = "adjust"
        /\ new >= 0
        /\ stock' = [stock EXCEPT ![s] = Restated(s, new)]
        /\ ledger' = [ledger EXCEPT ![s][Principal] = new]
        /\ kardex' = [kardex EXCEPT ![s] = Movement("stock", new)]
        /\ IF i = 0
           THEN Finish(t) /\ UNCHANGED counts
           ELSE /\ job' = [job EXCEPT ![t] = [Idle EXCEPT !.op = "countMark",
                                                          !.id = i]]
                /\ counts' = [counts EXCEPT ![i].applied = @ + 1]
        /\ UNCHANGED <<reserved, sales, formed>>

(* InventoryService::startCount: difference against the stock of now. *)
CountStart(t, s, counted) ==
    /\ "count" \in Ops
    /\ job[t] = Idle
    /\ Len(counts) < MaxCounts
    /\ counts' = Append(counts, [sku |-> s, diff |-> counted - stock[s],
                                 open |-> TRUE, applied |-> 0])
    /\ UNCHANGED <<stock, reserved, ledger, kardex, sales, formed, job>>

NextOfCount_Surplus(i) == IF counts[i].diff > 0 THEN "countRead" ELSE "countMark"
NextOfCount(i) == IF counts[i].diff # 0 THEN "countRead" ELSE "countMark"

(* applyCount: the status is read, ... *)
CountApply(t, i) ==
    /\ "count" \in Ops
    /\ counts[i].open
    /\ counts[i].applied < MaxApplied
    /\ Start(t, [Idle EXCEPT !.op = NextOfCount(i), !.id = i])

(* ... a non-zero difference becomes an adjustment of its own, ... *)
CountRead(t) ==
    LET i == job[t].id
        s == counts[i].sku
    IN  /\ job[t].op = "countRead"
        /\ stock[s] + counts[i].diff \in 0..MaxStock
        /\ job' = [job EXCEPT ![t] = [Idle EXCEPT !.op = "adjust", !.sku = s,
                                                  !.qty = counts[i].diff,
                                                  !.snap = stock[s], !.id = i]]
        /\ UNCHANGED db

(* ... and then the count is marked by a statement outside that transaction. *)
CountMark(t) ==
    /\ job[t].op = "countMark"
    /\ counts[job[t].id].open
    /\ counts' = [counts EXCEPT ![job[t].id].open = FALSE]
    /\ Finish(t)
    /\ UNCHANGED <<stock, reserved, ledger, kardex, sales, formed>>

-----------------------------------------------------------------------------
(* ProductRepository::update and the handlers that go through it *)

(* stockBySku without Principal. *)
Others(row) == SumOf(row, Locations \ {Principal})

(* What Principal is left with so that the ledger adds up to v again. *)
Absorbed_All(row, v) == Max0(v)
Absorbed(row, v) == Max0(v - Others(row))

(* update() inside a transaction: a negative stock is refused, else the
   aggregate is overwritten with v and Principal absorbs the difference
   when there is one. *)
Overwrite(s, row, v) ==
    /\ v >= 0
    /\ stock' = [stock EXCEPT ![s] = v]
    /\ ledger' = [ledger EXCEPT ![s] =
                    IF v # stock[s] THEN [row EXCEPT ![Principal] = Absorbed(row, v)]
                    ELSE row]

TransferFits(s, from, q) == ledger[s][from] >= q

(* A warehouse transfer; the aggregate it will write back is read here. *)
TransferCheck(t, s, q, from, to) ==
    /\ "transfer" \in Ops
    /\ from # to
    /\ TransferFits(s, from, q)
    /\ ledger[s][to] + q <= MaxStock
    /\ Start(t, [Idle EXCEPT !.op = "transfer", !.sku = s, !.qty = q,
                             !.snap = stock[s], !.from = from, !.to = to])

TransferCommit(t) ==
    LET s == job[t].sku
        q == job[t].qty
        taken == [ledger[s] EXCEPT ![job[t].from] = @ - q]
        moved == [taken EXCEPT ![job[t].to] = @ + q]
    IN  /\ job[t].op = "transfer"
        /\ TransferFits(s, job[t].from, q)
        /\ Overwrite(s, moved, job[t].snap)
        /\ kardex' = [kardex EXCEPT ![s] = Movement("shelf", moved[job[t].to])]
        /\ Finish(t)
        /\ UNCHANGED <<reserved, sales, counts, formed>>

(* InventoryService::registerPurchase. *)
EntryCheck(t, s, q) ==
    /\ "entry" \in Ops
    /\ stock[s] + q <= MaxStock
    /\ Start(t, [Idle EXCEPT !.op = "entry", !.sku = s, !.qty = q,
                             !.snap = stock[s]])

EntryCommit(t) ==
    LET s == job[t].sku
        new == job[t].snap + job[t].qty
    IN  /\ job[t].op = "entry"
        /\ Overwrite(s, ledger[s], new)
        /\ kardex' = [kardex EXCEPT ![s] = Movement("stock", new)]
        /\ Finish(t)
        /\ UNCHANGED <<reserved, sales, counts, formed>>

(* CatalogController::update sends the stock of its form, v; outside any
   transaction update() reads the row, ... *)
EditCheck(t, s, v) ==
    /\ "edit" \in Ops
    /\ v >= 0
    /\ Start(t, [Idle EXCEPT !.op = "edit", !.sku = s, !.qty = v,
                             !.snap = stock[s]])

(* ... overwrites it, ... *)
EditProduct(t) ==
    LET s == job[t].sku
        v == job[t].qty
    IN  /\ job[t].op = "edit"
        /\ stock' = [stock EXCEPT ![s] = v]
        /\ IF v # job[t].snap THEN job' = [job EXCEPT ![t].op = "editOthers"]
           ELSE Finish(t)
        /\ formed' = formed \cup {s}
        /\ UNCHANGED <<reserved, ledger, kardex, sales, counts>>

(* ... sums up the other warehouses, ... *)
EditOthers(t) ==
    LET row == ledger[job[t].sku]
    IN  /\ job[t].op = "editOthers"
            /\ job' = [job EXCEPT ![t].op = "editLedger",
                              ![t].snap = Absorbed(row, job[t].qty)]
        /\ UNCHANGED db

(* ... and writes what is left into Principal's ledger row. *)
EditLedger(t) ==
    /\ job[t].op = "editLedger"
    /\ job[t].snap >= 0
    /\ ledger' = [ledger EXCEPT ![job[t].sku][Principal] = job[t].snap]
    /\ Finish(t)
    /\ UNCHANGED <<stock, reserved, kardex, sales, counts, formed>>

-----------------------------------------------------------------------------
(* A guard inside the transaction fails, the transaction cannot begin or
   commit, or the process dies: what is not committed never happened. *)
Abandon(t) ==
    /\ job[t] # Idle
    /\ Finish(t)
    /\ UNCHANGED db

Init ==
    /\ ledger = Opening
    /\ stock = [s \in Skus |-> SumOf(Opening[s], Locations)]
    /\ kardex = [s \in Skus |-> Movement("stock", stock[s])]
    /\ reserved = [s \in Skus |-> 0]
    /\ sales = <<>>
    /\ counts = <<>>
    /\ formed = {}
    /\ job = [t \in Terminals |-> Idle]

Selling(t) ==
    \/ \E cart \in [Skus -> 0..MaxStock], l \in Locations : SaleCheck(t, cart, l)
    \/ SaleCommit(t)
    \/ \E i \in DOMAIN sales : CancelCheck(t, i)
    \/ CancelCommit(t)

Reserving(t) == \E s \in Skus, q \in Units : Reserve(t, s, q) \/ Release(t, s, q)

Counting(t) ==
    \/ \E s \in Skus, q \in 0..MaxStock : CountStart(t, s, q)
    \/ \E i \in DOMAIN counts : CountApply(t, i)
    \/ CountRead(t)
    \/ CountMark(t)

Adjusting(t) ==
    \/ \E s \in Skus, d \in (-MaxStock)..MaxStock : AdjustCheck(t, s, d)
    \/ AdjustCommit(t)

Moving(t) ==
    \/ \E s \in Skus, q \in Units, from, to \in Locations :
          TransferCheck(t, s, q, from, to)
    \/ TransferCommit(t)
    \/ \E s \in Skus, q \in Units : EntryCheck(t, s, q)
    \/ EntryCommit(t)

Editing(t) ==
    \/ \E s \in Skus, v \in 0..MaxStock : EditCheck(t, s, v)
    \/ EditProduct(t)
    \/ EditOthers(t)
    \/ EditLedger(t)

Next == \E t \in Terminals : \/ Selling(t) \/ Reserving(t) \/ Counting(t)
                             \/ Adjusting(t) \/ Moving(t) \/ Editing(t)
                             \/ Abandon(t)

Spec == Init /\ [][Next]_vars

-----------------------------------------------------------------------------
(* Properties *)

(* The rows have their types; a running handler carries well-formed reads. *)
TypeOK ==
    /\ stock \in [Skus -> Int]
    /\ reserved \in [Skus -> Nat]
    /\ ledger \in [Skus -> [Locations -> Int]]
    /\ kardex \in [Skus -> MovementType]
    /\ sales \in Seq([cart : Carts, loc : Locations, live : BOOLEAN])
    /\ counts \in Seq([sku : Skus, diff : Int, open : BOOLEAN, applied : Nat])
    /\ formed \subseteq Skus
    /\ job \in [Terminals -> JobType]

(* No warehouse is ever left owing units, whatever the handlers and their
   interleaving: takeLedger and transferStock guard the decrement in the
   UPDATE itself, and the absolute writes are clamped (qMax(0, ...)). *)
LedgerNonNegative == \A s \in Skus, l \in Locations : ledger[s][l] >= 0

(* What a running handler carries stays usable: the row it will write still
   exists and a transfer moves a whole number of units. *)
JobOK(t) ==
    /\ job[t].op = "cancel" => job[t].id \in 1..Len(sales)
    /\ job[t].op \in {"countRead", "countMark"} => job[t].id \in 1..Len(counts)
    /\ job[t].op = "adjust" => job[t].id \in 0..Len(counts)
    /\ job[t].op = "transfer" => job[t].qty >= 0

(* The inductive strengthening of LedgerNonNegative: between the reads of a
   handler and its writes the others may run, and the ledger stays
   non-negative because of what the writes themselves check. *)
LedgerInv == TypeOK /\ LedgerNonNegative /\ \A t \in Terminals : JobOK(t)

(* schema.sql: "products.stock es el agregado (suma); el ledger vive aqui". *)
AggregateIsLedgerSum == \A s \in Skus : stock[s] = SumOf(ledger[s], Locations)

(* The same under all handlers, one after the other: adjustments, transfers,
   entries and counts, interrupted or not, keep the aggregate of a product the
   sum of its ledger rows until the product form writes over it. *)
UnformedIsLedgerSum ==
    \A s \in Skus \ formed : stock[s] = SumOf(ledger[s], Locations)

(* What is set aside exists: reserveAtomic guards against the available
   stock and a sale consumes reservations as it takes units. *)
ReservedWithinStock == \A s \in Skus : reserved[s] <= stock[s]

(* The newest row of the kardex tells the figure a reader finds: of a sale or
   its cancellation the stock, of a reservation or its release what is
   available, whoever sold or reserved in between. *)
KardexIsCurrent ==
    \A s \in Skus :
        /\ kardex[s].of = "stock" => kardex[s].after = stock[s]
        /\ kardex[s].of = "available" => kardex[s].after = Available(s)

Live == {i \in DOMAIN sales : sales[i].live}

(* Units of s in the sales of a set of folios. *)
Sold(s, folios) == SumOf([i \in DOMAIN sales |-> sales[i].cart[s]], folios)

(* Every unit is on a shelf or in a sale that stands: no sale is lost from
   the stock, none is taken twice, and a cancellation gives back once. *)
UnitsAccountedFor ==
    \A s \in Skus :
        stock[s] + Sold(s, Live) = SumOf(Opening[s], Locations)

(* "La cancelacion revierte EXACTAMENTE todas las escrituras de la venta", of
   sales made in the main warehouse: every shelf holds what it opened with
   less what the standing sales took from it.  A cancellation gives its units
   to the main warehouse whatever warehouse the sale took them from. *)
ShelvesRestored ==
    (\A i \in DOMAIN sales : sales[i].loc = Principal) =>
        \A s \in Skus, l \in Locations :
            ledger[s][l] + Sold(s, {i \in Live : sales[i].loc = l}) = Opening[s][l]

(* No unit is lost: each is on a shelf or in a standing sale, and those of a
   cancelled sale of the main warehouse are back on its shelf. *)
UnitsKept == UnitsAccountedFor /\ ShelvesRestored

(* Committing a transfer leaves the aggregate as it was ("el agregado global
   no cambia"): what other terminals sold meanwhile stays sold. *)
Transferred(t) == job[t].op = "transfer" /\ job'[t] = Idle /\ ledger' # ledger

TransferKeepsAggregate ==
    [][\A t \in Terminals : Transferred(t) => stock' = stock]_vars

(* A count is closed only after its difference reached the stock. *)
ClosedCountWasApplied ==
    \A i \in DOMAIN counts :
        ~counts[i].open /\ counts[i].diff # 0 => counts[i].applied >= 1
=============================================================================
