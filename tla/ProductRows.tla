---------------------------- MODULE ProductRows ----------------------------
(***************************************************************************)
(* The rows of a product, from its birth to its removal: one in products   *)
(* with the aggregate stock, and one in stock_by_location per warehouse it *)
(* was ever in.  Stock.tla follows the units of products that have all     *)
(* their rows; here rows come and go: products enter by the form, as kits  *)
(* and by a seed, leave in two statements, and every start of the program  *)
(* fills in rows it finds missing.                                         *)
(***************************************************************************)
EXTENDS Integers, FiniteSets

CONSTANTS
    Terminals,      \* the cajas that remove products
    Makers,         \* those that make kits; anybody does the rest
    Skus,
    MaxStock,       \* bound: units of a product, and of an uneven row
    Nothing

Principal == "Principal"
Warehouses == {Principal, "Sucursal"}
NoRow == -1

VARIABLES
    stock,          \* products.stock, or NoRow
    ledger,         \* stock_by_location.qty, or NoRow
    parts,          \* the components kit_json names
    removing,       \* per terminal: the product whose ledger it is about to delete
    making,         \* per maker: the kit it has looked up the components of, if any
    (* histories *)
    seeded,         \* seeded since the last start: no ledger yet
    uneven,         \* products whose ledger a known path has left uneven
    whole           \* kits none of whose components was removed since the look up

vars == <<stock, ledger, parts, removing, making, seeded, uneven, whole>>

Exists(s) == stock[s] # NoRow
Empty == [w \in Warehouses |-> NoRow]
Units(n) == IF n = NoRow THEN 0 ELSE n
Total(s) == Units(ledger[s][Principal]) + Units(ledger[s]["Sucursal"])
BeingRemoved(s) == \E t \in Terminals : removing[t] = s

(* INSERT ... ON CONFLICT DO UPDATE SET qty = qty + ? *)
Upserted(row, w, q) == [row EXCEPT ![w] = Units(@) + q]

Opened_Never(row, q) == row
Opened(row, q) == IF q > 0 THEN [row EXCEPT ![Principal] = q] ELSE row

(* ProductRepository::add: product and ledger row in one transaction; without
   units there is no ledger row. *)
Born(s, q) ==
    /\ ~Exists(s)
    /\ stock' = [stock EXCEPT ![s] = q]
    /\ ledger' = [ledger EXCEPT ![s] = Opened(@, q)]
    /\ uneven' = IF BeingRemoved(s) THEN uneven \cup {s} ELSE uneven

Add(s, q) ==
    /\ Born(s, q)
    /\ parts' = [parts EXCEPT ![s] = {}]
    /\ whole' = whole \ {s}
    /\ UNCHANGED <<removing, making, seeded>>

(* kitStock: what the components' aggregates allow, here one unit of each;
   a component that is gone allows nothing. *)
KitStock(comps) ==
    IF comps = {} \/ \E c \in comps : ~Exists(c) THEN 0
    ELSE CHOOSE n \in 0..MaxStock : /\ \A c \in comps : n <= stock[c]
                                    /\ \E c \in comps : n = stock[c]

(* createKit: its stock is what the components allow at this moment. *)
Components_Unchecked(comps) == comps # {}
Components(comps) == comps # {} /\ \A c \in comps : Exists(c)

(* The look ups of createKit and of add, none of them in a transaction; the
   components need not be looked up at one moment, since any may go at the next. *)
LookUpKit(m, s, comps) ==
    /\ making[m] = {}
    /\ ~Exists(s) /\ Components(comps)
    /\ making' = [making EXCEPT ![m] = {[sku |-> s, comps |-> comps, sound |-> TRUE,
                                        stock |-> KitStock(comps)]}]
    /\ UNCHANGED <<stock, ledger, parts, removing, seeded, uneven, whole>>

(* The transaction of add: it does not look at the components again. *)
CreateKit(m, k) ==
    /\ k \in making[m]
    /\ Born(k.sku, k.stock)
    /\ parts' = [parts EXCEPT ![k.sku] = k.comps]
    /\ whole' = IF k.sound THEN whole \cup {k.sku} ELSE whole \ {k.sku}
    /\ making' = [making EXCEPT ![m] = {}]
    /\ UNCHANGED <<removing, seeded>>

(* The transaction is refused, the SKU was taken meanwhile, or the process dies. *)
KitFails(m) ==
    /\ making[m] # {}
    /\ making' = [making EXCEPT ![m] = {}]
    /\ UNCHANGED <<stock, ledger, parts, removing, seeded, uneven, whole>>

Unsound(k, s) == [k EXCEPT !.sound = @ /\ s \notin k.comps]

(* remove: DELETE FROM products, then DELETE FROM stock_by_location. *)
RemoveProduct(t, s) ==
    /\ removing[t] = Nothing
    /\ Exists(s)
    /\ stock' = [stock EXCEPT ![s] = NoRow]
    /\ removing' = [removing EXCEPT ![t] = s]
    /\ parts' = [parts EXCEPT ![s] = {}]
    /\ whole' = {k \in whole \ {s} : s \notin parts[k]}
    /\ making' = [u \in Makers |-> {Unsound(k, s) : k \in making[u]}]
    /\ seeded' = seeded \ {s}
    /\ UNCHANGED <<ledger, uneven>>

Deleted(row) == Empty

RemoveLedger(t) ==
    /\ removing[t] # Nothing
    /\ ledger' = [ledger EXCEPT ![removing[t]] = Deleted(@)]
    /\ removing' = [removing EXCEPT ![t] = Nothing]
    /\ uneven' = IF Exists(removing[t]) THEN uneven ELSE uneven \ {removing[t]}
    /\ UNCHANGED <<stock, parts, making, seeded, whole>>

(* The process dies, or the second DELETE fails: the units stay behind. *)
RemovalDies(t) ==
    /\ removing[t] # Nothing
    /\ removing' = [removing EXCEPT ![t] = Nothing]
    /\ uneven' = uneven \cup {removing[t]}
    /\ UNCHANGED <<stock, ledger, parts, making, seeded, whole>>

(* addStock: rolls back when there is no product to bump. *)
Bring(s, w) ==
    /\ Exists(s) /\ stock[s] < MaxStock /\ ledger[s][w] < MaxStock
    /\ stock' = [stock EXCEPT ![s] = @ + 1]
    /\ ledger' = [ledger EXCEPT ![s] = Upserted(@, w, 1)]
    /\ uneven' = IF s \in seeded THEN uneven \cup {s} ELSE uneven
    /\ UNCHANGED <<parts, removing, making, seeded, whole>>

(* A line of a sale: takeLedger and the guarded UPDATE of the aggregate. *)
Take(s, w) ==
    /\ Exists(s) /\ ledger[s][w] > 0
    /\ stock[s] > 0
    /\ stock' = [stock EXCEPT ![s] = @ - 1]
    /\ ledger' = [ledger EXCEPT ![s][w] = @ - 1]
    /\ UNCHANGED <<parts, removing, making, seeded, uneven, whole>>

Transfer(s, from, to) ==
    /\ from # to /\ ledger[s][from] > 0 /\ ledger[s][to] < MaxStock
    /\ LET taken == [ledger[s] EXCEPT ![from] = @ - 1]
       IN  ledger' = [ledger EXCEPT ![s] = Upserted(taken, to, 1)]
    /\ UNCHANGED <<stock, parts, removing, making, seeded, uneven, whole>>

(* applySeedFile: INSERT OR IGNORE of the product alone, stock and all. *)
Seed(s, q) ==
    /\ ~Exists(s)
    /\ stock' = [stock EXCEPT ![s] = q]
    /\ parts' = [parts EXCEPT ![s] = {}]
    /\ seeded' = seeded \cup {s}
    /\ uneven' = IF BeingRemoved(s) \/ ledger[s] # Empty THEN uneven \cup {s} ELSE uneven
    /\ whole' = whole \ {s}
    /\ UNCHANGED <<ledger, removing, making>>

(* migrateLegacyColumns, at every start of any caja: INSERT OR IGNORE of the
   whole aggregate into the main warehouse. *)
Filled(s) ==
    IF stock[s] > 0 /\ ledger[s][Principal] = NoRow
    THEN [ledger[s] EXCEPT ![Principal] = stock[s]] ELSE ledger[s]

Backfill ==
    /\ ledger' = [s \in Skus |-> Filled(s)]
    /\ seeded' = {}
    /\ uneven' = uneven \cup {s \in Skus : stock[s] > 0 /\ Total(s) > 0
                                           /\ ledger[s][Principal] = NoRow}
    /\ UNCHANGED <<stock, parts, removing, making, whole>>

-----------------------------------------------------------------------------
Init ==
    /\ stock = [s \in Skus |-> NoRow]
    /\ ledger = [s \in Skus |-> Empty]
    /\ parts = [s \in Skus |-> {}]
    /\ removing = [t \in Terminals |-> Nothing]
    /\ making = [t \in Makers |-> {}]
    /\ seeded = {} /\ uneven = {} /\ whole = {}

Next ==
    \/ \E s \in Skus :
        \/ \E q \in {0, MaxStock} : Add(s, q)
        \/ \E t \in Terminals : RemoveProduct(t, s)
        \/ \E m \in Makers, comps \in SUBSET (Skus \ {s}) : LookUpKit(m, s, comps)
    \/ \E t \in Terminals : RemoveLedger(t) \/ RemovalDies(t)
    \/ \E m \in Makers : KitFails(m) \/ \E k \in making[m] : CreateKit(m, k)
    \/ \E s \in Skus, w \in Warehouses :
        \/ Bring(s, w) \/ Take(s, w)
        \/ \E to \in Warehouses : Transfer(s, w, to)
    \/ \E s \in Skus : Seed(s, MaxStock)
    \/ Backfill

Spec == Init /\ [][Next]_vars

-----------------------------------------------------------------------------
(* schema.sql: "products.stock es el agregado (suma); el ledger vive aqui", and
   ProductRepository::remove: "sin huerfanos en el ledger".  Of every product
   but those a removal that died or overlapped its return, a seed used before
   the next start, or a start without a row in the main warehouse has left
   uneven, the warehouses hold the aggregate, and nothing once it is gone. *)
RowsAgree ==
    \A s \in Skus \ uneven :
        IF Exists(s) THEN Total(s) = (IF s \in seeded THEN 0 ELSE stock[s])
        ELSE BeingRemoved(s) \/ ledger[s] = Empty

(* createKit: "Componente no existe": a kit names products that exist, until
   one of them is removed, which nothing refuses, even between the look up of
   the components and the insertion of the kit. *)
KitsAreComplete == \A k \in whole : parts[k] # {} /\ \A c \in parts[k] : Exists(c)
=============================================================================
