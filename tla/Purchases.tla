----------------------------- MODULE Purchases -----------------------------
(***************************************************************************)
(* Purchase orders, their receptions in parts, and the payable that grows  *)
(* with each of them, worked on by several terminals.                      *)
(*                                                                         *)
(* As in Stock and Sales a handler is XCheck, what it reads and refuses    *)
(* before its transaction, and XCommit, the transaction.  What a reception *)
(* reads of the order (status, received) and a payment of the payable is   *)
(* read in XCheck and written back in XCommit; the payable a reception     *)
(* grows is read inside.                                                   *)
(*                                                                         *)
(* An order has one line, as create() makes it.  Money is cents.           *)
(***************************************************************************)
EXTENDS Integers, Sequences

CONSTANTS
    Terminals,      \* the cajas
    Skus,           \* products
    Cost,           \* unit cost of each
    Quantities,     \* quantities ordered
    Amounts,        \* amounts of payments
    MaxOrders,      \* bound: rows of purchases
    MaxPayments     \* bound: rows of payments_cxp of a payable

ASSUME PurchasesAssumption ==
    /\ Cost \in [Skus -> Nat]
    /\ Quantities \subseteq Nat \ {0} /\ Amounts \subseteq Nat \ {0}
    /\ MaxOrders \in Nat /\ MaxPayments \in Nat

VARIABLES
    orders,     \* rows of purchases, in the order of their folios
    entered,    \* entered[i]: units the movements "Recepcion <folio>" add up to
    payables,   \* payables[i]: the row of payables whose id is folio i
    payments,   \* payments[i]: number and sum of its rows of payments_cxp
    job         \* what each terminal's running handler has read so far

rows == <<orders, entered, payables, payments>>
vars == <<rows, job>>

OrderStatus == {"Pendiente", "Parcial", "Recibida", "Cancelada"}

OrderType == [sku : Skus, ordered : Nat, received : Nat, status : OrderStatus]

PayableType ==
    [exists : BOOLEAN, amount : Nat, paid : Nat, balance : Nat,
     status : {"Pendiente", "Pagada"}]

NoPayable == [exists |-> FALSE, amount |-> 0, paid |-> 0, balance |-> 0,
              status |-> "Pendiente"]

JobType == [op : {"idle", "receive", "cancel", "pay"}, id : Nat, qty : Nat,
            received : Nat, payable : PayableType]

Idle == [op |-> "idle", id |-> 0, qty |-> 0, received |-> 0,
         payable |-> NoPayable]

Start(t, j) == /\ job[t] = Idle
               /\ job' = [job EXCEPT ![t] = j]
               /\ UNCHANGED rows

Finish(t) == job' = [job EXCEPT ![t] = Idle]

(* Any guard that fails inside the transaction, a refused BEGIN or COMMIT, or
   the death of the process. *)
Abandon(t) == job[t] # Idle /\ Finish(t) /\ UNCHANGED rows

-----------------------------------------------------------------------------
(* create: the counter and the row are two statements with nothing between
   them that reads either, so a crash leaves at most an unused folio. *)
Create(s, q) ==
    /\ Len(orders) < MaxOrders
    /\ orders' = Append(orders, [sku |-> s, ordered |-> q, received |-> 0,
                                 status |-> "Pendiente"])
    /\ entered' = Append(entered, 0)
    /\ payables' = Append(payables, NoPayable)
    /\ payments' = Append(payments, [rows |-> 0, sum |-> 0])
    /\ UNCHANGED job

(* receive, in parts or all that is pending: what it refuses. *)
Receivable_Cancelled(i) == orders[i].status # "Recibida"
Receivable(i) == orders[i].status \notin {"Recibida", "Cancelada"}

ReceiveCheck(t, i, q) ==
    /\ Receivable(i)
    /\ orders[i].received + q <= orders[i].ordered
    /\ Start(t, [Idle EXCEPT !.op = "receive", !.id = i, !.qty = q,
                             !.received = orders[i].received])

(* What the order will show as received: what it showed at the check, and
   this delivery. *)
Shown_All(j) == orders[j.id].ordered
Shown(j) == j.received + j.qty

StatusFor_Any(i, received) == IF received > 0 THEN "Recibida" ELSE "Parcial"
StatusFor(i, received) ==
    IF received < orders[i].ordered THEN "Parcial" ELSE "Recibida"

(* The payable is created by the first delivery and grows with the others.
   Its status stays as it is, "Pagada" included. *)
Grown_Balance(p, value) ==
    IF p.exists THEN [p EXCEPT !.balance = @ + value]
    ELSE [NoPayable EXCEPT !.exists = TRUE, !.amount = value, !.balance = value]
Grown(p, value) ==
    IF p.exists THEN [p EXCEPT !.amount = @ + value, !.balance = @ + value]
    ELSE [NoPayable EXCEPT !.exists = TRUE, !.amount = value, !.balance = value]

ReceiveCommit(t) ==
    LET j == job[t]  i == j.id IN
    /\ j.op = "receive"
    /\ entered' = [entered EXCEPT ![i] = @ + j.qty]
    /\ orders' = [orders EXCEPT ![i].received = Shown(j),
                                ![i].status = StatusFor(i, Shown(j))]
    /\ payables' = [payables EXCEPT ![i] = Grown(@, Cost[orders[i].sku] * j.qty)]
    /\ Finish(t)
    /\ UNCHANGED payments

(* cancel: the status is read, and written in a statement of its own with
   nothing that checks it again.  A cancelled order may be cancelled again. *)
Cancellable_Partly(i) == orders[i].status # "Recibida"
Cancellable(i) == orders[i].status \notin {"Recibida", "Parcial"}

CancelCheck(t, i) ==
    /\ Cancellable(i)
    /\ Start(t, [Idle EXCEPT !.op = "cancel", !.id = i])

CancelCommit(t) ==
    /\ job[t].op = "cancel"
    /\ orders' = [orders EXCEPT ![job[t].id].status = "Cancelada"]
    /\ Finish(t)
    /\ UNCHANGED <<entered, payables, payments>>

-----------------------------------------------------------------------------
(* PayablesRepository::addPayment: a cent above the balance is accepted and a
   rest of a cent is forgiven.  Row and payment are one transaction, the row
   computed from the snapshot. *)
PayCheck(t, i, a) ==
    /\ payables[i].exists
    /\ a <= payables[i].balance + 1
    /\ payments[i].rows < MaxPayments
    /\ Start(t, [Idle EXCEPT !.op = "pay", !.id = i, !.qty = a,
                             !.payable = payables[i]])

Settles(p, a) == p.balance - a <= 1

Paid_NotAdded(p, a) ==
    [paid |-> a,
     balance |-> IF Settles(p, a) THEN 0 ELSE p.balance - a,
     status |-> IF Settles(p, a) THEN "Pagada" ELSE p.status]
Paid(p, a) ==
    [paid |-> p.paid + a,
     balance |-> IF Settles(p, a) THEN 0 ELSE p.balance - a,
     status |-> IF Settles(p, a) THEN "Pagada" ELSE p.status]

PayCommit(t) ==
    LET j == job[t]  new == Paid(j.payable, j.qty) IN
    /\ j.op = "pay"
    /\ payables' = [payables EXCEPT ![j.id].paid = new.paid,
                                    ![j.id].balance = new.balance,
                                    ![j.id].status = new.status]
    /\ payments' = [payments EXCEPT ![j.id].rows = @ + 1,
                                    ![j.id].sum = @ + j.qty]
    /\ Finish(t)
    /\ UNCHANGED <<orders, entered>>

-----------------------------------------------------------------------------
Init ==
    /\ orders = <<>> /\ entered = <<>> /\ payables = <<>> /\ payments = <<>>
    /\ job = [t \in Terminals |-> Idle]

Handler(t) ==
    \/ \E i \in DOMAIN orders :
          \/ \E q \in 1..orders[i].ordered : ReceiveCheck(t, i, q)
          \/ CancelCheck(t, i)
          \/ \E a \in Amounts : PayCheck(t, i, a)
    \/ ReceiveCommit(t)
    \/ CancelCommit(t)
    \/ PayCommit(t)
    \/ Abandon(t)

Next ==
    \/ \E s \in Skus, q \in Quantities : Create(s, q)
    \/ \E t \in Terminals : Handler(t)

Spec == Init /\ [][Next]_vars

-----------------------------------------------------------------------------
TypeOK ==
    /\ orders \in Seq(OrderType)
    /\ entered \in Seq(Nat) /\ Len(entered) = Len(orders)
    /\ payables \in Seq(PayableType) /\ Len(payables) = Len(orders)
    /\ payments \in Seq([rows : Nat, sum : Nat]) /\ Len(payments) = Len(orders)
    /\ job \in [Terminals -> JobType]

(* What an order shows as received has entered the stock, and is no more than
   was ordered, however two receptions overwrite each other's figure. *)
ShownHasEntered ==
    \A i \in DOMAIN orders :
        /\ orders[i].received <= entered[i]
        /\ orders[i].received <= orders[i].ordered

(* "La CxP crece con cada entrega parcial": the supplier is owed, in all, what
   entered, from the first delivery on, whatever payments and receptions ran
   at the same time. *)
PayableIsWhatEntered ==
    \A i \in DOMAIN orders :
        /\ payables[i].amount = Cost[orders[i].sku] * entered[i]
        /\ entered[i] > 0 => payables[i].exists

(* A status of reception tells what the order shows as received. *)
StatusTellsReception ==
    \A i \in DOMAIN orders : LET o == orders[i] IN
        /\ o.status = "Recibida" => o.received = o.ordered
        /\ o.status = "Parcial" => 0 < o.received /\ o.received < o.ordered
        /\ o.status = "Pendiente" => o.received = 0

-----------------------------------------------------------------------------
(* The inductive invariant of the proofs: what a running reception read of
   its order was true once, and stocks do not shrink. *)
JobOK(t) ==
    LET j == job[t] IN
    /\ j.op # "idle" => j.id \in DOMAIN orders
    /\ j.op = "receive" =>
          /\ j.qty > 0
          /\ j.received <= entered[j.id]
          /\ j.received + j.qty <= orders[j.id].ordered

PurchasesInv ==
    /\ TypeOK
    /\ ShownHasEntered
    /\ PayableIsWhatEntered
    /\ StatusTellsReception
    /\ \A t \in Terminals : JobOK(t)
=============================================================================
