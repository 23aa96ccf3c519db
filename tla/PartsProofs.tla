----------------------------- MODULE PartsProofs -----------------------------
(***************************************************************************)
(* Proofs about the parts, for any values of their constants.  Orders and  *)
(* payables come first, in their own variables; the other parts are read   *)
(* off the instances of Parts, each section saying which variables a1, a2, *)
(* ... are; the theorems of parts that have a module of proofs are cited.  *)
(***************************************************************************)
EXTENDS Parts, SumsProofs, TLAPS, SequenceTheorems, FiniteSetTheorems,
        WellFoundedInduction

(* What the invariant says of one order, what entered for it and what is owed
   for it. *)
RowOK(o, e, p) ==
    /\ o.received <= e /\ o.received <= o.ordered
    /\ p.amount = Cost[o.sku] * e /\ (e > 0 => p.exists)
    /\ o.status = "Recibida" => o.received = o.ordered
    /\ o.status = "Parcial" => 0 < o.received /\ o.received < o.ordered
    /\ o.status = "Pendiente" => o.received = 0

(* The tables have one length and their rows have their types. *)
LEMMA RowTypes ==
    ASSUME TypeOK
    PROVE  /\ Len(orders) \in Nat /\ DOMAIN orders = 1..Len(orders)
           /\ DOMAIN entered = DOMAIN orders
           /\ DOMAIN payables = DOMAIN orders
           /\ DOMAIN payments = DOMAIN orders
           /\ \A i \in DOMAIN orders :
                 /\ orders[i] \in OrderType /\ entered[i] \in Nat
                 /\ payables[i] \in PayableType
                 /\ payments[i] \in [rows : Nat, sum : Nat]
           /\ \A t \in Terminals : job[t] \in JobType
  BY LenProperties, ElementOfSeq, Zenon DEF TypeOK

(* The three parts of the invariant about rows are RowOK of every row. *)
LEMMA RowByRow ==
    ShownHasEntered /\ PayableIsWhatEntered /\ StatusTellsReception
        <=> \A i \in DOMAIN orders : RowOK(orders[i], entered[i], payables[i])
  BY DEF ShownHasEntered, PayableIsWhatEntered, StatusTellsReception, RowOK

LEMMA IdleType == Idle \in JobType /\ NoPayable \in PayableType
  BY DEF Idle, JobType, NoPayable, PayableType

(* One terminal takes on a usable job, no order loses what it asked for and
   no stock shrinks: every job stays usable. *)
LEMMA JobsStayUsable ==
    ASSUME PurchasesInv, NEW t \in Terminals, NEW j \in JobType,
           job' = [job EXCEPT ![t] = j], JobOK(t)',
           DOMAIN orders \subseteq DOMAIN orders',
           \A i \in DOMAIN orders : orders'[i].ordered = orders[i].ordered,
           \A i \in DOMAIN orders : entered'[i] >= entered[i],
           \A i \in DOMAIN orders : entered'[i] \in Nat
    PROVE  job' \in [Terminals -> JobType] /\ \A u \in Terminals : JobOK(u)'
  <1>1. job \in [Terminals -> JobType]
    BY DEF PurchasesInv, TypeOK
  <1>2. ASSUME NEW u \in Terminals, u # t PROVE JobOK(u)'
    <2>1. job'[u] = job[u] /\ JobOK(u) /\ job[u] \in JobType
      BY <1>1, <1>2 DEF PurchasesInv
    <2>2. job[u].op = "receive" => job[u].received <= entered'[job[u].id]
      <3> SUFFICES ASSUME job[u].op = "receive"
                   PROVE  job[u].received <= entered'[job[u].id]
        OBVIOUS
      <3>1. job[u].id \in DOMAIN orders /\ job[u].received <= entered[job[u].id]
        BY <2>1 DEF JobOK
      <3>2. entered[job[u].id] \in Nat /\ job[u].received \in Nat
        BY <3>1, <2>1, RowTypes DEF PurchasesInv, JobType
      <3> QED
        BY <3>1, <3>2
    <2> QED
      BY <2>1, <2>2 DEF JobOK
  <1> QED
    BY <1>1, <1>2

LEMMA FinishStep ==
    ASSUME PurchasesInv, NEW t \in Terminals, Finish(t),
           DOMAIN orders \subseteq DOMAIN orders',
           \A i \in DOMAIN orders : orders'[i].ordered = orders[i].ordered,
           \A i \in DOMAIN orders : entered'[i] >= entered[i],
           \A i \in DOMAIN orders : entered'[i] \in Nat
    PROVE  job' \in [Terminals -> JobType] /\ \A u \in Terminals : JobOK(u)'
  <1>1. job'[t] = Idle
    BY DEF Finish, PurchasesInv, TypeOK
  <1>2. JobOK(t)'
    BY <1>1 DEF JobOK, Idle
  <1> QED
    BY <1>2, IdleType, JobsStayUsable, Zenon DEF Finish

(* A handler that only read. *)
LEMMA StartStep ==
    ASSUME PurchasesInv, NEW t \in Terminals, NEW j \in JobType, Start(t, j),
           JobOK(t)'
    PROVE  PurchasesInv'
  <1>1. UNCHANGED <<orders, entered, payables, payments>>
    BY DEF Start, rows
  <1>2. \A i \in DOMAIN orders : entered'[i] \in Nat /\ entered'[i] >= entered[i]
    BY <1>1, RowTypes DEF PurchasesInv
  <1>3. job' \in [Terminals -> JobType] /\ \A u \in Terminals : JobOK(u)'
    BY <1>1, <1>2, JobsStayUsable, Zenon DEF Start
  <1>4. TypeOK'
    BY <1>1, <1>3 DEF PurchasesInv, TypeOK
  <1>5. ShownHasEntered' /\ PayableIsWhatEntered' /\ StatusTellsReception'
    BY <1>1 DEF PurchasesInv, ShownHasEntered, PayableIsWhatEntered,
                StatusTellsReception
  <1> QED
    BY <1>3, <1>4, <1>5 DEF PurchasesInv

-----------------------------------------------------------------------------
LEMMA InitInv == Init => PurchasesInv
  <1> SUFFICES ASSUME Init PROVE PurchasesInv
    OBVIOUS
  <1>1. /\ orders \in Seq(OrderType) /\ entered \in Seq(Nat)
        /\ payables \in Seq(PayableType)
        /\ payments \in Seq([rows : Nat, sum : Nat])
        /\ Len(orders) = 0 /\ Len(entered) = 0 /\ Len(payables) = 0
        /\ Len(payments) = 0 /\ DOMAIN orders = {}
    BY DEF Init
  <1>2. TypeOK
    BY <1>1, IdleType DEF Init, TypeOK
  <1>3. ShownHasEntered /\ PayableIsWhatEntered /\ StatusTellsReception
    BY <1>1, RowByRow
  <1>4. \A t \in Terminals : JobOK(t)
    BY Zenon DEF Init, JobOK, Idle
  <1> QED
    BY <1>2, <1>3, <1>4 DEF PurchasesInv

(* A new order has received nothing. *)
LEMMA CreateStep ==
    ASSUME PurchasesInv, NEW s \in Skus, NEW q \in Quantities, Create(s, q)
    PROVE  PurchasesInv'
  <1> DEFINE new == [sku |-> s, ordered |-> q, received |-> 0,
                     status |-> "Pendiente"]
             n == Len(orders) + 1
  <1>1. new \in OrderType
    BY PurchasesAssumption DEF OrderType, OrderStatus
  <1>2. /\ orders \in Seq(OrderType) /\ entered \in Seq(Nat)
        /\ payables \in Seq(PayableType)
        /\ payments \in Seq([rows : Nat, sum : Nat])
        /\ Len(entered) = Len(orders) /\ Len(payables) = Len(orders)
        /\ Len(payments) = Len(orders) /\ Len(orders) \in Nat
    BY RowTypes DEF PurchasesInv, TypeOK
  <1>3. /\ orders' = Append(orders, new) /\ entered' = Append(entered, 0)
        /\ payables' = Append(payables, NoPayable)
        /\ payments' = Append(payments, [rows |-> 0, sum |-> 0])
        /\ job' = job
    BY DEF Create
  <1>4. /\ orders' \in Seq(OrderType) /\ Len(orders') = n
        /\ \A i \in 1..Len(orders) : orders'[i] = orders[i]
        /\ orders'[n] = new
    BY <1>1, <1>2, <1>3, AppendProperties
  <1>5. /\ entered' \in Seq(Nat) /\ Len(entered') = n
        /\ \A i \in 1..Len(orders) : entered'[i] = entered[i]
        /\ entered'[n] = 0
    BY <1>2, <1>3, AppendProperties
  <1>6. /\ payables' \in Seq(PayableType) /\ Len(payables') = n
        /\ \A i \in 1..Len(orders) : payables'[i] = payables[i]
        /\ payables'[n] = NoPayable
    BY <1>2, <1>3, IdleType, AppendProperties
  <1>7. payments' \in Seq([rows : Nat, sum : Nat]) /\ Len(payments') = n
    BY <1>2, <1>3, AppendProperties
  <1>8. DOMAIN orders = 1..Len(orders) /\ DOMAIN orders' = 1..n
    BY <1>2, <1>4, LenProperties
  <1>9. TypeOK'
    BY <1>3, <1>4, <1>5, <1>6, <1>7 DEF PurchasesInv, TypeOK
  <1>10. RowOK(new, 0, NoPayable)
    <2>1. Cost[s] * 0 = 0
      BY PurchasesAssumption
    <2> QED
      BY <2>1, PurchasesAssumption DEF RowOK, NoPayable, OrderType
  <1>11. \A i \in DOMAIN orders : RowOK(orders[i], entered[i], payables[i])
    BY RowByRow DEF PurchasesInv
  <1>12. \A i \in 1..n : i = n \/ i \in 1..Len(orders)
    BY <1>2
  <1>13. \A i \in DOMAIN orders' : RowOK(orders'[i], entered'[i], payables'[i])
    BY <1>4, <1>5, <1>6, <1>8, <1>10, <1>11, <1>12
  <1>14. (ShownHasEntered /\ PayableIsWhatEntered /\ StatusTellsReception)'
    BY <1>13, RowByRow DEF RowOK, ShownHasEntered, PayableIsWhatEntered,
       StatusTellsReception
  <1>15. \A t \in Terminals : JobOK(t)'
    <2> TAKE t \in Terminals
    <2>1. JobOK(t) /\ job'[t] = job[t]
      BY <1>3 DEF PurchasesInv
    <2>2. \A i \in DOMAIN orders : i \in DOMAIN orders' /\ orders'[i] = orders[i]
                                   /\ entered'[i] = entered[i]
      BY <1>2, <1>4, <1>5, <1>8
    <2> QED
      BY <2>1, <2>2 DEF JobOK
  <1> QED
    BY <1>9, <1>14, <1>15 DEF PurchasesInv

(* What a reception, a cancellation or a payment writes to one order. *)
LEMMA RewriteRow ==
    ASSUME PurchasesInv, NEW i \in DOMAIN orders,
           NEW o \in OrderType, NEW e \in Nat, NEW p \in PayableType,
           NEW y \in [rows : Nat, sum : Nat],
           orders' = [orders EXCEPT ![i] = o],
           entered' = [entered EXCEPT ![i] = e],
           payables' = [payables EXCEPT ![i] = p],
           payments' = [payments EXCEPT ![i] = y],
           o.ordered = orders[i].ordered, e >= entered[i],
           RowOK(o, e, p),
           NEW t \in Terminals, Finish(t)
    PROVE  PurchasesInv'
  <1>1. /\ orders \in Seq(OrderType) /\ i \in 1..Len(orders)
        /\ entered \in Seq(Nat) /\ i \in 1..Len(entered)
        /\ payables \in Seq(PayableType) /\ i \in 1..Len(payables)
        /\ payments \in Seq([rows : Nat, sum : Nat]) /\ i \in 1..Len(payments)
    BY RowTypes DEF PurchasesInv, TypeOK
  <1>2. orders' \in Seq(OrderType) /\ Len(orders') = Len(orders)
    BY <1>1, ExceptSeq
  <1>3. entered' \in Seq(Nat) /\ Len(entered') = Len(entered)
    BY <1>1, ExceptSeq
  <1>4. payables' \in Seq(PayableType) /\ Len(payables') = Len(payables)
    BY <1>1, ExceptSeq
  <1>5. payments' \in Seq([rows : Nat, sum : Nat]) /\ Len(payments') = Len(payments)
    BY <1>1, ExceptSeq
  <1>6. /\ DOMAIN orders' = DOMAIN orders
        /\ DOMAIN entered = DOMAIN orders /\ DOMAIN payables = DOMAIN orders
    BY RowTypes DEF PurchasesInv
  <1>7. \A k \in DOMAIN orders :
           /\ orders'[k] = IF k = i THEN o ELSE orders[k]
           /\ entered'[k] = IF k = i THEN e ELSE entered[k]
           /\ payables'[k] = IF k = i THEN p ELSE payables[k]
    BY <1>6
  <1>8. \A k \in DOMAIN orders : RowOK(orders[k], entered[k], payables[k])
    BY RowByRow DEF PurchasesInv
  <1>9. \A k \in DOMAIN orders' : RowOK(orders'[k], entered'[k], payables'[k])
    BY <1>6, <1>7, <1>8
  <1>10. (ShownHasEntered /\ PayableIsWhatEntered /\ StatusTellsReception)'
    BY <1>9 DEF RowOK, ShownHasEntered, PayableIsWhatEntered,
                StatusTellsReception
  <1>11. \A k \in DOMAIN orders : entered[k] \in Nat
    BY RowTypes DEF PurchasesInv
  <1>12. \A k \in DOMAIN orders :
            /\ orders'[k].ordered = orders[k].ordered
            /\ entered'[k] \in Nat /\ entered'[k] >= entered[k]
    BY <1>7, <1>11
  <1>13. job' \in [Terminals -> JobType] /\ \A u \in Terminals : JobOK(u)'
    BY <1>6, <1>12, FinishStep
  <1>14. TypeOK'
    BY <1>2, <1>3, <1>4, <1>5, <1>13 DEF PurchasesInv, TypeOK
  <1> QED
    BY <1>10, <1>13, <1>14 DEF PurchasesInv

-----------------------------------------------------------------------------
(* The value of a delivery adds to the value of those before it. *)
LEMMA ValueAdds ==
    ASSUME NEW c \in Nat, NEW e \in Nat, NEW q \in Nat
    PROVE  c * (e + q) = c * e + c * q /\ c * q \in Nat
  OBVIOUS

(* A payable that grows. *)
LEMMA GrownPayable ==
    ASSUME NEW p \in PayableType, NEW value \in Nat, p.exists \/ p.amount = 0
    PROVE  /\ Grown(p, value) \in PayableType /\ Grown(p, value).exists
           /\ Grown(p, value).amount = p.amount + value
  <1>1. CASE p.exists
    <2>1. Grown(p, value) = [p EXCEPT !.amount = p.amount + value,
                                      !.balance = p.balance + value]
      BY <1>1 DEF Grown, PayableType
    <2>2. p.amount + value \in Nat /\ p.balance + value \in Nat
      BY DEF PayableType
    <2>3. [p EXCEPT !.amount = p.amount + value,
                    !.balance = p.balance + value] \in PayableType
      BY <2>2, Zenon DEF PayableType
    <2>4. /\ [p EXCEPT !.amount = p.amount + value,
                       !.balance = p.balance + value].amount = p.amount + value
          /\ [p EXCEPT !.amount = p.amount + value,
                       !.balance = p.balance + value].exists = p.exists
      BY Zenon DEF PayableType
    <2> QED
      BY <1>1, <2>1, <2>3, <2>4
  <1>2. CASE ~p.exists
    <2>1. Grown(p, value) = [exists |-> TRUE, amount |-> value, paid |-> 0,
                             balance |-> value, status |-> "Pendiente"]
      BY <1>2, Zenon DEF Grown, NoPayable
    <2> QED
      BY <1>2, <2>1 DEF PayableType
  <1> QED
    BY <1>1, <1>2

LEMMA ReceiveCommitStep ==
    ASSUME PurchasesInv, NEW t \in Terminals, ReceiveCommit(t)
    PROVE  PurchasesInv'
  <1> DEFINE j == job[t]
             i == j.id
             was == orders[i]
             o == [was EXCEPT !.received = Shown(j), !.status = StatusFor(i, Shown(j))]
             e == entered[i] + j.qty
             value == Cost[was.sku] * j.qty
             p == Grown(payables[i], value)
  <1>1. j.op = "receive" /\ j \in JobType
    BY RowTypes DEF ReceiveCommit, PurchasesInv
  <1>2. /\ i \in DOMAIN orders /\ j.qty > 0
        /\ j.received <= entered[i] /\ j.received + j.qty <= was.ordered
    BY <1>1 DEF PurchasesInv, JobOK
  <1>3. /\ was \in OrderType /\ entered[i] \in Nat
        /\ payables[i] \in PayableType /\ payments[i] \in [rows : Nat, sum : Nat]
        /\ RowOK(was, entered[i], payables[i])
    BY <1>2, RowTypes, RowByRow DEF PurchasesInv
  <1>4. j.qty \in Nat /\ j.received \in Nat /\ Cost[was.sku] \in Nat
    BY <1>1, <1>3, PurchasesAssumption DEF JobType, OrderType
  <1>5. value \in Nat /\ Cost[was.sku] * e = Cost[was.sku] * entered[i] + value
    BY <1>3, <1>4, ValueAdds
  <1>6. /\ o \in OrderType /\ o.ordered = was.ordered /\ o.sku = was.sku
        /\ o.received = j.received + j.qty
        /\ o.status = StatusFor(i, j.received + j.qty)
    <2>1. Shown(j) = j.received + j.qty /\ Shown(j) \in Nat
      BY <1>4 DEF Shown
    <2>2. StatusFor(i, Shown(j)) \in OrderStatus
      BY DEF StatusFor, OrderStatus
    <2>3. o = [was EXCEPT !.received = j.received + j.qty,
                          !.status = StatusFor(i, j.received + j.qty)]
      BY <2>1
    <2>4. StatusFor(i, j.received + j.qty) \in OrderStatus
      BY <2>1, <2>2
    <2>5. j.received + j.qty \in Nat
      BY <2>1
    <2>6. was \in OrderType
      BY <1>3
    <2> DEFINE r == j.received + j.qty
               s == StatusFor(i, r)
    <2>7. r \in Nat /\ s \in OrderStatus
      BY <2>4, <2>5
    <2>8. o = [was EXCEPT !.received = r, !.status = s]
      BY <2>3
    <2> HIDE DEF was, i, j, r, s, o
    <2>9. /\ o \in OrderType /\ o.ordered = was.ordered /\ o.sku = was.sku
          /\ o.received = r /\ o.status = s
      BY <2>6, <2>7, <2>8, Zenon DEF OrderType
    <2> QED
      BY <2>9 DEF r, s
  <1>7. /\ p \in PayableType /\ p.exists
        /\ p.amount = payables[i].amount + value
    <2>1. payables[i].exists \/ payables[i].amount = 0
      <3>1. Cost[was.sku] * 0 = 0
        BY <1>4
      <3>2. entered[i] = 0 \/ payables[i].exists
        BY <1>3 DEF RowOK
      <3> QED
        BY <1>3, <3>1, <3>2 DEF RowOK
    <2> QED
      BY <1>3, <1>5, <2>1, GrownPayable, Zenon
  <1>8. RowOK(o, e, p)
    <2>1. o.status = IF o.received < was.ordered THEN "Parcial" ELSE "Recibida"
      BY <1>6 DEF StatusFor
    <2>2. was.ordered \in Nat
      BY <1>3 DEF OrderType
    <2>3. o.received <= e /\ o.received <= o.ordered /\ o.received > 0
      BY <1>2, <1>3, <1>4, <1>6, <2>2
    <2>4. p.amount = Cost[o.sku] * e
      BY <1>3, <1>5, <1>6, <1>7 DEF RowOK
    <2>5. o.received \in Nat
      BY <1>4, <1>6
    <2>6. ~(o.received < was.ordered) => o.received = o.ordered
      BY <1>6, <2>2, <2>3, <2>5
    <2>7. o.status # "Pendiente"
      BY <2>1
    <2> QED
      BY <2>1, <2>3, <2>4, <2>6, <2>7, <1>6, <1>7 DEF RowOK
  <1>9. /\ entered' = [entered EXCEPT ![i] = e]
        /\ Finish(t)
    BY DEF ReceiveCommit
  <1>10. orders' = [orders EXCEPT ![i] = o]
    BY Zenon DEF ReceiveCommit
  <1>11. payables' = [payables EXCEPT ![i] = p]
    BY DEF ReceiveCommit
  <1>12. payments' = [payments EXCEPT ![i] = payments[i]]
    <2>1. payments' = payments
      BY DEF ReceiveCommit
    <2> QED
      BY <1>2, <2>1, RowTypes DEF PurchasesInv, TypeOK
  <1>13. e \in Nat /\ e >= entered[i]
    BY <1>3, <1>4
  <1> QED
    BY <1>2, <1>3, <1>6, <1>7, <1>8, <1>9, <1>10, <1>11, <1>12, <1>13, RewriteRow, Zenon

(* A status that is none of reception's: the order keeps what it received. *)
LEMMA CancelCommitStep ==
    ASSUME PurchasesInv, NEW t \in Terminals, CancelCommit(t)
    PROVE  PurchasesInv'
  <1> DEFINE i == job[t].id
             was == orders[i]
             o == [was EXCEPT !.status = "Cancelada"]
  <1>1. i \in DOMAIN orders
    BY DEF PurchasesInv, JobOK, CancelCommit
  <1>2. /\ was \in OrderType /\ entered[i] \in Nat
        /\ payables[i] \in PayableType /\ payments[i] \in [rows : Nat, sum : Nat]
        /\ RowOK(was, entered[i], payables[i])
    BY <1>1, RowTypes, RowByRow DEF PurchasesInv
  <1>3. /\ o \in OrderType /\ o.ordered = was.ordered /\ o.sku = was.sku
        /\ o.received = was.received /\ o.status = "Cancelada"
    <2> HIDE DEF was
    <2> QED
      BY <1>2 DEF OrderType, OrderStatus
  <1>4. RowOK(o, entered[i], payables[i])
    BY <1>2, <1>3 DEF RowOK
  <1>5. orders' = [orders EXCEPT ![i] = o] /\ Finish(t)
    BY DEF CancelCommit
  <1>6. /\ entered' = [entered EXCEPT ![i] = entered[i]]
        /\ payables' = [payables EXCEPT ![i] = payables[i]]
        /\ payments' = [payments EXCEPT ![i] = payments[i]]
    <2>1. UNCHANGED <<entered, payables, payments>>
      BY DEF CancelCommit
    <2> QED
      BY <1>1, <2>1, RowTypes DEF PurchasesInv, TypeOK
  <1>7. entered[i] >= entered[i]
    BY <1>2
  <1> QED
    BY <1>1, <1>2, <1>3, <1>4, <1>5, <1>6, <1>7, RewriteRow, Zenon

(* A payment leaves the amount of the payable alone. *)
LEMMA PayCommitStep ==
    ASSUME PurchasesInv, NEW t \in Terminals, PayCommit(t)
    PROVE  PurchasesInv'
  <1> DEFINE j == job[t]
             i == j.id
             was == payables[i]
             new == Paid(j.payable, j.qty)
             p == [was EXCEPT !.paid = new.paid, !.balance = new.balance,
                              !.status = new.status]
             y == [payments[i] EXCEPT !.rows = @ + 1, !.sum = @ + j.qty]
  <1>1. i \in DOMAIN orders /\ j \in JobType
    BY RowTypes DEF PurchasesInv, JobOK, PayCommit
  <1>2. /\ orders[i] \in OrderType /\ entered[i] \in Nat
        /\ was \in PayableType /\ payments[i] \in [rows : Nat, sum : Nat]
        /\ RowOK(orders[i], entered[i], was)
    BY <1>1, RowTypes, RowByRow DEF PurchasesInv
  <1>3. j.payable \in PayableType /\ j.qty \in Nat
    BY <1>1 DEF JobType
  <1>4. /\ new.paid \in Nat /\ new.balance \in Nat
        /\ new.status \in {"Pendiente", "Pagada"}
    BY <1>3 DEF Paid, Settles, PayableType
  <1>5. p \in PayableType /\ p.amount = was.amount /\ p.exists = was.exists
    <2> HIDE DEF was, new
    <2> QED
      BY <1>2, <1>4, Zenon DEF PayableType
  <1>6. y \in [rows : Nat, sum : Nat]
    <2>1. payments[i].rows + 1 \in Nat /\ payments[i].sum + j.qty \in Nat
      BY <1>2, <1>3
    <2> HIDE DEF i, j
    <2> QED
      BY <1>2, <2>1, Zenon
  <1>7. RowOK(orders[i], entered[i], p)
    BY <1>2, <1>5 DEF RowOK
  <1>8. Finish(t)
    BY DEF PayCommit
  <1>9. payables' = [payables EXCEPT ![i] = p]
    BY Zenon DEF PayCommit
  <1>10. payments' = [payments EXCEPT ![i] = y]
    BY Zenon DEF PayCommit
  <1>11. /\ orders' = [orders EXCEPT ![i] = orders[i]]
         /\ entered' = [entered EXCEPT ![i] = entered[i]]
    <2>1. UNCHANGED <<orders, entered>>
      BY DEF PayCommit
    <2> QED
      BY <1>1, <2>1, RowTypes DEF PurchasesInv, TypeOK
  <1>12. entered[i] >= entered[i]
    BY <1>2
  <1> QED
    BY <1>1, <1>2, <1>5, <1>6, <1>7, <1>8, <1>9, <1>10, <1>11, <1>12, RewriteRow, Zenon

(* The handlers that only read, and the one that stops. *)
LEMMA ReadSteps ==
    ASSUME PurchasesInv, NEW t \in Terminals, NEW i \in DOMAIN orders
    PROVE  /\ \A q \in 1..orders[i].ordered : ReceiveCheck(t, i, q) => PurchasesInv'
           /\ CancelCheck(t, i) => PurchasesInv'
           /\ \A a \in Amounts : PayCheck(t, i, a) => PurchasesInv'
  <1>1. /\ orders[i] \in OrderType /\ entered[i] \in Nat
        /\ payables[i] \in PayableType /\ i \in Nat
        /\ job \in [Terminals -> JobType]
    BY RowTypes DEF PurchasesInv, TypeOK
  <1>2. ASSUME NEW q \in 1..orders[i].ordered, ReceiveCheck(t, i, q)
        PROVE  PurchasesInv'
    <2> DEFINE j == [Idle EXCEPT !.op = "receive", !.id = i, !.qty = q,
                                 !.received = orders[i].received]
    <2>1. Start(t, j) /\ orders[i].received + q <= orders[i].ordered
      BY <1>2 DEF ReceiveCheck
    <2>2. /\ orders[i].received \in Nat /\ q \in Nat /\ q > 0
          /\ orders[i].received <= entered[i]
      BY <1>1 DEF OrderType, PurchasesInv, ShownHasEntered
    <2>3. j \in JobType
      BY <1>1, <2>2, IdleType, Zenon DEF JobType, Idle
    <2>4. job'[t] = j /\ UNCHANGED <<orders, entered>>
      BY <1>1, <2>1 DEF Start, rows
    <2>5. JobOK(t)'
      BY <2>1, <2>2, <2>4 DEF JobOK, Idle
    <2> QED
      BY <2>1, <2>3, <2>5, StartStep
  <1>3. ASSUME CancelCheck(t, i) PROVE PurchasesInv'
    <2> DEFINE j == [Idle EXCEPT !.op = "cancel", !.id = i]
    <2>1. Start(t, j)
      BY <1>3 DEF CancelCheck
    <2>2. j \in JobType
      BY <1>1, IdleType, Zenon DEF JobType, Idle
    <2>3. JobOK(t)'
      BY <1>1, <2>1 DEF Start, rows, JobOK, Idle
    <2> QED
      BY <2>1, <2>2, <2>3, StartStep
  <1>4. ASSUME NEW a \in Amounts, PayCheck(t, i, a) PROVE PurchasesInv'
    <2> DEFINE j == [Idle EXCEPT !.op = "pay", !.id = i, !.qty = a,
                                 !.payable = payables[i]]
    <2>1. Start(t, j)
      BY <1>4 DEF PayCheck
    <2>2. j \in JobType
      BY <1>1, PurchasesAssumption, IdleType, Zenon DEF JobType, Idle
    <2>3. JobOK(t)'
      BY <1>1, <2>1 DEF Start, rows, JobOK, Idle
    <2> QED
      BY <2>1, <2>2, <2>3, StartStep
  <1> QED
    BY <1>2, <1>3, <1>4

LEMMA AbandonStep ==
    ASSUME PurchasesInv, NEW t \in Terminals, Abandon(t)
    PROVE  PurchasesInv'
  <1>1. UNCHANGED <<orders, entered, payables, payments>> /\ Finish(t)
    BY DEF Abandon, rows
  <1>2. \A i \in DOMAIN orders : entered'[i] \in Nat /\ entered'[i] >= entered[i]
    BY <1>1, RowTypes DEF PurchasesInv
  <1>3. job' \in [Terminals -> JobType] /\ \A u \in Terminals : JobOK(u)'
    BY <1>1, <1>2, FinishStep
  <1> QED
    BY <1>1, <1>3 DEF PurchasesInv, TypeOK, ShownHasEntered,
                      PayableIsWhatEntered, StatusTellsReception

LEMMA NextInv == PurchasesInv /\ [Next]_vars => PurchasesInv'
  <1> SUFFICES ASSUME PurchasesInv, [Next]_vars PROVE PurchasesInv'
    OBVIOUS
  <1>1. CASE UNCHANGED vars
    BY <1>1 DEF vars, rows, PurchasesInv, TypeOK, ShownHasEntered,
                PayableIsWhatEntered, StatusTellsReception, JobOK
  <1>2. CASE \E s \in Skus, q \in Quantities : Create(s, q)
    BY <1>2, CreateStep
  <1>3. ASSUME NEW t \in Terminals, Handler(t) PROVE PurchasesInv'
    BY <1>3, ReadSteps, ReceiveCommitStep, CancelCommitStep, PayCommitStep,
       AbandonStep DEF Handler
  <1> QED
    BY <1>1, <1>2, <1>3 DEF Next

-----------------------------------------------------------------------------
(* Under any interleaving of receptions, cancellations and payments the
   inductive invariant holds. *)
THEOREM PurchasesInvariant == Spec => []PurchasesInv
  <1>1. Init => PurchasesInv
    BY InitInv
  <1>2. PurchasesInv /\ [Next]_vars => PurchasesInv'
    BY NextInv
  <1> QED
    BY <1>1, <1>2, PTL DEF Spec

(* No order shows more than entered for it, or than was ordered. *)
THEOREM ShownEntered == Spec => []ShownHasEntered
  <1>1. PurchasesInv => ShownHasEntered
    BY DEF PurchasesInv
  <1> QED
    BY <1>1, PurchasesInvariant, PTL

(* Two receptions and a payment at once leave the payable's amount the value
   of what entered. *)
THEOREM PayableFollowsStock == Spec => []PayableIsWhatEntered
  <1>1. PurchasesInv => PayableIsWhatEntered
    BY DEF PurchasesInv
  <1> QED
    BY <1>1, PurchasesInvariant, PTL

(* The status of an order agrees with what it shows as received. *)
THEOREM StatusFollowsReception == Spec => []StatusTellsReception
  <1>1. PurchasesInv => StatusTellsReception
    BY DEF PurchasesInv
  <1> QED
    BY <1>1, PurchasesInvariant, PTL

-----------------------------------------------------------------------------
(* An order that no two handlers have had at once.  What entered, what it
   shows, its payable and its payments agree; and the one handler that may have
   it has read what is still there. *)
AloneOK(o, e, p, y) ==
    /\ e = o.received
    /\ o.status = "Cancelada" => e = 0
    /\ p.exists <=> e > 0
    /\ p.paid = y.sum /\ (~p.exists => p.paid = 0)
    /\ p.paid + p.balance - p.amount \in -y.rows..y.rows

StillReads(j, o, p) ==
    /\ j.op = "receive" => j.received = o.received /\ o.status \notin {"Recibida", "Cancelada"}
    /\ j.op = "cancel" => o.status \notin {"Recibida", "Parcial"}
    /\ j.op = "pay" => p.exists /\ j.payable = p /\ j.qty <= p.balance + 1

OrderAlone(i) ==
    /\ AloneOK(orders[i], entered[i], payables[i], payments[i])
    /\ \A t \in Terminals : job[t].id = i =>
          /\ StillReads(job[t], orders[i], payables[i])
          /\ \A u \in Terminals : job[u].id = i => u = t

OrdersInv ==
    /\ PurchasesInv
    /\ overlapped \subseteq DOMAIN orders
    /\ \A t \in Terminals : job[t].op = "idle" => job[t].id = 0
    /\ \A i \in Alone : OrderAlone(i)

LEMMA IdleIsNobodys == Idle.id = 0 /\ Idle.op = "idle"
  BY DEF Idle

(* An order whose row stands, and that no handler takes up. *)
LEMMA LeftAlone ==
    ASSUME OrdersInv, NEW i \in Alone,
           orders'[i] = orders[i], entered'[i] = entered[i],
           payables'[i] = payables[i], payments'[i] = payments[i],
           \A u \in Terminals : job'[u].id = i => job'[u] = job[u]
    PROVE  OrderAlone(i)'
  BY DEF OrdersInv, OrderAlone

(* A handler takes up an order it has just read. *)
LEMMA OrdersRead ==
    ASSUME OrdersInv, PurchasesInv', NEW t \in Terminals, NEW i \in DOMAIN orders,
           NEW j \in JobType, Start(t, j), j.op # "idle", j.id = i,
           StillReads(j, orders[i], payables[i]),
           overlapped' = overlapped \cup {k \in DOMAIN orders : Overlaps(k)}
    PROVE  OrdersInv'
<1>1. job \in [Terminals -> JobType] /\ UNCHANGED <<orders, entered, payables, payments>>
  BY DEF OrdersInv, PurchasesInv, TypeOK, Start, rows
<1>2. job'[t] = j /\ \A u \in Terminals : u # t => job'[u] = job[u]
  BY <1>1 DEF Start
<1>3. ASSUME NEW k \in Alone' PROVE OrderAlone(k)'
  <2>1. k \in Alone /\ ~Overlaps(k)
    BY <1>1, <1>3 DEF Alone
  <2>2. CASE k # i
    BY <1>1, <1>2, <2>1, <2>2, LeftAlone
  <2>3. CASE k = i
    <3>1. \A u \in Terminals : job'[u].id = k => u = t
      BY <1>2, <2>1, <2>3 DEF Overlaps
    <3>2. AloneOK(orders[k], entered[k], payables[k], payments[k])
      BY <2>1 DEF OrdersInv, OrderAlone
    <3> QED  BY <1>1, <1>2, <2>3, <3>1, <3>2 DEF OrderAlone
  <2> QED  BY <2>2, <2>3
<1>4. \A u \in Terminals : job'[u].op = "idle" => job'[u].id = 0
  BY <1>2 DEF OrdersInv
<1>5. overlapped' \subseteq DOMAIN orders'
  BY <1>1 DEF OrdersInv
<1> QED  BY <1>3, <1>4, <1>5 DEF OrdersInv

(* A handler ends, with what it wrote to its order. *)
LEMMA OrdersEnd ==
    ASSUME OrdersInv, PurchasesInv', NEW t \in Terminals, NEW i \in DOMAIN orders,
           job[t].id = i, Finish(t), DOMAIN orders' = DOMAIN orders,
           \A k \in DOMAIN orders : k # i =>
              /\ orders'[k] = orders[k] /\ entered'[k] = entered[k]
              /\ payables'[k] = payables[k] /\ payments'[k] = payments[k],
           i \in Alone => AloneOK(orders'[i], entered'[i], payables'[i], payments'[i]),
           overlapped' = overlapped \cup {k \in DOMAIN orders : Overlaps(k)}
    PROVE  OrdersInv'
<1>1. job \in [Terminals -> JobType] /\ \A k \in DOMAIN orders : k # 0
  <2>1. DOMAIN orders = 1..Len(orders) /\ Len(orders) \in Nat
    BY RowTypes DEF OrdersInv, PurchasesInv
  <2>2. \A k \in DOMAIN orders : k # 0
    BY <2>1
  <2> QED  BY <2>2 DEF OrdersInv, PurchasesInv, TypeOK
<1>2. job'[t] = Idle /\ \A u \in Terminals : u # t => job'[u] = job[u]
  BY <1>1 DEF Finish
<1>3. ASSUME NEW k \in Alone' PROVE OrderAlone(k)'
  <2>1. k \in Alone /\ k \in DOMAIN orders
    BY <1>3 DEF Alone
  <2>2. job'[t].id # k
    BY <1>1, <1>2, <2>1, IdleIsNobodys
  <2>3. CASE k # i
    BY <1>2, <2>1, <2>2, <2>3, LeftAlone
  <2>4. CASE k = i
    <3>1. \A u \in Terminals : job[u].id = k => u = t
      BY <2>1, <2>4 DEF OrdersInv, OrderAlone
    <3>2. \A u \in Terminals : job'[u].id # k
      BY <1>2, <2>2, <3>1
    <3> QED  BY <2>1, <2>4, <3>2 DEF OrderAlone
  <2> QED  BY <2>3, <2>4
<1>4. \A u \in Terminals : job'[u].op = "idle" => job'[u].id = 0
  BY <1>2, IdleIsNobodys DEF OrdersInv
<1>5. overlapped' \subseteq DOMAIN orders'
  BY DEF OrdersInv
<1> QED  BY <1>3, <1>4, <1>5 DEF OrdersInv

LEMMA GrownBalance ==
    ASSUME NEW p \in PayableType, NEW value \in Nat
    PROVE  /\ p.exists => /\ Grown(p, value).balance = p.balance + value
                          /\ Grown(p, value).paid = p.paid
           /\ ~p.exists => Grown(p, value).balance = value /\ Grown(p, value).paid = 0
<1>1. CASE p.exists
  <2> DEFINE a == p.amount + value
             b == p.balance + value
  <2>1. Grown(p, value) = [p EXCEPT !.amount = a, !.balance = b]
    BY <1>1 DEF Grown, PayableType
  <2> HIDE DEF a, b
  <2>2. Grown(p, value).balance = b /\ Grown(p, value).paid = p.paid
    BY <2>1 DEF PayableType
  <2> QED  BY <1>1, <2>2 DEF b
<1>2. CASE ~p.exists
  BY <1>2 DEF Grown, NoPayable
<1> QED  BY <1>1, <1>2

(* The only reception of an order adds to what the order shows. *)
LEMMA OrdersReceive ==
    ASSUME OrdersInv, NEW t \in Terminals, ReceiveCommit(t), PurchasesInv',
           overlapped' = overlapped \cup {k \in DOMAIN orders : Overlaps(k)}
    PROVE  /\ OrdersInv'
           /\ \A k \in Alone : orders[k].status = "Cancelada" => orders'[k] = orders[k]
<1> DEFINE j == job[t]
           i == j.id
           was == orders[i]
           o == [was EXCEPT !.received = Shown(j), !.status = StatusFor(i, Shown(j))]
           e == entered[i] + j.qty
           value == Cost[was.sku] * j.qty
           p == Grown(payables[i], value)
<1>1. j.op = "receive" /\ j \in JobType /\ i \in DOMAIN orders /\ j.qty > 0
  BY RowTypes DEF ReceiveCommit, OrdersInv, PurchasesInv, JobOK
<1>2. /\ was \in OrderType /\ entered[i] \in Nat /\ payables[i] \in PayableType
      /\ payments[i] \in [rows : Nat, sum : Nat]
      /\ DOMAIN entered = DOMAIN orders /\ DOMAIN payables = DOMAIN orders
      /\ RowOK(was, entered[i], payables[i])
  BY <1>1, RowTypes, RowByRow DEF OrdersInv, PurchasesInv
<1>3. /\ orders' = [orders EXCEPT ![i] = o] /\ entered' = [entered EXCEPT ![i] = e]
      /\ payables' = [payables EXCEPT ![i] = p] /\ payments' = payments /\ Finish(t)
  BY Zenon DEF ReceiveCommit
<1>4. j.qty \in Nat /\ j.received \in Nat /\ Cost[was.sku] \in Nat /\ value \in Nat
  <2>1. j.qty \in Nat /\ j.received \in Nat /\ Cost[was.sku] \in Nat
    BY <1>1, <1>2, PurchasesAssumption DEF JobType, OrderType
  <2> QED  BY <2>1, ValueAdds
<1>5. /\ o.received = j.received + j.qty
      /\ o.status # "Cancelada"
  <2>1. Shown(j) = j.received + j.qty /\ StatusFor(i, Shown(j)) # "Cancelada"
    BY <1>4 DEF Shown, StatusFor
  <2>2. PICK r, s : r = Shown(j) /\ s = StatusFor(i, Shown(j))
    OBVIOUS
  <2>3. o = [was EXCEPT !.received = r, !.status = s] /\ was \in OrderType
    BY <1>2, <2>2
  <2> HIDE DEF was, i, j, o
  <2>4. o.received = r /\ o.status = s
    BY <2>3 DEF OrderType
  <2> QED  BY <2>1, <2>2, <2>4
<1>6. payables[i].exists \/ payables[i].amount = 0
  <2>1. Cost[was.sku] * 0 = 0
    BY <1>4
  <2>2. entered[i] = 0 \/ payables[i].exists
    BY <1>2 DEF RowOK
  <2> QED  BY <1>2, <2>1, <2>2 DEF RowOK
<1>7. /\ p.exists /\ p.amount = payables[i].amount + value
      /\ payables[i].exists => p.balance = payables[i].balance + value
                               /\ p.paid = payables[i].paid
      /\ ~payables[i].exists => p.balance = value /\ p.paid = 0
  BY <1>2, <1>4, <1>6, GrownPayable, GrownBalance, Zenon
<1> HIDE DEF o, e, p
<1>8. /\ orders'[i] = o /\ entered'[i] = e /\ payables'[i] = p /\ payments'[i] = payments[i]
      /\ DOMAIN orders' = DOMAIN orders
      /\ \A k \in DOMAIN orders : k # i =>
            /\ orders'[k] = orders[k] /\ entered'[k] = entered[k]
            /\ payables'[k] = payables[k] /\ payments'[k] = payments[k]
  BY <1>1, <1>2, <1>3
<1>9. ASSUME i \in Alone
      PROVE  AloneOK(o, e, p, payments[i]) /\ was.status # "Cancelada"
  <2>1. /\ AloneOK(was, entered[i], payables[i], payments[i])
        /\ StillReads(j, was, payables[i])
    BY <1>9 DEF OrdersInv, OrderAlone
  <2>2. e = o.received /\ e > 0 /\ was.status # "Cancelada"
    BY <1>1, <1>2, <1>4, <1>5, <2>1 DEF AloneOK, StillReads, e
  <2> DEFINE q == payables[i]
             y == payments[i]
  <2>3. /\ q.paid \in Nat /\ q.balance \in Nat /\ q.amount \in Nat /\ y.rows \in Nat
        /\ y.sum \in Nat
    BY <1>2 DEF PayableType
  <2>4. /\ q.paid = y.sum /\ (~q.exists => q.paid = 0)
        /\ q.paid + q.balance - q.amount \in -y.rows..y.rows
    BY <2>1 DEF AloneOK
  <2> HIDE DEF q, y
  <2>5. p.paid = y.sum /\ p.paid + p.balance - p.amount \in -y.rows..y.rows
    <3>1. CASE payables[i].exists
      <4>1. p.paid = q.paid /\ p.balance = q.balance + value /\ p.amount = q.amount + value
        BY <1>7, <3>1 DEF q
      <4>2. p.paid + p.balance - p.amount = q.paid + q.balance - q.amount
        BY <1>4, <2>3, <4>1
      <4> QED  BY <2>4, <4>1, <4>2
    <3>2. CASE ~payables[i].exists
      <4>1. p.paid = 0 /\ p.balance = value /\ p.amount = value /\ q.paid = 0
        BY <1>4, <1>6, <1>7, <2>4, <3>2 DEF q
      <4> HIDE DEF value
      <4> QED  BY <1>4, <2>3, <2>4, <4>1
    <3> QED  BY <3>1, <3>2
  <2> QED  BY <1>5, <1>7, <2>2, <2>5 DEF AloneOK, y
<1>10. OrdersInv'
  BY <1>1, <1>3, <1>8, <1>9, OrdersEnd
<1> QED  BY <1>8, <1>9, <1>10 DEF Alone

(* The only cancellation finds an order that has received nothing. *)
LEMMA OrdersCancel ==
    ASSUME OrdersInv, NEW t \in Terminals, CancelCommit(t), PurchasesInv',
           overlapped' = overlapped \cup {k \in DOMAIN orders : Overlaps(k)}
    PROVE  /\ OrdersInv'
           /\ \A k \in Alone : orders[k].status = "Cancelada" => orders'[k] = orders[k]
<1> DEFINE i == job[t].id
           was == orders[i]
           o == [was EXCEPT !.status = "Cancelada"]
<1>1. i \in DOMAIN orders /\ job[t].op = "cancel"
  BY DEF OrdersInv, PurchasesInv, JobOK, CancelCommit
<1>2. /\ was \in OrderType /\ entered[i] \in Nat
      /\ RowOK(was, entered[i], payables[i])
  BY <1>1, RowTypes, RowByRow DEF OrdersInv, PurchasesInv
<1>3. /\ orders' = [orders EXCEPT ![i] = o] /\ Finish(t)
      /\ UNCHANGED <<entered, payables, payments>>
  BY DEF CancelCommit
<1>4. o.received = was.received /\ o.status = "Cancelada"
      /\ (was.status = "Cancelada" => o = was)
  <2> HIDE DEF was
  <2> QED  BY <1>2 DEF OrderType
<1> HIDE DEF o
<1>5. /\ orders'[i] = o /\ DOMAIN orders' = DOMAIN orders
      /\ \A k \in DOMAIN orders : k # i => orders'[k] = orders[k]
  BY <1>1, <1>3
<1>6. i \in Alone => AloneOK(o, entered[i], payables[i], payments[i])
  <2> SUFFICES ASSUME i \in Alone PROVE AloneOK(o, entered[i], payables[i], payments[i])
    OBVIOUS
  <2>1. /\ AloneOK(was, entered[i], payables[i], payments[i])
        /\ StillReads(job[t], was, payables[i])
    BY DEF OrdersInv, OrderAlone
  <2>2. was.status \in {"Pendiente", "Cancelada"}
    BY <1>1, <1>2, <2>1 DEF StillReads, OrderType, OrderStatus
  <2>3. entered[i] = 0
    BY <1>2, <2>1, <2>2 DEF AloneOK, RowOK
  <2> QED  BY <1>4, <2>1, <2>3 DEF AloneOK
<1>7. OrdersInv'
  BY <1>1, <1>3, <1>5, <1>6, OrdersEnd
<1> QED  BY <1>4, <1>5, <1>7 DEF Alone

(* The only payment settles what its snapshot shows, give or take a cent. *)
LEMMA OrdersPay ==
    ASSUME OrdersInv, NEW t \in Terminals, PayCommit(t), PurchasesInv',
           overlapped' = overlapped \cup {k \in DOMAIN orders : Overlaps(k)}
    PROVE  OrdersInv'
<1> DEFINE j == job[t]
           i == j.id
           was == payables[i]
           new == Paid(j.payable, j.qty)
           p == [was EXCEPT !.paid = new.paid, !.balance = new.balance,
                            !.status = new.status]
           y == [payments[i] EXCEPT !.rows = @ + 1, !.sum = @ + j.qty]
<1>1. i \in DOMAIN orders /\ j \in JobType /\ j.op = "pay"
  BY RowTypes, Zenon DEF OrdersInv, PurchasesInv, JobOK, PayCommit
<1>2. /\ was \in PayableType /\ payments[i] \in [rows : Nat, sum : Nat]
      /\ DOMAIN payables = DOMAIN orders /\ DOMAIN payments = DOMAIN orders
  BY <1>1, RowTypes DEF OrdersInv, PurchasesInv
<1>3. j.qty \in Nat
  BY <1>1 DEF JobType
<1>4. /\ payables' = [payables EXCEPT ![i] = p] /\ Finish(t)
      /\ payments' = [payments EXCEPT ![i] = y] /\ UNCHANGED <<orders, entered>>
  BY Zenon DEF PayCommit
<1>5. y.rows = payments[i].rows + 1 /\ y.sum = payments[i].sum + j.qty
  <2>1. PICK r : r = payments[i]
    OBVIOUS
  <2>2. PICK n : n = j.qty
    OBVIOUS
  <2>3. y = [r EXCEPT !.rows = r.rows + 1, !.sum = r.sum + n]
    BY <2>1, <2>2
  <2> HIDE DEF y, j, i
  <2> QED  BY <1>2, <2>1, <2>2, <2>3
<1>6. /\ p.paid = new.paid /\ p.balance = new.balance /\ p.amount = was.amount
      /\ p.exists = was.exists
  <2> HIDE DEF was, new
  <2> QED  BY <1>2 DEF PayableType
<1> HIDE DEF p, y
<1>7. /\ payables'[i] = p /\ payments'[i] = y
      /\ \A k \in DOMAIN orders : k # i => payables'[k] = payables[k]
                                           /\ payments'[k] = payments[k]
  BY <1>1, <1>2, <1>4
<1>8. ASSUME i \in Alone PROVE AloneOK(orders[i], entered[i], p, y)
  <2>1. /\ AloneOK(orders[i], entered[i], was, payments[i])
        /\ was.exists /\ j.payable = was /\ j.qty <= was.balance + 1
    BY <1>1, <1>8 DEF OrdersInv, OrderAlone, StillReads
  <2>2. /\ was.paid \in Nat /\ was.balance \in Nat /\ was.amount \in Nat
        /\ payments[i].rows \in Nat /\ payments[i].sum \in Nat
    BY <1>2 DEF PayableType
  <2>3. p.paid = was.paid + j.qty
        /\ p.balance = IF was.balance - j.qty <= 1 THEN 0 ELSE was.balance - j.qty
    BY <1>6, <2>1 DEF Paid, Settles
  <2>4. /\ was.paid = payments[i].sum
        /\ was.paid + was.balance - was.amount \in -payments[i].rows..payments[i].rows
    BY <2>1 DEF AloneOK
  <2>5. p.paid + p.balance - p.amount \in -y.rows..y.rows /\ p.paid = y.sum
    <3> DEFINE a == was.paid
               b == was.balance
               c == was.amount
               r == payments[i].rows
               q == j.qty
    <3>1. a \in Nat /\ b \in Nat /\ c \in Nat /\ r \in Nat /\ q \in Nat /\ q <= b + 1
          /\ a + b - c \in -r..r /\ y.rows = r + 1 /\ p.paid = a + q /\ p.amount = c
          /\ p.balance = IF b - q <= 1 THEN 0 ELSE b - q
      BY <1>3, <1>5, <1>6, <2>1, <2>2, <2>3, <2>4
    <3>2. p.paid = y.sum
      BY <1>5, <2>3, <2>4
    <3> HIDE DEF a, b, c, r, q
    <3>3. -r <= a + b - c /\ a + b - c <= r
      BY <3>1
    <3>4. p.paid + p.balance - p.amount \in Int
          /\ -(r + 1) <= p.paid + p.balance - p.amount
          /\ p.paid + p.balance - p.amount <= r + 1
      BY <3>1, <3>3
    <3> QED  BY <3>1, <3>2, <3>4
  <2> QED  BY <1>6, <2>1, <2>5 DEF AloneOK
<1> QED  BY <1>1, <1>4, <1>7, <1>8, OrdersEnd

(* A new order is nobody's yet. *)
LEMMA OrdersCreate ==
    ASSUME OrdersInv, NEW s \in Skus, NEW q \in Quantities, Create(s, q), PurchasesInv',
           overlapped' = overlapped \cup {k \in DOMAIN orders : Overlaps(k)}
    PROVE  /\ OrdersInv'
           /\ \A k \in DOMAIN orders : orders'[k] = orders[k]
<1> DEFINE new == [sku |-> s, ordered |-> q, received |-> 0, status |-> "Pendiente"]
           n == Len(orders) + 1
           y == [rows |-> 0, sum |-> 0]
<1>1. new \in OrderType /\ y \in [rows : Nat, sum : Nat]
  BY PurchasesAssumption DEF OrderType, OrderStatus
<1>2. /\ orders \in Seq(OrderType) /\ entered \in Seq(Nat)
      /\ payables \in Seq(PayableType) /\ payments \in Seq([rows : Nat, sum : Nat])
      /\ Len(entered) = Len(orders) /\ Len(payables) = Len(orders)
      /\ Len(payments) = Len(orders) /\ Len(orders) \in Nat
      /\ DOMAIN orders = 1..Len(orders)
  BY RowTypes DEF OrdersInv, PurchasesInv, TypeOK
<1>3. /\ orders' = Append(orders, new) /\ entered' = Append(entered, 0)
      /\ payables' = Append(payables, NoPayable) /\ payments' = Append(payments, y)
      /\ job' = job
  BY DEF Create
<1>4. new.received = 0 /\ new.status = "Pendiente" /\ y.sum = 0 /\ y.rows = 0
  OBVIOUS
<1> HIDE DEF new, y
<1>5. /\ \A k \in 1..Len(orders) : orders'[k] = orders[k]
      /\ orders'[n] = new /\ Len(orders') = n /\ orders' \in Seq(OrderType)
  BY <1>1, <1>2, <1>3, AppendProperties
<1>6. /\ \A k \in 1..Len(orders) : entered'[k] = entered[k]
      /\ entered'[n] = 0
  BY <1>2, <1>3, AppendProperties
<1>7. /\ \A k \in 1..Len(orders) : payables'[k] = payables[k]
      /\ payables'[n] = NoPayable
  BY <1>2, <1>3, IdleType, AppendProperties
<1>8. /\ \A k \in 1..Len(orders) : payments'[k] = payments[k]
      /\ payments'[n] = y
  BY <1>1, <1>2, <1>3, AppendProperties
<1>9. DOMAIN orders' = 1..n /\ \A k \in 1..n : k = n \/ k \in 1..Len(orders)
  BY <1>2, <1>5, LenProperties
<1>10. \A u \in Terminals : job[u].id # n
  BY <1>2 DEF OrdersInv, PurchasesInv, JobOK
<1>11. AloneOK(orders'[n], entered'[n], payables'[n], payments'[n])
  <2>1. NoPayable.paid = 0 /\ NoPayable.balance = 0 /\ NoPayable.amount = 0
        /\ NoPayable.exists = FALSE
    BY DEF NoPayable
  <2>2. 0 + 0 - 0 \in -0..0
    OBVIOUS
  <2> QED  BY <1>4, <1>5, <1>6, <1>7, <1>8, <2>1, <2>2 DEF AloneOK
<1>12. ASSUME NEW k \in Alone' PROVE OrderAlone(k)'
  <2>1. CASE k = n
    BY <1>3, <1>10, <1>11, <2>1, Zenon DEF OrderAlone
  <2>2. CASE k # n
    <3>1. k \in 1..Len(orders) /\ k \notin overlapped
      BY <1>9, <1>12, <2>2 DEF Alone
    <3>2. k \in Alone
      BY <1>2, <3>1 DEF Alone
    <3> QED  BY <1>3, <1>5, <1>6, <1>7, <1>8, <3>1, <3>2, LeftAlone, Zenon
  <2> QED  BY <2>1, <2>2
<1>13. overlapped' \subseteq DOMAIN orders'
  BY <1>2, <1>9 DEF OrdersInv
<1>14. \A u \in Terminals : job'[u].op = "idle" => job'[u].id = 0
  BY <1>3 DEF OrdersInv
<1> QED  BY <1>2, <1>5, <1>12, <1>13, <1>14 DEF OrdersInv

LEMMA OrdersReads ==
    ASSUME OrdersInv, NEW t \in Terminals, NEW i \in DOMAIN orders, PurchasesInv',
           overlapped' = overlapped \cup {k \in DOMAIN orders : Overlaps(k)},
           \/ \E q \in 1..orders[i].ordered : ReceiveCheck(t, i, q)
           \/ CancelCheck(t, i)
           \/ \E a \in Amounts : PayCheck(t, i, a)
    PROVE  OrdersInv'
<1>1. /\ orders[i] \in OrderType /\ payables[i] \in PayableType /\ i \in Nat
  BY RowTypes DEF OrdersInv, PurchasesInv
<1>2. ASSUME NEW q \in 1..orders[i].ordered, ReceiveCheck(t, i, q) PROVE OrdersInv'
  <2> DEFINE j == [Idle EXCEPT !.op = "receive", !.id = i, !.qty = q,
                               !.received = orders[i].received]
  <2>1. Start(t, j) /\ Receivable(i)
    BY <1>2, Zenon DEF ReceiveCheck
  <2>2. orders[i].received \in Nat /\ q \in Nat
    BY <1>1 DEF OrderType
  <2>3. j \in JobType
    BY <1>1, <2>2, IdleType, Zenon DEF JobType, Idle
  <2>4. j.op = "receive" /\ j.id = i /\ j.received = orders[i].received
    BY DEF Idle
  <2> HIDE DEF j
  <2>5. StillReads(j, orders[i], payables[i])
    BY <2>1, <2>4 DEF StillReads, Receivable
  <2> QED  BY <2>1, <2>3, <2>4, <2>5, OrdersRead
<1>3. ASSUME CancelCheck(t, i) PROVE OrdersInv'
  <2> DEFINE j == [Idle EXCEPT !.op = "cancel", !.id = i]
  <2>1. Start(t, j) /\ Cancellable(i)
    BY <1>3 DEF CancelCheck
  <2>2. j \in JobType
    BY <1>1, IdleType, Zenon DEF JobType, Idle
  <2>3. j.op = "cancel" /\ j.id = i
    BY DEF Idle
  <2> HIDE DEF j
  <2>4. StillReads(j, orders[i], payables[i])
    BY <2>1, <2>3 DEF StillReads, Cancellable
  <2> QED  BY <2>1, <2>2, <2>3, <2>4, OrdersRead
<1>4. ASSUME NEW a \in Amounts, PayCheck(t, i, a) PROVE OrdersInv'
  <2> DEFINE j == [Idle EXCEPT !.op = "pay", !.id = i, !.qty = a,
                               !.payable = payables[i]]
  <2>1. Start(t, j) /\ payables[i].exists /\ a <= payables[i].balance + 1
    BY <1>4, Zenon DEF PayCheck
  <2>2. a \in Nat
    BY PurchasesAssumption
  <2>3. j \in JobType
    BY <1>1, <2>2, IdleType, Zenon DEF JobType, Idle
  <2>4. j.op = "pay" /\ j.id = i /\ j.qty = a /\ j.payable = payables[i]
    BY DEF Idle
  <2> HIDE DEF j
  <2>5. StillReads(j, orders[i], payables[i])
    BY <2>1, <2>4 DEF StillReads
  <2> QED  BY <2>1, <2>3, <2>4, <2>5, OrdersRead
<1> QED  BY <1>2, <1>3, <1>4

LEMMA OrdersAbandon ==
    ASSUME OrdersInv, NEW t \in Terminals, Abandon(t), PurchasesInv',
           overlapped' = overlapped \cup {k \in DOMAIN orders : Overlaps(k)}
    PROVE  OrdersInv'
<1>1. UNCHANGED <<orders, entered, payables, payments>> /\ Finish(t)
  BY DEF Abandon, rows
<1>2. job \in [Terminals -> JobType]
  BY DEF OrdersInv, PurchasesInv, TypeOK
<1>3. CASE job[t].op # "idle"
  <2>1. job[t].id \in DOMAIN orders
    BY <1>3 DEF OrdersInv, PurchasesInv, JobOK
  <2>2. job[t].id \in Alone => OrderAlone(job[t].id)
    BY DEF OrdersInv
  <2> QED  BY <1>1, <2>1, <2>2, OrdersEnd DEF OrderAlone
<1>4. CASE job[t].op = "idle"
  <2>1. job'[t] = Idle /\ \A u \in Terminals : u # t => job'[u] = job[u]
    BY <1>1, <1>2 DEF Finish
  <2>2. \A k \in DOMAIN orders : k # 0
    BY RowTypes DEF OrdersInv, PurchasesInv
  <2>3. ASSUME NEW k \in Alone' PROVE OrderAlone(k)'
    <3>1. k \in Alone /\ k # 0
      BY <1>1, <2>2, <2>3 DEF Alone
    <3> QED  BY <1>1, <2>1, <3>1, IdleIsNobodys, LeftAlone
  <2>4. \A u \in Terminals : job'[u].op = "idle" => job'[u].id = 0
    BY <2>1, IdleIsNobodys DEF OrdersInv
  <2> QED  BY <1>1, <2>3, <2>4 DEF OrdersInv
<1> QED  BY <1>3, <1>4

LEMMA OrdersInitInv == OrdersInit => OrdersInv
<1> SUFFICES ASSUME OrdersInit PROVE OrdersInv
  OBVIOUS
<1>1. PurchasesInv
  BY InitInv DEF OrdersInit
<1>2. DOMAIN orders = {} /\ overlapped = {} /\ \A t \in Terminals : job[t] = Idle
  BY DEF OrdersInit, Init
<1> QED  BY <1>1, <1>2, IdleIsNobodys DEF OrdersInv, Alone

(* Every step keeps the invariant, and a cancelled order of one handler. *)
LEMMA OrdersStep ==
    ASSUME OrdersInv, [OrdersNext]_orderVars
    PROVE  /\ OrdersInv'
           /\ \A k \in DOMAIN orders \ overlapped' :
                 orders[k].status = "Cancelada" => orders'[k] = orders[k]
<1>1. CASE UNCHANGED orderVars
  <2>1. UNCHANGED <<orders, entered, payables, payments, job, overlapped>>
    BY <1>1 DEF orderVars, vars, rows
  <2>2. PurchasesInv'
    BY <2>1, NextInv DEF OrdersInv, vars, rows
  <2>3. \A k \in Alone' : OrderAlone(k)'
    BY <2>1, LeftAlone DEF Alone
  <2> QED  BY <2>1, <2>2, <2>3 DEF OrdersInv
<1>2. CASE OrdersNext
  <2>1. Next /\ overlapped' = overlapped \cup {i \in DOMAIN orders : Overlaps(i)}
    BY <1>2 DEF OrdersNext
  <2>2. PurchasesInv'
    BY <2>1, NextInv DEF OrdersInv
  <2>3. \A k \in DOMAIN orders \ overlapped' : k \in Alone
    BY <2>1 DEF Alone
  <2>4. ASSUME NEW s \in Skus, NEW q \in Quantities, Create(s, q)
        PROVE  OrdersInv' /\ \A k \in DOMAIN orders : orders'[k] = orders[k]
    BY <2>1, <2>2, <2>4, OrdersCreate
  <2>5. ASSUME NEW t \in Terminals, Handler(t)
        PROVE  /\ OrdersInv'
               /\ \A k \in Alone : orders[k].status = "Cancelada" => orders'[k] = orders[k]
    <3>1. CASE \E i \in DOMAIN orders :
                  \/ \E q \in 1..orders[i].ordered : ReceiveCheck(t, i, q)
                  \/ CancelCheck(t, i)
                  \/ \E a \in Amounts : PayCheck(t, i, a)
      <4>1. OrdersInv'
        BY <2>1, <2>2, <3>1, OrdersReads
      <4>2. orders' = orders
        BY <3>1, Zenon DEF ReceiveCheck, CancelCheck, PayCheck, Start, rows
      <4> QED  BY <4>1, <4>2
    <3>2. CASE ReceiveCommit(t)
      BY <2>1, <2>2, <3>2, OrdersReceive
    <3>3. CASE CancelCommit(t)
      BY <2>1, <2>2, <3>3, OrdersCancel
    <3>4. CASE PayCommit(t)
      BY <2>1, <2>2, <3>4, OrdersPay, Zenon DEF PayCommit
    <3>5. CASE Abandon(t)
      BY <2>1, <2>2, <3>5, OrdersAbandon DEF Abandon, rows
    <3> QED  BY <2>5, <3>1, <3>2, <3>3, <3>4, <3>5 DEF Handler
  <2> QED  BY <2>1, <2>3, <2>4, <2>5 DEF Next
<1> QED  BY <1>1, <1>2

LEMMA OrdersAlways == OrdersSpec => []OrdersInv
  BY OrdersInitInv, OrdersStep, PTL DEF OrdersSpec

(* PurchaseService::receive and addPayment: the orders on which no two handlers
   overlapped show what entered, owe for it, less what was paid, and a cancelled
   one has received nothing. *)
THEOREM OrdersAddUp == OrdersSpec => []OrdersSquare
<1>1. OrdersInv => OrdersSquare
  BY DEF OrdersInv, PurchasesInv, OrdersSquare, EnteredAsShown, CancelledIsEmpty,
         PayableSquares, OrderAlone, AloneOK
<1> QED  BY <1>1, OrdersAlways, PTL

(* "Orden cancelada": nothing is delivered to an order that is cancelled, nor
   does anything else change it. *)
THEOREM CancelledStays == OrdersSpec => CancelledOrderStays
<1>1. OrdersInv /\ [OrdersNext]_orderVars =>
          [\A i \in DOMAIN orders \ overlapped' :
              orders[i].status = "Cancelada" => UNCHANGED orders[i]]_orderVars
  <2> SUFFICES ASSUME OrdersInv, [OrdersNext]_orderVars,
                      NEW i \in DOMAIN orders \ overlapped', orders[i].status = "Cancelada"
               PROVE  orders[i]' = orders[i]
    OBVIOUS
  <2>1. orders'[i] = orders[i]
    BY OrdersStep
  <2> QED  BY <2>1
<1> QED  BY <1>1, OrdersAlways, PTL DEF OrdersSpec, CancelledOrderStays

-----------------------------------------------------------------------------
(* The composition: a behaviour stays in its part, its steps are steps of that
   part, and so it is a behaviour of that part. *)
LEMMA PartInit ==
    ASSUME PartsInit
    PROVE  /\ OrdersInit
           /\ part = "secrets" => Secrets!Init
           /\ part = "seconds" => Seconds!Init
           /\ part = "engine" => Engine!Init
           /\ part = "files" => Files!Init
           /\ part = "goods" => Goods!Init
           /\ part = "scroll" => Scroll!Init
           /\ part = "tree" => Tree!Init
           /\ part = "turns" => Turns!Init
           /\ part = "page" => Page!Init
           /\ part = "numbers" => Numbers!Init
           /\ part = "debtors" => Debtors!Init
  BY DEF PartsInit

LEMMA PartStep ==
    ASSUME [PartsNext]_allVars
    PROVE  /\ part' = part
           /\ [OrdersNext]_orderVars
           /\ part = "secrets" => [Secrets!Next]_(Secrets!vars)
           /\ part = "seconds" => [Seconds!Next]_(Seconds!vars)
           /\ part = "engine" => [Engine!Next]_(Engine!vars)
           /\ part = "files" => [Files!Next]_(Files!vars)
           /\ part = "goods" => [Goods!Next]_(Goods!vars)
           /\ part = "scroll" => [Scroll!Next]_(Scroll!vars)
           /\ part = "tree" => [Tree!Next]_(Tree!vars)
           /\ part = "turns" => [Turns!Next]_(Turns!vars)
           /\ part = "page" => [Page!Next]_(Page!vars)
           /\ part = "numbers" => [Numbers!Next]_(Numbers!vars)
           /\ part = "debtors" => [Debtors!Next]_(Debtors!vars)
<1>1. CASE UNCHANGED allVars
  BY <1>1 DEF allVars, partVars, Secrets!vars, Seconds!vars, Engine!vars, Engine!lock,
              Files!vars, Goods!vars, Scroll!vars, Tree!vars, Page!vars, Numbers!vars,
              Debtors!vars, Turns!vars, Turns!books, Turns!cash
<1>2. CASE PartsNext
  BY <1>2 DEF PartsNext, partVars, Secrets!vars, Seconds!vars, Engine!vars, Engine!lock,
              Files!vars, Goods!vars, Scroll!vars, Tree!vars, Page!vars, Numbers!vars,
              Debtors!vars, Turns!vars, Turns!books, Turns!cash
<1> QED  BY <1>1, <1>2

LEMMA PartIsItself ==
    PartsSpec => /\ OrdersSpec
                 /\ Secrets!Spec \/ []~(part = "secrets")
                 /\ Seconds!Spec \/ []~(part = "seconds")
                 /\ Engine!Spec \/ []~(part = "engine")
                 /\ Files!Spec \/ []~(part = "files")
                 /\ Goods!Spec \/ []~(part = "goods")
                 /\ Scroll!Spec \/ []~(part = "scroll")
                 /\ Tree!Spec \/ []~(part = "tree")
                 /\ Turns!Spec \/ []~(part = "turns")
                 /\ Page!Spec \/ []~(part = "page")
                 /\ Numbers!Spec \/ []~(part = "numbers")
                 /\ Debtors!Spec \/ []~(part = "debtors")
<1>1. PartsSpec => OrdersSpec
  <2>1. PartsInit => OrdersInit
    BY PartInit
  <2>2. [PartsNext]_allVars => [OrdersNext]_orderVars
    BY PartStep
  <2> QED  BY <2>1, <2>2, PTL DEF PartsSpec, OrdersSpec
<1>2. PartsSpec => Secrets!Spec \/ []~(part = "secrets")
  <2>1. PartsInit => (part = "secrets" => Secrets!Init)
    BY PartInit
  <2>2. [PartsNext]_allVars => /\ part = "secrets" => [Secrets!Next]_(Secrets!vars)
                              /\ (part = "secrets")' <=> part = "secrets"
    BY PartStep
  <2> QED  BY <2>1, <2>2, PTL DEF PartsSpec, Secrets!Spec
<1>3. PartsSpec => Seconds!Spec \/ []~(part = "seconds")
  <2>1. PartsInit => (part = "seconds" => Seconds!Init)
    BY PartInit
  <2>2. [PartsNext]_allVars => /\ part = "seconds" => [Seconds!Next]_(Seconds!vars)
                              /\ (part = "seconds")' <=> part = "seconds"
    BY PartStep
  <2> QED  BY <2>1, <2>2, PTL DEF PartsSpec, Seconds!Spec
<1>4. PartsSpec => Engine!Spec \/ []~(part = "engine")
  <2>1. PartsInit => (part = "engine" => Engine!Init)
    BY PartInit
  <2>2. [PartsNext]_allVars => /\ part = "engine" => [Engine!Next]_(Engine!vars)
                              /\ (part = "engine")' <=> part = "engine"
    BY PartStep
  <2> QED  BY <2>1, <2>2, PTL DEF PartsSpec, Engine!Spec
<1>5. PartsSpec => Files!Spec \/ []~(part = "files")
  <2>1. PartsInit => (part = "files" => Files!Init)
    BY PartInit
  <2>2. [PartsNext]_allVars => /\ part = "files" => [Files!Next]_(Files!vars)
                              /\ (part = "files")' <=> part = "files"
    BY PartStep
  <2> QED  BY <2>1, <2>2, PTL DEF PartsSpec, Files!Spec
<1>6. PartsSpec => Goods!Spec \/ []~(part = "goods")
  <2>1. PartsInit => (part = "goods" => Goods!Init)
    BY PartInit
  <2>2. [PartsNext]_allVars => /\ part = "goods" => [Goods!Next]_(Goods!vars)
                              /\ (part = "goods")' <=> part = "goods"
    BY PartStep
  <2> QED  BY <2>1, <2>2, PTL DEF PartsSpec, Goods!Spec
<1>7. PartsSpec => Scroll!Spec \/ []~(part = "scroll")
  <2>1. PartsInit => (part = "scroll" => Scroll!Init)
    BY PartInit
  <2>2. [PartsNext]_allVars => /\ part = "scroll" => [Scroll!Next]_(Scroll!vars)
                              /\ (part = "scroll")' <=> part = "scroll"
    BY PartStep
  <2> QED  BY <2>1, <2>2, PTL DEF PartsSpec, Scroll!Spec
<1>8. PartsSpec => Tree!Spec \/ []~(part = "tree")
  <2>1. PartsInit => (part = "tree" => Tree!Init)
    BY PartInit
  <2>2. [PartsNext]_allVars => /\ part = "tree" => [Tree!Next]_(Tree!vars)
                              /\ (part = "tree")' <=> part = "tree"
    BY PartStep
  <2> QED  BY <2>1, <2>2, PTL DEF PartsSpec, Tree!Spec
<1>9. PartsSpec => Turns!Spec \/ []~(part = "turns")
  <2>1. PartsInit => (part = "turns" => Turns!Init)
    BY PartInit
  <2>2. [PartsNext]_allVars => /\ part = "turns" => [Turns!Next]_(Turns!vars)
                              /\ (part = "turns")' <=> part = "turns"
    BY PartStep
  <2> QED  BY <2>1, <2>2, PTL DEF PartsSpec, Turns!Spec
<1>10. PartsSpec => Page!Spec \/ []~(part = "page")
  <2>1. PartsInit => (part = "page" => Page!Init)
    BY PartInit
  <2>2. [PartsNext]_allVars => /\ part = "page" => [Page!Next]_(Page!vars)
                              /\ (part = "page")' <=> part = "page"
    BY PartStep
  <2> QED  BY <2>1, <2>2, PTL DEF PartsSpec, Page!Spec
<1>11. PartsSpec => Numbers!Spec \/ []~(part = "numbers")
  <2>1. PartsInit => (part = "numbers" => Numbers!Init)
    BY PartInit
  <2>2. [PartsNext]_allVars => /\ part = "numbers" => [Numbers!Next]_(Numbers!vars)
                              /\ (part = "numbers")' <=> part = "numbers"
    BY PartStep
  <2> QED  BY <2>1, <2>2, PTL DEF PartsSpec, Numbers!Spec
<1>12. PartsSpec => Debtors!Spec \/ []~(part = "debtors")
  <2>1. PartsInit => (part = "debtors" => Debtors!Init)
    BY PartInit
  <2>2. [PartsNext]_allVars => /\ part = "debtors" => [Debtors!Next]_(Debtors!vars)
                              /\ (part = "debtors")' <=> part = "debtors"
    BY PartStep
  <2> QED  BY <2>1, <2>2, PTL DEF PartsSpec, Debtors!Spec
<1> QED  BY <1>1, <1>2, <1>3, <1>4, <1>5, <1>6, <1>7, <1>8, <1>9, <1>10, <1>11, <1>12

-----------------------------------------------------------------------------
(* Users, with and without a second factor, and the transaction: the theorems
   of their modules. *)

(* AuthService: a password is the one last set, and its flag says by whom. *)
THEOREM CredentialsHold == PartsSpec => []CredentialsAsSet
<1>1. Secrets!Spec => [](Secrets!PasswordAsSet /\ Secrets!MustChangeTellsWho)
  BY Secrets!PasswordsAreAsSet
<1>2. Seconds!Spec => [](Seconds!PasswordAsSet /\ Seconds!MustChangeTellsWho)
  BY Seconds!PasswordsAreAsSet
<1> QED  BY PartIsItself, <1>1, <1>2, PTL DEF CredentialsAsSet

(* AuthService: three wrong passwords lock a user, however many other handlers
   write the row between the read and the write of one. *)
THEOREM FailuresHold == PartsSpec => []ThreeFailuresLock
<1>1. Secrets!Spec => []Secrets!ThreeFailuresLock
  BY Secrets!FailuresLock
<1>2. Seconds!Spec => []Seconds!ThreeFailuresLock
  BY Seconds!FailuresLock
<1> QED  BY PartIsItself, <1>1, <1>2, PTL DEF ThreeFailuresLock

(* AuthService: recovery codes and tokens are accepted once. *)
THEOREM SecretsHold == PartsSpec => []SecretsAreSingleUse
<1>1. Seconds!Spec => [](Seconds!CodesAreSingleUse /\ Seconds!TokensAreSingleUse)
  BY Seconds!SecretsAreSingleUse
<1> QED  BY PartIsItself, <1>1, PTL DEF SecretsAreSingleUse

(* Transaction: the counter is the nesting depth, although SQLite may roll back
   by itself. *)
THEOREM DepthHolds == PartsSpec => []DepthIsNesting
<1>1. Engine!Spec => []Engine!DepthIsNesting
  BY PartsAssumption, Engine!CounterIsNesting, Zenon
<1> QED  BY PartIsItself, <1>1, PTL DEF DepthIsNesting

-----------------------------------------------------------------------------
(* What each part assumes of its constants. *)
LEMMA ScreensAssumption ==
    /\ DefaultKeys \in [Screens -> Sequences]
    /\ \A s, r \in Screens : DefaultKeys[s] = DefaultKeys[r] => s = r
    /\ "unset" \notin Sequences /\ "bad" \notin Sequences
  BY PartsAssumption, Zenon

LEMMA FilesAssumption ==
    Nobody \notin Terminals /\ Declared \subseteq Columns /\ CopiesKept \in Nat
  BY PartsAssumption, Zenon

LEMMA GoodsAssumption == Nobody \notin Products /\ MaxStock \in Nat
  BY PartsAssumption, Zenon

-----------------------------------------------------------------------------
(* Folios.  a1 is stored, a2 the counters, a3 docs, a4 the series used, a5 what
   handlers have read and a6 what orders have.  Every folio is one of a series
   that was in force, with a number its counter has given, but for the counter of
   the orders, which goes back when one of them was slow. *)
NumberedBy(c) == {d \in a3 : d.counter = c}

NumbersTypeOK ==
    /\ a1 \in UNION {[ks -> Numbers!Series] : ks \in SUBSET FolioTypes}
    /\ a2 \in [Counters -> Nat]
    /\ IsFiniteSet(a3) /\ Cardinality(a3) <= MaxDocs
    /\ a4 \subseteq Numbers!Series
    /\ a5 \in [Terminals -> SUBSET a4]
    /\ a6 \in [Caja -> SUBSET Nat]

IsFolio(d) ==
    \E a \in a4 : /\ d.counter = a.counter
                 /\ \/ d.counter = OrderCounter
                    \/ \E n \in 1..a2[a.counter] : d.id = a.prefix \o Digits[n]

NumbersInv ==
    /\ NumbersTypeOK
    /\ SaleSeries \in a4
    /\ \A k \in FolioTypes : Numbers!SeriesOf(k) \in a4
    /\ \A c \in Counters \ {OrderCounter} : a2[c] = Cardinality(NumberedBy(c))
    /\ \A d \in a3 : IsFolio(d)

-----------------------------------------------------------------------------
LEMMA NumbersCount == \A S : Numbers!Cardinality(S) = Cardinality(S)
  BY DEF Numbers!Cardinality, Cardinality, Numbers!IsFiniteSet, IsFiniteSet

LEMMA NumbersAssumption ==
    /\ DefaultSeries \in [FolioTypes -> Numbers!Series] /\ SaleSeries \in Numbers!Series
    /\ OrderCounter \in Counters
    /\ MaxDocs \in Nat /\ Figures \subseteq STRING /\ Prefixes \subseteq Seq(STRING)
    /\ \A n \in 1..MaxDocs + 1 : Digits[n] \in Seq(Figures) /\ Digits[n] \in Seq(STRING)
    /\ \A m, n \in 1..MaxDocs + 1 : Digits[m] = Digits[n] => m = n
<1>1. ASSUME NEW q \in Seq(Figures) PROVE q \in Seq(STRING)
  <2>1. Len(q) \in Nat /\ q \in [1..Len(q) -> Figures]
    BY LenProperties
  <2>2. Figures \subseteq STRING
    BY PartsAssumption, Zenon
  <2>3. q \in [1..Len(q) -> STRING]
    BY <2>1, <2>2
  <2> QED  BY <2>1, <2>3
<1>2. \A n \in 1..MaxDocs + 1 : Digits[n] \in Seq(Figures)
  BY PartsAssumption, Zenon
<1>3. \A m, n \in 1..MaxDocs + 1 : Digits[m] = Digits[n] => m = n
  BY PartsAssumption, Zenon
<1>4. /\ DefaultSeries \in [FolioTypes -> Numbers!Series] /\ SaleSeries \in Numbers!Series
      /\ OrderCounter \in Counters
      /\ MaxDocs \in Nat /\ Figures \subseteq STRING /\ Prefixes \subseteq Seq(STRING)
  BY PartsAssumption, Zenon DEF Numbers!Series
<1> QED  BY <1>1, <1>2, <1>3, <1>4, Zenon

(* Two prefixes and two numbers that read alike are the same two, or one prefix
   goes on with figures. *)
LEMMA ReadAlike ==
    ASSUME NEW p \in Seq(STRING), NEW q \in Seq(STRING),
           NEW u \in Seq(Figures), NEW v \in Seq(Figures),
           u \in Seq(STRING), v \in Seq(STRING),
           p \o u = q \o v, Len(p) <= Len(q)
    PROVE  (p = q /\ u = v) \/ Numbers!Continues(p, q)
<1>1. Len(p) \in Nat /\ Len(q) \in Nat /\ Len(u) \in Nat /\ Len(v) \in Nat
  BY LenProperties
<1>2. /\ Len(p) + Len(u) = Len(q) + Len(v)
      /\ \A i \in 1..Len(p) + Len(u) :
            /\ (p \o u)[i] = IF i <= Len(p) THEN p[i] ELSE u[i - Len(p)]
            /\ (p \o u)[i] = IF i <= Len(q) THEN q[i] ELSE v[i - Len(q)]
  <2>1. /\ Len(p \o u) = Len(p) + Len(u)
        /\ \A i \in 1..Len(p) + Len(u) : (p \o u)[i] = IF i <= Len(p) THEN p[i] ELSE u[i - Len(p)]
    BY ConcatProperties
  <2>2. /\ Len(q \o v) = Len(q) + Len(v)
        /\ \A i \in 1..Len(q) + Len(v) : (q \o v)[i] = IF i <= Len(q) THEN q[i] ELSE v[i - Len(q)]
    BY ConcatProperties
  <2> QED  BY <2>1, <2>2
<1> DEFINE w == p \o u
<1> HIDE DEF w
<1>3. \A i \in 1..Len(p) + Len(u) :
            /\ w[i] = IF i <= Len(p) THEN p[i] ELSE u[i - Len(p)]
            /\ w[i] = IF i <= Len(q) THEN q[i] ELSE v[i - Len(q)]
  BY <1>2 DEF w
<1>4. \A i \in 1..Len(p) : p[i] = q[i]
  BY <1>1, <1>3
<1>5. CASE Len(p) = Len(q)
  <2>1. p = q
    BY <1>4, <1>5, SeqEqual
  <2>2. \A j \in 1..Len(u) : u[j] = v[j]
    <3> SUFFICES ASSUME NEW j \in 1..Len(u) PROVE u[j] = v[j]
      OBVIOUS
    <3>1. Len(p) + j \in 1..Len(p) + Len(u) /\ ~(Len(p) + j <= Len(p)) /\ Len(p) + j - Len(p) = j
      BY <1>1
    <3> QED  BY <1>3, <1>5, <3>1
  <2>3. Len(u) = Len(v)
    BY <1>1, <1>2, <1>5
  <2> QED  BY <2>1, <2>2, <2>3, SeqEqual
<1>6. CASE Len(p) < Len(q)
  <2> SUFFICES ASSUME NEW i \in Len(p) + 1 .. Len(q) PROVE q[i] \in Figures
    BY <1>4, <1>6 DEF Numbers!Continues
  <2>1. /\ i \in 1..Len(p) + Len(u) /\ ~(i <= Len(p)) /\ i <= Len(q)
        /\ i - Len(p) \in 1..Len(u)
    BY <1>1, <1>2
  <2>2. q[i] = u[i - Len(p)]
    BY <1>3, <2>1
  <2> QED  BY <2>1, <2>2, ElementOfSeq
<1> QED  BY <1>1, <1>5, <1>6

(* A counter has given no more numbers than there are rows. *)
LEMMA NumbersGiven ==
    ASSUME NumbersInv, NEW c \in Counters \ {OrderCounter}
    PROVE  IsFiniteSet(NumberedBy(c)) /\ a2[c] \in 0..MaxDocs
<1>1. IsFiniteSet(NumberedBy(c)) /\ Cardinality(NumberedBy(c)) <= Cardinality(a3)
      /\ Cardinality(a3) \in Nat /\ Cardinality(a3) <= MaxDocs
  BY FS_Subset, FS_CardinalityType DEF NumbersInv, NumbersTypeOK, NumberedBy
<1> QED  BY <1>1, NumbersAssumption DEF NumbersInv, NumbersTypeOK

(* The next folio of a series is above every number its counter has given. *)
LEMMA NextFolioIsFree ==
  ASSUME NumbersInv, Numbers!Apart, NEW s \in a4, NEW d \in a3
  PROVE  d.id # Numbers!Folio(s)
<1> SUFFICES ASSUME d.id = Numbers!Folio(s) PROVE FALSE
  OBVIOUS
<1>0. PICK a \in a4 : \E n \in 1..a2[a.counter] : d.id = a.prefix \o Digits[n]
  <2>1. PICK a \in a4 : /\ d.counter = a.counter
                        /\ \/ d.counter = OrderCounter
                           \/ \E n \in 1..a2[a.counter] : d.id = a.prefix \o Digits[n]
    BY DEF NumbersInv, IsFolio
  <2>2. a.counter # OrderCounter
    BY DEF Numbers!Apart
  <2> QED  BY <2>1, <2>2
<1>1. PICK n \in 1..a2[a.counter] : d.id = a.prefix \o Digits[n]
  BY <1>0
<1> DEFINE m == a2[s.counter] + 1
<1>2. /\ s.counter \in Counters \ {OrderCounter} /\ a.counter \in Counters \ {OrderCounter}
      /\ s.prefix \in Seq(STRING) /\ a.prefix \in Seq(STRING)
  BY NumbersAssumption DEF NumbersInv, NumbersTypeOK, Numbers!Series, Numbers!Apart
<1>3. /\ m \in 1..MaxDocs + 1 /\ n \in 1..MaxDocs + 1 /\ n <= a2[a.counter]
      /\ a2[s.counter] \in Nat /\ a2[a.counter] \in Nat
  <2>1. a2[s.counter] \in 0..MaxDocs /\ a2[a.counter] \in 0..MaxDocs /\ MaxDocs \in Nat
    BY <1>2, NumbersGiven, NumbersAssumption, Zenon
  <2> QED  BY <2>1
<1>4. a.prefix \o Digits[n] = s.prefix \o Digits[m]
  BY <1>1 DEF Numbers!Folio
<1>5. Len(a.prefix) \in Nat /\ Len(s.prefix) \in Nat
  BY <1>2, LenProperties
<1> HIDE DEF m
<1>6. a.prefix = s.prefix /\ Digits[n] = Digits[m]
  <2>1. ~Numbers!Continues(a.prefix, s.prefix) /\ ~Numbers!Continues(s.prefix, a.prefix)
    BY DEF Numbers!Apart
  <2>2. CASE Len(a.prefix) <= Len(s.prefix)
    BY <1>2, <1>3, <1>4, <2>1, <2>2, NumbersAssumption, ReadAlike
  <2>3. CASE Len(s.prefix) <= Len(a.prefix)
    BY <1>2, <1>3, <1>4, <2>1, <2>3, NumbersAssumption, ReadAlike
  <2> QED  BY <1>5, <2>2, <2>3
<1>7. a.counter = s.counter /\ n = m
  BY <1>3, <1>6, NumbersAssumption DEF Numbers!Apart
<1> QED  BY <1>3, <1>7 DEF m

LEMMA NumbersInvImplies == NumbersInv => Numbers!SeriesNeverStuck
  BY NumbersCount, NextFolioIsFree DEF Numbers!SeriesNeverStuck, NumbersInv, NumberedBy

LEMMA NumbersInit == Numbers!Init => NumbersInv
<1> SUFFICES ASSUME Numbers!Init PROVE NumbersInv
  OBVIOUS
<1>1. NumbersTypeOK
  <2>1. a1 \in [{} -> Numbers!Series]
    BY DEF Numbers!Init
  <2>2. IsFiniteSet(a3) /\ Cardinality(a3) <= MaxDocs
    BY FS_EmptySet, NumbersAssumption DEF Numbers!Init
  <2>3. a4 \subseteq Numbers!Series
    BY NumbersAssumption DEF Numbers!Init
  <2> QED  BY <2>1, <2>2, <2>3 DEF NumbersTypeOK, Numbers!Init
<1>2. SaleSeries \in a4 /\ \A k \in FolioTypes : Numbers!SeriesOf(k) \in a4
  BY DEF Numbers!Init, Numbers!SeriesOf
<1>3. \A c \in Counters \ {OrderCounter} : a2[c] = Cardinality(NumberedBy(c))
  <2>1. \A c \in Counters : NumberedBy(c) = {}
    BY DEF Numbers!Init, NumberedBy
  <2> QED  BY <2>1, FS_EmptySet DEF Numbers!Init
<1> QED  BY <1>1, <1>2, <1>3 DEF NumbersInv, Numbers!Init

LEMMA SeriesSaved ==
  ASSUME NumbersInv, NEW kinds \in SUBSET FolioTypes, NEW object \in [kinds -> Numbers!Series],
         Numbers!SaveSeries(object)
  PROVE  NumbersInv'
<1>1. /\ a1' = object
      /\ a4' = a4 \cup {object[k] : k \in kinds} \cup {DefaultSeries[k] : k \in FolioTypes \ kinds}
      /\ UNCHANGED <<a2, a3, a5, a6>>
  BY DEF Numbers!SaveSeries
<1>2. NumbersTypeOK'
  <2>1. a4' \subseteq Numbers!Series /\ a4 \subseteq a4'
    BY <1>1, NumbersAssumption DEF NumbersInv, NumbersTypeOK
  <2>2. a5' \in [Terminals -> SUBSET a4']
    BY <1>1, <2>1 DEF NumbersInv, NumbersTypeOK
  <2> QED  BY <1>1, <2>1, <2>2 DEF NumbersInv, NumbersTypeOK
<1>3. \A k \in FolioTypes : Numbers!SeriesOf(k)' \in a4'
  BY <1>1 DEF Numbers!SeriesOf
<1>4. \A d \in a3' : IsFolio(d)'
  BY <1>1 DEF NumbersInv, IsFolio
<1> QED  BY <1>1, <1>2, <1>3, <1>4 DEF NumbersInv, NumberedBy

(* A number is given and its row written. *)
LEMMA DocumentNumbered ==
  ASSUME NumbersInv, NEW s \in a4, Numbers!Number(s), UNCHANGED <<a1, a4, a6>>,
         a5' \in [Terminals -> SUBSET a4]
  PROVE  NumbersInv'
<1> DEFINE c == s.counter
           n == a2[c] + 1
           new == [id |-> s.prefix \o Digits[n], counter |-> c]
<1>1. /\ c \in Counters /\ n \in Nat /\ a2 \in [Counters -> Nat]
      /\ IsFiniteSet(a3) /\ Cardinality(a3) \in Nat
  BY FS_CardinalityType DEF NumbersInv, NumbersTypeOK, Numbers!Series
<1>2. /\ a3' = a3 \cup {new} /\ new \notin a3 /\ Cardinality(a3) < MaxDocs
      /\ a2' = [a2 EXCEPT ![c] = n]
  BY NumbersCount DEF Numbers!Number, Numbers!Folio, Numbers!Counted
<1>3. new.counter = c /\ new.id = s.prefix \o Digits[n]
  OBVIOUS
<1> HIDE DEF new, n, c
<1>4. IsFiniteSet(a3') /\ Cardinality(a3') <= MaxDocs
  <2>1. IsFiniteSet(a3') /\ Cardinality(a3') = Cardinality(a3) + 1
    BY <1>1, <1>2, FS_AddElement, Zenon
  <2>2. MaxDocs \in Nat
    BY NumbersAssumption, Zenon
  <2> QED  BY <1>1, <1>2, <2>1, <2>2
<1>5. a2' \in [Counters -> Nat] /\ a2'[c] = n /\ \A x \in Counters : a2[x] <= a2'[x]
  BY <1>1, <1>2 DEF n
<1>6. \A x \in Counters \ {OrderCounter} : a2'[x] = Cardinality(NumberedBy(x)')
  <2> SUFFICES ASSUME NEW x \in Counters \ {OrderCounter} PROVE a2'[x] = Cardinality(NumberedBy(x)')
    OBVIOUS
  <2>1. a2[x] = Cardinality(NumberedBy(x)) /\ IsFiniteSet(NumberedBy(x))
    BY NumbersGiven DEF NumbersInv
  <2>2. CASE x = c
    <3>1. NumberedBy(x)' = NumberedBy(x) \cup {new} /\ new \notin NumberedBy(x)
      BY <1>2, <1>3, <2>2 DEF NumberedBy
    <3>2. Cardinality(NumberedBy(x)') = Cardinality(NumberedBy(x)) + 1
      BY <2>1, <3>1, FS_AddElement, Zenon
    <3> QED  BY <1>5, <2>1, <2>2, <3>2 DEF n
  <2>3. CASE x # c
    <3>1. NumberedBy(x)' = NumberedBy(x)
      BY <1>2, <1>3, <2>3 DEF NumberedBy
    <3> QED  BY <1>1, <1>2, <2>1, <2>3, <3>1
  <2> QED  BY <2>2, <2>3
<1>7. ASSUME NEW d \in a3' PROVE IsFolio(d)'
  <2>1. CASE d = new
    <3>1. n \in 1..a2'[c]
      BY <1>1, <1>5 DEF n
    <3> QED  BY <1>3, <2>1, <3>1 DEF IsFolio, c
  <2>2. CASE d \in a3
    <3>0. PICK a \in a4 : /\ d.counter = a.counter
                          /\ \/ d.counter = OrderCounter
                             \/ \E k \in 1..a2[a.counter] : d.id = a.prefix \o Digits[k]
      BY <2>2 DEF NumbersInv, IsFolio
    <3>4. CASE d.counter = OrderCounter
      BY <3>0, <3>4 DEF IsFolio
    <3> SUFFICES ASSUME d.counter # OrderCounter PROVE IsFolio(d)'
      BY <3>4
    <3>1. PICK k \in 1..a2[a.counter] : d.id = a.prefix \o Digits[k]
      BY <3>0
    <3>2. a.counter \in Counters
      BY DEF NumbersInv, NumbersTypeOK, Numbers!Series
    <3>3. k \in 1..a2'[a.counter]
      BY <1>1, <1>5, <3>2
    <3> QED  BY <3>0, <3>1, <3>3 DEF IsFolio
  <2> QED  BY <1>2, <2>1, <2>2
<1> QED  BY <1>4, <1>5, <1>6, <1>7 DEF NumbersInv, NumbersTypeOK, Numbers!SeriesOf

(* An order puts its counter back to what it read and one. *)
LEMMA OrderAdvanced ==
  ASSUME NumbersInv, NEW t \in Caja, NEW n \in a6[t], Numbers!AdvanceOrderCounter(t, n)
  PROVE  NumbersInv'
<1>1. /\ a2 \in [Counters -> Nat] /\ a6 \in [Caja -> SUBSET Nat] /\ n + 1 \in Nat
  BY DEF NumbersInv, NumbersTypeOK
<1>2. /\ a2' = [a2 EXCEPT ![OrderCounter] = n + 1] /\ a6' = [a6 EXCEPT ![t] = {}]
      /\ UNCHANGED <<a1, a3, a4, a5>>
  BY DEF Numbers!AdvanceOrderCounter, Numbers!Counted
<1>3. a2' \in [Counters -> Nat] /\ a6' \in [Caja -> SUBSET Nat]
      /\ \A c \in Counters \ {OrderCounter} : a2'[c] = a2[c]
  BY <1>1, <1>2
<1>4. NumbersTypeOK'
  BY <1>2, <1>3 DEF NumbersInv, NumbersTypeOK
<1>5. \A d \in a3' : IsFolio(d)'
  <2> SUFFICES ASSUME NEW d \in a3 PROVE IsFolio(d)'
    BY <1>2
  <2>1. PICK a \in a4 : /\ d.counter = a.counter
                        /\ \/ d.counter = OrderCounter
                           \/ \E k \in 1..a2[a.counter] : d.id = a.prefix \o Digits[k]
    BY DEF NumbersInv, IsFolio
  <2>2. a.counter \in Counters
    BY DEF NumbersInv, NumbersTypeOK, Numbers!Series
  <2> QED  BY <1>2, <1>3, <2>1, <2>2 DEF IsFolio
<1>6. \A c \in Counters \ {OrderCounter} : a2'[c] = Cardinality(NumberedBy(c)')
  BY <1>2, <1>3 DEF NumbersInv, NumberedBy
<1> QED  BY <1>2, <1>4, <1>5, <1>6 DEF NumbersInv, Numbers!SeriesOf

LEMMA NumbersStep == NumbersInv /\ [Numbers!Next]_(Numbers!vars) => NumbersInv'
<1> SUFFICES ASSUME NumbersInv, [Numbers!Next]_(Numbers!vars) PROVE NumbersInv'
  OBVIOUS
<1>0. /\ a5 \in [Terminals -> SUBSET a4] /\ SaleSeries \in a4
      /\ a6 \in [Caja -> SUBSET Nat]
      /\ \A k \in FolioTypes : Numbers!SeriesOf(k) \in a4
  BY DEF NumbersInv, NumbersTypeOK
<1>1. CASE /\ UNCHANGED <<a1, a2, a3, a4>>
           /\ a5' \in [Terminals -> SUBSET a4] /\ a6' \in [Caja -> SUBSET Nat]
  BY <1>1 DEF NumbersInv, NumbersTypeOK, Numbers!SeriesOf, NumberedBy, IsFolio
<1>2. CASE Numbers!CreateSale
  BY <1>0, <1>2, DocumentNumbered DEF Numbers!CreateSale
<1>3. ASSUME NEW t \in Terminals, NEW k \in FolioTypes, Numbers!ReadSeries(t, k)
      PROVE  NumbersInv'
  BY <1>0, <1>1, <1>3 DEF Numbers!ReadSeries
<1>4. ASSUME NEW t \in Terminals, NEW s \in a5[t], Numbers!CreateDocument(t, s)
      PROVE  NumbersInv'
  BY <1>0, <1>4, DocumentNumbered DEF Numbers!CreateDocument
<1>5. ASSUME NEW t \in Terminals, Numbers!Fail(t) PROVE NumbersInv'
  BY <1>0, <1>1, <1>5 DEF Numbers!Fail
<1>6. ASSUME NEW kinds \in SUBSET FolioTypes \ {{}}, NEW object \in [kinds -> Numbers!Series],
             Numbers!SaveSeries(object)
      PROVE  NumbersInv'
  BY <1>6, SeriesSaved
<1>7. CASE UNCHANGED Numbers!vars
  BY <1>0, <1>1, <1>7 DEF Numbers!vars
<1>8. ASSUME NEW t \in Caja, Numbers!ReadOrderCounter(t) PROVE NumbersInv'
  <2>1. a2[OrderCounter] \in Nat
    BY NumbersAssumption DEF NumbersInv, NumbersTypeOK
  <2> QED  BY <1>0, <1>1, <1>8, <2>1 DEF Numbers!ReadOrderCounter
<1>9. ASSUME NEW t \in Caja, NEW n \in a6[t], Numbers!AdvanceOrderCounter(t, n)
      PROVE  NumbersInv'
  BY <1>9, OrderAdvanced
<1>10. ASSUME NEW t \in Caja, Numbers!OrderDies(t) PROVE NumbersInv'
  BY <1>0, <1>1, <1>10 DEF Numbers!OrderDies
<1> QED  BY <1>2, <1>3, <1>4, <1>5, <1>6, <1>7, <1>8, <1>9, <1>10 DEF Numbers!Next

(* create, createDocument: "sin duplicados entre cajas concurrentes, sin huecos
   si falla": every number a counter gave is on a row, but for that of the
   orders, and as long as no series in force has that counter, or a prefix that
   another counter has or that goes on with figures where another ends, no
   series is stuck on a folio that is taken, that of the till among them. *)
THEOREM SeriesHold == PartsSpec => []SeriesNeverStuck
<1> QED  BY NumbersInit, NumbersStep, NumbersInvImplies, PartIsItself, PTL
         DEF Numbers!Spec, SeriesNeverStuck

-----------------------------------------------------------------------------
(* The settings page.  a1 is stored, a2 the caches, a3 the jobs, a4 stale.
   What a caja has validated are all the shortcuts or none of them, so it stays
   valid whatever the others save before it is written. *)
PageType == [keys : [Screens -> Sequences], rubro : Page!BusinessTypes]

PageSent(j) ==
    /\ j.sent = [keys |-> j.sent.keys, rubro |-> j.sent.rubro]
    /\ j.sent.rubro \in Page!BusinessTypes \cup {Page!Unset}
    /\ \/ j.sent.keys \in [Screens -> Sequences] /\ Page!Injective(j.sent.keys)
       \/ DOMAIN j.sent.keys = {}

PageInv ==
    /\ a1 \in [keys : [Screens -> Sequences \cup {Page!Unset}], rubro : Page!BusinessTypes]
    /\ Page!Injective(Page!Keys(a1))
    /\ a2 \in [Terminals -> PageType]
    /\ DOMAIN a3 = Terminals /\ \A t \in Terminals : a3[t].busy => PageSent(a3[t])
    /\ Page!CacheIsStored

LEMMA PageKeys ==
    ASSUME NEW table, table \in [keys : [Screens -> Sequences \cup {Page!Unset}], rubro : Page!BusinessTypes]
    PROVE  /\ Page!Keys(table) \in [Screens -> Sequences]
           /\ Page!All(table) \in PageType
           /\ Page!All(table).keys = Page!Keys(table)
  BY ScreensAssumption DEF Page!Keys, Page!All, PageType, Page!Unset

LEMMA PageInit == Page!Init => PageInv
<1> SUFFICES ASSUME Page!Init PROVE PageInv
  OBVIOUS
<1>1. a1 \in [keys : [Screens -> Sequences \cup {Page!Unset}], rubro : Page!BusinessTypes]
  BY DEF Page!Init, Page!BusinessTypes
<1>2. Page!Keys(a1) = DefaultKeys
  BY ScreensAssumption DEF Page!Init, Page!Keys
<1>3. Page!Injective(Page!Keys(a1))
  BY <1>2, ScreensAssumption DEF Page!Injective
<1>4. a2 = [t \in Terminals |-> Page!All(a1)] /\ a3 = [t \in Terminals |-> Page!NoJob]
  BY DEF Page!Init
<1> QED  BY <1>1, <1>3, <1>4, PageKeys DEF PageInv, Page!NoJob, Page!CacheIsStored

(* What validate() lets through. *)
LEMMA PageValidated ==
    ASSUME PageInv, NEW t \in Terminals, NEW sent,
           sent = [keys |-> sent.keys, rubro |-> sent.rubro],
           \/ DOMAIN sent.keys = {}
           \/ \E s \in Screens, key \in Sequences \cup {Page!BadSequence} :
                 sent.keys = [a2[t].keys EXCEPT ![s] = key],
           Page!Validates(t, sent)
    PROVE  PageInv'
<1>1. Page!Valid(sent) /\ a3' = [a3 EXCEPT ![t] = [busy |-> TRUE, sent |-> sent]]
      /\ UNCHANGED <<a1, a2, a4>>
  BY DEF Page!Validates
<1>2. sent.rubro \in Page!BusinessTypes \cup {Page!Unset}
  BY <1>1 DEF Page!Valid
<1>3. ASSUME NEW s \in Screens, NEW key \in Sequences \cup {Page!BadSequence},
             sent.keys = [a2[t].keys EXCEPT ![s] = key]
      PROVE  sent.keys \in [Screens -> Sequences] /\ Page!Injective(sent.keys)
  <2>1. a2[t].keys \in [Screens -> Sequences]
    BY DEF PageInv, PageType
  <2>2. sent.keys \in [Screens -> Sequences \cup {Page!BadSequence}]
    BY <1>3, <2>1
  <2>3. [r \in Screens |-> IF r \in DOMAIN sent.keys THEN sent.keys[r] ELSE Page!Keys(a1)[r]]
            = sent.keys
    BY <2>2
  <2>4. Page!Injective(sent.keys) /\ \A r \in Screens : sent.keys[r] # Page!BadSequence
    BY <1>1, <2>3 DEF Page!Valid, Page!ValidKeys
  <2> QED  BY <2>2, <2>4
<1>4. PageSent([busy |-> TRUE, sent |-> sent])
  BY <1>2, <1>3 DEF PageSent
<1>5. /\ DOMAIN a3' = Terminals
      /\ \A u \in Terminals : a3'[u].busy => PageSent(a3'[u])
  BY <1>1, <1>4 DEF PageInv
<1> QED  BY <1>1, <1>5, Zenon DEF PageInv, Page!CacheIsStored

LEMMA PageSaved ==
    ASSUME PageInv, NEW t \in Terminals, Page!Save(t)
    PROVE  PageInv'
<1> DEFINE sent == a3[t].sent
<1>1. /\ PageSent(a3[t])
      /\ a1' = Page!Written(sent)
      /\ a2' = [a2 EXCEPT ![t] = Page!All(a1')]
      /\ a4' = (IF a1' = a1 THEN a4 \ {t} ELSE (a4 \cup Terminals) \ {t})
      /\ a3' = [a3 EXCEPT ![t] = Page!NoJob]
  BY DEF Page!Save, PageInv, Page!Reloaded
<1>2. /\ a1' = [keys |-> [s \in Screens |-> IF s \in DOMAIN sent.keys THEN sent.keys[s]
                                           ELSE a1.keys[s]],
                rubro |-> IF sent.rubro = Page!Unset THEN a1.rubro ELSE sent.rubro]
  BY <1>1, Zenon DEF Page!Written, PageInv
<1>3. a1' \in [keys : [Screens -> Sequences \cup {Page!Unset}], rubro : Page!BusinessTypes]
  BY <1>1, <1>2 DEF PageInv, PageSent
<1>4. Page!Injective(Page!Keys(a1'))
  <2>1. CASE sent.keys \in [Screens -> Sequences] /\ Page!Injective(sent.keys)
    <3>1. Page!Keys(a1') = sent.keys
      BY <1>2, <2>1, ScreensAssumption DEF Page!Keys, Page!Unset
    <3> QED  BY <2>1, <3>1
  <2>2. CASE DOMAIN sent.keys = {}
    <3>1. Page!Keys(a1') = Page!Keys(a1)
      BY <1>2, <2>2 DEF Page!Keys, PageInv
    <3> QED  BY <3>1 DEF PageInv
  <2> QED  BY <1>1, <2>1, <2>2 DEF PageSent
<1>5. a2' \in [Terminals -> PageType]
  BY <1>1, <1>3, PageKeys DEF PageInv
<1>6. \A u \in Terminals \ a4' : a2'[u] = Page!All(a1')
  BY <1>1 DEF PageInv, Page!CacheIsStored
<1>7. DOMAIN a3' = Terminals /\ \A u \in Terminals : a3'[u].busy => PageSent(a3'[u])
  BY <1>1 DEF PageInv, Page!NoJob
<1> QED  BY <1>3, <1>4, <1>5, <1>6, <1>7 DEF PageInv, Page!CacheIsStored

LEMMA PageStep == PageInv /\ [Page!Next]_(Page!vars) => PageInv'
<1> SUFFICES ASSUME PageInv, [Page!Next]_(Page!vars) PROVE PageInv'
  OBVIOUS
<1>1. CASE UNCHANGED Page!vars
  BY <1>1 DEF Page!vars, PageInv, Page!CacheIsStored
<1>2. ASSUME NEW t \in Terminals, NEW s \in Screens,
             NEW key \in Sequences \cup {Page!BadSequence}, NEW rubro, Page!SavePage(t, s, key, rubro)
      PROVE  PageInv'
  BY <1>2, PageValidated DEF Page!SavePage, Page!Sent
<1>3. ASSUME NEW t \in Terminals, NEW rubro, Page!SaveRubro(t, rubro) PROVE PageInv'
  BY <1>3, PageValidated DEF Page!SaveRubro
<1>4. ASSUME NEW t \in Terminals, Page!SaveFails(t) PROVE PageInv'
  BY <1>4 DEF Page!SaveFails, PageInv, Page!CacheIsStored, Page!NoJob
<1>5. ASSUME NEW t \in Terminals, Page!Load(t) PROVE PageInv'
  BY <1>5, PageKeys DEF Page!Load, PageInv, Page!CacheIsStored
<1> QED  BY <1>1, <1>2, <1>3, <1>4, <1>5, PageSaved DEF Page!Next

(* SettingsService, SettingsController: "dos acciones con la misma secuencia
   dispararian ambas a la vez": no two screens have one shortcut, though cajas
   validate before they write, and a caja that nobody overtook shows what is
   stored. *)
THEOREM SettingsHold == PartsSpec => []SettingsAgree
<1>1. PageInv => Page!ShortcutsDistinct /\ Page!CacheIsStored
  BY PageKeys, ScreensAssumption DEF PageInv, Page!ShortcutsDistinct, Page!BadSequence
<1> QED  BY PageInit, PageStep, <1>1, PartIsItself, PTL DEF Page!Spec, SettingsAgree

-----------------------------------------------------------------------------
(* The database file.  a1 is file, a2 work, a3 the writer, a4 proc, a5 the
   backups, a6 entered, a7 swept and a8 writes.  What a process has passed in its start
   stays true of the file, as no other takes it back; what the rebuild of the
   categories has done so far is in work, and nobody else writes meanwhile. *)
TableType == [exists : BOOLEAN, fk : BOOLEAN, rows : SUBSET Categories]

FileType == [version : {0, Files!Current, Files!Future}, columns : SUBSET Columns,
             users : BOOLEAN, old : TableType, main : TableType]

Pcs == {"down", "tables", "indexes", "columns", "begin", "rename", "create", "copy",
        "drop", "commit", "seed", "version", "open", "vacuum", "list", "prune", "refused"}

Serving == {"open", "vacuum", "list", "prune"}

ProcType == [pc : Pcs, left : SUBSET Columns, alter : SUBSET Columns,
             copy : Nat, listed : SUBSET [copy : Nat, time : Nat], seen : Nat]

CopyType == [db : FileType, entered : SUBSET Categories, begun : Nat, time : Nat,
             ended : BOOLEAN, kept : BOOLEAN]

Sealed(f) == /\ Columns \subseteq f.columns
             /\ f.main.exists /\ ~f.main.fk
             /\ f.users

FileOK(f) ==
    /\ f \in FileType
    /\ f.version = Files!Current => Sealed(f)
    /\ ~f.old.exists
    /\ ~f.main.exists => f.main.rows = {}

(* What p has in its list of copies: every one that is kept of those it saw,
   each with a time it had. *)
Listed(p) ==
    /\ IsFiniteSet(a4[p].listed) /\ a4[p].seen \in 0..Len(a5)
    /\ \A l \in a4[p].listed : /\ l.copy \in 1..Len(a5)
                               /\ a5[l.copy].begun <= l.time /\ l.time <= a5[l.copy].time
    /\ \A l, m \in a4[p].listed : l.copy = m.copy => l = m
    /\ \A i \in 1..a4[p].seen : a5[i].kept => \E l \in a4[p].listed : l.copy = i

(* What p, at pc, has seen to. *)
Passed(p) == LET pc == a4[p].pc IN
    /\ pc \in {"tables", "indexes"} => a4[p].left = Columns
    /\ pc \notin {"down", "tables", "refused"} => a1.main.exists
    /\ pc = "columns" => Columns \subseteq a4[p].left \cup a4[p].alter \cup a1.columns
    /\ pc \in {"begin", "rename", "create", "copy", "drop", "commit", "seed", "version"}
              \cup Serving
          => Columns \subseteq a1.columns
    /\ pc \in {"seed", "version"} \cup Serving => ~a1.main.fk
    /\ pc \in {"version"} \cup Serving => a1.users
    /\ pc \in Serving => a1.version = Files!Current
    /\ pc = "vacuum" => a4[p].copy \in 1..Len(a5)
    /\ pc = "prune" => Listed(p)

Rebuilding(p) == LET pc == a4[p].pc IN
    pc \in {"rename", "create", "copy", "drop", "commit"} =>
        /\ a3 = p
        /\ a2.version = a1.version /\ a2.columns = a1.columns /\ a2.users = a1.users
        /\ pc = "rename" => a2.main.rows = a1.main.rows
        /\ pc \in {"create", "copy", "drop"} => a2.old.rows = a1.main.rows
        /\ pc \in {"copy", "drop", "commit"} => a2.main.exists /\ ~a2.main.fk
        /\ pc \in {"drop", "commit"} => a2.main.rows = a1.main.rows
        /\ pc = "commit" => ~a2.old.exists

(* The copies written since copy i was begun. *)
Since(i) == {j \in DOMAIN a5 \ {i} : a5[j].time >= a5[i].begun}

CopyOK(i) ==
    /\ a5[i].db.version = Files!Current /\ Columns \subseteq a5[i].db.columns
    /\ ~a5[i].db.main.fk /\ a5[i].db.main.rows = a5[i].entered
    /\ a5[i].begun <= a5[i].time /\ a5[i].time <= a8

CopiesOK ==
    /\ a5 \in Seq(CopyType) /\ a7 \in 0..Len(a5) /\ a8 \in Nat
    /\ \A i \in 1..Len(a5) : CopyOK(i)
    /\ \A i \in 1..Len(a5) : ~a5[i].kept => CopiesKept <= Cardinality(Since(i))
    /\ Cardinality({i \in 1..a7 : a5[i].kept}) <= CopiesKept

FilesInv ==
    /\ FileOK(a1) /\ a1.main.rows = a6
    /\ a2 \in FileType
    /\ a4 \in [Terminals -> ProcType]
    /\ \A p \in Terminals : Passed(p) /\ Rebuilding(p)
    /\ CopiesOK

LEMMA FilesTypes ==
    /\ Files!Current \in {0, Files!Current, Files!Future} /\ Files!Current # 0
    /\ Files!Future # Files!Current
    /\ Files!NoTable \in TableType
    /\ Files!NoTable.exists = FALSE /\ Files!NoTable.fk = FALSE /\ Files!NoTable.rows = {}
    /\ Files!Blank \in FileType
    /\ Files!Down \in ProcType /\ Files!Down.pc = "down"
<1>1. Files!Current = 8 /\ Files!Future = 9
  BY DEF Files!Current, Files!Future
<1>2. Files!NoTable = [exists |-> FALSE, fk |-> FALSE, rows |-> {}]
  BY DEF Files!NoTable
<1>3. Files!Down = [pc |-> "down", left |-> {}, alter |-> {},
                    copy |-> 0, listed |-> {}, seen |-> 0]
  BY DEF Files!Down
<1>4. Files!NoTable \in TableType
  BY <1>2 DEF TableType
<1>5. Files!Down \in ProcType
  BY <1>3 DEF ProcType, Pcs
<1>6. Files!Blank \in FileType
  BY <1>4 DEF Files!Blank, FileType
<1> QED  BY <1>1, <1>2, <1>3, <1>4, <1>5, <1>6

LEMMA CopiesStay == CopiesOK /\ UNCHANGED <<a5, a7, a8>> => CopiesOK'
  BY DEF CopiesOK, CopyOK, Since

(* One process takes a step; the file keeps what the others rely on. *)
LEMMA OthersStay ==
    ASSUME FilesInv, NEW p \in Terminals, NEW row \in ProcType,
           a4' = [a4 EXCEPT ![p] = row], FileOK(a1'),
           a1.main.exists =>
             /\ a1.columns \subseteq a1'.columns
             /\ a1'.main.exists
             /\ ~a1.main.fk => ~a1'.main.fk
             /\ a1.users => a1'.users
             /\ a1.version = Files!Current => a1'.version = Files!Current,
           UNCHANGED <<a1, a2, a3>> \/ a3 \notin Terminals \ {p},
           a5' = a5, Passed(p)', Rebuilding(p)'
    PROVE  a4' \in [Terminals -> ProcType] /\ \A q \in Terminals : Passed(q)' /\ Rebuilding(q)'
<1>1. a4 \in [Terminals -> ProcType]
  BY DEF FilesInv
<1>2. ASSUME NEW q \in Terminals, q # p PROVE Passed(q)' /\ Rebuilding(q)'
  <2>1. a4'[q] = a4[q] /\ Passed(q) /\ Rebuilding(q)
    BY <1>1, <1>2 DEF FilesInv
  <2>2. Passed(q)'
    BY <2>1 DEF Passed, Listed, Serving
  <2>3. Rebuilding(q)'
    <3>1. CASE UNCHANGED <<a1, a2, a3>>
      BY <2>1, <3>1 DEF Rebuilding
    <3>2. CASE a3 \notin Terminals \ {p}
      BY <1>2, <2>1, <3>2 DEF Rebuilding
    <3> QED  BY <3>1, <3>2
  <2> QED  BY <2>2, <2>3
<1> QED  BY <1>1, <1>2

(* A step of p that writes neither file nor work. *)
LEMMA ProcSteps ==
    ASSUME FilesInv, NEW p \in Terminals, NEW row \in ProcType,
           a4' = [a4 EXCEPT ![p] = row], UNCHANGED <<a1, a2, a3, a5, a6, a7, a8>>,
           Passed(p)', Rebuilding(p)'
    PROVE  FilesInv'
<1>1. FileOK(a1')
  BY DEF FilesInv
<1>2. a4' \in [Terminals -> ProcType] /\ \A q \in Terminals : Passed(q)' /\ Rebuilding(q)'
  BY <1>1, OthersStay, Zenon
<1> QED  BY CopiesStay, <1>2 DEF FilesInv

LEMMA ProcGoes ==
    ASSUME FilesInv, NEW p \in Terminals, NEW pc \in Pcs, Files!Goes(p, pc)
    PROVE  /\ a4' = [a4 EXCEPT ![p] = [a4[p] EXCEPT !.pc = pc]]
           /\ [a4[p] EXCEPT !.pc = pc] \in ProcType
           /\ a4'[p].pc = pc /\ a4'[p].left = a4[p].left /\ a4'[p].alter = a4[p].alter
  BY DEF FilesInv, Files!Goes, ProcType

LEMMA FilesStart ==
    ASSUME FilesInv, NEW p \in Terminals, Files!Start(p)
    PROVE  FilesInv'
<1> DEFINE row == [Files!Down EXCEPT !.pc = "tables", !.left = Columns]
<1>1. a4' = [a4 EXCEPT ![p] = row] /\ UNCHANGED <<a1, a2, a3, a5, a6, a7, a8>>
  BY DEF Files!Start
<1>2. row \in ProcType /\ row.pc = "tables" /\ row.left = Columns /\ a4'[p] = row
  BY <1>1, FilesTypes, Zenon DEF ProcType, Pcs, FilesInv
<1>3. Passed(p)' /\ Rebuilding(p)'
  BY <1>2 DEF Passed, Serving, Rebuilding
<1> QED  BY <1>1, <1>2, <1>3, ProcSteps, Zenon

LEMMA FilesIndexes ==
    ASSUME FilesInv, NEW p \in Terminals, Files!CreateIndexes(p)
    PROVE  FilesInv'
<1>1. PICK pc \in {"columns", "refused"} : Files!Goes(p, pc)
  BY DEF Files!CreateIndexes
<1>2. a4[p].pc = "indexes" /\ UNCHANGED <<a1, a2, a3, a5, a6, a7, a8>> /\ Passed(p)
  BY DEF Files!CreateIndexes, Files!At, FilesInv
<1>3. pc \in Pcs
  BY <1>1 DEF Pcs
<1>4. Passed(p)' /\ Rebuilding(p)'
  BY <1>1, <1>2, <1>3, ProcGoes, Zenon DEF Passed, Serving, Rebuilding
<1> QED  BY <1>1, <1>2, <1>3, <1>4, ProcGoes, ProcSteps, Zenon

LEMMA FilesInspect ==
    ASSUME FilesInv, NEW p \in Terminals, NEW c \in Columns, Files!InspectColumn(p, c)
    PROVE  FilesInv'
<1> DEFINE row == [a4[p] EXCEPT !.left = @ \ {c}, !.alter = IF c \in a1.columns THEN {} ELSE {c}]
<1>1. /\ a4[p] \in ProcType /\ a4[p].pc = "columns" /\ a4[p].alter = {} /\ Passed(p)
      /\ UNCHANGED <<a1, a2, a3, a5, a6, a7, a8>>
  BY DEF Files!InspectColumn, Files!At, FilesInv
<1>2. a4' = [a4 EXCEPT ![p] = row] /\ row \in ProcType /\ a4'[p] = row
  BY <1>1, Zenon DEF Files!InspectColumn, FilesInv, ProcType
<1>3. Passed(p)' /\ Rebuilding(p)'
  BY <1>1, <1>2 DEF Passed, Serving, Rebuilding, ProcType
<1> QED  BY <1>1, <1>2, <1>3, ProcSteps, Zenon

LEMMA FilesCategories ==
    ASSUME FilesInv, NEW p \in Terminals, Files!InspectCategories(p)
    PROVE  FilesInv'
<1>1. PICK pc \in {"begin", "seed"} : Files!Goes(p, pc) /\ (pc = "seed" => ~a1.main.fk)
  BY DEF Files!InspectCategories
<1>2. /\ a4[p].pc = "columns" /\ a4[p].left = {} /\ a4[p].alter = {} /\ Passed(p)
      /\ UNCHANGED <<a1, a2, a3, a5, a6, a7, a8>>
  BY DEF Files!InspectCategories, Files!Migrated, Files!At, FilesInv
<1>3. pc \in Pcs
  BY <1>1 DEF Pcs
<1>4. Passed(p)' /\ Rebuilding(p)'
  BY <1>1, <1>2, <1>3, ProcGoes, Zenon DEF Passed, Serving, Rebuilding
<1> QED  BY <1>1, <1>2, <1>3, <1>4, ProcGoes, ProcSteps, Zenon

LEMMA FilesBusy ==
    ASSUME FilesInv, NEW p \in Terminals, Files!Busy(p)
    PROVE  FilesInv'
<1>1. Files!Goes(p, "refused") /\ UNCHANGED <<a1, a2, a3, a5, a6, a7, a8>> /\ "refused" \in Pcs
  BY DEF Files!Busy, Pcs
<1>2. Passed(p)' /\ Rebuilding(p)'
  BY <1>1, ProcGoes, Zenon DEF Passed, Serving, Rebuilding
<1> QED  BY <1>1, <1>2, ProcGoes, ProcSteps, Zenon

(* A statement of p that is committed on its own. *)
LEMMA FileWrites ==
    ASSUME FilesInv, NEW p \in Terminals, NEW row \in ProcType, Files!Free,
           a4' = [a4 EXCEPT ![p] = row], UNCHANGED <<a2, a3, a5, a7, a8>>,
           FileOK(a1'), a1'.main.rows = a6',
           a1.main.exists =>
             /\ a1.columns \subseteq a1'.columns
             /\ a1'.main.exists
             /\ ~a1.main.fk => ~a1'.main.fk
             /\ a1.users => a1'.users
             /\ a1.version = Files!Current => a1'.version = Files!Current,
           Passed(p)', row.pc \notin {"rename", "create", "copy", "drop", "commit"}
    PROVE  FilesInv'
<1>1. a3 \notin Terminals \ {p}
  BY FilesAssumption DEF Files!Free
<1>2. Rebuilding(p)'
  BY DEF Rebuilding, FilesInv
<1>3. a4' \in [Terminals -> ProcType] /\ \A q \in Terminals : Passed(q)' /\ Rebuilding(q)'
  BY <1>1, <1>2, OthersStay, Zenon
<1> QED  BY CopiesStay, <1>3 DEF FilesInv

LEMMA StatementDone ==
    ASSUME FilesInv, NEW p \in Terminals, NEW pc \in Pcs, Files!Goes(p, pc), Files!Free,
           UNCHANGED <<a2, a3, a5, a7, a8>>, FileOK(a1'), a1'.main.rows = a6',
           a1.main.exists =>
             /\ a1.columns \subseteq a1'.columns
             /\ a1'.main.exists
             /\ ~a1.main.fk => ~a1'.main.fk
             /\ a1.users => a1'.users
             /\ a1.version = Files!Current => a1'.version = Files!Current,
           Passed(p)', pc \notin {"rename", "create", "copy", "drop", "commit"}
    PROVE  FilesInv'
<1> DEFINE row == [a4[p] EXCEPT !.pc = pc]
<1>1. row \in ProcType /\ a4' = [a4 EXCEPT ![p] = row] /\ row.pc = pc
  BY ProcGoes DEF ProcType, FilesInv
<1> HIDE DEF row
<1> QED  BY <1>1, FileWrites, Zenon

LEMMA FilesTables ==
    ASSUME FilesInv, NEW p \in Terminals, Files!CreateTables(p)
    PROVE  FilesInv'
<1>1. /\ Files!Goes(p, "indexes") /\ "indexes" \in Pcs /\ Files!Free
      /\ UNCHANGED <<a2, a3, a5, a6, a7, a8>>
      /\ a4[p].pc = "tables" /\ Passed(p)
  BY DEF Files!CreateTables, Files!At, Pcs, FilesInv
<1>2. /\ FileOK(a1) /\ a1 \in FileType /\ a1.main.rows = a6
      /\ ~a1.main.exists => a6 = {} /\ a1.version # Files!Current
  BY DEF FilesInv, FileOK, Sealed
<1>3. FileOK(a1') /\ a1'.main.rows = a6' /\ a1'.main.exists
      /\ (a1.main.exists => a1' = a1)
  <2>1. CASE a1.main.exists
    BY <1>1, <1>2, <2>1 DEF Files!CreateTables
  <2>2. CASE ~a1.main.exists
    <3> DEFINE new == [Files!NoTable EXCEPT !.exists = TRUE]
    <3>1. new \in TableType /\ new.exists /\ ~new.fk /\ new.rows = {}
      BY FilesTypes, Zenon DEF TableType
    <3>2. a1' = [a1 EXCEPT !.main = new, !.columns = Declared]
      BY <2>2 DEF Files!CreateTables
    <3> HIDE DEF new
    <3>3. /\ a1' \in FileType /\ a1'.main = new /\ a1'.old = a1.old
          /\ a1'.version = a1.version
      BY <1>2, <3>1, <3>2, FilesAssumption, Zenon DEF FileType
    <3> QED  BY <1>1, <1>2, <2>2, <3>1, <3>3, Zenon DEF FileOK
  <2> QED  BY <2>1, <2>2
<1>4. Passed(p)'
  BY <1>1, <1>3, ProcGoes, Zenon DEF Passed, Serving
<1> QED  BY <1>1, <1>2, <1>3, <1>4, StatementDone

LEMMA FilesColumn ==
    ASSUME FilesInv, NEW p \in Terminals, Files!AddColumn(p)
    PROVE  FilesInv'
<1>1. /\ a4[p].pc = "columns" /\ Files!Free /\ UNCHANGED <<a2, a3, a5, a6, a7, a8>>
      /\ FileOK(a1) /\ a1 \in FileType /\ a1.main.rows = a6 /\ Passed(p)
      /\ a4[p] \in ProcType
  BY DEF Files!AddColumn, Files!At, FilesInv, FileOK
<1>2. CASE Files!Goes(p, "refused") /\ UNCHANGED a1
  <2>1. Passed(p)' /\ "refused" \in Pcs
    BY <1>2, ProcGoes, Zenon DEF Passed, Serving, Pcs
  <2> QED  BY <1>1, <1>2, <2>1, StatementDone
<1>3. CASE /\ a1' = [a1 EXCEPT !.columns = @ \cup a4[p].alter]
           /\ a4' = [a4 EXCEPT ![p].alter = {}]
  <2> DEFINE row == [a4[p] EXCEPT !.alter = {}]
  <2>1. /\ a4' = [a4 EXCEPT ![p] = row] /\ row \in ProcType /\ a4'[p] = row
        /\ row.pc = "columns"
    BY <1>1, <1>3 DEF ProcType, FilesInv
  <2>2. /\ a1' \in FileType /\ a1'.columns = a1.columns \cup a4[p].alter
        /\ a1'.version = a1.version /\ a1'.users = a1.users
        /\ a1'.old = a1.old /\ a1'.main = a1.main
    BY <1>1, <1>3 DEF FileType, ProcType
  <2>3. FileOK(a1')
    BY <1>1, <2>2 DEF FileOK, Sealed
  <2>4. Passed(p)'
    BY <1>1, <2>1, <2>2 DEF Passed, Serving, ProcType
  <2> QED  BY <1>1, <2>1, <2>2, <2>3, <2>4, FileWrites, Zenon
<1> QED  BY <1>2, <1>3 DEF Files!AddColumn

LEMMA FilesSeeded ==
    ASSUME FilesInv, NEW p \in Terminals, Files!EnsureSeeded(p)
    PROVE  FilesInv'
<1>1. /\ a4[p].pc = "seed" /\ Files!Free /\ UNCHANGED <<a2, a3, a5, a6, a7, a8>>
      /\ FileOK(a1) /\ a1 \in FileType /\ a1.main.rows = a6 /\ Passed(p)
      /\ Files!Goes(p, "version") /\ "version" \in Pcs
      /\ a1' = [a1 EXCEPT !.users = TRUE]
  BY DEF Files!EnsureSeeded, Files!At, FilesInv, FileOK, Pcs
<1>2. /\ a1' \in FileType /\ a1'.columns = a1.columns /\ a1'.users
      /\ a1'.version = a1.version /\ a1'.old = a1.old /\ a1'.main = a1.main
  BY <1>1, Zenon DEF FileType
<1>3. FileOK(a1')
  BY <1>1, <1>2 DEF FileOK, Sealed
<1>4. Passed(p)'
  BY <1>1, <1>2, ProcGoes, Zenon DEF Passed, Serving
<1> QED  BY <1>1, <1>2, <1>3, <1>4, StatementDone, Zenon

LEMMA FilesVersioned ==
    ASSUME FilesInv, NEW p \in Terminals, Files!EnsureVersioned(p)
    PROVE  FilesInv'
<1>1. /\ a4[p].pc = "version" /\ Files!Free /\ UNCHANGED <<a2, a3, a5, a6, a7, a8>>
      /\ FileOK(a1) /\ a1 \in FileType /\ a1.main.rows = a6 /\ Passed(p)
  BY DEF Files!EnsureVersioned, Files!At, FilesInv, FileOK
<1>2. CASE Files!Goes(p, "refused") /\ UNCHANGED a1
  <2>1. Passed(p)' /\ "refused" \in Pcs
    BY <1>2, ProcGoes, Zenon DEF Passed, Serving, Pcs
  <2> QED  BY <1>1, <1>2, <2>1, StatementDone
<1>3. CASE Files!Goes(p, "open") /\ a1' = [a1 EXCEPT !.version = Files!Current]
  <2>1. /\ a1' \in FileType /\ a1'.columns = a1.columns /\ a1'.users = a1.users
        /\ a1'.version = Files!Current /\ a1'.old = a1.old /\ a1'.main = a1.main
    BY <1>1, <1>3 DEF FileType
  <2>2. FileOK(a1')
    BY <1>1, <2>1 DEF FileOK, Sealed, Passed, Serving
  <2>3. Passed(p)' /\ "open" \in Pcs
    BY <1>1, <1>3, <2>1, ProcGoes, Zenon DEF Passed, Serving, Pcs
  <2> QED  BY <1>1, <1>3, <2>1, <2>2, <2>3, StatementDone
<1> QED  BY <1>2, <1>3 DEF Files!EnsureVersioned

(* A step of the rebuild, which only its own connection sees. *)
LEMMA WorkSteps ==
    ASSUME FilesInv, NEW p \in Terminals, NEW pc \in Pcs, Files!Goes(p, pc),
           a3 \notin Terminals \ {p}, a2' \in FileType, UNCHANGED <<a1, a5, a6, a7, a8>>,
           Passed(p)', Rebuilding(p)'
    PROVE  FilesInv'
<1> DEFINE row == [a4[p] EXCEPT !.pc = pc]
<1>1. row \in ProcType /\ a4' = [a4 EXCEPT ![p] = row]
  BY ProcGoes
<1> HIDE DEF row
<1>2. FileOK(a1')
  BY DEF FilesInv
<1>3. a4' \in [Terminals -> ProcType] /\ \A q \in Terminals : Passed(q)' /\ Rebuilding(q)'
  BY <1>1, <1>2, OthersStay, Zenon
<1> QED  BY CopiesStay, <1>3 DEF FilesInv

LEMMA FilesBegin ==
    ASSUME FilesInv, NEW p \in Terminals, Files!BeginRebuild(p)
    PROVE  FilesInv'
<1>1. /\ a4[p].pc = "begin" /\ Passed(p) /\ a3 \notin Terminals \ {p}
      /\ UNCHANGED <<a1, a5, a6, a7, a8>> /\ a3' = p /\ a2' = a1
      /\ Files!Goes(p, "rename") /\ "rename" \in Pcs /\ a1 \in FileType
  BY FilesAssumption DEF Files!BeginRebuild, Files!At, Files!Free, Pcs, FilesInv, FileOK
<1>2. Passed(p)' /\ Rebuilding(p)'
  BY <1>1, ProcGoes, Zenon DEF Passed, Serving, Rebuilding
<1> QED  BY <1>1, <1>2, WorkSteps

(* The four statements: rename, create, copy, drop. *)
LEMMA FilesRebuild ==
    ASSUME FilesInv, NEW p \in Terminals, NEW pc \in DOMAIN Files!NextStatement,
           Files!Rebuild(p, pc)
    PROVE  FilesInv'
<1>1. /\ a4[p].pc = pc /\ a3 = p /\ a2' = Files!Rebuilt(pc)
      /\ UNCHANGED <<a1, a3, a5, a6, a7, a8>>
      /\ Files!Goes(p, Files!NextStatement[pc])
      /\ Passed(p) /\ Rebuilding(p) /\ a2 \in FileType
  BY DEF Files!Rebuild, Files!At, Files!Visible, FilesInv
<1>2. a3 \notin Terminals \ {p}
  BY <1>1
<1>3. CASE pc = "rename"
  <2>1. Files!NextStatement[pc] = "create" /\ "create" \in Pcs
    BY <1>3 DEF Files!NextStatement, Pcs
  <2>2. a2' = [a2 EXCEPT !.old = a2.main, !.main = Files!NoTable]
    BY <1>1, <1>3 DEF Files!Rebuilt
  <2>3. /\ a2' \in FileType /\ a2'.old = a2.main /\ a2'.version = a2.version
        /\ a2'.columns = a2.columns /\ a2'.users = a2.users
    BY <1>1, <2>2, FilesTypes, Zenon DEF FileType
  <2>4. Passed(p)' /\ Rebuilding(p)'
    BY <1>1, <1>3, <2>1, <2>3, ProcGoes, Zenon DEF Passed, Serving, Rebuilding
  <2> QED  BY <1>1, <1>2, <2>1, <2>3, <2>4, WorkSteps
<1>4. CASE pc = "create"
  <2> DEFINE new == [Files!NoTable EXCEPT !.exists = TRUE]
  <2>1. Files!NextStatement[pc] = "copy" /\ "copy" \in Pcs
    BY <1>4 DEF Files!NextStatement, Pcs
  <2>2. new \in TableType /\ new.exists /\ ~new.fk
    BY FilesTypes, Zenon DEF TableType
  <2>3. a2' = [a2 EXCEPT !.main = new]
    BY <1>1, <1>4 DEF Files!Rebuilt
  <2> HIDE DEF new
  <2>4. /\ a2' \in FileType /\ a2'.main = new /\ a2'.version = a2.version
        /\ a2'.columns = a2.columns /\ a2'.users = a2.users /\ a2'.old = a2.old
    BY <1>1, <2>2, <2>3 DEF FileType
  <2>5. Passed(p)' /\ Rebuilding(p)'
    BY <1>1, <1>4, <2>1, <2>2, <2>4, ProcGoes, Zenon DEF Passed, Serving, Rebuilding
  <2> QED  BY <1>1, <1>2, <2>1, <2>4, <2>5, WorkSteps
<1>5. CASE pc = "copy"
  <2> DEFINE new == [a2.main EXCEPT !.rows = a2.old.rows]
  <2>1. Files!NextStatement[pc] = "drop" /\ "drop" \in Pcs
    BY <1>5 DEF Files!NextStatement, Pcs
  <2>2. /\ new \in TableType /\ new.exists = a2.main.exists /\ new.fk = a2.main.fk
        /\ new.rows = a2.old.rows
    BY <1>1 DEF FileType, TableType
  <2>3. a2' = [a2 EXCEPT !.main = new]
    BY <1>1, <1>5 DEF Files!Rebuilt
  <2> HIDE DEF new
  <2>4. /\ a2' \in FileType /\ a2'.main = new /\ a2'.version = a2.version
        /\ a2'.columns = a2.columns /\ a2'.users = a2.users /\ a2'.old = a2.old
    BY <1>1, <2>2, <2>3 DEF FileType
  <2>5. Passed(p)' /\ Rebuilding(p)'
    BY <1>1, <1>5, <2>1, <2>2, <2>4, ProcGoes, Zenon DEF Passed, Serving, Rebuilding
  <2> QED  BY <1>1, <1>2, <2>1, <2>4, <2>5, WorkSteps
<1>6. CASE pc = "drop"
  <2>1. Files!NextStatement[pc] = "commit" /\ "commit" \in Pcs
    BY <1>6 DEF Files!NextStatement, Pcs
  <2>2. a2' = [a2 EXCEPT !.old = Files!NoTable]
    BY <1>1, <1>6 DEF Files!Rebuilt
  <2>3. /\ a2' \in FileType /\ a2'.main = a2.main /\ a2'.version = a2.version
        /\ a2'.columns = a2.columns /\ a2'.users = a2.users /\ ~a2'.old.exists
    BY <1>1, <2>2, FilesTypes DEF FileType
  <2>4. Passed(p)' /\ Rebuilding(p)'
    BY <1>1, <1>6, <2>1, <2>3, ProcGoes, Zenon DEF Passed, Serving, Rebuilding
  <2> QED  BY <1>1, <1>2, <2>1, <2>3, <2>4, WorkSteps
<1> QED  BY <1>3, <1>4, <1>5, <1>6 DEF Files!NextStatement

LEMMA FilesCommit ==
    ASSUME FilesInv, NEW p \in Terminals, Files!CommitRebuild(p)
    PROVE  FilesInv'
<1> DEFINE row == [a4[p] EXCEPT !.pc = "seed"]
<1>1. /\ a4[p].pc = "commit" /\ a3 = p /\ a1' = a2 /\ a2' = Files!Blank /\ UNCHANGED <<a5, a6, a7, a8>>
      /\ Files!Goes(p, "seed") /\ "seed" \in Pcs
      /\ Passed(p) /\ Rebuilding(p) /\ a2 \in FileType /\ FileOK(a1) /\ a1.main.rows = a6
  BY DEF Files!CommitRebuild, Files!At, Pcs, FilesInv
<1>2. /\ a2.version = a1.version /\ a2.columns = a1.columns /\ a2.users = a1.users
      /\ a2.main.exists /\ ~a2.main.fk /\ a2.main.rows = a1.main.rows /\ ~a2.old.exists
  BY <1>1 DEF Rebuilding
<1>3. FileOK(a1') /\ a1'.main.rows = a6'
  BY <1>1, <1>2 DEF FileOK, Sealed
<1>4. Passed(p)' /\ Rebuilding(p)'
  BY <1>1, <1>2, ProcGoes, Zenon DEF Passed, Serving, Rebuilding
<1>5. row \in ProcType /\ a4' = [a4 EXCEPT ![p] = row]
  BY <1>1, ProcGoes
<1> HIDE DEF row
<1>6. a4' \in [Terminals -> ProcType] /\ \A q \in Terminals : Passed(q)' /\ Rebuilding(q)'
  BY <1>1, <1>2, <1>3, <1>4, <1>5, OthersStay, Zenon
<1> QED  BY CopiesStay, FilesTypes, <1>1, <1>3, <1>6 DEF FilesInv

(* Whatever p was doing is given up; nobody else was in its transaction. *)
LEMMA FilesStop ==
    ASSUME FilesInv, NEW p \in Terminals, Files!Stop(p)
    PROVE  FilesInv'
<1>1. /\ a4' = [a4 EXCEPT ![p] = Files!Down] /\ UNCHANGED <<a1, a5, a6, a7, a8>>
      /\ UNCHANGED <<a2, a3>> \/ (a3 = p /\ a2' = Files!Blank)
  BY DEF Files!Stop
<1>2. a4'[p] = Files!Down /\ FileOK(a1')
  BY <1>1 DEF FilesInv
<1>3. Passed(p)' /\ Rebuilding(p)'
  BY <1>2, FilesTypes DEF Passed, Serving, Rebuilding
<1>4. a4' \in [Terminals -> ProcType] /\ \A q \in Terminals : Passed(q)' /\ Rebuilding(q)'
  BY <1>1, <1>2, <1>3, FilesTypes, OthersStay, Zenon
<1> QED  BY CopiesStay, FilesTypes, <1>1, <1>2, <1>4 DEF FilesInv

LEMMA FilesEnter ==
    ASSUME FilesInv, NEW p \in Terminals, NEW r \in Categories, Files!EnterCategory(p, r)
    PROVE  FilesInv'
<1> DEFINE new == [a1.main EXCEPT !.rows = @ \cup {r}]
<1>1. /\ a4[p].pc = "open" /\ Passed(p) /\ Files!Free /\ UNCHANGED <<a2, a3, a4, a5, a7, a8>>
      /\ a1 \in FileType /\ FileOK(a1) /\ a1.main.rows = a6
      /\ a1' = [a1 EXCEPT !.main = new] /\ a6' = a6 \cup {r}
      /\ a4 \in [Terminals -> ProcType]
  BY DEF Files!EnterCategory, Files!At, FilesInv, FileOK
<1>2. /\ new \in TableType /\ new.exists = a1.main.exists /\ new.fk = a1.main.fk
      /\ new.rows = a6 \cup {r}
  BY <1>1 DEF FileType, TableType
<1> HIDE DEF new
<1>3. /\ a1' \in FileType /\ a1'.main = new /\ a1'.old = a1.old
      /\ a1'.version = a1.version /\ a1'.columns = a1.columns /\ a1'.users = a1.users
  BY <1>1, <1>2 DEF FileType
<1>4. FileOK(a1') /\ a1'.main.rows = a6'
  BY <1>1, <1>2, <1>3 DEF FileOK, Sealed, Passed, Serving
<1>5. Passed(p)'
  BY <1>1, <1>2, <1>3 DEF Passed, Serving
<1>6. a4' = [a4 EXCEPT ![p] = a4[p]] /\ a4[p] \in ProcType
  BY <1>1
<1> QED  BY <1>1, <1>2, <1>3, <1>4, <1>5, <1>6, FileWrites, Zenon

LEMMA FilesCount == \A S : Files!Cardinality(S) = Cardinality(S)
  BY DEF Files!Cardinality, Cardinality, Files!IsFiniteSet, IsFiniteSet

LEMMA CopyFields ==
    ASSUME CopiesOK, NEW i \in 1..Len(a5)
    PROVE  /\ a5[i] \in CopyType /\ a5[i].begun \in Nat /\ a5[i].time \in Nat
           /\ CopyOK(i) /\ a5[i].begun <= a5[i].time /\ a5[i].time <= a8
<1>1. a5[i] \in CopyType
  BY ElementOfSeq DEF CopiesOK
<1> QED  BY <1>1 DEF CopiesOK, CopyOK, CopyType

LEMMA CopiesDomain ==
    CopiesOK => Len(a5) \in Nat /\ DOMAIN a5 = 1..Len(a5)
  BY LenProperties DEF CopiesOK

LEMMA FiniteImage ==
    ASSUME NEW S, IsFiniteSet(S), NEW f, DOMAIN f = S, f = [x \in S |-> f[x]]
    PROVE  LET T == {f[x] : x \in S}
           IN  IsFiniteSet(T) /\ Cardinality(T) <= Cardinality(S)
<1> DEFINE T == {f[x] : x \in S}
<1>1. f \in Surjection(S, T)
  BY DEF Surjection
<1> QED  BY <1>1, FS_Surjection

(* Copies are only added, written to and removed. *)
CopiesGrow ==
    /\ Len(a5) <= Len(a5')
    /\ \A i \in 1..Len(a5) : /\ a5'[i].begun = a5[i].begun /\ a5[i].time <= a5'[i].time
                             /\ a5'[i].kept => a5[i].kept

(* A step of p's copy or retention; the others' lists stay lists. *)
LEMMA CopySteps ==
    ASSUME FilesInv, NEW p \in Terminals, NEW row \in ProcType,
           a4[p].pc \in Serving, row.pc \in Serving,
           a4' = [a4 EXCEPT ![p] = row], UNCHANGED <<a1, a2, a3, a6>>,
           CopiesOK', CopiesGrow,
           row.pc = "vacuum" => row.copy \in 1..Len(a5'),
           row.pc = "prune" => Listed(p)'
    PROVE  FilesInv'
<1>1. a4 \in [Terminals -> ProcType] /\ a4'[p] = row
  BY DEF FilesInv
<1>2. Passed(p)' /\ Rebuilding(p)'
  BY <1>1 DEF FilesInv, Passed, Rebuilding, Serving
<1>3. ASSUME NEW q \in Terminals, q # p PROVE Passed(q)' /\ Rebuilding(q)'
  <2>1. a4'[q] = a4[q] /\ Passed(q) /\ Rebuilding(q)
    BY <1>1, <1>3 DEF FilesInv
  <2>2. ASSUME Listed(q) PROVE Listed(q)'
    <3>1. Len(a5) \in Nat /\ Len(a5') \in Nat /\ Len(a5) <= Len(a5')
      BY LenProperties DEF FilesInv, CopiesOK, CopiesGrow
    <3>2. ASSUME NEW l \in a4[q].listed
          PROVE  l.copy \in 1..Len(a5') /\ a5'[l.copy].begun <= l.time /\ l.time <= a5'[l.copy].time
      <4>1. /\ l.copy \in 1..Len(a5) /\ a5[l.copy].begun <= l.time /\ l.time <= a5[l.copy].time
            /\ l.time \in Nat
        BY <1>1, <2>2 DEF Listed, ProcType
      <4>2. l.copy \in 1..Len(a5')
        BY <3>1, <4>1
      <4>3. a5[l.copy] \in CopyType /\ a5'[l.copy] \in CopyType
        BY <4>1, <4>2, ElementOfSeq DEF FilesInv, CopiesOK
      <4> QED  BY <4>1, <4>2, <4>3 DEF CopiesGrow, CopyType
    <3>3. a4[q].seen \in 0..Len(a5')
      BY <2>2, <3>1 DEF Listed
    <3>4. ASSUME NEW i \in 1..a4[q].seen, a5'[i].kept
          PROVE  \E l \in a4[q].listed : l.copy = i
      <4>1. i \in 1..Len(a5)
        BY <2>2, <3>1 DEF Listed
      <4> QED  BY <2>2, <3>4, <4>1 DEF Listed, CopiesGrow
    <3> QED  BY <2>1, <2>2, <3>2, <3>3, <3>4 DEF Listed
  <2>3. a4[q].copy \in 1..Len(a5) => a4[q].copy \in 1..Len(a5')
    BY LenProperties DEF FilesInv, CopiesOK, CopiesGrow
  <2> QED  BY <2>1, <2>2, <2>3 DEF Passed, Rebuilding, Serving
<1> QED  BY <1>1, <1>2, <1>3 DEF FilesInv

(* More copies, and more of them new, only add to those written since. *)
LEMMA SinceGrows ==
    ASSUME CopiesOK, CopiesGrow, a5' \in Seq(CopyType), NEW i \in 1..Len(a5),
           CopiesKept <= Cardinality(Since(i))
    PROVE  CopiesKept <= Cardinality(Since(i)')
<1>1. Len(a5) \in Nat /\ Len(a5') \in Nat /\ Len(a5) <= Len(a5')
      /\ DOMAIN a5 = 1..Len(a5) /\ DOMAIN a5' = 1..Len(a5')
  BY LenProperties DEF CopiesOK, CopiesGrow
<1>2. Since(i) \subseteq Since(i)'
  <2> SUFFICES ASSUME NEW j \in Since(i) PROVE j \in Since(i)'
    OBVIOUS
  <2>1. j \in 1..Len(a5) /\ j # i /\ a5[j].time >= a5[i].begun /\ j \in 1..Len(a5')
    BY <1>1 DEF Since
  <2>2. a5[j].time \in Nat /\ a5[i].begun \in Nat
    BY <2>1, CopyFields
  <2>3. a5'[j].time \in Nat
    <3>1. a5'[j] \in CopyType
      BY <2>1, ElementOfSeq
    <3> QED  BY <3>1 DEF CopyType
  <2>4. a5[j].time <= a5'[j].time /\ a5'[i].begun = a5[i].begun
    BY <2>1 DEF CopiesGrow
  <2>5. a5'[j].time >= a5'[i].begun
    BY <2>1, <2>2, <2>3, <2>4
  <2> QED  BY <1>1, <2>1, <2>5 DEF Since
<1>3. IsFiniteSet(Since(i)')
  <2>1. IsFiniteSet(1..Len(a5'))
    BY <1>1, FS_Interval
  <2> QED  BY <1>1, <2>1, FS_Subset DEF Since
<1>4. /\ Cardinality(Since(i)) <= Cardinality(Since(i)')
      /\ Cardinality(Since(i)) \in Nat /\ Cardinality(Since(i)') \in Nat
  BY <1>2, <1>3, FS_Subset, FS_CardinalityType
<1> QED  BY <1>4, FilesAssumption

(* What was removed leaves room for what is kept. *)
LEMMA SweptShrinks ==
    ASSUME CopiesOK, CopiesGrow, a5' \in Seq(CopyType)
    PROVE  Cardinality({i \in 1..a7 : a5'[i].kept}) <= CopiesKept
<1>1. {i \in 1..a7 : a5'[i].kept} \subseteq {i \in 1..a7 : a5[i].kept}
  BY LenProperties DEF CopiesOK, CopiesGrow
<1>2. IsFiniteSet({i \in 1..a7 : a5[i].kept})
  <2>1. IsFiniteSet(1..a7)
    BY FS_Interval DEF CopiesOK
  <2> QED  BY <2>1, FS_Subset
<1>3. /\ Cardinality({i \in 1..a7 : a5'[i].kept}) <= Cardinality({i \in 1..a7 : a5[i].kept})
      /\ Cardinality({i \in 1..a7 : a5'[i].kept}) \in Nat
      /\ Cardinality({i \in 1..a7 : a5[i].kept}) \in Nat
  BY <1>1, <1>2, FS_Subset, FS_CardinalityType
<1> QED  BY <1>3, FilesAssumption DEF CopiesOK

LEMMA FilesCopyBegins ==
    ASSUME FilesInv, NEW p \in Terminals, Files!CopyBegins(p)
    PROVE  FilesInv'
<1> DEFINE c == [db |-> a1, entered |-> a6, begun |-> a8 + 1, time |-> a8 + 1,
                 ended |-> FALSE, kept |-> TRUE]
           n == Len(a5) + 1
           row == [a4[p] EXCEPT !.pc = "vacuum", !.copy = n]
<1>1. /\ a4[p].pc = "open" /\ a4 \in [Terminals -> ProcType] /\ Passed(p)
      /\ a8' = a8 + 1 /\ a5' = Append(a5, c) /\ UNCHANGED <<a1, a2, a3, a6, a7>>
      /\ a1 \in FileType /\ a1.main.rows = a6 /\ CopiesOK
  BY DEF Files!CopyBegins, Files!At, FilesInv, FileOK
<1>2. a4' = [a4 EXCEPT ![p] = row]
  BY <1>1 DEF Files!CopyBegins
<1>3. Len(a5) \in Nat /\ n \in Nat /\ a5 \in Seq(CopyType) /\ a8 \in Nat
  BY <1>1, LenProperties DEF CopiesOK
<1>4. row \in ProcType /\ row.pc = "vacuum" /\ row.copy = n
  BY <1>1, <1>3 DEF ProcType, Pcs
<1>5. a6 \subseteq Categories
  BY <1>1 DEF FileType, TableType
<1>6. c \in CopyType /\ c.kept /\ c.begun = a8' /\ c.time = a8' /\ c.db = a1 /\ c.entered = a6
  BY <1>1, <1>3, <1>5 DEF CopyType
<1> HIDE DEF c, row
<1>7. a5' \in Seq(CopyType) /\ Len(a5') = n /\ a5'[n] = c /\ \A i \in 1..Len(a5) : a5'[i] = a5[i]
  BY <1>1, <1>3, <1>6, AppendProperties
<1>8. CopiesGrow
  <2>1. ASSUME NEW i \in 1..Len(a5)
        PROVE  a5'[i].begun = a5[i].begun /\ a5[i].time <= a5'[i].time /\ (a5'[i].kept => a5[i].kept)
    <3>1. a5[i] \in CopyType
      BY <1>3, ElementOfSeq
    <3> QED  BY <1>7, <3>1 DEF CopyType
  <2> QED  BY <1>3, <1>7, <2>1 DEF CopiesGrow
<1>9. CopiesOK'
  <2>1. ASSUME NEW i \in 1..n PROVE CopyOK(i)'
    <3>1. CASE i = n
      BY <1>1, <1>3, <1>6, <1>7, <3>1 DEF CopyOK, Passed, Serving
    <3>2. CASE i # n
      <4>1. i \in 1..Len(a5)
        BY <1>3, <3>2
      <4>2. a5[i] \in CopyType /\ a5'[i] = a5[i] /\ CopyOK(i)
        BY <1>1, <1>3, <1>7, <4>1, ElementOfSeq DEF CopiesOK
      <4> QED  BY <1>1, <1>3, <4>2 DEF CopyOK, CopyType
    <3> QED  BY <3>1, <3>2
  <2>2. ASSUME NEW i \in 1..n, ~a5'[i].kept PROVE CopiesKept <= Cardinality(Since(i)')
    <3>1. i \in 1..Len(a5) /\ a5'[i] = a5[i]
      BY <1>3, <1>6, <1>7, <2>2
    <3> QED  BY <1>1, <1>7, <1>8, <2>2, <3>1, SinceGrows DEF CopiesOK
  <2>3. Cardinality({i \in 1..a7 : a5'[i].kept}) <= CopiesKept
    BY <1>1, <1>7, <1>8, SweptShrinks
  <2>4. a7' \in 0..Len(a5') /\ a8' \in Nat
    BY <1>1, <1>3, <1>7 DEF CopiesOK
  <2> QED  BY <1>1, <1>7, <2>1, <2>2, <2>3, <2>4 DEF CopiesOK
<1>10. n \in 1..Len(a5')
  BY <1>3, <1>7
<1> QED  BY <1>1, <1>2, <1>4, <1>8, <1>9, <1>10, CopySteps DEF Serving

(* Copy i is written to, or removed. *)
LEMMA CopyChanged ==
    ASSUME CopiesOK, NEW i \in 1..Len(a5), NEW c \in CopyType,
           a5' = [a5 EXCEPT ![i] = c], a7' = a7, a8' \in Nat, a8 <= a8',
           c.db = a5[i].db, c.entered = a5[i].entered, c.begun = a5[i].begun,
           a5[i].time <= c.time, c.time <= a8', c.kept => a5[i].kept,
           ~c.kept => ~a5[i].kept \/ CopiesKept <= Cardinality(Since(i))
    PROVE  CopiesOK' /\ CopiesGrow
<1>1. /\ a5 \in Seq(CopyType) /\ Len(a5) \in Nat /\ a8 \in Nat /\ DOMAIN a5 = 1..Len(a5)
      /\ \A j \in 1..Len(a5) : a5[j] \in CopyType /\ CopyOK(j)
  BY LenProperties, ElementOfSeq DEF CopiesOK
<1>2. a5' \in Seq(CopyType) /\ Len(a5') = Len(a5) /\ a5'[i] = c
      /\ \A j \in 1..Len(a5) : j # i => a5'[j] = a5[j]
  BY <1>1, ExceptSeq
<1>3. CopiesGrow
  <2>1. ASSUME NEW j \in 1..Len(a5)
        PROVE  a5'[j].begun = a5[j].begun /\ a5[j].time <= a5'[j].time /\ (a5'[j].kept => a5[j].kept)
    <3>1. CASE j = i
      BY <1>2, <3>1
    <3>2. CASE j # i
      <4>1. a5'[j] = a5[j] /\ a5[j].time \in Nat
        BY <1>1, <1>2, <3>2 DEF CopyType
      <4> QED  BY <4>1
    <3> QED  BY <3>1, <3>2
  <2> QED  BY <1>1, <1>2, <2>1 DEF CopiesGrow
<1>4. ASSUME NEW j \in 1..Len(a5) PROVE CopyOK(j)'
  <2>1. CASE j = i
    <3>1. c.begun \in Nat /\ a5[i].time \in Nat /\ c.time \in Nat /\ a5[i].begun <= a5[i].time
      BY <1>1 DEF CopyType, CopyOK
    <3>2. c.begun <= c.time
      BY <3>1
    <3> QED  BY <1>1, <1>2, <2>1, <3>2 DEF CopyOK
  <2>2. CASE j # i
    <3>1. a5'[j] = a5[j] /\ a5[j].time \in Nat /\ CopyOK(j)
      BY <1>1, <1>2, <2>2 DEF CopyType
    <3>2. a5[j].time <= a8'
      BY <1>1, <3>1 DEF CopyOK
    <3> QED  BY <3>1, <3>2 DEF CopyOK
  <2> QED  BY <2>1, <2>2
<1>5. ASSUME NEW j \in 1..Len(a5), ~a5'[j].kept PROVE CopiesKept <= Cardinality(Since(j)')
  <2>1. CopiesKept <= Cardinality(Since(j))
    BY <1>2, <1>5 DEF CopiesOK
  <2> QED  BY <1>2, <1>3, <2>1, SinceGrows
<1>6. Cardinality({j \in 1..a7 : a5'[j].kept}) <= CopiesKept
  BY <1>2, <1>3, SweptShrinks
<1> QED  BY <1>2, <1>3, <1>4, <1>5, <1>6 DEF CopiesOK

LEMMA FilesCopyWrites ==
    ASSUME FilesInv, NEW p \in Terminals, NEW ended \in BOOLEAN, Files!CopyWrites(p, ended)
    PROVE  FilesInv'
<1> DEFINE i == a4[p].copy
           time == IF a5[i].kept THEN a8 + 1 ELSE a5[i].time
           c == [a5[i] EXCEPT !.time = time, !.ended = ended]
           pc == IF ended THEN "list" ELSE "vacuum"
           row == [a4[p] EXCEPT !.pc = pc]
<1>1. /\ a4[p].pc = "vacuum" /\ a4 \in [Terminals -> ProcType] /\ Passed(p) /\ CopiesOK
      /\ a8' = a8 + 1 /\ UNCHANGED <<a1, a2, a3, a6, a7>> /\ i \in 1..Len(a5)
      /\ Files!Goes(p, pc) /\ pc \in Pcs /\ pc \in Serving /\ pc # "prune"
  BY DEF Files!CopyWrites, Files!At, FilesInv, Passed, Pcs, Serving
<1>2. /\ a5[i] \in CopyType /\ a5[i].begun \in Nat /\ a5[i].time \in Nat
      /\ CopyOK(i) /\ a5[i].begun <= a5[i].time /\ a5[i].time <= a8 /\ a8 \in Nat
  BY <1>1, CopyFields DEF CopiesOK
<1>3. time \in Nat /\ a5[i].time <= time /\ time <= a8'
  BY <1>1, <1>2
<1>4. a5' = [a5 EXCEPT ![i].time = time, ![i].ended = ended]
  BY DEF Files!CopyWrites
<1> HIDE DEF time, i
<1>5. a5' = [a5 EXCEPT ![i] = c]
  BY <1>2, <1>4 DEF CopyType
<1>6. /\ c \in CopyType /\ c.db = a5[i].db /\ c.entered = a5[i].entered /\ c.begun = a5[i].begun
      /\ c.kept = a5[i].kept /\ c.time = time
  BY <1>2, <1>3 DEF CopyType
<1> HIDE DEF c
<1>7. CopiesOK' /\ CopiesGrow
  <2>1. /\ a8' \in Nat /\ a8 <= a8' /\ a7' = a7 /\ a5[i].time <= c.time /\ c.time <= a8'
        /\ (c.kept => a5[i].kept) /\ (~c.kept => ~a5[i].kept)
    BY <1>1, <1>2, <1>3, <1>6
  <2> QED  BY <1>1, <1>5, <1>6, <2>1, CopyChanged, Zenon
<1>8. a4' = [a4 EXCEPT ![p] = row] /\ row \in ProcType /\ row.pc = pc /\ row.copy = i
  BY <1>1, ProcGoes DEF ProcType, i
<1>9. i \in 1..Len(a5')
  BY <1>1, <1>7, LenProperties DEF CopiesOK, CopiesGrow
<1> HIDE DEF row, pc
<1> QED  BY <1>1, <1>7, <1>8, <1>9, CopySteps DEF Serving

(* A retention or a copy ends, whichever way. *)
LEMMA FilesReturns ==
    ASSUME FilesInv, NEW p \in Terminals, a4[p].pc \in Serving, Files!Returns(p),
           UNCHANGED <<a1, a2, a3, a5, a6, a8>>, CopiesOK'
    PROVE  FilesInv'
<1> DEFINE row == [Files!Down EXCEPT !.pc = "open"]
<1>1. a4' = [a4 EXCEPT ![p] = row]
  BY DEF Files!Returns
<1>2. row \in ProcType /\ row.pc = "open"
  BY FilesTypes DEF ProcType, Pcs
<1> HIDE DEF row
<1>3. CopiesGrow
  <2>1. \A i \in 1..Len(a5) : a5[i].time \in Nat
    BY CopyFields DEF FilesInv
  <2> QED  BY <2>1, LenProperties DEF CopiesGrow, FilesInv, CopiesOK
<1> QED  BY <1>1, <1>2, <1>3, CopySteps DEF Serving

LEMMA FilesGivenUp ==
    ASSUME FilesInv, NEW p \in Terminals, Files!CopyFails(p) \/ Files!RemovalFails(p)
    PROVE  FilesInv'
<1>1. /\ a4[p].pc \in Serving /\ Files!Returns(p) /\ UNCHANGED <<a1, a2, a3, a5, a6, a7, a8>>
  BY DEF Files!CopyFails, Files!RemovalFails, Files!At, Serving
<1>2. CopiesOK'
  BY <1>1, CopiesStay DEF FilesInv
<1> QED  BY <1>1, <1>2, FilesReturns

LEMMA FilesListCopies ==
    ASSUME FilesInv, NEW p \in Terminals, Files!ListCopies(p)
    PROVE  FilesInv'
<1> DEFINE found == {j \in 1..Len(a5) : a5[j].kept}
           L == {[copy |-> i, time |-> a5[i].time] : i \in found}
           row == [a4[p] EXCEPT !.pc = "prune", !.seen = Len(a5), !.listed = L]
<1>1. /\ a4[p].pc = "list" /\ a4 \in [Terminals -> ProcType] /\ CopiesOK
      /\ UNCHANGED <<a1, a2, a3, a5, a6, a7, a8>>
  BY DEF Files!ListCopies, Files!At, FilesInv
<1>2. /\ Len(a5) \in Nat /\ DOMAIN a5 = 1..Len(a5)
      /\ \A i \in 1..Len(a5) : /\ a5[i] \in CopyType /\ a5[i].time \in Nat
                               /\ a5[i].begun <= a5[i].time
  BY <1>1, CopiesDomain, CopyFields
<1>3. a4' = [a4 EXCEPT ![p] = row]
  BY <1>1, <1>2 DEF Files!ListCopies
<1>4. IsFiniteSet(L)
  <2>1. IsFiniteSet(found)
    <3>1. IsFiniteSet(1..Len(a5))
      BY <1>2, FS_Interval
    <3> QED  BY <3>1, FS_Subset
  <2> DEFINE g == [i \in found |-> [copy |-> i, time |-> a5[i].time]]
  <2>3. L = {g[i] : i \in found}
    OBVIOUS
  <2>4. DOMAIN g = found /\ g = [i \in found |-> g[i]]
    OBVIOUS
  <2> HIDE DEF found, g, L
  <2> QED  BY <2>1, <2>3, <2>4, FiniteImage
<1>5. L \subseteq [copy : Nat, time : Nat]
  BY <1>2
<1>6. /\ \A l \in L : /\ l.copy \in 1..Len(a5)
                      /\ a5[l.copy].begun <= l.time /\ l.time <= a5[l.copy].time
      /\ \A l, m \in L : l.copy = m.copy => l = m
      /\ \A i \in 1..Len(a5) : a5[i].kept => \E l \in L : l.copy = i
  <2>1. \A l \in L : \E i \in found : l = [copy |-> i, time |-> a5[i].time]
    OBVIOUS
  <2>2. \A i \in found : [copy |-> i, time |-> a5[i].time] \in L
    OBVIOUS
  <2>3. \A i \in found : i \in 1..Len(a5) /\ a5[i].begun <= a5[i].time /\ a5[i].time \in Nat
    BY <1>2
  <2>4. \A i \in 1..Len(a5) : a5[i].kept => i \in found
    OBVIOUS
  <2> HIDE DEF L, found
  <2>5. ASSUME NEW l \in L
        PROVE  l.copy \in 1..Len(a5) /\ a5[l.copy].begun <= l.time /\ l.time <= a5[l.copy].time
    <3>1. PICK i \in found : l = [copy |-> i, time |-> a5[i].time]
      BY <2>1
    <3> QED  BY <2>3, <3>1
  <2>6. \A l, m \in L : l.copy = m.copy => l = m
    BY <2>1
  <2>7. \A i \in 1..Len(a5) : a5[i].kept => \E l \in L : l.copy = i
    BY <2>2, <2>4
  <2> QED  BY <2>5, <2>6, <2>7
<1> HIDE DEF L
<1>7. row \in ProcType /\ row.pc = "prune" /\ row.seen = Len(a5) /\ row.listed = L
  BY <1>1, <1>2, <1>5 DEF ProcType, Pcs
<1> HIDE DEF row
<1>8. Listed(p)'
  <2>1. a4'[p] = row /\ a5' = a5 /\ Len(a5) \in 0..Len(a5)
    BY <1>1, <1>2, <1>3
  <2> QED  BY <1>4, <1>6, <1>7, <2>1 DEF Listed
<1>9. CopiesOK'
  BY <1>1, CopiesStay
<1>10. CopiesGrow
  BY <1>1, <1>2 DEF CopiesGrow
<1> QED  BY <1>1, <1>3, <1>7, <1>8, <1>9, <1>10, CopySteps DEF Serving

(* The last of a list of more than Keep has Keep others that were written since
   it was begun: those before it. *)
LEMMA LastHasSince ==
    ASSUME FilesInv, NEW p \in Terminals, Listed(p), Files!TooMany(p),
           NEW f \in a4[p].listed, Files!Last(p, f)
    PROVE  CopiesKept <= Cardinality(Since(f.copy))
<1> DEFINE L == a4[p].listed \ {f}
           S == Since(f.copy)
           g == [l \in L |-> l.copy]
<1>1. /\ a4[p].listed \subseteq [copy : Nat, time : Nat] /\ IsFiniteSet(a4[p].listed)
      /\ Cardinality(a4[p].listed) > CopiesKept
  BY FilesCount DEF FilesInv, ProcType, Listed, Files!TooMany
<1>2. IsFiniteSet(L) /\ Cardinality(L) = Cardinality(a4[p].listed) - 1
      /\ Cardinality(L) \in Nat /\ Cardinality(a4[p].listed) \in Nat
  BY <1>1, FS_RemoveElement, FS_CardinalityType
<1>3. Len(a5) \in Nat /\ DOMAIN a5 = 1..Len(a5)
  BY LenProperties DEF FilesInv, CopiesOK
<1>4. IsFiniteSet(S) /\ Cardinality(S) \in Nat
  <2>1. IsFiniteSet(1..Len(a5))
    BY <1>3, FS_Interval
  <2>2. IsFiniteSet(S)
    BY <1>3, <2>1, FS_Subset DEF Since
  <2> QED  BY <2>2, FS_CardinalityType
<1>5. ASSUME NEW l \in L PROVE l.copy \in S
  <2>1. /\ l.copy \in 1..Len(a5) /\ l.time <= a5[l.copy].time /\ l.copy # f.copy
        /\ f.copy \in 1..Len(a5) /\ a5[f.copy].begun <= f.time
        /\ f.time <= l.time /\ l.time \in Nat /\ f.time \in Nat
    BY <1>1 DEF Listed, Files!Last
  <2>2. a5[l.copy].time \in Nat /\ a5[f.copy].begun \in Nat
    BY <2>1, CopyFields DEF FilesInv
  <2>3. a5[l.copy].time >= a5[f.copy].begun
    BY <2>1, <2>2
  <2> QED  BY <1>3, <2>1, <2>3 DEF Since
<1>6. g \in Injection(L, S)
  <2>1. g \in [L -> S]
    BY <1>5
  <2>2. \A l, m \in L : g[l] = g[m] => l = m
    BY DEF Listed
  <2> HIDE DEF g
  <2> QED  BY <2>1, <2>2 DEF Injection, IsInjective
<1> HIDE DEF L, S, g
<1>7. Cardinality(L) <= Cardinality(S)
  BY <1>4, <1>6, FS_Injection
<1> QED  BY <1>1, <1>2, <1>4, <1>7, FilesAssumption DEF S

LEMMA FilesRemoveLast ==
    ASSUME FilesInv, NEW p \in Terminals, NEW f \in a4[p].listed, Files!RemoveLast(p, f)
    PROVE  FilesInv'
<1> DEFINE i == f.copy
           c == [a5[i] EXCEPT !.kept = FALSE]
           row == [a4[p] EXCEPT !.listed = @ \ {f}]
<1>1. /\ a4[p].pc = "prune" /\ a4 \in [Terminals -> ProcType] /\ Listed(p) /\ CopiesOK
      /\ UNCHANGED <<a1, a2, a3, a6, a7, a8>> /\ i \in 1..Len(a5)
      /\ a5' = [a5 EXCEPT ![i] = c] /\ a4' = [a4 EXCEPT ![p] = row]
  BY DEF Files!RemoveLast, Files!At, FilesInv, Passed, Listed
<1>2. CopiesKept <= Cardinality(Since(i))
  BY <1>1, LastHasSince DEF Files!RemoveLast
<1>3. /\ a5[i] \in CopyType /\ a8 \in Nat /\ CopyOK(i) /\ a5 \in Seq(CopyType)
      /\ a5[i].time \in Nat /\ a5[i].time <= a5[i].time /\ a5[i].time <= a8'
  BY <1>1, CopyFields DEF CopiesOK
<1> HIDE DEF i
<1>4. /\ c \in CopyType /\ c.db = a5[i].db /\ c.entered = a5[i].entered /\ c.begun = a5[i].begun
      /\ ~c.kept /\ c.time = a5[i].time
  BY <1>3 DEF CopyType
<1> HIDE DEF c
<1>5. CopiesOK' /\ CopiesGrow
  <2>1. /\ a8' \in Nat /\ a8 <= a8' /\ a7' = a7 /\ a5[i].time <= c.time /\ c.time <= a8'
        /\ (c.kept => a5[i].kept) /\ a5' = [a5 EXCEPT ![i] = c] /\ i \in 1..Len(a5)
    BY <1>1, <1>3, <1>4
  <2> QED  BY <1>1, <1>2, <1>4, <2>1, CopyChanged, Zenon
<1>6. /\ row \in ProcType /\ row.pc = "prune" /\ row.listed = a4[p].listed \ {f}
      /\ row.seen = a4[p].seen
  BY <1>1 DEF ProcType
<1> HIDE DEF row
<1>7. /\ Len(a5') = Len(a5) /\ a5'[i] = c /\ \A j \in 1..Len(a5) : j # i => a5'[j] = a5[j]
  BY <1>1, <1>3, <1>4, ExceptSeq
<1>8. Listed(p)'
  <2>1. a4'[p] = row
    BY <1>1
  <2>2. IsFiniteSet(row.listed)
    BY <1>1, <1>6, FS_Subset DEF Listed
  <2>3. ASSUME NEW j \in 1..row.seen, a5'[j].kept PROVE \E l \in row.listed : l.copy = j
    <3>1. j # i /\ j \in 1..Len(a5)
      BY <1>1, <1>4, <1>6, <1>7, <2>3, LenProperties DEF Listed, CopiesOK
    <3>2. PICK l \in a4[p].listed : l.copy = j
      BY <1>1, <1>6, <1>7, <2>3, <3>1 DEF Listed
    <3> QED  BY <1>6, <3>1, <3>2 DEF i
  <2>4. ASSUME NEW l \in row.listed
        PROVE  l.copy \in 1..Len(a5') /\ a5'[l.copy].begun <= l.time /\ l.time <= a5'[l.copy].time
    <3>1. l.copy # i
      BY <1>1, <1>6 DEF Listed, i
    <3> QED  BY <1>1, <1>6, <1>7, <3>1 DEF Listed
  <2> QED  BY <1>1, <1>6, <1>7, <2>1, <2>2, <2>3, <2>4 DEF Listed
<1> QED  BY <1>1, <1>5, <1>6, <1>8, CopySteps DEF Serving

LEMMA FilesEndRetention ==
    ASSUME FilesInv, NEW p \in Terminals, Files!EndRetention(p)
    PROVE  FilesInv'
<1> DEFINE L == a4[p].listed
           f == [l \in L |-> l.copy]
           K == {i \in 1..a4[p].seen : a5[i].kept}
<1>1. /\ a4[p].pc \in Serving /\ Files!Returns(p) /\ UNCHANGED <<a1, a2, a3, a5, a6, a8>>
      /\ Listed(p) /\ CopiesOK /\ a7' \in {a7, a4[p].seen} /\ Cardinality(L) \in Nat
      /\ ~(Cardinality(L) > CopiesKept)
  BY FilesCount, FS_CardinalityType
     DEF Files!EndRetention, Files!At, FilesInv, Passed, Serving, Files!TooMany, Listed
<1>2. Cardinality(K) <= CopiesKept
  <2>1. K \subseteq {f[l] : l \in L}
    BY <1>1 DEF Listed
  <2>2. IsFiniteSet({f[l] : l \in L}) /\ Cardinality({f[l] : l \in L}) <= Cardinality(L)
    <3>1. IsFiniteSet(L) /\ DOMAIN f = L /\ f = [l \in L |-> f[l]]
      BY <1>1 DEF Listed
    <3> HIDE DEF L, f
    <3> QED  BY <3>1, FiniteImage
  <2>3. /\ Cardinality(K) <= Cardinality({f[l] : l \in L})
        /\ Cardinality(K) \in Nat /\ Cardinality({f[l] : l \in L}) \in Nat
    BY <2>1, <2>2, FS_Subset, FS_CardinalityType
  <2> QED  BY <1>1, <2>2, <2>3, FilesAssumption
<1>3. a7' \in 0..Len(a5) /\ Cardinality({i \in 1..a7' : a5[i].kept}) <= CopiesKept
  BY <1>1, <1>2 DEF CopiesOK, Listed
<1>4. CopiesOK'
  <2>1. \A i \in 1..Len(a5) : CopyOK(i)' /\ Since(i)' = Since(i)
    BY <1>1, Zenon DEF CopiesOK, CopyOK, Since
  <2> QED  BY <1>1, <1>3, <2>1 DEF CopiesOK
<1> QED  BY <1>1, <1>4, FilesReturns

LEMMA FilesBackup ==
    ASSUME FilesInv, NEW p \in Terminals, Files!Backup(p)
    PROVE  FilesInv'
  BY FilesCopyBegins, FilesCopyWrites, FilesGivenUp, FilesListCopies, FilesRemoveLast,
     FilesEndRetention DEF Files!Backup

LEMMA FilesInit == Files!Init => FilesInv
<1> SUFFICES ASSUME Files!Init PROVE FilesInv
  OBVIOUS
<1>1. PICK old \in SUBSET Columns, fk \in BOOLEAN, first \in SUBSET Categories,
           v \in {0, Files!Current, Files!Future} :
        /\ v >= Files!Current => old = Columns /\ ~fk
        /\ \/ a1 = [version |-> v, columns |-> old, users |-> TRUE, old |-> Files!NoTable,
                    main |-> [exists |-> TRUE, fk |-> fk, rows |-> first]]
           \/ a1 = Files!Blank
        /\ a6 = a1.main.rows /\ a2 = Files!Blank /\ a5 = <<>> /\ a7 = 0 /\ a8 = 0
        /\ a4 = [p \in Terminals |-> Files!Down]
  BY Zenon DEF Files!Init
<1>2. FileOK(a1)
  <2>1. a1.version = Files!Current => a1.columns = Columns /\ ~a1.main.fk /\ a1.main.exists /\ a1.users
    BY <1>1 DEF Files!Current, Files!Blank
  <2>2. a1 \in FileType
    <3> DEFINE main == [exists |-> TRUE, fk |-> fk, rows |-> first]
    <3>1. main \in TableType
      BY <1>1 DEF TableType
    <3> HIDE DEF main
    <3>2. [version |-> v, columns |-> old, users |-> TRUE, old |-> Files!NoTable, main |-> main]
            \in FileType
      BY <1>1, <3>1, FilesTypes DEF FileType
    <3> QED  BY <1>1, <3>2, FilesTypes, Zenon DEF main
  <2> QED  BY <1>1, <2>1, <2>2, FilesTypes DEF FileOK, Sealed, Files!Blank
<1>3. \A p \in Terminals : Passed(p) /\ Rebuilding(p)
  BY <1>1, FilesTypes, Zenon DEF Passed, Serving, Rebuilding
<1>4. CopiesOK
  <2>1. a5 \in Seq(CopyType) /\ Len(a5) = 0 /\ a7 = 0 /\ a8 = 0
    BY <1>1
  <2>2. {i \in 1..a7 : a5[i].kept} = {} /\ Cardinality({}) = 0
    BY <2>1, FS_EmptySet
  <2>3. Cardinality({i \in 1..a7 : a5[i].kept}) <= CopiesKept
    BY <2>2, FilesAssumption
  <2> QED  BY <2>1, <2>3 DEF CopiesOK
<1> QED  BY <1>1, <1>2, <1>3, <1>4, FilesTypes DEF FilesInv, FileOK

LEMMA FilesStep == FilesInv /\ [Files!Next]_(Files!vars) => FilesInv'
<1> SUFFICES ASSUME FilesInv, [Files!Next]_(Files!vars) PROVE FilesInv'
  OBVIOUS
<1>1. CASE UNCHANGED Files!vars
  BY <1>1 DEF Files!vars, FilesInv, FileOK, Sealed, Passed, Serving, Listed, Rebuilding, CopiesOK, CopyOK,
              Since
<1>2. ASSUME NEW p \in Terminals, Files!Initialize(p) PROVE FilesInv'
  BY <1>2, FilesStart, FilesTables, FilesIndexes, FilesInspect, FilesColumn, FilesCategories,
     FilesBegin, FilesRebuild, FilesCommit, FilesSeeded, FilesVersioned DEF Files!Initialize
<1> QED  BY <1>1, <1>2, FilesBusy, FilesStop, FilesEnter, FilesBackup DEF Files!Next

(* DatabaseManager: a file sealed with the program's version has all of its
   columns and a user, and no category is lost in the rebuild, whichever
   processes start, overlap or die between any two statements. *)
THEOREM FileHolds == PartsSpec => []FileIsWhole
<1>1. FilesInv => Files!SealIsTrue /\ Files!CategoriesKept
  BY DEF FilesInv, FileOK, Sealed, Files!SealIsTrue, Files!CategoriesKept
<1> QED  BY FilesInit, FilesStep, <1>1, PartIsItself, PTL DEF Files!Spec, FileIsWhole

(* DatabaseManager::backup: "copia consistente en caliente", "conservar los keep
   mas recientes": a copy that ended opens as it is; a copy goes only when Keep
   others were written since it was begun, and a retention that ends leaves no
   more than Keep of those it found, though processes rebuild, copy, list,
   remove and die at once. *)
THEOREM BackupsHold == PartsSpec => []BackupsRestore
<1>1. FilesInv => Files!BackupsRestore
  <2> SUFFICES ASSUME FilesInv PROVE Files!BackupsRestore
    OBVIOUS
  <2>1. DOMAIN a5 = 1..Len(a5)
    BY LenProperties DEF FilesInv, CopiesOK
  <2>2. \A i \in DOMAIN a5 : ~a5[i].kept => CopiesKept <= Files!Cardinality(Since(i))
    BY <2>1, FilesCount DEF FilesInv, CopiesOK
  <2>3. Files!Cardinality({i \in 1..a7 : a5[i].kept}) <= CopiesKept
    BY FilesCount DEF FilesInv, CopiesOK
  <2> QED  BY <2>1, <2>2, <2>3 DEF FilesInv, CopiesOK, CopyOK, Since, Files!BackupsRestore
<1> QED  BY FilesInit, FilesStep, <1>1, PartIsItself, PTL DEF Files!Spec, BackupsRestore

-----------------------------------------------------------------------------
(* The rows of a product.  a1 is stock, a2 the ledger, a3 the parts of kits, a4
   what each terminal is removing, a5 seeded, a6 uneven, a7 whole and a8 the
   kits being made.  A product that exists and is even is not being removed, and
   one that was seeded since the last start has no row in the ledger.  The
   components of a kit that is being made and is sound exist. *)
Figure == Nat \cup {Goods!NoRow}

Even(s) ==
    IF Goods!Exists(s)
    THEN /\ ~Goods!BeingRemoved(s)
         /\ s \in a5 => a2[s] = Goods!Empty
         /\ s \notin a5 => Goods!Total(s) = a1[s]
    ELSE Goods!BeingRemoved(s) \/ a2[s] = Goods!Empty

KitType == [sku : Products, comps : SUBSET Products, sound : BOOLEAN, stock : 0..MaxStock]

GoodsType ==
    /\ a1 \in [Products -> {Goods!NoRow} \cup 0..MaxStock]
    /\ a2 \in [Products -> [Goods!Warehouses -> Figure]]
    /\ a3 \in [Products -> SUBSET Products]
    /\ a4 \in [Caja -> Products \cup {Nobody}]
    /\ a7 \subseteq Products
    /\ a8 \in [Makers -> SUBSET KitType]

KitsSound ==
    \A m \in Makers : \A k \in a8[m] :
        k.comps # {} /\ (k.sound => \A c \in k.comps : Goods!Exists(c))

GoodsInv ==
    /\ GoodsType
    /\ \A s \in a5 : s \in Products /\ Goods!Exists(s)
    /\ \A s \in Products \ a6 : Even(s)
    /\ Goods!KitsAreComplete /\ KitsSound

LEMMA GoodsFigures ==
    /\ Goods!NoRow = -1 /\ Goods!Principal \in Goods!Warehouses
    /\ "Sucursal" \in Goods!Warehouses /\ Goods!Principal # "Sucursal"
    /\ \A w \in Goods!Warehouses : w = Goods!Principal \/ w = "Sucursal"
    /\ Goods!Empty \in [Goods!Warehouses -> Figure]
    /\ \A w \in Goods!Warehouses : Goods!Empty[w] = Goods!NoRow
    /\ \A n \in Figure : Goods!Units(n) \in Nat
    /\ \A n \in Nat : Goods!Units(n) = n
    /\ Goods!Units(Goods!NoRow) = 0
  BY DEF Goods!NoRow, Goods!Principal, Goods!Warehouses, Goods!Empty, Figure, Goods!Units

(* A product that a step leaves alone stays even. *)
LEMMA GoodsApart ==
    ASSUME GoodsInv, NEW r \in Products, r \notin a6', r \notin a6,
           a1'[r] = a1[r], a2'[r] = a2[r], r \in a5' <=> r \in a5,
           (\E t \in Caja : a4'[t] = r) <=> (\E t \in Caja : a4[t] = r)
    PROVE  Even(r)'
  BY DEF GoodsInv, Even, Goods!Exists, Goods!BeingRemoved, Goods!Total

(* Kits are only given up, and no product goes. *)
LEMMA KitsStaySound ==
    ASSUME GoodsInv, \A m \in Makers : a8'[m] \subseteq a8[m],
           \A r \in Products : a1[r] # Goods!NoRow => a1'[r] # Goods!NoRow
    PROVE  KitsSound'
<1> SUFFICES ASSUME NEW m \in Makers, NEW k \in a8'[m]
             PROVE  k.comps # {} /\ (k.sound => \A c \in k.comps : Goods!Exists(c)')
  BY DEF KitsSound
<1>1. k \in a8[m] /\ k.comps \subseteq Products
  BY DEF GoodsInv, GoodsType, KitType
<1> QED  BY <1>1 DEF GoodsInv, KitsSound, Goods!Exists

(* A kit's stock is that of its scarcest component. *)
LEMMA KitStockIsStock ==
    ASSUME GoodsType, NEW comps \in SUBSET Products, Goods!Components(comps)
    PROVE  Goods!KitStock(comps) \in 0..MaxStock
<1> DEFINE T == {a1[c] : c \in comps}
<1>1. comps # {} /\ \A c \in comps : a1[c] \in 0..MaxStock
  BY DEF GoodsType, Goods!Components, Goods!Exists
<1>2. T # {} /\ T \subseteq Nat /\ \A n \in T : n \in 0..MaxStock
  BY <1>1, GoodsAssumption
<1>3. PICK n \in T : \A k \in T : ~(<<k, n>> \in OpToRel(<, Nat))
  <2> HIDE DEF T
  <2> QED  BY <1>2, NatLessThanWellFounded, WFMin, Zenon
<1>4. \A k \in T : n <= k
  <2> HIDE DEF T
  <2>1. n \in Nat
    BY <1>2
  <2> SUFFICES ASSUME NEW k \in T, k < n PROVE FALSE
    BY <1>2, <2>1
  <2>2. <<k, n>> \in OpToRel(<, Nat)
    BY <1>2, <2>1 DEF OpToRel
  <2> QED  BY <1>3, <2>2, Zenon
<1>5. (\A c \in comps : n <= a1[c]) /\ (\E c \in comps : n = a1[c])
  BY <1>3, <1>4, Zenon
<1>6. n \in 0..MaxStock
  BY <1>2, <1>3, Zenon
<1>7. Goods!KitStock(comps) = CHOOSE k \in 0..MaxStock : /\ \A c \in comps : k <= a1[c]
                                                       /\ \E c \in comps : k = a1[c]
  BY DEF Goods!KitStock, Goods!Components
<1> QED  BY <1>5, <1>6, <1>7

(* A product enters: the main warehouse has what the product has. *)
LEMMA GoodsBorn ==
    ASSUME GoodsInv, NEW s \in Products, NEW q \in 0..MaxStock, Goods!Born(s, q),
           a4' = a4, a5' = a5, a3' \in [Products -> SUBSET Products], a7' \subseteq Products,
           a8' \in [Makers -> SUBSET KitType]
    PROVE  GoodsType' /\ \A r \in Products \ a6' : Even(r)'
<1> USE GoodsFigures
<1>1. /\ a1[s] = Goods!NoRow /\ a1' = [a1 EXCEPT ![s] = q]
      /\ a2' = [a2 EXCEPT ![s] = Goods!Opened(@, q)]
      /\ a6' = IF Goods!BeingRemoved(s) THEN a6 \cup {s} ELSE a6
  BY DEF Goods!Born, Goods!Exists
<1>2. /\ a1 \in [Products -> {Goods!NoRow} \cup 0..MaxStock]
      /\ a2 \in [Products -> [Goods!Warehouses -> Figure]]
  BY DEF GoodsInv, GoodsType
<1>3. /\ a2'[s] \in [Goods!Warehouses -> Figure]
      /\ a2'[s]["Sucursal"] = a2[s]["Sucursal"]
      /\ a2'[s][Goods!Principal] = IF q > 0 THEN q ELSE a2[s][Goods!Principal]
  BY <1>1, <1>2 DEF Goods!Opened, Figure
<1>4. GoodsType'
  BY <1>1, <1>2, <1>3 DEF GoodsInv, GoodsType, Goods!Opened
<1>5. ASSUME NEW r \in Products, r \notin a6', r # s PROVE Even(r)'
  <2>1. a1'[r] = a1[r] /\ a2'[r] = a2[r] /\ r \notin a6
    BY <1>1, <1>2, <1>5
  <2> QED  BY <1>5, <2>1, GoodsApart
<1>6. ASSUME s \notin a6' PROVE Even(s)'
  <2>1. ~Goods!BeingRemoved(s) /\ s \notin a6 /\ a2[s] = Goods!Empty
    BY <1>1, <1>6 DEF GoodsInv, Even, Goods!Exists
  <2>2. a1'[s] = q /\ q # Goods!NoRow /\ s \notin a5'
    BY <1>1, <1>2 DEF GoodsInv, Goods!Exists
  <2>3. Goods!Total(s)' = q
    BY <1>3, <2>1 DEF Goods!Total
  <2>4. ~Goods!BeingRemoved(s)' /\ Goods!Exists(s)'
    BY <2>1, <2>2 DEF Goods!BeingRemoved, Goods!Exists
  <2> QED  BY <2>2, <2>3, <2>4 DEF Even
<1> QED  BY <1>4, <1>5, <1>6

(* What may happen to products that do not enter: s alone changes. *)
LEMMA GoodsOne ==
    ASSUME GoodsInv, NEW s \in Products, NEW n \in {Goods!NoRow} \cup 0..MaxStock,
           NEW row \in [Goods!Warehouses -> Figure],
           a1' = [a1 EXCEPT ![s] = n], a2' = [a2 EXCEPT ![s] = row],
           UNCHANGED <<a3, a4, a7, a8>>, a5' \ {s} = a5 \ {s}, a6 \subseteq a6',
           s \in a5' => n # Goods!NoRow, a1[s] # Goods!NoRow => n # Goods!NoRow,
           s \notin a6' => Even(s)'
    PROVE  GoodsInv'
<1>1. GoodsType'
  BY DEF GoodsInv, GoodsType
<1>2. ASSUME NEW r \in Products, r \notin a6', r # s PROVE Even(r)'
  <2>1. a1'[r] = a1[r] /\ a2'[r] = a2[r] /\ r \notin a6 /\ (r \in a5' <=> r \in a5)
    BY <1>2 DEF GoodsInv, GoodsType
  <2> QED  BY <1>2, <2>1, GoodsApart
<1>3. \A r \in a5' : r \in Products /\ Goods!Exists(r)'
  BY DEF GoodsInv, GoodsType, Goods!Exists
<1>4. Goods!KitsAreComplete'
  BY DEF GoodsInv, GoodsType, Goods!KitsAreComplete, Goods!Exists
<1>5. KitsSound'
  BY KitsStaySound DEF GoodsInv, GoodsType
<1> QED  BY <1>1, <1>2, <1>3, <1>4, <1>5 DEF GoodsInv

LEMMA GoodsAdd ==
    ASSUME GoodsInv, NEW s \in Products, NEW q \in {0, MaxStock}, Goods!Add(s, q)
    PROVE  GoodsInv'
<1>1. /\ Goods!Born(s, q) /\ q \in 0..MaxStock /\ UNCHANGED <<a4, a5, a8>>
      /\ a3' = [a3 EXCEPT ![s] = {}] /\ a7' = a7 \ {s}
  BY GoodsAssumption DEF Goods!Add
<1>2. /\ a3' \in [Products -> SUBSET Products] /\ a7' \subseteq Products
      /\ a8' \in [Makers -> SUBSET KitType]
  BY <1>1 DEF GoodsInv, GoodsType
<1>3. GoodsType' /\ \A r \in Products \ a6' : Even(r)'
  BY <1>1, <1>2, GoodsBorn
<1>4. a1 \in [Products -> {Goods!NoRow} \cup 0..MaxStock] /\ a1' = [a1 EXCEPT ![s] = q]
      /\ a1[s] = Goods!NoRow /\ q # Goods!NoRow
  BY <1>1, GoodsFigures DEF GoodsInv, GoodsType, Goods!Born, Goods!Exists
<1>5. Goods!KitsAreComplete'
  BY <1>1, <1>4 DEF GoodsInv, GoodsType, Goods!KitsAreComplete, Goods!Exists
<1>6. \A r \in a5' : r \in Products /\ Goods!Exists(r)'
  BY <1>1, <1>4 DEF GoodsInv, Goods!Exists
<1>7. KitsSound'
  BY <1>1, <1>4, KitsStaySound DEF GoodsInv, GoodsType
<1> QED  BY <1>3, <1>5, <1>6, <1>7 DEF GoodsInv

LEMMA GoodsLookUp ==
    ASSUME GoodsInv, NEW m \in Makers, NEW s \in Products, NEW comps \in SUBSET (Products \ {s}),
           Goods!LookUpKit(m, s, comps)
    PROVE  GoodsInv'
<1> DEFINE k == [sku |-> s, comps |-> comps, sound |-> TRUE, stock |-> Goods!KitStock(comps)]
<1>1. /\ Goods!Components(comps) /\ a8' = [a8 EXCEPT ![m] = {k}]
      /\ UNCHANGED <<a1, a2, a3, a4, a5, a6, a7>>
  BY DEF Goods!LookUpKit
<1>2. Goods!KitStock(comps) \in 0..MaxStock
  BY <1>1, KitStockIsStock DEF GoodsInv
<1>3. /\ k \in KitType /\ k.comps = comps /\ comps # {}
      /\ \A c \in comps : Goods!Exists(c)
  BY <1>1, <1>2 DEF KitType, Goods!Components
<1> HIDE DEF k
<1>4. /\ a8 \in [Makers -> SUBSET KitType] /\ a8' \in [Makers -> SUBSET KitType]
      /\ \A u \in Makers : a8'[u] = IF u = m THEN {k} ELSE a8[u]
  BY <1>1, <1>3 DEF GoodsInv, GoodsType
<1>5. GoodsType'
  BY <1>1, <1>4 DEF GoodsInv, GoodsType
<1>6. KitsSound'
  BY <1>1, <1>3, <1>4 DEF GoodsInv, KitsSound, Goods!Exists
<1>7. \A r \in Products \ a6' : Even(r)'
  BY <1>1 DEF GoodsInv, Even, Goods!Exists, Goods!BeingRemoved, Goods!Total
<1> QED  BY <1>1, <1>5, <1>6, <1>7 DEF GoodsInv, Goods!Exists, Goods!KitsAreComplete

LEMMA GoodsKitFails ==
    ASSUME GoodsInv, NEW m \in Makers, Goods!KitFails(m)
    PROVE  GoodsInv'
<1>1. a8' = [a8 EXCEPT ![m] = {}] /\ UNCHANGED <<a1, a2, a3, a4, a5, a6, a7>>
  BY DEF Goods!KitFails
<1>2. GoodsType' /\ \A u \in Makers : a8'[u] \subseteq a8[u]
  BY <1>1 DEF GoodsInv, GoodsType
<1>3. KitsSound'
  BY <1>1, <1>2, KitsStaySound
<1>4. \A r \in Products \ a6' : Even(r)'
  BY <1>1 DEF GoodsInv, Even, Goods!Exists, Goods!BeingRemoved, Goods!Total
<1> QED  BY <1>1, <1>2, <1>3, <1>4 DEF GoodsInv, Goods!Exists, Goods!KitsAreComplete

LEMMA GoodsKit ==
    ASSUME GoodsInv, NEW m \in Makers, NEW k \in a8[m], Goods!CreateKit(m, k)
    PROVE  GoodsInv'
<1> DEFINE s == k.sku
           q == k.stock
<1>1. /\ Goods!Born(s, q) /\ UNCHANGED <<a4, a5>>
      /\ a3' = [a3 EXCEPT ![s] = k.comps] /\ a8' = [a8 EXCEPT ![m] = {}]
      /\ a7' = IF k.sound THEN a7 \cup {s} ELSE a7 \ {s}
  BY DEF Goods!CreateKit
<1>2. k \in KitType
  BY DEF GoodsInv, GoodsType
<1>3. /\ s \in Products /\ q \in 0..MaxStock /\ k.comps \subseteq Products
      /\ k.comps # {} /\ (k.sound => \A c \in k.comps : Goods!Exists(c))
  BY <1>2 DEF KitType, GoodsInv, KitsSound
<1> HIDE DEF s, q
<1>4. /\ a3' \in [Products -> SUBSET Products] /\ a7' \subseteq Products
      /\ a8' \in [Makers -> SUBSET KitType] /\ \A u \in Makers : a8'[u] \subseteq a8[u]
  BY <1>1, <1>3 DEF GoodsInv, GoodsType
<1>5. GoodsType' /\ \A r \in Products \ a6' : Even(r)'
  BY <1>1, <1>3, <1>4, GoodsBorn
<1>6. a1 \in [Products -> {Goods!NoRow} \cup 0..MaxStock] /\ a1' = [a1 EXCEPT ![s] = q]
      /\ a1[s] = Goods!NoRow /\ q # Goods!NoRow
  BY <1>1, <1>3, GoodsFigures DEF GoodsInv, GoodsType, Goods!Born, Goods!Exists
<1>7. \A r \in Products : a1[r] # Goods!NoRow => a1'[r] # Goods!NoRow
  BY <1>3, <1>6
<1>8. Goods!KitsAreComplete'
  <2>1. ASSUME NEW r \in a7', r # s
        PROVE  a3'[r] # {} /\ \A c \in a3'[r] : Goods!Exists(c)'
    BY <1>1, <1>3, <1>4, <1>7, <2>1
       DEF GoodsInv, GoodsType, Goods!KitsAreComplete, Goods!Exists
  <2>2. s \in a7' => a3'[s] # {} /\ \A c \in a3'[s] : Goods!Exists(c)'
    BY <1>1, <1>3, <1>7 DEF GoodsInv, GoodsType, Goods!Exists
  <2> QED  BY <2>1, <2>2 DEF Goods!KitsAreComplete
<1>9. \A r \in a5' : r \in Products /\ Goods!Exists(r)'
  BY <1>1, <1>7 DEF GoodsInv, Goods!Exists
<1>10. KitsSound'
  BY <1>4, <1>7, KitsStaySound
<1> QED  BY <1>5, <1>8, <1>9, <1>10 DEF GoodsInv

LEMMA GoodsRemove ==
    ASSUME GoodsInv, NEW t \in Caja, NEW s \in Products, Goods!RemoveProduct(t, s)
    PROVE  GoodsInv'
<1>1. /\ a4[t] = Nobody /\ Goods!Exists(s)
      /\ a1' = [a1 EXCEPT ![s] = Goods!NoRow] /\ a4' = [a4 EXCEPT ![t] = s]
      /\ a3' = [a3 EXCEPT ![s] = {}]
      /\ a7' = {k \in a7 \ {s} : s \notin a3[k]} /\ a5' = a5 \ {s}
      /\ a8' = [u \in Makers |-> {Goods!Unsound(k, s) : k \in a8[u]}]
      /\ UNCHANGED <<a2, a6>>
  BY DEF Goods!RemoveProduct
<1>0. ASSUME NEW k \in KitType
      PROVE  /\ Goods!Unsound(k, s) \in KitType /\ Goods!Unsound(k, s).comps = k.comps
             /\ Goods!Unsound(k, s).sound => k.sound /\ s \notin k.comps
  BY DEF Goods!Unsound, KitType
<1>2. GoodsType'
  <2>1. a8 \in [Makers -> SUBSET KitType]
    BY DEF GoodsInv, GoodsType
  <2>2. \A u \in Makers : {Goods!Unsound(k, s) : k \in a8[u]} \subseteq KitType
    BY <1>0, <2>1
  <2>3. a8' \in [Makers -> SUBSET KitType]
    BY <1>1, <2>2
  <2> QED  BY <1>1, <2>3 DEF GoodsInv, GoodsType
<1>3. a4'[t] = s /\ \A c \in Caja : c # t => a4'[c] = a4[c]
  BY <1>1 DEF GoodsInv, GoodsType
<1>4. ASSUME NEW r \in Products, r \notin a6', r # s PROVE Even(r)'
  <2>1. a1'[r] = a1[r] /\ a2'[r] = a2[r] /\ r \notin a6 /\ (r \in a5' <=> r \in a5)
    BY <1>1, <1>4 DEF GoodsInv, GoodsType
  <2>2. (\E c \in Caja : a4'[c] = r) <=> (\E c \in Caja : a4[c] = r)
    BY <1>1, <1>3, <1>4, GoodsAssumption
  <2> QED  BY <1>4, <2>1, <2>2, GoodsApart
<1>5. Even(s)'
  BY <1>1, <1>3 DEF GoodsInv, GoodsType, Even, Goods!Exists, Goods!BeingRemoved
<1>6. \A r \in a5' : r \in Products /\ Goods!Exists(r)'
  BY <1>1 DEF GoodsInv, GoodsType, Goods!Exists
<1>7. Goods!KitsAreComplete'
  BY <1>1 DEF GoodsInv, GoodsType, Goods!KitsAreComplete, Goods!Exists
<1>8. KitsSound'
  <2> SUFFICES ASSUME NEW u \in Makers, NEW k \in a8'[u]
               PROVE  k.comps # {} /\ (k.sound => \A c \in k.comps : Goods!Exists(c)')
    BY DEF KitsSound
  <2>1. PICK j \in a8[u] : k = Goods!Unsound(j, s)
    BY <1>1
  <2>2. j \in KitType /\ j.comps # {} /\ (j.sound => \A c \in j.comps : Goods!Exists(c))
    BY DEF GoodsInv, GoodsType, KitsSound
  <2>3. k.comps = j.comps /\ j.comps \subseteq Products /\ (k.sound => j.sound /\ s \notin j.comps)
    BY <1>0, <2>1, <2>2 DEF KitType
  <2>4. \A r \in Products : r # s => a1'[r] = a1[r]
    BY <1>1 DEF GoodsInv, GoodsType
  <2> QED  BY <2>2, <2>3, <2>4 DEF Goods!Exists
<1> QED  BY <1>2, <1>4, <1>5, <1>6, <1>7, <1>8 DEF GoodsInv

(* The second DELETE of t runs, or never does. *)
LEMMA GoodsRemoved ==
    ASSUME GoodsInv, NEW t \in Caja, Goods!RemoveLedger(t) \/ Goods!RemovalDies(t)
    PROVE  GoodsInv'
<1>0. PICK s \in Products : s = a4[t] /\ s # Nobody
  BY DEF GoodsInv, GoodsType, Goods!RemoveLedger, Goods!RemovalDies
<1>1. a4' = [a4 EXCEPT ![t] = Nobody] /\ UNCHANGED <<a1, a3, a5, a7, a8>>
  BY DEF Goods!RemoveLedger, Goods!RemovalDies
<1>2. \/ /\ a2' = [a2 EXCEPT ![s] = Goods!Empty]
         /\ a6' = IF Goods!Exists(s) THEN a6 ELSE a6 \ {s}
      \/ a2' = a2 /\ a6' = a6 \cup {s}
  BY <1>0 DEF Goods!RemoveLedger, Goods!RemovalDies, Goods!Deleted
<1>3. GoodsType'
  BY <1>1, <1>2, GoodsFigures, Zenon DEF GoodsInv, GoodsType
<1>4. a4'[t] = Nobody /\ \A c \in Caja : c # t => a4'[c] = a4[c]
  BY <1>1 DEF GoodsInv, GoodsType
<1>5. ASSUME NEW r \in Products, r \notin a6', r # s PROVE Even(r)'
  <2>1. a1'[r] = a1[r] /\ a2'[r] = a2[r] /\ r \notin a6 /\ (r \in a5' <=> r \in a5)
    BY <1>1, <1>2, <1>5 DEF GoodsInv, GoodsType
  <2>2. (\E c \in Caja : a4'[c] = r) <=> (\E c \in Caja : a4[c] = r)
    BY <1>0, <1>1, <1>4, <1>5, GoodsAssumption
  <2> QED  BY <1>5, <2>1, <2>2, GoodsApart
<1>6. ASSUME s \notin a6' PROVE Even(s)'
  <2>1. a2'[s] = Goods!Empty /\ a6' = (IF Goods!Exists(s) THEN a6 ELSE a6 \ {s})
    BY <1>1, <1>2, <1>6 DEF GoodsInv, GoodsType
  <2>2. Goods!BeingRemoved(s)
    BY <1>0 DEF Goods!BeingRemoved
  <2>3. ~Goods!Exists(s)
    BY <1>1, <1>6, <2>1, <2>2 DEF GoodsInv, Even
  <2> QED  BY <1>1, <2>1, <2>3 DEF Even, Goods!Exists
<1>7. \A r \in a5' : r \in Products /\ Goods!Exists(r)'
  BY <1>1 DEF GoodsInv, Goods!Exists
<1>8. Goods!KitsAreComplete'
  BY <1>1 DEF GoodsInv, Goods!KitsAreComplete, Goods!Exists
<1>9. KitsSound'
  BY <1>1, KitsStaySound
<1> QED  BY <1>3, <1>5, <1>6, <1>7, <1>8, <1>9 DEF GoodsInv

(* Units come in, go out and change places: s alone changes, and its sum with
   it. *)
LEMMA GoodsUnits ==
    ASSUME GoodsInv, NEW s \in Products, NEW w \in Goods!Warehouses,
           \/ Goods!Bring(s, w) \/ Goods!Take(s, w)
           \/ \E to \in Goods!Warehouses : Goods!Transfer(s, w, to)
    PROVE  GoodsInv'
<1> USE GoodsFigures
<1> DEFINE P == Goods!Principal
           S == "Sucursal"
<1>1. /\ a1 \in [Products -> {Goods!NoRow} \cup 0..MaxStock]
      /\ a2 \in [Products -> [Goods!Warehouses -> Figure]]
      /\ s \in a5 => s \in a6 \/ a2[s] = Goods!Empty
      /\ s \notin a6 => Even(s)
  BY DEF GoodsInv, GoodsType, Even
<1>2. CASE Goods!Bring(s, w)
  <2> DEFINE n == a1[s] + 1
             row == [a2[s] EXCEPT ![w] = Goods!Units(@) + 1]
  <2>1. /\ Goods!Exists(s) /\ a1[s] < MaxStock
        /\ a1' = [a1 EXCEPT ![s] = n] /\ a2' = [a2 EXCEPT ![s] = row]
        /\ a6' = (IF s \in a5 THEN a6 \cup {s} ELSE a6)
        /\ UNCHANGED <<a3, a4, a5, a7, a8>>
    BY <1>2 DEF Goods!Bring, Goods!Upserted
  <2>2. a1[s] \in Nat /\ n \in 0..MaxStock /\ n # Goods!NoRow
    BY <1>1, <2>1, GoodsAssumption DEF Goods!Exists
  <2>3. row \in [Goods!Warehouses -> Figure] /\ row[w] = Goods!Units(a2[s][w]) + 1
        /\ \A v \in Goods!Warehouses : v # w => row[v] = a2[s][v]
    BY <1>1 DEF Figure, Goods!Units
  <2>4. ASSUME s \notin a6' PROVE Even(s)'
    <3>1. s \notin a5 /\ Goods!Total(s) = a1[s] /\ ~Goods!BeingRemoved(s)
      BY <1>1, <2>1, <2>4 DEF Even
    <3>2. a2'[s] = row /\ a1'[s] = n
      BY <1>1, <2>1
    <3>3. Goods!Units(row[w]) = Goods!Units(a2[s][w]) + 1
      BY <1>1, <2>3
    <3>4. Goods!Total(s)' = a1'[s]
      <4>1. Goods!Units(a2[s][P]) \in Nat /\ Goods!Units(a2[s][S]) \in Nat
        BY <1>1
      <4> HIDE DEF row
      <4>2. CASE w = P
        BY <4>1, <4>2, <2>2, <2>3, <3>1, <3>2, <3>3 DEF Goods!Total
      <4>3. CASE w = S
        BY <4>1, <4>3, <2>2, <2>3, <3>1, <3>2, <3>3 DEF Goods!Total
      <4> QED  BY <4>2, <4>3
    <3>5. ~Goods!BeingRemoved(s)' /\ s \notin a5' /\ Goods!Exists(s)'
      BY <2>1, <2>2, <3>1, <3>2 DEF Goods!BeingRemoved, Goods!Exists
    <3> QED  BY <3>4, <3>5 DEF Even
  <2> HIDE DEF n, row
  <2> QED  BY <2>1, <2>2, <2>3, <2>4, GoodsOne, Zenon
<1>3. CASE Goods!Take(s, w)
  <2> DEFINE n == a1[s] - 1
             row == [a2[s] EXCEPT ![w] = @ - 1]
  <2>1. /\ Goods!Exists(s) /\ a1[s] > 0 /\ a2[s][w] > 0
        /\ a1' = [a1 EXCEPT ![s] = n] /\ a2' = [a2 EXCEPT ![s] = row]
        /\ UNCHANGED <<a3, a4, a5, a6, a7, a8>>
    BY <1>1, <1>3 DEF Goods!Take
  <2>2. a1[s] \in Nat /\ n \in 0..MaxStock /\ n # Goods!NoRow
    BY <1>1, <2>1, GoodsAssumption DEF Goods!Exists
  <2>3. row \in [Goods!Warehouses -> Figure] /\ row[w] = a2[s][w] - 1 /\ row[w] \in Nat
        /\ a2[s][w] \in Nat
        /\ \A v \in Goods!Warehouses : v # w => row[v] = a2[s][v]
    BY <1>1, <2>1 DEF Figure
  <2>4. ASSUME s \notin a6' PROVE Even(s)'
    <3>1. s \notin a5 /\ Goods!Total(s) = a1[s] /\ ~Goods!BeingRemoved(s)
      BY <1>1, <2>1, <2>4 DEF Even
    <3>2. a2'[s] = row /\ a1'[s] = n
      BY <1>1, <2>1
    <3>3. Goods!Units(row[w]) = Goods!Units(a2[s][w]) - 1
      BY <1>1, <2>3
    <3>4. Goods!Total(s)' = a1'[s]
      <4>1. Goods!Units(a2[s][P]) \in Nat /\ Goods!Units(a2[s][S]) \in Nat
        BY <1>1
      <4> HIDE DEF row
      <4>2. CASE w = P
        BY <4>1, <4>2, <2>2, <2>3, <3>1, <3>2, <3>3 DEF Goods!Total
      <4>3. CASE w = S
        BY <4>1, <4>3, <2>2, <2>3, <3>1, <3>2, <3>3 DEF Goods!Total
      <4> QED  BY <4>2, <4>3
    <3>5. ~Goods!BeingRemoved(s)' /\ s \notin a5' /\ Goods!Exists(s)'
      BY <2>1, <2>2, <3>1, <3>2 DEF Goods!BeingRemoved, Goods!Exists
    <3> QED  BY <3>4, <3>5 DEF Even
  <2> HIDE DEF n, row
  <2> QED  BY <2>1, <2>2, <2>3, <2>4, GoodsOne, Zenon
<1>4. ASSUME NEW to \in Goods!Warehouses, Goods!Transfer(s, w, to) PROVE GoodsInv'
  <2> DEFINE taken == [a2[s] EXCEPT ![w] = @ - 1]
             row == [taken EXCEPT ![to] = Goods!Units(@) + 1]
  <2>1. /\ w # to /\ a2[s][w] > 0 /\ a2' = [a2 EXCEPT ![s] = row]
        /\ UNCHANGED <<a1, a3, a4, a5, a6, a7, a8>>
    BY <1>1, <1>4 DEF Goods!Transfer, Goods!Upserted
  <2>2. a2[s][w] \in Nat /\ taken \in [Goods!Warehouses -> Figure]
        /\ taken[w] = a2[s][w] - 1 /\ taken[w] \in Nat
        /\ \A v \in Goods!Warehouses : v # w => taken[v] = a2[s][v]
    BY <1>1, <2>1 DEF Figure
  <2>3. row \in [Goods!Warehouses -> Figure]
        /\ row[to] = Goods!Units(a2[s][to]) + 1 /\ row[w] = taken[w]
    BY <1>1, <2>1, <2>2 DEF Figure
  <2>4. ASSUME s \notin a6' PROVE Even(s)'
    <3>1. a2[s] # Goods!Empty
      BY <2>1, <2>2
    <3>2. a2'[s] = row /\ a1'[s] = a1[s] /\ a4' = a4 /\ a5' = a5
      BY <1>1, <2>1
    <3>3. Goods!Units(row[to]) = Goods!Units(a2[s][to]) + 1
          /\ Goods!Units(row[w]) = Goods!Units(a2[s][w]) - 1
      BY <1>1, <2>2, <2>3
    <3>4. Goods!Total(s)' = Goods!Total(s)
      <4>1. Goods!Units(a2[s][P]) \in Nat /\ Goods!Units(a2[s][S]) \in Nat
        BY <1>1
      <4>2. (w = P /\ to = S) \/ (w = S /\ to = P)
        <5>1. (w = P \/ w = S) /\ (to = P \/ to = S)
          OBVIOUS
        <5> QED  BY <2>1, <5>1
      <4> HIDE DEF row, taken
      <4> QED  BY <4>1, <4>2, <3>2, <3>3 DEF Goods!Total
    <3> QED  BY <1>1, <2>1, <2>4, <3>1, <3>2, <3>4 DEF Even, Goods!Exists, Goods!BeingRemoved
  <2> HIDE DEF row, taken
  <2>5. a1' = [a1 EXCEPT ![s] = a1[s]] /\ a1[s] \in {Goods!NoRow} \cup 0..MaxStock
    BY <1>1, <2>1
  <2>6. s \in a5 => a1[s] # Goods!NoRow
    BY DEF GoodsInv, Goods!Exists
  <2> QED  BY <2>1, <2>3, <2>4, <2>5, <2>6, GoodsOne, Zenon
<1> QED  BY <1>2, <1>3, <1>4

(* A seed enters without its ledger row: even until the next start or the next
   unit, unless rows of its past are there. *)
LEMMA GoodsSeed ==
    ASSUME GoodsInv, NEW s \in Products, Goods!Seed(s, MaxStock)
    PROVE  GoodsInv'
<1>1. /\ a1[s] = Goods!NoRow /\ a1' = [a1 EXCEPT ![s] = MaxStock]
      /\ a3' = [a3 EXCEPT ![s] = {}] /\ a5' = a5 \cup {s} /\ a7' = a7 \ {s}
      /\ a6' = IF Goods!BeingRemoved(s) \/ a2[s] # Goods!Empty THEN a6 \cup {s} ELSE a6
      /\ UNCHANGED <<a2, a4, a8>>
  BY DEF Goods!Seed, Goods!Exists
<1>2. MaxStock \in 0..MaxStock /\ MaxStock # Goods!NoRow
  BY GoodsAssumption, GoodsFigures
<1>3. GoodsType'
  BY <1>1, <1>2 DEF GoodsInv, GoodsType
<1>4. a1'[s] = MaxStock /\ \A r \in Products \ {s} : a1'[r] = a1[r]
  BY <1>1 DEF GoodsInv, GoodsType
<1>5. ASSUME NEW r \in Products, r \notin a6', r # s PROVE Even(r)'
  <2>1. a1'[r] = a1[r] /\ a2'[r] = a2[r] /\ r \notin a6 /\ (r \in a5' <=> r \in a5)
    BY <1>1, <1>4, <1>5
  <2> QED  BY <1>1, <1>5, <2>1, GoodsApart
<1>6. ASSUME s \notin a6' PROVE Even(s)'
  BY <1>1, <1>2, <1>4, <1>6 DEF Even, Goods!Exists, Goods!BeingRemoved
<1>7. \A r \in a5' : r \in Products /\ Goods!Exists(r)'
  BY <1>1, <1>2, <1>4 DEF GoodsInv, Goods!Exists
<1>8. Goods!KitsAreComplete'
  BY <1>1, <1>2, <1>4 DEF GoodsInv, GoodsType, Goods!KitsAreComplete, Goods!Exists
<1>9. KitsSound'
  BY <1>1, <1>2, <1>4, KitsStaySound
<1> QED  BY <1>3, <1>5, <1>6, <1>7, <1>8, <1>9 DEF GoodsInv

(* A start fills in the main warehouse of what was seeded, and by its name of
   any product that had its units elsewhere: those it leaves uneven. *)
LEMMA GoodsBackfill ==
    ASSUME GoodsInv, Goods!Backfill
    PROVE  GoodsInv'
<1> USE GoodsFigures
<1>1. /\ a2' = [s \in Products |-> Goods!Filled(s)] /\ a5' = {}
      /\ a6' = a6 \cup {s \in Products : a1[s] > 0 /\ Goods!Total(s) > 0
                                        /\ a2[s][Goods!Principal] = Goods!NoRow}
      /\ UNCHANGED <<a1, a3, a4, a7, a8>>
  BY DEF Goods!Backfill
<1>2. /\ a1 \in [Products -> {Goods!NoRow} \cup 0..MaxStock]
      /\ a2 \in [Products -> [Goods!Warehouses -> Figure]]
  BY DEF GoodsInv, GoodsType
<1>3. \A s \in Products : Goods!Filled(s) \in [Goods!Warehouses -> Figure]
  BY <1>2, GoodsAssumption DEF Goods!Filled, Figure
<1>4. GoodsType'
  BY <1>1, <1>3 DEF GoodsInv, GoodsType
<1>5. ASSUME NEW s \in Products, s \notin a6' PROVE Even(s)'
  <2>1. s \notin a6 /\ a2'[s] = Goods!Filled(s) /\ Even(s)
    BY <1>1, <1>5 DEF GoodsInv
  <2>2. CASE a1[s] > 0 /\ a2[s][Goods!Principal] = Goods!NoRow
    <3>1. a1[s] \in Nat /\ Goods!Exists(s) /\ ~Goods!BeingRemoved(s)
      BY <1>2, <2>1, <2>2, GoodsAssumption DEF Even, Goods!Exists
    <3>2. ~(Goods!Total(s) > 0)
      BY <1>1, <1>5, <2>2
    <3>3. /\ a2'[s][Goods!Principal] = a1[s]
          /\ a2'[s]["Sucursal"] = a2[s]["Sucursal"]
      BY <1>2, <2>1, <2>2 DEF Goods!Filled
    <3>4. Goods!Total(s)' = a1[s]
      <4>1. Goods!Units(a2[s]["Sucursal"]) \in Nat /\ Goods!Units(a1[s]) = a1[s]
        BY <1>2, <3>1
      <4>2. Goods!Units(a2[s]["Sucursal"]) = 0
        BY <2>2, <3>2, <4>1 DEF Goods!Total
      <4> QED  BY <3>1, <3>3, <4>1, <4>2 DEF Goods!Total
    <3> QED  BY <1>1, <3>1, <3>4 DEF Even, Goods!Exists, Goods!BeingRemoved
  <2>3. CASE ~(a1[s] > 0 /\ a2[s][Goods!Principal] = Goods!NoRow)
    <3>1. a2'[s] = a2[s]
      BY <2>1, <2>3 DEF Goods!Filled
    <3>2. CASE ~Goods!Exists(s)
      BY <1>1, <2>1, <3>1, <3>2 DEF Even, Goods!Exists, Goods!BeingRemoved
    <3>3. CASE Goods!Exists(s)
      <4>1. a1[s] \in Nat /\ (s \in a5 => a1[s] = 0)
        BY <1>2, <2>1, <2>3, <3>3, GoodsAssumption DEF Even, Goods!Exists
      <4>2. s \in a5 => Goods!Total(s) = 0
        BY <2>1, <3>3 DEF Even, Goods!Total
      <4>3. Goods!Total(s)' = a1[s] /\ ~Goods!BeingRemoved(s)
        BY <1>1, <2>1, <3>1, <3>3, <4>1, <4>2 DEF Even, Goods!Total
      <4> QED  BY <1>1, <3>3, <4>3 DEF Even, Goods!Exists, Goods!BeingRemoved
    <3> QED  BY <3>2, <3>3
  <2> QED  BY <2>2, <2>3
<1>6. Goods!KitsAreComplete'
  BY <1>1 DEF GoodsInv, Goods!KitsAreComplete, Goods!Exists
<1>7. KitsSound'
  BY <1>1, KitsStaySound
<1> QED  BY <1>1, <1>4, <1>5, <1>6, <1>7 DEF GoodsInv

LEMMA GoodsInit == Goods!Init => GoodsInv
  BY GoodsFigures DEF Goods!Init, GoodsInv, GoodsType, Even, Goods!Exists,
                      Goods!KitsAreComplete, KitsSound

LEMMA GoodsStep == GoodsInv /\ [Goods!Next]_(Goods!vars) => GoodsInv'
<1> SUFFICES ASSUME GoodsInv, [Goods!Next]_(Goods!vars) PROVE GoodsInv'
  OBVIOUS
<1>1. CASE UNCHANGED Goods!vars
  BY <1>1 DEF Goods!vars, GoodsInv, GoodsType, Even, Goods!Exists, Goods!BeingRemoved,
              Goods!Total, Goods!KitsAreComplete, KitsSound
<1>2. CASE Goods!Next
  <2>1. \A s \in Products : \A q \in {0, MaxStock} : Goods!Add(s, q) => GoodsInv'
    BY GoodsAdd
  <2>2. \A m \in Makers : /\ Goods!KitFails(m) => GoodsInv'
                         /\ \A k \in a8[m] : Goods!CreateKit(m, k) => GoodsInv'
    BY GoodsKit, GoodsKitFails
  <2>7. \A m \in Makers, s \in Products : \A comps \in SUBSET (Products \ {s}) :
            Goods!LookUpKit(m, s, comps) => GoodsInv'
    BY GoodsLookUp
  <2>3. \A t \in Caja, s \in Products : Goods!RemoveProduct(t, s) => GoodsInv'
    BY GoodsRemove
  <2>4. \A t \in Caja : Goods!RemoveLedger(t) \/ Goods!RemovalDies(t) => GoodsInv'
    BY GoodsRemoved
  <2>5. \A s \in Products, w \in Goods!Warehouses :
            \/ Goods!Bring(s, w) \/ Goods!Take(s, w)
            \/ \E to \in Goods!Warehouses : Goods!Transfer(s, w, to)
            => GoodsInv'
    BY GoodsUnits
  <2>6. \A s \in Products : Goods!Seed(s, MaxStock) => GoodsInv'
    BY GoodsSeed
  <2> QED  BY <1>2, <2>1, <2>2, <2>3, <2>4, <2>5, <2>6, <2>7, GoodsBackfill DEF Goods!Next
<1> QED  BY <1>1, <1>2

(* schema.sql: "products.stock es el agregado (suma); el ledger vive aqui", of
   every product no known path has left uneven; and a kit's components exist
   until one of them is removed, be it between their look up and the insertion
   of the kit. *)
THEOREM RowsHold == PartsSpec => []RowsAgree
<1>1. GoodsInv => Goods!RowsAgree /\ Goods!KitsAreComplete
  <2> SUFFICES ASSUME GoodsInv, NEW s \in Products \ a6
               PROVE  IF Goods!Exists(s)
                      THEN Goods!Total(s) = (IF s \in a5 THEN 0 ELSE a1[s])
                      ELSE Goods!BeingRemoved(s) \/ a2[s] = Goods!Empty
    BY DEF GoodsInv, Goods!RowsAgree
  <2>1. Even(s)
    BY DEF GoodsInv
  <2>2. a2[s] = Goods!Empty => Goods!Total(s) = 0
    BY GoodsFigures DEF Goods!Total
  <2> QED  BY <2>1, <2>2 DEF Even
<1> QED  BY GoodsInit, GoodsStep, <1>1, PartIsItself, PTL DEF Goods!Spec, RowsAgree

-----------------------------------------------------------------------------
(* Who owes.  a1 is the rows of clients, a2 the sales open by spelling, a3 the
   jobs and a4 mixed.  Of a name that is not mixed: at most one row, none while
   a form is about to enter it, and one such form; the row owes what is open,
   and there is a row if anything is. *)
Known(name) == {i \in ClientIds : a1[i].exists /\ ClientLower[a1[i].name] = name}
Written(name) == {n \in ClientNames : ClientLower[n] = name}
Adding(t, name) == a3[t].op = "add" /\ ClientLower[a3[t].name] = name

OwedByOne(name) ==
    /\ \A i, j \in Known(name) : i = j
    /\ \A t \in Terminals : Adding(t, name) =>
          Known(name) = {} /\ \A u \in Terminals : Adding(u, name) => u = t
    /\ \A i \in Known(name) : a1[i].balance = Debtors!Debt(name)
    /\ Debtors!Debt(name) > 0 => Known(name) # {}

ClientRow == [exists : BOOLEAN, name : ClientNames \cup {""}, balance : Nat]
ClientJob == [op : {"none", "add", "sell"}, name : ClientNames \cup {""}]

DebtorsType ==
    /\ a1 \in [ClientIds -> ClientRow]
    /\ a2 \in [ClientNames -> Nat]
    /\ a3 \in [Terminals -> ClientJob]
    /\ \A i \in ClientIds : a1[i].exists => a1[i].name \in ClientNames
    /\ \A t \in Terminals : a3[t].op # "none" => a3[t].name \in ClientNames

DebtorsInv == DebtorsType /\ \A name \in Debtors!Names \ a4 : OwedByOne(name)

LEMMA DebtorsSum == \A c, S : Debtors!SumOf(c, S) = SumOf(c, S)
  BY DEF Debtors!SumOf, SumOf, Debtors!Plus, Plus, Debtors!FoldFunctionOnSet,
         FoldFunctionOnSet, Debtors!MapThenFoldSet, MapThenFoldSet

LEMMA DebtorsCount == \A S : Debtors!Cardinality(S) = Cardinality(S)
  BY DEF Debtors!Cardinality, Cardinality, Debtors!IsFiniteSet, IsFiniteSet

LEMMA DebtIsSum ==
    ASSUME DebtorsType, NEW name
    PROVE  /\ IsFiniteSet(Written(name))
           /\ Debtors!Debt(name) = SumOf(a2, Written(name))
           /\ Debtors!Debt(name) \in Nat
<1>1. IsFiniteSet(Written(name))
  BY PartsAssumption, FS_Subset, Zenon DEF Written
<1>2. Debtors!Debt(name) = SumOf(a2, Written(name))
  BY DebtorsSum DEF Debtors!Debt, Written
<1>3. \A n \in Written(name) : a2[n] \in Nat
  BY DEF DebtorsType, Written
<1> QED  BY <1>1, <1>2, <1>3, SumNat

(* The sales of a spelling are part of the debt of its name, and of no other. *)
LEMMA DebtMoves ==
    ASSUME DebtorsType, NEW name, NEW n \in ClientNames, NEW k \in Int,
           a2' = [a2 EXCEPT ![n] = @ + k]
    PROVE  Debtors!Debt(name)' =
              Debtors!Debt(name) + (IF ClientLower[n] = name THEN k ELSE 0)
<1>1. /\ IsFiniteSet(Written(name)) /\ Debtors!Debt(name) = SumOf(a2, Written(name))
      /\ Debtors!Debt(name) \in Nat
  BY DebtIsSum
<1>2. Debtors!Debt(name)' = SumOf(a2', Written(name))
  BY DebtorsSum DEF Debtors!Debt, Written
<1>3. /\ \A m \in Written(name) : m # n => a2'[m] = a2[m]
      /\ a2'[n] = a2[n] + k /\ \A m \in Written(name) : a2[m] \in Int
  BY DEF DebtorsType, Written
<1>4. CASE ClientLower[n] = name
  <2>1. n \in Written(name)
    BY <1>4 DEF Written
  <2>2. PICK next : next = a2'
    OBVIOUS
  <2>3. SumOf(next, Written(name)) = SumOf(a2, Written(name)) + k
    <3>1. IsFiniteSet(Written(name)) /\ \A x \in Written(name) : a2[x] \in Int
      BY <1>1, <1>3
    <3>2. \A x \in Written(name) : x # n => next[x] = a2[x]
      BY <1>3, <2>2
    <3>3. next[n] = a2[n] + k
      BY <1>3, <2>2
    <3> QED  BY <2>1, <3>1, <3>2, <3>3, SumMoved
  <2> QED  BY <1>1, <1>2, <1>4, <2>2, <2>3
<1>5. CASE ClientLower[n] # name
  <2>1. \A m \in Written(name) : a2[m] = a2'[m]
    BY <1>3, <1>5 DEF Written
  <2>2. SumOf(a2, Written(name)) = SumOf(a2', Written(name))
    BY <1>1, <2>1, SumSame, Zenon
  <2> QED  BY <1>1, <1>2, <1>5, <2>2
<1> QED  BY <1>4, <1>5

(* A name that a step leaves alone is owed as before. *)
LEMMA OwedApart ==
    ASSUME DebtorsInv, NEW name \in Debtors!Names, name \notin a4,
           Known(name)' = Known(name),
           \A i \in Known(name) : a1'[i].balance = a1[i].balance,
           Debtors!Debt(name)' = Debtors!Debt(name),
           \A t \in Terminals : Adding(t, name)' => Adding(t, name)
    PROVE  OwedByOne(name)'
  BY DEF DebtorsInv, OwedByOne

(* A form looks its name up and finds nobody. *)
LEMMA DebtorsAddCheck ==
    ASSUME DebtorsInv, NEW t \in Terminals, NEW n \in ClientNames, Debtors!AddCheck(t, n)
    PROVE  DebtorsInv'
<1>1. /\ a3[t].op = "none" /\ a3' = [a3 EXCEPT ![t] = [op |-> "add", name |-> n]]
      /\ UNCHANGED <<a1, a2>> /\ Debtors!FindByName(n) = {}
      /\ a4' = IF \E c \in Terminals : a3[c].op = "add"
                                       /\ ClientLower[a3[c].name] = ClientLower[n]
               THEN a4 \cup {ClientLower[n]} ELSE a4
  <2>1. a3[t].op = "none"
    <3>1. a3[t] = Debtors!NoJob
      BY DEF Debtors!AddCheck, Debtors!Idle
    <3>2. Debtors!NoJob.op = "none"
      BY DEF Debtors!NoJob
    <3> QED  BY <3>1, <3>2
  <2> QED  BY <2>1 DEF Debtors!AddCheck, Debtors!Starts
<1>2. DebtorsType'
  BY <1>1, Zenon DEF DebtorsInv, DebtorsType, ClientJob
<1>3. a3'[t] = [op |-> "add", name |-> n] /\ \A u \in Terminals : u # t => a3'[u] = a3[u]
  BY <1>1 DEF DebtorsInv, DebtorsType
<1>4. \A name : Debtors!Debt(name)' = Debtors!Debt(name) /\ Known(name)' = Known(name)
  BY <1>1 DEF Debtors!Debt, Known
<1>5. ASSUME NEW name \in Debtors!Names \ a4' PROVE OwedByOne(name)'
  <2>1. name \notin a4
    BY <1>1, <1>5
  <2>2. CASE ClientLower[n] # name
    <3>1. \A u \in Terminals : Adding(u, name)' => Adding(u, name)
      BY <1>3, <2>2 DEF Adding
    <3> QED  BY <1>1, <1>4, <2>1, <3>1, OwedApart
  <2>3. CASE ClientLower[n] = name
    <3>1. Known(name) = {}
      BY <1>1, <2>3 DEF Debtors!FindByName, Known
    <3>2. \A u \in Terminals : ~Adding(u, name)
      BY <1>1, <1>5, <2>3 DEF Adding
    <3>3. \A u \in Terminals : Adding(u, name)' => u = t
      BY <1>3, <3>2 DEF Adding
    <3>4. OwedByOne(name)
      BY <2>1 DEF DebtorsInv
    <3> QED  BY <1>4, <3>1, <3>3, <3>4 DEF OwedByOne
  <2> QED  BY <2>2, <2>3
<1> QED  BY <1>2, <1>5 DEF DebtorsInv

(* ... and enters it: the only row of the name, and nothing is open on it. *)
LEMMA DebtorsAddCommit ==
    ASSUME DebtorsInv, NEW t \in Terminals, NEW i \in ClientIds, Debtors!AddCommit(t, i)
    PROVE  DebtorsInv'
<1> DEFINE n == a3[t].name
           row == [exists |-> TRUE, name |-> n, balance |-> 0]
<1>1. /\ a3[t].op = "add" /\ ~a1[i].exists
      /\ a3' = [a3 EXCEPT ![t] = [op |-> "none", name |-> ""]]
      /\ a1' = [a1 EXCEPT ![i] = row] /\ UNCHANGED <<a2, a4>>
  BY Zenon DEF Debtors!AddCommit, Debtors!Ends, Debtors!NoJob
<1>2. n \in ClientNames /\ row \in ClientRow
  BY <1>1, Zenon DEF DebtorsInv, DebtorsType, ClientRow
<1>3. row.exists /\ row.name = n /\ row.balance = 0
  OBVIOUS
<1> HIDE DEF n, row
<1>4. DebtorsType'
  BY <1>1, <1>2, <1>3, Zenon DEF DebtorsInv, DebtorsType, ClientJob
<1>5. /\ a1'[i] = row /\ \A j \in ClientIds : j # i => a1'[j] = a1[j]
      /\ a3'[t].op = "none" /\ \A u \in Terminals : u # t => a3'[u] = a3[u]
  BY <1>1, Zenon DEF DebtorsInv, DebtorsType
<1>6. \A name : Debtors!Debt(name)' = Debtors!Debt(name)
  BY <1>1, Zenon DEF Debtors!Debt
<1>7. \A name : \A u \in Terminals : Adding(u, name)' => Adding(u, name) /\ u # t
  BY <1>5 DEF Adding
<1>8. ASSUME NEW name \in Debtors!Names \ a4' PROVE OwedByOne(name)'
  <2>1. name \notin a4 /\ OwedByOne(name)
    BY <1>1, <1>8, Zenon DEF DebtorsInv
  <2>2. CASE ClientLower[n] # name
    <3>0. \A j \in ClientIds : j \in Known(name)' <=> j \in Known(name)
      BY <1>1, <1>3, <1>5, <2>2, Zenon DEF Known
    <3>1. Known(name)' = Known(name) /\ i \notin Known(name)
      BY <1>1, <3>0, Zenon DEF Known
    <3> QED  BY <1>5, <1>6, <1>7, <2>1, <3>1, OwedApart DEF Known
  <2>3. CASE ClientLower[n] = name
    <3>1. Adding(t, name)
      BY <1>1, <2>3, Zenon DEF Adding, n
    <3>2. Known(name) = {} /\ \A u \in Terminals : Adding(u, name) => u = t
      BY <2>1, <3>1 DEF OwedByOne
    <3>3. Known(name)' = {i}
      BY <1>3, <1>5, <2>3, <3>2 DEF Known
    <3>4. Debtors!Debt(name)' = 0
      BY <1>6, <2>1, <3>2, DebtIsSum DEF OwedByOne, DebtorsInv
    <3>5. \A u \in Terminals : ~Adding(u, name)'
      BY <1>7, <3>2
    <3> QED  BY <1>3, <1>5, <3>3, <3>4, <3>5 DEF OwedByOne
  <2> QED  BY <2>2, <2>3
<1> QED  BY <1>4, <1>8 DEF DebtorsInv

(* A form that changes the name leaves both names mixed, unless they are the
   same written otherwise; a client that owes leaves its name mixed. *)
LEMMA DebtorsChange ==
    ASSUME DebtorsInv, NEW i \in ClientIds,
           Debtors!Remove(i) \/ \E n \in ClientNames : Debtors!Update(i, n)
    PROVE  DebtorsInv'
<1>0. a1 \in [ClientIds -> ClientRow] /\ a1[i] \in ClientRow
  BY DEF DebtorsInv, DebtorsType
<1>1. CASE Debtors!Remove(i)
  <2> DEFINE name == ClientLower[a1[i].name]
             row == [exists |-> FALSE, name |-> "", balance |-> 0]
  <2>1. /\ a1[i].exists /\ a1' = [a1 EXCEPT ![i] = row] /\ UNCHANGED <<a2, a3>>
        /\ a4' = IF Debtors!Debt(name) > 0 THEN a4 \cup {name} ELSE a4
    BY <1>1, Zenon DEF Debtors!Remove, Debtors!NoRow, Debtors!Owes
  <2>2. row \in ClientRow /\ ~row.exists
    BY DEF ClientRow
  <2> HIDE DEF row
  <2>3. DebtorsType'
    BY <2>1, <2>2 DEF DebtorsInv, DebtorsType
  <2>4. a1'[i] = row /\ \A j \in ClientIds : j # i => a1'[j] = a1[j]
    BY <1>0, <2>1
  <2>5. ASSUME NEW m \in Debtors!Names \ a4' PROVE OwedByOne(m)'
    <3>1. m \notin a4 /\ OwedByOne(m)
      BY <2>1, <2>5 DEF DebtorsInv
    <3>2. Debtors!Debt(m)' = Debtors!Debt(m)
          /\ \A u \in Terminals : Adding(u, m)' => Adding(u, m)
      BY <2>1 DEF Debtors!Debt, Adding
    <3>3. CASE m # name
      <4>1. Known(m)' = Known(m) /\ i \notin Known(m)
        BY <2>1, <2>2, <2>4, <3>3 DEF Known
      <4> QED  BY <2>4, <3>1, <3>2, <4>1, OwedApart DEF Known
    <3>4. CASE m = name
      <4>1. i \in Known(m) /\ Known(m)' = {}
        <5>1. i \in Known(m)
          BY <2>1, <3>4 DEF Known
        <5>2. \A j \in Known(m) : j = i
          BY <3>1, <5>1 DEF OwedByOne
        <5> QED  BY <2>2, <2>4, <5>1, <5>2 DEF Known
      <4>2. ~(Debtors!Debt(m)' > 0)
        BY <2>1, <2>5, <3>2, <3>4
      <4>3. \A u \in Terminals : ~Adding(u, m)'
        BY <3>1, <3>2, <4>1 DEF OwedByOne
      <4> QED  BY <4>1, <4>2, <4>3 DEF OwedByOne
    <3> QED  BY <3>3, <3>4
  <2> QED  BY <2>3, <2>5 DEF DebtorsInv
<1>2. ASSUME NEW n \in ClientNames, Debtors!Update(i, n) PROVE DebtorsInv'
  <2> DEFINE old == ClientLower[a1[i].name]
             row == [a1[i] EXCEPT !.name = n]
  <2>1. /\ a1[i].exists /\ a1' = [a1 EXCEPT ![i] = row] /\ UNCHANGED <<a2, a3>>
        /\ a4' = IF old = ClientLower[n] THEN a4 ELSE a4 \cup {old, ClientLower[n]}
    BY <1>0, <1>2 DEF Debtors!Update
  <2>2. row \in ClientRow /\ row.name = n /\ row.balance = a1[i].balance
        /\ row.exists = a1[i].exists
    BY <1>0, Zenon DEF ClientRow
  <2> HIDE DEF row
  <2>3. DebtorsType'
    BY <2>1, <2>2 DEF DebtorsInv, DebtorsType
  <2>4. a1'[i] = row /\ \A j \in ClientIds : j # i => a1'[j] = a1[j]
    BY <1>0, <2>1
  <2>5. ASSUME NEW m \in Debtors!Names \ a4' PROVE OwedByOne(m)'
    <3>1. m \notin a4
      BY <2>1, <2>5
    <3>2. Debtors!Debt(m)' = Debtors!Debt(m)
          /\ \A u \in Terminals : Adding(u, m)' => Adding(u, m)
      BY <2>1 DEF Debtors!Debt, Adding
    <3>3. old = m <=> ClientLower[n] = m
      BY <2>1, <2>5
    <3>4. \A j \in ClientIds : j \in Known(m)' <=> j \in Known(m)
      BY <2>1, <2>2, <2>4, <3>3, Zenon DEF Known
    <3>5. Known(m)' = Known(m)
      BY <3>4 DEF Known
    <3>6. \A j \in Known(m) : a1'[j].balance = a1[j].balance
      BY <2>2, <2>4 DEF Known
    <3> QED  BY <3>1, <3>2, <3>5, <3>6, OwedApart
  <2> QED  BY <2>3, <2>5 DEF DebtorsInv
<1> QED  BY <1>1, <1>2

(* Every row of a name is charged, and the name owes as much more. *)
LEMMA DebtorsCharged ==
    ASSUME DebtorsInv, NEW n \in ClientNames, NEW d \in {1, -1}, a2[n] + d >= 0,
           Debtors!Charged(n, d), a2' = [a2 EXCEPT ![n] = @ + d], a4' = a4,
           a3' \in [Terminals -> ClientJob],
           \A t \in Terminals : a3'[t] = a3[t] \/ a3'[t].op = "none"
    PROVE  DebtorsInv'
<1> DEFINE Row(i) == [a1[i] EXCEPT !.balance = IF @ + d < 0 THEN 0 ELSE @ + d]
           mine == Known(ClientLower[n])
<1>1. Debtors!FindByName(n) = mine
  BY DEF Debtors!FindByName, Known
<1>2. mine # {} /\ a1' = [i \in ClientIds |-> IF i \in mine THEN Row(i) ELSE a1[i]]
  BY <1>1 DEF Debtors!Charged
<1>3. ASSUME NEW i \in ClientIds
      PROVE  /\ Row(i) \in ClientRow /\ Row(i).exists = a1[i].exists
             /\ Row(i).name = a1[i].name
             /\ Row(i).balance = IF a1[i].balance + d < 0 THEN 0 ELSE a1[i].balance + d
             /\ a1[i] \in ClientRow /\ a1[i].balance \in Nat
  <2>1. a1[i] \in ClientRow /\ d \in Int
    BY DEF DebtorsInv, DebtorsType
  <2>2. a1[i].balance \in Nat
    BY <2>1, Zenon DEF ClientRow
  <2>3. (IF a1[i].balance + d < 0 THEN 0 ELSE a1[i].balance + d) \in Nat
    BY <2>1, <2>2
  <2> QED  BY <2>1, <2>2, <2>3, Zenon DEF ClientRow
<1> HIDE DEF Row
<1>4. \A i \in ClientIds : /\ a1'[i].exists = a1[i].exists /\ a1'[i].name = a1[i].name
                           /\ a1'[i].balance = IF i \in mine THEN Row(i).balance
                                               ELSE a1[i].balance
  BY <1>2, <1>3
<1>5. DebtorsType'
  <2>1. a1' \in [ClientIds -> ClientRow]
    BY <1>2, <1>3
  <2>2. a2' \in [ClientNames -> Nat]
    BY DEF DebtorsInv, DebtorsType
  <2> QED  BY <1>4, <2>1, <2>2 DEF DebtorsInv, DebtorsType
<1>6. ASSUME NEW name \in Debtors!Names \ a4' PROVE OwedByOne(name)'
  <2>1. name \notin a4 /\ OwedByOne(name)
    BY <1>6 DEF DebtorsInv
  <2>2. Known(name)' = Known(name)
    BY <1>4 DEF Known
  <2>3. \A u \in Terminals : Adding(u, name)' => Adding(u, name)
    BY DEF Adding
  <2>4. Debtors!Debt(name)' = Debtors!Debt(name) + (IF ClientLower[n] = name THEN d ELSE 0)
    <3>1. DebtorsType /\ d \in Int
      BY DEF DebtorsInv
    <3> QED  BY <3>1, DebtMoves, Zenon
  <2>5. Debtors!Debt(name) \in Nat /\ Debtors!Debt(name)' \in Nat
    <3>1. Debtors!Debt(name) \in Nat /\ IsFiniteSet(Written(name))
      BY DebtIsSum DEF DebtorsInv
    <3>2. PICK next : next = a2'
      OBVIOUS
    <3>3. Debtors!Debt(name)' = SumOf(next, Written(name))
      BY <3>2, DebtorsSum DEF Debtors!Debt, Written
    <3>4. \A m \in Written(name) : next[m] \in Nat
      BY <1>5, <3>2 DEF DebtorsType, Written
    <3> QED  BY <3>1, <3>3, <3>4, SumNat
  <2>6. CASE ClientLower[n] # name
    <3>1. \A i \in Known(name) : a1'[i].balance = a1[i].balance
      BY <1>4, <2>6 DEF Known
    <3> QED  BY <2>1, <2>2, <2>3, <2>4, <2>5, <2>6, <3>1, OwedApart
  <2>7. CASE ClientLower[n] = name
    <3>1. ASSUME NEW i \in Known(name) PROVE a1'[i].balance = Debtors!Debt(name)'
      <4>1. i \in ClientIds /\ i \in mine /\ a1[i].balance = Debtors!Debt(name)
        BY <2>1, <2>7, <3>1 DEF OwedByOne, Known
      <4> QED  BY <1>3, <1>4, <2>4, <2>5, <2>7, <4>1
    <3>2. Known(name) # {}
      BY <1>2, <2>7
    <3> QED  BY <2>1, <2>2, <2>3, <3>1, <3>2 DEF OwedByOne
  <2> QED  BY <2>6, <2>7
<1> QED  BY <1>5, <1>6 DEF DebtorsInv

(* A check of a sale and the end of a handler change no row. *)
LEMMA DebtorsJobs ==
    ASSUME DebtorsInv, UNCHANGED <<a1, a2, a4>>, a3' \in [Terminals -> ClientJob],
           \A t \in Terminals : \/ a3'[t] = a3[t] \/ a3'[t].op = "none"
                                \/ a3'[t].op = "sell" /\ a3'[t].name \in ClientNames
    PROVE  DebtorsInv'
<1>1. DebtorsType'
  BY DEF DebtorsInv, DebtorsType
<1>2. ASSUME NEW name \in Debtors!Names \ a4' PROVE OwedByOne(name)'
  <2>1. Debtors!Debt(name)' = Debtors!Debt(name) /\ Known(name)' = Known(name)
        /\ \A u \in Terminals : Adding(u, name)' => Adding(u, name)
    BY DEF Debtors!Debt, Known, Adding
  <2> QED  BY <1>2, <2>1, OwedApart
<1> QED  BY <1>1, <1>2 DEF DebtorsInv

LEMMA DebtorsInit == Debtors!Init => DebtorsInv
<1> SUFFICES ASSUME Debtors!Init PROVE DebtorsInv
  OBVIOUS
<1>1. /\ a1 = [i \in ClientIds |-> [exists |-> FALSE, name |-> "", balance |-> 0]]
      /\ a2 = [n \in ClientNames |-> 0]
      /\ a3 = [t \in Terminals |-> [op |-> "none", name |-> ""]]
  BY Zenon DEF Debtors!Init, Debtors!NoRow, Debtors!NoJob
<1>2. DebtorsType
  BY <1>1, Zenon DEF DebtorsType, ClientRow, ClientJob
<1>3. ASSUME NEW name PROVE OwedByOne(name)
  <2>1. Known(name) = {} /\ \A t \in Terminals : ~Adding(t, name)
    BY <1>1, Zenon DEF Known, Adding
  <2>2. Debtors!Debt(name) = SumOf(a2, Written(name)) /\ IsFiniteSet(Written(name))
    BY <1>2, DebtIsSum
  <2>3. SumOf(a2, Written(name)) = 0
    <3> DEFINE none == [n \in ClientNames |-> 0]
    <3>1. \A n \in Written(name) : a2[n] = none[n] /\ none[n] = 0
      BY <1>1, Zenon DEF Written
    <3>2. SumOf(a2, Written(name)) = SumOf(a2, {})
      <4>1. \A x \in Written(name) : a2[x] = IF x \in {} THEN a2[x] ELSE 0
        BY <3>1
      <4> QED  BY <2>2, <4>1, SumMasked
    <3> QED  BY <3>2, SumEmpty
  <2> QED  BY <2>1, <2>2, <2>3 DEF OwedByOne
<1> QED  BY <1>2, <1>3 DEF DebtorsInv

LEMMA DebtorsStep == DebtorsInv /\ [Debtors!Next]_(Debtors!vars) => DebtorsInv'
<1> SUFFICES ASSUME DebtorsInv, [Debtors!Next]_(Debtors!vars) PROVE DebtorsInv'
  OBVIOUS
<1>0. a3 \in [Terminals -> ClientJob] /\ a2 \in [ClientNames -> Nat]
  BY DEF DebtorsInv, DebtorsType
<1>1. CASE UNCHANGED Debtors!vars
  BY <1>0, <1>1, DebtorsJobs DEF Debtors!vars
<1>2. ASSUME NEW t \in Terminals, NEW n \in ClientNames, Debtors!SellCheck(t, n)
      PROVE  DebtorsInv'
  <2> DEFINE j == [op |-> "sell", name |-> n]
  <2>1. a3' = [a3 EXCEPT ![t] = j] /\ UNCHANGED <<a1, a2, a4>>
    BY <1>2 DEF Debtors!SellCheck, Debtors!Starts
  <2>2. j \in ClientJob /\ j.op = "sell" /\ j.name = n
    BY Zenon DEF ClientJob
  <2> HIDE DEF j
  <2>3. a3' \in [Terminals -> ClientJob]
        /\ \A u \in Terminals : a3'[u] = a3[u] \/ a3'[u] = j
    BY <1>0, <2>1, <2>2
  <2> QED  BY <2>1, <2>2, <2>3, DebtorsJobs
<1>3. ASSUME NEW t \in Terminals, Debtors!SellCommit(t) \/ Debtors!Abandon(t)
      PROVE  DebtorsInv'
  <2> DEFINE j == [op |-> "none", name |-> ""]
             n == a3[t].name
  <2>1. a3' = [a3 EXCEPT ![t] = j]
    BY <1>3, Zenon DEF Debtors!SellCommit, Debtors!Abandon, Debtors!Ends, Debtors!NoJob
  <2>2. j \in ClientJob /\ j.op = "none"
    BY DEF ClientJob
  <2> HIDE DEF j
  <2>3. a3' \in [Terminals -> ClientJob]
        /\ \A u \in Terminals : a3'[u] = a3[u] \/ a3'[u].op = "none"
    BY <1>0, <2>1, <2>2
  <2>4. CASE Debtors!SellCommit(t)
    <3>1. /\ a3[t].op = "sell" /\ Debtors!Charged(n, 1)
          /\ a2' = [a2 EXCEPT ![n] = @ + 1] /\ a4' = a4
      BY <2>4 DEF Debtors!SellCommit, Debtors!Ends
    <3>2. n \in ClientNames
      BY <3>1 DEF DebtorsInv, DebtorsType
    <3> HIDE DEF n
    <3>3. a2[n] + 1 >= 0
      BY <1>0, <3>2
    <3> QED  BY <2>3, <3>1, <3>2, <3>3, DebtorsCharged, Zenon
  <2>5. CASE Debtors!Abandon(t)
    <3>1. UNCHANGED <<a1, a2, a4>>
      BY <2>5 DEF Debtors!Abandon
    <3> QED  BY <2>3, <3>1, DebtorsJobs
  <2> QED  BY <1>3, <2>4, <2>5
<1>4. ASSUME NEW n \in ClientNames, Debtors!Discharge(n) PROVE DebtorsInv'
  <2>1. /\ a2[n] > 0 /\ Debtors!Charged(n, -1) /\ UNCHANGED <<a3, a4>>
        /\ a2' = [a2 EXCEPT ![n] = @ - 1]
    BY <1>4 DEF Debtors!Discharge
  <2>2. a2[n] - 1 = a2[n] + (-1) /\ a2[n] + (-1) >= 0
    BY <1>0, <2>1
  <2>3. a2' = [a2 EXCEPT ![n] = @ + (-1)]
    BY <2>1, <2>2, Zenon
  <2>4. \A t \in Terminals : a3'[t] = a3[t]
    BY <2>1
  <2> QED  BY <1>0, <2>1, <2>2, <2>3, <2>4, DebtorsCharged, Zenon
<1> QED
  BY <1>1, <1>2, <1>3, <1>4, DebtorsAddCheck, DebtorsAddCommit, DebtorsChange
  DEF Debtors!Next

(* ClientRepository::findByName: the open sales of a name, however written, are
   the debt of one client, but for the names the forms have mixed. *)
THEOREM DebtorHolds == PartsSpec => []OneDebtor
<1>1. DebtorsInv => Debtors!OneDebtor
  <2> SUFFICES ASSUME DebtorsInv, NEW name \in Debtors!Names \ a4
               PROVE  /\ Debtors!Cardinality(Known(name)) <= 1
                      /\ Debtors!Debt(name) > 0 =>
                            \E i \in Known(name) : a1[i].balance = Debtors!Debt(name)
    BY DEF Debtors!OneDebtor, Known, Debtors!Owes
  <2>1. OwedByOne(name)
    BY DEF DebtorsInv
  <2>2. Known(name) = {} \/ \E i : Known(name) = {i}
    BY <2>1, Zenon DEF OwedByOne
  <2>3. Cardinality(Known(name)) = 0 \/ Cardinality(Known(name)) = 1
    BY <2>2, FS_EmptySet, FS_Singleton, Zenon
  <2> QED  BY <2>1, <2>3, DebtorsCount DEF OwedByOne
<1> QED  BY DebtorsInit, DebtorsStep, <1>1, PartIsItself, PTL DEF Debtors!Spec, OneDebtor

-----------------------------------------------------------------------------
(* The tree of categories.  a2 is cats, a3 what products are filed under, a4
   the jobs, a5 checked and a6 loose.  A handler between its check and its write
   is still right about what it looked up, or the name is loose: the name being
   saved has a category, the parent of what is being added is there, and nothing
   is filed under what is being removed. *)
CatRow ==
    [exists : BOOLEAN, name : CategoryNames \cup {""},
     parent : CategoryIds \cup {Nobody}, line : Lines \cup {""}]
CatJob ==
    [op : {"none", "save", "add", "remove"}, id : CategoryIds \cup {Nobody},
     sku : Filed \cup {""}, row : CatRow, looked : BOOLEAN]

Held(name) == name \in a6 \/ Tree!Named(name)
ParentOK(p) ==
    \/ p = Nobody
    \/ /\ p \in CategoryIds /\ a2[p].name \in CategoryNames
       /\ Tree!Exists(p) \/ a2[p].name \in a6
Free(i) ==
    Tree!Exists(i) /\ a2[i].name \notin a6 =>
        /\ \A k \in CategoryIds : Tree!Exists(k) => a2[k].parent # i
        /\ \A s \in a5 : a3[s] # a2[i].name

TreeJob(j) ==
    /\ j.op = "save" => /\ j.sku \in Filed /\ j.row.name \in CategoryNames
                        /\ j.looked => Held(j.row.name)
    /\ j.op = "add" => /\ j.row.exists /\ j.row.name \in CategoryNames
                       /\ ParentOK(j.row.parent)
    /\ j.op = "remove" => /\ j.id \in CategoryIds /\ a2[j.id].name \in CategoryNames
                          /\ Free(j.id)

TreeType ==
    /\ a2 \in [CategoryIds -> CatRow]
    /\ a3 \in [Filed -> CategoryNames \cup {""}]
    /\ a4 \in [Terminals -> CatJob]
    /\ a5 \subseteq Filed

TreeInv ==
    /\ TreeType
    /\ \A t \in Terminals : TreeJob(a4[t])
    /\ \A s \in a5 : Held(a3[s])
    /\ \A i \in CategoryIds : Tree!Exists(i) => a2[i].name \in CategoryNames
                                                /\ ParentOK(a2[i].parent)

LEMMA TreeIdle ==
    /\ Tree!NoRow \in CatRow /\ Tree!NoRow.exists = FALSE /\ Tree!NoRow.name = ""
    /\ Tree!NoJob \in CatJob /\ Tree!NoJob.op = "none"
  BY DEF Tree!NoRow, Tree!NoJob, CatRow, CatJob

(* A handler that writes no row and files nothing. *)
LEMMA TreeStarts ==
    ASSUME TreeInv, NEW t \in Terminals, NEW j \in CatJob, a4' = [a4 EXCEPT ![t] = j],
           UNCHANGED <<a2, a3, a5>>, a6 \subseteq a6', TreeJob(j)'
    PROVE  TreeInv'
<1>1. TreeType'
  BY Zenon DEF TreeInv, TreeType
<1>2. a4'[t] = j /\ \A u \in Terminals : u # t => a4'[u] = a4[u]
  BY Zenon DEF TreeInv, TreeType
<1>3. \A name : Held(name) => Held(name)'
  BY DEF Held, Tree!Named, Tree!Exists
<1>4. \A p : ParentOK(p) => ParentOK(p)'
  BY DEF ParentOK, Tree!Exists
<1>5. \A i : Free(i) => Free(i)'
  BY DEF Free, Tree!Exists
<1>6. ASSUME NEW u \in Terminals, u # t PROVE TreeJob(a4[u])'
  <2>1. TreeJob(a4[u]) /\ a4'[u] = a4[u]
    BY <1>2, <1>6 DEF TreeInv
  <2> QED  BY <1>3, <1>4, <1>5, <2>1 DEF TreeJob
<1>7. \A u \in Terminals : TreeJob(a4[u])'
  <2>1. TreeJob(a4[t])'
    BY <1>2 DEF TreeJob
  <2> QED  BY <1>6, <2>1
<1>8. \A s \in a5' : Held(a3[s])'
  BY <1>3 DEF TreeInv, Held
<1>9. \A i \in CategoryIds : Tree!Exists(i)' => a2'[i].name \in CategoryNames
                                                /\ ParentOK(a2[i].parent)'
  BY <1>4 DEF TreeInv, Tree!Exists, ParentOK
<1> QED  BY <1>1, <1>7, <1>8, <1>9 DEF TreeInv

LEMMA TreeSaveCheck ==
    ASSUME TreeInv, NEW t \in Terminals, NEW s \in Filed, NEW n \in CategoryNames,
           Tree!SaveCheck(t, s, n)
    PROVE  TreeInv'
<1> DEFINE row == [Tree!NoRow EXCEPT !.name = n]
<1>1. PICK j :
      /\ j = [Tree!NoJob EXCEPT !.op = "save", !.sku = s, !.row.name = n,
                                !.looked = Tree!Looks]
      /\ a4' = [a4 EXCEPT ![t] = j] /\ UNCHANGED <<a2, a3, a5>>
      /\ Tree!Looks => Tree!Valid(n)
      /\ a6' = IF Tree!Looks /\ Tree!Valid(n) /\ ~Tree!Named(n) THEN a6 \cup {n} ELSE a6
  BY Zenon DEF Tree!SaveCheck, Tree!Starts
<1>2. PICK l \in BOOLEAN : l = Tree!Looks
  BY Zenon DEF Tree!Looks
<1>3. row \in CatRow /\ row.name = n
  BY Zenon DEF CatRow, Tree!NoRow
<1> HIDE DEF row
<1>4. j = [Tree!NoJob EXCEPT !.op = "save", !.sku = s, !.row = row, !.looked = l]
  BY <1>1, <1>2 DEF Tree!NoJob, row
<1>5. /\ j \in CatJob /\ j.op = "save" /\ j.sku = s /\ j.row.name = n /\ j.looked = l
  BY <1>3, <1>4, TreeIdle, Zenon DEF CatJob
<1>6. l => Held(n)'
  BY <1>1, <1>2 DEF Held, Tree!Named, Tree!Exists
<1>7. TreeJob(j)'
  BY <1>5, <1>6 DEF TreeJob, Held
<1> QED  BY <1>1, <1>5, <1>7, TreeStarts, Zenon

LEMMA TreeAddCheck ==
    ASSUME TreeInv, NEW t \in Terminals, NEW n \in CategoryNames,
           NEW p \in CategoryIds \cup {Nobody}, NEW l \in Lines, Tree!AddCheck(t, n, p, l)
    PROVE  TreeInv'
<1> DEFINE row == [exists |-> TRUE, name |-> n, parent |-> p, line |-> l]
           j == [Tree!NoJob EXCEPT !.op = "add", !.row = row]
<1>1. /\ a4' = [a4 EXCEPT ![t] = j] /\ UNCHANGED <<a2, a3, a5, a6>>
      /\ p = Nobody \/ (p \in CategoryIds /\ Tree!Exists(p))
  BY DEF Tree!AddCheck, Tree!Starts
<1>2. row \in CatRow /\ row.name = n /\ row.exists /\ row.parent = p
  BY Zenon DEF CatRow
<1> HIDE DEF row
<1>3. j \in CatJob /\ j.op = "add" /\ j.row = row
  BY <1>2, TreeIdle, Zenon DEF CatJob
<1> HIDE DEF j
<1>4. ParentOK(p)'
  BY <1>1 DEF TreeInv, ParentOK, Tree!Exists
<1>5. TreeJob(j)'
  BY <1>2, <1>3, <1>4 DEF TreeJob, ParentOK
<1> QED  BY <1>1, <1>3, <1>5, TreeStarts, Zenon

LEMMA TreeRemoveCheck ==
    ASSUME TreeInv, NEW t \in Terminals, NEW i \in CategoryIds, Tree!RemoveCheck(t, i)
    PROVE  TreeInv'
<1>1. PICK j :
      /\ j = [Tree!NoJob EXCEPT !.op = "remove", !.id = i, !.row = a2[i]]
      /\ a4' = [a4 EXCEPT ![t] = j] /\ UNCHANGED <<a2, a3, a5, a6>>
      /\ Tree!Exists(i) /\ Tree!Unused(i)
  BY Zenon DEF Tree!RemoveCheck, Tree!Starts
<1>2. a2[i] \in CatRow /\ a2[i].name \in CategoryNames
  BY <1>1, Zenon DEF TreeInv, TreeType
<1>3. j \in CatJob /\ j.op = "remove" /\ j.id = i
  BY <1>1, <1>2, TreeIdle, Zenon DEF CatJob
<1>4. Free(i)'
  BY <1>1, Zenon DEF Free, Tree!Unused, Tree!Exists, TreeInv, TreeType
<1>5. TreeJob(j)'
  BY <1>1, <1>2, <1>3, <1>4 DEF TreeJob
<1> QED  BY <1>1, <1>3, <1>5, TreeStarts, Zenon

LEMMA TreeAbandon ==
    ASSUME TreeInv, NEW t \in Terminals, Tree!Abandon(t)
    PROVE  TreeInv'
<1>1. a4' = [a4 EXCEPT ![t] = Tree!NoJob] /\ UNCHANGED <<a2, a3, a5, a6>>
  BY DEF Tree!Abandon
<1>2. TreeJob(Tree!NoJob)'
  BY TreeIdle, Zenon DEF TreeJob
<1> QED  BY <1>1, <1>2, TreeIdle, TreeStarts, Zenon

(* What a handler that ends has written, and what it leaves to the others. *)
LEMMA TreeEnds ==
    ASSUME TreeInv, TreeType', NEW t \in Terminals, a4' = [a4 EXCEPT ![t] = Tree!NoJob],
           \A u \in Terminals : u # t => TreeJob(a4[u])',
           \A s \in a5' : Held(a3[s])',
           \A i \in CategoryIds : Tree!Exists(i)' => a2'[i].name \in CategoryNames
                                                     /\ ParentOK(a2[i].parent)'
    PROVE  TreeInv'
<1>1. a4'[t] = Tree!NoJob
  BY Zenon DEF TreeInv, TreeType
<1>2. TreeJob(a4[t])'
  BY <1>1, TreeIdle, Zenon DEF TreeJob
<1> QED  BY <1>2 DEF TreeInv

LEMMA TreeSaveCommit ==
    ASSUME TreeInv, NEW t \in Terminals, Tree!SaveCommit(t)
    PROVE  TreeInv'
<1> DEFINE n == a4[t].row.name
           s == a4[t].sku
<1>1. /\ a4[t].op = "save" /\ a4' = [a4 EXCEPT ![t] = Tree!NoJob]
      /\ a3' = [a3 EXCEPT ![s] = n] /\ UNCHANGED a2
      /\ a5' = IF a4[t].looked THEN a5 \cup {s} ELSE a5 \ {s}
      /\ a6' = IF \E i \in CategoryIds : Tree!Removing(i) /\ a2[i].name = n
               THEN a6 \cup {n} ELSE a6
  BY DEF Tree!SaveCommit, Tree!Ends
<1>2. s \in Filed /\ n \in CategoryNames /\ (a4[t].looked => Held(n))
  BY <1>1 DEF TreeInv, TreeJob
<1> HIDE DEF n, s
<1>3. TreeType'
  BY <1>1, <1>2, TreeIdle, Zenon DEF TreeInv, TreeType
<1>4. a3'[s] = n /\ \A x \in Filed : x # s => a3'[x] = a3[x]
  BY <1>1, <1>2, Zenon DEF TreeInv, TreeType
<1>5. a4'[t] = Tree!NoJob /\ \A u \in Terminals : u # t => a4'[u] = a4[u]
  BY <1>1, Zenon DEF TreeInv, TreeType
<1>6. (\A name : Held(name) => Held(name)') /\ (\A p : ParentOK(p) => ParentOK(p)')
  BY <1>1 DEF Held, ParentOK, Tree!Named, Tree!Exists
<1>7. ASSUME NEW i \in CategoryIds, Tree!Removing(i), Free(i) PROVE Free(i)'
  <2>1. CASE a2[i].name = n
    BY <1>1, <1>7, <2>1 DEF Free
  <2>2. CASE a2[i].name # n
    <3>1. \A x \in a5' : a3'[x] = a2[i].name => x \in a5 /\ a3[x] = a2[i].name
      BY <1>1, <1>4, <2>2, Zenon DEF TreeInv, TreeType
    <3> QED  BY <1>1, <1>7, <3>1 DEF Free, Tree!Exists
  <2> QED  BY <2>1, <2>2
<1>8. ASSUME NEW u \in Terminals, u # t PROVE TreeJob(a4[u])'
  <2>1. TreeJob(a4[u]) /\ a4'[u] = a4[u]
    BY <1>5, <1>8 DEF TreeInv
  <2>2. a4[u].op = "remove" => Tree!Removing(a4[u].id)
    BY DEF Tree!Removing
  <2> QED  BY <1>1, <1>6, <1>7, <2>1, <2>2 DEF TreeJob
<1>9. \A x \in a5' : Held(a3[x])'
  <2> TAKE x \in a5'
  <2>1. CASE x = s
    BY <1>1, <1>2, <1>4, <1>6, <2>1 DEF Held
  <2>2. CASE x # s
    <3>1. x \in a5 /\ a3'[x] = a3[x] /\ Held(a3[x])
      BY <1>1, <1>4, <2>2, Zenon DEF TreeInv, TreeType
    <3> QED  BY <1>6, <3>1 DEF Held
  <2> QED  BY <2>1, <2>2
<1>10. \A i \in CategoryIds : Tree!Exists(i)' => a2'[i].name \in CategoryNames
                                                 /\ ParentOK(a2[i].parent)'
  BY <1>1, <1>6 DEF TreeInv, Tree!Exists, ParentOK
<1> QED  BY <1>1, <1>3, <1>8, <1>9, <1>10, TreeEnds, Zenon

LEMMA TreeAddCommit ==
    ASSUME TreeInv, NEW t \in Terminals, NEW i \in CategoryIds, Tree!AddCommit(t, i)
    PROVE  TreeInv'
<1> DEFINE row == a4[t].row
<1>1. /\ a4[t].op = "add" /\ a4' = [a4 EXCEPT ![t] = Tree!NoJob]
      /\ a2[i] = Tree!NoRow /\ a2' = [a2 EXCEPT ![i] = row] /\ UNCHANGED <<a3, a5>>
      /\ a6' = IF Tree!Removing(row.parent) THEN a6 \cup {a2[row.parent].name} ELSE a6
  BY DEF Tree!AddCommit, Tree!Ends
<1>2. row \in CatRow /\ row.exists /\ row.name \in CategoryNames /\ ParentOK(row.parent)
  BY <1>1, Zenon DEF TreeInv, TreeType, TreeJob, CatJob
<1> HIDE DEF row
<1>3. TreeType'
  BY <1>1, <1>2, TreeIdle, Zenon DEF TreeInv, TreeType
<1>4. a2'[i] = row /\ \A k \in CategoryIds : k # i => a2'[k] = a2[k]
  BY <1>1, Zenon DEF TreeInv, TreeType
<1>5. a4'[t] = Tree!NoJob /\ \A u \in Terminals : u # t => a4'[u] = a4[u]
  BY <1>1, Zenon DEF TreeInv, TreeType
<1>6. ~Tree!Exists(i) /\ a2[i].name \notin CategoryNames
  BY <1>1, TreeIdle, PartsAssumption, Zenon DEF Tree!Exists
<1>7. (\A name : Held(name) => Held(name)') /\ (\A p : ParentOK(p) => ParentOK(p)')
  BY <1>1, <1>4, <1>6 DEF Held, ParentOK, Tree!Named, Tree!Exists
<1>8. ASSUME NEW k \in CategoryIds, k # i, Tree!Removing(k), Free(k) PROVE Free(k)'
  <2>1. CASE row.parent = k
    BY <1>1, <1>4, <1>8, <2>1 DEF Free
  <2>2. CASE row.parent # k
    BY <1>1, <1>4, <1>8, <2>2 DEF Free, Tree!Exists
  <2> QED  BY <2>1, <2>2
<1>9. ASSUME NEW u \in Terminals, u # t PROVE TreeJob(a4[u])'
  <2>1. TreeJob(a4[u]) /\ a4'[u] = a4[u]
    BY <1>5, <1>9 DEF TreeInv
  <2>2. a4[u].op = "remove" => Tree!Removing(a4[u].id)
    BY DEF Tree!Removing
  <2>3. a4[u].op = "remove" => a4[u].id \in CategoryIds /\ a4[u].id # i /\ Free(a4[u].id)
    BY <1>6, <2>1 DEF TreeJob
  <2> QED  BY <1>4, <1>7, <1>8, <2>1, <2>2, <2>3 DEF TreeJob
<1>10. \A x \in a5' : Held(a3[x])'
  BY <1>1, <1>7 DEF TreeInv, Held
<1>11. \A k \in CategoryIds : Tree!Exists(k)' => a2'[k].name \in CategoryNames
                                                 /\ ParentOK(a2[k].parent)'
  BY <1>2, <1>4, <1>7 DEF TreeInv, Tree!Exists, ParentOK
<1> QED  BY <1>1, <1>3, <1>9, <1>10, <1>11, TreeEnds, Zenon

LEMMA TreeRename ==
    ASSUME TreeInv, NEW i \in CategoryIds, NEW n \in CategoryNames, Tree!Rename(i, n)
    PROVE  TreeInv'
<1> DEFINE row == [a2[i] EXCEPT !.name = n]
<1>1. /\ Tree!Exists(i) /\ a2' = [a2 EXCEPT ![i] = row] /\ UNCHANGED <<a3, a4, a5>>
      /\ a6' = a6 \cup {a2[i].name} \cup (IF Tree!Removing(i) THEN {n} ELSE {})
  BY DEF Tree!Rename
<1>2. row \in CatRow /\ row.exists = a2[i].exists /\ row.name = n
      /\ row.parent = a2[i].parent
  BY Zenon DEF TreeInv, TreeType, CatRow
<1> HIDE DEF row
<1>3. TreeType'
  BY <1>1, <1>2, Zenon DEF TreeInv, TreeType
<1>4. a2'[i] = row /\ \A k \in CategoryIds : k # i => a2'[k] = a2[k]
  BY <1>1, Zenon DEF TreeInv, TreeType
<1>5. \A k \in CategoryIds : /\ Tree!Exists(k)' = Tree!Exists(k)
                             /\ a2'[k].parent = a2[k].parent
  BY <1>2, <1>4 DEF Tree!Exists
<1>6. \A name : Held(name) => Held(name)'
  BY <1>1, <1>4, <1>5 DEF Held, Tree!Named
<1>7. \A p : ParentOK(p) => ParentOK(p)'
  BY <1>1, <1>2, <1>4, <1>5 DEF ParentOK
<1>8. ASSUME NEW k \in CategoryIds, Tree!Removing(k), Free(k) PROVE Free(k)'
  <2>1. CASE k = i
    BY <1>1, <1>2, <1>4, <1>8, <2>1 DEF Free
  <2>2. CASE k # i
    BY <1>1, <1>4, <1>5, <1>8, <2>2 DEF Free
  <2> QED  BY <2>1, <2>2
<1>9. ASSUME NEW u \in Terminals PROVE TreeJob(a4[u])'
  <2>1. TreeJob(a4[u]) /\ a4'[u] = a4[u]
    BY <1>1 DEF TreeInv
  <2>2. a4[u].op = "remove" => Tree!Removing(a4[u].id)
    BY DEF Tree!Removing
  <2>3. \A k \in CategoryIds : a2[k].name \in CategoryNames => a2'[k].name \in CategoryNames
    BY <1>2, <1>4
  <2> QED  BY <1>6, <1>7, <1>8, <2>1, <2>2, <2>3 DEF TreeJob
<1>10. \A x \in a5' : Held(a3[x])'
  BY <1>1, <1>6 DEF TreeInv, Held
<1>11. \A k \in CategoryIds : Tree!Exists(k)' => a2'[k].name \in CategoryNames
                                                 /\ ParentOK(a2[k].parent)'
  BY <1>2, <1>4, <1>5, <1>7 DEF TreeInv, ParentOK
<1> QED  BY <1>3, <1>9, <1>10, <1>11 DEF TreeInv

LEMMA TreeRemoveCommit ==
    ASSUME TreeInv, NEW t \in Terminals, Tree!RemoveCommit(t)
    PROVE  TreeInv'
<1>0. PICK i, n, row :
      i = a4[t].id /\ n = a2[i].name /\ row = [a2[i] EXCEPT !.exists = FALSE]
  BY Zenon
<1>1. /\ a4[t].op = "remove" /\ a4' = [a4 EXCEPT ![t] = Tree!NoJob]
      /\ Tree!Exists(i) /\ a2' = [a2 EXCEPT ![i] = row] /\ UNCHANGED <<a3, a5>>
      /\ a6' = IF \E c \in Terminals \ {t} : Tree!Saving(c, i)
               THEN a6 \cup {n} ELSE a6
  BY <1>0 DEF Tree!RemoveCommit, Tree!Ends
<1>2. i \in CategoryIds /\ Free(i) /\ n \in CategoryNames
  BY <1>0, <1>1 DEF TreeInv, TreeJob
<1>3. row \in CatRow /\ ~row.exists /\ row.name = n
  <2>1. PICK was \in CatRow : was = a2[i]
    BY <1>2, Zenon DEF TreeInv, TreeType
  <2>2. row = [was EXCEPT !.exists = FALSE] /\ was.name = n
    BY <1>0, <2>1
  <2> QED  BY <2>2, Zenon DEF CatRow
<1>4. TreeType'
  BY <1>1, <1>2, <1>3, TreeIdle, Zenon DEF TreeInv, TreeType
<1>5. a2'[i] = row /\ \A k \in CategoryIds : k # i => a2'[k] = a2[k]
  BY <1>1, <1>2, Zenon DEF TreeInv, TreeType
<1>6. a4'[t] = Tree!NoJob /\ \A u \in Terminals : u # t => a4'[u] = a4[u]
  BY <1>1, Zenon DEF TreeInv, TreeType
<1>7. n = a2[i].name /\ a6 \subseteq a6'
  BY <1>0, <1>1
<1>8. \A name : Held(name) => Held(name)' \/ name = n
  BY <1>5, <1>7 DEF Held, Tree!Named, Tree!Exists
<1>9. \A p : ParentOK(p) => ParentOK(p)' \/ p = i
  BY <1>5, <1>7 DEF ParentOK, Tree!Exists
<1>10. n \in a6' => Held(n)' /\ ParentOK(i)'
  BY <1>2, <1>3, <1>5 DEF Held, ParentOK
<1>11. \A k \in CategoryIds : Free(k) => Free(k)'
  <2> SUFFICES ASSUME NEW k \in CategoryIds, Free(k) PROVE Free(k)'
    OBVIOUS
  <2>1. \A m \in CategoryIds : Tree!Exists(m)' => Tree!Exists(m) /\ a2'[m] = a2[m]
    BY <1>3, <1>5 DEF Tree!Exists
  <2> QED  BY <1>1, <1>7, <2>1 DEF Free
<1>12. ASSUME NEW u \in Terminals, u # t PROVE TreeJob(a4[u])'
  <2>1. TreeJob(a4[u]) /\ a4'[u] = a4[u]
    BY <1>6, <1>12 DEF TreeInv
  <2>2. a4[u].op = "save" /\ a4[u].row.name = n => n \in a6'
    BY <1>1, <1>7, <1>12 DEF Tree!Saving
  <2>3. a4[u].op = "add" /\ a4[u].row.parent = i => n \in a6'
    BY <1>1, <1>12 DEF Tree!Saving
  <2>4. \A k \in CategoryIds : a2'[k].name = a2[k].name
    BY <1>3, <1>5, <1>7
  <2> QED  BY <1>8, <1>9, <1>10, <1>11, <2>1, <2>2, <2>3, <2>4 DEF TreeJob
<1>13. \A x \in a5' : Held(a3[x])'
  <2> TAKE x \in a5'
  <2>1. Held(a3[x]) /\ a3'[x] = a3[x] /\ x \in a5
    BY <1>1 DEF TreeInv
  <2>2. CASE a3[x] = n
    <3>1. n \in a6
      BY <1>1, <1>2, <1>7, <2>1, <2>2 DEF Free
    <3> QED  BY <1>7, <2>1, <2>2, <3>1 DEF Held
  <2>3. CASE a3[x] # n
    BY <1>8, <2>1, <2>3 DEF Held
  <2> QED  BY <2>2, <2>3
<1>14. ASSUME NEW k \in CategoryIds, Tree!Exists(k)'
       PROVE  a2'[k].name \in CategoryNames /\ ParentOK(a2[k].parent)'
  <2>1. Tree!Exists(k) /\ a2'[k] = a2[k]
    BY <1>3, <1>5, <1>14 DEF Tree!Exists
  <2>2. a2[k].name \in CategoryNames /\ ParentOK(a2[k].parent)
    BY <2>1 DEF TreeInv
  <2>3. CASE a2[k].parent = i
    <3>1. n \in a6
      BY <1>1, <1>2, <1>7, <2>1, <2>3 DEF Free
    <3> QED  BY <1>7, <1>10, <2>1, <2>2, <2>3, <3>1 DEF ParentOK
  <2>4. CASE a2[k].parent # i
    BY <1>9, <2>1, <2>2, <2>4 DEF ParentOK
  <2> QED  BY <2>3, <2>4
<1> QED  BY <1>1, <1>4, <1>12, <1>13, <1>14, TreeEnds, Zenon

(* A product goes, or the shop changes its line of business. *)
LEMMA TreeLess ==
    ASSUME TreeInv, UNCHANGED <<a2, a4, a6>>, a5' \subseteq a5, TreeType',
           \A s \in a5' : a3'[s] = a3[s]
    PROVE  TreeInv'
<1>1. (\A name : Held(name) => Held(name)') /\ (\A p : ParentOK(p) => ParentOK(p)')
  BY DEF Held, ParentOK, Tree!Named, Tree!Exists
<1>2. \A i : Free(i) => Free(i)'
  BY DEF Free, Tree!Exists
<1>3. \A u \in Terminals : TreeJob(a4[u])'
  <2> TAKE u \in Terminals
  <2>1. TreeJob(a4[u])
    BY DEF TreeInv
  <2> QED  BY <1>1, <1>2, <2>1 DEF TreeJob
<1>4. \A s \in a5' : Held(a3[s])'
  BY <1>1 DEF TreeInv, Held
<1>5. \A i \in CategoryIds : Tree!Exists(i)' => a2'[i].name \in CategoryNames
                                                /\ ParentOK(a2[i].parent)'
  BY <1>1 DEF TreeInv, Tree!Exists, ParentOK
<1> QED  BY <1>3, <1>4, <1>5 DEF TreeInv

LEMMA TreeInit == Tree!Init => TreeInv
<1> SUFFICES ASSUME Tree!Init PROVE TreeInv
  OBVIOUS
<1>1. /\ a2 = [i \in CategoryIds |-> Tree!NoRow] /\ a3 = [s \in Filed |-> ""]
      /\ a4 = [t \in Terminals |-> Tree!NoJob] /\ a5 = {}
  BY Zenon DEF Tree!Init
<1> QED  BY <1>1, TreeIdle, Zenon DEF TreeInv, TreeType, TreeJob, Tree!Exists

LEMMA TreeStep == TreeInv /\ [Tree!Next]_(Tree!vars) => TreeInv'
<1> SUFFICES ASSUME TreeInv, [Tree!Next]_(Tree!vars) PROVE TreeInv'
  OBVIOUS
<1>1. CASE UNCHANGED Tree!vars \/ Tree!ChangeRubro
  <2>1. UNCHANGED <<a2, a3, a4, a5, a6>>
    BY <1>1 DEF Tree!vars, Tree!ChangeRubro
  <2>2. TreeType'
    BY <2>1, Zenon DEF TreeInv, TreeType
  <2> QED  BY <2>1, <2>2, TreeLess
<1>2. ASSUME NEW s \in Filed, Tree!RemoveProduct(s) PROVE TreeInv'
  <2>1. a3' = [a3 EXCEPT ![s] = ""] /\ a5' = a5 \ {s} /\ UNCHANGED <<a2, a4, a6>>
    BY <1>2, Zenon DEF Tree!RemoveProduct
  <2>2. TreeType' /\ \A x \in a5' : a3'[x] = a3[x]
    BY <2>1, Zenon DEF TreeInv, TreeType
  <2> QED  BY <2>1, <2>2, TreeLess, Zenon
<1>3. \A t \in Terminals, s \in Filed, n \in CategoryNames :
          Tree!SaveCheck(t, s, n) => TreeInv'
  BY TreeSaveCheck
<1>4. \A t \in Terminals, n \in CategoryNames, p \in CategoryIds \cup {Nobody}, l \in Lines :
          Tree!AddCheck(t, n, p, l) => TreeInv'
  BY TreeAddCheck
<1>5. \A t \in Terminals, i \in CategoryIds :
          Tree!AddCommit(t, i) \/ Tree!RemoveCheck(t, i) => TreeInv'
  BY TreeAddCommit, TreeRemoveCheck
<1>6. \A t \in Terminals :
          Tree!SaveCommit(t) \/ Tree!RemoveCommit(t) \/ Tree!Abandon(t) => TreeInv'
  BY TreeSaveCommit, TreeRemoveCommit, TreeAbandon
<1>7. \A i \in CategoryIds, n \in CategoryNames : Tree!Rename(i, n) => TreeInv'
  BY TreeRename
<1> QED  BY <1>1, <1>2, <1>3, <1>4, <1>5, <1>6, <1>7 DEF Tree!Next

(* CategoryRepository::remove: "Tiene subcategorias", "Hay productos": of the
   names that are not loose, nothing is left under a category that is gone,
   though the check and the removal are two statements. *)
THEOREM NothingIsOrphaned == PartsSpec => []NothingOrphaned
<1>1. TreeInv => Tree!NothingOrphaned
  <2> SUFFICES ASSUME TreeInv PROVE Tree!NothingOrphaned
    OBVIOUS
  <2>1. \A s \in a5 : a3[s] \in a6 \/ Tree!Named(a3[s])
    BY DEF TreeInv, Held
  <2>2. \A i \in CategoryIds : Tree!Exists(i) /\ a2[i].parent # Nobody =>
            a2[a2[i].parent].name \in a6 \/ Tree!Exists(a2[i].parent)
    BY DEF TreeInv, ParentOK
  <2> QED  BY <2>1, <2>2 DEF Tree!NothingOrphaned
<1> QED  BY TreeInit, TreeStep, <1>1, PartIsItself, PTL DEF Tree!Spec, NothingOrphaned

-----------------------------------------------------------------------------
(* Lists.  a1 is the kind of list, a2 the table, a3 tells whether every line of
   business is shown, a4 is the list, a5 the text asked for, a6 what happened
   since. *)
LEMMA ScrollAssumption ==
    Rows \subseteq Nat /\ IsFiniteSet(Rows) /\ PageSize \in Nat /\ PageSize > 0
<1>1. Rows \subseteq Nat /\ IsFiniteSet(Rows) /\ PageSize \in Nat \ {0}
  BY PartsAssumption, Zenon
<1> QED  BY <1>1

LEMMA ScrollCount == \A S : Scroll!Cardinality(S) = Cardinality(S)
  BY DEF Scroll!Cardinality, Cardinality, Scroll!IsFiniteSet, IsFiniteSet

Rises(s) == \A i, j \in DOMAIN s : i < j => s[i] < s[j]

LEMMA Least ==
    ASSUME NEW T \in SUBSET Nat, T # {}
    PROVE  \E n \in T : \A k \in T : n <= k
<1>1. PICK n \in T : \A k \in T : ~(<<k, n>> \in OpToRel(<, Nat))
  BY NatLessThanWellFounded, WFMin, Zenon
<1>2. \A k \in T : n \in Nat /\ k \in Nat /\ ~(k < n)
  <2> SUFFICES ASSUME NEW k \in T, k < n PROVE FALSE
    OBVIOUS
  <2>1. <<k, n>> \in OpToRel(<, Nat)
    BY DEF OpToRel
  <2> QED  BY <1>1, <2>1
<1> QED  BY <1>2

(* Any rows can be put in order: the least one first, the others in order. *)
LEMMA OrderExists ==
    \A S \in SUBSET Rows : \E s \in [1 .. Cardinality(S) -> S] : Rises(s)
<1> DEFINE G == {S \in SUBSET Rows : \E s \in [1 .. Cardinality(S) -> S] : Rises(s)}
<1>1. ASSUME NEW S \in SUBSET Rows, \A R \in SUBSET S : R # S => R \in G
      PROVE  S \in G
  <2>1. CASE S = {}
    <3>1. Cardinality(S) = 0
      BY <2>1, FS_EmptySet
    <3>2. [i \in 1 .. 0 |-> i] \in [1 .. 0 -> S] /\ Rises([i \in 1 .. 0 |-> i])
      BY DEF Rises
    <3> QED  BY <3>1, <3>2
  <2>2. CASE S # {}
    <3>1. PICK m \in S : \A r \in S : m <= r
      BY <2>2, ScrollAssumption, Least
    <3> DEFINE R == S \ {m}
               n == Cardinality(R)
    <3>2. n \in Nat /\ Cardinality(S) = n + 1
      <4>1. IsFiniteSet(S)
        BY ScrollAssumption, FS_Subset
      <4>2. IsFiniteSet(R) /\ n = Cardinality(S) - 1
        BY <4>1, FS_RemoveElement
      <4>3. n \in Nat /\ Cardinality(S) \in Nat
        BY <4>1, <4>2, FS_CardinalityType
      <4> QED  BY <4>2, <4>3
    <3>3. R \in G
      BY <1>1
    <3> HIDE DEF n
    <3>4. PICK s \in [1 .. n -> R] : Rises(s)
      BY <3>3 DEF n
    <3> DEFINE t == [i \in 1 .. n + 1 |-> IF i = 1 THEN m ELSE s[i - 1]]
    <3>5. t \in [1 .. n + 1 -> S]
      BY <3>2, <3>4
    <3>6. Rises(t)
      <4> SUFFICES ASSUME NEW i \in 1 .. n + 1, NEW j \in 1 .. n + 1, i < j
                   PROVE  t[i] < t[j]
        BY DEF Rises
      <4>1. t[j] = s[j - 1] /\ j - 1 \in 1 .. n /\ s[j - 1] \in R
        BY <3>2, <3>4
      <4>2. CASE i = 1
        <5>1. t[i] = m /\ m <= s[j - 1] /\ m # s[j - 1]
          BY <3>1, <3>2, <4>1, <4>2
        <5>2. m \in Nat /\ s[j - 1] \in Nat
          BY <4>1, ScrollAssumption
        <5> HIDE DEF t
        <5> QED  BY <4>1, <5>1, <5>2
      <4>3. CASE i # 1
        <5>1. t[i] = s[i - 1] /\ i - 1 \in 1 .. n /\ i - 1 < j - 1
          BY <3>2, <4>3
        <5> QED  BY <3>4, <4>1, <5>1 DEF Rises
      <4> QED  BY <4>2, <4>3
    <3> HIDE DEF t
    <3> QED  BY <3>2, <3>5, <3>6
  <2> QED  BY <2>1, <2>2
<1> HIDE DEF G
<1>2. \A S \in SUBSET Rows : S \in G
  BY <1>1, ScrollAssumption, SubsetInduction
<1> QED  BY <1>2 DEF G

(* A page is read from all the rows found, each once, in order. *)
LEMMA OrderIs ==
    ASSUME NEW S \in SUBSET Rows
    PROVE  /\ Cardinality(S) \in Nat
           /\ Scroll!InOrder(S) \in Seq(Rows)
           /\ Len(Scroll!InOrder(S)) = Cardinality(S)
           /\ \A i \in 1 .. Cardinality(S) : Scroll!InOrder(S)[i] \in S
           /\ \A i, j \in 1 .. Cardinality(S) :
                  i < j => Scroll!InOrder(S)[i] < Scroll!InOrder(S)[j]
           /\ \A r \in S : \E i \in 1 .. Cardinality(S) : Scroll!InOrder(S)[i] = r
<1> DEFINE n == Cardinality(S)
           s == Scroll!InOrder(S)
<1>1. IsFiniteSet(S) /\ n \in Nat
  BY ScrollAssumption, FS_Subset, FS_CardinalityType
<1>2. s \in [1 .. n -> S] /\ Rises(s)
  BY OrderExists, ScrollCount DEF Scroll!InOrder, Rises
<1> HIDE DEF n, s
<1>3. s \in Seq(S) /\ Len(s) = n
  BY <1>1, <1>2
<1>4. s \in Seq(Rows)
  BY <1>3, SeqMonotonic
<1>5. \A i, j \in 1 .. n : i < j => s[i] < s[j]
  BY <1>2 DEF Rises
<1>6. s \in Injection(1 .. n, S)
  <2>1. \A i, j \in 1 .. n : s[i] = s[j] => i = j
    <3> SUFFICES ASSUME NEW i \in 1 .. n, NEW j \in 1 .. n, s[i] = s[j], i # j
                 PROVE  FALSE
      OBVIOUS
    <3>1. i < j \/ j < i
      BY <1>1
    <3>2. s[i] \in Nat /\ s[j] \in Nat
      BY <1>2, ScrollAssumption
    <3> QED  BY <1>5, <3>1, <3>2
  <2>2. s \in [1 .. n -> S]
    BY <1>2
  <2> QED  BY <2>1, <2>2, Zenon DEF Injection, IsInjective
<1>7. s \in Surjection(1 .. n, S)
  <2>1. Cardinality(1 .. n) = n
    BY <1>1, FS_Interval
  <2> QED  BY <1>1, <1>6, <2>1, FS_Injection DEF n
<1> QED  BY <1>1, <1>2, <1>3, <1>4, <1>5, <1>7 DEF n, s, Surjection

(* Two sets of rows begin alike as far as each row of the one is in the other
   and nothing of the other comes before it. *)
LEMMA BeginAlike ==
    ASSUME NEW S \in SUBSET Rows, NEW T \in SUBSET Rows, NEW n \in Nat,
           n <= Cardinality(S), n <= Cardinality(T),
           \A i \in 1 .. n : /\ Scroll!InOrder(S)[i] \in T
                             /\ \A r \in T : r < Scroll!InOrder(S)[i] => r \in S
    PROVE  \A i \in 1 .. n : Scroll!InOrder(T)[i] = Scroll!InOrder(S)[i]
<1> DEFINE s == Scroll!InOrder(S)
           t == Scroll!InOrder(T)
           Bad == {i \in 1 .. n : t[i] # s[i]}
<1> SUFFICES ASSUME Bad # {} PROVE FALSE
  OBVIOUS
<1>1. PICK i \in Bad : \A k \in Bad : i <= k
  <2>1. Bad \in SUBSET Nat
    OBVIOUS
  <2> HIDE DEF Bad
  <2> QED  BY <2>1, Least
<1>2. /\ i \in 1 .. n /\ t[i] # s[i]
      /\ \A k \in 1 .. n : k < i => t[k] = s[k]
  BY <1>1
<1> HIDE DEF s, t, Bad
<1>3. /\ Cardinality(S) \in Nat /\ Cardinality(T) \in Nat
      /\ \A k \in 1 .. Cardinality(S) : s[k] \in S
      /\ \A k \in 1 .. Cardinality(T) : t[k] \in T
      /\ \A k, m \in 1 .. Cardinality(S) : k < m => s[k] < s[m]
      /\ \A k, m \in 1 .. Cardinality(T) : k < m => t[k] < t[m]
      /\ \A r \in S : \E k \in 1 .. Cardinality(S) : s[k] = r
      /\ \A r \in T : \E k \in 1 .. Cardinality(T) : t[k] = r
  BY OrderIs DEF s, t
<1>4. /\ s[i] \in T /\ \A r \in T : r < s[i] => r \in S
      /\ i \in 1 .. Cardinality(S) /\ i \in 1 .. Cardinality(T)
  BY <1>2, <1>3 DEF s
<1>5. PICK k \in 1 .. Cardinality(T) : t[k] = s[i]
  BY <1>3, <1>4
<1>6. i < k
  <2>1. s[i] \in Nat /\ k # i
    BY <1>2, <1>3, <1>4, <1>5, ScrollAssumption
  <2>2. ASSUME k < i PROVE FALSE
    <3>1. k \in 1 .. n /\ k \in 1 .. Cardinality(S)
      BY <1>2, <1>3, <1>4, <2>2
    <3>2. t[k] = s[k]
      BY <1>2, <2>2, <3>1
    <3>3. s[k] < s[i]
      BY <1>3, <1>4, <2>2, <3>1
    <3> QED  BY <1>5, <2>1, <3>2, <3>3
  <2> QED  BY <1>3, <1>4, <2>1, <2>2
<1>7. t[i] < s[i] /\ t[i] \in S
  BY <1>3, <1>4, <1>5, <1>6
<1>8. PICK m \in 1 .. Cardinality(S) : s[m] = t[i]
  BY <1>3, <1>7
<1>9. m < i
  <2>1. s[m] \in Nat /\ s[i] \in Nat
    BY <1>3, <1>4, ScrollAssumption
  <2>2. ~(i < m) /\ m # i
    BY <1>3, <1>4, <1>7, <1>8, <2>1
  <2> QED  BY <1>3, <1>4, <2>2
<1>10. t[m] = s[m] /\ t[m] < t[i]
  BY <1>2, <1>3, <1>4, <1>9
<1>11. t[i] \in Nat
  BY <1>3, <1>4, ScrollAssumption
<1> QED  BY <1>8, <1>10, <1>11

(* A row that comes or goes behind the first n leaves these. *)
LEMMA ChangeBehind ==
    ASSUME NEW S \in SUBSET Rows, NEW T \in SUBSET Rows, NEW r \in Rows,
           S \ {r} = T \ {r}, NEW n \in Nat, n <= Cardinality(S),
           \A i \in 1 .. n : Scroll!InOrder(S)[i] < r
    PROVE  /\ n <= Cardinality(T)
           /\ \A i \in 1 .. n : Scroll!InOrder(T)[i] = Scroll!InOrder(S)[i]
<1> DEFINE s == Scroll!InOrder(S)
<1>1. /\ Cardinality(S) \in Nat /\ Cardinality(T) \in Nat
      /\ \A k \in 1 .. Cardinality(S) : s[k] \in S
      /\ \A q \in S : \E k \in 1 .. Cardinality(S) : s[k] = q
  BY OrderIs
<1>2. IsFiniteSet(S)
  BY ScrollAssumption, FS_Subset
<1> HIDE DEF s
<1>3. n <= Cardinality(T)
  <2>1. CASE r \in S /\ r \notin T
    <3>1. PICK k \in 1 .. Cardinality(S) : s[k] = r
      BY <1>1, <2>1
    <3>2. k \notin 1 .. n
      BY <3>1, ScrollAssumption DEF s
    <3>3. T = S \ {r}
      BY <2>1
    <3>4. Cardinality(T) = Cardinality(S) - 1
      BY <1>2, <2>1, <3>3, FS_RemoveElement
    <3> QED  BY <1>1, <3>2, <3>4
  <2>2. CASE r \notin S /\ r \in T
    <3>1. T = S \cup {r}
      BY <2>2
    <3>2. Cardinality(T) = Cardinality(S) + 1
      BY <1>2, <2>2, <3>1, FS_AddElement
    <3> QED  BY <1>1, <3>2
  <2>3. CASE r \in S <=> r \in T
    <3>1. S = T
      BY <2>3
    <3> QED  BY <3>1
  <2> QED  BY <2>1, <2>2, <2>3
<1>4. \A i \in 1 .. n : s[i] \in T /\ \A q \in T : q < s[i] => q \in S
  <2> SUFFICES ASSUME NEW i \in 1 .. n
               PROVE  s[i] \in T /\ \A q \in T : q < s[i] => q \in S
    OBVIOUS
  <2>1. i \in 1 .. Cardinality(S)
    BY <1>1
  <2>2. s[i] \in S /\ s[i] \in Nat /\ r \in Nat
    BY <1>1, <2>1, ScrollAssumption
  <2>3. s[i] < r
    BY DEF s
  <2>4. s[i] # r /\ \A q \in T : q < s[i] => q # r
    BY <2>2, <2>3
  <2> QED  BY <2>2, <2>4
<1> QED  BY <1>3, <1>4, BeginAlike DEF s

(* The first n of some rows, or all when there are no more. *)
First(n, S) ==
    SubSeq(Scroll!InOrder(S), 1, IF n < Cardinality(S) THEN n ELSE Cardinality(S))

LEMMA FirstIs ==
    ASSUME NEW S \in SUBSET Rows, NEW n \in Nat
    PROVE  /\ First(n, S) \in Seq(Rows)
           /\ Len(First(n, S)) = IF n < Cardinality(S) THEN n ELSE Cardinality(S)
           /\ \A i \in 1 .. Len(First(n, S)) : First(n, S)[i] = Scroll!InOrder(S)[i]
           /\ n >= Cardinality(S) => First(n, S) = Scroll!InOrder(S)
<1> DEFINE s == Scroll!InOrder(S)
           m == IF n < Cardinality(S) THEN n ELSE Cardinality(S)
<1>1. s \in Seq(Rows) /\ Len(s) = Cardinality(S) /\ Cardinality(S) \in Nat
  BY OrderIs
<1> HIDE DEF s
<1>2. m \in 0 .. Len(s)
  BY <1>1
<1> HIDE DEF m
<1>3. /\ SubSeq(s, 1, m) \in Seq(Rows) /\ Len(SubSeq(s, 1, m)) = m
      /\ \A i \in 1 .. m : SubSeq(s, 1, m)[i] = s[i]
  BY <1>1, <1>2
<1>4. n >= Cardinality(S) => m = Len(s)
  BY <1>1 DEF m
<1>5. SubSeq(s, 1, Len(s)) = s
  BY <1>1, SubSeqFull
<1>6. First(n, S) = SubSeq(s, 1, m)
  BY DEF First, s, m
<1> QED  BY <1>3, <1>4, <1>5, <1>6, Zenon DEF s, m

(* What a change behind the first n rows leaves of them. *)
LEMMA FirstStay ==
    ASSUME NEW S \in SUBSET Rows, NEW T \in SUBSET Rows, NEW r \in Rows,
           S \ {r} = T \ {r}, NEW n \in Nat, n <= Len(First(n, S)),
           \A i \in 1 .. n : First(n, S)[i] < r
    PROVE  First(n, T) = First(n, S)
<1>1. /\ Cardinality(S) \in Nat /\ Cardinality(T) \in Nat
  BY OrderIs
<1>2. n <= Cardinality(S) /\ Len(First(n, S)) = n
  <2>1. Len(First(n, S)) = IF n < Cardinality(S) THEN n ELSE Cardinality(S)
    BY FirstIs
  <2> QED  BY <1>1, <2>1
<1>3. \A i \in 1 .. n : First(n, S)[i] = Scroll!InOrder(S)[i]
  BY <1>2, FirstIs
<1>4. /\ n <= Cardinality(T)
      /\ \A i \in 1 .. n : Scroll!InOrder(T)[i] = Scroll!InOrder(S)[i]
  BY <1>2, <1>3, ChangeBehind
<1>5. Len(First(n, T)) = n
  <2>1. Len(First(n, T)) = IF n < Cardinality(T) THEN n ELSE Cardinality(T)
    BY FirstIs
  <2> QED  BY <1>1, <1>4, <2>1
<1>6. \A i \in 1 .. n : First(n, T)[i] = Scroll!InOrder(T)[i]
  BY <1>5, FirstIs
<1>7. First(n, S) \in Seq(Rows) /\ First(n, T) \in Seq(Rows)
  BY FirstIs
<1> QED  BY <1>2, <1>3, <1>4, <1>5, <1>6, <1>7, SeqEqual

LEMMA FoundRows ==
    ASSUME a2 \subseteq Rows, NEW text
    PROVE  Scroll!Found(a2, text) \in SUBSET Rows
  BY DEF Scroll!Found

(* Page k goes on where the k pages before it end. *)
LEMMA PageIs ==
    ASSUME a2 \subseteq Rows, NEW text, NEW k \in Nat
    PROVE  LET S == Scroll!Found(a2, text)
               n == k * PageSize
               page == Scroll!Page(text, k) IN
           /\ n \in Nat /\ (k + 1) * PageSize \in Nat
           /\ k = 0 => page = First((k + 1) * PageSize, S)
           /\ n < Cardinality(S) =>
                 page # <<>> /\ First(n, S) \o page = First((k + 1) * PageSize, S)
           /\ n >= Cardinality(S) => page = <<>>
<1> DEFINE S == Scroll!Found(a2, text)
           s == Scroll!InOrder(S)
           n == k * PageSize
           c == Cardinality(S)
           last == IF n + PageSize < c THEN n + PageSize ELSE c
<1>1. n \in Nat /\ (k + 1) * PageSize = n + PageSize /\ PageSize \in Nat /\ PageSize > 0
      /\ (k = 0 => n = 0)
  BY ScrollAssumption
<1>2. S \in SUBSET Rows
  BY FoundRows
<1> HIDE DEF S
<1>3. s \in Seq(Rows) /\ Len(s) = c /\ c \in Nat
  BY <1>2, OrderIs
<1>4. Scroll!Page(text, k) = SubSeq(s, n + 1, last)
  BY <1>1, <1>3 DEF Scroll!Page, Scroll!Listed, S
<1>5. First((k + 1) * PageSize, S) = SubSeq(s, 1, last)
  BY <1>1 DEF First
<1>6. First(n, S) = SubSeq(s, 1, IF n < c THEN n ELSE c)
  BY DEF First
<1> HIDE DEF s, n, c
<1>7. n < c => last \in n + 1 .. c
  BY <1>1, <1>3
<1>8. n >= c => last = c /\ c < n + 1
  BY <1>1, <1>3
<1> HIDE DEF last
<1>9. ASSUME n < c
      PROVE  SubSeq(s, n + 1, last) # <<>>
             /\ SubSeq(s, 1, n) \o SubSeq(s, n + 1, last) = SubSeq(s, 1, last)
  <2>1. Len(SubSeq(s, n + 1, last)) = last - n
    BY <1>1, <1>3, <1>7, <1>9
  <2>2. SubSeq(s, n + 1, last) # <<>>
    <3>1. last - n > 0
      BY <1>1, <1>3, <1>7, <1>9
    <3>2. Len(<<>>) = 0
      BY EmptySeq
    <3> DEFINE x == SubSeq(s, n + 1, last)
    <3>3. Len(x) = last - n
      BY <2>1
    <3> HIDE DEF x
    <3>4. x # <<>>
      BY <3>1, <3>2, <3>3
    <3> QED  BY <3>4 DEF x
  <2>3. 1 \in 1 .. Len(s) + 1 /\ n \in 1 - 1 .. Len(s) /\ last \in n .. Len(s)
    BY <1>1, <1>3, <1>7, <1>9
  <2> QED  BY <1>3, <2>2, <2>3, ConcatAdjacentSubSeq
<1>10. ASSUME n >= c PROVE SubSeq(s, n + 1, last) = <<>>
  BY <1>1, <1>3, <1>8, <1>10, SubSeqEmpty
<1> QED
  <2>1. k = 0 => Scroll!Page(text, k) = First((k + 1) * PageSize, S)
    BY <1>1, <1>4, <1>5
  <2>2. n < c => First(n, S) = SubSeq(s, 1, n)
    BY <1>6
  <2>3. /\ n \in Nat /\ (k + 1) * PageSize \in Nat
        /\ n < c => /\ Scroll!Page(text, k) # <<>>
                    /\ First(n, S) \o Scroll!Page(text, k) = First((k + 1) * PageSize, S)
        /\ n >= c => Scroll!Page(text, k) = <<>>
    <3>1. n \in Nat /\ (k + 1) * PageSize \in Nat
      BY <1>1
    <3>2. n >= c => Scroll!Page(text, k) = <<>>
      BY <1>4, <1>10, Zenon
    <3>3. n < c => /\ Scroll!Page(text, k) # <<>>
                   /\ First(n, S) \o Scroll!Page(text, k) = First((k + 1) * PageSize, S)
      BY <1>4, <1>5, <1>9, <2>2, Zenon
    <3> QED  BY <3>1, <3>2, <3>3
  <2> QED  BY <2>1, <2>3 DEF S, n, c

-----------------------------------------------------------------------------
(* What the rows shown, the pages read and the count have to do with the table,
   while nobody removed, inserted or moved what is shown. *)
ListType == [step : {"rest", "count"}, rows : Seq(Rows), total : Nat, page : Nat,
             text : Scroll!Texts, sought : Scroll!Texts, active : BOOLEAN]

Faithful(text) ==
    LET found == Scroll!Found(a2, text) IN
    /\ a4.step = "count" => a4.sought = text
    /\ a4.step = "rest" => a4.rows = First(a4.page * PageSize, found)
    /\ a6 = "same" /\ (a4.page > 0 \/ a4.step = "count") =>
          Cardinality(found) <= a4.total

ScrollInv ==
    /\ a2 \subseteq Rows /\ a4 \in ListType
    /\ a4.step = "count" => a4.page = 0
    /\ a4.step = "rest" /\ a4.page = 0 => a4.total = 0
    /\ a6 # "moved" /\ a4.text = a5 => Faithful(a5)

LEMMA ScrollInit == Scroll!Init => ScrollInv
<1> SUFFICES ASSUME Scroll!Init PROVE ScrollInv
  OBVIOUS
<1>1. a2 = Rows /\ a4 = Scroll!Closed
  BY DEF Scroll!Init
<1>2. a4 \in ListType
  <2>1. <<>> \in Seq(Rows)
    BY EmptySeq
  <2> QED  BY <1>1, <2>1 DEF Scroll!Closed, ListType, Scroll!Texts
<1>3. /\ a4.step = "rest" /\ a4.rows = <<>> /\ a4.total = 0 /\ a4.page = 0
  BY <1>1 DEF Scroll!Closed
<1>4. First(a4.page * PageSize, Scroll!Found(a2, a5)) = <<>>
  <2>1. a4.page * PageSize = 0
    BY <1>3, ScrollAssumption
  <2>2. Scroll!Found(a2, a5) \in SUBSET Rows
    BY <1>1, FoundRows
  <2>3. /\ First(0, Scroll!Found(a2, a5)) \in Seq(Rows)
        /\ Len(First(0, Scroll!Found(a2, a5))) = 0
    <3> DEFINE S == Scroll!Found(a2, a5)
    <3> HIDE DEF S
    <3>1. S \in SUBSET Rows /\ Cardinality(S) \in Nat
      BY <2>2, OrderIs DEF S
    <3>2. First(0, S) \in Seq(Rows) /\ Len(First(0, S)) = 0
      BY <3>1, FirstIs
    <3> QED  BY <3>2 DEF S
  <2> QED  BY <2>1, <2>3, EmptySeq
<1> QED  BY <1>1, <1>2, <1>3, <1>4 DEF ScrollInv, Faithful

(* The count of a search, or of the search again after a change of this caja. *)
LEMMA ScrollCounts ==
    ASSUME ScrollInv, NEW text \in Scroll!Texts, Scroll!Count(text),
           a2' \subseteq Rows, a5' = a4'.text => a5' = text, UNCHANGED <<a1, a3>>
    PROVE  ScrollInv'
<1>1. a4' = [a4 EXCEPT !.step = "count", !.active = TRUE, !.page = 0,
                       !.sought = text, !.text = Scroll!Remembered(text),
                       !.total = Cardinality(Scroll!Found(a2', text))]
  BY ScrollCount DEF Scroll!Count
<1>2. Scroll!Remembered(text) \in Scroll!Texts
  BY DEF ScrollInv, ListType, Scroll!Remembered
<1>3. Scroll!Found(a2', text) \in SUBSET Rows
  BY DEF Scroll!Found
<1>4. Cardinality(Scroll!Found(a2', text)) \in Nat
  BY <1>3, OrderIs
<1>5. a4' \in ListType
  BY <1>1, <1>2, <1>4 DEF ScrollInv, ListType
<1>6. /\ a4'.step = "count" /\ a4'.page = 0 /\ a4'.sought = text
      /\ a4'.total = Cardinality(Scroll!Found(a2', text))
  BY <1>1 DEF ScrollInv, ListType
<1>7. Scroll!Found(a2, text)' = Scroll!Found(a2', text)
  BY DEF Scroll!Found
<1>8. a5' = a4'.text => Faithful(a5)'
  <2> SUFFICES ASSUME a5' = text PROVE Faithful(a5)'
    OBVIOUS
  <2>1. Scroll!Found(a2, a5)' = Scroll!Found(a2', text)
    BY DEF Scroll!Found
  <2> QED  BY <1>4, <1>6, <2>1 DEF Faithful
<1> QED  BY <1>5, <1>6, <1>8 DEF ScrollInv

(* search...: the text asked for is the one sought, and kept unless the list
   forgets it. *)
LEMMA ScrollSearch ==
    ASSUME ScrollInv, NEW text \in Scroll!Texts, Scroll!Search(text)
    PROVE  ScrollInv'
<1>1. Scroll!Count(text) /\ a5' = text /\ UNCHANGED <<a1, a2, a3>>
  BY DEF Scroll!Search
<1> QED  BY <1>1, ScrollCounts DEF ScrollInv

LEMMA ScrollFirstPage == ASSUME ScrollInv, Scroll!FirstPage PROVE ScrollInv'
<1>1. /\ a4.step = "count"
      /\ a4' = [a4 EXCEPT !.step = "rest", !.rows = Scroll!Page(a4.sought, 0), !.page = 1]
      /\ UNCHANGED <<a1, a2, a3, a5, a6>>
  BY DEF Scroll!FirstPage
<1>2. a4 \in ListType /\ a2 \subseteq Rows
  BY DEF ScrollInv
<1>3. /\ Scroll!Found(a2, a4.sought) \in SUBSET Rows
      /\ Scroll!Page(a4.sought, 0) = First((0 + 1) * PageSize, Scroll!Found(a2, a4.sought))
      /\ (0 + 1) * PageSize \in Nat
  BY <1>2, FoundRows, PageIs
<1>4. Scroll!Page(a4.sought, 0) \in Seq(Rows)
  BY <1>3, FirstIs
<1>5. a4' \in ListType
  BY <1>1, <1>2, <1>4 DEF ListType
<1>6. /\ a4'.step = "rest" /\ a4'.page = 1 /\ a4'.rows = Scroll!Page(a4.sought, 0)
      /\ a4'.total = a4.total /\ a4'.text = a4.text
  BY <1>1, <1>2 DEF ListType
<1>7. Scroll!Found(a2, a5)' = Scroll!Found(a2, a5)
  BY <1>1 DEF Scroll!Found
<1>8. a6 # "moved" /\ a4.text = a5 => Faithful(a5)'
  <2> SUFFICES ASSUME a6 # "moved", a4.text = a5 PROVE Faithful(a5)'
    OBVIOUS
  <2>1. Faithful(a5)
    BY DEF ScrollInv
  <2>2. a4.sought = a5 /\ (a6 = "same" => Cardinality(Scroll!Found(a2, a5)) <= a4.total)
    BY <1>1, <2>1 DEF Faithful
  <2>3. a4'.rows = First(a4'.page * PageSize, Scroll!Found(a2, a5))
    BY <1>3, <1>6, <2>2, ScrollAssumption
  <2> QED  BY <1>1, <1>6, <1>7, <2>2, <2>3 DEF Faithful
<1> QED  BY <1>1, <1>2, <1>5, <1>6, <1>8 DEF ScrollInv

(* fetchMore...: the next page follows the rows shown; an empty one tells that
   all are. *)
LEMMA ScrollFetchMore == ASSUME ScrollInv, Scroll!FetchMore PROVE ScrollInv'
<1> DEFINE page == Scroll!Page(a4.text, a4.page)
           S == Scroll!Found(a2, a4.text)
           n == a4.page * PageSize
<1>1. /\ a4.step = "rest" /\ Len(a4.rows) < a4.total /\ a4' = Scroll!More(page)
      /\ UNCHANGED <<a1, a2, a3, a5, a6>>
  BY DEF Scroll!FetchMore, Scroll!CanFetchMore
<1>2. a4 \in ListType /\ a2 \subseteq Rows /\ a4.rows \in Seq(Rows)
      /\ a4.page \in Nat /\ a4.total \in Nat /\ Len(a4.rows) \in Nat
  BY DEF ScrollInv, ListType
<1>3. a4.page > 0
  BY <1>1, <1>2 DEF ScrollInv
<1>4. /\ n \in Nat /\ (a4.page + 1) * PageSize \in Nat
      /\ n < Cardinality(S) =>
            page # <<>> /\ First(n, S) \o page = First((a4.page + 1) * PageSize, S)
      /\ n >= Cardinality(S) => page = <<>>
      /\ S \in SUBSET Rows
  BY <1>2, FoundRows, PageIs
<1>5. Scroll!Found(a2, a5)' = Scroll!Found(a2, a5)
  BY <1>1 DEF Scroll!Found
<1>6. page \in Seq(Rows)
  BY <1>2, <1>4, OrderIs, SubSeqProperties DEF Scroll!Page, Scroll!Listed
<1> HIDE DEF page, S, n
<1>7. Cardinality(S) \in Nat
  BY <1>4, OrderIs
<1>8. CASE page = <<>>
  <2>1. /\ a4'.step = "rest" /\ a4'.page = a4.page /\ a4'.rows = a4.rows
        /\ a4'.total = Len(a4.rows) /\ a4'.text = a4.text /\ a4' \in ListType
    BY <1>1, <1>2, <1>8 DEF Scroll!More, ListType
  <2>2. a6 # "moved" /\ a4.text = a5 => Faithful(a5)'
    <3> SUFFICES ASSUME a6 # "moved", a4.text = a5 PROVE Faithful(a5)'
      OBVIOUS
    <3>1. a4.rows = First(n, S)
      BY <1>1 DEF ScrollInv, Faithful, n, S
    <3>2. n >= Cardinality(S)
      BY <1>4, <1>7, <1>8
    <3>3. Len(a4.rows) = Cardinality(S)
      BY <1>4, <1>7, <3>1, <3>2, FirstIs
    <3> QED  BY <1>5, <1>7, <2>1, <3>1, <3>3 DEF Faithful, n, S
  <2> QED  BY <1>1, <1>2, <1>3, <2>1, <2>2 DEF ScrollInv
<1>9. CASE page # <<>>
  <2>1. /\ a4'.step = "rest" /\ a4'.page = a4.page + 1 /\ a4'.rows = a4.rows \o page
        /\ a4'.total = a4.total /\ a4'.text = a4.text /\ a4' \in ListType
    <3>1. a4' = [a4 EXCEPT !.rows = @ \o page, !.page = @ + 1]
      BY <1>1, <1>9 DEF Scroll!More
    <3>2. a4.rows \o page \in Seq(Rows)
      BY <1>2, <1>6, ConcatProperties
    <3>3. a4.page + 1 \in Nat
      BY <1>2
    <3> DEFINE all == a4.rows \o page
               next == a4.page + 1
    <3>4. a4' = [a4 EXCEPT !.rows = all, !.page = next] /\ all \in Seq(Rows) /\ next \in Nat
      BY <3>1, <3>2, <3>3
    <3> HIDE DEF all, next
    <3>5. /\ a4'.step = "rest" /\ a4'.page = next /\ a4'.rows = all
          /\ a4'.total = a4.total /\ a4'.text = a4.text /\ a4' \in ListType
      BY <1>1, <1>2, <3>4 DEF ListType
    <3> QED  BY <3>5 DEF all, next
  <2>2. a6 # "moved" /\ a4.text = a5 => Faithful(a5)'
    <3> SUFFICES ASSUME a6 # "moved", a4.text = a5 PROVE Faithful(a5)'
      OBVIOUS
    <3>1. /\ a4.rows = First(n, S)
          /\ a6 = "same" => Cardinality(S) <= a4.total
      BY <1>1, <1>3 DEF ScrollInv, Faithful, n, S
    <3>2. n < Cardinality(S)
      BY <1>4, <1>7, <1>9
    <3>3. a4'.rows = First(a4'.page * PageSize, S)
      BY <1>4, <2>1, <3>1, <3>2
    <3> QED  BY <1>1, <1>5, <2>1, <3>1, <3>3 DEF Faithful, S
  <2> QED  BY <1>1, <1>2, <2>1, <2>2 DEF ScrollInv
<1> QED  BY <1>8, <1>9

(* A row came or went, and the list was not reloaded: unless that is noted in
   the history, it happened behind all the rows shown, none missing. *)
LEMMA ScrollNoticed ==
    ASSUME ScrollInv, NEW r \in Rows, Scroll!Change(r), Scroll!Noticed(r),
           UNCHANGED <<a1, a3, a4, a5>>
    PROVE  ScrollInv'
<1> DEFINE S == Scroll!Found(a2, a5)
           T == Scroll!Found(a2', a5)
           n == a4.page * PageSize
<1>1. a2' = IF r \in a2 THEN a2 \ {r} ELSE a2 \cup {r}
  BY DEF Scroll!Change
<1>2. a2 \subseteq Rows /\ a2' \subseteq Rows /\ a4 \in ListType
  BY <1>1 DEF ScrollInv
<1>3. /\ S \in SUBSET Rows /\ T \in SUBSET Rows /\ S \ {r} = T \ {r}
      /\ r \in a2 => T \subseteq S
  BY <1>1, <1>2 DEF Scroll!Found
<1>4. Scroll!Found(a2, a5)' = T
  BY DEF Scroll!Found
<1>5. n \in Nat /\ a4.rows \in Seq(Rows)
  BY <1>2, ScrollAssumption DEF ListType
<1> HIDE DEF S, T
<1>6. ASSUME a6' # "moved", a4.text = a5 PROVE Faithful(a5)'
  <2>1. /\ a6 # "moved" /\ ~Scroll!Disturbs(r)
        /\ a6' = "same" => a6 = "same" /\ r \in a2
    BY <1>6 DEF Scroll!Noticed
  <2>2. /\ a4.step = "rest" /\ ~(Len(a4.rows) < n)
        /\ \A s \in Scroll!ToSet(a4.rows) : ~(r <= s)
    BY <1>2, <2>1 DEF Scroll!Disturbs, ListType
  <2>3. /\ a4.rows = First(n, S)
        /\ a6 = "same" /\ a4.page > 0 => Cardinality(S) <= a4.total
    BY <1>6, <2>1, <2>2 DEF ScrollInv, Faithful, S
  <2> HIDE DEF n
  <2>4. \A i \in 1 .. n : First(n, S)[i] < r
    <3> SUFFICES ASSUME NEW i \in 1 .. n PROVE a4.rows[i] < r
      BY <2>3
    <3>1. i \in 1 .. Len(a4.rows) /\ i \in DOMAIN a4.rows
      BY <1>5, <2>2
    <3>2. a4.rows[i] \in Scroll!ToSet(a4.rows) /\ a4.rows[i] \in Rows
      BY <1>5, <3>1, ElementOfSeq DEF Scroll!ToSet
    <3>3. a4.rows[i] \in Nat /\ r \in Nat
      BY <3>2, ScrollAssumption
    <3> QED  BY <2>2, <3>2, <3>3
  <2>5. First(n, T) = First(n, S)
    BY <1>3, <1>5, <2>2, <2>3, <2>4, FirstStay
  <2>6. a6' = "same" /\ a4.page > 0 => Cardinality(T) <= a4.total
    <3> SUFFICES ASSUME a6' = "same", a4.page > 0 PROVE Cardinality(T) <= a4.total
      OBVIOUS
    <3>1. T \subseteq S /\ Cardinality(S) <= a4.total
      BY <1>3, <2>1, <2>3
    <3>2. IsFiniteSet(S) /\ Cardinality(S) \in Nat /\ Cardinality(T) \in Nat
      BY <1>3, ScrollAssumption, FS_Subset, OrderIs
    <3>3. Cardinality(T) <= Cardinality(S)
      BY <3>1, <3>2, FS_Subset
    <3> QED  BY <1>2, <3>1, <3>2, <3>3 DEF ListType
  <2> QED  BY <1>4, <2>2, <2>3, <2>5, <2>6 DEF Faithful, n
<1> QED  BY <1>2, <1>6 DEF ScrollInv

LEMMA ScrollStep == ScrollInv /\ [Scroll!Next]_(Scroll!vars) => ScrollInv'
<1> SUFFICES ASSUME ScrollInv, [Scroll!Next]_(Scroll!vars) PROVE ScrollInv'
  OBVIOUS
<1>1. ASSUME UNCHANGED Scroll!vars PROVE ScrollInv'
  <2>1. UNCHANGED <<a1, a2, a3, a4, a5, a6>>
    BY <1>1 DEF Scroll!vars
  <2> QED  BY <2>1 DEF ScrollInv, Faithful, Scroll!Found
<1>2. ASSUME Scroll!SearchAll PROVE ScrollInv'
  <2>1. a4' = [a4 EXCEPT !.active = FALSE] /\ UNCHANGED <<a1, a2, a3, a5, a6>>
    BY <1>2 DEF Scroll!SearchAll
  <2>2. /\ a4' \in ListType /\ a4'.step = a4.step /\ a4'.rows = a4.rows
        /\ a4'.total = a4.total /\ a4'.page = a4.page /\ a4'.text = a4.text
        /\ a4'.sought = a4.sought
    BY <2>1 DEF ScrollInv, ListType
  <2>3. Scroll!Found(a2, a5)' = Scroll!Found(a2, a5)
    BY <2>1 DEF Scroll!Found
  <2> QED  BY <2>1, <2>2, <2>3 DEF ScrollInv, Faithful
<1>3. ASSUME NEW r \in Rows, Scroll!OwnChange(r) PROVE ScrollInv'
  <2>1. /\ Scroll!Change(r) /\ UNCHANGED <<a1, a3, a5>>
    BY <1>3 DEF Scroll!OwnChange
  <2>2. CASE a4.active
    <3>1. Scroll!Count(a4.text)
      BY <1>3, <2>2 DEF Scroll!OwnChange
    <3>2. a2' \subseteq Rows
      BY <2>1 DEF Scroll!Change, ScrollInv
    <3>3. a4.text \in Scroll!Texts
      BY DEF ScrollInv, ListType
    <3>4. a4'.text = a4.text
      BY <3>1 DEF Scroll!Count, Scroll!Remembered, ScrollInv, ListType
    <3> QED  BY <2>1, <3>1, <3>2, <3>3, <3>4, ScrollCounts
  <2>3. CASE ~a4.active
    <3>1. Scroll!Noticed(r) /\ UNCHANGED a4
      BY <1>3, <2>3 DEF Scroll!OwnChange
    <3> QED  BY <2>1, <3>1, ScrollNoticed
  <2> QED  BY <2>2, <2>3
<1>4. ASSUME NEW r \in Rows, Scroll!OthersChange(r) PROVE ScrollInv'
  BY <1>4, ScrollNoticed DEF Scroll!OthersChange
<1>5. ASSUME Scroll!ChangeRubro PROVE ScrollInv'
  <2>1. a6' = "moved" /\ UNCHANGED <<a2, a4>>
    BY <1>5 DEF Scroll!ChangeRubro
  <2> QED  BY <2>1 DEF ScrollInv
<1> QED  BY <1>1, <1>2, <1>3, <1>4, <1>5, ScrollSearch, ScrollFirstPage,
            ScrollFetchMore DEF Scroll!Next

(* PagedListModel: a list of which no shown row was removed, inserted or moved
   shows the beginning of what its search finds, and when canFetchMore is false
   all of it that was there at the count and still is. *)
THEOREM ScrollHolds == PartsSpec => []ScrollIsTheSearch
<1>1. ScrollInv => Scroll!ScrollsInOrder
  <2> SUFFICES ASSUME ScrollInv, Scroll!Steady, a4.text = a5 PROVE Scroll!Shows(a5)
    BY DEF Scroll!ScrollsInOrder
  <2> DEFINE S == Scroll!Found(a2, a5)
             n == a4.page * PageSize
  <2>1. a4.rows = First(n, S)
    BY DEF ScrollInv, Faithful, Scroll!Steady
  <2>2. S \in SUBSET Rows /\ n \in Nat
    BY ScrollAssumption, FoundRows DEF ScrollInv, ListType
  <2> HIDE DEF S, n
  <2>3. /\ Scroll!InOrder(S) \in Seq(Rows) /\ Cardinality(S) \in Nat
        /\ Len(Scroll!InOrder(S)) = Cardinality(S)
    BY <2>2, OrderIs
  <2> DEFINE m == IF n < Cardinality(S) THEN n ELSE Cardinality(S)
  <2>4. a4.rows \in Seq(Rows) /\ Len(a4.rows) = m /\ a4.rows = SubSeq(Scroll!InOrder(S), 1, m)
    BY <2>1, <2>2, FirstIs DEF First
  <2>5. m <= Len(Scroll!InOrder(S))
    BY <2>2, <2>3
  <2>6. SubSeq(a4.rows, 1, Len(a4.rows)) = a4.rows
    BY <2>4, SubSeqFull
  <2> HIDE DEF m
  <2> QED  BY <2>4, <2>5, <2>6 DEF Scroll!Shows, Scroll!IsPrefix, Scroll!Listed, S
<1>2. ScrollInv => Scroll!EndIsTheEnd
  <2> SUFFICES ASSUME ScrollInv, a6 = "same", a4.step = "rest", a4.text = a5,
                      a4.page > 0, ~Scroll!CanFetchMore
               PROVE  a4.rows = Scroll!Listed(a5)
    BY DEF Scroll!EndIsTheEnd
  <2> DEFINE S == Scroll!Found(a2, a5)
             n == a4.page * PageSize
  <2>1. a4.rows = First(n, S) /\ Cardinality(S) <= a4.total
    BY DEF ScrollInv, Faithful
  <2>2. S \in SUBSET Rows /\ n \in Nat
    BY ScrollAssumption, FoundRows DEF ScrollInv, ListType
  <2>3. a4.total \in Nat /\ ~(Len(a4.rows) < a4.total)
    BY DEF ScrollInv, ListType, Scroll!CanFetchMore
  <2> HIDE DEF S, n
  <2>4. Cardinality(S) \in Nat
    BY <2>2, OrderIs
  <2>5. n >= Cardinality(S)
    <3>1. Len(First(n, S)) = IF n < Cardinality(S) THEN n ELSE Cardinality(S)
      BY <2>2, FirstIs
    <3> QED  BY <2>1, <2>2, <2>3, <2>4, <3>1
  <2> QED  BY <2>1, <2>2, <2>5, FirstIs DEF Scroll!Listed, S
<1> QED  BY ScrollInit, ScrollStep, <1>1, <1>2, PartIsItself,
            PTL DEF Scroll!Spec, ScrollIsTheSearch

-----------------------------------------------------------------------------
(* The till's turns and the notes.  Part turns is the instance of Sales that
   Note is of its proofs, with the same substitution: what differs is the names
   of their definitions. *)
Note == INSTANCE SalesProofs WITH
    Terminals <- Caja, Names <- Buyers, Kinds <- SaleTypes, Amounts <- Abonos, MaxDocs <- MaxSales,
    Ops <- {"sale", "cancel", "open", "close", "abono", "creditNote"},
    docs <- a1, owed <- a2, till <- a3, moved <- a4, arqueos <- a5, job <- a6

LEMMA SameNoted == ASSUME NEW id PROVE Turns!Noted(id) = Note!Noted(id)
  BY Zenon DEF Turns!Noted, Note!Noted, Turns!CreditNotes, Note!CreditNotes,
              Turns!SumOf, Note!SumOf, Turns!FoldFunctionOnSet,
              Note!FoldFunctionOnSet, Turns!MapThenFoldSet, Note!MapThenFoldSet,
              Turns!Plus, Note!Plus

LEMMA SameInit == Turns!Init => Note!Init
  BY DEF Turns!Init, Note!Init, Turns!Idle, Note!Idle, Turns!NoSnap, Note!NoSnap

LEMMA SameVars == UNCHANGED Turns!vars => UNCHANGED Note!vars
  BY DEF Turns!vars, Note!vars, Turns!books, Note!books, Turns!cash, Note!cash

LEMMA SameNext == Turns!Next => Note!Next
<1> USE DEF Turns!books, Note!books, Turns!cash, Note!cash, Turns!Idle, Note!Idle,
            Turns!NoSnap, Note!NoSnap, Turns!Read, Note!Read, Turns!Start, Note!Start,
            Turns!Running, Note!Running, Turns!Finish, Note!Finish
<1>1. ASSUME NEW t, NEW c, NEW total, NEW credit
      PROVE  Turns!SellCheck(t, c, total, credit) => Note!SellCheck(t, c, total, credit)
  BY Zenon DEF Turns!SellCheck, Note!SellCheck, Turns!WithinLimit, Note!WithinLimit
<1>2. ASSUME NEW t, NEW id
      PROVE  Turns!CancelCheck(t, id) => Note!CancelCheck(t, id)
  BY Zenon DEF Turns!CancelCheck, Note!CancelCheck
<1>3. ASSUME NEW t, NEW id, NEW amount
      PROVE  Turns!AbonoCheck(t, id, amount) => Note!AbonoCheck(t, id, amount)
  BY Zenon DEF Turns!AbonoCheck, Note!AbonoCheck, Turns!PaymentFits, Note!PaymentFits
<1>4. ASSUME NEW t, NEW id, NEW amount
      PROVE  Turns!CreditNoteCheck(t, id, amount) => Note!CreditNoteCheck(t, id, amount)
  BY SameNoted, Zenon DEF Turns!CreditNoteCheck, Note!CreditNoteCheck, Turns!NoteFits, Note!NoteFits,
         Turns!TakesNotes, Note!TakesNotes
<1>5. ASSUME NEW t, NEW id, NEW to
      PROVE  Turns!AdvanceCheck(t, id, to) => Note!AdvanceCheck(t, id, to)
  BY Zenon DEF Turns!AdvanceCheck, Note!AdvanceCheck, Turns!EstadosVenta, Note!EstadosVenta,
         Turns!MayAdvance, Note!MayAdvance, Turns!TransitionAllowed,
         Note!TransitionAllowed
<1>6. ASSUME NEW t, NEW id, NEW type
      PROVE  Turns!ConvertCheck(t, id, type) => Note!ConvertCheck(t, id, type)
  BY Zenon DEF Turns!ConvertCheck, Note!ConvertCheck, Turns!TargetState, Note!TargetState,
         Turns!TransitionAllowed, Note!TransitionAllowed
<1>7. ASSUME NEW t
      PROVE  Turns!OpenCheck(t) => Note!OpenCheck(t)
  BY Zenon DEF Turns!OpenCheck, Note!OpenCheck, Turns!MayOpen, Note!MayOpen
<1>8. ASSUME NEW t
      PROVE  Turns!CloseCheck(t) => Note!CloseCheck(t)
  BY Zenon DEF Turns!CloseCheck, Note!CloseCheck, Turns!Expected, Note!Expected
<1>9. ASSUME NEW t
      PROVE  Turns!SellCommit(t) => Note!SellCommit(t)
  BY Zenon DEF Turns!SellCommit, Note!SellCommit, Turns!AddCredit, Note!AddCredit,
         Turns!RecordSale, Note!RecordSale, Turns!SoldBalance, Note!SoldBalance,
         Turns!Ticket, Note!Ticket
<1>10. ASSUME NEW t
      PROVE  Turns!CancelCommit(t) => Note!CancelCommit(t)
  BY Zenon DEF Turns!CancelCommit, Note!CancelCommit, Turns!InTurn, Note!InTurn, Turns!Max0,
         Note!Max0, Turns!PayCredit, Note!PayCredit, Turns!Refund, Note!Refund,
         Turns!ReverseSale, Note!ReverseSale, Turns!StillLive, Note!StillLive
<1>11. ASSUME NEW t
      PROVE  Turns!AbonoCommit(t) => Note!AbonoCommit(t)
  BY Zenon DEF Turns!AbonoCommit, Note!AbonoCommit, Turns!Left, Note!Left, Turns!Max0,
         Note!Max0, Turns!PaidAfter, Note!PaidAfter, Turns!PayCredit, Note!PayCredit,
         Turns!Settled, Note!Settled
<1>12. ASSUME NEW t
      PROVE  Turns!AdvanceCommit(t) => Note!AdvanceCommit(t)
  BY Zenon DEF Turns!AdvanceCommit, Note!AdvanceCommit, Turns!Settles, Note!Settles
<1>13. ASSUME NEW t
      PROVE  Turns!ConvertCommit(t) => Note!ConvertCommit(t)
  BY Zenon DEF Turns!ConvertCommit, Note!ConvertCommit, Turns!NewDoc, Note!NewDoc
<1>14. ASSUME NEW t
      PROVE  Turns!CreditNoteCommit(t) => Note!CreditNoteCommit(t)
  BY Zenon DEF Turns!CreditNoteCommit, Note!CreditNoteCommit, Turns!Create, Note!Create,
         Turns!NewDoc, Note!NewDoc
<1>15. ASSUME NEW t
      PROVE  Turns!OpenCommit(t) => Note!OpenCommit(t)
  BY Zenon DEF Turns!OpenCommit, Note!OpenCommit, Turns!Opened, Note!Opened
<1>16. ASSUME NEW t
      PROVE  Turns!CloseCommit(t) => Note!CloseCommit(t)
  BY Zenon DEF Turns!CloseCommit, Note!CloseCommit, Turns!Closed, Note!Closed
<1>17. ASSUME NEW t, NEW type, NEW c, NEW total
      PROVE  Turns!CreateDoc(t, type, c, total) => Note!CreateDoc(t, type, c, total)
  BY Zenon DEF Turns!CreateDoc, Note!CreateDoc, Turns!Create, Note!Create, Turns!NewDoc,
         Note!NewDoc
<1>18. ASSUME NEW t, NEW id, NEW amount
      PROVE  Turns!DebitNote(t, id, amount) => Note!DebitNote(t, id, amount)
  BY Zenon DEF Turns!DebitNote, Note!DebitNote, Turns!Create, Note!Create, Turns!NewDoc,
         Note!NewDoc
<1>19. ASSUME NEW t
      PROVE  Turns!Abandon(t) => Note!Abandon(t)
  BY Zenon DEF Turns!Abandon, Note!Abandon
<1> QED  BY <1>1, <1>2, <1>3, <1>4, <1>5, <1>6, <1>7, <1>8, <1>9, <1>10, <1>11, <1>12,
            <1>13, <1>14, <1>15, <1>16, <1>17, <1>18, <1>19,
            Zenon DEF Turns!Next, Note!Next, Turns!Check, Note!Check, Turns!Commit, Note!Commit,
            Turns!OneStep, Note!OneStep, Turns!Statuses, Note!Statuses,
            Turns!EstadosVenta, Note!EstadosVenta, Turns!DocTypes, Note!DocTypes

(* SaleRepository, CajaRepository: in a shop of one till the notes of a document
   do not exceed it, and every turn is reported once, with what its movements
   add up to. *)
THEOREM TurnsAndNotesHold ==
    ASSUME \A t, u \in Caja : t = u
    PROVE  PartsSpec => []TurnsAndNotesClose
<1>1. [Turns!Next]_(Turns!vars) => [Note!Next]_(Note!vars)
  BY SameNext, SameVars
<1>2. Note!Spec => []Note!TurnsAndNotesClose
  BY PartsAssumption, Note!TurnsAndNotesHold, Zenon
  DEF Note!OneTerminal, Note!SaleOps, Note!NoteOps, Note!TillOps
<1>3. Note!TurnsAndNotesClose => Turns!TurnsAndNotesClose
  <2>1. Note!NotesWithinInvoice => Turns!NotesWithinInvoice
    BY SameNoted DEF Turns!NotesWithinInvoice, Note!NotesWithinInvoice
  <2>2. Note!ArqueoSquares => Turns!ArqueoSquares
    BY Zenon DEF Turns!ArqueoSquares, Note!ArqueoSquares
  <2>3. Note!EveryTurnReported => Turns!EveryTurnReported
    BY Zenon DEF Turns!EveryTurnReported, Note!EveryTurnReported, Turns!Cardinality,
                 Note!Cardinality
  <2> QED  BY <2>1, <2>2, <2>3 DEF Turns!TurnsAndNotesClose, Note!TurnsAndNotesClose
<1> QED  BY PartIsItself, SameInit, <1>1, <1>2, <1>3,
            PTL DEF Turns!Spec, Note!Spec, TurnsAndNotesClose
=============================================================================
