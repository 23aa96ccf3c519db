------------------------------- MODULE Sales -------------------------------
(***************************************************************************)
(* The documents of the table sales, what clients owe for them, and the    *)
(* turn of the till that collects them, worked on by several terminals     *)
(* that share one SQLite file.                                             *)
(*                                                                         *)
(* As in module Stock a handler is two steps: XCheck reads and decides     *)
(* OUTSIDE the transaction (what it read stays in job[t]), XCommit is the  *)
(* transaction.  Handlers that decide on nothing that can change are one   *)
(* step.  What a sale does to the stock is in module Stock.                *)
(*                                                                         *)
(* Money is a number of cents.                                             *)
(***************************************************************************)
EXTENDS Integers, Sequences, FiniteSets, Sums

CONSTANTS
    Terminals,      \* the concurrent cajas, each with its own connection
    Names,          \* names documents are made out to
    Clients,        \* those with a file in clients ("Mostrador" has none)
    Limit,          \* clients.credit_limit
    Totals,         \* totals of sales and documents
    Amounts,        \* amounts of payments and notes
    OpeningAmount,  \* amount a turn of the till is opened with
    Kinds,          \* types of document created by hand
    Ops,            \* handlers the terminals may invoke
    MaxDocs,        \* bound: rows of sales
    MaxTurns        \* bound: turns of the till

SaleOps == {"sale", "cancel"}
NoteOps == {"document", "creditNote", "debitNote"}
TillOps == {"open", "close"}

ASSUME SalesAssumption ==
    /\ Clients \subseteq Names /\ Names # {}
    /\ Limit \in [Clients -> Nat]
    /\ Totals \subseteq Nat \ {0} /\ Amounts \subseteq Nat \ {0}
    /\ OpeningAmount \in Nat
    /\ Kinds \subseteq {"Cotizacion", "Pedido", "Remision", "Factura",
                       "Nota credito", "Nota cargo"}
    /\ Ops \subseteq SaleOps \cup NoteOps \cup TillOps
                       \cup {"abono", "advance", "convert"}
    /\ MaxDocs \in Nat /\ MaxTurns \in Nat

VARIABLES
    docs,       \* rows of sales, in the order of their folios
    owed,       \* clients.balance
    till,       \* the row of caja, with the sum of its list of sales
    moved,      \* moved[n]: sum of turn n's caja_movimientos but "cierre"
    arqueos,    \* what each close reported: turn and expected amount
    job         \* what each terminal's running handler has read so far

books == <<docs, owed>>
cash == <<till, moved, arqueos>>
vars == <<books, cash, job>>

(* SaleRepository::EstadosVenta and DocTypes. *)
EstadosVenta ==
    {"Cotizacion", "Pedido", "Facturada", "Pagada", "Entregada", "Cerrada"}
DocTypes ==
    {"Cotizacion", "Pedido", "Remision", "Factura", "Nota credito", "Nota cargo"}
Statuses == EstadosVenta \cup DocTypes \cup {"Pendiente", "Cancelada"}

Snapshot == [status : Statuses, paid : Int, balance : Int]

DocType ==
    [client : Names, type : DocTypes \cup {"Ticket"}, status : Statuses,
     total : Nat, paid : Int, balance : Int,
     collected : Nat,       \* sum of its rows of payments_cxc
     parent : Nat,          \* parent_id, 0 when none
     turn : Nat]            \* turn its "venta" movement went to, 0 when none

TillType == [open : BOOLEAN, turn : Nat, opening : Nat, takings : Int,
             sales : SUBSET Nat]

JobType ==
    [op : {"idle"} \cup Ops, id : Nat, client : Names, to : Statuses,
     amount : Int, credit : Nat, snap : Snapshot]

NoSnap == [status |-> "Pagada", paid |-> 0, balance |-> 0]
Idle == [op |-> "idle", id |-> 0, client |-> CHOOSE c \in Names : TRUE,
         to |-> "Pagada", amount |-> 0, credit |-> 0, snap |-> NoSnap]

Max0(n) == IF n > 0 THEN n ELSE 0

Read(id) == [status |-> docs[id].status, paid |-> docs[id].paid,
             balance |-> docs[id].balance]

Start(t, j) ==
    /\ job[t] = Idle
    /\ job' = [job EXCEPT ![t] = j]
    /\ UNCHANGED <<books, cash>>

Running(t, op) == job[t].op = op
Finish(t) == job' = [job EXCEPT ![t] = Idle]

-----------------------------------------------------------------------------
(* Clients *)

(* UPDATE clients ... WHERE name: a name without a file matches no row, and
   the handler that called it fails. *)
AddCredit(c, amount) == owed' = [owed EXCEPT ![c] = @ + amount]

PayCredit(c, amount) == [owed EXCEPT ![c] = Max0(@ - amount)]

-----------------------------------------------------------------------------
(* The till inside a sale or its cancellation *)

(* recordSale: a closed till lets the sale pass.  The list grows by the sale
   and the turn by one movement. *)
RecordSale(id, total) ==
    IF till.open
    THEN /\ till' = [till EXCEPT !.takings = @ + total, !.sales = @ \cup {id}]
         /\ moved' = [moved EXCEPT ![till.turn] = @ + total]
    ELSE UNCHANGED <<till, moved>>

(* reverseSale: only when the open turn lists the sale, with a movement of
   the opposite sign. *)
Refund_Positive(total) == total
Refund(total) == - total

InTurn_AnyTurn(id) == till.open
InTurn(id) == till.open /\ id \in till.sales

ReverseSale(id) ==
    IF InTurn(id)
    THEN /\ till' = [till EXCEPT !.takings = @ - docs[id].total,
                                 !.sales = @ \ {id}]
         /\ moved' = [moved EXCEPT ![till.turn] = @ + Refund(docs[id].total)]
    ELSE UNCHANGED <<till, moved>>

-----------------------------------------------------------------------------
(* Sales and their cancellation *)

(* The limit check of SalesService::create, before the transaction. *)
WithinLimit_NewCreditOnly(c, credit) == credit <= Limit[c]
WithinLimit(c, credit) == Limit[c] > 0 /\ owed[c] + credit <= Limit[c]

SellCheck(t, c, total, credit) ==
    /\ "sale" \in Ops
    /\ Len(docs) < MaxDocs
    /\ credit <= total
    /\ credit > 0 /\ c \in Clients => WithinLimit(c, credit)
    /\ Start(t, [Idle EXCEPT !.op = "sale", !.client = c, !.amount = total,
                             !.credit = credit])

SoldBalance_Total(total, credit) == IF credit > 0 THEN total ELSE 0
SoldBalance(total, credit) == credit

Ticket(j) ==
    [client |-> j.client, type |-> "Ticket",
     status |-> IF j.credit > 0 THEN "Pendiente" ELSE "Pagada",
     total |-> j.amount, paid |-> j.amount - j.credit,
     balance |-> SoldBalance(j.amount, j.credit), collected |-> 0, parent |-> 0,
     turn |-> IF till.open THEN till.turn ELSE 0]

(* SaleRepository::create inside the transaction: document, credit, till. *)
SellCommit(t) ==
    LET j == job[t] IN
    /\ Running(t, "sale")
    /\ Len(docs) < MaxDocs
    /\ IF j.credit > 0 THEN j.client \in Clients /\ AddCredit(j.client, j.credit)
                       ELSE UNCHANGED owed
    /\ docs' = Append(docs, Ticket(j))
    /\ RecordSale(Len(docs) + 1, j.amount)
    /\ Finish(t)
    /\ UNCHANGED arqueos

CancelCheck(t, id) ==
    /\ "cancel" \in Ops
    /\ docs[id].status # "Cancelada"
    /\ Start(t, [Idle EXCEPT !.op = "cancel", !.id = id, !.snap = Read(id)])

(* markCancelled reads the status again, now inside the transaction. *)
StillLive_Unchecked(id) == TRUE
StillLive(id) == docs[id].status # "Cancelada"

(* What was charged to the client is taken back from the snapshot. *)
CancelCommit(t) ==
    LET j == job[t]
        c == docs[j.id].client
    IN
    /\ Running(t, "cancel")
    /\ StillLive(j.id)
    /\ IF j.snap.status = "Pendiente" /\ j.snap.balance > 0
       THEN c \in Clients /\ owed' = PayCredit(c, j.snap.balance)
       ELSE UNCHANGED owed
    /\ docs' = [docs EXCEPT ![j.id] =
                  [@ EXCEPT !.status = "Cancelada", !.balance = 0]]
    /\ ReverseSale(j.id)
    /\ Finish(t)
    /\ UNCHANGED arqueos

-----------------------------------------------------------------------------
(* Payments of what is owed (ReceivablesRepository::addPayment) *)

PaymentFits(id, amount) == docs[id].balance > 0 /\ amount <= docs[id].balance

AbonoCheck(t, id, amount) ==
    /\ "abono" \in Ops
    /\ PaymentFits(id, amount)
    /\ Start(t, [Idle EXCEPT !.op = "abono", !.id = id, !.amount = amount,
                             !.snap = Read(id)])

(* What is left is forgiven up to a cent. *)
Left(j) == j.snap.balance - j.amount
Settled(j) == Left(j) <= 1

PaidAfter_Unread(j) == j.amount
PaidAfter(j) == j.snap.paid + j.amount

(* The row is rewritten from the snapshot; only the payment that settles the
   document discharges the client, and by its own amount. *)
AbonoCommit(t) ==
    LET j == job[t]
        c == docs[j.id].client
    IN
    /\ Running(t, "abono")
    /\ IF Settled(j) THEN c \in Clients /\ owed' = PayCredit(c, j.amount)
                     ELSE UNCHANGED owed
    /\ docs' = [docs EXCEPT ![j.id] =
                  [@ EXCEPT
                     !.paid = PaidAfter(j),
                     !.balance = IF Settled(j) THEN 0 ELSE Left(j),
                     !.status = IF Settled(j) THEN "Pagada" ELSE j.snap.status,
                     !.collected = docs[j.id].collected + j.amount]]
    /\ Finish(t)
    /\ UNCHANGED cash

-----------------------------------------------------------------------------
(* The documents' states *)

(* SaleRepository::transitionAllowed *)
TransitionAllowed(from, to) ==
    <<from, to>> \in
        {<<"Cotizacion", "Pedido">>, <<"Pedido", "Facturada">>,
         <<"Facturada", "Pagada">>, <<"Facturada", "Entregada">>,
         <<"Pagada", "Entregada">>, <<"Pagada", "Cerrada">>,
         <<"Entregada", "Cerrada">>, <<"Remision", "Entregada">>}

(* The guard of advanceStatus: a status outside EstadosVenta may become any. *)
MayAdvance_FromCancelled(from, to) ==
    /\ to \in EstadosVenta
    /\ from \in EstadosVenta /\ from # to => TransitionAllowed(from, to)

MayAdvance(from, to) ==
    /\ from # "Cancelada"
    /\ to \in EstadosVenta
    /\ from \in EstadosVenta /\ from # to => TransitionAllowed(from, to)

Settles(to) == to \in {"Pagada", "Entregada", "Cerrada"}

AdvanceCheck(t, id, to) ==
    /\ "advance" \in Ops
    /\ MayAdvance(docs[id].status, to)
    /\ Start(t, [Idle EXCEPT !.op = "advance", !.id = id, !.to = to])

AdvanceCommit(t) ==
    LET j == job[t] IN
    /\ Running(t, "advance")
    /\ docs' = [docs EXCEPT ![j.id] =
                  IF Settles(j.to)
                  THEN [@ EXCEPT !.status = j.to, !.balance = 0,
                                 !.paid = docs[j.id].total]
                  ELSE [@ EXCEPT !.status = j.to]]
    /\ Finish(t)
    /\ UNCHANGED <<owed, cash>>

-----------------------------------------------------------------------------
(* Documents other than sales *)

NewDoc(type, c, total, parent) ==
    [client |-> c, type |-> type, status |-> type, total |-> total, paid |-> 0,
     balance |-> total, collected |-> 0, parent |-> parent, turn |-> 0]

(* SaleRepository::createDocument *)
Create(d) == Len(docs) < MaxDocs /\ docs' = Append(docs, d)

CreateDoc(t, type, c, total) ==
    /\ "document" \in Ops
    /\ job[t] = Idle
    /\ Create(NewDoc(type, c, total, 0))
    /\ UNCHANGED <<owed, cash, job>>

(* The state of the origin must be able to become this one. *)
TargetState(type) ==
    CASE type = "Pedido"     -> "Pedido"
      [] type = "Factura"    -> "Facturada"
      [] type = "Remision"   -> "Entregada"
      [] type = "Cotizacion" -> "Cotizacion"

ConvertCheck(t, id, type) ==
    /\ "convert" \in Ops
    /\ type \in {"Pedido", "Factura", "Remision", "Cotizacion"}
    /\ TransitionAllowed(docs[id].status, TargetState(type))
    /\ Start(t, [Idle EXCEPT !.op = "convert", !.id = id, !.to = type])

(* The origin becomes Cerrada and keeps its balance. *)
ConvertCommit(t) ==
    LET j == job[t] IN
    /\ Running(t, "convert")
    /\ Len(docs) < MaxDocs
    /\ docs' = Append([docs EXCEPT ![j.id] = [@ EXCEPT !.status = "Cerrada"]],
                      NewDoc(j.to, docs[j.id].client, docs[j.id].total, j.id))
    /\ Finish(t)
    /\ UNCHANGED <<owed, cash>>

(* SaleRepository::creditNotesTotal *)
CreditNotes(id) ==
    {i \in DOMAIN docs : /\ docs[i].parent = id
                         /\ docs[i].type = "Nota credito"
                         /\ docs[i].status # "Cancelada"}
Noted(id) == SumOf([i \in DOMAIN docs |-> docs[i].total], CreditNotes(id))

TakesNotes(id) ==
    {docs[id].type, docs[id].status} \cap {"Cotizacion", "Pedido"} = {}

NoteFits_AloneOnly(id, amount) == amount <= docs[id].total
NoteFits(id, amount) == Noted(id) + amount <= docs[id].total

CreditNoteCheck(t, id, amount) ==
    /\ "creditNote" \in Ops
    /\ TakesNotes(id)
    /\ NoteFits(id, amount)
    /\ Start(t, [Idle EXCEPT !.op = "creditNote", !.id = id, !.amount = amount])

CreditNoteCommit(t) ==
    LET j == job[t] IN
    /\ Running(t, "creditNote")
    /\ Create(NewDoc("Nota credito", docs[j.id].client, j.amount, j.id))
    /\ Finish(t)
    /\ UNCHANGED <<owed, cash>>

(* Decides on the type of the document, which never changes. *)
DebitNote(t, id, amount) ==
    /\ "debitNote" \in Ops
    /\ job[t] = Idle
    /\ docs[id].type \notin {"Cotizacion", "Pedido"}
    /\ Create(NewDoc("Nota cargo", docs[id].client, amount, id))
    /\ UNCHANGED <<owed, cash, job>>

-----------------------------------------------------------------------------
(* The till's turns *)

MayOpen_Always == TRUE
MayOpen == ~ till.open

OpenCheck(t) ==
    /\ "open" \in Ops
    /\ MayOpen
    /\ Start(t, [Idle EXCEPT !.op = "open", !.amount = OpeningAmount])

(* A new opening_ts, an empty list and the "apertura" movement. *)
Opened(turn, amount) ==
    [open |-> TRUE, turn |-> turn, opening |-> amount, takings |-> 0,
     sales |-> {}]

OpenCommit(t) ==
    /\ Running(t, "open")
    /\ Len(moved) < MaxTurns
    /\ till' = Opened(Len(moved) + 1, job[t].amount)
    /\ moved' = Append(moved, job[t].amount)
    /\ Finish(t)
    /\ UNCHANGED <<books, arqueos>>

(* caja.expected *)
Expected == till.opening + till.takings

CloseCheck(t) ==
    /\ "close" \in Ops
    /\ till.open
    /\ Start(t, [Idle EXCEPT !.op = "close", !.amount = Expected])

Closed == [open |-> FALSE, turn |-> 0, opening |-> 0, takings |-> 0,
           sales |-> {}]

(* The arqueo reports the expected amount read before, for the turn of now. *)
CloseCommit(t) ==
    /\ Running(t, "close")
    /\ arqueos' = arqueos \cup {[turn |-> till.turn, expected |-> job[t].amount]}
    /\ till' = Closed
    /\ Finish(t)
    /\ UNCHANGED <<books, moved>>

-----------------------------------------------------------------------------
(* A refused guard, a failed statement or a crash between the two steps: the
   transaction leaves nothing (module Transaction). *)
Abandon(t) ==
    /\ job[t] # Idle
    /\ Finish(t)
    /\ UNCHANGED <<books, cash>>

Init ==
    /\ docs = <<>>
    /\ owed = [c \in Clients |-> 0]
    /\ till = [open |-> FALSE, turn |-> 0, opening |-> 0, takings |-> 0,
               sales |-> {}]
    /\ moved = <<>>
    /\ arqueos = {}
    /\ job = [t \in Terminals |-> Idle]

Check(t) ==
    \/ \E c \in Names, total \in Totals, credit \in Amounts \cup {0} :
          SellCheck(t, c, total, credit)
    \/ \E id \in DOMAIN docs :
          \/ CancelCheck(t, id)
          \/ \E amount \in Amounts : \/ AbonoCheck(t, id, amount)
                                     \/ CreditNoteCheck(t, id, amount)
          \/ \E to \in Statuses : \/ AdvanceCheck(t, id, to)
                                  \/ ConvertCheck(t, id, to)
    \/ OpenCheck(t) \/ CloseCheck(t)

Commit(t) ==
    \/ SellCommit(t) \/ CancelCommit(t) \/ AbonoCommit(t) \/ AdvanceCommit(t)
    \/ ConvertCommit(t) \/ CreditNoteCommit(t) \/ OpenCommit(t) \/ CloseCommit(t)

OneStep(t) ==
    \/ \E type \in Kinds, c \in Names, total \in Totals : CreateDoc(t, type, c, total)
    \/ \E id \in DOMAIN docs, amount \in Amounts : DebitNote(t, id, amount)

Next == \E t \in Terminals : Check(t) \/ Commit(t) \/ OneStep(t) \/ Abandon(t)

Spec == Init /\ [][Next]_vars

-----------------------------------------------------------------------------
(* Properties *)

(* The tables of the model have their types. *)
TypeOK ==
    /\ docs \in Seq(DocType)
    /\ owed \in [Clients -> Nat]
    /\ till \in TillType
    /\ moved \in Seq(Int)
    /\ arqueos \subseteq [turn : Nat, expected : Int]
    /\ job \in [Terminals -> JobType]

(* A balance that can still be collected is what was not paid, whatever
   payments, advances and cancellations wrote over each other. *)
BalanceIsUnpaid(d) ==
    /\ d.balance >= 0
    /\ d.balance > 0 => d.paid + d.balance = d.total

OpenBalanceIsUnpaid == \A i \in DOMAIN docs : BalanceIsUnpaid(docs[i])

(* CreditRepository.cpp: "el abono podia perderse en silencio" is over: a
   payment recorded in payments_cxc is in the document's paid amount. *)
AbonosOnTheSale == \A i \in DOMAIN docs : docs[i].collected <= docs[i].paid

(* "Venta cancelada no avanza": no handler brings a cancelled sale back. *)
CancelledForGood ==
    [][\A i \in DOMAIN docs :
          docs[i].status = "Cancelada" => docs'[i].status = "Cancelada"]_vars

(* SalesService::create: saldo_pendiente + nueva_venta <= limite. *)
OwedWithinLimit == \A c \in Clients : owed[c] <= Limit[c]

OpenCredit(c) ==
    SumOf([i \in DOMAIN docs |-> docs[i].balance],
          {i \in DOMAIN docs : docs[i].client = c /\ docs[i].status = "Pendiente"})

(* The limit bounds the credit sales a client still has open, not only the
   column it is checked against, which payments and cancellations discharge.
   Only tickets charge that column, so a document that is no ticket and is
   collected all the same takes the guarantee away. *)
CreditWithinLimit ==
    (\A i \in DOMAIN docs : docs[i].type # "Ticket" => docs[i].collected = 0)
        => \A c \in Clients : OpenCredit(c) <= Limit[c]

(* The credit limit holds of what the client's row says is owed, and of the
   open credit sales themselves. *)
DebtWithinLimit == OwedWithinLimit /\ CreditWithinLimit

(* What a client owes is the sum of the credit sales open, cancellations by
   two cajas included, as long as no instalment was paid on any of them and
   none was advanced. *)
DebtIsOpenCredit ==
    \A c \in Clients :
        (\A i \in DOMAIN docs : docs[i].client = c => docs[i].collected = 0)
            => owed[c] = OpenCredit(c)

(* createCreditNote: the notes of a document never exceed it in sum. *)
NotesWithinInvoice == \A i \in DOMAIN docs : Noted(i) <= docs[i].total

(* convertDocument: "El origen queda Cerrado como consumido": it does not come
   back to be advanced or converted again. *)
ConsumedForGood ==
    [][\A i \in DOMAIN docs :
          docs[i].status = "Cerrada" => docs'[i].status \in {"Cerrada", "Cancelada"}]_vars

(* "Caja cuadra por construccion": the expected amount, kept from the list of
   sales, is the sum of the open turn's movements. *)
TillSquares == till.open => Expected = moved[till.turn]

(* The open turn lists exactly its sales that were not cancelled, those aside
   that an instalment was paid of: a sale made in an earlier turn is cancelled
   without touching this one. *)
TillListsItsSales ==
    till.open =>
        /\ \A i \in DOMAIN docs :
              docs[i].collected = 0 =>
                  (i \in till.sales <=> /\ docs[i].turn = till.turn
                                       /\ docs[i].status # "Cancelada")
        /\ till.takings = SumOf([i \in DOMAIN docs |-> docs[i].total], till.sales)

(* What a close reported is what the movements of its turn add up to, then and
   for ever: no sale and no cancellation is missed or added later. *)
ArqueoSquares ==
    \A a \in arqueos : a.turn # 0 => a.expected = moved[a.turn]

(* Every turn but the open one was closed with a report, once. *)
EveryTurnReported ==
    \A n \in DOMAIN moved :
        Cardinality({a \in arqueos : a.turn = n}) =
            IF till.open /\ n = till.turn THEN 0 ELSE 1

(* SaleRepository, CajaRepository: the notes of a document do not exceed it,
   and every turn is reported once, with what its movements add up to. *)
TurnsAndNotesClose == NotesWithinInvoice /\ ArqueoSquares /\ EveryTurnReported

-----------------------------------------------------------------------------
(* The inductive invariant of the proofs *)

(* What a running handler has read still holds of what cannot change. *)
JobOK(t) ==
    LET j == job[t] IN
    /\ j.op \notin {"idle", "sale", "open", "close"} => j.id \in DOMAIN docs
    /\ j.op = "sale" => j.amount > 0 /\ j.credit <= j.amount
    /\ j.op = "abono" =>
          /\ 0 < j.amount /\ j.amount <= j.snap.balance
          /\ j.snap.paid + j.snap.balance = docs[j.id].total
    /\ j.op = "creditNote" => j.amount > 0
    /\ j.op = "open" => j.amount >= 0
    /\ j.op = "convert" => j.to \in DocTypes

JobsInv == \A t \in Terminals : JobOK(t)

(* The till's list and its turn exist. *)
TillInv ==
    /\ till.sales \subseteq DOMAIN docs
    /\ till.open => till.turn \in DOMAIN moved

(* What the handlers keep true of documents and till, however interleaved. *)
BooksInv == TypeOK /\ OpenBalanceIsUnpaid /\ TillSquares /\ JobsInv /\ TillInv
=============================================================================
