---------------------------- MODULE SalesProofs ----------------------------
(* Proofs about Sales for any terminals, clients, amounts and bounds. *)
EXTENDS Sales, SumsProofs, SequenceTheorems

(* The value an idle terminal holds is a well-formed job. *)
LEMMA IdleType == Idle \in JobType
  <1>1. (CHOOSE c \in Names : TRUE) \in Names
    BY SalesAssumption
  <1>2. NoSnap \in Snapshot
    BY DEF NoSnap, Snapshot, Statuses, EstadosVenta
  <1> QED
    BY <1>1, <1>2 DEF Idle, JobType, Statuses, EstadosVenta

(* Totals and amounts are positive. *)
LEMMA Inputs ==
    /\ \A n \in Totals : n \in Nat /\ n > 0
    /\ \A n \in Amounts : n \in Nat /\ n > 0
    /\ OpeningAmount \in Nat
  <1>1. /\ Totals \subseteq Nat \ {0} /\ Amounts \subseteq Nat \ {0}
        /\ OpeningAmount \in Nat
    BY SalesAssumption
  <1>2. \A n \in Nat \ {0} : n \in Nat /\ n > 0
    OBVIOUS
  <1> QED
    BY <1>1, <1>2

(* The tables have lengths, and their rows have their types. *)
LEMMA Rows ==
    ASSUME BooksInv
    PROVE  /\ Len(docs) \in Nat /\ DOMAIN docs = 1..Len(docs)
           /\ \A i \in DOMAIN docs : docs[i] \in DocType
           /\ Len(moved) \in Nat /\ DOMAIN moved = 1..Len(moved)
           /\ \A n \in DOMAIN moved : moved[n] \in Int
           /\ \A t \in Terminals : job[t] \in JobType
  BY LenProperties, ElementOfSeq DEF BooksInv, TypeOK

(* The documents keep their folios and totals and one terminal takes on a
   usable job: every terminal's job is usable afterwards. *)
LEMMA JobsStayUsable ==
    ASSUME BooksInv, NEW t \in Terminals, NEW j \in JobType,
           job' = [job EXCEPT ![t] = j], JobOK(t)',
           DOMAIN docs \subseteq DOMAIN docs',
           \A i \in DOMAIN docs : docs'[i].total = docs[i].total
    PROVE  job' \in [Terminals -> JobType] /\ JobsInv'
  <1>1. job \in [Terminals -> JobType]
    BY DEF BooksInv, TypeOK
  <1>2. job' \in [Terminals -> JobType]
    BY <1>1
  <1>3. ASSUME NEW u \in Terminals, u # t PROVE JobOK(u)'
    <2>1. job'[u] = job[u]
      BY <1>1, <1>3
    <2>2. JobOK(u)
      BY DEF BooksInv, JobsInv
    <2> QED
      BY <2>1, <2>2 DEF JobOK
  <1> QED
    BY <1>2, <1>3 DEF JobsInv

(* A handler that ends leaves its terminal idle. *)
LEMMA FinishStep ==
    ASSUME BooksInv, NEW t \in Terminals, Finish(t),
           DOMAIN docs \subseteq DOMAIN docs',
           \A i \in DOMAIN docs : docs'[i].total = docs[i].total
    PROVE  job' \in [Terminals -> JobType] /\ JobsInv'
  <1>1. job'[t] = Idle
    BY DEF Finish, BooksInv, TypeOK
  <1>2. JobOK(t)'
    BY <1>1 DEF JobOK, Idle
  <1> QED
    BY <1>2, IdleType, JobsStayUsable DEF Finish

(* A handler that only read. *)
LEMMA StartStep ==
    ASSUME BooksInv, NEW t \in Terminals, NEW j \in JobType, Start(t, j),
           JobOK(t)'
    PROVE  BooksInv'
  <1>1. docs' = docs /\ job' = [job EXCEPT ![t] = j]
    BY DEF Start, books
  <1>2. job' \in [Terminals -> JobType] /\ JobsInv'
    BY <1>1, JobsStayUsable
  <1>3. UNCHANGED <<docs, owed, till, moved, arqueos>>
    BY DEF Start, books, cash
  <1>4. TypeOK'
    BY <1>2, <1>3 DEF BooksInv, TypeOK
  <1>5. OpenBalanceIsUnpaid' /\ TillSquares' /\ TillInv'
    BY <1>3 DEF BooksInv, OpenBalanceIsUnpaid, BalanceIsUnpaid, TillSquares,
                Expected, TillInv
  <1> QED
    BY <1>2, <1>4, <1>5 DEF BooksInv

-----------------------------------------------------------------------------
(* What the handlers write to the documents *)

(* One row is rewritten. *)
LEMMA RewriteRow ==
    ASSUME BooksInv, NEW i \in DOMAIN docs, NEW d \in DocType,
           d.total = docs[i].total, BalanceIsUnpaid(d),
           docs' = [docs EXCEPT ![i] = d]
    PROVE  /\ docs' \in Seq(DocType)
           /\ OpenBalanceIsUnpaid'
           /\ DOMAIN docs' = DOMAIN docs
           /\ \A k \in DOMAIN docs : docs'[k].total = docs[k].total
  <1>1. docs \in Seq(DocType) /\ i \in 1..Len(docs)
    BY Rows DEF BooksInv, TypeOK
  <1>2. docs' \in Seq(DocType)
    BY <1>1, ExceptSeq
  <1>3. DOMAIN docs' = DOMAIN docs
    OBVIOUS
  <1>4. \A k \in DOMAIN docs : docs'[k] = IF k = i THEN d ELSE docs[k]
    OBVIOUS
  <1>5. OpenBalanceIsUnpaid'
    BY <1>3, <1>4 DEF BooksInv, OpenBalanceIsUnpaid, BalanceIsUnpaid
  <1> QED
    BY <1>2, <1>3, <1>4, <1>5

(* One row is added to a table that may just have been rewritten. *)
LEMMA AddRow ==
    ASSUME NEW q \in Seq(DocType), NEW d \in DocType, BalanceIsUnpaid(d),
           \A i \in DOMAIN q : BalanceIsUnpaid(q[i]),
           docs' = Append(q, d)
    PROVE  /\ docs' \in Seq(DocType)
           /\ OpenBalanceIsUnpaid'
           /\ DOMAIN q \subseteq DOMAIN docs'
           /\ Len(q) + 1 \in DOMAIN docs'
           /\ \A k \in DOMAIN q : docs'[k] = q[k]
  <1>1. /\ docs' \in Seq(DocType)
        /\ Len(docs') = Len(q) + 1
        /\ \A k \in 1..Len(q) : docs'[k] = q[k]
        /\ docs'[Len(q) + 1] = d
    BY AppendProperties
  <1>2. /\ Len(q) \in Nat /\ DOMAIN q = 1..Len(q)
        /\ DOMAIN docs' = 1..(Len(q) + 1)
    BY <1>1, LenProperties
  <1>3. OpenBalanceIsUnpaid'
    BY <1>1, <1>2 DEF OpenBalanceIsUnpaid, BalanceIsUnpaid
  <1> QED
    BY <1>1, <1>2, <1>3

(* What is written to a row: by a change of state, a cancellation, a change
   of state that settles, a payment. *)
WithState(r, s) == [r EXCEPT !.status = s]
WithBalance(r, s, b) == [r EXCEPT !.status = s, !.balance = b]
WithSettled(r, s, b, p) == [r EXCEPT !.status = s, !.balance = b, !.paid = p]
WithPayment(r, p, b, s, n) ==
    [r EXCEPT !.paid = p, !.balance = b, !.status = s, !.collected = n]

(* The row keeps its type and its total. *)
LEMMA StateRow ==
    ASSUME NEW r \in DocType, NEW s \in Statuses
    PROVE  /\ WithState(r, s) \in DocType
           /\ WithState(r, s).total = r.total
           /\ WithState(r, s).balance = r.balance
           /\ WithState(r, s).paid = r.paid
  BY DEF DocType, WithState

LEMMA BalanceRow ==
    ASSUME NEW r \in DocType, NEW s \in Statuses, NEW b \in Int
    PROVE  /\ WithBalance(r, s, b) \in DocType
           /\ WithBalance(r, s, b).total = r.total
           /\ WithBalance(r, s, b).balance = b
  BY DEF DocType, WithBalance

LEMMA SettledRow ==
    ASSUME NEW r \in DocType, NEW s \in Statuses, NEW b \in Int, NEW p \in Int
    PROVE  /\ WithSettled(r, s, b, p) \in DocType
           /\ WithSettled(r, s, b, p).total = r.total
           /\ WithSettled(r, s, b, p).balance = b
  BY DEF DocType, WithSettled

LEMMA PaidRow ==
    ASSUME NEW r \in DocType, NEW s \in Statuses, NEW p \in Int, NEW b \in Int,
           NEW n \in Nat
    PROVE  /\ WithPayment(r, p, b, s, n) \in DocType
           /\ WithPayment(r, p, b, s, n).total = r.total
           /\ WithPayment(r, p, b, s, n).balance = b
           /\ WithPayment(r, p, b, s, n).paid = p
  BY DEF DocType, WithPayment

(* A document made out by hand, a note or a conversion. *)
LEMMA NewDocRow ==
    ASSUME NEW type \in DocTypes, NEW c \in Names, NEW total \in Nat,
           NEW parent \in Nat
    PROVE  /\ NewDoc(type, c, total, parent) \in DocType
           /\ BalanceIsUnpaid(NewDoc(type, c, total, parent))
  <1>1. type \in Statuses
    BY DEF Statuses
  <1>2. NewDoc(type, c, total, parent) \in DocType
    BY <1>1 DEF NewDoc, DocType
  <1>3. BalanceIsUnpaid(NewDoc(type, c, total, parent))
    BY DEF NewDoc, BalanceIsUnpaid
  <1> QED
    BY <1>2, <1>3

-----------------------------------------------------------------------------
(* What the handlers write to clients and to the till *)

(* Clients never end below zero. *)
LEMMA CreditStep ==
    ASSUME owed \in [Clients -> Nat], NEW c \in Clients
    PROVE  /\ \A n \in Nat : AddCredit(c, n) => owed' \in [Clients -> Nat]
           /\ \A n \in Int : PayCredit(c, n) \in [Clients -> Nat]
  <1>1. ASSUME NEW n \in Nat, AddCredit(c, n) PROVE owed' \in [Clients -> Nat]
    BY <1>1 DEF AddCredit
  <1>2. ASSUME NEW n \in Int PROVE PayCredit(c, n) \in [Clients -> Nat]
    BY <1>2 DEF PayCredit, Max0
  <1> QED
    BY <1>1, <1>2

(* The parts of the invariant that are about the till alone. *)
TillOK ==
    /\ till \in TillType
    /\ moved \in Seq(Int)
    /\ TillSquares
    /\ TillInv

(* Its row keeps its type whatever sum and list are written to it. *)
LEMMA TillRow ==
    ASSUME NEW r \in TillType, NEW n \in Int, NEW S \in SUBSET Nat
    PROVE  [r EXCEPT !.takings = n, !.sales = S] \in TillType
  BY DEF TillType

(* A sale enters the open turn. *)
LEMMA RecordStep ==
    ASSUME BooksInv, NEW id \in Nat, NEW total \in Nat, RecordSale(id, total),
           id \in DOMAIN docs', DOMAIN docs \subseteq DOMAIN docs'
    PROVE  TillOK'
  <1>1. CASE till.open
    <2>1. /\ till' = [till EXCEPT !.takings = @ + total, !.sales = @ \cup {id}]
          /\ moved' = [moved EXCEPT ![till.turn] = @ + total]
      BY <1>1 DEF RecordSale
    <2>2. /\ till \in TillType /\ till.turn \in DOMAIN moved
          /\ till.sales \subseteq DOMAIN docs
          /\ moved[till.turn] = till.opening + till.takings
      BY <1>1 DEF BooksInv, TypeOK, TillInv, TillSquares, Expected
    <2>3. till.takings \in Int /\ till.opening \in Nat
      BY <2>2 DEF TillType
    <2>4. till' \in TillType
      <3>1. till.takings + total \in Int /\ till.sales \cup {id} \in SUBSET Nat
        BY <2>2, <2>3 DEF TillType
      <3> QED
        BY <2>1, <2>2, <3>1, TillRow
    <2>5. moved' \in Seq(Int) /\ DOMAIN moved' = DOMAIN moved
      <3>1. moved \in Seq(Int) /\ till.turn \in 1..Len(moved)
        BY <2>2, Rows DEF BooksInv, TypeOK
      <3>2. moved[till.turn] + total \in Int
        BY <2>2, <2>3
      <3> QED
        BY <2>1, <3>1, <3>2, ExceptSeq
    <2>6. /\ till'.turn = till.turn /\ till'.opening = till.opening
          /\ till'.takings = till.takings + total
          /\ till'.sales = till.sales \cup {id}
      BY <2>1, <2>2 DEF TillType
    <2>7. moved'[till.turn] = moved[till.turn] + total
      BY <2>1, <2>2
    <2>8. TillSquares'
      BY <2>2, <2>3, <2>6, <2>7 DEF TillSquares, Expected
    <2>9. TillInv'
      BY <2>2, <2>5, <2>6 DEF TillInv
    <2> QED
      BY <2>4, <2>5, <2>8, <2>9 DEF TillOK
  <1>2. CASE ~ till.open
    BY <1>2 DEF RecordSale, TillOK, BooksInv, TypeOK, TillInv, TillSquares, Expected
  <1> QED
    BY <1>1, <1>2

(* A cancelled sale leaves the open turn, if it is one of its sales. *)
LEMMA ReverseStep ==
    ASSUME BooksInv, NEW id \in DOMAIN docs, ReverseSale(id),
           DOMAIN docs \subseteq DOMAIN docs'
    PROVE  TillOK'
  <1>1. CASE InTurn(id)
    <2> DEFINE total == docs[id].total
    <2>0. total \in Nat
      BY Rows DEF DocType
    <2>1. /\ till' = [till EXCEPT !.takings = @ - total, !.sales = @ \ {id}]
          /\ moved' = [moved EXCEPT ![till.turn] = @ + (- total)]
      BY <1>1 DEF ReverseSale, Refund
    <2>2. /\ till \in TillType /\ till.turn \in DOMAIN moved
          /\ till.sales \subseteq DOMAIN docs
          /\ moved[till.turn] = till.opening + till.takings
      BY <1>1 DEF InTurn, BooksInv, TypeOK, TillInv, TillSquares, Expected
    <2>3. till.takings \in Int /\ till.opening \in Nat
      BY <2>2 DEF TillType
    <2> HIDE DEF total
    <2>4. till' \in TillType
      <3>1. till.takings - total \in Int /\ till.sales \ {id} \in SUBSET Nat
        BY <2>0, <2>2, <2>3 DEF TillType
      <3> QED
        BY <2>1, <2>2, <3>1, TillRow
    <2>5. moved' \in Seq(Int) /\ DOMAIN moved' = DOMAIN moved
      <3>1. moved \in Seq(Int) /\ till.turn \in 1..Len(moved)
        BY <2>2, Rows DEF BooksInv, TypeOK
      <3>2. moved[till.turn] + (- total) \in Int
        BY <2>0, <2>2, <2>3
      <3> QED
        BY <2>1, <3>1, <3>2, ExceptSeq
    <2>6. /\ till'.turn = till.turn /\ till'.opening = till.opening
          /\ till'.takings = till.takings - total
          /\ till'.sales = till.sales \ {id}
      BY <2>1, <2>2 DEF TillType
    <2>7. moved'[till.turn] = moved[till.turn] + (- total)
      BY <2>1, <2>2
    <2>8. TillSquares'
      BY <2>0, <2>2, <2>3, <2>6, <2>7 DEF TillSquares, Expected
    <2>9. TillInv'
      BY <2>2, <2>5, <2>6 DEF TillInv
    <2> QED
      BY <2>4, <2>5, <2>8, <2>9 DEF TillOK
  <1>2. CASE ~ InTurn(id)
    BY <1>2 DEF ReverseSale, TillOK, BooksInv, TypeOK, TillInv, TillSquares, Expected
  <1> QED
    BY <1>1, <1>2

(* A handler that leaves the till alone. *)
LEMMA TillAlone ==
    ASSUME BooksInv, UNCHANGED cash, DOMAIN docs \subseteq DOMAIN docs'
    PROVE  TillOK' /\ arqueos' \subseteq [turn : Nat, expected : Int]
  BY DEF cash, TillOK, BooksInv, TypeOK, TillInv, TillSquares, Expected

-----------------------------------------------------------------------------
(* The steps *)

(* Every way a handler starts. *)
LEMMA CheckStep ==
    ASSUME BooksInv, NEW t \in Terminals, Check(t)
    PROVE  BooksInv'
  <1>0. /\ Idle \in JobType /\ Idle.op = "idle" /\ Idle.snap \in Snapshot
        /\ job \in [Terminals -> JobType]
        /\ DOMAIN docs \subseteq Nat
        /\ \A i \in DOMAIN docs : docs[i] \in DocType /\ Read(i) \in Snapshot
    <2>1. /\ DOMAIN docs \subseteq Nat
          /\ \A i \in DOMAIN docs : docs[i] \in DocType
      BY Rows
    <2>2. \A i \in DOMAIN docs : Read(i) \in Snapshot
      BY <2>1 DEF Read, DocType, Snapshot
    <2> QED
      BY <2>1, <2>2, IdleType DEF Idle, JobType, BooksInv, TypeOK
  <1>1. ASSUME NEW c \in Names, NEW total \in Totals,
               NEW credit \in Amounts \cup {0}, SellCheck(t, c, total, credit)
        PROVE  BooksInv'
    <2> DEFINE j == [Idle EXCEPT !.op = "sale", !.client = c, !.amount = total,
                                 !.credit = credit]
    <2>1. /\ total \in Int /\ total > 0 /\ credit \in Nat /\ credit <= total
          /\ Start(t, j) /\ "sale" \in Ops
      BY <1>1, Inputs DEF SellCheck
    <2>2. j \in JobType /\ j.op = "sale" /\ j.amount = total /\ j.credit = credit
      BY <1>0, <2>1 DEF JobType
    <2> HIDE DEF j
    <2>3. job'[t] = j
      BY <1>0, <2>1, <2>2 DEF Start
    <2>4. JobOK(t)'
      BY <2>1, <2>2, <2>3 DEF JobOK
    <2> QED
      BY <2>1, <2>2, <2>4, StartStep
  <1>2. ASSUME NEW id \in DOMAIN docs, CancelCheck(t, id)
        PROVE  BooksInv'
    <2> DEFINE j == [Idle EXCEPT !.op = "cancel", !.id = id, !.snap = Read(id)]
    <2>1. Start(t, j) /\ "cancel" \in Ops /\ id \in Nat /\ Read(id) \in Snapshot
      BY <1>0, <1>2 DEF CancelCheck
    <2>2. j \in JobType /\ j.op = "cancel" /\ j.id = id
      BY <1>0, <2>1 DEF JobType
    <2> HIDE DEF j
    <2>3. job'[t] = j /\ docs' = docs
      BY <1>0, <2>1, <2>2 DEF Start, books
    <2>4. JobOK(t)'
      BY <2>2, <2>3 DEF JobOK
    <2> QED
      BY <2>1, <2>2, <2>4, StartStep
  <1>3. ASSUME NEW id \in DOMAIN docs, NEW amount \in Amounts,
               AbonoCheck(t, id, amount)
        PROVE  BooksInv'
    <2> DEFINE j == [Idle EXCEPT !.op = "abono", !.id = id, !.amount = amount,
                                 !.snap = Read(id)]
    <2>1. /\ Start(t, j) /\ "abono" \in Ops /\ id \in Nat /\ Read(id) \in Snapshot
          /\ amount \in Int /\ 0 < amount /\ amount <= docs[id].balance
      BY <1>0, <1>3, Inputs DEF AbonoCheck, PaymentFits
    <2>2. /\ j \in JobType /\ j.op = "abono" /\ j.id = id /\ j.amount = amount
          /\ j.snap = Read(id)
      BY <1>0, <2>1 DEF JobType
    <2>3. Read(id).paid + Read(id).balance = docs[id].total
      <3>1. BalanceIsUnpaid(docs[id]) /\ docs[id] \in DocType
        BY <1>0 DEF BooksInv, OpenBalanceIsUnpaid
      <3> QED
        BY <2>1, <3>1 DEF BalanceIsUnpaid, Read, DocType
    <2>4. Read(id).balance = docs[id].balance
      BY DEF Read
    <2> HIDE DEF j
    <2>5. job'[t] = j /\ docs' = docs
      BY <1>0, <2>1, <2>2 DEF Start, books
    <2>6. JobOK(t)'
      BY <2>1, <2>2, <2>3, <2>4, <2>5 DEF JobOK
    <2> QED
      BY <2>1, <2>2, <2>6, StartStep
  <1>4. ASSUME NEW id \in DOMAIN docs, NEW amount \in Amounts,
               CreditNoteCheck(t, id, amount)
        PROVE  BooksInv'
    <2> DEFINE j == [Idle EXCEPT !.op = "creditNote", !.id = id, !.amount = amount]
    <2>1. /\ Start(t, j) /\ "creditNote" \in Ops /\ id \in Nat
          /\ amount \in Int /\ 0 < amount
      BY <1>0, <1>4, Inputs DEF CreditNoteCheck
    <2>2. j \in JobType /\ j.op = "creditNote" /\ j.id = id /\ j.amount = amount
      BY <1>0, <2>1 DEF JobType
    <2> HIDE DEF j
    <2>3. job'[t] = j /\ docs' = docs
      BY <1>0, <2>1, <2>2 DEF Start, books
    <2>4. JobOK(t)'
      BY <2>1, <2>2, <2>3 DEF JobOK
    <2> QED
      BY <2>1, <2>2, <2>4, StartStep
  <1>5. ASSUME NEW id \in DOMAIN docs, NEW to \in Statuses,
               AdvanceCheck(t, id, to)
        PROVE  BooksInv'
    <2> DEFINE j == [Idle EXCEPT !.op = "advance", !.id = id, !.to = to]
    <2>1. Start(t, j) /\ "advance" \in Ops /\ id \in Nat
      BY <1>0, <1>5 DEF AdvanceCheck
    <2>2. j \in JobType /\ j.op = "advance" /\ j.id = id
      BY <1>0, <2>1 DEF JobType
    <2> HIDE DEF j
    <2>3. job'[t] = j /\ docs' = docs
      BY <1>0, <2>1, <2>2 DEF Start, books
    <2>4. JobOK(t)'
      BY <2>2, <2>3 DEF JobOK
    <2> QED
      BY <2>1, <2>2, <2>4, StartStep
  <1>6. ASSUME NEW id \in DOMAIN docs, NEW to \in Statuses,
               ConvertCheck(t, id, to)
        PROVE  BooksInv'
    <2> DEFINE j == [Idle EXCEPT !.op = "convert", !.id = id, !.to = to]
    <2>1. Start(t, j) /\ "convert" \in Ops /\ id \in Nat /\ to \in DocTypes
      BY <1>0, <1>6 DEF ConvertCheck, DocTypes
    <2>2. j \in JobType /\ j.op = "convert" /\ j.id = id /\ j.to = to
      BY <1>0, <2>1 DEF JobType
    <2> HIDE DEF j
    <2>3. job'[t] = j /\ docs' = docs
      BY <1>0, <2>1, <2>2 DEF Start, books
    <2>4. JobOK(t)'
      BY <2>1, <2>2, <2>3 DEF JobOK
    <2> QED
      BY <2>1, <2>2, <2>4, StartStep
  <1>7. ASSUME OpenCheck(t) \/ CloseCheck(t)
        PROVE  BooksInv'
    <2>1. PICK j : /\ j \in JobType /\ Start(t, j)
                   /\ \/ j.op = "open" /\ j.amount >= 0
                      \/ j.op = "close"
      <3>1. CASE OpenCheck(t)
        <4> DEFINE j == [Idle EXCEPT !.op = "open", !.amount = OpeningAmount]
        <4>1. Start(t, j) /\ "open" \in Ops /\ OpeningAmount \in Nat
          BY <3>1, Inputs DEF OpenCheck
        <4>2. OpeningAmount \in Int /\ OpeningAmount >= 0 /\ "open" \in Ops
          BY <4>1
        <4>3. j \in JobType /\ j.op = "open" /\ j.amount = OpeningAmount
          BY <1>0, <4>2 DEF JobType
        <4> HIDE DEF j
        <4> QED
          BY <4>1, <4>2, <4>3
      <3>2. CASE CloseCheck(t)
        <4> DEFINE j == [Idle EXCEPT !.op = "close", !.amount = Expected]
        <4>1. Start(t, j) /\ "close" \in Ops
          BY <3>2 DEF CloseCheck
        <4>2. Expected \in Int
          BY DEF Expected, BooksInv, TypeOK, TillType
        <4>3. j \in JobType /\ j.op = "close"
          BY <1>0, <4>1, <4>2 DEF JobType
        <4> QED
          BY <4>1, <4>3
      <3> QED
        BY <1>7, <3>1, <3>2
    <2>2. job'[t] = j
      BY <1>0, <2>1 DEF Start
    <2>3. JobOK(t)'
      BY <2>1, <2>2 DEF JobOK
    <2> QED
      BY <2>1, <2>3, StartStep
  <1> QED
    BY <1>1, <1>2, <1>3, <1>4, <1>5, <1>6, <1>7 DEF Check

(* A handler's transaction keeps the invariant when it keeps its parts. *)
LEMMA CommitStep ==
    ASSUME BooksInv, NEW t \in Terminals, Finish(t),
           docs' \in Seq(DocType), OpenBalanceIsUnpaid',
           owed' \in [Clients -> Nat],
           TillOK', arqueos' \subseteq [turn : Nat, expected : Int],
           DOMAIN docs \subseteq DOMAIN docs',
           \A i \in DOMAIN docs : docs'[i].total = docs[i].total
    PROVE  BooksInv'
  <1>1. job' \in [Terminals -> JobType] /\ JobsInv'
    BY FinishStep
  <1>2. TypeOK'
    BY <1>1 DEF TypeOK, TillOK
  <1> QED
    BY <1>1, <1>2 DEF BooksInv, TillOK

LEMMA SellStep ==
    ASSUME BooksInv, NEW t \in Terminals, SellCommit(t)
    PROVE  BooksInv'
  <1> DEFINE j == job[t]
  <1>1. /\ j \in JobType /\ j.amount \in Nat /\ j.amount > 0
        /\ j.credit \in Nat /\ j.credit <= j.amount
    <2>1. JobOK(t) /\ j \in JobType /\ j.op = "sale"
      BY Rows DEF BooksInv, JobsInv, SellCommit, Running
    <2> QED
      BY <2>1 DEF JobOK, JobType
  <1>2. /\ Finish(t) /\ arqueos' = arqueos
        /\ docs' = Append(docs, Ticket(j))
        /\ RecordSale(Len(docs) + 1, j.amount)
        /\ IF j.credit > 0 THEN j.client \in Clients /\ AddCredit(j.client, j.credit)
                            ELSE UNCHANGED owed
    BY DEF SellCommit
  <1> HIDE DEF j
  <1>3. Ticket(j) \in DocType
    <2>1. till.turn \in Nat
      BY DEF BooksInv, TypeOK, TillType
    <2>2. {"Pendiente", "Pagada"} \subseteq Statuses
      BY DEF Statuses, EstadosVenta
    <2>3. j.amount - j.credit \in Int /\ SoldBalance(j.amount, j.credit) \in Int
      BY <1>1 DEF SoldBalance
    <2>4. j.client \in Names
      BY <1>1 DEF JobType
    <2> QED
      BY <1>1, <2>1, <2>2, <2>3, <2>4 DEF Ticket, DocType
  <1>4. BalanceIsUnpaid(Ticket(j))
    BY <1>1 DEF BalanceIsUnpaid, Ticket, SoldBalance
  <1>5. docs \in Seq(DocType) /\ \A i \in DOMAIN docs : BalanceIsUnpaid(docs[i])
    BY DEF BooksInv, TypeOK, OpenBalanceIsUnpaid
  <1>6. /\ docs' \in Seq(DocType) /\ OpenBalanceIsUnpaid'
        /\ DOMAIN docs \subseteq DOMAIN docs' /\ Len(docs) + 1 \in DOMAIN docs'
        /\ \A i \in DOMAIN docs : docs'[i].total = docs[i].total
    BY <1>2, <1>3, <1>4, <1>5, AddRow
  <1>7. owed' \in [Clients -> Nat]
    <2>1. owed \in [Clients -> Nat]
      BY DEF BooksInv, TypeOK
    <2> QED
      BY <1>1, <1>2, <2>1, CreditStep
  <1>8. TillOK'
    <2>1. Len(docs) + 1 \in Nat
      BY Rows
    <2> QED
      BY <1>1, <1>2, <1>6, <2>1, RecordStep
  <1>9. arqueos' \subseteq [turn : Nat, expected : Int]
    BY <1>2 DEF BooksInv, TypeOK
  <1> QED
    BY <1>2, <1>6, <1>7, <1>8, <1>9, CommitStep

(* What the job of a handler that works on a document names. *)
LEMMA JobDoc ==
    ASSUME BooksInv, NEW t \in Terminals,
           job[t].op \notin {"idle", "sale", "open", "close"}
    PROVE  /\ job[t] \in JobType /\ job[t].id \in DOMAIN docs
           /\ docs[job[t].id] \in DocType
           /\ BalanceIsUnpaid(docs[job[t].id])
           /\ owed \in [Clients -> Nat]
  <1>1. job[t] \in JobType /\ JobOK(t) /\ owed \in [Clients -> Nat]
    BY Rows DEF BooksInv, JobsInv, TypeOK
  <1>2. job[t].id \in DOMAIN docs
    BY <1>1 DEF JobOK
  <1> QED
    BY <1>1, <1>2, Rows DEF BooksInv, OpenBalanceIsUnpaid

LEMMA CancelStep ==
    ASSUME BooksInv, NEW t \in Terminals, CancelCommit(t)
    PROVE  BooksInv'
  <1> DEFINE j == job[t]
             c == docs[j.id].client
             r == docs[j.id]
             d == WithBalance(r, "Cancelada", 0)
  <1>1. /\ j \in JobType /\ j.id \in DOMAIN docs /\ docs[j.id] \in DocType
        /\ owed \in [Clients -> Nat] /\ j.snap.balance \in Int
    <2>1. job[t].op \notin {"idle", "sale", "open", "close"}
      BY DEF CancelCommit, Running
    <2> QED
      BY <2>1, JobDoc DEF JobType, Snapshot
  <1>2. /\ Finish(t) /\ arqueos' = arqueos /\ ReverseSale(j.id)
        /\ docs' = [docs EXCEPT ![j.id] = d]
        /\ IF j.snap.status = "Pendiente" /\ j.snap.balance > 0
           THEN c \in Clients /\ owed' = PayCredit(c, j.snap.balance)
           ELSE UNCHANGED owed
    BY DEF CancelCommit, WithBalance
  <1>3. d \in DocType /\ d.total = docs[j.id].total /\ d.balance = 0
    <2>1. r \in DocType /\ "Cancelada" \in Statuses /\ 0 \in Int
      BY <1>1 DEF Statuses
    <2>2. d = WithBalance(r, "Cancelada", 0)
      OBVIOUS
    <2> HIDE DEF d, r
    <2>3. d \in DocType /\ d.total = r.total /\ d.balance = 0
      BY <2>1, <2>2, BalanceRow
    <2> QED
      BY <2>3 DEF r
  <1>4. BalanceIsUnpaid(d)
    BY <1>3 DEF BalanceIsUnpaid
  <1>5. owed' \in [Clients -> Nat]
    BY <1>1, <1>2, CreditStep
  <1> HIDE DEF j, c, d
  <1>6. /\ docs' \in Seq(DocType) /\ OpenBalanceIsUnpaid'
        /\ DOMAIN docs \subseteq DOMAIN docs'
        /\ \A i \in DOMAIN docs : docs'[i].total = docs[i].total
    BY <1>1, <1>2, <1>3, <1>4, RewriteRow
  <1>7. TillOK'
    BY <1>1, <1>2, <1>6, ReverseStep
  <1>8. arqueos' \subseteq [turn : Nat, expected : Int]
    BY <1>2 DEF BooksInv, TypeOK
  <1> QED
    BY <1>2, <1>5, <1>6, <1>7, <1>8, CommitStep

(* A payment.  A cent left over is forgiven, so what is left of an unsettled
   document is positive and is still its total less what was paid. *)
LEMMA AbonoStep ==
    ASSUME BooksInv, NEW t \in Terminals, AbonoCommit(t)
    PROVE  BooksInv'
  <1> DEFINE j == job[t]
             r == docs[j.id]
             b == IF Settled(j) THEN 0 ELSE Left(j)
             s == IF Settled(j) THEN "Pagada" ELSE j.snap.status
             p == PaidAfter(j)
             n == r.collected + j.amount
             d == WithPayment(r, p, b, s, n)
  <1>1. /\ j \in JobType /\ j.id \in DOMAIN docs /\ r \in DocType
        /\ owed \in [Clients -> Nat]
        /\ 0 < j.amount /\ j.amount <= j.snap.balance
        /\ j.snap.paid + j.snap.balance = r.total
    <2>1. j.op = "abono" /\ JobOK(t)
      BY DEF AbonoCommit, Running, BooksInv, JobsInv
    <2> QED
      BY <2>1, JobDoc DEF JobOK
  <1>2. Finish(t) /\ UNCHANGED cash /\ docs' = [docs EXCEPT ![j.id] = d]
    BY DEF AbonoCommit, WithPayment
  <1>10. \/ r.client \in Clients /\ owed' = PayCredit(r.client, j.amount)
         \/ owed' = owed
    BY DEF AbonoCommit
  <1>3. /\ j.amount \in Int /\ j.snap.paid \in Int /\ j.snap.balance \in Int
        /\ j.snap.status \in Statuses
        /\ r.total \in Nat /\ r.collected \in Nat
    BY <1>1 DEF JobType, Snapshot, DocType
  <1>4. /\ p \in Int /\ b \in Int /\ n \in Nat
        /\ b >= 0 /\ (b > 0 => p + b = r.total)
    BY <1>1, <1>3 DEF PaidAfter, Left, Settled
  <1>5. s \in Statuses
    BY <1>3 DEF Statuses, EstadosVenta
  <1>6. owed' \in [Clients -> Nat]
    BY <1>1, <1>3, <1>10, CreditStep
  <1>7. d \in DocType /\ d.total = r.total /\ d.balance = b /\ d.paid = p
    <2>1. d = WithPayment(r, p, b, s, n)
      OBVIOUS
    <2>2. r \in DocType /\ p \in Int /\ b \in Int /\ n \in Nat /\ s \in Statuses
      BY <1>1, <1>4, <1>5
    <2> HIDE DEF j, b, s, r, p, n, d
    <2> QED
      BY <2>1, <2>2, PaidRow
  <1> HIDE DEF j, b, s, p, n
  <1>8. BalanceIsUnpaid(d)
    BY <1>4, <1>7 DEF BalanceIsUnpaid
  <1> HIDE DEF d, r
  <1>9. /\ docs' \in Seq(DocType) /\ OpenBalanceIsUnpaid'
        /\ DOMAIN docs \subseteq DOMAIN docs'
        /\ \A i \in DOMAIN docs : docs'[i].total = docs[i].total
    BY <1>1, <1>2, <1>7, <1>8, RewriteRow DEF r
  <1> QED
    BY <1>2, <1>6, <1>9, TillAlone, CommitStep

(* A state advanced by hand: a paid one has nothing left to collect. *)
LEMMA AdvanceStep ==
    ASSUME BooksInv, NEW t \in Terminals, AdvanceCommit(t)
    PROVE  BooksInv'
  <1> DEFINE j == job[t]
             r == docs[j.id]
             d == IF Settles(j.to)
                  THEN WithSettled(r, j.to, 0, r.total)
                  ELSE WithState(r, j.to)
  <1>1. /\ j \in JobType /\ j.id \in DOMAIN docs /\ r \in DocType
        /\ owed \in [Clients -> Nat] /\ BalanceIsUnpaid(r)
    <2>1. j.op = "advance"
      BY DEF AdvanceCommit, Running
    <2> QED
      BY <2>1, JobDoc
  <1>2. /\ Finish(t) /\ UNCHANGED cash /\ owed' = owed
        /\ docs' = [docs EXCEPT ![j.id] = d]
    BY DEF AdvanceCommit, WithSettled, WithState
  <1>3. /\ j.to \in Statuses /\ r.total \in Nat /\ r.total \in Int
        /\ r.balance \in Int /\ r.paid \in Int
    BY <1>1 DEF JobType, DocType
  <1> HIDE DEF j
  <1>4. CASE Settles(j.to)
    <2>1. d = WithSettled(r, j.to, 0, r.total)
      BY <1>4
    <2>5. r \in DocType /\ j.to \in Statuses /\ 0 \in Int /\ r.total \in Int
      BY <1>1, <1>3
    <2> HIDE DEF d, r
    <2>2. d \in DocType /\ d.total = r.total /\ d.balance = 0
      BY <2>1, <2>5, SettledRow
    <2>3. BalanceIsUnpaid(d)
      BY <1>1, <2>2 DEF BalanceIsUnpaid
    <2>4. /\ docs' \in Seq(DocType) /\ OpenBalanceIsUnpaid'
          /\ DOMAIN docs \subseteq DOMAIN docs'
          /\ \A i \in DOMAIN docs : docs'[i].total = docs[i].total
      BY <1>1, <1>2, <2>2, <2>3, RewriteRow DEF r
    <2> QED
      BY <1>1, <1>2, <2>4, TillAlone, CommitStep
  <1>5. CASE ~ Settles(j.to)
    <2>1. d = WithState(r, j.to)
      BY <1>5
    <2> HIDE DEF d, r
    <2>2. /\ d \in DocType /\ d.total = r.total /\ d.balance = r.balance
          /\ d.paid = r.paid
      BY <1>1, <1>3, <2>1, StateRow
    <2>3. BalanceIsUnpaid(d)
      BY <1>1, <2>2 DEF BalanceIsUnpaid
    <2>4. /\ docs' \in Seq(DocType) /\ OpenBalanceIsUnpaid'
          /\ DOMAIN docs \subseteq DOMAIN docs'
          /\ \A i \in DOMAIN docs : docs'[i].total = docs[i].total
      BY <1>1, <1>2, <2>2, <2>3, RewriteRow DEF r
    <2> QED
      BY <1>1, <1>2, <2>4, TillAlone, CommitStep
  <1> QED
    BY <1>4, <1>5

(* A document that becomes another one: its row is closed, and a row added. *)
LEMMA ConvertStep ==
    ASSUME BooksInv, NEW t \in Terminals, ConvertCommit(t)
    PROVE  BooksInv'
  <1> DEFINE j == job[t]
             r == docs[j.id]
             d == WithState(r, "Cerrada")
             q == [docs EXCEPT ![j.id] = d]
             e == NewDoc(j.to, r.client, r.total, j.id)
  <1>1. /\ j \in JobType /\ j.id \in DOMAIN docs /\ r \in DocType
        /\ owed \in [Clients -> Nat] /\ BalanceIsUnpaid(r) /\ j.to \in DocTypes
    <2>1. j.op = "convert" /\ JobOK(t)
      BY DEF ConvertCommit, Running, BooksInv, JobsInv
    <2> QED
      BY <2>1, JobDoc DEF JobOK
  <1>2. Finish(t) /\ UNCHANGED cash /\ owed' = owed /\ docs' = Append(q, e)
    BY DEF ConvertCommit, WithState
  <1>3. "Cerrada" \in Statuses
    BY DEF Statuses, EstadosVenta
  <1>4. r.client \in Names /\ r.total \in Nat /\ j.id \in Nat
    BY <1>1, Rows DEF DocType
  <1> HIDE DEF j
  <1>5. /\ d \in DocType /\ d.total = r.total /\ d.balance = r.balance
        /\ d.paid = r.paid
    <2> HIDE DEF r
    <2> QED
      BY <1>1, <1>3, StateRow
  <1>6. e \in DocType /\ BalanceIsUnpaid(e)
    <2> HIDE DEF r
    <2> QED
      BY <1>1, <1>4, NewDocRow
  <1>7. BalanceIsUnpaid(d)
    BY <1>1, <1>5 DEF BalanceIsUnpaid
  <1> HIDE DEF e, d
  <1>8. /\ q \in Seq(DocType) /\ DOMAIN q = DOMAIN docs
        /\ \A i \in DOMAIN q : BalanceIsUnpaid(q[i]) /\ q[i].total = docs[i].total
    <2>1. docs \in Seq(DocType) /\ j.id \in 1..Len(docs)
      BY <1>1, Rows DEF BooksInv, TypeOK
    <2>2. q \in Seq(DocType)
      BY <1>5, <2>1, ExceptSeq
    <2>3. \A i \in DOMAIN docs : q[i] = IF i = j.id THEN d ELSE docs[i]
      OBVIOUS
    <2>4. \A i \in DOMAIN docs : BalanceIsUnpaid(docs[i])
      BY DEF BooksInv, OpenBalanceIsUnpaid
    <2>5. DOMAIN q = DOMAIN docs
      OBVIOUS
    <2> HIDE DEF q
    <2> QED
      BY <1>5, <1>7, <2>2, <2>3, <2>4, <2>5
  <1> HIDE DEF q
  <1>9. /\ docs' \in Seq(DocType) /\ OpenBalanceIsUnpaid'
        /\ DOMAIN docs \subseteq DOMAIN docs'
        /\ \A i \in DOMAIN docs : docs'[i].total = docs[i].total
    BY <1>2, <1>6, <1>8, AddRow
  <1> QED
    BY <1>1, <1>2, <1>9, TillAlone, CommitStep

(* A document is added and nothing else is written to the books. *)
LEMMA CreateStep ==
    ASSUME BooksInv, NEW type \in DocTypes, NEW c \in Names, NEW total \in Nat,
           NEW parent \in Nat, Create(NewDoc(type, c, total, parent))
    PROVE  /\ docs' \in Seq(DocType) /\ OpenBalanceIsUnpaid'
           /\ DOMAIN docs \subseteq DOMAIN docs'
           /\ \A i \in DOMAIN docs : docs'[i] = docs[i]
  <1>1. docs \in Seq(DocType) /\ \A i \in DOMAIN docs : BalanceIsUnpaid(docs[i])
    BY DEF BooksInv, TypeOK, OpenBalanceIsUnpaid
  <1>2. docs' = Append(docs, NewDoc(type, c, total, parent))
    BY DEF Create
  <1> QED
    BY <1>1, <1>2, NewDocRow, AddRow

LEMMA CreditNoteStep ==
    ASSUME BooksInv, NEW t \in Terminals, CreditNoteCommit(t)
    PROVE  BooksInv'
  <1> DEFINE j == job[t]
  <1>1. /\ j \in JobType /\ j.id \in DOMAIN docs /\ docs[j.id] \in DocType
        /\ owed \in [Clients -> Nat] /\ j.amount > 0
    <2>1. j.op = "creditNote" /\ JobOK(t)
      BY DEF CreditNoteCommit, Running, BooksInv, JobsInv
    <2> QED
      BY <2>1, JobDoc DEF JobOK
  <1>2. /\ Finish(t) /\ UNCHANGED cash /\ owed' = owed
        /\ Create(NewDoc("Nota credito", docs[j.id].client, j.amount, j.id))
    BY DEF CreditNoteCommit
  <1>3. docs[j.id].client \in Names /\ j.amount \in Nat /\ j.id \in Nat
    BY <1>1 DEF DocType, JobType
  <1>5. "Nota credito" \in DocTypes
    BY DEF DocTypes
  <1> HIDE DEF j
  <1>4. /\ docs' \in Seq(DocType) /\ OpenBalanceIsUnpaid'
        /\ DOMAIN docs \subseteq DOMAIN docs'
        /\ \A i \in DOMAIN docs : docs'[i] = docs[i]
    BY <1>2, <1>3, <1>5, CreateStep
  <1> QED
    BY <1>1, <1>2, <1>4, TillAlone, CommitStep

(* A document created in one step: the running handlers go on with theirs. *)
LEMMA OneStepStep ==
    ASSUME BooksInv, NEW t \in Terminals, OneStep(t)
    PROVE  BooksInv'
  <1> DEFINE Created ==
               \E type \in DocTypes, c \in Names, total \in Nat, parent \in Nat :
                  Create(NewDoc(type, c, total, parent))
  <1>1. UNCHANGED <<owed, cash, job>> /\ Created
    <2>1. ASSUME NEW type \in Kinds, NEW c \in Names, NEW total \in Totals,
                 CreateDoc(t, type, c, total)
          PROVE  UNCHANGED <<owed, cash, job>> /\ Created
      <3>1. type \in DocTypes /\ total \in Nat /\ 0 \in Nat
        BY Inputs, SalesAssumption DEF DocTypes
      <3>2. /\ UNCHANGED <<owed, cash, job>>
            /\ Create(NewDoc(type, c, total, 0))
        BY <2>1 DEF CreateDoc
      <3> QED
        BY <3>1, <3>2
    <2>2. ASSUME NEW id \in DOMAIN docs, NEW amount \in Amounts,
                 DebitNote(t, id, amount)
          PROVE  UNCHANGED <<owed, cash, job>> /\ Created
      <3>1. "Nota cargo" \in DocTypes
        BY DEF DocTypes
      <3>3. docs[id].client \in Names /\ amount \in Nat /\ id \in Nat
        BY Inputs, Rows DEF DocType
      <3>2. /\ UNCHANGED <<owed, cash, job>>
            /\ Create(NewDoc("Nota cargo", docs[id].client, amount, id))
        BY <2>2 DEF DebitNote
      <3> QED
        BY <3>1, <3>2, <3>3
    <2> HIDE DEF Created
    <2> QED
      BY <2>1, <2>2 DEF OneStep
  <1>2. /\ docs' \in Seq(DocType) /\ OpenBalanceIsUnpaid'
        /\ DOMAIN docs \subseteq DOMAIN docs'
        /\ \A i \in DOMAIN docs : docs'[i] = docs[i]
    BY <1>1, CreateStep
  <1>3. JobsInv'
    <2>1. ASSUME NEW u \in Terminals PROVE JobOK(u)'
      <3>1. JobOK(u) /\ job'[u] = job[u]
        BY <1>1 DEF BooksInv, JobsInv
      <3> QED
        BY <1>2, <3>1 DEF JobOK
    <2> QED
      BY <2>1 DEF JobsInv
  <1>4. TillOK' /\ arqueos' \subseteq [turn : Nat, expected : Int]
    BY <1>1, <1>2, TillAlone
  <1>5. TypeOK'
    BY <1>1, <1>2, <1>4 DEF TypeOK, TillOK, BooksInv
  <1> QED
    BY <1>2, <1>3, <1>4, <1>5 DEF BooksInv, TillOK

(* A turn opens: its only movement is its opening amount. *)
LEMMA OpenStep ==
    ASSUME BooksInv, NEW t \in Terminals, OpenCommit(t)
    PROVE  BooksInv'
  <1> DEFINE a == job[t].amount
             n == Len(moved) + 1
  <1>1. /\ Finish(t) /\ docs' = docs /\ owed' = owed /\ arqueos' = arqueos
        /\ till' = Opened(n, a) /\ moved' = Append(moved, a)
    BY DEF OpenCommit, books
  <1>2. a \in Nat
    <2>1. job[t] \in JobType /\ JobOK(t) /\ job[t].op = "open"
      BY Rows DEF BooksInv, JobsInv, OpenCommit, Running
    <2> QED
      BY <2>1 DEF JobOK, JobType
  <1>3. moved \in Seq(Int) /\ Len(moved) \in Nat
    BY Rows DEF BooksInv, TypeOK
  <1> HIDE DEF a
  <1>4. /\ moved' \in Seq(Int) /\ Len(moved') = n /\ moved'[n] = a
        /\ n \in DOMAIN moved' /\ n \in Nat
    <2>1. a \in Int
      BY <1>2
    <2>2. /\ moved' \in Seq(Int) /\ Len(moved') = Len(moved) + 1
          /\ moved'[Len(moved) + 1] = a
      BY <1>1, <1>3, <2>1, AppendProperties
    <2>3. DOMAIN moved' = 1..Len(moved')
      BY <2>2, LenProperties
    <2> QED
      BY <1>3, <2>2, <2>3
  <1> HIDE DEF n
  <1>5. /\ till' \in TillType /\ till'.turn = n /\ till'.opening = a
        /\ till'.takings = 0 /\ till'.sales = {}
    BY <1>1, <1>2, <1>4 DEF Opened, TillType
  <1>6. TillOK'
    <2>1. TillSquares'
      BY <1>2, <1>4, <1>5 DEF TillSquares, Expected
    <2> QED
      BY <1>4, <1>5, <2>1 DEF TillOK, TillInv
  <1>7. /\ docs' \in Seq(DocType) /\ OpenBalanceIsUnpaid'
        /\ owed' \in [Clients -> Nat] /\ arqueos' \subseteq [turn : Nat, expected : Int]
    BY <1>1 DEF BooksInv, TypeOK, OpenBalanceIsUnpaid, BalanceIsUnpaid
  <1> QED
    BY <1>1, <1>6, <1>7, CommitStep

(* A turn closes and is reported. *)
LEMMA CloseStep ==
    ASSUME BooksInv, NEW t \in Terminals, CloseCommit(t)
    PROVE  BooksInv'
  <1>1. /\ Finish(t) /\ docs' = docs /\ owed' = owed /\ moved' = moved
        /\ till' = Closed
        /\ arqueos' = arqueos \cup {[turn |-> till.turn, expected |-> job[t].amount]}
    BY DEF CloseCommit, books
  <1>2. till.turn \in Nat /\ job[t].amount \in Int
    BY Rows DEF BooksInv, TypeOK, TillType, JobType
  <1>3. arqueos' \subseteq [turn : Nat, expected : Int]
    BY <1>1, <1>2 DEF BooksInv, TypeOK
  <1>4. till' \in TillType /\ till'.open = FALSE /\ till'.sales = {}
    BY <1>1 DEF Closed, TillType
  <1>5. TillOK'
    BY <1>1, <1>4 DEF TillOK, TillSquares, TillInv, BooksInv, TypeOK
  <1>6. /\ docs' \in Seq(DocType) /\ OpenBalanceIsUnpaid' /\ owed' \in [Clients -> Nat]
    BY <1>1 DEF BooksInv, TypeOK, OpenBalanceIsUnpaid, BalanceIsUnpaid
  <1> QED
    BY <1>1, <1>3, <1>5, <1>6, CommitStep

(* A handler that ends without its transaction. *)
LEMMA AbandonStep ==
    ASSUME BooksInv, NEW t \in Terminals, Abandon(t)
    PROVE  BooksInv'
  <1>1. Finish(t) /\ docs' = docs /\ owed' = owed /\ UNCHANGED cash
    BY DEF Abandon, books
  <1>2. /\ docs' \in Seq(DocType) /\ OpenBalanceIsUnpaid' /\ owed' \in [Clients -> Nat]
    BY <1>1 DEF BooksInv, TypeOK, OpenBalanceIsUnpaid, BalanceIsUnpaid
  <1> QED
    BY <1>1, <1>2, TillAlone, CommitStep

LEMMA CommitsKeepBooks ==
    ASSUME BooksInv, NEW t \in Terminals, Commit(t)
    PROVE  BooksInv'
  BY SellStep, CancelStep, AbonoStep, AdvanceStep, ConvertStep, CreditNoteStep,
     OpenStep, CloseStep DEF Commit

LEMMA InitOK == Init => BooksInv
  <1> SUFFICES ASSUME Init PROVE BooksInv
    OBVIOUS
  <1>1. docs = <<>> /\ DOMAIN docs = {} /\ docs \in Seq(DocType)
    BY EmptySeq DEF Init
  <1>2. moved \in Seq(Int)
    BY EmptySeq DEF Init
  <1>3. job \in [Terminals -> JobType] /\ \A t \in Terminals : job[t] = Idle
    BY IdleType DEF Init
  <1>4. /\ owed \in [Clients -> Nat] /\ till \in TillType /\ till.open = FALSE
        /\ till.sales = {} /\ arqueos = {}
    BY DEF Init, TillType
  <1>5. JobsInv
    BY <1>3 DEF JobsInv, JobOK, Idle
  <1> QED
    BY <1>1, <1>2, <1>3, <1>4, <1>5
       DEF BooksInv, TypeOK, OpenBalanceIsUnpaid, TillSquares, TillInv

LEMMA StutterOK == BooksInv /\ UNCHANGED vars => BooksInv'
  BY DEF BooksInv, TypeOK, OpenBalanceIsUnpaid, BalanceIsUnpaid, TillSquares,
         Expected, TillInv, JobsInv, JobOK, vars, books, cash

-----------------------------------------------------------------------------
LEMMA BooksNext == BooksInv /\ [Next]_vars => BooksInv'
  <1> SUFFICES ASSUME BooksInv, [Next]_vars PROVE BooksInv'
    OBVIOUS
  <1>1. ASSUME NEW t \in Terminals, Check(t) PROVE BooksInv'
    BY <1>1, CheckStep
  <1>2. ASSUME NEW t \in Terminals, Commit(t) PROVE BooksInv'
    BY <1>2, CommitsKeepBooks
  <1>3. ASSUME NEW t \in Terminals, OneStep(t) PROVE BooksInv'
    BY <1>3, OneStepStep
  <1>4. ASSUME NEW t \in Terminals, Abandon(t) PROVE BooksInv'
    BY <1>4, AbandonStep
  <1>5. CASE UNCHANGED vars
    BY <1>5, StutterOK
  <1> QED
    BY <1>1, <1>2, <1>3, <1>4, <1>5 DEF Next

(* Documents, clients, till and running handlers keep the inductive invariant
   whatever handlers the terminals interleave, and wherever one is cut short. *)
THEOREM BooksInvariant == Spec => []BooksInv
  BY InitOK, BooksNext, PTL DEF Spec

(* A balance still to be collected is always the total less what was paid,
   although payments and advances rewrite the row from what they read before
   their transaction. *)
THEOREM OpenBalancesHold == Spec => []OpenBalanceIsUnpaid
  <1>1. BooksInv => OpenBalanceIsUnpaid
    BY DEF BooksInv
  <1> QED
    BY <1>1, BooksInvariant, PTL

(* The expected amount of the open turn, kept from its list of sales, is the
   sum of its movements: sales, cancellations and openings by any number of
   terminals keep the till square. *)
THEOREM TillHolds == Spec => []TillSquares
  <1>1. BooksInv => TillSquares
    BY DEF BooksInv
  <1> QED
    BY <1>1, BooksInvariant, PTL
-----------------------------------------------------------------------------
(* Sums over the documents *)

(* What the rows of a table have open for a client, and in totals. *)
CreditOf(table, c) ==
    [i \in DOMAIN table |->
        IF table[i].client = c /\ table[i].status = "Pendiente"
        THEN table[i].balance ELSE 0]
TotalOf(table) == [i \in DOMAIN table |-> table[i].total]

LEMMA TableKeys ==
    ASSUME NEW table \in Seq(DocType)
    PROVE  /\ Len(table) \in Nat /\ DOMAIN table = 1..Len(table)
           /\ IsFiniteSet(DOMAIN table)
           /\ Len(table) + 1 \notin DOMAIN table
           /\ \A i \in DOMAIN table : table[i] \in DocType
  <1>1. Len(table) \in Nat /\ DOMAIN table = 1..Len(table)
    BY LenProperties
  <1>2. IsFiniteSet(1..Len(table))
    BY <1>1, FS_Interval
  <1>3. \A i \in DOMAIN table : table[i] \in DocType
    BY <1>1, ElementOfSeq
  <1> QED
    BY <1>1, <1>2, <1>3

(* OpenCredit, as a sum over all the rows. *)
LEMMA OpenCreditRows ==
    ASSUME NEW table \in Seq(DocType), NEW c
    PROVE  SumOf([i \in DOMAIN table |-> table[i].balance],
                 {i \in DOMAIN table : table[i].client = c
                                       /\ table[i].status = "Pendiente"}) =
              SumOf(CreditOf(table, c), DOMAIN table)
  <1> DEFINE S == DOMAIN table
             T == {i \in S : table[i].client = c /\ table[i].status = "Pendiente"}
             b == [i \in S |-> table[i].balance]
             m == CreditOf(table, c)
  <1>1. IsFiniteSet(S) /\ \A i \in S : table[i] \in DocType
    BY TableKeys
  <1>2. T \in SUBSET S /\ \A i \in T : b[i] \in Int
    BY <1>1 DEF DocType
  <1>3. \A i \in S : m[i] = IF i \in T THEN b[i] ELSE 0
    BY DEF CreditOf
  <1> HIDE DEF S, T, b, m
  <1>4. SumOf(m, S) = SumOf(b, T)
    BY <1>1, <1>2, <1>3, SumMasked
  <1> QED
    BY <1>4 DEF S, T, b, m

(* Balances and totals are natural numbers. *)
LEMMA CreditRows ==
    ASSUME BooksInv, NEW c
    PROVE  /\ \A i \in DOMAIN docs : CreditOf(docs, c)[i] \in Nat
           /\ SumOf(CreditOf(docs, c), DOMAIN docs) \in Nat
  <1>1. IsFiniteSet(DOMAIN docs) /\ \A i \in DOMAIN docs : docs[i] \in DocType
    BY TableKeys DEF BooksInv, TypeOK
  <1>2. \A i \in DOMAIN docs : docs[i].balance \in Nat
    BY <1>1 DEF DocType, BooksInv, OpenBalanceIsUnpaid, BalanceIsUnpaid
  <1>3. \A i \in DOMAIN docs : CreditOf(docs, c)[i] \in Nat
    BY <1>2 DEF CreditOf
  <1> QED
    BY <1>1, <1>3, SumNat

(* One row rewritten, one row added. *)
Rewritten(i, d) ==
    /\ i \in DOMAIN docs /\ DOMAIN docs' = DOMAIN docs
    /\ \A k \in DOMAIN docs : docs'[k] = IF k = i THEN d ELSE docs[k]
Grown ==
    /\ Len(docs) + 1 \notin DOMAIN docs
    /\ DOMAIN docs' = DOMAIN docs \cup {Len(docs) + 1}
Added(d) ==
    /\ Grown
    /\ docs'[Len(docs) + 1] = d
    /\ \A k \in DOMAIN docs : docs'[k] = docs[k]

LEMMA RewrittenBy ==
    ASSUME NEW i \in DOMAIN docs, NEW d, docs' = [docs EXCEPT ![i] = d]
    PROVE  Rewritten(i, d)
  BY DEF Rewritten

LEMMA AddedBy ==
    ASSUME BooksInv, NEW d, docs' = Append(docs, d)
    PROVE  Added(d)
  <1> DEFINE S == DocType \cup {d}
  <1>1. docs \in Seq(S) /\ d \in S
    BY SeqDef DEF BooksInv, TypeOK
  <1> HIDE DEF S
  <1>2. /\ docs' \in Seq(S) /\ Len(docs') = Len(docs) + 1
        /\ \A k \in 1..Len(docs) : docs'[k] = docs[k]
        /\ docs'[Len(docs) + 1] = d
    BY <1>1, AppendProperties
  <1>3. /\ Len(docs) \in Nat /\ DOMAIN docs = 1..Len(docs)
        /\ DOMAIN docs' = 1..(Len(docs) + 1)
    BY <1>1, <1>2, LenProperties
  <1>4. /\ Len(docs) + 1 \notin DOMAIN docs
        /\ DOMAIN docs' = DOMAIN docs \cup {Len(docs) + 1}
    BY <1>3
  <1> QED
    BY <1>2, <1>3, <1>4 DEF Added, Grown

(* A column that changes in one row changes the sum by as much. *)
LEMMA RewrittenSum ==
    ASSUME BooksInv, NEW i, NEW d, Rewritten(i, d), NEW u, NEW v,
           \A k \in DOMAIN docs : u[k] \in Int /\ (k # i => v[k] = u[k]),
           v[i] \in Int
    PROVE  /\ SumOf(u, DOMAIN docs) \in Int
           /\ SumOf(v, DOMAIN docs') = SumOf(u, DOMAIN docs) + (v[i] - u[i])
  <1>1. IsFiniteSet(DOMAIN docs) /\ i \in DOMAIN docs /\ DOMAIN docs' = DOMAIN docs
    BY TableKeys DEF BooksInv, TypeOK, Rewritten
  <1> DEFINE k == v[i] - u[i]
  <1>2. k \in Int /\ v[i] = u[i] + k
    BY <1>1
  <1> HIDE DEF k
  <1>3. SumOf(v, DOMAIN docs) = SumOf(u, DOMAIN docs) + k
    BY <1>1, <1>2, SumMoved
  <1>4. SumOf(u, DOMAIN docs) \in Int
    BY <1>1, SumInt
  <1> QED
    BY <1>1, <1>3, <1>4 DEF k

LEMMA AddedSum ==
    ASSUME BooksInv, Grown, NEW u, NEW v,
           \A k \in DOMAIN docs : u[k] \in Int /\ v[k] = u[k],
           v[Len(docs) + 1] \in Int
    PROVE  SumOf(v, DOMAIN docs') = SumOf(u, DOMAIN docs) + v[Len(docs) + 1]
  <1> DEFINE n == Len(docs) + 1
  <1>1. IsFiniteSet(DOMAIN docs) /\ n \notin DOMAIN docs
        /\ DOMAIN docs' = DOMAIN docs \cup {n}
    BY TableKeys DEF BooksInv, TypeOK, Grown
  <1>2. v[n] \in Int
    OBVIOUS
  <1> HIDE DEF n
  <1>3. SumOf(v, DOMAIN docs \cup {n}) = SumOf(v, DOMAIN docs) + v[n]
    BY <1>1, <1>2, SumWith
  <1>4. SumOf(v, DOMAIN docs) = SumOf(u, DOMAIN docs)
    BY <1>1, SumSame
  <1> QED
    BY <1>1, <1>3, <1>4 DEF n

(* The sum of the till's list. *)
LEMMA ListedSum ==
    ASSUME BooksInv, DOMAIN docs \subseteq DOMAIN docs',
           \A i \in DOMAIN docs : docs'[i].total = docs[i].total
    PROVE  /\ IsFiniteSet(till.sales)
           /\ \A i \in till.sales : TotalOf(docs')[i] \in Int
           /\ SumOf(TotalOf(docs'), till.sales) = SumOf(TotalOf(docs), till.sales)
           /\ SumOf(TotalOf(docs), till.sales) \in Int
  <1>1. /\ till.sales \subseteq DOMAIN docs /\ IsFiniteSet(DOMAIN docs)
        /\ \A i \in DOMAIN docs : docs[i].total \in Int
    <2>1. till.sales \subseteq DOMAIN docs
      BY DEF BooksInv, TillInv
    <2>2. IsFiniteSet(DOMAIN docs) /\ \A i \in DOMAIN docs : docs[i] \in DocType
      BY TableKeys DEF BooksInv, TypeOK
    <2>3. \A i \in DOMAIN docs : docs[i].total \in Int
      BY <2>2 DEF DocType
    <2> QED
      BY <2>1, <2>2, <2>3
  <1>2. IsFiniteSet(till.sales)
    BY <1>1, FS_Subset
  <1>3. \A i \in till.sales : /\ TotalOf(docs')[i] = TotalOf(docs)[i]
                              /\ TotalOf(docs)[i] \in Int
    BY <1>1 DEF TotalOf
  <1> QED
    BY <1>2, <1>3, SumSame, SumInt
-----------------------------------------------------------------------------
(* What is sold, collected and cancelled, by any number of terminals *)

(* A cancellation has read the row as it is, until an instalment is paid. *)
CancelReads(t) ==
    job[t].op = "cancel" /\ docs[job[t].id].collected = 0
                         /\ docs[job[t].id].status # "Cancelada"
        => job[t].snap = Read(job[t].id)

FloorJob(t) == job[t].op \notin {"advance", "convert"} /\ CancelReads(t)

(* Sales were made in turns there have been. *)
TurnsKnown == \A i \in DOMAIN docs : docs[i].turn \in {0} \cup DOMAIN moved

FloorInv ==
    /\ BooksInv
    /\ TillListsItsSales
    /\ DebtIsOpenCredit
    /\ TurnsKnown
    /\ \A t \in Terminals : FloorJob(t)

(* No document is advanced or converted. *)
NothingAdvanced == Ops \cap {"advance", "convert"} = {}

LEMMA FloorInit == Init => FloorInv
  <1> SUFFICES ASSUME Init PROVE FloorInv
    OBVIOUS
  <1>1. BooksInv /\ DOMAIN docs = {} /\ ~ till.open
    BY InitOK DEF Init
  <1>2. TillListsItsSales /\ TurnsKnown
    BY <1>1 DEF TillListsItsSales, TurnsKnown
  <1>3. DebtIsOpenCredit
    <2> SUFFICES ASSUME NEW c \in Clients PROVE owed[c] = OpenCredit(c)
      BY DEF DebtIsOpenCredit
    <2> DEFINE S == {i \in DOMAIN docs : docs[i].client = c
                                         /\ docs[i].status = "Pendiente"}
    <2>1. owed[c] = 0 /\ S = {}
      BY <1>1 DEF Init
    <2>2. OpenCredit(c) = SumOf([i \in DOMAIN docs |-> docs[i].balance], S)
      BY DEF OpenCredit
    <2> HIDE DEF S
    <2> QED
      BY <2>1, <2>2, SumEmpty
  <1>4. \A t \in Terminals : FloorJob(t)
    BY DEF Init, Idle, FloorJob, CancelReads
  <1> QED
    BY <1>1, <1>2, <1>3, <1>4 DEF FloorInv

(* One terminal goes on, and no row that another one's cancellation has read
   changes but by an instalment or a cancellation. *)
LEMMA FloorMove ==
    ASSUME FloorInv, BooksInv', NEW t \in Terminals, NEW j,
           job' = [job EXCEPT ![t] = j],
           TillListsItsSales', DebtIsOpenCredit', TurnsKnown',
           j.op \notin {"advance", "convert"},
           j.op = "cancel" => UNCHANGED docs /\ j.snap = Read(j.id),
           \A i \in DOMAIN docs :
              docs'[i] = docs[i] \/ docs'[i].collected # 0
                                 \/ docs'[i].status = "Cancelada"
    PROVE  FloorInv'
  <1>1. ASSUME NEW u \in Terminals, u # t PROVE FloorJob(u)'
    <2>1. job'[u] = job[u] /\ FloorJob(u) /\ JobOK(u)
      BY <1>1 DEF FloorInv, BooksInv, TypeOK, JobsInv
    <2>2. ASSUME job[u].op = "cancel", docs'[job[u].id].collected = 0,
                 docs'[job[u].id].status # "Cancelada"
          PROVE  job[u].snap = Read(job[u].id)'
      <3>1. job[u].id \in DOMAIN docs
        BY <2>1, <2>2 DEF JobOK
      <3>2. docs'[job[u].id] = docs[job[u].id]
        BY <2>2, <3>1
      <3>3. job[u].snap = Read(job[u].id)
        BY <2>1, <2>2, <3>2 DEF FloorJob, CancelReads
      <3> QED
        BY <2>1, <3>2, <3>3 DEF Read
    <2> QED
      BY <2>1, <2>2 DEF FloorJob, CancelReads, Read
  <1>2. FloorJob(t)'
    <2>1. job'[t] = j
      BY DEF FloorInv, BooksInv, TypeOK
    <2> QED
      BY <2>1 DEF FloorJob, CancelReads, Read
  <1> QED
    BY <1>1, <1>2 DEF FloorInv

(* A handler that starts: books and till stay, and what it reads is so. *)
LEMMA FloorStart ==
    ASSUME FloorInv, BooksInv', NEW t \in Terminals, NEW j,
           job' = [job EXCEPT ![t] = j], UNCHANGED <<books, cash>>,
           j.op \notin {"advance", "convert"},
           j.op = "cancel" => j.snap = Read(j.id)
    PROVE  FloorInv'
  <1>1. UNCHANGED <<docs, owed, till, moved>>
    BY DEF books, cash
  <1>2. TillListsItsSales' /\ DebtIsOpenCredit' /\ TurnsKnown'
    BY <1>1 DEF FloorInv, TillListsItsSales, DebtIsOpenCredit, OpenCredit, TurnsKnown
  <1> QED
    BY <1>1, <1>2, FloorMove

LEMMA FloorCheck ==
    ASSUME NothingAdvanced, FloorInv, BooksInv', NEW t \in Terminals,
           Check(t) \/ Abandon(t)
    PROVE  FloorInv'
  <1>1. ASSUME NEW c, NEW total, NEW credit, SellCheck(t, c, total, credit)
        PROVE  FloorInv'
    <2> DEFINE j == [Idle EXCEPT !.op = "sale", !.client = c, !.amount = total,
                                 !.credit = credit]
    <2>1. j.op = "sale" /\ job' = [job EXCEPT ![t] = j] /\ UNCHANGED <<books, cash>>
      BY <1>1 DEF SellCheck, Start, Idle
    <2> HIDE DEF j
    <2> QED
      BY <2>1, FloorStart
  <1>2. ASSUME NEW id, CancelCheck(t, id) PROVE FloorInv'
    <2> DEFINE j == [Idle EXCEPT !.op = "cancel", !.id = id, !.snap = Read(id)]
    <2>1. /\ j.op = "cancel" /\ j.id = id /\ j.snap = Read(id)
          /\ job' = [job EXCEPT ![t] = j] /\ UNCHANGED <<books, cash>>
      BY <1>2 DEF CancelCheck, Start, Idle
    <2> HIDE DEF j
    <2> QED
      BY <2>1, FloorStart
  <1>3. ASSUME NEW id, NEW amount, AbonoCheck(t, id, amount) PROVE FloorInv'
    <2> DEFINE j == [Idle EXCEPT !.op = "abono", !.id = id, !.amount = amount,
                                 !.snap = Read(id)]
    <2>1. j.op = "abono" /\ job' = [job EXCEPT ![t] = j] /\ UNCHANGED <<books, cash>>
      BY <1>3 DEF AbonoCheck, Start, Idle
    <2> HIDE DEF j
    <2> QED
      BY <2>1, FloorStart
  <1>4. ASSUME NEW id, NEW amount, CreditNoteCheck(t, id, amount) PROVE FloorInv'
    <2> DEFINE j == [Idle EXCEPT !.op = "creditNote", !.id = id, !.amount = amount]
    <2>1. /\ j.op = "creditNote" /\ job' = [job EXCEPT ![t] = j]
          /\ UNCHANGED <<books, cash>>
      BY <1>4 DEF CreditNoteCheck, Start, Idle
    <2> HIDE DEF j
    <2> QED
      BY <2>1, FloorStart
  <1>5. ASSUME NEW id, NEW to, AdvanceCheck(t, id, to) \/ ConvertCheck(t, id, to)
        PROVE  FALSE
    BY <1>5 DEF AdvanceCheck, ConvertCheck, NothingAdvanced
  <1>6. CASE OpenCheck(t) \/ CloseCheck(t)
    <2> DEFINE j(op, n) == [Idle EXCEPT !.op = op, !.amount = n]
    <2>1. /\ \E op \in {"open", "close"}, n \in {OpeningAmount, Expected} :
                job' = [job EXCEPT ![t] = j(op, n)]
          /\ UNCHANGED <<books, cash>>
      BY <1>6 DEF OpenCheck, CloseCheck, Start
    <2>2. \A op, n : j(op, n).op = op
      BY DEF Idle
    <2> HIDE DEF j
    <2> QED
      BY <2>1, <2>2, FloorStart
  <1>7. CASE Abandon(t)
    <2>1. Idle.op = "idle"
      BY DEF Idle
    <2> QED
      BY <1>7, <2>1, FloorStart DEF Abandon, Finish
  <1> QED
    BY <1>1, <1>2, <1>3, <1>4, <1>5, <1>6, <1>7 DEF Check

(* DebtIsOpenCredit, as a sum over all the rows. *)
LEMMA DebtMeans ==
    ASSUME FloorInv, NEW c \in Clients,
           \A i \in DOMAIN docs : docs[i].client = c => docs[i].collected = 0
    PROVE  owed[c] = SumOf(CreditOf(docs, c), DOMAIN docs)
  <1>1. owed[c] = OpenCredit(c)
    BY DEF FloorInv, DebtIsOpenCredit
  <1>2. docs \in Seq(DocType)
    BY DEF FloorInv, BooksInv, TypeOK
  <1> QED
    BY <1>1, <1>2, OpenCreditRows DEF OpenCredit

LEMMA DebtAfter ==
    ASSUME BooksInv',
           \A c \in Clients :
              (\A i \in DOMAIN docs' : docs'[i].client = c => docs'[i].collected = 0)
                 => owed'[c] = SumOf(CreditOf(docs', c), DOMAIN docs')
    PROVE  DebtIsOpenCredit'
  <1>1. docs' \in Seq(DocType)
    BY DEF BooksInv, TypeOK
  <1>2. \A c : OpenCredit(c)' = SumOf(CreditOf(docs', c), DOMAIN docs')
    BY <1>1, OpenCreditRows DEF OpenCredit
  <1> QED
    BY <1>2 DEF DebtIsOpenCredit

(* The till stays and the documents change in nothing its list depends on. *)
LEMMA ListAfter ==
    ASSUME BooksInv, TillListsItsSales, till' = till,
           DOMAIN docs \subseteq DOMAIN docs',
           \A i \in DOMAIN docs : docs'[i].total = docs[i].total,
           \A k \in DOMAIN docs' :
              docs'[k].collected = 0 =>
                 \/ /\ k \in DOMAIN docs /\ docs[k].collected = 0
                    /\ docs'[k].turn = docs[k].turn
                    /\ docs'[k].status = "Cancelada" <=> docs[k].status = "Cancelada"
                 \/ k \notin DOMAIN docs /\ docs'[k].turn = 0
    PROVE  TillListsItsSales'
  <1> SUFFICES ASSUME till.open
               PROVE  /\ \A i \in DOMAIN docs' :
                            docs'[i].collected = 0 =>
                               (i \in till.sales <=>
                                   /\ docs'[i].turn = till.turn
                                   /\ docs'[i].status # "Cancelada")
                      /\ till.takings = SumOf(TotalOf(docs'), till.sales)
    BY DEF TillListsItsSales, TotalOf
  <1>1. till.sales \subseteq DOMAIN docs /\ till.turn # 0
    BY Rows DEF BooksInv, TillInv
  <1>2. till.takings = SumOf(TotalOf(docs), till.sales)
    BY DEF TillListsItsSales, TotalOf
  <1>3. SumOf(TotalOf(docs'), till.sales) = SumOf(TotalOf(docs), till.sales)
    BY ListedSum
  <1>4. \A i \in DOMAIN docs :
           docs[i].collected = 0 =>
              (i \in till.sales <=> /\ docs[i].turn = till.turn
                                    /\ docs[i].status # "Cancelada")
    BY DEF TillListsItsSales
  <1> QED
    BY <1>1, <1>2, <1>3, <1>4

(* A sale joins the list of the open turn and the client's debt. *)
LEMMA SellKeepsFloor ==
    ASSUME FloorInv, BooksInv', NEW t \in Terminals, SellCommit(t)
    PROVE  FloorInv'
  <1> DEFINE j == job[t]
             d == Ticket(j)
             n == Len(docs) + 1
  <1>0. BooksInv
    BY DEF FloorInv
  <1>1. /\ j \in JobType /\ j.amount \in Nat /\ j.credit \in Nat
    BY <1>0, Rows DEF JobType, BooksInv, JobsInv, JobOK, SellCommit, Running
  <1>2. /\ Finish(t) /\ docs' = Append(docs, d) /\ RecordSale(n, j.amount)
        /\ IF j.credit > 0 THEN j.client \in Clients /\ AddCredit(j.client, j.credit)
                            ELSE UNCHANGED owed
    BY DEF SellCommit
  <1>3. /\ d.client = j.client /\ d.total = j.amount /\ d.collected = 0
        /\ d.turn = IF till.open THEN till.turn ELSE 0
        /\ d.status = IF j.credit > 0 THEN "Pendiente" ELSE "Pagada"
        /\ d.balance = j.credit
    BY DEF Ticket, SoldBalance
  <1> HIDE DEF d, j
  <1>4. Added(d)
    BY <1>0, <1>2, AddedBy
  <1> HIDE DEF n
  <1>5. /\ n = Len(docs) + 1 /\ n \notin DOMAIN docs /\ docs'[n] = d
        /\ DOMAIN docs' = DOMAIN docs \cup {n}
        /\ \A k \in DOMAIN docs : docs'[k] = docs[k]
    BY <1>4 DEF Added, Grown, n
  <1>6. DebtIsOpenCredit'
    <2>1. ASSUME NEW c \in Clients,
                 \A i \in DOMAIN docs' : docs'[i].client = c => docs'[i].collected = 0
          PROVE  owed'[c] = SumOf(CreditOf(docs', c), DOMAIN docs')
      <3> DEFINE u == CreditOf(docs, c)
                 v == CreditOf(docs', c)
      <3>1. owed[c] = SumOf(u, DOMAIN docs)
        BY <1>5, <2>1, DebtMeans
      <3>2. /\ \A k \in DOMAIN docs : u[k] \in Int /\ v[k] = u[k]
            /\ v[n] = IF d.client = c /\ d.status = "Pendiente" THEN d.balance ELSE 0
        <4>1. \A k \in DOMAIN docs : u[k] \in Nat
          BY <1>0, CreditRows
        <4> QED
          BY <1>5, <4>1 DEF CreditOf
      <3>3. v[n] = IF j.client = c THEN j.credit ELSE 0
        BY <1>1, <1>3, <3>2
      <3>4. owed'[c] = owed[c] + v[n]
        <4>1. owed \in [Clients -> Nat]
          BY <1>0 DEF BooksInv, TypeOK
        <4> QED
          BY <1>1, <1>2, <3>3, <4>1 DEF AddCredit
      <3> HIDE DEF u, v
      <3>5. SumOf(v, DOMAIN docs') = SumOf(u, DOMAIN docs) + v[n]
        <4>1. v[Len(docs) + 1] \in Int
          BY <1>1, <1>5, <3>3
        <4>2. SumOf(v, DOMAIN docs') = SumOf(u, DOMAIN docs) + v[Len(docs) + 1]
          BY <1>0, <1>4, <3>2, <4>1, AddedSum DEF Added
        <4> QED
          BY <1>5, <4>2
      <3> QED
        BY <3>1, <3>4, <3>5 DEF v
    <2> QED
      BY <2>1, DebtAfter
  <1>7. TurnsKnown' /\ DOMAIN moved' = DOMAIN moved
    <2>1. DOMAIN moved' = DOMAIN moved
      BY <1>2 DEF RecordSale
    <2>2. d.turn \in {0} \cup DOMAIN moved
      BY <1>0, <1>3 DEF BooksInv, TillInv
    <2>3. \A i \in DOMAIN docs : docs[i].turn \in {0} \cup DOMAIN moved
      BY DEF FloorInv, TurnsKnown
    <2> QED
      BY <1>5, <2>1, <2>2, <2>3 DEF TurnsKnown
  <1>8. TillListsItsSales'
    <2>1. CASE ~ till.open
      BY <1>2, <2>1 DEF RecordSale, TillListsItsSales
    <2>2. CASE till.open
      <3>1. /\ till'.open = till.open /\ till'.turn = till.turn
            /\ till'.sales = till.sales \cup {n}
            /\ till'.takings = till.takings + j.amount
            /\ till.sales \subseteq DOMAIN docs
        BY <1>0, <1>2, <2>2 DEF RecordSale, BooksInv, TypeOK, TillType, TillInv
      <3>2. \A i \in DOMAIN docs :
               docs[i].collected = 0 =>
                  (i \in till.sales <=> /\ docs[i].turn = till.turn
                                        /\ docs[i].status # "Cancelada")
        BY <2>2 DEF FloorInv, TillListsItsSales
      <3>3. \A i \in DOMAIN docs' :
               docs'[i].collected = 0 =>
                  (i \in till'.sales <=> /\ docs'[i].turn = till'.turn
                                         /\ docs'[i].status # "Cancelada")
        BY <1>3, <1>5, <2>2, <3>1, <3>2
      <3>4. till'.takings = SumOf(TotalOf(docs'), till'.sales)
        <4>1. till.takings = SumOf(TotalOf(docs), till.sales)
          BY <2>2 DEF FloorInv, TillListsItsSales, TotalOf
        <4>2. /\ IsFiniteSet(till.sales)
              /\ \A i \in till.sales : TotalOf(docs')[i] \in Int
              /\ SumOf(TotalOf(docs'), till.sales) = SumOf(TotalOf(docs), till.sales)
          BY <1>0, <1>5, ListedSum
        <4>3. TotalOf(docs')[n] = j.amount /\ n \notin till.sales
          BY <1>3, <1>5, <3>1 DEF TotalOf
        <4>4. SumOf(TotalOf(docs'), till.sales \cup {n}) =
                 SumOf(TotalOf(docs'), till.sales) + TotalOf(docs')[n]
          BY <1>1, <4>2, <4>3, SumWith
        <4> QED
          BY <3>1, <4>1, <4>2, <4>3, <4>4
      <3> QED
        BY <3>3, <3>4 DEF TillListsItsSales, TotalOf
    <2> QED
      BY <2>1, <2>2
  <1>9. Idle.op = "idle"
    BY DEF Idle
  <1> QED
    BY <1>2, <1>5, <1>6, <1>7, <1>8, <1>9, FloorMove DEF Finish

(* The rows a cancellation and a payment write keep everything else. *)
LEMMA WrittenRows ==
    ASSUME NEW r \in DocType
    PROVE  /\ \A s, b : LET d == WithBalance(r, s, b) IN
                 /\ d.client = r.client /\ d.type = r.type /\ d.turn = r.turn
                 /\ d.total = r.total /\ d.collected = r.collected
                 /\ d.paid = r.paid /\ d.status = s /\ d.balance = b
           /\ \A p, b, s, n : LET d == WithPayment(r, p, b, s, n) IN
                 /\ d.client = r.client /\ d.type = r.type /\ d.turn = r.turn
                 /\ d.total = r.total /\ d.collected = n
                 /\ d.paid = p /\ d.status = s /\ d.balance = b
  BY DEF WithBalance, WithPayment, DocType

(* A cancelled sale leaves the list, and its credit the client's debt, by what
   the row said when the cancellation read it. *)
LEMMA CancelKeepsFloor ==
    ASSUME FloorInv, BooksInv', NEW t \in Terminals, CancelCommit(t)
    PROVE  FloorInv'
  <1> DEFINE j == job[t]
             i == j.id
             r == docs[i]
             d == WithBalance(r, "Cancelada", 0)
             b == j.snap.balance
  <1>0. BooksInv
    BY DEF FloorInv
  <1>1. j \in JobType /\ i \in DOMAIN docs /\ r \in DocType /\ b \in Int
        /\ j.op = "cancel" /\ r.status # "Cancelada"
    BY <1>0, JobDoc DEF CancelCommit, Running, StillLive, JobType, Snapshot
  <1>2. /\ Finish(t) /\ docs' = [docs EXCEPT ![i] = d] /\ ReverseSale(i)
        /\ IF j.snap.status = "Pendiente" /\ b > 0
           THEN r.client \in Clients /\ owed' = PayCredit(r.client, b)
           ELSE UNCHANGED owed
    BY DEF CancelCommit, WithBalance
  <1>3. r.collected = 0 => j.snap.status = r.status /\ b = r.balance
    <2>1. r.collected = 0 => j.snap = Read(i)
      BY <1>1 DEF FloorInv, FloorJob, CancelReads
    <2> QED
      BY <2>1 DEF Read
  <1>4. /\ d.client = r.client /\ d.turn = r.turn /\ d.total = r.total
        /\ d.collected = r.collected /\ d.status = "Cancelada"
    BY <1>1, WrittenRows
  <1> HIDE DEF d
  <1>5. Rewritten(i, d)
    BY <1>1, <1>2, RewrittenBy
  <1>6. /\ DOMAIN docs' = DOMAIN docs /\ docs'[i] = d
        /\ \A k \in DOMAIN docs : k # i => docs'[k] = docs[k]
        /\ \A k \in DOMAIN docs : docs'[k].total = docs[k].total
    BY <1>1, <1>4, <1>5 DEF Rewritten
  <1> HIDE DEF i, r, j, b
  <1>7. DebtIsOpenCredit'
    <2>1. ASSUME NEW c \in Clients,
                 \A k \in DOMAIN docs' : docs'[k].client = c => docs'[k].collected = 0
          PROVE  owed'[c] = SumOf(CreditOf(docs', c), DOMAIN docs')
      <3> DEFINE u == CreditOf(docs, c)
                 v == CreditOf(docs', c)
      <3>1. owed[c] = SumOf(u, DOMAIN docs)
        <4>1. \A k \in DOMAIN docs : docs[k].client = c => docs[k].collected = 0
          BY <1>1, <1>4, <1>6, <2>1 DEF r
        <4> QED
          BY <4>1, DebtMeans
      <3>2. /\ \A k \in DOMAIN docs : u[k] \in Int /\ (k # i => v[k] = u[k])
            /\ v[i] = 0 /\ u[i] \in Nat
            /\ u[i] = IF r.client = c /\ r.status = "Pendiente" THEN r.balance ELSE 0
        <4>1. \A k \in DOMAIN docs : u[k] \in Nat
          BY <1>0, CreditRows
        <4>2. \A k \in DOMAIN docs : u[k] \in Int
          BY <4>1
        <4>3. \A k \in DOMAIN docs : k # i => v[k] = u[k]
          BY <1>6 DEF CreditOf
        <4>4. v[i] = 0
          BY <1>1, <1>4, <1>6 DEF CreditOf
        <4>5. u[i] = IF r.client = c /\ r.status = "Pendiente" THEN r.balance ELSE 0
          BY <1>1 DEF CreditOf, r
        <4> QED
          BY <1>1, <4>1, <4>2, <4>3, <4>4, <4>5
      <3> HIDE DEF u, v
      <3>3. /\ SumOf(u, DOMAIN docs) \in Int
            /\ SumOf(v, DOMAIN docs') = SumOf(u, DOMAIN docs) + (0 - u[i])
        <4>1. v[i] \in Int
          BY <3>2
        <4> QED
          BY <1>0, <1>5, <3>2, <4>1, RewrittenSum
      <3>4. SumOf(v, DOMAIN docs') \in Nat
        <4>1. SumOf(CreditOf(docs', c), DOMAIN docs') \in Nat
          <5>1. /\ IsFiniteSet(DOMAIN docs')
                /\ \A k \in DOMAIN docs' : docs'[k] \in DocType /\ docs'[k].balance >= 0
            BY TableKeys DEF BooksInv, TypeOK, OpenBalanceIsUnpaid, BalanceIsUnpaid
          <5>2. \A k \in DOMAIN docs' : docs'[k].balance \in Nat
            BY <5>1 DEF DocType
          <5>3. \A k \in DOMAIN docs' : CreditOf(docs', c)[k] \in Nat
            BY <5>2 DEF CreditOf
          <5> QED
            BY <5>1, <5>3, SumNat
        <4> QED
          BY <4>1 DEF v
      <3>5. owed \in [Clients -> Nat]
        BY <1>0 DEF BooksInv, TypeOK
      <3>6. CASE r.client = c
        <4>1. j.snap.status = r.status /\ b = r.balance /\ r.balance >= 0
          <5>1. r.collected = 0
            BY <1>1, <1>4, <1>6, <2>1, <3>6
          <5>2. r.balance >= 0
            BY <1>0, <1>1 DEF BooksInv, OpenBalanceIsUnpaid, BalanceIsUnpaid, r
          <5> QED
            BY <1>3, <5>1, <5>2
        <4>2. CASE r.status = "Pendiente" /\ b > 0
          <5>1. owed' = PayCredit(c, b) /\ u[i] = b
            BY <1>2, <3>2, <3>6, <4>1, <4>2
          <5>2. owed'[c] = Max0(owed[c] - b)
            BY <3>5, <5>1 DEF PayCredit
          <5>3. owed[c] - b = SumOf(v, DOMAIN docs')
            BY <1>1, <3>1, <3>3, <5>1
          <5> QED
            BY <3>4, <5>2, <5>3 DEF Max0, v
        <4>3. CASE ~ (r.status = "Pendiente" /\ b > 0)
          <5>1. owed' = owed
            BY <1>2, <4>1, <4>3
          <5>2. u[i] = 0
            BY <1>1, <3>2, <4>1, <4>3
          <5> QED
            BY <3>1, <3>3, <5>1, <5>2 DEF v
        <4> QED
          BY <4>2, <4>3
      <3>7. CASE r.client # c
        <4>1. owed'[c] = owed[c]
          BY <1>2, <3>5, <3>7 DEF PayCredit
        <4>2. u[i] = 0
          BY <3>2, <3>7
        <4> QED
          BY <3>1, <3>3, <4>1, <4>2 DEF v
      <3> QED
        BY <3>6, <3>7
    <2> QED
      BY <2>1, DebtAfter
  <1>8. TurnsKnown'
    <2>1. DOMAIN moved' = DOMAIN moved
      BY <1>2 DEF ReverseSale
    <2>2. \A k \in DOMAIN docs : docs'[k].turn = docs[k].turn
      BY <1>1, <1>4, <1>6 DEF r
    <2> QED
      BY <1>6, <2>1, <2>2 DEF FloorInv, TurnsKnown
  <1>9. TillListsItsSales'
    <2>0. /\ \A k \in till.sales : TotalOf(docs')[k] \in Int
          /\ IsFiniteSet(till.sales)
          /\ SumOf(TotalOf(docs'), till.sales) = SumOf(TotalOf(docs), till.sales)
          /\ SumOf(TotalOf(docs), till.sales) \in Int
      BY <1>0, <1>6, ListedSum
    <2>1. till.open =>
             /\ \A k \in DOMAIN docs :
                   docs[k].collected = 0 =>
                      (k \in till.sales <=> /\ docs[k].turn = till.turn
                                            /\ docs[k].status # "Cancelada")
             /\ till.takings = SumOf(TotalOf(docs), till.sales)
      BY DEF FloorInv, TillListsItsSales, TotalOf
    <2>2. CASE InTurn(i)
      <3>1. /\ till.open /\ i \in till.sales /\ till'.turn = till.turn
            /\ till'.sales = till.sales \ {i}
            /\ till'.takings = till.takings - r.total
        BY <1>0, <1>2, <2>2
           DEF ReverseSale, InTurn, BooksInv, TypeOK, TillType, r
      <3>2. \A k \in DOMAIN docs' :
               docs'[k].collected = 0 =>
                  (k \in till'.sales <=> /\ docs'[k].turn = till'.turn
                                         /\ docs'[k].status # "Cancelada")
        BY <1>1, <1>4, <1>6, <2>1, <3>1
      <3>3. till'.takings = SumOf(TotalOf(docs'), till'.sales)
        <4>1. TotalOf(docs')[i] = r.total
          BY <1>1, <1>4, <1>6 DEF TotalOf
        <4>2. SumOf(TotalOf(docs'), till.sales) =
                 TotalOf(docs')[i] + SumOf(TotalOf(docs'), till.sales \ {i})
          BY <2>0, <3>1, SumApart
        <4>3. SumOf(TotalOf(docs'), till.sales \ {i}) \in Int /\ r.total \in Int
          <5>1. IsFiniteSet(till.sales \ {i})
            BY <2>0, FS_Subset
          <5>2. SumOf(TotalOf(docs'), till.sales \ {i}) \in Int
            BY <2>0, <5>1, SumInt
          <5> QED
            BY <1>1, <5>2 DEF DocType
        <4> QED
          BY <2>0, <2>1, <3>1, <4>1, <4>2, <4>3
      <3> QED
        BY <3>2, <3>3 DEF TillListsItsSales, TotalOf
    <2>3. CASE ~ InTurn(i)
      <3>1. till' = till
        BY <1>2, <2>3 DEF ReverseSale
      <3>2. till.open =>
               \A k \in DOMAIN docs' :
                  docs'[k].collected = 0 =>
                     (k \in till.sales <=> /\ docs'[k].turn = till.turn
                                           /\ docs'[k].status # "Cancelada")
        BY <1>1, <1>4, <1>6, <2>1, <2>3 DEF InTurn
      <3> QED
        BY <2>0, <2>1, <3>1, <3>2 DEF TillListsItsSales, TotalOf
    <2> QED
      BY <2>2, <2>3
  <1>10. Idle.op = "idle"
    BY DEF Idle
  <1>11. \A k \in DOMAIN docs : docs'[k] = docs[k] \/ docs'[k].status = "Cancelada"
    BY <1>4, <1>6
  <1> QED
    BY <1>2, <1>7, <1>8, <1>9, <1>10, <1>11, FloorMove DEF Finish

(* An instalment: its client's debt is no longer the sum of the balances, and
   every other client's still is. *)
LEMMA AbonoKeepsFloor ==
    ASSUME FloorInv, BooksInv', NEW t \in Terminals, AbonoCommit(t)
    PROVE  FloorInv'
  <1> DEFINE j == job[t]
             i == j.id
             r == docs[i]
             d == WithPayment(r, PaidAfter(j), IF Settled(j) THEN 0 ELSE Left(j),
                              IF Settled(j) THEN "Pagada" ELSE j.snap.status,
                              r.collected + j.amount)
  <1>0. BooksInv
    BY DEF FloorInv
  <1>1. j \in JobType /\ i \in DOMAIN docs /\ r \in DocType /\ j.amount > 0
    <2>1. j.op = "abono" /\ JobOK(t)
      BY <1>0 DEF AbonoCommit, Running, BooksInv, JobsInv
    <2> QED
      BY <1>0, <2>1, JobDoc DEF JobOK
  <1>2. /\ Finish(t) /\ docs' = [docs EXCEPT ![i] = d] /\ UNCHANGED cash
        /\ \A c \in Clients : c # r.client => owed'[c] = owed[c]
    BY <1>0 DEF AbonoCommit, WithPayment, PayCredit, BooksInv, TypeOK
  <1>3. /\ d.client = r.client /\ d.turn = r.turn /\ d.total = r.total
        /\ d.collected = r.collected + j.amount
    BY <1>1, WrittenRows
  <1>4. d.collected # 0
    BY <1>1, <1>3 DEF DocType, JobType
  <1> HIDE DEF d
  <1>5. Rewritten(i, d)
    BY <1>1, <1>2, RewrittenBy
  <1>6. /\ DOMAIN docs' = DOMAIN docs /\ docs'[i] = d
        /\ \A k \in DOMAIN docs : k # i => docs'[k] = docs[k]
        /\ \A k \in DOMAIN docs : docs'[k].total = docs[k].total
        /\ \A k \in DOMAIN docs : docs'[k].turn = docs[k].turn
    BY <1>1, <1>3, <1>5 DEF Rewritten
  <1> HIDE DEF i, j
  <1>7. DebtIsOpenCredit'
    <2>1. ASSUME NEW c \in Clients,
                 \A k \in DOMAIN docs' : docs'[k].client = c => docs'[k].collected = 0
          PROVE  owed'[c] = SumOf(CreditOf(docs', c), DOMAIN docs')
      <3>1. r.client # c
        BY <1>1, <1>3, <1>4, <1>6, <2>1
      <3>2. \A k \in DOMAIN docs : docs[k].client = c => docs[k].collected = 0
        BY <1>1, <1>3, <1>6, <2>1, <3>1
      <3>3. \A k \in DOMAIN docs : CreditOf(docs', c)[k] = CreditOf(docs, c)[k]
        BY <1>1, <1>3, <1>6, <3>1 DEF CreditOf
      <3>4. IsFiniteSet(DOMAIN docs)
        BY <1>0, TableKeys DEF BooksInv, TypeOK
      <3>5. SumOf(CreditOf(docs', c), DOMAIN docs) = SumOf(CreditOf(docs, c), DOMAIN docs)
        BY <3>3, <3>4, SumSame
      <3> QED
        BY <1>2, <1>6, <3>1, <3>2, <3>5, DebtMeans
    <2> QED
      BY <2>1, DebtAfter
  <1>8. TurnsKnown'
    BY <1>2, <1>6 DEF cash, FloorInv, TurnsKnown
  <1>9. TillListsItsSales'
    <2>1. till' = till /\ TillListsItsSales
      BY <1>2 DEF cash, FloorInv
    <2>2. \A k \in DOMAIN docs' :
             docs'[k].collected = 0 => k \in DOMAIN docs /\ docs'[k] = docs[k]
      BY <1>4, <1>6
    <2> QED
      BY <1>0, <1>6, <2>1, <2>2, ListAfter
  <1>10. Idle.op = "idle"
    BY DEF Idle
  <1>11. \A k \in DOMAIN docs : docs'[k] = docs[k] \/ docs'[k].collected # 0
    BY <1>4, <1>6
  <1> QED
    BY <1>2, <1>7, <1>8, <1>9, <1>10, <1>11, FloorMove DEF Finish

(* A document that is no sale: nobody owes it and no turn lists it. *)
LEMMA DocumentKeepsFloor ==
    ASSUME FloorInv, BooksInv', NEW t \in Terminals,
           NEW type \in DocTypes, NEW c0, NEW total, NEW parent,
           Create(NewDoc(type, c0, total, parent)), UNCHANGED <<owed, cash>>,
           job' = job \/ Finish(t)
    PROVE  FloorInv'
  <1> DEFINE d == NewDoc(type, c0, total, parent)
             n == Len(docs) + 1
  <1>0. BooksInv
    BY DEF FloorInv
  <1>1. d.collected = 0 /\ d.turn = 0 /\ d.status # "Pendiente"
    BY DEF NewDoc, DocTypes
  <1>2. Added(d)
    BY <1>0, AddedBy DEF Create
  <1> HIDE DEF d
  <1>3. /\ n = Len(docs) + 1 /\ n \notin DOMAIN docs /\ docs'[n] = d
        /\ DOMAIN docs' = DOMAIN docs \cup {n}
        /\ \A k \in DOMAIN docs : docs'[k] = docs[k]
    BY <1>2 DEF Added, Grown
  <1> HIDE DEF n
  <1>4. DebtIsOpenCredit'
    <2>1. ASSUME NEW c \in Clients,
                 \A k \in DOMAIN docs' : docs'[k].client = c => docs'[k].collected = 0
          PROVE  owed'[c] = SumOf(CreditOf(docs', c), DOMAIN docs')
      <3> DEFINE u == CreditOf(docs, c)
                 v == CreditOf(docs', c)
      <3>1. owed[c] = SumOf(u, DOMAIN docs)
        BY <1>3, <2>1, DebtMeans
      <3>2. \A k \in DOMAIN docs : u[k] \in Int /\ v[k] = u[k]
        <4>1. \A k \in DOMAIN docs : u[k] \in Nat
          BY <1>0, CreditRows
        <4> QED
          BY <1>3, <4>1 DEF CreditOf
      <3>3. v[n] = 0
        BY <1>1, <1>3 DEF CreditOf
      <3>4. SumOf(u, DOMAIN docs) \in Nat
        BY <1>0, CreditRows
      <3> HIDE DEF u, v
      <3>5. SumOf(v, DOMAIN docs') = SumOf(u, DOMAIN docs) + v[Len(docs) + 1]
        <4>1. v[Len(docs) + 1] \in Int
          BY <1>3, <3>3
        <4> QED
          BY <1>0, <1>2, <3>2, <4>1, AddedSum DEF Added
      <3> QED
        BY <1>3, <3>1, <3>3, <3>4, <3>5 DEF v
    <2> QED
      BY <2>1, DebtAfter
  <1>5. TurnsKnown'
    BY <1>1, <1>3 DEF cash, FloorInv, TurnsKnown
  <1>6. TillListsItsSales'
    <2>1. till' = till /\ TillListsItsSales
      BY DEF cash, FloorInv
    <2> QED
      BY <1>0, <1>1, <1>3, <2>1, ListAfter
  <1>7. CASE Finish(t)
    <2>1. Idle.op = "idle"
      BY DEF Idle
    <2> QED
      BY <1>3, <1>4, <1>5, <1>6, <1>7, <2>1, FloorMove DEF Finish
  <1>8. CASE job' = job
    <2>1. ASSUME NEW u \in Terminals PROVE FloorJob(u)'
      <3>1. FloorJob(u) /\ JobOK(u)
        BY DEF FloorInv, BooksInv, JobsInv
      <3>2. job[u].op = "cancel" => docs'[job[u].id] = docs[job[u].id]
        BY <1>3, <3>1 DEF JobOK
      <3> QED
        BY <1>8, <3>1, <3>2 DEF FloorJob, CancelReads, Read
    <2> QED
      BY <1>4, <1>5, <1>6, <2>1 DEF FloorInv
  <1> QED
    BY <1>7, <1>8

LEMMA DocumentsKeepFloor ==
    ASSUME FloorInv, BooksInv', NEW t \in Terminals,
           CreditNoteCommit(t) \/ OneStep(t)
    PROVE  FloorInv'
  <1>1. {"Nota credito", "Nota cargo"} \cup Kinds \subseteq DocTypes
    BY SalesAssumption DEF DocTypes
  <1>2. CASE CreditNoteCommit(t)
    <2>1. /\ UNCHANGED <<owed, cash>> /\ Finish(t)
          /\ Create(NewDoc("Nota credito", docs[job[t].id].client, job[t].amount,
                           job[t].id))
      BY <1>2 DEF CreditNoteCommit
    <2> QED
      BY <1>1, <2>1, DocumentKeepsFloor
  <1>3. CASE OneStep(t)
    <2>1. PICK type \in Kinds \cup {"Nota cargo"} : \E c, total, parent :
             /\ Create(NewDoc(type, c, total, parent))
             /\ UNCHANGED <<owed, cash, job>>
      BY <1>3 DEF OneStep, CreateDoc, DebitNote
    <2>2. PICK c, total, parent :
             /\ Create(NewDoc(type, c, total, parent))
             /\ UNCHANGED <<owed, cash, job>>
      BY <2>1
    <2> QED
      BY <1>1, <2>2, DocumentKeepsFloor
  <1> QED
    BY <1>2, <1>3

(* A turn opens with an empty list, and none of the sales was made in it; a
   till that is closed lists nothing. *)
LEMMA TurnsKeepFloor ==
    ASSUME FloorInv, BooksInv', NEW t \in Terminals, OpenCommit(t) \/ CloseCommit(t)
    PROVE  FloorInv'
  <1>0. BooksInv
    BY DEF FloorInv
  <1>1. Finish(t) /\ docs' = docs /\ owed' = owed
    BY DEF OpenCommit, CloseCommit, books
  <1>2. DebtIsOpenCredit'
    BY <1>1 DEF FloorInv, DebtIsOpenCredit, OpenCredit
  <1>3. TurnsKnown' /\ TillListsItsSales'
    <2>1. CASE OpenCommit(t)
      <3> DEFINE n == Len(moved) + 1
      <3>1. till' = Opened(n, job[t].amount) /\ moved' = Append(moved, job[t].amount)
        BY <2>1 DEF OpenCommit
      <3>2. n \notin {0} \cup DOMAIN moved
        BY <1>0, Rows
      <3>3. DOMAIN moved \subseteq DOMAIN moved'
        BY <1>0, <3>1, Rows DEF BooksInv, TypeOK
      <3>4. \A i \in DOMAIN docs : docs[i].turn \in {0} \cup DOMAIN moved
        BY DEF FloorInv, TurnsKnown
      <3> HIDE DEF n
      <3>5. till'.turn = n /\ till'.sales = {} /\ till'.takings = 0
        BY <3>1 DEF Opened
      <3>6. SumOf([i \in DOMAIN docs' |-> docs'[i].total], {}) = 0
        BY SumEmpty
      <3> QED
        BY <1>1, <3>2, <3>3, <3>4, <3>5, <3>6 DEF TurnsKnown, TillListsItsSales
    <2>2. CASE CloseCommit(t)
      BY <1>1, <2>2 DEF CloseCommit, Closed, FloorInv, TurnsKnown, TillListsItsSales
    <2> QED
      BY <2>1, <2>2
  <1>4. Idle.op = "idle"
    BY DEF Idle
  <1> QED
    BY <1>1, <1>2, <1>3, <1>4, FloorMove DEF Finish

LEMMA FloorNext ==
    ASSUME NothingAdvanced, FloorInv, [Next]_vars
    PROVE  FloorInv'
  <1>0. BooksInv'
    BY BooksNext DEF FloorInv
  <1>1. CASE UNCHANGED vars
    <2>1. UNCHANGED <<docs, owed, till, moved, job>>
      BY <1>1 DEF vars, books, cash
    <2> QED
      BY <1>0, <2>1
         DEF FloorInv, TillListsItsSales, DebtIsOpenCredit, OpenCredit, TurnsKnown,
             FloorJob, CancelReads, Read
  <1>2. ASSUME NEW t \in Terminals, Check(t) \/ Commit(t) \/ OneStep(t) \/ Abandon(t)
        PROVE  FloorInv'
    <2>1. job[t].op \notin {"advance", "convert"}
      BY DEF FloorInv, FloorJob
    <2>2. CASE Commit(t)
      BY <1>0, <2>1, <2>2, SellKeepsFloor, CancelKeepsFloor, AbonoKeepsFloor,
         DocumentsKeepFloor, TurnsKeepFloor
         DEF Commit, AdvanceCommit, ConvertCommit, Running
    <2> QED
      BY <1>0, <1>2, <2>2, FloorCheck, DocumentsKeepFloor
  <1> QED
    BY <1>1, <1>2 DEF Next

THEOREM FloorInvariant == ASSUME NothingAdvanced PROVE Spec => []FloorInv
  <1>1. FloorInv /\ [Next]_vars => FloorInv'
    BY FloorNext
  <1> QED
    BY <1>1, FloorInit, PTL DEF Spec

(* What a client's row says is owed is the sum of the credit sales open, until
   an instalment is paid: charges, cancellations by two cajas at once and
   handlers cut short never drift the two apart, as long as no document is
   advanced or converted. *)
THEOREM DebtHolds == ASSUME NothingAdvanced PROVE Spec => []DebtIsOpenCredit
  <1>1. FloorInv => DebtIsOpenCredit
    BY DEF FloorInv
  <1> QED
    BY <1>1, FloorInvariant, PTL

(* caja.sale_ids and the takings of the open turn: sales made and cancelled by
   any terminals, turns opened and closed between their reads and writes, and
   the list is exactly the turn's sales that stand, the takings their sum. *)
THEOREM ListHolds == ASSUME NothingAdvanced PROVE Spec => []TillListsItsSales
  <1>1. FloorInv => TillListsItsSales
    BY DEF FloorInv
  <1> QED
    BY <1>1, FloorInvariant, PTL
-----------------------------------------------------------------------------
(* All the handlers, one after the other *)

OneTerminal == \A t, u \in Terminals : t = u

(* What a client's tickets have left, whatever became of them. *)
TicketsOf(table, c) ==
    [i \in DOMAIN table |->
        IF table[i].client = c /\ table[i].type = "Ticket"
        THEN table[i].balance ELSE 0]
TicketSum(table, c) == SumOf(TicketsOf(table, c), DOMAIN table)

(* Payments of documents that are no tickets. *)
OnlyTicketsPaid == \A i \in DOMAIN docs : docs[i].type # "Ticket" => docs[i].collected = 0

(* No row has collected more than was paid, or was paid more than its total; a
   cancelled one is owed nothing and only a ticket is pending. *)
RowOK(d) ==
    /\ d.collected <= d.paid /\ d.paid <= d.total
    /\ d.status = "Cancelada" => d.balance = 0
    /\ d.status = "Pendiente" => d.type = "Ticket"

(* What the handler of the only terminal has read is so when it writes. *)
ReadsStand(t) ==
    LET j == job[t] IN
    /\ j.op \in {"cancel", "abono"} => j.snap = Read(j.id)
    /\ j.op \in {"advance", "convert"} => docs[j.id].status # "Cancelada"
    /\ j.op = "advance" => j.to \in EstadosVenta
    /\ j.op = "sale" /\ j.credit > 0 /\ j.client \in Clients
          => owed[j.client] + j.credit <= Limit[j.client]

(* The column the limit is checked against is never less than what the tickets
   have left: that is what makes the limit bound the open credit. *)
OwedCoversTickets ==
    OnlyTicketsPaid => \A c \in Clients : TicketSum(docs, c) <= owed[c]

OfficeInv ==
    /\ BooksInv
    /\ \A i \in DOMAIN docs : RowOK(docs[i])
    /\ OwedWithinLimit
    /\ OwedCoversTickets
    /\ \A t \in Terminals : ReadsStand(t)

LEMMA OfficeInit == Init => OfficeInv
  <1> SUFFICES ASSUME Init PROVE OfficeInv
    OBVIOUS
  <1>1. BooksInv /\ DOMAIN docs = {} /\ \A c \in Clients : owed[c] = 0
    BY InitOK DEF Init
  <1>2. OwedWithinLimit
    <2>1. Limit \in [Clients -> Nat]
      BY SalesAssumption
    <2> QED
      BY <1>1, <2>1 DEF OwedWithinLimit
  <1>3. OwedCoversTickets
    <2>1. \A c : TicketSum(docs, c) = 0
      BY <1>1, SumEmpty DEF TicketSum
    <2> QED
      BY <1>1, <2>1 DEF OwedCoversTickets
  <1>4. \A t \in Terminals : ReadsStand(t)
    BY DEF Init, Idle, ReadsStand
  <1> QED
    BY <1>1, <1>2, <1>3, <1>4 DEF OfficeInv

(* Balances are natural numbers. *)
LEMMA TicketRows ==
    ASSUME NEW table \in Seq(DocType), NEW c,
           \A i \in DOMAIN table : BalanceIsUnpaid(table[i])
    PROVE  /\ \A i \in DOMAIN table :
                /\ TicketsOf(table, c)[i] \in Nat
                /\ TicketsOf(table, c)[i] \in Int
           /\ TicketSum(table, c) \in Nat
  <1>1. IsFiniteSet(DOMAIN table) /\ \A i \in DOMAIN table : table[i] \in DocType
    BY TableKeys
  <1>2. \A i \in DOMAIN table : table[i].balance \in Nat
    BY <1>1 DEF DocType, BalanceIsUnpaid
  <1>3. \A i \in DOMAIN table : TicketsOf(table, c)[i] \in Nat
    BY <1>2 DEF TicketsOf
  <1>4. \A i \in DOMAIN table : TicketsOf(table, c)[i] \in Int
    BY <1>3
  <1> QED
    BY <1>1, <1>3, <1>4, SumNat DEF TicketSum

(* The only terminal goes on. *)
LEMMA OfficeMove ==
    ASSUME OneTerminal, OfficeInv, BooksInv', NEW t \in Terminals, NEW j,
           job' = [job EXCEPT ![t] = j],
           \A i \in DOMAIN docs' : RowOK(docs'[i]),
           OwedWithinLimit', OwedCoversTickets',
           j.op \in {"cancel", "abono"} => UNCHANGED docs /\ j.snap = Read(j.id),
           j.op \in {"advance", "convert"} =>
              UNCHANGED docs /\ docs[j.id].status # "Cancelada",
           j.op = "advance" => j.to \in EstadosVenta,
           j.op = "sale" /\ j.credit > 0 /\ j.client \in Clients =>
              UNCHANGED owed /\ owed[j.client] + j.credit <= Limit[j.client]
    PROVE  OfficeInv'
  <1>1. ASSUME NEW u \in Terminals PROVE ReadsStand(u)'
    <2>1. u = t /\ job'[u] = j
      BY DEF OneTerminal, OfficeInv, BooksInv, TypeOK
    <2> QED
      BY <2>1 DEF ReadsStand, Read
  <1> QED
    BY <1>1 DEF OfficeInv

(* A handler that starts. *)
LEMMA OfficeStart ==
    ASSUME OneTerminal, OfficeInv, BooksInv', NEW t \in Terminals, NEW j,
           job' = [job EXCEPT ![t] = j], UNCHANGED <<books, cash>>,
           j.op \in {"cancel", "abono"} => j.snap = Read(j.id),
           j.op \in {"advance", "convert"} => docs[j.id].status # "Cancelada",
           j.op = "advance" => j.to \in EstadosVenta,
           j.op = "sale" /\ j.credit > 0 /\ j.client \in Clients =>
              owed[j.client] + j.credit <= Limit[j.client]
    PROVE  OfficeInv'
  <1>1. UNCHANGED <<docs, owed>>
    BY DEF books
  <1>2. /\ \A i \in DOMAIN docs' : RowOK(docs'[i])
        /\ OwedWithinLimit' /\ OwedCoversTickets'
    BY <1>1 DEF OfficeInv, OwedWithinLimit, OwedCoversTickets, OnlyTicketsPaid
  <1> QED
    BY <1>1, <1>2, OfficeMove

(* One that only reads, or ends without its transaction. *)
LEMMA OfficeCheck ==
    ASSUME OneTerminal, OfficeInv, BooksInv', NEW t \in Terminals,
           Check(t) \/ Abandon(t)
    PROVE  OfficeInv'
  <1>1. ASSUME NEW c, NEW total, NEW credit, SellCheck(t, c, total, credit)
        PROVE  OfficeInv'
    <2> DEFINE j == [Idle EXCEPT !.op = "sale", !.client = c, !.amount = total,
                                 !.credit = credit]
    <2>1. /\ j.op = "sale" /\ j.client = c /\ j.credit = credit
          /\ job' = [job EXCEPT ![t] = j] /\ UNCHANGED <<books, cash>>
          /\ credit > 0 /\ c \in Clients => owed[c] + credit <= Limit[c]
      BY <1>1 DEF SellCheck, Start, Idle, WithinLimit
    <2> HIDE DEF j
    <2> QED
      BY <2>1, OfficeStart
  <1>2. ASSUME NEW id, CancelCheck(t, id) PROVE OfficeInv'
    <2> DEFINE j == [Idle EXCEPT !.op = "cancel", !.id = id, !.snap = Read(id)]
    <2>1. /\ j.op = "cancel" /\ j.id = id /\ j.snap = Read(id)
          /\ job' = [job EXCEPT ![t] = j] /\ UNCHANGED <<books, cash>>
      BY <1>2 DEF CancelCheck, Start, Idle
    <2> HIDE DEF j
    <2> QED
      BY <2>1, OfficeStart
  <1>7. ASSUME NEW id, NEW amount, AbonoCheck(t, id, amount) PROVE OfficeInv'
    <2> DEFINE j == [Idle EXCEPT !.op = "abono", !.id = id, !.amount = amount,
                                 !.snap = Read(id)]
    <2>1. /\ j.op = "abono" /\ j.id = id /\ j.snap = Read(id)
          /\ job' = [job EXCEPT ![t] = j] /\ UNCHANGED <<books, cash>>
      BY <1>7 DEF AbonoCheck, Start, Idle
    <2> HIDE DEF j
    <2> QED
      BY <2>1, OfficeStart
  <1>3. ASSUME NEW id, NEW amount, CreditNoteCheck(t, id, amount) PROVE OfficeInv'
    <2> DEFINE j == [Idle EXCEPT !.op = "creditNote", !.id = id, !.amount = amount]
    <2>1. /\ j.op = "creditNote" /\ job' = [job EXCEPT ![t] = j]
          /\ UNCHANGED <<books, cash>>
      BY <1>3 DEF CreditNoteCheck, Start, Idle
    <2> HIDE DEF j
    <2> QED
      BY <2>1, OfficeStart
  <1>4. ASSUME NEW id, NEW to, AdvanceCheck(t, id, to) \/ ConvertCheck(t, id, to)
        PROVE  OfficeInv'
    <2> DEFINE j(op) == [Idle EXCEPT !.op = op, !.id = id, !.to = to]
    <2>1. PICK op \in {"advance", "convert"} :
             /\ job' = [job EXCEPT ![t] = j(op)]
             /\ op = "advance" => to \in EstadosVenta
      BY <1>4 DEF AdvanceCheck, ConvertCheck, Start, MayAdvance
    <2>2. UNCHANGED <<books, cash>> /\ docs[id].status # "Cancelada"
      BY <1>4 DEF AdvanceCheck, ConvertCheck, Start, MayAdvance, TransitionAllowed
    <2>3. j(op).op = op /\ j(op).id = id /\ j(op).to = to
      BY DEF Idle
    <2> HIDE DEF j
    <2> QED
      BY <2>1, <2>2, <2>3, OfficeStart
  <1>5. CASE OpenCheck(t) \/ CloseCheck(t)
    <2> DEFINE j(op, n) == [Idle EXCEPT !.op = op, !.amount = n]
    <2>1. /\ \E op \in {"open", "close"}, n \in {OpeningAmount, Expected} :
                job' = [job EXCEPT ![t] = j(op, n)]
          /\ UNCHANGED <<books, cash>>
      BY <1>5 DEF OpenCheck, CloseCheck, Start
    <2>2. \A op, n : j(op, n).op = op
      BY DEF Idle
    <2> HIDE DEF j
    <2> QED
      BY <2>1, <2>2, OfficeStart
  <1>6. CASE Abandon(t)
    <2>1. Idle.op = "idle"
      BY DEF Idle
    <2> QED
      BY <1>6, <2>1, OfficeStart DEF Abandon, Finish
  <1> QED
    BY <1>1, <1>2, <1>3, <1>4, <1>5, <1>6, <1>7 DEF Check

(* What a rewritten and an added row change in the sum of a client's tickets. *)
LEMMA TicketSumRewritten ==
    ASSUME BooksInv, BooksInv', NEW i, NEW d, Rewritten(i, d),
           d.client = docs[i].client, d.type = docs[i].type, NEW c
    PROVE  /\ TicketSum(docs, c) \in Nat /\ TicketSum(docs', c) \in Nat
           /\ TicketSum(docs', c) = TicketSum(docs, c) +
                 (IF d.client = c /\ d.type = "Ticket"
                  THEN d.balance - docs[i].balance ELSE 0)
  <1> DEFINE u == TicketsOf(docs, c)
             v == TicketsOf(docs', c)
  <1>1. /\ \A k \in DOMAIN docs : u[k] \in Int
        /\ \A k \in DOMAIN docs' : v[k] \in Int
        /\ TicketSum(docs, c) \in Nat /\ TicketSum(docs', c) \in Nat
    BY TicketRows DEF BooksInv, TypeOK, OpenBalanceIsUnpaid
  <1>2. /\ i \in DOMAIN docs /\ DOMAIN docs' = DOMAIN docs /\ docs'[i] = d
        /\ \A k \in DOMAIN docs : k # i => docs'[k] = docs[k]
    BY DEF Rewritten
  <1>3. /\ \A k \in DOMAIN docs : k # i => v[k] = u[k]
        /\ v[i] = IF d.client = c /\ d.type = "Ticket" THEN d.balance ELSE 0
        /\ u[i] = IF d.client = c /\ d.type = "Ticket" THEN docs[i].balance ELSE 0
    BY <1>2 DEF TicketsOf
  <1> HIDE DEF u, v
  <1>4. SumOf(v, DOMAIN docs') = SumOf(u, DOMAIN docs) + (v[i] - u[i])
    BY <1>1, <1>2, <1>3, RewrittenSum
  <1>5. v[i] - u[i] = IF d.client = c /\ d.type = "Ticket"
                      THEN d.balance - docs[i].balance ELSE 0
    BY <1>3
  <1> QED
    BY <1>1, <1>4, <1>5 DEF TicketSum, u, v

LEMMA TicketSumAdded ==
    ASSUME BooksInv, BooksInv', Grown, NEW c, NEW d, docs'[Len(docs) + 1] = d,
           \A k \in DOMAIN docs : /\ docs'[k].client = docs[k].client
                                  /\ docs'[k].type = docs[k].type
                                  /\ docs'[k].balance = docs[k].balance
    PROVE  /\ TicketSum(docs, c) \in Nat /\ TicketSum(docs', c) \in Nat
           /\ TicketSum(docs', c) = TicketSum(docs, c) +
                 (IF d.client = c /\ d.type = "Ticket" THEN d.balance ELSE 0)
  <1> DEFINE u == TicketsOf(docs, c)
             v == TicketsOf(docs', c)
             n == Len(docs) + 1
  <1>1. /\ \A k \in DOMAIN docs : u[k] \in Int
        /\ \A k \in DOMAIN docs' : v[k] \in Int
        /\ TicketSum(docs, c) \in Nat /\ TicketSum(docs', c) \in Nat
    BY TicketRows DEF BooksInv, TypeOK, OpenBalanceIsUnpaid
  <1>2. n \in DOMAIN docs' /\ DOMAIN docs \subseteq DOMAIN docs' /\ docs'[n] = d
    BY DEF Grown
  <1>3. /\ \A k \in DOMAIN docs : v[k] = u[k]
        /\ v[n] = IF d.client = c /\ d.type = "Ticket" THEN d.balance ELSE 0
    BY <1>2 DEF TicketsOf
  <1> HIDE DEF u, v
  <1>4. SumOf(v, DOMAIN docs') = SumOf(u, DOMAIN docs) + v[Len(docs) + 1]
    BY <1>1, <1>2, <1>3, AddedSum
  <1> QED
    BY <1>1, <1>3, <1>4 DEF TicketSum, u, v

(* A cancelled sale stays one. *)
StayCancelled ==
    \A i \in DOMAIN docs :
       docs[i].status = "Cancelada" => docs'[i].status = "Cancelada"

(* The limit was checked against what the client owes, and so it holds of what
   the client owes after the sale. *)
LEMMA SellKeepsOffice ==
    ASSUME OneTerminal, OfficeInv, BooksInv', NEW t \in Terminals, SellCommit(t)
    PROVE  OfficeInv' /\ StayCancelled
  <1> DEFINE j == job[t]
             d == Ticket(j)
             n == Len(docs) + 1
  <1>0. BooksInv
    BY DEF OfficeInv
  <1>1. /\ j \in JobType /\ j.amount \in Nat /\ j.credit \in Nat
        /\ j.credit <= j.amount /\ j.op = "sale"
    BY <1>0, Rows DEF JobType, BooksInv, JobsInv, JobOK, SellCommit, Running
  <1>2. /\ Finish(t) /\ docs' = Append(docs, d)
        /\ IF j.credit > 0 THEN j.client \in Clients /\ AddCredit(j.client, j.credit)
                            ELSE UNCHANGED owed
    BY DEF SellCommit
  <1>3. /\ d.client = j.client /\ d.type = "Ticket" /\ d.total = j.amount
        /\ d.collected = 0 /\ d.paid = j.amount - j.credit
        /\ d.status = IF j.credit > 0 THEN "Pendiente" ELSE "Pagada"
        /\ d.balance = j.credit
    BY DEF Ticket, SoldBalance
  <1>4. owed \in [Clients -> Nat]
    BY <1>0 DEF BooksInv, TypeOK
  <1>5. j.credit > 0 /\ j.client \in Clients =>
           owed[j.client] + j.credit <= Limit[j.client]
    BY <1>1 DEF OfficeInv, ReadsStand
  <1> HIDE DEF d, j
  <1>6. Added(d)
    BY <1>0, <1>2, AddedBy
  <1> HIDE DEF n
  <1>7. /\ n = Len(docs) + 1 /\ docs'[n] = d /\ Grown
        /\ DOMAIN docs' = DOMAIN docs \cup {n}
        /\ \A k \in DOMAIN docs : docs'[k] = docs[k]
    BY <1>6 DEF Added, Grown, n
  <1>8. \A i \in DOMAIN docs' : RowOK(docs'[i])
    <2>1. RowOK(d)
      BY <1>1, <1>3 DEF RowOK
    <2>2. \A i \in DOMAIN docs : RowOK(docs[i])
      BY DEF OfficeInv
    <2> QED
      BY <1>7, <2>1, <2>2
  <1>9. \A c \in Clients :
           owed'[c] = owed[c] + (IF j.client = c THEN j.credit ELSE 0)
    BY <1>1, <1>2, <1>4 DEF AddCredit
  <1>10. OwedWithinLimit'
    BY <1>1, <1>4, <1>5, <1>9 DEF OfficeInv, OwedWithinLimit
  <1>11. OwedCoversTickets'
    <2> SUFFICES ASSUME OnlyTicketsPaid', NEW c \in Clients
                 PROVE  TicketSum(docs', c) <= owed'[c]
      BY DEF OwedCoversTickets
    <2>1. OnlyTicketsPaid
      BY <1>7 DEF OnlyTicketsPaid
    <2>2. TicketSum(docs, c) <= owed[c]
      BY <2>1 DEF OfficeInv, OwedCoversTickets
    <2>3. /\ TicketSum(docs, c) \in Nat
          /\ TicketSum(docs', c) = TicketSum(docs, c) +
                (IF d.client = c /\ d.type = "Ticket" THEN d.balance ELSE 0)
      BY <1>0, <1>7, TicketSumAdded
    <2>4. TicketSum(docs', c) =
             TicketSum(docs, c) + (IF j.client = c THEN j.credit ELSE 0)
      BY <1>3, <2>3
    <2> QED
      BY <1>1, <1>4, <1>9, <2>2, <2>3, <2>4
  <1>12. Idle.op = "idle"
    BY DEF Idle
  <1>13. StayCancelled
    BY <1>7 DEF StayCancelled
  <1> QED
    BY <1>2, <1>8, <1>10, <1>11, <1>12, <1>13, OfficeMove DEF Finish

(* A row rewritten: its client's debt falls by no more than its balance. *)
LEMMA RewriteKeepsOffice ==
    ASSUME OneTerminal, OfficeInv, BooksInv', NEW t \in Terminals, Finish(t),
           NEW i \in DOMAIN docs, NEW d, docs' = [docs EXCEPT ![i] = d],
           d.client = docs[i].client, d.type = docs[i].type, RowOK(d),
           docs[i].status = "Cancelada" => d.status = "Cancelada",
           d.type # "Ticket" =>
              /\ d.collected = docs[i].collected => owed' = owed
              /\ d.collected # docs[i].collected => d.collected # 0,
           d.balance <= docs[i].balance,
           \/ owed' = owed
           \/ \E n \in Int : /\ n <= docs[i].balance - d.balance
                             /\ d.client \in Clients /\ n >= 0
                             /\ owed' = PayCredit(d.client, n)
    PROVE  OfficeInv' /\ StayCancelled
  <1>0. /\ BooksInv /\ owed \in [Clients -> Nat] /\ i \in DOMAIN docs
        /\ docs[i].balance \in Int /\ Limit \in [Clients -> Nat]
    BY TableKeys, SalesAssumption DEF OfficeInv, BooksInv, TypeOK, DocType
  <1>1. Rewritten(i, d)
    BY RewrittenBy
  <1>2. /\ DOMAIN docs' = DOMAIN docs /\ docs'[i] = d
        /\ \A k \in DOMAIN docs : k # i => docs'[k] = docs[k]
    BY <1>1 DEF Rewritten
  <1>3. d.balance \in Int
    BY <1>0, <1>2, TableKeys DEF BooksInv, TypeOK, DocType
  <1>4. \A k \in DOMAIN docs' : RowOK(docs'[k])
    BY <1>2 DEF OfficeInv
  <1>5. StayCancelled
    BY <1>2 DEF StayCancelled
  <1>6. \A c \in Clients : owed'[c] <= owed[c]
    BY <1>0 DEF PayCredit, Max0
  <1>7. OwedWithinLimit'
    <2>1. \A c \in Clients : owed'[c] \in Int /\ owed[c] <= Limit[c]
      BY <1>0 DEF PayCredit, Max0, OfficeInv, OwedWithinLimit
    <2> QED
      BY <1>0, <1>6, <2>1 DEF OwedWithinLimit
  <1>8. OwedCoversTickets'
    <2> SUFFICES ASSUME OnlyTicketsPaid', NEW c \in Clients
                 PROVE  TicketSum(docs', c) <= owed'[c]
      BY DEF OwedCoversTickets
    <2>1. OnlyTicketsPaid /\ (d.type # "Ticket" => owed' = owed)
      BY <1>2 DEF OnlyTicketsPaid
    <2>2. TicketSum(docs, c) <= owed[c]
      BY <2>1 DEF OfficeInv, OwedCoversTickets
    <2>3. /\ TicketSum(docs, c) \in Nat /\ TicketSum(docs', c) \in Nat
          /\ TicketSum(docs', c) = TicketSum(docs, c) +
                (IF d.client = c /\ d.type = "Ticket"
                 THEN d.balance - docs[i].balance ELSE 0)
      BY <1>0, <1>1, TicketSumRewritten
    <2>4. CASE d.client = c /\ d.type = "Ticket" /\ owed' # owed
      <3>1. PICK n \in Int : /\ n <= docs[i].balance - d.balance /\ n >= 0
                             /\ owed' = PayCredit(c, n)
        BY <2>4
      <3>2. owed'[c] = Max0(owed[c] - n)
        BY <1>0, <3>1 DEF PayCredit
      <3>3. TicketSum(docs', c) = TicketSum(docs, c) + (d.balance - docs[i].balance)
        BY <2>3, <2>4
      <3>4. owed[c] - n >= TicketSum(docs', c)
        BY <1>0, <1>3, <2>2, <2>3, <3>1, <3>3
      <3> QED
        BY <1>0, <2>3, <3>1, <3>2, <3>4 DEF Max0
    <2>5. CASE ~ (d.client = c /\ d.type = "Ticket" /\ owed' # owed)
      <3>1. owed'[c] = owed[c]
        BY <1>0, <2>1, <2>5 DEF PayCredit
      <3>2. TicketSum(docs', c) <= TicketSum(docs, c)
        BY <1>0, <1>3, <2>3
      <3> QED
        BY <1>0, <2>2, <2>3, <3>1, <3>2
    <2> QED
      BY <2>4, <2>5
  <1>9. Idle.op = "idle"
    BY DEF Idle
  <1> QED
    BY <1>4, <1>5, <1>7, <1>8, <1>9, OfficeMove DEF Finish

LEMMA CancelKeepsOffice ==
    ASSUME OneTerminal, OfficeInv, BooksInv', NEW t \in Terminals, CancelCommit(t)
    PROVE  OfficeInv' /\ StayCancelled
  <1> DEFINE j == job[t]
             i == j.id
             r == docs[i]
             d == WithBalance(r, "Cancelada", 0)
             b == j.snap.balance
  <1>0. BooksInv
    BY DEF OfficeInv
  <1>1. /\ j \in JobType /\ i \in DOMAIN docs /\ r \in DocType /\ j.op = "cancel"
        /\ BalanceIsUnpaid(r) /\ RowOK(r)
    BY <1>0, JobDoc DEF CancelCommit, Running, OfficeInv
  <1>2. /\ Finish(t) /\ docs' = [docs EXCEPT ![i] = d]
        /\ IF j.snap.status = "Pendiente" /\ b > 0
           THEN r.client \in Clients /\ owed' = PayCredit(r.client, b)
           ELSE UNCHANGED owed
    BY DEF CancelCommit, WithBalance
  <1>3. j.snap.status = r.status /\ b = r.balance
    <2>1. j.snap = Read(i)
      BY <1>1 DEF OfficeInv, ReadsStand
    <2> QED
      BY <2>1 DEF Read
  <1>4. /\ d.client = r.client /\ d.type = r.type /\ d.total = r.total
        /\ d.collected = r.collected /\ d.paid = r.paid
        /\ d.status = "Cancelada" /\ d.balance = 0
    BY <1>1, WrittenRows
  <1> HIDE DEF d
  <1>5. r.balance \in Int /\ r.balance >= 0
    BY <1>1 DEF DocType, BalanceIsUnpaid
  <1>6. RowOK(d) /\ d.balance <= r.balance
    BY <1>1, <1>4, <1>5 DEF RowOK
  <1>7. d.type # "Ticket" => owed' = owed
    BY <1>1, <1>2, <1>3, <1>4 DEF RowOK
  <1>8. \/ owed' = owed
        \/ \E n \in Int : /\ n <= r.balance - d.balance
                          /\ d.client \in Clients /\ n >= 0
                          /\ owed' = PayCredit(d.client, n)
    <2>1. CASE r.status = "Pendiente" /\ b > 0
      BY <1>2, <1>3, <1>4, <1>5, <2>1
    <2>2. CASE ~ (r.status = "Pendiente" /\ b > 0)
      BY <1>2, <1>3, <2>2
    <2> QED
      BY <2>1, <2>2
  <1> HIDE DEF j, i, b
  <1> QED
    BY <1>1, <1>2, <1>4, <1>6, <1>7, <1>8, RewriteKeepsOffice DEF r

(* Only the payment that settles discharges the client, by what it pays. *)
LEMMA AbonoKeepsOffice ==
    ASSUME OneTerminal, OfficeInv, BooksInv', NEW t \in Terminals, AbonoCommit(t)
    PROVE  OfficeInv' /\ StayCancelled
  <1> DEFINE j == job[t]
             i == j.id
             r == docs[i]
             a == j.amount
             b == IF Settled(j) THEN 0 ELSE Left(j)
             s == IF Settled(j) THEN "Pagada" ELSE j.snap.status
             d == WithPayment(r, PaidAfter(j), b, s, r.collected + a)
  <1>0. BooksInv
    BY DEF OfficeInv
  <1>1. /\ j \in JobType /\ i \in DOMAIN docs /\ r \in DocType
        /\ BalanceIsUnpaid(r) /\ RowOK(r)
        /\ a > 0 /\ a <= j.snap.balance /\ j.snap.paid + j.snap.balance = r.total
        /\ j.op = "abono"
    <2>1. j.op = "abono" /\ JobOK(t)
      BY <1>0 DEF AbonoCommit, Running, BooksInv, JobsInv
    <2> QED
      BY <1>0, <2>1, JobDoc DEF JobOK, OfficeInv
  <1>2. /\ Finish(t) /\ docs' = [docs EXCEPT ![i] = d]
        /\ IF Settled(j) THEN r.client \in Clients /\ owed' = PayCredit(r.client, a)
                         ELSE UNCHANGED owed
    BY DEF AbonoCommit, WithPayment
  <1>3. /\ j.snap.status = r.status /\ j.snap.balance = r.balance
        /\ j.snap.paid = r.paid
    <2>1. j.snap = Read(i)
      BY <1>1 DEF OfficeInv, ReadsStand
    <2> QED
      BY <2>1 DEF Read
  <1>4. /\ d.client = r.client /\ d.type = r.type /\ d.total = r.total
        /\ d.collected = r.collected + a /\ d.paid = PaidAfter(j)
        /\ d.status = s /\ d.balance = b
    BY <1>1, WrittenRows
  <1>5. /\ r.balance \in Int /\ r.paid \in Int /\ r.total \in Int /\ a \in Int
        /\ r.collected \in Nat
    BY <1>1 DEF DocType, JobType
  <1>6. /\ PaidAfter(j) = r.paid + a /\ Left(j) = r.balance - a
        /\ Settled(j) <=> r.balance - a <= 1
    BY <1>3 DEF PaidAfter, Left, Settled
  <1> HIDE DEF d
  <1>7. r.status # "Cancelada" /\ (d.status = "Pagada" \/ d.status = r.status)
    BY <1>1, <1>3, <1>4, <1>5 DEF RowOK
  <1>8. d.collected <= d.paid /\ d.paid <= d.total
    BY <1>1, <1>3, <1>4, <1>5, <1>6 DEF RowOK
  <1>9. RowOK(d)
    BY <1>1, <1>4, <1>7, <1>8 DEF RowOK
  <1>10. /\ d.balance \in Int /\ d.balance <= r.balance
         /\ Settled(j) => a <= r.balance - d.balance
    BY <1>1, <1>3, <1>4, <1>5, <1>6
  <1>11. \/ owed' = owed
         \/ \E n \in Int : /\ n <= r.balance - d.balance
                           /\ d.client \in Clients /\ n >= 0
                           /\ owed' = PayCredit(d.client, n)
    <2>1. CASE Settled(j)
      BY <1>1, <1>2, <1>4, <1>5, <1>10, <2>1
    <2>2. CASE ~ Settled(j)
      BY <1>2, <2>2
    <2> QED
      BY <2>1, <2>2
  <1>12. d.collected # 0 /\ d.collected # r.collected
    BY <1>1, <1>4, <1>5
  <1> HIDE DEF j, i, a, b, s
  <1> QED
    BY <1>1, <1>2, <1>4, <1>7, <1>9, <1>10, <1>11, <1>12, RewriteKeepsOffice DEF r

LEMMA AdvanceKeepsOffice ==
    ASSUME OneTerminal, OfficeInv, BooksInv', NEW t \in Terminals, AdvanceCommit(t)
    PROVE  OfficeInv' /\ StayCancelled
  <1> DEFINE j == job[t]
             i == j.id
             r == docs[i]
             d == IF Settles(j.to)
                  THEN WithSettled(r, j.to, 0, r.total)
                  ELSE WithState(r, j.to)
  <1>0. BooksInv
    BY DEF OfficeInv
  <1>1. /\ j \in JobType /\ i \in DOMAIN docs /\ r \in DocType
        /\ BalanceIsUnpaid(r) /\ RowOK(r)
        /\ r.status # "Cancelada" /\ j.to \in EstadosVenta
    <2>1. j.op = "advance"
      BY DEF AdvanceCommit, Running
    <2> QED
      BY <1>0, <2>1, JobDoc DEF OfficeInv, ReadsStand
  <1>2. Finish(t) /\ docs' = [docs EXCEPT ![i] = d] /\ owed' = owed
    BY DEF AdvanceCommit, WithSettled, WithState
  <1>3. /\ d.client = r.client /\ d.type = r.type /\ d.total = r.total
        /\ d.collected = r.collected /\ d.status = j.to
        /\ \/ d.paid = r.total /\ d.balance = 0
           \/ d.paid = r.paid /\ d.balance = r.balance
    BY <1>1 DEF WithSettled, WithState, DocType
  <1> HIDE DEF d
  <1>4. r.balance \in Int /\ r.balance >= 0
        /\ r.total \in Int /\ r.paid \in Int /\ r.collected \in Int
    BY <1>1 DEF DocType, BalanceIsUnpaid
  <1>5. RowOK(d) /\ d.balance <= r.balance
    BY <1>1, <1>3, <1>4 DEF RowOK, EstadosVenta
  <1> HIDE DEF j, i
  <1>6. d.type # "Ticket" => /\ d.collected = r.collected => owed' = owed
                             /\ d.collected # r.collected => d.collected # 0
    BY <1>2, <1>3
  <1> QED
    BY <1>1, <1>2, <1>3, <1>5, <1>6, RewriteKeepsOffice DEF r

(* The table grows by a document that is no ticket, and the rows there were
   keep all but their state. *)
LEMMA GrowKeepsOffice ==
    ASSUME OneTerminal, OfficeInv, BooksInv', NEW t \in Terminals,
           job' = job \/ Finish(t), owed' = owed, Grown,
           docs'[Len(docs) + 1].type # "Ticket",
           RowOK(docs'[Len(docs) + 1]),
           \A k \in DOMAIN docs : \/ docs'[k] = docs[k]
                                  \/ /\ RowOK(docs'[k])
                                     /\ docs[k].status # "Cancelada"
                                     /\ docs'[k].client = docs[k].client
                                     /\ docs'[k].type = docs[k].type
                                     /\ docs'[k].balance = docs[k].balance
                                     /\ docs'[k].collected = docs[k].collected,
           job' = job => \A k \in DOMAIN docs : docs'[k] = docs[k]
    PROVE  OfficeInv' /\ StayCancelled
  <1> DEFINE n == Len(docs) + 1
  <1>0. BooksInv
    BY DEF OfficeInv
  <1>1. DOMAIN docs' = DOMAIN docs \cup {n} /\ n \notin DOMAIN docs
    BY DEF Grown
  <1>2. \A k \in DOMAIN docs' : RowOK(docs'[k])
    BY <1>1 DEF OfficeInv
  <1>3. StayCancelled
    BY DEF StayCancelled
  <1>4. OwedWithinLimit'
    BY DEF OfficeInv, OwedWithinLimit
  <1>5. OwedCoversTickets'
    <2> SUFFICES ASSUME OnlyTicketsPaid', NEW c \in Clients
                 PROVE  TicketSum(docs', c) <= owed'[c]
      BY DEF OwedCoversTickets
    <2>1. OnlyTicketsPaid
      BY <1>1 DEF OnlyTicketsPaid
    <2>2. TicketSum(docs, c) <= owed[c]
      BY <2>1 DEF OfficeInv, OwedCoversTickets
    <2>3. \A k \in DOMAIN docs : /\ docs'[k].client = docs[k].client
                                 /\ docs'[k].type = docs[k].type
                                 /\ docs'[k].balance = docs[k].balance
      OBVIOUS
    <2> DEFINE d == docs'[n]
    <2>4. d = docs'[Len(docs) + 1] /\ d.type # "Ticket"
      OBVIOUS
    <2> HIDE DEF d, n
    <2>5. /\ TicketSum(docs, c) \in Nat
          /\ TicketSum(docs', c) = TicketSum(docs, c) +
                (IF d.client = c /\ d.type = "Ticket" THEN d.balance ELSE 0)
      BY <1>0, <2>3, <2>4, TicketSumAdded
    <2> QED
      BY <2>2, <2>4, <2>5
  <1>6. CASE Finish(t)
    <2>1. Idle.op = "idle"
      BY DEF Idle
    <2> QED
      BY <1>2, <1>3, <1>4, <1>5, <1>6, <2>1, OfficeMove DEF Finish
  <1>7. CASE job' = job
    <2>1. ASSUME NEW u \in Terminals PROVE ReadsStand(u)'
      <3>1. ReadsStand(u) /\ JobOK(u)
        BY DEF OfficeInv, BooksInv, JobsInv
      <3>2. job[u].op \in {"cancel", "abono", "advance", "convert"} =>
               docs'[job[u].id] = docs[job[u].id]
        BY <1>7, <3>1 DEF JobOK
      <3> QED
        BY <1>7, <3>1, <3>2 DEF ReadsStand, Read
    <2> QED
      BY <1>2, <1>3, <1>4, <1>5, <2>1 DEF OfficeInv
  <1> QED
    BY <1>6, <1>7

LEMMA NewDocOK ==
    ASSUME NEW type \in DocTypes, NEW c, NEW total \in Nat, NEW parent
    PROVE  /\ NewDoc(type, c, total, parent).type # "Ticket"
           /\ RowOK(NewDoc(type, c, total, parent))
  <1> DEFINE d == NewDoc(type, c, total, parent)
  <1>1. /\ d.type = type /\ d.status = type /\ d.paid = 0 /\ d.collected = 0
        /\ d.total = total
    BY DEF NewDoc
  <1>2. type \notin {"Ticket", "Cancelada", "Pendiente"}
    BY DEF DocTypes
  <1> HIDE DEF d
  <1>3. d.type # "Ticket" /\ RowOK(d)
    BY <1>1, <1>2 DEF RowOK
  <1> QED
    BY <1>3 DEF d

LEMMA DocumentsKeepOffice ==
    ASSUME OneTerminal, OfficeInv, BooksInv', NEW t \in Terminals,
           CreditNoteCommit(t) \/ OneStep(t)
    PROVE  OfficeInv' /\ StayCancelled
  <1>1. {"Nota credito", "Nota cargo"} \cup Kinds \subseteq DocTypes
    BY SalesAssumption DEF DocTypes
  <1>2. PICK type \in DocTypes, c \in Names, total \in Nat, parent \in Nat :
           /\ docs' = Append(docs, NewDoc(type, c, total, parent))
           /\ owed' = owed /\ (job' = job \/ Finish(t))
    <2>0. BooksInv
      BY DEF OfficeInv
    <2>1. CASE CreditNoteCommit(t)
      <3>1. job[t].op = "creditNote" /\ JobOK(t)
        BY <2>0, <2>1 DEF CreditNoteCommit, Running, BooksInv, JobsInv
      <3>2. job[t] \in JobType /\ docs[job[t].id] \in DocType /\ job[t].amount > 0
        BY <2>0, <3>1, JobDoc DEF JobOK
      <3>3. /\ job[t].amount \in Nat /\ job[t].id \in Nat
            /\ docs[job[t].id].client \in Names
        BY <3>2 DEF JobType, DocType
      <3> QED
        BY <1>1, <2>1, <3>3 DEF CreditNoteCommit, Create
    <2>2. CASE OneStep(t)
      <3>1. \A i \in DOMAIN docs : i \in Nat /\ docs[i].client \in Names
        BY <2>0, Rows DEF DocType
      <3> QED
        BY <1>1, <2>2, <3>1, Inputs DEF OneStep, CreateDoc, DebitNote, Create
    <2> QED
      BY <2>1, <2>2
  <1> DEFINE d == NewDoc(type, c, total, parent)
  <1>3. d.type # "Ticket" /\ RowOK(d)
    BY <1>2, NewDocOK
  <1> HIDE DEF d
  <1>4. Added(d)
    BY <1>2, AddedBy DEF OfficeInv, d
  <1>5. /\ Grown /\ docs'[Len(docs) + 1] = d
        /\ \A k \in DOMAIN docs : docs'[k] = docs[k]
    BY <1>4 DEF Added
  <1> QED
    BY <1>2, <1>3, <1>5, GrowKeepsOffice

(* The origin is closed, with what it had left, and the new document added. *)
LEMMA ConvertKeepsOffice ==
    ASSUME OneTerminal, OfficeInv, BooksInv', NEW t \in Terminals, ConvertCommit(t)
    PROVE  OfficeInv' /\ StayCancelled
  <1> DEFINE j == job[t]
             i == j.id
             r == docs[i]
             d == WithState(r, "Cerrada")
             q == [docs EXCEPT ![i] = d]
             e == NewDoc(j.to, r.client, r.total, i)
             n == Len(docs) + 1
  <1>0. BooksInv
    BY DEF OfficeInv
  <1>1. /\ i \in DOMAIN docs /\ r \in DocType /\ RowOK(r)
        /\ r.status # "Cancelada" /\ j.to \in DocTypes
    <2>1. j.op = "convert" /\ JobOK(t)
      BY <1>0 DEF ConvertCommit, Running, BooksInv, JobsInv
    <2> QED
      BY <1>0, <2>1, JobDoc DEF JobOK, OfficeInv, ReadsStand
  <1>2. Finish(t) /\ owed' = owed /\ docs' = Append(q, e)
    BY DEF ConvertCommit, WithState
  <1>3. /\ d.client = r.client /\ d.type = r.type /\ d.total = r.total
        /\ d.collected = r.collected /\ d.paid = r.paid /\ d.balance = r.balance
        /\ d.status = "Cerrada"
    BY <1>1 DEF WithState, DocType
  <1>4. e.type # "Ticket" /\ RowOK(e)
    <2>1. r.total \in Nat
      BY <1>1 DEF DocType
    <2> HIDE DEF r, i, j
    <2> QED
      BY <1>1, <2>1, NewDocOK
  <1>5. RowOK(d)
    BY <1>1, <1>3 DEF RowOK
  <1> HIDE DEF d, e
  <1>6. Grown /\ docs'[n] = e /\ \A k \in DOMAIN docs : docs'[k] = q[k]
    <2> DEFINE S == DocType \cup {d, e}
    <2>1. docs \in Seq(S) /\ d \in S /\ e \in S /\ i \in 1..Len(docs)
      BY <1>0, <1>1, TableKeys, SeqDef DEF BooksInv, TypeOK
    <2> HIDE DEF S, i
    <2>2. q \in Seq(S) /\ Len(q) = Len(docs)
      <3>1. q \in Seq(S)
        BY <2>1, ExceptSeq
      <3>2. DOMAIN q = DOMAIN docs
        OBVIOUS
      <3> QED
        BY <2>1, <3>1, <3>2, LenProperties
    <2> HIDE DEF q
    <2>3. /\ docs' \in Seq(S) /\ Len(docs') = Len(q) + 1
          /\ \A k \in 1..Len(q) : docs'[k] = q[k]
          /\ docs'[Len(q) + 1] = e
      BY <1>2, <2>1, <2>2, AppendProperties
    <2>4. /\ Len(docs) \in Nat /\ DOMAIN docs = 1..Len(docs)
          /\ DOMAIN docs' = 1..(Len(docs) + 1)
      BY <2>1, <2>2, <2>3, LenProperties
    <2>5. n \notin DOMAIN docs /\ DOMAIN docs' = DOMAIN docs \cup {n}
      BY <2>4
    <2> QED
      BY <2>2, <2>3, <2>4, <2>5 DEF Grown
  <1>7. \A k \in DOMAIN docs : docs'[k] = IF k = i THEN d ELSE docs[k]
    BY <1>6
  <1>8. \A k \in DOMAIN docs : \/ docs'[k] = docs[k]
                               \/ /\ RowOK(docs'[k])
                                  /\ docs[k].status # "Cancelada"
                                  /\ docs'[k].client = docs[k].client
                                  /\ docs'[k].type = docs[k].type
                                  /\ docs'[k].balance = docs[k].balance
                                  /\ docs'[k].collected = docs[k].collected
    BY <1>1, <1>3, <1>5, <1>7
  <1>9. job' # job
    <2>1. job[t].op = "convert" /\ job'[t] = Idle /\ Idle.op = "idle"
      BY <1>0, <1>2 DEF Finish, Idle, ConvertCommit, Running, BooksInv, TypeOK
    <2> QED
      BY <2>1
  <1> HIDE DEF j, i, r, q
  <1> QED
    BY <1>2, <1>4, <1>6, <1>8, <1>9, GrowKeepsOffice

LEMMA OfficeNext ==
    ASSUME OneTerminal, OfficeInv, [Next]_vars
    PROVE  OfficeInv' /\ StayCancelled
  <1>0. BooksInv'
    BY BooksNext DEF OfficeInv
  <1>1. CASE UNCHANGED vars
    <2>1. UNCHANGED <<docs, owed, job>>
      BY <1>1 DEF vars, books
    <2> QED
      BY <1>0, <2>1
         DEF OfficeInv, OwedWithinLimit, OwedCoversTickets, OnlyTicketsPaid,
             ReadsStand, Read, StayCancelled
  <1>2. ASSUME NEW t \in Terminals, Check(t) \/ Commit(t) \/ OneStep(t) \/ Abandon(t)
        PROVE  OfficeInv' /\ StayCancelled
    <2>1. CASE Check(t) \/ Abandon(t)
      <3>1. docs' = docs
        BY <2>1 DEF Check, SellCheck, CancelCheck, AbonoCheck, CreditNoteCheck,
                    AdvanceCheck, ConvertCheck, OpenCheck, CloseCheck, Abandon,
                    Start, books
      <3> QED
        BY <1>0, <2>1, <3>1, OfficeCheck DEF StayCancelled
    <2>2. CASE OpenCommit(t) \/ CloseCommit(t)
      <3>1. Finish(t) /\ UNCHANGED <<docs, owed>>
        BY <2>2 DEF OpenCommit, CloseCommit, books
      <3>2. Idle.op = "idle"
        BY DEF Idle
      <3>3. /\ \A i \in DOMAIN docs' : RowOK(docs'[i])
            /\ OwedWithinLimit' /\ OwedCoversTickets' /\ StayCancelled
        BY <3>1 DEF OfficeInv, OwedWithinLimit, OwedCoversTickets,
                    OnlyTicketsPaid, StayCancelled
      <3> QED
        BY <1>0, <3>1, <3>2, <3>3, OfficeMove DEF Finish
    <2> QED
      BY <1>0, <1>2, <2>1, <2>2, SellKeepsOffice, CancelKeepsOffice,
         AbonoKeepsOffice, AdvanceKeepsOffice, ConvertKeepsOffice,
         DocumentsKeepOffice DEF Commit
  <1> QED
    BY <1>1, <1>2 DEF Next

THEOREM OfficeInvariant == ASSUME OneTerminal PROVE Spec => []OfficeInv
  <1>1. OfficeInv /\ [Next]_vars => OfficeInv'
    BY OfficeNext
  <1> QED
    BY <1>1, OfficeInit, PTL DEF Spec

(* "el abono podia perderse en silencio": one after the other, whatever else is
   done to a document, every payment recorded in payments_cxc is in what the
   document says was paid. *)
THEOREM AbonosHold == ASSUME OneTerminal PROVE Spec => []AbonosOnTheSale
  <1>1. OfficeInv => AbonosOnTheSale
    BY DEF OfficeInv, RowOK, AbonosOnTheSale
  <1> QED
    BY <1>1, OfficeInvariant, PTL

(* saldo_pendiente + nueva_venta <= limite: what a client's row says is owed
   never passes the limit, and as long as only tickets are paid neither do the
   credit sales open, although payments and cancellations discharge the row. *)
THEOREM DebtStaysWithinLimit == ASSUME OneTerminal PROVE Spec => []DebtWithinLimit
  <1>1. ASSUME OfficeInv PROVE DebtWithinLimit
    <2>1. OwedWithinLimit
      BY <1>1 DEF OfficeInv
    <2>2. ASSUME OnlyTicketsPaid, NEW c \in Clients PROVE OpenCredit(c) <= Limit[c]
      <3>1. /\ docs \in Seq(DocType) /\ owed \in [Clients -> Nat]
            /\ Limit \in [Clients -> Nat]
            /\ \A i \in DOMAIN docs : BalanceIsUnpaid(docs[i])
        BY <1>1, SalesAssumption DEF OfficeInv, BooksInv, TypeOK, OpenBalanceIsUnpaid
      <3>2. /\ IsFiniteSet(DOMAIN docs) /\ \A i \in DOMAIN docs : docs[i] \in DocType
        BY <3>1, TableKeys
      <3>3. \A i \in DOMAIN docs : docs[i].balance \in Int /\ docs[i].balance >= 0
        BY <3>1, <3>2 DEF DocType, BalanceIsUnpaid
      <3>4. \A i \in DOMAIN docs : docs[i].status = "Pendiente" => docs[i].type = "Ticket"
        BY <1>1 DEF OfficeInv, RowOK
      <3>5. \A i \in DOMAIN docs :
               /\ CreditOf(docs, c)[i] \in Int /\ TicketsOf(docs, c)[i] \in Int
               /\ CreditOf(docs, c)[i] <= TicketsOf(docs, c)[i]
        BY <3>3, <3>4 DEF CreditOf, TicketsOf
      <3>6. SumOf(CreditOf(docs, c), DOMAIN docs) <= TicketSum(docs, c)
        BY <3>2, <3>5, SumAtMost DEF TicketSum
      <3>7. OpenCredit(c) = SumOf(CreditOf(docs, c), DOMAIN docs)
        BY <3>1, OpenCreditRows DEF OpenCredit
      <3>8. TicketSum(docs, c) <= owed[c] /\ owed[c] <= Limit[c]
        BY <1>1, <2>1, <2>2 DEF OfficeInv, OwedCoversTickets, OwedWithinLimit
      <3>9. OpenCredit(c) \in Int /\ TicketSum(docs, c) \in Int
        BY <3>2, <3>5, <3>7, SumInt DEF TicketSum
      <3> QED
        BY <3>1, <3>6, <3>7, <3>8, <3>9
    <2> QED
      BY <2>1, <2>2 DEF DebtWithinLimit, CreditWithinLimit, OnlyTicketsPaid
  <1> QED
    BY <1>1, OfficeInvariant, PTL

(* "Venta cancelada no avanza": no handler brings a cancelled sale back, neither
   an advance, nor a conversion, nor a payment that was being collected. *)
THEOREM CancelledHolds == ASSUME OneTerminal PROVE Spec => CancelledForGood
  <1>1. OfficeInv /\ [Next]_vars =>
           [\A i \in DOMAIN docs :
               docs[i].status = "Cancelada" => docs'[i].status = "Cancelada"]_vars
    BY OfficeNext DEF StayCancelled
  <1> QED
    BY <1>1, OfficeInvariant, PTL DEF Spec, CancelledForGood
-----------------------------------------------------------------------------
(* The notes of a document, and the reports of the turns *)

(* The credit notes of a document, as a sum over all the rows. *)
NoteOf(table, id) ==
    [i \in DOMAIN table |->
        IF /\ table[i].parent = id /\ table[i].type = "Nota credito"
           /\ table[i].status # "Cancelada"
        THEN table[i].total ELSE 0]

LEMMA NotedRows ==
    ASSUME NEW table \in Seq(DocType), NEW id
    PROVE  /\ \A i \in DOMAIN table : NoteOf(table, id)[i] \in Nat
           /\ SumOf(NoteOf(table, id), DOMAIN table) \in Nat
           /\ SumOf(TotalOf(table), {i \in DOMAIN table :
                       /\ table[i].parent = id
                       /\ table[i].type = "Nota credito"
                       /\ table[i].status # "Cancelada"}) =
                 SumOf(NoteOf(table, id), DOMAIN table)
  <1> DEFINE S == DOMAIN table
             T == {i \in S : /\ table[i].parent = id
                             /\ table[i].type = "Nota credito"
                             /\ table[i].status # "Cancelada"}
             b == TotalOf(table)
             m == NoteOf(table, id)
  <1>1. IsFiniteSet(S) /\ \A i \in S : table[i] \in DocType
    BY TableKeys
  <1>2. \A i \in S : b[i] \in Nat
    BY <1>1 DEF DocType, TotalOf
  <1>3. T \in SUBSET S /\ \A i \in S : m[i] = IF i \in T THEN b[i] ELSE 0
    BY DEF NoteOf, TotalOf
  <1> HIDE DEF S, T, b, m
  <1>4. SumOf(m, S) = SumOf(b, T)
    BY <1>1, <1>2, <1>3, SumMasked
  <1>5. \A i \in S : m[i] \in Nat
    BY <1>2, <1>3
  <1>6. SumOf(m, S) \in Nat
    BY <1>1, <1>5, SumNat
  <1> QED
    BY <1>4, <1>5, <1>6 DEF S, T, b, m

(* The rows keep what a sum of notes is made of. *)
RowsStay ==
    \A i \in DOMAIN docs : /\ docs'[i].type = docs[i].type
                           /\ docs'[i].total = docs[i].total
                           /\ docs'[i].parent = docs[i].parent

(* A sum of notes grows by a new note only. *)
LEMMA NotedAfter ==
    ASSUME BooksInv, BooksInv', RowsStay, StayCancelled, NEW id
    PROVE  /\ Noted(id) \in Nat /\ Noted(id)' \in Nat
           /\ DOMAIN docs' = DOMAIN docs => Noted(id)' <= Noted(id)
           /\ Grown => Noted(id)' <= Noted(id) + NoteOf(docs', id)[Len(docs) + 1]
  <1> DEFINE S == DOMAIN docs
             u == NoteOf(docs, id)
             v == NoteOf(docs', id)
             n == Len(docs) + 1
  <1>1. /\ docs \in Seq(DocType) /\ docs' \in Seq(DocType) /\ IsFiniteSet(S)
    BY TableKeys DEF BooksInv, TypeOK
  <1>2. /\ Noted(id) = SumOf(u, S) /\ Noted(id)' = SumOf(v, DOMAIN docs')
        /\ Noted(id) \in Nat /\ Noted(id)' \in Nat
        /\ \A i \in S : u[i] \in Nat
        /\ \A i \in DOMAIN docs' : v[i] \in Nat
    BY <1>1, NotedRows DEF Noted, CreditNotes, TotalOf
  <1>3. CASE DOMAIN docs' = S \/ Grown
    <2>1. S \subseteq DOMAIN docs'
      BY <1>3 DEF Grown
    <2>2. \A i \in S : v[i] \in Int /\ u[i] \in Int /\ v[i] <= u[i]
      <3> SUFFICES ASSUME NEW i \in S
                   PROVE  v[i] <= u[i] /\ v[i] \in Int /\ u[i] \in Int
        OBVIOUS
      <3>1. v[i] = u[i] \/ v[i] = 0
        BY <2>1 DEF NoteOf, RowsStay, StayCancelled
      <3>2. v[i] \in Nat /\ u[i] \in Nat
        BY <1>2, <2>1
      <3> HIDE DEF u, v
      <3> QED
        BY <3>1, <3>2
    <2> HIDE DEF u, v, S, n
    <2>3. SumOf(v, S) <= SumOf(u, S)
      BY <1>1, <2>2, SumAtMost
    <2>4. SumOf(v, S) \in Int /\ SumOf(u, S) \in Nat
      BY <1>1, <1>2, <2>2, SumInt, SumNat
    <2>5. CASE DOMAIN docs' = S
      <3>1. n \notin S
        BY <1>1, TableKeys DEF S, n
      <3>2. ~ Grown
        BY <2>5, <3>1 DEF Grown, S, n
      <3> QED
        BY <1>2, <2>3, <2>4, <2>5, <3>2 DEF S
    <2>6. CASE Grown
      <3>1. n \notin S /\ DOMAIN docs' = S \cup {n}
        BY <2>6 DEF Grown, S, n
      <3>2. \A i \in S \cup {n} : v[i] \in Int
        BY <1>2, <3>1
      <3>3. SumOf(v, S \cup {n}) = SumOf(v, S) + v[n]
        BY <1>1, <3>1, <3>2, SumWith
      <3>4. Noted(id)' = SumOf(v, S) + v[n] /\ v[n] \in Int
        BY <1>2, <3>1, <3>2, <3>3
      <3>5. DOMAIN docs' # S
        BY <3>1
      <3>6. Noted(id)' <= Noted(id) + v[n] /\ Noted(id) \in Nat
        BY <1>2, <2>3, <2>4, <3>4
      <3> QED
        BY <1>2, <3>5, <3>6 DEF v, n, S
    <2> QED
      BY <1>3, <2>5, <2>6
  <1>4. CASE ~ (DOMAIN docs' = S \/ Grown)
    BY <1>2, <1>4
  <1> QED
    BY <1>3, <1>4

(* What notes are of exists, the note that is being made fits, and nothing is
   converted to one. *)
ParentsKnown == \A i \in DOMAIN docs : docs[i].parent \in {0} \cup DOMAIN docs
NoteJob(t) ==
    /\ job[t].op = "creditNote" => NoteFits(job[t].id, job[t].amount)
    /\ job[t].op = "convert" => job[t].to # "Nota credito"

NotesInv ==
    /\ OfficeInv
    /\ ParentsKnown
    /\ NotesWithinInvoice
    /\ \A t \in Terminals : NoteJob(t)

LEMMA NotesInit == Init => NotesInv
  <1> SUFFICES ASSUME Init PROVE NotesInv
    OBVIOUS
  <1>1. OfficeInv /\ DOMAIN docs = {}
    BY OfficeInit DEF Init
  <1>2. \A t \in Terminals : NoteJob(t)
    BY DEF Init, Idle, NoteJob
  <1> QED
    BY <1>1, <1>2 DEF NotesInv, ParentsKnown, NotesWithinInvoice

(* No document is new, or one is that is a credit note of another only if it
   fitted. *)
NewNoteFits ==
    \/ DOMAIN docs' = DOMAIN docs
    \/ /\ Grown
       /\ LET d == docs'[Len(docs) + 1] IN
          \/ d.parent = 0
          \/ /\ d.parent \in DOMAIN docs
             /\ d.type = "Nota credito" => NoteFits(d.parent, d.total)

NoNoteRunning == \A t \in Terminals : job[t].op \notin {"creditNote", "convert"}

LEMMA NotesKept ==
    ASSUME NotesInv, OfficeInv', RowsStay, StayCancelled, NewNoteFits, NoNoteRunning'
    PROVE  NotesInv'
  <1> DEFINE n == Len(docs) + 1
             d == docs'[n]
  <1>1. /\ BooksInv /\ BooksInv' /\ DOMAIN docs \subseteq Nat \ {0}
        /\ \A i \in DOMAIN docs : docs[i].total \in Nat
        /\ \A i \in DOMAIN docs' : docs'[i].total \in Nat
    <2>1. BooksInv /\ BooksInv'
      BY DEF NotesInv, OfficeInv
    <2>2. docs \in Seq(DocType) /\ docs' \in Seq(DocType)
      BY <2>1 DEF BooksInv, TypeOK
    <2>3. /\ Len(docs) \in Nat /\ DOMAIN docs = 1..Len(docs)
          /\ \A i \in DOMAIN docs : docs[i] \in DocType
          /\ \A i \in DOMAIN docs' : docs'[i] \in DocType
      BY <2>2, TableKeys
    <2>4. /\ \A i \in DOMAIN docs : docs[i].total \in Nat
          /\ \A i \in DOMAIN docs' : docs'[i].total \in Nat
      BY <2>3 DEF DocType
    <2>5. DOMAIN docs \subseteq Nat \ {0}
      <3>1. \A k \in Nat : 1..k \subseteq Nat \ {0}
        OBVIOUS
      <3> QED
        BY <2>3, <3>1
    <2> QED
      BY <2>1, <2>4, <2>5
  <1>2. \A t \in Terminals : NoteJob(t)'
    BY DEF NoteJob, NoNoteRunning
  <1>3. \A i \in DOMAIN docs : Noted(i) \in Nat /\ Noted(i) <= docs[i].total
    BY <1>1, NotedAfter DEF NotesInv, NotesWithinInvoice
  <1>4. CASE DOMAIN docs' = DOMAIN docs
    <2>1. ParentsKnown'
      BY <1>4 DEF NotesInv, ParentsKnown, RowsStay
    <2>2. NotesWithinInvoice'
      <3> SUFFICES ASSUME NEW i \in DOMAIN docs' PROVE Noted(i)' <= docs'[i].total
        BY DEF NotesWithinInvoice
      <3>1. Noted(i)' <= Noted(i) /\ Noted(i)' \in Nat
        BY <1>1, <1>4, NotedAfter
      <3>2. docs'[i].total = docs[i].total /\ i \in DOMAIN docs
        BY <1>4 DEF RowsStay
      <3> QED
        BY <1>1, <1>3, <3>1, <3>2
    <2> QED
      BY <1>2, <2>1, <2>2 DEF NotesInv
  <1>5. CASE Grown
    <2>1. DOMAIN docs' = DOMAIN docs \cup {n} /\ n \notin DOMAIN docs /\ n # 0
      <3>1. Len(docs) \in Nat
        BY <1>1, Rows
      <3>2. n # 0
        <4>1. \A k \in Nat : k + 1 # 0
          OBVIOUS
        <4> QED
          BY <3>1, <4>1
      <3> QED
        BY <1>5, <3>2 DEF Grown
    <2>2. \/ d.parent = 0
          \/ /\ d.parent \in DOMAIN docs
             /\ d.type = "Nota credito" => NoteFits(d.parent, d.total)
      <3>1. DOMAIN docs' # DOMAIN docs
        BY <2>1
      <3> QED
        BY <3>1 DEF NewNoteFits
    <2>3. ParentsKnown'
      <3> SUFFICES ASSUME NEW i \in DOMAIN docs'
                   PROVE  docs'[i].parent \in {0} \cup DOMAIN docs'
        BY DEF ParentsKnown
      <3>1. CASE i \in DOMAIN docs
        BY <2>1, <3>1 DEF NotesInv, ParentsKnown, RowsStay
      <3>2. CASE i = n
        BY <2>1, <2>2, <3>2
      <3> QED
        BY <2>1, <3>1, <3>2
    <2>4. NotesWithinInvoice'
      <3> SUFFICES ASSUME NEW i \in DOMAIN docs' PROVE Noted(i)' <= docs'[i].total
        BY DEF NotesWithinInvoice
      <3> DEFINE k == NoteOf(docs', i)[n]
      <3>1. Noted(i)' <= Noted(i) + k /\ Noted(i)' \in Nat /\ Noted(i) \in Nat
        BY <1>1, <1>5, NotedAfter
      <3>2. k = IF /\ d.parent = i /\ d.type = "Nota credito"
                   /\ d.status # "Cancelada"
                THEN d.total ELSE 0
        BY <2>1 DEF NoteOf
      <3>3. d.total \in Nat /\ docs'[i].total \in Nat
        BY <1>1, <2>1
      <3>4. CASE i \in DOMAIN docs
        <4>1. docs'[i].total = docs[i].total /\ Noted(i) <= docs[i].total
              /\ i # 0 /\ docs[i].total \in Nat
          BY <1>1, <1>3, <3>4 DEF RowsStay
        <4>2. CASE k = 0
          BY <3>1, <4>1, <4>2
        <4>3. CASE k # 0
          <5>1. d.parent = i /\ d.type = "Nota credito" /\ k = d.total
            BY <3>2, <4>3
          <5>2. Noted(i) + d.total <= docs[i].total
            BY <2>2, <4>1, <5>1 DEF NoteFits
          <5>3. Noted(i)' <= Noted(i) + d.total
            BY <3>1, <5>1
          <5>4. \A a, b, c, e \in Nat : a <= b + c /\ b + c <= e => a <= e
            OBVIOUS
          <5>5. Noted(i)' <= docs[i].total
            BY <3>1, <3>3, <4>1, <5>2, <5>3, <5>4
          <5> QED
            BY <4>1, <5>5
        <4> QED
          BY <4>2, <4>3
      <3>5. CASE i = n
        <4>1. k = 0
          BY <2>1, <2>2, <3>2, <3>5
        <4>2. Noted(i) = 0
          <5>1. CreditNotes(i) = {}
            BY <2>1, <3>5 DEF CreditNotes, NotesInv, ParentsKnown
          <5> QED
            BY <5>1, SumEmpty DEF Noted
        <4> QED
          BY <3>1, <3>3, <4>1, <4>2
      <3> QED
        BY <2>1, <3>4, <3>5
    <2> QED
      BY <1>2, <2>3, <2>4 DEF NotesInv
  <1> QED
    BY <1>4, <1>5 DEF NewNoteFits

(* No handler of the only terminal is under way once it has ended. *)
LEMMA NoteEnds ==
    ASSUME OneTerminal, BooksInv, NEW t \in Terminals,
           Finish(t) \/ (job' = job /\ job[t] = Idle)
    PROVE  NoNoteRunning'
  <1>1. job \in [Terminals -> JobType] /\ Idle.op = "idle"
    BY DEF BooksInv, TypeOK, Idle
  <1>2. job'[t] = Idle
    BY <1>1 DEF Finish
  <1>3. \A u \in Terminals : u = t
    BY DEF OneTerminal
  <1> QED
    BY <1>1, <1>2, <1>3 DEF NoNoteRunning

LEMMA RewrittenNotes ==
    ASSUME NEW i \in DOMAIN docs, NEW d, docs' = [docs EXCEPT ![i] = d],
           d.type = docs[i].type, d.total = docs[i].total, d.parent = docs[i].parent
    PROVE  RowsStay /\ NewNoteFits
  BY DEF RowsStay, NewNoteFits

LEMMA AddedNotes ==
    ASSUME BooksInv, NEW d, docs' = Append(docs, d),
           \/ d.parent = 0
           \/ /\ d.parent \in DOMAIN docs
              /\ d.type = "Nota credito" => NoteFits(d.parent, d.total)
    PROVE  RowsStay /\ NewNoteFits
  BY AddedBy DEF Added, RowsStay, NewNoteFits

(* The handlers that rewrite a row. *)
LEMMA CancelNotes ==
    ASSUME BooksInv, NEW t \in Terminals, CancelCommit(t)
    PROVE  RowsStay /\ NewNoteFits
  <1> DEFINE i == job[t].id
             d == [docs[i] EXCEPT !.status = "Cancelada", !.balance = 0]
  <1>1. i \in DOMAIN docs /\ docs[i] \in DocType
    BY JobDoc DEF CancelCommit, Running
  <1>2. docs' = [docs EXCEPT ![i] = d]
    BY DEF CancelCommit
  <1>3. /\ d.type = docs[i].type /\ d.total = docs[i].total
        /\ d.parent = docs[i].parent
    BY <1>1 DEF DocType
  <1> HIDE DEF i, d
  <1> QED
    BY <1>1, <1>2, <1>3, RewrittenNotes

LEMMA AbonoNotes ==
    ASSUME BooksInv, NEW t \in Terminals, AbonoCommit(t)
    PROVE  RowsStay /\ NewNoteFits
  <1> DEFINE j == job[t]
             i == j.id
             b == IF Settled(j) THEN 0 ELSE Left(j)
             s == IF Settled(j) THEN "Pagada" ELSE j.snap.status
             d == WithPayment(docs[i], PaidAfter(j), b, s, docs[i].collected + j.amount)
  <1>1. i \in DOMAIN docs /\ docs[i] \in DocType
    BY JobDoc DEF AbonoCommit, Running
  <1>2. docs' = [docs EXCEPT ![i] = d]
    BY DEF AbonoCommit, WithPayment
  <1>3. /\ d.type = docs[i].type /\ d.total = docs[i].total
        /\ d.parent = docs[i].parent
    BY <1>1 DEF DocType, WithPayment
  <1> HIDE DEF i, d
  <1> QED
    BY <1>1, <1>2, <1>3, RewrittenNotes

LEMMA AdvanceNotes ==
    ASSUME BooksInv, NEW t \in Terminals, AdvanceCommit(t)
    PROVE  RowsStay /\ NewNoteFits
  <1> DEFINE j == job[t]
             i == j.id
             r == docs[i]
             d == IF Settles(j.to)
                  THEN WithSettled(r, j.to, 0, r.total)
                  ELSE WithState(r, j.to)
  <1>1. i \in DOMAIN docs /\ r \in DocType
    BY JobDoc DEF AdvanceCommit, Running
  <1>2. docs' = [docs EXCEPT ![i] = d]
    BY DEF AdvanceCommit, WithSettled, WithState
  <1>3. d.type = r.type /\ d.total = r.total /\ d.parent = r.parent
    BY <1>1 DEF WithSettled, WithState, DocType
  <1> HIDE DEF i, d
  <1> QED
    BY <1>1, <1>2, <1>3, RewrittenNotes

(* The handlers that add a row. *)
LEMMA ConvertNotes ==
    ASSUME NotesInv, NEW t \in Terminals, ConvertCommit(t)
    PROVE  RowsStay /\ NewNoteFits
  <1> DEFINE j == job[t]
             i == j.id
             r == docs[i]
             d == WithState(r, "Cerrada")
             q == [docs EXCEPT ![i] = d]
             e == NewDoc(j.to, r.client, r.total, i)
             n == Len(docs) + 1
  <1>0. BooksInv
    BY DEF NotesInv, OfficeInv
  <1>1. i \in DOMAIN docs /\ r \in DocType /\ j.to # "Nota credito"
    <2>1. j.op = "convert" /\ NoteJob(t)
      BY DEF ConvertCommit, Running, NotesInv
    <2> QED
      BY <1>0, <2>1, JobDoc DEF NoteJob
  <1>2. docs' = Append(q, e)
    BY DEF ConvertCommit, WithState
  <1>3. d.type = r.type /\ d.total = r.total /\ d.parent = r.parent
    BY <1>1 DEF WithState, DocType
  <1>4. e.parent = i /\ e.type # "Nota credito"
    BY <1>1 DEF NewDoc
  <1> HIDE DEF d, e
  <1>5. Grown /\ docs'[n] = e /\ \A k \in DOMAIN docs : docs'[k] = q[k]
    <2> DEFINE S == DocType \cup {d, e}
    <2>0. docs \in Seq(DocType)
      BY <1>0 DEF BooksInv, TypeOK
    <2>1. docs \in Seq(S) /\ d \in S /\ e \in S /\ i \in 1..Len(docs)
      <3>1. docs \in Seq(S)
        BY <2>0, SeqDef
      <3> QED
        BY <1>1, <2>0, <3>1, TableKeys
    <2> HIDE DEF S, i
    <2>2. q \in Seq(S) /\ Len(q) = Len(docs)
      <3>1. q \in Seq(S)
        BY <2>1, ExceptSeq
      <3>2. DOMAIN q = DOMAIN docs
        OBVIOUS
      <3> QED
        BY <2>1, <3>1, <3>2, LenProperties
    <2> HIDE DEF q
    <2>3. /\ docs' \in Seq(S) /\ Len(docs') = Len(q) + 1
          /\ \A k \in 1..Len(q) : docs'[k] = q[k]
          /\ docs'[Len(q) + 1] = e
      BY <1>2, <2>1, <2>2, AppendProperties
    <2>4. /\ Len(docs) \in Nat /\ DOMAIN docs = 1..Len(docs)
          /\ DOMAIN docs' = 1..(Len(docs) + 1)
      BY <2>1, <2>2, <2>3, LenProperties
    <2>5. n \notin DOMAIN docs /\ DOMAIN docs' = DOMAIN docs \cup {n}
      BY <2>4
    <2> QED
      BY <2>2, <2>3, <2>4, <2>5 DEF Grown
  <1>6. \A k \in DOMAIN docs : docs'[k] = IF k = i THEN d ELSE docs[k]
    BY <1>5
  <1>7. RowsStay
    BY <1>3, <1>6 DEF RowsStay
  <1> QED
    BY <1>1, <1>4, <1>5, <1>7 DEF NewNoteFits

LEMMA DocumentNotes ==
    ASSUME NotesInv, NEW t \in Terminals,
           SellCommit(t) \/ CreditNoteCommit(t) \/ OneStep(t)
    PROVE  RowsStay /\ NewNoteFits
  <1>0. BooksInv
    BY DEF NotesInv, OfficeInv
  <1>1. CASE SellCommit(t)
    <2>1. docs' = Append(docs, Ticket(job[t])) /\ Ticket(job[t]).parent = 0
      BY <1>1 DEF SellCommit, Ticket
    <2> QED
      BY <1>0, <2>1, AddedNotes
  <1>2. CASE CreditNoteCommit(t)
    <2> DEFINE j == job[t]
               d == NewDoc("Nota credito", docs[j.id].client, j.amount, j.id)
    <2>1. j.id \in DOMAIN docs /\ NoteFits(j.id, j.amount)
      <3>1. j.op = "creditNote" /\ NoteJob(t)
        BY <1>2 DEF CreditNoteCommit, Running, NotesInv
      <3> QED
        BY <1>0, <3>1, JobDoc DEF NoteJob
    <2>2. docs' = Append(docs, d) /\ d.parent = j.id /\ d.total = j.amount
      BY <1>2 DEF CreditNoteCommit, Create, NewDoc
    <2> HIDE DEF d
    <2> QED
      BY <1>0, <2>1, <2>2, AddedNotes
  <1>3. ASSUME NEW type \in Kinds, NEW c \in Names, NEW total \in Totals,
               CreateDoc(t, type, c, total)
        PROVE  RowsStay /\ NewNoteFits
    <2> DEFINE d == NewDoc(type, c, total, 0)
    <2>1. docs' = Append(docs, d) /\ d.parent = 0
      BY <1>3 DEF CreateDoc, Create, NewDoc
    <2> HIDE DEF d
    <2> QED
      BY <1>0, <2>1, AddedNotes
  <1>4. ASSUME NEW id \in DOMAIN docs, NEW amount \in Amounts, DebitNote(t, id, amount)
        PROVE  RowsStay /\ NewNoteFits
    <2> DEFINE d == NewDoc("Nota cargo", docs[id].client, amount, id)
    <2>1. docs' = Append(docs, d) /\ d.parent = id /\ d.type # "Nota credito"
      BY <1>4 DEF DebitNote, Create, NewDoc
    <2> HIDE DEF d
    <2> QED
      BY <1>0, <2>1, AddedNotes
  <1> QED
    BY <1>1, <1>2, <1>3, <1>4 DEF OneStep

(* A handler that starts, ends without writing, or writes no document. *)
LEMMA NotesUnwritten ==
    ASSUME NotesInv, OfficeInv', docs' = docs,
           \A t \in Terminals : NoteJob(t)'
    PROVE  NotesInv'
  BY DEF NotesInv, ParentsKnown, NotesWithinInvoice, Noted, CreditNotes

LEMMA CheckNotes ==
    ASSUME OneTerminal, NotesInv, OfficeInv', NEW t \in Terminals, Check(t)
    PROVE  NotesInv'
  <1>1. /\ job \in [Terminals -> JobType] /\ \A u \in Terminals : u = t
        /\ docs' = docs
    BY DEF NotesInv, OfficeInv, BooksInv, TypeOK, OneTerminal, Check, SellCheck,
           CancelCheck, AbonoCheck, CreditNoteCheck, AdvanceCheck, ConvertCheck,
           OpenCheck, CloseCheck, Start, books
  <1>2. NoteJob(t)'
    <2>1. ASSUME NEW j, job' = [job EXCEPT ![t] = j],
                 j.op = "creditNote" => NoteFits(j.id, j.amount),
                 j.op = "convert" => j.to # "Nota credito"
          PROVE  NoteJob(t)'
      <3>1. job'[t] = j
        BY <1>1, <2>1
      <3> QED
        BY <1>1, <2>1, <3>1 DEF NoteJob, NoteFits, Noted, CreditNotes
    <2>2. ASSUME NEW id, NEW amount, CreditNoteCheck(t, id, amount) PROVE NoteJob(t)'
      BY <2>1, <2>2 DEF CreditNoteCheck, Start, Idle
    <2>3. ASSUME NEW id, NEW type, ConvertCheck(t, id, type) PROVE NoteJob(t)'
      BY <2>1, <2>3 DEF ConvertCheck, Start, Idle
    <2>4. ASSUME NEW c, NEW total, NEW credit, SellCheck(t, c, total, credit)
          PROVE  NoteJob(t)'
      BY <2>1, <2>4 DEF SellCheck, Start, Idle
    <2>5. ASSUME NEW id, CancelCheck(t, id) PROVE NoteJob(t)'
      BY <2>1, <2>5 DEF CancelCheck, Start, Idle
    <2>6. ASSUME NEW id, NEW amount, AbonoCheck(t, id, amount) PROVE NoteJob(t)'
      BY <2>1, <2>6 DEF AbonoCheck, Start, Idle
    <2>7. ASSUME NEW id, NEW to, AdvanceCheck(t, id, to) PROVE NoteJob(t)'
      BY <2>1, <2>7 DEF AdvanceCheck, Start, Idle
    <2>8. CASE OpenCheck(t) \/ CloseCheck(t)
      BY <2>1, <2>8 DEF OpenCheck, CloseCheck, Start, Idle
    <2> QED
      BY <2>2, <2>3, <2>4, <2>5, <2>6, <2>7, <2>8 DEF Check
  <1> QED
    BY <1>1, <1>2, NotesUnwritten

LEMMA NotesNext ==
    ASSUME OneTerminal, NotesInv, [Next]_vars
    PROVE  NotesInv'
  <1>0. OfficeInv' /\ StayCancelled /\ BooksInv
    BY OfficeNext DEF NotesInv, OfficeInv
  <1>1. CASE UNCHANGED vars
    <2>1. docs' = docs /\ job' = job
      BY <1>1 DEF vars, books
    <2>2. \A t \in Terminals : NoteJob(t)'
      BY <2>1 DEF NotesInv, NoteJob, NoteFits, Noted, CreditNotes
    <2> QED
      BY <1>0, <2>1, <2>2, NotesUnwritten
  <1>2. ASSUME NEW t \in Terminals, Check(t) PROVE NotesInv'
    BY <1>0, <1>2, CheckNotes
  <1>3. ASSUME NEW t \in Terminals, Abandon(t) \/ OpenCommit(t) \/ CloseCommit(t)
        PROVE  NotesInv'
    <2>1. Finish(t) /\ docs' = docs
      BY <1>3 DEF Abandon, OpenCommit, CloseCommit, books
    <2>2. NoNoteRunning'
      BY <1>0, <2>1, NoteEnds
    <2>3. \A u \in Terminals : NoteJob(u)'
      BY <2>2 DEF NoNoteRunning, NoteJob
    <2> QED
      BY <1>0, <2>1, <2>3, NotesUnwritten
  <1>4. ASSUME NEW t \in Terminals,
               \/ SellCommit(t) \/ CancelCommit(t) \/ AbonoCommit(t)
               \/ AdvanceCommit(t) \/ ConvertCommit(t) \/ CreditNoteCommit(t)
               \/ OneStep(t)
        PROVE  NotesInv'
    <2>1. Finish(t) \/ (job' = job /\ job[t] = Idle)
      BY <1>4 DEF SellCommit, CancelCommit, AbonoCommit, AdvanceCommit,
                  ConvertCommit, CreditNoteCommit, OneStep, CreateDoc, DebitNote
    <2>2. NoNoteRunning'
      BY <1>0, <2>1, NoteEnds
    <2>3. RowsStay /\ NewNoteFits
      BY <1>0, <1>4, CancelNotes, AbonoNotes, AdvanceNotes, ConvertNotes,
         DocumentNotes
    <2> QED
      BY <1>0, <2>2, <2>3, NotesKept
  <1> QED
    BY <1>1, <1>2, <1>3, <1>4 DEF Next, Commit

(* createCreditNote: one after the other, the notes of a document never exceed
   it in sum, whatever is cancelled, advanced or converted in between. *)
THEOREM NotesHold == ASSUME OneTerminal PROVE Spec => []NotesWithinInvoice
  <1>1. NotesInv /\ [Next]_vars => NotesInv'
    BY NotesNext
  <1>2. NotesInv => NotesWithinInvoice
    BY DEF NotesInv
  <1> QED
    BY <1>1, <1>2, NotesInit, PTL DEF Spec

-----------------------------------------------------------------------------
(* The turns of the till and their reports *)

ReportsOf(n) == {a \in arqueos : a.turn = n}

(* The till a handler that opens or closes it has read is the till it writes. *)
TurnJob(t) ==
    /\ job[t].op = "open" => ~ till.open
    /\ job[t].op = "close" => till.open /\ job[t].amount = Expected

TurnsInv ==
    /\ BooksInv
    /\ IsFiniteSet(arqueos) /\ \A a \in arqueos : a.turn \in DOMAIN moved
    /\ ArqueoSquares
    /\ EveryTurnReported
    /\ \A t \in Terminals : TurnJob(t)

LEMMA TurnsInit == Init => TurnsInv
  <1> SUFFICES ASSUME Init PROVE TurnsInv
    OBVIOUS
  <1>1. BooksInv /\ arqueos = {} /\ DOMAIN moved = {} /\ IsFiniteSet({})
    BY InitOK, FS_EmptySet DEF Init
  <1>2. \A t \in Terminals : TurnJob(t)
    BY DEF Init, Idle, TurnJob
  <1> QED
    BY <1>1, <1>2 DEF TurnsInv, ArqueoSquares, EveryTurnReported

(* The open turn has no report yet, the others have one. *)
LEMMA ReportsCount ==
    ASSUME TurnsInv
    PROVE  /\ \A n : IsFiniteSet(ReportsOf(n))
           /\ \A n \in DOMAIN moved :
                 Cardinality(ReportsOf(n)) = IF till.open /\ n = till.turn THEN 0 ELSE 1
           /\ till.open => till.turn \in DOMAIN moved /\ ReportsOf(till.turn) = {}
  <1>1. \A n : IsFiniteSet(ReportsOf(n))
    BY FS_Subset DEF TurnsInv, ReportsOf
  <1>2. \A n \in DOMAIN moved :
           Cardinality(ReportsOf(n)) = IF till.open /\ n = till.turn THEN 0 ELSE 1
    BY DEF TurnsInv, EveryTurnReported, ReportsOf
  <1>3. till.open => till.turn \in DOMAIN moved
    BY DEF TurnsInv, BooksInv, TillInv
  <1>4. till.open => Cardinality(ReportsOf(till.turn)) = 0
    BY <1>2, <1>3
  <1> QED
    BY <1>1, <1>2, <1>3, <1>4, FS_EmptySet

(* Nothing but the sum of the open turn changes. *)
TurnGoesOn ==
    /\ arqueos' = arqueos /\ till'.open = till.open /\ till'.turn = till.turn
    /\ DOMAIN moved' = DOMAIN moved
    /\ \A n \in DOMAIN moved :
          ~ (till.open /\ n = till.turn) => moved'[n] = moved[n]

LEMMA TurnsGoOn ==
    ASSUME TurnsInv, BooksInv', TurnGoesOn, \A t \in Terminals : TurnJob(t)'
    PROVE  TurnsInv'
  <1>1. ArqueoSquares'
    <2> SUFFICES ASSUME NEW a \in arqueos, a.turn # 0
                 PROVE  a.expected = moved'[a.turn]
      BY DEF ArqueoSquares, TurnGoesOn
    <2>1. a.turn \in DOMAIN moved /\ a.expected = moved[a.turn]
      BY DEF TurnsInv, ArqueoSquares
    <2>2. ~ (till.open /\ a.turn = till.turn)
      BY ReportsCount DEF ReportsOf
    <2> QED
      BY <2>1, <2>2 DEF TurnGoesOn
  <1>2. EveryTurnReported'
    BY DEF TurnsInv, EveryTurnReported, TurnGoesOn
  <1> QED
    BY <1>1, <1>2 DEF TurnsInv, TurnGoesOn

(* The till of a sale and of a cancellation. *)
LEMMA SaleTurn ==
    ASSUME BooksInv, arqueos' = arqueos, NEW id, NEW total,
           RecordSale(id, total) \/ ReverseSale(id)
    PROVE  TurnGoesOn
  <1>1. /\ till \in TillType /\ moved \in Seq(Int)
        /\ till.open => till.turn \in DOMAIN moved
    BY DEF BooksInv, TypeOK, TillInv
  <1>2. ASSUME NEW k, NEW sum, NEW list, till.open,
               till' = [till EXCEPT !.takings = sum, !.sales = list],
               moved' = [moved EXCEPT ![till.turn] = k]
        PROVE  TurnGoesOn
    <2>1. till'.open = till.open /\ till'.turn = till.turn
      BY <1>1, <1>2 DEF TillType
    <2>2. /\ DOMAIN moved' = DOMAIN moved
          /\ \A n \in DOMAIN moved : n # till.turn => moved'[n] = moved[n]
      BY <1>1, <1>2
    <2> QED
      BY <1>2, <2>1, <2>2 DEF TurnGoesOn
  <1>3. CASE UNCHANGED <<till, moved>>
    BY <1>3 DEF TurnGoesOn
  <1>4. CASE RecordSale(id, total) /\ till.open
    BY <1>2, <1>4 DEF RecordSale
  <1>5. CASE ReverseSale(id) /\ InTurn(id)
    BY <1>2, <1>5 DEF ReverseSale, InTurn
  <1> QED
    BY <1>3, <1>4, <1>5 DEF RecordSale, ReverseSale

(* The only terminal has ended: no turn is being opened or closed. *)
LEMMA TurnEnds ==
    ASSUME OneTerminal, BooksInv, NEW t \in Terminals,
           Finish(t) \/ (job' = job /\ job[t] = Idle)
    PROVE  \A u \in Terminals : TurnJob(u)'
  <1>1. job \in [Terminals -> JobType] /\ Idle.op = "idle"
    BY DEF BooksInv, TypeOK, Idle
  <1>2. job'[t] = Idle /\ \A u \in Terminals : u = t
    BY <1>1 DEF Finish, OneTerminal
  <1> QED
    BY <1>1, <1>2 DEF TurnJob

LEMMA CheckTurns ==
    ASSUME OneTerminal, TurnsInv, BooksInv', NEW t \in Terminals, Check(t)
    PROVE  TurnsInv'
  <1>1. /\ job \in [Terminals -> JobType] /\ \A u \in Terminals : u = t
        /\ UNCHANGED <<till, moved, arqueos>>
    BY DEF TurnsInv, BooksInv, TypeOK, OneTerminal, Check, SellCheck,
           CancelCheck, AbonoCheck, CreditNoteCheck, AdvanceCheck, ConvertCheck,
           OpenCheck, CloseCheck, Start, cash
  <1>2. TurnJob(t)'
    <2>1. ASSUME NEW j, job' = [job EXCEPT ![t] = j],
                 j.op = "open" => ~ till.open,
                 j.op = "close" => till.open /\ j.amount = Expected
          PROVE  TurnJob(t)'
      <3>1. job'[t] = j
        BY <1>1, <2>1
      <3> QED
        BY <1>1, <2>1, <3>1 DEF TurnJob, Expected
    <2>2. ASSUME NEW id, NEW amount, CreditNoteCheck(t, id, amount) PROVE TurnJob(t)'
      BY <2>1, <2>2 DEF CreditNoteCheck, Start, Idle
    <2>3. ASSUME NEW id, NEW type, ConvertCheck(t, id, type) PROVE TurnJob(t)'
      BY <2>1, <2>3 DEF ConvertCheck, Start, Idle
    <2>4. ASSUME NEW c, NEW total, NEW credit, SellCheck(t, c, total, credit)
          PROVE  TurnJob(t)'
      BY <2>1, <2>4 DEF SellCheck, Start, Idle
    <2>5. ASSUME NEW id, CancelCheck(t, id) PROVE TurnJob(t)'
      BY <2>1, <2>5 DEF CancelCheck, Start, Idle
    <2>6. ASSUME NEW id, NEW amount, AbonoCheck(t, id, amount) PROVE TurnJob(t)'
      BY <2>1, <2>6 DEF AbonoCheck, Start, Idle
    <2>7. ASSUME NEW id, NEW to, AdvanceCheck(t, id, to) PROVE TurnJob(t)'
      BY <2>1, <2>7 DEF AdvanceCheck, Start, Idle
    <2>8. CASE OpenCheck(t)
      BY <2>1, <2>8 DEF OpenCheck, MayOpen, Start, Idle
    <2>9. CASE CloseCheck(t)
      BY <2>1, <2>9 DEF CloseCheck, Start, Idle
    <2> QED
      BY <2>2, <2>3, <2>4, <2>5, <2>6, <2>7, <2>8, <2>9 DEF Check
  <1>3. TurnGoesOn
    BY <1>1 DEF TurnGoesOn
  <1> QED
    BY <1>1, <1>2, <1>3, TurnsGoOn

(* A turn opens after the others were closed: it has no report. *)
LEMMA OpenTurns ==
    ASSUME OneTerminal, TurnsInv, BooksInv', NEW t \in Terminals, OpenCommit(t)
    PROVE  TurnsInv'
  <1>0. BooksInv /\ moved \in Seq(Int)
    BY DEF TurnsInv, BooksInv, TypeOK
  <1>1. PICK n \in Nat : n = Len(moved)
    BY <1>0, LenProperties
  <1>2. ~ till.open /\ job[t].amount \in Int
    <2>1. job[t].op = "open" /\ TurnJob(t) /\ job[t] \in JobType
      BY <1>0, Rows DEF OpenCommit, Running, TurnsInv
    <2> QED
      BY <2>1 DEF TurnJob, JobType
  <1>3. /\ till'.open = TRUE /\ till'.turn = n + 1 /\ arqueos' = arqueos
        /\ moved' = Append(moved, job[t].amount) /\ Finish(t)
    BY <1>1 DEF OpenCommit, Opened
  <1>4. /\ DOMAIN moved = 1..n /\ DOMAIN moved' = 1..(n + 1)
        /\ \A k \in 1..n : moved'[k] = moved[k]
    BY <1>0, <1>1, <1>2, <1>3, AppendProperties, LenProperties
  <1>5. /\ 1..(n + 1) = (1..n) \cup {n + 1} /\ n + 1 \notin 1..n
        /\ n + 1 # 0
    OBVIOUS
  <1>6. \A a \in arqueos : a.turn \in 1..n
    BY <1>4 DEF TurnsInv
  <1>7. ArqueoSquares'
    BY <1>3, <1>4, <1>6 DEF TurnsInv, ArqueoSquares
  <1>8. EveryTurnReported'
    <2> SUFFICES ASSUME NEW k \in 1..(n + 1)
                 PROVE  Cardinality({a \in arqueos : a.turn = k}) =
                           IF k = n + 1 THEN 0 ELSE 1
      BY <1>3, <1>4 DEF EveryTurnReported
    <2>1. CASE k \in 1..n
      BY <1>2, <1>4, <1>5, <2>1 DEF TurnsInv, EveryTurnReported
    <2>2. CASE k = n + 1
      <3>1. {a \in arqueos : a.turn = k} = {}
        BY <1>5, <1>6, <2>2
      <3> QED
        BY <2>2, <3>1, FS_EmptySet
    <2> QED
      BY <1>5, <2>1, <2>2
  <1>9. \A u \in Terminals : TurnJob(u)'
    BY <1>0, <1>3, TurnEnds
  <1> QED
    BY <1>3, <1>4, <1>5, <1>6, <1>7, <1>8, <1>9 DEF TurnsInv

(* A close reports the open turn, for the first time, as it stands. *)
LEMMA CloseTurns ==
    ASSUME OneTerminal, TurnsInv, BooksInv', NEW t \in Terminals, CloseCommit(t)
    PROVE  TurnsInv'
  <1> DEFINE r == [turn |-> till.turn, expected |-> job[t].amount]
  <1>0. BooksInv
    BY DEF TurnsInv
  <1>1. till.open /\ job[t].amount = Expected
    BY DEF CloseCommit, Running, TurnsInv, TurnJob
  <1>2. /\ till'.open = FALSE /\ arqueos' = arqueos \cup {r}
        /\ moved' = moved /\ Finish(t)
    BY DEF CloseCommit, Closed
  <1>3. /\ r.turn = till.turn /\ r.expected = moved[till.turn]
        /\ till.turn \in DOMAIN moved /\ ReportsOf(till.turn) = {}
    BY <1>0, <1>1, ReportsCount DEF BooksInv, TillSquares
  <1> HIDE DEF r
  <1>4. IsFiniteSet(arqueos') /\ \A a \in arqueos' : a.turn \in DOMAIN moved'
    BY <1>2, <1>3, FS_AddElement DEF TurnsInv
  <1>5. ArqueoSquares'
    BY <1>2, <1>3 DEF TurnsInv, ArqueoSquares
  <1>6. EveryTurnReported'
    <2> SUFFICES ASSUME NEW n \in DOMAIN moved
                 PROVE  Cardinality({a \in arqueos \cup {r} : a.turn = n}) = 1
      BY <1>2 DEF EveryTurnReported
    <2>1. CASE n = till.turn
      <3>1. {a \in arqueos \cup {r} : a.turn = n} = {r}
        BY <1>3, <2>1 DEF ReportsOf
      <3> QED
        BY <3>1, FS_Singleton
    <2>2. CASE n # till.turn
      <3>1. {a \in arqueos \cup {r} : a.turn = n} = {a \in arqueos : a.turn = n}
        BY <1>3, <2>2
      <3> QED
        BY <2>2, <3>1 DEF TurnsInv, EveryTurnReported
    <2> QED
      BY <2>1, <2>2
  <1>7. \A u \in Terminals : TurnJob(u)'
    BY <1>0, <1>2, TurnEnds
  <1> QED
    BY <1>4, <1>5, <1>6, <1>7 DEF TurnsInv

LEMMA TurnsNext ==
    ASSUME OneTerminal, TurnsInv, [Next]_vars
    PROVE  TurnsInv'
  <1>0. BooksInv /\ BooksInv'
    BY BooksNext DEF TurnsInv
  <1>1. CASE UNCHANGED vars
    <2>1. UNCHANGED <<till, moved, arqueos, job>>
      BY <1>1 DEF vars, cash
    <2>2. \A t \in Terminals : TurnJob(t)'
      BY <2>1 DEF TurnsInv, TurnJob, Expected
    <2> QED
      BY <1>0, <2>1, <2>2, TurnsGoOn DEF TurnGoesOn
  <1>2. ASSUME NEW t \in Terminals, Check(t) PROVE TurnsInv'
    BY <1>0, <1>2, CheckTurns
  <1>3. ASSUME NEW t \in Terminals, OpenCommit(t) PROVE TurnsInv'
    BY <1>0, <1>3, OpenTurns
  <1>4. ASSUME NEW t \in Terminals, CloseCommit(t) PROVE TurnsInv'
    BY <1>0, <1>4, CloseTurns
  <1>5. ASSUME NEW t \in Terminals,
               \/ SellCommit(t) \/ CancelCommit(t) \/ AbonoCommit(t)
               \/ AdvanceCommit(t) \/ ConvertCommit(t) \/ CreditNoteCommit(t)
               \/ OneStep(t) \/ Abandon(t)
        PROVE  TurnsInv'
    <2>1. Finish(t) \/ (job' = job /\ job[t] = Idle)
      BY <1>5 DEF SellCommit, CancelCommit, AbonoCommit, AdvanceCommit,
                  ConvertCommit, CreditNoteCommit, OneStep, CreateDoc, DebitNote,
                  Abandon
    <2>2. \A u \in Terminals : TurnJob(u)'
      BY <1>0, <2>1, TurnEnds
    <2>3. TurnGoesOn
      <3>1. CASE SellCommit(t) \/ CancelCommit(t)
        BY <1>0, <3>1, SaleTurn DEF SellCommit, CancelCommit
      <3>2. CASE UNCHANGED cash
        BY <3>2 DEF cash, TurnGoesOn
      <3> QED
        BY <1>5, <3>1, <3>2 DEF AbonoCommit, AdvanceCommit, ConvertCommit,
           CreditNoteCommit, OneStep, CreateDoc, DebitNote, Abandon
    <2> QED
      BY <1>0, <2>2, <2>3, TurnsGoOn
  <1> QED
    BY <1>1, <1>2, <1>3, <1>4, <1>5 DEF Next, Commit

(* CajaRepository: one after the other, every turn but the open one has been
   reported exactly once, with what its movements add up to then and for ever,
   and the notes of a document never exceed it. *)
THEOREM TurnsAndNotesHold == ASSUME OneTerminal PROVE Spec => []TurnsAndNotesClose
  <1>1. TurnsInv /\ [Next]_vars => TurnsInv'
    BY TurnsNext
  <1>2. TurnsInv => ArqueoSquares /\ EveryTurnReported
    BY DEF TurnsInv
  <1>3. ArqueoSquares /\ EveryTurnReported /\ NotesWithinInvoice => TurnsAndNotesClose
    BY DEF TurnsAndNotesClose
  <1> QED
    BY <1>1, <1>2, <1>3, TurnsInit, NotesHold, PTL DEF Spec
=============================================================================
