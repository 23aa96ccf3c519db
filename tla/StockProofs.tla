---------------------------- MODULE StockProofs ----------------------------
(* Proofs about Stock for any terminals, products, warehouses and bounds. *)
EXTENDS Stock, SumsProofs, SequenceTheorems

SaleRow == [cart : Carts, loc : Locations, live : BOOLEAN]
CountRow == [sku : Skus, diff : Int, open : BOOLEAN, applied : Nat]

(* The value an idle terminal holds is a well-formed job. *)
LEMMA IdleType == Idle \in JobType
  <1>1. (CHOOSE s \in Skus : TRUE) \in Skus
    BY StockAssumption
  <1>2. QED
    BY <1>1, StockAssumption DEF Idle, JobType, JobOps, Carts

(* What a product has in all the warehouses, or in all but the main one, is a
   number; of what the shop opens with, not a negative one. *)
LEMMA TotalsType ==
    /\ \A row \in [Locations -> Int] :
          SumOf(row, Locations) \in Int /\ Others(row) \in Int
    /\ \A s \in Skus : SumOf(Opening[s], Locations) \in Nat
  <1>1. IsFiniteSet(Locations) /\ IsFiniteSet(Locations \ {Principal})
    BY StockAssumption, FS_Subset
  <1>2. ASSUME NEW row \in [Locations -> Int]
        PROVE  SumOf(row, Locations) \in Int /\ Others(row) \in Int
    BY <1>1, SumInt DEF Others
  <1>3. ASSUME NEW s \in Skus PROVE SumOf(Opening[s], Locations) \in Nat
    BY <1>1, SumNat, StockAssumption
  <1> QED
    BY <1>2, <1>3

(* Recording a row keeps the others where they were. *)
LEMMA AppendRow ==
    ASSUME NEW R, NEW q \in Seq(R), NEW r \in R
    PROVE  /\ Append(q, r) \in Seq(R)
           /\ Len(Append(q, r)) = Len(q) + 1
  BY AppendProperties

(* Rewriting a row keeps the table's length. *)
LEMMA ReplaceRow ==
    ASSUME NEW R, NEW q \in Seq(R), NEW i \in 1..Len(q), NEW r \in R
    PROVE  /\ [q EXCEPT ![i] = r] \in Seq(R)
           /\ Len([q EXCEPT ![i] = r]) = Len(q)
  BY ExceptSeq

(* The tables only grow and one terminal takes on a usable job: every
   terminal's job is usable afterwards. *)
LEMMA JobsStayUsable ==
    ASSUME LedgerInv, NEW t \in Terminals, NEW j \in JobType,
           job' = [job EXCEPT ![t] = j],
           Len(sales) \in Nat, Len(sales') \in Nat, Len(sales) <= Len(sales'),
           Len(counts) \in Nat, Len(counts') \in Nat, Len(counts) <= Len(counts'),
           j.op = "cancel" => j.id \in 1..Len(sales'),
           j.op \in {"countRead", "countMark"} => j.id \in 1..Len(counts'),
           j.op = "adjust" => j.id \in 0..Len(counts'),
           j.op = "transfer" => j.qty >= 0
    PROVE  /\ job' \in [Terminals -> JobType]
           /\ \A u \in Terminals : JobOK(u)'
  <1>1. job \in [Terminals -> JobType]
    BY DEF LedgerInv, TypeOK
  <1>2. job' \in [Terminals -> JobType]
    BY <1>1
  <1>3. ASSUME NEW u \in Terminals PROVE JobOK(u)'
    <2>1. CASE u = t
      BY <2>1, <1>1 DEF JobOK
    <2>2. CASE u # t
      <3>1. job'[u] = job[u] /\ job[u] \in JobType
        BY <2>2, <1>1
      <3>2. JobOK(u)
        BY DEF LedgerInv
      <3>3. job[u].id \in Nat /\ job[u].qty \in Int
        BY <3>1 DEF JobType
      <3> QED
        BY <3>1, <3>2, <3>3 DEF JobOK
    <2> QED
      BY <2>1, <2>2
  <1> QED
    BY <1>2, <1>3

(* The two tables have lengths. *)
LEMMA Lengths == LedgerInv => Len(sales) \in Nat /\ Len(counts) \in Nat
  BY LenProperties DEF LedgerInv, TypeOK

(* A movement more in the kardex. *)
LEMMA MovementStep ==
    ASSUME LedgerInv, NEW s, NEW of \in {"stock", "available", "shelf"}, NEW n \in Int,
           kardex' = [kardex EXCEPT ![s] = Movement(of, n)]
    PROVE  kardex' \in [Skus -> MovementType]
  <1>1. Movement(of, n) \in MovementType
    BY DEF Movement, MovementType
  <1> QED
    BY <1>1 DEF LedgerInv, TypeOK

(* The opening state satisfies the invariant. *)
LEMMA InitInv == Init => LedgerInv
  <1> SUFFICES ASSUME Init PROVE LedgerInv
    OBVIOUS
  <1>1. TypeOK
    <2>1. stock \in [Skus -> Int] /\ kardex \in [Skus -> MovementType]
      BY TotalsType DEF Init, Movement, MovementType
    <2>2. reserved \in [Skus -> Nat] /\ ledger \in [Skus -> [Locations -> Int]]
      BY StockAssumption DEF Init
    <2>3. sales \in Seq(SaleRow) /\ counts \in Seq(CountRow)
      BY EmptySeq DEF Init
    <2>4. job \in [Terminals -> JobType]
      BY IdleType DEF Init
    <2>5. formed \subseteq Skus
      BY DEF Init
    <2> QED
      BY <2>1, <2>2, <2>3, <2>4, <2>5 DEF TypeOK, SaleRow, CountRow
  <1>2. LedgerNonNegative
    BY StockAssumption DEF Init, LedgerNonNegative
  <1>3. \A t \in Terminals : JobOK(t)
    BY DEF Init, JobOK, Idle
  <1> QED
    BY <1>1, <1>2, <1>3 DEF LedgerInv

-----------------------------------------------------------------------------
(* The steps, one lemma each where the writes differ *)

(* A handler that only read: the job changes, the tables do not. *)
LEMMA JobOnlyStep ==
    ASSUME LedgerInv, NEW t \in Terminals, NEW j \in JobType,
           job' = [job EXCEPT ![t] = j], UNCHANGED db,
           j.op = "cancel" => j.id \in 1..Len(sales),
           j.op \in {"countRead", "countMark"} => j.id \in 1..Len(counts),
           j.op = "adjust" => j.id \in 0..Len(counts),
           j.op = "transfer" => j.qty >= 0
    PROVE  LedgerInv'
  <1>1. /\ Len(sales) \in Nat /\ Len(counts) \in Nat
        /\ sales' = sales /\ counts' = counts
    BY Lengths DEF db
  <1>2a. /\ Len(sales') = Len(sales) /\ Len(counts') = Len(counts)
        /\ Len(sales) <= Len(sales') /\ Len(counts) <= Len(counts')
    BY <1>1
  <1>2. job' \in [Terminals -> JobType] /\ \A u \in Terminals : JobOK(u)'
    BY <1>1, <1>2a, JobsStayUsable
  <1>3. TypeOK' /\ LedgerNonNegative'
    BY <1>2 DEF LedgerInv, TypeOK, LedgerNonNegative, db
  <1> QED
    BY <1>2, <1>3 DEF LedgerInv

(* A handler that ends leaves its terminal idle. *)
LEMMA FinishStep ==
    ASSUME LedgerInv, NEW t \in Terminals, Finish(t),
           Len(sales') \in Nat, Len(sales) <= Len(sales'),
           Len(counts') \in Nat, Len(counts) <= Len(counts')
    PROVE  job' \in [Terminals -> JobType] /\ \A u \in Terminals : JobOK(u)'
  <1>1. Idle.op = "idle"
    BY DEF Idle
  <1> QED
    BY <1>1, IdleType, Lengths, JobsStayUsable DEF Finish

(* Every way a handler starts. *)
LEMMA StartStep ==
    ASSUME LedgerInv, NEW t \in Terminals
    PROVE  /\ \A cart \in Carts, l \in Locations :
                 SaleCheck(t, cart, l) => LedgerInv'
           /\ \A i \in DOMAIN sales : CancelCheck(t, i) => LedgerInv'
           /\ \A i \in DOMAIN counts : CountApply(t, i) => LedgerInv'
           /\ \A s \in Skus, q \in Int :
                 AdjustCheck(t, s, q) \/ EntryCheck(t, s, q) \/ EditCheck(t, s, q)
                 => LedgerInv'
           /\ \A s \in Skus, q \in Nat, from, to \in Locations :
                 TransferCheck(t, s, q, from, to) => LedgerInv'
  <1>0. /\ Idle \in JobType
        /\ Idle.id = 0
        /\ \A s \in Skus : stock[s] \in Int
        /\ DOMAIN sales = 1..Len(sales) /\ DOMAIN counts = 1..Len(counts)
        /\ Len(sales) \in Nat /\ Len(counts) \in Nat
    BY IdleType, LenProperties DEF LedgerInv, TypeOK, Idle
  <1>1. ASSUME NEW cart \in Carts, NEW l \in Locations, SaleCheck(t, cart, l)
        PROVE  LedgerInv'
    <2> DEFINE j == [Idle EXCEPT !.op = "sale", !.cart = cart, !.from = l]
    <2>1. j \in JobType /\ j.op = "sale"
      BY <1>0 DEF JobType, JobOps
    <2> QED
      BY <1>1, <2>1, JobOnlyStep DEF SaleCheck, Start
  <1>2. ASSUME NEW i \in DOMAIN sales, CancelCheck(t, i) PROVE LedgerInv'
    <2> DEFINE j == [Idle EXCEPT !.op = "cancel", !.id = i]
    <2>1. i \in Nat /\ i \in 1..Len(sales)
      BY <1>0
    <2>2. j \in JobType /\ j.op = "cancel" /\ j.id = i
      BY <1>0, <2>1 DEF JobType, JobOps
    <2> QED
      BY <1>2, <2>1, <2>2, JobOnlyStep DEF CancelCheck, Start
  <1>3. ASSUME NEW i \in DOMAIN counts, CountApply(t, i) PROVE LedgerInv'
    <2> DEFINE j == [Idle EXCEPT !.op = NextOfCount(i), !.id = i]
    <2>1. i \in Nat /\ i \in 1..Len(counts)
      BY <1>0
    <2>2. NextOfCount(i) \in {"countRead", "countMark"}
      BY DEF NextOfCount
    <2>3. j \in JobType /\ j.id = i /\ j.op \in {"countRead", "countMark"}
      BY <1>0, <2>1, <2>2 DEF JobType, JobOps
    <2> QED
      BY <1>3, <2>1, <2>3, JobOnlyStep DEF CountApply, Start
  <1>4. ASSUME NEW s \in Skus, NEW q \in Int,
               AdjustCheck(t, s, q) \/ EntryCheck(t, s, q) \/ EditCheck(t, s, q)
        PROVE  LedgerInv'
    <2> DEFINE j(op) == [Idle EXCEPT !.op = op, !.sku = s, !.qty = q,
                                     !.snap = stock[s]]
    <2>1. \A op \in {"adjust", "entry", "edit"} :
             j(op) \in JobType /\ j(op).op = op /\ j(op).id = 0
      BY <1>0 DEF JobType, JobOps
    <2>2. PICK op \in {"adjust", "entry", "edit"} :
             job' = [job EXCEPT ![t] = j(op)] /\ UNCHANGED db
      BY <1>4 DEF AdjustCheck, EntryCheck, EditCheck, Start
    <2>3. j(op).id \in 0..Len(counts)
      BY <1>0, <2>1
    <2> HIDE DEF j
    <2> QED
      BY <2>1, <2>2, <2>3, JobOnlyStep
  <1>5. ASSUME NEW s \in Skus, NEW q \in Nat, NEW from \in Locations,
               NEW to \in Locations, TransferCheck(t, s, q, from, to)
        PROVE  LedgerInv'
    <2> DEFINE j == [Idle EXCEPT !.op = "transfer", !.sku = s, !.qty = q,
                                 !.snap = stock[s], !.from = from, !.to = to]
    <2>1. q \in Int /\ q >= 0 /\ stock[s] \in Int
      BY <1>0
    <2>2. j \in JobType /\ j.op = "transfer" /\ j.qty = q
      BY <1>0, <2>1 DEF JobType, JobOps
    <2>3. job' = [job EXCEPT ![t] = j] /\ UNCHANGED db
      BY <1>5 DEF TransferCheck, Start
    <2> HIDE DEF j
    <2> QED
      BY <2>1, <2>2, <2>3, JobOnlyStep
  <1> QED
    BY <1>1, <1>2, <1>3, <1>4, <1>5

(* A sale: SaleFits leaves in the warehouse at least what the cart takes. *)
LEMMA SaleStep ==
    ASSUME LedgerInv, NEW t \in Terminals, SaleCommit(t)
    PROVE  LedgerInv'
  <1> DEFINE cart == job[t].cart
             loc == job[t].from
             sold == [cart |-> cart, loc |-> loc, live |-> TRUE]
  <1>1. cart \in Carts /\ loc \in Locations
    BY DEF LedgerInv, TypeOK, JobType
  <1>2. /\ stock' = [s \in Skus |-> stock[s] - cart[s]]
        /\ ledger' = [s \in Skus |-> [ledger[s] EXCEPT ![loc] = @ - cart[s]]]
        /\ reserved' = [s \in Skus |-> Consumed(reserved[s], cart[s])]
        /\ kardex' = [s \in Skus |-> Recorded(cart[s], stock[s], stock'[s], kardex[s])]
        /\ sales' = Append(sales, sold)
        /\ counts' = counts /\ formed' = formed
        /\ Finish(t)
        /\ SaleFits(cart, loc)
    BY DEF SaleCommit, TakeLedger
  <1>3. \A s \in Skus : /\ stock[s] \in Int /\ reserved[s] \in Nat /\ kardex[s] \in MovementType
                        /\ cart[s] \in Nat
                        /\ ledger[s] \in [Locations -> Int]
                        /\ \A l \in Locations : ledger[s][l] >= 0
    BY <1>1 DEF LedgerInv, TypeOK, LedgerNonNegative, Carts
  <1>4. stock' \in [Skus -> Int] /\ kardex' \in [Skus -> MovementType]
    BY <1>2, <1>3 DEF Recorded, Movement, MovementType
  <1>5. reserved' \in [Skus -> Nat]
    BY <1>2, <1>3 DEF Consumed, Max0
  <1>6. ledger' \in [Skus -> [Locations -> Int]]
    BY <1>1, <1>2, <1>3
  <1>7. sales' \in Seq(SaleRow) /\ Len(sales') = Len(sales) + 1
    <2>1. sold \in SaleRow /\ sales \in Seq(SaleRow)
      BY <1>1 DEF SaleRow, LedgerInv, TypeOK
    <2> QED
      BY <1>2, <2>1, AppendRow
  <1>8. LedgerNonNegative'
    BY <1>1, <1>2, <1>3 DEF LedgerNonNegative, SaleFits
  <1>9. job' \in [Terminals -> JobType] /\ \A u \in Terminals : JobOK(u)'
    <2>1. /\ Len(sales) <= Len(sales') /\ Len(sales') \in Nat
          /\ Len(counts) <= Len(counts') /\ Len(counts') \in Nat
      BY <1>2, <1>7, Lengths
    <2> QED
      BY <1>2, <2>1, FinishStep
  <1> QED
    BY <1>2, <1>4, <1>5, <1>6, <1>7, <1>8, <1>9
    DEF LedgerInv, TypeOK, SaleRow

(* A cancellation only adds to Principal's row. *)
LEMMA CancelStep ==
    ASSUME LedgerInv, NEW t \in Terminals, CancelCommit(t)
    PROVE  LedgerInv'
  <1> DEFINE i == job[t].id
             cart == sales[i].cart
             voided == [sales[i] EXCEPT !.live = FALSE]
  <1>1. /\ i \in 1..Len(sales) /\ sales \in Seq(SaleRow)
        /\ job[t].op = "cancel"
    BY DEF LedgerInv, TypeOK, JobOK, CancelCommit, SaleRow
  <1>2. sales[i] \in SaleRow
    BY <1>1, ElementOfSeq
  <1>3. /\ stock' = [s \in Skus |-> stock[s] + cart[s]]
        /\ ledger' = [s \in Skus |-> [ledger[s] EXCEPT ![Principal] = @ + cart[s]]]
        /\ kardex' = [s \in Skus |-> Recorded(cart[s], stock[s], stock'[s], kardex[s])]
        /\ sales' = [sales EXCEPT ![i] = voided]
        /\ reserved' = reserved /\ counts' = counts /\ formed' = formed
        /\ Finish(t)
    BY DEF CancelCommit
  <1>4. /\ reserved \in [Skus -> Nat]
        /\ \A s \in Skus : /\ stock[s] \in Int /\ kardex[s] \in MovementType
                           /\ cart[s] \in Nat
                           /\ ledger[s] \in [Locations -> Int]
                           /\ \A l \in Locations : ledger[s][l] >= 0
    BY <1>2 DEF LedgerInv, TypeOK, LedgerNonNegative, SaleRow, Carts
  <1>5. stock' \in [Skus -> Int] /\ kardex' \in [Skus -> MovementType]
    BY <1>3, <1>4 DEF Recorded, Movement, MovementType
  <1>6. ledger' \in [Skus -> [Locations -> Int]] /\ LedgerNonNegative'
    BY <1>3, <1>4, StockAssumption DEF LedgerNonNegative
  <1>7. sales' \in Seq(SaleRow) /\ Len(sales') = Len(sales)
    <2>1. voided \in SaleRow
      BY <1>2 DEF SaleRow
    <2> QED
      BY <1>1, <1>3, <2>1, ReplaceRow
  <1>8. job' \in [Terminals -> JobType] /\ \A u \in Terminals : JobOK(u)'
    BY <1>3, <1>7, Lengths, FinishStep
  <1> QED
    BY <1>3, <1>4, <1>5, <1>6, <1>7, <1>8 DEF LedgerInv, TypeOK, SaleRow

(* Reservations touch neither the ledger nor the jobs. *)
LEMMA ReservationStep ==
    ASSUME LedgerInv, NEW t \in Terminals, NEW s \in Skus, NEW q \in Units,
           Reserve(t, s, q) \/ Release(t, s, q)
    PROVE  LedgerInv'
  <1>1. /\ UNCHANGED <<stock, ledger, sales, counts, formed, job>>
        /\ \/ reserved' = [reserved EXCEPT ![s] = @ + q]
           \/ reserved' = [reserved EXCEPT ![s] = Max0(@ - q)]
        /\ kardex' = [kardex EXCEPT ![s] = Movement("available", stock[s] - reserved'[s])]
    BY DEF Reserve, Release
  <1>2. reserved' \in [Skus -> Nat]
    <2>1. q \in Nat
      BY StockAssumption DEF Units
    <2>2. reserved \in [Skus -> Nat]
      BY DEF LedgerInv, TypeOK
    <2>3. reserved[s] + q \in Nat /\ Max0(reserved[s] - q) \in Nat
      BY <2>1, <2>2 DEF Max0
    <2> QED
      BY <1>1, <2>2, <2>3
  <1>3. kardex' \in [Skus -> MovementType]
    <2>1. stock[s] \in Int /\ reserved'[s] \in Nat
      BY <1>2 DEF LedgerInv, TypeOK
    <2>2. stock[s] - reserved'[s] \in Int
      BY <2>1
    <2> QED
      BY <1>1, <2>2, MovementStep
  <1> QED
    BY <1>1, <1>2, <1>3 DEF LedgerInv, TypeOK, LedgerNonNegative, JobOK

(* An adjustment writes the row it computed, which setStock refuses when it
   is negative; one that belongs to a count goes on to mark it. *)
LEMMA AdjustStep ==
    ASSUME LedgerInv, NEW t \in Terminals, AdjustCommit(t)
    PROVE  LedgerInv'
  <1> DEFINE s == job[t].sku
             i == job[t].id
             new == job[t].snap + job[t].qty
             next == [Idle EXCEPT !.op = "countMark", !.id = i]
             row == [counts[i] EXCEPT !.applied = @ + 1]
  <1>1. /\ s \in Skus /\ i \in 0..Len(counts) /\ new \in Int /\ new >= 0
        /\ counts \in Seq(CountRow)
    <2>1. job[t].op = "adjust" /\ new >= 0
      BY DEF AdjustCommit
    <2>2. job[t] \in JobType /\ JobOK(t) /\ counts \in Seq(CountRow)
      BY DEF LedgerInv, TypeOK, CountRow
    <2>3. job[t].snap \in Int /\ job[t].qty \in Int
      BY <2>2 DEF JobType
    <2>4. s \in Skus
      BY <2>2 DEF JobType
    <2>5. i \in 0..Len(counts)
      BY <2>1, <2>2 DEF JobOK
    <2> QED
      BY <2>1, <2>2, <2>3, <2>4, <2>5
  <1>2. /\ stock' = [stock EXCEPT ![s] = Restated(s, new)]
        /\ ledger' = [ledger EXCEPT ![s][Principal] = new]
        /\ kardex' = [kardex EXCEPT ![s] = Movement("stock", new)]
        /\ reserved' = reserved /\ sales' = sales /\ formed' = formed
    BY DEF AdjustCommit
  <1>3. stock' \in [Skus -> Int] /\ kardex' \in [Skus -> MovementType]
    <2>1. stock \in [Skus -> Int] /\ kardex \in [Skus -> MovementType]
      BY DEF LedgerInv, TypeOK
    <2>2. ledger[s][Principal] \in Int
      BY <1>1, StockAssumption DEF LedgerInv, TypeOK
    <2>3. Restated(s, new) \in Int
      BY <1>1, <2>1, <2>2 DEF Restated
    <2>4. kardex' \in [Skus -> MovementType]
      <3> HIDE DEF new, s
      <3> QED
        BY <1>1, <1>2, MovementStep
    <2> QED
      BY <1>1, <1>2, <2>1, <2>3, <2>4
  <1>4. ledger' \in [Skus -> [Locations -> Int]] /\ LedgerNonNegative'
    BY <1>1, <1>2, StockAssumption DEF LedgerInv, TypeOK, LedgerNonNegative
  <1>5. /\ counts' \in Seq(CountRow)
        /\ job' \in [Terminals -> JobType] /\ \A u \in Terminals : JobOK(u)'
    <2>1. CASE i = 0
      <3>1. Finish(t) /\ counts' = counts
        BY <2>1 DEF AdjustCommit
      <3> QED
        BY <3>1, <1>1, <1>2, Lengths, FinishStep
    <2>2. CASE i # 0
      <3>1. /\ job' = [job EXCEPT ![t] = next]
            /\ counts' = [counts EXCEPT ![i] = row]
        BY <2>2 DEF AdjustCommit
      <3>2. i \in 1..Len(counts)
        BY <1>1, <2>2, Lengths
      <3>3. row \in CountRow
        <4>1. counts[i] \in CountRow
          BY <1>1, <3>2, ElementOfSeq
        <4> QED
          BY <4>1 DEF CountRow
      <3>4. counts' \in Seq(CountRow) /\ Len(counts') = Len(counts)
        BY <1>1, <3>1, <3>2, <3>3, ReplaceRow
      <3>5. next \in JobType /\ next.op = "countMark" /\ next.id = i
        <4>1. i \in Nat
          BY <3>2, Lengths
        <4> QED
          BY <4>1, IdleType DEF JobType, JobOps
      <3>6. /\ Len(sales) \in Nat /\ Len(sales') \in Nat
            /\ Len(sales) <= Len(sales')
            /\ Len(counts) \in Nat /\ Len(counts') \in Nat
            /\ Len(counts) <= Len(counts')
            /\ i \in 1..Len(counts')
        BY <1>2, <3>2, <3>4, Lengths
      <3>7. job' \in [Terminals -> JobType] /\ \A u \in Terminals : JobOK(u)'
        BY <3>1, <3>2, <3>4, <3>5, <3>6, JobsStayUsable
      <3> QED
        BY <3>4, <3>7
    <2> QED
      BY <2>1, <2>2
  <1> QED
    BY <1>2, <1>3, <1>4, <1>5 DEF LedgerInv, TypeOK, CountRow

(* Opening, reading and marking a count. *)
LEMMA CountStep ==
    ASSUME LedgerInv, NEW t \in Terminals, NEW s \in Skus, NEW q \in 0..MaxStock,
           CountStart(t, s, q) \/ CountRead(t) \/ CountMark(t)
    PROVE  LedgerInv'
  <1>0. counts \in Seq(CountRow) /\ stock \in [Skus -> Int]
    BY DEF LedgerInv, TypeOK, CountRow
  <1>1. CASE CountStart(t, s, q)
    <2> DEFINE row == [sku |-> s, diff |-> q - stock[s],
                       open |-> TRUE, applied |-> 0]
    <2>1. row \in CountRow
      BY <1>0, StockAssumption DEF CountRow
    <2>2. counts' = Append(counts, row)
      BY <1>1 DEF CountStart
    <2>3. counts' \in Seq(CountRow) /\ Len(counts') = Len(counts) + 1
      BY <1>0, <2>1, <2>2, AppendRow
    <2>4. UNCHANGED <<stock, reserved, ledger, kardex, sales, formed, job>>
      BY <1>1 DEF CountStart
    <2>5. \A u \in Terminals : JobOK(u)'
      BY <2>3, <2>4, Lengths DEF LedgerInv, JobOK
    <2> QED
      BY <2>3, <2>4, <2>5 DEF LedgerInv, TypeOK, LedgerNonNegative, CountRow
  <1>2. CASE CountRead(t)
    <2> DEFINE i == job[t].id
               j == [Idle EXCEPT !.op = "adjust", !.sku = counts[i].sku,
                                 !.qty = counts[i].diff,
                                 !.snap = stock[counts[i].sku], !.id = i]
    <2>1. i \in 1..Len(counts)
      BY <1>2 DEF CountRead, LedgerInv, JobOK
    <2>2. counts[i] \in CountRow
      BY <1>0, <2>1, ElementOfSeq
    <2>3. stock[counts[i].sku] \in Int /\ i \in Nat
      BY <1>0, <2>1, <2>2, Lengths DEF CountRow
    <2>4. j \in JobType /\ j.op = "adjust" /\ j.id = i
      BY <2>2, <2>3, IdleType DEF JobType, JobOps, CountRow
    <2>5. j.id \in 0..Len(counts)
      BY <2>1, <2>4, Lengths
    <2>6. job' = [job EXCEPT ![t] = j] /\ UNCHANGED db
      BY <1>2 DEF CountRead
    <2> QED
      BY <2>4, <2>5, <2>6, JobOnlyStep
  <1>3. CASE CountMark(t)
    <2> DEFINE i == job[t].id
               row == [counts[i] EXCEPT !.open = FALSE]
    <2>1. i \in 1..Len(counts)
      BY <1>3 DEF CountMark, LedgerInv, JobOK
    <2>2. row \in CountRow
      <3>1. counts[i] \in CountRow
        BY <1>0, <2>1, ElementOfSeq
      <3> QED
        BY <3>1 DEF CountRow
    <2>3. counts' = [counts EXCEPT ![i] = row]
      BY <1>3 DEF CountMark
    <2>4. counts' \in Seq(CountRow) /\ Len(counts') = Len(counts)
      BY <1>0, <2>1, <2>2, <2>3, ReplaceRow
    <2>5. UNCHANGED <<stock, reserved, ledger, kardex, sales, formed>> /\ Finish(t)
      BY <1>3 DEF CountMark
    <2>6. job' \in [Terminals -> JobType] /\ \A u \in Terminals : JobOK(u)'
      BY <2>4, <2>5, Lengths, FinishStep
    <2> QED
      BY <2>4, <2>5, <2>6 DEF LedgerInv, TypeOK, LedgerNonNegative, CountRow
  <1> QED
    BY <1>1, <1>2, <1>3

(* Overwriting the aggregate leaves Principal with what is left of it, and
   never less than nothing. *)
LEMMA OverwriteStep ==
    ASSUME LedgerInv, NEW s \in Skus, NEW v \in Int, NEW row \in [Locations -> Int],
           \A l \in Locations : row[l] >= 0,
           Overwrite(s, row, v)
    PROVE  /\ stock' \in [Skus -> Int]
           /\ ledger' \in [Skus -> [Locations -> Int]]
           /\ LedgerNonNegative'
  <1>1. Absorbed(row, v) \in Int /\ Absorbed(row, v) >= 0
    BY TotalsType DEF Absorbed, Max0
  <1>2. stock' \in [Skus -> Int]
    BY DEF LedgerInv, TypeOK, Overwrite
  <1>3. PICK new \in [Locations -> Int] :
            /\ ledger' = [ledger EXCEPT ![s] = new]
            /\ \A l \in Locations : new[l] >= 0
    <2>1. CASE v = stock[s]
      BY <2>1 DEF Overwrite
    <2>2. CASE v # stock[s]
      <3> DEFINE new == [row EXCEPT ![Principal] = Absorbed(row, v)]
      <3>1. new \in [Locations -> Int] /\ \A l \in Locations : new[l] >= 0
        BY <1>1, StockAssumption
      <3>2. ledger' = [ledger EXCEPT ![s] = new]
        BY <2>2 DEF Overwrite
      <3> QED
        BY <3>1, <3>2
    <2> QED
      BY <2>1, <2>2
  <1>4. ledger' \in [Skus -> [Locations -> Int]] /\ LedgerNonNegative'
    BY <1>3 DEF LedgerInv, TypeOK, LedgerNonNegative
  <1> QED
    BY <1>2, <1>4

(* Transfers and entries go through Overwrite. *)
LEMMA MoveStep ==
    ASSUME LedgerInv, NEW t \in Terminals, TransferCommit(t) \/ EntryCommit(t)
    PROVE  LedgerInv'
  <1> DEFINE s == job[t].sku
             q == job[t].qty
             from == job[t].from
             to == job[t].to
  <1>0. /\ s \in Skus /\ q \in Int /\ job[t].snap \in Int
        /\ from \in Locations /\ to \in Locations
        /\ ledger[s] \in [Locations -> Int]
        /\ \A l \in Locations : ledger[s][l] >= 0
        /\ Len(sales) \in Nat /\ Len(counts) \in Nat
    BY Lengths DEF LedgerInv, TypeOK, JobType, LedgerNonNegative
  <1>1. Finish(t) /\ UNCHANGED <<reserved, sales, counts, formed>>
    BY DEF TransferCommit, EntryCommit
  <1>2. /\ stock' \in [Skus -> Int] /\ kardex' \in [Skus -> MovementType]
        /\ ledger' \in [Skus -> [Locations -> Int]]
        /\ LedgerNonNegative'
    <2>1. CASE TransferCommit(t)
      <3> DEFINE taken == [ledger[s] EXCEPT ![from] = @ - q]
                 moved == [taken EXCEPT ![to] = @ + q]
      <3>1. q >= 0 /\ ledger[s][from] >= q
        BY <2>1, <1>0 DEF TransferCommit, TransferFits, LedgerInv, JobOK
      <3>2. moved \in [Locations -> Int] /\ \A l \in Locations : moved[l] >= 0
        <4>1. taken \in [Locations -> Int] /\ \A l \in Locations : taken[l] >= 0
          BY <1>0, <3>1
        <4>2. q \in Int /\ q >= 0 /\ to \in Locations
          BY <1>0, <3>1
        <4> HIDE DEF taken, q, to
        <4> QED
          BY <4>1, <4>2
      <3>3. /\ Overwrite(s, moved, job[t].snap)
            /\ kardex' = [kardex EXCEPT ![s] = Movement("shelf", moved[to])]
        BY <2>1 DEF TransferCommit
      <3> HIDE DEF moved, taken
      <3>4. kardex' \in [Skus -> MovementType]
        BY <1>0, <3>2, <3>3, MovementStep
      <3> QED
        BY <1>0, <3>2, <3>3, <3>4, OverwriteStep
    <2>2. CASE EntryCommit(t)
      <3> DEFINE new == job[t].snap + q
      <3>1. /\ Overwrite(s, ledger[s], new)
            /\ kardex' = [kardex EXCEPT ![s] = Movement("stock", new)]
        BY <2>2 DEF EntryCommit
      <3>2. new \in Int
        BY <1>0
      <3> HIDE DEF new
      <3>3. kardex' \in [Skus -> MovementType]
        BY <3>1, <3>2, MovementStep
      <3> QED
        BY <1>0, <3>1, <3>2, <3>3, OverwriteStep
    <2> QED
      BY <2>1, <2>2
  <1>3. job' \in [Terminals -> JobType] /\ \A u \in Terminals : JobOK(u)'
    BY <1>0, <1>1, FinishStep
  <1> QED
    BY <1>1, <1>2, <1>3 DEF LedgerInv, TypeOK

(* The statements of the product form, each on its own. *)
LEMMA EditStep ==
    ASSUME LedgerInv, NEW t \in Terminals,
           EditProduct(t) \/ EditOthers(t) \/ EditLedger(t)
    PROVE  LedgerInv'
  <1> DEFINE s == job[t].sku
             row == ledger[s]
             ordered == [job[t] EXCEPT !.op = "editOthers"]
             summed == [job[t] EXCEPT !.op = "editLedger",
                                      !.snap = Absorbed(row, job[t].qty)]
  <1>0. /\ job[t] \in JobType
        /\ s \in Skus /\ job[t].qty \in Int /\ job[t].snap \in Int
        /\ Len(sales) \in Nat /\ Len(counts) \in Nat
    BY Lengths DEF LedgerInv, TypeOK, JobType
  <1>1. CASE EditProduct(t)
    <2>1. /\ stock' = [stock EXCEPT ![s] = job[t].qty]
          /\ UNCHANGED <<reserved, ledger, kardex, sales, counts>>
          /\ formed' = formed \cup {s}
          /\ job' = [job EXCEPT ![t] = ordered] \/ Finish(t)
      BY <1>1 DEF EditProduct
    <2>2. ordered \in JobType /\ ordered.op = "editOthers"
      BY <1>0 DEF JobType, JobOps
    <2>3. Len(sales') = Len(sales) /\ Len(counts') = Len(counts)
      BY <2>1
    <2>4. job' \in [Terminals -> JobType] /\ \A u \in Terminals : JobOK(u)'
      <3>1. CASE Finish(t)
        BY <1>0, <2>3, <3>1, FinishStep
      <3>2. CASE job' = [job EXCEPT ![t] = ordered]
        <4>1. /\ Len(sales') \in Nat /\ Len(sales) <= Len(sales')
              /\ Len(counts') \in Nat /\ Len(counts) <= Len(counts')
          BY <1>0, <2>3
        <4> HIDE DEF ordered
        <4> QED
          BY <1>0, <2>2, <3>2, <4>1, JobsStayUsable
      <3> QED
        BY <2>1, <3>1, <3>2
    <2> QED
      BY <1>0, <2>1, <2>4 DEF LedgerInv, TypeOK, LedgerNonNegative
  <1>2. CASE EditOthers(t)
    <2>1. job' = [job EXCEPT ![t] = summed] /\ UNCHANGED db
      BY <1>2 DEF EditOthers
    <2>2. Absorbed(row, job[t].qty) \in Int
      <3>1. row \in [Locations -> Int]
        BY <1>0 DEF LedgerInv, TypeOK
      <3> QED
        BY <1>0, <3>1, TotalsType DEF Absorbed, Max0
    <2>3. summed \in JobType /\ summed.op = "editLedger"
      BY <1>0, <2>2 DEF JobType, JobOps
    <2> QED
      BY <2>1, <2>3, JobOnlyStep
  <1>3. CASE EditLedger(t)
    <2>1. /\ ledger' = [ledger EXCEPT ![s][Principal] = job[t].snap]
          /\ job[t].snap >= 0
          /\ UNCHANGED <<stock, reserved, kardex, sales, counts, formed>>
          /\ Finish(t)
      BY <1>3 DEF EditLedger
    <2>2. ledger' \in [Skus -> [Locations -> Int]] /\ LedgerNonNegative'
      BY <1>0, <2>1, StockAssumption DEF LedgerInv, TypeOK, LedgerNonNegative
    <2>3. job' \in [Terminals -> JobType] /\ \A u \in Terminals : JobOK(u)'
      BY <1>0, <2>1, FinishStep
    <2> QED
      BY <2>1, <2>2, <2>3 DEF LedgerInv, TypeOK
  <1> QED
    BY <1>1, <1>2, <1>3

(* A handler that fails or dies leaves the tables as they were. *)
LEMMA AbandonStep ==
    ASSUME LedgerInv, NEW t \in Terminals, Abandon(t)
    PROVE  LedgerInv'
  <1>1. job' = [job EXCEPT ![t] = Idle] /\ UNCHANGED db
    BY DEF Abandon, Finish
  <1>2. Idle \in JobType /\ Idle.op = "idle"
    BY IdleType DEF Idle
  <1> QED
    BY <1>1, <1>2, JobOnlyStep

-----------------------------------------------------------------------------

(* Every step of every terminal preserves the invariant. *)
LEMMA NextInv == LedgerInv /\ [Next]_vars => LedgerInv'
  <1> SUFFICES ASSUME LedgerInv, [Next]_vars PROVE LedgerInv'
    OBVIOUS
  <1>0. MaxStock \in Nat /\ Principal \in Locations /\ Units \subseteq Int
        /\ [Skus -> 0..MaxStock] \subseteq Carts
    BY StockAssumption DEF Units, Carts
  <1>1. CASE UNCHANGED vars
    BY <1>1 DEF vars, db, LedgerInv, TypeOK, LedgerNonNegative, JobOK
  <1>2. ASSUME NEW t \in Terminals,
               \/ Selling(t) \/ Reserving(t) \/ Counting(t)
               \/ Adjusting(t) \/ Moving(t) \/ Editing(t) \/ Abandon(t)
        PROVE  LedgerInv'
    <2>1. CASE Selling(t)
      BY <2>1, <1>0, StartStep, SaleStep, CancelStep DEF Selling
    <2>2. CASE Reserving(t)
      BY <2>2, ReservationStep DEF Reserving
    <2>3. CASE Counting(t)
      <3>1. 0 \in 0..MaxStock /\ \E s \in Skus : TRUE
        BY <1>0, StockAssumption
      <3> QED
        BY <2>3, <3>1, StartStep, CountStep DEF Counting
    <2>4. CASE Adjusting(t)
      BY <2>4, StartStep, AdjustStep DEF Adjusting
    <2>5. CASE Moving(t)
      <3>1. Units \subseteq Nat
        BY <1>0 DEF Units
      <3> QED
        BY <2>5, <3>1, StartStep, MoveStep DEF Moving
    <2>6. CASE Editing(t)
      BY <2>6, StartStep, EditStep DEF Editing
    <2>7. CASE Abandon(t)
      BY <2>7, AbandonStep
    <2> QED
      BY <1>2, <2>1, <2>2, <2>3, <2>4, <2>5, <2>6, <2>7
  <1> QED
    BY <1>1, <1>2 DEF Next

(* The invariant holds in every reachable state, for any set of terminals,
   products and warehouses, any bounds and any subset of the handlers. *)
THEOREM LedgerInvariant == Spec => []LedgerInv
  <1> QED
    BY InitInv, NextInv, PTL DEF Spec

(* No interleaving of the handlers, no failed transaction and no crash ever
   leaves a warehouse with a negative quantity. *)
THEOREM LedgerSafe == Spec => []LedgerNonNegative
  <1>1. LedgerInv => LedgerNonNegative
    BY DEF LedgerInv
  <1> QED
    BY <1>1, LedgerInvariant, PTL

-----------------------------------------------------------------------------
(* The shop floor alone: sales, cancellations and reservations *)

(* No other handler ever runs. *)
FloorJobs == \A t \in Terminals : job[t].op \in {"idle", "sale", "cancel"}

FloorInv == LedgerInv /\ FloorJobs /\ ReservedWithinStock /\ KardexIsCurrent

(* The opening state of the floor. *)
LEMMA FloorInit == Init => FloorInv
  <1> SUFFICES ASSUME Init PROVE FloorInv
    OBVIOUS
  <1>1. FloorJobs /\ KardexIsCurrent
    BY DEF Init, FloorJobs, Idle, KardexIsCurrent, Movement
  <1>2. ReservedWithinStock
    BY TotalsType DEF Init, ReservedWithinStock
  <1> QED
    BY <1>1, <1>2, InitInv DEF FloorInv

(* The newest movement of s tells the figure it is of. *)
Current(s) == /\ kardex[s].of = "stock" => kardex[s].after = stock[s]
              /\ kardex[s].of = "available" => kardex[s].after = Available(s)

(* A terminal that starts or ends a handler of the floor. *)
LEMMA FloorJobStep ==
    ASSUME FloorInv, NEW t \in Terminals, NEW j,
           job' = [job EXCEPT ![t] = j], j.op \in {"idle", "sale", "cancel"}
    PROVE  FloorJobs'
  <1>1. job \in [Terminals -> JobType]
    BY DEF FloorInv, LedgerInv, TypeOK
  <1> QED
    BY <1>1 DEF FloorInv, FloorJobs

(* A sale takes its units out of the reservations as well as out of the
   stock, a cancellation only adds, reserveAtomic checks what is available. *)
LEMMA FloorNext ==
    ASSUME Ops \subseteq FloorOps PROVE FloorInv /\ [Next]_vars => FloorInv'
  <1> SUFFICES ASSUME FloorInv, [Next]_vars PROVE FloorInv'
    OBVIOUS
  <1>0. /\ LedgerInv'
        /\ stock \in [Skus -> Int] /\ reserved \in [Skus -> Nat]
        /\ kardex \in [Skus -> MovementType]
        /\ \A s \in Skus : reserved[s] <= stock[s] /\ Current(s)
        /\ MaxStock \in Nat
    BY NextInv, StockAssumption
    DEF FloorInv, LedgerInv, TypeOK, ReservedWithinStock, KardexIsCurrent, Current
  <1>1. CASE UNCHANGED vars
    BY <1>0, <1>1
    DEF vars, db, FloorInv, FloorJobs, ReservedWithinStock, KardexIsCurrent, Available
  <1>2. ASSUME NEW t \in Terminals, Selling(t) PROVE FloorInv'
    <2>1. ASSUME NEW cart \in [Skus -> 0..MaxStock], NEW l \in Locations,
                 SaleCheck(t, cart, l)
          PROVE  FloorInv'
      <3> DEFINE j == [Idle EXCEPT !.op = "sale", !.cart = cart, !.from = l]
      <3>1. job' = [job EXCEPT ![t] = j] /\ UNCHANGED db
        BY <2>1 DEF SaleCheck, Start
      <3>2. j.op = "sale"
        BY DEF Idle
      <3>3. FloorJobs'
        BY <3>1, <3>2, FloorJobStep
      <3> QED
        BY <1>0, <3>1, <3>3
        DEF db, FloorInv, ReservedWithinStock, KardexIsCurrent, Available
    <2>2. CASE SaleCommit(t)
      <3> DEFINE cart == job[t].cart
      <3>1. cart \in Carts
        BY DEF FloorInv, LedgerInv, TypeOK, JobType
      <3>2. /\ stock' = [s \in Skus |-> stock[s] - cart[s]]
            /\ reserved' = [s \in Skus |-> Consumed(reserved[s], cart[s])]
            /\ kardex' = [s \in Skus |-> Recorded(cart[s], stock[s], stock'[s], kardex[s])]
            /\ SaleFits(cart, job[t].from)
            /\ Finish(t)
        BY <2>2 DEF SaleCommit
      <3> HIDE DEF cart
      <3>3. ASSUME NEW s \in Skus
            PROVE  reserved'[s] <= stock'[s] /\ Current(s)'
        <4>1. /\ cart[s] \in Nat /\ stock[s] \in Int /\ reserved[s] \in Nat
              /\ reserved[s] <= stock[s] /\ Current(s)
          BY <1>0, <3>1 DEF Carts
        <4>2. stock'[s] = stock[s] - cart[s]
          BY <3>2
        <4>3. cart[s] > 0 => stock[s] >= cart[s]
          BY <3>2 DEF SaleFits
        <4>4. reserved'[s] <= stock'[s]
          BY <3>2, <4>1, <4>2, <4>3 DEF Consumed, Max0
        <4>5. Current(s)'
          <5>1. CASE cart[s] > 0
            BY <3>2, <5>1 DEF Recorded, Movement, Current
          <5>2. CASE ~(cart[s] > 0)
            <6>1. /\ kardex'[s] = kardex[s] /\ stock'[s] = stock[s]
                  /\ reserved'[s] = reserved[s]
              BY <3>2, <4>1, <4>2, <5>2 DEF Recorded, Consumed
            <6> QED
              BY <4>1, <6>1 DEF Current, Available
          <5> QED
            BY <5>1, <5>2
        <4> QED
          BY <4>4, <4>5
      <3>4. FloorJobs'
        BY <3>2, FloorJobStep DEF Finish, Idle
      <3> QED
        BY <1>0, <3>3, <3>4 DEF FloorInv, ReservedWithinStock, KardexIsCurrent, Current
    <2>3. ASSUME NEW i \in DOMAIN sales, CancelCheck(t, i) PROVE FloorInv'
      <3> DEFINE j == [Idle EXCEPT !.op = "cancel", !.id = i]
      <3>1. job' = [job EXCEPT ![t] = j] /\ UNCHANGED db
        BY <2>3 DEF CancelCheck, Start
      <3>2. j.op = "cancel"
        BY DEF Idle
      <3>3. FloorJobs'
        BY <3>1, <3>2, FloorJobStep
      <3> QED
        BY <1>0, <3>1, <3>3
        DEF db, FloorInv, ReservedWithinStock, KardexIsCurrent, Available
    <2>4. CASE CancelCommit(t)
      <3> DEFINE i == job[t].id
                 cart == sales[i].cart
      <3>1. i \in 1..Len(sales) /\ sales \in Seq(SaleRow)
        BY <2>4 DEF CancelCommit, FloorInv, LedgerInv, TypeOK, JobOK, SaleRow
      <3>2. cart \in Carts
        <4>1. sales[i] \in SaleRow
          BY <3>1, ElementOfSeq
        <4> QED
          BY <4>1 DEF SaleRow
      <3>3. /\ stock' = [s \in Skus |-> stock[s] + cart[s]]
            /\ kardex' = [s \in Skus |-> Recorded(cart[s], stock[s], stock'[s], kardex[s])]
            /\ reserved' = reserved
            /\ Finish(t)
        BY <2>4 DEF CancelCommit
      <3> HIDE DEF cart
      <3>4. ASSUME NEW s \in Skus
            PROVE  reserved'[s] <= stock'[s] /\ Current(s)'
        <4>1. cart[s] \in Nat /\ stock[s] \in Int /\ reserved[s] \in Nat
          BY <1>0, <3>2 DEF Carts
        <4>2. stock'[s] = stock[s] + cart[s] /\ reserved'[s] = reserved[s]
          BY <3>3
        <4>3. Current(s)'
          <5>1. CASE cart[s] > 0
            BY <3>3, <5>1 DEF Recorded, Movement, Current
          <5>2. CASE ~(cart[s] > 0)
            <6>1. kardex'[s] = kardex[s] /\ stock'[s] = stock[s]
              BY <3>3, <4>1, <4>2, <5>2 DEF Recorded
            <6> QED
              BY <1>0, <4>2, <6>1 DEF Current, Available
          <5> QED
            BY <5>1, <5>2
        <4> QED
          BY <1>0, <4>1, <4>2, <4>3
      <3>5. FloorJobs'
        BY <3>3, FloorJobStep DEF Finish, Idle
      <3> QED
        BY <1>0, <3>4, <3>5 DEF FloorInv, ReservedWithinStock, KardexIsCurrent, Current
    <2> QED
      BY <1>2, <2>1, <2>2, <2>3, <2>4 DEF Selling
  <1>3. ASSUME NEW t \in Terminals, Reserving(t) PROVE FloorInv'
    <2>1. PICK s \in Skus, q \in Units : Reserve(t, s, q) \/ Release(t, s, q)
      BY <1>3 DEF Reserving
    <2>2. /\ UNCHANGED <<stock, job>>
          /\ kardex' = [kardex EXCEPT ![s] = Movement("available", stock[s] - reserved'[s])]
          /\ \A r \in Skus \ {s} : reserved'[r] = reserved[r]
      BY <1>0, <2>1 DEF Reserve, Release
    <2>3. ASSUME NEW r \in Skus PROVE reserved'[r] <= stock[r]
      <3>1. q \in Nat
        BY <1>0 DEF Units
      <3>2. stock[r] \in Int /\ reserved[r] \in Nat /\ reserved[r] <= stock[r]
        BY <1>0
      <3>3. CASE Reserve(t, s, q)
        BY <1>0, <3>1, <3>2, <3>3 DEF Reserve, Available
      <3>4. CASE Release(t, s, q)
        <4>1. Max0(reserved[s] - q) <= stock[s]
          BY <1>0, <3>1 DEF Max0
        <4> QED
          BY <1>0, <3>2, <3>4, <4>1 DEF Release
      <3> QED
        BY <2>1, <3>3, <3>4
    <2>4. KardexIsCurrent'
      <3> SUFFICES ASSUME NEW r \in Skus PROVE Current(r)'
        BY DEF KardexIsCurrent, Current
      <3>1. CASE r = s
        BY <1>0, <2>2, <3>1 DEF Movement, Current, Available
      <3>2. CASE r # s
        BY <1>0, <2>2, <3>2 DEF Current, Available
      <3> QED
        BY <3>1, <3>2
    <2> QED
      BY <1>0, <2>2, <2>3, <2>4 DEF FloorInv, FloorJobs, ReservedWithinStock
  <1>4. ASSUME NEW t \in Terminals, Abandon(t) PROVE FloorInv'
    <2>1. UNCHANGED db /\ job' = [job EXCEPT ![t] = Idle]
      BY <1>4 DEF Abandon, Finish
    <2>2. FloorJobs'
      BY <2>1, FloorJobStep DEF Idle
    <2> QED
      BY <1>0, <2>1, <2>2 
    DEF db, FloorInv, ReservedWithinStock, KardexIsCurrent, Available
  <1>5. ASSUME NEW t \in Terminals PROVE ~Counting(t) /\ ~Adjusting(t)
    BY DEF Counting, CountStart, CountApply, CountRead, CountMark, Adjusting,
           AdjustCheck, AdjustCommit, FloorOps, FloorInv, FloorJobs
  <1>6. ASSUME NEW t \in Terminals PROVE ~Moving(t) /\ ~Editing(t)
    BY DEF Moving, TransferCheck, TransferCommit, EntryCheck, EntryCommit,
           Editing, EditCheck, EditProduct, EditOthers, EditLedger,
           FloorOps, FloorInv, FloorJobs
  <1> QED
    BY <1>1, <1>2, <1>3, <1>4, <1>5, <1>6 DEF Next

(* While only the floor's handlers run, a reservation always has its units:
   no sale, whatever it read before its transaction, eats into them twice. *)
THEOREM ReservationsHold ==
    ASSUME Ops \subseteq FloorOps PROVE Spec => []ReservedWithinStock
  <1>1. FloorInv => ReservedWithinStock
    BY DEF FloorInv
  <1> QED
    BY <1>1, FloorInit, FloorNext, PTL DEF Spec

(* And the newest movement of the kardex always tells the figure it is of: the
   stock after a sale or its cancellation, what is available after a reservation
   or its release. *)
THEOREM KardexHolds ==
    ASSUME Ops \subseteq FloorOps PROVE Spec => []KardexIsCurrent
  <1>1. FloorInv => KardexIsCurrent
    BY DEF FloorInv
  <1> QED
    BY <1>1, FloorInit, FloorNext, PTL DEF Spec
-----------------------------------------------------------------------------
(* The units: what the tables add up to *)

(* Some rows of a table are finitely many. *)
LEMMA FiniteRows ==
    ASSUME NEW R, NEW q \in Seq(R), NEW F \in SUBSET (DOMAIN q)
    PROVE  IsFiniteSet(F)
  <1>1. Len(q) \in Int /\ DOMAIN q = 1..Len(q)
    BY LenProperties
  <1>2. IsFiniteSet(1..Len(q))
    BY <1>1, FS_Interval
  <1> QED
    BY <1>1, <1>2, FS_Subset

(* The units of a product in the rows of a table of sales. *)
Column(table, s) == [i \in DOMAIN table |-> table[i].cart[s]]

(* Adding up the units of some sales, with and without one of them. *)
LEMMA SoldUnits ==
    ASSUME NEW q \in Seq(SaleRow), NEW s \in Skus, NEW F \in SUBSET (DOMAIN q)
    PROVE  /\ SumOf(Column(q, s), F) \in Int
           /\ \A i \in F : SumOf(Column(q, s), F) =
                              q[i].cart[s] + SumOf(Column(q, s), F \ {i})
  <1>1. Len(q) \in Nat /\ DOMAIN q = 1..Len(q)
    BY LenProperties
  <1>2. IsFiniteSet(F)
    BY FiniteRows
  <1>3. ASSUME NEW i \in F
        PROVE  Column(q, s)[i] = q[i].cart[s] /\ q[i].cart[s] \in Int
    <2>1. i \in 1..Len(q)
      BY <1>1
    <2>2. q[i] \in SaleRow
      BY <2>1, ElementOfSeq
    <2>3. q[i].cart[s] \in Nat
      BY <2>2 DEF SaleRow, Carts
    <2> QED
      BY <2>3 DEF Column
  <1>4. \A i \in F : Column(q, s)[i] \in Int
    BY <1>3
  <1> HIDE DEF Column
  <1>5. SumOf(Column(q, s), F) \in Int
    BY <1>2, <1>4, SumInt
  <1>6. \A i \in F : SumOf(Column(q, s), F) =
                        Column(q, s)[i] + SumOf(Column(q, s), F \ {i})
    BY <1>2, <1>4, SumApart
  <1> QED
    BY <1>3, <1>5, <1>6

(* A sale that is recorded adds its cart to what sales that include it add up
   to, and nothing to the others. *)
LEMMA SoldMore ==
    ASSUME NEW q \in Seq(SaleRow), NEW s \in Skus, NEW F \in SUBSET (DOMAIN q),
           NEW row \in SaleRow
    PROVE  /\ SumOf(Column(Append(q, row), s), F) = SumOf(Column(q, s), F)
           /\ SumOf(Column(Append(q, row), s), F \cup {Len(q) + 1}) =
                 SumOf(Column(q, s), F) + row.cart[s]
  <1> DEFINE p == Append(q, row)
             n == Len(q) + 1
  <1>1. /\ p \in Seq(SaleRow) /\ Len(q) \in Nat
        /\ DOMAIN q = 1..Len(q) /\ DOMAIN p = 1..n
        /\ p[n] = row /\ \A i \in 1..Len(q) : p[i] = q[i]
    BY AppendProperties, LenProperties
  <1> HIDE DEF p
  <1>2. IsFiniteSet(F) /\ n \notin F /\ n \in DOMAIN p /\ n \in Nat
    <2>1. IsFiniteSet(F)
      BY FiniteRows
    <2>2. n \in Nat /\ n \in 1..n /\ n \notin 1..Len(q)
      BY <1>1
    <2> HIDE DEF n
    <2> QED
      BY <1>1, <2>1, <2>2
  <1>3. \A i \in F : Column(p, s)[i] = Column(q, s)[i]
    BY <1>1 DEF Column
  <1>4. SumOf(Column(p, s), F) = SumOf(Column(q, s), F)
    BY <1>2, <1>3, SumSame
  <1>5. F \cup {n} \in SUBSET (DOMAIN p) /\ n \in F \cup {n} /\ (F \cup {n}) \ {n} = F
    BY <1>1, <1>2
  <1>6. SumOf(Column(p, s), F \cup {n}) = p[n].cart[s] + SumOf(Column(p, s), F)
    BY <1>1, <1>5, SoldUnits
  <1>7. row.cart[s] \in Int /\ SumOf(Column(q, s), F) \in Int
    <2>1. row.cart[s] \in Nat
      BY DEF SaleRow, Carts
    <2> QED
      BY <2>1, SoldUnits
  <1> HIDE DEF n
  <1>8. SumOf(Column(p, s), F \cup {n}) = SumOf(Column(q, s), F) + row.cart[s]
    BY <1>1, <1>4, <1>6, <1>7
  <1> QED
    BY <1>4, <1>8 DEF p, n

(* A row that keeps its cart leaves what the sales add up to. *)
LEMMA SoldSame ==
    ASSUME NEW q, NEW i \in DOMAIN q, NEW row, row.cart = q[i].cart, NEW s
    PROVE  Column([q EXCEPT ![i] = row], s) = Column(q, s)
  BY DEF Column

(* Standing sales, all of them and those of a warehouse. *)
StandingAt(l) == {i \in Live : sales[i].loc = l}

AllOnPrincipal == \A i \in DOMAIN sales : sales[i].loc = Principal

(* What is to be shown, with the sums written out. *)
UnitsInv == AggregateIsLedgerSum /\ UnitsKept

LEMMA UnitsInvMeans ==
    UnitsInv <=>
      /\ \A s \in Skus : stock[s] = SumOf(ledger[s], Locations)
      /\ \A s \in Skus : stock[s] + SumOf(Column(sales, s), Live) =
                            SumOf(Opening[s], Locations)
      /\ AllOnPrincipal =>
            \A s \in Skus, l \in Locations :
                ledger[s][l] + SumOf(Column(sales, s), StandingAt(l)) = Opening[s][l]
  BY DEF UnitsInv, AggregateIsLedgerSum, UnitsKept, UnitsAccountedFor,
         ShelvesRestored, Sold, Column, StandingAt, AllOnPrincipal

(* A row of the ledger that moves by k moves the product's sum by k. *)
LEMMA LedgerMoves ==
    ASSUME NEW row \in [Locations -> Int], NEW l \in Locations, NEW k \in Int
    PROVE  SumOf([row EXCEPT ![l] = @ + k], Locations) = SumOf(row, Locations) + k
  <1> DEFINE moved == [row EXCEPT ![l] = @ + k]
  <1>1. /\ \A x \in Locations : row[x] \in Int
        /\ \A x \in Locations : x # l => moved[x] = row[x]
        /\ moved[l] = row[l] + k
    OBVIOUS
  <1> HIDE DEF moved
  <1>2. IsFiniteSet(Locations)
    BY StockAssumption
  <1>3. SumOf(moved, Locations) = SumOf(row, Locations) + k
    BY <1>1, <1>2, SumMoved
  <1> QED
    BY <1>3 DEF moved
(* A sale takes its cart from the aggregate and from one warehouse, and its
   row tells which. *)
LEMMA SaleWrites ==
    ASSUME LedgerInv, NEW t \in Terminals, SaleCommit(t)
    PROVE  \E row \in SaleRow :
             /\ row.live /\ sales' = Append(sales, row)
             /\ \A s \in Skus :
                  /\ row.cart[s] \in Nat
                  /\ stock'[s] = stock[s] - row.cart[s]
                  /\ ledger'[s] = [ledger[s] EXCEPT ![row.loc] = @ + (- row.cart[s])]
  <1> DEFINE c == job[t].cart
             l == job[t].from
             sold == [cart |-> c, loc |-> l, live |-> TRUE]
  <1>1. c \in Carts /\ l \in Locations /\ ledger \in [Skus -> [Locations -> Int]]
    BY DEF LedgerInv, TypeOK, JobType
  <1>2. sold \in SaleRow /\ sold.live /\ sold.cart = c /\ sold.loc = l
    BY <1>1 DEF SaleRow
  <1>3. /\ stock' = [s \in Skus |-> stock[s] - c[s]]
        /\ ledger' = [s \in Skus |-> [ledger[s] EXCEPT ![l] = @ - c[s]]]
        /\ sales' = Append(sales, sold)
    BY DEF SaleCommit, TakeLedger
  <1>4. \A s \in Skus : c[s] \in Nat /\ ledger[s][l] \in Int
                        /\ ledger[s][l] - c[s] = ledger[s][l] + (- c[s])
    BY <1>1 DEF Carts
  <1> HIDE DEF sold, c, l
  <1>5. \A s \in Skus :
           /\ stock'[s] = stock[s] - c[s]
           /\ ledger'[s] = [ledger[s] EXCEPT ![l] = @ + (- c[s])]
    BY <1>3, <1>4
  <1> QED
    BY <1>2, <1>3, <1>4, <1>5

(* A cancellation voids a sale that stood and gives its cart back to the
   aggregate and to Principal. *)
LEMMA CancelWrites ==
    ASSUME LedgerInv, NEW t \in Terminals, CancelCommit(t)
    PROVE  \E i \in DOMAIN sales :
             /\ sales[i] \in SaleRow /\ sales[i].live
             /\ sales' = [sales EXCEPT ![i] = [sales[i] EXCEPT !.live = FALSE]]
             /\ \A s \in Skus :
                  /\ sales[i].cart[s] \in Nat
                  /\ stock'[s] = stock[s] + sales[i].cart[s]
                  /\ ledger'[s] = [ledger[s] EXCEPT ![Principal] = @ + sales[i].cart[s]]
  <1> DEFINE i == job[t].id
  <1>1. i \in 1..Len(sales) /\ sales \in Seq(SaleRow)
    BY DEF CancelCommit, LedgerInv, TypeOK, JobOK, SaleRow
  <1>2. i \in DOMAIN sales /\ sales[i] \in SaleRow
    BY <1>1, ElementOfSeq, LenProperties
  <1>3. \A s \in Skus : sales[i].cart[s] \in Nat
    BY <1>2 DEF SaleRow, Carts
  <1>4. /\ sales[i].live
        /\ stock' = [s \in Skus |-> stock[s] + sales[i].cart[s]]
        /\ ledger' = [s \in Skus |-> [ledger[s] EXCEPT ![Principal] = @ + sales[i].cart[s]]]
        /\ sales' = [sales EXCEPT ![i] = [sales[i] EXCEPT !.live = FALSE]]
    BY DEF CancelCommit, StillLive
  <1> HIDE DEF i
  <1> QED
    BY <1>2, <1>3, <1>4

(* Neither moves the aggregate of a product away from what its warehouses
   hold. *)
LEMMA SellingKeepsSums ==
    ASSUME LedgerInv, NEW t \in Terminals, SaleCommit(t) \/ CancelCommit(t),
           NEW s \in Skus, stock[s] = SumOf(ledger[s], Locations)
    PROVE  stock'[s] = SumOf(ledger'[s], Locations)
  <1>1. PICK l \in Locations, k \in Int :
            /\ stock'[s] = stock[s] + k
            /\ ledger'[s] = [ledger[s] EXCEPT ![l] = @ + k]
    <2>0. stock[s] \in Int
      BY DEF LedgerInv, TypeOK
    <2>1. CASE SaleCommit(t)
      <3>1. PICK row \in SaleRow :
                /\ row.cart[s] \in Nat
                /\ stock'[s] = stock[s] - row.cart[s]
                /\ ledger'[s] = [ledger[s] EXCEPT ![row.loc] = @ + (- row.cart[s])]
        BY <2>1, SaleWrites
      <3>2. row.loc \in Locations /\ - row.cart[s] \in Int
            /\ stock'[s] = stock[s] + (- row.cart[s])
        BY <2>0, <3>1 DEF SaleRow
      <3> QED
        BY <3>1, <3>2
    <2>2. CASE CancelCommit(t)
      <3>1. PICK i \in DOMAIN sales :
                /\ sales[i].cart[s] \in Nat
                /\ stock'[s] = stock[s] + sales[i].cart[s]
                /\ ledger'[s] = [ledger[s] EXCEPT ![Principal] = @ + sales[i].cart[s]]
        BY <2>2, CancelWrites
      <3>2. Principal \in Locations /\ sales[i].cart[s] \in Int
        BY <3>1, StockAssumption
      <3> QED
        BY <3>1, <3>2
    <2> QED
      BY <2>1, <2>2
  <1>2. ledger[s] \in [Locations -> Int]
    BY DEF LedgerInv, TypeOK
  <1>3. SumOf(ledger'[s], Locations) = SumOf(ledger[s], Locations) + k
    BY <1>1, <1>2, LedgerMoves
  <1> QED
    BY <1>1, <1>3

(* What the floor writes to the tables of units. *)
LEMMA FloorWrites ==
    ASSUME Ops \subseteq FloorOps, FloorInv, [Next]_vars
    PROVE  \/ UNCHANGED <<stock, ledger, sales>>
           \/ \E t \in Terminals : SaleCommit(t) \/ CancelCommit(t)
  <1>1. CASE UNCHANGED vars
    BY <1>1 DEF vars, db
  <1>2. ASSUME NEW t \in Terminals, Selling(t)
        PROVE  UNCHANGED <<stock, ledger, sales>> \/ SaleCommit(t) \/ CancelCommit(t)
    BY <1>2 DEF Selling, SaleCheck, CancelCheck, Start, db
  <1>3. ASSUME NEW t \in Terminals, Reserving(t) \/ Abandon(t)
        PROVE  UNCHANGED <<stock, ledger, sales>>
    BY <1>3 DEF Reserving, Reserve, Release, Abandon, db
  <1>4. ASSUME NEW t \in Terminals PROVE ~Counting(t) /\ ~Adjusting(t)
    BY DEF Counting, CountStart, CountApply, CountRead, CountMark, Adjusting,
           AdjustCheck, AdjustCommit, FloorOps, FloorInv, FloorJobs
  <1>5. ASSUME NEW t \in Terminals PROVE ~Moving(t) /\ ~Editing(t)
    BY DEF Moving, TransferCheck, TransferCommit, EntryCheck, EntryCommit,
           Editing, EditCheck, EditProduct, EditOthers, EditLedger,
           FloorOps, FloorInv, FloorJobs
  <1> QED
    BY <1>1, <1>2, <1>3, <1>4, <1>5 DEF Next

(* A sale: the units leave the shelf and stand in the row it adds. *)
LEMMA SaleKeepsUnits ==
    ASSUME LedgerInv, UnitsInv, NEW t \in Terminals, SaleCommit(t)
    PROVE  UnitsInv'
  <1>1. PICK row \in SaleRow :
            /\ row.live /\ sales' = Append(sales, row)
            /\ \A s \in Skus :
                 /\ row.cart[s] \in Nat
                 /\ stock'[s] = stock[s] - row.cart[s]
                 /\ ledger'[s] = [ledger[s] EXCEPT ![row.loc] = @ + (- row.cart[s])]
    BY SaleWrites
  <1> DEFINE n == Len(sales) + 1
  <1>2. sales \in Seq(SaleRow) /\ row.loc \in Locations
    BY DEF LedgerInv, TypeOK, SaleRow
  <1>3. /\ Len(sales) \in Nat /\ DOMAIN sales = 1..Len(sales)
        /\ DOMAIN sales' = DOMAIN sales \cup {n} /\ n \notin DOMAIN sales
        /\ sales'[n] = row /\ \A i \in DOMAIN sales : sales'[i] = sales[i]
    <2>1. /\ Len(sales) \in Nat /\ DOMAIN sales = 1..Len(sales)
          /\ DOMAIN sales' = 1..(Len(sales) + 1)
          /\ sales'[n] = row /\ \A i \in 1..Len(sales) : sales'[i] = sales[i]
      BY <1>1, <1>2, AppendProperties, LenProperties
    <2>2. 1..(Len(sales) + 1) = 1..Len(sales) \cup {Len(sales) + 1}
      BY <2>1
    <2> QED
      BY <2>1, <2>2
  <1>4. \A s \in Skus : /\ stock[s] \in Int
                        /\ ledger[s] \in [Locations -> Int]
                        /\ row.cart[s] \in Int
    BY DEF LedgerInv, TypeOK, SaleRow, Carts
  <1>5. \A s \in Skus : stock'[s] = SumOf(ledger'[s], Locations)
    BY SellingKeepsSums, UnitsInvMeans
  <1>6. Live' = Live \cup {n}
    BY <1>1, <1>3 DEF Live
  <1>7. ASSUME NEW s \in Skus
        PROVE  stock'[s] + SumOf(Column(sales', s), Live') = SumOf(Opening[s], Locations)
    <2>1. Live \in SUBSET (DOMAIN sales)
      BY DEF Live
    <2>2. SumOf(Column(sales', s), Live') = SumOf(Column(sales, s), Live) + row.cart[s]
      <3>1. SumOf(Column(Append(sales, row), s), Live \cup {Len(sales) + 1}) =
               SumOf(Column(sales, s), Live) + row.cart[s]
        BY <1>2, <2>1, SoldMore
      <3> QED
        BY <1>1, <1>6, <3>1
    <2>3. SumOf(Column(sales, s), Live) \in Int
      BY <1>2, <2>1, SoldUnits
    <2>4. stock[s] + SumOf(Column(sales, s), Live) = SumOf(Opening[s], Locations)
      BY UnitsInvMeans
    <2>5. stock'[s] = stock[s] - row.cart[s] /\ stock[s] \in Int /\ row.cart[s] \in Int
      BY <1>1, <1>4
    <2> QED
      BY <2>2, <2>3, <2>4, <2>5
  <1>8. ASSUME AllOnPrincipal', NEW s \in Skus, NEW l \in Locations
        PROVE  ledger'[s][l] + SumOf(Column(sales', s), StandingAt(l)') = Opening[s][l]
    <2>1. AllOnPrincipal /\ row.loc = Principal
      BY <1>3, <1>8 DEF AllOnPrincipal
    <2>2. StandingAt(l) \in SUBSET (DOMAIN sales)
      BY DEF StandingAt, Live
    <2>3. SumOf(Column(sales, s), StandingAt(l)) \in Int
      BY <1>2, <2>2, SoldUnits
    <2>4. ledger[s][l] + SumOf(Column(sales, s), StandingAt(l)) = Opening[s][l]
      BY <2>1, UnitsInvMeans
    <2>5. ledger[s][l] \in Int /\ row.cart[s] \in Int
      BY <1>1, <1>4
    <2>6. CASE l = Principal
      <3>1. StandingAt(l)' = StandingAt(l) \cup {n}
        BY <1>1, <1>3, <2>1, <2>6 DEF StandingAt, Live
      <3>2. SumOf(Column(sales', s), StandingAt(l)') =
               SumOf(Column(sales, s), StandingAt(l)) + row.cart[s]
        <4>1. SumOf(Column(Append(sales, row), s), StandingAt(l) \cup {Len(sales) + 1}) =
                 SumOf(Column(sales, s), StandingAt(l)) + row.cart[s]
          BY <1>2, <2>2, SoldMore
        <4> QED
          BY <1>1, <3>1, <4>1
      <3>3. ledger'[s][l] = ledger[s][l] + (- row.cart[s])
        BY <1>1, <1>4, <2>1, <2>6
      <3> QED
        BY <2>3, <2>4, <2>5, <3>2, <3>3
    <2>7. CASE l # Principal
      <3>1. StandingAt(l)' = StandingAt(l)
        BY <1>1, <1>3, <2>1, <2>7 DEF StandingAt, Live
      <3>2. SumOf(Column(sales', s), StandingAt(l)') = SumOf(Column(sales, s), StandingAt(l))
        <4>1. SumOf(Column(Append(sales, row), s), StandingAt(l)) =
                 SumOf(Column(sales, s), StandingAt(l))
          BY <1>2, <2>2, SoldMore
        <4> QED
          BY <1>1, <3>1, <4>1
      <3>3. ledger'[s][l] = ledger[s][l]
        BY <1>1, <1>4, <2>1, <2>7
      <3> QED
        BY <2>4, <3>2, <3>3
    <2> QED
      BY <2>6, <2>7
  <1> QED
    BY <1>5, <1>7, <1>8
    DEF UnitsInv, AggregateIsLedgerSum, UnitsKept, UnitsAccountedFor,
        ShelvesRestored, Sold, Column, StandingAt, AllOnPrincipal
(* A cancellation: the units of a row that stood go back to Principal, once. *)
LEMMA CancelKeepsUnits ==
    ASSUME LedgerInv, UnitsInv, NEW t \in Terminals, CancelCommit(t)
    PROVE  UnitsInv'
  <1>1. PICK i \in DOMAIN sales :
            /\ sales[i] \in SaleRow /\ sales[i].live
            /\ sales' = [sales EXCEPT ![i] = [sales[i] EXCEPT !.live = FALSE]]
            /\ \A s \in Skus :
                 /\ sales[i].cart[s] \in Nat
                 /\ stock'[s] = stock[s] + sales[i].cart[s]
                 /\ ledger'[s] = [ledger[s] EXCEPT ![Principal] = @ + sales[i].cart[s]]
    BY CancelWrites
  <1>2. sales \in Seq(SaleRow)
    BY DEF LedgerInv, TypeOK, SaleRow
  <1>3. /\ DOMAIN sales' = DOMAIN sales
        /\ ~sales'[i].live /\ sales'[i].loc = sales[i].loc
        /\ \A k \in DOMAIN sales : k # i => sales'[k] = sales[k]
        /\ \A k \in DOMAIN sales : sales'[k].loc = sales[k].loc
    <2> DEFINE voided == [sales[i] EXCEPT !.live = FALSE]
    <2>1. voided.live = FALSE /\ voided.loc = sales[i].loc
      BY <1>1 DEF SaleRow
    <2>2. sales' = [sales EXCEPT ![i] = voided]
      BY <1>1
    <2> HIDE DEF voided
    <2> QED
      BY <2>1, <2>2
  <1>4. \A s \in Skus : /\ stock[s] \in Int
                        /\ ledger[s] \in [Locations -> Int]
                        /\ sales[i].cart[s] \in Int
    BY <1>1 DEF LedgerInv, TypeOK, SaleRow, Carts
  <1>5. \A s \in Skus : stock'[s] = SumOf(ledger'[s], Locations)
    BY SellingKeepsSums, UnitsInvMeans
  <1>6. Live' = Live \ {i} /\ i \in Live
    BY <1>1, <1>3 DEF Live
  <1>7. \A s \in Skus : Column(sales', s) = Column(sales, s)
    <2> DEFINE voided == [sales[i] EXCEPT !.live = FALSE]
    <2>1. voided.cart = sales[i].cart
      BY <1>1 DEF SaleRow
    <2>2. sales' = [sales EXCEPT ![i] = voided]
      BY <1>1
    <2> HIDE DEF voided
    <2>3. \A s \in Skus : Column([sales EXCEPT ![i] = voided], s) = Column(sales, s)
      BY <2>1, SoldSame
    <2> QED
      BY <2>2, <2>3
  <1>8. ASSUME NEW s \in Skus
        PROVE  stock'[s] + SumOf(Column(sales', s), Live') = SumOf(Opening[s], Locations)
    <2>1. Live \in SUBSET (DOMAIN sales)
      BY DEF Live
    <2>2. SumOf(Column(sales, s), Live) =
             sales[i].cart[s] + SumOf(Column(sales, s), Live \ {i})
      BY <1>2, <1>6, <2>1, SoldUnits
    <2>3. Live \ {i} \in SUBSET (DOMAIN sales)
      BY <2>1
    <2>4. SumOf(Column(sales, s), Live \ {i}) \in Int
      BY <1>2, <2>3, SoldUnits
    <2>5. stock[s] + SumOf(Column(sales, s), Live) = SumOf(Opening[s], Locations)
      BY UnitsInvMeans
    <2>6. stock'[s] = stock[s] + sales[i].cart[s]
      BY <1>1
    <2>7. SumOf(Column(sales', s), Live') = SumOf(Column(sales, s), Live \ {i})
      BY <1>6, <1>7
    <2> QED
      BY <1>4, <2>2, <2>4, <2>5, <2>6, <2>7
  <1>9. ASSUME AllOnPrincipal', NEW s \in Skus, NEW l \in Locations
        PROVE  ledger'[s][l] + SumOf(Column(sales', s), StandingAt(l)') = Opening[s][l]
    <2>1. AllOnPrincipal /\ sales[i].loc = Principal
      BY <1>3, <1>9 DEF AllOnPrincipal
    <2>2. StandingAt(l) \in SUBSET (DOMAIN sales) /\ StandingAt(l) \ {i} \in SUBSET (DOMAIN sales)
      BY DEF StandingAt, Live
    <2>3. SumOf(Column(sales, s), StandingAt(l) \ {i}) \in Int
      BY <1>2, <2>2, SoldUnits
    <2>4. ledger[s][l] + SumOf(Column(sales, s), StandingAt(l)) = Opening[s][l]
      BY <2>1, UnitsInvMeans
    <2>5. ledger[s][l] \in Int
      BY <1>4
    <2>6. StandingAt(l)' = StandingAt(l) \ {i}
      BY <1>1, <1>3 DEF StandingAt, Live
    <2>7. SumOf(Column(sales', s), StandingAt(l)') =
             SumOf(Column(sales, s), StandingAt(l) \ {i})
      BY <1>7, <2>6
    <2>8. CASE l = Principal
      <3>1. i \in StandingAt(l)
        BY <1>1, <2>1, <2>8 DEF StandingAt, Live
      <3>2. SumOf(Column(sales, s), StandingAt(l)) =
               sales[i].cart[s] + SumOf(Column(sales, s), StandingAt(l) \ {i})
        BY <1>2, <2>2, <3>1, SoldUnits
      <3>3. ledger'[s][l] = ledger[s][l] + sales[i].cart[s]
        BY <1>1, <1>4, <2>8
      <3> QED
        BY <1>4, <2>3, <2>4, <2>5, <2>7, <3>2, <3>3
    <2>9. CASE l # Principal
      <3>1. StandingAt(l) \ {i} = StandingAt(l)
        BY <2>1, <2>9 DEF StandingAt
      <3>2. ledger'[s][l] = ledger[s][l]
        BY <1>1, <1>4, <2>9
      <3> QED
        BY <2>4, <2>7, <3>1, <3>2
    <2> QED
      BY <2>8, <2>9
  <1> QED
    BY <1>5, <1>8, <1>9
    DEF UnitsInv, AggregateIsLedgerSum, UnitsKept, UnitsAccountedFor,
        ShelvesRestored, Sold, Column, StandingAt, AllOnPrincipal

(* The shop opens with every unit on its shelf. *)
LEMMA UnitsInit == Init => UnitsInv
  <1> SUFFICES ASSUME Init PROVE UnitsInv
    OBVIOUS
  <1>1. Live = {} /\ \A l \in Locations : StandingAt(l) = {}
    BY DEF Init, Live, StandingAt
  <1>2. \A s \in Skus : SumOf(Column(sales, s), {}) = 0
    <2>1. ASSUME NEW s \in Skus PROVE SumOf(Column(sales, s), {}) = 0
      BY SumEmpty
    <2> QED
      BY <2>1
  <1>3. /\ ledger = Opening
        /\ \A s \in Skus : stock[s] = SumOf(Opening[s], Locations)
    BY DEF Init
  <1>4. \A s \in Skus : stock[s] \in Int /\ \A l \in Locations : Opening[s][l] \in Int
    BY <1>3, TotalsType, StockAssumption
  <1>5. \A s \in Skus :
           /\ stock[s] + SumOf(Column(sales, s), Live) = SumOf(Opening[s], Locations)
           /\ stock[s] = SumOf(ledger[s], Locations)
    BY <1>1, <1>2, <1>3, <1>4
  <1>6. \A s \in Skus, l \in Locations :
           ledger[s][l] + SumOf(Column(sales, s), StandingAt(l)) = Opening[s][l]
    <2> SUFFICES ASSUME NEW s \in Skus, NEW l \in Locations
                 PROVE  ledger[s][l] + SumOf(Column(sales, s), StandingAt(l)) = Opening[s][l]
      OBVIOUS
    <2>1. SumOf(Column(sales, s), StandingAt(l)) = 0
      BY <1>1, <1>2
    <2>2. ledger[s][l] = Opening[s][l] /\ Opening[s][l] \in Int
      BY <1>3, <1>4
    <2> QED
      BY <2>1, <2>2
  <1> QED
    BY <1>5, <1>6, UnitsInvMeans

LEMMA UnitsNext ==
    ASSUME Ops \subseteq FloorOps, FloorInv, UnitsInv, [Next]_vars
    PROVE  UnitsInv'
  <1>1. CASE UNCHANGED <<stock, ledger, sales>>
    BY <1>1
    DEF UnitsInv, AggregateIsLedgerSum, UnitsKept, UnitsAccountedFor,
        ShelvesRestored, Sold, Live
  <1>2. ASSUME NEW t \in Terminals, SaleCommit(t) \/ CancelCommit(t)
        PROVE  UnitsInv'
    BY <1>2, SaleKeepsUnits, CancelKeepsUnits DEF FloorInv
  <1> QED
    BY <1>1, <1>2, FloorWrites

(* The inductive invariant of the floor, its sums included. *)
LEMMA FloorUnits ==
    ASSUME Ops \subseteq FloorOps PROVE Spec => [](FloorInv /\ UnitsInv)
  <1>1. Init => FloorInv /\ UnitsInv
    BY FloorInit, UnitsInit
  <1>2. FloorInv /\ UnitsInv /\ [Next]_vars => (FloorInv /\ UnitsInv)'
    BY FloorNext, UnitsNext
  <1> QED
    BY <1>1, <1>2, PTL DEF Spec

(* schema.sql: "products.stock es el agregado (suma); el ledger vive aqui":
   while the floor's handlers run, whatever they interleave and wherever one
   dies, the aggregate of a product is what its warehouses hold. *)
THEOREM AggregateHolds ==
    ASSUME Ops \subseteq FloorOps PROVE Spec => []AggregateIsLedgerSum
  <1>1. UnitsInv => AggregateIsLedgerSum
    BY DEF UnitsInv
  <1> QED
    BY <1>1, FloorUnits, PTL

(* No unit is lost or sold twice by any number of terminals: each is on a
   shelf or in a sale that stands, a cancellation gives its units back once,
   and of sales of the main warehouse every shelf is restored. *)
THEOREM UnitsHold ==
    ASSUME Ops \subseteq FloorOps PROVE Spec => []UnitsKept
  <1>1. UnitsInv => UnitsKept
    BY DEF UnitsInv
  <1> QED
    BY <1>1, FloorUnits, PTL
-----------------------------------------------------------------------------
(* Cyclic counts, by any number of terminals *)

(* Who is about to mark a count has seen its difference applied. *)
MarksOK ==
    \A t \in Terminals :
        job[t].op = "countMark" /\ counts[job[t].id].diff # 0
            => counts[job[t].id].applied >= 1

CountsInv == LedgerInv /\ ClosedCountWasApplied /\ MarksOK

(* What a count was opened with stays, how often it was applied only grows,
   and one terminal goes on to mark what was applied. *)
LEMMA CountsMove ==
    ASSUME CountsInv, NEW t \in Terminals, NEW j,
           job' = [job EXCEPT ![t] = j], LedgerInv', ClosedCountWasApplied',
           \A i \in DOMAIN counts : /\ counts'[i].diff = counts[i].diff
                                    /\ counts'[i].applied >= counts[i].applied,
           DOMAIN counts \subseteq DOMAIN counts',
           j.op = "countMark" /\ counts'[j.id].diff # 0 => counts'[j.id].applied >= 1
    PROVE  CountsInv'
  <1>1. job \in [Terminals -> JobType]
    BY DEF CountsInv, LedgerInv, TypeOK
  <1>2. ASSUME NEW u \in Terminals, job'[u].op = "countMark",
               counts'[job'[u].id].diff # 0
        PROVE  counts'[job'[u].id].applied >= 1
    <2>1. CASE u = t
      BY <1>1, <1>2, <2>1
    <2>2. CASE u # t
      <3> DEFINE i == job[u].id
      <3>1. job'[u] = job[u] /\ job[u].op = "countMark"
        BY <1>1, <1>2, <2>2
      <3>2. i \in DOMAIN counts /\ counts \in Seq(CountRow) /\ counts' \in Seq(CountRow)
        <4>1. i \in 1..Len(counts) /\ counts \in Seq(CountRow)
          BY <3>1 DEF CountsInv, LedgerInv, JobOK, TypeOK, CountRow
        <4> QED
          BY <4>1, LenProperties DEF LedgerInv, TypeOK, CountRow
      <3>3. counts[i] \in CountRow /\ counts'[i] \in CountRow
        <4>1. i \in DOMAIN counts'
          BY <3>2
        <4> HIDE DEF i
        <4> QED
          BY <3>2, <4>1, ElementOfSeq, LenProperties
      <3>4. counts[i].applied >= 1
        BY <1>2, <3>1, <3>2 DEF CountsInv, MarksOK
      <3>5. counts[i].applied \in Nat /\ counts'[i].applied \in Nat
        BY <3>3 DEF CountRow
      <3>6. counts'[i].applied >= counts[i].applied
        BY <3>2
      <3> QED
        BY <3>1, <3>4, <3>5, <3>6
    <2> QED
      BY <2>1, <2>2
  <1> QED
    BY <1>2 DEF CountsInv, MarksOK

(* A handler that is about something else than a count. *)
LEMMA CountsAlone ==
    ASSUME CountsInv, LedgerInv', NEW t \in Terminals, NEW j,
           job' = [job EXCEPT ![t] = j], counts' = counts, j.op # "countMark"
    PROVE  CountsInv'
  <1>1. ClosedCountWasApplied'
    BY DEF CountsInv, ClosedCountWasApplied
  <1>2. \A i \in DOMAIN counts : /\ counts'[i].diff = counts[i].diff
                                 /\ counts'[i].applied >= counts[i].applied
    <2>1. counts \in Seq(CountRow)
      BY DEF CountsInv, LedgerInv, TypeOK, CountRow
    <2>2. \A i \in DOMAIN counts : counts[i] \in CountRow
      BY <2>1, ElementOfSeq, LenProperties
    <2> QED
      BY <2>2 DEF CountRow
  <1> QED
    BY <1>1, <1>2, CountsMove

(* The handlers that are. *)
LEMMA CountingKeeps ==
    ASSUME CountsInv, LedgerInv', NEW t \in Terminals, Counting(t)
    PROVE  CountsInv'
  <1>0. /\ counts \in Seq(CountRow) /\ DOMAIN counts = 1..Len(counts)
        /\ Len(counts) \in Nat /\ Idle.op = "idle"
        /\ \A i \in DOMAIN counts : counts[i] \in CountRow
    <2>1. counts \in Seq(CountRow)
      BY DEF CountsInv, LedgerInv, TypeOK, CountRow
    <2> QED
      BY <2>1, ElementOfSeq, LenProperties DEF Idle
  <1>1. ASSUME NEW s \in Skus, NEW q \in 0..MaxStock, CountStart(t, s, q)
        PROVE  CountsInv'
    <2> DEFINE row == [sku |-> s, diff |-> q - stock[s], open |-> TRUE, applied |-> 0]
    <2>1. counts' = Append(counts, row) /\ job' = job /\ row.open = TRUE
      BY <1>1 DEF CountStart
    <2> HIDE DEF row
    <2>2. /\ \A i \in DOMAIN counts : counts'[i] = counts[i]
          /\ counts'[Len(counts) + 1] = row
          /\ DOMAIN counts' = 1..(Len(counts) + 1)
      BY <1>0, <2>1
    <2>3. ClosedCountWasApplied'
      BY <1>0, <2>1, <2>2 DEF CountsInv, ClosedCountWasApplied
    <2>4. ASSUME NEW u \in Terminals, job'[u].op = "countMark"
          PROVE  counts'[job'[u].id] = counts[job[u].id]
      <3>1. JobOK(u) /\ job[u].op = "countMark"
        BY <2>1, <2>4 DEF CountsInv, LedgerInv
      <3>2. job[u].id \in DOMAIN counts
        BY <1>0, <3>1 DEF JobOK
      <3> QED
        BY <2>1, <2>2, <3>2
    <2> QED
      BY <2>1, <2>3, <2>4 DEF CountsInv, MarksOK
  <1>2. ASSUME NEW i \in DOMAIN counts, CountApply(t, i) PROVE CountsInv'
    <2> DEFINE j == [Idle EXCEPT !.op = NextOfCount(i), !.id = i]
    <2>1. job' = [job EXCEPT ![t] = j] /\ counts' = counts
      BY <1>2 DEF CountApply, Start, db
    <2>2. j.op = NextOfCount(i) /\ j.id = i
      BY DEF Idle
    <2>3. NextOfCount(i) = "countMark" => counts[i].diff = 0
      BY DEF NextOfCount
    <2>4. ClosedCountWasApplied'
      BY <2>1 DEF CountsInv, ClosedCountWasApplied
    <2>5. \A k \in DOMAIN counts : counts[k].applied >= counts[k].applied
      BY <1>0 DEF CountRow
    <2> HIDE DEF j
    <2> QED
      BY <2>1, <2>2, <2>3, <2>4, <2>5, CountsMove
  <1>3. CASE CountRead(t)
    <2>1. PICK j : job' = [job EXCEPT ![t] = j] /\ counts' = counts /\ j.op = "adjust"
      <3> DEFINE i == job[t].id
                 j == [Idle EXCEPT !.op = "adjust", !.sku = counts[i].sku,
                                   !.qty = counts[i].diff,
                                   !.snap = stock[counts[i].sku], !.id = i]
      <3>1. job' = [job EXCEPT ![t] = j] /\ counts' = counts
        BY <1>3 DEF CountRead, db
      <3>2. j.op = "adjust"
        BY DEF Idle
      <3> QED
        BY <3>1, <3>2
    <2> QED
      BY <2>1, CountsAlone
  <1>4. CASE CountMark(t)
    <2> DEFINE i == job[t].id
               row == [counts[i] EXCEPT !.open = FALSE]
    <2>1. /\ job' = [job EXCEPT ![t] = Idle]
          /\ counts' = [counts EXCEPT ![i] = row] /\ job[t].op = "countMark"
      BY <1>4 DEF CountMark, Finish
    <2>2. i \in DOMAIN counts
      BY <1>0, <2>1 DEF CountsInv, LedgerInv, JobOK
    <2>3. /\ row.diff = counts[i].diff /\ row.applied = counts[i].applied
          /\ row.applied \in Nat
      BY <1>0, <2>2 DEF CountRow
    <2>4. counts[i].diff # 0 => counts[i].applied >= 1
      BY <2>1 DEF CountsInv, MarksOK
    <2> HIDE DEF row
    <2>5. \A k \in DOMAIN counts : counts'[k] = IF k = i THEN row ELSE counts[k]
      BY <2>1
    <2>6. DOMAIN counts' = DOMAIN counts
      BY <2>1
    <2>7. ClosedCountWasApplied'
      BY <2>3, <2>4, <2>5, <2>6 DEF CountsInv, ClosedCountWasApplied
    <2>8. \A k \in DOMAIN counts : /\ counts'[k].diff = counts[k].diff
                                   /\ counts'[k].applied >= counts[k].applied
      <3>1. \A k \in DOMAIN counts : counts[k].applied \in Nat
        BY <1>0 DEF CountRow
      <3> QED
        BY <2>3, <2>5, <3>1
    <2> QED
      BY <1>0, <2>1, <2>6, <2>7, <2>8, CountsMove
  <1> QED
    BY <1>1, <1>2, <1>3, <1>4 DEF Counting

(* An adjustment that belongs to a count has applied it. *)
LEMMA AdjustKeepsCounts ==
    ASSUME CountsInv, LedgerInv', NEW t \in Terminals, AdjustCommit(t)
    PROVE  CountsInv'
  <1> DEFINE i == job[t].id
  <1>0. /\ counts \in Seq(CountRow) /\ DOMAIN counts = 1..Len(counts)
        /\ Len(counts) \in Nat /\ Idle.op = "idle"
        /\ \A k \in DOMAIN counts : counts[k] \in CountRow
    <2>1. counts \in Seq(CountRow)
      BY DEF CountsInv, LedgerInv, TypeOK, CountRow
    <2> QED
      BY <2>1, ElementOfSeq, LenProperties DEF Idle
  <1>1. CASE i = 0
    <2>1. job' = [job EXCEPT ![t] = Idle] /\ counts' = counts
      BY <1>1 DEF AdjustCommit, Finish
    <2> QED
      BY <1>0, <2>1, CountsAlone
  <1>2. CASE i # 0
    <2> DEFINE j == [Idle EXCEPT !.op = "countMark", !.id = i]
               row == [counts[i] EXCEPT !.applied = @ + 1]
    <2>1. job' = [job EXCEPT ![t] = j] /\ counts' = [counts EXCEPT ![i] = row]
      BY <1>2 DEF AdjustCommit
    <2>2. j.id = i
      BY DEF Idle
    <2>3. i \in DOMAIN counts
      BY <1>0, <1>2 DEF CountsInv, LedgerInv, JobOK, AdjustCommit
    <2>4. counts[i].applied \in Nat
      BY <1>0, <2>3 DEF CountRow
    <2>5. row.diff = counts[i].diff /\ row.applied = counts[i].applied + 1
      BY <1>0, <2>3 DEF CountRow
    <2> HIDE DEF j, row, i
    <2>6. /\ \A k \in DOMAIN counts : counts'[k] = IF k = i THEN row ELSE counts[k]
          /\ DOMAIN counts' = DOMAIN counts
      BY <2>1
    <2>7. ClosedCountWasApplied'
      BY <2>4, <2>5, <2>6 DEF CountsInv, ClosedCountWasApplied
    <2>8. \A k \in DOMAIN counts : /\ counts'[k].diff = counts[k].diff
                                   /\ counts'[k].applied >= counts[k].applied
      BY <1>0, <2>4, <2>5, <2>6 DEF CountRow
    <2>9. counts'[j.id].applied >= 1
      BY <2>2, <2>3, <2>4, <2>5, <2>6
    <2> QED
      BY <2>1, <2>6, <2>7, <2>8, <2>9, CountsMove
  <1> QED
    BY <1>1, <1>2

(* Terminal t goes on with something else than a count. *)
LeavesCounts(t) ==
    \E j : job' = [job EXCEPT ![t] = j] /\ counts' = counts /\ j.op # "countMark"

LEMMA LeavesCountsByStart ==
    ASSUME NEW t, NEW j, Start(t, j), j.op # "countMark" PROVE LeavesCounts(t)
  BY DEF Start, db, LeavesCounts

LEMMA LeavesCountsByEnd ==
    ASSUME NEW t, Finish(t), counts' = counts PROVE LeavesCounts(t)
  <1>1. Idle.op # "countMark"
    BY DEF Idle
  <1> QED
    BY <1>1 DEF Finish, LeavesCounts

(* Every way a handler starts that is not a count's. *)
LEMMA LeavesCountsChecks ==
    ASSUME NEW t \in Terminals
    PROVE  /\ \A c, l : SaleCheck(t, c, l) => LeavesCounts(t)
           /\ \A i : CancelCheck(t, i) => LeavesCounts(t)
           /\ \A s, d : AdjustCheck(t, s, d) \/ EntryCheck(t, s, d) \/ EditCheck(t, s, d)
                           => LeavesCounts(t)
           /\ \A s, q, from, to : TransferCheck(t, s, q, from, to) => LeavesCounts(t)
  <1>1. ASSUME NEW c, NEW l, SaleCheck(t, c, l) PROVE LeavesCounts(t)
    <2> DEFINE j == [Idle EXCEPT !.op = "sale", !.cart = c, !.from = l]
    <2>1. Start(t, j)
      BY <1>1 DEF SaleCheck
    <2>2. j.op = "sale"
      BY DEF Idle
    <2> HIDE DEF j
    <2> QED
      BY <2>1, <2>2, LeavesCountsByStart
  <1>2. ASSUME NEW i, CancelCheck(t, i) PROVE LeavesCounts(t)
    <2> DEFINE j == [Idle EXCEPT !.op = "cancel", !.id = i]
    <2>1. Start(t, j)
      BY <1>2 DEF CancelCheck
    <2>2. j.op = "cancel"
      BY DEF Idle
    <2> HIDE DEF j
    <2> QED
      BY <2>1, <2>2, LeavesCountsByStart
  <1>3. ASSUME NEW s, NEW d,
               AdjustCheck(t, s, d) \/ EntryCheck(t, s, d) \/ EditCheck(t, s, d)
        PROVE  LeavesCounts(t)
    <2> DEFINE j(op) == [Idle EXCEPT !.op = op, !.sku = s, !.qty = d, !.snap = stock[s]]
    <2>1. PICK op \in {"adjust", "entry", "edit"} : Start(t, j(op))
      BY <1>3 DEF AdjustCheck, EntryCheck, EditCheck
    <2>2. j(op).op = op
      BY DEF Idle
    <2> HIDE DEF j
    <2> QED
      BY <2>1, <2>2, LeavesCountsByStart
  <1>4. ASSUME NEW s, NEW q, NEW from, NEW to, TransferCheck(t, s, q, from, to)
        PROVE  LeavesCounts(t)
    <2> DEFINE j == [Idle EXCEPT !.op = "transfer", !.sku = s, !.qty = q,
                                 !.snap = stock[s], !.from = from, !.to = to]
    <2>1. Start(t, j)
      BY <1>4 DEF TransferCheck
    <2>2. j.op = "transfer"
      BY DEF Idle
    <2> HIDE DEF j
    <2> QED
      BY <2>1, <2>2, LeavesCountsByStart
  <1> QED
    BY <1>1, <1>2, <1>3, <1>4

(* Every other handler. *)
LEMMA OthersKeepCounts ==
    ASSUME CountsInv, LedgerInv', NEW t \in Terminals,
           \/ Selling(t) \/ Reserving(t) \/ Moving(t) \/ Editing(t) \/ Abandon(t)
           \/ \E s \in Skus, d \in (-MaxStock)..MaxStock : AdjustCheck(t, s, d)
    PROVE  CountsInv'
  <1>1. CASE Reserving(t)
    <2>1. job' = job /\ counts' = counts
      BY <1>1 DEF Reserving, Reserve, Release
    <2> QED
      BY <2>1 DEF CountsInv, ClosedCountWasApplied, MarksOK
  <1>2. ASSUME ~Reserving(t) PROVE LeavesCounts(t)
    <2>1. CASE SaleCommit(t) \/ CancelCommit(t) \/ TransferCommit(t)
               \/ EntryCommit(t) \/ EditLedger(t) \/ Abandon(t)
      <3>1. Finish(t) /\ counts' = counts
        BY <2>1 DEF SaleCommit, CancelCommit, TransferCommit, EntryCommit,
                    EditLedger, Abandon, db
      <3> QED
        BY <3>1, LeavesCountsByEnd
    <2>2. CASE EditProduct(t) \/ EditOthers(t)
      <3>1. job[t] \in JobType
        BY DEF CountsInv, LedgerInv, TypeOK
      <3>2. CASE EditProduct(t)
        <4> DEFINE j == [job[t] EXCEPT !.op = "editOthers"]
        <4>1. counts' = counts /\ (job' = [job EXCEPT ![t] = j] \/ Finish(t))
          BY <3>2 DEF EditProduct
        <4>2. j.op = "editOthers"
          BY <3>1 DEF JobType
        <4> HIDE DEF j
        <4> QED
          BY <4>1, <4>2, LeavesCountsByEnd DEF LeavesCounts
      <3>3. CASE EditOthers(t)
        <4> DEFINE j == [job[t] EXCEPT !.op = "editLedger",
                           !.snap = Absorbed(ledger[job[t].sku], job[t].qty)]
        <4>1. counts' = counts /\ job' = [job EXCEPT ![t] = j]
          BY <3>3 DEF EditOthers, db
        <4>2. j.op = "editLedger"
          BY <3>1 DEF JobType
        <4> HIDE DEF j
        <4> QED
          BY <4>1, <4>2 DEF LeavesCounts
      <3> QED
        BY <2>2, <3>2, <3>3
    <2> QED
      BY <1>2, <2>1, <2>2, LeavesCountsChecks DEF Selling, Moving, Editing
  <1>3. CASE LeavesCounts(t)
    BY <1>3, CountsAlone DEF LeavesCounts
  <1> QED
    BY <1>1, <1>2, <1>3

(* InventoryService::applyCount marks a count by a statement outside the
   transaction of its adjustment: whatever the terminals interleave and
   wherever one dies, no count is closed before its difference was applied. *)
THEOREM CountsHold == Spec => []ClosedCountWasApplied
  <1>1. Init => CountsInv
    <2>1. Init => ClosedCountWasApplied /\ MarksOK
      BY DEF Init, ClosedCountWasApplied, MarksOK, Idle
    <2> QED
      BY <2>1, InitInv DEF CountsInv
  <1>2. CountsInv /\ [Next]_vars => CountsInv'
    <2> SUFFICES ASSUME CountsInv, [Next]_vars PROVE CountsInv'
      OBVIOUS
    <2>1. LedgerInv'
      BY NextInv DEF CountsInv
    <2>2. CASE UNCHANGED vars
      BY <2>1, <2>2 DEF vars, db, CountsInv, ClosedCountWasApplied, MarksOK
    <2>3. ASSUME NEW t \in Terminals,
                 \/ Selling(t) \/ Reserving(t) \/ Counting(t)
                 \/ Adjusting(t) \/ Moving(t) \/ Editing(t) \/ Abandon(t)
          PROVE  CountsInv'
      BY <2>1, <2>3, CountingKeeps, AdjustKeepsCounts, OthersKeepCounts DEF Adjusting
    <2> QED
      BY <2>2, <2>3 DEF Next
  <1>3. CountsInv => ClosedCountWasApplied
    BY DEF CountsInv
  <1> QED
    BY <1>1, <1>2, <1>3, PTL DEF Spec
-----------------------------------------------------------------------------
(* All the handlers, one after the other *)

(* What a handler of the only terminal has read is what it will find. *)
ReadsStand(t) ==
    /\ job[t].op \in {"transfer", "entry"} => job[t].snap = stock[job[t].sku]
    /\ job[t].op = "entry" => job[t].qty >= 0
    /\ job[t].op \in {"editOthers", "editLedger"} => job[t].sku \in formed

SumsInv ==
    /\ LedgerInv
    /\ UnformedIsLedgerSum
    /\ \A t \in Terminals : ReadsStand(t)

OneTerminal == \A t, u \in Terminals : t = u

(* A step of the only terminal: what it keeps in its job is what matters. *)
LEMMA SumsMove ==
    ASSUME OneTerminal, SumsInv, LedgerInv', NEW t \in Terminals, NEW j,
           job' = [job EXCEPT ![t] = j],
           formed \subseteq formed',
           \A s \in Skus \ formed' :
              stock[s] = SumOf(ledger[s], Locations)
                 => stock'[s] = SumOf(ledger'[s], Locations),
           j.op \in {"transfer", "entry"} => j.snap = stock'[j.sku],
           j.op = "entry" => j.qty >= 0,
           j.op \in {"editOthers", "editLedger"} => j.sku \in formed'
    PROVE  SumsInv'
  <1>1. UnformedIsLedgerSum'
    BY DEF SumsInv, UnformedIsLedgerSum
  <1>2. ASSUME NEW u \in Terminals PROVE ReadsStand(u)'
    <2>1. u = t /\ job'[t] = j
      BY DEF OneTerminal, SumsInv, LedgerInv, TypeOK
    <2> QED
      BY <2>1 DEF ReadsStand
  <1> QED
    BY <1>1, <1>2 DEF SumsInv

(* One that only reads. *)
LEMMA SumsRead ==
    ASSUME OneTerminal, SumsInv, LedgerInv', NEW t \in Terminals, NEW j,
           job' = [job EXCEPT ![t] = j], UNCHANGED <<stock, ledger, formed>>,
           j.op \in {"transfer", "entry"} => j.snap = stock[j.sku],
           j.op = "entry" => j.qty >= 0,
           j.op \in {"editOthers", "editLedger"} => j.sku \in formed
    PROVE  SumsInv'
  BY SumsMove

(* One that ends. *)
LEMMA SumsEnd ==
    ASSUME OneTerminal, SumsInv, LedgerInv', NEW t \in Terminals, Finish(t),
           formed' = formed,
           \A s \in Skus \ formed :
              stock[s] = SumOf(ledger[s], Locations)
                 => stock'[s] = SumOf(ledger'[s], Locations)
    PROVE  SumsInv'
  <1>1. Idle.op = "idle"
    BY DEF Idle
  <1> QED
    BY <1>1, SumsMove DEF Finish

(* The main warehouse and the others make up the whole. *)
LEMMA PrincipalPart ==
    ASSUME NEW row \in [Locations -> Int]
    PROVE  /\ SumOf(row, Locations) = Others(row) + row[Principal]
           /\ Others(row) \in Int /\ row[Principal] \in Int
  <1> DEFINE rest == Locations \ {Principal}
  <1>1. IsFiniteSet(Locations) /\ Principal \in Locations /\ IsFiniteSet(rest)
    BY StockAssumption, FS_Subset
  <1>2. SumOf(row, Locations) = row[Principal] + SumOf(row, rest)
    BY <1>1, SumApart
  <1>3. SumOf(row, rest) \in Int /\ row[Principal] \in Int
    BY <1>1, SumInt
  <1> QED
    BY <1>2, <1>3 DEF Others

(* A row rewritten at Principal. *)
LEMMA PrincipalSum ==
    ASSUME NEW row \in [Locations -> Int], NEW n \in Int
    PROVE  SumOf([row EXCEPT ![Principal] = n], Locations) = Others(row) + n
  <1> DEFINE new == [row EXCEPT ![Principal] = n]
             rest == Locations \ {Principal}
  <1>1. IsFiniteSet(Locations) /\ Principal \in Locations /\ IsFiniteSet(rest)
    BY StockAssumption, FS_Subset
  <1>2. /\ new \in [Locations -> Int] /\ new[Principal] = n
        /\ \A l \in rest : new[l] = row[l]
    BY <1>1
  <1> HIDE DEF new
  <1>3. SumOf(new, rest) = SumOf(row, rest)
    BY <1>1, <1>2, SumSame
  <1>4. SumOf(new, Locations) = Others(new) + new[Principal]
    BY <1>2, PrincipalPart
  <1>5. SumOf(new, Locations) = Others(row) + n
    BY <1>2, <1>3, <1>4 DEF Others
  <1> QED
    BY <1>5 DEF new

(* Units moved from one warehouse to another are as many as before. *)
LEMMA TransferSum ==
    ASSUME NEW row \in [Locations -> Int], NEW q \in Int,
           NEW from \in Locations, NEW to \in Locations
    PROVE  SumOf([[row EXCEPT ![from] = @ - q] EXCEPT ![to] = @ + q], Locations) =
              SumOf(row, Locations)
  <1> DEFINE k == - q
             taken == [row EXCEPT ![from] = @ - q]
  <1>1. k \in Int /\ taken \in [Locations -> Int]
    OBVIOUS
  <1>2. taken = [row EXCEPT ![from] = @ + k]
    <2>1. row[from] - q = row[from] + k
      OBVIOUS
    <2> QED
      BY <2>1
  <1>3. SumOf(row, Locations) \in Int
    BY TotalsType
  <1> HIDE DEF k, taken
  <1>4. SumOf([row EXCEPT ![from] = @ + k], Locations) = SumOf(row, Locations) + k
    BY <1>1, LedgerMoves
  <1>5. SumOf([taken EXCEPT ![to] = @ + q], Locations) = SumOf(taken, Locations) + q
    BY <1>1, LedgerMoves
  <1>6. SumOf(taken, Locations) = SumOf(row, Locations) + k
    BY <1>2, <1>4
  <1>7. (SumOf(row, Locations) + k) + q = SumOf(row, Locations)
    BY <1>3 DEF k
  <1> QED
    BY <1>5, <1>6, <1>7 DEF taken

(* One product written over. *)
LEMMA RowRewritten ==
    ASSUME LedgerInv, NEW s \in Skus, NEW v \in Int, NEW row,
           stock' = [stock EXCEPT ![s] = v], ledger' = [ledger EXCEPT ![s] = row],
           s \notin formed => v = SumOf(row, Locations)
    PROVE  \A r \in Skus \ formed :
              stock[r] = SumOf(ledger[r], Locations)
                 => stock'[r] = SumOf(ledger'[r], Locations)
  <1> TAKE r \in Skus \ formed
  <1> HAVE stock[r] = SumOf(ledger[r], Locations)
  <1>1. CASE r = s
    BY <1>1 DEF LedgerInv, TypeOK
  <1>2. CASE r # s
    BY <1>2 DEF LedgerInv, TypeOK
  <1> QED
    BY <1>1, <1>2

(* ProductRepository::update, with a stock that the other warehouses do not
   exceed: what the main warehouse absorbs makes the sum come out. *)
LEMMA OverwriteSum ==
    ASSUME LedgerInv, NEW s \in Skus, NEW row \in [Locations -> Int], NEW v \in Int,
           Overwrite(s, row, v),
           s \notin formed => IF v = stock[s] THEN v = SumOf(row, Locations)
                              ELSE v >= Others(row)
    PROVE  \A r \in Skus \ formed :
              stock[r] = SumOf(ledger[r], Locations)
                 => stock'[r] = SumOf(ledger'[r], Locations)
  <1> DEFINE new == IF v # stock[s] THEN [row EXCEPT ![Principal] = Absorbed(row, v)]
                    ELSE row
  <1>1. stock' = [stock EXCEPT ![s] = v] /\ ledger' = [ledger EXCEPT ![s] = new]
    BY DEF Overwrite
  <1>2. ASSUME s \notin formed PROVE v = SumOf(new, Locations)
    <2>1. Others(row) \in Int
      BY PrincipalPart
    <2>2. CASE v = stock[s]
      BY <1>2, <2>2
    <2>3. CASE v # stock[s]
      <3>1. Absorbed(row, v) = v - Others(row)
        BY <1>2, <2>1, <2>3 DEF Absorbed, Max0
      <3>2. v - Others(row) \in Int
        BY <2>1
      <3>3. SumOf([row EXCEPT ![Principal] = v - Others(row)], Locations) =
               Others(row) + (v - Others(row))
        BY <3>2, PrincipalSum
      <3>4. new = [row EXCEPT ![Principal] = v - Others(row)]
        BY <2>3, <3>1
      <3> QED
        BY <2>1, <3>3, <3>4
    <2> QED
      BY <2>2, <2>3
  <1> HIDE DEF new
  <1> QED
    BY <1>1, <1>2, RowRewritten

(* Sales and cancellations: the units of each line leave or return. *)
LEMMA SalesKeepSums ==
    ASSUME OneTerminal, SumsInv, LedgerInv', NEW t \in Terminals,
           SaleCommit(t) \/ CancelCommit(t)
    PROVE  SumsInv'
  <1>1. LedgerInv
    BY DEF SumsInv
  <1>2. \A s \in Skus : stock[s] = SumOf(ledger[s], Locations)
                           => stock'[s] = SumOf(ledger'[s], Locations)
    BY <1>1, SellingKeepsSums
  <1>3. Finish(t) /\ formed' = formed
    BY DEF SaleCommit, CancelCommit
  <1> QED
    BY <1>2, <1>3, SumsEnd

(* setStock on the main warehouse: the aggregate moves with the row. *)
LEMMA AdjustKeepsSums ==
    ASSUME OneTerminal, SumsInv, LedgerInv', NEW t \in Terminals, AdjustCommit(t)
    PROVE  SumsInv'
  <1> DEFINE s == job[t].sku
             row == ledger[s]
             n == job[t].snap + job[t].qty
             v == Restated(s, n)
             new == [row EXCEPT ![Principal] = n]
             mark == [Idle EXCEPT !.op = "countMark", !.id = job[t].id]
  <1>1. LedgerInv
    BY DEF SumsInv
  <1>2. /\ s \in Skus /\ n \in Int /\ row \in [Locations -> Int]
        /\ stock[s] \in Int /\ row[Principal] \in Int
    <2>1. job[t] \in JobType
      BY <1>1 DEF LedgerInv, TypeOK
    <2>2. s \in Skus /\ n \in Int
      BY <2>1 DEF JobType
    <2> HIDE DEF n
    <2> QED
      BY <1>1, <2>2, StockAssumption DEF LedgerInv, TypeOK
  <1>3. /\ stock' = [stock EXCEPT ![s] = v] /\ formed' = formed
        /\ ledger' = [ledger EXCEPT ![s][Principal] = n]
        /\ Finish(t) \/ job' = [job EXCEPT ![t] = mark]
    BY DEF AdjustCommit
  <1>4. ledger' = [ledger EXCEPT ![s] = new]
    BY <1>1, <1>2, <1>3 DEF LedgerInv, TypeOK
  <1>5. v = stock[s] + n - row[Principal]
    BY DEF Restated
  <1>6. SumOf(new, Locations) = Others(row) + n
    BY <1>2, PrincipalSum
  <1>7. SumOf(row, Locations) = Others(row) + row[Principal] /\ Others(row) \in Int
    BY <1>2, PrincipalPart
  <1>8. s \notin formed => stock[s] = SumOf(row, Locations)
    BY <1>2 DEF SumsInv, UnformedIsLedgerSum
  <1>9. mark.op = "countMark"
    BY DEF Idle
  <1> HIDE DEF s, row, n, v, new, mark
  <1>10. v \in Int /\ (s \notin formed => v = SumOf(new, Locations))
    BY <1>2, <1>5, <1>6, <1>7, <1>8
  <1>11. \A r \in Skus \ formed :
            stock[r] = SumOf(ledger[r], Locations)
               => stock'[r] = SumOf(ledger'[r], Locations)
    BY <1>1, <1>2, <1>3, <1>4, <1>10, RowRewritten
  <1>12. CASE Finish(t)
    BY <1>3, <1>11, <1>12, SumsEnd
  <1>13. CASE job' = [job EXCEPT ![t] = mark]
    BY <1>3, <1>9, <1>11, <1>13, SumsMove
  <1> QED
    BY <1>3, <1>12, <1>13

(* A transfer writes back the aggregate it read, a purchase that plus what
   came in: the main warehouse absorbs the difference to the sum. *)
LEMMA MovingKeepsSums ==
    ASSUME OneTerminal, SumsInv, LedgerInv', NEW t \in Terminals,
           TransferCommit(t) \/ EntryCommit(t)
    PROVE  SumsInv'
  <1> DEFINE s == job[t].sku
             row == ledger[s]
             q == job[t].qty
             from == job[t].from
             to == job[t].to
             taken == [row EXCEPT ![from] = @ - q]
             moved == [taken EXCEPT ![to] = @ + q]
             v == job[t].snap
  <1>1. LedgerInv
    BY DEF SumsInv
  <1>2. /\ s \in Skus /\ row \in [Locations -> Int] /\ q \in Int
        /\ from \in Locations /\ to \in Locations
        /\ \A l \in Locations : row[l] >= 0
        /\ stock[s] \in Int
    BY <1>1 DEF LedgerInv, LedgerNonNegative, TypeOK, JobType
  <1>3. v = stock[s] /\ (job[t].op = "entry" => q >= 0)
    BY DEF SumsInv, ReadsStand, TransferCommit, EntryCommit
  <1>4. Finish(t) /\ formed' = formed
    BY DEF TransferCommit, EntryCommit
  <1>5. s \notin formed => stock[s] = SumOf(row, Locations)
    BY <1>2 DEF SumsInv, UnformedIsLedgerSum
  <1>6. \A r \in Skus \ formed :
            stock[r] = SumOf(ledger[r], Locations)
               => stock'[r] = SumOf(ledger'[r], Locations)
    <2>1. CASE TransferCommit(t)
      <3>1. Overwrite(s, moved, v) /\ moved \in [Locations -> Int]
        BY <1>2, <2>1 DEF TransferCommit
      <3>2. SumOf(moved, Locations) = SumOf(row, Locations)
        <4> HIDE DEF row, q, from, to
        <4> QED
          BY <1>2, TransferSum
      <3> HIDE DEF s, row, moved, v
      <3>3. s \notin formed => IF v = stock[s] THEN v = SumOf(moved, Locations)
                               ELSE v >= Others(moved)
        BY <1>3, <1>5, <3>2
      <3> QED
        BY <1>1, <1>2, <1>3, <3>1, <3>3, OverwriteSum
    <2>2. CASE EntryCommit(t)
      <3>1. Overwrite(s, row, v + q) /\ job[t].op = "entry"
        BY <2>2 DEF EntryCommit
      <3>2. /\ SumOf(row, Locations) = Others(row) + row[Principal]
            /\ Others(row) \in Int /\ row[Principal] \in Int /\ row[Principal] >= 0
        BY <1>2, PrincipalPart, StockAssumption
      <3> HIDE DEF s, row, q, v
      <3>3. /\ v + q \in Int
            /\ s \notin formed => IF v + q = stock[s] THEN v + q = SumOf(row, Locations)
                                  ELSE v + q >= Others(row)
        BY <1>2, <1>3, <1>5, <3>1, <3>2
      <3> QED
        BY <1>1, <1>2, <3>1, <3>3, OverwriteSum
    <2> QED
      BY <2>1, <2>2
  <1> QED
    BY <1>4, <1>6, SumsEnd

(* The product form: what it writes over is no longer accounted for. *)
LEMMA EditKeepsSums ==
    ASSUME OneTerminal, SumsInv, LedgerInv', NEW t \in Terminals,
           EditProduct(t) \/ EditOthers(t) \/ EditLedger(t)
    PROVE  SumsInv'
  <1> DEFINE s == job[t].sku
             ordered == [job[t] EXCEPT !.op = "editOthers"]
             summed == [job[t] EXCEPT !.op = "editLedger",
                                      !.snap = Absorbed(ledger[s], job[t].qty)]
  <1>1. /\ job[t] \in JobType /\ s \in Skus
        /\ stock \in [Skus -> Int] /\ ledger \in [Skus -> [Locations -> Int]]
    BY DEF SumsInv, LedgerInv, TypeOK, JobType
  <1>2. /\ ordered.op = "editOthers" /\ ordered.sku = s
        /\ summed.op = "editLedger" /\ summed.sku = s
    BY <1>1 DEF JobType
  <1>3. job[t].op \in {"editOthers", "editLedger"} => s \in formed
    BY DEF SumsInv, ReadsStand
  <1>4. CASE EditProduct(t)
    <2>1. /\ stock' = [stock EXCEPT ![s] = job[t].qty] /\ ledger' = ledger
          /\ formed' = formed \cup {s}
          /\ job' = [job EXCEPT ![t] = ordered] \/ Finish(t)
      BY <1>4 DEF EditProduct
    <2> HIDE DEF s, ordered, summed
    <2>2. /\ formed \subseteq formed' /\ s \in formed'
          /\ \A r \in Skus \ formed' : stock'[r] = stock[r] /\ ledger'[r] = ledger[r]
      BY <1>1, <2>1
    <2>3. \A r \in Skus \ formed' :
             stock[r] = SumOf(ledger[r], Locations)
                => stock'[r] = SumOf(ledger'[r], Locations)
      BY <2>2
    <2>4. CASE job' = [job EXCEPT ![t] = ordered]
      BY <1>2, <2>2, <2>3, <2>4, SumsMove
    <2>5. CASE Finish(t)
      <3>1. Idle.op = "idle"
        BY DEF Idle
      <3> QED
        BY <2>2, <2>3, <2>5, <3>1, SumsMove DEF Finish
    <2> QED
      BY <2>1, <2>4, <2>5
  <1>5. CASE EditOthers(t)
    <2>1. job' = [job EXCEPT ![t] = summed] /\ UNCHANGED <<stock, ledger, formed>>
          /\ s \in formed
      BY <1>3, <1>5 DEF EditOthers, db
    <2> HIDE DEF s, ordered, summed
    <2> QED
      BY <1>2, <2>1, SumsRead
  <1>6. CASE EditLedger(t)
    <2>1. /\ ledger' = [ledger EXCEPT ![s][Principal] = job[t].snap]
          /\ stock' = stock /\ formed' = formed /\ Finish(t) /\ s \in formed
      BY <1>3, <1>6 DEF EditLedger
    <2>2. \A r \in Skus \ formed : ledger'[r] = ledger[r]
      BY <1>1, <2>1
    <2> QED
      BY <2>1, <2>2, SumsEnd
  <1> QED
    BY <1>4, <1>5, <1>6

(* The reads of a handler that starts are of the stock it will find. *)
LEMMA StartKeepsSums ==
    ASSUME OneTerminal, SumsInv, LedgerInv', NEW t \in Terminals
    PROVE  /\ \A c, l : SaleCheck(t, c, l) => SumsInv'
           /\ \A i : CancelCheck(t, i) \/ CountApply(t, i) => SumsInv'
           /\ \A s, d : AdjustCheck(t, s, d) \/ EditCheck(t, s, d) => SumsInv'
           /\ \A s \in Skus, q \in Units : EntryCheck(t, s, q) => SumsInv'
           /\ \A s, q, from, to : TransferCheck(t, s, q, from, to) => SumsInv'
  <1>1. ASSUME NEW j, Start(t, j),
               j.op \in {"transfer", "entry"} => j.snap = stock[j.sku],
               j.op = "entry" => j.qty >= 0,
               j.op \notin {"editOthers", "editLedger"}
        PROVE  SumsInv'
    BY <1>1, SumsRead DEF Start, db
  <1>2. ASSUME NEW c, NEW l, SaleCheck(t, c, l) PROVE SumsInv'
    <2> DEFINE j == [Idle EXCEPT !.op = "sale", !.cart = c, !.from = l]
    <2>1. Start(t, j)
      BY <1>2 DEF SaleCheck
    <2>2. j.op = "sale"
      BY DEF Idle
    <2> HIDE DEF j
    <2> QED
      BY <1>1, <2>1, <2>2
  <1>3. ASSUME NEW i, CancelCheck(t, i) \/ CountApply(t, i) PROVE SumsInv'
    <2> DEFINE j(op) == [Idle EXCEPT !.op = op, !.id = i]
    <2>1. PICK op \in {"cancel", "countRead", "countMark"} : Start(t, j(op))
      BY <1>3 DEF CancelCheck, CountApply, NextOfCount
    <2>2. j(op).op = op
      BY DEF Idle
    <2> HIDE DEF j
    <2> QED
      BY <1>1, <2>1, <2>2
  <1>4. ASSUME NEW s, NEW d, AdjustCheck(t, s, d) \/ EditCheck(t, s, d)
        PROVE  SumsInv'
    <2> DEFINE j(op) == [Idle EXCEPT !.op = op, !.sku = s, !.qty = d, !.snap = stock[s]]
    <2>1. PICK op \in {"adjust", "edit"} : Start(t, j(op))
      BY <1>4 DEF AdjustCheck, EditCheck
    <2>2. j(op).op = op
      BY DEF Idle
    <2> HIDE DEF j
    <2> QED
      BY <1>1, <2>1, <2>2
  <1>5. ASSUME NEW s \in Skus, NEW q \in Units, EntryCheck(t, s, q) PROVE SumsInv'
    <2> DEFINE j == [Idle EXCEPT !.op = "entry", !.sku = s, !.qty = q, !.snap = stock[s]]
    <2>1. Start(t, j)
      BY <1>5 DEF EntryCheck
    <2>2. j.op = "entry" /\ j.sku = s /\ j.qty = q /\ j.snap = stock[s] /\ q >= 0
      BY StockAssumption DEF Idle, Units
    <2> HIDE DEF j
    <2> QED
      BY <1>1, <2>1, <2>2
  <1>6. ASSUME NEW s, NEW q, NEW from, NEW to, TransferCheck(t, s, q, from, to)
        PROVE  SumsInv'
    <2> DEFINE j == [Idle EXCEPT !.op = "transfer", !.sku = s, !.qty = q,
                                 !.snap = stock[s], !.from = from, !.to = to]
    <2>1. Start(t, j)
      BY <1>6 DEF TransferCheck
    <2>2. j.op = "transfer" /\ j.sku = s /\ j.snap = stock[s]
      BY DEF Idle
    <2> HIDE DEF j
    <2> QED
      BY <1>1, <2>1, <2>2
  <1> QED
    BY <1>2, <1>3, <1>4, <1>5, <1>6

(* The rest: reservations, counts and handlers that stop half-way. *)
LEMMA RestKeepsSums ==
    ASSUME OneTerminal, SumsInv, LedgerInv', NEW t \in Terminals,
           \/ Reserving(t) \/ CountRead(t) \/ CountMark(t) \/ Abandon(t)
           \/ \E s \in Skus, q \in 0..MaxStock : CountStart(t, s, q)
    PROVE  SumsInv'
  <1>1. CASE Reserving(t) \/ \E s \in Skus, q \in 0..MaxStock : CountStart(t, s, q)
    <2>1. UNCHANGED <<stock, ledger, formed, job>>
      BY <1>1 DEF Reserving, Reserve, Release, CountStart
    <2> QED
      BY <2>1 DEF SumsInv, UnformedIsLedgerSum, ReadsStand
  <1>2. CASE CountRead(t)
    <2> DEFINE i == job[t].id
               j == [Idle EXCEPT !.op = "adjust", !.sku = counts[i].sku,
                                 !.qty = counts[i].diff,
                                 !.snap = stock[counts[i].sku], !.id = i]
    <2>1. job' = [job EXCEPT ![t] = j] /\ UNCHANGED <<stock, ledger, formed>>
      BY <1>2 DEF CountRead, db
    <2>2. j.op = "adjust"
      BY DEF Idle
    <2> HIDE DEF j
    <2> QED
      BY <2>1, <2>2, SumsRead
  <1>3. CASE CountMark(t) \/ Abandon(t)
    <2>1. Finish(t) /\ UNCHANGED <<stock, ledger, formed>>
      BY <1>3 DEF CountMark, Abandon, db
    <2> QED
      BY <2>1, SumsEnd
  <1> QED
    BY <1>1, <1>2, <1>3

(* schema.sql's "el agregado (suma)" for one terminal: adjustments, waste,
   transfers, purchases, counts, sales and cancellations, run to their end or
   cut off between two statements, keep products.stock the sum of its ledger
   rows, for every product the form has not written over. *)
THEOREM SumsHold ==
    ASSUME OneTerminal PROVE Spec => []UnformedIsLedgerSum
  <1>1. Init => SumsInv
    <2>1. Init => UnformedIsLedgerSum
      BY DEF Init, UnformedIsLedgerSum
    <2>2. Init => \A t \in Terminals : ReadsStand(t)
      BY DEF Init, ReadsStand, Idle
    <2> QED
      BY <2>1, <2>2, InitInv DEF SumsInv
  <1>2. SumsInv /\ [Next]_vars => SumsInv'
    <2> SUFFICES ASSUME SumsInv, [Next]_vars PROVE SumsInv'
      OBVIOUS
    <2>1. LedgerInv'
      BY NextInv DEF SumsInv
    <2>2. CASE UNCHANGED vars
      BY <2>1, <2>2 DEF vars, db, SumsInv, UnformedIsLedgerSum, ReadsStand
    <2>3. ASSUME NEW t \in Terminals,
                 \/ Selling(t) \/ Reserving(t) \/ Counting(t)
                 \/ Adjusting(t) \/ Moving(t) \/ Editing(t) \/ Abandon(t)
          PROVE  SumsInv'
      <3>1. CASE Selling(t)
        BY <2>1, <3>1, StartKeepsSums, SalesKeepSums DEF Selling
      <3>2. CASE Counting(t)
        BY <2>1, <3>2, StartKeepsSums, RestKeepsSums DEF Counting
      <3>3. CASE Adjusting(t)
        BY <2>1, <3>3, StartKeepsSums, AdjustKeepsSums DEF Adjusting
      <3>4. CASE Moving(t)
        <4>1. ASSUME NEW s \in Skus, NEW q \in Units, EntryCheck(t, s, q)
              PROVE  SumsInv'
          BY <2>1, <4>1, StartKeepsSums
        <4>2. ASSUME NEW s \in Skus, NEW q \in Units,
                     NEW from \in Locations, NEW to \in Locations,
                     TransferCheck(t, s, q, from, to)
              PROVE  SumsInv'
          BY <2>1, <4>2, StartKeepsSums
        <4> QED
          BY <2>1, <3>4, <4>1, <4>2, MovingKeepsSums DEF Moving
      <3>5. CASE Editing(t)
        BY <2>1, <3>5, StartKeepsSums, EditKeepsSums DEF Editing
      <3> QED
        BY <2>1, <2>3, <3>1, <3>2, <3>3, <3>4, <3>5, RestKeepsSums
    <2> QED
      BY <2>2, <2>3 DEF Next
  <1>3. SumsInv => UnformedIsLedgerSum
    BY DEF SumsInv
  <1> QED
    BY <1>1, <1>2, <1>3, PTL DEF Spec
=============================================================================
