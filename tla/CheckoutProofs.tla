---------------------------- MODULE CheckoutProofs ----------------------------
(***************************************************************************)
(* A unit with a serial number follows its sale, for any number of cajas,  *)
(* products, units and sales.                                              *)
(*                                                                         *)
(* UnitFollowsSale is inductive once two facts are added: the shape of     *)
(* carts, units and sales, and that a number nobody registered is a blank  *)
(* row, so that registering it cannot free a unit that was sold.           *)
(*                                                                         *)
(* The uses of a promotion come second: what they count is inductive on    *)
(* its own, their limit needs that whoever pays with a code alone still    *)
(* finds a use left.                                                       *)
(***************************************************************************)
EXTENDS Promotions, TLAPS, FiniteSetTheorems

UnknownAreBlank == \A s \in Serials : ~units[s].known => units[s] = NoUnit

CInv == TypeOK /\ UnknownAreBlank /\ UnitFollowsSale

-----------------------------------------------------------------------------
LEMMA Replaced ==
  ASSUME NEW S, NEW q \in Seq(S), NEW k \in DOMAIN q, NEW e \in S
  PROVE  /\ [q EXCEPT ![k] = e] \in Seq(S)
         /\ DOMAIN [q EXCEPT ![k] = e] = DOMAIN q
         /\ [q EXCEPT ![k] = e][k] = e
         /\ \A i \in DOMAIN q \ {k} : [q EXCEPT ![k] = e][i] = q[i]
  OBVIOUS

LEMMA NoUnitType == NoUnit \in Unit /\ NoUnit.status = "in_stock" /\ ~NoUnit.known
  BY CheckoutAssumption DEF CheckoutAssumption, NoUnit, Unit, UnitStatus

LEMMA EmptyCartType == EmptyCart \in Cart
  BY DEF EmptyCart, Cart

LEMMA RemoveAtType ==
  ASSUME NEW lines \in Seq(Line), NEW i \in DOMAIN lines
  PROVE  RemoveAt(lines, i) \in Seq(Line)
  BY DEF RemoveAt

(* Filling, paying without success and dying touch carts alone. *)
LEMMA CartOnly ==
  ASSUME CInv, cart' \in [Terminals -> Cart],
         UNCHANGED <<units, sales, handled>>
  PROVE  CInv'
  BY DEF CInv, TypeOK, UnknownAreBlank, UnitFollowsSale, Holds, SerialsIn

LEMMA SetLinesType ==
  ASSUME TypeOK, NEW t \in Terminals, NEW lines \in Seq(Line), SetLines(t, lines)
  PROVE  cart' \in [Terminals -> Cart] /\ UNCHANGED <<units, sales, handled>>
  BY DEF TypeOK, SetLines, Cart

LEMMA FillingKeeps ==
  ASSUME CInv, NEW t \in Terminals, Filling(t)
  PROVE  CInv'
<1> DEFINE lines == LinesOf(t)
<1>1. TypeOK /\ lines \in Seq(Line)
  BY DEF CInv, TypeOK, LinesOf, Cart
<1>2. SUFFICES cart' \in [Terminals -> Cart] /\ UNCHANGED <<units, sales, handled>>
  BY CartOnly
<1>3. ASSUME NEW p \in Products, AddToCart(t, p)
      PROVE  cart' \in [Terminals -> Cart] /\ UNCHANGED <<units, sales, handled>>
  <2> DEFINE new == [product |-> p, qty |-> 1, serial |-> None]
  <2>1. new \in Line
    BY DEF Line
  <2>2. CASE SetLines(t, Append(lines, new))
    <3>1. Append(lines, new) \in Seq(Line)
      BY <1>1, <2>1
    <3> QED  BY <1>1, <2>2, <3>1, SetLinesType
  <2>3. ASSUME NEW i \in Of(lines, p), SetLines(t, [lines EXCEPT ![i].qty = @ + 1])
        PROVE  cart' \in [Terminals -> Cart] /\ UNCHANGED <<units, sales, handled>>
    <3>1. i \in DOMAIN lines /\ lines[i] \in Line
      BY <1>1 DEF Of
    <3>3. [lines[i] EXCEPT !.qty = @ + 1] \in Line
      BY <3>1 DEF Line
    <3>2. [lines EXCEPT ![i].qty = @ + 1] \in Seq(Line)
      BY <1>1, <3>1, <3>3, Replaced
    <3> QED  BY <1>1, <2>3, <3>2, SetLinesType
  <2> QED  BY <1>3, <2>2, <2>3 DEF AddToCart
<1>4. ASSUME NEW i \in DOMAIN LinesOf(t), NEW q \in Quantities, SetQty(t, i, q)
      PROVE  cart' \in [Terminals -> Cart] /\ UNCHANGED <<units, sales, handled>>
  <2>1. q \in Nat /\ lines[i] \in Line
    BY <1>1, CheckoutAssumption DEF CheckoutAssumption
  <2>3. [lines[i] EXCEPT !.qty = q] \in Line
    BY <2>1 DEF Line
  <2>2. [lines EXCEPT ![i].qty = q] \in Seq(Line)
    BY <1>1, <2>1, <2>3, Replaced
  <2> QED  BY <1>1, <1>4, <2>2, SetLinesType DEF SetQty
<1>5. ASSUME NEW i \in DOMAIN LinesOf(t), RemoveLine(t, i)
      PROVE  cart' \in [Terminals -> Cart] /\ UNCHANGED <<units, sales, handled>>
  BY <1>1, <1>5, RemoveAtType, SetLinesType DEF RemoveLine
<1>6. ASSUME NEW i \in DOMAIN LinesOf(t), NEW s \in Serials, SetLineSerial(t, i, s)
      PROVE  cart' \in [Terminals -> Cart] /\ UNCHANGED <<units, sales, handled>>
  <2>1. lines[i] \in Line
    BY <1>1
  <2>3. [lines[i] EXCEPT !.serial = s] \in Line
    BY <2>1 DEF Line
  <2>2. [lines EXCEPT ![i].serial = s] \in Seq(Line)
    BY <1>1, <2>1, <2>3, Replaced
  <2> QED  BY <1>1, <1>6, <2>2, SetLinesType DEF SetLineSerial
<1>7. CASE ClearCart(t)
  BY <1>1, <1>7, EmptyCartType DEF ClearCart, TypeOK
<1>8. ASSUME NEW c \in Codes \cup {None}, ApplyPromo(t, c)
      PROVE  cart' \in [Terminals -> Cart] /\ UNCHANGED <<units, sales, handled>>
  BY <1>1, <1>8 DEF ApplyPromo, TypeOK, Cart
<1> QED  BY <1>3, <1>4, <1>5, <1>6, <1>7, <1>8 DEF Filling

(* The commit sells free units only, and no standing sale holds a free unit. *)
LEMMA CommitKeeps ==
  ASSUME CInv, NEW t \in Terminals, CheckoutCommit(t)
  PROVE  CInv'
<1> DEFINE lines == LinesOf(t)
           sale == [lines |-> lines, code |-> cart[t].code, live |-> TRUE]
<1>1. TypeOK /\ UnknownAreBlank /\ UnitFollowsSale
  BY DEF CInv
<1>2. cart[t] \in Cart /\ lines \in Seq(Line) /\ sale \in Sale
  BY <1>1 DEF TypeOK, LinesOf, Cart, Sale
<1>d. PICK n \in Nat : n = Len(sales) + 1
  BY <1>1 DEF TypeOK
<1>a. sale.lines = lines /\ sale.live
  OBVIOUS
<1>3. /\ sales' = Append(sales, sale)
      /\ cart' = [cart EXCEPT ![t] = EmptyCart]
      /\ handled' = handled
      /\ units' = [s \in Serials |->
                      IF s \in SerialsIn(lines)
                      THEN [units[s] EXCEPT !.status = "sold", !.sale = n]
                      ELSE units[s]]
      /\ \A s \in SerialsIn(lines) : units[s].known /\ units[s].status = "in_stock"
  BY <1>d DEF CheckoutCommit, Free
<1> HIDE DEF sale, lines
<1>b. /\ sales' \in Seq(Sale)
      /\ DOMAIN sales' = DOMAIN sales \cup {n} /\ n \notin DOMAIN sales
      /\ sales'[n] = sale /\ \A i \in DOMAIN sales : sales'[i] = sales[i]
  <2>1. sales \in Seq(Sale) /\ sale \in Sale /\ sales' = Append(sales, sale)
    BY <1>1, <1>2, <1>3 DEF TypeOK
  <2>2. /\ Append(sales, sale) \in Seq(Sale)
        /\ DOMAIN Append(sales, sale) = DOMAIN sales \cup {Len(sales) + 1}
        /\ Len(sales) + 1 \notin DOMAIN sales
        /\ Append(sales, sale)[Len(sales) + 1] = sale
        /\ \A i \in DOMAIN sales : Append(sales, sale)[i] = sales[i]
    BY <2>1
  <2> QED  BY <1>d, <2>1, <2>2
<1>4. TypeOK'
  <2>1. units' \in [Serials -> Unit]
    BY <1>1, <1>2, <1>3 DEF TypeOK, Unit, UnitStatus
  <2> QED  BY <1>1, <1>3, <1>b, <2>1, EmptyCartType DEF TypeOK
<1>5. UnknownAreBlank'
  BY <1>1, <1>3 DEF UnknownAreBlank, TypeOK, Unit
<1>6. /\ DOMAIN sales' = DOMAIN sales \cup {n} /\ n \notin DOMAIN sales
      /\ sales'[n] = sale /\ \A i \in DOMAIN sales : sales'[i] = sales[i]
  BY <1>b
<1>7. ASSUME NEW s \in Serials \ handled
      PROVE  /\ \A i \in DOMAIN sales' :
                   Holds(i, s)' => units'[s].status = "sold" /\ units'[s].sale = i
             /\ units'[s].status = "sold" =>
                   (units[s].sale \in DOMAIN sales /\ Holds(units[s].sale, s))'
  <2>1. Holds(n, s)' <=> s \in SerialsIn(lines)
    BY <1>6, <1>a DEF Holds, SerialsIn
  <2>2. \A i \in DOMAIN sales : Holds(i, s)' <=> Holds(i, s)
    BY <1>6 DEF Holds, SerialsIn
  <2>3. CASE s \in SerialsIn(lines)
    <3>1. units'[s].status = "sold" /\ units'[s].sale = n
      BY <1>1, <1>3, <2>3 DEF TypeOK, Unit
    <3>2. \A i \in DOMAIN sales : ~Holds(i, s)
      BY <1>1, <1>3, <2>3 DEF UnitFollowsSale
    <3>3. \A i \in DOMAIN sales' : Holds(i, s)' => i = n
      BY <1>6, <2>2, <3>2
    <3> QED  BY <1>6, <2>1, <2>3, <3>1, <3>3
  <2>4. CASE s \notin SerialsIn(lines)
    <3>1. units'[s] = units[s]
      BY <1>3, <2>4
    <3>2. \A i \in DOMAIN sales' : Holds(i, s)' => i \in DOMAIN sales /\ Holds(i, s)
      BY <1>6, <2>1, <2>2, <2>4
    <3>3. \A i \in DOMAIN sales : Holds(i, s) =>
             i \in DOMAIN sales' /\ Holds(i, s)'
      BY <1>6, <2>2
    <3>4. /\ \A i \in DOMAIN sales :
                Holds(i, s) => units[s].status = "sold" /\ units[s].sale = i
          /\ units[s].status = "sold" =>
                units[s].sale \in DOMAIN sales /\ Holds(units[s].sale, s)
      BY <1>1 DEF UnitFollowsSale
    <3> QED  BY <3>1, <3>2, <3>3, <3>4
  <2> QED  BY <2>3, <2>4
<1>8. UnitFollowsSale'
  <2>1. handled' = handled
    BY <1>3
  <2> QED  BY <1>7, <2>1 DEF UnitFollowsSale
<1> QED  BY <1>4, <1>5, <1>8 DEF CInv

(* The cancellation frees exactly the untouched units its sale held. *)
LEMMA CancelKeeps ==
  ASSUME CInv, NEW i \in DOMAIN sales, Cancel(i)
  PROVE  CInv'
<1>1. TypeOK /\ UnknownAreBlank /\ UnitFollowsSale
  BY DEF CInv
<1>2. /\ sales' = [sales EXCEPT ![i].live = FALSE]
      /\ UNCHANGED <<cart, handled>>
      /\ units' = [s \in Serials |->
                      IF Reverts(i, s)
                      THEN [units[s] EXCEPT !.status = "in_stock", !.sale = 0]
                      ELSE units[s]]
  BY DEF Cancel
<1>a. sales \in Seq(Sale) /\ sales[i] \in Sale
  BY <1>1 DEF TypeOK
<1> DEFINE gone == [sales[i] EXCEPT !.live = FALSE]
<1>c. gone \in Sale /\ ~gone.live /\ sales' = [sales EXCEPT ![i] = gone]
  BY <1>a, <1>2 DEF Sale
<1> HIDE DEF gone
<1>b. /\ sales' \in Seq(Sale)
      /\ DOMAIN sales' = DOMAIN sales
      /\ sales'[i] = gone
      /\ \A k \in DOMAIN sales : k # i => sales'[k] = sales[k]
  BY <1>a, <1>c, Replaced
<1>3. TypeOK'
  <2>1. units' \in [Serials -> Unit]
    BY <1>1, <1>2 DEF TypeOK, Unit, UnitStatus
  <2> QED  BY <1>1, <1>2, <1>b, <2>1 DEF TypeOK
<1>4. UnknownAreBlank'
  BY <1>1, <1>2, NoUnitType DEF UnknownAreBlank, TypeOK, Unit, Reverts
<1>5. /\ DOMAIN sales' = DOMAIN sales
      /\ ~sales'[i].live
      /\ \A k \in DOMAIN sales : k # i => sales'[k] = sales[k]
  BY <1>b, <1>c
<1>6. ASSUME NEW s \in Serials \ handled
      PROVE  /\ \A k \in DOMAIN sales' :
                   Holds(k, s)' => units'[s].status = "sold" /\ units'[s].sale = k
             /\ units'[s].status = "sold" =>
                   (units[s].sale \in DOMAIN sales /\ Holds(units[s].sale, s))'
  <2>1. ~Holds(i, s)' /\ \A k \in DOMAIN sales : k # i => (Holds(k, s)' <=> Holds(k, s))
    BY <1>5 DEF Holds, SerialsIn
  <2>2. CASE Reverts(i, s)
    <3>1. units'[s].status = "in_stock"
      BY <1>1, <1>2, <2>2 DEF TypeOK, Unit
    <3>2. \A k \in DOMAIN sales : k # i => ~Holds(k, s)
      BY <1>1, <2>2 DEF UnitFollowsSale, Reverts
    <3> QED  BY <1>5, <2>1, <3>1, <3>2
  <2>3. CASE ~Reverts(i, s)
    <3>1. units'[s] = units[s]
      BY <1>2, <2>3
    <3>2. units[s].status = "sold" => units[s].sale # i
      BY <2>3 DEF Reverts
    <3>3. /\ \A k \in DOMAIN sales :
                Holds(k, s) => units[s].status = "sold" /\ units[s].sale = k
          /\ units[s].status = "sold" =>
                units[s].sale \in DOMAIN sales /\ Holds(units[s].sale, s)
      BY <1>1 DEF UnitFollowsSale
    <3> QED  BY <1>5, <2>1, <3>1, <3>2, <3>3
  <2> QED  BY <2>2, <2>3
<1>7. UnitFollowsSale'
  <2>1. handled' = handled
    BY <1>2
  <2> QED  BY <1>6, <2>1 DEF UnitFollowsSale
<1> QED  BY <1>3, <1>4, <1>7 DEF CInv

LEMMA OfficeKeeps ==
  ASSUME CInv, Office
  PROVE  CInv'
<1>1. TypeOK /\ UnknownAreBlank /\ UnitFollowsSale
  BY DEF CInv
<1>2. ASSUME NEW s \in Serials, NEW p \in Products, AddSerial(s, p)
      PROVE  CInv'
  <2> DEFINE new == [NoUnit EXCEPT !.known = TRUE, !.product = p]
  <2>1. /\ units' = [units EXCEPT ![s] = new]
        /\ UNCHANGED <<sales, cart, handled>>
        /\ units[s] = NoUnit
    BY <1>1, <1>2 DEF AddSerial, UnknownAreBlank
  <2>2. new \in Unit /\ new.known /\ new.status = "in_stock"
    BY NoUnitType DEF Unit
  <2>3. TypeOK'
    BY <1>1, <2>1, <2>2 DEF TypeOK
  <2>4. UnknownAreBlank'
    BY <1>1, <2>1, <2>2 DEF UnknownAreBlank, TypeOK
  <2>5. \A u \in Serials : units'[u].status = units[u].status
                           /\ (u # s => units'[u] = units[u])
    BY <1>1, <2>1, <2>2, NoUnitType DEF TypeOK
  <2>6. UnitFollowsSale'
    BY <1>1, <2>1, <2>5, NoUnitType DEF UnitFollowsSale, Holds, SerialsIn
  <2> QED  BY <2>3, <2>4, <2>6 DEF CInv
<1>3. ASSUME NEW s \in Serials, NEW status \in Statuses, SetStatus(s, status)
      PROVE  CInv'
  <2>1. /\ units' = [units EXCEPT ![s].status = status]
        /\ handled' = handled \cup {s}
        /\ UNCHANGED <<sales, cart>>
        /\ units[s].known /\ status \in UnitStatus
    BY <1>3, CheckoutAssumption DEF SetStatus, CheckoutAssumption
  <2>2. TypeOK'
    BY <1>1, <2>1 DEF TypeOK, Unit
  <2>3. \A u \in Serials : /\ units'[u].known = units[u].known
                           /\ u # s => units'[u] = units[u]
    BY <1>1, <2>1 DEF TypeOK, Unit
  <2>4. UnknownAreBlank'
    BY <1>1, <2>1, <2>3 DEF UnknownAreBlank
  <2>5. UnitFollowsSale'
    BY <1>1, <2>1, <2>3 DEF UnitFollowsSale, Holds, SerialsIn
  <2> QED  BY <2>2, <2>4, <2>5 DEF CInv
<1>4. ASSUME UNCHANGED <<units, sales, cart, handled>>
      PROVE  CInv'
  BY <1>1, <1>4, CartOnly DEF TypeOK
<1> QED
  BY <1>2, <1>3, <1>4, CancelKeeps DEF Office, AddPromo, SetActive, RemovePromo

LEMMA CInvInductive == CInv /\ [Next]_vars => CInv'
<1> SUFFICES ASSUME CInv, [Next]_vars PROVE CInv'
  OBVIOUS
<1>1. TypeOK
  BY DEF CInv
<1>2. ASSUME NEW t \in Terminals, CheckoutStart(t) \/ CheckoutRefused(t) \/ Crash(t)
      PROVE  CInv'
  <2>1. cart' \in [Terminals -> Cart] /\ UNCHANGED <<units, sales, handled>>
    BY <1>1, <1>2, EmptyCartType
       DEF TypeOK, Cart, CheckoutStart, CheckoutRefused, Crash
  <2> QED  BY <2>1, CartOnly
<1>3. CASE UNCHANGED vars
  BY <1>1, <1>3, CartOnly DEF vars, TypeOK
<1> QED
  BY <1>2, <1>3, OfficeKeeps, FillingKeeps, CommitKeeps DEF Next, Paying

LEMMA CInvInit == Init => CInv
<1> SUFFICES ASSUME Init PROVE CInv
  OBVIOUS
<1>1. TypeOK
  BY NoUnitType, EmptyCartType DEF Init, TypeOK
<1>2. UnknownAreBlank
  BY DEF Init, UnknownAreBlank
<1>3. UnitFollowsSale
  BY NoUnitType DEF Init, UnitFollowsSale
<1> QED  BY <1>1, <1>2, <1>3 DEF CInv

(* The units of every reachable state are well formed, and a number nobody
   registered is a blank row. *)
THEOREM UnitsInvariant == Spec => []CInv
  BY CInvInit, CInvInductive, PTL DEF Spec

(* However the cajas interleave, a unit nobody set by hand is sold exactly
   while one standing sale holds it: it is never sold twice. *)
THEOREM UnitOnOneSale == Spec => []UnitFollowsSale
<1>1. CInv => UnitFollowsSale
  BY DEF CInv
<1> QED  BY UnitsInvariant, <1>1, PTL

-----------------------------------------------------------------------------
(* The uses of a promotion *)

(* The sales since a promotion was made are finitely many. *)
LEMMA SinceFinite ==
  ASSUME TypeOK, NEW c \in Codes
  PROVE  IsFiniteSet(Since(c)) /\ Since(c) \subseteq DOMAIN sales
<1>1. Len(sales) \in Nat /\ DOMAIN sales = 1..Len(sales)
  BY DEF TypeOK
<1>2. IsFiniteSet(1..Len(sales))
  <2>1. 1 \in Int /\ Len(sales) \in Int
    BY <1>1
  <2> QED  BY <2>1, FS_Interval
<1>3. Since(c) \subseteq 1..Len(sales)
  BY <1>1 DEF Since
<1> QED  BY <1>1, <1>2, <1>3, FS_Subset

(* A code's uses are left where nobody starts to pay with it. *)
LEMMA PayersLeave ==
  ASSUME NEW c \in Codes, UseLeft(c), promos'[c] = promos[c],
         \A t \in Terminals : PayingWith(t, c)' => PayingWith(t, c)
  PROVE  UseLeft(c)'
  BY DEF UseLeft

(* What writes no promotion, makes no sale and starts no payment. *)
LEMMA NothingPaid ==
  ASSUME TypeOK, PromosInv, promos' = promos, DOMAIN sales' = DOMAIN sales, Len(sales') = Len(sales),
         \A i \in DOMAIN sales : sales'[i].code = sales[i].code,
         overlapped \subseteq overlapped',
         \A t \in Terminals, c \in Codes : PayingWith(t, c)' => PayingWith(t, c)
  PROVE  PromosInv'
<1>1. \A c \in Codes : Since(c)' = Since(c)
  BY DEF Since
<1>2. RowsCount'
  BY <1>1 DEF PromosInv, RowsCount
<1>3. ASSUME NEW c \in Codes \ overlapped' PROVE UseLeft(c)'
  BY PayersLeave DEF PromosInv
<1> QED  BY <1>2, <1>3 DEF PromosInv

(* Filling a cart: it is not being paid, before or after. *)
LEMMA FillingPaysNothing ==
  ASSUME TypeOK, NEW t \in Terminals, Filling(t)
  PROVE  /\ UNCHANGED <<promos, sales>>
         /\ \A u \in Terminals, c \in Codes : PayingWith(u, c)' => PayingWith(u, c)
<1>1. /\ ~cart[t].paying /\ UNCHANGED <<promos, sales>>
      /\ \/ \E lines : cart' = [cart EXCEPT ![t].lines = lines]
         \/ cart' = [cart EXCEPT ![t] = EmptyCart]
         \/ \E c \in Codes \cup {None} : cart' = [cart EXCEPT ![t].code = c]
  <2>1. CASE \E lines : SetLines(t, lines)
    BY <2>1 DEF SetLines
  <2>2. CASE ClearCart(t)
    BY <2>2 DEF ClearCart
  <2>3. CASE \E c \in Codes \cup {None} : ApplyPromo(t, c)
    BY <2>3 DEF ApplyPromo
  <2>4. CASE \E p \in Products : AddToCart(t, p)
    BY <2>1, <2>4 DEF AddToCart
  <2>5. CASE \E i \in DOMAIN LinesOf(t) :
                \/ \E q \in Quantities : SetQty(t, i, q)
                \/ RemoveLine(t, i)
                \/ \E s \in Serials : SetLineSerial(t, i, s)
    BY <2>1, <2>5 DEF SetQty, RemoveLine, SetLineSerial
  <2> QED  BY <2>2, <2>3, <2>4, <2>5 DEF Filling
<1>2. cart \in [Terminals -> Cart] /\ cart[t] \in Cart
  BY DEF TypeOK
<1>3. ~cart'[t].paying
  <2>1. CASE \E lines : cart' = [cart EXCEPT ![t].lines = lines]
    <3>1. PICK lines : cart' = [cart EXCEPT ![t].lines = lines]
      BY <2>1
    <3>2. cart'[t] = [cart[t] EXCEPT !.lines = lines]
      BY <1>2, <3>1
    <3> QED  BY <1>1, <1>2, <3>2 DEF Cart
  <2>2. CASE cart' = [cart EXCEPT ![t] = EmptyCart]
    BY <1>2, <2>2 DEF EmptyCart
  <2>3. CASE \E c \in Codes \cup {None} : cart' = [cart EXCEPT ![t].code = c]
    <3>1. PICK c \in Codes \cup {None} : cart' = [cart EXCEPT ![t].code = c]
      BY <2>3
    <3>2. cart'[t] = [cart[t] EXCEPT !.code = c]
      BY <1>2, <3>1
    <3> QED  BY <1>1, <1>2, <3>2 DEF Cart
  <2> QED  BY <1>1, <2>1, <2>2, <2>3
<1>4. \A u \in Terminals \ {t} : cart'[u] = cart[u]
  BY <1>1, <1>2
<1> QED  BY <1>1, <1>3, <1>4 DEF PayingWith

(* A caja that starts to pay found a use left, and is noted when another one is
   paying with the code. *)
LEMMA StartCounts ==
  ASSUME TypeOK, PromosInv, NEW t \in Terminals, CheckoutStart(t),
         overlapped' = overlapped \cup {c \in Codes : Overlapped(c)}
  PROVE  PromosInv'
<1>1. /\ cart' = [cart EXCEPT ![t].paying = TRUE] /\ UNCHANGED <<promos, sales>>
      /\ cart[t].code # None => Applicable(cart[t].code)
  BY DEF CheckoutStart
<1>2. cart \in [Terminals -> Cart] /\ cart[t] \in Cart
  BY DEF TypeOK
<1>3. cart'[t].code = cart[t].code /\ \A u \in Terminals \ {t} : cart'[u] = cart[u]
  BY <1>1, <1>2 DEF Cart
<1>4. ASSUME NEW c \in Codes \ overlapped' PROVE UseLeft(c)'
  <2>1. c \in Codes /\ UseLeft(c) /\ promos'[c] = promos[c]
        /\ \A u, v \in Terminals : PayingWith(u, c)' /\ PayingWith(v, c)' => u = v
    BY <1>1 DEF PromosInv, Overlapped
  <2>2. ASSUME NEW u \in Terminals, PayingWith(u, c)', promos[c].max > 0
        PROVE  promos[c].uses < promos[c].max
    <3>1. CASE u = t
      <4>1. c = cart[t].code /\ c # None
        BY <1>3, <2>2, <3>1, CheckoutAssumption DEF PayingWith
      <4> QED  BY <1>1, <2>2, <4>1 DEF Applicable
    <3>2. CASE u # t
      BY <1>3, <2>1, <2>2, <3>2 DEF PayingWith, UseLeft
    <3> QED  BY <3>1, <3>2
  <2> QED  BY <2>1, <2>2 DEF UseLeft
<1>5. RowsCount'
  <2>1. \A c \in Codes : Since(c)' = Since(c)
    BY <1>1 DEF Since
  <2> QED  BY <1>1, <2>1 DEF PromosInv, RowsCount
<1> QED  BY <1>1, <1>4, <1>5 DEF PromosInv

(* The commit counts the use its sale is, if the promotion is still there. *)
LEMMA CommitCounts ==
  ASSUME TypeOK, PromosInv, NEW t \in Terminals, CheckoutCommit(t),
         overlapped \subseteq overlapped'
  PROVE  PromosInv'
<1> DEFINE code == cart[t].code
<1>1. cart \in [Terminals -> Cart] /\ cart[t] \in Cart /\ sales \in Seq(Sale)
      /\ promos \in [Codes -> Promo] /\ None \notin Codes
  BY CheckoutAssumption DEF TypeOK, PromosInv
<1>2. PICK sale : sale \in Sale /\ sale.code = code /\ sales' = Append(sales, sale)
  <2>1. [lines |-> LinesOf(t), code |-> code, live |-> TRUE] \in Sale
    BY <1>1 DEF LinesOf, Cart, Sale
  <2> QED  BY <2>1 DEF CheckoutCommit
<1>3. PICK n \in Nat : n = Len(sales)
  BY <1>1
<1>4. /\ Len(sales') = n + 1 /\ DOMAIN sales' = 1..(n + 1) /\ DOMAIN sales = 1..n
      /\ sales'[n + 1].code = code /\ \A i \in 1..n : sales'[i] = sales[i]
  BY <1>1, <1>2, <1>3
<1>5. /\ cart[t].paying /\ cart' = [cart EXCEPT ![t] = EmptyCart]
      /\ promos' = IF code # None /\ promos[code].exists
                   THEN [promos EXCEPT ![code] = [promos[code] EXCEPT !.uses = @ + 1]]
                   ELSE promos
  BY DEF CheckoutCommit, Counted
<1>6. code \in Codes \cup {None}
  BY <1>1 DEF Cart
<1> HIDE DEF code
<1>7. promos' \in [Codes -> Promo]
  <2>1. CASE code # None /\ promos[code].exists
    <3>1. [promos[code] EXCEPT !.uses = @ + 1] \in Promo
      <4>1. code \in Codes /\ promos[code] \in Promo
        BY <1>1, <1>6, <2>1
      <4>2. ASSUME NEW row \in Promo PROVE [row EXCEPT !.uses = @ + 1] \in Promo
        BY DEF Promo
      <4> QED  BY <4>1, <4>2
    <3> QED  BY <1>1, <1>5, <1>6, <2>1, <3>1
  <2> QED  BY <1>1, <1>5, <2>1
<1>8. \A c \in Codes : /\ promos'[c].exists = promos[c].exists
                       /\ promos'[c].max = promos[c].max
                       /\ promos'[c].since = promos[c].since
                       /\ promos'[c].uses = IF c = code /\ promos[c].exists
                                            THEN promos[c].uses + 1 ELSE promos[c].uses
  <2>1. CASE code # None /\ promos[code].exists
    <3>1. promos' = [promos EXCEPT ![code] = [promos[code] EXCEPT !.uses = @ + 1]]
      BY <1>5, <2>1
    <3> QED  BY <1>1, <1>6, <2>1, <3>1 DEF Promo
  <2>2. CASE ~(code # None /\ promos[code].exists)
    <3>1. promos' = promos
      BY <1>5, <2>2
    <3> QED  BY <1>1, <2>2, <3>1
  <2> QED  BY <2>1, <2>2
<1>9. ASSUME NEW c \in Codes, promos[c].exists
      PROVE  promos'[c].since <= Len(sales') /\ promos'[c].uses = Cardinality(Since(c)')
  <2>1. /\ promos[c].since \in Nat /\ promos[c].uses \in Nat /\ promos[c].since <= n
        /\ promos[c].uses = Cardinality(Since(c))
    BY <1>1, <1>3, <1>9 DEF PromosInv, RowsCount, Promo
  <2>2. IsFiniteSet(Since(c)) /\ Since(c) \subseteq 1..n
    BY <1>4, SinceFinite
  <2>3. CASE c = code
    <3>1. Since(c)' = Since(c) \cup {n + 1}
      <4>1. ASSUME NEW i PROVE i \in Since(c)' <=> i \in Since(c) \/ i = n + 1
        BY <1>3, <1>4, <1>8, <2>1, <2>3 DEF Since
      <4> QED  BY <4>1
    <3>2. n + 1 \notin Since(c)
      BY <1>3, <2>2
    <3>3. Cardinality(Since(c) \cup {n + 1}) = Cardinality(Since(c)) + 1
      BY <2>2, <3>2, FS_AddElement
    <3> QED  BY <1>3, <1>4, <1>8, <1>9, <2>1, <2>3, <3>1, <3>3
  <2>4. CASE c # code
    <3>1. Since(c)' = Since(c)
      <4>1. ASSUME NEW i PROVE i \in Since(c)' <=> i \in Since(c)
        BY <1>3, <1>4, <1>8, <2>1, <2>4 DEF Since
      <4> QED  BY <4>1
    <3> QED  BY <1>3, <1>4, <1>8, <2>1, <2>4, <3>1
  <2> QED  BY <2>3, <2>4
<1>10. RowsCount'
  <2>1. \A c \in Codes : ~promos[c].exists => promos'[c].max = 0
    BY <1>8 DEF PromosInv, RowsCount
  <2> QED  BY <1>8, <1>9, <2>1 DEF RowsCount
<1>11. ASSUME NEW c \in Codes \ overlapped' PROVE UseLeft(c)'
  <2>1. UseLeft(c) /\ promos[c].uses \in Nat /\ promos[c].max \in Nat
    BY <1>1 DEF PromosInv, Promo
  <2>2. \A u \in Terminals : PayingWith(u, c)' => PayingWith(u, c) /\ u # t
    <3>1. ~cart'[t].paying /\ \A u \in Terminals \ {t} : cart'[u] = cart[u]
      BY <1>1, <1>5 DEF EmptyCart
    <3> QED  BY <3>1 DEF PayingWith
  <2>3. CASE c = code
    <3>1. PayingWith(t, c)
      BY <1>5, <2>3 DEF PayingWith, code
    <3>2. \A u \in Terminals : ~PayingWith(u, c)'
      BY <2>1, <2>2, <3>1 DEF UseLeft
    <3>3. promos[c].max > 0 => promos[c].uses < promos[c].max
      BY <2>1, <3>1 DEF UseLeft
    <3>4. promos'[c].max > 0 => promos'[c].uses <= promos'[c].max
      <4>1. promos'[c].max = promos[c].max
            /\ promos'[c].uses \in {promos[c].uses, promos[c].uses + 1}
        BY <1>8
      <4> QED  BY <2>1, <3>3, <4>1
    <3> QED  BY <3>2, <3>4 DEF UseLeft
  <2>4. CASE c # code
    <3>1. promos'[c].max = promos[c].max /\ promos'[c].uses = promos[c].uses
      BY <1>8, <2>4
    <3> QED  BY <2>1, <2>2, <3>1 DEF UseLeft
  <2> QED  BY <2>3, <2>4
<1> QED  BY <1>7, <1>10, <1>11 DEF PromosInv

(* The screen of promotions writes every column but uses, and a new promotion
   has none of the sales there are. *)
LEMMA ScreenCounts ==
  ASSUME TypeOK, PromosInv, NEW c \in Codes, NEW row \in Promo,
         promos' = [promos EXCEPT ![c] = row], UNCHANGED <<sales, cart>>,
         overlapped \subseteq overlapped',
         \/ row.exists /\ row.uses = 0 /\ row.since = Len(sales)
         \/ promos[c].exists /\ row.exists /\ row.max = promos[c].max
            /\ row.uses = promos[c].uses /\ row.since = promos[c].since
         \/ ~row.exists /\ row.max = 0
  PROVE  PromosInv'
<1>1. promos \in [Codes -> Promo] /\ promos' \in [Codes -> Promo]
      /\ promos'[c] = row /\ row.uses \in Nat /\ row.max \in Nat
      /\ \A d \in Codes \ {c} : promos'[d] = promos[d]
  BY DEF PromosInv, Promo
<1>2. Len(sales) \in Nat /\ DOMAIN sales = 1..Len(sales)
  BY DEF TypeOK
<1>3. \A d \in Codes \ {c} : Since(d)' = Since(d)
  BY <1>1 DEF Since
<1>4. CASE row.exists /\ row.uses = 0 /\ row.since = Len(sales)
  <2>1. Since(c)' = {}
    BY <1>1, <1>2, <1>4 DEF Since
  <2>2. row.since <= Len(sales) /\ row.uses = Cardinality(Since(c)')
    BY <1>2, <1>4, <2>1, FS_EmptySet
  <2>3. RowsCount'
    BY <1>1, <1>3, <1>4, <2>2 DEF PromosInv, RowsCount
  <2>4. ASSUME NEW d \in Codes \ overlapped' PROVE UseLeft(d)'
    <3>1. UseLeft(d) /\ \A u \in Terminals : PayingWith(u, d)' <=> PayingWith(u, d)
      BY DEF PromosInv, PayingWith
    <3>2. CASE d = c
      <4>1. promos'[d].uses = 0 /\ promos'[d].max \in Nat
        BY <1>1, <1>4, <3>2
      <4>2. \A m \in Nat : m > 0 => 0 <= m /\ 0 < m
        OBVIOUS
      <4>3. \A u, v \in Terminals : PayingWith(u, d)' /\ PayingWith(v, d)' => u = v
        BY <3>1 DEF UseLeft
      <4>4. promos'[d].max > 0 => /\ promos'[d].uses <= promos'[d].max
                                 /\ promos'[d].uses < promos'[d].max
        BY <4>1, <4>2
      <4> QED  BY <4>3, <4>4 DEF UseLeft
    <3>3. CASE d # c
      BY <1>1, <3>1, <3>3, PayersLeave
    <3> QED  BY <3>2, <3>3
  <2> QED  BY <1>1, <2>3, <2>4 DEF PromosInv
<1>5. CASE promos[c].exists /\ row.exists /\ row.max = promos[c].max
           /\ row.uses = promos[c].uses /\ row.since = promos[c].since
  <2>1. Since(c)' = Since(c)
    BY <1>1, <1>5 DEF Since
  <2>2. RowsCount'
    BY <1>1, <1>3, <1>5, <2>1 DEF PromosInv, RowsCount
  <2>3. ASSUME NEW d \in Codes \ overlapped' PROVE UseLeft(d)'
    <3>1. UseLeft(d) /\ \A u \in Terminals : PayingWith(u, d)' <=> PayingWith(u, d)
      BY DEF PromosInv, PayingWith
    <3>2. promos'[d].max = promos[d].max /\ promos'[d].uses = promos[d].uses
      BY <1>1, <1>5
    <3> QED  BY <3>1, <3>2 DEF UseLeft
  <2> QED  BY <1>1, <2>2, <2>3 DEF PromosInv
<1>6. CASE ~row.exists /\ row.max = 0
  <2>1. RowsCount'
    BY <1>1, <1>3, <1>6 DEF PromosInv, RowsCount
  <2>2. ASSUME NEW d \in Codes \ overlapped' PROVE UseLeft(d)'
    <3>1. UseLeft(d) /\ \A u \in Terminals : PayingWith(u, d)' <=> PayingWith(u, d)
      BY DEF PromosInv, PayingWith
    <3>2. CASE d = c
      BY <1>1, <1>6, <3>1, <3>2 DEF UseLeft
    <3>3. CASE d # c
      BY <1>1, <3>1, <3>3, PayersLeave
    <3> QED  BY <3>2, <3>3
  <2> QED  BY <1>1, <2>1, <2>2 DEF PromosInv
<1> QED  BY <1>4, <1>5, <1>6

LEMMA PromosStep ==
  ASSUME TypeOK, PromosInv, [PromosNext]_<<vars, overlapped>>
  PROVE  PromosInv'
<1> DEFINE Quiet == \A u \in Terminals, c \in Codes : PayingWith(u, c)' => PayingWith(u, c)
<1>1. promos \in [Codes -> Promo] /\ cart \in [Terminals -> Cart]
      /\ Len(sales) \in Nat /\ sales \in Seq(Sale)
  BY DEF PromosInv, TypeOK
<1>2. CASE UNCHANGED <<vars, overlapped>>
  <2>1. Quiet /\ UNCHANGED <<promos, sales, overlapped>>
    BY <1>2 DEF vars, PayingWith
  <2> QED  BY <2>1, NothingPaid
<1>3. CASE PromosNext
  <2>0. overlapped' = overlapped \cup {c \in Codes : Overlapped(c)}
        /\ overlapped \subseteq overlapped'
    BY <1>3 DEF PromosNext
  <2>1. ASSUME NEW t \in Terminals, Filling(t) PROVE PromosInv'
    <3>1. Quiet /\ UNCHANGED <<promos, sales>>
      BY <2>1, FillingPaysNothing
    <3> QED  BY <2>0, <3>1, NothingPaid
  <2>2. ASSUME NEW t \in Terminals, CheckoutRefused(t) \/ Crash(t) PROVE PromosInv'
    <3>1. UNCHANGED <<promos, sales>>
          /\ (cart' = [cart EXCEPT ![t].paying = FALSE] \/ cart' = [cart EXCEPT ![t] = EmptyCart])
      BY <2>2 DEF CheckoutRefused, Crash
    <3>2. ~cart'[t].paying /\ \A u \in Terminals \ {t} : cart'[u] = cart[u]
      BY <1>1, <3>1 DEF Cart, EmptyCart
    <3>3. Quiet
      BY <3>2 DEF PayingWith
    <3> QED  BY <2>0, <3>1, <3>3, NothingPaid
  <2>3. ASSUME NEW t \in Terminals, CheckoutStart(t) PROVE PromosInv'
    BY <2>0, <2>3, StartCounts
  <2>4. ASSUME NEW t \in Terminals, CheckoutCommit(t) PROVE PromosInv'
    BY <2>0, <2>4, CommitCounts
  <2>5. ASSUME NEW i \in DOMAIN sales, Cancel(i) PROVE PromosInv'
    <3>1. sales' = [sales EXCEPT ![i].live = FALSE] /\ UNCHANGED <<promos, cart>>
      BY <2>5 DEF Cancel
    <3>2. /\ DOMAIN sales' = DOMAIN sales /\ Len(sales') = Len(sales)
          /\ \A k \in DOMAIN sales : sales'[k].code = sales[k].code
      BY <1>1, <3>1 DEF Sale
    <3>3. Quiet
      BY <3>1 DEF PayingWith
    <3> QED  BY <2>0, <3>1, <3>2, <3>3, NothingPaid
  <2>6. ASSUME NEW s \in Serials,
               \/ \E p \in Products : AddSerial(s, p)
               \/ \E status \in Statuses : SetStatus(s, status)
        PROVE  PromosInv'
    <3>1. UNCHANGED <<promos, sales, cart>>
      BY <2>6 DEF AddSerial, SetStatus
    <3>2. Quiet
      BY <3>1 DEF PayingWith
    <3> QED  BY <2>0, <3>1, <3>2, NothingPaid
  <2>7. ASSUME NEW c \in Codes, NEW max \in Limits, AddPromo(c, max) PROVE PromosInv'
    <3> DEFINE row == [exists |-> TRUE, active |-> TRUE, max |-> max, uses |-> 0,
                       since |-> Len(sales)]
    <3>1. row \in Promo /\ row.exists /\ row.uses = 0 /\ row.since = Len(sales)
      BY <1>1, CheckoutAssumption DEF Promo
    <3>2. promos' = [promos EXCEPT ![c] = row] /\ UNCHANGED <<sales, cart>>
      BY <2>7 DEF AddPromo
    <3> HIDE DEF row
    <3> QED  BY <2>0, <3>1, <3>2, ScreenCounts
  <2>8. ASSUME NEW c \in Codes, NEW active \in BOOLEAN, SetActive(c, active) PROVE PromosInv'
    <3> DEFINE row == [promos[c] EXCEPT !.active = active]
    <3>1. promos[c].exists /\ UNCHANGED <<sales, cart>>
          /\ promos' = [promos EXCEPT ![c].active = active]
      BY <2>8 DEF SetActive
    <3>2. /\ row \in Promo /\ row.exists = promos[c].exists /\ row.max = promos[c].max
          /\ row.uses = promos[c].uses /\ row.since = promos[c].since
      BY <1>1 DEF Promo
    <3>3. promos' = [promos EXCEPT ![c] = row]
      BY <3>1
    <3> HIDE DEF row
    <3> QED  BY <2>0, <3>1, <3>2, <3>3, ScreenCounts
  <2>9. ASSUME NEW c \in Codes, RemovePromo(c) PROVE PromosInv'
    <3>1. NoPromo \in Promo /\ ~NoPromo.exists /\ NoPromo.max = 0
      BY DEF NoPromo, Promo
    <3>2. promos' = [promos EXCEPT ![c] = NoPromo] /\ UNCHANGED <<sales, cart>>
      BY <2>9 DEF RemovePromo
    <3> QED  BY <2>0, <3>1, <3>2, ScreenCounts
  <2> QED
    BY <1>3, <2>1, <2>2, <2>3, <2>4, <2>5, <2>6, <2>7, <2>8, <2>9
       DEF PromosNext, Next, Paying, Office
<1> QED  BY <1>2, <1>3

LEMMA PromosStart == PromosInit => PromosInv
<1> SUFFICES ASSUME PromosInit PROVE PromosInv
  OBVIOUS
<1>1. /\ promos = [c \in Codes |-> NoPromo] /\ cart = [t \in Terminals |-> EmptyCart]
  BY DEF PromosInit, Init
<1>2. NoPromo \in Promo /\ ~NoPromo.exists /\ NoPromo.max = 0
  BY DEF NoPromo, Promo
<1>3. promos \in [Codes -> Promo] /\ \A c \in Codes : ~promos[c].exists /\ promos[c].max = 0
  BY <1>1, <1>2
<1>4. \A t \in Terminals, c \in Codes : ~PayingWith(t, c)
  BY <1>1 DEF EmptyCart, PayingWith
<1>5. \A c \in Codes : UseLeft(c)
  BY <1>3, <1>4 DEF UseLeft
<1> QED  BY <1>3, <1>5 DEF PromosInv, RowsCount

(* The uses of a promotion are the sales made with it since it was added, and
   unless two cajas were paying with it at the same time they never pass its
   limit, although it is compared before the sale and counted in it. *)
THEOREM UsesHold == PromosSpec => []UsesAreCounted
<1>1. PromosInit => CInv /\ PromosInv
  BY CInvInit, PromosStart DEF PromosInit
<1>2. CInv /\ PromosInv /\ [PromosNext]_<<vars, overlapped>> => CInv' /\ PromosInv'
  <2> SUFFICES ASSUME CInv, PromosInv, [PromosNext]_<<vars, overlapped>>
               PROVE  CInv' /\ PromosInv'
    OBVIOUS
  <2>1. CInv'
    BY CInvInductive DEF PromosNext
  <2>2. PromosInv'
    BY PromosStep DEF CInv
  <2> QED  BY <2>1, <2>2
<1>3. PromosInv => UsesAreCounted
  BY DEF PromosInv, RowsCount, UseLeft, UsesAreCounted, UsesCountSales
<1> QED  BY <1>1, <1>2, <1>3, PTL DEF PromosSpec
=============================================================================
