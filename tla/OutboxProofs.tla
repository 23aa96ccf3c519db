---------------------------- MODULE OutboxProofs ----------------------------
(***************************************************************************)
(* The steps of the outbox are steps of a mailbox, for any number of cajas *)
(* and sales, any batch, threshold and number of faults.  That what is     *)
(* queued arrives is liveness and is left to the runs.                     *)
(***************************************************************************)
EXTENDS Outbox, TLAPS

OutboxRow == [folio : Folios, status : {"pending", "synced", "failed", "purged"},
              attempts : Nat]

CajaType == [doing : {"nothing", "queueing", "sending"}, rows : Seq(OutboxRow)]

TypeOK ==
    /\ outbox \in Seq(OutboxRow)
    /\ arrived \subseteq Folios /\ lost \subseteq Folios
    /\ caja \in [Terminals -> CajaType]

(* The folios the table has ever had; what arrived is among them. *)
Ever == {outbox[i].folio : i \in DOMAIN outbox}

(* A caja queues one sale, that no other caja queues and no table knows. *)
QueueingOK ==
    \A t \in Terminals : Doing(t, "queueing") =>
        /\ caja[t].rows # <<>>
        /\ Sold(t) \notin Ever \cup lost
        /\ \A u \in Terminals : Doing(u, "queueing") /\ Sold(u) = Sold(t) => u = t

(* What a batch has yet to send was read pending; it may have arrived since. *)
SendingOK ==
    \A t \in Terminals : Doing(t, "sending") =>
        /\ caja[t].rows # <<>>
        /\ \A i \in DOMAIN caja[t].rows : /\ caja[t].rows[i].attempts = 0
                                          /\ caja[t].rows[i].folio \in Ever

OutboxInv ==
    /\ TypeOK /\ arrived \subseteq Ever
    /\ MarkedHasArrived /\ QueueingOK /\ SendingOK

-----------------------------------------------------------------------------
LEMMA RowType == \A f \in Folios : Row(f) \in OutboxRow
  BY DEF Row, OutboxRow

(* While no row is given up, what waits is what has not arrived. *)
LEMMA PendingIs ==
  /\ MarkedHasArrived => Pending = Ever \ arrived
  /\ MarkedHasArrived' => Pending' = Ever' \ arrived'
  BY DEF MarkedHasArrived, Pending, Waiting, Ever, IsPending

(* Rows are rewritten in place but for their folio. *)
LEMMA EverStays ==
  ASSUME outbox \in Seq(OutboxRow), outbox' \in Seq(OutboxRow),
         DOMAIN outbox' = DOMAIN outbox,
         \A i \in DOMAIN outbox : outbox'[i].folio = outbox[i].folio
  PROVE  Ever' = Ever
  BY DEF Ever

(* The sales on their way to the table, as one caja moves. *)
LEMMA UnqueuedSame ==
  ASSUME TypeOK, NEW t \in Terminals, NEW x \in CajaType,
         caja' = [caja EXCEPT ![t] = x],
         ~Doing(t, "queueing"), x.doing # "queueing"
  PROVE  Unqueued' = Unqueued
<1>1. \A u \in Terminals : /\ Doing(u, "queueing")' <=> Doing(u, "queueing")
                           /\ Doing(u, "queueing") => Sold(u)' = Sold(u)
  BY DEF TypeOK, Doing, Sold
<1> QED  BY <1>1 DEF Unqueued

LEMMA UnqueuedMore ==
  ASSUME TypeOK, NEW t \in Terminals, NEW f \in Folios,
         Becomes(t, "queueing", <<Row(f)>>), ~Doing(t, "queueing")
  PROVE  Unqueued' = Unqueued \cup {f}
<1>1. Doing(t, "queueing")' /\ Sold(t)' = f
  BY DEF TypeOK, Becomes, Doing, Sold, Row
<1>2. \A u \in Terminals \ {t} : caja'[u] = caja[u]
  BY DEF TypeOK, Becomes
<1>3. \A u \in Terminals \ {t} : /\ Doing(u, "queueing")' <=> Doing(u, "queueing")
                                 /\ Sold(u)' = Sold(u)
  BY <1>2 DEF Doing, Sold
<1> QED  BY <1>1, <1>3 DEF Unqueued

LEMMA UnqueuedLess ==
  ASSUME TypeOK, QueueingOK, NEW t \in Terminals, Doing(t, "queueing"),
         NEW x \in CajaType, caja' = [caja EXCEPT ![t] = x], x.doing # "queueing"
  PROVE  Unqueued' = Unqueued \ {Sold(t)} /\ Sold(t) \in Unqueued
<1>1. ~Doing(t, "queueing")'
  BY DEF TypeOK, Doing
<1>2. \A u \in Terminals \ {t} : caja'[u] = caja[u]
  BY DEF TypeOK
<1>3. \A u \in Terminals \ {t} : /\ Doing(u, "queueing")' <=> Doing(u, "queueing")
                                 /\ Sold(u)' = Sold(u)
  BY <1>2 DEF Doing, Sold
<1>4. \A u \in Terminals \ {t} : Doing(u, "queueing") => Sold(u) # Sold(t)
  BY DEF QueueingOK
<1> QED  BY <1>1, <1>3, <1>4 DEF Unqueued

-----------------------------------------------------------------------------
(* A caja that stops, or goes on with rows that are fine, keeps what is       *)
(* promised of all of them.                                                  *)
LEMMA CajasStayOK ==
  ASSUME TypeOK, QueueingOK, SendingOK, NEW t \in Terminals, NEW x \in CajaType,
         caja' = [caja EXCEPT ![t] = x], x.doing # "queueing",
         Ever \subseteq Ever',
         \A u \in Terminals \ {t} :
            Doing(u, "queueing") => Sold(u) \notin Ever' \cup lost',
         x.doing = "sending" =>
            /\ x.rows # <<>>
            /\ \A i \in DOMAIN x.rows : x.rows[i].attempts = 0 /\ x.rows[i].folio \in Ever'
  PROVE  caja' \in [Terminals -> CajaType] /\ QueueingOK' /\ SendingOK'
<1>1. caja' \in [Terminals -> CajaType] /\ caja'[t] = x
  BY DEF TypeOK
<1>2. \A u \in Terminals \ {t} : caja'[u] = caja[u]
  BY DEF TypeOK
<1>3. QueueingOK'
  <2>1. ~Doing(t, "queueing")'
    BY <1>1 DEF Doing
  <2>2. \A u \in Terminals \ {t} : /\ Doing(u, "queueing")' <=> Doing(u, "queueing")
                                   /\ Sold(u)' = Sold(u)
    BY <1>2 DEF Doing, Sold
  <2> QED  BY <1>2, <2>1, <2>2 DEF QueueingOK
<1>4. SendingOK'
  BY <1>1, <1>2 DEF SendingOK, Doing
<1> QED  BY <1>1, <1>3, <1>4

LEMMA IdleType == Idle \in CajaType /\ Idle.doing = "nothing"
  BY DEF Idle, CajaType

(* The first row of what a caja queues or sends, and the rest. *)
LEMMA FirstRow ==
  ASSUME NEW rows \in Seq(OutboxRow), rows # <<>>
  PROVE  /\ 1 \in DOMAIN rows /\ Head(rows) = rows[1] /\ Head(rows) \in OutboxRow
         /\ Tail(rows) \in Seq(OutboxRow)
         /\ \A i \in DOMAIN Tail(rows) : i + 1 \in DOMAIN rows /\ Tail(rows)[i] = rows[i + 1]
  OBVIOUS

LEMMA SoldNew ==
  ASSUME OutboxInv, NEW t \in Terminals, Doing(t, "queueing")
  PROVE  Sold(t) \in Folios /\ Sold(t) \notin Queued
<1>1. caja[t].rows \in Seq(OutboxRow) /\ caja[t].rows # <<>>
  BY DEF OutboxInv, TypeOK, CajaType, QueueingOK
<1>2. Sold(t) \in Folios
  BY <1>1, FirstRow DEF Sold, OutboxRow
<1> QED  BY <1>2 DEF OutboxInv, QueueingOK, Queued, Ever

(* The table did not change and the caja stopped. *)
LEMMA StopKeeps ==
  ASSUME OutboxInv, NEW t \in Terminals, caja' = [caja EXCEPT ![t] = Idle],
         UNCHANGED <<outbox, arrived>>,
         lost' = lost \/ (Doing(t, "queueing") /\ lost' = lost \cup {Sold(t)})
  PROVE  OutboxInv'
<1>1. Ever' = Ever
  BY DEF Ever
<1>2. lost' \subseteq Folios
  BY SoldNew DEF OutboxInv, TypeOK
<1>3. \A u \in Terminals \ {t} : Doing(u, "queueing") => Sold(u) \notin Ever' \cup lost'
  BY <1>1 DEF OutboxInv, QueueingOK
<1>4. caja' \in [Terminals -> CajaType] /\ QueueingOK' /\ SendingOK'
  BY <1>1, <1>3, IdleType, CajasStayOK DEF OutboxInv
<1>5. MarkedHasArrived'
  BY DEF OutboxInv, MarkedHasArrived, IsPending
<1> QED  BY <1>1, <1>2, <1>4, <1>5 DEF OutboxInv, TypeOK

LEMMA BecomesIdle ==
  ASSUME NEW t \in Terminals, Becomes(t, "nothing", <<>>)
  PROVE  caja' = [caja EXCEPT ![t] = Idle]
  BY DEF Becomes, Idle

LEMMA SellKeeps ==
  ASSUME OutboxInv, NEW t \in Terminals, NEW f \in Folios, Sell(t, f)
  PROVE  OutboxInv' /\ Unqueued' = Unqueued \cup {f}
<1> DEFINE x == [doing |-> "queueing", rows |-> <<Row(f)>>]
<1>1. x \in CajaType
  BY RowType DEF CajaType
<1>2. /\ caja' = [caja EXCEPT ![t] = x] /\ ~Doing(t, "queueing")
      /\ UNCHANGED <<outbox, arrived, lost>>
      /\ f \notin Unqueued \cup Queued \cup arrived \cup lost
  BY DEF Sell, Becomes, Doing
<1>3. Unqueued' = Unqueued \cup {f}
  BY <1>2, UnqueuedMore DEF OutboxInv, Becomes
<1>4. Ever' = Ever
  BY <1>2 DEF Ever
<1>5. f \notin Ever
  BY <1>2 DEF OutboxInv, MarkedHasArrived, IsPending, Ever, Queued
<1>6. /\ caja' \in [Terminals -> CajaType] /\ caja'[t] = x
      /\ \A u \in Terminals \ {t} : caja'[u] = caja[u]
  BY <1>1, <1>2 DEF OutboxInv, TypeOK
<1>7. QueueingOK'
  <2>1. Doing(t, "queueing")' /\ Sold(t)' = f /\ x.rows # <<>>
    BY <1>6 DEF Doing, Sold, Row
  <2>2. \A u \in Terminals \ {t} : /\ Doing(u, "queueing")' <=> Doing(u, "queueing")
                                   /\ Sold(u)' = Sold(u)
    BY <1>6 DEF Doing, Sold
  <2>3. \A u \in Terminals : Doing(u, "queueing") => Sold(u) # f
    BY <1>2 DEF Unqueued
  <2> HIDE DEF x
  <2> QED  BY <1>2, <1>4, <1>5, <1>6, <2>1, <2>2, <2>3 DEF QueueingOK, OutboxInv
<1>8. SendingOK'
  BY <1>4, <1>6 DEF SendingOK, OutboxInv, Doing
<1>9. MarkedHasArrived'
  BY <1>2 DEF OutboxInv, MarkedHasArrived, IsPending
<1> QED  BY <1>2, <1>3, <1>4, <1>6, <1>7, <1>8, <1>9 DEF OutboxInv, TypeOK

LEMMA QueueKeeps ==
  ASSUME OutboxInv, NEW t \in Terminals, Queue(t)
  PROVE  /\ OutboxInv' /\ Ever' = Ever \cup {Sold(t)}
         /\ Unqueued' = Unqueued \ {Sold(t)} /\ Sold(t) \in Unqueued
<1> DEFINE f == Sold(t)
<1>1. /\ Doing(t, "queueing") /\ f \in Folios
      /\ outbox' = Append(outbox, Row(f))
      /\ caja' = [caja EXCEPT ![t] = Idle]
      /\ UNCHANGED <<arrived, lost>>
  BY SoldNew, BecomesIdle DEF Queue
<1>2. outbox \in Seq(OutboxRow) /\ Row(f) \in OutboxRow
  BY <1>1, RowType DEF OutboxInv, TypeOK
<1>3. /\ outbox' \in Seq(OutboxRow)
      /\ DOMAIN outbox' = DOMAIN outbox \cup {Len(outbox) + 1}
      /\ outbox'[Len(outbox) + 1] = Row(f)
      /\ \A i \in DOMAIN outbox : outbox'[i] = outbox[i]
  BY <1>1, <1>2
<1>4. Ever' = Ever \cup {f}
  BY <1>3 DEF Ever, Row
<1>5. f \notin arrived /\ f \notin lost
  BY <1>1 DEF OutboxInv, QueueingOK
<1>6. MarkedHasArrived'
  BY <1>1, <1>3, <1>5 DEF OutboxInv, MarkedHasArrived, IsPending, Row
<1>7. \A u \in Terminals \ {t} : Doing(u, "queueing") => Sold(u) \notin Ever' \cup lost'
  BY <1>1, <1>4 DEF OutboxInv, QueueingOK
<1>8. caja' \in [Terminals -> CajaType] /\ QueueingOK' /\ SendingOK'
  BY <1>1, <1>4, <1>7, IdleType, CajasStayOK DEF OutboxInv
<1>9. Unqueued' = Unqueued \ {f} /\ f \in Unqueued
  BY <1>1, IdleType, UnqueuedLess DEF OutboxInv
<1> QED  BY <1>1, <1>3, <1>4, <1>6, <1>8, <1>9 DEF OutboxInv, TypeOK

(* A batch is made of rows that are pending, so without an attempt. *)
LEMMA SyncStartKeeps ==
  ASSUME OutboxInv, NEW t \in Terminals, NEW force \in BOOLEAN, SyncStart(t, force)
  PROVE  OutboxInv' /\ Unqueued' = Unqueued
<1>0. PICK n \in 1..Batch : \E ids \in [1..n -> Waiting] :
         Becomes(t, "sending", [i \in 1..n |-> outbox[ids[i]]])
  BY DEF SyncStart
<1>1. PICK ids \in [1..n -> Waiting] :
         Becomes(t, "sending", [i \in 1..n |-> outbox[ids[i]]])
  BY <1>0
<1> DEFINE x == [doing |-> "sending", rows |-> [i \in 1..n |-> outbox[ids[i]]]]
<1>2. /\ caja' = [caja EXCEPT ![t] = x] /\ ~Doing(t, "queueing")
      /\ UNCHANGED <<outbox, arrived, lost>>
  BY <1>1 DEF SyncStart, Becomes, Doing
<1>3. n \in Nat /\ n # 0
  BY OutboxAssumption DEF OutboxAssumption
<1>4. \A i \in 1..n : /\ ids[i] \in DOMAIN outbox /\ outbox[ids[i]] \in OutboxRow
                      /\ IsPending(outbox[ids[i]])
  BY DEF Waiting, OutboxInv, TypeOK
<1>5. x \in CajaType /\ x.rows # <<>> /\ DOMAIN x.rows = 1..n
  <2>1. [i \in 1..n |-> outbox[ids[i]]] \in [1..n -> OutboxRow]
    BY <1>4
  <2>2. [i \in 1..n |-> outbox[ids[i]]] \in Seq(OutboxRow)
    BY <1>3, <2>1
  <2>3. Len([i \in 1..n |-> outbox[ids[i]]]) = n
    BY <1>3
  <2> QED  BY <1>3, <2>2, <2>3 DEF CajaType
<1>6. Ever' = Ever
  BY <1>2 DEF Ever
<1>7. \A i \in 1..n : x.rows[i].attempts = 0 /\ x.rows[i].folio \in Ever
  BY <1>4 DEF OutboxInv, MarkedHasArrived, IsPending, Ever
<1>8. \A u \in Terminals \ {t} : Doing(u, "queueing") => Sold(u) \notin Ever' \cup lost'
  BY <1>2, <1>6 DEF OutboxInv, QueueingOK
<1>9. x.doing = "sending"
  OBVIOUS
<1>10. MarkedHasArrived'
  BY <1>2 DEF OutboxInv, MarkedHasArrived, IsPending
<1> HIDE DEF x
<1>11. caja' \in [Terminals -> CajaType] /\ QueueingOK' /\ SendingOK'
  BY <1>2, <1>5, <1>6, <1>7, <1>8, <1>9, CajasStayOK DEF OutboxInv
<1>12. Unqueued' = Unqueued
  BY <1>2, <1>5, <1>9, UnqueuedSame DEF OutboxInv
<1> QED  BY <1>2, <1>6, <1>10, <1>11, <1>12 DEF OutboxInv, TypeOK

(* The row at the head of a batch is sent or refused, and the rest remains. *)
LEMMA RestKeeps ==
  ASSUME OutboxInv, NEW t \in Terminals, Doing(t, "sending"), Rest(t),
         lost' = lost, Ever' = Ever
  PROVE  /\ caja' \in [Terminals -> CajaType] /\ QueueingOK' /\ SendingOK'
         /\ Unqueued' = Unqueued
<1> DEFINE rest == Tail(caja[t].rows)
           x == IF rest = <<>> THEN Idle ELSE [doing |-> "sending", rows |-> rest]
<1>1. caja' = [caja EXCEPT ![t] = x]
  BY BecomesIdle DEF Rest, Becomes
<1>2. /\ caja[t].rows \in Seq(OutboxRow) /\ caja[t].rows # <<>>
      /\ \A i \in DOMAIN caja[t].rows : /\ caja[t].rows[i].attempts = 0
                                        /\ caja[t].rows[i].folio \in Ever
  BY DEF OutboxInv, TypeOK, CajaType, SendingOK
<1>3. /\ rest \in Seq(OutboxRow)
      /\ \A i \in DOMAIN rest : rest[i].attempts = 0 /\ rest[i].folio \in Ever
  BY <1>2, FirstRow
<1> HIDE DEF rest
<1>4. /\ x \in CajaType /\ x.doing # "queueing"
      /\ x.doing = "sending" => x.rows = rest /\ rest # <<>>
  BY <1>3, IdleType DEF CajaType
<1> HIDE DEF x
<1>5. ~Doing(t, "queueing")
  BY DEF Doing
<1>6. \A u \in Terminals \ {t} : Doing(u, "queueing") => Sold(u) \notin Ever' \cup lost'
  BY DEF OutboxInv, QueueingOK
<1>7. caja' \in [Terminals -> CajaType] /\ QueueingOK' /\ SendingOK'
  BY <1>1, <1>3, <1>4, <1>6, CajasStayOK DEF OutboxInv
<1>8. Unqueued' = Unqueued
  BY <1>1, <1>4, <1>5, UnqueuedSame DEF OutboxInv
<1> QED  BY <1>7, <1>8

LEMMA SendNextKeeps ==
  ASSUME OutboxInv, NEW t \in Terminals, SendNext(t)
  PROVE  /\ OutboxInv' /\ Ever' = Ever /\ Unqueued' = Unqueued
         /\ \E f \in Ever : arrived' = arrived \cup {f}
<1> DEFINE row == Head(caja[t].rows)
<1>1. /\ caja[t].rows \in Seq(OutboxRow) /\ caja[t].rows # <<>>
      /\ \A i \in DOMAIN caja[t].rows : /\ caja[t].rows[i].attempts = 0
                                        /\ caja[t].rows[i].folio \in Ever
  BY DEF OutboxInv, TypeOK, CajaType, SendNext, SendingOK
<1>2. row \in OutboxRow /\ row.attempts = 0 /\ row.folio \in Ever
  BY <1>1, FirstRow
<1>3. /\ outbox' = Mark(row) /\ arrived' = arrived \cup {row.folio}
      /\ Doing(t, "sending") /\ Rest(t) /\ lost' = lost
  BY <1>2, OutboxAssumption DEF OutboxAssumption, SendNext, Send
<1> HIDE DEF row
<1>4. outbox \in Seq(OutboxRow) /\ \A i \in DOMAIN outbox : outbox[i] \in OutboxRow
  BY DEF OutboxInv, TypeOK
<1>5. /\ DOMAIN outbox' = DOMAIN outbox
      /\ \A i \in DOMAIN outbox :
            outbox'[i] = IF IsRow(i, row)
                         THEN [outbox[i] EXCEPT !.status = "synced", !.attempts = @ + 1]
                         ELSE outbox[i]
  BY <1>3, <1>4 DEF Mark
<1>6. \A i \in DOMAIN outbox : /\ outbox'[i] \in OutboxRow
                               /\ outbox'[i].folio = outbox[i].folio
  <2> SUFFICES ASSUME NEW i \in DOMAIN outbox
               PROVE  outbox'[i] \in OutboxRow /\ outbox'[i].folio = outbox[i].folio
    OBVIOUS
  <2>1. outbox[i] \in OutboxRow
    BY <1>4
  <2>2. [outbox[i] EXCEPT !.status = "synced", !.attempts = @ + 1] \in OutboxRow
    <3>1. outbox[i].attempts + 1 \in Nat
      BY <2>1 DEF OutboxRow
    <3>2. \A n \in Nat : [outbox[i] EXCEPT !.status = "synced", !.attempts = n] \in OutboxRow
      BY <2>1 DEF OutboxRow
    <3> QED  BY <3>1, <3>2
  <2>3. [outbox[i] EXCEPT !.status = "synced", !.attempts = @ + 1].folio = outbox[i].folio
    BY <2>1 DEF OutboxRow
  <2> QED  BY <1>5, <2>1, <2>2, <2>3
<1>7. outbox' \in Seq(OutboxRow)
  <2>1. PICK n \in Nat : outbox \in [1..n -> OutboxRow]
    BY <1>4
  <2>2. outbox' \in [1..n -> OutboxRow]
    BY <1>3, <1>5, <1>6, <2>1 DEF Mark
  <2> QED  BY <2>2
<1>8. Ever' = Ever
  BY <1>4, <1>5, <1>6, <1>7, EverStays
<1>9. MarkedHasArrived'
  <2> SUFFICES ASSUME NEW i \in DOMAIN outbox
               PROVE  IF outbox'[i].folio \in arrived'
                      THEN outbox'[i].status \in {"synced", "purged"}
                      ELSE IsPending(outbox'[i]) /\ outbox'[i].attempts = 0
    BY <1>5 DEF MarkedHasArrived, IsPending
  <2>1. IF outbox[i].folio \in arrived THEN outbox[i].status \in {"synced", "purged"}
        ELSE IsPending(outbox[i]) /\ outbox[i].attempts = 0
    BY DEF OutboxInv, MarkedHasArrived
  <2>2. outbox[i] \in OutboxRow
    BY <1>4
  <2>3. CASE IsRow(i, row)
    <3>1. outbox'[i].status = "synced" /\ outbox'[i].folio = row.folio
      BY <1>5, <2>2, <2>3 DEF IsRow, OutboxRow
    <3> QED  BY <1>3, <3>1
  <2>4. CASE ~IsRow(i, row)
    <3>1. outbox'[i] = outbox[i]
      BY <1>5, <2>4
    <3> QED  BY <1>3, <2>1, <2>4, <3>1 DEF IsRow
  <2> QED  BY <2>3, <2>4
<1>10. /\ caja' \in [Terminals -> CajaType] /\ QueueingOK' /\ SendingOK'
       /\ Unqueued' = Unqueued
  BY <1>3, <1>8, RestKeeps
<1> QED
  BY <1>2, <1>3, <1>7, <1>8, <1>9, <1>10 DEF OutboxInv, TypeOK, OutboxRow

LEMMA PurgeKeeps ==
  ASSUME OutboxInv, NEW t \in Terminals, Purge(t)
  PROVE  OutboxInv' /\ Ever' = Ever
<1>1. PICK old \in SUBSET {i \in DOMAIN outbox : Purgeable(outbox[i])} :
         outbox' = [i \in DOMAIN outbox |->
                       IF i \in old THEN [outbox[i] EXCEPT !.status = "purged"]
                       ELSE outbox[i]]
  BY DEF Purge
<1>2. UNCHANGED <<arrived, lost, caja>>
  BY DEF Purge
<1>3. outbox \in Seq(OutboxRow) /\ \A i \in DOMAIN outbox : outbox[i] \in OutboxRow
  BY DEF OutboxInv, TypeOK
<1>4. /\ DOMAIN outbox' = DOMAIN outbox
      /\ \A i \in DOMAIN outbox :
            /\ outbox'[i] = IF i \in old THEN [outbox[i] EXCEPT !.status = "purged"]
                            ELSE outbox[i]
            /\ outbox'[i] \in OutboxRow /\ outbox'[i].folio = outbox[i].folio
  BY <1>1, <1>3 DEF OutboxRow
<1>5. outbox' \in Seq(OutboxRow)
  <2>1. PICK n \in Nat : outbox \in [1..n -> OutboxRow]
    BY <1>3
  <2>2. outbox' \in [1..n -> OutboxRow]
    BY <1>1, <1>4, <2>1
  <2> QED  BY <2>2
<1>6. Ever' = Ever
  BY <1>3, <1>4, <1>5, EverStays
<1>7. MarkedHasArrived'
  BY <1>1, <1>2, <1>3, <1>4 DEF OutboxInv, MarkedHasArrived, IsPending, Purgeable, OutboxRow
<1>8. QueueingOK' /\ SendingOK'
  BY <1>2, <1>6 DEF OutboxInv, QueueingOK, SendingOK, Doing, Sold
<1> QED  BY <1>2, <1>5, <1>6, <1>7, <1>8 DEF OutboxInv, TypeOK

-----------------------------------------------------------------------------
LEMMA InitOK == Init => OutboxInv
<1> SUFFICES ASSUME Init PROVE OutboxInv
  OBVIOUS
<1>1. outbox = <<>> /\ arrived = {} /\ lost = {} /\ caja = [t \in Terminals |-> Idle]
  BY DEF Init
<1>2. TypeOK
  BY <1>1, IdleType DEF TypeOK
<1>3. QueueingOK /\ SendingOK
  BY <1>1 DEF QueueingOK, SendingOK, Doing, Idle
<1>4. MarkedHasArrived
  BY <1>1 DEF MarkedHasArrived
<1> QED  BY <1>1, <1>2, <1>3, <1>4 DEF OutboxInv

(* Every step keeps the invariant, and is a step of the mailbox or none. *)
LEMMA StepPosts ==
  ASSUME OutboxInv, [Next]_vars
  PROVE  OutboxInv' /\ [Posted!Next]_(Posted!vars)
<1> USE DEF Posted!Next, Posted!vars
<1>1. Pending = Ever \ arrived /\ (OutboxInv' => Pending' = Ever' \ arrived')
  BY PendingIs DEF OutboxInv
<1>2. ASSUME UNCHANGED <<outbox, arrived, lost, caja>>
      PROVE  OutboxInv' /\ UNCHANGED Posted!vars
  <2>1. Ever' = Ever /\ Unqueued' = Unqueued
    BY <1>2 DEF Ever, Unqueued, Sold, Doing
  <2>2. OutboxInv'
    BY <1>2, <2>1 DEF OutboxInv, TypeOK, MarkedHasArrived, IsPending, QueueingOK,
                      SendingOK, Doing, Sold
  <2> QED  BY <1>1, <1>2, <2>1, <2>2
<1>3. ASSUME NEW t \in Terminals, NEW f \in Folios, Sell(t, f)
      PROVE  OutboxInv' /\ Posted!Do(f)
  <2>1. OutboxInv' /\ Unqueued' = Unqueued \cup {f}
    BY <1>3, SellKeeps
  <2>2. UNCHANGED <<outbox, arrived, lost>> /\ f \notin Unqueued \cup Queued \cup arrived \cup lost
    BY <1>3 DEF Sell
  <2>3. Ever' = Ever /\ Pending \subseteq Queued
    BY <2>2 DEF Ever, Pending, Waiting, Queued, IsPending
  <2> QED  BY <1>1, <2>1, <2>2, <2>3 DEF Posted!Do
<1>4. ASSUME NEW t \in Terminals, Queue(t)
      PROVE  OutboxInv' /\ [Posted!Next]_(Posted!vars)
  <2>1. /\ OutboxInv' /\ Ever' = Ever \cup {Sold(t)}
        /\ Unqueued' = Unqueued \ {Sold(t)} /\ Sold(t) \in Unqueued
    BY <1>4, QueueKeeps
  <2>2. Sold(t) \in Folios /\ Sold(t) \notin arrived /\ UNCHANGED <<arrived, lost>>
    BY <1>4, SoldNew DEF Queue, OutboxInv, QueueingOK
  <2>3. Posted!Post(Sold(t))
    BY <1>1, <2>1, <2>2 DEF Posted!Post
  <2> QED  BY <2>1, <2>2, <2>3
<1>5. ASSUME NEW t \in Terminals, UNCHANGED <<outbox, arrived>>,
             caja' = [caja EXCEPT ![t] = Idle],
             IF Doing(t, "queueing") THEN lost' = lost \cup {Sold(t)} ELSE lost' = lost
      PROVE  OutboxInv' /\ [Posted!Next]_(Posted!vars)
  <2>1. OutboxInv'
    BY <1>5, StopKeeps
  <2>2. Pending' = Pending
    BY <1>5 DEF Pending, Waiting, IsPending
  <2>3. CASE Doing(t, "queueing")
    <3>1. Unqueued' = Unqueued \ {Sold(t)} /\ Sold(t) \in Unqueued
      BY <1>5, <2>3, IdleType, UnqueuedLess DEF OutboxInv
    <3>2. Posted!Lose(Sold(t)) /\ Sold(t) \in Folios
      BY <1>5, <2>2, <2>3, <3>1, SoldNew DEF Posted!Lose
    <3> QED  BY <2>1, <3>2
  <2>4. CASE ~Doing(t, "queueing")
    <3>1. Unqueued' = Unqueued
      BY <1>5, <2>4, IdleType, UnqueuedSame DEF OutboxInv
    <3> QED  BY <1>5, <2>1, <2>2, <2>4, <3>1
  <2> QED  BY <2>3, <2>4
<1>6. ASSUME NEW t \in Terminals, NEW force \in BOOLEAN, SyncStart(t, force)
      PROVE  OutboxInv' /\ UNCHANGED Posted!vars
  <2>1. OutboxInv' /\ Unqueued' = Unqueued
    BY <1>6, SyncStartKeeps
  <2>2. UNCHANGED <<outbox, arrived, lost>>
    BY <1>6 DEF SyncStart
  <2> QED  BY <2>1, <2>2 DEF Pending, Waiting, IsPending
<1>7. ASSUME NEW t \in Terminals, SendNext(t)
      PROVE  OutboxInv' /\ [Posted!Next]_(Posted!vars)
  <2>1. OutboxInv' /\ Ever' = Ever /\ Unqueued' = Unqueued
    BY <1>7, SendNextKeeps
  <2>2. PICK f \in Ever : arrived' = arrived \cup {f}
    BY <1>7, SendNextKeeps
  <2>3. lost' = lost /\ f \in Folios
    <3>1. PICK i \in DOMAIN outbox : f = outbox[i].folio
      BY DEF Ever
    <3>2. outbox \in Seq(OutboxRow)
      BY DEF OutboxInv, TypeOK
    <3>3. outbox[i] \in OutboxRow
      BY <3>2
    <3> QED  BY <1>7, <3>1, <3>3 DEF SendNext, OutboxRow
  <2>4. CASE f \in arrived
    BY <1>1, <2>1, <2>2, <2>3, <2>4
  <2>5. CASE f \notin arrived
    <3>1. Posted!Arrive(f)
      BY <1>1, <2>1, <2>2, <2>3, <2>5 DEF Posted!Arrive
    <3> QED  BY <2>1, <2>3, <3>1
  <2> QED  BY <2>4, <2>5
<1>8. ASSUME NEW t \in Terminals, SendRefused(t)
      PROVE  OutboxInv' /\ UNCHANGED Posted!vars
  <2>1. Doing(t, "sending") /\ Rest(t) /\ UNCHANGED <<outbox, arrived, lost>>
    BY <1>8 DEF SendRefused
  <2>2. Ever' = Ever
    BY <2>1 DEF Ever
  <2>3. /\ caja' \in [Terminals -> CajaType] /\ QueueingOK' /\ SendingOK'
        /\ Unqueued' = Unqueued
    BY <2>1, <2>2, RestKeeps
  <2>4. OutboxInv'
    BY <2>1, <2>2, <2>3 DEF OutboxInv, TypeOK, MarkedHasArrived, IsPending
  <2> QED  BY <1>1, <2>1, <2>2, <2>3, <2>4
<1>9. ASSUME NEW t \in Terminals, Purge(t)
      PROVE  OutboxInv' /\ UNCHANGED Posted!vars
  <2>1. OutboxInv' /\ Ever' = Ever
    BY <1>9, PurgeKeeps
  <2>2. UNCHANGED <<arrived, lost, caja>>
    BY <1>9 DEF Purge
  <2>3. Unqueued' = Unqueued
    BY <2>2 DEF Unqueued, Sold, Doing
  <2> QED  BY <1>1, <2>1, <2>2, <2>3
<1>10. CASE UNCHANGED vars
  BY <1>2, <1>10 DEF vars
<1>11. CASE NetworkDown \/ NetworkUp
  BY <1>2, <1>11 DEF NetworkDown, NetworkUp
<1>12. ASSUME NEW t \in Terminals, Step(t)
       PROVE  OutboxInv' /\ [Posted!Next]_(Posted!vars)
  <2>1. CASE \E f \in Folios : Sell(t, f)
    BY <1>3, <2>1
  <2>2. CASE Queue(t)
    BY <1>4, <2>2
  <2>3. CASE QueueRefused(t) \/ Crash(t)
    BY <1>5, <2>3, BecomesIdle DEF QueueRefused, Crash
  <2>4. CASE SyncStart(t, FALSE) \/ SyncStart(t, TRUE)
    BY <1>6, <2>4
  <2>5. CASE SyncOffline(t) \/ CooldownEnds(t)
    BY <1>2, <2>5 DEF SyncOffline, CooldownEnds
  <2>6. CASE SendNext(t)
    BY <1>7, <2>6
  <2>7. CASE SendRefused(t)
    BY <1>8, <2>7
  <2>8. CASE Purge(t)
    BY <1>9, <2>8
  <2> QED  BY <1>12, <2>1, <2>2, <2>3, <2>4, <2>5, <2>6, <2>7, <2>8 DEF Step, Click
<1> QED  BY <1>10, <1>11, <1>12 DEF Next

(* The inductive invariant of table and cajas. *)
THEOREM OutboxInvariant == Spec => []OutboxInv
<1>1. OutboxInv /\ [Next]_vars => OutboxInv'
  BY StepPosts
<1> QED  BY <1>1, InitOK, PTL DEF Spec

(* What was marked has arrived, and what waits was never counted an attempt
   (SyncService::syncNow), whatever batches overlap, fail or die. *)
THEOREM MarksAreTrue == Spec => []MarkedHasArrived
<1>1. OutboxInv => MarkedHasArrived
  BY DEF OutboxInv
<1> QED  BY <1>1, OutboxInvariant, PTL

(* The outbox implements the mailbox in every step: nothing that was queued
   is lost, arrives before it was queued or is queued twice. *)
THEOREM OutboxIsMailbox == Spec => Posted!Init /\ [][Posted!Next]_(Posted!vars)
<1>1. Init => Posted!Init
  BY DEF Init, Posted!Init, Unqueued, Pending, Waiting, Doing, Idle
<1>2. OutboxInv /\ [Next]_vars => [Posted!Next]_(Posted!vars)
  BY StepPosts
<1> QED  BY <1>1, <1>2, OutboxInvariant, PTL DEF Spec
=============================================================================
