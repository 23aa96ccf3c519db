------------------------------- MODULE Outbox -------------------------------
(***************************************************************************)
(* The outbox: a sale is queued after its transaction commits, and batches *)
(* of what is queued are sent when somebody at a caja asks for it, unless  *)
(* the caja's circuit breaker is open.                                     *)
(*                                                                         *)
(* The table is shared by the cajas; the breaker is in the memory of each  *)
(* process.  A batch is read first and sent row by row, a statement each.  *)
(* The remote end is simulated by the code: sending a row is marking it,   *)
(* and it takes a key it already has as the same operation.                *)
(***************************************************************************)
EXTENDS Integers, Sequences, Functions

CONSTANTS
    Terminals,  \* the cajas
    Folios,     \* sales they make
    Threshold,  \* CircuitThreshold: failures that open the breaker
    Batch,      \* rows of a batch
    MaxAttempts,
    MaxFaults   \* bound: crashes, refused statements and outages

ASSUME OutboxAssumption ==
    /\ Threshold \in Nat /\ MaxFaults \in Nat
    /\ Batch \in Nat \ {0} /\ MaxAttempts \in Nat \ {0}

VARIABLES
    outbox,     \* rows of outbox by id; a row that was deleted is "purged"
    arrived,    \* what the remote end has
    lost,       \* sales that were committed and will never be queued
    caja,       \* what each process is doing
    failures,   \* m_failures of each process
    cooling,    \* the clock is before m_cooldownUntil
    online,     \* the network answers
    faults      \* faults that have happened

breaker == <<failures, cooling>>
vars == <<outbox, arrived, lost, caja, breaker, online, faults>>

Idle == [doing |-> "nothing", rows |-> <<>>]

Doing(t, what) == caja[t].doing = what
Becomes(t, what, rows) ==
    caja' = [caja EXCEPT ![t] = [doing |-> what, rows |-> rows]]

Fault == faults < MaxFaults /\ faults' = faults + 1

Row(f) == [folio |-> f, status |-> "pending", attempts |-> 0]

IsPending(row) == row.status = "pending"
Waiting == {i \in DOMAIN outbox : IsPending(outbox[i])}
Pending == {outbox[i].folio : i \in Waiting}
Queued == {outbox[i].folio : i \in {j \in DOMAIN outbox : outbox[j].status # "purged"}}

(* Sales committed whose caja has yet to queue them. *)
Sold(t) == Head(caja[t].rows).folio
Unqueued == {Sold(t) : t \in {u \in Terminals : Doing(u, "queueing")}}

-----------------------------------------------------------------------------
(* checkout: the sale is committed, then queued. *)
Sell(t, f) ==
    /\ Doing(t, "nothing")
    /\ f \notin Unqueued \cup Queued \cup arrived \cup lost
    /\ Becomes(t, "queueing", <<Row(f)>>)
    /\ UNCHANGED <<outbox, arrived, lost, breaker, online, faults>>

(* queueOperation: INSERT OR IGNORE by the key of the operation, its folio. *)
Queue(t) ==
    /\ Doing(t, "queueing")
    /\ outbox' = IF Sold(t) \in Queued THEN outbox ELSE Append(outbox, Row(Sold(t)))
    /\ Becomes(t, "nothing", <<>>)
    /\ UNCHANGED <<arrived, lost, breaker, online, faults>>

(* The insert is refused: checkout ignores the -1. *)
QueueRefused(t) ==
    /\ Doing(t, "queueing")
    /\ lost' = lost \cup {Sold(t)}
    /\ Becomes(t, "nothing", <<>>)
    /\ Fault
    /\ UNCHANGED <<outbox, arrived, breaker, online>>

-----------------------------------------------------------------------------
(* The circuit breaker *)

CircuitAllows_NeverAgain(t) == failures[t] < Threshold
CircuitAllows(t) == failures[t] < Threshold \/ ~cooling[t]

(* m_failures is only compared with the threshold: it is not counted past it. *)
RecordFailure(t) ==
    LET n == IF failures[t] < Threshold THEN failures[t] + 1 ELSE Threshold IN
    /\ failures' = [failures EXCEPT ![t] = n]
    /\ cooling' = [cooling EXCEPT ![t] = IF n = Threshold THEN TRUE ELSE @]

RecordSuccess(t) ==
    /\ failures' = [failures EXCEPT ![t] = 0]
    /\ UNCHANGED cooling

(* A minute passes. *)
CooldownEnds(t) ==
    /\ cooling[t]
    /\ cooling' = [cooling EXCEPT ![t] = FALSE]
    /\ UNCHANGED <<outbox, arrived, lost, caja, failures, online, faults>>

-----------------------------------------------------------------------------
(* syncNow *)

(* ORDER BY id LIMIT Batch *)
IsNextBatch(ids) ==
    /\ \A i \in 2..Len(ids) : ids[i - 1] < ids[i]
    /\ \A later \in Waiting \ Range(ids) :
          Len(ids) = Batch /\ \A i \in 1..Batch : ids[i] < later

(* force skips the breaker and the probe of the network. *)
SyncStart(t, force) ==
    /\ Doing(t, "nothing")
    /\ force \/ (CircuitAllows(t) /\ online)
    /\ \E n \in 1..Batch : \E ids \in [1..n -> Waiting] :
          /\ IsNextBatch(ids)
          /\ Becomes(t, "sending", [i \in 1..n |-> outbox[ids[i]]])
    /\ UNCHANGED <<outbox, arrived, lost, breaker, online, faults>>

SyncOffline(t) ==
    /\ Doing(t, "nothing")
    /\ CircuitAllows(t) /\ ~online
    /\ RecordFailure(t)
    /\ UNCHANGED <<outbox, arrived, lost, caja, online, faults>>

Rest(t) == LET rest == Tail(caja[t].rows) IN
           IF rest = <<>> THEN Becomes(t, "nothing", <<>>) ELSE Becomes(t, "sending", rest)

(* The UPDATE ... WHERE id of a row: one that was purged matches none. *)
IsRow(i, row) == outbox[i].folio = row.folio /\ outbox[i].status # "purged"

Mark_All(row) ==
    [i \in DOMAIN outbox |-> [outbox[i] EXCEPT !.status = "synced",
                                               !.attempts = @ + 1]]
Mark(row) ==
    [i \in DOMAIN outbox |->
        IF IsRow(i, row) THEN [outbox[i] EXCEPT !.status = "synced", !.attempts = @ + 1]
        ELSE outbox[i]]

(* A row read with too many attempts is given up; attempts grows with a
   success only, so no pending row has any. *)
GiveUp(t, row) ==
    /\ outbox' = [i \in DOMAIN outbox |->
                    IF IsRow(i, row) THEN [outbox[i] EXCEPT !.status = "failed"]
                    ELSE outbox[i]]
    /\ RecordFailure(t)
    /\ UNCHANGED arrived

Send(t, row) ==
    /\ outbox' = Mark(row)
    /\ arrived' = arrived \cup {row.folio}
    /\ RecordSuccess(t)

SendNext(t) ==
    /\ Doing(t, "sending")
    /\ LET row == Head(caja[t].rows) IN
       IF row.attempts >= MaxAttempts THEN GiveUp(t, row) ELSE Send(t, row)
    /\ Rest(t)
    /\ UNCHANGED <<lost, online, faults>>

(* The statement is refused: the row stays pending, the batch goes on. *)
SendRefused(t) ==
    /\ Doing(t, "sending")
    /\ RecordFailure(t)
    /\ Rest(t)
    /\ Fault
    /\ UNCHANGED <<outbox, arrived, lost, online>>

(* purgeSynced: rows marked some days ago are deleted. *)
Purgeable_Any(row) == TRUE
Purgeable(row) == row.status = "synced"

Purge(t) ==
    /\ Doing(t, "nothing")
    /\ \E old \in SUBSET {i \in DOMAIN outbox : Purgeable(outbox[i])} :
          outbox' = [i \in DOMAIN outbox |->
                        IF i \in old THEN [outbox[i] EXCEPT !.status = "purged"]
                        ELSE outbox[i]]
    /\ UNCHANGED <<arrived, lost, caja, breaker, online, faults>>

-----------------------------------------------------------------------------
(* The process dies: what it was to queue is lost, its batch is not; the
   breaker starts closed. *)
Crash(t) ==
    /\ lost' = IF Doing(t, "queueing") THEN lost \cup {Sold(t)} ELSE lost
    /\ caja' = [caja EXCEPT ![t] = Idle]
    /\ failures' = [failures EXCEPT ![t] = 0]
    /\ cooling' = [cooling EXCEPT ![t] = FALSE]
    /\ Fault
    /\ UNCHANGED <<outbox, arrived, online>>

NetworkDown ==
    /\ online
    /\ online' = FALSE
    /\ Fault
    /\ UNCHANGED <<outbox, arrived, lost, caja, breaker>>

NetworkUp ==
    /\ ~online
    /\ online' = TRUE
    /\ UNCHANGED <<outbox, arrived, lost, caja, breaker, faults>>

Init ==
    /\ outbox = <<>> /\ arrived = {} /\ lost = {}
    /\ caja = [t \in Terminals |-> Idle]
    /\ failures = [t \in Terminals |-> 0]
    /\ cooling = [t \in Terminals |-> FALSE]
    /\ online \in BOOLEAN
    /\ faults = 0

(* resetCircuit is called by tests only. *)
Click(t) == SyncStart(t, FALSE) \/ SyncOffline(t)

Step(t) ==
    \/ \E f \in Folios : Sell(t, f)
    \/ Queue(t) \/ QueueRefused(t)
    \/ Click(t) \/ SyncStart(t, TRUE)
    \/ SendNext(t) \/ SendRefused(t)
    \/ CooldownEnds(t) \/ Purge(t) \/ Crash(t)

Next == NetworkDown \/ NetworkUp \/ \E t \in Terminals : Step(t)

Spec == Init /\ [][Next]_vars

(* queueOperation and a batch, once begun, run to their end or the process
   dies; a minute passes; the network comes back; and somebody at each caja
   goes on asking for a synchronisation. *)
FairSpec ==
    /\ Spec
    /\ WF_vars(NetworkUp)
    /\ \A t \in Terminals :
          /\ WF_vars(Queue(t)) /\ WF_vars(SendNext(t))
          /\ WF_vars(CooldownEnds(t)) /\ WF_vars(Click(t))

-----------------------------------------------------------------------------
(* "Maximo de intentos": what waits in the table has not arrived and was never
   counted an attempt, and what was marked has arrived: two cajas that send the
   same batch, refused statements and crashes within it leave every row in one
   of the two states, and none is given up. *)
MarkedHasArrived ==
    \A i \in DOMAIN outbox :
        IF outbox[i].folio \in arrived THEN outbox[i].status \in {"synced", "purged"}
        ELSE IsPending(outbox[i]) /\ outbox[i].attempts = 0

(* The outbox is a mailbox: what was queued waits and then arrives, whatever
   is purged, and only a sale that died on its way to the table is lost. *)
Posted == INSTANCE Mailbox WITH done <- Unqueued, waiting <- Pending

ImplementsMailbox == Posted!Spec

(* The breaker does not stay open: what is queued arrives in the end. *)
QueuedArrives == \A f \in Folios : (f \in Pending) ~> (f \in arrived)
=============================================================================
