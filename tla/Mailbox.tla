------------------------------ MODULE Mailbox ------------------------------
(***************************************************************************)
(* What the outbox promises of the operations of the cajas: one that was   *)
(* posted waits until it arrives, once, and one that was done but never    *)
(* posted is lost.  Nothing that was posted is lost.                       *)
(***************************************************************************)
CONSTANT Folios

VARIABLES done, waiting, arrived, lost

vars == <<done, waiting, arrived, lost>>

Init == done = {} /\ waiting = {} /\ arrived = {} /\ lost = {}

(* The operation is done, and not posted yet. *)
Do(f) ==
    /\ f \notin done \cup waiting \cup arrived \cup lost
    /\ done' = done \cup {f}
    /\ UNCHANGED <<waiting, arrived, lost>>

Post(f) ==
    /\ f \in done
    /\ done' = done \ {f}
    /\ waiting' = waiting \cup {f}
    /\ UNCHANGED <<arrived, lost>>

Lose(f) ==
    /\ f \in done
    /\ done' = done \ {f}
    /\ lost' = lost \cup {f}
    /\ UNCHANGED <<waiting, arrived>>

Arrive(f) ==
    /\ f \in waiting
    /\ waiting' = waiting \ {f}
    /\ arrived' = arrived \cup {f}
    /\ UNCHANGED <<done, lost>>

Next == \E f \in Folios : Do(f) \/ Post(f) \/ Lose(f) \/ Arrive(f)

Spec ==
    /\ Init /\ [][Next]_vars
    /\ \A f \in Folios : WF_vars(Arrive(f)) /\ WF_vars(Post(f) \/ Lose(f))
=============================================================================
