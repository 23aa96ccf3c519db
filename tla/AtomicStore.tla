---------------------------- MODULE AtomicStore ----------------------------
(***************************************************************************)
(* What the services count on from a transaction: nested units of work on  *)
(* a shared store.  An inner unit that is kept joins the unit around it,   *)
(* one that is not kept leaves no trace, and the store changes only by a   *)
(* whole outermost unit at a time.                                         *)
(***************************************************************************)
EXTENDS Naturals, Sequences, FiniteSets

CONSTANTS Conns, Items

VARIABLES
    store,  \* the writes every connection sees
    kept,   \* whether the unit that ended last was kept
    open    \* open[c]: the writes of c's units in progress, outermost first

svars == <<store, kept, open>>

InnerMost(c) == Len(open[c])
Outer(c) == SubSeq(open[c], 1, Len(open[c]) - 1)

NobodyWrites == \A d \in Conns : open[d] = <<>>

SInit == store = {} /\ kept = FALSE /\ open = [c \in Conns |-> <<>>]

(* One connection at a time has a unit of work. *)
Begin(c) ==
    /\ NobodyWrites
    /\ open' = [open EXCEPT ![c] = <<{}>>]
    /\ UNCHANGED <<store, kept>>

Nest(c) ==
    /\ open[c] # <<>>
    /\ open' = [open EXCEPT ![c] = Append(@, {})]
    /\ UNCHANGED <<store, kept>>

Put(c, i) ==
    /\ open[c] # <<>>
    /\ open' = [open EXCEPT ![c][InnerMost(c)] = @ \cup {i}]
    /\ UNCHANGED <<store, kept>>

(* A write outside any unit is a unit of its own. *)
PutAlone(i) ==
    /\ NobodyWrites
    /\ store' = store \cup {i}
    /\ UNCHANGED <<kept, open>>

Keep(c) ==
    /\ InnerMost(c) > 1
    /\ open' = [open EXCEPT ![c] = [Outer(c) EXCEPT ![InnerMost(c) - 1] =
                                       @ \cup open[c][InnerMost(c)]]]
    /\ kept' = TRUE
    /\ UNCHANGED store

Publish(c) ==
    /\ InnerMost(c) = 1
    /\ store' = store \cup open[c][1]
    /\ kept' = TRUE
    /\ open' = [open EXCEPT ![c] = <<>>]

Undo(c) ==
    /\ open[c] # <<>>
    /\ open' = [open EXCEPT ![c] = Outer(c)]
    /\ kept' = FALSE
    /\ UNCHANGED store

Vanish(c) ==
    /\ open[c] # <<>>
    /\ open' = [open EXCEPT ![c] = <<>>]
    /\ UNCHANGED <<store, kept>>

SNext ==
    \/ \E c \in Conns : \/ Begin(c) \/ Nest(c) \/ Keep(c) \/ Publish(c)
                        \/ Undo(c) \/ Vanish(c)
                        \/ \E i \in Items : Put(c, i)
    \/ \E i \in Items : PutAlone(i)

SSpec == SInit /\ [][SNext]_svars
=============================================================================
