------------------------------ MODULE Parties ------------------------------
(***************************************************************************)
(* The clients and who owes their credit sales; the suppliers' form is the *)
(* same without the sales.  A sale knows its client by name only.  Names   *)
(* are looked up without regard to case, while the table's UNIQUE regards  *)
(* it, and the form checks a name before it inserts it.                    *)
(***************************************************************************)
EXTENDS Sums

CONSTANTS
    Terminals,
    Ids,            \* bound: clients ever entered
    Spellings,      \* names as they are written
    Lower,          \* each spelling in lower case
    Limit,          \* credit_limit, in sales of one size
    MaxOpen         \* bound: sales on credit at a time, and the debt of a row

VARIABLES
    rows,           \* clients, by id
    open,           \* how many sales each spelling has on credit
    job,            \* the handler of each caja after its checks
    mixed           \* history: names that two forms were entering at once, or
                    \* whose client was renamed, or removed while it owed

vars == <<rows, open, job, mixed>>

Names == {Lower[n] : n \in Spellings}
NoRow == [exists |-> FALSE, name |-> "", balance |-> 0]
NoJob == [op |-> "none", name |-> ""]

FindByName_Exact(n) == {i \in Ids : rows[i].exists /\ rows[i].name = n}
FindByName(n) == {i \in Ids : rows[i].exists /\ Lower[rows[i].name] = Lower[n]}

(* UNIQUE(name) *)
Unique(i, n) == \A j \in Ids \ {i} : rows[j].exists => rows[j].name # n

Idle(t) == job[t] = NoJob
Starts(t, op, n) == job' = [job EXCEPT ![t] = [op |-> op, name |-> n]]
Ends(t, op) == job[t].op = op /\ job' = [job EXCEPT ![t] = NoJob]

Debt(name) == SumOf(open, {n \in Spellings : Lower[n] = name})
Owes(name) == Debt(name) > 0
AllOpen == SumOf(open, Spellings)

-----------------------------------------------------------------------------
AddCheck(t, n) ==
    /\ Idle(t)
    /\ FindByName(n) = {}
    /\ Starts(t, "add", n)
    /\ mixed' = IF \E c \in Terminals : job[c].op = "add" /\ Lower[job[c].name] = Lower[n]
                THEN mixed \cup {Lower[n]} ELSE mixed
    /\ UNCHANGED <<rows, open>>

AddCommit(t, i) ==
    LET n == job[t].name IN
    /\ Ends(t, "add")
    /\ ~rows[i].exists /\ Unique(i, n)
    /\ rows' = [rows EXCEPT ![i] = [exists |-> TRUE, name |-> n, balance |-> 0]]
    /\ UNCHANGED <<open, mixed>>

(* update writes the name of the form, which it does not look up, and neither
   credit nor balance. *)
Update(i, n) ==
    /\ rows[i].exists /\ Unique(i, n)
    /\ rows' = [rows EXCEPT ![i].name = n]
    /\ mixed' = IF Lower[rows[i].name] = Lower[n] THEN mixed
                ELSE mixed \cup {Lower[rows[i].name], Lower[n]}
    /\ UNCHANGED <<open, job>>

Remove(i) ==
    /\ rows[i].exists
    /\ rows' = [rows EXCEPT ![i] = NoRow]
    /\ mixed' = IF Owes(Lower[rows[i].name]) THEN mixed \cup {Lower[rows[i].name]} ELSE mixed
    /\ UNCHANGED <<open, job>>

-----------------------------------------------------------------------------
(* A sale on credit: the limit of the client found is checked first; nobody
   found is no objection yet. *)
SellCheck(t, n) ==
    /\ Idle(t)
    /\ AllOpen < MaxOpen /\ \A i \in Ids : rows[i].balance < MaxOpen
    /\ FindByName(n) = {} \/ \E i \in FindByName(n) : rows[i].balance < Limit
    /\ Starts(t, "sell", n)
    /\ UNCHANGED <<rows, open, mixed>>

(* addCredit, payCredit: every row of the name; if there is none, the
   transaction fails. *)
Charged(n, d) ==
    /\ FindByName(n) # {}
    /\ rows' = [i \in Ids |->
                  IF i \in FindByName(n)
                  THEN [rows[i] EXCEPT !.balance = IF @ + d < 0 THEN 0 ELSE @ + d]
                  ELSE rows[i]]

SellCommit(t) ==
    LET n == job[t].name IN
    /\ Ends(t, "sell")
    /\ Charged(n, 1)
    /\ open' = [open EXCEPT ![n] = @ + 1]
    /\ UNCHANGED mixed

(* A payment that settles a sale, or its cancellation. *)
Discharge(n) ==
    /\ open[n] > 0
    /\ Charged(n, -1)
    /\ open' = [open EXCEPT ![n] = @ - 1]
    /\ UNCHANGED <<job, mixed>>

(* A transaction that fails, UNIQUE, the end of the process. *)
Abandon(t) ==
    /\ ~Idle(t)
    /\ job' = [job EXCEPT ![t] = NoJob]
    /\ UNCHANGED <<rows, open, mixed>>

-----------------------------------------------------------------------------
Init ==
    /\ rows = [i \in Ids |-> NoRow]
    /\ open = [n \in Spellings |-> 0]
    /\ job = [t \in Terminals |-> NoJob]
    /\ mixed = {}

Next ==
    \/ \E t \in Terminals, n \in Spellings : AddCheck(t, n) \/ SellCheck(t, n)
    \/ \E t \in Terminals, i \in Ids : AddCommit(t, i)
    \/ \E i \in Ids, n \in Spellings : Update(i, n)
    \/ \E i \in Ids : Remove(i)
    \/ \E t \in Terminals : SellCommit(t) \/ Abandon(t)
    \/ \E n \in Spellings : Discharge(n)

Spec == Init /\ [][Next]_vars

-----------------------------------------------------------------------------
(* Who owes: the open credit sales of a name, however it is written, are the
   debt of one client, which owes them all; so each can be settled and
   cancelled, which fails without that client. *)
OneDebtor ==
    \A name \in Names \ mixed :
        LET known == {i \in Ids : rows[i].exists /\ Lower[rows[i].name] = name} IN
        /\ Cardinality(known) <= 1
        /\ Owes(name) => \E i \in known : rows[i].balance = Debt(name)
=============================================================================
