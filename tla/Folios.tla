------------------------------- MODULE Folios -------------------------------
(***************************************************************************)
(* The folio of a document: the text of a prefix followed by the next      *)
(* value of a counter, both of a series that the settings may rename at    *)
(* any time.  The folio is the primary key of sales, for every type of     *)
(* document and for the sales of the till, whose series is fixed; counter  *)
(* and row are written in one transaction.  Purchase orders number in a     *)
(* table of their own, and advance their counter, which the settings may   *)
(* name too, outside of any transaction.                                   *)
(***************************************************************************)
EXTENDS Integers, FiniteSets, Sequences

CONSTANTS
    Terminals,      \* the cajas that write documents; any sells at the till
    Offices,        \* those that order from suppliers
    Kinds,          \* document types
    Prefixes,       \* sequences of symbols
    Counters,
    DefaultSeries,  \* defaultFolioSeries()
    SaleSeries,     \* that of the till
    OrderCounter,   \* PURCHASE_COUNTER
    Figures,        \* the symbols of a number
    Digits,         \* how a number is written, zeros in front
    MaxDocs,        \* bound: rows of sales, and numbers of a counter
    MaxSeries       \* bound: series ever in force

Series == [prefix : Prefixes, counter : Counters]

VARIABLES
    stored,         \* the object in folio_series_json, by document type
    counters,       \* table counters: the last number given
    docs,           \* rows of sales: the id, and the counter it was numbered by
    job,            \* the series a running createDocument has read, if any
    ordering,       \* the value a running order has read of its counter, if any
    used            \* history: series that were ever in force

vars == <<stored, counters, docs, job, ordering, used>>

(* folioSeries(): the stored series over the defaults. *)
SeriesOf(k) == IF k \in DOMAIN stored THEN stored[k] ELSE DefaultSeries[k]

(* Counters::next: prefix + QString::number(val), nothing in between. *)
Folio(s) == s.prefix \o Digits[counters[s.counter] + 1]

(* No page shows the series; save() takes them from whoever calls it, for any
   of the types, any prefix and any counter that are not empty, and replaces
   the object. *)
SaveSeries(object) ==
    /\ stored' = object
    /\ used' = used \cup {object[k] : k \in DOMAIN object}
                    \cup {DefaultSeries[k] : k \in Kinds \ DOMAIN object}
    /\ Cardinality(used') <= MaxSeries
    /\ UNCHANGED <<counters, docs, job, ordering>>

Counted_Twice(n) == n + 2
Counted(n) == n + 1

(* Counter and row in one transaction: a folio that is taken rolls the counter
   back. *)
Number(s) ==
    /\ Cardinality(docs) < MaxDocs /\ counters[s.counter] < MaxDocs
    /\ \A d \in docs : d.id # Folio(s)
    /\ docs' = docs \cup {[id |-> Folio(s), counter |-> s.counter]}
    /\ counters' = [counters EXCEPT ![s.counter] = Counted(@)]

(* create: a sale of the till. *)
CreateSale ==
    /\ Number(SaleSeries)
    /\ UNCHANGED <<stored, job, ordering, used>>

(* createDocument reads the series, and only then begins its transaction. *)
ReadSeries(t, k) ==
    /\ job[t] = {}
    /\ job' = [job EXCEPT ![t] = {SeriesOf(k)}]
    /\ UNCHANGED <<stored, counters, docs, ordering, used>>

CreateDocument(t, s) ==
    /\ s \in job[t]
    /\ Number(s)
    /\ job' = [job EXCEPT ![t] = {}]
    /\ UNCHANGED <<stored, ordering, used>>

(* The row is refused, the commit is, or the process dies. *)
Fail(t) ==
    /\ job[t] # {}
    /\ job' = [job EXCEPT ![t] = {}]
    /\ UNCHANGED <<stored, counters, docs, ordering, used>>

(* PurchaseService::create: Counters::next reads the counter and puts back what
   it read and one, each on its own, and the order is inserted after that. *)
ReadOrderCounter(t) ==
    /\ ordering[t] = {}
    /\ counters[OrderCounter] < MaxDocs
    /\ ordering' = [ordering EXCEPT ![t] = {counters[OrderCounter]}]
    /\ UNCHANGED <<stored, counters, docs, job, used>>

AdvanceOrderCounter(t, n) ==
    /\ n \in ordering[t]
    /\ counters' = [counters EXCEPT ![OrderCounter] = Counted(n)]
    /\ ordering' = [ordering EXCEPT ![t] = {}]
    /\ UNCHANGED <<stored, docs, job, used>>

OrderDies(t) ==
    /\ ordering[t] # {}
    /\ ordering' = [ordering EXCEPT ![t] = {}]
    /\ UNCHANGED <<stored, counters, docs, job, used>>

Init ==
    /\ stored = [k \in {} |-> SaleSeries]
    /\ counters = [c \in Counters |-> 0]
    /\ docs = {}
    /\ job = [t \in Terminals |-> {}]
    /\ ordering = [t \in Offices |-> {}]
    /\ used = {SaleSeries} \cup {DefaultSeries[k] : k \in Kinds}

Next ==
    \/ CreateSale
    \/ \E t \in Terminals :
        \/ \E k \in Kinds : ReadSeries(t, k)
        \/ \E s \in job[t] : CreateDocument(t, s)
        \/ Fail(t)
    \/ \E t \in Offices :
        \/ ReadOrderCounter(t)
        \/ \E n \in ordering[t] : AdvanceOrderCounter(t, n)
        \/ OrderDies(t)
    \/ \E kinds \in SUBSET Kinds \ {{}} : \E object \in [kinds -> Series] : SaveSeries(object)

Spec == Init /\ [][Next]_vars

-----------------------------------------------------------------------------
(* q is p followed by figures: a long number of p may read as one of q. *)
Continues(p, q) ==
    /\ Len(p) < Len(q)
    /\ \A i \in 1..Len(p) : p[i] = q[i]
    /\ \A i \in Len(p) + 1 .. Len(q) : q[i] \in Figures

(* No two series that were ever in force, that of the till among them, write
   the numbers of two counters alike, and none has the counter of the orders. *)
Apart ==
    /\ \A a \in used : a.counter # OrderCounter
    /\ \A a, b \in used : /\ a.prefix = b.prefix => a.counter = b.counter
                          /\ ~Continues(a.prefix, b.prefix)

(* createDocument: "sin duplicados entre cajas concurrentes, sin huecos si
   falla".  Whatever the settings were renamed to, while handlers ran too,
   every number a counter gave is on a row, but for that of the orders.  And as
   long as the series are apart, no series that was ever in force, of a document
   type, of the till or in the hands of a handler, is stuck on a folio that is
   taken. *)
SeriesNeverStuck ==
    /\ \A c \in Counters \ {OrderCounter} :
          counters[c] = Cardinality({d \in docs : d.counter = c})
    /\ Apart => \A s \in used : \A d \in docs : d.id # Folio(s)
=============================================================================
