------------------------------ MODULE Listing ------------------------------
(***************************************************************************)
(* The lists of products, clients and sales that grow as they are scrolled *)
(* (PagedListModel and the controllers that fill it).  A page is read with *)
(* LIMIT and OFFSET, in statements of their own, while other cajas write   *)
(* the table; the number of rows is counted before the first page is read. *)
(* A row is a natural number: its place in the order of the list.          *)
(***************************************************************************)
EXTENDS Integers, FiniteSets, Sequences, SequencesExt

CONSTANTS
    Rows,           \* a finite set of naturals
    PageSize,       \* ModelPageSize, positive
    Matching,       \* the rows a text finds; the empty text finds all
    Rubro           \* the rows of the line of business of the shop

Kinds == {"products", "clients", "sales"}
Texts == {"", "text"}

VARIABLES
    kind,           \* the list looked at
    table,          \* the rows of its table
    wide,           \* the shop shows the rows of every line of business
    list,           \* PagedListModel and the controller's m_model... members
    (* histories *)
    asked,          \* the text that was searched
    since           \* "same"; "grown": rows were added behind those shown since
                    \* they were counted; "moved": what is shown changed its place

vars == <<kind, table, wide, list, asked, since>>

Closed == [step |-> "rest", rows |-> <<>>, total |-> 0, page |-> 0, text |-> "",
           sought |-> "", active |-> FALSE]

(* WHERE ... LIKE ... AND business_type ...: only products have a line. *)
Found(rows, text) ==
    {r \in rows : /\ text = "" \/ r \in Matching
                  /\ kind # "products" \/ wide \/ r \in Rubro}

(* ORDER BY: every row once, in the order of the list. *)
InOrder(rows) ==
    CHOOSE s \in [1 .. Cardinality(rows) -> rows] :
        \A i, j \in DOMAIN s : i < j => s[i] < s[j]

Listed(text) == InOrder(Found(table, text))

Page_OneBased(text, k) ==
    LET all == Listed(text) IN
    SubSeq(all, (k + 1) * PageSize + 1,
                IF (k + 2) * PageSize < Len(all) THEN (k + 2) * PageSize ELSE Len(all))

(* searchPaged: LIMIT PageSize OFFSET k * PageSize *)
Page(text, k) ==
    LET all == Listed(text) IN
    SubSeq(all, k * PageSize + 1,
                IF (k + 1) * PageSize < Len(all) THEN (k + 1) * PageSize ELSE Len(all))

CanFetchMore_OneLess == Len(list.rows) + 1 < list.total
CanFetchMore == Len(list.rows) < list.total

-----------------------------------------------------------------------------
(* searchProducts keeps the text it searches; searchClients and searchSales
   search it and do not. *)
Remembered(text) == IF kind = "products" THEN text ELSE list.text

(* countSearch, then the first page. *)
Count(text) ==
    list' = [list EXCEPT !.step = "count", !.active = TRUE, !.page = 0,
                         !.sought = text, !.text = Remembered(text),
                         !.total = Cardinality(Found(table', text))]

Search(text) ==
    /\ list.step = "rest"
    /\ asked' = text /\ since' = "same"
    /\ UNCHANGED <<kind, table, wide>>
    /\ Count(text)

FirstPage ==
    /\ list.step = "count"
    /\ list' = [list EXCEPT !.step = "rest", !.rows = Page(list.sought, 0), !.page = 1]
    /\ UNCHANGED <<kind, table, wide, asked, since>>

(* An empty page ends the list. *)
More(rows) ==
    IF rows = <<>> THEN [list EXCEPT !.total = Len(list.rows)]
    ELSE [list EXCEPT !.rows = @ \o rows, !.page = @ + 1]

FetchMore ==
    /\ list.step = "rest"
    /\ CanFetchMore
    /\ list' = More(Page(list.text, list.page))
    /\ UNCHANGED <<kind, table, wide, asked, since>>

(* search and refresh, for another page of the program: the next change does
   not reload the model. *)
SearchAll ==
    /\ list.step = "rest" /\ list.active
    /\ list' = [list EXCEPT !.active = FALSE]
    /\ UNCHANGED <<kind, table, wide, asked, since>>

-----------------------------------------------------------------------------
(* Rows come and go.  What happens behind everything shown does not disturb,
   unless the last page was short: the next one is read at its own place, and
   the rows that fill the short one up are never shown. *)
Disturbs(r) ==
    \/ \E s \in ToSet(list.rows) : r <= s
    \/ Len(list.rows) < list.page * PageSize
    \/ list.step = "count"

Change(r) == table' = IF r \in table THEN table \ {r} ELSE table \cup {r}

Noticed(r) ==
    since' = IF since = "moved" \/ Disturbs(r) THEN "moved"
             ELSE IF r \notin table THEN "grown" ELSE since

(* A handler of this caja ends with reloadProducts, reloadClients, reloadSales,
   which search the remembered text again. *)
OwnChange(r) ==
    /\ list.step = "rest"
    /\ Change(r)
    /\ IF list.active
       THEN Count(list.text) /\ since' = "same"
       ELSE Noticed(r) /\ UNCHANGED list
    /\ UNCHANGED <<kind, wide, asked>>

OthersChange(r) ==
    /\ Change(r) /\ Noticed(r)
    /\ UNCHANGED <<kind, wide, list, asked>>

(* The settings page changes the line of business; a page read after that is
   one of another list. *)
ChangeRubro ==
    /\ wide' = ~wide
    /\ since' = "moved"
    /\ UNCHANGED <<kind, table, list, asked>>

-----------------------------------------------------------------------------
Init ==
    /\ kind \in Kinds
    /\ table = Rows
    /\ wide = TRUE
    /\ list = Closed
    /\ asked = ""
    /\ since = "same"

Next ==
    \/ \E text \in Texts : Search(text)
    \/ FirstPage \/ FetchMore \/ SearchAll
    \/ \E r \in Rows : OwnChange(r) \/ OthersChange(r)
    \/ ChangeRubro

Spec == Init /\ [][Next]_vars

-----------------------------------------------------------------------------
Steady == list.step = "rest" /\ since # "moved"
Shows(text) == IsPrefix(list.rows, Listed(text))

(* "anexa el siguiente lote si el servidor tiene mas": a list of which nobody
   removed, inserted or moved a shown row shows the beginning of what its
   search finds, without gap and without repetition, however it was scrolled.
   Lists that have forgotten their text are excepted. *)
ScrollsInOrder == Steady /\ list.text = asked => Shows(asked)

(* canFetchMore, "true si hay mas filas en el servidor que las cargadas": when
   it is false every row is shown that was there when the list was counted and
   still is. *)
EndIsTheEnd ==
    since = "same" /\ list.step = "rest" /\ list.text = asked /\ list.page > 0
        /\ ~CanFetchMore => list.rows = Listed(asked)

(* "reinicia el scroll infinito", "anexa el siguiente lote": what follows the
   first page of a search are the next results of that search. *)
MoreOfTheSame == Steady => Shows(asked)
=============================================================================
