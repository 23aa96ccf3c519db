------------------------------ MODULE Catalog ------------------------------
(***************************************************************************)
(* The tree of categories and the products filed under it.  A product      *)
(* names its category in text: saving it checks that the shop's line of    *)
(* business has that category, removing a category checks that no product  *)
(* and no subcategory is in it, and each of these checks is a statement    *)
(* before the one that writes.                                             *)
(***************************************************************************)
EXTENDS Integers, FiniteSets

CONSTANTS
    Terminals,
    Ids,            \* bound: rows of categories
    Spellings,      \* names of categories as they are written
    Lower,          \* each spelling in lower case
    Skus,
    Lines,          \* lines of business of a category: "", "own", "other"
    Root            \* parent_id 0

VARIABLES
    mixedShop,      \* the line of business is miscelanea or empty
    cats,           \* rows of categories
    filed,          \* products.cat
    job,            \* the handler of each caja after its checks
    (* histories *)
    checked,        \* products whose category was looked up when they were saved
    loose           \* names of categories renamed, written otherwise by a product,
                    \* or removed while something was being saved under them

vars == <<mixedShop, cats, filed, job, checked, loose>>

NoRow == [exists |-> FALSE, name |-> "", parent |-> Root, line |-> ""]
NoJob == [op |-> "none", id |-> Root, sku |-> "", row |-> NoRow, looked |-> FALSE]

Idle(t) == job[t] = NoJob
Starts(t, j) == job' = [job EXCEPT ![t] = j]
Ends(t, op) == job[t].op = op /\ job' = [job EXCEPT ![t] = NoJob]

Exists(i) == cats[i].exists
Listed == {i \in Ids : Exists(i) /\ cats[i].line \in {"", "own"}}
Named(name) == \E i \in Ids : Exists(i) /\ cats[i].name = name
Unique(i, name, parent) ==
    \A j \in Ids \ {i} : Exists(j) => cats[j].name # name \/ cats[j].parent # parent

(* Histories of the handlers that are between their check and their write. *)
Removing(i) == \E c \in Terminals : job[c].op = "remove" /\ job[c].id = i
Saving(c, i) ==
    \/ job[c].op = "save" /\ job[c].row.name = cats[i].name
    \/ job[c].op = "add" /\ job[c].row.parent = i

-----------------------------------------------------------------------------
(* checkVertical: a shop of one line takes the categories of its list, if the
   list has any. *)
Looks == ~mixedShop /\ Listed # {}
Valid(name) == \E i \in Listed : Lower[cats[i].name] = Lower[name]

SaveCheck(t, s, name) ==
    /\ Idle(t)
    /\ Looks => Valid(name)
    /\ Starts(t, [NoJob EXCEPT !.op = "save", !.sku = s, !.row.name = name,
                               !.looked = Looks])
    /\ loose' = IF Looks /\ Valid(name) /\ ~Named(name) THEN loose \cup {name} ELSE loose
    /\ UNCHANGED <<mixedShop, cats, filed, checked>>

SaveCommit(t) ==
    LET j == job[t] IN
    /\ Ends(t, "save")
    /\ filed' = [filed EXCEPT ![j.sku] = j.row.name]
    /\ checked' = IF j.looked THEN checked \cup {j.sku} ELSE checked \ {j.sku}
    /\ loose' = IF \E i \in Ids : Removing(i) /\ cats[i].name = j.row.name
                THEN loose \cup {j.row.name} ELSE loose
    /\ UNCHANGED <<mixedShop, cats>>

RemoveProduct(s) ==
    /\ filed' = [filed EXCEPT ![s] = ""]
    /\ checked' = checked \ {s}
    /\ UNCHANGED <<mixedShop, cats, job, loose>>

-----------------------------------------------------------------------------
AddCheck(t, name, parent, line) ==
    /\ Idle(t)
    /\ parent \in {Root} \cup {i \in Ids : Exists(i)}
    /\ Starts(t, [NoJob EXCEPT !.op = "add", !.row =
                    [exists |-> TRUE, name |-> name, parent |-> parent, line |-> line]])
    /\ UNCHANGED <<mixedShop, cats, filed, checked, loose>>

(* AUTOINCREMENT: the number of a removed row is not given again. *)
AddCommit(t, i) ==
    LET row == job[t].row IN
    /\ Ends(t, "add")
    /\ cats[i] = NoRow /\ Unique(i, row.name, row.parent)
    /\ cats' = [cats EXCEPT ![i] = row]
    /\ loose' = IF Removing(row.parent) THEN loose \cup {cats[row.parent].name} ELSE loose
    /\ UNCHANGED <<mixedShop, filed, checked>>

(* rename leaves the products as they are. *)
Rename(i, name) ==
    /\ Exists(i) /\ Unique(i, name, cats[i].parent)
    /\ cats' = [cats EXCEPT ![i].name = name]
    /\ loose' = loose \cup {cats[i].name} \cup (IF Removing(i) THEN {name} ELSE {})
    /\ UNCHANGED <<mixedShop, filed, job, checked>>

Unused_AsCategoryOnly(i) == \A s \in Skus : filed[s] # cats[i].name
Unused(i) ==
    /\ \A j \in Ids : ~(Exists(j) /\ cats[j].parent = i)
    /\ \A s \in Skus : filed[s] # cats[i].name

RemoveCheck(t, i) ==
    /\ Idle(t)
    /\ Exists(i) /\ Unused(i)
    /\ Starts(t, [NoJob EXCEPT !.op = "remove", !.id = i, !.row = cats[i]])
    /\ UNCHANGED <<mixedShop, cats, filed, checked, loose>>

RemoveCommit(t) ==
    LET i == job[t].id IN
    /\ Ends(t, "remove")
    /\ Exists(i)
    /\ cats' = [cats EXCEPT ![i].exists = FALSE]
    /\ loose' = IF \E c \in Terminals \ {t} : Saving(c, i)
                THEN loose \cup {cats[i].name} ELSE loose
    /\ UNCHANGED <<mixedShop, filed, checked>>

(* The settings page changes the line of business. *)
ChangeRubro ==
    /\ mixedShop' = ~mixedShop
    /\ UNCHANGED <<cats, filed, job, checked, loose>>

Abandon(t) ==
    /\ ~Idle(t)
    /\ job' = [job EXCEPT ![t] = NoJob]
    /\ UNCHANGED <<mixedShop, cats, filed, checked, loose>>

-----------------------------------------------------------------------------
Init ==
    /\ mixedShop = TRUE
    /\ cats = [i \in Ids |-> NoRow]
    /\ filed = [s \in Skus |-> ""]
    /\ job = [t \in Terminals |-> NoJob]
    /\ checked = {}
    /\ loose = {}

Next ==
    \/ \E t \in Terminals :
        \/ \E s \in Skus, name \in Spellings : SaveCheck(t, s, name)
        \/ \E name \in Spellings, parent \in Ids \cup {Root}, line \in Lines :
              AddCheck(t, name, parent, line)
        \/ \E i \in Ids : AddCommit(t, i) \/ RemoveCheck(t, i)
        \/ SaveCommit(t) \/ RemoveCommit(t) \/ Abandon(t)
    \/ \E s \in Skus : RemoveProduct(s)
    \/ \E i \in Ids, name \in Spellings : Rename(i, name)
    \/ ChangeRubro

Spec == Init /\ [][Next]_vars

-----------------------------------------------------------------------------
(* "Tiene subcategorias: eliminelas primero", "Hay productos: recategoricelos
   primero": no product or subcategory is left under a category that is not
   there, but those whose saving overlapped its removal and those written
   otherwise than it. *)
NothingOrphaned ==
    /\ \A s \in checked : filed[s] \in loose \/ Named(filed[s])
    /\ \A i \in Ids : Exists(i) /\ cats[i].parent # Root =>
          cats[cats[i].parent].name \in loose \/ Exists(cats[i].parent)
=============================================================================
