------------------------------ MODULE Settings ------------------------------
(***************************************************************************)
(* The settings table and the settings page of each caja.  validate()      *)
(* reads the stored shortcuts before setAll() begins its transaction, the  *)
(* page sends every field it shows, and the other cajas keep what they     *)
(* loaded until they load again: nothing tells them.                       *)
(*                                                                         *)
(* Of the thirty keys the shortcuts relate to one another, and the folio   *)
(* series to documents (module Folios); the rest are one key, rubro, with  *)
(* values to accept and to refuse.                                         *)
(***************************************************************************)
EXTENDS Integers, FiniteSets

CONSTANTS
    Terminals,
    Screens,        \* what a shortcut opens
    Sequences,      \* key sequences QKeySequence takes
    DefaultKeys     \* defaultShortcuts()

Unset == "unset"
BadSequence == "bad"
BadRubro == "inventado"
BusinessTypes == {"miscelanea", "farmacia"}

VARIABLES
    stored,         \* table settings: shortcuts and rubro
    cache,          \* SettingsController::m_cache of each caja
    job,            \* what a caja has validated and not yet written
    stale           \* history: cajas that did not load since another one saved

vars == <<stored, cache, job, stale>>

NoJob == [busy |-> FALSE, sent |-> Unset]

(* shortcut() and all(): a key without a row has its default. *)
Keys(table) == [s \in Screens |-> IF table.keys[s] = Unset THEN DefaultKeys[s] ELSE table.keys[s]]

All(table) == [keys |-> Keys(table), rubro |-> table.rubro]

Injective(f) == \A a, b \in DOMAIN f : f[a] = f[b] => a = b

(* validate() over the map sent; sent.keys holds the shortcuts it contains. *)
ValidKeys(sent) ==
    LET effective == [s \in Screens |-> IF s \in DOMAIN sent.keys THEN sent.keys[s]
                                        ELSE Keys(stored)[s]]
    IN  Injective(effective) /\ \A s \in Screens : effective[s] # BadSequence

Valid(sent) == ValidKeys(sent) /\ sent.rubro \in BusinessTypes \cup {Unset}

(* Every field of the page, however little of it was edited. *)
Sent_Edited(t, s, key, rubro) == [keys |-> [x \in {s} |-> key], rubro |-> rubro]
Sent(t, s, key, rubro) == [keys |-> [cache[t].keys EXCEPT ![s] = key], rubro |-> rubro]

Validates(t, sent) ==
    /\ ~job[t].busy
    /\ Valid(sent)
    /\ job' = [job EXCEPT ![t] = [busy |-> TRUE, sent |-> sent]]
    /\ UNCHANGED <<stored, cache, stale>>

SavePage(t, s, key, rubro) == Validates(t, Sent(t, s, key, rubro))

(* The seed dialog saves the rubro alone, before the seed is tried. *)
SaveRubro(t, rubro) == Validates(t, [keys |-> [x \in {} |-> Unset], rubro |-> rubro])

Written(sent) ==
    [stored EXCEPT !.keys = [s \in Screens |-> IF s \in DOMAIN sent.keys THEN sent.keys[s] ELSE @[s]],
                   !.rubro = IF sent.rubro = Unset THEN @ ELSE sent.rubro]

Reloaded_NotAtAll(t) == cache[t]
Reloaded(t) == All(stored')

(* setAll() in one transaction, settingsChanged, load(). *)
Save(t) ==
    /\ job[t].busy
    /\ stored' = Written(job[t].sent)
    /\ cache' = [cache EXCEPT ![t] = Reloaded(t)]
    /\ stale' = IF stored' = stored THEN stale \ {t} ELSE (stale \cup Terminals) \ {t}
    /\ job' = [job EXCEPT ![t] = NoJob]

(* A statement of setAll fails and all is rolled back, or the process dies. *)
SaveFails(t) ==
    /\ job[t].busy
    /\ job' = [job EXCEPT ![t] = NoJob]
    /\ UNCHANGED <<stored, cache, stale>>

(* Opening the page, or the program. *)
Load(t) ==
    /\ ~job[t].busy
    /\ cache' = [cache EXCEPT ![t] = All(stored)]
    /\ stale' = stale \ {t}
    /\ UNCHANGED <<stored, job>>

-----------------------------------------------------------------------------
Init ==
    /\ stored = [keys |-> [s \in Screens |-> Unset], rubro |-> "miscelanea"]
    /\ cache = [t \in Terminals |-> All(stored)]
    /\ job = [t \in Terminals |-> NoJob]
    /\ stale = {}

Next ==
    \E t \in Terminals :
        \/ \E s \in Screens, key \in Sequences \cup {BadSequence},
              rubro \in BusinessTypes \cup {BadRubro} : SavePage(t, s, key, rubro)
        \/ \E rubro \in BusinessTypes : SaveRubro(t, rubro)
        \/ Save(t) \/ SaveFails(t) \/ Load(t)

Spec == Init /\ [][Next]_vars

-----------------------------------------------------------------------------
(* "dos acciones con la misma secuencia dispararian ambas a la vez": no two
   screens have one shortcut, though two cajas validate before either writes. *)
ShortcutsDistinct == Injective(Keys(stored)) /\ BadSequence \notin {Keys(stored)[s] : s \in Screens}

(* A caja shows what is stored, unless another caja has saved since it loaded. *)
CacheIsStored == \A t \in Terminals \ stale : cache[t] = All(stored)
=============================================================================
