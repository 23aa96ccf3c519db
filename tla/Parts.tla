------------------------------- MODULE Parts -------------------------------
(***************************************************************************)
(* The parts of the system that share no table with one another in what    *)
(* they promise, in one specification: a behaviour picks a part and moves  *)
(* that part only.  Orders and payables have the variables of Orders; a1,  *)
(* a2, ... are those of the part that was picked.  Parts proved in modules *)
(* of their own are instances of these, so that their theorems are facts   *)
(* about the variables of the part.                                        *)
(***************************************************************************)
EXTENDS Orders, FiniteSets

CONSTANTS
    Nobody, Caja,       \* no terminal and no row; a shop of one terminal
    (* secrets, seconds: Auth *)
    Users, Admin, Passwords, Codes, Tokens, MaxAttempts,
    FewPasswords,       \* those of the users that have a second factor
    (* files: Database *)
    Columns, Declared, Indexed, Categories, CopiesKept, MaxWrites,
    (* goods: ProductRows *)
    Products, Makers, MaxStock,
    (* page: Settings *)
    Screens, Sequences, DefaultKeys,
    (* numbers: Folios *)
    FolioTypes, Prefixes, Counters, DefaultSeries, SaleSeries, OrderCounter, Figures,
    Digits, MaxDocs, MaxSeries,
    (* scroll: Listing *)
    Rows, PageSize, Matching, Rubro,
    (* debtors: Parties *)
    ClientIds, ClientNames, ClientLower, ClientLimit, MaxOpen,
    (* tree: Catalog *)
    CategoryIds, CategoryNames, CategoryLower, Filed, Lines,
    (* turns: Sales *)
    Buyers, Clients, Limit, Totals, Abonos, OpeningAmount, SaleTypes, MaxSales, MaxTurns,
    (* engine: Transaction *)
    MaxSteps, MaxDepth

ASSUME PartsAssumption ==
    /\ Nobody \notin Terminals \cup Caja
    /\ DefaultSeries \in [FolioTypes -> [prefix : Prefixes, counter : Counters]]
    /\ SaleSeries \in [prefix : Prefixes, counter : Counters] /\ OrderCounter \in Counters
    /\ Prefixes \subseteq Seq(STRING) /\ Figures \subseteq STRING /\ MaxDocs \in Nat
    /\ Digits \in [1..MaxDocs + 1 -> Seq(Figures)]
    /\ \A m, n \in 1..MaxDocs + 1 : Digits[m] = Digits[n] => m = n
    /\ Declared \subseteq Columns /\ CopiesKept \in Nat \ {0} /\ MaxWrites \in Nat
    /\ Nobody \notin Products /\ MaxStock \in Nat
    /\ DefaultKeys \in [Screens -> Sequences]
    /\ \A s, r \in Screens : DefaultKeys[s] = DefaultKeys[r] => s = r
    /\ "unset" \notin Sequences /\ "bad" \notin Sequences
    /\ Rows \subseteq Nat /\ IsFiniteSet(Rows) /\ PageSize \in Nat \ {0}
    /\ IsFiniteSet(ClientNames)
    /\ Nobody \notin CategoryIds /\ "" \notin CategoryNames
    /\ MaxSteps \in Nat /\ MaxDepth \in Nat
    /\ Clients \subseteq Buyers /\ Buyers # {} /\ Limit \in [Clients -> Nat]
    /\ Totals \subseteq Nat \ {0} /\ Abonos \subseteq Nat \ {0}
    /\ OpeningAmount \in Nat /\ MaxSales \in Nat /\ MaxTurns \in Nat
    /\ SaleTypes \subseteq {"Cotizacion", "Pedido", "Remision", "Factura",
                            "Nota credito", "Nota cargo"}

VARIABLES part, a1, a2, a3, a4, a5, a6, a7, a8, a9

partVars == <<a1, a2, a3, a4, a5, a6, a7, a8, a9>>
allVars == <<part, orderVars, partVars>>

(* Users without, and with, a second factor. *)
Secrets == INSTANCE AuthProofs WITH
    Codes <- {}, Tokens <- {},
    users <- a1, tokens <- a2, session <- a3, job <- a4, lastSet <- a5,
    fails <- a6, accepted <- a7, redeemed <- a8, overlapped <- a9

Seconds == INSTANCE AuthProofs WITH
    Passwords <- FewPasswords,
    users <- a1, tokens <- a2, session <- a3, job <- a4, lastSet <- a5,
    fails <- a6, accepted <- a7, redeemed <- a8, overlapped <- a9

Files == INSTANCE Database WITH
    Procs <- Terminals, Rows <- Categories, Keep <- CopiesKept, NoOne <- Nobody,
    file <- a1, work <- a2, writer <- a3, proc <- a4, backups <- a5,
    entered <- a6, swept <- a7, writes <- a8

Goods == INSTANCE ProductRows WITH
    Terminals <- Caja, Skus <- Products, Nothing <- Nobody,
    stock <- a1, ledger <- a2, parts <- a3, removing <- a4, seeded <- a5,
    uneven <- a6, whole <- a7, making <- a8

Page == INSTANCE Settings WITH
    stored <- a1, cache <- a2, job <- a3, stale <- a4

Numbers == INSTANCE Folios WITH
    Offices <- Caja, Kinds <- FolioTypes,
    stored <- a1, counters <- a2, docs <- a3, used <- a4, job <- a5, ordering <- a6

Scroll == INSTANCE Listing WITH
    kind <- a1, table <- a2, wide <- a3, list <- a4, asked <- a5, since <- a6

Debtors == INSTANCE Parties WITH
    Ids <- ClientIds, Spellings <- ClientNames, Lower <- ClientLower,
    Limit <- ClientLimit, rows <- a1, open <- a2, job <- a3, mixed <- a4

Tree == INSTANCE Catalog WITH
    Ids <- CategoryIds, Spellings <- CategoryNames, Lower <- CategoryLower,
    Skus <- Filed, Root <- Nobody,
    mixedShop <- a1, cats <- a2, filed <- a3, job <- a4, checked <- a5, loose <- a6

Turns == INSTANCE Sales WITH
    Terminals <- Caja, Names <- Buyers, Kinds <- SaleTypes, Amounts <- Abonos, MaxDocs <- MaxSales,
    Ops <- {"sale", "cancel", "open", "close", "abono", "creditNote"},
    docs <- a1, owed <- a2, till <- a3, moved <- a4, arqueos <- a5, job <- a6

Engine == INSTANCE TransactionProofs WITH
    Conns <- Terminals, NoOne <- Nobody, EngineMayRollBack <- TRUE,
    disk <- a1, writer <- a2, image <- a3, saves <- a4, begun <- a5, frames <- a6,
    depth <- a7, kept <- a8, steps <- a9

-----------------------------------------------------------------------------
(* A variable the part does not use is empty. *)
PartsInit ==
    /\ OrdersInit
    /\ \/ /\ part = "orders"
          /\ a1 = {} /\ a2 = {} /\ a3 = {} /\ a4 = {} /\ a5 = {} /\ a6 = {}
          /\ a7 = {} /\ a8 = {} /\ a9 = {}
       \/ \/ part = "secrets" /\ Secrets!Init
          \/ part = "seconds" /\ Seconds!Init
          \/ part = "engine" /\ Engine!Init
       \/ /\ a9 = {}
          /\ \/ part = "files" /\ Files!Init
             \/ part = "goods" /\ Goods!Init
       \/ /\ a7 = {} /\ a8 = {} /\ a9 = {}
          /\ \/ part = "numbers" /\ Numbers!Init
             \/ part = "scroll" /\ Scroll!Init
             \/ part = "tree" /\ Tree!Init
             \/ part = "turns" /\ Turns!Init
       \/ /\ a5 = {} /\ a6 = {} /\ a7 = {} /\ a8 = {} /\ a9 = {}
          /\ \/ part = "page" /\ Page!Init
             \/ part = "debtors" /\ Debtors!Init

PartsNext ==
    /\ UNCHANGED part
    /\ \/ part = "orders" /\ OrdersNext /\ UNCHANGED partVars
       \/ /\ UNCHANGED orderVars
          /\ \/ part = "secrets" /\ Secrets!Next
             \/ part = "seconds" /\ Seconds!Next
             \/ part = "files" /\ Files!Next /\ UNCHANGED a9
             \/ part = "goods" /\ Goods!Next /\ UNCHANGED a9
             \/ part = "page" /\ Page!Next /\ UNCHANGED <<a5, a6, a7, a8, a9>>
             \/ part = "numbers" /\ Numbers!Next /\ UNCHANGED <<a7, a8, a9>>
             \/ part = "scroll" /\ Scroll!Next /\ UNCHANGED <<a7, a8, a9>>
             \/ part = "debtors" /\ Debtors!Next /\ UNCHANGED <<a5, a6, a7, a8, a9>>
             \/ part = "tree" /\ Tree!Next /\ UNCHANGED <<a7, a8, a9>>
             \/ part = "turns" /\ Turns!Next /\ UNCHANGED <<a7, a8, a9>>
             \/ part = "engine" /\ Engine!Next

PartsSpec == PartsInit /\ [][PartsNext]_allVars

-----------------------------------------------------------------------------
(* The named parts are stated and explained in the modules of the parts. *)

(* AuthService: a password is the one last set, and its flag says by whom. *)
CredentialsAsSet ==
    /\ part = "secrets" => Secrets!PasswordAsSet /\ Secrets!MustChangeTellsWho
    /\ part = "seconds" => Seconds!PasswordAsSet /\ Seconds!MustChangeTellsWho

(* AuthService: three wrong passwords in a row lock a user. *)
ThreeFailuresLock ==
    /\ part = "secrets" => Secrets!ThreeFailuresLock
    /\ part = "seconds" => Seconds!ThreeFailuresLock

(* AuthService: recovery codes and tokens are accepted once. *)
SecretsAreSingleUse ==
    part = "seconds" => Seconds!CodesAreSingleUse /\ Seconds!TokensAreSingleUse

(* DatabaseManager: the version seal is true and no category is lost. *)
FileIsWhole == part = "files" => Files!SealIsTrue /\ Files!CategoriesKept

(* DatabaseManager::backup: copies are consistent, and go only for newer ones. *)
BackupsRestore == part = "files" => Files!BackupsRestore

(* ProductRepository, LocationRepository: a product's rows agree, and a kit's
   components exist, but for those removed since they were looked up. *)
RowsAgree == part = "goods" => Goods!RowsAgree /\ Goods!KitsAreComplete

(* SettingsService, SettingsController: no two screens have one shortcut, and
   a caja shows what is stored. *)
SettingsAgree == part = "page" => Page!ShortcutsDistinct /\ Page!CacheIsStored

(* SaleRepository::create, createDocument: no number is skipped, and no series
   is stuck on a folio while the series are apart. *)
SeriesNeverStuck == part = "numbers" => Numbers!SeriesNeverStuck

(* PagedListModel: a scrolled list is the beginning of its search, and all of
   it at the end. *)
ScrollIsTheSearch == part = "scroll" => Scroll!ScrollsInOrder /\ Scroll!EndIsTheEnd

(* ClientRepository: one client owes the open sales of a name. *)
OneDebtor == part = "debtors" => Debtors!OneDebtor

(* CategoryRepository: nothing is filed under a category that is gone. *)
NothingOrphaned == part = "tree" => Tree!NothingOrphaned

(* SaleRepository, CajaRepository: the notes of a document do not exceed it,
   and every turn is reported once, with what its movements add up to. *)
TurnsAndNotesClose == part = "turns" => Turns!TurnsAndNotesClose

(* Transaction: the counter is the nesting depth whatever SQLite does. *)
DepthIsNesting == part = "engine" => Engine!DepthIsNesting
=============================================================================
