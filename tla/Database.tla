------------------------------ MODULE Database ------------------------------
(***************************************************************************)
(* The database file and DatabaseManager::initialize: schema script,       *)
(* missing columns, categories without their old foreign key, first user,  *)
(* version seal.  Processes start at any time, several at once, and die    *)
(* between any two statements; a statement that fails ends the process     *)
(* (main returns -1).  Every statement but the rebuild of categories is    *)
(* committed on its own.                                                   *)
(***************************************************************************)
EXTENDS Integers, FiniteSets, Sequences

CONSTANTS
    Procs,
    Columns,        \* those kColumns adds
    Declared,       \* of these, the ones a table is created with
    Indexed,        \* of these, the ones schema.sql creates an index on
    Rows,           \* rows of categories
    NoOne,
    Keep,           \* backups retained
    MaxWrites       \* bound: writes to the files of backups

Current == 8        \* AppVersion::kSchemaVersion
Future == 9

VARIABLES
    file,       \* what is committed: version, columns, users, the category tables
    work,       \* file as the transaction of writer sees it
    writer,     \* the process in a write transaction
    proc,       \* pc of each process and what it has read
    backups,    \* every file a backup began, in that order
    (* histories *)
    entered,    \* rows of categories ever entered
    swept,      \* backups begun before the last retention that ran to its end
    writes      \* writes to the files of backups, which are their times

vars == <<file, work, writer, proc, backups, entered, swept, writes>>

NoTable == [exists |-> FALSE, fk |-> FALSE, rows |-> {}]
Down == [pc |-> "down", left |-> {}, alter |-> {},
         copy |-> 0, listed |-> {}, seen |-> 0]

At(p, pc) == proc[p].pc = pc
Goes(p, pc) == proc' = [proc EXCEPT ![p].pc = pc]
Returns(p) == proc' = [proc EXCEPT ![p] = [Down EXCEPT !.pc = "open"]]
Free == writer = NoOne
Blank == [version |-> 0, columns |-> {}, users |-> FALSE, old |-> NoTable, main |-> NoTable]

-----------------------------------------------------------------------------
(* initialize *)

Start(p) ==
    /\ At(p, "down")
    /\ proc' = [proc EXCEPT ![p] = [Down EXCEPT !.pc = "tables", !.left = Columns]]
    /\ UNCHANGED <<file, work, writer, backups, entered, swept, writes>>

(* schema.sql: CREATE TABLE IF NOT EXISTS leaves an old table as it is. *)
CreateTables(p) ==
    /\ At(p, "tables") /\ Free
    /\ file' = IF file.main.exists THEN file
               ELSE [file EXCEPT !.main = [NoTable EXCEPT !.exists = TRUE],
                                 !.columns = Declared]
    /\ Goes(p, "indexes")
    /\ UNCHANGED <<work, writer, backups, entered, swept, writes>>

(* An index on a column the table does not have is an error. *)
CreateIndexes(p) ==
    /\ At(p, "indexes") /\ Free
    /\ Goes(p, IF Indexed \subseteq file.columns THEN "columns" ELSE "refused")
    /\ UNCHANGED <<file, work, writer, backups, entered, swept, writes>>

(* ensureColumn: PRAGMA table_info, then ALTER TABLE if the column was not
   there; another process may have added it in between. *)
InspectColumn(p, c) ==
    /\ At(p, "columns") /\ proc[p].alter = {}
    /\ c \in proc[p].left
    /\ proc' = [proc EXCEPT ![p].left = @ \ {c},
                            ![p].alter = IF c \in file.columns THEN {} ELSE {c}]
    /\ UNCHANGED <<file, work, writer, backups, entered, swept, writes>>

AddColumn(p) ==
    /\ At(p, "columns") /\ Free
    /\ proc[p].alter # {}
    /\ IF proc[p].alter \subseteq file.columns
       THEN Goes(p, "refused") /\ UNCHANGED file
       ELSE /\ file' = [file EXCEPT !.columns = @ \cup proc[p].alter]
            /\ proc' = [proc EXCEPT ![p].alter = {}]
    /\ UNCHANGED <<work, writer, backups, entered, swept, writes>>

Migrated_First(p) == At(p, "columns")
Migrated(p) == At(p, "columns") /\ proc[p].left = {} /\ proc[p].alter = {}

(* migrateCategoriesFk reads the foreign keys of the table, and only then
   begins its transaction. *)
InspectCategories(p) ==
    /\ Migrated(p)
    /\ Goes(p, IF file.main.fk THEN "begin" ELSE "seed")
    /\ UNCHANGED <<file, work, writer, backups, entered, swept, writes>>

BeginRebuild(p) ==
    /\ At(p, "begin") /\ Free
    /\ writer' = p /\ work' = file
    /\ Goes(p, "rename")
    /\ UNCHANGED <<file, backups, entered, swept, writes>>

(* The four statements, each seen by this connection only. *)
Rebuilt(pc) ==
    CASE pc = "rename" -> [work EXCEPT !.old = work.main, !.main = NoTable]
      [] pc = "create" -> [work EXCEPT !.main = [NoTable EXCEPT !.exists = TRUE]]
      [] pc = "copy"   -> [work EXCEPT !.main.rows = work.old.rows]
      [] pc = "drop"   -> [work EXCEPT !.old = NoTable]

NextStatement ==
    [rename |-> "create", create |-> "copy", copy |-> "drop", drop |-> "commit"]

Visible_AtOnce(pc) == file' = Rebuilt(pc)
Visible(pc) == UNCHANGED file

Rebuild(p, pc) ==
    /\ At(p, pc) /\ writer = p
    /\ work' = Rebuilt(pc)
    /\ Visible(pc)
    /\ Goes(p, NextStatement[pc])
    /\ UNCHANGED <<writer, backups, entered, swept, writes>>

CommitRebuild(p) ==
    /\ At(p, "commit") /\ writer = p
    /\ file' = work
    /\ writer' = NoOne /\ work' = Blank
    /\ Goes(p, "seed")
    /\ UNCHANGED <<backups, entered, swept, writes>>

(* ensureSeeded: the seed is one INSERT OR IGNORE of the administrator. *)
EnsureSeeded(p) ==
    /\ At(p, "seed") /\ Free
    /\ file' = [file EXCEPT !.users = TRUE]
    /\ Goes(p, "version")
    /\ UNCHANGED <<work, writer, backups, entered, swept, writes>>

EnsureVersioned(p) ==
    /\ At(p, "version") /\ Free
    /\ IF file.version > Current
       THEN Goes(p, "refused") /\ UNCHANGED file
       ELSE Goes(p, "open") /\ file' = [file EXCEPT !.version = Current]
    /\ UNCHANGED <<work, writer, backups, entered, swept, writes>>

(* busy_timeout: a statement that waited too long for the lock fails. *)
Busy(p) ==
    /\ ~Free /\ writer # p
    /\ proc[p].pc \in {"tables", "indexes", "columns", "begin", "seed", "version"}
    /\ Goes(p, "refused")
    /\ UNCHANGED <<file, work, writer, backups, entered, swept, writes>>

(* close, the end of a refused start, or a crash: an open transaction of the
   process is rolled back by the next reader. *)
Stop(p) ==
    /\ ~At(p, "down")
    /\ proc' = [proc EXCEPT ![p] = Down]
    /\ IF writer = p THEN writer' = NoOne /\ work' = Blank
       ELSE UNCHANGED <<writer, work>>
    /\ UNCHANGED <<file, backups, entered, swept, writes>>

-----------------------------------------------------------------------------
(* An open database *)

EnterCategory(p, r) ==
    /\ At(p, "open") /\ Free
    /\ r \notin entered
    /\ file' = [file EXCEPT !.main.rows = @ \cup {r}]
    /\ entered' = entered \cup {r}
    /\ UNCHANGED <<work, writer, proc, backups, swept, writes>>

(* backup: VACUUM INTO copies what is committed when it begins, whoever is in
   a transaction, to a file of its own: a process that dies leaves it torn. *)
CopyBegins(p) ==
    /\ At(p, "open")
    /\ writes < MaxWrites
    /\ writes' = writes + 1
    /\ backups' = Append(backups, [db |-> file, entered |-> entered,
                                  begun |-> writes + 1, time |-> writes + 1,
                                  ended |-> FALSE, kept |-> TRUE])
    /\ proc' = [proc EXCEPT ![p].pc = "vacuum", ![p].copy = Len(backups) + 1]
    /\ UNCHANGED <<file, work, writer, entered, swept>>

CopyWrites(p, ended) ==
    /\ At(p, "vacuum")
    /\ ended \/ writes < MaxWrites
    /\ writes' = writes + 1
    /\ LET c == proc[p].copy IN
       backups' = [backups EXCEPT
                     ![c].time = IF backups[c].kept THEN writes + 1 ELSE @,
                     ![c].ended = ended]
    /\ Goes(p, IF ended THEN "list" ELSE "vacuum")
    /\ UNCHANGED <<file, work, writer, entered, swept>>

CopyFails(p) ==
    /\ At(p, "vacuum")
    /\ Returns(p)
    /\ UNCHANGED <<file, work, writer, backups, entered, swept, writes>>

(* Retention: entryInfoList reads names and times once, of torn files and of
   those another process is writing too. *)
ListCopies(p) ==
    /\ At(p, "list")
    /\ proc' = [proc EXCEPT
                  ![p].pc = "prune", ![p].seen = Len(backups),
                  ![p].listed = {[copy |-> i, time |-> backups[i].time] :
                                   i \in {j \in DOMAIN backups : backups[j].kept}}]
    /\ UNCHANGED <<file, work, writer, backups, entered, swept, writes>>

TooMany(p) == Cardinality(proc[p].listed) > Keep

Last_First(p, f) == \A g \in proc[p].listed : g.time <= f.time
Last(p, f) == \A g \in proc[p].listed : f.time <= g.time

RemoveLast(p, f) ==
    /\ At(p, "prune") /\ TooMany(p)
    /\ f \in proc[p].listed /\ Last(p, f)
    /\ backups[f.copy].kept
    /\ backups' = [backups EXCEPT ![f.copy].kept = FALSE]
    /\ proc' = [proc EXCEPT ![p].listed = @ \ {f}]
    /\ UNCHANGED <<file, work, writer, entered, swept, writes>>

(* Another process removed the file first, or holds it open: else break. *)
RemovalFails(p) ==
    /\ At(p, "prune") /\ TooMany(p)
    /\ Returns(p)
    /\ UNCHANGED <<file, work, writer, backups, entered, swept, writes>>

EndRetention(p) ==
    /\ At(p, "prune") /\ ~TooMany(p)
    /\ Returns(p)
    /\ swept' = IF proc[p].seen > swept THEN proc[p].seen ELSE swept
    /\ UNCHANGED <<file, work, writer, backups, entered, writes>>

Backup(p) ==
    \/ CopyBegins(p) \/ CopyFails(p)
    \/ \E ended \in BOOLEAN : CopyWrites(p, ended)
    \/ ListCopies(p)
    \/ \E f \in proc[p].listed : RemoveLast(p, f)
    \/ RemovalFails(p) \/ EndRetention(p)

-----------------------------------------------------------------------------
(* A new file, one of an earlier version, this one's, or a later one's. *)
Init ==
    \E old \in SUBSET Columns, fk \in BOOLEAN, first \in SUBSET Rows,
       v \in {0, Current, Future} :
        /\ v >= Current => old = Columns /\ ~fk
        /\ file \in {[version |-> v, columns |-> old, users |-> TRUE, old |-> NoTable,
                      main |-> [exists |-> TRUE, fk |-> fk, rows |-> first]],
                     Blank}
        /\ entered = file.main.rows
        /\ swept = 0 /\ writes = 0
        /\ work = Blank
        /\ writer = NoOne
        /\ proc = [p \in Procs |-> Down]
        /\ backups = <<>>

Initialize(p) ==
    \/ Start(p) \/ CreateTables(p) \/ CreateIndexes(p)
    \/ \E c \in Columns : InspectColumn(p, c)
    \/ AddColumn(p)
    \/ InspectCategories(p) \/ BeginRebuild(p)
    \/ \E pc \in DOMAIN NextStatement : Rebuild(p, pc)
    \/ CommitRebuild(p)
    \/ EnsureSeeded(p) \/ EnsureVersioned(p)

Next ==
    \E p \in Procs :
        \/ Initialize(p) \/ Busy(p) \/ Stop(p)
        \/ \E r \in Rows : EnterCategory(p, r)
        \/ Backup(p)

Spec == Init /\ [][Next]_vars

-----------------------------------------------------------------------------
(* "aqui solo se sella y se valida la version": a file that carries the version
   of the program has every column, categories without the foreign key and a
   user, whichever processes started, overlapped or died on the way. *)
SealIsTrue ==
    file.version = Current => /\ Columns \subseteq file.columns
                              /\ file.main.exists /\ ~file.main.fk
                              /\ file.users

(* "se reconstruye identica pero sin el REFERENCES (datos intactos)": no row of
   categories is lost, nor left behind in the renamed table. *)
CategoriesKept == file.main.rows = entered /\ ~file.old.exists

(* "copia consistente en caliente", "conservar los keep mas recientes": a copy
   that ended opens as it is, with what had been entered; a copy goes only when
   Keep others were written since it was begun, whichever processes copy, list,
   remove and die at once; a retention that runs to its end leaves no more than
   Keep of those it found. *)
BackupsRestore ==
    /\ \A i \in DOMAIN backups :
          backups[i].ended => /\ backups[i].db.version = Current
                              /\ Columns \subseteq backups[i].db.columns
                              /\ ~backups[i].db.main.fk
                              /\ backups[i].db.main.rows = backups[i].entered
    /\ \A i \in DOMAIN backups :
          ~backups[i].kept =>
             Keep <= Cardinality({j \in DOMAIN backups \ {i} :
                                    backups[j].time >= backups[i].begun})
    /\ Cardinality({i \in 1..swept : backups[i].kept}) <= Keep

(* MIGRATIONS.md: "user_version == 0 (legada o fresca): corre migraciones
   historicas y sella a 8"; only a file of a later version is refused. *)
OnlyFutureRefused ==
    \A p \in Procs : At(p, "refused") => file.version > Current
=============================================================================
