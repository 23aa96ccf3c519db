---------------------------- MODULE Transaction ----------------------------
(***************************************************************************)
(* core/Transaction: the RAII object the services and the repositories     *)
(* open around their writes.  The outermost one on a connection is a       *)
(* BEGIN IMMEDIATE, the ones its callees open are savepoints named after a *)
(* counter kept per connection, outside the database.                      *)
(*                                                                         *)
(* The objects of a connection live on its call stack: only the innermost  *)
(* can be committed or left.  Every owner tests isValid() and returns when *)
(* the constructor failed, so a failed constructor changes nothing here.   *)
(* The writes themselves are members of Items.                             *)
(***************************************************************************)
EXTENDS Integers, Sequences, FiniteSets

CONSTANTS
    Conns,              \* connections: one per caja or worker thread
    NoOne,              \* nobody holds the write lock
    MaxSteps,           \* bound: writes and nested objects of a connection
    MaxDepth,           \* bound: objects open at once on a connection
    EngineMayRollBack   \* whether SQLite may end a transaction on its own

ASSUME TransactionAssumption ==
    /\ NoOne \notin Conns
    /\ MaxSteps \in Nat /\ MaxDepth \in Nat
    /\ EngineMayRollBack \in BOOLEAN

VARIABLES
    disk,       \* what is committed
    writer,     \* SQLite's write lock: the connection in a transaction
    image,      \* what that connection sees
    saves,      \* SQLite's savepoints, oldest first: name and image
    begun,      \* whether its transaction began with BEGIN
    frames,     \* frames[c]: the objects alive on c, outermost first
    depth,      \* depths()[c], the counter of Transaction.cpp
    kept,       \* m_committed of the object that ended last
    steps       \* how many writes and nested objects c has issued

lock == <<writer, image, saves, begun>>
vars == <<disk, lock, frames, depth, kept, steps>>

Items == Conns \X (1..MaxSteps)

(* The level of an InlineTx of InventoryService or of the transaction of
   SettingsRepository: they begin and end on their own, uncounted. *)
Bare == -1

Top(c) == frames[c][Len(frames[c])]
Others(c) == SubSeq(frames[c], 1, Len(frames[c]) - 1)

SavepointName_Shared(d) == 1
SavepointName(d) == d

(* The newest savepoint of a name: the one RELEASE and ROLLBACK TO mean. *)
IsNewest(i, name) ==
    /\ i \in DOMAIN saves /\ saves[i].name = name
    /\ \A j \in DOMAIN saves : saves[j].name = name => j <= i
Newest(name) == CHOOSE i \in DOMAIN saves : IsNewest(i, name)

(* The innermost object's savepoint is still there. *)
Found(c) == \E i \in DOMAIN saves : IsNewest(i, SavepointName(Top(c).level))

Released(d) == IF d > 0 THEN d - 1 ELSE 0

(* The counter after an outermost commit that SQLite refused. *)
DepthAfterRefusal_Kept(d) == d
DepthAfterRefusal(d) == Released(d)

Push(c, level) ==
    frames' = [frames EXCEPT ![c] = Append(@, [level |-> level, base |-> image'])]

(* The innermost object ends; committed is what commit() answered. *)
Pop(c, committed) ==
    /\ frames' = [frames EXCEPT ![c] = Others(c)]
    /\ kept' = committed

(* The counter once the innermost object is gone: bare ones do not count. *)
Counted(c) == IF Top(c).level = Bare THEN depth[c] ELSE Released(depth[c])

Unlock == writer' = NoOne /\ image' = {} /\ saves' = <<>> /\ begun' = FALSE

-----------------------------------------------------------------------------
(* Constructors *)

Acquire_Skipped(c) == UNCHANGED lock
Acquire(c) ==
    /\ writer = NoOne
    /\ writer' = c
    /\ image' = disk
    /\ saves' = <<>>
    /\ begun' = TRUE

(* The counter is zero: BEGIN IMMEDIATE, which waits for the lock or fails. *)
OpenOuter(c) ==
    /\ depth[c] = 0
    /\ steps[c] < MaxSteps
    /\ Acquire(c)
    /\ Push(c, 0)
    /\ depth' = [depth EXCEPT ![c] = 1]
    /\ UNCHANGED <<disk, kept, steps>>

OpenInner(c) ==
    /\ depth[c] > 0
    /\ depth[c] < MaxDepth
    /\ steps[c] < MaxSteps
    /\ writer = c
    /\ saves' = Append(saves, [name |-> SavepointName(depth[c]), image |-> image])
    /\ UNCHANGED <<disk, writer, image, begun, kept>>
    /\ Push(c, depth[c])
    /\ depth' = [depth EXCEPT ![c] = @ + 1]
    /\ steps' = [steps EXCEPT ![c] = @ + 1]

(* The transaction the counter speaks of is gone (EngineRollsBack): the
   SAVEPOINT begins one, which the release of that savepoint commits. *)
OpenStray(c) ==
    /\ depth[c] > 0
    /\ depth[c] < MaxDepth
    /\ steps[c] < MaxSteps
    /\ writer = NoOne
    /\ writer' = c
    /\ image' = disk
    /\ saves' = <<[name |-> SavepointName(depth[c]), image |-> disk]>>
    /\ begun' = FALSE
    /\ Push(c, depth[c])
    /\ depth' = [depth EXCEPT ![c] = @ + 1]
    /\ steps' = [steps EXCEPT ![c] = @ + 1]
    /\ UNCHANGED <<disk, kept>>

(* BEGIN IMMEDIATE of an InlineTx: a Transaction opened inside it would find
   the counter at zero and the lock taken, and be refused. *)
OpenBare(c) ==
    /\ frames[c] = <<>>
    /\ steps[c] < MaxSteps
    /\ Acquire(c)
    /\ Push(c, Bare)
    /\ UNCHANGED <<disk, depth, kept, steps>>

-----------------------------------------------------------------------------
(* Writes *)

Issued(c) == <<c, steps[c] + 1>>

(* Inside a transaction a statement changes the image, outside it commits
   by itself. *)
Write(c) ==
    /\ steps[c] < MaxSteps
    /\ \/ /\ writer = c
          /\ image' = image \cup {Issued(c)}
          /\ UNCHANGED <<disk, writer, saves, begun>>
       \/ /\ writer = NoOne
          /\ disk' = disk \cup {Issued(c)}
          /\ UNCHANGED lock
    /\ steps' = [steps EXCEPT ![c] = @ + 1]
    /\ UNCHANGED <<frames, depth, kept>>

-----------------------------------------------------------------------------
(* commit() *)

Rollback_Skipped == UNCHANGED lock
Rollback == Unlock

CommitOuter(c) ==
    /\ frames[c] # <<>>
    /\ Top(c).level <= 0
    /\ writer = c
    /\ disk' = image
    /\ Unlock
    /\ Pop(c, TRUE)
    /\ depth' = [depth EXCEPT ![c] = Counted(c)]
    /\ UNCHANGED steps

(* SQLite refuses the COMMIT: the transaction is rolled back and closed. *)
CommitRefused(c) ==
    /\ frames[c] # <<>>
    /\ Top(c).level <= 0
    /\ writer = c
    /\ Rollback
    /\ Pop(c, FALSE)
    /\ depth' = [depth EXCEPT ![c] = IF Top(c).level = Bare THEN @
                                     ELSE DepthAfterRefusal(@)]
    /\ UNCHANGED <<disk, steps>>

(* RELEASE SAVEPOINT drops the savepoint and all that are newer; the first
   one of a transaction without a BEGIN takes the transaction with it. *)
Release(i, written) ==
    IF i = 1 /\ ~ begun
    THEN disk' = written /\ Unlock
    ELSE /\ image' = written
         /\ saves' = SubSeq(saves, 1, i - 1)
         /\ UNCHANGED <<disk, writer, begun>>

CommitInner(c) ==
    /\ frames[c] # <<>>
    /\ Top(c).level > 0
    /\ writer = c
    /\ Found(c)
    /\ Release(Newest(SavepointName(Top(c).level)), image)
    /\ Pop(c, TRUE)
    /\ depth' = [depth EXCEPT ![c] = Released(@)]
    /\ UNCHANGED steps

(* RELEASE fails: ROLLBACK TO, which leaves the savepoint itself behind. *)
ReleaseRefused(c) ==
    LET i == Newest(SavepointName(Top(c).level))
    IN  /\ frames[c] # <<>>
        /\ Top(c).level > 0
        /\ writer = c
        /\ Found(c)
        /\ image' = saves[i].image
        /\ saves' = SubSeq(saves, 1, i)
        /\ Pop(c, FALSE)
        /\ depth' = [depth EXCEPT ![c] = Released(@)]
        /\ UNCHANGED <<disk, writer, begun, steps>>

-----------------------------------------------------------------------------
(* The destructor of an object that was not committed *)

LeaveOuter(c) ==
    /\ frames[c] # <<>>
    /\ Top(c).level <= 0
    /\ writer = c
    /\ Rollback
    /\ Pop(c, FALSE)
    /\ depth' = [depth EXCEPT ![c] = Counted(c)]
    /\ UNCHANGED <<disk, steps>>

Unwound_ReleaseOnly(i) == image
Unwound(i) == saves[i].image

(* ROLLBACK TO, then RELEASE. *)
LeaveInner(c) ==
    LET i == Newest(SavepointName(Top(c).level))
    IN  /\ frames[c] # <<>>
        /\ Top(c).level > 0
        /\ writer = c
        /\ Found(c)
        /\ Release(i, Unwound(i))
        /\ Pop(c, FALSE)
        /\ depth' = [depth EXCEPT ![c] = Released(@)]
        /\ UNCHANGED steps

(* Its transaction or its savepoint is gone (EngineRollsBack): COMMIT, RELEASE
   and ROLLBACK fail, and the object is gone with its level. *)
LeaveLost(c) ==
    /\ frames[c] # <<>>
    /\ writer # c \/ (Top(c).level > 0 /\ ~ Found(c))
    /\ Pop(c, FALSE)
    /\ depth' = [depth EXCEPT ![c] = Counted(c)]
    /\ UNCHANGED <<disk, lock, steps>>

-----------------------------------------------------------------------------
(* Failures *)

(* The process dies: SQLite forgets its transaction, the counter is gone. *)
Crash(c) ==
    /\ frames[c] # <<>>
    /\ IF writer = c THEN Unlock ELSE UNCHANGED lock
    /\ frames' = [frames EXCEPT ![c] = <<>>]
    /\ depth' = [depth EXCEPT ![c] = 0]
    /\ UNCHANGED <<disk, kept, steps>>

(* SQLite ends the transaction by itself while it executes a statement (disk
   full, I/O error) and the caller goes on, as it does after the statements
   whose result it ignores (reserveStock ignores none). *)
EngineRollsBack(c) ==
    /\ EngineMayRollBack
    /\ writer = c
    /\ Top(c).level # Bare
    /\ Unlock
    /\ UNCHANGED <<disk, frames, depth, kept, steps>>

Init ==
    /\ disk = {}
    /\ writer = NoOne
    /\ image = {}
    /\ saves = <<>>
    /\ begun = FALSE
    /\ frames = [c \in Conns |-> <<>>]
    /\ depth = [c \in Conns |-> 0]
    /\ kept = FALSE
    /\ steps = [c \in Conns |-> 0]

Close(c) == \/ CommitOuter(c) \/ CommitRefused(c) \/ CommitInner(c)
            \/ ReleaseRefused(c) \/ LeaveOuter(c) \/ LeaveInner(c)
            \/ LeaveLost(c)

Next ==
    \E c \in Conns : \/ OpenOuter(c) \/ OpenInner(c) \/ OpenBare(c)
                     \/ OpenStray(c)
                     \/ Write(c)
                     \/ Close(c)
                     \/ Crash(c) \/ EngineRollsBack(c)

Spec == Init /\ [][Next]_vars

(* A handler runs straight through: it does not wait while it holds objects,
   so what it opened it closes. *)
FairSpec == Spec /\ \A c \in Conns : WF_vars(Close(c))

-----------------------------------------------------------------------------
(* Properties *)

(* The tables of the model have their types. *)
TypeOK ==
    /\ disk \in SUBSET Items
    /\ writer \in Conns \cup {NoOne}
    /\ image \in SUBSET Items
    /\ saves \in Seq([name : Nat, image : SUBSET Items])
    /\ begun \in BOOLEAN
    /\ frames \in [Conns -> Seq([level : Nat \cup {Bare}, base : SUBSET Items])]
    /\ depth \in [Conns -> Nat]
    /\ kept \in BOOLEAN
    /\ steps \in [Conns -> 0..MaxSteps]

(* The counter of a connection, which decides between BEGIN and SAVEPOINT,
   is how deep its live objects are nested, after whatever failed. *)
DepthIsNesting ==
    \A c \in Conns :
        depth[c] = IF frames[c] # <<>> /\ frames[c][1].level = Bare THEN 0
                   ELSE Len(frames[c])

(* A connection is inside a SQLite transaction exactly while it has live
   objects: no object works in autocommit, no transaction outlives them. *)
LockFollowsFrames == \A c \in Conns : writer = c <=> frames[c] # <<>>

(* Names are used again at each level, and a RELEASE that fails leaves its
   savepoint behind: a live object still finds its own by its name. *)
FramesFindTheirSavepoint ==
    \A c \in Conns : writer = c =>
        \A i \in 2..Len(frames[c]) :
            LET name == SavepointName(frames[c][i].level)
            IN  /\ \E k \in DOMAIN saves : saves[k].name = name
                /\ saves[Newest(name)].image = frames[c][i].base

(* MAP_PRO.md: "ninguna operacion multi-escritura puede quedar a medias":
   nothing a handler writes reaches the file while the handler still holds a
   transaction. *)
NothingHalfway ==
    [][\A c \in Conns :
          frames[c] # <<>> /\ frames'[c] # <<>> =>
              disk' \cap ({c} \X (1..MaxSteps)) = disk \cap ({c} \X (1..MaxSteps))]_vars

(* What each object of a stack and its nested ones have written: what the next
   one in found, or what there is now, less what this one found. *)
Written(stack, now) ==
    [i \in DOMAIN stack |->
        (IF i = Len(stack) THEN now ELSE stack[i + 1].base) \ stack[i].base]

Open == [c \in Conns |-> IF writer = c THEN Written(frames[c], image) ELSE <<>>]

Store == INSTANCE AtomicStore WITH store <- disk, open <- Open

(* BEGIN, savepoints named by a counter, and their failures, are nested units
   of work: what an inner object keeps joins the outer one, what it does not
   keep leaves no trace, and the file changes by whole outermost units. *)
ImplementsStore == Store!SSpec

(* The write lock is always given back, whatever fails on the way. *)
LockComesFree == writer # NoOne ~> writer = NoOne

-----------------------------------------------------------------------------
(* The inductive invariant of the proofs *)

(* A connection's objects: none, or a bare one with the lock, or one per level
   from zero up to the counter. *)
Nested(c) ==
    \/ frames[c] = <<>> /\ depth[c] = 0
    \/ /\ Len(frames[c]) = 1 /\ frames[c][1].level = Bare
       /\ depth[c] = 0 /\ writer = c
    \/ /\ Len(frames[c]) > 0 /\ depth[c] = Len(frames[c])
       /\ \A i \in DOMAIN frames[c] : frames[c][i].level = i - 1

NestInv == TypeOK /\ \A c \in Conns : Nested(c)

(* The savepoint of an object of level n is on the stack with the image the
   object started from, and above it are only savepoints of deeper levels:
   those of its callees, and what their failed releases left. *)
OwnSavepoint(c, n) ==
    \E k \in DOMAIN saves :
        /\ saves[k].name = n
        /\ saves[k].image = frames[c][n + 1].base
        /\ \A j \in DOMAIN saves : j > k => saves[j].name > n

(* What holds as long as SQLite ends no transaction by itself. *)
InStep ==
    /\ LockFollowsFrames
    /\ writer # NoOne => begun
    /\ \A c \in Conns : writer = c =>
          \A n \in 1..(Len(frames[c]) - 1) : OwnSavepoint(c, n)

TxInv == NestInv /\ (~ EngineMayRollBack => InStep)
=============================================================================
