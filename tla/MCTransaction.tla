--------------------------- MODULE MCTransaction ---------------------------
(***************************************************************************)
(* Instance of Transaction for TLC: the steps there are while SQLite ends  *)
(* no transaction by itself.  The others, EngineRollsBack and what follows *)
(* from it, are in the run of MCParts.                                     *)
(***************************************************************************)
EXTENDS Transaction

StoreNext ==
    \E c \in Conns : \/ OpenOuter(c) \/ OpenInner(c) \/ OpenBare(c)
                     \/ Write(c)
                     \/ CommitOuter(c) \/ CommitRefused(c)
                     \/ CommitInner(c) \/ ReleaseRefused(c)
                     \/ LeaveOuter(c) \/ LeaveInner(c)
                     \/ Crash(c)

StoreSpec ==
    /\ Init /\ [][StoreNext]_vars
    /\ \A c \in Conns : WF_vars(Close(c))
=============================================================================
