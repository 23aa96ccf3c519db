------------------------------ MODULE MCSales ------------------------------
(* Instances of Sales for TLC. *)
EXTENDS Sales, TLC

(* Every client may owe up to this much. *)
LimitFour == [c \in Clients |-> 4]

(* Terminals are interchangeable. *)
Symmetry == Permutations(Terminals)
=============================================================================
