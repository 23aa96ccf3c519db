------------------------------ MODULE MCParts ------------------------------
(* Instances of the parts for TLC. *)
EXTENDS Parts, TLC

CostTwo == [s \in Skus |-> 2]
Shortcuts == [pos |-> "c2", menu |-> "c3"]
ThreePrefixes == {<<"NC">>, <<"NC", "1">>, <<"V">>}
OneSeries == [NC |-> [prefix |-> <<"NC">>, counter |-> "N"]]
Till == [prefix |-> <<"V">>, counter |-> "V"]
(* Numbers in base one and without zeros in front, so that few are needed for
   NC and 11 to read as NC1 and 1; the code's are in base ten, of three figures. *)
Unary == << <<"1">>, <<"1", "1">>, <<"1", "1", "1">> >>
ClientCase == [Ana |-> "ana", ANA |-> "ana", Luz |-> "luz"]
CategoryCase == [Te |-> "te", TE |-> "te"]
LimitFour == [n \in Clients |-> 4]

Symmetry == Permutations(Terminals) \cup Permutations(Passwords)
=============================================================================
