------------------------------ MODULE MCStock ------------------------------
(* Instances of Stock for TLC: one product, a main warehouse and a second one. *)
EXTENDS Stock, TLC

CONSTANTS OnPrincipal, Elsewhere    \* opening units of the warehouses

MCOpening ==
    [s \in Skus |-> [l \in Locations |-> IF l = Principal THEN OnPrincipal
                                         ELSE Elsewhere]]

(* Terminals are interchangeable. *)
Symmetry == Permutations(Terminals)
=============================================================================
