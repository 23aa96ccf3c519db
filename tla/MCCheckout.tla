---------------------------- MODULE MCCheckout ----------------------------
(* Instance of Promotions for TLC. *)
EXTENDS Promotions, TLC

(* Cajas and units are interchangeable. *)
Symmetry == Permutations(Terminals) \cup Permutations(Serials)
=============================================================================
