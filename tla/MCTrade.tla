------------------------------ MODULE MCTrade ------------------------------
(* Small instances of Trade for TLC. *)
EXTENDS Trade, TLC

MCSymmetry == Permutations(Players)
=============================================================================
