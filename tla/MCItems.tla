------------------------------ MODULE MCItems ------------------------------
(* A backpack slot and an ammunition slot, two bags, coins and a gem.        *)
EXTENDS Items

CONSTANTS b1, b2

MCFits == [s \in Slots |-> IF s = 3 THEN Bags ELSE Coins \cup Gems]
MCCapacity == [b \in Bags |-> IF b = b1 THEN 2 ELSE 1]

Symmetry == Permutations(Coins)

=============================================================================
