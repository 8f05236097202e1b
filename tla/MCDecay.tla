------------------------------ MODULE MCDecay ------------------------------
(* Items that become others, and candelabra, which go out to a type that      *)
(* stops the time, as 2057 and 2041 of items.xml, and are lit again.          *)
EXTENDS Decay, TLC

MCKinds == {"corpse", "bones", "dust", "lit", "unlit"}

MCDecayTime == [k \in MCKinds |->
    CASE k \in {"corpse", "bones", "lit"} -> 2 [] k = "dust" -> 1 [] k = "unlit" -> 0]

MCDecayTo == [k \in MCKinds |->
    CASE k = "corpse" -> "bones" [] k = "bones" -> "dust" [] k = "dust" -> "vanish"
      [] k = "lit" -> "unlit" [] k = "unlit" -> "never"]

MCGroup == [k \in MCKinds |-> IF k = "corpse" THEN "container" ELSE "none"]

MCSymmetry == Permutations(Items)

=============================================================================
