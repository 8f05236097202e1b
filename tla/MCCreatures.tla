---------------------------- MODULE MCCreatures ----------------------------
EXTENDS Creatures, TLC

\* Two monsters may blink in a place at a time, or else, while no place is doubled,
\* the monsters may have each other as targets.
MCWithin(entries, chains, twice) ==
  /\ entries \subseteq {n \in Monsters \X {"target"} \X Monsters : n[1] # n[3]}
  /\ \A p \in Places : \/ entries = {} /\ chains[p] <= 2
                       \/ p \notin twice /\ chains[p] <= 1

Symmetry == Permutations(Monsters) \cup Permutations(Places)
=============================================================================
