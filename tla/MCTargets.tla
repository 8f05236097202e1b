----------------------------- MODULE MCTargets -----------------------------
EXTENDS Targets, TLC

\* The temple, a protection zone, is beside the field, too far for a client to
\* see from there; the cave is below the field.
MCFloor == [temple |-> 7, field |-> 7, cave |-> 6]
MCClientView == {<<"temple", "temple">>, <<"field", "field">>, <<"cave", "cave">>,
                 <<"field", "cave">>, <<"cave", "field">>}
MCViewport == MCClientView \cup {<<"temple", "field">>, <<"field", "temple">>}
MCFar == {<<"temple", "cave">>, <<"cave", "temple">>}
Symmetry == Permutations(Monsters)
=============================================================================
