--------------------------- MODULE MCPartialCache ----------------------------
(* The instances of PartialCache that TLC checks.                          *)
EXTENDS PartialCache, TLC

CONSTANTS s1, s2, pA, pB

Symmetry == Permutations({s1, s2}) \cup Permutations({pA, pB})

TwoIndices == {s1, s2}
OneIndex == {s1}
TwoPrevs == {pA, pB}
TwoRounds == 1 .. 2
ThreeRounds == 1 .. 3
=============================================================================
