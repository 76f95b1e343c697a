-------------------------- MODULE MCChangeLifecycle --------------------------
EXTENDS ChangeLifecycle, TLC

CONSTANTS m, s1, s2
OneMain == {m}
TwoSides == {s1, s2}
SideSymmetry == Permutations(TwoSides)
==============================================================================
