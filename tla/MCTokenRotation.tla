-------------------------- MODULE MCTokenRotation --------------------------
(* TLC instances of TokenRotation.                                          *)
EXTENDS TokenRotation, TLC
CONSTANTS c1, c2, c3, c4

\* Calls are interchangeable.
CallSymmetry == Permutations(Call)
=============================================================================
