------------------------- MODULE MCTeamMembership -------------------------
(* TLC instances of TeamMembership.                                         *)
EXTENDS TeamMembership, TLC
CONSTANTS u1, u2, u3, c1, c2, c3, c4

\* Call ids are interchangeable; a row id names the call that added it.
CallSymmetry == Permutations(Call)
=============================================================================
