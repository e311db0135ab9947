---------------------------- MODULE MCTeamMode ----------------------------
\* Instances of TeamMode for TLC.
EXTENDS TeamMode, TLC

Symmetry == Permutations(Member) \cup Permutations(Slot)
=============================================================================
