---------------------------- MODULE MCJobClaims ----------------------------
EXTENDS JobClaims, TLC

Symmetry == Permutations(Workers) \cup Permutations(Claims)
=============================================================================
