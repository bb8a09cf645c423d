------------------------------ MODULE MCJobKeys ------------------------------
EXTENDS JobKeys, TLC

JobSymmetry == Permutations(Jobs) \union Permutations(Tokens)
=============================================================================
