---------------------------- MODULE MCJobKeysCas -----------------------------
EXTENDS JobKeysCas, TLC

CallSymmetry == Permutations(Clients)
=============================================================================
