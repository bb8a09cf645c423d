----------------------------- MODULE MCJobWorker -----------------------------
EXTENDS JobWorker, TLC

\* Workers are interchangeable, and so are jobs where none has a deadline; tokens are
\* chosen.
WorkSymmetry == Permutations(Workers) \union Permutations(Jobs)
=============================================================================
