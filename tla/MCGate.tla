------------------------------- MODULE MCGate -------------------------------
EXTENDS Gate, TLC

\* Gated requests are interchangeable (safety runs only).
Symmetry == Permutations(Requests \ Reads)
=============================================================================
