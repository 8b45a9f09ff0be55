---------------------------- MODULE MCMovieFlow ----------------------------
EXTENDS MovieFlow, TLC
Symmetry == Permutations(Procs)
=============================================================================
