---------------------------- MODULE MCSimulator ----------------------------
EXTENDS Simulator, TLC

Symmetry == Permutations(Stations) \cup Permutations(Requests)
=============================================================================
