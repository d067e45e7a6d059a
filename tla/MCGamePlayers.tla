---------------------------- MODULE MCGamePlayers ----------------------------
\* Instances of GamePlayers for TLC.
EXTENDS GamePlayers, TLC

Symmetry == Permutations(Workers) \cup Permutations(Sessions)
=============================================================================
