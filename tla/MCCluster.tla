------------------------------ MODULE MCCluster ------------------------------
\* Instances of Cluster for TLC.
EXTENDS Cluster, TLC

\* Players are interchangeable.
Symmetry == Permutations(Players)
=============================================================================
