--------------------------- MODULE MCLoginService ---------------------------
\* Instances of LoginService for TLC.
EXTENDS LoginService, TLC

Symmetry == Permutations(Workers) \cup Permutations(Accounts)
=============================================================================
