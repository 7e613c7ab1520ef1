--------------------------- MODULE MCDataBranch ---------------------------
(* Three nodes, any of which may be asked for, and two promised values.     *)
EXTENDS DataBranch, TLC
Symmetry == Permutations(Promises)
=============================================================================
