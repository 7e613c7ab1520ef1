--------------------------- MODULE MCHotRevisions ---------------------------
(* HotRevisions for TLC.  Requests, callers and subrequests are each       *)
(* interchangeable.                                                        *)
EXTENDS HotRevisions, TLC

HolderSymmetry ==
  Permutations(Requests) \cup Permutations(Callers) \cup Permutations(Fetches)
=============================================================================
