--------------------------- MODULE MCGeneration ---------------------------
(* Generation over one data file and the helper's own source. *)
EXTENDS Generation
=============================================================================
