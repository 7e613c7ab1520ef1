--------------------------- MODULE MCRenderEngine ---------------------------
(* Model-checking instances of RenderEngine. *)
EXTENDS RenderEngine, TLC

RenderSymmetry == Permutations(Renders)
=============================================================================
