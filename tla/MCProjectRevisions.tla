------------------------ MODULE MCProjectRevisions ------------------------
(* Two calls of Prepare over two declaration keys. *)
EXTENDS ProjectRevisions
=============================================================================
