------------------------- MODULE MCRequestAdmission -------------------------
(* RequestAdmission for TLC.  Its requests are model values of the cfg.    *)
EXTENDS RequestAdmission
=============================================================================
