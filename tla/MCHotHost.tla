------------------------------ MODULE MCHotHost ------------------------------
(* HotHost for TLC.                                                        *)
EXTENDS HotHost
=============================================================================
