---------------------------- MODULE MCDevSession ----------------------------
(* DevSession for TLC: the first code, a body edit of it, a structural     *)
(* edit that Kit sees as a new route, and a structural edit that fails.    *)
EXTENDS DevSession, TLC

CONSTANTS a, body, route, bad

MCShape  == [c \in Codes |-> IF c \in {a, body} THEN "s" ELSE "t"]
MCRoutes == [c \in Codes |-> IF c = route THEN "more" ELSE "few"]
NoFault  == [c \in Codes |-> "none"]
StartFault    == [c \in Codes |-> IF c = bad THEN "start" ELSE "none"]
CompileFault  == [c \in Codes |-> IF c = bad THEN "compile" ELSE "none"]
=============================================================================
