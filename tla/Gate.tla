-------------------------------- MODULE Gate --------------------------------
(***************************************************************************)
(* What the public listener of a development session promises about        *)
(* request admission, whatever locks and channels deliver it: a request is *)
(* let in only while the gate is open, a request that is let in stays the  *)
(* gate's business until it leaves, and the gate opens again only after a  *)
(* moment in which nobody was inside but requests already cancelled.       *)
(* RequestAdmission implements it; DevSession is written over it.          *)
(***************************************************************************)
EXTENDS FiniteSets

CONSTANT Requests   \* the requests of a behaviour, each of which arrives once

VARIABLES
  gate,       \* "open": requests enter; "shut": they wait; "closed": refused
  inside,     \* the admitted requests that have not finished
  cancelled   \* those of them whose context is done

gateVars == <<gate, inside, cancelled>>

GateTypeOK ==
  /\ gate \in {"open", "shut", "closed"}
  /\ inside \subseteq Requests
  /\ cancelled \subseteq inside

Quiet == inside \subseteq cancelled

GateInit ==
  /\ gate = "shut"
  /\ inside = {}
  /\ cancelled = {}

Enter(r) ==
  /\ gate = "open"
  /\ r \notin inside
  /\ inside' = inside \cup {r}
  /\ UNCHANGED <<gate, cancelled>>

Leave(r) ==
  /\ r \in inside
  /\ inside' = inside \ {r}
  /\ cancelled' = cancelled \ {r}
  /\ UNCHANGED gate

CancelOne(r) ==
  /\ r \in inside
  /\ cancelled' = cancelled \cup {r}
  /\ UNCHANGED <<gate, inside>>

Shut ==
  /\ gate = "open"
  /\ gate' = "shut"
  /\ UNCHANGED <<inside, cancelled>>

\* Those still inside when the drain runs out lose their contexts.
Expire ==
  /\ gate = "shut"
  /\ cancelled' = inside
  /\ UNCHANGED <<gate, inside>>

Open ==
  /\ gate = "shut"
  /\ Quiet
  /\ gate' = "open"
  /\ UNCHANGED <<inside, cancelled>>

CloseGate ==
  /\ gate # "closed"
  /\ gate' = "closed"
  /\ cancelled' = inside
  /\ UNCHANGED inside

GateNext ==
  \/ \E r \in Requests : Enter(r) \/ Leave(r) \/ CancelOne(r)
  \/ Shut \/ Expire \/ Open \/ CloseGate

GateSpec == GateInit /\ [][GateNext]_gateVars
=============================================================================
