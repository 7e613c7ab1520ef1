----------------------------- MODULE MCRequests -----------------------------
(* What a request of the built server may be, for TLC: one that passes the  *)
(* Handle middleware, with a fetch by the hook or by the application; a     *)
(* call of a command or a form; or a live stream.  The three share no state *)
(* of the server, so a behaviour is of one of them: their product would add *)
(* nothing to it but states.                                                *)
EXTENDS Downstream, RemoteRefresh, LiveQuery

CONSTANTS fetched

Fetched == {fetched}

requestVars == <<vars, refreshVars, streamVars>>

RequestInit == Init /\ RefreshInit /\ StreamInit

\* As the first states have it: none of them obliges anyone to take a step.
NoExchange == hook = "running" /\ ~gone /\ \A e \in Exchanges : app[e] = "off"
NoCall     == call = "handler" /\ names = 0 /\ undecoded = {}
              /\ \A f \in Functions : requested[f] = <<>>
NoStream   == \A s \in Streams : client[s] = "away"

RequestNext ==
  \/ NoCall /\ NoStream /\ Next /\ UNCHANGED <<refreshVars, streamVars>>
  \/ NoExchange /\ NoStream /\ RefreshNext /\ UNCHANGED <<vars, streamVars>>
  \/ NoExchange /\ NoCall /\ StreamNext /\ UNCHANGED <<vars, refreshVars>>

RequestSpec ==
  RequestInit /\ [][RequestNext]_requestVars /\ Scheduled /\ StreamFairness
=============================================================================
