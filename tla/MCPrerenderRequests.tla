----------------------- MODULE MCPrerenderRequests ------------------------
(* PrerenderRequests and FetchExchange for TLC.  One worker makes two       *)
(* callbacks into its request at any time: the requests of a service meet   *)
(* only in its end, which comes at any time too.  A request and the fetches *)
(* made while it runs meet only in the request's end, which is an action of *)
(* both; so a behaviour is of either, and their product would add nothing   *)
(* but states.                                                              *)
EXTENDS PrerenderRequests, FetchExchange

serviceVars == <<vars, exchangeVars>>

ServiceInit == Init /\ ExchangeInit

NoFetch   == owner = "open" /\ canceled = {} /\ \A f \in Fetches : kit[f] = "off"
NoRequest == service = "serving" /\ \A r \in Requests : worker[r] = "new"

ServiceNext ==
    \/ NoFetch /\ Next /\ UNCHANGED exchangeVars
    \/ NoRequest /\ ExchangeNext /\ UNCHANGED vars

\* What has to go on in a behaviour of the one or of the other.
Fair ==
    \/ NoFetch /\ GoesOn /\ UNCHANGED exchangeVars
    \/ NoRequest /\ FetchGoesOn /\ UNCHANGED vars

ServiceSpec == ServiceInit /\ [][ServiceNext]_serviceVars /\ WF_serviceVars(Fair)
=============================================================================
