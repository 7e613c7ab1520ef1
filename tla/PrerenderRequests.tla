------------------------- MODULE PrerenderRequests -------------------------
(***************************************************************************)
(* prerender_request.go and prerender_service.go: the build service that   *)
(* runs the application's own request hooks for Kit's prerender workers.   *)
(* A worker begins a request, whose handler runs in a goroutine of its own *)
(* until it asks for Kit's response; it then calls back into the suspended *)
(* request, hands over the response and ends the request.  Every call may  *)
(* be given up by its worker, and the service may stop at any moment.      *)
(*                                                                         *)
(* A worker owns one request, and is an element of Requests.  Its calls    *)
(* are begin, response, end and Callbacks, each made at most once, which   *)
(* is what internal/adapter/skgo-adapter/prerender.js does.                *)
(***************************************************************************)
EXTENDS Naturals, FiniteSets

CONSTANTS Requests, Callbacks

ASSUME ConstantsAssumption ==
    /\ IsFiniteSet(Requests) /\ IsFiniteSet(Callbacks)
    /\ Callbacks \cap {"begin", "response", "end"} = {}

VARIABLES
    service, \* the service: serving, leaving, cancelled, closing, over
    failed,  \* the channel of abandoned calls, and what the service returns
    entries, \* prerenderRequests.entries
    doomed,  \* the entries close took
    entry,   \* prerenderRequest, and where its handler's goroutine is
    call,    \* each call: where it is in the service, and how it was answered
    worker   \* what the worker does

vars == <<service, failed, entries, doomed, entry, call, worker>>

Kinds    == {"begin", "response", "end"} \cup Callbacks
Handlers == {"none", "hook", "parked", "after", "over"}
Stops    == {"idle", "registering", "asking", "begun", "ending", "running",
             "sending", "waiting", "answered"}
Answers  == {"none", "resolve", "final", "ok", "failed", "canceled", "refused"}
NewEntry == [at |-> "none", ready |-> FALSE, response |-> FALSE,
             took |-> FALSE, cancelled |-> FALSE, closing |-> FALSE,
             known |-> FALSE, failure |-> FALSE, active |-> 0]

TypeOK ==
    /\ service \in {"serving", "leaving", "cancelled", "closing", "over"}
    /\ failed \in [channel : BOOLEAN, returned : BOOLEAN]
    /\ entries \subseteq Requests /\ doomed \subseteq Requests
    /\ entry \in [Requests -> [at : Handlers, ready : BOOLEAN,
          response : BOOLEAN, took : BOOLEAN, cancelled : BOOLEAN,
          closing : BOOLEAN, known : BOOLEAN, failure : BOOLEAN,
          active : 0..Cardinality(Kinds)]]
    /\ call \in [Requests -> [Kinds -> [at : Stops, gone : BOOLEAN,
                                        answer : Answers]]]
    /\ worker \in [Requests -> {"new", "begin", "work", "response", "end",
                                "over"}]

Init ==
    /\ service = "serving" /\ failed = [channel |-> FALSE, returned |-> FALSE]
    /\ entries = {} /\ doomed = {}
    /\ entry = [r \in Requests |-> NewEntry]
    /\ call = [r \in Requests |-> [k \in Kinds |->
                  [at |-> "idle", gone |-> FALSE, answer |-> "none"]]]
    /\ worker = [r \in Requests |-> "new"]

At(r, k, stop) == call[r][k].at = stop
Move(r, k, stop) == call' = [call EXCEPT ![r][k].at = stop]
Answer(r, k, answer) ==
    call' = [call EXCEPT ![r][k].at = "answered", ![r][k].answer = answer]
Answered(r, k) == At(r, k, "answered") /\ ~call[r][k].gone
Pending(r, k) == call[r][k].at \notin {"idle", "answered"}

\* The context of a call ends with its worker's or with the service's.
Stopped == service \in {"cancelled", "closing", "over"}
Ended(r, k) == call[r][k].gone \/ Stopped

\* Mutant: a request whose context is not derived from the service's.
CancelledAlone(r) == entry[r].cancelled

\* A request's context is the service's, and entry.cancel ends it.
Cancelled(r) == entry[r].cancelled \/ Stopped

---------------------------------------------------------------------------
(* The handler's goroutine, and the next it calls. *)

\* The hook asks for Kit's response, answers or refuses itself, or panics.
Hook(r) ==
    /\ entry[r].at = "hook"
    /\ \/ entry' = [entry EXCEPT ![r].at = "parked", ![r].ready = TRUE]
       \/ \E failure \in BOOLEAN :
            entry' = [entry EXCEPT ![r].at = "over", ![r].failure = failure]
    /\ UNCHANGED <<service, failed, entries, doomed, call, worker>>

Take(r) ==
    /\ entry[r].at = "parked" /\ entry[r].response
    /\ entry' = [entry EXCEPT ![r].at = "after", ![r].response = FALSE,
                              ![r].took = TRUE]
    /\ UNCHANGED <<service, failed, entries, doomed, call, worker>>

\* Mutant: a handler that was aborted looks like one that returned.
AbortSilently(r) ==
    /\ entry[r].at = "parked" /\ Cancelled(r)
    /\ entry' = [entry EXCEPT ![r].at = "over"]
    /\ UNCHANGED <<service, failed, entries, doomed, call, worker>>

\* next panics with http.ErrAbortHandler when its request was cancelled.
Abort(r) ==
    /\ entry[r].at = "parked" /\ Cancelled(r)
    /\ entry' = [entry EXCEPT ![r].at = "over", ![r].failure = TRUE]
    /\ UNCHANGED <<service, failed, entries, doomed, call, worker>>

\* The hooks around next go on with its response.
After(r) ==
    /\ entry[r].at = "after"
    /\ \E failure \in BOOLEAN :
          entry' = [entry EXCEPT ![r].at = "over", ![r].failure = failure]
    /\ UNCHANGED <<service, failed, entries, doomed, call, worker>>

---------------------------------------------------------------------------
(* begin. *)

\* A request nothing can be built from is refused before it is registered.
BeginRefused(r) ==
    /\ At(r, "begin", "registering") /\ Answer(r, "begin", "failed")
    /\ UNCHANGED <<service, failed, entries, doomed, entry, worker>>

\* The entry is registered before its handler runs.
Register(r) ==
    /\ At(r, "begin", "registering")
    /\ entries' = entries \cup {r}
    /\ entry' = [entry EXCEPT ![r].at = "hook"]
    /\ Move(r, "begin", "begun")
    /\ UNCHANGED <<service, failed, doomed, worker>>

BeginReady(r) ==
    /\ At(r, "begin", "begun") /\ entry[r].ready
    /\ entry' = [entry EXCEPT ![r].ready = FALSE, ![r].known = TRUE]
    /\ Answer(r, "begin", "resolve")
    /\ UNCHANGED <<service, failed, entries, doomed, worker>>

\* A handler that is done before it asked: its own answer, or a failure, which
\* ends the request.
BeginDone(r) ==
    /\ At(r, "begin", "begun") /\ entry[r].at = "over"
    /\ IF entry[r].failure THEN Move(r, "begin", "ending")
                           ELSE Answer(r, "begin", "final")
    /\ UNCHANGED <<service, failed, entries, doomed, entry, worker>>

BeginGone(r) ==
    /\ At(r, "begin", "begun") /\ Ended(r, "begin")
    /\ Move(r, "begin", "ending")
    /\ UNCHANGED <<service, failed, entries, doomed, entry, worker>>

---------------------------------------------------------------------------
(* acquire, end and close. *)

\* Mutant: a handle that was once given is looked up no further.
AcquirableLate(r) == entry[r].known

Acquirable(r) == r \in entries /\ ~entry[r].closing /\ entry[r].known

\* A call into the suspended request holds it until it returns.
Acquire(r, k) ==
    /\ At(r, k, "asking")
    /\ IF Acquirable(r)
       THEN /\ entry' = [entry EXCEPT ![r].active = @ + 1]
            /\ Move(r, k, IF k = "response" THEN "sending" ELSE "running")
       ELSE Answer(r, k, "refused") /\ UNCHANGED entry
    /\ UNCHANGED <<service, failed, entries, doomed, worker>>

\* Mutant: an end that answers without waiting.
EndingAtOnce(r, k) ==
    /\ At(r, k, "ending")
    /\ IF r \in entries
       THEN /\ entries' = entries \ {r}
            /\ entry' = [entry EXCEPT ![r].closing = TRUE, ![r].cancelled = TRUE]
            /\ Answer(r, k, "failed")
       ELSE Answer(r, k, "refused") /\ UNCHANGED <<entries, entry>>
    /\ UNCHANGED <<service, failed, doomed, worker>>

\* Mutant: an end that waits for a handler it did not cancel.
EndingPolitely(r, k) ==
    /\ At(r, k, "ending")
    /\ IF r \in entries
       THEN /\ entries' = entries \ {r}
            /\ entry' = [entry EXCEPT ![r].closing = TRUE]
            /\ Move(r, k, "waiting")
       ELSE Answer(r, k, "refused") /\ UNCHANGED <<entries, entry>>
    /\ UNCHANGED <<service, failed, doomed, worker>>

\* end unregisters the request, refuses further calls, cancels it.
Ending(r, k) ==
    /\ At(r, k, "ending")
    /\ IF r \in entries
       THEN /\ entries' = entries \ {r}
            /\ entry' = [entry EXCEPT ![r].closing = TRUE, ![r].cancelled = TRUE]
            /\ Move(r, k, "waiting")
       ELSE Answer(r, k, "refused") /\ UNCHANGED <<entries, entry>>
    /\ UNCHANGED <<service, failed, doomed, worker>>

\* It waits for the handler and for every call that holds the request.
Quiet(r) == entry[r].at = "over" /\ entry[r].active = 0
EndWaited(r, k) ==
    /\ k \in {"begin", "end"} /\ At(r, k, "waiting") /\ Quiet(r)
    /\ Answer(r, k, IF k = "end" THEN "ok" ELSE "failed")
    /\ UNCHANGED <<service, failed, entries, doomed, entry, worker>>

\* close takes every entry that is registered, cancels it and waits for it.
Close ==
    /\ service = "closing" /\ doomed = {} /\ entries # {}
    /\ doomed' = entries /\ entries' = {}
    /\ entry' = [r \in Requests |-> IF r \in entries
                    THEN [entry[r] EXCEPT !.cancelled = TRUE] ELSE entry[r]]
    /\ UNCHANGED <<service, failed, call, worker>>

---------------------------------------------------------------------------
(* Callbacks and the response. *)

CallbackReturns(r, k) ==
    /\ k \in Callbacks /\ At(r, k, "running")
    /\ entry' = [entry EXCEPT ![r].active = @ - 1]
    /\ Answer(r, k, IF Ended(r, k) \/ Cancelled(r) THEN "canceled" ELSE "ok")
    /\ UNCHANGED <<service, failed, entries, doomed, worker>>

Send(r) ==
    /\ At(r, "response", "sending") /\ ~entry[r].response
    /\ entry' = [entry EXCEPT ![r].response = TRUE]
    /\ Move(r, "response", "waiting")
    /\ UNCHANGED <<service, failed, entries, doomed, worker>>

\* What the handler made of the response, or its failure.
Responded(r) ==
    /\ At(r, "response", "waiting") /\ entry[r].at = "over"
    /\ entry' = [entry EXCEPT ![r].active = @ - 1]
    /\ Answer(r, "response", IF entry[r].failure THEN "failed" ELSE "ok")
    /\ UNCHANGED <<service, failed, entries, doomed, worker>>

\* A worker that goes away cancels its request.
ResponseGone(r) ==
    /\ call[r]["response"].at \in {"sending", "waiting"} /\ Ended(r, "response")
    /\ entry' = [entry EXCEPT ![r].active = @ - 1, ![r].cancelled = TRUE]
    /\ Answer(r, "response", "canceled")
    /\ UNCHANGED <<service, failed, entries, doomed, worker>>

---------------------------------------------------------------------------
(* The service. *)

\* A call given up before it was answered fails the build; the channel keeps
\* the first.
GiveUp(r, k) ==
    /\ Pending(r, k) /\ ~call[r][k].gone
    /\ call' = [call EXCEPT ![r][k].gone = TRUE]
    /\ failed' = [failed EXCEPT !.channel = @ \/ ~Stopped]
    /\ UNCHANGED <<service, entries, doomed, entry, worker>>

\* The owner is gone, a signal came, or a call was abandoned.
Leave ==
    /\ service = "serving" /\ service' = "leaving"
    /\ failed' = [failed EXCEPT !.returned = failed.channel]
    /\ UNCHANGED <<entries, doomed, entry, call, worker>>

Cancel ==
    /\ service = "leaving" /\ service' = "cancelled"
    /\ UNCHANGED <<failed, entries, doomed, entry, call, worker>>

\* Shutdown waits for the calls, for two seconds.
Shutdown ==
    /\ service = "cancelled" /\ service' = "closing"
    /\ UNCHANGED <<failed, entries, doomed, entry, call, worker>>

Stop ==
    /\ service = "closing" /\ (doomed = {} => entries = {})
    /\ \A r \in doomed : Quiet(r)
    /\ service' = "over"
    /\ UNCHANGED <<failed, entries, doomed, entry, call, worker>>

---------------------------------------------------------------------------
(* A worker. *)

Ask(r, step) == worker' = [worker EXCEPT ![r] = step]
Open == service \in {"serving", "leaving"}

WorkerBegins(r) ==
    /\ worker[r] = "new" /\ Open
    /\ Ask(r, "begin") /\ Move(r, "begin", "registering")
    /\ UNCHANGED <<service, failed, entries, doomed, entry>>

\* A begin that failed, or was given up, gave the worker no handle.
WorkerBegan(r) ==
    /\ worker[r] = "begin"
    /\ \/ Answered(r, "begin")
          /\ Ask(r, CASE call[r]["begin"].answer = "resolve" -> "work"
                      [] call[r]["begin"].answer = "final" -> "end"
                      [] OTHER -> "over")
       \/ call[r]["begin"].gone /\ Ask(r, "over")
    /\ UNCHANGED <<service, failed, entries, doomed, entry, call>>

WorkerCallsBack(r, k) ==
    /\ k \in Callbacks /\ worker[r] = "work" /\ Open /\ At(r, k, "idle")
    /\ Move(r, k, "asking")
    /\ UNCHANGED <<service, failed, entries, doomed, entry, worker>>

WorkerResponds(r) ==
    /\ worker[r] = "work" /\ Open
    /\ Ask(r, "response") /\ Move(r, "response", "asking")
    /\ UNCHANGED <<service, failed, entries, doomed, entry>>

\* After the response's answer, or after any error, the worker ends.
WorkerEnds(r) ==
    /\ At(r, "end", "idle") /\ Open
    /\ \/ worker[r] \in {"work", "end"}
       \/ worker[r] = "response"
          /\ (Answered(r, "response") \/ call[r]["response"].gone)
    /\ Ask(r, "over") /\ Move(r, "end", "ending")
    /\ UNCHANGED <<service, failed, entries, doomed, entry>>

---------------------------------------------------------------------------
Handling(r) == Hook(r) \/ Take(r) \/ Abort(r) \/ After(r)
Serving(r) == \/ BeginRefused(r) \/ Register(r)
              \/ BeginReady(r) \/ BeginDone(r) \/ BeginGone(r)
              \/ \E k \in {"begin", "end"} : Ending(r, k) \/ EndWaited(r, k)
Replying(r) == Send(r) \/ Responded(r) \/ ResponseGone(r)
Calling(r, k) == Acquire(r, k) \/ CallbackReturns(r, k)
Leaving == Cancel \/ Shutdown \/ Close \/ Stop
Working(r) == \/ WorkerBegins(r) \/ WorkerBegan(r) \/ WorkerResponds(r)
              \/ WorkerEnds(r) \/ \E k \in Callbacks : WorkerCallsBack(r, k)

Next ==
    \/ Leave \/ Leaving
    \/ \E r \in Requests :
          \/ Handling(r) \/ Serving(r) \/ Replying(r) \/ Working(r)
          \/ \E k \in Kinds : Calling(r, k) \/ GiveUp(r, k)

Spec == Init /\ [][Next]_vars

\* Goroutines that can run do run, the application's callbacks and hooks
\* return, and a service told of a failure leaves.  Each of these steps happens
\* a bounded number of times, so that fairness to all is fairness to each.
GoesOn ==
    \/ Leaving
    \/ failed.channel /\ Leave
    \/ \E r \in Requests :
          \/ Handling(r) \/ Serving(r) \/ Replying(r)
          \/ \E k \in Callbacks \cup {"response"} : Calling(r, k)

FairSpec == Spec /\ WF_vars(GoesOn)

---------------------------------------------------------------------------
(* Properties. *)

\* When an end has been answered, or the service has closed, nothing of the
\* request runs any more: not its handler, and no call that holds it.
EndedIsQuiet ==
    /\ \A r \in Requests : call[r]["end"].answer = "ok" => Quiet(r)
    /\ service = "over" => \A r \in doomed : Quiet(r)
    /\ \A r \in Requests : Quiet(r) => \A k \in Callbacks : ~At(r, k, "running")

\* An aborted response is never answered as a whole one.
AnswerIsWhole ==
    \A r \in Requests : call[r]["response"].answer = "ok" =>
        entry[r].took /\ ~entry[r].failure

\* A handler that runs is owned: it is registered, or somebody waits for it to
\* end; and one that began while the service closed is cancelled.
NothingUnowned ==
    \A r \in Requests : entry[r].at \notin {"none", "over"} =>
        \/ r \in entries \/ r \in doomed
        \/ \E k \in {"begin", "end"} : At(r, k, "waiting")

\* Whatever runs for a request has an owner, and its end leaves nothing running.
NothingLeftRunning == EndedIsQuiet /\ NothingUnowned

\* Every call is answered, whoever goes away first.
CallsReturn ==
    \A r \in Requests : []<>(\A k \in Kinds : ~Pending(r, k))

\* A request whose worker never learned its handle, or that a closing service
\* missed, does not stay suspended.
AbandonedEnds ==
    \A r \in Requests :
        call[r]["begin"].gone \/ Stopped ~> entry[r].at \in {"none", "over"}

\* Neither a worker nor a request waits for somebody who has gone away.
NobodyIsStuck == CallsReturn /\ AbandonedEnds
=============================================================================
