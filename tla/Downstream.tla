----------------------------- MODULE Downstream -----------------------------
(***************************************************************************)
(* One request as the Handle middleware serves it: the hook runs on the    *)
(* request's own goroutine, and the application it resolves to runs on     *)
(* another one, handing its response over a channel of frames.  A fetch of *)
(* one of this app's own routes, by the hook or by a handler, is a second  *)
(* such exchange whose response belongs to the fetch (downstream.go,       *)
(* fetch.go, middleware.go).                                               *)
(*                                                                         *)
(* An exchange is "attached" when a middleware holds its response (Main)   *)
(* and "detached" when a fetch does (the members of Subs): a detached one  *)
(* lets go of its handler without waiting for it, and its reads and writes *)
(* end with its context.                                                   *)
(*                                                                         *)
(* Data is abstracted to what the holder of a response must be able to     *)
(* tell: whether what it read is all the handler meant to say (cut), and   *)
(* how the reading ended (result).                                         *)
(***************************************************************************)
EXTENDS Naturals

CONSTANTS
    Subs,       \* the exchanges a fetch may start
    Main,       \* the exchange the hook's resolve starts
    Hook,       \* the request's own goroutine
    None,
    MaxWrites,  \* bound: the writes one handler makes
    Cancellable \* bound: the exchanges whose own context ends by itself

ASSUME DownstreamAssumption ==
    /\ Main \notin Subs /\ Hook \notin Subs \cup {Main}
    /\ None \notin Subs \cup {Main, Hook}
    /\ MaxWrites \in Nat
    /\ Cancellable \subseteq Subs \cup {Main}

Exchanges == {Main} \cup Subs
Tasks     == {Hook} \cup Exchanges

VARIABLES
    hook,       \* where the request's goroutine is
    source,     \* the response the hook returned and finish is sending
    answer,     \* what the client was given: [kind, from]
    gone,       \* the request's context is done
    app,        \* where each handler's goroutine is
    caller,     \* the task whose fetch started the exchange
    writes,     \* the writes a handler has made
    cut,        \* the handler stopped, or lost a write, because it was let go
    committed,  \* d.committed is closed
    panicked,   \* d.panicked and d.preCommit
    cancelled,  \* d.cancelled
    released,   \* d.done is closed
    dctx,       \* d.ctx is done
    scope,      \* the context the exchange was asked for with is done
    body,       \* what the caller holds of the response
    reading,    \* a read of the body is waiting
    result      \* the error a read of the body ended with

exchange == <<app, writes, cut, committed, panicked, cancelled>>
holder   == <<caller, body, reading, result>>
cancels  == <<released, dctx, scope>>
request  == <<hook, source, answer, gone>>
vars     == <<request, exchange, holder, cancels>>

Detached(e) == e # Main

Answers == [kind : {"none", "own", "complete", "aborted", "lost"},
            from : Exchanges \cup {None}]

RequestTyped ==
    /\ hook \in {"running", "resolving", "unwinding", "fetching", "writing",
                 "releasing", "closing", "ended"}
    /\ source \in Exchanges \cup {None}
    /\ answer \in Answers
    /\ gone \in BOOLEAN

ExchangeTyped ==
    /\ app \in [Exchanges -> {"off", "running", "sending", "fetching",
                              "recorded", "ended"}]
    /\ writes \in [Exchanges -> 0..MaxWrites]
    /\ cut \in [Exchanges -> BOOLEAN]
    /\ committed \in [Exchanges -> BOOLEAN]
    /\ panicked \in [Exchanges -> {"no", "pre", "mid"}]
    /\ cancelled \in [Exchanges -> BOOLEAN]

HolderTyped ==
    /\ caller \in [Exchanges -> Tasks \cup {None}]
    /\ body \in [Exchanges -> {"none", "waiting", "open", "closed", "head",
                               "discarded", "over"}]
    /\ reading \in [Exchanges -> BOOLEAN]
    /\ result \in [Exchanges -> {"none", "eof", "panic", "cancelled", "pipe"}]

CancelsTyped ==
    /\ released \in [Exchanges -> BOOLEAN]
    /\ dctx \in [Exchanges -> BOOLEAN]
    /\ scope \in [Exchanges -> BOOLEAN]

\* A frame follows its status, and so does the end of the answer.
StatusFirst ==
    \A e \in Exchanges :
        app[e] \in {"sending", "recorded", "ended"} => committed[e]

TypeOK ==
    /\ RequestTyped /\ ExchangeTyped /\ HolderTyped /\ CancelsTyped
    /\ StatusFirst

Init ==
    /\ hook = "running" /\ source = None /\ gone = FALSE
    /\ answer = [kind |-> "none", from |-> None]
    /\ app = [e \in Exchanges |-> "off"]
    /\ caller = [e \in Exchanges |-> None]
    /\ writes = [e \in Exchanges |-> 0]
    /\ cut = [e \in Exchanges |-> FALSE]
    /\ committed = [e \in Exchanges |-> FALSE]
    /\ panicked = [e \in Exchanges |-> "no"]
    /\ cancelled = [e \in Exchanges |-> FALSE]
    /\ released = [e \in Exchanges |-> FALSE]
    /\ dctx = [e \in Exchanges |-> FALSE]
    /\ scope = [e \in Exchanges |-> FALSE]
    /\ body = [e \in Exchanges |-> "none"]
    /\ reading = [e \in Exchanges |-> FALSE]
    /\ result = [e \in Exchanges |-> "none"]

-----------------------------------------------------------------------------
(* The handler's goroutine.                                                *)

\* launchDownstream: the handler starts on a goroutine of its own.
Launch(e, t) ==
    /\ app[e] = "off"
    /\ caller' = [caller EXCEPT ![e] = t]
    /\ body' = [body EXCEPT ![e] = "waiting"]

\* Write and Flush commit the status first and then block in send.
Write(e) ==
    /\ app[e] = "running" /\ writes[e] < MaxWrites
    /\ app' = [app EXCEPT ![e] = "sending"]
    /\ writes' = [writes EXCEPT ![e] = @ + 1]
    /\ committed' = [committed EXCEPT ![e] = TRUE]
    /\ UNCHANGED <<cut, panicked, cancelled, request, holder, cancels>>

\* WriteHeader commits and sends nothing.
WriteHeader(e) ==
    /\ app[e] = "running" /\ ~committed[e]
    /\ committed' = [committed EXCEPT ![e] = TRUE]
    /\ UNCHANGED <<app, writes, cut, panicked, cancelled, request, holder,
                   cancels>>

\* Mutant: every exchange's reads and writes end with its context.
CtxDoneAlways(e) == dctx[e]

\* ctxDone: only a detached exchange's reads and writes end with its context.
CtxDone(e) == Detached(e) /\ dctx[e]

\* Mutant: a blocked write ends only when its body is closed.
SendFailsOnClose(e) ==
    /\ app[e] = "sending" /\ released[e]
    /\ app' = [app EXCEPT ![e] = "running"]
    /\ cut' = [cut EXCEPT ![e] = TRUE]
    /\ UNCHANGED <<writes, committed, panicked, cancelled, request, holder,
                   cancels>>

\* send finds the response abandoned: the write is lost.
SendFails(e) ==
    /\ app[e] = "sending"
    /\ released[e] \/ CtxDone(e)
    /\ app' = [app EXCEPT ![e] = "running"]
    /\ cut' = [cut EXCEPT ![e] = TRUE]
    /\ UNCHANGED <<writes, committed, panicked, cancelled, request, holder,
                   cancels>>

\* The goroutine's innermost deferred function: it recovers, notes a panic and
\* whether it came before the commit, notes whether the context was done, and
\* only then commits a 200 for a handler that committed nothing.
Unwind(e, p) ==
    /\ app[e] = "running"
    /\ app' = [app EXCEPT ![e] = "recorded"]
    /\ panicked' = [panicked EXCEPT ![e] = p]
    /\ cancelled' = [cancelled EXCEPT ![e] = Detached(e) /\ dctx[e]]
    /\ committed' = [committed EXCEPT ![e] = TRUE]
    /\ UNCHANGED <<writes, request, holder, cancels>>

\* The handler has said all it had to say.
Return(e) == Unwind(e, "no") /\ UNCHANGED cut

\* The handler sees its request's context done and stops where it is.
GiveUp(e) == dctx[e] /\ Unwind(e, "no") /\ cut' = [cut EXCEPT ![e] = TRUE]

Panic(e) == Unwind(e, IF committed[e] THEN "mid" ELSE "pre") /\ UNCHANGED cut

\* defer close(d.frames), then defer close(d.ended): no select waits for both.
CloseFrames(e) ==
    /\ app[e] = "recorded"
    /\ app' = [app EXCEPT ![e] = "ended"]
    /\ UNCHANGED <<writes, cut, committed, panicked, cancelled, request,
                   holder, cancels>>

FramesClosed(e) == app[e] = "ended"

-----------------------------------------------------------------------------
(* Cancellation.  release closes d.done first and cancels d.ctx after.  A  *)
(* middleware's own two steps are taken as one: no select of an attached   *)
(* exchange waits for its context.                                         *)

Release(E) ==
    /\ released' = [e \in Exchanges |-> released[e] \/ e \in E]
    /\ dctx' = [e \in Exchanges |-> dctx[e] \/ (e \in E /\ ~Detached(e))]

FinishRelease(e) ==
    /\ released[e] /\ ~dctx[e]
    /\ dctx' = [dctx EXCEPT ![e] = TRUE]
    /\ UNCHANGED <<released, scope, request, exchange, holder>>

\* The context a task's own calls run under.
TaskDone(t) == (t = Hook /\ gone) \/ (t \in Exchanges /\ dctx[t])

\* net/http ends the request's context as its handler returns.
ServeHTTPReturns ==
    /\ ~gone /\ hook = "ended"
    /\ gone' = TRUE
    /\ UNCHANGED <<hook, source, answer, exchange, holder, cancels>>

\* The context an exchange was asked for with is done: it was cancelled or timed
\* out itself, or the fetched request's own was, or the caller's is over.
ScopeDone(e) == scope[e] \/ TaskDone(caller[e])

CancelScope(e) ==
    /\ e \in Cancellable /\ app[e] # "off" /\ ~ScopeDone(e) /\ ~dctx[e]
    /\ scope' = [scope EXCEPT ![e] = TRUE]
    /\ UNCHANGED <<released, dctx, request, exchange, holder>>

\* context.AfterFunc, or the goroutine that watches a valuelessContext, carries
\* the scope's end to d.ctx.
Propagate(e) ==
    /\ app[e] # "off" /\ ScopeDone(e) /\ ~dctx[e]
    /\ dctx' = [dctx EXCEPT ![e] = TRUE]
    /\ UNCHANGED <<released, scope, request, exchange, holder>>

-----------------------------------------------------------------------------
(* Reading a body.                                                         *)

Held(e) == body[e] \in {"open", "closed"}

\* writeResponse reads what the hook resolved; what a fetch returned may be read
\* by one goroutine and closed by another.
MayRead(e) == Held(e) /\ (Detached(e) \/ (hook = "writing" /\ source = e))

BeginRead(e) ==
    /\ MayRead(e) /\ ~reading[e] /\ result[e] = "none"
    /\ reading' = [reading EXCEPT ![e] = TRUE]
    /\ UNCHANGED <<caller, body, result, request, exchange, cancels>>

\* The frame passes from the handler's select to the reader's.
Deliver(e) ==
    /\ reading[e] /\ app[e] = "sending"
    /\ reading' = [reading EXCEPT ![e] = FALSE]
    /\ app' = [app EXCEPT ![e] = "running"]
    /\ UNCHANGED <<writes, cut, committed, panicked, cancelled,
                   caller, body, result, request, cancels>>

ReadEnds(e, r) ==
    /\ reading[e]
    /\ reading' = [reading EXCEPT ![e] = FALSE]
    /\ result' = [result EXCEPT ![e] = r]
    /\ UNCHANGED <<caller, body, request, exchange, cancels>>

\* Mutant: the end of the frames is the end of the body unless the handler
\* panicked.
LastErrorOfPanics(e) == IF panicked[e] = "mid" THEN "panic" ELSE "eof"

\* The channel of frames is closed: the panic comes first, then the
\* cancellation, and only without either is it the end of the body.
LastError(e) ==
    IF panicked[e] = "mid" THEN "panic"
    ELSE IF cancelled[e] THEN "cancelled" ELSE "eof"

ReadClosed(e) == FramesClosed(e) /\ ReadEnds(e, LastError(e))

ReadAbandoned(e) == released[e] /\ ReadEnds(e, "pipe")

ReadCancelled(e) == CtxDone(e) /\ ReadEnds(e, "cancelled")

\* discard: with nobody reading, a HEAD's frames are received and dropped.
Discard(e) ==
    /\ body[e] \in {"head", "discarded"} /\ app[e] = "sending"
    /\ app' = [app EXCEPT ![e] = "running"]
    /\ UNCHANGED <<writes, cut, committed, panicked, cancelled, request,
                   holder, cancels>>

-----------------------------------------------------------------------------
(* Fetches: requestFetcher.fetch and serve.                                *)

TaskRuns(t) == IF t = Hook THEN hook = "running" ELSE app[t] = "running"

\* A fetch refuses a context that is already done; otherwise it launches the
\* handler and waits.
Fetch(t, e) ==
    /\ TaskRuns(t) /\ ~TaskDone(t)
    /\ Launch(e, t)
    /\ app' = [a \in Exchanges |-> IF a = e THEN "running"
                                   ELSE IF a = t THEN "fetching" ELSE app[a]]
    /\ hook' = IF t = Hook THEN "fetching" ELSE hook
    /\ UNCHANGED <<source, answer, gone, writes, cut, committed, panicked,
                   cancelled, reading, result, cancels>>

\* serve returns to its caller, which goes on.
Resume(t) ==
    /\ hook' = IF t = Hook THEN "running" ELSE hook
    /\ app' = [a \in Exchanges |-> IF a = t THEN "running" ELSE app[a]]
    /\ UNCHANGED <<source, answer, gone, writes, cut, committed, panicked,
                   cancelled>>

FetchWaits(e) == e \in Subs /\ body[e] = "waiting"

\* Mutant: serve takes the 200 of a handler that panicked early for its answer.
FetchAnsweredUnchecked(e) ==
    /\ FetchWaits(e) /\ committed[e]
    /\ \E b \in {"open", "head"} : body' = [body EXCEPT ![e] = b]
    /\ Resume(caller[e])
    /\ UNCHANGED <<caller, reading, result, cancels>>

\* The handler committed, and not because it panicked.  A HEAD's response has
\* no body, and its handler's output is discarded.
FetchAnswered(e) ==
    /\ FetchWaits(e) /\ committed[e] /\ panicked[e] # "pre"
    /\ \E b \in {"open", "head"} : body' = [body EXCEPT ![e] = b]
    /\ Resume(caller[e])
    /\ UNCHANGED <<caller, reading, result, cancels>>

FetchFails(e) ==
    /\ FetchWaits(e)
    /\ body' = [body EXCEPT ![e] = "over"]
    /\ Release({e})
    /\ Resume(caller[e])
    /\ UNCHANGED <<caller, reading, result, scope>>

FetchPanicked(e) == committed[e] /\ panicked[e] = "pre" /\ FetchFails(e)

\* Mutant: a fetch that is cancelled waits for its handler, as a middleware
\* does.
FetchCancelledWaits(e) == ScopeDone(e) /\ app[e] = "ended" /\ FetchFails(e)

\* The fetch rejects as soon as its context is done, whatever its handler does.
FetchCancelled(e) == ScopeDone(e) /\ FetchFails(e)

\* Its holder closes the body of a fetch, from any goroutine of its own.  What
\* a HEAD got has no body to close: only the scope ends.
CloseFetched(e) ==
    /\ e \in Subs
    /\ \/ /\ body[e] = "open"
          /\ Release({e})
          /\ body' = [body EXCEPT ![e] = "closed"]
          /\ UNCHANGED scope
       \/ /\ body[e] = "head"
          /\ scope' = [scope EXCEPT ![e] = TRUE]
          /\ body' = [body EXCEPT ![e] = "discarded"]
          /\ UNCHANGED <<released, dctx>>
    /\ UNCHANGED <<caller, reading, result, request, exchange>>

-----------------------------------------------------------------------------
(* The hook and what is done with its answer.                              *)

\* close waits for d.ended.
AppOver == app[Main] = "ended"

\* resolve, once: startDownstream launches the application and waits for it to
\* commit, with no way out for a cancelled request.
ResolveStarts ==
    /\ hook = "running"
    /\ Launch(Main, Hook)
    /\ hook' = "resolving"
    /\ app' = [app EXCEPT ![Main] = "running"]
    /\ UNCHANGED <<source, answer, gone, writes, cut, committed, panicked,
                   cancelled, reading, result, cancels>>

ResolveReturns ==
    /\ hook = "resolving" /\ committed[Main] /\ panicked[Main] # "pre"
    /\ hook' = "running"
    /\ body' = [body EXCEPT ![Main] = "open"]
    /\ UNCHANGED <<source, answer, gone, exchange, caller, reading, result,
                   cancels>>

\* A panic before the commit is closed, waited for, and raised in the hook.
ResolvePanics ==
    /\ hook = "resolving" /\ committed[Main] /\ panicked[Main] = "pre"
    /\ hook' = "unwinding"
    /\ body' = [body EXCEPT ![Main] = "over"]
    /\ Release({Main})
    /\ UNCHANGED <<source, answer, gone, exchange, caller, reading, result,
                   scope>>

\* runGuarded turns a panic into a refusal, and an abort into an abort.
UnwindEnds ==
    /\ hook = "unwinding" /\ AppOver
    /\ answer' = [kind |-> "own", from |-> None]
    /\ hook' = "ended"
    /\ UNCHANGED <<source, gone, exchange, holder, cancels>>

\* The hook closes the body it resolved, and goes on once its goroutine is over.
HookCloses ==
    /\ hook = "running" /\ body[Main] = "open"
    /\ hook' = "releasing"
    /\ body' = [body EXCEPT ![Main] = "closed"]
    /\ Release({Main})
    /\ UNCHANGED <<source, answer, gone, exchange, caller, reading, result,
                   scope>>

HookClosed ==
    /\ hook = "releasing" /\ AppOver
    /\ hook' = "running"
    /\ UNCHANGED <<source, answer, gone, exchange, holder, cancels>>

\* What the deferred close lets go of.
Resolved == {Main} \ {e \in Exchanges : app[e] = "off"}

\* The hook returns an answer of its own or an error, or panics; or finish
\* answers without the body it closed, for a matching etag or a data request's
\* redirect.  Whatever was resolved is let go of.
HookAnswers ==
    /\ hook = "running"
    /\ answer' = [kind |-> "own", from |-> None]
    /\ hook' = "closing"
    /\ Release(Resolved)
    /\ UNCHANGED <<source, gone, exchange, holder, scope>>

\* The hook returns the application's response, or one it fetched, and finish
\* sends it.
HookReturns(e) ==
    /\ hook = "running" /\ body[e] = "open" /\ caller[e] = Hook
    /\ hook' = "writing" /\ source' = e
    /\ UNCHANGED <<answer, gone, exchange, holder, cancels>>

\* writeResponse's deferred Close of the body, then the deferred close of what
\* was resolved.
WriteOver(k) ==
    /\ answer' = [kind |-> k, from |-> source]
    /\ hook' = "closing"
    /\ body' = [body EXCEPT ![source] = "closed"]
    /\ Release(Resolved \cup {source})
    /\ UNCHANGED <<source, exchange, caller, reading, result, scope>>

\* Mutant: a body that panicked ends the response like any other.
WriteEndsPlainly ==
    /\ hook = "writing" /\ ~reading[source] /\ result[source] # "none"
    /\ WriteOver("complete") /\ UNCHANGED gone

\* writeResponse: a panicked body aborts the connection; any other end of the
\* body ends the response.
WriteEnds ==
    /\ hook = "writing" /\ ~reading[source] /\ result[source] # "none"
    /\ WriteOver(IF result[source] = "panic" THEN "aborted" ELSE "complete")
    /\ UNCHANGED gone

\* The client does not take the chunk.
WriteLost ==
    /\ hook = "writing" /\ ~reading[source] /\ result[source] = "none"
    /\ writes[source] > 0
    /\ WriteOver("lost") /\ gone' = TRUE

\* Mutant: the deferred close does not wait for the application.
CloseWaitsNot ==
    /\ hook = "closing"
    /\ hook' = "ended"
    /\ UNCHANGED <<source, answer, gone, exchange, holder, cancels>>

\* Mutant: the deferred close waits for what the request's fetches left
\* behind, too.
CloseWaitsForAll ==
    /\ hook = "closing" /\ \A e \in Exchanges : app[e] \in {"off", "ended"}
    /\ hook' = "ended"
    /\ UNCHANGED <<source, answer, gone, exchange, holder, cancels>>

\* close returns only when the application's goroutine has.
CloseWaits ==
    /\ hook = "closing"
    /\ app[Main] = "off" \/ AppOver
    /\ hook' = "ended"
    /\ UNCHANGED <<source, answer, gone, exchange, holder, cancels>>

-----------------------------------------------------------------------------

Handler(e) == Write(e) \/ WriteHeader(e) \/ Return(e) \/ GiveUp(e) \/ Panic(e)

Reads(e) == ReadClosed(e) \/ ReadAbandoned(e) \/ ReadCancelled(e)

FetchEnds(e) == FetchAnswered(e) \/ FetchPanicked(e) \/ FetchCancelled(e)

HookRuns ==
    \/ ResolveStarts \/ HookCloses \/ HookAnswers
    \/ \E e \in Exchanges : HookReturns(e)

HookServed ==
    \/ ResolveReturns \/ ResolvePanics \/ UnwindEnds \/ HookClosed
    \/ WriteEnds \/ CloseWaits

Next ==
    \/ HookRuns \/ HookServed \/ WriteLost \/ ServeHTTPReturns
    \/ \E e \in Exchanges :
        \/ Handler(e) \/ CloseFrames(e)
        \/ SendFails(e) \/ Deliver(e) \/ Discard(e)
        \/ BeginRead(e) \/ Reads(e)
        \/ FinishRelease(e) \/ CancelScope(e) \/ Propagate(e)
        \/ FetchEnds(e) \/ CloseFetched(e)
    \/ \E t \in Tasks, e \in Subs : Fetch(t, e)

Spec == Init /\ [][Next]_vars

\* What runs without anyone's leave: deferred functions, channel operations and
\* selects that are ready, context propagation, and the statements of the
\* middleware between the hook's return and the end of the request.  A handler
\* and the hook take their own time, and may never do anything more.
Scheduled ==
    /\ \A e \in Exchanges :
        /\ WF_vars(CloseFrames(e))
        /\ WF_vars(SendFails(e) \/ Deliver(e) \/ Discard(e))
        /\ WF_vars(Reads(e))
        /\ WF_vars(FinishRelease(e))
        /\ WF_vars(Propagate(e))
        /\ WF_vars(FetchEnds(e))
    /\ WF_vars(HookServed)
    /\ WF_vars(ServeHTTPReturns)

FairSpec == Spec /\ Scheduled

-----------------------------------------------------------------------------
(* Safety.                                                                 *)

\* A response somebody was handed is one its handler gave: the 200 committed
\* for a handler that panicked before saying anything is never returned.
NoMadeUpAnswer ==
    \A e \in Exchanges : Held(e) \/ body[e] = "head" => panicked[e] # "pre"

\* Reading to the end of a body nobody has closed means having read all of it:
\* neither a panic nor, for a fetch, a cancellation ends it like that.  (A body
\* closed under its reader may look whole: release lets the handler's write fail
\* before it cancels the context the handler's end is then recorded with.)
EofMeansWhole ==
    \A e \in Exchanges :
        result[e] = "eof" /\ ~released[e] =>
            panicked[e] = "no" /\ (Detached(e) => ~cut[e])

\* The application behind a middleware may still answer a request whose context
\* is done: its reads and writes end only when the middleware lets go of it.
CancelledMayAnswer ==
    /\ result[Main] # "cancelled"
    /\ result[Main] = "pipe" => released[Main]
    /\ cut[Main] /\ app[Main] \in {"sending", "running"} => released[Main]

\* A response that panicked part way is never given to the client as complete
\* by a middleware that read it to its end.
PanicAborts ==
    answer.kind = "complete" /\ answer.from # None =>
        \/ panicked[answer.from] # "mid"
        \/ result[answer.from] \in {"pipe", "cancelled"}

\* No answer is given that its handler did not stand by: neither made up for a
\* panic before it, nor completed over a panic in it.
AnswersAreHonest == NoMadeUpAnswer /\ PanicAborts

\* The application holds the request: it is over before the request is.
NothingOutlives == hook = "ended" => app[Main] \in {"off", "ended"}

-----------------------------------------------------------------------------
(* Liveness.                                                               *)

\* The application's handler stops some time after its context is done.
Obeys == SF_vars(GiveUp(Main))

\* A request that lets go of its application ends although no handler behind a
\* fetch ever returns.
CloseReturns == Obeys => (hook \in {"closing", "unwinding"} ~> hook = "ended")

\* A fetch whose context is done returns, whatever its handler does.
FetchReturns ==
    \A e \in Subs : body[e] = "waiting" /\ ScopeDone(e) ~> body[e] # "waiting"

\* Once the request is over no handler is left writing to nobody, whether its
\* body was closed, read half way or forgotten, or its output discarded.
LeftBehindIsFreed == hook = "ended" ~> \A e \in Exchanges : app[e] # "sending"

\* A handler that never returns holds up neither the request, nor a fetch that
\* was cancelled, nor the goroutine of another handler.
NobodyIsHeldUp == CloseReturns /\ FetchReturns /\ LeftBehindIsFreed

-----------------------------------------------------------------------------
(* What the code does not do.                                              *)

\* downstream.go 61-63: "a response that ended because the request was
\* cancelled, which a reader must not mistake for one that was complete".  What
\* the middleware sends as complete of a response it fetched was complete, or
\* was closed by the middleware itself.
AnswerIsWhole ==
    answer.kind = "complete" /\ answer.from \in Subs =>
        result[answer.from] \in {"eof", "pipe"}

=============================================================================
