--------------------------- MODULE Requests_proofs ---------------------------
(***************************************************************************)
(* What a request is told, for any number of them: every safety property   *)
(* of Downstream, LiveQuery, RemoteRefresh and DataBranch.                 *)
(*                                                                         *)
(* Fetches, nested and from any caller, come first: their types; then the  *)
(* invariant Inv, which gives that answers are given and ends are ends;    *)
(* then, from Inv, what the middleware and its client see of the           *)
(* application.  Live streams follow, then the refreshes of a command, and *)
(* data requests last.                                                     *)
(***************************************************************************)
EXTENDS Downstream, LiveQuery, RemoteRefresh, DataBranch, FiniteSetTheorems,
        SequenceTheorems, TLAPS


LEMMA InitTyped == Init => TypeOK
<1> SUFFICES ASSUME Init PROVE TypeOK
  OBVIOUS
<1> USE DownstreamAssumption DEF Init
<1>1. RequestTyped
  BY DEF RequestTyped, Answers
<1>2. ExchangeTyped
  BY DEF ExchangeTyped
<1>3. HolderTyped
  BY DEF HolderTyped
<1>4. CancelsTyped
  BY DEF CancelsTyped
<1>5. StatusFirst
  BY DEF StatusFirst
<1> QED
  BY <1>1, <1>2, <1>3, <1>4, <1>5 DEF TypeOK

LEMMA HandlerTyped ==
  ASSUME TypeOK, NEW e \in Exchanges,
         Handler(e) \/ CloseFrames(e) \/ SendFails(e) \/ Discard(e)
  PROVE  TypeOK'
<1> USE DEF TypeOK
<1>1. RequestTyped' /\ HolderTyped' /\ CancelsTyped'
  BY DEF Handler, Write, WriteHeader, Return, GiveUp, Panic, Unwind,
     CloseFrames, SendFails, Discard, RequestTyped, HolderTyped, CancelsTyped,
     request, holder, cancels
<1>2. CASE Write(e)
  BY <1>1, <1>2, DownstreamAssumption DEF Write, ExchangeTyped, StatusFirst
<1>3. CASE WriteHeader(e)
  BY <1>1, <1>3 DEF WriteHeader, ExchangeTyped, StatusFirst
<1>4. CASE Return(e) \/ GiveUp(e) \/ Panic(e)
  BY <1>1, <1>4 DEF Return, GiveUp, Panic, Unwind, ExchangeTyped, StatusFirst
<1>5. CASE CloseFrames(e) \/ SendFails(e) \/ Discard(e)
  BY <1>1, <1>5 DEF CloseFrames, SendFails, Discard, ExchangeTyped, StatusFirst
<1> QED
  BY <1>2, <1>3, <1>4, <1>5 DEF Handler

LEMMA ReaderTyped ==
  ASSUME TypeOK, NEW e \in Exchanges, Deliver(e) \/ BeginRead(e) \/ Reads(e)
  PROVE  TypeOK'
<1> USE DEF TypeOK
<1>1. RequestTyped' /\ CancelsTyped'
  BY DEF Deliver, BeginRead, Reads, ReadClosed, ReadAbandoned, ReadCancelled,
     ReadEnds, RequestTyped, CancelsTyped, request, cancels
<1>2. CASE Deliver(e)
  BY <1>1, <1>2 DEF Deliver, ExchangeTyped, HolderTyped, StatusFirst
<1>3. CASE BeginRead(e) \/ Reads(e)
  <2>1. ExchangeTyped' /\ StatusFirst'
    BY <1>3 DEF BeginRead, Reads, ReadClosed, ReadAbandoned, ReadCancelled,
       ReadEnds, ExchangeTyped, StatusFirst, exchange
  <2>2. HolderTyped'
    BY <1>3 DEF BeginRead, Reads, ReadClosed, ReadAbandoned, ReadCancelled,
       ReadEnds, LastError, HolderTyped
  <2> QED
    BY <1>1, <2>1, <2>2
<1> QED
  BY <1>2, <1>3

LEMMA CancelTyped ==
  ASSUME TypeOK,
         NEW e \in Exchanges, FinishRelease(e) \/ CancelScope(e)
           \/ Propagate(e)
  PROVE  TypeOK'
<1>1. RequestTyped' /\ ExchangeTyped' /\ HolderTyped' /\ StatusFirst'
  BY DEF FinishRelease, CancelScope, Propagate, TypeOK, RequestTyped,
     ExchangeTyped, HolderTyped, StatusFirst, request, exchange, holder
<1>2. CancelsTyped'
  BY DEF FinishRelease, CancelScope, Propagate, TypeOK, CancelsTyped
<1> QED
  BY <1>1, <1>2 DEF TypeOK

\* What Release leaves has its types.
LEMMA ReleaseTyped ==
  ASSUME CancelsTyped, NEW E, Release(E), UNCHANGED scope
  PROVE  CancelsTyped'
  BY DEF Release, CancelsTyped

LEMMA FetchTyped ==
  ASSUME TypeOK
  PROVE  /\ \A t \in Tasks, e \in Subs : Fetch(t, e) => TypeOK'
         /\ \A e \in Exchanges : FetchEnds(e) \/ CloseFetched(e) => TypeOK'
<1> USE DEF TypeOK
<1>1. ASSUME NEW t \in Tasks, NEW e \in Subs, Fetch(t, e) PROVE TypeOK'
  <2>0. e \in Exchanges
    BY DEF Exchanges
  <2>1. RequestTyped' /\ CancelsTyped'
    BY <1>1 DEF Fetch, RequestTyped, CancelsTyped, cancels
  <2>2. ExchangeTyped'
    BY <1>1, <2>0 DEF Fetch, ExchangeTyped
  <2>3. HolderTyped'
    BY <1>1, <2>0 DEF Fetch, Launch, HolderTyped
  <2>4. StatusFirst'
    BY <1>1 DEF Fetch, StatusFirst, ExchangeTyped
  <2> QED
    BY <2>1, <2>2, <2>3, <2>4
<1>2. ASSUME NEW e \in Exchanges, FetchEnds(e) PROVE TypeOK'
  <2>1. RequestTyped' /\ ExchangeTyped' /\ StatusFirst'
    BY <1>2 DEF FetchEnds, FetchAnswered, FetchPanicked, FetchCancelled,
       FetchFails, Resume, RequestTyped, ExchangeTyped, StatusFirst
  <2>2. HolderTyped'
    BY <1>2 DEF FetchEnds, FetchAnswered, FetchPanicked, FetchCancelled,
       FetchFails, HolderTyped
  <2>3. CancelsTyped'
    BY <1>2, ReleaseTyped DEF FetchEnds, FetchAnswered, FetchPanicked,
       FetchCancelled, FetchFails, CancelsTyped, cancels
  <2> QED
    BY <2>1, <2>2, <2>3
<1>3. ASSUME NEW e \in Exchanges, CloseFetched(e) PROVE TypeOK'
  <2>1. RequestTyped' /\ ExchangeTyped' /\ StatusFirst'
    BY <1>3 DEF CloseFetched, RequestTyped, ExchangeTyped, StatusFirst,
       request, exchange
  <2>2. HolderTyped'
    BY <1>3 DEF CloseFetched, HolderTyped
  <2>3. CancelsTyped'
    BY <1>3, ReleaseTyped DEF CloseFetched, CancelsTyped
  <2> QED
    BY <2>1, <2>2, <2>3
<1> QED
  BY <1>1, <1>2, <1>3

LEMMA AnswerTyped ==
  ASSUME NEW k \in {"none", "own", "complete", "aborted", "lost"},
         NEW f \in Exchanges \cup {None}
  PROVE  [kind |-> k, from |-> f] \in Answers
  BY DEF Answers

LEMMA HookTyped ==
  ASSUME TypeOK, HookRuns \/ HookServed \/ WriteLost \/ ServeHTTPReturns
  PROVE  TypeOK'
<1> USE DEF TypeOK
<1>0. Main \in Exchanges /\ Hook \in Tasks
  BY DEF Exchanges, Tasks
<1>1. CASE ResolveStarts
  <2>1. RequestTyped' /\ CancelsTyped'
    BY <1>1 DEF ResolveStarts, RequestTyped, CancelsTyped, cancels
  <2>2. ExchangeTyped' /\ StatusFirst'
    BY <1>0, <1>1 DEF ResolveStarts, ExchangeTyped, StatusFirst
  <2>3. HolderTyped'
    BY <1>0, <1>1 DEF ResolveStarts, Launch, HolderTyped
  <2> QED
    BY <2>1, <2>2, <2>3
<1>2. CASE ResolveReturns \/ ResolvePanics \/ HookCloses
  <2>1. RequestTyped' /\ ExchangeTyped' /\ StatusFirst'
    BY <1>2 DEF ResolveReturns, ResolvePanics, HookCloses, RequestTyped,
       ExchangeTyped, StatusFirst, exchange
  <2>2. HolderTyped'
    BY <1>0, <1>2 DEF ResolveReturns, ResolvePanics, HookCloses, HolderTyped
  <2>3. CancelsTyped'
    BY <1>2, ReleaseTyped DEF ResolveReturns, ResolvePanics, HookCloses,
       CancelsTyped, cancels
  <2> QED
    BY <2>1, <2>2, <2>3
<1>3. CASE \/ UnwindEnds \/ HookClosed \/ HookAnswers \/ CloseWaits
           \/ ServeHTTPReturns
           \/ \E e \in Exchanges : HookReturns(e)
  <2>1. RequestTyped'
    BY <1>3, AnswerTyped DEF UnwindEnds, HookClosed, HookAnswers, CloseWaits,
       ServeHTTPReturns, HookReturns, RequestTyped
  <2>2. ExchangeTyped' /\ HolderTyped' /\ StatusFirst'
    BY <1>3 DEF UnwindEnds, HookClosed, HookAnswers, CloseWaits,
       ServeHTTPReturns, HookReturns, ExchangeTyped, HolderTyped, StatusFirst,
       exchange, holder
  <2>3. CancelsTyped'
    BY <1>3, ReleaseTyped DEF UnwindEnds, HookClosed, HookAnswers, CloseWaits,
       ServeHTTPReturns, HookReturns, CancelsTyped, cancels
  <2> QED
    BY <2>1, <2>2, <2>3
<1>4. CASE WriteEnds \/ WriteLost
  <2>1. RequestTyped'
    BY <1>4, AnswerTyped DEF WriteEnds, WriteLost, WriteOver, RequestTyped
  <2>2. ExchangeTyped' /\ StatusFirst'
    BY <1>4 DEF WriteEnds, WriteLost, WriteOver, ExchangeTyped, StatusFirst,
       exchange
  <2>3. HolderTyped'
    BY <1>4 DEF WriteEnds, WriteLost, WriteOver, HolderTyped
  <2>4. CancelsTyped'
    BY <1>4, ReleaseTyped DEF WriteEnds, WriteLost, WriteOver, CancelsTyped
  <2> QED
    BY <2>1, <2>2, <2>3, <2>4
<1> QED
  BY <1>1, <1>2, <1>3, <1>4 DEF HookRuns, HookServed

LEMMA TypeStep == TypeOK /\ [Next]_vars => TypeOK'
<1>1. ASSUME TypeOK, UNCHANGED vars PROVE TypeOK'
  BY <1>1 DEF vars, request, exchange, holder, cancels, TypeOK, RequestTyped,
     ExchangeTyped, HolderTyped, CancelsTyped, StatusFirst
<1> QED
  BY <1>1, HandlerTyped, ReaderTyped, CancelTyped, FetchTyped, HookTyped DEF
     Next

\* The state keeps its types, and a frame follows its status, for every set of
\* fetches and every bound on writes.
THEOREM TypeCorrect == Spec => []TypeOK
  BY InitTyped, TypeStep, PTL DEF Spec

-----------------------------------------------------------------------------
(* The inductive invariant.  Neither property is inductive by itself: that *)
(* an answer is a handler's own rests on who may be resumed by whom, and   *)
(* that an end is the end on where a lost write is remembered.             *)

Given == {"open", "closed", "head", "discarded"}

Over(e) == app[e] \in {"recorded", "ended"}

\* A task that waits for a fetch does nothing else, so the end of one fetch
\* resumes nobody who waits for another.
WaitersWait ==
    /\ \A e \in Exchanges :
        app[e] = "off" => body[e] = "none" /\ ~committed[e]
    /\ \A e \in Subs : body[e] = "waiting" =>
        /\ caller[e] \in Tasks
        /\ caller[e] = Hook => hook = "fetching"
        /\ caller[e] \in Exchanges => app[caller[e]] = "fetching"
    /\ \A d, e \in Subs :
        body[d] = "waiting" /\ body[e] = "waiting" /\ caller[d] = caller[e]
            => d = e

\* What was handed out was committed, and by the handler.
GivenIsCommitted ==
    /\ \A e \in Exchanges :
        body[e] \in Given => committed[e] /\ panicked[e] # "pre"
    /\ \A e \in Exchanges :
        reading[e] \/ result[e] # "none" => body[e] \in Given
    /\ \A e \in Exchanges : panicked[e] # "no" => Over(e)
    /\ hook = "writing" => source \in Exchanges /\ body[source] \in Given

\* A fetched answer that lost something before its body was let go of lost it
\* to its context, and says so once it is over.
LossIsRecorded ==
    \A e \in Subs :
        cut[e] /\ ~released[e] => dctx[e] /\ (Over(e) => cancelled[e])

\* A reader that came to the end came to the end of it all.
EndIsTheEnd ==
    \A e \in Exchanges : result[e] = "eof" =>
        /\ Over(e)
        /\ ~released[e] => panicked[e] = "no" /\ (Detached(e) => ~cut[e])

Inv == /\ TypeOK /\ WaitersWait /\ GivenIsCommitted
       /\ LossIsRecorded /\ EndIsTheEnd

LEMMA InitInv == Init => Inv
<1> SUFFICES ASSUME Init PROVE Inv
  OBVIOUS
<1>1. TypeOK
  BY InitTyped
<1>2. WaitersWait
  BY DEF Init, WaitersWait, Exchanges
<1>3. GivenIsCommitted
  BY DEF Init, GivenIsCommitted, Given
<1>4. LossIsRecorded /\ EndIsTheEnd
  BY DEF Init, LossIsRecorded, EndIsTheEnd, Exchanges
<1> QED
  BY <1>1, <1>2, <1>3, <1>4 DEF Inv

LEMMA HandlerKeeps ==
  ASSUME Inv, NEW e \in Exchanges, Handler(e) \/ CloseFrames(e), TypeOK'
  PROVE  Inv'
<1> USE DEF Inv
<1>0. UNCHANGED <<hook, source, caller, body, reading, result, released, dctx>>
  BY DEF Handler, Write, WriteHeader, Return, GiveUp, Panic, Unwind,
     CloseFrames, request, holder, cancels
<1>1. /\ app[e] \in {"running", "recorded"}
      /\ \E a \in {"running", "sending", "recorded", "ended"} :
            app' = [app EXCEPT ![e] = a]
  BY DEF Handler, Write, WriteHeader, Return, GiveUp, Panic, Unwind,
     CloseFrames, TypeOK, ExchangeTyped
<1>2. WaitersWait'
  <2>1. \A a \in Exchanges : a # e => committed'[a] = committed[a]
    BY DEF Handler, Write, WriteHeader, Return, GiveUp, Panic, Unwind,
       CloseFrames, TypeOK, ExchangeTyped
  <2> QED
    BY <1>0, <1>1, <2>1 DEF WaitersWait, Exchanges, TypeOK, ExchangeTyped
<1>3. CASE Write(e) \/ WriteHeader(e) \/ CloseFrames(e)
  <2>1. GivenIsCommitted'
    BY <1>0, <1>3 DEF Write, WriteHeader, CloseFrames, GivenIsCommitted, Over,
       TypeOK, ExchangeTyped
  <2>2. LossIsRecorded' /\ EndIsTheEnd'
    BY <1>0, <1>3 DEF Write, WriteHeader, CloseFrames, LossIsRecorded,
       EndIsTheEnd, Over, TypeOK, ExchangeTyped, Exchanges
  <2> QED
    BY <1>2, <2>1, <2>2
<1>4. ASSUME NEW p \in {"no", "pre", "mid"}, Unwind(e, p),
             p = "pre" => ~committed[e],
             cut' = cut \/ (dctx[e] /\ cut' = [cut EXCEPT ![e] = TRUE])
      PROVE  Inv'
  <2>1. GivenIsCommitted'
    BY <1>0, <1>4 DEF Unwind, GivenIsCommitted, Over, TypeOK, ExchangeTyped
  <2>2. LossIsRecorded'
    BY <1>0, <1>4, DownstreamAssumption DEF Unwind, LossIsRecorded, Over,
       Detached, TypeOK, ExchangeTyped, Exchanges
  <2>3. EndIsTheEnd'
    BY <1>0, <1>4 DEF Unwind, EndIsTheEnd, Over, TypeOK, ExchangeTyped
  <2> QED
    BY <1>2, <2>1, <2>2, <2>3
<1> QED
  BY <1>3, <1>4 DEF Handler, Return, GiveUp, Panic

LEMMA FrameKeeps ==
  ASSUME Inv, NEW e \in Exchanges, SendFails(e) \/ Deliver(e) \/ Discard(e),
         TypeOK'
  PROVE  Inv'
<1> USE DEF Inv
<1>0. UNCHANGED <<hook, source, caller, body, result, committed, panicked,
                  cancelled, released, dctx>>
  BY DEF SendFails, Deliver, Discard, request, holder, cancels
<1>1. app[e] = "sending" /\ app' = [app EXCEPT ![e] = "running"]
  BY DEF SendFails, Deliver, Discard
<1>2. \A a \in Exchanges : Over(a)' <=> Over(a)
  BY <1>1 DEF Over, TypeOK, ExchangeTyped
<1>3. WaitersWait'
  BY <1>0, <1>1 DEF WaitersWait, Exchanges, TypeOK, ExchangeTyped
<1>4. GivenIsCommitted'
  <2>1. \A a \in Exchanges : reading'[a] => reading[a]
    BY DEF SendFails, Deliver, Discard, holder, TypeOK, HolderTyped
  <2> QED
    BY <1>0, <1>2, <2>1 DEF GivenIsCommitted
<1>5. LossIsRecorded'
  BY <1>0, <1>1, <1>2 DEF SendFails, Deliver, Discard, CtxDone, LossIsRecorded,
     Over, TypeOK, ExchangeTyped, Exchanges
<1>6. EndIsTheEnd'
  BY <1>0, <1>1, <1>2 DEF SendFails, Deliver, Discard, EndIsTheEnd, Over,
     TypeOK, ExchangeTyped
<1> QED
  BY <1>3, <1>4, <1>5, <1>6

LEMMA ReaderKeeps ==
  ASSUME Inv, NEW e \in Exchanges, BeginRead(e) \/ Reads(e), TypeOK'
  PROVE  Inv'
<1> USE DEF Inv
<1>0. UNCHANGED <<hook, source, caller, body, app, cut, committed, panicked,
                  cancelled, released, dctx>>
  BY DEF BeginRead, Reads, ReadClosed, ReadAbandoned, ReadCancelled, ReadEnds,
     request, exchange, cancels
<1>1. WaitersWait' /\ LossIsRecorded'
  BY <1>0 DEF WaitersWait, LossIsRecorded, Over
<1>2. body[e] \in Given
  BY DEF BeginRead, MayRead, Held, Reads, ReadClosed, ReadAbandoned,
     ReadCancelled, ReadEnds, GivenIsCommitted, Given
<1>3. GivenIsCommitted'
  BY <1>0, <1>2 DEF BeginRead, Reads, ReadClosed, ReadAbandoned, ReadCancelled,
     ReadEnds, GivenIsCommitted, Over, TypeOK, HolderTyped
<1>4. EndIsTheEnd'
  <2>1. CASE BeginRead(e) \/ ReadAbandoned(e) \/ ReadCancelled(e)
    BY <1>0, <2>1 DEF BeginRead, ReadAbandoned, ReadCancelled, ReadEnds,
       EndIsTheEnd, Over, TypeOK, HolderTyped
  <2>2. CASE ReadClosed(e)
    <3>1. panicked[e] # "pre" /\ app[e] = "ended"
      BY <1>2, <2>2 DEF GivenIsCommitted, ReadClosed, FramesClosed
    <3>2. ASSUME ~released[e], LastError(e) = "eof"
          PROVE  panicked[e] = "no" /\ (Detached(e) => ~cut[e])
      BY <3>1, <3>2 DEF LastError, LossIsRecorded, Over, Detached, Exchanges,
         TypeOK, ExchangeTyped
    <3> QED
      BY <1>0, <2>2, <3>1, <3>2 DEF ReadClosed, ReadEnds, EndIsTheEnd, Over,
         TypeOK, HolderTyped
  <2> QED
    BY <2>1, <2>2 DEF Reads
<1> QED
  BY <1>1, <1>3, <1>4

LEMMA CancelKeeps ==
  ASSUME Inv, NEW e \in Exchanges,
         FinishRelease(e) \/ CancelScope(e) \/ Propagate(e), TypeOK'
  PROVE  Inv'
<1>1. /\ UNCHANGED <<request, exchange, holder, released>>
      /\ \A a \in Exchanges : dctx[a] => dctx'[a]
  BY DEF FinishRelease, CancelScope, Propagate, Inv, TypeOK, CancelsTyped
<1> QED
  BY <1>1 DEF Inv, WaitersWait, GivenIsCommitted, LossIsRecorded, EndIsTheEnd,
     Over, request, exchange, holder, Exchanges

\* Letting go only adds to what is released and done.
LEMMA ReleaseAdds ==
  ASSUME TypeOK, NEW E, Release(E)
  PROVE  \A e \in Exchanges : /\ released[e] => released'[e]
                              /\ dctx[e] => dctx'[e]
  BY DEF Release

\* Launching a handler says nothing about the exchanges that already run.
LEMMA LaunchKeeps ==
  ASSUME Inv, NEW e \in Exchanges, NEW t \in Tasks, Launch(e, t),
         e \in Subs => TaskRuns(t), e = Main => t = Hook /\ hook = "running",
         e = Main =>
             /\ app' = [app EXCEPT ![e] = "running"]
             /\ hook' = "resolving",
         e \in Subs =>
             /\ app' = [a \in Exchanges |-> IF a = e THEN "running"
                                   ELSE IF a = t THEN "fetching" ELSE app[a]]
             /\ hook' = IF t = Hook THEN "fetching" ELSE hook,
         UNCHANGED <<source, cut, committed, panicked, cancelled, reading,
                     result, released, dctx>>,
         TypeOK'
  PROVE  Inv'
<1> USE DEF Inv
<1>1. /\ body[e] = "none" /\ app[e] = "off"
      /\ body' = [body EXCEPT ![e] = "waiting"]
      /\ caller' = [caller EXCEPT ![e] = t]
  BY DEF Launch, WaitersWait
<1>2. \A a \in Exchanges : Over(a)' <=> Over(a)
  BY <1>1, DownstreamAssumption DEF Over, TypeOK, ExchangeTyped, TaskRuns,
     Exchanges
<1>3. \A a \in Exchanges : body'[a] \in Given <=> body[a] \in Given
  BY <1>1 DEF Given, TypeOK, HolderTyped
<1>4. WaitersWait'
  <2>0. \A d \in Subs : body[d] = "waiting" => caller[d] # t
    BY <1>1, DownstreamAssumption DEF WaitersWait, TaskRuns, Tasks, Exchanges
  <2>1. \A a \in Exchanges :
            app'[a] = "off" => body'[a] = "none" /\ ~committed'[a]
    BY <1>1, DownstreamAssumption DEF WaitersWait, TypeOK, ExchangeTyped,
       HolderTyped, Exchanges
  <2>2. ASSUME NEW d \in Subs, body'[d] = "waiting"
        PROVE  /\ caller'[d] \in Tasks
               /\ caller'[d] = Hook => hook' = "fetching"
               /\ caller'[d] \in Exchanges => app'[caller'[d]] = "fetching"
    <3>1. CASE d = e
      BY <1>1, <2>2, <3>1, DownstreamAssumption DEF TaskRuns, Tasks, Exchanges,
         TypeOK, HolderTyped
    <3>2. CASE d # e
      BY <1>1, <2>0, <2>2, <3>2, DownstreamAssumption DEF WaitersWait,
         Exchanges, Tasks, TypeOK, HolderTyped, ExchangeTyped
    <3> QED
      BY <3>1, <3>2
  <2>3. \A c, d \in Subs :
            body'[c] = "waiting" /\ body'[d] = "waiting"
                /\ caller'[c] = caller'[d] => c = d
    BY <1>1, <2>0 DEF WaitersWait, Exchanges, TypeOK, HolderTyped
  <2> QED
    BY <2>1, <2>2, <2>3 DEF WaitersWait
<1>5. GivenIsCommitted'
  BY <1>2, <1>3, DownstreamAssumption DEF GivenIsCommitted, Exchanges
<1>6. LossIsRecorded' /\ EndIsTheEnd'
  BY <1>2 DEF LossIsRecorded, EndIsTheEnd, Exchanges
<1> QED
  BY <1>4, <1>5, <1>6

LEMMA FetchKeeps ==
  ASSUME Inv, NEW t \in Tasks, NEW e \in Subs, Fetch(t, e), TypeOK'
  PROVE  Inv'
<1>1. e \in Exchanges /\ e # Main
  BY DownstreamAssumption DEF Exchanges
<1> QED
  BY <1>1, LaunchKeeps DEF Fetch, cancels

\* The end of one fetch resumes its caller, and disturbs no other exchange.
LEMMA FetchEndKeeps ==
  ASSUME Inv, NEW e \in Exchanges, FetchEnds(e), TypeOK'
  PROVE  Inv'
<1> USE DEF Inv
<1>0. e \in Subs /\ body[e] = "waiting" /\ caller[e] \in Tasks
  BY DEF FetchEnds, FetchAnswered, FetchPanicked, FetchCancelled, FetchFails,
     FetchWaits, WaitersWait
<1>1. /\ UNCHANGED <<source, cut, committed, panicked, cancelled, caller,
                     reading, result>>
      /\ hook' = IF caller[e] = Hook THEN "running" ELSE hook
      /\ app' = [a \in Exchanges |->
                    IF a = caller[e] THEN "running" ELSE app[a]]
  BY DEF FetchEnds, FetchAnswered, FetchPanicked, FetchCancelled, FetchFails,
     Resume
<1>2. \A a \in Exchanges : /\ released[a] => released'[a]
                           /\ dctx[a] => dctx'[a]
  BY ReleaseAdds DEF FetchEnds, FetchAnswered, FetchPanicked, FetchCancelled,
     FetchFails, cancels
<1>3. /\ \E b \in {"open", "head", "over"} : body' = [body EXCEPT ![e] = b]
      /\ body'[e] \in Given => committed[e] /\ panicked[e] # "pre"
  BY DEF FetchEnds, FetchAnswered, FetchPanicked, FetchCancelled, FetchFails,
     Given, TypeOK, HolderTyped
<1>4. \A a \in Exchanges : Over(a)' <=> Over(a)
  BY <1>0, <1>1 DEF Over, WaitersWait, TypeOK, ExchangeTyped
<1>5. WaitersWait'
  <2>1. \A a \in Exchanges :
            app'[a] = "off" => body'[a] = "none" /\ ~committed'[a]
    BY <1>0, <1>1, <1>3 DEF WaitersWait, TypeOK, ExchangeTyped, HolderTyped
  <2>2. \A d \in Subs : body'[d] = "waiting" =>
            body[d] = "waiting" /\ caller[d] # caller[e]
    BY <1>0, <1>3 DEF WaitersWait, Exchanges, TypeOK, HolderTyped
  <2>3. ASSUME NEW d \in Subs, body'[d] = "waiting"
        PROVE  /\ caller[d] \in Tasks
               /\ caller[d] = Hook => hook' = "fetching"
               /\ caller[d] \in Exchanges => app'[caller[d]] = "fetching"
    <3>1. /\ caller[d] \in Tasks /\ caller[d] # caller[e]
          /\ caller[d] = Hook => hook = "fetching"
          /\ caller[d] \in Exchanges => app[caller[d]] = "fetching"
      BY <2>2, <2>3 DEF WaitersWait
    <3> QED
      BY <1>1, <3>1
  <2>4. \A c, d \in Subs :
            body'[c] = "waiting" /\ body'[d] = "waiting"
                /\ caller[c] = caller[d] => c = d
    BY <2>2 DEF WaitersWait
  <2> QED
    BY <1>1, <2>1, <2>3, <2>4 DEF WaitersWait
<1>6. GivenIsCommitted'
  <2>1. \A a \in Exchanges : body[a] \in Given => body'[a] \in Given
    BY <1>0, <1>3 DEF Given, TypeOK, HolderTyped
  <2>2. \A a \in Exchanges :
            body'[a] \in Given => committed[a] /\ panicked[a] # "pre"
    BY <1>3 DEF GivenIsCommitted, TypeOK, HolderTyped
  <2>3. hook' = "writing" => hook = "writing"
    BY <1>1
  <2> QED
    BY <1>1, <1>4, <2>1, <2>2, <2>3 DEF GivenIsCommitted
<1>7. LossIsRecorded' /\ EndIsTheEnd'
  BY <1>1, <1>2, <1>4 DEF LossIsRecorded, EndIsTheEnd, Exchanges
<1> QED
  BY <1>5, <1>6, <1>7

LEMMA CloseKeeps ==
  ASSUME Inv, NEW e \in Exchanges, CloseFetched(e), TypeOK'
  PROVE  Inv'
<1> USE DEF Inv
<1>1. /\ UNCHANGED <<hook, source, app, cut, committed, panicked, cancelled,
                     caller, reading, result>>
      /\ body[e] \in {"open", "head"}
      /\ \E b \in {"closed", "discarded"} : body' = [body EXCEPT ![e] = b]
  BY DEF CloseFetched, request, exchange
<1>2. \A a \in Exchanges : /\ released[a] => released'[a]
                           /\ dctx[a] => dctx'[a]
  BY ReleaseAdds DEF CloseFetched
<1>3. \A a \in Exchanges : body'[a] \in Given <=> body[a] \in Given
  BY <1>1 DEF Given, TypeOK, HolderTyped
<1>4. WaitersWait'
  BY <1>1 DEF WaitersWait, TypeOK, HolderTyped, Exchanges
<1>5. GivenIsCommitted'
  BY <1>1, <1>3 DEF GivenIsCommitted, Over
<1>6. LossIsRecorded' /\ EndIsTheEnd'
  BY <1>1, <1>2 DEF LossIsRecorded, EndIsTheEnd, Over, Exchanges
<1> QED
  BY <1>4, <1>5, <1>6

\* What the middleware does between the hook's steps moves no goroutine of a
\* handler's.
LEMMA ServedKeeps ==
  ASSUME Inv, NEW e \in Exchanges, body[e] \in Given,
         \E b \in Given : body' = [body EXCEPT ![e] = b],
         \A a \in Exchanges : /\ released[a] => released'[a]
                              /\ dctx[a] => dctx'[a],
         UNCHANGED <<app, cut, committed, panicked, cancelled, caller, reading,
                     result>>,
         hook # "fetching", hook' = "writing" => source' = e,
         TypeOK'
  PROVE  Inv'
<1> USE DEF Inv
<1>1. \A a \in Exchanges : body'[a] \in Given <=> body[a] \in Given
  BY DEF Given, TypeOK, HolderTyped
<1>2. WaitersWait'
  BY DEF WaitersWait, Given, TypeOK, HolderTyped, Exchanges
<1>3. GivenIsCommitted'
  BY <1>1 DEF GivenIsCommitted, Over
<1>4. LossIsRecorded' /\ EndIsTheEnd'
  BY DEF LossIsRecorded, EndIsTheEnd, Over, Exchanges
<1> QED
  BY <1>2, <1>3, <1>4

LEMMA HookKeeps ==
  ASSUME Inv, HookRuns \/ HookServed \/ WriteLost \/ ServeHTTPReturns, TypeOK'
  PROVE  Inv'
<1> USE DEF Inv
<1>0. Main \in Exchanges /\ Main \notin Subs /\ Hook \in Tasks
  BY DownstreamAssumption DEF Exchanges, Tasks
<1>1. CASE ResolveStarts
  BY <1>0, <1>1, LaunchKeeps DEF ResolveStarts, cancels
<1>2. CASE HookCloses
  <2>1. body[Main] \in Given /\ hook # "fetching" /\ hook' # "writing"
        /\ body' = [body EXCEPT ![Main] = "closed"] /\ "closed" \in Given
    BY <1>2 DEF HookCloses, Given
  <2> QED
    BY <1>0, <1>2, <2>1, ReleaseAdds, ServedKeeps DEF HookCloses, exchange
<1>3. CASE WriteEnds \/ WriteLost
  <2>1. source \in Exchanges /\ body[source] \in Given
    BY <1>3 DEF WriteEnds, WriteLost, GivenIsCommitted
  <2>2. /\ hook # "fetching" /\ hook' # "writing"
        /\ body' = [body EXCEPT ![source] = "closed"] /\ "closed" \in Given
        /\ UNCHANGED <<exchange, caller, reading, result>>
        /\ Release(Resolved \cup {source})
    BY <1>3 DEF WriteEnds, WriteLost, WriteOver, Given
  <2> QED
    BY <2>1, <2>2, ReleaseAdds, ServedKeeps DEF exchange
<1>4. ASSUME NEW e \in Exchanges, HookReturns(e) PROVE Inv'
  <2>1. /\ body[e] \in Given /\ body' = [body EXCEPT ![e] = body[e]]
        /\ hook # "fetching" /\ source' = e
        /\ UNCHANGED <<exchange, holder, cancels>>
    BY <1>4 DEF HookReturns, Given, holder, TypeOK, HolderTyped
  <2> QED
    BY <2>1, ServedKeeps DEF exchange, holder, cancels
<1>5. CASE ResolveReturns \/ ResolvePanics
  <2>1. /\ UNCHANGED <<source, app, cut, committed, panicked, cancelled,
                       caller, reading, result>>
        /\ hook # "fetching" /\ hook' # "writing"
        /\ \E b \in {"open", "over"} : body' = [body EXCEPT ![Main] = b]
        /\ body'[Main] = "open" => committed[Main] /\ panicked[Main] # "pre"
        /\ committed[Main]
    BY <1>0, <1>5 DEF ResolveReturns, ResolvePanics, exchange, TypeOK,
       HolderTyped
  <2>2. \A a \in Exchanges : /\ released[a] => released'[a]
                             /\ dctx[a] => dctx'[a]
    BY <1>5, ReleaseAdds DEF ResolveReturns, ResolvePanics, cancels
  <2>3. WaitersWait'
    BY <1>0, <2>1 DEF WaitersWait, TypeOK, HolderTyped, Exchanges
  <2>4. GivenIsCommitted'
    <3>1. body[Main] \in Given => body'[Main] = "open"
      BY <1>0, <1>5 DEF ResolveReturns, ResolvePanics, GivenIsCommitted,
           TypeOK,
         HolderTyped
    <3>2. \A a \in Exchanges : body[a] \in Given => body'[a] \in Given
      BY <1>0, <2>1, <3>1 DEF Given, TypeOK, HolderTyped
    <3>3. \A a \in Exchanges :
              body'[a] \in Given => committed[a] /\ panicked[a] # "pre"
      BY <1>0, <2>1 DEF GivenIsCommitted, Given, TypeOK, HolderTyped
    <3> QED
      BY <2>1, <3>2, <3>3 DEF GivenIsCommitted, Over
  <2>5. LossIsRecorded' /\ EndIsTheEnd'
    BY <2>1, <2>2 DEF LossIsRecorded, EndIsTheEnd, Over, Exchanges
  <2> QED
    BY <2>3, <2>4, <2>5
<1>6. CASE UnwindEnds \/ HookClosed \/ HookAnswers \/ CloseWaits
           \/ ServeHTTPReturns
  <2>1. /\ UNCHANGED <<exchange, holder, source>>
        /\ hook' # hook => hook # "fetching" /\ hook' # "writing"
    BY <1>6 DEF UnwindEnds, HookClosed, HookAnswers, CloseWaits,
       ServeHTTPReturns, holder
  <2>2. \A a \in Exchanges : /\ released[a] => released'[a]
                             /\ dctx[a] => dctx'[a]
    BY <1>6, ReleaseAdds DEF UnwindEnds, HookClosed, HookAnswers, CloseWaits,
       ServeHTTPReturns, cancels
  <2>3. WaitersWait' /\ GivenIsCommitted'
    BY <2>1 DEF WaitersWait, GivenIsCommitted, Over, exchange, holder
  <2>4. LossIsRecorded' /\ EndIsTheEnd'
    BY <2>1, <2>2 DEF LossIsRecorded, EndIsTheEnd, Over, Exchanges, exchange,
       holder
  <2> QED
    BY <2>3, <2>4
<1> QED
  BY <1>1, <1>2, <1>3, <1>4, <1>5, <1>6 DEF HookRuns, HookServed

LEMMA InvStep == Inv /\ [Next]_vars => Inv'
<1>1. ASSUME Inv, UNCHANGED vars PROVE Inv'
  BY <1>1, TypeStep DEF vars, request, exchange, holder, cancels, Inv,
     WaitersWait, GivenIsCommitted, LossIsRecorded, EndIsTheEnd, Over
<1>2. ASSUME Inv, Next PROVE Inv'
  <2>1. TypeOK'
    BY <1>2, TypeStep DEF Inv
  <2> QED
    BY <1>2, <2>1, HandlerKeeps, FrameKeeps, ReaderKeeps, CancelKeeps,
       FetchKeeps, FetchEndKeeps, CloseKeeps, HookKeeps DEF Next
<1> QED
  BY <1>1, <1>2

LEMMA InvHolds == Spec => []Inv
  BY InitInv, InvStep, PTL DEF Spec

\* Nobody is ever handed the 200 that is committed for a handler that panicked
\* before it said anything: downstream.go's preCommit check, whoever fetched.
THEOREM AnswersAreGiven == Spec => []NoMadeUpAnswer
<1>1. Inv => NoMadeUpAnswer
  BY DEF Inv, GivenIsCommitted, NoMadeUpAnswer, Held, Given
<1> QED
  BY <1>1, InvHolds, PTL

\* A reader that comes to the end of a body nobody has closed has all of the
\* answer: lastError's order, and what the handler's goroutine records before
\* it closes the frames.
THEOREM EndsAreWhole == Spec => []EofMeansWhole
<1>1. Inv => EofMeansWhole
  BY DEF Inv, EndIsTheEnd, EofMeansWhole
<1> QED
  BY <1>1, InvHolds, PTL

-----------------------------------------------------------------------------
(* What the middleware and its client see of the application.              *)

\* Mostly nothing happens to a given handler: what a step may do to one.
LEMMA AppMoves ==
  ASSUME Inv, Next, NEW a \in Exchanges
  PROVE  \/ app'[a] = app[a]
         \/ /\ app[a] = "off" /\ app'[a] = "running"
            /\ a = Main => hook # "ended"
         \/ app[a] \in {"running", "sending", "fetching"} /\ app'[a] # "off"
         \/ app[a] = "recorded" /\ app'[a] = "ended"
<1> USE DEF Inv, TypeOK, ExchangeTyped
<1>1. ASSUME NEW e \in Exchanges, Handler(e) \/ CloseFrames(e) \/ SendFails(e)
                                  \/ Deliver(e) \/ Discard(e)
      PROVE  \/ app'[a] = app[a]
             \/ app[a] \in {"running", "sending", "fetching"}
                /\ app'[a] # "off"
             \/ app[a] = "recorded" /\ app'[a] = "ended"
  BY <1>1 DEF Handler, Write, WriteHeader, Return, GiveUp, Panic, Unwind,
     CloseFrames, SendFails, Deliver, Discard
<1>2. ASSUME NEW e \in Exchanges,
             \/ BeginRead(e) \/ Reads(e) \/ FinishRelease(e) \/ CancelScope(e)
             \/ Propagate(e) \/ CloseFetched(e)
      PROVE  app' = app
  BY <1>2 DEF BeginRead, Reads, ReadClosed, ReadAbandoned, ReadCancelled,
     ReadEnds, FinishRelease, CancelScope, Propagate, CloseFetched, exchange
<1>3. ASSUME NEW e \in Exchanges, FetchEnds(e)
      PROVE  app'[a] = app[a] \/ (app[a] = "fetching" /\ app'[a] = "running")
  BY <1>3 DEF FetchEnds, FetchAnswered, FetchPanicked, FetchCancelled,
     FetchFails, FetchWaits, Resume, WaitersWait
<1>4. ASSUME NEW t \in Tasks, NEW e \in Subs, Fetch(t, e)
      PROVE  \/ app'[a] = app[a]
             \/ app[a] = "off" /\ app'[a] = "running" /\ a # Main
             \/ app[a] = "running" /\ app'[a] = "fetching"
  BY <1>4, DownstreamAssumption DEF Fetch, Launch, TaskRuns, Exchanges, Tasks
<1>5. CASE HookRuns \/ HookServed \/ WriteLost \/ ServeHTTPReturns
  <2>1. CASE ResolveStarts
    BY <2>1 DEF ResolveStarts, Launch
  <2>2. CASE ~ResolveStarts
    BY <1>5, <2>2 DEF HookRuns, HookServed, HookCloses, HookAnswers,
       HookReturns, ResolveReturns, ResolvePanics, UnwindEnds, HookClosed,
       WriteEnds, WriteLost, WriteOver, CloseWaits, ServeHTTPReturns, exchange
  <2> QED
    BY <2>1, <2>2
<1> QED
  BY <1>1, <1>2, <1>3, <1>4, <1>5 DEF Next

\* The request ends only once its application has, if there was one, and an
\* application that ended, or that a finished request never had, does not run.
LEMMA OutlivesStep ==
  ASSUME Inv, NothingOutlives, Next
  PROVE  NothingOutlives'
<1>1. Main \in Exchanges
  BY DEF Exchanges
<1>2. CASE hook = "ended"
  BY <1>1, <1>2, AppMoves DEF NothingOutlives
<1>3. CASE hook # "ended" /\ hook' = "ended"
  <2>1. CloseWaits \/ UnwindEnds
    <3>1. ~ \E e \in Exchanges : Handler(e) \/ CloseFrames(e) \/ SendFails(e)
                                 \/ Deliver(e) \/ Discard(e)
      BY <1>3 DEF Handler, Write, WriteHeader, Return, GiveUp, Panic, Unwind,
         CloseFrames, SendFails, Deliver, Discard, request
    <3>2. ~ \E e \in Exchanges : BeginRead(e) \/ Reads(e) \/ FinishRelease(e)
                                 \/ CancelScope(e) \/ Propagate(e)
      BY <1>3 DEF BeginRead, Reads, ReadClosed, ReadAbandoned, ReadCancelled,
         ReadEnds, FinishRelease, CancelScope, Propagate, request
    <3>3. ~ \E e \in Exchanges : FetchEnds(e) \/ CloseFetched(e)
      BY <1>3 DEF FetchEnds, FetchAnswered, FetchPanicked, FetchCancelled,
         FetchFails, Resume, CloseFetched, request
    <3>4. ~ \E t \in Tasks, e \in Subs : Fetch(t, e)
      BY <1>3 DEF Fetch
    <3>5. ~ (HookRuns \/ WriteLost \/ ServeHTTPReturns)
      BY <1>3 DEF HookRuns, ResolveStarts, HookCloses, HookAnswers,
           HookReturns,
         WriteLost, WriteOver, ServeHTTPReturns
    <3> QED
      BY <1>3, <3>1, <3>2, <3>3, <3>4, <3>5 DEF Next, HookServed,
         ResolveReturns, ResolvePanics, HookClosed, WriteEnds, WriteOver
  <2> QED
    BY <2>1 DEF CloseWaits, UnwindEnds, AppOver, NothingOutlives, exchange
<1> QED
  BY <1>2, <1>3 DEF NothingOutlives

\* A request is over only when the application it resolved is: close waits for
\* the goroutine, on every way out of the hook.
THEOREM NothingLeft == Spec => []NothingOutlives
<1>1. Init => NothingOutlives
  BY DEF Init, NothingOutlives
<1>2. Inv /\ NothingOutlives /\ [Next]_vars => NothingOutlives'
  BY OutlivesStep DEF NothingOutlives, vars, request, exchange
<1> QED
  BY <1>1, <1>2, InvHolds, PTL DEF Spec

\* What a middleware knows of the reading it did: the end it came to is the one
\* its handler recorded, and the application's is never a cancellation's.
ReadSaysSo ==
    /\ \A e \in Exchanges : reading[e] => result[e] = "none"
    /\ \A e \in Exchanges : result[e] = "eof" => Over(e) /\ panicked[e] # "mid"
    /\ answer.kind = "complete" /\ answer.from # None =>
        /\ answer.from \in Exchanges
        /\ result[answer.from] \in {"eof", "pipe", "cancelled"}
    /\ ~cancelled[Main] /\ result[Main] # "cancelled"
    /\ result[Main] = "pipe" => released[Main]
    /\ cut[Main] => Over(Main) \/ released[Main]

LEMMA MainIsAttached ==
  /\ Main \in Exchanges /\ ~Detached(Main)
  /\ \A e \in Exchanges : ~Detached(e) => e = Main
  BY DEF Exchanges, Detached

LEMMA ReadSaysSoStep ==
  ASSUME Inv, ReadSaysSo, Next
  PROVE  ReadSaysSo'
<1> USE MainIsAttached DEF Inv, TypeOK
<1>0. \A e \in Exchanges : Over(e) => Over(e)'
  BY AppMoves DEF Over
<1>1. ASSUME NEW e \in Exchanges, Handler(e) \/ CloseFrames(e)
      PROVE ReadSaysSo'
  <2>1. UNCHANGED <<answer, reading, result, released>>
    BY <1>1 DEF Handler, Write, WriteHeader, Return, GiveUp, Panic, Unwind,
       CloseFrames, request, holder, cancels
  <2>2. \A a \in Exchanges : Over(a) => panicked'[a] = panicked[a]
    BY <1>1 DEF Handler, Write, WriteHeader, Return, GiveUp, Panic, Unwind,
       CloseFrames, Over, ExchangeTyped
  <2>3. ~cancelled'[Main] /\ (cut'[Main] => cut[Main] \/ Over(Main)')
    BY <1>1 DEF Handler, Write, WriteHeader, Return, GiveUp, Panic, Unwind,
       CloseFrames, ReadSaysSo, Over, ExchangeTyped
  <2> QED
    BY <1>0, <2>1, <2>2, <2>3 DEF ReadSaysSo
<1>2. ASSUME NEW e \in Exchanges, SendFails(e) \/ Deliver(e) \/ Discard(e)
      PROVE  ReadSaysSo'
  <2>1. /\ UNCHANGED <<answer, result, released, panicked, cancelled>>
        /\ \A a \in Exchanges : reading'[a] => reading[a]
    BY <1>2 DEF SendFails, Deliver, Discard, request, holder, cancels,
       HolderTyped
  <2>2. cut'[Main] => cut[Main] \/ released[Main]
    BY <1>2 DEF SendFails, Deliver, Discard, CtxDone, ExchangeTyped
  <2> QED
    BY <1>0, <2>1, <2>2 DEF ReadSaysSo
<1>3. ASSUME NEW e \in Exchanges, BeginRead(e) \/ Reads(e) PROVE ReadSaysSo'
  <2>1. UNCHANGED <<answer, exchange, released>>
    BY <1>3 DEF BeginRead, Reads, ReadClosed, ReadAbandoned, ReadCancelled,
       ReadEnds, request, cancels
  <2>2. CASE BeginRead(e)
    BY <2>1, <2>2 DEF BeginRead, ReadSaysSo, HolderTyped, Over, exchange
  <2>3. ASSUME NEW r \in {"eof", "panic", "cancelled", "pipe"}, ReadEnds(e, r),
               r = "eof" => Over(e) /\ panicked[e] # "mid",
               r = "pipe" => released[e], r = "cancelled" => e # Main
        PROVE  ReadSaysSo'
    BY <2>1, <2>3 DEF ReadEnds, ReadSaysSo, HolderTyped, Over, exchange
  <2>4. CASE Reads(e)
    <3>1. CASE ReadClosed(e)
      BY <2>3, <3>1 DEF ReadClosed, LastError, FramesClosed, Over, ReadSaysSo
    <3>2. CASE ReadAbandoned(e) \/ ReadCancelled(e)
      BY <2>3, <3>2 DEF ReadAbandoned, ReadCancelled, CtxDone
    <3> QED
      BY <2>4, <3>1, <3>2 DEF Reads
  <2> QED
    BY <1>3, <2>2, <2>4
<1>4. ASSUME UNCHANGED <<answer, reading, result, panicked, cancelled, cut>>,
             \A e \in Exchanges : released[e] => released'[e]
      PROVE  ReadSaysSo'
  BY <1>0, <1>4 DEF ReadSaysSo
<1>5. ASSUME NEW e \in Exchanges, \/ FinishRelease(e) \/ CancelScope(e)
                                  \/ Propagate(e) \/ CloseFetched(e)
      PROVE  ReadSaysSo'
  BY <1>4, <1>5, ReleaseAdds DEF FinishRelease, CancelScope, Propagate,
     CloseFetched, request, exchange, holder
<1>6. ASSUME NEW e \in Exchanges, FetchEnds(e) PROVE ReadSaysSo'
  BY <1>4, <1>6, ReleaseAdds DEF FetchEnds, FetchAnswered, FetchPanicked,
     FetchCancelled, FetchFails, Resume, cancels
<1>7. ASSUME NEW t \in Tasks, NEW e \in Subs, Fetch(t, e) PROVE ReadSaysSo'
  BY <1>4, <1>7 DEF Fetch, cancels
<1>8. CASE \/ ResolveStarts \/ ResolveReturns \/ ResolvePanics \/ HookCloses
           \/ HookClosed \/ CloseWaits \/ ServeHTTPReturns
           \/ \E e \in Exchanges : HookReturns(e)
  BY <1>4, <1>8, ReleaseAdds DEF ResolveStarts, ResolveReturns, ResolvePanics,
     HookCloses, HookClosed, CloseWaits, ServeHTTPReturns, HookReturns,
     exchange, holder, cancels
<1>9. CASE HookAnswers \/ UnwindEnds
  <2>1. answer'.kind = "own" /\ UNCHANGED <<exchange, holder>>
    BY <1>9 DEF HookAnswers, UnwindEnds
  <2>2. \A e \in Exchanges : released[e] => released'[e]
    BY <1>9, ReleaseAdds DEF HookAnswers, UnwindEnds, cancels
  <2> QED
    BY <2>1, <2>2 DEF ReadSaysSo, Over, exchange, holder
<1>10. CASE WriteEnds \/ WriteLost
  <2>1. source \in Exchanges /\ UNCHANGED <<exchange, reading, result>>
    BY <1>10 DEF WriteEnds, WriteLost, WriteOver, GivenIsCommitted
  <2>2. \A e \in Exchanges : released[e] => released'[e]
    BY <1>10, ReleaseAdds DEF WriteEnds, WriteLost, WriteOver
  <2>3. answer'.kind = "complete" =>
            /\ answer'.from = source
            /\ result[source] \in {"eof", "pipe", "cancelled"}
    BY <1>10, <2>1 DEF WriteEnds, WriteLost, WriteOver, HolderTyped
  <2> QED
    BY <2>1, <2>2, <2>3 DEF ReadSaysSo, Over, exchange
<1> QED
  BY <1>1, <1>2, <1>3, <1>5, <1>6, <1>7, <1>8, <1>9, <1>10
     DEF Next, HookRuns, HookServed

LEMMA ReadSaysSoHolds == Spec => []ReadSaysSo
<1>1. Init => ReadSaysSo
  BY MainIsAttached DEF Init, ReadSaysSo
<1>2. Inv /\ ReadSaysSo /\ [Next]_vars => ReadSaysSo'
  BY ReadSaysSoStep DEF ReadSaysSo, Over, vars, request, exchange, holder,
     cancels
<1> QED
  BY <1>1, <1>2, InvHolds, PTL DEF Spec

\* A response that panicked part way is never passed off as complete by the
\* middleware that read it to its end.
THEOREM PanicsAbort == Spec => []PanicAborts
<1>1. ReadSaysSo => PanicAborts
  BY DEF ReadSaysSo, PanicAborts
<1> QED
  BY <1>1, ReadSaysSoHolds, PTL

\* Cancelling a request takes nothing from the application's answer: until the
\* middleware lets go of it, it reads and is written to the end.
THEOREM AttachedOutlasts == Spec => []CancelledMayAnswer
<1>1. ReadSaysSo => CancelledMayAnswer
  BY DEF ReadSaysSo, CancelledMayAnswer, Over
<1> QED
  BY <1>1, ReadSaysSoHolds, PTL

\* Both together: whoever is given an answer is given one its handler stood by.
THEOREM AnswersStand == Spec => []AnswersAreHonest
<1>1. NoMadeUpAnswer /\ PanicAborts => AnswersAreHonest
  BY DEF AnswersAreHonest
<1> QED
  BY <1>1, AnswersAreGiven, PanicsAbort, PTL

------------------------------------------------------------------------------
(* Live streams: any number of them, and what their producers give away.   *)

\* Until the handler has returned, what it wrote last is what yield last said
\* was taken: both change in the one select that hands a value over.  A request
\* that has not arrived has no handler, so that none starts twice.
InStep ==
  \A s \in Streams :
    /\ handler[s] # "over" => last[s] = taken[s] /\ end[s] = "none"
    /\ client[s] = "away" => handler[s] = "off"

StreamInv == StreamTypeOK /\ InStep /\ EndComesLast

LEMMA StreamStarts == StreamInit => StreamInv
BY StreamsAssumption
   DEF StreamInit, StreamInv, StreamTypeOK, InStep, EndComesLast, Returns

LEMMA StreamTyped ==
  ASSUME StreamTypeOK, [StreamNext]_streamVars
  PROVE  StreamTypeOK'
<1> USE DEF StreamTypeOK
<1>1. CASE UNCHANGED streamVars
  BY <1>1 DEF streamVars
<1>2. ASSUME NEW s \in Streams, Open(s) \/ Disconnect(s) \/ Notice(s)
               \/ Cancel(s)
      PROVE  StreamTypeOK'
  BY <1>2 DEF Open, Disconnect, Notice, Cancel
<1>3. ASSUME NEW s \in Streams, Select(s)
      PROVE  StreamTypeOK'
  <2>1. CASE SelectContext(s) \/ KeepAlive(s)
    BY <2>1 DEF SelectContext, KeepAlive, Returned
  <2>2. CASE SelectValue(s)
    BY <2>2 DEF SelectValue, Returned
  <2>3. CASE SelectDone(s)
    BY <2>3 DEF SelectDone, Returned, Returns
  <2> QED
    BY <1>3, <2>1, <2>2, <2>3 DEF Select
<1>4. ASSUME NEW s \in Streams, Yield(s) \/ YieldRefused(s)
               \/ ProducerReturns(s)
      PROVE  StreamTypeOK'
  BY <1>4 DEF Yield, YieldRefused, ProducerReturns
<1>5. ASSUME NEW s \in Streams, SendEnd(s)
      PROVE  StreamTypeOK'
  BY <1>5 DEF SendEnd
<1> QED
  BY <1>1, <1>2, <1>3, <1>4, <1>5 DEF StreamNext, StreamStep

LEMMA StreamKept ==
  ASSUME StreamInv, [StreamNext]_streamVars
  PROVE  StreamInv'
<1> USE DEF StreamInv, StreamTypeOK
<1>1. StreamTypeOK'
  BY StreamTyped
<1>2. CASE UNCHANGED streamVars
  BY <1>1, <1>2 DEF streamVars, InStep, EndComesLast
<1>3. ASSUME NEW s \in Streams, StreamStep(s)
      PROVE  InStep' /\ EndComesLast'
  <2>1. CASE Open(s)
    BY <2>1 DEF Open, InStep, EndComesLast
  <2>2. CASE Disconnect(s) \/ Notice(s) \/ Cancel(s)
    BY <2>2 DEF Disconnect, Notice, Cancel, InStep, EndComesLast
  <2>3. CASE SelectContext(s) \/ KeepAlive(s)
    BY <2>3 DEF SelectContext, KeepAlive, Returned, Returns, InStep,
         EndComesLast
  <2>4. CASE SelectValue(s)
    BY <2>4 DEF SelectValue, Returned, Returns, InStep, EndComesLast
  <2>5. CASE SelectDone(s)
    BY <2>5 DEF SelectDone, Returned, InStep, EndComesLast
  <2>6. CASE Yield(s) \/ YieldRefused(s) \/ ProducerReturns(s) \/ SendEnd(s)
    BY <2>6 DEF Yield, YieldRefused, ProducerReturns, SendEnd, InStep,
         EndComesLast
  <2> QED
    BY <1>3, <2>1, <2>2, <2>3, <2>4, <2>5, <2>6 DEF StreamStep, Select
<1> QED
  BY <1>1, <1>2, <1>3 DEF StreamNext

\* However the client, the context and the producer end, in whatever order the
\* handler's select takes what is ready: an answer that says how the producer
\* ended comes after the last value it gave away (remote_live.go).
THEOREM EndsComeLast == StreamSpec => []EndComesLast
<1>1. StreamInv => EndComesLast
  BY DEF StreamInv
<1> QED
  BY <1>1, StreamStarts, StreamKept, PTL DEF StreamSpec

------------------------------------------------------------------------------
(* Commands and forms: any limits, names and copies of keys.                *)

\* Places come in an order with a least one in every set of them.
LEMMA LeastPlace ==
  ASSUME NEW n \in Nat, NEW T \in SUBSET (1..n), T # {}, NEW refused
  PROVE  \E i \in T : \A j \in T : ~Earlier(j, i, refused)
<1> DEFINE Before(i) == {j \in T : Earlier(j, i, refused)}
           F == {Before(i) : i \in T}
<1>1. IsWellFoundedOn(StrictSubsetOrdering(1..n), SUBSET (1..n))
  <2>1. IsFiniteSet(1..n)
    BY FS_Interval
  <2> QED
    BY <2>1, FS_FiniteSubsetsOfFinite, FS_StrictSubsetOrderingWellFounded,
         Zenon
<1>2. F \subseteq SUBSET (1..n) /\ F # {}
  OBVIOUS
<1>3. PICK B \in F : \A C \in F : <<C, B>> \notin StrictSubsetOrdering(1..n)
  <2> HIDE DEF F
  <2> QED
    BY <1>1, <1>2, WFMin
<1>4. PICK i \in T : B = Before(i)
  BY <1>3
<1>5. SUFFICES ASSUME NEW j \in T, Earlier(j, i, refused) PROVE FALSE
  OBVIOUS
<1>6. Before(j) \subseteq Before(i) /\ j \in Before(i) /\ j \notin Before(j)
  <2>1. i \in Nat /\ j \in Nat /\ T \subseteq Nat
    OBVIOUS
  <2>2. ASSUME NEW x \in T, Earlier(x, j, refused) PROVE Earlier(x, i, refused)
    BY <1>5, <2>1, <2>2 DEF Earlier
  <2>3. ~Earlier(j, j, refused)
    BY <2>1 DEF Earlier
  <2> QED
    BY <1>5, <2>2, <2>3
<1>7. Before(j) \in F /\ Before(j) \in SUBSET (1..n)
      /\ Before(i) \in SUBSET (1..n)
  OBVIOUS
<1>8. <<Before(j), Before(i)>> \in StrictSubsetOrdering(1..n)
  <2> HIDE DEF Before
  <2> QED
    BY <1>6, <1>7 DEF StrictSubsetOrdering
<1> QED
  BY <1>3, <1>4, <1>7, <1>8

\* The keys of a sequence that another follows.
LEMMA RangeOfConcat ==
  ASSUME NEW S, NEW s \in Seq(S), NEW t \in Seq(S), NEW k
  PROVE  k \in Range(s \o t) <=> k \in Range(s) \/ k \in Range(t)
<1>1. DOMAIN (s \o t) = 1..(Len(s) + Len(t)) /\ DOMAIN s = 1..Len(s)
      /\ DOMAIN t = 1..Len(t)
  BY ConcatProperties, LenProperties
<1>2. ASSUME k \in Range(s) PROVE k \in Range(s \o t)
  BY <1>1, <1>2, ConcatProperties DEF Range
<1>3. ASSUME k \in Range(t) PROVE k \in Range(s \o t)
  <2>1. PICK n \in 1..Len(t) : k = t[n]
    BY <1>1, <1>3 DEF Range
  <2>2. Len(s) + n \in 1..(Len(s) + Len(t)) /\ (s \o t)[Len(s) + n] = k
    BY <2>1
  <2> QED
    BY <1>1, <2>2 DEF Range
<1>4. ASSUME k \in Range(s \o t) PROVE k \in Range(s) \/ k \in Range(t)
  <2>1. PICK n \in 1..(Len(s) + Len(t)) : k = (s \o t)[n]
    BY <1>1, <1>4 DEF Range
  <2> QED
    BY <1>1, <2>1 DEF Range
<1> QED
  BY <1>2, <1>3, <1>4

\* What joins the order is every key mentioned of which nothing was said.
LEMMA JoinedAre ==
  ASSUME NEW f \in Functions, requested[f] \in Seq(Keys),
         NEW mentioned \in SUBSET DOMAIN requested[f], NEW refused,
         NEW place \in Bijection(1..Cardinality(Joining(f, mentioned,
           refused)),
                                 Joining(f, mentioned, refused))
  PROVE  /\ KeysAt(f, place) \in Seq(Keys)
         /\ Range(KeysAt(f, place)) =
              {k \in Posted(f, mentioned) : entries[k] = "nothing"}
<1> DEFINE J == Joining(f, mentioned, refused)
           new == KeysAt(f, place)
<1>1. DOMAIN requested[f] = 1..Len(requested[f]) /\ Len(requested[f]) \in Nat
  BY LenProperties
<1>2. J \subseteq mentioned
  BY DEF Joining
<1>3. IsFiniteSet(J) /\ Cardinality(J) \in Nat
  <2>1. IsFiniteSet(1..Len(requested[f]))
    BY <1>1, FS_Interval
  <2>2. J \subseteq 1..Len(requested[f])
    BY <1>1, <1>2
  <2> HIDE DEF J
  <2> QED
    BY <2>1, <2>2, FS_Subset, FS_CardinalityType
<1>4. /\ place \in [1..Cardinality(J) -> J]
      /\ \A i \in J : \E n \in 1..Cardinality(J) : place[n] = i
  BY DEF Bijection, Injection, Surjection
<1>5. \A k : k \in Posted(f, J) <=> k \in Posted(f, mentioned)
      /\ entries[k] = "nothing"
  <2>1. ASSUME NEW k, k \in Posted(f, J)
        PROVE  k \in Posted(f, mentioned) /\ entries[k] = "nothing"
    BY <2>1 DEF Joining, Posted
  <2>2. ASSUME NEW k, k \in Posted(f, mentioned), entries[k] = "nothing"
        PROVE  k \in Posted(f, J)
    <3> DEFINE T == {i \in mentioned : requested[f][i] = k}
    <3>1. T # {} /\ T \in SUBSET (1..Len(requested[f]))
      BY <1>1, <2>2 DEF Posted
    <3>2. PICK i \in T : \A j \in T : ~Earlier(j, i, refused)
      <4> HIDE DEF T
      <4> QED
        BY <1>1, <3>1, LeastPlace
    <3>3. i \in J /\ requested[f][i] = k
      BY <2>2, <3>2 DEF Joining
    <3> QED
      BY <3>3 DEF Posted
  <2> QED
    BY <2>1, <2>2
<1> HIDE DEF J
<1> USE DEF KeysAt
<1>6. new \in Seq(Keys)
  <2>1. \A n \in 1..Cardinality(J) : requested[f][place[n]] \in Keys
    BY <1>1, <1>2, <1>4, ElementOfSeq
  <2> QED
    BY <1>3, <1>4, <2>1
<1>7. Range(new) = Posted(f, J)
  BY <1>4 DEF Range, Posted
<1> QED
  BY <1>5, <1>6, <1>7

(***************************************************************************)
(* The inductive invariant.                                                *)
(***************************************************************************)
RefreshTyped ==
  RefreshTypeOK /\ \A f \in Functions : requested[f] \in Seq(KeysOf(f))

\* A key of which something was said waits in the order or in what was taken of
\* it, or is done with: answered, or run at this moment.
WaitingInv ==
  /\ \A k \in Keys : entries[k] # "nothing" <=>
                       k \in Range(order) \/ k \in Range(batch)
                         \/ k \in drained
  /\ at # Nothing => at \in drained /\ call = "draining"
  /\ call # "aborted" => \A k \in drained : told[k] # "none" \/ at = k
  /\ \A k \in Keys : told[k] # "none" => entries[k] # "nothing"
  /\ \A k \in Keys : ran[k] = 0 \/ (ran[k] = 1 /\ k \in drained)
  /\ call = "answered" /\ outcome = "value" =>
       order = <<>> /\ batch = <<>> /\ at = Nothing

\* Of a function's instances nobody chose, what ran or is going to.
Granted(f) == {k \in KeysOf(f) \ chosen : entries[k] = "run" \/ ran[k] > 0}

LimitInv == \A f \in Functions : Cardinality(Granted(f)) <= granted[f]

RefreshInv == RefreshTyped /\ WaitingInv /\ LimitInv

LEMMA KeysAreFinite ==
  /\ \A f \in Functions : IsFiniteSet(KeysOf(f)) /\ KeysOf(f) \subseteq Keys
  /\ Nothing \notin Keys
BY RefreshAssumption, FS_Singleton DEF Functions, KeysOf, Keys

LEMMA GrantedIsFinite ==
  ASSUME NEW f \in Functions
  PROVE  /\ IsFiniteSet(Granted(f)) /\ Cardinality(Granted(f)) \in Nat
         /\ IsFiniteSet(Granted(f)') /\ Cardinality(Granted(f)') \in Nat
<1>1. Granted(f) \subseteq KeysOf(f) /\ Granted(f)' \subseteq KeysOf(f)
  BY DEF Granted, KeysOf
<1> QED
  BY <1>1, KeysAreFinite, FS_Subset, FS_CardinalityType

LEMMA RefreshStarts == RefreshInit => RefreshInv
<1> SUFFICES ASSUME RefreshInit PROVE RefreshInv
  OBVIOUS
<1> USE RefreshAssumption DEF RefreshInit
<1>1. \A f \in Functions : requested[f] \in Seq(KeysOf(f))
  BY DEF Functions, KeysOf, BoundedSeq, SeqOf
<1>2. requested \in [Functions -> Seq(Keys)]
  <2>1. \A f \in Functions : requested[f] \in Seq(Keys)
    BY <1>1, KeysAreFinite, SeqMonotonic
  <2>2. requested = [f \in Functions |-> requested[f]]
    BY DEF Functions
  <2> QED
    BY <2>1, <2>2
<1>3. RefreshTyped
  BY <1>1, <1>2 DEF RefreshTyped, RefreshTypeOK, Said, Keys
<1>4. WaitingInv
  BY DEF WaitingInv, Range
<1>5. LimitInv
  <2>1. \A f \in Functions : Granted(f) = {}
    BY KeysAreFinite DEF Granted
  <2>2. \A f \in Functions : Cardinality(Granted(f)) = 0
    BY <2>1, FS_EmptySet
  <2> QED
    BY <2>2 DEF LimitInv
<1> QED
  BY <1>3, <1>4, <1>5 DEF RefreshInv

(***************************************************************************)
(* Naming.                                                                 *)
(***************************************************************************)
\* What a call of requestedInstances says, of which keys.
LEMMA RequestedSays ==
  ASSUME RefreshTyped, NEW f \in Functions, NEW limit \in 0..MaxRequested,
         NEW accepted \in SUBSET Admitted(f, limit),
         NEW declined \in SUBSET Admitted(f, limit),
         Requested(f, limit, accepted, declined)
  PROVE  /\ order' \in Seq(Keys) /\ entries' \in [Keys -> Said]
         /\ Posted(f, accepted) \subseteq KeysOf(f)
         /\ \A k \in Keys : entries'[k] # entries[k] => entries'[k] # "nothing"
         /\ \A k \in Keys : entries'[k] = "run" =>
              k \in Posted(f, accepted) \/ entries[k] = "run"
         /\ \A k \in Keys : k \in Range(order') <=>
              \/ k \in Range(order)
              \/ entries[k] = "nothing" /\ entries'[k] # "nothing"
<1> DEFINE refused == DOMAIN requested[f] \ Admitted(f, limit)
           J == Joining(f, refused \cup accepted, refused)
<1>1. /\ requested[f] \in Seq(KeysOf(f)) /\ requested[f] \in Seq(Keys)
      /\ order \in Seq(Keys) /\ entries \in [Keys -> Said]
  BY DEF RefreshTyped, RefreshTypeOK
<1>2. refused \cup accepted \in SUBSET DOMAIN requested[f]
  BY DEF Admitted
<1>3. PICK place \in Bijection(1..Cardinality(J), J) :
        order' = order \o KeysAt(f, place)
  BY DEF Requested
<1> DEFINE new == KeysAt(f, place)
<1>4. /\ new \in Seq(Keys)
      /\ Range(new) = {k \in Posted(f, refused \cup accepted) : entries[k] =
           "nothing"}
  <2> HIDE DEF refused
  <2>1. place \in Bijection(1..Cardinality(Joining(f, refused \cup accepted,
        refused)),
                            Joining(f, refused \cup accepted, refused))
    BY <1>3
  <2> QED
    BY <1>1, <1>2, <2>1, JoinedAre
<1>5. entries' = [k \in Keys |-> IF k \in Posted(f, accepted) THEN "run"
                                 ELSE IF k \in Posted(f, refused) THEN "refuse"
                                 ELSE entries[k]]
  BY DEF Requested
<1>6. \A k : k \in Posted(f, refused \cup accepted) <=>
               k \in Posted(f, refused) \/ k \in Posted(f, accepted)
  BY DEF Posted
<1>7. Posted(f, accepted) \subseteq KeysOf(f)
  <2>1. accepted \subseteq 1..Len(requested[f])
    BY <1>1, <1>2, LenProperties
  <2> QED
    BY <1>1, <2>1, ElementOfSeq DEF Posted
<1>8. order' \in Seq(Keys) /\ \A k : k \in Range(order')
      <=> k \in Range(order) \/ k \in Range(new)
  <2> HIDE DEF new
  <2> QED
    BY <1>1, <1>3, <1>4, ConcatProperties, RangeOfConcat DEF new
<1> HIDE DEF refused, new
<1>9. \A k \in Keys : k \in Range(order') <=>
        \/ k \in Range(order)
        \/ entries[k] = "nothing" /\ entries'[k] # "nothing"
  BY <1>4, <1>5, <1>6, <1>8
<1>10. /\ entries' \in [Keys -> Said]
       /\ \A k \in Keys : entries'[k] # entries[k] => entries'[k] # "nothing"
       /\ \A k \in Keys : entries'[k] = "run" =>
            k \in Posted(f, accepted) \/ entries[k] = "run"
  BY <1>1, <1>5 DEF Said
<1> QED
  BY <1>7, <1>8, <1>9, <1>10

\* No more of a function's instances are granted than the limit says.
LEMMA PostedAreFew ==
  ASSUME RefreshTyped, NEW f \in Functions, NEW limit \in Nat,
         NEW accepted \in SUBSET Admitted(f, limit)
  PROVE  IsFiniteSet(Posted(f, accepted))
    /\ Cardinality(Posted(f, accepted)) <= limit
         /\ Cardinality(Posted(f, accepted)) \in Nat
<1>1. DOMAIN requested[f] \subseteq 1..Len(requested[f])
  BY DEF RefreshTyped, RefreshTypeOK
<1>2. accepted \subseteq 1..limit
  BY <1>1, LenProperties DEF Admitted, RefreshTyped, RefreshTypeOK
<1>3. IsFiniteSet(1..limit) /\ Cardinality(1..limit) = limit
  BY FS_Interval
<1>4. IsFiniteSet(accepted) /\ Cardinality(accepted) <= limit
      /\ Cardinality(accepted) \in Nat
  BY <1>2, <1>3, FS_Subset, FS_CardinalityType
<1>5. [i \in accepted |-> requested[f][i]] \in Surjection(accepted, Posted(f,
      accepted))
  BY DEF Surjection, Posted
<1> QED
  BY <1>4, <1>5, FS_Surjection, FS_CardinalityType

LEMMA RefreshKeeps ==
  ASSUME RefreshInv, NEW k \in Instances, Refresh(k)
  PROVE  RefreshInv'
<1> USE KeysAreFinite DEF RefreshInv
<1>1. /\ k \in Keys /\ order \in Seq(Keys) /\ entries \in [Keys -> Said]
      /\ batch \in Seq(Keys) /\ granted \in [Functions -> Nat]
  BY DEF RefreshTyped, RefreshTypeOK, Keys
<1>2. order' \in Seq(Keys) /\ \A m : m \in Range(order') <=>
        m \in Range(order) \/ (m = k /\ entries[k] = "nothing")
  <2>1. CASE entries[k] = "nothing"
    <3>1. order' = order \o <<k>>
      BY <1>1, <2>1, AppendIsConcat DEF Refresh
    <3>2. <<k>> \in Seq(Keys) /\ \A m : m \in Range(<<k>>) <=> m = k
      BY <1>1 DEF Range
    <3> QED
      BY <1>1, <2>1, <3>1, <3>2, ConcatProperties, RangeOfConcat
  <2>2. CASE entries[k] # "nothing"
    BY <1>1, <2>2 DEF Refresh
  <2> QED
    BY <2>1, <2>2
<1>3. RefreshTyped'
  BY <1>1, <1>2, RefreshAssumption
     DEF RefreshTyped, RefreshTypeOK, Refresh, Said, wanted
<1>4. WaitingInv'
  BY <1>1, <1>2 DEF WaitingInv, Refresh, Naming
<1>5. LimitInv'
  <2> SUFFICES ASSUME NEW f \in Functions
        PROVE Cardinality(Granted(f)') <= granted'[f]
    BY DEF LimitInv, Granted
  <2>1. Granted(f)' \subseteq Granted(f)
    BY <1>1 DEF Granted, Refresh, KeysOf
  <2>2. Cardinality(Granted(f)') <= Cardinality(Granted(f))
    BY <2>1, GrantedIsFinite, FS_Subset
  <2> QED
    BY <1>1, <2>2, GrantedIsFinite DEF LimitInv, Refresh
<1> QED
  BY <1>3, <1>4, <1>5

LEMMA RequestedKeeps ==
  ASSUME RefreshInv, NEW f \in Functions, NEW limit \in 0..MaxRequested,
         NEW accepted \in SUBSET Admitted(f, limit),
         NEW declined \in SUBSET Admitted(f, limit),
         Requested(f, limit, accepted, declined)
  PROVE  RefreshInv'
<1> USE KeysAreFinite DEF RefreshInv
<1>1. /\ entries \in [Keys -> Said] /\ granted \in [Functions -> Nat]
      /\ limit \in Nat /\ granted' = [granted EXCEPT ![f] = @ + limit]
      /\ UNCHANGED <<wanted, call, outcome, drained, batch, at, told, chosen,
           ran>>
  BY DEF RefreshTyped, RefreshTypeOK, Requested
<1>2. /\ order' \in Seq(Keys) /\ entries' \in [Keys -> Said]
      /\ Posted(f, accepted) \subseteq KeysOf(f)
      /\ \A k \in Keys : entries'[k] # entries[k] => entries'[k] # "nothing"
      /\ \A k \in Keys : entries'[k] = "run"
           => k \in Posted(f, accepted) \/ entries[k] = "run"
      /\ \A k \in Keys : k \in Range(order') <=>
           k \in Range(order) \/ (entries[k] = "nothing"
             /\ entries'[k] # "nothing")
  BY RequestedSays
<1>3. RefreshTyped'
  <2>1. Posted(f, declined) \subseteq Keys
    <3>1. requested[f] \in Seq(Keys) /\ declined \subseteq 1..Len(requested[f])
      BY LenProperties DEF RefreshTyped, RefreshTypeOK, Admitted
    <3> QED
      BY <3>1, ElementOfSeq DEF Posted
  <2>2. ignored' \subseteq Keys /\ names' \in 0..MaxNames
    BY <2>1, RefreshAssumption DEF Requested, RefreshTyped, RefreshTypeOK
  <2> QED
    BY <1>1, <1>2, <2>2 DEF RefreshTyped, RefreshTypeOK, wanted
<1>4. WaitingInv'
  BY <1>1, <1>2 DEF WaitingInv, Requested, Naming
<1>5. LimitInv'
  <2> SUFFICES ASSUME NEW g \in Functions
        PROVE Cardinality(Granted(g)') <= granted'[g]
    BY DEF LimitInv, Granted
  <2>1. CASE g # f
    <3>1. KeysOf(g) \cap KeysOf(f) = {}
      BY <2>1, RefreshAssumption DEF Functions, KeysOf
    <3>2. Granted(g)' \subseteq Granted(g)
      BY <1>1, <1>2, <3>1 DEF Granted, KeysOf
    <3>3. Cardinality(Granted(g)') <= Cardinality(Granted(g))
      BY <3>2, GrantedIsFinite, FS_Subset
    <3> QED
      BY <1>1, <2>1, <3>3, GrantedIsFinite DEF LimitInv
  <2>2. CASE g = f
    <3> DEFINE P == Posted(f, accepted)
    <3>1. IsFiniteSet(P) /\ Cardinality(P) <= limit /\ Cardinality(P) \in Nat
      BY <1>1, PostedAreFew
    <3>2. Granted(f)' \subseteq Granted(f) \cup P
      BY <1>1, <1>2 DEF Granted, KeysOf
    <3> HIDE DEF P
    <3>3. /\ IsFiniteSet(Granted(f) \cup P)
          /\ Cardinality(Granted(f) \cup P) =
               Cardinality(Granted(f)) + Cardinality(P)
                 - Cardinality(Granted(f) \cap P)
      BY <3>1, GrantedIsFinite, FS_Union
    <3>4. Cardinality(Granted(f) \cap P) \in Nat
      BY GrantedIsFinite, FS_Intersection, FS_CardinalityType
    <3>5. Cardinality(Granted(f)') <= Cardinality(Granted(f) \cup P)
      BY <3>2, <3>3, FS_Subset
    <3>6. Cardinality(Granted(f)) <= granted[f]
          /\ granted'[f] = granted[f] + limit
      BY <1>1 DEF LimitInv
    <3>7. Cardinality(Granted(f)) \in Nat /\ granted[f] \in Nat
          /\ Cardinality(Granted(f)') \in Nat
      BY <1>1, GrantedIsFinite
    <3> QED
      BY <1>1, <2>2, <3>1, <3>3, <3>4, <3>5, <3>6, <3>7
  <2> QED
    BY <2>1, <2>2
<1> QED
  BY <1>3, <1>4, <1>5

(***************************************************************************)
(* The handler returns, and its refreshes run.                             *)
(***************************************************************************)
LEMMA DrainKeeps ==
  ASSUME RefreshInv, DrainOne
  PROVE  RefreshInv'
<1> USE KeysAreFinite DEF RefreshInv
<1> DEFINE k == Head(batch)
<1>1. /\ entries \in [Keys -> Said] /\ told \in [Keys -> {"none", "v", "e"}]
      /\ ran \in [Keys -> Nat] /\ batch \in Seq(Keys) /\ batch # <<>>
      /\ call = "draining" /\ at = Nothing
      /\ UNCHANGED <<wanted, call, outcome, entries, order, ignored,
           bookkeeping>>
  BY DEF RefreshTyped, RefreshTypeOK, DrainOne
<1>2. /\ k \in Keys /\ batch' \in Seq(Keys)
      /\ \A m : m \in Range(batch) <=> m = k \/ m \in Range(batch')
  <2>1. batch' = Tail(batch)
    BY DEF DrainOne
  <2>2. k \in Keys /\ Tail(batch) \in Seq(Keys) /\ batch = <<k>> \o Tail(batch)
    BY <1>1
  <2>3. <<k>> \in Seq(Keys) /\ \A m : m \in Range(<<k>>) <=> m = k
    BY <2>2 DEF Range
  <2> HIDE DEF k
  <2> QED
    BY <2>1, <2>2, <2>3, RangeOfConcat
<1>3. entries[k] # "nothing"
  BY <1>1, <1>2 DEF WaitingInv
<1>4. drained' = drained \cup {k}
  BY DEF DrainOne
\* Done with already, refused, or run from now on.
<1>5. \/ k \in drained /\ UNCHANGED <<told, at, ran>>
      \/ /\ k \notin drained /\ entries[k] = "refuse"
         /\ told' = [told EXCEPT ![k] = "e"] /\ UNCHANGED <<at, ran>>
      \/ /\ k \notin drained /\ entries[k] = "run"
         /\ at' = k /\ ran' = [ran EXCEPT ![k] = @ + 1] /\ UNCHANGED told
  BY <1>1, <1>2, <1>3 DEF DrainOne, Said
<1> HIDE DEF k
<1>6. /\ told' \in [Keys -> {"none", "v", "e"}] /\ ran' \in [Keys -> Nat]
      /\ at' \in Keys \cup {Nothing} /\ drained' \subseteq Keys
  <2>1. drained' \subseteq Keys
    BY <1>2, <1>4 DEF RefreshTyped, RefreshTypeOK
  <2>2. told' \in [Keys -> {"none", "v", "e"}]
    BY <1>1, <1>2, <1>5
  <2>3. ran' \in [Keys -> Nat]
    BY <1>1, <1>2, <1>5
  <2>4. at' \in Keys \cup {Nothing}
    BY <1>1, <1>2, <1>5
  <2> QED
    BY <2>1, <2>2, <2>3, <2>4
<1>7. RefreshTyped'
  BY <1>1, <1>2, <1>6 DEF RefreshTyped, RefreshTypeOK, wanted, bookkeeping
<1>8. WaitingInv'
  <2> USE <1>1, <1>2, <1>3, <1>4 DEF WaitingInv
  <2>1. CASE k \in drained /\ UNCHANGED <<told, at, ran>>
    BY <2>1
  <2>2. CASE /\ k \notin drained /\ told' = [told EXCEPT ![k] = "e"]
             /\ UNCHANGED <<at, ran>>
    BY <2>2
  <2>3. CASE /\ k \notin drained /\ at' = k
             /\ ran' = [ran EXCEPT ![k] = @ + 1] /\ UNCHANGED told
    <3>1. ran'[k] = 1 /\ \A m \in Keys : m # k => ran'[m] = ran[m]
      BY <2>3
    <3>2. \A m \in Keys : ran'[m] = 0 \/ (ran'[m] = 1 /\ m \in drained')
      BY <3>1
    <3>3. \A m \in Keys : entries'[m] # "nothing" <=>
            m \in Range(order') \/ m \in Range(batch') \/ m \in drained'
      OBVIOUS
    <3>4. \A m \in drained' : told'[m] # "none" \/ at' = m
      BY <1>6, <2>3
    <3> QED
      BY <2>3, <3>2, <3>3, <3>4
  <2> QED
    BY <1>5, <2>1, <2>2, <2>3
<1>9. LimitInv'
  <2>1. \A f \in Functions : Granted(f)' \subseteq Granted(f)
    BY <1>1, <1>2, <1>5 DEF Granted, KeysOf, bookkeeping
  <2>2. \A f \in Functions : Cardinality(Granted(f)') <=
        Cardinality(Granted(f))
    BY <2>1, GrantedIsFinite, FS_Subset
  <2>3. \A f \in Functions : granted'[f] = granted[f] /\ granted[f] \in Nat
    BY <1>1 DEF bookkeeping, RefreshTyped, RefreshTypeOK
  <2> QED
    BY <2>2, <2>3, GrantedIsFinite DEF LimitInv
<1> QED
  BY <1>7, <1>8, <1>9

LEMMA RestKeeps ==
  ASSUME RefreshInv,
         \/ \E returned \in {"value", "error", "issues",
            "redirect"} : HandlerReturns(returned)
         \/ Abort \/ Take \/ QueryReturns \/ Answer \/ UNCHANGED refreshVars
  PROVE  RefreshInv'
<1> USE KeysAreFinite DEF RefreshInv
<1>1. UNCHANGED <<entries, chosen, ran, granted, wanted>>
  BY DEF HandlerReturns, Abort, Take, QueryReturns, Answer, refreshVars, set,
       bookkeeping
<1>2. LimitInv'
  BY <1>1 DEF LimitInv, Granted
<1>3. RefreshTyped'
  BY DEF RefreshTyped, RefreshTypeOK, HandlerReturns, Abort, Take,
       QueryReturns, Answer,
         refreshVars, set, bookkeeping, wanted
<1>4. WaitingInv'
  <2>1. CASE \E returned \in {"value", "error", "issues",
             "redirect"} : HandlerReturns(returned)
    BY <2>1 DEF HandlerReturns, WaitingInv, set
  <2>2. CASE Abort
    BY <2>2 DEF Abort, WaitingInv, set
  <2>3. CASE Take
    <3>1. \A k : k \notin Range(<<>>)
      BY DEF Range
    <3> QED
      BY <2>3, <3>1 DEF Take, WaitingInv
  <2>4. CASE QueryReturns
    BY <2>4 DEF QueryReturns, WaitingInv, set, RefreshTyped, RefreshTypeOK
  <2>5. CASE Answer
    BY <2>5 DEF Answer, WaitingInv, set
  <2>6. CASE UNCHANGED refreshVars
    BY <2>6 DEF refreshVars, WaitingInv, set
  <2> QED
    BY <2>1, <2>2, <2>3, <2>4, <2>5, <2>6
<1> QED
  BY <1>2, <1>3, <1>4

LEMMA RefreshHolds == RefreshSpec => []RefreshInv
<1>1. RefreshInv /\ [RefreshNext]_refreshVars => RefreshInv'
  BY RefreshKeeps, RequestedKeeps, DrainKeeps, RestKeeps DEF RefreshNext
<1> QED
  BY <1>1, RefreshStarts, PTL DEF RefreshSpec

\* Whatever the handler and the queries it refreshes name, in whatever order and
\* however often: a call that succeeded tells of each and of nothing else, none
\* ran twice, and no more ran of what the client asked for than limits allow
\* (refresh.go, requested.go).
THEOREM RefreshesAreNamedOnce == RefreshSpec => []RefreshesAreNamed
<1>1. RefreshInv => EveryNamedIsTold
  <2> SUFFICES ASSUME RefreshInv PROVE EveryNamedIsTold
    OBVIOUS
  <2>1. \A k : k \notin Range(<<>>)
    BY DEF Range
  <2>2. \A k \in Keys : ran[k] <= 1
    BY DEF RefreshInv, WaitingInv
  <2>3. ASSUME call = "answered", outcome = "value", NEW k \in Keys
        PROVE  told[k] # "none" <=> entries[k] # "nothing"
    BY <2>1, <2>3, KeysAreFinite DEF RefreshInv, WaitingInv
  <2> QED
    BY <2>2, <2>3 DEF EveryNamedIsTold
<1>2. RefreshInv => LimitsHold
  <2> SUFFICES ASSUME RefreshInv, NEW f \in Functions
               PROVE  Cardinality({k \in KeysOf(f) \ chosen : ran[k] > 0}) <=
                 granted[f]
    BY DEF LimitsHold
  <2> DEFINE Ran == {k \in KeysOf(f) \ chosen : ran[k] > 0}
  <2>1. Ran \subseteq Granted(f)
    BY DEF Granted
  <2> HIDE DEF Ran
  <2>2. Cardinality(Ran) <= Cardinality(Granted(f)) /\ Cardinality(Ran) \in Nat
    BY <2>1, GrantedIsFinite, FS_Subset, FS_CardinalityType
  <2>3. Cardinality(Granted(f)) <= granted[f] /\ granted[f] \in Nat
    BY DEF RefreshInv, LimitInv, RefreshTyped, RefreshTypeOK
  <2>4. Cardinality(Ran) <= granted[f]
    BY <2>2, <2>3, GrantedIsFinite
  <2> QED
    BY <2>4 DEF Ran
<1> QED
  BY <1>1, <1>2, RefreshHolds, PTL DEF RefreshesAreNamed

------------------------------------------------------------------------------
(* Data requests: a branch of any depth, promised values that hold others. *)

\* What a load that goes on may have read: not a failure, and of a node that
\* was skipped only that it was.
Readable(j) == node[j].kind \in {"null", "data", "skip"}

Places  == {"idle", "working", "parent", "ended"}
Parents == {"none", "whole", "failed"}
Runs == [at : Places, kind : Kinds, read : 0..Depth, parent : Parents,
         holds : SUBSET Promises]

NodesInv ==
  /\ \A i \in Nodes :
       /\ node[i].at = "ended" <=> node[i].kind # "none"
       /\ node[i].kind = "skip" => aborted /\ i \notin asked
       /\ node[i].at # "parent" => node[i].read = 0
       /\ \A j \in Nodes : j < node[i].read => Readable(j)
       /\ node[i].parent = "whole" => \A j \in Nodes : j < i => Readable(j)
  /\ aborted => \E k \in Nodes : Failed(k)

\* The answer is made once, of what has ended by then, with its headers.
ReplyInv ==
  /\ serving = "loading" => /\ reply = "none" /\ table = {} /\ started = {}
                            /\ chunks = <<>>
  /\ serving # "loading" => /\ reply # "none" /\ headers.sealed
                            /\ \A i \in asked : node[i].at = "ended"
  /\ serving \in {"looking", "selecting"} => reply = "nodes"
  /\ AskedIsAnswered /\ AcceptedIsSent

\* What the client was told of has an id, and what was written a goroutine
\* waited for; so that a loop which wrote as many as there are wrote them all.
ChunksInv ==
  /\ \A n \in DOMAIN chunks :
       ~chunks[n].error => promise[chunks[n].of].at = "settled"
  /\ Written \subseteq started /\ Cardinality(Written) = Len(chunks)
  /\ reply = "nodes" => Told \subseteq table
  /\ reply = "nodes" /\ serving = "over" /\ visitor = "here"
       => table \subseteq Written

BranchInv == BranchTypeOK /\ NodesInv /\ ReplyInv /\ ChunksInv

LEMMA ToldBy ==
  ASSUME NEW S, NEW n, NEW v,
    NEW cs \in Seq([of : Promises, error : BOOLEAN]), NEW p
  PROVE  p \in UNION ({n[i].holds : i \in S} \cup
                      {v[c.of].holds : c \in {cs[m] : m \in DOMAIN cs} \cap
                                             [of : Promises, error : {FALSE}]})
         <=> \/ \E i \in S : p \in n[i].holds
             \/ \E m \in DOMAIN cs : ~cs[m].error /\ p \in v[cs[m].of].holds
<1> DEFINE whole ==
             {cs[m] : m \in DOMAIN cs} \cap [of : Promises, error : {FALSE}]
<1>1. \A m \in DOMAIN cs : cs[m] \in [of : Promises, error : BOOLEAN]
  <2>1. DOMAIN cs = 1..Len(cs)
    OBVIOUS
  <2> QED
    BY <2>1, ElementOfSeq, Zenon
<1>2. \A c : c \in whole <=> \E m \in DOMAIN cs : c = cs[m] /\ ~cs[m].error
  BY <1>1
<1> HIDE DEF whole
<1>3. p \in UNION ({n[i].holds : i \in S} \cup {v[c.of].holds : c \in whole})
      <=> \/ \E i \in S : p \in n[i].holds
          \/ \E c \in whole : p \in v[c.of].holds
  OBVIOUS
<1> QED
  BY <1>2, <1>3 DEF whole

\* What the client was told of, before a step and after it.
ToldNow(p) ==
  \/ \E i \in Sent("data") : p \in node[i].holds
  \/ \E m \in DOMAIN chunks : ~chunks[m].error
     /\ p \in promise[chunks[m].of].holds

LEMMA ToldIs ==
  ASSUME NEW p
  PROVE  /\ BranchTypeOK => (p \in Told <=> ToldNow(p))
         /\ BranchTypeOK' => ((p \in Told)' <=> ToldNow(p)')
<1>1. ASSUME BranchTypeOK PROVE p \in Told <=> ToldNow(p)
  <2>1. chunks \in Seq([of : Promises, error : BOOLEAN])
    BY <1>1 DEF BranchTypeOK
  <2> QED
    BY <2>1, ToldBy DEF Told, ToldNow
<1>2. ASSUME BranchTypeOK' PROVE (p \in Told)' <=> ToldNow(p)'
  <2>1. chunks' \in Seq([of : Promises, error : BOOLEAN])
    BY <1>2 DEF BranchTypeOK
  <2> QED
    BY <2>1, ToldBy DEF Told, ToldNow
<1> QED
  BY <1>1, <1>2

LEMMA BranchStarts == BranchInit => BranchInv
<1> SUFFICES ASSUME BranchInit PROVE BranchInv
  OBVIOUS
<1> USE DEF BranchInit
<1>1. BranchTypeOK
  <2>1. node \in [Nodes -> Runs]
    BY BranchAssumption DEF Runs, Places, Parents, Kinds
  <2>2. chunks \in Seq([of : Promises, error : BOOLEAN])
    OBVIOUS
  <2> QED
    BY <2>1, <2>2 DEF BranchTypeOK, Runs, Places, Parents
<1>2. NodesInv
  BY BranchAssumption DEF NodesInv, Nodes, Readable
<1>3. ReplyInv
  BY DEF ReplyInv, AskedIsAnswered, AcceptedIsSent
<1>4. Written = {}
  BY DEF Written
<1>5. ChunksInv
  BY <1>4, FS_EmptySet DEF ChunksInv
<1> QED
  BY <1>1, <1>2, <1>3, <1>5 DEF BranchInv

(***************************************************************************)
(* One node moves.                                                         *)
(***************************************************************************)
NodeSteps(i) == Run(i) \/ CallParent(i) \/ ReadParent(i) \/ ReturnData(i)
  \/ Fail(i)

\* The records a node's run becomes.
LEMMA ReadAdvances ==
  ASSUME NEW x \in [Nodes -> Runs], NEW i \in Nodes, NEW parent \in Parents
  PROVE  [x EXCEPT ![i].at = "working", ![i].read = 0, ![i].parent = parent]
           \in [Nodes -> Runs]
<1>1. [x[i] EXCEPT !.at = "working", !.read = 0, !.parent = parent] \in Runs
  <2>1. 0 \in 0..Depth /\ "working" \in Places
    BY BranchAssumption DEF Places
  <2> QED
    BY <2>1 DEF Runs
<1> QED
  BY <1>1

LEMMA DataEnds ==
  ASSUME NEW x \in [Nodes -> Runs], NEW i \in Nodes,
    NEW held \in SUBSET Promises
  PROVE  [x EXCEPT ![i].at = "ended", ![i].kind = "data", ![i].holds = held,
                   ![i].parent = "none"] \in [Nodes -> Runs]
<1>1. [x[i] EXCEPT !.at = "ended", !.kind = "data", !.holds = held,
                   !.parent = "none"] \in Runs
  BY DEF Runs, Places, Kinds, Parents
<1> QED
  BY <1>1

LEMMA FailureEnds ==
  ASSUME NEW x \in [Nodes -> Runs], NEW i \in Nodes,
    NEW kind \in {"error", "redirect"}
  PROVE  [x EXCEPT ![i].at = "ended", ![i].kind = kind, ![i].parent = "none"]
           \in [Nodes -> Runs]
<1>1. [x[i] EXCEPT !.at = "ended", !.kind = kind, !.parent = "none"] \in Runs
  BY DEF Runs, Places, Kinds, Parents
<1> QED
  BY <1>1

\* What a step of a node makes of its run.  The other nodes, and all there is
\* but the failure, it leaves alone.
Moved(i) ==
  /\ node' \in [Nodes -> Runs] /\ \A j \in Nodes : j # i => node'[j] = node[j]
  /\ node[i].at # "ended"
  /\ UNCHANGED <<asked, promise, headers, visitor, replyVars>>

LEMMA RunMoves ==
  ASSUME node \in [Nodes -> Runs], NEW i \in Nodes, Run(i)
  PROVE  /\ Moved(i) /\ node[i].at = "idle" /\ aborted' = aborted
         /\ node'[i].read = node[i].read /\ node'[i].parent = node[i].parent
         /\ \/ node'[i].at = "ended" /\ node'[i].kind = "null"
            \/ node'[i].at = "ended" /\ node'[i].kind = "skip" /\ Skipped(i)
            \/ node'[i].at = "working" /\ node'[i].kind = node[i].kind
<1>1. node' \in [Nodes -> Runs] /\ \A j \in Nodes : j # i => node'[j] = node[j]
  BY DEF Run, Runs, Places, Parents, Kinds
<1>2. node'[i].read = node[i].read /\ node'[i].parent = node[i].parent
  BY DEF Run, Runs
<1>3. \/ node'[i].at = "ended" /\ node'[i].kind = "null"
      \/ node'[i].at = "ended" /\ node'[i].kind = "skip" /\ Skipped(i)
      \/ node'[i].at = "working" /\ node'[i].kind = node[i].kind
  BY DEF Run, Runs
<1> QED
  BY <1>1, <1>2, <1>3 DEF Run, Moved

LEMMA CallMoves ==
  ASSUME node \in [Nodes -> Runs], NEW i \in Nodes, CallParent(i)
  PROVE  /\ Moved(i) /\ aborted' = aborted
         /\ node'[i].at = "parent" /\ node'[i].kind = node[i].kind
         /\ node'[i].read = node[i].read /\ node'[i].parent = node[i].parent
         /\ node[i].at = "working" /\ node[i].parent = "none"
<1>1. node' \in [Nodes -> Runs] /\ \A j \in Nodes : j # i => node'[j] = node[j]
  BY DEF CallParent, Runs, Places
<1>2. /\ node'[i].at = "parent" /\ node'[i].kind = node[i].kind
      /\ node'[i].read = node[i].read /\ node'[i].parent = node[i].parent
  BY DEF CallParent, Runs
<1> QED
  BY <1>1, <1>2 DEF CallParent, Working, Moved

LEMMA ReadMoves ==
  ASSUME node \in [Nodes -> Runs], NEW i \in Nodes, ReadParent(i)
  PROVE  /\ Moved(i) /\ aborted' = aborted /\ node[i].at = "parent"
         /\ node'[i].kind = node[i].kind
         /\ \/ /\ node'[i].at = "working" /\ node'[i].read = 0
               /\ node'[i].parent = "failed"
            \/ /\ node'[i].at = "working" /\ node'[i].read = 0
               /\ node'[i].parent = "whole" /\ node[i].read = i
            \/ /\ node'[i].at = "parent" /\ node'[i].read = node[i].read + 1
               /\ node'[i].parent = node[i].parent /\ node[i].read < i
               /\ Ended(node[i].read) /\ ~Failed(node[i].read)
<1> DEFINE r == node[i].read
<1>1. CASE node' = [node EXCEPT ![i].read = r + 1] /\ r < i /\ Ended(r)
             /\ ~Failed(r)
  <2>1. r + 1 \in 0..Depth
    BY <1>1, BranchAssumption DEF Runs, Nodes
  <2>2. /\ node' \in [Nodes -> Runs]
        /\ \A j \in Nodes : j # i => node'[j] = node[j]
    BY <1>1, <2>1 DEF Runs
  <2> QED
    BY <1>1, <2>2 DEF ReadParent, Moved, Runs
<1>2. CASE \E parent \in {"whole", "failed"} :
              /\ node' = [node EXCEPT ![i].at = "working", ![i].read = 0,
                   ![i].parent = parent]
              /\ parent = "whole" => r = i
  <2>1. /\ node' \in [Nodes -> Runs]
        /\ \A j \in Nodes : j # i => node'[j] = node[j]
    <3>1. PICK parent \in Parents :
            node' = [node EXCEPT ![i].at = "working", ![i].read = 0,
              ![i].parent = parent]
      BY <1>2 DEF Parents
    <3>2. node' \in [Nodes -> Runs]
      BY <3>1, ReadAdvances, Zenon
    <3> QED
      BY <3>1, <3>2
  <2>2. /\ node'[i].at = "working" /\ node'[i].read = 0
        /\ node'[i].kind = node[i].kind
        /\ node'[i].parent = "failed" \/ (node'[i].parent = "whole" /\ r = i)
    BY <1>2 DEF Runs
  <2> QED
    BY <2>1, <2>2 DEF ReadParent, Moved
<1> QED
  BY <1>1, <1>2 DEF ReadParent

LEMMA ReturnMoves ==
  ASSUME node \in [Nodes -> Runs], NEW i \in Nodes, ReturnData(i)
  PROVE  /\ Moved(i) /\ aborted' = aborted /\ node[i].at = "working"
         /\ node'[i].at = "ended" /\ node'[i].kind = "data"
         /\ node'[i].read = node[i].read /\ node'[i].parent = "none"
<1>1. PICK held \in SUBSET Promises :
        node' = [node EXCEPT ![i].at = "ended", ![i].kind = "data",
                             ![i].holds = held, ![i].parent = "none"]
  <2>1. Promised \in SUBSET Promises
    BY DEF Promised
  <2>2. CASE i \in asked
    BY <2>1, <2>2, Zenon DEF ReturnData
  <2>3. CASE i \notin asked
    <3>1. PICK held \in {{}} :
            node' = [node EXCEPT ![i].at = "ended", ![i].kind = "data",
                                 ![i].holds = held, ![i].parent = "none"]
      BY <2>3, Zenon DEF ReturnData
    <3>2. held \in SUBSET Promises
      OBVIOUS
    <3> QED
      BY <3>1, <3>2, Zenon
  <2> QED
    BY <2>2, <2>3, Zenon
<1>2. node' \in [Nodes -> Runs] /\ \A j \in Nodes : j # i => node'[j] = node[j]
  <2>1. node' \in [Nodes -> Runs]
    BY <1>1, DataEnds, Zenon
  <2> QED
    BY <1>1, <2>1
<1>3. /\ node'[i].at = "ended" /\ node'[i].kind = "data"
      /\ node'[i].read = node[i].read /\ node'[i].parent = "none"
  BY <1>1 DEF Runs
<1> QED
  BY <1>2, <1>3 DEF ReturnData, Working, Moved

LEMMA FailMoves ==
  ASSUME node \in [Nodes -> Runs], NEW i \in Nodes, Fail(i)
  PROVE  /\ Moved(i) /\ aborted' = TRUE /\ node[i].at = "working"
         /\ node'[i].at = "ended" /\ node'[i].kind \in {"error", "redirect"}
         /\ node'[i].read = node[i].read /\ node'[i].parent = "none"
<1>1. PICK kind \in {"error", "redirect"} :
        node' = [node EXCEPT ![i].at = "ended", ![i].kind = kind,
          ![i].parent = "none"]
  BY DEF Fail
<1>2. node' \in [Nodes -> Runs] /\ \A j \in Nodes : j # i => node'[j] = node[j]
  <2>1. node' \in [Nodes -> Runs]
    BY <1>1, FailureEnds, Zenon
  <2> QED
    BY <1>1, <2>1
<1>3. /\ node'[i].at = "ended" /\ node'[i].kind \in {"error", "redirect"}
      /\ node'[i].read = node[i].read /\ node'[i].parent = "none"
  BY <1>1 DEF Runs
<1> QED
  BY <1>2, <1>3 DEF Fail, Working, Moved

LEMMA NodeMoves ==
  ASSUME BranchTypeOK, NEW i \in Nodes, NodeSteps(i)
  PROVE  Moved(i) /\ BranchTypeOK'
<1>1. node \in [Nodes -> Runs]
  BY DEF BranchTypeOK, Runs, Places, Parents
<1>2. Moved(i)
  BY <1>1, RunMoves, CallMoves, ReadMoves, ReturnMoves, FailMoves DEF NodeSteps
<1>3. aborted' \in BOOLEAN
  BY <1>1, RunMoves, CallMoves, ReadMoves, ReturnMoves, FailMoves
     DEF NodeSteps, BranchTypeOK
<1> QED
  BY <1>2, <1>3 DEF Moved, BranchTypeOK, Runs, Places, Parents, replyVars

LEMMA NodeKeepsNodes ==
  ASSUME BranchInv, NEW i \in Nodes, NodeSteps(i)
  PROVE  NodesInv'
<1>1. node \in [Nodes -> Runs]
  BY DEF BranchInv, BranchTypeOK, Runs, Places, Parents
<1>2. Moved(i)
  BY NodeMoves DEF BranchInv
<1>3. node[i].at # "ended" /\ node[i].kind = "none"
  BY <1>2 DEF Moved, BranchInv, NodesInv
<1>4. \A j \in Nodes : Readable(j) => j # i /\ Readable(j)'
  BY <1>2, <1>3 DEF Moved, Readable
<1>5. \A k \in Nodes : Failed(k) => Failed(k)'
  BY <1>2, <1>3 DEF Moved, Failed
\* What is to be shown of the node that moved.
<1> DEFINE Fine ==
      /\ node'[i].at = "ended" <=> node'[i].kind # "none"
      /\ node'[i].kind = "skip" => aborted /\ i \notin asked
      /\ node'[i].at # "parent" => node'[i].read = 0
      /\ \A j \in Nodes : j < node'[i].read => Readable(j)
      /\ node'[i].parent = "whole" => \A j \in Nodes : j < i => Readable(j)
      /\ aborted => aborted'
      /\ aborted' => aborted \/ Failed(i)'
<1>6. Fine => NodesInv'
  <2> SUFFICES ASSUME Fine PROVE NodesInv'
    OBVIOUS
  <2>1. ASSUME NEW k \in Nodes
        PROVE  /\ node'[k].at = "ended" <=> node'[k].kind # "none"
               /\ node'[k].kind = "skip" => aborted' /\ k \notin asked'
               /\ node'[k].at # "parent" => node'[k].read = 0
               /\ \A j \in Nodes : j < node'[k].read => Readable(j)'
               /\ node'[k].parent = "whole" => \A j \in Nodes : j < k
                    => Readable(j)'
    <3>1. CASE k = i
      BY <3>1, <1>2, <1>4 DEF Moved
    <3>2. CASE k # i
      BY <3>2, <1>2, <1>4 DEF Moved, BranchInv, NodesInv
    <3> QED
      BY <3>1, <3>2
  <2>2. aborted' => \E k \in Nodes : Failed(k)'
    BY <1>5 DEF BranchInv, NodesInv
  <2> QED
    BY <2>1, <2>2 DEF NodesInv
<1>7. /\ node[i].at # "parent" => node[i].read = 0
      /\ \A j \in Nodes : j < node[i].read => Readable(j)
      /\ node[i].parent = "whole" => \A j \in Nodes : j < i => Readable(j)
  BY DEF BranchInv, NodesInv
<1>8. CASE Run(i)
  BY <1>1, <1>3, <1>6, <1>7, <1>8, RunMoves DEF Skipped
<1>9. CASE CallParent(i)
  BY <1>1, <1>3, <1>6, <1>7, <1>9, CallMoves
<1>10. CASE ReadParent(i)
  <2>1. i \in Nat /\ node[i].read \in Nat
    BY <1>1, BranchAssumption DEF Nodes, Runs
  <2>2. CASE node'[i].at = "parent"
    <3> DEFINE r == node[i].read
    <3>1. /\ node'[i].read = r + 1 /\ node'[i].parent = node[i].parent
          /\ node'[i].kind = node[i].kind /\ aborted' = aborted
          /\ r < i /\ Ended(r) /\ ~Failed(r)
      BY <1>1, <1>10, <2>2, ReadMoves
    <3>2. r \in Nodes
      BY <2>1, <3>1, BranchAssumption DEF Nodes
    <3>3. node[r].kind \in Kinds \ {"none"}
      BY <1>1, <3>1, <3>2 DEF Ended, BranchInv, NodesInv, Runs
    <3>4. Readable(r)
      BY <3>1, <3>3 DEF Readable, Failed, Kinds
    <3>5. \A j \in Nodes : j < r + 1 => j < r \/ j = r
      BY <3>2 DEF Nodes
    <3> HIDE DEF r
    <3> QED
      BY <1>3, <1>6, <1>7, <2>2, <3>1, <3>4, <3>5 DEF r
  <2>3. CASE node'[i].at # "parent"
    BY <1>1, <1>3, <1>6, <1>7, <1>10, <2>1, <2>3, ReadMoves DEF Nodes
  <2> QED
    BY <2>2, <2>3
<1>11. CASE ReturnData(i)
  BY <1>1, <1>6, <1>7, <1>11, ReturnMoves DEF Nodes
<1>12. CASE Fail(i)
  <2>1. Failed(i)'
    BY <1>1, <1>12, FailMoves DEF Failed
  <2> QED
    BY <1>1, <1>6, <1>7, <1>12, <2>1, FailMoves DEF Nodes
<1> QED
  BY <1>8, <1>9, <1>10, <1>11, <1>12 DEF NodeSteps

LEMMA NodeKeepsRest ==
  ASSUME BranchInv, NEW i \in Nodes, NodeSteps(i)
  PROVE  ReplyInv' /\ ChunksInv'
<1> USE DEF BranchInv
<1>1. /\ \A j \in Nodes : j # i => node'[j] = node[j]
      /\ node[i].at # "ended"
      /\ UNCHANGED <<asked, promise, headers, visitor, reply, serving, table,
                     started, lost, chunks>>
  BY NodeMoves DEF Moved, replyVars
<1>2. serving # "loading" => i \notin asked
  BY <1>1 DEF ReplyInv
<1>3. asked \subseteq Nodes
  BY DEF BranchTypeOK
<1>4. ReplyInv'
  BY <1>1, <1>2, <1>3 DEF ReplyInv, AskedIsAnswered, AcceptedIsSent
<1>5. serving # "loading" => Told' = Told
  <2> SUFFICES ASSUME serving # "loading", NEW p
      PROVE (p \in Told)' <=> p \in Told
    BY DEF Told
  <2>1. BranchTypeOK'
    BY NodeMoves
  <2>2. \A j \in asked : node'[j] = node[j]
    BY <1>1, <1>2, <1>3
  <2>3. Sent("data")' = Sent("data")
          /\ \A j \in Sent("data") : node'[j] = node[j]
    BY <1>1, <2>2 DEF Sent
  <2>4. ToldNow(p)' <=> ToldNow(p)
    BY <1>1, <2>3 DEF ToldNow
  <2> QED
    BY <2>1, <2>4, ToldIs DEF BranchInv
<1>6. Written' = Written
  BY <1>1 DEF Written
<1>7. ChunksInv'
  BY <1>1, <1>5, <1>6 DEF ChunksInv, ReplyInv
<1> QED
  BY <1>4, <1>7

(***************************************************************************)
(* The code of the application sets headers and promises values.           *)
(***************************************************************************)
LEMMA HeadersKeep ==
  ASSUME BranchInv, NEW h,
         (h \in Headers /\ SetHeader(h)) \/ (h \in Cookies /\ SetCookie(h))
  PROVE  BranchInv'
<1> USE DEF BranchInv
<1>1. /\ UNCHANGED <<asked, node, aborted, promise, visitor, reply, serving,
        table,
                     started, lost, chunks>>
      /\ headers' = [headers EXCEPT !.accepted = @ \cup {h}]
      /\ h \in Headers => ~headers.sealed
  BY BranchAssumption DEF SetHeader, SetCookie, replyVars
<1>2. headers \in [accepted : SUBSET (Headers \cup Cookies),
                   sent : SUBSET (Headers \cup Cookies), sealed : BOOLEAN]
  BY DEF BranchTypeOK
<1>3. /\ headers'.accepted = headers.accepted \cup {h}
        /\ headers'.sent = headers.sent
      /\ headers'.sealed = headers.sealed
      /\ headers' \in [accepted : SUBSET (Headers \cup Cookies),
                        sent : SUBSET (Headers \cup Cookies), sealed : BOOLEAN]
  BY <1>1, <1>2
<1>4. BranchTypeOK'
  BY <1>1, <1>3 DEF BranchTypeOK
<1>5. NodesInv'
  BY <1>1 DEF NodesInv, Readable, Failed
<1>6. ReplyInv'
  BY <1>1, <1>3, BranchAssumption DEF ReplyInv, AskedIsAnswered, AcceptedIsSent
<1>7. Told' = Told /\ Written' = Written
  BY <1>1 DEF Told, Written, Sent
<1>8. ChunksInv'
  BY <1>1, <1>7 DEF ChunksInv
<1> QED
  BY <1>4, <1>5, <1>6, <1>8

LEMMA PromisesKeep ==
  ASSUME BranchInv, NEW p \in Promises, Async(p) \/ Settle(p)
  PROVE  BranchInv'
<1> USE DEF BranchInv
<1>1. /\ UNCHANGED <<asked, node, aborted, headers, visitor, reply, serving,
        table,
                     started, lost, chunks>>
      /\ promise[p].at # "settled"
  BY DEF Async, Settle, Running, replyVars
<1>2. /\ promise' \in [Promises -> [at : {"none", "running", "settled"},
                                    holds : SUBSET Promises]]
      /\ \A q \in Promises : q # p => promise'[q] = promise[q]
  <2>1. promise \in [Promises -> [at : {"none", "running", "settled"},
                                  holds : SUBSET Promises]]
    BY DEF BranchTypeOK
  <2>2. CASE Async(p)
    BY <2>1, <2>2 DEF Async
  <2>3. CASE Settle(p)
    <3>1. PICK held \in SUBSET Promises :
            promise' = [promise EXCEPT ![p].at = "settled", ![p].holds = held]
      <4>1. SUBSET (Promised \ {p}) \subseteq SUBSET Promises
        BY DEF Promised
      <4> QED
        BY <2>3, <4>1 DEF Settle
    <3>2. [promise[p] EXCEPT !.at = "settled", !.holds = held]
            \in [at : {"none", "running", "settled"}, holds : SUBSET Promises]
      BY <2>1
    <3>3. promise' = [promise EXCEPT ![p] = [promise[p] EXCEPT !.at =
            "settled", !.holds = held]]
      BY <2>1, <3>1
    <3> QED
      BY <2>1, <3>2, <3>3
  <2> QED
    BY <2>2, <2>3
<1>3. BranchTypeOK'
  BY <1>1, <1>2 DEF BranchTypeOK
<1>4. NodesInv'
  BY <1>1 DEF NodesInv, Readable, Failed
<1>5. ReplyInv'
  BY <1>1 DEF ReplyInv, AskedIsAnswered, AcceptedIsSent
<1>6. \A m \in DOMAIN chunks : chunks[m] \in [of : Promises, error : BOOLEAN]
  <2>1. chunks \in Seq([of : Promises, error : BOOLEAN])
    BY DEF BranchTypeOK
  <2>2. DOMAIN chunks = 1..Len(chunks)
    BY <2>1
  <2> QED
    BY <2>1, <2>2, ElementOfSeq, Zenon
<1>7. \A m \in DOMAIN chunks : ~chunks[m].error =>
        /\ promise'[chunks[m].of] = promise[chunks[m].of]
        /\ promise[chunks[m].of].at = "settled"
  <2> SUFFICES ASSUME NEW m \in DOMAIN chunks, ~chunks[m].error
               PROVE  /\ promise'[chunks[m].of] = promise[chunks[m].of]
                      /\ promise[chunks[m].of].at = "settled"
    OBVIOUS
  <2>1. promise[chunks[m].of].at = "settled" /\ chunks[m].of \in Promises
    BY <1>6 DEF ChunksInv
  <2> QED
    BY <1>1, <1>2, <2>1
<1>8. \A q : q \in Told' <=> q \in Told
  <2> SUFFICES ASSUME NEW q PROVE ToldNow(q)' <=> ToldNow(q)
    BY <1>3, ToldIs
  <2>1. Sent("data")' = Sent("data")
    BY <1>1 DEF Sent
  <2> QED
    BY <1>1, <1>7, <2>1 DEF ToldNow
<1>9. ChunksInv'
  <2>1. Written' = Written
    BY <1>1 DEF Written
  <2> QED
    BY <1>1, <1>7, <1>8, <2>1 DEF ChunksInv
<1> QED
  BY <1>3, <1>4, <1>5, <1>9

(***************************************************************************)
(* The answer.                                                             *)
(***************************************************************************)
LEMMA AnsweringKeeps ==
  ASSUME BranchInv, Answering
  PROVE  BranchInv'
<1> USE DEF BranchInv
<1>1. /\ UNCHANGED <<asked, node, aborted, promise, started, lost, chunks,
        visitor>>
      /\ serving = "loading" /\ \A i \in asked : node[i].at = "ended"
      /\ serving' \in {"looking", "over"} /\ Apply
      /\ reply' \in {"redirect", "fatal", "nodes", "head"}
      /\ serving' = "looking" => reply' = "nodes"
      /\ reply' \in {"nodes", "head"} => Sent("redirect") = {}
      /\ table' = IF reply' \in {"nodes", "head"}
                  THEN UNION {node[i].holds : i \in Sent("data")} ELSE table
      /\ reply' = "nodes" /\ serving' = "over" => table' = {}
  BY DEF Answering, Redirect, FatalError, WriteNodes, Gathered
<1>2. table = {} /\ started = {} /\ chunks = <<>> /\ lost = {}
  BY <1>1 DEF ReplyInv, BranchTypeOK
<1>3. node \in [Nodes -> Runs] /\ asked \subseteq Nodes
  BY DEF BranchTypeOK, Runs, Places, Parents
<1>4. table' \subseteq Promises
  BY <1>1, <1>2, <1>3 DEF Sent, Runs
<1>5. /\ headers' \in [accepted : SUBSET (Headers \cup Cookies),
                        sent : SUBSET (Headers \cup Cookies), sealed : BOOLEAN]
      /\ headers'.sealed /\ headers'.sent = headers'.accepted
  <2>1. headers \in [accepted : SUBSET (Headers \cup Cookies),
                     sent : SUBSET (Headers \cup Cookies), sealed : BOOLEAN]
    BY DEF BranchTypeOK
  <2> QED
    BY <1>1, <2>1 DEF Apply
<1>6. BranchTypeOK'
  BY <1>1, <1>2, <1>4, <1>5 DEF BranchTypeOK
<1>7. NodesInv'
  BY <1>1 DEF NodesInv, Readable, Failed
<1>8. AskedIsAnswered'
  <2> SUFFICES ASSUME reply' \in {"nodes", "head"}, NEW i \in asked
               PROVE  node[i].kind \in {"null", "data", "error"}
    BY <1>1 DEF AskedIsAnswered
  <2>1. node[i].kind # "redirect"
    BY <1>1 DEF Sent
  <2>2. node[i].kind \notin {"none", "skip"}
    BY <1>1, <1>3 DEF NodesInv
  <2>3. node[i].kind \in Kinds
    BY <1>3 DEF Runs
  <2> QED
    BY <2>1, <2>2, <2>3 DEF Kinds
<1>9. ReplyInv'
  BY <1>1, <1>5, <1>8 DEF ReplyInv, AcceptedIsSent
<1>10. Written = {} /\ Written' = {}
  BY <1>1, <1>2 DEF Written
<1>11. reply' = "nodes" => Told' \subseteq table'
  <2> SUFFICES ASSUME reply' = "nodes", NEW q, ToldNow(q)' PROVE q \in table'
    BY <1>6, ToldIs
  <2>1. Sent("data")' = Sent("data")
          /\ table' = UNION {node[i].holds : i \in Sent("data")}
    BY <1>1 DEF Sent
  <2> QED
    BY <1>1, <1>2, <2>1 DEF ToldNow
<1>12. ChunksInv'
  BY <1>1, <1>2, <1>10, <1>11, FS_EmptySet DEF ChunksInv
<1> QED
  BY <1>6, <1>7, <1>9, <1>12

(***************************************************************************)
(* The stream.                                                             *)
(***************************************************************************)
LEMMA WrittenIs ==
  ASSUME BranchInv
  PROVE  /\ Written \subseteq table /\ table \subseteq Promises
         /\ IsFiniteSet(table) /\ IsFiniteSet(Written)
         /\ Len(chunks) = Cardinality(table) => Written = table
<1>1. Written \subseteq table /\ table \subseteq Promises
  BY DEF BranchInv, ChunksInv, BranchTypeOK
<1>2. IsFiniteSet(table) /\ IsFiniteSet(Written)
  BY <1>1, FS_Subset, BranchAssumption
<1>3. Len(chunks) = Cardinality(Written)
  BY DEF BranchInv, ChunksInv
<1> QED
  BY <1>1, <1>2, <1>3, FS_Subset

LEMMA LookKeeps ==
  ASSUME BranchInv, Look
  PROVE  BranchInv'
<1> USE DEF BranchInv
<1>1. /\ UNCHANGED <<asked, node, aborted, promise, headers, reply, table,
        lost,
                     chunks, visitor>>
      /\ serving = "looking" /\ started' = table
           /\ serving' \in {"over", "selecting"}
      /\ serving' = "over" => Len(chunks) = Cardinality(table)
  BY DEF Look
<1>2. BranchTypeOK'
  BY <1>1 DEF BranchTypeOK
<1>3. NodesInv'
  BY <1>1 DEF NodesInv, Readable, Failed
<1>4. ReplyInv'
  BY <1>1 DEF ReplyInv, AskedIsAnswered, AcceptedIsSent
<1>5. Told' = Told /\ Written' = Written
  BY <1>1 DEF Told, Written, Sent
<1>6. ChunksInv'
  BY <1>1, <1>5, WrittenIs DEF ChunksInv
<1> QED
  BY <1>2, <1>3, <1>4, <1>6

\* The client leaves, the handler leaves with it, and so do the goroutines.
LEMMA LeavingKeeps ==
  ASSUME BranchInv, Leave \/ VisitorLeaves \/ \E p \in Promises : Lose(p)
  PROVE  BranchInv'
<1> USE DEF BranchInv
<1>1. /\ UNCHANGED <<asked, node, aborted, promise, headers, reply, table,
        started,
                     chunks>>
      /\ lost' \subseteq started
      /\ \/ serving' = serving /\ visitor' \in {visitor, "gone"}
         \/ serving = "selecting" /\ serving' = "over" /\ visitor' = "gone"
  BY DEF Leave, VisitorLeaves, Lose, Waiting, replyVars, BranchTypeOK
<1>2. BranchTypeOK'
  BY <1>1 DEF BranchTypeOK
<1>3. NodesInv'
  BY <1>1 DEF NodesInv, Readable, Failed
<1>4. ReplyInv'
  BY <1>1 DEF ReplyInv, AskedIsAnswered, AcceptedIsSent
<1>5. Told' = Told /\ Written' = Written
  BY <1>1 DEF Told, Written, Sent
<1>6. ChunksInv'
  BY <1>1, <1>5 DEF ChunksInv, BranchTypeOK
<1> QED
  BY <1>2, <1>3, <1>4, <1>6

LEMMA ReceiveKeeps ==
  ASSUME BranchInv, NEW p \in Promises, Receive(p)
  PROVE  BranchInv'
<1> USE DEF BranchInv
<1>1. /\ UNCHANGED <<asked, node, aborted, promise, headers, reply, started,
        lost,
                     visitor>>
      /\ serving = "selecting" /\ serving' = "looking"
      /\ p \in started /\ p \notin Written
  BY DEF Receive, Waiting
<1>2. promise \in [Promises -> [at : {"none", "running", "settled"},
                               holds : SUBSET Promises]]
  BY DEF BranchTypeOK
<1>3. PICK error \in BOOLEAN :
        /\ chunks' = Append(chunks, [of |-> p, error |-> error])
        /\ table \subseteq table'
             /\ table' \subseteq table \cup promise[p].holds
        /\ ~error => promise[p].at = "settled"
             /\ table' = table \cup promise[p].holds
  <2>1. CASE promise[p].at = "settled" /\ Chunk(p, FALSE)
             /\ table' = table \cup promise[p].holds
    BY <2>1 DEF Chunk
  <2>2. CASE Chunk(p, TRUE)
               /\ \E found \in SUBSET promise[p].holds : table' =
                    table \cup found
    BY <2>2 DEF Chunk
  <2>3. CASE Chunk(p, TRUE) /\ UNCHANGED table
    BY <2>3 DEF Chunk
  <2> QED
    BY <2>1, <2>2, <2>3 DEF Receive
<1> DEFINE c == [of |-> p, error |-> error]
<1>4. c \in [of : Promises, error : BOOLEAN] /\ c.of = p /\ c.error = error
  OBVIOUS
<1> HIDE DEF c
<1>5. /\ chunks \in Seq([of : Promises, error : BOOLEAN])
      /\ chunks' \in Seq([of : Promises, error : BOOLEAN])
      /\ Len(chunks') = Len(chunks) + 1 /\ Len(chunks) \in Nat
      /\ DOMAIN chunks = 1..Len(chunks)
           /\ DOMAIN chunks' = 1..(Len(chunks) + 1)
      /\ chunks'[Len(chunks) + 1] = c
           /\ \A m \in 1..Len(chunks) : chunks'[m] = chunks[m]
  <2>1. chunks \in Seq([of : Promises, error : BOOLEAN])
    BY DEF BranchTypeOK
  <2>2. chunks' = Append(chunks, c)
    BY <1>3 DEF c
  <2> HIDE DEF BranchInv
  <2> DEFINE R == [of : Promises, error : BOOLEAN]
  <2>3. chunks \in Seq(R) /\ c \in R
    BY <1>4, <2>1
  <2> HIDE DEF R
  <2>4. /\ chunks' \in Seq(R)
        /\ Len(chunks') = Len(chunks) + 1 /\ Len(chunks) \in Nat
        /\ DOMAIN chunks = 1..Len(chunks)
             /\ DOMAIN chunks' = 1..(Len(chunks) + 1)
        /\ chunks'[Len(chunks) + 1] = c
             /\ \A m \in 1..Len(chunks) : chunks'[m] = chunks[m]
    BY <2>2, <2>3
  <2> QED
    BY <2>1, <2>4 DEF R
<1>6. table' \subseteq Promises
  <2>1. promise[p].holds \subseteq Promises
    BY <1>2
  <2> QED
    BY <1>3, <2>1 DEF BranchTypeOK
<1>7. BranchTypeOK'
  BY <1>1, <1>3, <1>5, <1>6 DEF BranchTypeOK
<1>8. NodesInv'
  BY <1>1 DEF NodesInv, Readable, Failed
<1>9. ReplyInv'
  BY <1>1 DEF ReplyInv, AskedIsAnswered, AcceptedIsSent
<1>10. Written' = Written \cup {p}
  <2>1. \A q : q \in Written <=> \E m \in 1..Len(chunks) : q = chunks[m].of
    BY <1>5 DEF Written
  <2>2. \A q : q \in Written'
          <=> \E m \in 1..(Len(chunks) + 1) : q = chunks'[m].of
    BY <1>5 DEF Written
  <2>3. \A m \in 1..(Len(chunks) + 1) : m \in 1..Len(chunks) \/ m =
          Len(chunks) + 1
    BY <1>5
  <2>4. \A m \in 1..Len(chunks) : m \in 1..(Len(chunks) + 1)
    BY <1>5
  <2>5. Len(chunks) + 1 \in 1..(Len(chunks) + 1)
    BY <1>5
  <2>6. \A q : q \in Written' <=> q \in Written \/ q = p
    BY <1>4, <1>5, <2>1, <2>2, <2>3, <2>4, <2>5
  <2> QED
    BY <2>6
<1>11. Cardinality(Written') = Len(chunks')
  <2>1. Cardinality(Written \cup {p}) = Cardinality(Written) + 1
    BY <1>1, WrittenIs, FS_AddElement
  <2> QED
    BY <1>5, <1>10, <2>1 DEF ChunksInv
<1>12. \A m \in DOMAIN chunks' :
         ~chunks'[m].error => promise'[chunks'[m].of].at = "settled"
  <2> SUFFICES ASSUME NEW m \in 1..(Len(chunks) + 1), ~chunks'[m].error
               PROVE  promise[chunks'[m].of].at = "settled"
    BY <1>1, <1>5
  <2>1. CASE m = Len(chunks) + 1
    BY <1>3, <1>4, <1>5, <2>1
  <2>2. CASE m # Len(chunks) + 1
    <3>1. m \in DOMAIN chunks /\ chunks'[m] = chunks[m]
      BY <1>5, <2>2
    <3> QED
      BY <3>1 DEF ChunksInv
  <2> QED
    BY <2>1, <2>2
<1>13. Told' \subseteq table'
  <2> SUFFICES ASSUME NEW q, ToldNow(q)' PROVE q \in table'
    BY <1>7, ToldIs
  <2>1. Told \subseteq table
    BY <1>1 DEF ChunksInv, ReplyInv
  <2>2. CASE \E i \in Sent("data") : q \in node[i].holds
    <3>1. q \in Told
      BY <2>2, ToldIs DEF ToldNow
    <3> QED
      BY <1>3, <2>1, <3>1
  <2>3. CASE \E m \in DOMAIN chunks' :
               ~chunks'[m].error /\ q \in promise[chunks'[m].of].holds
    <3>1. PICK m \in 1..(Len(chunks) + 1) :
            ~chunks'[m].error /\ q \in promise[chunks'[m].of].holds
      BY <1>5, <2>3
    <3>2. CASE m = Len(chunks) + 1
      BY <1>3, <1>4, <1>5, <3>1, <3>2
    <3>3. CASE m # Len(chunks) + 1
      <4>1. m \in DOMAIN chunks /\ chunks'[m] = chunks[m]
        BY <1>5, <3>3
      <4>2. q \in Told
        BY <3>1, <4>1, ToldIs DEF ToldNow
      <4> QED
        BY <1>3, <2>1, <4>2
    <3> QED
      BY <3>2, <3>3
  <2>4. Sent("data")' = Sent("data")
    BY <1>1 DEF Sent
  <2> QED
    BY <1>1, <2>2, <2>3, <2>4 DEF ToldNow
<1>14. ChunksInv'
  BY <1>1, <1>10, <1>11, <1>12, <1>13 DEF ChunksInv
<1> QED
  BY <1>7, <1>8, <1>9, <1>14

LEMMA BranchKept == BranchInv /\ [BranchNext]_branchVars => BranchInv'
<1> SUFFICES ASSUME BranchInv, [BranchNext]_branchVars PROVE BranchInv'
  OBVIOUS
<1>1. CASE UNCHANGED branchVars
  <2>1. BranchTypeOK' /\ NodesInv' /\ ReplyInv'
    BY <1>1 DEF branchVars, BranchInv, BranchTypeOK, NodesInv, Readable,
         Failed,
       ReplyInv, AskedIsAnswered, AcceptedIsSent
  <2>2. Told' = Told /\ Written' = Written
    BY <1>1 DEF branchVars, Told, Written, Sent
  <2> QED
    BY <1>1, <2>1, <2>2 DEF branchVars, BranchInv, ChunksInv
<1>2. CASE Answering
  BY <1>2, AnsweringKeeps
<1>3. CASE Streaming
  BY <1>3, LookKeeps, LeavingKeeps, ReceiveKeeps DEF Streaming
<1>4. CASE VisitorLeaves
  BY <1>4, LeavingKeeps
<1>5. CASE \E i \in Nodes : Run(i) \/ CallParent(i) \/ ReadParent(i)
             \/ Ending(i)
  BY <1>5, NodeMoves, NodeKeepsNodes, NodeKeepsRest
       DEF Ending, NodeSteps, BranchInv
<1>6. CASE (\E h \in Headers : SetHeader(h))
             \/ (\E c \in Cookies : SetCookie(c))
  BY <1>6, HeadersKeep
<1>7. CASE \E p \in Promises : Async(p) \/ Settle(p) \/ Lose(p)
  BY <1>7, PromisesKeep, LeavingKeeps
<1> QED
  BY <1>1, <1>2, <1>3, <1>4, <1>5, <1>6, <1>7 DEF BranchNext

LEMMA BranchHolds == BranchSpec => []BranchInv
BY BranchStarts, BranchKept, PTL DEF BranchSpec

\* Whatever failed first and whatever was asked for, each node the client asked
\* for is answered, and no load goes on with half of what its parents returned
\* (data.go, load.go).
THEOREM BranchesAreWhole == BranchSpec => []BranchIsWhole
<1>1. BranchInv => BranchIsWhole
  <2> SUFFICES ASSUME BranchInv PROVE ParentIsWhole
    BY DEF BranchInv, ReplyInv, BranchIsWhole
  <2> SUFFICES ASSUME NEW i \in Nodes, node[i].parent = "whole",
                        NEW j \in 0..(i - 1)
               PROVE  \/ node[j].kind \in {"null", "data"}
                      \/ node[j].kind = "skip" /\ \E k \in Nodes : Failed(k)
    BY DEF ParentIsWhole
  <2>1. j \in Nodes /\ j < i
    BY BranchAssumption DEF Nodes
  <2> QED
    BY <2>1 DEF BranchInv, NodesInv, Readable
<1> QED
  BY <1>1, BranchHolds, PTL

\* What was accepted while the answer could still take it is in it: headers
\* before it went out, and of the promises every one the client was told of,
\* each once, unless it left (data.go, deferred.go, event.go).
THEOREM WhatIsSentIsExact == BranchSpec => []SentIsExact
<1>1. BranchInv => SentIsExact
  BY DEF BranchInv, ReplyInv, ChunksInv, SentIsExact, ChunksAreExact
<1> QED
  BY <1>1, BranchHolds, PTL
==============================================================================
