--------------------------- MODULE FetchExchange ---------------------------
(***************************************************************************)
(* dev_fetch.go and fetch-bridge.js: a fetch of Kit's, in development or   *)
(* while prerendering, around which the application's HandleFetch hook     *)
(* runs in Go.  The two sides take turns over HTTP: begin and next bring   *)
(* what the hook wants, the next continuation to perform or its final      *)
(* response, and the response of a continuation is uploaded on a call of   *)
(* its own, which stays open while Go reads its body.                      *)
(*                                                                         *)
(* All fetches here belong to one request of the prerender or development  *)
(* service, their owner, whose end waits for what they hold of it.  A      *)
(* response is named by the continuation it answers.  A hook that returns  *)
(* a continuation's response has not read its body itself.                 *)
(***************************************************************************)
EXTENDS FiniteSets, Naturals

CONSTANTS Fetches, \* the fetches of the owner
          Calls,   \* the calls a hook makes of its continuation, at once or not
          None,
          MaxTroubles \* how much goes wrong at most, the end of the owner apart

ASSUME ExchangeAssumption ==
  /\ IsFiniteSet(Fetches) /\ IsFiniteSet(Calls)
  /\ None \notin Calls /\ Calls \cap {"error", "own", "final"} = {}
  /\ MaxTroubles \in Nat

VARIABLES
  owner,     \* the request: open, ending, ended
  canceled,  \* the exchanges whose context is over
  exchanges, \* devFetchRequests.entries
  held,      \* what of each exchange counts in the owner's active
  hook,      \* where the goroutine of the hook is
  result,    \* the channel of its result, and then what the turn answers with
  next,      \* where each call of the continuation is
  got,       \* the response it returned
  reply,     \* exchange.reply, as the call that waits on it
  continued, \* exchange.continued, as the call it stands for
  accepted,  \* the calls whose continued channel is closed
  turn,      \* the handler of begin or next
  said,      \* its answer: a continuation, the final response, an error
  upload,    \* the handler of each response
  taken,     \* the reply channel that handler took
  cut,       \* the responses whose body broke off on its way
  released,  \* the bodies Go has closed or read to their end
  kit,       \* where Kit's side is
  at,        \* the continuation it performs
  quit,      \* the fetches whose signal was aborted
  seen,      \* how the body of the final response ended, to its reader
  troubles   \* what went wrong, in MaxTroubles

lifetime == <<owner, canceled, exchanges, held>>
hooks    == <<hook, result, next, got>>
channels == <<reply, continued, accepted>>
uploads  == <<upload, taken, cut, released>>
kits     == <<kit, at, quit, seen, troubles>>
exchangeVars == <<lifetime, hooks, channels, turn, said, uploads, kits>>

Turns == {"off", "arriving", "registering", "starting", "joining", "waiting",
          "selecting", "streaming"}

ExchangeTypeOK ==
  /\ owner \in {"open", "ending", "ended"}
  /\ canceled \subseteq Fetches /\ exchanges \subseteq Fetches
  /\ held \in [Fetches -> SUBSET {"hook", "context"}]
  /\ hook \in [Fetches -> {"off", "running", "over"}]
  /\ result \in [Fetches -> Calls \cup {None, "own", "error"}]
  /\ next \in [Fetches -> [Calls -> {"idle", "offering", "asking", "over"}]]
  /\ got \in [Fetches -> [Calls -> Calls \cup {None}]]
  /\ reply \in [Fetches -> Calls \cup {None}]
  /\ continued \in [Fetches -> Calls \cup {None}]
  /\ accepted \in [Fetches -> SUBSET Calls]
  /\ turn \in [Fetches -> Turns]
  /\ said \in [Fetches -> Calls \cup {None, "final", "error"}]
  /\ upload \in [Fetches -> [Calls -> {"off", "arrived", "answering", "owned", "over"}]]
  /\ taken \in [Fetches -> [Calls -> Calls \cup {None}]]
  /\ cut \in [Fetches -> SUBSET Calls] /\ released \in [Fetches -> SUBSET Calls]
  /\ kit \in [Fetches -> {"off", "began", "fetching", "asked", "reading",
                          "ending", "over"}]
  /\ at \in [Fetches -> Calls \cup {None}] /\ quit \subseteq Fetches
  /\ seen \in [Fetches -> {"none", "whole", "broken"}]
  /\ troubles \in 0..MaxTroubles

ExchangeInit ==
  LET Each(v) == [f \in Fetches |-> v]
      EachCall(v) == Each([c \in Calls |-> v]) IN
  /\ owner = "open" /\ canceled = {} /\ exchanges = {} /\ held = Each({})
  /\ hook = Each("off") /\ result = Each(None)
  /\ next = EachCall("idle") /\ got = EachCall(None)
  /\ reply = Each(None) /\ continued = Each(None) /\ accepted = Each({})
  /\ turn = Each("off") /\ said = Each(None)
  /\ upload = EachCall("off") /\ taken = EachCall(None)
  /\ cut = Each({}) /\ released = Each({})
  /\ kit = Each("off") /\ at = Each(None) /\ quit = {} /\ seen = Each("none") /\ troubles = 0

\* Kit's side destroys the call of a turn it gives up.
Gone(f) == f \in quit \/ kit[f] \in {"ending", "over"}

Trouble == troubles < MaxTroubles /\ troubles' = troubles + 1

-----------------------------------------------------------------------------
(* begin: the exchange and its hook                                        *)

\* acquire refuses an owner that is ending; otherwise it counts the goroutine
\* of the hook before there is one.
AcquireOwner(f) ==
  /\ turn[f] = "arriving"
  /\ IF owner = "open"
     THEN /\ turn' = [turn EXCEPT ![f] = "registering"]
          /\ held' = [held EXCEPT ![f] = {"hook"}]
          /\ UNCHANGED said
     ELSE /\ turn' = [turn EXCEPT ![f] = "off"]
          /\ said' = [said EXCEPT ![f] = "error"]
          /\ UNCHANGED held
  /\ UNCHANGED <<owner, canceled, exchanges, hooks, channels, uploads, kits>>

\* No request can be made of the input.
FetchRefused(f) ==
  /\ turn[f] = "registering" /\ Trouble
  /\ held' = [held EXCEPT ![f] = {}]
  /\ turn' = [turn EXCEPT ![f] = "off"] /\ said' = [said EXCEPT ![f] = "error"]
  /\ UNCHANGED <<owner, canceled, exchanges, hooks, channels, uploads, kit, at, quit, seen>>

RegisterExchange(f) ==
  /\ turn[f] = "registering"
  /\ exchanges' = exchanges \cup {f}
  /\ turn' = [turn EXCEPT ![f] = "starting"]
  /\ UNCHANGED <<owner, canceled, held, hooks, channels, said, uploads, kits>>

\* Mutant: what unregisters the exchange is not counted.
StartUncountedHook(f) ==
  /\ turn[f] = "starting"
  /\ hook' = [hook EXCEPT ![f] = "running"]
  /\ turn' = [turn EXCEPT ![f] = "selecting"]
  /\ UNCHANGED <<lifetime, result, next, got, channels, said, uploads, kits>>

StartHook(f) ==
  /\ turn[f] = "starting"
  /\ held' = [held EXCEPT ![f] = @ \cup {"context"}]
  /\ hook' = [hook EXCEPT ![f] = "running"]
  /\ turn' = [turn EXCEPT ![f] = "selecting"]
  /\ UNCHANGED <<owner, canceled, exchanges, result, next, got, channels, said,
                 uploads, kits>>

\* The exchange's context.AfterFunc.
ContextOver(f) ==
  /\ hook[f] # "off" /\ f \in canceled
  /\ f \in exchanges \/ "context" \in held[f]
  /\ exchanges' = exchanges \ {f}
  /\ held' = [held EXCEPT ![f] = @ \ {"context"}]
  /\ UNCHANGED <<owner, canceled, hooks, channels, turn, said, uploads, kits>>

-----------------------------------------------------------------------------
(* The hook and its continuation                                           *)

\* Calls not yet made differ in nothing: the next one is any of them.
HookAsks(f, c) ==
  /\ hook[f] = "running"
  /\ \E d \in Calls : next[f][d] = "idle"
  /\ c = CHOOSE d \in Calls : next[f][d] = "idle"
  /\ next' = [next EXCEPT ![f][c] = "offering"]
  /\ UNCHANGED <<lifetime, hook, result, got, channels, turn, said, uploads, kits>>

\* Mutant: the second select of next waits for the reply alone.
NextCanceledEarly(f, c) ==
  /\ next[f][c] = "offering" /\ f \in canceled
  /\ next' = [next EXCEPT ![f][c] = "over"]
  /\ UNCHANGED <<lifetime, hook, result, got, channels, turn, said, uploads, kits>>

NextCanceled(f, c) ==
  /\ next[f][c] \in {"offering", "asking"} /\ f \in canceled
  /\ next' = [next EXCEPT ![f][c] = "over"]
  /\ UNCHANGED <<lifetime, hook, result, got, channels, turn, said, uploads, kits>>

\* The hook, or what it handed the response to, closes its body.
HookCloses(f, c) ==
  /\ got[f][c] # None /\ got[f][c] \notin released[f]
  /\ upload[f][got[f][c]] = "owned" \* the rest is nobody's any more
  /\ released' = [released EXCEPT ![f] = @ \cup {got[f][c]}]
  /\ UNCHANGED <<lifetime, hooks, channels, turn, said, upload, taken, cut, kits>>

\* It returns a response of its own, one it was given, or an error, whatever
\* became of its calls; the result has room.
HookReturns(f) ==
  /\ hook[f] = "running"
  /\ \E r \in {"own", "error"} \cup {got[f][c] : c \in Calls} :
       r # None /\ result' = [result EXCEPT ![f] = r]
  /\ hook' = [hook EXCEPT ![f] = "over"]
  /\ held' = [held EXCEPT ![f] = @ \ {"hook"}]
  /\ UNCHANGED <<owner, canceled, exchanges, next, got, channels, turn, said,
                 uploads, kits>>

-----------------------------------------------------------------------------
(* A turn: begin, or next after the upload it waits for was accepted       *)

\* An answer nobody waits for is lost.
TurnOver(f, answer) ==
  /\ turn' = [turn EXCEPT ![f] = "off"]
  /\ said' = [said EXCEPT ![f] = IF Gone(f) THEN None ELSE answer]

\* Mutant: next does not wait for the upload.
JoinAtOnce(f) ==
  /\ turn[f] = "joining"
  /\ turn' = [turn EXCEPT ![f] = "selecting"]
  /\ UNCHANGED <<lifetime, hooks, channels, said, uploads, kits>>

Join(f) ==
  /\ turn[f] = "joining"
  /\ IF f \in exchanges /\ continued[f] # None
     THEN turn' = [turn EXCEPT ![f] = "waiting"] /\ UNCHANGED said
     ELSE TurnOver(f, "error")
  /\ UNCHANGED <<lifetime, hooks, channels, uploads, kits>>

Accepted(f) ==
  /\ turn[f] = "waiting" /\ continued[f] \in accepted[f]
  /\ turn' = [turn EXCEPT ![f] = "selecting"]
  /\ UNCHANGED <<lifetime, hooks, channels, said, uploads, kits>>

\* A call of the continuation changes hands.  Both sides wait in a select that
\* the end of the context wakes.
TakeContinuation(f, c) ==
  /\ turn[f] = "selecting" /\ next[f][c] = "offering" /\ f \notin canceled
  /\ next' = [next EXCEPT ![f][c] = "asking"]
  /\ reply' = [reply EXCEPT ![f] = c]
  /\ continued' = [continued EXCEPT ![f] = c]
  /\ \/ TurnOver(f, c) /\ UNCHANGED <<canceled, troubles>>
     \/ /\ TurnOver(f, "error") \* the body of its request fails
        /\ canceled' = canceled \cup {f} /\ Trouble
  /\ UNCHANGED <<owner, exchanges, held, hook, result, got, accepted, uploads,
                 kit, at, quit, seen>>

TakeResult(f) ==
  /\ turn[f] = "selecting" /\ result[f] # None
  /\ IF result[f] = "error" THEN TurnOver(f, "error")
     ELSE /\ turn' = [turn EXCEPT ![f] = "streaming"]
          /\ said' = [said EXCEPT ![f] = "final"]
  /\ UNCHANGED <<lifetime, hooks, channels, uploads, kits>>

TurnEnded(f) ==
  /\ turn[f] \in {"waiting", "selecting"} /\ f \in canceled
  /\ TurnOver(f, "error")
  /\ UNCHANGED <<lifetime, hooks, channels, uploads, kits>>

TurnGone(f) ==
  /\ turn[f] \in {"waiting", "selecting", "streaming"} /\ Gone(f)
  /\ canceled' = canceled \cup {f}
  /\ TurnOver(f, "error")
  /\ seen' = [seen EXCEPT ![f] = IF turn[f] = "streaming" THEN "broken" ELSE @]
  /\ released' = [released EXCEPT ![f] =
                    IF turn[f] = "streaming" THEN @ \cup ({result[f]} \cap Calls) ELSE @]
  /\ UNCHANGED <<owner, exchanges, held, hooks, channels, upload, taken, cut,
                 kit, at, quit, troubles>>

\* What the final response answers with can be read to its end: the rest of it
\* arrives, its upload is still there, and nobody has closed it.
Intact(f) ==
  result[f] \in Calls =>
    /\ upload[f][result[f]] = "owned" /\ f \notin quit
    /\ result[f] \notin cut[f] \cup released[f]

\* A body of the hook's own may fail; another fails when it was cut or is gone.
Failing(f) ==
  result[f] \in Calls =>
    \/ upload[f][result[f]] # "owned"
    \/ result[f] \in cut[f] \cup released[f]

Streamed(f, end) ==
  /\ turn' = [turn EXCEPT ![f] = "off"]
  /\ seen' = [seen EXCEPT ![f] = end]
  /\ released' = [released EXCEPT ![f] = @ \cup ({result[f]} \cap Calls)]
  /\ UNCHANGED <<lifetime, hooks, channels, said, upload, taken, cut, kit, at, quit, troubles>>

StreamEnds(f) ==
  /\ turn[f] = "streaming" /\ Intact(f) = TRUE
  /\ Streamed(f, "whole")

\* Mutant: every end of the body ends the answer.
StreamStops(f) ==
  /\ turn[f] = "streaming" /\ Failing(f) = TRUE
  /\ Streamed(f, "whole")

\* The body fails, and the answer is aborted.
StreamBreaks(f) ==
  /\ turn[f] = "streaming" /\ Failing(f) = TRUE
  /\ Streamed(f, "broken")

-----------------------------------------------------------------------------
(* The upload of a response                                                *)

\* A refused upload, or one that breaks, aborts Kit's side of the fetch.
Refused(f, c) ==
  /\ upload' = [upload EXCEPT ![f][c] = "over"]
  /\ quit' = quit \cup {f}

\* It takes the reply channel, once.
UploadTakes(f, c) ==
  /\ upload[f][c] = "arrived"
  /\ IF f \in exchanges /\ reply[f] # None
     THEN /\ upload' = [upload EXCEPT ![f][c] = "answering"]
          /\ taken' = [taken EXCEPT ![f][c] = reply[f]]
          /\ reply' = [reply EXCEPT ![f] = None]
          /\ UNCHANGED quit
     ELSE Refused(f, c) /\ UNCHANGED <<taken, reply>>
  /\ UNCHANGED <<lifetime, hooks, continued, accepted, turn, said, cut, released,
                 kit, at, seen, troubles>>

UploadHands(f, c) ==
  /\ upload[f][c] = "answering" /\ next[f][taken[f][c]] = "asking" /\ f \notin canceled
  /\ got' = [got EXCEPT ![f][taken[f][c]] = c]
  /\ next' = [next EXCEPT ![f][taken[f][c]] = "over"]
  /\ accepted' = [accepted EXCEPT ![f] = @ \cup {taken[f][c]}]
  /\ upload' = [upload EXCEPT ![f][c] = "owned"]
  /\ taken' = [taken EXCEPT ![f][c] = None]
  /\ UNCHANGED <<lifetime, hook, result, reply, continued, turn, said, cut,
                 released, kits>>

\* Its context is over: refused before the hand-over, answered after.
UploadEnded(f, c) ==
  /\ f \in canceled
  /\ \/ upload[f][c] = "answering" /\ Refused(f, c)
     \/ /\ upload[f][c] = "owned"
        /\ upload' = [upload EXCEPT ![f][c] = "over"] /\ UNCHANGED quit
  /\ UNCHANGED <<lifetime, hooks, channels, turn, said, taken, cut, released,
                 kit, at, seen, troubles>>

\* Mutant: the handler keeps the upload until its own client goes.
ReleaseUnheard(f, c) == FALSE

\* Go needs the body no more.
UploadReleased(f, c) ==
  /\ upload[f][c] = "owned" /\ c \in released[f]
  /\ upload' = [upload EXCEPT ![f][c] = "over"]
  /\ UNCHANGED <<lifetime, hooks, channels, turn, said, taken, cut, released, kits>>

UploadGone(f, c) ==
  /\ upload[f][c] \in {"answering", "owned"} /\ f \in quit
  /\ canceled' = canceled \cup {f}
  /\ upload' = [upload EXCEPT ![f][c] = "over"]
  /\ UNCHANGED <<owner, exchanges, held, hooks, channels, turn, said, taken, cut,
                 released, kits>>

\* Kit's body fails, or the signal stops its upload.
BodyBreaks(f, c) ==
  /\ upload[f][c] \notin {"off", "over"} /\ c \notin cut[f] \cup released[f]
  /\ Trouble
  /\ cut' = [cut EXCEPT ![f] = @ \cup {c}] /\ quit' = quit \cup {f}
  /\ UNCHANGED <<lifetime, hooks, channels, turn, said, upload, taken, released,
                 kit, at, seen>>

-----------------------------------------------------------------------------
(* Kit's side                                                              *)

KitBegins(f) ==
  /\ kit[f] = "off" /\ owner = "open"
  /\ kit' = [kit EXCEPT ![f] = "began"] /\ turn' = [turn EXCEPT ![f] = "arriving"]
  /\ UNCHANGED <<lifetime, hooks, channels, said, uploads, at, quit, seen, troubles>>

\* It hears what a turn answered.  A begin that failed told it no name.
KitHears(f) ==
  /\ kit[f] \in {"began", "asked"} /\ said[f] # None /\ f \notin quit
  /\ kit' = [kit EXCEPT ![f] =
               CASE said[f] \in Calls -> "fetching"
                 [] said[f] = "final" -> "reading"
                 [] said[f] = "error" -> IF @ = "began" THEN "over" ELSE "ending"]
  /\ at' = [at EXCEPT ![f] = IF said[f] \in Calls THEN said[f] ELSE @]
  /\ said' = [said EXCEPT ![f] = None]
  /\ UNCHANGED <<lifetime, hooks, channels, turn, uploads, quit, seen, troubles>>

\* The continuation was performed: its response is uploaded, and beside it the
\* next turn is asked for.
KitAnswers(f) ==
  /\ kit[f] = "fetching" /\ f \notin quit
  /\ kit' = [kit EXCEPT ![f] = "asked"]
  /\ upload' = [upload EXCEPT ![f][at[f]] = "arrived"]
  /\ turn' = [turn EXCEPT ![f] = "joining"] /\ at' = [at EXCEPT ![f] = None]
  /\ UNCHANGED <<lifetime, hooks, channels, said, taken, cut, released, quit, seen, troubles>>

\* It failed, the page lets go of the response, or an abort rejects its call.
KitStops(f) ==
  /\ \/ kit[f] \in {"fetching", "reading"} /\ Trouble
     \/ kit[f] \in {"began", "asked", "fetching", "reading"} /\ f \in quit
        /\ UNCHANGED troubles
  /\ kit' = [kit EXCEPT ![f] = IF @ = "began" THEN "over" ELSE "ending"]
  /\ at' = [at EXCEPT ![f] = None] /\ said' = [said EXCEPT ![f] = None]
  /\ UNCHANGED <<lifetime, hooks, channels, turn, uploads, quit, seen>>

KitRead(f) ==
  /\ kit[f] = "reading" /\ seen[f] # "none"
  /\ kit' = [kit EXCEPT ![f] = "ending"]
  /\ UNCHANGED <<lifetime, hooks, channels, turn, said, uploads, at, quit, seen, troubles>>

\* Whoever made the fetch, or the owner's own client, aborts it.
KitAborts(f) ==
  /\ kit[f] \notin {"off", "ending", "over"} /\ f \notin quit /\ Trouble
  /\ quit' = quit \cup {f}
  /\ UNCHANGED <<lifetime, hooks, channels, turn, said, uploads, kit, at, seen>>

\* end unregisters the exchange and cancels it; an owner whose client has left
\* by then is not told.
EndFetch(f) ==
  /\ kit[f] = "ending"
  /\ kit' = [kit EXCEPT ![f] = "over"] /\ quit' = quit \cup {f}
  /\ \/ exchanges' = exchanges \ {f} /\ canceled' = canceled \cup ({f} \cap exchanges)
     \/ UNCHANGED <<exchanges, canceled>>
  /\ UNCHANGED <<owner, held, hooks, channels, turn, said, uploads, at, seen, troubles>>

-----------------------------------------------------------------------------
(* The owner                                                               *)

\* It may end while fetches are under way.  The context of every exchange is
\* derived from its own.
OwnerEnds ==
  /\ owner = "open" /\ owner' = "ending" /\ canceled' = Fetches
  /\ UNCHANGED <<exchanges, held, hooks, channels, turn, said, uploads, kits>>

\* Its context may end before it does: the caller of its response went away,
\* or the service ends, which drops every exchange.
OwnerCanceled ==
  /\ owner = "open" /\ canceled # Fetches /\ Trouble
  /\ canceled' = Fetches /\ exchanges' \in {exchanges, {}}
  /\ UNCHANGED <<owner, held, hooks, channels, turn, said, uploads, kit, at, quit, seen>>

OwnerEnded ==
  /\ owner = "ending" /\ \A f \in Fetches : held[f] = {}
  /\ owner' = "ended"
  /\ UNCHANGED <<canceled, exchanges, held, hooks, channels, turn, said, uploads, kits>>

-----------------------------------------------------------------------------
Beginning(f) == AcquireOwner(f) \/ FetchRefused(f) \/ RegisterExchange(f) \/ StartHook(f)
Turning(f) ==
  \/ Join(f) \/ Accepted(f) \/ TakeResult(f) \/ TurnEnded(f) \/ TurnGone(f)
  \/ \E c \in Calls : TakeContinuation(f, c)
Streaming(f) == StreamEnds(f) \/ StreamBreaks(f)
Uploading(f, c) ==
  UploadTakes(f, c) \/ UploadHands(f, c) \/ UploadEnded(f, c)
    \/ UploadReleased(f, c) \/ UploadGone(f, c)
Kit(f) ==
  KitBegins(f) \/ KitHears(f) \/ KitAnswers(f) \/ KitStops(f) \/ KitRead(f)
    \/ KitAborts(f) \/ EndFetch(f)
Hooking(f) ==
  HookReturns(f) \/ \E c \in Calls : HookAsks(f, c) \/ HookCloses(f, c)

ExchangeNext ==
  \/ OwnerEnds \/ OwnerCanceled \/ OwnerEnded
  \/ \E f \in Fetches :
       \/ Beginning(f) \/ ContextOver(f) \/ Hooking(f) \/ Turning(f)
       \/ Streaming(f) \/ Kit(f)
       \/ \E c \in Calls :
            NextCanceled(f, c) \/ Uploading(f, c)
              \/ BodyBreaks(f, c)

\* A hook that waits for none of its calls returns.
Waits(f) == \E c \in Calls : next[f][c] \in {"offering", "asking"}

\* Kit hears the answer of its turn, heeds an abort, and cleans up after itself.
KitGoesOn(f) == KitHears(f) \/ (f \in quit /\ KitStops(f)) \/ EndFetch(f)

\* Goroutines that can go on do, and so does Kit; neither a page nor a
\* continuation has to.  Each of these steps happens a bounded number of times,
\* so that fairness to all of them is fairness to each.
FetchGoesOn ==
  \/ OwnerEnded
  \/ \E f \in Fetches :
       \/ Beginning(f) \/ Turning(f) \/ ContextOver(f) \/ KitGoesOn(f)
       \/ ~Waits(f) /\ HookReturns(f)
       \/ \E c \in Calls : NextCanceled(f, c) \/ Uploading(f, c)

ExchangeSpec == ExchangeInit /\ [][ExchangeNext]_exchangeVars /\ WF_exchangeVars(FetchGoesOn)

-----------------------------------------------------------------------------
(* Correctness                                                             *)

\* However many continuations a hook has under way, each is answered with the
\* response of its own request; and a final response that was read to its end
\* is a whole one.
FetchedIsItsOwn ==
  \A f \in Fetches :
    /\ \A c \in Calls : got[f][c] \in {None, c}
    /\ seen[f] = "whole" => result[f] \notin cut[f]

\* The end of the owner is the last of its fetches: no hook runs, none is about
\* to start, and none is registered.
OwnerIsLast ==
  owner = "ended" =>
    \A f \in Fetches :
      /\ hook[f] # "running" /\ f \notin exchanges
      /\ turn[f] \notin {"registering", "starting"}

\* Nobody waits in vain: Kit for a turn, the upload of a response or a call of
\* the continuation for an exchange that is over, an upload for a reader who has
\* done with it, the owner for its fetches.
Settled(f) ==
  /\ kit[f] \notin {"began", "asked"}
  /\ f \in canceled => ~Waits(f) /\ \A c \in Calls : upload[f][c] \in {"off", "over"}
  /\ \A c \in released[f] : upload[f][c] = "over"
  /\ owner # "ending"

\* While hooks return once nothing keeps them waiting, every wait comes to its
\* end, whoever has gone away.
FetchesEnd == \A f \in Fetches : []<>Settled(f)
=============================================================================
