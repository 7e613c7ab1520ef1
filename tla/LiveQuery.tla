------------------------------ MODULE LiveQuery ------------------------------
(***************************************************************************)
(* The streams of query.live (remote_live.go).  The app's producer runs on *)
(* a goroutine of its own and hands its values to the handler over an      *)
(* unbuffered channel, its end over a buffered one; the handler alone      *)
(* writes.  The client may leave at any time, and the request's context    *)
(* may end under both.                                                     *)
(***************************************************************************)
EXTENDS FiniteSets

CONSTANTS
  Streams,  \* the streams of a behaviour, one request each
  Values,   \* what a producer yields, as it is serialized
  NoValue   \* stands for "none yet"

ASSUME StreamsAssumption == IsFiniteSet(Streams) /\ NoValue \notin Values

VARIABLES
  client,    \* "away", "here", or "left"
  ctx,       \* the streams whose context is done
  handler,   \* where serveLive is
  producer,  \* where the producer's goroutine is
  item,      \* the value it is yielding
  done,      \* the channel of its end, of capacity one
  last,      \* the last frame the handler wrote
  taken,     \* the last value yield said was taken
  end        \* how the handler ended

streamVars == <<client, ctx, handler, producer, item, done, last, taken, end>>

\* What a producer may return: nil, an error or a panic, a redirect.
Returns == {"nil", "error", "redirect"}

StreamTypeOK ==
  /\ client \in [Streams -> {"away", "here", "left"}]
  /\ ctx \subseteq Streams
  /\ handler \in [Streams -> {"off", "waiting", "over"}]
  /\ producer \in [Streams -> {"off", "running", "yielding", "over"} \cup Returns]
  /\ item \in [Streams -> Values \cup {NoValue}]
  /\ done \in [Streams -> {"empty"} \cup Returns]
  /\ last \in [Streams -> Values \cup {NoValue}]
  /\ taken \in [Streams -> Values \cup {NoValue}]
  /\ end \in [Streams -> {"none", "cut", "unencodable"} \cup Returns]

StreamInit ==
  /\ client = [s \in Streams |-> "away"] /\ ctx = {}
  /\ handler = [s \in Streams |-> "off"]
  /\ producer = [s \in Streams |-> "off"]
  /\ item = [s \in Streams |-> NoValue]
  /\ done = [s \in Streams |-> "empty"]
  /\ last = [s \in Streams |-> NoValue]
  /\ taken = [s \in Streams |-> NoValue]
  /\ end = [s \in Streams |-> "none"]

-----------------------------------------------------------------------------
(* The client and the context                                              *)

\* The request arrives; the response starts and so does the producer.
Open(s) ==
  /\ client[s] = "away"
  /\ client'   = [client EXCEPT ![s] = "here"]
  /\ handler'  = [handler EXCEPT ![s] = "waiting"]
  /\ producer' = [producer EXCEPT ![s] = "running"]
  /\ UNCHANGED <<ctx, item, done, last, taken, end>>

Disconnect(s) ==
  /\ client[s] = "here"
  /\ client' = [client EXCEPT ![s] = "left"]
  /\ UNCHANGED <<ctx, handler, producer, item, done, last, taken, end>>

\* The server notices that its client left.
Notice(s) ==
  /\ client[s] = "left" /\ s \notin ctx
  /\ ctx' = ctx \cup {s}
  /\ UNCHANGED <<client, handler, producer, item, done, last, taken, end>>

\* The host is paused or the server stops while the client is there.
Cancel(s) ==
  /\ client[s] = "here" /\ s \notin ctx
  /\ ctx' = ctx \cup {s}
  /\ UNCHANGED <<client, handler, producer, item, done, last, taken, end>>

-----------------------------------------------------------------------------
(* The handler: one turn of its select.  Its deferred cancel ends the      *)
(* context of the producer however it returns.                             *)

Returned(s, how) ==
  /\ handler' = [handler EXCEPT ![s] = "over"]
  /\ end' = [end EXCEPT ![s] = how]
  /\ ctx' = ctx \cup {s}

SelectContext(s) ==
  /\ handler[s] = "waiting" /\ s \in ctx
  /\ Returned(s, "cut")
  /\ UNCHANGED <<client, producer, item, done, last, taken>>

\* The keep-alive finds the connection gone; one that is written changes
\* nothing but the timer.
KeepAlive(s) ==
  /\ handler[s] = "waiting" /\ client[s] = "left"
  /\ Returned(s, "cut")
  /\ UNCHANGED <<client, producer, item, done, last, taken>>

\* A value changes hands: the producer's yield says it was taken, and the
\* handler writes it, unless it is the same as the last.  It needs one of the
\* two waiting in its select, which the end of their context wakes.
SelectValue(s) ==
  /\ handler[s] = "waiting" /\ producer[s] = "yielding" /\ s \notin ctx
  /\ producer' = [producer EXCEPT ![s] = "running"]
  /\ taken' = [taken EXCEPT ![s] = item[s]]
  /\ \/ /\ last' = [last EXCEPT ![s] = item[s]]
        /\ UNCHANGED <<handler, end, ctx>>
     \/ Returned(s, "unencodable") /\ UNCHANGED last
     \/ /\ client[s] = "left" /\ item[s] # last[s]
        /\ Returned(s, "cut") /\ UNCHANGED last
  /\ UNCHANGED <<client, item, done>>

\* The producer ended.  Under a context that is done nobody is told how.
SelectDone(s) ==
  /\ handler[s] = "waiting" /\ done[s] # "empty"
  /\ Returned(s, IF s \in ctx THEN "cut" ELSE done[s])
  /\ done' = [done EXCEPT ![s] = "empty"]
  /\ UNCHANGED <<client, producer, item, last, taken>>

-----------------------------------------------------------------------------
(* The producer: any code that yields                                      *)

\* Mutant: the channel has room, so yield returns before the value is taken.
YieldBuffered(s) ==
  /\ producer[s] = "running"
  /\ \E v \in Values :
       /\ item' = [item EXCEPT ![s] = v]
       /\ taken' = [taken EXCEPT ![s] = v]
  /\ UNCHANGED <<client, ctx, handler, producer, done, last, end>>

Yield(s) ==
  /\ producer[s] = "running"
  /\ producer' = [producer EXCEPT ![s] = "yielding"]
  /\ \E v \in Values : item' = [item EXCEPT ![s] = v]
  /\ UNCHANGED <<client, ctx, handler, done, last, taken, end>>

\* Mutant: yield waits for the handler whatever becomes of it.
YieldWaits(s) == FALSE

\* yield's other case: its context is done.  The producer may go on.
YieldRefused(s) ==
  /\ producer[s] = "yielding" /\ s \in ctx
  /\ producer' = [producer EXCEPT ![s] = "running"]
  /\ UNCHANGED <<client, ctx, handler, item, done, last, taken, end>>

\* It returns, or panics, which callLive makes an error.
ProducerReturns(s) ==
  /\ producer[s] = "running"
  /\ \E how \in Returns : producer' = [producer EXCEPT ![s] = how]
  /\ UNCHANGED <<client, ctx, handler, item, done, last, taken, end>>

\* Mutant: the channel of the end has no room either.
SendEndRendezvous(s) ==
  /\ producer[s] \in Returns /\ handler[s] = "waiting"
  /\ producer' = [producer EXCEPT ![s] = "over"]
  /\ Returned(s, IF s \in ctx THEN "cut" ELSE producer[s])
  /\ UNCHANGED <<client, item, done, last, taken>>

SendEnd(s) ==
  /\ producer[s] \in Returns /\ done[s] = "empty"
  /\ done' = [done EXCEPT ![s] = producer[s]]
  /\ producer' = [producer EXCEPT ![s] = "over"]
  /\ UNCHANGED <<client, ctx, handler, item, last, taken, end>>

-----------------------------------------------------------------------------
Select(s) ==
  SelectContext(s) \/ KeepAlive(s) \/ SelectValue(s) \/ SelectDone(s)

StreamStep(s) ==
  \/ Open(s) \/ Disconnect(s) \/ Notice(s) \/ Cancel(s) \/ Select(s)
  \/ Yield(s) \/ YieldRefused(s) \/ ProducerReturns(s) \/ SendEnd(s)

StreamNext == \E s \in Streams : StreamStep(s)

\* Goroutines that can go on do, a select takes every case that stays ready
\* sooner or later, and the server notices a connection that is gone.  No
\* producer has to yield or return, and no client to leave.
StreamFairness ==
  \A s \in Streams :
    /\ WF_streamVars(Notice(s)) /\ WF_streamVars(SelectContext(s))
    /\ WF_streamVars(SelectValue(s)) /\ WF_streamVars(SelectDone(s))
    /\ WF_streamVars(YieldRefused(s)) /\ WF_streamVars(SendEnd(s))

StreamSpec == StreamInit /\ [][StreamNext]_streamVars

-----------------------------------------------------------------------------
(* Correctness                                                             *)

\* A stream that ends as its producer ended has shown the last value the
\* producer gave away: the end never overtakes a value.
EndComesLast ==
  \A s \in Streams : end[s] \in Returns => last[s] = taken[s]

\* Who waits for a stream's other side does not wait for ever: the producer in
\* yield or at its end, whatever became of the handler, and the handler whose
\* client left.
StreamsLetGo ==
  \A s \in Streams :
    /\ producer[s] = "yielding" ~> producer[s] # "yielding"
    /\ producer[s] \in Returns ~> producer[s] = "over"
    /\ client[s] = "left" ~> handler[s] = "over"
=============================================================================
