---------------------------- MODULE DataBranch ----------------------------
(***************************************************************************)
(* data.go, load.go and deferred.go: one request for the data of a route's *)
(* branch.  The nodes the client asked for run at once, each once; a load  *)
(* that calls Parent also runs the earlier nodes the client already has.   *)
(* What the loads return may hold promised values, whose chunks follow the *)
(* nodes on the same response in the order they settle.                    *)
(*                                                                         *)
(* A load is the application's code: it may ask for its parents once, set  *)
(* headers, promise values, and return or fail however its parents did.    *)
(***************************************************************************)
EXTENDS Naturals, FiniteSets, Sequences

CONSTANTS Depth, Promises, Headers, Cookies

ASSUME BranchAssumption ==
    /\ Depth \in Nat \ {0} /\ IsFiniteSet(Promises)
    /\ IsFiniteSet(Headers) /\ IsFiniteSet(Cookies) /\ Headers \cap Cookies = {}

VARIABLES
    asked,    \* the nodes the client wants back
    node,     \* each node's memoised run, and how far its load read its parents
    aborted,  \* a run failed
    promise,  \* the deferred values: running or settled, and what they hold
    headers,  \* responseState and the cookie jar
    reply,    \* how the request was answered
    serving,  \* what the request's own goroutine does
    table,    \* the promises that were given an id
    started,  \* those of them a goroutine waits for
    lost,     \* those whose goroutine left without handing its result over
    chunks,   \* what was streamed
    visitor   \* the request's context

branchVars == <<asked, node, aborted, promise, headers, reply, serving, table,
                started, lost, chunks, visitor>>
replyVars == <<reply, serving, table, started, lost, chunks>>

Nodes == 0..(Depth - 1)
Kinds == {"none", "null", "skip", "data", "error", "redirect"}

BranchTypeOK ==
    /\ asked \subseteq Nodes
    /\ node \in [Nodes -> [at : {"idle", "working", "parent", "ended"},
                           kind : Kinds, read : 0..Depth,
                           parent : {"none", "whole", "failed"},
                           holds : SUBSET Promises]]
    /\ aborted \in BOOLEAN
    /\ promise \in [Promises -> [at : {"none", "running", "settled"},
                                 holds : SUBSET Promises]]
    /\ headers \in [accepted : SUBSET (Headers \cup Cookies),
                    sent : SUBSET (Headers \cup Cookies), sealed : BOOLEAN]
    /\ reply \in {"none", "redirect", "fatal", "nodes", "head"}
    /\ serving \in {"loading", "looking", "selecting", "over"}
    /\ table \subseteq Promises /\ started \subseteq table
    /\ lost \subseteq started
    /\ chunks \in Seq([of : Promises, error : BOOLEAN])
    /\ visitor \in {"here", "gone"}

BranchInit ==
    /\ asked \in SUBSET Nodes
    /\ node = [i \in Nodes |-> [at |-> "idle", kind |-> "none", read |-> 0,
                                parent |-> "none", holds |-> {}]]
    /\ aborted = FALSE
    /\ promise = [p \in Promises |-> [at |-> "none", holds |-> {}]]
    /\ headers = [accepted |-> {}, sent |-> {}, sealed |-> FALSE]
    /\ reply = "none" /\ serving = "loading"
    /\ table = {} /\ started = {} /\ lost = {} /\ chunks = <<>>
    /\ visitor = "here"

Failed(i) == node[i].kind \in {"error", "redirect"}
Promised == {p \in Promises : promise[p].at # "none"}
Running(p) == promise[p].at = "running"
Working(i) == node[i].at = "working"

---------------------------------------------------------------------------
(* The loads of the branch. *)

\* Mutant: only what the request wants is run.
CalledIfAsked(i) == i \in asked

\* A node runs when the request wants it, or when a load reads its parents.
Called(i) ==
    \/ i \in asked
    \/ \E k \in Nodes : node[k].at = "parent" /\ node[k].read = i

\* Mutant: a failure keeps wanted nodes from running too.
SkippedByAny(i) == aborted

Skipped(i) == i \notin asked /\ aborted

\* The memoised run of a node begins; it may have no load at all.
Run(i) ==
    /\ node[i].at = "idle" /\ Called(i)
    /\ IF Skipped(i)
       THEN node' = [node EXCEPT ![i].at = "ended", ![i].kind = "skip"]
       ELSE \/ node' = [node EXCEPT ![i].at = "working"]
            \/ node' = [node EXCEPT ![i].at = "ended", ![i].kind = "null"]
    /\ UNCHANGED <<asked, aborted, promise, headers, visitor, replyVars>>

CallParent(i) ==
    /\ Working(i) /\ node[i].parent = "none"
    /\ node' = [node EXCEPT ![i].at = "parent"]
    /\ UNCHANGED <<asked, aborted, promise, headers, visitor, replyVars>>

\* Mutant: a run that has begun counts as one that returned.
Begun(i) == node[i].at # "idle"

Ended(i) == node[i].at = "ended"

\* Parent reads the earlier nodes in turn, and stops at one that failed; what
\* it read may still not fit the load's type.
ReadParent(i) ==
    /\ node[i].at = "parent"
    /\ LET j == node[i].read IN
       \/ /\ j < i /\ Ended(j)
          /\ node' = IF Failed(j)
                     THEN [node EXCEPT ![i].at = "working", ![i].read = 0,
                                       ![i].parent = "failed"]
                     ELSE [node EXCEPT ![i].read = j + 1]
       \/ /\ j = i
          /\ \E parent \in {"whole", "failed"} :
                node' = [node EXCEPT ![i].at = "working", ![i].read = 0,
                                     ![i].parent = parent]
    /\ UNCHANGED <<asked, aborted, promise, headers, visitor, replyVars>>

\* A load returns a value, wherever it came by the promises in it; those of a
\* node that is not sent reach nobody.
ReturnData(i) ==
    /\ Working(i)
    /\ \E held \in IF i \in asked THEN SUBSET Promised ELSE {{}} :
          node' = [node EXCEPT ![i].at = "ended", ![i].kind = "data",
                               ![i].holds = held, ![i].parent = "none"]
    /\ UNCHANGED <<asked, aborted, promise, headers, visitor, replyVars>>

\* It fails, panics or redirects, which is the same to the loads that read it.
Fail(i) ==
    /\ Working(i) /\ aborted' = TRUE
    /\ \E kind \in IF i \in asked THEN {"error", "redirect"} ELSE {"error"} :
          node' = [node EXCEPT ![i].at = "ended", ![i].kind = kind,
                               ![i].parent = "none"]
    /\ UNCHANGED <<asked, promise, headers, visitor, replyVars>>

\* Loads, and the functions of promised values, set headers and promise more.
SomeCode == (\E i \in Nodes : Working(i)) \/ (\E p \in Promises : Running(p))

\* Mutant: a header is taken after the response was made.
SetHeaderLate(h) ==
    /\ SomeCode /\ h \notin headers.accepted
    /\ headers' = [headers EXCEPT !.accepted = @ \cup {h}]
    /\ UNCHANGED <<asked, node, aborted, promise, visitor, replyVars>>

SetHeader(h) ==
    /\ SomeCode /\ ~headers.sealed /\ h \notin headers.accepted
    /\ headers' = [headers EXCEPT !.accepted = @ \cup {h}]
    /\ UNCHANGED <<asked, node, aborted, promise, visitor, replyVars>>

\* A cookie is taken whenever it is set.
SetCookie(c) ==
    /\ SomeCode /\ c \notin headers.accepted
    /\ headers' = [headers EXCEPT !.accepted = @ \cup {c}]
    /\ UNCHANGED <<asked, node, aborted, promise, visitor, replyVars>>

Async(p) ==
    /\ SomeCode /\ promise[p].at = "none"
    /\ promise' = [promise EXCEPT ![p].at = "running"]
    /\ UNCHANGED <<asked, node, aborted, headers, visitor, replyVars>>

\* A promised value settles, or fails and holds nothing.
Settle(p) ==
    /\ Running(p)
    /\ \E held \in SUBSET (Promised \ {p}) :
          promise' = [promise EXCEPT ![p].at = "settled", ![p].holds = held]
    /\ UNCHANGED <<asked, node, aborted, headers, visitor, replyVars>>

---------------------------------------------------------------------------
(* The answer. *)

\* Every wanted node has returned; what it ran besides is not sent.
Gathered == serving = "loading" /\ \A i \in asked : node[i].at = "ended"
Sent(kind) == {i \in asked : node[i].kind = kind}

\* The headers go out with the answer, and no more are taken.
Apply == headers' = [headers EXCEPT !.sealed = TRUE, !.sent = headers.accepted]

Redirect ==
    /\ Gathered /\ Sent("redirect") # {}
    /\ reply' = "redirect" /\ serving' = "over" /\ Apply
    /\ UNCHANGED <<asked, node, aborted, promise, table, started, lost, chunks,
                   visitor>>

\* A value, or what handleError made of a failure, that cannot be serialized
\* fails the whole answer.
FatalError ==
    /\ Gathered /\ Sent("redirect") = {} /\ Sent("data") \cup Sent("error") # {}
    /\ reply' = "fatal" /\ serving' = "over" /\ Apply
    /\ UNCHANGED <<asked, node, aborted, promise, table, started, lost, chunks,
                   visitor>>

\* The promises the nodes hold get their ids; HEAD ends with the head.
WriteNodes ==
    /\ Gathered /\ Sent("redirect") = {} /\ Apply
    /\ table' = UNION {node[i].holds : i \in Sent("data")}
    /\ \/ /\ reply' = "nodes"
          /\ serving' = IF table' = {} THEN "over" ELSE "looking"
       \/ reply' = "head" /\ serving' = "over"
    /\ UNCHANGED <<asked, node, aborted, promise, started, lost, chunks, visitor>>

\* Mutant: the promises are those of the nodes.
LookOnce ==
    /\ serving = "looking"
    /\ started' = IF started = {} THEN table ELSE started
    /\ serving' = IF Len(chunks) = Cardinality(started')
                  THEN "over" ELSE "selecting"
    /\ UNCHANGED <<asked, node, aborted, promise, headers, reply, table, lost,
                   chunks, visitor>>

\* The loop waits for the promises it has not seen, and returns when each of
\* them was written.
Look ==
    /\ serving = "looking" /\ started' = table
    /\ serving' = IF Len(chunks) = Cardinality(table)
                  THEN "over" ELSE "selecting"
    /\ UNCHANGED <<asked, node, aborted, promise, headers, reply, table, lost,
                   chunks, visitor>>

Written == {chunks[n].of : n \in DOMAIN chunks}
Waiting(p) == p \in started \ (Written \cup lost)

Chunk(p, error) == chunks' = Append(chunks, [of |-> p, error |-> error])

\* A result arrives: the value, an error, or that the client is gone.  The
\* promises in a value join the table; in one that cannot be serialized whole,
\* those that were reached before it failed.
Receive(p) ==
    /\ serving = "selecting" /\ Waiting(p)
    /\ \/ /\ promise[p].at = "settled" /\ Chunk(p, FALSE)
          /\ table' = table \cup promise[p].holds
       \/ /\ promise[p].at = "settled" /\ Chunk(p, TRUE)
          /\ \E found \in SUBSET promise[p].holds : table' = table \cup found
       \/ visitor = "gone" /\ Chunk(p, TRUE) /\ UNCHANGED table
    /\ serving' = "looking"
    /\ UNCHANGED <<asked, node, aborted, promise, headers, reply, started, lost,
                   visitor>>

\* A waiting goroutine leaves with its client.
Lose(p) ==
    /\ Waiting(p) /\ visitor = "gone" /\ lost' = lost \cup {p}
    /\ UNCHANGED <<asked, node, aborted, promise, headers, reply, serving,
                   table, started, chunks, visitor>>

\* Mutant: the loop waits for results alone.
LeaveIgnored == FALSE /\ UNCHANGED branchVars

Leave ==
    /\ serving = "selecting" /\ visitor = "gone" /\ serving' = "over"
    /\ UNCHANGED <<asked, node, aborted, promise, headers, reply, table,
                   started, lost, chunks, visitor>>

\* The client may leave until the handler has returned.
VisitorLeaves ==
    /\ serving # "over" /\ visitor = "here" /\ visitor' = "gone"
    /\ UNCHANGED <<asked, node, aborted, promise, headers, replyVars>>

---------------------------------------------------------------------------
Ending(i) == ReturnData(i) \/ Fail(i)
Answering == Redirect \/ FatalError \/ WriteNodes
Streaming == Look \/ Leave \/ \E p \in Promises : Receive(p)

BranchNext ==
    \/ Answering \/ Streaming \/ VisitorLeaves
    \/ \E i \in Nodes : Run(i) \/ CallParent(i) \/ ReadParent(i) \/ Ending(i)
    \/ \E h \in Headers : SetHeader(h)
    \/ \E c \in Cookies : SetCookie(c)
    \/ \E p \in Promises : Async(p) \/ Settle(p) \/ Lose(p)

BranchSpec == BranchInit /\ [][BranchNext]_branchVars

\* The goroutines of the branch and of the request run.  A load is the
\* application's and need not return, a promised value need not settle.
BranchFairSpec ==
    /\ BranchSpec /\ WF_branchVars(Answering) /\ WF_branchVars(Streaming)
    /\ \A i \in Nodes : WF_branchVars(Run(i)) /\ WF_branchVars(ReadParent(i))

\* Loads that return sooner or later.
LoadsReturn == \A i \in Nodes : WF_branchVars(Ending(i))

---------------------------------------------------------------------------
(* Properties. *)

\* Whatever failed first, the client gets an answer for each node it asked
\* for: kit starts every wanted node before any of them can have failed.
AskedIsAnswered ==
    reply \in {"nodes", "head"} =>
        \A i \in asked : node[i].kind \in {"null", "data", "error"}

\* A load that goes on after its Parent succeeded read what every earlier node
\* returned, unless some node of the branch had failed.
ParentIsWhole ==
    \A i \in Nodes : node[i].parent = "whole" =>
        \A j \in 0..(i - 1) :
            \/ node[j].kind \in {"null", "data"}
            \/ node[j].kind = "skip" /\ \E k \in Nodes : Failed(k)

\* What the client is given of a branch is complete.
BranchIsWhole == AskedIsAnswered /\ ParentIsWhole

\* Every header that was accepted, from a load or from a promised value, is on
\* the response.
AcceptedIsSent ==
    reply # "none" => headers.accepted \cap Headers \subseteq headers.sent

\* SetCookie writes a cookie on the response, or returns an error.
CookieIsSent ==
    reply # "none" => headers.accepted \cap Cookies \subseteq headers.sent

\* What the client was told of: the promises in the nodes it got, and in the
\* chunks.
Told ==
    UNION ({node[i].holds : i \in Sent("data")} \cup
           {promise[c.of].holds : c \in {chunks[n] : n \in DOMAIN chunks} \cap
                                        [of : Promises, error : {FALSE}]})

\* No promise is answered twice, and a stream that ended by itself answered
\* every promise, those that another one held included.
ChunksAreExact ==
    /\ Cardinality(Written) = Len(chunks)
    /\ reply = "nodes" /\ serving = "over" /\ visitor = "here"
          => Told \subseteq Written

\* What was accepted while the answer could still take it is in the answer: the
\* headers before it, the chunks after it.
SentIsExact == AcceptedIsSent /\ ChunksAreExact

\* A request whose loads return is answered, whoever reads whom: nobody waits
\* for a node that is never run.  The hypothesis is needed even when the client
\* has left, for the wait for the loads does not look at its context.
AnswerComes == LoadsReturn => <>(reply # "none")

\* Once it is answered no load is waited for: the stream ends when its client
\* leaves, though a promised value never settles, or when those that were
\* promised have settled.
StreamEnds ==
    (reply # "none" /\ (visitor = "gone" \/ \A p \in Promises : ~Running(p)))
        ~> serving = "over"

\* A request for data ends.
RequestEnds == AnswerComes /\ StreamEnds
=============================================================================
