---------------------------- MODULE RemoteRefresh ----------------------------
(***************************************************************************)
(* One call of a command or a form, and the query instances it refreshes   *)
(* on its own response (refresh.go, requested.go, remote.go,               *)
(* remote_form.go).                                                        *)
(*                                                                         *)
(* The client posts the keys it would like refreshed.  Nothing runs unless *)
(* the handler names it: an instance of its own choosing (Refresh), or at  *)
(* most so many of those the client asked for (Requested and what accepts  *)
(* or ignores its instances).  What was named runs after the handler has   *)
(* returned, and may name more.                                            *)
(*                                                                         *)
(* An instance is a key.  A handler is sequential, so an action is one     *)
(* call it makes into the package.                                         *)
(***************************************************************************)
EXTENDS Integers, Sequences, SequencesExt, FiniteSets

CONSTANTS
  Instances,     \* the keys of a query, one for each argument
  LiveKey,       \* the key of a live query without an argument
  Nothing,       \* stands for "no key"
  MaxRequested,  \* bound: the keys of a function the client posts
  MaxNames       \* bound: the calls by which a behaviour names instances

ASSUME RefreshAssumption ==
  /\ IsFiniteSet(Instances) /\ LiveKey \notin Instances
  /\ Nothing \notin Instances \cup {LiveKey}
  /\ MaxRequested \in Nat /\ MaxNames \in Nat

Keys      == Instances \cup {LiveKey}
Functions == {"query", "live"}
KeysOf(f) == IF f = "query" THEN Instances ELSE {LiveKey}

VARIABLES
  requested,  \* refreshSet.requested: the keys the client posted
  undecoded,  \* the keys whose payload the query's decoder refuses
  call,       \* where serveCommand or serveForm is
  outcome,    \* what the handler returned
  entries,    \* refreshSet.entries: run it, refuse it, or nothing said of it
  order,      \* refreshSet.order
  ignored,    \* refreshSet.ignored
  drained,    \* refreshSet.drained
  batch,      \* what is left of the keys taken last
  at,         \* the key whose query runs
  told,       \* the entry of each key in the answer's q or l
  names,      \* how many calls have named instances
  granted,    \* how many instances of a function were granted by limits
  chosen,     \* the instances a handler or query named by itself
  ran         \* how often each query instance ran

wanted      == <<requested, undecoded>>
set         == <<entries, order, ignored, drained>>
bookkeeping == <<names, granted, chosen>>
refreshVars == <<wanted, call, outcome, set, batch, at, told, bookkeeping, ran>>

Said == {"nothing", "run", "refuse"}

RefreshTypeOK ==
  /\ requested \in [Functions -> Seq(Keys)] /\ undecoded \subseteq Keys
  /\ call \in {"handler", "draining", "answered", "aborted"}
  /\ outcome \in {"none", "value", "error", "issues", "redirect", "unencodable"}
  /\ entries \in [Keys -> Said] /\ order \in Seq(Keys)
  /\ ignored \subseteq Keys /\ drained \subseteq Keys /\ batch \in Seq(Keys)
  /\ at \in Keys \cup {Nothing} /\ told \in [Keys -> {"none", "v", "e"}]
  /\ names \in 0..MaxNames /\ granted \in [Functions -> Nat]
  /\ chosen \subseteq Keys /\ ran \in [Keys -> Nat]

\* newRefreshSet: what was posted is kept by function, in its order, with the
\* copies a client may send.
RefreshInit ==
  /\ requested \in [query : BoundedSeq(Instances, MaxRequested),
                    live  : BoundedSeq({LiveKey}, MaxRequested)]
  /\ undecoded \in SUBSET Instances
  /\ call = "handler" /\ outcome = "none"
  /\ entries = [k \in Keys |-> "nothing"] /\ order = <<>>
  /\ ignored = {} /\ drained = {} /\ batch = <<>> /\ at = Nothing
  /\ told = [k \in Keys |-> "none"]
  /\ names = 0 /\ granted = [f \in Functions |-> 0] /\ chosen = {}
  /\ ran = [k \in Keys |-> 0]

-----------------------------------------------------------------------------
(* Naming                                                                  *)

\* The handler, or a query that runs for its refresh: both reach the same set.
Naming == call = "handler" \/ at # Nothing

\* refreshSet.add: a key joins the order where it is mentioned first.
Refresh(k) ==
  /\ Naming /\ names < MaxNames /\ k \in Instances
  /\ order' = IF entries[k] = "nothing" THEN Append(order, k) ELSE order
  /\ entries' = [entries EXCEPT ![k] = "run"]
  /\ names' = names + 1 /\ chosen' = chosen \cup {k}
  /\ UNCHANGED <<wanted, call, outcome, ignored, drained, batch, at, told,
                 granted, ran>>

\* Mutant: one more than the limit is admitted.
AdmittedOneMore(f, limit) ==
  {i \in DOMAIN requested[f] : i <= limit + 1 /\ requested[f][i] \notin undecoded}

\* The places of what the client posted that a limit and the decoder admit.
Admitted(f, limit) ==
  {i \in DOMAIN requested[f] : i <= limit /\ requested[f][i] \notin undecoded}

Posted(f, places) == {requested[f][i] : i \in places}
KeysAt(f, place)  == [n \in DOMAIN place |-> requested[f][place[n]]]

\* What is refused is added before the handler sees any of what is admitted.
Earlier(i, j, refused) ==
  IF i \in refused <=> j \in refused THEN i < j ELSE i \in refused

\* The places by which keys join the order, of those mentioned.
Joining(f, mentioned, refused) ==
  {i \in mentioned :
     /\ entries[requested[f][i]] = "nothing"
     /\ \A j \in mentioned :
          requested[f][j] = requested[f][i] => ~Earlier(j, i, refused)}

\* requestedInstances fails all others on their own keys; then the handler
\* accepts and ignores what it likes of the admitted: some of it (Requested),
\* all (RefreshRequested, ReconnectRequested), or none (IgnoreRequested).
Requested(f, limit, accepted, declined) ==
  LET refused == DOMAIN requested[f] \ Admitted(f, limit)
      joining == Joining(f, refused \cup accepted, refused)
  IN
  /\ Naming /\ names < MaxNames
  /\ \E place \in Bijection(1..Cardinality(joining), joining) :
       /\ \A m, n \in DOMAIN place :
            m < n => Earlier(place[m], place[n], refused)
       /\ order' = order \o KeysAt(f, place)
  /\ entries' = [k \in Keys |->
                   IF k \in Posted(f, accepted) THEN "run"
                   ELSE IF k \in Posted(f, refused) THEN "refuse"
                   ELSE entries[k]]
  /\ ignored' = ignored \cup Posted(f, declined)
  /\ names' = names + 1
  /\ granted' = [granted EXCEPT ![f] = @ + limit]
  /\ UNCHANGED <<wanted, call, outcome, drained, batch, at, told, chosen, ran>>

-----------------------------------------------------------------------------
(* The handler returns, and its refreshes run                              *)

\* A value goes on to the refreshes.  An error, the issues of a submission and
\* a redirect answer at once, without any.
HandlerReturns(result) ==
  /\ call = "handler"
  /\ outcome' = result
  /\ call' = IF result = "value" THEN "draining" ELSE "answered"
  /\ UNCHANGED <<wanted, set, batch, at, told, bookkeeping, ran>>

\* http.ErrAbortHandler goes through every recover of a call, and ends it.
Abort ==
  /\ call = "handler" \/ at # Nothing
  /\ call' = "aborted" /\ at' = Nothing
  /\ UNCHANGED <<wanted, outcome, set, batch, told, bookkeeping, ran>>

Take ==
  /\ call = "draining" /\ at = Nothing /\ batch = <<>> /\ order # <<>>
  /\ batch' = order /\ order' = <<>>
  /\ UNCHANGED <<wanted, call, outcome, entries, ignored, drained, at, told,
                 bookkeeping, ran>>

\* The next key: refused, it is answered; otherwise its query starts.
DrainOne ==
  /\ call = "draining" /\ at = Nothing /\ batch # <<>>
  /\ LET k == Head(batch) IN
     /\ batch' = Tail(batch)
     /\ drained' = drained \cup {k}
     /\ told' = IF k \notin drained /\ entries[k] = "refuse"
                THEN [told EXCEPT ![k] = "e"] ELSE told
     /\ at' = IF k \notin drained /\ entries[k] = "run" THEN k ELSE Nothing
     /\ ran' = IF at' = k THEN [ran EXCEPT ![k] = @ + 1] ELSE ran
  /\ UNCHANGED <<wanted, call, outcome, entries, order, ignored, bookkeeping>>

\* call, or firstValue of a live query: a value, or an error of that key only.
QueryReturns ==
  /\ at # Nothing
  /\ \E answer \in {"v", "e"} : told' = [told EXCEPT ![at] = answer]
  /\ at' = Nothing
  /\ UNCHANGED <<wanted, call, outcome, set, batch, bookkeeping, ran>>

\* Mutant: the set is looked at once, before any of it has run.
AnswerAfterOne ==
  /\ call = "draining" /\ at = Nothing /\ batch = <<>>
  /\ order = <<>> \/ drained # {}
  /\ call' = "answered"
  /\ outcome' \in {"value", "unencodable"}
  /\ UNCHANGED <<wanted, set, batch, at, told, bookkeeping, ran>>

\* The set stopped growing.  A value that cannot be encoded takes the whole
\* answer with it.
Answer ==
  /\ call = "draining" /\ at = Nothing /\ batch = <<>> /\ order = <<>>
  /\ call' = "answered"
  /\ outcome' \in {"value", "unencodable"}
  /\ UNCHANGED <<wanted, set, batch, at, told, bookkeeping, ran>>

-----------------------------------------------------------------------------
RefreshNext ==
  \/ \E k \in Instances : Refresh(k)
  \/ \E f \in Functions : \E limit \in 0..MaxRequested :
       \E accepted, declined \in SUBSET Admitted(f, limit) :
         accepted \cap declined = {} /\ Requested(f, limit, accepted, declined)
  \/ \E result \in {"value", "error", "issues", "redirect"} : HandlerReturns(result)
  \/ Abort \/ Take \/ DrainOne \/ QueryReturns \/ Answer

RefreshSpec == RefreshInit /\ [][RefreshNext]_refreshVars

-----------------------------------------------------------------------------
(* Correctness                                                             *)

\* A call that succeeded tells the client of every instance somebody named,
\* those that were named while others ran included, and of no other; and it
\* ran each at most once.
EveryNamedIsTold ==
  /\ call = "answered" /\ outcome = "value" =>
       \A k \in Keys : told[k] # "none" <=> entries[k] # "nothing"
  /\ \A k \in Keys : ran[k] <= 1

\* Of what the client asked for, no more runs than the handler's limits allow,
\* however many copies it posts (requested.go:15-25).
LimitsHold ==
  \A f \in Functions :
    Cardinality({k \in KeysOf(f) \ chosen : ran[k] > 0}) <= granted[f]

\* What a command's answer refreshes is what was named, all of it, and what was
\* granted, no more.
RefreshesAreNamed == EveryNamedIsTold /\ LimitsHold
=============================================================================
