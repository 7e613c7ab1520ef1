------------------------- MODULE ProjectRevisions -------------------------
(***************************************************************************)
(* internal/gen/retained.go and retained_future.go: the project the        *)
(* development session compiles from.  File and route events make          *)
(* revisions; callers Prepare the current one, sharing one generation per  *)
(* declaration key; a prepared build is committed only while its revision  *)
(* is the current one.                                                     *)
(*                                                                         *)
(* A call of Prepare is an element of Calls, used once.  The generation    *)
(* future and the run of a future are named by the call that made them.    *)
(* What a revision's files hold is abstracted to the declaration key they  *)
(* hash to, and a plan to the key it was generated from: two revisions     *)
(* with one key differ in function bodies only.                            *)
(***************************************************************************)
EXTENDS Naturals, Sequences, FiniteSets

CONSTANTS Calls,        \* calls of Prepare
          Keys,         \* declaration keys
          First,        \* the key of the first revision
          MaxRevisions, \* bound on the revisions of a behaviour
          None

\* Not a plan: a generation that failed, one that was cancelled, and the zero
\* plan get answers with when a run ended without leaving a result.
NoPlan == {"failed", "canceled", "zero"}

ASSUME ConstantsAssumption ==
    /\ MaxRevisions \in Nat \ {0}
    /\ IsFiniteSet(Calls) /\ First \in Keys
    /\ None \notin Calls \cup Keys \cup NoPlan \cup Nat
    /\ Keys \cap NoPlan = {}

VARIABLES
    snaps,      \* Project.current and its predecessors; the last is current
    broken,     \* Project.current's selectionErr
    dead,       \* the snapshot contexts cancelled, by the revision that made them
    closed,     \* Project.closed
    diagnostic, \* Project.diagnostic's revision
    plans,      \* Project.plans: the one plan retained
    pending,    \* Project.pending: the future of each key
    analysing,  \* the run that holds analysisMu
    memo,       \* generationFuture.complete, result and err
    running,    \* generationFuture.run
    runs,       \* generationRun: its goroutine's stage, waiters, context, value
    call        \* each call of Prepare and the build it returned

vars == <<snaps, broken, dead, closed, diagnostic, plans, pending, analysing, memo,
          running, runs, call>>
project == <<snaps, broken, dead, closed>>

Revisions == 1..MaxRevisions
Contents  == [key : Keys, life : Revisions]
Results   == Keys \cup {"failed"}
Stages    == {"unused", "queued", "working", "leaving", "over"}
Steps     == {"idle", "get", "wait", "left", "made", "built", "committed",
              "returned"}
Outcomes  == {"none", "canceled", "failed", "obsolete", "closed"}
Run       == [stage : Stages, future : Calls \cup {None},
              key : Keys \cup {None}, waiters : SUBSET Calls, stopped : BOOLEAN,
              value : Results \cup {None}]
Call      == [step : Steps, of : Revisions \cup {None},
              future : Calls \cup {None}, run : Calls \cup {None},
              gaveUp : BOOLEAN, got : Keys \cup NoPlan \cup {None},
              outcome : Outcomes]

Current      == Len(snaps)
Snap(c)      == snaps[call[c].of]
IsCurrent(c) == ~closed /\ call[c].of = Current

NewRun  == [stage |-> "unused", future |-> None, key |-> None, waiters |-> {},
            stopped |-> FALSE, value |-> None]
NewCall == [step |-> "idle", of |-> None, future |-> None, run |-> None,
            gaveUp |-> FALSE, got |-> None, outcome |-> "none"]

\* A call that returned: only the error of a failed one names its revision.
Over(c, outcome) ==
    [NewCall EXCEPT !.step = "returned", !.outcome = outcome,
                    !.gaveUp = outcome = "canceled" /\ call[c].gaveUp,
                    !.of = IF outcome = "failed" THEN call[c].of ELSE None]

\* The context a call waits under ended: with its caller's, at any time, or
\* some time after its snapshot's, which context.AfterFunc carries over.
Ended(c, own) == own \/ Snap(c).life \in dead

TypeOK ==
    /\ snaps \in Seq(Contents) /\ Len(snaps) \in Revisions
    /\ broken \in BOOLEAN /\ dead \subseteq Revisions
    /\ closed \in BOOLEAN
    /\ diagnostic \in Revisions \cup {None}
    /\ plans \in Keys \cup {None}
    /\ pending \in [Keys -> Calls \cup {None}]
    /\ analysing \in Calls \cup {None}
    /\ memo \in [Calls -> Results \cup {None}]
    /\ running \in [Calls -> Calls \cup {None}]
    /\ runs \in [Calls -> Run]
    /\ call \in [Calls -> Call]

Init ==
    /\ snaps = <<[key |-> First, life |-> 1]>>
    /\ broken = FALSE /\ dead = {} /\ closed = FALSE /\ diagnostic = None /\ plans = None
    /\ pending = [k \in Keys |-> None] /\ analysing = None
    /\ memo = [c \in Calls |-> None] /\ running = [c \in Calls |-> None]
    /\ runs = [c \in Calls |-> NewRun] /\ call = [c \in Calls |-> NewCall]

---------------------------------------------------------------------------
(* Revisions. *)

\* cloneSnapshot: an equivalent snapshot shares its predecessor's context; a
\* changed key cancels it.
Admit(k, unreadable) ==
    LET before == snaps[Current]
        same   == k = before.key
    IN  /\ ~closed /\ Current < MaxRevisions
        /\ snaps' = Append(snaps, [key |-> k,
               life |-> IF same THEN before.life ELSE Current + 1])
        /\ broken' = unreadable
        /\ dead' = IF same THEN dead ELSE dead \cup {before.life}
        /\ diagnostic' = None
        /\ UNCHANGED <<closed, plans, pending, analysing, memo, running, runs,
                       call>>

\* A module or workspace file that cannot be read as one still makes a
\* revision; the error stays until such a file, which the key hashes, changes.
Observe(k, unreadable) ==
    (unreadable # broken => k # snaps[Current].key) /\ Admit(k, unreadable)

\* Kit's metadata is part of the key; the selection error is not carried over.
ObserveRoutes(k) == k # snaps[Current].key /\ Admit(k, FALSE)

---------------------------------------------------------------------------
(* Prepare: one generation per key, shared by the calls that wait for it. *)

Prepare(c) ==
    LET k == snaps[Current].key
        f == IF pending[k] = None THEN c ELSE pending[k]
        answered(outcome) == call' = [call EXCEPT
             ![c] = [NewCall EXCEPT !.step = "returned", !.outcome = outcome,
                         !.of = IF outcome = "failed" THEN Current ELSE None]]
    IN  /\ call[c].step = "idle"
        /\ \/ /\ closed
              /\ answered("closed") /\ UNCHANGED pending
           \/ /\ ~closed /\ broken
              /\ answered("failed") /\ UNCHANGED pending
           \/ /\ ~closed /\ ~broken
              /\ pending' = [pending EXCEPT ![k] = f]
              /\ call' = [call EXCEPT ![c].step = "get", ![c].of = Current,
                                      ![c].future = f]
        /\ UNCHANGED <<project, diagnostic, plans, analysing, memo, running,
                       runs>>

Leave(c, what, own) == call' = [call EXCEPT ![c].step = "left", ![c].got = what,
                                            ![c].gaveUp = own]

\* generationFuture.get: answer from the memo, or wait for the run, which the
\* first to ask starts.
Get(c, own) ==
    LET f == call[c].future
        r == IF running[f] = None THEN c ELSE running[f]
    IN  /\ call[c].step = "get"
        /\ \/ /\ Ended(c, own)
              /\ Leave(c, "canceled", own) /\ UNCHANGED <<running, runs>>
           \/ /\ ~own /\ memo[f] # None
              /\ Leave(c, memo[f], FALSE) /\ UNCHANGED <<running, runs>>
           \/ /\ ~own /\ memo[f] = None
              /\ running' = [running EXCEPT ![f] = r]
              /\ runs' = [runs EXCEPT
                    ![r] = IF r = c THEN [NewRun EXCEPT !.stage = "queued",
                                 !.future = f, !.key = Snap(c).key,
                                 !.waiters = {c}]
                           ELSE [runs[r] EXCEPT !.waiters = @ \cup {c}]]
              /\ call' = [call EXCEPT ![c].step = "wait", ![c].run = r]
        /\ UNCHANGED <<project, diagnostic, plans, pending, analysing, memo>>

\* Mutant: any waiter that leaves takes the work with it.
WalkAwayWithWork(c, own) ==
    LET f == call[c].future
        r == call[c].run
        last == running[f] = r
    IN  /\ call[c].step = "wait" /\ Ended(c, own)
        /\ runs' = [runs EXCEPT ![r].waiters = @ \ {c},
                                ![r].stopped = @ \/ last]
        /\ running' = IF last THEN [running EXCEPT ![f] = None] ELSE running
        /\ Leave(c, "canceled", own)
        /\ UNCHANGED <<project, diagnostic, plans, pending, analysing, memo>>

\* A waiter whose context ended leaves; the last one takes the work with it.
WalkAway(c, own) ==
    LET f == call[c].future
        r == call[c].run
        last == runs[r].waiters = {c} /\ running[f] = r
    IN  /\ call[c].step = "wait" /\ Ended(c, own)
        /\ runs' = [runs EXCEPT ![r].waiters = @ \ {c},
                                ![r].stopped = @ \/ last]
        /\ running' = IF last THEN [running EXCEPT ![f] = None] ELSE running
        /\ Leave(c, "canceled", own)
        /\ UNCHANGED <<project, diagnostic, plans, pending, analysing, memo>>

\* The run is over: the future's result, or what ended the run's context.
Collect(c) ==
    LET f == call[c].future
        r == call[c].run
    IN  /\ call[c].step = "wait" /\ runs[r].stage = "over"
        /\ runs' = [runs EXCEPT ![r].waiters = @ \ {c}]
        /\ Leave(c, IF memo[f] # None THEN memo[f]
                    ELSE IF runs[r].stopped THEN "canceled" ELSE "zero", FALSE)
        /\ UNCHANGED <<project, diagnostic, plans, pending, analysing, memo,
                       running>>

\* Mutant: whatever plan is retained is the answer.
AnalyseAnyPlan(r) ==
    LET hit == plans # None
        ends == hit \/ runs[r].stopped
    IN  /\ runs[r].stage = "queued" /\ analysing = None
        /\ analysing' = IF ends THEN None ELSE r
        /\ runs' = [runs EXCEPT
              ![r].stage = IF ends THEN "leaving" ELSE "working",
              ![r].value = IF hit THEN plans
                           ELSE IF ends THEN "failed" ELSE None]
        /\ UNCHANGED <<project, diagnostic, plans, pending, memo, running, call>>

\* Mutant: a cancelled run returns without unlocking analysisMu.
AnalyseKeepsLock(r) ==
    LET hit == plans = runs[r].key
        ends == hit \/ runs[r].stopped
    IN  /\ runs[r].stage = "queued" /\ analysing = None
        /\ analysing' = IF hit THEN None ELSE r
        /\ runs' = [runs EXCEPT
              ![r].stage = IF ends THEN "leaving" ELSE "working",
              ![r].value = IF hit THEN plans
                           ELSE IF ends THEN "failed" ELSE None]
        /\ UNCHANGED <<project, diagnostic, plans, pending, memo, running, call>>

\* The run's goroutine takes analysisMu.  A retained plan of its key is its
\* answer, a cancelled run fails; otherwise it generates.
Analyse(r) ==
    LET hit == plans = runs[r].key
        ends == hit \/ runs[r].stopped
    IN  /\ runs[r].stage = "queued" /\ analysing = None
        /\ analysing' = IF ends THEN None ELSE r
        /\ runs' = [runs EXCEPT
              ![r].stage = IF ends THEN "leaving" ELSE "working",
              ![r].value = IF hit THEN plans
                           ELSE IF ends THEN "failed" ELSE None]
        /\ UNCHANGED <<project, diagnostic, plans, pending, memo, running, call>>

\* The generation ends; only the current key's plan is retained.
Generate(r, ok) ==
    LET k == runs[r].key
    IN  /\ runs[r].stage = "working"
        /\ analysing' = None
        /\ runs' = [runs EXCEPT ![r].stage = "leaving",
                                ![r].value = IF ok THEN k ELSE "failed"]
        /\ plans' = IF ok /\ snaps[Current].key = k THEN k ELSE plans
        /\ UNCHANGED <<project, diagnostic, pending, memo, running, call>>

\* An abandoned run leaves nothing on its future.
Finish(r) ==
    LET f == runs[r].future
        mine == running[f] = r
    IN  /\ runs[r].stage = "leaving"
        /\ runs' = [runs EXCEPT ![r] =
                  [NewRun EXCEPT !.stage = "over", !.waiters = runs[r].waiters,
                                 !.stopped = runs[r].stopped]]
        /\ memo' = IF mine /\ ~runs[r].stopped
                   THEN [memo EXCEPT ![f] = runs[r].value] ELSE memo
        /\ running' = IF mine THEN [running EXCEPT ![f] = None] ELSE running
        /\ UNCHANGED <<project, diagnostic, plans, pending, analysing, call>>

\* Mutant: only a future that has its answer is forgotten.
ForgetAnswered(c) ==
    LET f == call[c].future
        k == Snap(c).key
    IN  IF memo[f] # None /\ pending[k] = f THEN [pending EXCEPT ![k] = None]
        ELSE pending

\* A future that is finished is not asked again.
Forget(c) ==
    LET f == call[c].future
        k == Snap(c).key
        finished == memo[f] # None \/ running[f] = None
    IN  IF finished /\ pending[k] = f THEN [pending EXCEPT ![k] = None]
        ELSE pending

\* Prepare goes on: a superseded call is obsolete whatever it got, and a plan
\* is written to a private tree, which is the build's lease.
Materialize(c, ok) ==
    LET got == call[c].got
        end(outcome) == call' = [call EXCEPT ![c] = Over(c, outcome)]
    IN  /\ call[c].step = "left"
        /\ pending' = Forget(c)
        /\ \/ ~IsCurrent(c) /\ end("obsolete")
           \/ IsCurrent(c) /\ got = "canceled" /\ end("canceled")
           \/ IsCurrent(c) /\ got = "failed" /\ end("failed")
           \/ /\ IsCurrent(c) /\ got \notin {"canceled", "failed"}
              /\ \/ ~ok /\ end("failed")
                 \/ ok /\ call' = [call EXCEPT ![c].step = "made"]
        /\ UNCHANGED <<project, diagnostic, plans, analysing, memo, running,
                       runs>>

\* The second look at the revision, after the inputs were written.
Admissible(c, own) ==
    LET end(outcome, gaveUp) ==
          call' = [call EXCEPT ![c] = [Over(c, outcome) EXCEPT !.gaveUp = gaveUp]]
    IN  /\ call[c].step = "made"
        /\ \/ own /\ end("canceled", TRUE)
           \/ ~own /\ ~IsCurrent(c) /\ end("obsolete", FALSE)
           \/ ~own /\ IsCurrent(c) /\ call' = [call EXCEPT ![c].step = "built"]
        /\ UNCHANGED <<project, diagnostic, plans, pending, analysing, memo,
                       running, runs>>

---------------------------------------------------------------------------
(* Builds. *)

\* Publish keeps the build open; Commit, whose admission succeeded, closes it.
\* An obsolete build, a refused admission and a failed write change nothing.
Publish(c, close) ==
    /\ call[c].step = "built" /\ IsCurrent(c)
    /\ diagnostic' = None
    /\ call' = [call EXCEPT ![c].step = IF close THEN "committed" ELSE @]
    /\ UNCHANGED <<project, plans, pending, analysing, memo, running, runs>>

\* The plan's output could not be formatted: the plan is not replayed.
FormatFails(c) ==
    /\ call[c].step = "built" /\ IsCurrent(c) /\ plans = call[c].got
    /\ plans' = None
    /\ UNCHANGED <<project, diagnostic, pending, analysing, memo, running, runs,
                   call>>

\* ProjectBuild.Diagnose, and Project.Diagnose for a revision Prepare refused.
Diagnose(c) ==
    /\ \/ call[c].step = "built" /\ IsCurrent(c)
       \/ /\ call[c].step = "returned" /\ call[c].outcome = "failed"
          /\ ~closed /\ Current = call[c].of
    /\ diagnostic' = call[c].of
    /\ UNCHANGED <<project, plans, pending, analysing, memo, running, runs,
                   call>>

\* Cancel closes an open build's inputs; a committed build's belong to the
\* host.
Drop(c) ==
    /\ call[c].step = "built"
    /\ call' = [call EXCEPT ![c] = Over(c, "none")]
    /\ UNCHANGED <<project, diagnostic, plans, pending, analysing, memo,
                   running, runs>>

---------------------------------------------------------------------------
\* Close; the analysis it releases is not part of the model.
Close ==
    /\ ~closed
    /\ closed' = TRUE
    /\ dead' = dead \cup {snaps[Current].life}
    /\ UNCHANGED <<snaps, broken, diagnostic, plans, pending, analysing, memo,
                   running, runs, call>>

---------------------------------------------------------------------------
Event == \E k \in Keys : ObserveRoutes(k) \/ \E b \in BOOLEAN : Observe(k, b)

Calling(c, own) == Get(c, own) \/ WalkAway(c, own) \/ Admissible(c, own)
Serving(c) == Calling(c, FALSE) \/ Collect(c)
              \/ \E ok \in BOOLEAN : Materialize(c, ok)
Working(r) == Analyse(r) \/ (\E ok \in BOOLEAN : Generate(r, ok)) \/ Finish(r)
Owning(c)  == Prepare(c) \/ Calling(c, TRUE) \/ (\E b \in BOOLEAN : Publish(c, b))
              \/ FormatFails(c) \/ Diagnose(c) \/ Drop(c)

Next == Event \/ Close
        \/ \E c \in Calls : Serving(c) \/ Working(c) \/ Owning(c)

Spec == Init /\ [][Next]_vars

\* Goroutines that can run do run and a generation ends.  A run waits for
\* analysisMu behind a finite number of others, each run taking it once.
FairSpec == Spec /\ \A c \in Calls : WF_vars(Serving(c)) /\ WF_vars(Working(c))

---------------------------------------------------------------------------
(* Properties. *)

\* Waiting(r) are the calls that share run r.
Waiting(r) == {c \in Calls : call[c].step = "wait" /\ call[c].run = r}

\* Nobody is answered with the cancellation of somebody else: work that is
\* shared stops only when nobody waits for it (retained_future.go:4-6), no
\* result is kept of work that was stopped, and a call returns a cancellation
\* only when its own context ended.
NobodyElsesCancellation ==
    /\ \A r \in Calls : runs[r].stopped => Waiting(r) = {}
    /\ \A c \in Calls : /\ call[c].got # "zero"
                        /\ call[c].outcome = "canceled" => call[c].gaveUp

\* A future is kept only while some call is using it: a failed or abandoned
\* generation is never replayed to a call that comes later.
PendingIsWanted ==
    \A k \in Keys : pending[k] # None =>
        \E c \in Calls : /\ call[c].step \in {"get", "wait", "left"}
                        /\ call[c].future = pending[k]

\* What a call builds from, whoever generated it and however often the key
\* changed and came back meanwhile, is the plan of its own revision's
\* declarations; a diagnostic is about the revision that is current; and what
\* was generated before is kept for nobody.
NothingStale ==
    /\ PendingIsWanted
    /\ \A c \in Calls : call[c].step \in {"made", "built", "committed"}
                           => call[c].got = Snap(c).key
    /\ diagnostic # None => diagnostic = Current

\* Sharing and remembering the work of others shows in neither the errors nor
\* the results of a call.
SharingIsUnseen == NobodyElsesCancellation /\ NothingStale

\* Every call of Prepare returns, with a build or with an error, whatever is
\* observed, cancelled or closed meanwhile.
PrepareReturns ==
    \A c \in Calls : call[c].step = "get"
        ~> call[c].step \in {"built", "committed", "returned"}
=============================================================================
