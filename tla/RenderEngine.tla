---------------------------- MODULE RenderEngine ----------------------------
(***************************************************************************)
(* The SSR engine of internal/ssr: one pool of JavaScript runtimes per     *)
(* render depth (engine.go) and the host calls a render makes back out to  *)
(* Go, whose goroutines share one engine-wide budget of slots (async.go).  *)
(*                                                                         *)
(* A render holds a runtime for its whole life.  A host call that fetches  *)
(* another page of the application starts a nested render one level        *)
(* deeper, and its goroutine keeps its slot while that render runs.        *)
(*                                                                         *)
(* A runtime is a record that moves between a pool and the render holding  *)
(* it: `jobs' are the renders whose callbacks sit on its macrotask queue,  *)
(* `intr' says that vm.Interrupt was called on it, `open' counts promises  *)
(* of host calls that were never settled.                                  *)
(***************************************************************************)
EXTENDS Integers, FiniteSets, Sequences

CONSTANTS
  Renders,         \* the Render calls of a behaviour, top-level and nested
  MaxCalls,        \* bound: host calls one render makes
  MaxTicks,        \* maxTicks: macrotask turns one render may take
  Size,            \* Engine.size: runtimes per pool
  MaxHostCalls,    \* maxHostCalls: the capacity of Engine.hostSlots
  MaxRenderDepth,  \* MaxRenderDepth: how deep renders may nest
  NoRender,        \* stands for "no render"
  NoVM             \* stands for "no runtime"

ASSUME RendersAssumption == IsFiniteSet(Renders) /\ NoRender \notin Renders
ASSUME BoundsAssumption ==
  /\ MaxCalls \in Nat
  /\ MaxTicks \in Nat
  /\ Size \in Nat \ {0}
  /\ MaxHostCalls \in Nat \ {0}
  /\ MaxRenderDepth \in Nat \ {0}

Calls  == 1..MaxCalls
Depths == 0..(MaxRenderDepth - 1)

VM == [id : Nat, jobs : SUBSET Renders, intr : BOOLEAN, open : Nat]
ASSUME NoVMAssumption == NoVM \notin VM

VARIABLES
  permits,     \* pool.permits: permits[d] runtimes may still be built at d
  idle,        \* pool.idle: the runtimes of pool d nobody holds
  created,     \* Engine.created, also the id of the next runtime
  slots,       \* len(Engine.hostSlots)
  pc,          \* where each Render call is
  depth,       \* Depth(ctx) of each Render call
  parent,      \* the render whose host call is waiting for this one
  ctxDone,     \* ctx.Err() # nil, of the context Render derives
  vm,          \* the runtime the render holds
  jsDone,      \* the `done' property of the result object
  failed,      \* rt.failed # nil
  reusable,    \* the `reusable' local of Render
  issued,      \* how many host calls the render has made
  queue,       \* renderWork.queue
  outstanding, \* renderWork.outstanding
  completed,   \* renderWork.completed
  ticks,       \* the `ticks' local of drain
  call,        \* the state of each host call's goroutine
  nested,      \* the render a host call is waiting for
  settled      \* the host calls whose promise was resolved or rejected

pools     == <<permits, idle, created>>
work      == <<issued, queue, outstanding, completed, settled>>
workers   == <<slots, call, nested>>
outcome   == <<jsDone, failed, reusable, ticks>>
lineage   == <<depth, parent>>
vars      == <<pools, work, workers, outcome, lineage, pc, ctxDone, vm>>

PC == {"off", "enter", "wait", "start", "top", "poll", "park",
       "stop", "put", "ended"}
CallState == {"none", "queued", "running", "nested", "answered",
              "releasing"}

\* The program points at which a render holds a runtime.
Holding == {"start", "top", "poll", "park", "stop", "put"}

\* The points at which the AfterFunc of Render can still be triggered.
Armed == Holding \ {"put"}

\* A host call's goroutine exists from start() to the end of its function.
Live == {"running", "nested", "answered", "releasing"}

Init ==
  /\ permits     = [d \in Depths |-> IF d = 0 THEN Size - 1 ELSE Size]
  /\ idle        = [d \in Depths |-> IF d = 0
                      THEN {[id |-> 0, jobs |-> {}, intr |-> FALSE, open |-> 0]}
                      ELSE {}]
  /\ created     = 1
  /\ slots       = 0
  /\ pc          = [r \in Renders |-> "off"]
  /\ depth       = [r \in Renders |-> 0]
  /\ parent      = [r \in Renders |-> NoRender]
  /\ ctxDone     = [r \in Renders |-> FALSE]
  /\ vm          = [r \in Renders |-> NoVM]
  /\ jsDone      = [r \in Renders |-> FALSE]
  /\ failed      = [r \in Renders |-> FALSE]
  /\ reusable    = [r \in Renders |-> FALSE]
  /\ issued      = [r \in Renders |-> 0]
  /\ queue       = [r \in Renders |-> <<>>]
  /\ outstanding = [r \in Renders |-> 0]
  /\ completed   = [r \in Renders |-> <<>>]
  /\ ticks       = [r \in Renders |-> 0]
  /\ call        = [r \in Renders |-> [c \in Calls |-> "none"]]
  /\ nested      = [r \in Renders |-> [c \in Calls |-> NoRender]]
  /\ settled     = [r \in Renders |-> {}]

Goto(r, to) == pc' = [pc EXCEPT ![r] = to]

-----------------------------------------------------------------------------
(* Render is called: by a page request, or by a host call's handler.       *)

Request(r) ==
  /\ pc[r] = "off"
  /\ Goto(r, "enter")
  /\ UNCHANGED <<pools, work, workers, outcome, lineage, ctxDone, vm>>

\* Mutant: the sub-request's context does not carry the depth.
FetchPageSameDepth(r, c, child) ==
  /\ call[r][c] = "running"
  /\ pc[child] = "off"
  /\ child # r
  /\ call'   = [call EXCEPT ![r][c] = "nested"]
  /\ nested' = [nested EXCEPT ![r][c] = child]
  /\ parent' = [parent EXCEPT ![child] = r]
  /\ Goto(child, "enter")
  /\ UNCHANGED <<pools, work, outcome, slots, depth, ctxDone, vm>>

\* A handler fetches a page of the application: the sub-request's context is
\* fresh but for its cancellation and CarryDepth.
FetchPage(r, c, child) ==
  /\ call[r][c] = "running"
  /\ pc[child] = "off"
  /\ child # r
  /\ call'   = [call EXCEPT ![r][c] = "nested"]
  /\ nested' = [nested EXCEPT ![r][c] = child]
  /\ parent' = [parent EXCEPT ![child] = r]
  /\ depth'  = [depth EXCEPT ![child] = depth[r] + 1]
  /\ Goto(child, "enter")
  /\ UNCHANGED <<pools, work, outcome, slots, ctxDone, vm>>

-----------------------------------------------------------------------------
(* acquire                                                                 *)

Take(r, d, m) ==
  /\ idle' = [idle EXCEPT ![d] = @ \ {m}]
  /\ vm'   = [vm EXCEPT ![r] = m]
  /\ Goto(r, "start")

\* Render refuses past MaxRenderDepth and acquire refuses a finished context.
Refuse(r) ==
  /\ pc[r] = "enter"
  /\ depth[r] >= MaxRenderDepth \/ ctxDone[r]
  /\ Goto(r, "ended")
  /\ UNCHANGED <<pools, work, workers, outcome, lineage, ctxDone, vm>>

\* acquire's first select: an idle runtime is preferred to building one.
AcquireFast(r) ==
  /\ pc[r] = "enter" /\ depth[r] < MaxRenderDepth /\ ~ctxDone[r]
  /\ \E m \in idle[depth[r]] : Take(r, depth[r], m)
  /\ UNCHANGED <<permits, created, work, workers, outcome, lineage, ctxDone>>

AcquireSlow(r) ==
  /\ pc[r] = "enter" /\ depth[r] < MaxRenderDepth /\ ~ctxDone[r]
  /\ idle[depth[r]] = {}
  /\ Goto(r, "wait")
  /\ UNCHANGED <<pools, work, workers, outcome, lineage, ctxDone, vm>>

\* The second select, whichever of its cases is ready.
AcquireIdle(r) ==
  /\ pc[r] = "wait"
  /\ \E m \in idle[depth[r]] : Take(r, depth[r], m)
  /\ UNCHANGED <<permits, created, work, workers, outcome, lineage, ctxDone>>

AcquireBuild(r) ==
  /\ pc[r] = "wait"
  /\ permits[depth[r]] > 0
  /\ permits' = [permits EXCEPT ![depth[r]] = @ - 1]
  /\ vm'      = [vm EXCEPT ![r] = [id   |-> created, jobs |-> {},
                                   intr |-> FALSE,   open |-> 0]]
  /\ created' = created + 1
  /\ Goto(r, "start")
  /\ UNCHANGED <<idle, work, workers, outcome, lineage, ctxDone>>

\* Mutant: the permit of a failed build is not returned.
BuildFailedKeepsPermit(r) ==
  /\ pc[r] = "wait"
  /\ permits[depth[r]] > 0
  /\ permits' = [permits EXCEPT ![depth[r]] = @ - 1]
  /\ Goto(r, "ended")
  /\ UNCHANGED <<idle, created, work, workers, outcome, lineage, ctxDone, vm>>

\* newRuntime failed: the permit goes back, the render reports the error.
BuildFailed(r) ==
  /\ pc[r] = "wait"
  /\ permits[depth[r]] > 0
  /\ Goto(r, "ended")
  /\ UNCHANGED <<pools, work, workers, outcome, lineage, ctxDone, vm>>

AcquireCancelled(r) ==
  /\ pc[r] = "wait"
  /\ ctxDone[r]
  /\ Goto(r, "ended")
  /\ UNCHANGED <<pools, work, workers, outcome, lineage, ctxDone, vm>>

-----------------------------------------------------------------------------
(* JavaScript.  Every entry into the runtime is one turn: the microtasks it *)
(* queued run before it returns, and may make host calls, schedule         *)
(* callbacks and finish the page.  An interrupted runtime throws.          *)

Enqueue(r, n) ==
  LET new == (issued[r] + 1)..(issued[r] + n) IN
  /\ issued' = [issued EXCEPT ![r] = @ + n]
  /\ queue'  = [queue EXCEPT ![r] = @ \o [k \in 1..n |-> issued[r] + k]]
  /\ call'   = [call EXCEPT ![r] =
                 [c \in Calls |-> IF c \in new THEN "queued" ELSE call[r][c]]]

\* The turn throws: it was interrupted, or the page itself threw.
TurnThrows(r, jobs) ==
  /\ Goto(r, "stop")
  /\ vm' = [vm EXCEPT ![r].jobs = jobs]
  /\ UNCHANGED <<issued, queue, call, jsDone>>

\* n host calls are made, `sched' says whether a callback was scheduled.
TurnRuns(r, jobs, n, sched, done) ==
  /\ ~vm[r].intr
  /\ Goto(r, "top")
  /\ vm' = [vm EXCEPT ![r].jobs = IF sched THEN jobs \cup {r} ELSE jobs]
  /\ jsDone' = [jsDone EXCEPT ![r] = @ \/ done]
  /\ Enqueue(r, n)

\* `base' is what renderWork.outstanding is when the turn begins.
Turn(r, jobs, base) ==
  \/ /\ TurnThrows(r, jobs)
     /\ outstanding' = [outstanding EXCEPT ![r] = base]
  \/ \E n \in 0..(MaxCalls - issued[r]), sched \in BOOLEAN, done \in BOOLEAN :
       /\ TurnRuns(r, jobs, n, sched, done)
       /\ outstanding' = [outstanding EXCEPT ![r] = base + n]

\* Mutant: the macrotask queue is not emptied first.
KeptJobsAll(r) == vm[r].jobs

\* rt.reset, then rt.render: what the last render left queued is dropped.
KeptJobs(r) == {}

StartRender(r) ==
  /\ pc[r] = "start"
  /\ Turn(r, KeptJobs(r), 0)
  /\ UNCHANGED <<pools, lineage, ctxDone, completed, settled, slots, nested,
                 failed, reusable, ticks>>

-----------------------------------------------------------------------------
(* drain                                                                   *)

Finished(r) ==
  /\ pc[r] = "top"
  /\ jsDone[r]
  /\ reusable' = [reusable EXCEPT ![r] = ~failed[r]]
  /\ Goto(r, "stop")
  /\ UNCHANGED <<pools, work, workers, lineage, ctxDone, vm, jsDone, failed,
                 ticks>>

\* Mutant: the blocking select has no ctx.Done case.
DrainCancelledAtTop(r) ==
  /\ pc[r] = "top" /\ ~jsDone[r]
  /\ ctxDone[r]
  /\ Goto(r, "stop")
  /\ UNCHANGED <<pools, work, workers, outcome, lineage, ctxDone, vm>>

DrainCancelled(r) ==
  /\ \/ pc[r] = "top" /\ ~jsDone[r]
     \/ pc[r] = "park"
  /\ ctxDone[r]
  /\ Goto(r, "stop")
  /\ UNCHANGED <<pools, work, workers, outcome, lineage, ctxDone, vm>>

DrainTop(r) ==
  /\ pc[r] = "top"
  /\ ~jsDone[r] /\ ~ctxDone[r]
  /\ Goto(r, "poll")
  /\ UNCHANGED <<pools, work, workers, outcome, lineage, ctxDone, vm>>

\* renderWork.start: the head of the queue gets a goroutine and a slot.
StartWorker(r) ==
  /\ queue[r] # <<>>
  /\ slots < MaxHostCalls
  /\ slots' = slots + 1
  /\ call'  = [call EXCEPT ![r][Head(queue[r])] = "running"]
  /\ queue' = [queue EXCEPT ![r] = Tail(@)]

\* Every runnable call is launched before the render waits for any one.
Launch(r) ==
  /\ pc[r] = "poll"
  /\ StartWorker(r)
  /\ UNCHANGED <<pools, issued, outstanding, completed, settled, nested,
                 outcome, lineage, pc, ctxDone, vm>>

Launched(r) == queue[r] = <<>> \/ slots = MaxHostCalls

\* A completion is taken off the channel and settles its promise.
Complete(r) ==
  /\ pc[r] = "park" \/ (pc[r] = "poll" /\ Launched(r))
  /\ completed[r] # <<>>
  /\ LET c == Head(completed[r]) IN
     /\ completed' = [completed EXCEPT ![r] = Tail(@)]
     /\ settled'   = [settled EXCEPT ![r] = @ \cup {c.id}]
     /\ failed'    = [failed EXCEPT ![r] = @ \/ ~c.ok]
     /\ Turn(r, vm[r].jobs, outstanding[r] - 1)
  /\ UNCHANGED <<pools, lineage, ctxDone, slots, nested, reusable, ticks>>

\* __skgo_tick runs one queued callback, whichever render scheduled it;
\* another callback of the same render may still be queued behind it.
Tick(r) ==
  /\ pc[r] = "poll" /\ Launched(r) /\ completed[r] = <<>>
  /\ ticks[r] < MaxTicks
  /\ \E owner \in vm[r].jobs, jobs \in SUBSET vm[r].jobs :
       /\ vm[r].jobs \ {owner} \subseteq jobs
       /\ Turn(r, jobs, outstanding[r])
  /\ ticks' = [ticks EXCEPT ![r] = @ + 1]
  /\ UNCHANGED <<pools, lineage, ctxDone, completed, settled, slots, nested,
                 failed, reusable>>

\* Too many turns, or nothing left that could finish the page.
GiveUp(r) ==
  /\ pc[r] = "poll" /\ Launched(r) /\ completed[r] = <<>>
  /\ \/ vm[r].jobs # {} /\ ticks[r] = MaxTicks
     \/ vm[r].jobs = {} /\ outstanding[r] = 0
  /\ Goto(r, "stop")
  /\ UNCHANGED <<pools, work, workers, outcome, lineage, ctxDone, vm>>

Park(r) ==
  /\ pc[r] = "poll" /\ Launched(r) /\ completed[r] = <<>>
  /\ vm[r].jobs = {} /\ outstanding[r] # 0
  /\ Goto(r, "park")
  /\ UNCHANGED <<pools, work, workers, outcome, lineage, ctxDone, vm>>

\* Mutant: the wait looks at the slots only when a completion of its own is there.
ParkedStartAfterOwn(r) ==
  /\ pc[r] = "park" /\ completed[r] # <<>>
  /\ StartWorker(r)
  /\ Goto(r, "top")
  /\ UNCHANGED <<pools, issued, outstanding, completed, settled, nested,
                 outcome, lineage, ctxDone, vm>>

\* A slot came free while the render was parked with queued calls.
ParkedStart(r) ==
  /\ pc[r] = "park"
  /\ StartWorker(r)
  /\ Goto(r, "top")
  /\ UNCHANGED <<pools, issued, outstanding, completed, settled, nested,
                 outcome, lineage, ctxDone, vm>>

-----------------------------------------------------------------------------
(* The deferred function of Render                                         *)

\* stop(): if the context is already done its AfterFunc runs to the end first.
Stop(r) ==
  /\ pc[r] = "stop"
  /\ ctxDone[r] => vm[r].intr
  /\ Goto(r, "put")
  /\ UNCHANGED <<pools, work, workers, outcome, lineage, ctxDone, vm>>

\* Mutant: a render that finished is reused whatever it left running.
CleanIgnoringCalls(r) == reusable[r] /\ ~ctxDone[r]

Clean(r) == reusable[r] /\ ~ctxDone[r] /\ outstanding[r] = 0

\* A runtime goes back to its pool as it was left; one that is not clean is
\* dropped and its permit returned.  rt.work and Render's locals are gone; calls
\* that never got a goroutine are forgotten, the others run on.
Put(r) ==
  /\ pc[r] = "put"
  /\ LET d    == depth[r]
         left == [vm[r] EXCEPT !.open = issued[r] - Cardinality(settled[r])]
     IN  IF Clean(r)
           THEN /\ idle' = [idle EXCEPT ![d] = @ \cup {left}]
                /\ UNCHANGED permits
           ELSE /\ permits' = [permits EXCEPT ![d] = @ + 1]
                /\ UNCHANGED idle
  /\ vm'      = [vm EXCEPT ![r] = NoVM]
  /\ ctxDone' = [ctxDone EXCEPT ![r] = TRUE]
  /\ issued'      = [issued EXCEPT ![r] = 0]
  /\ queue'       = [queue EXCEPT ![r] = <<>>]
  /\ outstanding' = [outstanding EXCEPT ![r] = 0]
  /\ completed'   = [completed EXCEPT ![r] = <<>>]
  /\ settled'     = [settled EXCEPT ![r] = {}]
  /\ jsDone'      = [jsDone EXCEPT ![r] = FALSE]
  /\ failed'      = [failed EXCEPT ![r] = FALSE]
  /\ reusable'    = [reusable EXCEPT ![r] = FALSE]
  /\ ticks'       = [ticks EXCEPT ![r] = 0]
  /\ call'        = [call EXCEPT ![r] = [c \in Calls |->
                      IF @[c] = "queued" THEN "none" ELSE @[c]]]
  /\ Goto(r, "ended")
  /\ UNCHANGED <<created, slots, nested, lineage>>

-----------------------------------------------------------------------------
(* Cancellation                                                            *)

\* The visitor leaves, or a deadline passes.
Cancel(r) ==
  /\ pc[r] \notin {"off", "ended"}
  /\ parent[r] = NoRender
  /\ ~ctxDone[r]
  /\ ctxDone' = [ctxDone EXCEPT ![r] = TRUE]
  /\ UNCHANGED <<pools, work, workers, outcome, lineage, pc, vm>>

\* A sub-request's context watches its parent's from a goroutine of its own,
\* because valuelessContext is not one of context's types.
Propagate(r) ==
  /\ pc[r] \notin {"off", "ended"}
  /\ parent[r] # NoRender
  /\ ctxDone[parent[r]]
  /\ ~ctxDone[r]
  /\ ctxDone' = [ctxDone EXCEPT ![r] = TRUE]
  /\ UNCHANGED <<pools, work, workers, outcome, lineage, pc, vm>>

\* The AfterFunc: vm.Interrupt.
Interrupt(r) ==
  /\ pc[r] \in Armed
  /\ ctxDone[r]
  /\ ~vm[r].intr
  /\ vm' = [vm EXCEPT ![r].intr = TRUE]
  /\ UNCHANGED <<pools, work, workers, outcome, lineage, pc, ctxDone>>

-----------------------------------------------------------------------------
(* The goroutine of one host call                                          *)

SetCall(r, c, s) == call' = [call EXCEPT ![r][c] = s]

\* Mutant: the slot is released before the answer is delivered.
HandlerReturnReleases(r, c) ==
  /\ call[r][c] = "running"
  /\ slots' = slots - 1
  /\ SetCall(r, c, "answered")
  /\ UNCHANGED <<pools, work, outcome, lineage, pc, ctxDone, vm, nested>>

\* An ordinary handler returns.  It may outlive its render.
HandlerReturn(r, c) ==
  /\ call[r][c] = "running"
  /\ SetCall(r, c, "answered")
  /\ UNCHANGED <<pools, work, outcome, lineage, pc, ctxDone, vm, slots, nested>>

\* A fetch resolves when the nested render has, or rejects when its own
\* context ends.
FetchReturn(r, c) ==
  /\ call[r][c] = "nested"
  /\ pc[nested[r][c]] = "ended" \/ ctxDone[r]
  /\ SetCall(r, c, "answered")
  /\ nested' = [nested EXCEPT ![r][c] = NoRender]
  /\ UNCHANGED <<pools, work, outcome, lineage, pc, ctxDone, vm, slots>>

\* The answer is delivered while the channel has room, holding the slot.  Once
\* the render is over nobody reads the channel: that send is Abandon's.
Deliver(r, c) ==
  /\ call[r][c] = "answered"
  /\ pc[r] \in Holding
  /\ Len(completed[r]) < MaxHostCalls
  /\ \E ok \in BOOLEAN :
       completed' = [completed EXCEPT ![r] = Append(@, [id |-> c, ok |-> ok])]
  /\ SetCall(r, c, "releasing")
  /\ UNCHANGED <<pools, issued, queue, outstanding, settled, outcome, lineage,
                 pc, ctxDone, vm, slots, nested>>

\* Mutant: a full channel is enough to drop the answer.
AbandonWhenFull(r, c) ==
  /\ call[r][c] = "answered"
  /\ ctxDone[r] \/ Len(completed[r]) = MaxHostCalls
  /\ SetCall(r, c, "releasing")
  /\ UNCHANGED <<pools, work, outcome, lineage, pc, ctxDone, vm, slots, nested>>

\* Mutant: the goroutine of a cancelled render returns without its release.
AbandonKeepsSlot(r, c) ==
  /\ call[r][c] = "answered"
  /\ ctxDone[r]
  /\ SetCall(r, c, "none")
  /\ UNCHANGED <<pools, work, outcome, lineage, pc, ctxDone, vm, slots, nested>>

Abandon(r, c) ==
  /\ call[r][c] = "answered"
  /\ ctxDone[r]
  /\ SetCall(r, c, "releasing")
  /\ UNCHANGED <<pools, work, outcome, lineage, pc, ctxDone, vm, slots, nested>>

\* <-w.slots, the goroutine's last statement.
Release(r, c) ==
  /\ call[r][c] = "releasing"
  /\ slots' = slots - 1
  /\ SetCall(r, c, "none")
  /\ UNCHANGED <<pools, work, outcome, lineage, pc, ctxDone, vm, nested>>

-----------------------------------------------------------------------------
RenderStep(r) ==
  \/ Refuse(r) \/ AcquireFast(r) \/ AcquireSlow(r) \/ AcquireIdle(r)
  \/ AcquireBuild(r) \/ BuildFailed(r) \/ AcquireCancelled(r)
  \/ StartRender(r) \/ Finished(r) \/ DrainCancelled(r) \/ DrainTop(r)
  \/ Launch(r) \/ Complete(r) \/ Tick(r) \/ GiveUp(r)
  \/ Park(r) \/ ParkedStart(r) \/ Stop(r) \/ Put(r)

ContextStep(r) == Propagate(r) \/ Interrupt(r)

WorkerStep(r, c) == Deliver(r, c) \/ Abandon(r, c) \/ Release(r, c)

Next ==
  \/ \E r \in Renders :
       Request(r) \/ RenderStep(r) \/ Cancel(r) \/ ContextStep(r)
  \/ \E r \in Renders, c \in Calls :
       \/ HandlerReturn(r, c) \/ FetchReturn(r, c) \/ WorkerStep(r, c)
       \/ \E child \in Renders : FetchPage(r, c, child)

Spec == Init /\ [][Next]_vars

\* Goroutines run: the one rendering, the ones contexts start, and the ones
\* of the host calls.  Nothing makes a visitor leave or ask for a page.
EngineFairness ==
  /\ \A r \in Renders : WF_vars(RenderStep(r)) /\ WF_vars(ContextStep(r))
  /\ \A r \in Renders, c \in Calls :
       WF_vars(WorkerStep(r, c)) /\ WF_vars(FetchReturn(r, c))

\* An application handler that returns sooner or later.
HandlerFairness ==
  \A r \in Renders, c \in Calls : WF_vars(HandlerReturn(r, c))

\* Handlers may ignore their context and block for ever.
UncooperativeSpec == Spec /\ EngineFairness

FairSpec == UncooperativeSpec /\ HandlerFairness

-----------------------------------------------------------------------------
(* Properties                                                              *)

TypeOK ==
  /\ permits     \in [Depths -> Nat]
  /\ idle        \in [Depths -> SUBSET VM]
  /\ created     \in Nat
  /\ slots       \in Nat
  /\ pc          \in [Renders -> PC]
  /\ depth       \in [Renders -> Nat]
  /\ parent      \in [Renders -> Renders \cup {NoRender}]
  /\ ctxDone     \in [Renders -> BOOLEAN]
  /\ vm          \in [Renders -> VM \cup {NoVM}]
  /\ jsDone      \in [Renders -> BOOLEAN]
  /\ failed      \in [Renders -> BOOLEAN]
  /\ reusable    \in [Renders -> BOOLEAN]
  /\ issued      \in [Renders -> 0..MaxCalls]
  /\ queue       \in [Renders -> Seq(Calls)]
  /\ outstanding \in [Renders -> Int]
  /\ completed   \in [Renders -> Seq([id : Calls, ok : BOOLEAN])]
  /\ ticks       \in [Renders -> 0..MaxTicks]
  /\ call        \in [Renders -> [Calls -> CallState]]
  /\ nested      \in [Renders -> [Calls -> Renders \cup {NoRender}]]
  /\ settled     \in [Renders -> SUBSET Calls]

Holders(d) == {r \in Renders : pc[r] \in Holding /\ depth[r] = d}

\* A runtime is checked out by one render only (engine.go: "which is what
\* keeps a render from re-entering one"), and not while it is idle.
RuntimeExclusive ==
  /\ \A r, s \in Renders :
       /\ r # s /\ pc[r] \in Holding /\ pc[s] \in Holding
       => vm[r].id # vm[s].id
  /\ \A r \in Renders, d \in Depths :
       pc[r] \in Holding => \A m \in idle[d] : m.id # vm[r].id

\* Every permit of a pool is accounted for: free, behind an idle runtime, or
\* held by exactly one render of that depth, which shares its runtime with
\* nobody.  A permit lost on a failed build or a discarded runtime would shrink
\* the pool for the life of the process.
PoolConserved ==
  /\ \A d \in Depths :
       permits[d] + Cardinality(idle[d]) + Cardinality(Holders(d)) = Size
  /\ RuntimeExclusive

\* What the next request finds in a pool was neither interrupted nor left with
\* a promise some abandoned host call might still be answering.
IdleRuntimesAreClean ==
  \A d \in Depths : \A m \in idle[d] : ~m.intr /\ m.open = 0

LiveCalls == {p \in Renders \X Calls : call[p[1]][p[2]] \in Live}

\* async.go: '"holds a slot" and "goroutine is alive" stay the same thing',
\* for the goroutines of renders that were cancelled too.
SlotsAreLiveGoroutines ==
  /\ slots = Cardinality(LiveCalls)
  /\ slots <= MaxHostCalls

\* A callback an earlier request left on the runtime's macrotask queue never
\* runs in this one (globals.go: "one visitor's work charged to another").
OwnCallbacksOnly ==
  \A r \in Renders : pc[r] \in Holding \ {"start"} => vm[r].jobs \subseteq {r}

IdsOf(seq) == {seq[k] : k \in DOMAIN seq}
Delivered(r) == {c.id : c \in IdsOf(completed[r])}
Unsettled(r) == 1..issued[r] \ settled[r]

\* A promise the page is waiting for always has somebody left to settle it: it
\* is queued, its goroutine is on the way, or its answer is in the channel.
\* Only a finished context may drop it, so a parked render cannot sleep for ever
\* on an answer that was already lost.
EveryPromiseHasAnAnswerer ==
  \A r \in Renders :
    /\ outstanding[r] = Cardinality(Unsettled(r))
    /\ \A c \in Unsettled(r) :
         \/ c \in IdsOf(queue[r])
         \/ call[r][c] \in {"running", "nested", "answered"}
         \/ c \in Delivered(r)
         \/ ctxDone[r]

\* What async.go:16 leaves open: every slot is held by a call that waits for a
\* page, and a page waits for a slot.  Only a cancellation gets out of it.
WaitsForSlot(r) == pc[r] = "park" /\ queue[r] # <<>>

Pinned ==
  /\ slots = MaxHostCalls
  /\ \A p \in LiveCalls : call[p[1]][p[2]] = "nested"
  /\ \E r \in Renders : WaitsForSlot(r)

NeverPinnedForGood == []<>~Pinned

\* When handlers return, and the slots are not pinned for good, every render
\* that was asked for returns, one that waits for a slot included.
AskedRendersReturn ==
  HandlerFairness /\ NeverPinnedForGood =>
    \A r \in Renders : pc[r] # "off" ~> pc[r] = "ended"

\* A render whose visitor left returns, whatever its handlers do and pinned or
\* not.
CancelledRendersReturn ==
  \A r \in Renders : (pc[r] # "off" /\ ctxDone[r]) ~> pc[r] = "ended"

\* The engine-wide budget is whole again at the end, unless it is pinned.
SlotsComeBack == HandlerFairness /\ NeverPinnedForGood => <>[](slots = 0)

\* Renders return, with their handlers or with their visitors, and give back
\* what they took of the budget all renders share.
RendersReturn == AskedRendersReturn /\ CancelledRendersReturn /\ SlotsComeBack

=============================================================================
