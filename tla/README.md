# A verification of skgo in TLA+

skgo runs the server half of a SvelteKit application in Go. `skgo dev` keeps a
compiled Go host and Vite alive behind one public listener and replaces the host
while the user edits; `internal/ssr` renders Svelte pages on a pool of JavaScript
runtimes inside the Go process; `internal/gen` is the compiler from the user's Go
packages to the code both sides share. This directory models the parts of that
program whose correctness depends on the order of events: who waits for whom,
what is still running when something else has given up on it, what is put back
after a failure.

Paths below are relative to the repository (`internal/...`, `*.go`).

## 1. Inventory

| Part | State it keeps | Operations | What is hard about it |
|---|---|---|---|
| SSR engine (`internal/ssr/engine.go`, `async.go`, `globals.go`) | per depth a channel of idle runtimes and one of permits; an engine-wide channel of host-call slots; per render a queue of host calls, their completions, an interrupt flag | `Render`, `acquire`, `drain`, `promise`, host goroutines, `context.AfterFunc` interrupt | goroutines outlive their render; a nested render waits under a slot; runtimes are reused by the next visitor |
| Request admission (`internal/devserver/admission.go`) | `ready` and `drained` channels, the active requests with their cancel functions, `closed` | `enter` and the `finish` it returns, `pause`, `resume`, `close` | channels are replaced while goroutines hold the old ones; a drain races its timer, the caller's context and finishing requests |
| Session loop (`internal/devserver/session.go`, `router.go`) | the active host, `hostInputs`, `goodInputs`, `goodDist`, `goodRevision`, `pending`, `goChanged`, `dirtyFrontend`, the sweep list | startup, the select loop, in-place commit, replacement, recovery, restore | edits arrive during every await; one commit has five steps that can each fail; three processes die independently |
| Host control (`internal/hotreload/host.go`) | two pipes, `controlErr`, `installed` | `Start`, `Install`, `Reload`, `Close`, `exchange`, `receive` | late replies; a read deadline set by a callback |
| Hot revisions (`internal/hotreload/native_runtime.go`, `lower.go`) | the current table of targets, the loaded modules with consumers, `retired`, `reclaim`, the budget | `SkgoHotInstall`, `_skgo_acquire`, its release, `SkgoHotHandler`, lowered calls | code is unloaded while requests run |
| Generator project (`internal/gen/retained.go`, `retained_future.go`, `raw_events.go`, `snapshot.go`) | the current revision, generation futures by declaration key and their waiters, the last plan, leases of captured inputs, the event epoch | `Observe`, `ObserveRoutes`, `Prepare`, `Publish`, `Commit`, `Cancel`, `Diagnose`, `Close` | a build is obsolete the moment a file changes; calls share work that must outlive the first to leave and stop with the last; a key may change and come back |
| Application generator helper (`internal/devserver/generator.go`, `devgen/`) | a child process and the identity of the sources it was built from, the record of changed paths, what each pass asked for | refresh, request and answer over pipes, identify, acknowledge | the helper dies between what it wrote and what it answered; a path changes again before it is acknowledged; its own source changes while it runs |
| Fetch exchanges with Kit (`dev_fetch.go`, `internal/adapter/skgo-adapter/fetch-bridge.js`) | a map of exchanges; per exchange a context, the channels of its next continuation and of its result, the reply and the acceptance of the last one | begin, next, response, end; the hook's continuation | one hook, two sides and several calls over HTTP, any of which may go away |
| Fetch and downstream (`fetch.go`, `downstream.go`) | a channel of frames, the committed status and headers, what is recorded of a panic or a cancellation, `done` and a context | `launchDownstream`, `Write`, `readFlush`, `fetch`, `serve`, `release`, `close` | the reader may leave before the handler commits; a panic before and after the commit differ; a fetch's handler is left behind, a middleware's is waited for |
| Prerender service (`prerender_*.go`) | a map of requests by handle; per request a recorder, a handler suspended in its hook, a count of what holds it; the first failure | begin, response, end, load, remote, close | callbacks of a request that is being ended; a begin given up as it becomes ready; shutdown with requests open |
| Remote functions (`remote*.go`, `refresh.go`, `requested.go`) | per-request caches, the refreshes a command asked for; per live stream a producer's goroutine and two channels | query, command, form, live query, batch | refreshes that name more refreshes, limits on what a client asks for, a live stream whose client left |
| Loads (`load.go`, `loadevent.go`, `deferred.go`, `data.go`) | per-node results, uses, deferred promises with their ids | run the branch, reuse, `Parent`, stream deferred values | nodes that run because others read them, a failure while others run, values that settle in any order after the response started |
| Middleware, handle, events (`middleware.go`, `handle.go`, `event.go`) | the resolved response, response state, cookies, seals | `intercept`, `runGuarded`, `finish`, `writeResponse`, `SetHeaders`, `Cookies` | every way out of a hook must let go of the application; writes after the response began |
| Documents, endpoints, actions, static files, CSP, transport | none that outlives a request | pure assembly | mostly data |
| Code generation, installer, updates, plugins, build and adapter commands | files | one-shot commands | mostly data and other programs |

How they interact. A public request enters through admission, is dispatched by the
router to Vite or to the Go host, and may cross between them several times while
it is inside. The session loop owns the host: it shuts admission, stops one host,
starts the other, points the router at it and opens admission again. It learns of
edits from the project (revisions, obsolescence) and of Kit's output from Vite
(snapshots), and talks to the host over the control pipes (install, reload). In
the host, the native table decides which code a request runs; in the same process
a render borrows a JavaScript runtime and calls back into Go, which may render
another page, one level deeper, or dispatch a fetch to the application itself. Before
the loop compiles anything, a pass of the application's own generator may run:
the project's record of changed paths goes to the helper, and what it wrote is
reconciled before it is admitted. While prerendering, and in development, Kit's
workers call back into Go over HTTP: a request's handler is suspended in its hook
while Kit renders, and a fetch of Kit's runs a hook in Go whose continuation runs
in Kit again.

What makes each part correct is stated as properties in section 4; the hazards
they are aimed at, each with its line, are in `PROJECT.json`.

## 2. Modules

| Module | What it is |
|---|---|
| `RenderEngine` | the engine's pools, slots and renders, as goroutine steps |
| `Gate` | what admission promises: a gate that is open, shut or closed, and who is inside with a live context |
| `RequestAdmission` | `admission.go`, by critical section and select outcome; it implements `Gate` |
| `DevSession` | the session loop, with hosts, leases, revisions and Kit's view; admission appears as an instance of `Gate` |
| `HostControl` | one host's control stream: commands, replies, deadlines, the poisoned stream |
| `HotRevisions` | consumers, retirement and unloading in the native host |
| `HotHost` | the native host as one process: `HostControl` and `HotRevisions` composed, the code of each table tied to the command that installed it |
| `ProjectRevisions` | `retained.go` and `retained_future.go`: revisions, and the generations that calls of `Prepare` share |
| `Generation` | the application's generator helper within the session's loop: what is recorded, asked, written, acknowledged, built and admitted |
| `Downstream` | one request in the `Handle` middleware: the hook, the application it resolves to, and fetches of the application's own routes |
| `FetchExchange` | `dev_fetch.go` and `fetch-bridge.js`: the turns a `HandleFetch` hook in Go and Kit take over HTTP |
| `PrerenderRequests` | the requests of the prerender service: begin, callbacks, response, end, abandonment, shutdown |
| `DataBranch` | one data request: the loads of a branch, their parents, and the stream of promised values |
| `RemoteRefresh` | what a command or a form refreshes on its own response |
| `LiveQuery` | the stream of a live query and its producer |
| `*_proofs` | the theorems: `RenderEngine_proofs`, `RequestAdmission_proofs`, `DevSession_proofs`, `HotHost_proofs` (with `HotRevisions` and `HostControl`), `ProjectRevisions_proofs`, `Generation_proofs`, `Requests_proofs` (`Downstream`, `RemoteRefresh`, `LiveQuery`, `DataBranch`) and `PrerenderRequests_proofs` (with `FetchExchange`) |
| `MC*` | the same modules with the definitions the configurations need; `MCPrerenderRequests` and `MCRequests` put two and three modules that share no state of the server side by side, each behaviour being of one of them |

`DevSession` uses `Gate` and nothing else of admission, which `RequestAdmission`
is proved to implement. `HotHost` is proved to implement both of the modules it
composes. The leases in `DevSession` are what `ProjectRevisions` calls the inputs
of a build, and an obsolete build there is one whose revision is not the current
one here. `FetchExchange` knows of its owner, a request of `PrerenderRequests`,
only that its end waits for what the fetches hold of it.

### RenderEngine

One element of `Renders` is one call of `Engine.Render`, top-level or nested. `pc`
walks it through `acquire` (a fast try, then a select over idle, permit and
cancellation), the start of the page, `drain` (top, start queued jobs, poll,
completions, macrotasks, park) and the return of the runtime. A host call is a
goroutine of its own (`call[r][c]`): running or nested, then answered, then
releasing its slot. It may outlive its render; a late answer goes to a channel
nobody reads or is dropped, exactly as `async.go:61-65` does, and the slot is
returned last. A JavaScript turn is nondeterministic: it may make new calls,
schedule a macrotask, finish or throw. `Cancel` ends a visitor's context,
`Propagate` carries it to nested renders and `Interrupt` is the
`context.AfterFunc` that calls `vm.Interrupt`.

### RequestAdmission and Gate

Channels are numbers and a closed channel is a member of a set, because the
question is which channel a goroutine holds. The session's side (`Pause`,
`PauseDrained`, `PauseExpired`, `PauseStopped`, `Resume`, `Close`) is restricted to
the order in which `session.go` calls it. `PromiseKept` maps the lock-level state to
`Gate`, whose three variables are all `DevSession` knows of admission.

### DevSession

`pc` is the place in `Run`. Startup is `Prepare`, `Commit`, snapshot, `ObserveRoutes`
and the first host. A turn of the loop is: the select; Vite's snapshot if one is
due; `Prepare`; the classification of the edit (no native change, a native install,
a complete build); then either the in-place commit (`Install`, `Reload`,
publication) or the replacement (`Publish`, snapshot, compile in parallel, `Commit`
around pause, stop, start, publication), with `Restore` when the replacement
fails after the old host was stopped. Edits, changes of Kit, the death of a host, a
late command and requests are the environment and interleave at every step, except
inside a replacement's commit, which holds the project's lock.

The code a project contains is one of `Codes`; `Shape` says which edits are
structural (need a complete build), `Routes` which change Kit's routes, and
`Fault` where a bad one fails: in generation, compilation or construction. `bad`
exists so that compile failures, refused constructors and restores happen. Kit's
output is named by its content, as `dev.js` names it, so an output may be again what
it was where `KitReverts` allows it. `ahead` is history: it marks a host that was
reloaded with output whose publication then failed, which the loop does not remember.

### HostControl, HotRevisions and HotHost

In `HostControl` one exchange runs at a time (`Host.mu`). A command is written and its
reply read under a deadline, which belongs to the pipe (`limit`): `Write` sets it, it
passes by itself, or the `context.AfterFunc` of the exchange, from a goroutine of its
own that may be late, makes it the present (`CallbackStarts`, `Callback`). Past it a read
fails. An exchange leaves (`Finish`) once its callback is stopped or over, which is what
keeps it off the next exchange's read. The child works through commands at its own pace,
may reply after the deadline, and may die. `controlErr` is sticky. The model separates
what the child did from what the session believes it did.

In `HotRevisions` a handler acquires the current table and counts a consumer; a
lowered call without a request does the same for itself; a fetch dispatched inside
the process carries its originator's table and counts nothing. `Install` swaps
tables, retires the previous revision and unloads it when it is reclaimable and
nobody consumes it; a `SkgoHotInstall` whose preparation fails leaves a charged
module behind.

`HotHost` is the process: a command taken off the pipe is carried out on the table
(`CarryInstall`), or refused before or after its module was loaded (`RefusePlainly`,
`RefuseUnprepared`); requests are served by a process that lives; and `made` ties
every table to the command whose candidate it was made of. It covers one hot
package's table; a generated host has one for each.

### ProjectRevisions

A revision is its number and the declaration key its files hash to; a plan is the
key it was generated from. A call of `Prepare` walks through `get` (the future of
its key, made, joined or replaced), `wait`, the look at the result, the
materialisation of the inputs outside the lock and the second look at the
revision; a run of a future goes through `analysisMu`, the plan it may reuse, and
its result. Callers may walk away while they wait, an `Observe` may replace the
revision at any step, `Close` may end everything. Generation itself succeeds or
fails; which plan it produces is what the control flow decides, and that is what
`NothingStale` is about.

### Generation

A file is its version, `out` is what the helper's output on disk was made from, and
epochs, which the code only compares for equality, are kept as whether they are
still the project's. The watcher records paths and delivers events, also as an
overflow that names none. A pass refreshes what is known, starts or restarts the
helper when its source changed, selects the paths, asks; the helper writes its
files one by one, answers or dies; the pass reconciles, identifies, acknowledges
and builds. Any step may fail (`MaxFaults`) and any edit may come in between.

### Downstream

An exchange is one handler running on a goroutine of its own with its response
(`downstream`): `Main` is what the hook's `resolve` started, the members of `Subs`
are what `requestFetcher.fetch` started, from the hook or from any handler, so
fetches nest. `app[e]` is where the handler's goroutine is, and `sending` is the
select of `send`, which a `Deliver` (the reader takes the frame), a `Discard` (a
HEAD) or a `SendFails` ends. The goroutine's deferred functions are two steps:
`Unwind` records the panic, then the cancellation, then commits; `CloseFrames`
closes the frames and `ended`. The hook's goroutine (`hook`) resolves at most once,
closes, fetches, answers by itself or returns a response, which `writeResponse`
reads to its end (`writing`); every way out passes `closing`, where `close` waits
for the application.

A fetch is *detached*: its selects also wait for its context. `release` closes
`done` and then cancels the context, and the two are separate steps for a fetch
(`Release`, `FinishRelease`); the model keeps the window between them because what
the handler's end is recorded as depends on it. Data is abstracted to `cut` (the
handler was stopped, or lost a write, because nobody wanted it) and `result` (the
error a read ended with). An exchange's context ends with its own scope
(`CancelScope`), its caller's or the request's (`ScopeDone`), and `Propagate` carries
that to `dctx` later, as `context.AfterFunc` and the watching goroutine do.

### FetchExchange

A fetch of Kit's is one exchange: Kit's side (`kit`), the hook's goroutine (`hook`)
with its calls of the continuation (`next`), the handler of the turn under way
(`turn`: begin, or next) and one handler for each uploaded response (`upload`). A
response is named by the continuation it answers, a reply channel by the call that
waits on it, so that a response on the wrong channel shows. A hook may have several
continuations under way, close bodies before, after or instead of returning them,
and return while its calls still run. Kit may stop between turns, its body may break
off, its signal may be aborted, and the owner may end or lose its context at any
step. `HookCloses` and the reader of the final response release an upload; a hook
that returns a continuation's response has not read its body itself.

### PrerenderRequests

A request has a handler suspended in its hook, a recorder, a count of what holds it
and, on the worker's side, the calls begin, response, end and the callbacks. Every
call may be given up by its worker, which fails the service in a build; the service
then leaves its loop, cancels, shuts its server down and closes every request. The
count and the registry are as in `acquire`, `end` and `close`, so a begin that was
accepted may register after the registry was emptied.

### DataBranch

The nodes of a branch run at once and each is memoised; `asked` are those the client
wants, the others run only when a load reads them (`CallParent`, `Run`). A failure
turns further runs off (`aborted`). The request's own goroutine gathers, decides
between nodes, redirect and failure, applies headers and cookies, writes, and then
loops over the promises: each gets an id when it is first written, a goroutine when
it has an id, and a chunk when it settles; a chunk may hold further promises. The
functions behind promises go on after the response was made, and may still call
`SetHeaders` and set cookies.

### RemoteRefresh and LiveQuery

`RemoteRefresh` is one call of a command or a form. The client posts keys; the
handler names instances of its own (`Refresh`) or accepts and declines what was
posted, within a limit (`Requested`); after it returned, what was named is drained
one by one (`Take`, `DrainOne`), each query running in turn and naming more.
`LiveQuery` is one stream: the producer's goroutine in `yield` or on its way out, the
handler in its select over the context, the keep-alive, a value and the end, and a
client that may leave at any time.

## 3. Plan

Done: the modules above, their runs, and the theorems of section 5.

Left, in the order of their worth:

1. `DevSession` as a client of `ProjectRevisions` and `HotHost`, as it is of `Gate`:
   abstract specifications of both, which the two modules implement.
2. The installation of plugins (`internal/plugininstall/install.go`), whose commands
   share one file: `InstallPrebuilt` reads `skgo-plugins.json` before it takes the
   lock and writes it after it gave it back, so two installs at once can lose a pin.
3. The sealing of headers and cookies once a response has started, for documents as
   well as for data.
4. Batches of remote calls, and the callbacks of a stream in a development session.
5. An abstract promise of a response (given or refused, then its end or an error)
   for `Downstream` and `FetchExchange` to implement.

## 4. Runs

| Run | Question | Bounds |
|---|---|---|
| `RenderReuse` | Does anything of one render reach the next on the same runtime? Is any promise left without someone to settle it? | two renders, one runtime, one slot, two host calls each, so that a call queues behind a slot and a completion behind the channel; one macrotask turn |
| `RenderNested` | Do slots, permits and runtimes add up when pages fetch pages, and does everything end? | two renders, two depths, one runtime each, one slot and one host call each: two calls contend for the slot whenever a page fetches the other, or a call outlives its cancelled render while the next one runs, so starts are parked and the slot can be pinned for good, which is a hypothesis of `RendersReturn` |
| `Admission` | Do the locks and channels keep the gate's promise, and does nobody wait for ever? | two requests, four `ready` channels: a crowd can drain, a second form, and a third pause find both |
| `Session` | At every await of the loop: one host, of the published code; leases held and returned, no edit forgotten; and does it come to rest on the last edit, with the gate open? | two edits among four codes, one request inside, and two troubles, of any kind: a failure, a change of Kit, a cancellation; Kit's output changes once and does not go back, because where it does the session may miss it (section 6) |
| `ConfigReverted` (violation) | Is the host constructed from the Kit output that was published? | one edit, no faulty code, Kit's output from one content to another and back, a failed publication between |
| `HotHost` | Is what the session believes what requests run, and is code unloaded exactly when its last consumer left? | one request, a direct call, a fetch, a budget of two, three commands, each an install or a reload: the budget fills, frees and fills again, and a late reply or a late callback can meet a later exchange |
| `HotBorrowed` (violation) | Is a fetch's borrowed table safe too? | one request, its fetch, two installs |
| `Revisions` | Does sharing and remembering generations show in what a call of `Prepare` answers? | two calls, two keys, three revisions: a key changes and comes back, and a caller leaves while another arrives |
| `Generation` | Is any edit forgotten between a watcher, a helper that may die and a record acknowledged by name? | one data file and the helper's own source, two edits, one fault |
| `Requests` | A request through a middleware: is every answer one that was given, every end the end, and does nobody wait for ever for a handler that does not return? A command: does its answer refresh what was named and granted, and no more? A live stream: does it end after its last value, and let everybody go? | the application and one fetch, by the hook or by the application; one write each, so that a status can be committed with and without a frame; `Main`'s context may end by itself, and the fetch's ends with its caller's, the request's, or by being let go. Or two instances and a live key, two keys posted for each function, and two namings: the least at which a key is named twice, by the handler and a query, or by itself. Or one stream of two values |
| `Prerender` | Does an end leave nothing running, and is nobody stuck? In a fetch: is each continuation answered with its own response, and does every wait end? | one request with two callbacks at once, since the requests of a service meet only in its end; or one fetch with two continuations, and two troubles besides the owner's end |
| `DataBranch` | Is the branch whole, is what is streamed exactly what settled, and does the request end? | three nodes (a parent with a parent), two promises, one of which may come with the other, one header, one cookie |

Two renders suffice for the engine because its state couples renders pairwise: by
a pool, by a slot, or as parent and child. One fetch suffices for `Requests` because
an exchange touches only its caller and itself, and both kinds of caller are there.
Two edits are the least at which one edit can make another's build obsolete and one
can be taken back. Two continuations are the least at which a response can reach the
wrong one. Where section 5 has a theorem, it removes the bound. Every bound is a
constant named in its module (`MaxCalls`, `MaxTicks`, `MaxPauses`, `MaxInstalls`,
`MaxCommands`, `MaxEdits`, `MaxKit`, `MaxTrouble`, `MaxTroubles`, `MaxFaults`,
`MaxRevisions`, `MaxRequested`, `MaxNames`, `MaxWrites`, `Cancellable`) and appears
only in guards of the environment's actions, except `MaxTicks`, which the code has
itself. Deadlock checking is off everywhere: the bounds, and the end of a session or
a request, are legitimate stops.

Some properties have parts, which are defined next to them: `NobodyWaitsForever`
says that pause returns, that waiters are released and that nobody who waits is
forgotten; `SessionSettles` that edits reach rest and the gate reopens;
`AnswersAreHonest` that no answer is made up and that a panic aborts;
`NobodyIsHeldUp` that fetches return, handlers left behind are let go of, and
`close` returns if the application obeys its context; `BranchIsWhole` that what was
asked for is answered, and that a load goes on only with whole parents, unless a node
of the branch failed and a parent was skipped for it (section 6); `RequestEnds` that a
request is answered if its loads return, and that its stream ends when its promised
values settle or its client leaves; `RendersReturn` that renders and slots come back if
handlers return and no nested page pins the slots for good (section 6), and cancelled
renders in any case; `ExchangesKeepApart` that a reply acknowledges, and a callback cuts
short, only its own exchange; `SharingIsUnseen`,
`NothingLeftRunning` and `RefreshesAreNamed` are two invariants each.

### Fairness

The Go scheduler runs a goroutine that can run, so every step the code takes by
itself is weakly fair. Nothing obliges a handler to return, a browser to leave, an
edit to happen or a host to live, so none of those is. Module by module:

- `RenderEngine`: renders, contexts, host-call goroutines and the return of a nested
  fetch; that application handlers return (`HandlerFairness`) only where a property
  has it as its hypothesis.
- `RequestAdmission`: the steps of a request, and of a pause that is drained or
  stopped; the drain's timer (`DrainTimer`) is a hypothesis inside
  `NobodyWaitsForever`.
- `DevSession`: the loop, and the deadline of an exchange (`Expire`). `HotHost`:
  the goroutine of an exchange and those of its callbacks. No deadline need pass and the
  child need do nothing: `ExchangeReturns` is about exchanges whose context is done.
- `ProjectRevisions`: a call's and a run's own steps: a generation ends.
  `Generation`: the watcher, the pass, and a helper's answer unless it dies.
- `Downstream`: closing, sending and reading what can be sent and read,
  propagation and the hook's exit; neither a handler nor the hook is fair in
  anything. `Obeys` (the application stops some time after its context is done) is
  a hypothesis of one part of `NobodyIsHeldUp`.
- `PrerenderRequests`, `FetchExchange`: the service's goroutines, Kit hearing an
  answer and cleaning up after an abort, and hooks and callbacks that wait for
  nothing. No worker needs to ask for anything and no page to read. Each of these
  steps happens a bounded number of times in a behaviour, so one weak fairness
  condition over all of them is the same as one for each, and is what the modules
  state.
- `DataBranch`: the request's goroutine, a node's run and its reading of parents, and
  the leaving of a client noticed. A load need not return nor a promise settle: that
  loads do (`LoadsReturn`) is the hypothesis of the half of `RequestEnds` that says the
  request is answered.
- `LiveQuery`: the handler's select and the noticing of a client that left; the
  producer need neither yield nor return.

For every property of a passing run `PROJECT.json` names a mutant: a definition of
the model changed as a slip of the code would change it, under which TLC finds the
property violated. The mutated forms stand in the modules, each above the
definition it mutates, marked `Mutant`.

## 5. Proofs

All theorems hold for every value of the constants that the modules' assumptions
allow: finite sets of participants, bounds that are natural numbers, and stand-ins
(`None` and the like) that are not what they stand beside. No bound plays a part in
any argument. Each module of proofs states an inductive invariant, shows that the
first states have it and every action keeps it, one step of the proof per action,
and draws the theorems from it.

| Theorem | Module | Says |
|---|---|---|
| `TypeCorrect`, `SlotsAccounted`, `CallbacksAreOwn` | `RenderEngine_proofs` | types; a slot is held by exactly the live host-call goroutines, within the budget; no render finds another's callback |
| `NoRuntimeIsLost`, `PromisesAreAnswered`, `PoolsAreClean` | `RenderEngine_proofs` | every permit and runtime is where it is counted; a promise of a page is settled or somebody will settle it; an idle runtime has nothing of its last page |
| `PauseIsQuiet`, `ContextsEndForAReason`, `ImplementsGate` | `RequestAdmission_proofs` | a pause that answered left nobody inside with a live context; nobody's context ends without a reason; admission implements `Gate` |
| `SessionIsWellTyped`, `OneHostAtATime`, `InputsAreKeptExactly`, `TheHostServesWhatWasPublished`, `EditsAreNotForgotten` | `DevSession_proofs` | types, every safety property of the run `Session`, and the safety part of `SessionSettles` (`NoEditForgotten`) |
| `LoadedExactlyWhileUsed`, `HeldCodeIsLoaded` | `HotHost_proofs` | a table's count is the number of those that execute it; what is retired, reclaimable and unused is unloaded, and nothing else |
| `ExchangesAreApart`, `HostKeepsItsParts`, `RequestsRunWhatIsBelieved` | `HotHost_proofs` | no reply acknowledges another command and no callback cuts another's read short; the process implements both its parts; what the session believes is what requests run |
| `OwnCancellation`, `BuiltFromOwnPlan`, `WorkIsSharedUnseen` | `ProjectRevisions_proofs` | nobody is answered with another's cancellation; every build is of its own revision's plan |
| `EditsAreRemembered`, `AdmittedIsWhole` | `Generation_proofs` | a recorded edit the output does not show will be asked for again; what is admitted was generated and built of everything |
| `TypeCorrect`, `AnswersStand`, `EndsAreWhole`, `NothingLeft`, `AttachedOutlasts` | `Requests_proofs` | types, and every safety property of `Downstream` in the run `Requests` |
| `RefreshesAreNamedOnce` | `Requests_proofs` | a command that succeeded tells of each instance named and of no other, none ran twice, and no more of what the client asked for than limits allow |
| `EndsComeLast` | `Requests_proofs` | a live stream ends after its last value |
| `BranchesAreWhole`, `WhatIsSentIsExact` | `Requests_proofs` | what was asked for is answered, a load goes on only with whole parents unless one was skipped for a failure; what is streamed is what settled, each promise once |
| `EndsAreQuiet`, `AnswersAreWhole`, `HandlersAreOwned`, `NothingIsLeft` | `PrerenderRequests_proofs` | an end leaves nothing running; an aborted response is never whole; whatever runs has an owner |
| `FetchesGetTheirOwn`, `OwnersEndLast` | `PrerenderRequests_proofs` | a continuation gets the response Kit gave to it, and Kit the one the hook returned; an owner that ended has no hook or context of a fetch left |

### The arguments

**The engine.** `SlotsAreLiveGoroutines` alone is not inductive: starting a host call
must know that its goroutine did not exist before. `SlotInv` adds that queued calls
are not running (`QueuedIsQueued`), that calls not made yet have no goroutine
(`NotMadeYet`), that answers in the channel belong to calls that were made
(`AnswersWereMade`), and, for the types of what moves between pools and renders, that
a render holding a runtime holds one (`HeldIsVM`) and sits at the depth of its pool
(`AtItsDepth`). The count changes by one only in `Launch`, `ParkedStart` and
`Release`, and a lemma about cardinalities does the rest.

That no runtime is lost needs that a runtime is in one place only (`IdsAreOwn`), and
that a pool's idle runtimes are finitely many: what is idle, held and permitted is
then counted action by action. For promises, `AnsweredOnce` says that an answer is in
the channel once and that neither it nor a call still to be answered is of a promise
that was settled, and `NoCallYet` that a render has made no call before its page
starts. Cleanness needs one fact more: only a context that is done interrupts a
runtime (`InterruptedWereDone`), since a runtime goes back to its pool only where the
render knows of the interrupt.

**Admission.** A pause is quiet because of which channel it waited on: `GateFollows`
ties the gate to where the session is, `CrowdIsCounted` the set of active requests to
where each request is, and `ChannelIsTheCrowds` says that the channel a pause waits
for is the one the present crowd will close, until the crowd is empty. The refinement
maps the first states to first states and each step to a step of `Gate` or a stutter.

**The session.** `HostsInv` says, for every place of the loop, which hosts there are and
in what state: one outside a replacement; the replacement beside it while it is
compiled; the replacement alone from the stop of the old host to its adoption, behind
a gate that is shut and was quiet when it was reached, which is the only thing the
session asks of `Gate`. `LeasesInv` says whose files are kept and swept at each place.
`ServedInv` follows the code from the build to the host (`NewHostServesBuild`,
`InPlaceServesBuild`) and, when it is published, to `good` (`GoodIsServed`); it needs
that a control stream which is trusted has no command still to be carried out and that
its host runs what was installed (`SoundIsExact`). `WorkInv` follows an edit: a build in
hand is of the current revision or an event is there that says it is not, and under the
project's lock it is of the current revision; `goChanged` outlasts every failure between
the event and the publication; and the loop comes to rest only where nothing is left to
publish or report. The proof has a step for every
action of the loop; that most actions leave most of the state alone is stated once, by
groups of variables.

**Hot code.** `CountedAndFreed` says that a table's count is the cardinality of those
who execute it and what follows for what is loaded; the lemmas on cardinalities give
that a count of zero means nobody. For the control stream, `OneInFlight` says that a
stream that is trusted holds at most one thing: the command, the child at work on it,
or its reply; so the reply that is read is the right one. `OwnCallback` says that the only
callback there is belongs to the exchange under way and ran for its context, which holds
because an exchange leaves only with its callback stopped or over. In the composed process the
table and the code it was made of change in one step (`TableIsTheCode`), which turns
the belief of the session into what requests run.

**Revisions.** A future answers only those that wait for it, and its run stops only
when nobody waits (`Shared`, `Owned`); a run works on the one key of its future
(`OneKey`), so that what a call gets is of its own revision's declarations (`Got`),
however often the key changed and came back.

**Generation.** The invariant follows one edit from the disk to the admitted
application: recorded until it is acknowledged, acknowledged only if it was selected
and the helper, made of its present source (`ToolIsMade`), wrote its output after it;
captured before built, and admitted only if nothing was recorded meanwhile.

**Exchanges.** The end of a body is trusted because of three facts that no single step
shows: that a body in anybody's hands was committed by its handler
(`GivenIsCommitted`), that a fetched answer which lost something before it was let go
had its context done first, and its goroutine records that before it closes the frames
(`LossIsRecorded`), and that a goroutine past its record never runs again, which in
turn needs that the end of one fetch resumes nobody who waits for another
(`WaitersWait`). `ReadSaysSo` adds what is known of the errors reads end with.

**Refreshes.** A key of which something was said waits in the order or in what was
taken of it, or is done with, that is, told or running (`WaitingInv`); when a call that
succeeded answers, nothing waits. That the order gets every key mentioned, once, rests on
a lemma about the least place at which a key is posted. The limits (`LimitInv`) count
what was granted and not chosen: one naming adds at most as many instances as it admits
places.

**A live stream.** Until the handler has returned, what it wrote last is what the
producer was last told it took (`InStep`), both being parts of one select.

**Data requests.** `NodesInv` ties what a node was told of its parents to what they did:
a whole parent means that every node before it ended readable, and a run that was turned
off means that some node failed. `ReplyInv` says that the answer is made when everything
asked for has ended, with sealed headers. `ChunksInv` counts: every chunk is of a
goroutine started for an id the client was told of, and of no two the same, so a loop
that wrote as many as there are ids wrote them all.

**Prerender requests.** The count of a request is the number of the calls that hold it
(`Counted`), a call that holds it found it registered and not closing (`Registered`),
and an end waits for the count and the handler; with where each call may be
(`Stages`), nothing can come back in after an end.

**Fetch exchanges.** Kit has one turn at a time, which runs or has answered (`TurnInv`).
From the turn that tells Kit of a continuation to the upload that answers it, nothing
else takes the exchange's one reply channel, because the next turn joins that upload
before it selects again (`AnswerInv`): so a response meets the call it answers, although
no message names it. `BeginningInv` says that an exchange holds its owner from before
its hook runs, and `BodyInv` that a result stands once the hook returned and that a body
read to its end does not break off afterwards.

### What is not proved

Every safety property a passing run checks is a theorem, for every value of the
constants. Liveness (fairness and `ENABLED` are beyond the prover) is model-checked
only: `RendersReturn`, `NobodyWaitsForever`, `ExchangeReturns`, `SessionSettles`,
`NobodyIsHeldUp`, `StreamsLetGo`, `PrepareReturns`, `EditsReachTheApp`, `NobodyIsStuck`,
`FetchesEnd` and `RequestEnds`; of these, `NoEditForgotten`, the safety part of
`SessionSettles`, is a theorem too. Nothing is proved by induction over a sequence: where an
argument needs a first place or a count, it rests on lemmas about finite sets.

## 6. Where the code and its comments part

Two are runs that end in a counterexample, and findings in `PROJECT.json`:

- `HotBorrowed`: a fetch dispatched in process runs on a table it does not count
  itself a consumer of, although `native_runtime.go:26-30` says it does.
- `ConfigReverted`: whether to reload the host is decided by comparing Kit's output with
  what was last *published* (`session.go:497`), not with what the host was last
  constructed from. A reload whose publication fails, followed by a return of Kit's
  output to what it was, leaves the host constructed from output that was never
  published, although "real Vite restarts must publish changed constructor inputs, not
  just a fresh frontend graph" (`session_integration_test.go:588-589`).

The models show these too; the formulas stand in the modules, without a run.

- `internal/ssr/engine.go:22-28` gives each depth its own pool so that waiting renders
  cannot block the ones they wait for, but the host-call slots (`async.go:16`) are one
  channel for all depths. Enough pages that fetch pages hold all 32, and none of the
  nested renders can make a call of its own until a visitor leaves (`Pinned` in
  `RenderEngine`; `RendersReturn` fails without the hypothesis `NeverPinnedForGood`).
- An edit while the startup build is being captured ends `skgo dev` when `Prepare` is
  the one to notice, where `session.go:45-46` promises that requests are kept waiting
  (`ObsoleteStartupWaits` in `DevSession`).
- With `KitReverts`, `SessionSettles` fails: the snapshot taken while a host is compiled
  (`session.go:515`) is not recorded as the one seen last, so output that changes before
  it and goes back after it is taken for unchanged, and the application stays published
  over output Kit no longer has.
- A snapshot of Vite that fails after a publication leaves the loop with nothing to wake
  it and Kit's output unpublished (`session.go:515`, against `446` and `405`), where
  `session_integration_test.go:608` fails an application whose "configuration never
  became current" (`ConfigurationIsCurrent` in `DevSession`).
- An install that timed out can take effect after the session went back to the
  previous code, where `host.go:513-515` says otherwise (`StalledInstallIsNotServed`
  in `DevSession`).
- `downstream.go:61-63` marks a response that ended because it was cancelled so that no
  reader mistakes it for a complete one, but `writeResponse` (`middleware.go:608-612`)
  aborts the connection only for a panic (`AnswerIsWhole` in `Downstream`).
- A cookie set by a promised value's function after the response went out is accepted
  and lost (`event.go:155-186`; `CookieIsSent` in `DataBranch`).
- `requested.go` says that a second copy of an instance is refused; a refusal of the
  copy is overridden by the acceptance of the first, as `requested_test.go:310-336`
  expects.

Smaller things met on the way, all modelled unless said otherwise:

- *Session.* A declaration that reached Kit and was then taken back leaves good code
  reported as an error until the next edit (`session.go:514`). A session that cannot
  restore its host returns without closing the failed build's inputs (`568`). A
  recovery clears the browser's error while the last edit still does not build
  (`363`). A snapshot of Vite that fails after publication leaves the zero snapshot in
  its variable (`515`). A reload that timed out refuses every later exchange
  (`host.go:471`). A replacement's commit holds the project's lock through pause, stop
  and start (`retained.go:602`).
- *Revisions.* `Close` may return before a queued run generates (`retained.go:689`);
  an `Observe` that fails after it replaced the sources leaves the newer sources with
  the older files (not modelled); a helper that dies idle makes the next pass fail,
  and only a later event retries it.
- *Exchanges.* `release` closes `done` before it cancels the context
  (`downstream.go:164`), so a handler can lose a write and end with no cancellation
  recorded; a read that races the `Close` of a fetched body may then take the rest for
  the end (`EofMeansWhole` is stated for bodies nobody closed).
- *Fetch exchanges.* A begin that fails in the hook, or is aborted while its first
  continuation is on the way, stays registered until its owner ends, since Kit never
  learned its name. A hook that reads a continuation's body to its end and returns
  that response races the return of the upload's handler (not modelled). A final
  response nobody reads can hold its handler in a write until the connection closes.
- *Prerender.* A call abandoned between the last look at the failures and the
  cancellation fails nothing (`prerender_service.go:91`). A second `/response` for one
  request would wait for ever (`prerender_request.go:429`); the worker sends one. In
  development nobody reports abandoned calls, and a request whose begin was given up
  as it became ready stays suspended until the host ends (`267`; not modelled).
- *Loads.* A failed chunk may have given ids to promises it was to bring
  (`data.go:401`). `http.ErrAbortHandler` is re-panicked on a node's goroutine, where
  nobody recovers it (`load.go:523`, against `473-478`), and on a live producer's
  (`remote.go:992-1010`); the models leave that panic out. A load that reads a node
  which was skipped and not asked for succeeds on incomplete data, as Kit's does. The
  wait for the loads does not look at the request's context (`data.go:313`), so the
  request of a client that left lasts as long as its slowest load; only the stream
  after it ends with the client.
- *Remote.* A key that is both ignored and refreshed appears in both lists of the
  answer, and a later refusal by a limit overrides a key the handler refreshed itself.

## 7. Not modelled

The generator, formats, documents and commands are functions of their input and
are better tested than model-checked; they are also most of the lines of the
repository, which is why the map of `PROJECT.json` covers a small share of them. The
plugin store and the installer are one-shot commands (see the plan for the one worth
modelling). Of the modelled parts these are abstracted: the bundle's JavaScript (any
turn), goja's values, the loader and relocation, the compiler and Vite (external, they
succeed or fail), the restart of Vite, startup's own generator passes, the contents of
messages, cookies and headers of a fetch, a fetch over the network, the analysis of Go
packages and the rollback of a publication that fails half way, the decoding and
encoding of arguments and results, batches of remote calls, what a load recorded as
used, functions behind promises that call `Parent`, and the development side of the
prerender service. In `Downstream` a hook that reads or wraps the body itself counts
as giving an answer of its own, and an aborted and a refused request after a panic in
the hook are not told apart. In `PrerenderRequests` a hook gives `resolve` a context
derived from its request's, and in `LiveQuery` a write to the client returns. `PROJECT.json` lists every component with its status and
reason.
