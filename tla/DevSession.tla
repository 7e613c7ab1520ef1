----------------------------- MODULE DevSession -----------------------------
(***************************************************************************)
(* The loop that owns a development session (internal/devserver/           *)
(* session.go): it watches one project and one frontend, prepares builds   *)
(* of what it sees, and puts each build into service, in place when the    *)
(* running host can take the edit, else by a host of its own that replaces *)
(* the running one behind the request gate.                                *)
(*                                                                         *)
(* Around the loop, at every await of it: the project observes edits (not  *)
(* while Commit holds the project), Kit's output changes, requests enter   *)
(* and leave, the host dies, and a host that was given up on finishes the  *)
(* command its session no longer waits for.                                *)
(*                                                                         *)
(* The contents of the Go source are the constant Codes.  Two of them with *)
(* the same Shape differ only in bodies the hot loader can install; Routes *)
(* is what Kit's scanner reports over them; Fault is where one goes wrong. *)
(* What can go wrong under any code (Vite, pipes, disk) is a budget.       *)
(* The application generator and restarts of Vite are left out.            *)
(***************************************************************************)
EXTENDS Integers, FiniteSets

CONSTANTS
  Requests,
  Codes,      \* contents of the Go source
  First,      \* the one the session starts with
  Shape,      \* Shape[c]: the declarations of c
  Routes,     \* Routes[c]: the route metadata Kit's scanner finds beside c
  Fault,      \* Fault[c]: "none" or the step that refuses c
  MayStop,    \* whether the session's context may be cancelled
  MaxEdits,   \* bound: edits of the Go source
  MaxKit,     \* bound: the contents of Kit's output
  KitReverts, \* whether Kit's output may be again what it was
  MaxTrouble  \* bound: what happens to the session that is not an edit: failures
              \* that are not the code's, changes of Kit's output, cancellation

ASSUME DevSessionAssumption ==
  /\ First \in Codes
  /\ Fault \in [Codes -> {"none", "generate", "compile", "start"}]
  /\ Fault[First] = "none"
  /\ DOMAIN Shape = Codes /\ DOMAIN Routes = Codes
  /\ MayStop \in BOOLEAN /\ KitReverts \in BOOLEAN
  /\ MaxEdits \in Nat /\ MaxKit \in Nat /\ MaxTrouble \in Nat

HostIds  == 1..2          \* the id of a closed host is used again
NoHost   == 0
LeaseIds == 1..4          \* so is that of closed inputs
NoLease  == 0
NoDist   == <<>>          \* the Dist of a zero frontendSnapshot

VARIABLES
  cur,        \* the project's desired revision: rev, code, routes
  changes,    \* a token waits in Project.changes
  kit,        \* the content of Kit's own output
  host,       \* the native hosts
  active, replacement,
  target,     \* the host behind router.app
  stage,      \* how far Run is: "first", "seed", "build", "loop"
  pc,         \* its await
  flags,      \* pending, goChanged, dirty: the loop's locals
  last,       \* lastFrontend
  snap,       \* the loop's frontend snapshot: dist, routes
  build,      \* the revision nextBuild captured
  good,       \* goodRevision with its code, and goodDist
  disk,       \* the code whose generated declarations are published
  leases,     \* the compiler inputs of nextBuild, hostInputs, goodInputs
  open,       \* the compiler inputs materialized and not closed
  sweep,      \* those whose Close is put off until the loop is idle
  gate, inside, cancelled,      \* the request gate (Gate)
  entered,    \* the target when a request came in
  reported,   \* the last revision an error was shown for
  overlay,    \* whether the browser shows an error
  stop,       \* the session's context is cancelled
  ended,      \* how Run returned, "no" before it does
  left        \* what is left of MaxEdits and MaxTrouble

G == INSTANCE Gate

world    == <<cur, changes, kit>>
hosts    == <<host, active, replacement, target>>
loop     == <<stage, flags, last, snap, build>>
served   == <<good, disk>>
inputs   == <<leases, open, sweep>>
gateVars == <<gate, inside, cancelled>>
requests == <<gateVars, entered>>
browser  == <<reported, overlay>>
outcome  == <<stop, ended>>
vars == <<world, hosts, loop, pc, served, inputs, requests, browser, outcome,
          left>>

-----------------------------------------------------------------------------
(* Types and initial state                                                 *)

RouteSets == {Routes[c] : c \in Codes}
Dists     == {NoDist} \cup ((0..MaxKit) \X {Shape[c] : c \in Codes})
NoCommand == <<"none">>
Commands  == {NoCommand} \cup ({"install"} \X Codes) \cup ({"reload"} \X Dists)

Hosts == [st : {"none", "built", "up", "dead"},
          runs : Codes, installed : Codes, dist : Dists,
          sound : BOOLEAN,        \* controlErr = nil
          late : Commands,        \* given up on and not carried out yet
          ahead : BOOLEAN]        \* history: reloaded with Kit output that was
                                  \* not published after all

\* Where Commit runs its callback under the project's lock.
Locked == {"install", "reload", "plan", "drain", "start", "swapplan"}

TypeOK ==
  /\ cur \in [rev : Nat, code : Codes, routes : RouteSets]
  /\ changes \in BOOLEAN /\ kit \in 0..MaxKit
  /\ host \in [HostIds -> Hosts]
  /\ {active, replacement, target} \subseteq HostIds \cup {NoHost}
  /\ stage \in {"first", "seed", "build", "loop"}
  /\ pc \in Locked \cup
       {"prepare", "preparing", "commit", "make", "made", "top", "select",
        "recover", "look", "peek", "weigh", "classify", "admit", "publish",
        "snapshot", "observe", "join", "built", "restore", "failed",
        "obsolete", "done"}
  /\ flags \in [pending : BOOLEAN, goChanged : BOOLEAN, dirty : BOOLEAN]
  /\ last \in Dists /\ snap \in [dist : Dists, routes : RouteSets]
  /\ build \in [rev : Nat, code : Codes]
  /\ good \in [rev : Nat, code : Codes, dist : Dists]
  /\ disk \in Codes
  /\ leases \in [{"build", "host", "good"} -> LeaseIds \cup {NoLease}]
  /\ open \subseteq LeaseIds /\ sweep \subseteq LeaseIds
  /\ G!GateTypeOK
  /\ entered \in [Requests -> HostIds \cup {NoHost}]
  /\ reported \in Nat /\ overlay \in BOOLEAN
  /\ stop \in BOOLEAN
  /\ ended \in {"no", "stopped", "error", "obsolete", "lost"}
  /\ left \in [edits : 0..MaxEdits, trouble : 0..MaxTrouble]

Absent == [st |-> "none", runs |-> First, installed |-> First,
           dist |-> NoDist, sound |-> TRUE, late |-> NoCommand,
           ahead |-> FALSE]

\* Run has opened the project and its listener.
Init ==
  /\ cur = [rev |-> 1, code |-> First, routes |-> Routes[First]]
  /\ changes = FALSE /\ kit = 0
  /\ host = [h \in HostIds |-> Absent]
  /\ active = NoHost /\ replacement = NoHost /\ target = NoHost
  /\ stage = "first" /\ pc = "prepare"
  /\ flags = [pending |-> FALSE, goChanged |-> FALSE, dirty |-> FALSE]
  /\ last = NoDist /\ snap = [dist |-> NoDist, routes |-> Routes[First]]
  /\ build = [rev |-> 0, code |-> First]
  /\ good = [rev |-> 0, code |-> First, dist |-> NoDist] /\ disk = First
  /\ leases = [l \in {"build", "host", "good"} |-> NoLease]
  /\ open = {} /\ sweep = {}
  /\ G!GateInit /\ entered = [r \in Requests |-> NoHost]
  /\ reported = 0 /\ overlay = FALSE
  /\ stop = FALSE /\ ended = "no"
  /\ left = [edits |-> MaxEdits, trouble |-> MaxTrouble]

-----------------------------------------------------------------------------
(* What the steps share                                                    *)

At(p)   == pc = p /\ ended = "no"
Goto(p) == pc' = p

\* Something fails that the code is not to blame for.
Trouble == left.trouble > 0 /\ left' = [left EXCEPT !.trouble = @ - 1]

Current == cur.rev = build.rev

\* requestAdmission.pause finds the gate shut after a pause that was cut short.
Pause == IF gate = "open" THEN G!Shut ELSE UNCHANGED gateVars

\* What Kit serves: its own output and the declarations published to it.
View == <<kit, Shape[disk]>>

\* project.ObserveRoutes with the metadata of the last snapshot.
ObserveRoutes ==
  IF snap.routes = cur.routes
  THEN UNCHANGED <<cur, changes>>
  ELSE /\ cur' = [cur EXCEPT !.rev = @ + 1, !.routes = snap.routes]
       /\ changes' = TRUE

\* The application's constructor over Kit output: it refuses a manifest that is
\* not of its own declarations, or that is not there.
Constructs(c, d) == Fault[c] # "start" /\ d # NoDist /\ d[2] = Shape[c]

TakeSnapshot == snap' = [dist |-> View, routes |-> Routes[cur.code]]

Least(S)  == CHOOSE x \in S : \A y \in S : x <= y
FreeHost  == Least({h \in HostIds : host[h].st = "none"})
FreeLease == Least(LeaseIds \ (open \cup {leases[l] : l \in DOMAIN leases}))

Running(c, d) ==
  [Absent EXCEPT !.st = "up", !.runs = c, !.installed = c, !.dist = d]

\* makeHost(goodInputs, goodDist) and publishHost, the host h being closed: the
\* host of the last admitted build takes the first free id and the router's
\* target; its inputs are goodInputs.
GoodHostTakesOver(h) ==
  LET n == Least({i \in HostIds : i = h \/ host[i].st = "none"}) IN
  /\ host' = [host EXCEPT ![h] = Absent, ![n] = Running(good.code, good.dist)]
  /\ active' = n /\ target' = n /\ replacement' = NoHost
  /\ leases' = [leases EXCEPT !.host = leases.good]
  /\ open' = IF leases.host = leases.good THEN open ELSE open \ {leases.host}
  /\ UNCHANGED sweep

CloseBuild == leases' = [leases EXCEPT !.build = NoLease]
              /\ open' = open \ {leases.build}

\* Run returns: its deferred calls close the host, the inputs of the loop, what
\* was left to sweep, and the gate.
Return(how) ==
  /\ ended' = how /\ pc' = "done"
  /\ host' = [h \in HostIds |-> Absent]
  /\ open' = open \ (sweep \cup {leases.host, leases.good})
  /\ sweep' = {}
  /\ G!CloseGate
  /\ UNCHANGED <<world, active, replacement, target, loop, served, leases,
                 entered, browser, stop>>

\* Run returns before those deferred calls of the loop exist.
ReturnEarly(how) ==
  /\ ended' = how /\ pc' = "done"
  /\ CloseBuild
  /\ G!CloseGate
  /\ UNCHANGED <<world, hosts, loop, served, sweep, entered, browser, stop>>

-----------------------------------------------------------------------------
(* Project.Prepare, in every stage                                         *)

BeginPrepare ==
  /\ At("prepare")
  /\ build' = [rev |-> cur.rev, code |-> cur.code]
  /\ Goto("preparing")
  /\ UNCHANGED <<world, hosts, stage, flags, last, snap, served, inputs,
                 requests, browser, outcome, left>>

Prepared ==
  /\ At("preparing") /\ Current /\ Fault[build.code] # "generate"
  /\ leases' = [leases EXCEPT !.build = FreeLease]
  /\ open' = open \cup {FreeLease}
  /\ Goto(CASE stage = "loop" -> "classify" [] stage = "build" -> "make"
            [] OTHER -> "commit")
  /\ UNCHANGED <<world, hosts, loop, served, sweep, requests, browser,
                 outcome, left>>

\* The revision changed under Prepare: what it made is thrown away.
PrepareObsolete ==
  /\ At("preparing") /\ ~Current
  /\ \/ /\ stage = "first" /\ Goto("prepare")
        /\ UNCHANGED <<world, hosts, loop, served, inputs, requests, browser,
                       outcome>>
     \/ /\ stage \in {"seed", "build"} /\ ReturnEarly("obsolete")
     \/ /\ stage = "loop" /\ Goto("top")
        /\ flags' = [flags EXCEPT !.pending = TRUE]
        /\ UNCHANGED <<world, hosts, stage, last, snap, build, served, inputs,
                       requests, browser, outcome>>
  /\ UNCHANGED left

\* Generation refuses the code, or the context is done.
PrepareFails ==
  /\ At("preparing") /\ Current
  /\ Fault[build.code] = "generate" \/ stop
  /\ \/ /\ stage # "loop" /\ ReturnEarly("error")
     \/ /\ stage = "loop" /\ Goto("top")
        /\ reported' = cur.rev /\ overlay' = TRUE
        /\ UNCHANGED <<world, hosts, loop, served, inputs, requests, outcome>>
  /\ UNCHANGED left

-----------------------------------------------------------------------------
(* Startup: two commits that publish declarations, then the first host     *)

\* The first and the seed build are committed for their declarations alone.
CommitStartup ==
  /\ At("commit")
  /\ IF Current
     THEN /\ disk' = build.code
          /\ stage' = IF stage = "first" THEN "seed" ELSE "build"
          /\ Goto("snapshot")
     ELSE /\ UNCHANGED <<disk, stage>>
          /\ Goto(IF stage = "first" THEN "prepare" ELSE "snapshot")
  /\ CloseBuild
  /\ UNCHANGED <<world, hosts, flags, last, snap, build, good, sweep, requests,
                 browser, outcome, left>>

SnapshotAtStartup ==
  /\ At("snapshot") /\ stage # "loop"
  /\ \/ /\ TakeSnapshot /\ Goto("observe")
        /\ UNCHANGED <<world, hosts, stage, flags, last, build, served, inputs,
                       requests, browser, outcome, left>>
     \/ Trouble /\ ReturnEarly("error")

ObserveAtStartup ==
  /\ At("observe") /\ stage # "loop"
  /\ ObserveRoutes
  /\ Goto("prepare")
  /\ UNCHANGED <<kit, hosts, loop, served, inputs, requests, browser, outcome,
                 left>>

FirstHostStarts ==
  Fault[build.code] # "compile" /\ Constructs(build.code, snap.dist)

\* The first host is compiled and started, beside the frontend.
MakeFirstHost ==
  /\ At("make")
  /\ \/ /\ FirstHostStarts
        /\ host' = [host EXCEPT ![FreeHost] = Running(build.code, snap.dist)]
        /\ active' = FreeHost
        /\ Goto("made")
        /\ UNCHANGED <<world, replacement, target, loop, served, inputs,
                       requests, browser, outcome, left>>
     \/ /\ \/ ~FirstHostStarts /\ UNCHANGED left
           \/ Trouble
        /\ \/ /\ ~Current
              /\ stage' = "seed" /\ Goto("snapshot") /\ CloseBuild
              /\ UNCHANGED <<world, hosts, flags, last, snap, build, served,
                             sweep, requests, browser, outcome>>
           \/ Current /\ ReturnEarly("error")

\* It is admitted if the revision it was built from is still the current one.
AdmitFirstHost ==
  /\ At("made")
  /\ IF Current
     THEN /\ target' = active /\ disk' = build.code
          /\ good' = [rev |-> build.rev, code |-> build.code, dist |-> snap.dist]
          /\ leases' = [build |-> NoLease, host |-> leases.build,
                        good |-> leases.build]
          /\ last' = snap.dist /\ stage' = "loop"
          /\ G!Open /\ Goto("top")
          /\ UNCHANGED <<host, active, open>>
     ELSE /\ host' = [host EXCEPT ![active] = Absent] /\ active' = NoHost
          /\ CloseBuild
          /\ stage' = "seed" /\ Goto("snapshot")
          /\ UNCHANGED <<target, served, last, gateVars>>
  /\ UNCHANGED <<world, replacement, flags, snap, build, sweep, entered,
                 browser, outcome, left>>

-----------------------------------------------------------------------------
(* The loop: waiting                                                       *)

\* Only an idle loop sweeps, after the browser heard of what replaced them.
Sweep ==
  /\ At("top") /\ ~flags.pending
  /\ open' = open \ sweep /\ sweep' = {}
  /\ Goto("select")
  /\ UNCHANGED <<world, hosts, loop, served, leases, requests, browser,
                 outcome, left>>

SelectStop ==
  /\ At("select") /\ stop
  /\ Return("stopped")
  /\ UNCHANGED left

\* Mutant: only the look at the frontend decides whether there is work.
SelectChangesUnmarked ==
  /\ At("select") /\ changes
  /\ changes' = FALSE
  /\ UNCHANGED flags
  /\ Goto("look")
  /\ UNCHANGED <<cur, kit, hosts, stage, last, snap, build, served, inputs,
                 requests, browser, outcome, left>>

SelectChanges ==
  /\ At("select") /\ changes
  /\ changes' = FALSE
  /\ flags' = [flags EXCEPT !.goChanged = TRUE]
  /\ Goto("look")
  /\ UNCHANGED <<cur, kit, hosts, stage, last, snap, build, served, inputs,
                 requests, browser, outcome, left>>

\* Mutant: the tick remembers what it saw and nothing else.
SelectTickUnmarked ==
  /\ At("select") /\ View # last
  /\ last' = View
  /\ UNCHANGED flags
  /\ Goto("look")
  /\ UNCHANGED <<world, hosts, stage, snap, build, served, inputs, requests,
                 browser, outcome, left>>

SelectTick ==
  /\ At("select") /\ View # last
  /\ last' = View
  /\ flags' = [flags EXCEPT !.dirty = TRUE]
  /\ Goto("look")
  /\ UNCHANGED <<world, hosts, stage, snap, build, served, inputs, requests,
                 browser, outcome, left>>

\* The host died: nothing is let in until another one stands.
SelectDone ==
  /\ At("select") /\ host[active].st = "dead"
  /\ \/ /\ ~stop /\ Pause /\ Goto("recover")
        /\ UNCHANGED <<world, hosts, loop, served, inputs, entered, browser,
                       outcome>>
     \/ stop /\ Return("stopped")
  /\ UNCHANGED left

Recover ==
  /\ At("recover") /\ G!Quiet /\ ~stop /\ Constructs(good.code, good.dist)
  /\ GoodHostTakesOver(active)
  /\ G!Open
  /\ overlay' = FALSE
  /\ Goto("top")
  /\ UNCHANGED <<world, loop, served, entered, reported, outcome, left>>

RecoverFails ==
  /\ At("recover")
  /\ \/ stop /\ Return("stopped") /\ UNCHANGED left
     \/ /\ G!Quiet /\ Return("error")
        /\ Trouble \/ (~Constructs(good.code, good.dist) /\ UNCHANGED left)

-----------------------------------------------------------------------------
(* The loop: what there is to publish                                      *)

\* A pending loop does not wait.
Again ==
  /\ At("top") /\ flags.pending
  /\ Goto("look")
  /\ UNCHANGED <<world, hosts, loop, served, inputs, requests, browser,
                 outcome, left>>

\* A Go event may come before the tick that would show the frontend's change.
Look ==
  /\ At("look")
  /\ \/ /\ flags' = [flags EXCEPT !.pending = FALSE,
                                  !.dirty = @ \/ View # last]
        /\ UNCHANGED left
     \/ Trouble /\ flags' = [flags EXCEPT !.pending = FALSE]
  /\ Goto(IF flags'.dirty THEN "peek" ELSE "prepare")
  /\ UNCHANGED <<world, hosts, stage, last, snap, build, served, inputs,
                 requests, browser, outcome>>

Peek ==
  /\ At("peek")
  /\ \/ /\ TakeSnapshot /\ last' = View /\ Goto("weigh")
        /\ UNCHANGED <<browser, left>>
     \/ /\ Trouble \/ (stop /\ UNCHANGED left)
        /\ reported' = cur.rev /\ overlay' = TRUE /\ Goto("top")
        /\ UNCHANGED <<last, snap>>
  /\ UNCHANGED <<world, hosts, stage, flags, build, served, inputs, requests,
                 outcome>>

Weigh ==
  /\ At("weigh")
  /\ ObserveRoutes
  /\ IF snap.routes = cur.routes /\ ~flags.goChanged /\ snap.dist = good.dist
     THEN flags' = [flags EXCEPT !.dirty = FALSE] /\ Goto("top")
     ELSE UNCHANGED flags /\ Goto("prepare")
  /\ UNCHANGED <<kit, hosts, stage, last, snap, build, served, inputs,
                 requests, browser, outcome, left>>

\* active.Prepare: the edit is compared with what the host was last given.
Classify ==
  /\ At("classify")
  /\ LET had == host[active].installed IN
     Goto(IF Shape[build.code] # Shape[had] THEN "publish"
          ELSE IF build.code # had /\ Fault[build.code] = "compile" THEN "failed"
          ELSE "admit")
  /\ UNCHANGED <<world, hosts, loop, served, inputs, requests, browser,
                 outcome, left>>

-----------------------------------------------------------------------------
(* The loop: in place, under the project's lock                            *)

Admit ==
  /\ At("admit")
  /\ Goto(IF ~Current THEN "obsolete"
          ELSE IF build.code # host[active].installed THEN "install"
          ELSE "reload")
  /\ UNCHANGED <<world, hosts, loop, served, inputs, requests, browser,
                 outcome, left>>

Reachable == host[active].st = "up" /\ host[active].sound

\* An exchange nobody waits for any longer: the host may still carry it out.
GiveUp(command) ==
  host' = [host EXCEPT ![active].sound = FALSE, ![active].late = command]

Unreachable ==
  /\ ~Reachable
  /\ host' = [host EXCEPT ![active].sound = FALSE]

\* Every way an install fails asks for a complete build, except the end of the
\* session.
Install ==
  /\ At("install")
  /\ \/ /\ Reachable
        /\ host' = [host EXCEPT ![active].runs = build.code,
                                ![active].installed = build.code]
        /\ Goto("reload") /\ UNCHANGED left
     \/ /\ \/ Unreachable /\ UNCHANGED left
           \/ Reachable /\ Trouble /\ GiveUp(<<"install", build.code>>)
           \/ Reachable /\ Trouble /\ UNCHANGED host
        /\ Goto(IF stop THEN "failed" ELSE "publish")
  /\ UNCHANGED <<world, active, replacement, target, loop, served, inputs,
                 requests, browser, outcome>>

\* Mutant: an in-place publication does not give the host its Kit output.
ReloadSkipped ==
  /\ At("reload")
  /\ \/ /\ snap.dist = good.dist
        /\ Goto("plan") /\ UNCHANGED <<host, left>>
     \/ /\ snap.dist # good.dist
        /\ Reachable /\ Constructs(host[active].runs, snap.dist)
        /\ UNCHANGED host
        /\ Goto("plan") /\ UNCHANGED left
     \/ /\ snap.dist # good.dist
        /\ \/ Unreachable /\ UNCHANGED left
           \/ Reachable /\ Trouble /\ GiveUp(<<"reload", snap.dist>>)
           \/ /\ Reachable /\ UNCHANGED host
              /\ \/ ~Constructs(host[active].runs, snap.dist) /\ UNCHANGED left
                 \/ Trouble
        /\ Goto("failed")
  /\ UNCHANGED <<world, active, replacement, target, loop, served, inputs,
                 requests, browser, outcome>>

Reload ==
  /\ At("reload")
  /\ \/ /\ snap.dist = good.dist
        /\ Goto("plan") /\ UNCHANGED <<host, left>>
     \/ /\ snap.dist # good.dist
        /\ Reachable /\ Constructs(host[active].runs, snap.dist)
        /\ host' = [host EXCEPT ![active].dist = snap.dist,
                                ![active].ahead = FALSE]
        /\ Goto("plan") /\ UNCHANGED left
     \/ /\ snap.dist # good.dist
        /\ \/ Unreachable /\ UNCHANGED left
           \/ Reachable /\ Trouble /\ GiveUp(<<"reload", snap.dist>>)
           \/ /\ Reachable /\ UNCHANGED host
              /\ \/ ~Constructs(host[active].runs, snap.dist) /\ UNCHANGED left
                 \/ Trouble
        /\ Goto("failed")
  /\ UNCHANGED <<world, active, replacement, target, loop, served, inputs,
                 requests, browser, outcome>>

\* Mutant: the good inputs are swept though the host runs from them.
PublishPlanSweepsGood ==
  /\ At("plan")
  /\ \/ /\ disk' = build.code
        /\ good' = [rev |-> build.rev, code |-> build.code, dist |-> snap.dist]
        /\ sweep' = sweep \cup {leases.good}
        /\ leases' = [leases EXCEPT !.build = NoLease, !.good = leases.build]
        /\ overlay' = FALSE
        /\ flags' = [flags EXCEPT !.goChanged = FALSE, !.dirty = FALSE]
        /\ Goto("top") /\ UNCHANGED <<host, left>>
     \/ /\ Trouble /\ Goto("failed")
        /\ host' = [host EXCEPT ![active].ahead = host[active].dist # good.dist]
        /\ UNCHANGED <<served, inputs, overlay, flags>>
  /\ UNCHANGED <<world, active, replacement, target, stage, last, snap, build,
                 open, requests, reported, outcome>>

\* The generated declarations are written, and the build is the good one.  The
\* host keeps the inputs it was compiled from.
PublishPlan ==
  /\ At("plan")
  /\ \/ /\ disk' = build.code
        /\ good' = [rev |-> build.rev, code |-> build.code, dist |-> snap.dist]
        /\ sweep' = IF leases.good = leases.host THEN sweep
                    ELSE sweep \cup {leases.good}
        /\ leases' = [leases EXCEPT !.build = NoLease, !.good = leases.build]
        /\ overlay' = FALSE
        /\ flags' = [flags EXCEPT !.goChanged = FALSE, !.dirty = FALSE]
        /\ Goto("top") /\ UNCHANGED <<host, left>>
     \/ /\ Trouble /\ Goto("failed")
        /\ host' = [host EXCEPT ![active].ahead = host[active].dist # good.dist]
        /\ UNCHANGED <<served, inputs, overlay, flags>>
  /\ UNCHANGED <<world, active, replacement, target, stage, last, snap, build,
                 open, requests, reported, outcome>>

-----------------------------------------------------------------------------
(* The loop: by a replacement                                              *)

\* The replacement compiles while its declarations are published to Kit.
Publish ==
  /\ At("publish")
  /\ \/ Current /\ disk' = build.code /\ Goto("snapshot") /\ UNCHANGED left
     \/ ~Current /\ Goto("obsolete") /\ UNCHANGED <<disk, left>>
     \/ Current /\ Trouble /\ Goto("failed") /\ UNCHANGED disk
  /\ UNCHANGED <<world, hosts, loop, good, inputs, requests, browser, outcome>>

\* A failed request leaves the zero snapshot behind.
SnapshotAgain ==
  /\ At("snapshot") /\ stage = "loop"
  /\ \/ TakeSnapshot /\ Goto("observe") /\ UNCHANGED left
     \/ /\ Trouble \/ (stop /\ UNCHANGED left)
        /\ snap' = [snap EXCEPT !.dist = NoDist] /\ Goto("failed")
  /\ UNCHANGED <<world, hosts, stage, flags, last, build, served, inputs,
                 requests, browser, outcome>>

ObserveAgain ==
  /\ At("observe") /\ stage = "loop"
  /\ ObserveRoutes
  /\ IF snap.routes = cur.routes
     THEN Goto("join") /\ UNCHANGED flags
     ELSE Goto("obsolete") /\ flags' = [flags EXCEPT !.dirty = TRUE]
  /\ UNCHANGED <<kit, hosts, stage, last, snap, build, served, inputs,
                 requests, browser, outcome, left>>

Join ==
  /\ At("join")
  /\ IF Fault[build.code] = "compile"
     THEN Goto("failed") /\ UNCHANGED <<host, replacement>>
     ELSE /\ host' = [host EXCEPT ![FreeHost].st = "built"]
          /\ replacement' = FreeHost
          /\ Goto("built")
  /\ UNCHANGED <<world, active, target, loop, served, inputs, requests,
                 browser, outcome, left>>

DropReplacement ==
  /\ host' = [host EXCEPT ![replacement] = Absent]
  /\ replacement' = NoHost

\* Mutant: the gate stays open while the host is replaced.
AdmitUnpaused ==
  /\ At("built")
  /\ \/ /\ Current /\ Goto("drain") /\ UNCHANGED gateVars
        /\ UNCHANGED <<host, replacement>>
     \/ ~Current /\ Goto("obsolete") /\ DropReplacement /\ UNCHANGED gateVars
  /\ UNCHANGED <<world, active, target, loop, served, inputs, entered, browser,
                 outcome, left>>

\* From here to the published plan, or the failure, the project is locked.
AdmitReplacement ==
  /\ At("built")
  /\ \/ /\ Current /\ Goto("drain") /\ Pause
        /\ UNCHANGED <<host, replacement>>
     \/ ~Current /\ Goto("obsolete") /\ DropReplacement /\ UNCHANGED gateVars
  /\ UNCHANGED <<world, active, target, loop, served, inputs, entered, browser,
                 outcome, left>>

\* Mutant: the predecessor is stopped only after the swap.
StopOldNever ==
  /\ At("drain") /\ G!Quiet /\ ~stop
  /\ UNCHANGED host
  /\ Goto("start")
  /\ UNCHANGED <<world, active, replacement, target, loop, served, inputs,
                 requests, browser, outcome, left>>

\* Mutant: the admitted requests are not drained.
StopOldAtOnce ==
  /\ At("drain") /\ ~stop
  /\ host' = [host EXCEPT ![active] = Absent]
  /\ Goto("start")
  /\ UNCHANGED <<world, active, replacement, target, loop, served, inputs,
                 requests, browser, outcome, left>>

\* Its predecessor is gone before the replacement starts.
StopOld ==
  /\ At("drain") /\ G!Quiet /\ ~stop
  /\ host' = [host EXCEPT ![active] = Absent]
  /\ Goto("start")
  /\ UNCHANGED <<world, active, replacement, target, loop, served, inputs,
                 requests, browser, outcome, left>>

DrainInterrupted ==
  /\ At("drain") /\ stop
  /\ DropReplacement
  /\ Goto("failed")
  /\ UNCHANGED <<world, active, target, loop, served, inputs, requests,
                 browser, outcome, left>>

Start ==
  /\ At("start")
  /\ \/ /\ Constructs(build.code, snap.dist)
        /\ host' = [host EXCEPT ![replacement] = Running(build.code, snap.dist)]
        /\ target' = replacement
        /\ Goto("swapplan") /\ UNCHANGED left
     \/ /\ \/ ~Constructs(build.code, snap.dist) /\ UNCHANGED left
           \/ Trouble
        /\ Goto("restore") /\ UNCHANGED <<host, target>>
  /\ UNCHANGED <<world, active, replacement, loop, served, inputs, requests,
                 browser, outcome>>

\* Mutant: the inputs of the in-place builds since the last host are kept.
AdoptForgetsGood ==
  /\ At("swapplan")
  /\ disk' = build.code
  /\ good' = [rev |-> build.rev, code |-> build.code, dist |-> snap.dist]
  /\ sweep' = sweep \cup {leases.host}
  /\ leases' = [build |-> NoLease, host |-> leases.build, good |-> leases.build]
  /\ active' = replacement /\ replacement' = NoHost
  /\ G!Open
  /\ overlay' = FALSE
  /\ flags' = [flags EXCEPT !.goChanged = FALSE, !.dirty = FALSE]
  /\ Goto("top")
  /\ UNCHANGED <<world, host, target, stage, last, snap, build, open, entered,
                 reported, outcome, left>>

\* The replacement is adopted and the gate opens again.
Adopt ==
  /\ At("swapplan")
  /\ disk' = build.code
  /\ good' = [rev |-> build.rev, code |-> build.code, dist |-> snap.dist]
  /\ sweep' = sweep \cup {leases.host, leases.good}
  /\ leases' = [build |-> NoLease, host |-> leases.build, good |-> leases.build]
  /\ active' = replacement /\ replacement' = NoHost
  /\ G!Open
  /\ overlay' = FALSE
  /\ flags' = [flags EXCEPT !.goChanged = FALSE, !.dirty = FALSE]
  /\ Goto("top")
  /\ UNCHANGED <<world, host, target, stage, last, snap, build, open, entered,
                 reported, outcome, left>>

AdoptFails ==
  /\ At("swapplan") /\ Trouble /\ Goto("restore")
  /\ UNCHANGED <<world, hosts, loop, served, inputs, requests, browser, outcome>>

\* Mutant: a session that restored its host does not resume.
RestoreKeepsShut ==
  /\ At("restore") /\ ~stop /\ Constructs(good.code, good.dist)
  /\ GoodHostTakesOver(replacement)
  /\ UNCHANGED gateVars
  /\ Goto("failed")
  /\ UNCHANGED <<world, loop, served, entered, browser, outcome, left>>

\* The last admitted build is made again in place of the failed replacement.
Restore ==
  /\ At("restore") /\ ~stop /\ Constructs(good.code, good.dist)
  /\ GoodHostTakesOver(replacement)
  /\ G!Open
  /\ Goto("failed")
  /\ UNCHANGED <<world, loop, served, entered, browser, outcome, left>>

RestoreFails ==
  /\ At("restore")
  /\ \/ (stop \/ ~Constructs(good.code, good.dist)) /\ UNCHANGED left
     \/ Trouble
  /\ Return("lost")

\* The current host stays, whatever became of this build.
Failed ==
  /\ At("failed")
  /\ reported' = build.rev /\ overlay' = TRUE
  /\ CloseBuild /\ Goto("top")
  /\ UNCHANGED <<world, hosts, loop, served, sweep, requests, outcome, left>>

Obsolete ==
  /\ At("obsolete")
  /\ flags' = [flags EXCEPT !.pending = TRUE]
  /\ CloseBuild /\ Goto("top")
  /\ UNCHANGED <<world, hosts, stage, last, snap, build, served, sweep,
                 requests, browser, outcome, left>>

-----------------------------------------------------------------------------
(* What happens around the loop                                            *)

\* Project.Observe, which waits for a Commit to let go of the project.
Edit(c) ==
  /\ ended = "no" /\ pc \notin Locked /\ left.edits > 0 /\ c # cur.code
  /\ cur' = [cur EXCEPT !.rev = @ + 1, !.code = c]
  /\ changes' = TRUE
  /\ left' = [left EXCEPT !.edits = @ - 1]
  /\ UNCHANGED <<kit, hosts, loop, pc, served, inputs, requests, browser,
                 outcome>>

KitChanges ==
  /\ ended = "no" /\ Trouble
  /\ kit' \in {k \in 0..MaxKit : IF KitReverts THEN k # kit ELSE k = kit + 1}
  /\ UNCHANGED <<cur, changes, hosts, loop, pc, served, inputs, requests,
                 browser, outcome>>

Die(h) ==
  /\ host[h].st = "up" /\ Trouble
  /\ host' = [host EXCEPT ![h].st = "dead", ![h].late = NoCommand]
  /\ UNCHANGED <<world, active, replacement, target, loop, pc, served, inputs,
                 requests, browser, outcome>>

\* The child gets to a command after its session stopped waiting for the reply.
CarryOutLate(h) ==
  /\ host[h].st = "up" /\ host[h].late # NoCommand
  /\ host' = [host EXCEPT ![h].late = NoCommand,
       ![h].runs = IF host[h].late[1] = "install" THEN host[h].late[2] ELSE @,
       ![h].dist = IF host[h].late[1] = "reload" THEN host[h].late[2] ELSE @]
  /\ UNCHANGED <<world, active, replacement, target, loop, pc, served, inputs,
                 requests, browser, outcome, left>>

Around == UNCHANGED <<world, hosts, loop, pc, served, inputs, browser, left>>

Enter(r) ==
  /\ G!Enter(r) /\ entered' = [entered EXCEPT ![r] = target]
  /\ Around /\ UNCHANGED outcome

Leave(r) ==
  /\ G!Leave(r) /\ entered' = [entered EXCEPT ![r] = NoHost]
  /\ Around /\ UNCHANGED outcome

\* The drain runs out under pause.
Expire ==
  /\ pc \in {"recover", "drain"} /\ ~G!Quiet /\ G!Expire
  /\ Around /\ UNCHANGED <<entered, outcome>>

Stop ==
  /\ MayStop /\ Trouble /\ ~stop /\ ended = "no"
  /\ stop' = TRUE
  /\ UNCHANGED <<world, hosts, loop, pc, served, inputs, browser, requests, ended>>

-----------------------------------------------------------------------------
Startup == CommitStartup \/ SnapshotAtStartup \/ ObserveAtStartup
           \/ MakeFirstHost \/ AdmitFirstHost
Wait    == Sweep \/ SelectStop \/ SelectChanges \/ SelectTick \/ SelectDone
           \/ Recover \/ RecoverFails
Weighing == Again \/ Look \/ Peek \/ Weigh \/ Classify
InPlace == Admit \/ Install \/ Reload \/ PublishPlan
Replace == Publish \/ SnapshotAgain \/ ObserveAgain \/ Join \/ AdmitReplacement
           \/ StopOld \/ DrainInterrupted \/ Start \/ Adopt \/ AdoptFails
           \/ Restore \/ RestoreFails
Session == BeginPrepare \/ Prepared \/ PrepareObsolete \/ PrepareFails
           \/ Startup \/ Wait \/ Weighing \/ InPlace \/ Replace
           \/ Failed \/ Obsolete

Environment ==
  \/ \E c \in Codes : Edit(c)
  \/ KitChanges \/ Stop \/ Expire
  \/ \E h \in HostIds : Die(h) \/ CarryOutLate(h)
  \/ \E r \in Requests : Enter(r) \/ Leave(r)

Next == Session \/ Environment
Spec == Init /\ [][Next]_vars

\* The loop takes its steps; pause's timer fires.
FairSpec == Spec /\ WF_vars(Session) /\ WF_vars(Expire)

-----------------------------------------------------------------------------
(* Properties                                                              *)

InLoop == stage = "loop" /\ ended = "no"
Idle   == InLoop /\ pc = "select"

\* Two native hosts never run at the same time: what an application claims for
\* itself when it is constructed is free again (session.go 269-271, 548-553).
OneHostRuns == Cardinality({h \in HostIds : host[h].st = "up"}) <= 1

\* A request that is being answered, and whose context is alive, was dispatched
\* to the host the router still points at: no replacement, recovery or restore
\* takes the host away under it.
AnsweredByOneHost ==
  \A r \in inside \ cancelled : ended = "no" => entered[r] = target

\* Requests are let in only while the router points at the session's own host
\* and that host was not stopped by the session; it may have died by itself.
OpenGateHasHost ==
  gate = "open" => /\ target = active /\ active # NoHost
                   /\ host[active].st \in {"up", "dead"}

\* One host constructs, runs and answers at a time, through every replacement,
\* recovery and restore.
OneHostAnswers == OneHostRuns /\ AnsweredByOneHost /\ OpenGateHasHost

\* Whenever the loop waits and the browser shows no error, the running host,
\* unless its control stream was given up on, runs the published revision and
\* serves its Kit output, or the output of a build whose publication failed
\* when the host was already reloaded (the comparison with goodDist,
\* session.go 497, does not know what the host serves).
PublishedIsServed ==
  (Idle /\ ~overlay /\ Reachable)
  => /\ host[active].runs = good.code
     /\ host[active].dist = good.dist \/ host[active].ahead

\* The files the host runs from and the files a recovery would build from are
\* not removed, nor those of the build in hand.
LeasesHeld ==
  /\ InLoop => {leases.host, leases.good} \subseteq open \ sweep
  /\ (ended = "no" /\ leases.build # NoLease) => leases.build \in open

\* Each time the loop waits, every other build's files were removed.
NoLeaseLeaks == Idle => open = {leases.host, leases.good}

\* The files of a build are removed when, and only when, nothing is made of them.
LeasesExact == LeasesHeld /\ NoLeaseLeaks

\* The loop never waits on an edit it has neither published nor reported, unless
\* the project has it wake up again.
NoEditForgotten ==
  Idle => good.rev = cur.rev \/ changes \/ reported >= cur.rev

\* Once the edits stop, the loop has published the last of them, over what Kit
\* serves, or has shown an error for it, or Run has returned.
EditsSettle ==
  /\ []NoEditForgotten
  /\ <>[](\/ ended # "no"
          \/ good.rev = cur.rev /\ good.dist = View
          \/ reported = cur.rev)

\* A session does not keep its visitors waiting for ever.
GateReopens == InLoop ~> (gate = "open" \/ ended # "no")

\* The session comes to rest on the last edit, and is open when it does.
SessionSettles == EditsSettle /\ GateReopens

-----------------------------------------------------------------------------
(* What the comments and docs say and the code does not do                 *)

\* session_integration_test.go 588: changed configuration must publish "changed
\* constructor inputs, not just a fresh frontend graph": what is published is
\* what the application was constructed from.
ConstructedFromPublished ==
  (Idle /\ ~overlay /\ Reachable) => host[active].dist = good.dist

\* session_integration_test.go 608: an application whose "configuration never
\* became current" fails the test.  When nothing will wake the loop again and no
\* error was shown, what it published is what Kit serves.
ConfigurationIsCurrent ==
  (Idle /\ ~changes /\ View = last /\ reported # cur.rev) => good.dist = View

\* session.go 45-46: requests are kept waiting when "a captured startup build
\* becomes obsolete".  It ends the session.
ObsoleteStartupWaits == ended # "obsolete"

\* host.go 513-515: an install that stalls "is never a successful install", and
\* development-server.md: the application answers with the previous code until
\* the new host takes over.  The host may finish it after the session published
\* the previous code again.
StalledInstallIsNotServed ==
  (Idle /\ ~overlay /\ host[active].st = "up")
  => host[active].runs = good.code
=============================================================================
