---------------------------- MODULE HotRevisions ----------------------------
(***************************************************************************)
(* The run time of hot-installed Go code (internal/hotreload/              *)
(* native_runtime.go), which every replaceable package of a development    *)
(* host carries: the current table of function entries, the revisions      *)
(* whose machine code is loaded, and who may still execute them.           *)
(*                                                                         *)
(* Table 0 is linked into the executable.  Every install loads one module  *)
(* and makes one table; a retired revision of the reclaimable class is     *)
(* unloaded when its last consumer leaves.  Everything below happens under *)
(* _skgo_mu, so an action is one critical section.                         *)
(***************************************************************************)
EXTENDS Integers, FiniteSets

CONSTANTS
  Requests,     \* requests the host's outermost handler serves
  Callers,      \* calls of a hot function that carry no context
  Fetches,      \* subrequests a request's own handler dispatches in process
  Budget,       \* _skgo_budget: how many revisions may stay loaded
  MaxInstalls,  \* bound: the installs of a behaviour
  NoTable       \* stands for "no table"

ASSUME RevisionsAssumption ==
  /\ IsFiniteSet(Requests) /\ IsFiniteSet(Callers) /\ IsFiniteSet(Fetches)
  /\ Requests \cap Callers = {}
  /\ Budget \in Nat \ {0} /\ MaxInstalls \in Nat
  /\ NoTable \notin Nat

Tables  == 0..MaxInstalls
Holders == Requests \cup Callers

VARIABLES
  current,    \* _skgo_current
  installs,   \* how many modules were ever loaded
  modules,    \* _skgo_modules
  consumers,  \* _skgo_revision.consumers
  reclaim,    \* _skgo_revision.reclaim
  retired,    \* _skgo_revision.retired
  unloaded,   \* the tables whose module.Unload was called
  pinned,     \* the table a request or call acquired
  served,     \* the requests that have returned
  borrowed,   \* the table in the context of each subrequest
  owner,      \* the request that dispatched each subrequest
  fetchPC     \* where each subrequest is

revisions == <<current, installs, modules, consumers, reclaim, retired, unloaded>>
holding   == <<pinned, served>>
fetching  == <<borrowed, owner, fetchPC>>
vars      == <<revisions, holding, fetching>>

\* "off"; "awaited": the fetch waits for the response to be committed;
\* "running": it does not wait any more; "done": the handler returned.
FetchPC == {"off", "awaited", "running", "done"}

TypeOK ==
  /\ current \in Tables /\ installs \in Tables
  /\ modules \subseteq 1..installs
  /\ consumers \in [Tables -> Nat]
  /\ reclaim \subseteq Tables /\ retired \subseteq Tables
  /\ unloaded \subseteq Tables
  /\ pinned \in [Holders -> Tables \cup {NoTable}]
  /\ served \subseteq Requests
  /\ borrowed \in [Fetches -> Tables \cup {NoTable}]
  /\ owner \in [Fetches -> Requests \cup {NoTable}]
  /\ fetchPC \in [Fetches -> FetchPC]

Init ==
  /\ current = 0 /\ installs = 0 /\ modules = {}
  /\ consumers = [t \in Tables |-> 0]
  /\ reclaim = {} /\ retired = {} /\ unloaded = {}
  /\ pinned = [h \in Holders |-> NoTable]
  /\ served = {}
  /\ borrowed = [f \in Fetches |-> NoTable]
  /\ owner = [f \in Fetches |-> NoTable]
  /\ fetchPC = [f \in Fetches |-> "off"]

-----------------------------------------------------------------------------
(* Acquire, release and retire                                             *)

\* The table is read and its consumer counted in one critical section.
Acquire(h) ==
  /\ pinned' = [pinned EXCEPT ![h] = current]
  /\ consumers' = IF current = 0 THEN consumers
                  ELSE [consumers EXCEPT ![current] = @ + 1]

\* Mutant: a retired revision is unloaded without asking for its consumers.
RetireAtOnce(t, isRetired, isReclaim, count) ==
  IF t # 0 /\ t \in isRetired /\ t \in isReclaim
  THEN modules \ {t} ELSE modules

\* _skgo_retire: what stays loaded once t's state is the given one.
Retire(t, isRetired, isReclaim, count) ==
  IF t # 0 /\ t \in isRetired /\ t \in isReclaim /\ count[t] = 0
  THEN modules \ {t} ELSE modules

\* Mutant: release forgets to look whether it was the last.
ReleaseOnly(h) ==
  /\ pinned' = [pinned EXCEPT ![h] = NoTable]
  /\ consumers' = IF pinned[h] = 0 THEN consumers
                  ELSE [consumers EXCEPT ![pinned[h]] = @ - 1]
  /\ UNCHANGED <<modules, unloaded>>

\* Mutant: only an unretired revision is counted down.
ReleaseUnretired(h) ==
  LET t == pinned[h] IN
  /\ pinned' = [pinned EXCEPT ![h] = NoTable]
  /\ consumers' = IF t = 0 \/ t \in retired THEN consumers
                  ELSE [consumers EXCEPT ![t] = @ - 1]
  /\ modules' = Retire(t, retired, reclaim, consumers')
  /\ unloaded' = unloaded \cup (modules \ modules')

Release(h) ==
  LET t == pinned[h] IN
  /\ pinned' = [pinned EXCEPT ![h] = NoTable]
  /\ consumers' = IF t = 0 THEN consumers ELSE [consumers EXCEPT ![t] = @ - 1]
  /\ modules' = Retire(t, retired, reclaim, consumers')
  /\ unloaded' = unloaded \cup (modules \ modules')

-----------------------------------------------------------------------------
(* Requests and calls                                                      *)

\* SkgoHotHandler: the host's outermost handler.
Serve(r) ==
  /\ r \notin served /\ pinned[r] = NoTable
  /\ Acquire(r)
  /\ UNCHANGED <<current, installs, modules, reclaim, retired, unloaded,
                 served, fetching>>

\* The outer handler returns.  It does not wait for a subrequest whose
\* response it stopped waiting for, or did not read.
Return(r) ==
  /\ pinned[r] # NoTable
  /\ \A f \in Fetches : owner[f] = r => fetchPC[f] # "awaited"
  /\ Release(r)
  /\ served' = served \cup {r}
  /\ UNCHANGED <<current, installs, reclaim, retired, fetching>>

\* A stable entry called without a context leases the table for the call.
Call(c) ==
  /\ pinned[c] = NoTable
  /\ Acquire(c)
  /\ UNCHANGED <<current, installs, modules, reclaim, retired, unloaded,
                 served, fetching>>

CallReturns(c) ==
  /\ pinned[c] # NoTable
  /\ Release(c)
  /\ UNCHANGED <<current, installs, reclaim, retired, served, fetching>>

-----------------------------------------------------------------------------
(* Subrequests.  CarryContext hands the table to the subrequest's context; *)
(* the handler a fetch dispatches to lies inside the wrapped one, so its   *)
(* calls find the table there and borrow it.                               *)

Fetch(r, f) ==
  /\ pinned[r] # NoTable
  /\ fetchPC[f] = "off"
  /\ borrowed' = [borrowed EXCEPT ![f] = pinned[r]]
  /\ owner'    = [owner EXCEPT ![f] = r]
  /\ fetchPC'  = [fetchPC EXCEPT ![f] = "awaited"]
  /\ UNCHANGED <<revisions, holding>>

\* serve's select: the response was committed, or the fetch was cancelled;
\* either way the handler's goroutine goes on by itself.
FetchResolves(f) ==
  /\ fetchPC[f] = "awaited"
  /\ fetchPC' = [fetchPC EXCEPT ![f] = "running"]
  /\ UNCHANGED <<revisions, holding, borrowed, owner>>

FetchReturns(f) ==
  /\ fetchPC[f] = "running"
  /\ fetchPC' = [fetchPC EXCEPT ![f] = "done"]
  /\ UNCHANGED <<revisions, holding, borrowed, owner>>

-----------------------------------------------------------------------------
(* SkgoHotInstall                                                          *)

Room == Cardinality(modules) < Budget

\* `numeric' is the class the compiler gave the revision.
Install(numeric) ==
  /\ installs < MaxInstalls /\ Room
  /\ LET t == installs + 1
         old == current
         reclaim2 == IF numeric THEN reclaim \cup {t} ELSE reclaim
         retired2 == IF old = 0 THEN retired ELSE retired \cup {old}
         kept == Retire(old, retired2, reclaim2, consumers)
     IN
     /\ installs' = t /\ current' = t
     /\ reclaim' = reclaim2 /\ retired' = retired2
     /\ modules' = kept \cup {t}
     /\ unloaded' = unloaded \cup (modules \ kept)
  /\ UNCHANGED <<consumers, holding, fetching>>

\* The module is loaded but lacks an entry: it stays loaded and charged.
InstallUnprepared ==
  /\ installs < MaxInstalls /\ Room
  /\ installs' = installs + 1
  /\ modules' = modules \cup {installs + 1}
  /\ UNCHANGED <<current, consumers, reclaim, retired, unloaded, holding,
                 fetching>>

-----------------------------------------------------------------------------
Next ==
  \/ \E r \in Requests : Serve(r) \/ Return(r)
  \/ \E c \in Callers : Call(c) \/ CallReturns(c)
  \/ \E r \in Requests, f \in Fetches : Fetch(r, f)
  \/ \E f \in Fetches : FetchResolves(f) \/ FetchReturns(f)
  \/ \E numeric \in BOOLEAN : Install(numeric)
  \/ InstallUnprepared

Spec == Init /\ [][Next]_vars

-----------------------------------------------------------------------------
(* Correctness                                                             *)

Executing(t) == {h \in Holders : pinned[h] = t}

\* Nobody who acquired a table executes code that was unloaded, however the
\* installs, the responses and the direct calls interleave.
PinnedStaysLoaded ==
  \A h \in Holders : pinned[h] # NoTable => pinned[h] \notin unloaded

\* The count that decides about unloading is exactly who is executing.
ConsumersExact ==
  \A t \in Tables \ {0} : consumers[t] = Cardinality(Executing(t))

\* What stays loaded is what somebody may need: the current table, one with
\* consumers, or one that may not be reclaimed.  Nothing idle leaks.
OnlyNeededStaysLoaded ==
  \A t \in modules \cap retired \cap reclaim : consumers[t] > 0

\* Neither too early nor never: whoever acquired a table executes loaded code,
\* the consumers are counted exactly, and what they have left is gone.
LoadedWhileUsed == PinnedStaysLoaded /\ ConsumersExact /\ OnlyNeededStaysLoaded

\* "Acquisition shares publication's lock so no reader can observe a retired,
\* unpinned target" (native_runtime.go:26-27): of the subrequests, too.
BorrowedStaysLoaded ==
  \A f \in Fetches :
    fetchPC[f] \in {"awaited", "running"} => borrowed[f] \notin unloaded
=============================================================================
