---------------------------- MODULE Generation ----------------------------
(***************************************************************************)
(* internal/devserver/generator.go and internal/gen/raw_events.go: the     *)
(* application's own generator, a helper process the development session   *)
(* keeps.  The watcher records what changed and captures it; the session's *)
(* loop hands the record to the helper, reconciles with what the helper    *)
(* wrote, and admits a build only if nothing was recorded meanwhile.       *)
(*                                                                         *)
(* A file is its version: disk[p] of an authored file, and what the        *)
(* helper's output was made from, per file.  Epochs and revisions are only *)
(* ever compared for equality, so each holder of one keeps instead whether *)
(* it still is the project's.  The authored files are not sources of the   *)
(* application itself: a revision captures the helper's output alone.  The *)
(* model starts with an admitted application, after startup's own passes.  *)
(***************************************************************************)
EXTENDS Naturals, FiniteSets

CONSTANTS Files,    \* the authored files the helper generates from
          Tool,     \* the one that holds the helper's own source
          MaxEdits, \* bound on the edits of a behaviour
          MaxFaults \* bound on its failures

ASSUME ConstantsAssumption ==
    /\ IsFiniteSet(Files) /\ Tool \in Files
    /\ MaxEdits \in Nat /\ MaxFaults \in Nat

VARIABLES
    disk,     \* the authored files, and the budgets that are left
    out,      \* what the helper's output on disk was made from
    owned,    \* what skgo's own output on disk was made from
    events,   \* file events not yet delivered
    watching, \* what the watcher recorded and is about to capture
    raw,      \* Project.rawPaths, rawFull and rawChanges
    captured, \* Project.current, and whether Project.changes holds it
    helper,   \* the generator
    loop,     \* the session's loop: where it is, and what it holds
    app       \* the application admitted last

vars == <<disk, out, owned, events, watching, raw, captured, helper, loop, app>>

None     == "none"
Version  == 0..MaxEdits
Versions == [Files -> Version]
Watched  == Files \cup {"out", "owned", "overflow"}
Zero     == [p \in Files |-> 0]
Phases   == {"idle", "refresh", "building", "select", "await", "reconcile",
             "identify", "acknowledge", "prepare", "publish", "commit"}

\* The loop between two steps that use what it holds.
Held == [at |-> "refresh", paths |-> {}, full |-> FALSE, current |-> FALSE,
         reply |-> None, identity |-> 0,
         build |-> Zero, admissible |-> FALSE,
         whole |-> FALSE, failed |-> FALSE]

TypeOK ==
    /\ disk \in [file : Versions, edits : 0..MaxEdits, faults : 0..MaxFaults]
    /\ out \in Versions /\ owned \in Versions
    /\ events \subseteq Watched /\ watching \in Watched \cup {None}
    /\ raw \in [paths : SUBSET Watched, full : BOOLEAN, signal : BOOLEAN]
    /\ captured \in [out : Versions, signal : BOOLEAN]
    /\ helper \in [child : {"live", "dead", None}, identity : Version,
                   full : BOOLEAN, rebuild : BOOLEAN, current : BOOLEAN]
    /\ loop \in [at : Phases, paths : SUBSET Watched, full : BOOLEAN,
                 current : BOOLEAN, reply : {None, "same", "generated", "error"},
                 identity : Version, build : Versions, admissible : BOOLEAN,
                 whole : BOOLEAN, failed : BOOLEAN]
    /\ app \in [out : Versions, built : Versions]

\* Startup has admitted an application; events of what it wrote may be on
\* their way.
Init ==
    /\ disk = [file |-> Zero, edits |-> 0, faults |-> 0]
    /\ out = Zero /\ owned = Zero
    /\ events \in SUBSET {"out", "owned"} /\ watching = None
    /\ raw = [paths |-> {}, full |-> FALSE, signal |-> FALSE]
    /\ captured = [out |-> Zero, signal |-> FALSE]
    /\ helper = [child |-> "live", identity |-> 0, full |-> FALSE,
                 rebuild |-> FALSE, current |-> TRUE]
    /\ loop = [Held EXCEPT !.at = "idle", !.failed = FALSE]
    /\ app = [out |-> Zero, built |-> Zero]

Fault == disk.faults < MaxFaults /\ disk' = [disk EXCEPT !.faults = @ + 1]
NoFault == UNCHANGED disk

---------------------------------------------------------------------------
(* Files and their watcher. *)

Edit(p) ==
    /\ disk.edits < MaxEdits
    /\ disk' = [disk EXCEPT !.file[p] = @ + 1, !.edits = @ + 1]
    /\ events' = events \cup {p}
    /\ UNCHANGED <<out, owned, watching, raw, captured, helper, loop, app>>

\* The kernel's queue overflows: nobody knows what changed.
Overflow ==
    /\ events # {} /\ Fault
    /\ events' = {"overflow"}
    /\ UNCHANGED <<out, owned, watching, raw, captured, helper, loop, app>>

\* Project.RecordRaw: the epoch moves on, and the loop is told.
RecordRaw(e) ==
    raw' = [paths  |-> IF e = "overflow" THEN raw.paths ELSE raw.paths \cup {e},
            full   |-> raw.full \/ e = "overflow",
            signal |-> TRUE]

\* An event is recorded first; skgo's own output is not captured.
Deliver(e) ==
    /\ watching = None /\ e \in events
    /\ events' = events \ {e}
    /\ RecordRaw(e)
    /\ helper' = [helper EXCEPT !.current = FALSE]
    /\ loop' = [loop EXCEPT !.current = FALSE]
    /\ watching' = IF e = "owned" THEN None ELSE e
    /\ UNCHANGED <<disk, out, owned, captured, app>>

\* Project.Observe: bytes that differ make a new revision.
Observe == captured' = IF captured.out = out THEN captured
                       ELSE [out |-> out, signal |-> TRUE]

\* The watcher captures what it recorded; a file outside the revision changes
\* nothing.
Acquire ==
    /\ watching # None
    /\ IF watching \in Files THEN UNCHANGED captured ELSE Observe
    /\ loop' = [loop EXCEPT !.admissible = @ /\ captured'.out = captured.out]
    /\ watching' = None
    /\ UNCHANGED <<disk, out, owned, events, raw, helper, app>>

---------------------------------------------------------------------------
(* The loop's pass through the helper. *)

Go(at) == loop' = [loop EXCEPT !.at = at]
Done(at, failed) == loop' = [Held EXCEPT !.at = at, !.failed = failed]

\* An obsolete pass is made again at once; after a failure, which is shown, the
\* loop waits for the next event.
Again == Done("refresh", loop.failed)
Fail  == Done("idle", TRUE)

\* generatorIdentity of what discover finds: the helper's own closure.
Identity == disk.file[Tool]

\* The idle loop takes one of the channels that hold something.
Wake ==
    /\ loop.at = "idle" /\ Go("refresh")
    /\ \/ raw.signal /\ raw' = [raw EXCEPT !.signal = FALSE] /\ UNCHANGED captured
       \/ captured.signal /\ captured' = [captured EXCEPT !.signal = FALSE]
          /\ UNCHANGED raw
    /\ UNCHANGED <<disk, out, owned, events, watching, helper, app>>

RefreshKnown ==
    /\ loop.at = "refresh" /\ helper.child # None
    /\ helper.identity = Identity
    /\ Go("select")
    /\ UNCHANGED <<disk, out, owned, events, watching, raw, captured, helper,
                   app>>

\* The helper's source changed, or there is no helper: its prerequisite, which
\* may write the application's files, runs and it is built.
RefreshChanged(wrote) ==
    /\ loop.at = "refresh"
    /\ helper.child = None \/ helper.identity # Identity
    /\ helper' = [helper EXCEPT !.child = None, !.rebuild = TRUE]
    /\ out' = IF wrote THEN disk.file ELSE out
    /\ events' = IF out' = out THEN events ELSE events \cup {"out"}
    /\ loop' = [loop EXCEPT !.at = "building", !.identity = Identity]
    /\ UNCHANGED <<disk, owned, watching, raw, captured, app>>

\* A source that changed while it was built starts over.
StartHelper ==
    /\ loop.at = "building"
    /\ IF loop.identity = Identity
       THEN /\ helper' = [helper EXCEPT !.child = "live", !.full = TRUE,
                                        !.identity = loop.identity]
            /\ Done("select", loop.failed)
       ELSE UNCHANGED helper /\ Again
    /\ UNCHANGED <<disk, out, owned, events, watching, raw, captured, app>>

RefreshFails ==
    /\ loop.at \in {"refresh", "building"} /\ Fault /\ Fail
    /\ helper' = [helper EXCEPT !.child = None, !.rebuild = TRUE]
    /\ UNCHANGED <<out, owned, events, watching, raw, captured, app>>

\* RawSelection, and the request.
Select ==
    /\ loop.at = "select"
    /\ loop' = [loop EXCEPT !.at = "await", !.paths = raw.paths, !.reply = None,
                    !.full = helper.full \/ raw.full, !.current = TRUE]
    /\ UNCHANGED <<disk, out, owned, events, watching, raw, captured, helper,
                   app>>

\* What the helper's output may be made from while it works: nothing but the
\* files it was asked about, and all it was asked about when it is done.
Made(ps) ==
    [p \in Files |-> IF p \notin ps THEN out[p]
                     ELSE IF p = Tool THEN helper.identity ELSE disk.file[p]]
Asked == IF loop.full THEN Files ELSE (loop.paths \cap Files) \ {Tool}

Write(ps) ==
    /\ out' = Made(ps)
    /\ events' = IF out' = out THEN events ELSE events \cup {"out"}

\* The helper answers; an error may follow a partial publication.
Answer ==
    /\ loop.at = "await" /\ loop.reply = None /\ helper.child = "live"
    /\ \/ /\ Write(Asked) /\ NoFault
          /\ loop' = [loop EXCEPT
                 !.reply = IF out' = out THEN "same" ELSE "generated"]
       \/ /\ \E ps \in SUBSET Asked : Write(ps)
          /\ Fault /\ loop' = [loop EXCEPT !.reply = "error"]
    /\ UNCHANGED <<owned, watching, raw, captured, helper, app>>

\* The helper dies, idle or at work.
Die ==
    /\ helper.child = "live" /\ Fault
    /\ helper' = [helper EXCEPT !.child = "dead"]
    /\ \/ /\ loop.at = "await" /\ loop.reply = None
          /\ \E ps \in SUBSET Asked : Write(ps)
       \/ UNCHANGED <<out, events>>
    /\ UNCHANGED <<owned, watching, raw, captured, loop, app>>

\* Mutant: an error is taken to mean that nothing was generated.
ReceiveTrusting ==
    /\ loop.at = "await" /\ loop.reply # None
    /\ helper' = [helper EXCEPT !.rebuild = @ \/ loop.reply = "generated"]
    /\ IF loop.reply = "error" THEN Fail
       ELSE loop' = [loop EXCEPT !.at = "reconcile", !.paths = {},
                                 !.full = FALSE, !.reply = None]
    /\ UNCHANGED <<disk, out, owned, events, watching, raw, captured, app>>

\* The reply.  What was generated, or may have been, needs a full build.
Receive ==
    /\ loop.at = "await" /\ loop.reply # None
    /\ helper' = [helper EXCEPT
          !.rebuild = @ \/ loop.reply \in {"generated", "error"}]
    /\ IF loop.reply = "error" THEN Fail
       ELSE loop' = [loop EXCEPT !.at = "reconcile", !.paths = {},
                                 !.full = FALSE, !.reply = None]
    /\ UNCHANGED <<disk, out, owned, events, watching, raw, captured, app>>

\* The helper is gone, takes too long, or cannot be written to.
LoseHelper ==
    /\ loop.at = "await"
    /\ \/ helper.child = "dead" /\ NoFault
       \/ helper.child = "live" /\ loop.reply = None /\ Fault
    /\ \/ loop.reply = None /\ \E ps \in SUBSET Asked : Write(ps)
       \/ UNCHANGED <<out, events>>
    /\ helper' = [helper EXCEPT !.child = None, !.rebuild = TRUE]
    /\ Fail
    /\ UNCHANGED <<owned, watching, raw, captured, app>>

\* Project.Reconcile captures what the helper wrote ahead of its events.
Reconcile ==
    /\ loop.at = "reconcile"
    /\ Observe /\ Go("identify")
    /\ UNCHANGED <<disk, out, owned, events, watching, raw, helper, app>>

\* The helper that answered must still be the one its source says.
Identify ==
    /\ loop.at = "identify"
    /\ IF helper.identity = Identity THEN Go("acknowledge") ELSE Again
    /\ UNCHANGED <<disk, out, owned, events, watching, raw, captured, helper,
                   app>>

\* Mutant: the record is dropped whatever was recorded since.
AcknowledgeBlindly ==
    /\ loop.at = "acknowledge"
    /\ raw' = [raw EXCEPT !.paths = {}, !.full = FALSE]
    /\ helper' = [helper EXCEPT !.current = loop.current, !.full = FALSE]
    /\ IF loop.current THEN Done("prepare", loop.failed) ELSE Again
    /\ UNCHANGED <<disk, out, owned, events, watching, captured, app>>

\* AcknowledgeRaw: the record is dropped only if it is still what was selected.
Acknowledge ==
    /\ loop.at = "acknowledge"
    /\ IF loop.current
       THEN /\ raw' = [raw EXCEPT !.paths = {}, !.full = FALSE]
            /\ helper' = [helper EXCEPT !.current = TRUE, !.full = FALSE]
            /\ Done("prepare", loop.failed)
       ELSE UNCHANGED <<raw, helper>> /\ Again
    /\ UNCHANGED <<disk, out, owned, events, watching, captured, app>>

---------------------------------------------------------------------------
(* The build. *)

\* Prepare and guardBuild.  What the helper generated is built whole; anything
\* else may be installed into the running host, unless it asks for a build.
Prepare(whole) ==
    /\ loop.at = "prepare" /\ (helper.rebuild => whole)
    /\ loop' = [loop EXCEPT !.build = captured.out, !.admissible = TRUE,
                    !.whole = whole, !.at = IF whole THEN "publish" ELSE "commit"]
    /\ UNCHANGED <<disk, out, owned, events, watching, raw, captured, helper,
                   app>>

\* Mutant: the event epoch is not required.
AdmittedRevision == loop.admissible

\* ProjectBuild.commit refuses a revision or an epoch that is not current.
Admitted == loop.admissible /\ helper.current

\* Mutant: output is written again though its bytes are the same.
OutputAgain == owned' = loop.build /\ events' = events \cup {"owned"}

Output == /\ owned' = loop.build
          /\ events' = IF owned' = owned THEN events ELSE events \cup {"owned"}

\* The new declarations are published while the host compiles.
Publish ==
    /\ loop.at = "publish"
    /\ IF Admitted THEN Output /\ Go("commit")
                   ELSE UNCHANGED <<owned, events>> /\ Again
    /\ UNCHANGED <<disk, out, watching, raw, captured, helper, app>>

Commit ==
    /\ loop.at = "commit"
    /\ IF Admitted
       THEN /\ Output
            /\ app' = [out   |-> loop.build,
                       built |-> IF loop.whole THEN loop.build
                                  ELSE app.built]
            /\ helper' = [helper EXCEPT !.rebuild = @ /\ ~loop.whole]
            /\ Done("idle", FALSE)
       ELSE UNCHANGED <<owned, events, app, helper>> /\ Again
    /\ UNCHANGED <<disk, out, watching, raw, captured>>

\* Reconciling, preparing, compiling or the new host fails.
BuildFails ==
    /\ loop.at \in {"reconcile", "prepare", "publish", "commit"} /\ Fault /\ Fail
    /\ helper' = [helper EXCEPT !.rebuild = @ \/ loop.at = "reconcile"]
    /\ UNCHANGED <<out, owned, events, watching, raw, captured, app>>

---------------------------------------------------------------------------
Watcher == (\E e \in Watched : Deliver(e)) \/ Acquire
Pass    == \/ Wake \/ RefreshKnown \/ (\E b \in BOOLEAN : RefreshChanged(b))
           \/ StartHelper \/ Select \/ Receive \/ LoseHelper \/ Reconcile
           \/ Identify \/ Acknowledge \/ (\E b \in BOOLEAN : Prepare(b))
           \/ Publish \/ Commit
Next == \/ Watcher \/ Pass \/ Answer \/ Die \/ RefreshFails \/ BuildFails
        \/ Overflow \/ \E p \in Files : Edit(p)

Spec == Init /\ [][Next]_vars

\* The watcher and the loop run; a helper that lives answers, at the latest
\* with the pass's deadline.
FairSpec == Spec /\ WF_vars(Watcher) /\ WF_vars(Pass) /\ WF_vars(Answer)

---------------------------------------------------------------------------
(* Properties. *)

\* Known(p): the last edit of p was recorded.
Known(p) == p \notin events /\ "overflow" \notin events

\* A recorded edit that the helper's output does not show yet is asked for
\* again, whatever failed, died or was acknowledged meanwhile: it is in the
\* record, or the next request is a full one.
NoInputForgotten ==
    \A p \in Files : Known(p) /\ out[p] # disk.file[p] =>
        \/ p \in raw.paths \/ raw.full \/ helper.full \/ helper.child = None
        \/ p = Tool /\ helper.identity # Identity

\* What is admitted was generated from every edit that had been recorded.
AdmittedIsGenerated ==
    [][loop.at = "commit" /\ loop'.at = "idle" /\ ~loop'.failed =>
          \A p \in Files : Known(p) => app'.out[p] = disk.file[p]]_vars

\* What the helper generated never reaches the application by an edit of the
\* running host: devgen's promise, "True requires a full application
\* replacement", also when a failed pass wrote and the next one says false.
GeneratedIsBuilt == app.built = app.out

\* The application that runs is whole: of every edit that was known, and built
\* of everything that was generated from them.
AppIsOfItsInputs == AdmittedIsGenerated /\ []GeneratedIsBuilt

\* When the edits stop, the loop of the session's own writes and the passes
\* they cause comes to rest, with everything admitted or a failure shown.
EditsReachTheApp ==
    <>[](/\ loop.at = "idle" /\ events = {}
         /\ \/ loop.failed
            \/ app.out = disk.file)
=============================================================================
