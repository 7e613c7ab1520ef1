-------------------------- MODULE Generation_proofs --------------------------
(***************************************************************************)
(* Proofs about Generation, for any set of files and any number of edits   *)
(* and failures: no recorded edit is forgotten, what is admitted was       *)
(* generated from all of them, and what was generated is built.            *)
(***************************************************************************)
EXTENDS Generation, TLAPS

USE ConstantsAssumption

(***************************************************************************)
(* The inductive invariant.  The bounds on edits and failures play no part *)
(* in it, so that the types are the unbounded ones.                        *)
(***************************************************************************)
Any == [Files -> Nat]

Disks   == [file : Any, edits : Nat, faults : Nat]
Raws    == [paths : SUBSET Watched, full : BOOLEAN, signal : BOOLEAN]
Helpers == [child : {"live", "dead", None}, identity : Nat,
            full : BOOLEAN, rebuild : BOOLEAN, current : BOOLEAN]
Loops   == [at : Phases, paths : SUBSET Watched, full : BOOLEAN,
            current : BOOLEAN, reply : {None, "same", "generated", "error"},
            identity : Nat, build : Any, admissible : BOOLEAN,
            whole : BOOLEAN, failed : BOOLEAN]

Shape ==
  /\ disk \in Disks /\ out \in Any /\ owned \in Any
  /\ events \subseteq Watched /\ watching \in Watched \cup {None}
  /\ raw \in Raws /\ captured \in [out : Any, signal : BOOLEAN]
  /\ helper \in Helpers /\ loop \in Loops
  /\ app \in [out : Any, built : Any]

\* What the helper makes of its own source is what it was built from, unless
\* it is still to be asked for everything.
ToolIsMade ==
  helper.full \/ helper.child = None \/ out[Tool] = helper.identity

\* A request under way asks for the whole record, unless there is more of it.
Selected ==
  loop.at = "await" /\ loop.reply = None =>
    /\ helper.full => loop.full
    /\ loop.current => loop.paths = raw.paths /\ (raw.full => loop.full)

UpToDate ==
  /\ out[Tool] = helper.identity
  /\ \A p \in Files : Known(p) =>
        out[p] = disk.file[p] \/ (p = Tool /\ helper.identity # Identity)

Fresh == \A p \in Files : Known(p) => out[p] = disk.file[p]

\* What a pass that was not overtaken knows of the helper's output.
Generated ==
  /\ (\/ loop.at = "await" /\ loop.reply \in {"same", "generated"}
      \/ loop.at \in {"reconcile", "identify"}) => (loop.current => UpToDate)
  /\ loop.at = "acknowledge" => (loop.current => UpToDate /\ Fresh)
  /\ loop.at \in {"prepare", "publish", "commit"} => (helper.current => Fresh)

\* What the revision holds, and what is about to be built of it.
Captured ==
  /\ loop.at \in {"identify", "acknowledge", "prepare", "publish", "commit"}
       => captured.out = out
  /\ loop.at \in {"publish", "commit"} /\ loop.admissible
       => loop.build = captured.out

\* The helper may have written what the session has not been told of.
Untold ==
  loop.at = "await" /\ \/ loop.reply \in {"generated", "error"}
                       \/ loop.reply = None /\ helper.child = "dead"

\* Unless a full build is asked for, the application is of the output.
Built ==
  /\ GeneratedIsBuilt
  /\ ~helper.rebuild /\ ~Untold => out = app.out /\ captured.out = app.out
  /\ loop.at = "publish" => loop.whole
  /\ loop.at = "commit" /\ ~loop.whole => ~helper.rebuild

Record == NoInputForgotten /\ ToolIsMade
Passing  == Selected /\ Generated
Inv == Shape /\ Record /\ Passing /\ Captured /\ Built

LEMMA InitInv == Init => Inv
<1> SUFFICES ASSUME Init PROVE Inv
  OBVIOUS
<1>1. Zero \in Any /\ Held.at = "refresh" /\ loop.at = "idle"
  BY DEF Zero, Any, Init, Held
<1>2. Shape
  BY <1>1 DEF Init, Shape, Held, Phases, Watched, None, Disks, Raws, Helpers,
     Loops
<1>3. Record
  BY DEF Init, Record, NoInputForgotten, ToolIsMade, Zero
<1>4. Passing /\ Captured
  BY <1>1 DEF Passing, Selected, Generated, Captured
<1>5. Built
  BY <1>1 DEF Init, Built, GeneratedIsBuilt, Untold
<1> QED
  BY <1>2, <1>3, <1>4, <1>5 DEF Inv

\* The loop forgets what it held.
Reset(at) ==
  /\ loop' \in Loops /\ loop'.at = at /\ loop'.reply = None
  /\ ~loop'.current /\ ~loop'.admissible /\ ~loop'.whole

LEMMA DoneResets ==
  ASSUME NEW at \in Phases, NEW failed \in BOOLEAN, Done(at, failed)
  PROVE  Reset(at)
<1>1. PICK held : held = Held
  OBVIOUS
<1>2. /\ held \in Loops /\ held.reply = None
      /\ ~held.current /\ ~held.admissible /\ ~held.whole
  BY <1>1 DEF Held, Loops, Phases, Zero, Any, None, Watched
<1>3. loop' = [held EXCEPT !.at = at, !.failed = failed]
  BY <1>1 DEF Done
<1> QED
  BY <1>2, <1>3 DEF Reset, Loops

LEMMA Resets ==
  ASSUME Shape
  PROVE  /\ Again => Reset("refresh")
         /\ Fail => Reset("idle")
         /\ Done("select", loop.failed) => Reset("select")
         /\ Done("prepare", loop.failed) => Reset("prepare")
         /\ Done("idle", FALSE) => Reset("idle")
<1>1. loop.failed \in BOOLEAN
  BY DEF Shape, Loops
<1>2. {"refresh", "idle", "select", "prepare"} \subseteq Phases
  BY DEF Phases
<1> QED
  BY <1>1, <1>2, DoneResets DEF Again, Fail

(***************************************************************************)
(* Files and their watcher.  An edit makes its file unknown until its      *)
(* event is delivered, and delivery puts it in the record.                 *)
(***************************************************************************)
LEMMA EditInv ==
  ASSUME Inv, NEW p \in Files, Edit(p)
  PROVE  Inv'
<1> USE DEF Edit, None
<1>0. Shape
  BY DEF Inv
<1>1. Shape'
  <2>1. disk' \in Disks
    <3>1. PICK file : file = [disk.file EXCEPT ![p] = disk.file[p] + 1]
      OBVIOUS
    <3>2. file \in Any
      BY <1>0, <3>1 DEF Shape, Disks, Any
    <3>3. PICK d : d = [disk EXCEPT !.file = file, !.edits = disk.edits + 1]
      OBVIOUS
    <3>4. disk' = d
      BY <1>0, <3>1, <3>3 DEF Shape, Disks, Any
    <3>5. disk \in Disks /\ disk.edits + 1 \in Nat
      BY <1>0 DEF Shape, Disks
    <3>6. d \in Disks
      BY <3>2, <3>3, <3>5 DEF Disks
    <3> QED
      BY <3>4, <3>6
  <2>2. events' \subseteq Watched
    BY <1>0 DEF Shape, Watched
  <2> QED
    BY <1>0, <2>1, <2>2 DEF Shape
<1>2. Record'
  BY <1>0, <1>1 DEF Inv, Shape, Disks, Raws, Helpers, Loops, Any, Record,
     NoInputForgotten, ToolIsMade, Known, Identity
<1>3. Passing'
  BY <1>0, <1>1 DEF Inv, Shape, Disks, Raws, Helpers, Loops, Any, Passing,
     Selected, Generated, UpToDate, Fresh, Known, Identity
<1>4. Captured'
  BY <1>0, <1>1 DEF Inv, Shape, Disks, Raws, Helpers, Loops, Any, Captured
<1>5. Built'
  BY <1>0, <1>1 DEF Inv, Shape, Disks, Raws, Helpers, Loops, Any, Built,
     GeneratedIsBuilt, Untold
<1> QED
  BY <1>1, <1>2, <1>3, <1>4, <1>5 DEF Inv

LEMMA OverflowInv ==
  ASSUME Inv, Overflow
  PROVE  Inv'
<1> USE DEF Overflow, Fault, None
<1>0. Shape
  BY DEF Inv
<1>1. Shape'
  <2>1. disk' \in Disks
    BY <1>0 DEF Shape, Disks, Any
  <2>2. events' \subseteq Watched
    BY <1>0 DEF Shape, Watched
  <2> QED
    BY <1>0, <2>1, <2>2 DEF Shape
<1>2. Record'
  BY <1>0, <1>1 DEF Inv, Shape, Disks, Raws, Helpers, Loops, Any, Record,
     NoInputForgotten, ToolIsMade, Known, Identity
<1>3. Passing'
  BY <1>0, <1>1 DEF Inv, Shape, Disks, Raws, Helpers, Loops, Any, Passing,
     Selected, Generated, UpToDate, Fresh, Known, Identity
<1>4. Captured'
  BY <1>0, <1>1 DEF Inv, Shape, Disks, Raws, Helpers, Loops, Any, Captured
<1>5. Built'
  BY <1>0, <1>1 DEF Inv, Shape, Disks, Raws, Helpers, Loops, Any, Built,
     GeneratedIsBuilt, Untold
<1> QED
  BY <1>1, <1>2, <1>3, <1>4, <1>5 DEF Inv

LEMMA DeliverInv ==
  ASSUME Inv, NEW e \in Watched, Deliver(e)
  PROVE  Inv'
<1> USE DEF Deliver, RecordRaw, None
<1>0. Shape
  BY DEF Inv
<1>1. Shape'
  <2>1. events' \subseteq Watched
    BY <1>0 DEF Shape, Watched
  <2>2. raw' \in Raws
    BY <1>0 DEF Shape, Raws, Watched
  <2>3. helper' \in Helpers
    BY <1>0 DEF Shape, Helpers, Disks, Any
  <2>4. loop' \in Loops
    BY <1>0 DEF Shape, Loops, Phases, Raws, Disks, Any
  <2>5. watching' \in Watched \cup {None}
    BY <1>0 DEF Shape, Watched
  <2> QED
    BY <1>0, <2>1, <2>2, <2>3, <2>4, <2>5 DEF Shape
<1>2. Record'
  BY ZenonT(60), <1>0, <1>1 DEF Inv, Shape, Disks, Raws, Helpers, Loops, Any,
     Record,
     NoInputForgotten, ToolIsMade, Known, Identity
<1>3. Passing'
  BY <1>0, <1>1 DEF Inv, Shape, Disks, Raws, Helpers, Loops, Any, Passing,
     Selected, Generated, UpToDate, Fresh, Known, Identity
<1>4. Captured'
  BY <1>0, <1>1 DEF Inv, Shape, Disks, Raws, Helpers, Loops, Any, Captured
<1>5. Built'
  BY <1>0, <1>1 DEF Inv, Shape, Disks, Raws, Helpers, Loops, Any, Built,
     GeneratedIsBuilt, Untold
<1> QED
  BY <1>1, <1>2, <1>3, <1>4, <1>5 DEF Inv

LEMMA AcquireInv ==
  ASSUME Inv, Acquire
  PROVE  Inv'
<1> USE DEF Acquire, Observe, None
<1>0. Shape
  BY DEF Inv
<1>1. Shape'
  <2>1. captured' \in [out : Any, signal : BOOLEAN]
    <3>1. captured' = captured \/ captured' = [out |-> out, signal |-> TRUE]
      OBVIOUS
    <3>2. PICK new : new = [out |-> out, signal |-> TRUE]
      OBVIOUS
    <3>3. out \in Any /\ captured \in [out : Any, signal : BOOLEAN]
      BY <1>0 DEF Shape
    <3>4. new \in [out : Any, signal : BOOLEAN]
      BY <3>2, <3>3
    <3>5. captured' \in {captured, new}
      BY <3>1, <3>2
    <3> QED
      BY <3>3, <3>4, <3>5
  <2>2. loop' \in Loops
    BY <1>0 DEF Shape, Loops, Phases, Raws, Disks, Any
  <2>3. watching' \in Watched \cup {None}
    BY <1>0 DEF Shape, Watched
  <2> QED
    BY <1>0, <2>1, <2>2, <2>3 DEF Shape
<1>2. Record'
  BY <1>0, <1>1 DEF Inv, Shape, Disks, Raws, Helpers, Loops, Any, Record,
     NoInputForgotten, ToolIsMade, Known, Identity
<1>3. Passing'
  BY <1>0, <1>1 DEF Inv, Shape, Disks, Raws, Helpers, Loops, Any, Passing,
     Selected, Generated, UpToDate, Fresh, Known, Identity
<1>4. Captured'
  BY <1>0, <1>1 DEF Inv, Shape, Disks, Raws, Helpers, Loops, Any, Captured
<1>5. Built'
  BY <1>0, <1>1 DEF Inv, Shape, Disks, Raws, Helpers, Loops, Any, Built,
     GeneratedIsBuilt, Untold
<1> QED
  BY <1>1, <1>2, <1>3, <1>4, <1>5 DEF Inv

(***************************************************************************)
(* The pass through the helper.                                            *)
(***************************************************************************)
LEMMA WakeInv ==
  ASSUME Inv, Wake
  PROVE  Inv'
<1> USE DEF Wake, Go, None
<1>0. Shape
  BY DEF Inv
<1>1. Shape'
  <2>1. loop' \in Loops
    BY <1>0 DEF Shape, Loops, Phases, Raws, Disks, Any
  <2>2. raw' \in Raws
    BY <1>0 DEF Shape, Raws, Watched
  <2>3. captured' \in [out : Any, signal : BOOLEAN]
    BY <1>0 DEF Shape, Any
  <2> QED
    BY <1>0, <2>1, <2>2, <2>3 DEF Shape
<1>2. Record'
  BY <1>0, <1>1 DEF Inv, Shape, Disks, Raws, Helpers, Loops, Any, Record,
     NoInputForgotten, ToolIsMade, Known, Identity
<1>3. Passing'
  BY <1>0, <1>1 DEF Inv, Shape, Disks, Raws, Helpers, Loops, Any, Passing,
     Selected, Generated, UpToDate, Fresh, Known, Identity
<1>4. Captured'
  BY <1>0, <1>1 DEF Inv, Shape, Disks, Raws, Helpers, Loops, Any, Captured
<1>5. Built'
  BY <1>0, <1>1 DEF Inv, Shape, Disks, Raws, Helpers, Loops, Any, Built,
     GeneratedIsBuilt, Untold
<1> QED
  BY <1>1, <1>2, <1>3, <1>4, <1>5 DEF Inv

LEMMA RefreshKnownInv ==
  ASSUME Inv, RefreshKnown
  PROVE  Inv'
<1> USE DEF RefreshKnown, Go, None
<1>0. Shape
  BY DEF Inv
<1>1. Shape'
  <2>1. loop' \in Loops
    BY <1>0 DEF Shape, Loops, Phases, Raws, Disks, Any
  <2> QED
    BY <1>0, <2>1 DEF Shape
<1>2. Record'
  BY <1>0, <1>1 DEF Inv, Shape, Disks, Raws, Helpers, Loops, Any, Record,
     NoInputForgotten, ToolIsMade, Known, Identity
<1>3. Passing'
  BY <1>0, <1>1 DEF Inv, Shape, Disks, Raws, Helpers, Loops, Any, Passing,
     Selected, Generated, UpToDate, Fresh, Known, Identity
<1>4. Captured'
  BY <1>0, <1>1 DEF Inv, Shape, Disks, Raws, Helpers, Loops, Any, Captured
<1>5. Built'
  BY <1>0, <1>1 DEF Inv, Shape, Disks, Raws, Helpers, Loops, Any, Built,
     GeneratedIsBuilt, Untold
<1> QED
  BY <1>1, <1>2, <1>3, <1>4, <1>5 DEF Inv

LEMMA RefreshChangedInv ==
  ASSUME Inv, NEW b \in BOOLEAN, RefreshChanged(b)
  PROVE  Inv'
<1> USE DEF RefreshChanged, Identity, None
<1>0. Shape
  BY DEF Inv
<1>1. Shape'
  <2>1. helper' \in Helpers
    BY <1>0 DEF Shape, Helpers, Disks, Any
  <2>2. out' \in Any
    BY <1>0 DEF Shape, Disks, Helpers, Any
  <2>3. events' \subseteq Watched
    BY <1>0 DEF Shape, Watched
  <2>4. loop' \in Loops
    BY <1>0 DEF Shape, Loops, Phases, Raws, Disks, Any
  <2> QED
    BY <1>0, <2>1, <2>2, <2>3, <2>4 DEF Shape
<1>2. Record'
  BY <1>0, <1>1 DEF Inv, Shape, Disks, Raws, Helpers, Loops, Any, Record,
     NoInputForgotten, ToolIsMade, Known, Identity
<1>3. Passing'
  BY <1>0, <1>1 DEF Inv, Shape, Disks, Raws, Helpers, Loops, Any, Passing,
     Selected, Generated, UpToDate, Fresh, Known, Identity
<1>4. Captured'
  BY <1>0, <1>1 DEF Inv, Shape, Disks, Raws, Helpers, Loops, Any, Captured
<1>5. Built'
  BY <1>0, <1>1 DEF Inv, Shape, Disks, Raws, Helpers, Loops, Any, Built,
     GeneratedIsBuilt, Untold
<1> QED
  BY <1>1, <1>2, <1>3, <1>4, <1>5 DEF Inv

LEMMA StartHelperInv ==
  ASSUME Inv, StartHelper
  PROVE  Inv'
<1> USE DEF StartHelper, Identity, None
<1>0. Shape
  BY DEF Inv
<1>r. /\ Again => Reset("refresh")
      /\ Fail => Reset("idle")
      /\ Done("select", loop.failed) => Reset("select")
      /\ Done("prepare", loop.failed) => Reset("prepare")
      /\ Done("idle", FALSE) => Reset("idle")
  BY <1>0, Resets
<1>1. Shape'
  <2>1. helper' \in Helpers
    BY ZenonT(60), <1>0 DEF Shape, Helpers, Disks, Any
  <2>2. loop' \in Loops
    BY <1>r, <1>0 DEF Shape, Loops, Phases, Raws, Disks, Any, Reset
  <2> QED
    BY <1>0, <2>1, <2>2 DEF Shape
<1>2. Record'
  BY ZenonT(60), <1>r, <1>0, <1>1 DEF Inv, Shape, Disks, Raws, Helpers, Loops,
     Any, Record,
     NoInputForgotten, ToolIsMade, Known, Identity, Reset
<1>3. Passing'
  BY <1>r, <1>0, <1>1 DEF Inv, Shape, Disks, Raws, Helpers, Loops, Any,
     Passing, Selected, Generated, UpToDate, Fresh, Known, Identity, Reset
<1>4. Captured'
  BY <1>r, <1>0, <1>1 DEF Inv, Shape, Disks, Raws, Helpers, Loops, Any,
     Captured, Reset
<1>5. Built'
  <2>1. helper'.rebuild = helper.rebuild /\ loop'.at \in {"refresh", "select"}
    BY <1>r, <1>0 DEF Shape, Helpers, Reset
  <2>2. ~Untold
    BY DEF Untold
  <2> QED
    BY <2>1, <2>2 DEF Inv, Built, GeneratedIsBuilt
<1> QED
  BY <1>1, <1>2, <1>3, <1>4, <1>5 DEF Inv

LEMMA SelectInv ==
  ASSUME Inv, Select
  PROVE  Inv'
<1> USE DEF Select, None
<1>0. Shape
  BY DEF Inv
<1>1. Shape'
  <2>1. loop' \in Loops
    BY <1>0 DEF Shape, Loops, Phases, Raws, Disks, Any
  <2> QED
    BY <1>0, <2>1 DEF Shape
<1>2. Record'
  BY <1>0, <1>1 DEF Inv, Shape, Disks, Raws, Helpers, Loops, Any, Record,
     NoInputForgotten, ToolIsMade, Known, Identity
<1>3. Passing'
  BY <1>0, <1>1 DEF Inv, Shape, Disks, Raws, Helpers, Loops, Any, Passing,
     Selected, Generated, UpToDate, Fresh, Known, Identity
<1>4. Captured'
  BY <1>0, <1>1 DEF Inv, Shape, Disks, Raws, Helpers, Loops, Any, Captured
<1>5. Built'
  BY <1>0, <1>1 DEF Inv, Shape, Disks, Raws, Helpers, Loops, Any, Built,
     GeneratedIsBuilt, Untold
<1> QED
  BY <1>1, <1>2, <1>3, <1>4, <1>5 DEF Inv

\* An answer makes everything that was asked for; what was asked for is
\* everything that NoInputForgotten names, if nothing was recorded since.
LEMMA AnswerInv ==
  ASSUME Inv, Answer
  PROVE  Inv'
<1> USE DEF Answer, Write, Made, Asked, Fault, NoFault, None
<1>0. Shape
  BY DEF Inv
<1>1. Shape'
  <2>1. disk' \in Disks
    BY <1>0 DEF Shape, Disks, Any
  <2>2. out' \in Any
    BY <1>0 DEF Shape, Disks, Helpers, Any
  <2>3. events' \subseteq Watched
    BY <1>0 DEF Shape, Watched
  <2>4. loop' \in Loops
    BY <1>0 DEF Shape, Loops, Phases, Raws, Disks, Any
  <2> QED
    BY <1>0, <2>1, <2>2, <2>3, <2>4 DEF Shape
<1>2. Record'
  BY <1>0, <1>1 DEF Inv, Shape, Disks, Raws, Helpers, Loops, Any, Record,
     NoInputForgotten, ToolIsMade, Known, Identity
<1>3. Passing'
  <2>1. loop'.at = "await" /\ loop'.reply # None /\ loop'.current = loop.current
    BY <1>0 DEF Shape, Loops
  <2>2. Selected'
    BY <2>1 DEF Selected
  <2>3. ASSUME loop'.reply \in {"same", "generated"}, loop.current PROVE UpToDate'
    <3>1. /\ \A p \in Files : Known(p)' => Known(p)
          /\ UNCHANGED <<disk, raw, helper>>
          /\ out' = Made(Asked)
      <4>1. loop'.reply # "error"
        BY <2>3
      <4>2. UNCHANGED disk /\ out' = Made(Asked) /\ events \subseteq events'
        BY <1>0, <4>1 DEF Shape, Loops
      <4> QED
        BY <4>2 DEF Known
    <3>2. helper.child = "live" /\ (helper.full => loop.full)
          /\ loop.paths = raw.paths /\ (raw.full => loop.full)
      BY <2>3 DEF Inv, Passing, Selected
    <3>3. out'[Tool] = helper.identity
      <4>1. Tool \in Asked \/ (Tool \notin Asked /\ out[Tool] = helper.identity)
        BY <3>2 DEF Inv, Record, ToolIsMade
      <4> QED
        BY <3>1, <4>1
    <3>4. ASSUME NEW p \in Files, Known(p), p # Tool
          PROVE  out'[p] = disk.file[p]
      <4>1. out[p] # disk.file[p] => p \in Asked
        BY <3>2, <3>4 DEF Inv, Record, NoInputForgotten
      <4> QED
        BY <3>1, <3>4, <4>1
    <3> QED
      BY <3>1, <3>3, <3>4 DEF UpToDate, Identity
  <2> QED
    BY <2>1, <2>2, <2>3 DEF Passing, Generated
<1>4. Captured'
  BY <1>0, <1>1 DEF Inv, Shape, Disks, Raws, Helpers, Loops, Any, Captured
<1>5. Built'
  BY <1>0, <1>1 DEF Inv, Shape, Disks, Raws, Helpers, Loops, Any, Built,
     GeneratedIsBuilt, Untold
<1> QED
  BY <1>1, <1>2, <1>3, <1>4, <1>5 DEF Inv

LEMMA DieInv ==
  ASSUME Inv, Die
  PROVE  Inv'
<1> USE DEF Die, Write, Made, Asked, Fault, None
<1>0. Shape
  BY DEF Inv
<1>1. Shape'
  <2>1. disk' \in Disks
    BY <1>0 DEF Shape, Disks, Any
  <2>2. helper' \in Helpers
    BY <1>0 DEF Shape, Helpers, Disks, Any
  <2>3. out' \in Any
    BY <1>0 DEF Shape, Disks, Helpers, Any
  <2>4. events' \subseteq Watched
    BY <1>0 DEF Shape, Watched
  <2> QED
    BY <1>0, <2>1, <2>2, <2>3, <2>4 DEF Shape
<1>2. Record'
  BY <1>0, <1>1 DEF Inv, Shape, Disks, Raws, Helpers, Loops, Any, Record,
     NoInputForgotten, ToolIsMade, Known, Identity
<1>3. Passing'
  BY <1>0, <1>1 DEF Inv, Shape, Disks, Raws, Helpers, Loops, Any, Passing,
     Selected, Generated, UpToDate, Fresh, Known, Identity
<1>4. Captured'
  BY <1>0, <1>1 DEF Inv, Shape, Disks, Raws, Helpers, Loops, Any, Captured
<1>5. Built'
  BY <1>0, <1>1 DEF Inv, Shape, Disks, Raws, Helpers, Loops, Any, Built,
     GeneratedIsBuilt, Untold
<1> QED
  BY <1>1, <1>2, <1>3, <1>4, <1>5 DEF Inv

\* A reply that says nothing was generated leaves the output as it was.
LEMMA ReceiveInv ==
  ASSUME Inv, Receive
  PROVE  Inv'
<1> USE DEF Receive, None
<1>0. Shape
  BY DEF Inv
<1>r. /\ Again => Reset("refresh")
      /\ Fail => Reset("idle")
      /\ Done("select", loop.failed) => Reset("select")
      /\ Done("prepare", loop.failed) => Reset("prepare")
      /\ Done("idle", FALSE) => Reset("idle")
  BY <1>0, Resets
<1>1. /\ helper' \in Helpers /\ helper'.current = helper.current
      /\ helper'.full = helper.full /\ helper'.child = helper.child
      /\ helper'.identity = helper.identity
      /\ helper'.rebuild = (helper.rebuild \/ loop.reply \in {"generated", "error"})
  BY <1>0 DEF Shape, Helpers
<1>2. CASE loop.reply = "error"
  <2>1. Reset("idle")
    BY <1>r, <1>2
  <2>2. Shape'
    BY <1>0, <1>1, <2>1 DEF Shape, Reset
  <2>3. Record' /\ Passing' /\ Captured'
    BY <1>1, <2>1 DEF Inv, Record, NoInputForgotten, ToolIsMade, Known,
       Identity,
       Passing, Selected, Generated, Captured, Reset
  <2>4. Built'
    BY <1>1, <1>2, <2>1 DEF Inv, Built, GeneratedIsBuilt, Reset
  <2> QED
    BY <2>2, <2>3, <2>4 DEF Inv
<1>3. CASE loop.reply \in {"same", "generated"}
  <2>1. loop' = [loop EXCEPT !.at = "reconcile", !.paths = {}, !.full = FALSE,
                             !.reply = None]
    BY <1>3
  <2>2. loop' \in Loops /\ loop'.at = "reconcile" /\ loop'.current = loop.current
    BY <1>0, <2>1 DEF Shape, Loops, Phases
  <2>3. Shape'
    BY <1>0, <1>1, <2>2 DEF Shape
  <2>4. Record' /\ Passing' /\ Captured'
    <3>1. Record'
      BY <1>1 DEF Inv, Record, NoInputForgotten, ToolIsMade, Known, Identity
    <3>2. loop.current => UpToDate
      BY <1>3 DEF Inv, Passing, Generated
    <3>3. UpToDate => UpToDate'
      BY <1>1 DEF UpToDate, Known, Identity
    <3>4. Selected' /\ Captured'
      BY <2>2 DEF Selected, Captured
    <3>5. Generated'
      BY <2>2, <3>2, <3>3 DEF Generated
    <3> QED
      BY <3>1, <3>4, <3>5 DEF Passing
  <2>5. Built'
    BY <1>1, <1>3, <2>2 DEF Inv, Built, GeneratedIsBuilt, Untold
  <2> QED
    BY <2>3, <2>4, <2>5 DEF Inv
<1>4. loop.reply = "error" \/ loop.reply \in {"same", "generated"}
  BY <1>0 DEF Shape, Loops
<1> QED
  BY <1>2, <1>3, <1>4

LEMMA LoseHelperInv ==
  ASSUME Inv, LoseHelper
  PROVE  Inv'
<1> USE DEF LoseHelper, Write, Made, Asked, Fault, NoFault, None
<1>0. Shape
  BY DEF Inv
<1>r. /\ Again => Reset("refresh")
      /\ Fail => Reset("idle")
      /\ Done("select", loop.failed) => Reset("select")
      /\ Done("prepare", loop.failed) => Reset("prepare")
      /\ Done("idle", FALSE) => Reset("idle")
  BY <1>0, Resets
<1>1. Shape'
  <2>1. disk' \in Disks
    BY <1>0 DEF Shape, Disks, Any
  <2>2. out' \in Any
    BY <1>0 DEF Shape, Disks, Helpers, Any
  <2>3. events' \subseteq Watched
    BY <1>0 DEF Shape, Watched
  <2>4. helper' \in Helpers
    BY <1>0 DEF Shape, Helpers, Disks, Any
  <2>5. loop' \in Loops
    BY <1>r, <1>0 DEF Shape, Loops, Phases, Raws, Disks, Any, Reset
  <2> QED
    BY <1>0, <2>1, <2>2, <2>3, <2>4, <2>5 DEF Shape
<1>2. Record'
  BY <1>r, <1>0, <1>1 DEF Inv, Shape, Disks, Raws, Helpers, Loops, Any, Record,
     NoInputForgotten, ToolIsMade, Known, Identity, Reset
<1>3. Passing'
  BY <1>r, <1>0, <1>1 DEF Inv, Shape, Disks, Raws, Helpers, Loops, Any,
     Passing, Selected, Generated, UpToDate, Fresh, Known, Identity, Reset
<1>4. Captured'
  BY <1>r, <1>0, <1>1 DEF Inv, Shape, Disks, Raws, Helpers, Loops, Any,
     Captured, Reset
<1>5. Built'
  BY <1>r, <1>0, <1>1 DEF Inv, Shape, Disks, Raws, Helpers, Loops, Any, Built,
     GeneratedIsBuilt, Untold, Reset
<1> QED
  BY <1>1, <1>2, <1>3, <1>4, <1>5 DEF Inv

LEMMA ReconcileInv ==
  ASSUME Inv, Reconcile
  PROVE  Inv'
<1> USE DEF Reconcile, Observe, Go, None
<1>0. Shape
  BY DEF Inv
<1>1. Shape'
  <2>1. captured' \in [out : Any, signal : BOOLEAN]
    BY <1>0 DEF Shape, Any
  <2>2. loop' \in Loops
    BY <1>0 DEF Shape, Loops, Phases, Raws, Disks, Any
  <2> QED
    BY <1>0, <2>1, <2>2 DEF Shape
<1>2. Record'
  BY <1>0, <1>1 DEF Inv, Shape, Disks, Raws, Helpers, Loops, Any, Record,
     NoInputForgotten, ToolIsMade, Known, Identity
<1>3. Passing'
  BY <1>0, <1>1 DEF Inv, Shape, Disks, Raws, Helpers, Loops, Any, Passing,
     Selected, Generated, UpToDate, Fresh, Known, Identity
<1>4. Captured'
  BY <1>0, <1>1 DEF Inv, Shape, Disks, Raws, Helpers, Loops, Any, Captured
<1>5. Built'
  BY <1>0, <1>1 DEF Inv, Shape, Disks, Raws, Helpers, Loops, Any, Built,
     GeneratedIsBuilt, Untold
<1> QED
  BY <1>1, <1>2, <1>3, <1>4, <1>5 DEF Inv

LEMMA IdentifyInv ==
  ASSUME Inv, Identify
  PROVE  Inv'
<1> USE DEF Identify, Go, Identity, None
<1>0. Shape
  BY DEF Inv
<1>r. /\ Again => Reset("refresh")
      /\ Fail => Reset("idle")
      /\ Done("select", loop.failed) => Reset("select")
      /\ Done("prepare", loop.failed) => Reset("prepare")
      /\ Done("idle", FALSE) => Reset("idle")
  BY <1>0, Resets
<1>1. Shape'
  <2>1. loop' \in Loops
    BY <1>r, <1>0 DEF Shape, Loops, Phases, Raws, Disks, Any, Reset
  <2> QED
    BY <1>0, <2>1 DEF Shape
<1>2. Record'
  BY <1>r, <1>0, <1>1 DEF Inv, Shape, Disks, Raws, Helpers, Loops, Any, Record,
     NoInputForgotten, ToolIsMade, Known, Identity, Reset
<1>3. Passing'
  BY <1>r, <1>0, <1>1 DEF Inv, Shape, Disks, Raws, Helpers, Loops, Any,
     Passing, Selected, Generated, UpToDate, Fresh, Known, Identity, Reset
<1>4. Captured'
  BY <1>r, <1>0, <1>1 DEF Inv, Shape, Disks, Raws, Helpers, Loops, Any,
     Captured, Reset
<1>5. Built'
  BY <1>r, <1>0, <1>1 DEF Inv, Shape, Disks, Raws, Helpers, Loops, Any, Built,
     GeneratedIsBuilt, Untold, Reset
<1> QED
  BY <1>1, <1>2, <1>3, <1>4, <1>5 DEF Inv

\* The record is dropped when it is all in the output.
LEMMA AcknowledgeInv ==
  ASSUME Inv, Acknowledge
  PROVE  Inv'
<1> USE DEF Acknowledge, None
<1>0. Shape
  BY DEF Inv
<1>r. /\ Again => Reset("refresh")
      /\ Fail => Reset("idle")
      /\ Done("select", loop.failed) => Reset("select")
      /\ Done("prepare", loop.failed) => Reset("prepare")
      /\ Done("idle", FALSE) => Reset("idle")
  BY <1>0, Resets
<1>1. CASE loop.current
  <2>1. /\ raw' \in Raws /\ raw'.paths = {} /\ raw'.full = FALSE
        /\ helper' \in Helpers /\ helper'.child = helper.child
        /\ helper'.identity = helper.identity /\ helper'.rebuild = helper.rebuild
        /\ helper'.full = FALSE
    BY ZenonT(60), <1>0, <1>1 DEF Shape, Raws, Helpers
  <2>2. Reset("prepare")
    BY <1>r, <1>1
  <2>3. UpToDate /\ Fresh
    BY <1>1 DEF Inv, Passing, Generated
  <2>4. Shape'
    BY <1>0, <2>1, <2>2 DEF Shape, Reset
  <2>5. Record' /\ Passing' /\ Captured'
    BY <2>1, <2>2, <2>3 DEF Inv, Record, NoInputForgotten, ToolIsMade, Known,
       Passing, Selected, Generated, UpToDate, Fresh, Captured, Reset
  <2>6. Built'
    BY <2>1, <2>2 DEF Inv, Built, GeneratedIsBuilt, Untold, Reset
  <2> QED
    BY <2>4, <2>5, <2>6 DEF Inv
<1>2. CASE ~loop.current
  <2>1. Reset("refresh") /\ UNCHANGED <<raw, helper>>
    BY <1>r, <1>2
  <2>2. Shape'
    BY <1>0, <2>1 DEF Shape, Reset
  <2>3. Record' /\ Passing' /\ Captured'
    BY <2>1 DEF Inv, Record, NoInputForgotten, ToolIsMade, Known, Identity,
       Passing, Selected, Generated, Captured, Reset
  <2>4. Built'
    BY <2>1 DEF Inv, Built, GeneratedIsBuilt, Untold, Reset
  <2> QED
    BY <2>2, <2>3, <2>4 DEF Inv
<1> QED
  BY <1>1, <1>2

(***************************************************************************)
(* The build.                                                              *)
(***************************************************************************)
LEMMA PrepareInv ==
  ASSUME Inv, NEW b \in BOOLEAN, Prepare(b)
  PROVE  Inv'
<1> USE DEF Prepare, None
<1>0. Shape
  BY DEF Inv
<1>1. Shape'
  <2>1. loop' \in Loops
    BY <1>0 DEF Shape, Loops, Phases, Raws, Disks, Any
  <2> QED
    BY <1>0, <2>1 DEF Shape
<1>2. Record'
  BY <1>0, <1>1 DEF Inv, Shape, Disks, Raws, Helpers, Loops, Any, Record,
     NoInputForgotten, ToolIsMade, Known, Identity
<1>3. Passing'
  BY <1>0, <1>1 DEF Inv, Shape, Disks, Raws, Helpers, Loops, Any, Passing,
     Selected, Generated, UpToDate, Fresh, Known, Identity
<1>4. Captured'
  BY <1>0, <1>1 DEF Inv, Shape, Disks, Raws, Helpers, Loops, Any, Captured
<1>5. Built'
  BY <1>0, <1>1 DEF Inv, Shape, Disks, Raws, Helpers, Loops, Any, Built,
     GeneratedIsBuilt, Untold
<1> QED
  BY <1>1, <1>2, <1>3, <1>4, <1>5 DEF Inv

LEMMA PublishInv ==
  ASSUME Inv, Publish
  PROVE  Inv'
<1> USE DEF Publish, Admitted, Output, Go, None
<1>0. Shape
  BY DEF Inv
<1>r. /\ Again => Reset("refresh")
      /\ Fail => Reset("idle")
      /\ Done("select", loop.failed) => Reset("select")
      /\ Done("prepare", loop.failed) => Reset("prepare")
      /\ Done("idle", FALSE) => Reset("idle")
  BY <1>0, Resets
<1>1. Shape'
  <2>1. owned' \in Any
    BY <1>0 DEF Shape, Loops, Any
  <2>2. events' \subseteq Watched
    BY <1>0 DEF Shape, Watched
  <2>3. loop' \in Loops
    BY <1>r, <1>0 DEF Shape, Loops, Phases, Raws, Disks, Any, Reset
  <2> QED
    BY <1>0, <2>1, <2>2, <2>3 DEF Shape
<1>2. Record'
  BY <1>r, <1>0, <1>1 DEF Inv, Shape, Disks, Raws, Helpers, Loops, Any, Record,
     NoInputForgotten, ToolIsMade, Known, Identity, Reset
<1>3. Passing'
  BY <1>r, <1>0, <1>1 DEF Inv, Shape, Disks, Raws, Helpers, Loops, Any,
     Passing, Selected, Generated, UpToDate, Fresh, Known, Identity, Reset
<1>4. Captured'
  BY <1>r, <1>0, <1>1 DEF Inv, Shape, Disks, Raws, Helpers, Loops, Any,
     Captured, Reset
<1>5. Built'
  BY <1>r, <1>0, <1>1 DEF Inv, Shape, Disks, Raws, Helpers, Loops, Any, Built,
     GeneratedIsBuilt, Untold, Reset
<1> QED
  BY <1>1, <1>2, <1>3, <1>4, <1>5 DEF Inv

\* What is admitted is the output, whole or not.
LEMMA CommitInv ==
  ASSUME Inv, Commit
  PROVE  Inv'
<1> USE DEF Commit, None
<1>0. Shape
  BY DEF Inv
<1>r. /\ Again => Reset("refresh")
      /\ Fail => Reset("idle")
      /\ Done("select", loop.failed) => Reset("select")
      /\ Done("prepare", loop.failed) => Reset("prepare")
      /\ Done("idle", FALSE) => Reset("idle")
  BY <1>0, Resets
<1>1. CASE Admitted
  <2>1. /\ owned' = loop.build /\ events \subseteq events'
        /\ events' \subseteq events \cup {"owned"}
    BY <1>1 DEF Output
  <2>2. app' = [out |-> loop.build,
                built |-> IF loop.whole THEN loop.build ELSE app.built]
    BY <1>1
  <2>3. /\ helper' \in Helpers /\ helper'.child = helper.child
        /\ helper'.identity = helper.identity /\ helper'.full = helper.full
        /\ helper'.rebuild = (helper.rebuild /\ ~loop.whole)
    BY <1>0, <1>1 DEF Shape, Helpers
  <2>4. Reset("idle") /\ UNCHANGED <<disk, out, watching, raw, captured>>
    BY <1>r, <1>1
  <2>5. loop.build = captured.out /\ captured.out = out
    BY <1>1 DEF Admitted, Inv, Captured
  <2>6. ~loop.whole => captured.out = app.out /\ app.built = app.out
    BY DEF Inv, Built, GeneratedIsBuilt, Untold
  <2>7. app' = [out |-> out, built |-> out] /\ captured.out = out
    BY <2>2, <2>5, <2>6
  <2>8. Shape'
    <3>1. app' \in [out : Any, built : Any] /\ owned' \in Any
      BY <1>0, <2>1, <2>5, <2>7 DEF Shape
    <3>2. events' \subseteq Watched
      BY <1>0, <2>1 DEF Shape, Watched
    <3> QED
      BY <1>0, <2>3, <2>4, <3>1, <3>2 DEF Shape, Reset
  <2>9. Record'
    BY <2>1, <2>3, <2>4 DEF Inv, Record, NoInputForgotten, ToolIsMade, Known,
       Identity
  <2>10. Passing' /\ Captured'
    BY <2>4 DEF Passing, Selected, Generated, Captured, Reset
  <2>11. Built'
    BY <2>4, <2>7 DEF Built, GeneratedIsBuilt, Untold, Reset
  <2> QED
    BY <2>8, <2>9, <2>10, <2>11 DEF Inv
<1>2. CASE ~Admitted
  <2>1. Reset("refresh") /\ UNCHANGED <<disk, out, owned, events, watching, raw,
                                        captured, helper, app>>
    BY <1>r, <1>2
  <2>2. Shape'
    BY <1>0, <2>1 DEF Shape, Reset
  <2>3. Record' /\ Passing' /\ Captured'
    BY <2>1 DEF Inv, Record, NoInputForgotten, ToolIsMade, Known, Identity,
       Passing, Selected, Generated, Captured, Reset
  <2>4. Built'
    BY <2>1 DEF Inv, Built, GeneratedIsBuilt, Untold, Reset
  <2> QED
    BY <2>2, <2>3, <2>4 DEF Inv
<1> QED
  BY <1>1, <1>2

(***************************************************************************)
(* What fails.                                                             *)
(***************************************************************************)
LEMMA RefreshFailsInv ==
  ASSUME Inv, RefreshFails
  PROVE  Inv'
<1> USE DEF RefreshFails, Fault, None
<1>0. Shape
  BY DEF Inv
<1>r. /\ Again => Reset("refresh")
      /\ Fail => Reset("idle")
      /\ Done("select", loop.failed) => Reset("select")
      /\ Done("prepare", loop.failed) => Reset("prepare")
      /\ Done("idle", FALSE) => Reset("idle")
  BY <1>0, Resets
<1>1. Shape'
  <2>1. disk' \in Disks
    BY <1>0 DEF Shape, Disks, Any
  <2>2. loop' \in Loops
    BY <1>r, <1>0 DEF Shape, Loops, Phases, Raws, Disks, Any, Reset
  <2>3. helper' \in Helpers
    BY <1>0 DEF Shape, Helpers, Disks, Any
  <2> QED
    BY <1>0, <2>1, <2>2, <2>3 DEF Shape
<1>2. Record'
  BY <1>r, <1>0, <1>1 DEF Inv, Shape, Disks, Raws, Helpers, Loops, Any, Record,
     NoInputForgotten, ToolIsMade, Known, Identity, Reset
<1>3. Passing'
  BY <1>r, <1>0, <1>1 DEF Inv, Shape, Disks, Raws, Helpers, Loops, Any,
     Passing, Selected, Generated, UpToDate, Fresh, Known, Identity, Reset
<1>4. Captured'
  BY <1>r, <1>0, <1>1 DEF Inv, Shape, Disks, Raws, Helpers, Loops, Any,
     Captured, Reset
<1>5. Built'
  BY <1>r, <1>0, <1>1 DEF Inv, Shape, Disks, Raws, Helpers, Loops, Any, Built,
     GeneratedIsBuilt, Untold, Reset
<1> QED
  BY <1>1, <1>2, <1>3, <1>4, <1>5 DEF Inv

LEMMA BuildFailsInv ==
  ASSUME Inv, BuildFails
  PROVE  Inv'
<1> USE DEF BuildFails, Fault, None
<1>0. Shape
  BY DEF Inv
<1>r. /\ Again => Reset("refresh")
      /\ Fail => Reset("idle")
      /\ Done("select", loop.failed) => Reset("select")
      /\ Done("prepare", loop.failed) => Reset("prepare")
      /\ Done("idle", FALSE) => Reset("idle")
  BY <1>0, Resets
<1>1. Shape'
  <2>1. disk' \in Disks
    BY <1>0 DEF Shape, Disks, Any
  <2>2. loop' \in Loops
    BY <1>r, <1>0 DEF Shape, Loops, Phases, Raws, Disks, Any, Reset
  <2>3. helper' \in Helpers
    BY <1>0 DEF Shape, Helpers, Disks, Any
  <2> QED
    BY <1>0, <2>1, <2>2, <2>3 DEF Shape
<1>2. Record'
  BY <1>r, <1>0, <1>1 DEF Inv, Shape, Disks, Raws, Helpers, Loops, Any, Record,
     NoInputForgotten, ToolIsMade, Known, Identity, Reset
<1>3. Passing'
  BY <1>r, <1>0, <1>1 DEF Inv, Shape, Disks, Raws, Helpers, Loops, Any,
     Passing, Selected, Generated, UpToDate, Fresh, Known, Identity, Reset
<1>4. Captured'
  BY <1>r, <1>0, <1>1 DEF Inv, Shape, Disks, Raws, Helpers, Loops, Any,
     Captured, Reset
<1>5. Built'
  BY <1>r, <1>0, <1>1 DEF Inv, Shape, Disks, Raws, Helpers, Loops, Any, Built,
     GeneratedIsBuilt, Untold, Reset
<1> QED
  BY <1>1, <1>2, <1>3, <1>4, <1>5 DEF Inv

LEMMA NextInv == Inv /\ [Next]_vars => Inv'
<1> SUFFICES ASSUME Inv, [Next]_vars PROVE Inv'
  OBVIOUS
<1>1. CASE Watcher
  BY <1>1, DeliverInv, AcquireInv DEF Watcher
<1>2. CASE Pass
  BY <1>2, WakeInv, RefreshKnownInv, RefreshChangedInv, StartHelperInv,
     SelectInv,
     ReceiveInv, LoseHelperInv, ReconcileInv, IdentifyInv, AcknowledgeInv,
     PrepareInv, PublishInv, CommitInv DEF Pass
<1>3. CASE UNCHANGED vars
  BY <1>3 DEF Inv, Shape, Record, NoInputForgotten, ToolIsMade, Known,
     Identity,
     Passing, Selected, Generated, UpToDate, Fresh, Captured, Built,
     GeneratedIsBuilt, Untold, vars
<1> QED
  BY <1>1, <1>2, <1>3, AnswerInv, DieInv, RefreshFailsInv, BuildFailsInv,
     OverflowInv, EditInv DEF Next

LEMMA Invariance == Spec => []Inv
BY InitInv, NextInv, PTL DEF Spec

\* An edit that was recorded and that the helper's output does not show is in
\* the record, or everything is asked for, whatever failed or died meanwhile.
THEOREM EditsAreRemembered == Spec => []NoInputForgotten
<1>1. Inv => NoInputForgotten
  BY DEF Inv, Record
<1> QED
  BY <1>1, Invariance, PTL

\* The application that is admitted was generated from every edit recorded when
\* it is, and what was generated reached it through a full build.
THEOREM AdmittedIsWhole == Spec => AppIsOfItsInputs
<1>1. Inv => GeneratedIsBuilt
  BY DEF Inv, Built
<1>2. Inv /\ [Next]_vars =>
        [loop.at = "commit" /\ loop'.at = "idle" /\ ~loop'.failed =>
           \A p \in Files : Known(p) => app'.out[p] = disk.file[p]]_vars
  <2> SUFFICES ASSUME Inv, [Next]_vars, loop.at = "commit", loop'.at = "idle",
                      ~loop'.failed, NEW p \in Files, Known(p)
               PROVE  app'.out[p] = disk.file[p]
    OBVIOUS
  <2>1. Shape
    BY DEF Inv
  <2>2. Commit
    <3>1. CASE BuildFails
      <4>1. Fail /\ TRUE \in BOOLEAN
        BY <3>1 DEF BuildFails
      <4>2. loop'.failed
        BY <4>1 DEF Fail, Done, Held
      <4> QED
        BY <4>2
    <3>2. CASE Acquire \/ \E e \in Watched : Deliver(e)
      <4>1. loop'.at = loop.at
        BY <2>1, <3>2 DEF Acquire, Deliver, Shape, Loops
      <4> QED
        BY <4>1
    <3>3. CASE Die \/ Overflow \/ (\E f \in Files : Edit(f)) \/ UNCHANGED vars
      BY <3>3 DEF Die, Overflow, Edit, vars
    <3> QED
      BY <3>1, <3>2, <3>3 DEF Next, Watcher, Pass, Wake, RefreshKnown,
         RefreshChanged, StartHelper, Select, Receive, LoseHelper, Reconcile,
         Identify, Acknowledge, Prepare, Publish, Answer, RefreshFails
  <2>3. Admitted
    <3> SUFFICES ASSUME ~Admitted PROVE FALSE
      OBVIOUS
    <3>1. Reset("refresh")
      BY <2>1, <2>2, Resets DEF Commit
    <3> QED
      BY <3>1 DEF Reset
  <2>4. app'.out = loop.build /\ loop.build = captured.out /\ captured.out = out
    BY <2>2, <2>3 DEF Commit, Admitted, Inv, Captured
  <2>5. Fresh
    BY <2>3 DEF Admitted, Inv, Passing, Generated
  <2> QED
    BY <2>4, <2>5 DEF Fresh
<1> QED
  BY <1>1, <1>2, Invariance, PTL DEF Spec, AppIsOfItsInputs,
     AdmittedIsGenerated
=============================================================================
