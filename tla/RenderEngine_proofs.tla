------------------------ MODULE RenderEngine_proofs ------------------------
(***************************************************************************)
(* Proofs about RenderEngine, for any number of renders, host calls, slots,*)
(* runtimes and levels.                                                    *)
(***************************************************************************)
EXTENDS RenderEngine, FiniteSetTheorems, SequenceTheorems, TLAPS

USE RendersAssumption, BoundsAssumption, NoVMAssumption DEF Calls, Depths

(***************************************************************************)
(* The inductive invariant.  What TypeOK and SlotsAreLiveGoroutines need   *)
(* besides themselves: a runtime is held where the program says it is; a   *)
(* queued call has no goroutine yet, and sits on its queue once; a call    *)
(* not made yet has none either; what is settled was made.                 *)
(***************************************************************************)
HeldIsVM == \A r \in Renders : pc[r] \in Holding => vm[r] \in VM

AtItsDepth ==
  \A r \in Renders : pc[r] \in Holding \cup {"wait"} => depth[r] \in Depths

QueuedIsQueued ==
  \A r \in Renders : \A i \in 1..Len(queue[r]) :
    /\ call[r][queue[r][i]] = "queued"
    /\ queue[r][i] <= issued[r]
    /\ \A j \in 1..Len(queue[r]) : i # j => queue[r][i] # queue[r][j]

NotMadeYet ==
  \A r \in Renders : pc[r] # "ended" =>
    \A c \in Calls : c > issued[r] => call[r][c] = "none"

AnswersWereMade ==
  \A r \in Renders :
    /\ settled[r] \subseteq 1..issued[r]
    /\ \A i \in 1..Len(completed[r]) : completed[r][i].id <= issued[r]

SlotInv ==
  /\ TypeOK
  /\ HeldIsVM
  /\ AtItsDepth
  /\ QueuedIsQueued
  /\ NotMadeYet
  /\ AnswersWereMade
  /\ SlotsAreLiveGoroutines

\* What a step may write to a runtime leaves it a runtime.
LEMMA WrittenVM ==
  ASSUME NEW m \in VM
  PROVE  /\ [m EXCEPT !.intr = TRUE] \in VM
         /\ \A jobs \in SUBSET Renders : [m EXCEPT !.jobs = jobs] \in VM
         /\ \A open \in Nat : [m EXCEPT !.open = open] \in VM
BY DEF VM

LEMMA LiveCallsFinite == IsFiniteSet(LiveCalls)
<1>1. IsFiniteSet(Calls)
  BY FS_Interval
<1>2. IsFiniteSet(Renders \X Calls)
  BY <1>1, FS_Product
<1> QED
  BY <1>2, FS_Subset DEF LiveCalls

\* What leaves every goroutine as live as it was leaves the count alone.
LEMMA SameLiveCalls ==
  ASSUME SlotsAreLiveGoroutines, UNCHANGED slots,
         \A r \in Renders, c \in Calls :
           call'[r][c] \in Live <=> call[r][c] \in Live
  PROVE  SlotsAreLiveGoroutines'
<1>1. LiveCalls' = LiveCalls
  BY DEF LiveCalls
<1> QED
  BY <1>1 DEF SlotsAreLiveGoroutines

\* A step that touches neither a queue, a call nor an answer keeps all that is
\* said of them.
LEMMA WorkersUntouched ==
  ASSUME SlotInv,
         UNCHANGED <<call, queue, issued, completed, settled, slots>>,
         \A r \in Renders : pc[r] = "ended" => pc'[r] = "ended"
  PROVE  /\ QueuedIsQueued' /\ NotMadeYet' /\ AnswersWereMade'
         /\ SlotsAreLiveGoroutines'
<1>1. QueuedIsQueued' /\ AnswersWereMade'
  BY DEF SlotInv, QueuedIsQueued, AnswersWereMade
<1>2. NotMadeYet'
  BY DEF SlotInv, NotMadeYet
<1>3. SlotsAreLiveGoroutines'
  BY SameLiveCalls DEF SlotInv
<1> QED
  BY <1>1, <1>2, <1>3

LEMMA InitSlotInv == Init => SlotInv
<1> SUFFICES ASSUME Init PROVE SlotInv
  OBVIOUS
<1>1. TypeOK
  <2>1. [id |-> 0, jobs |-> {}, intr |-> FALSE, open |-> 0] \in VM
    BY DEF VM
  <2>2. idle \in [Depths -> SUBSET VM]
    BY <2>1 DEF Init
  <2> QED
    BY <2>2 DEF Init, TypeOK, PC, CallState
<1>2. HeldIsVM /\ AtItsDepth
  BY DEF Init, HeldIsVM, AtItsDepth, Holding
<1>3. QueuedIsQueued /\ NotMadeYet /\ AnswersWereMade
  BY DEF Init, QueuedIsQueued, NotMadeYet, AnswersWereMade
<1>4. SlotsAreLiveGoroutines
  <2>1. LiveCalls = {}
    BY DEF Init, LiveCalls, Live
  <2> QED
    BY <2>1, FS_EmptySet DEF Init, SlotsAreLiveGoroutines
<1> QED
  BY <1>1, <1>2, <1>3, <1>4 DEF SlotInv


\* Actions that only move a render, a runtime or a permit.
RenderMoves(r) ==
  \/ Request(r) \/ Refuse(r) \/ AcquireFast(r) \/ AcquireSlow(r)
  \/ AcquireIdle(r) \/ AcquireBuild(r) \/ BuildFailed(r)
  \/ AcquireCancelled(r) \/ Finished(r) \/ DrainCancelled(r) \/ DrainTop(r)
  \/ GiveUp(r) \/ Park(r) \/ Stop(r) \/ Cancel(r) \/ Propagate(r)
  \/ Interrupt(r)

LEMMA MovesKeepSlotInv ==
  ASSUME SlotInv, NEW r \in Renders, RenderMoves(r)
  PROVE  SlotInv'
<1> USE DEF SlotInv
<1>1. TypeOK'
  <2> USE DEF TypeOK, pools, work, workers, outcome, lineage, Goto, PC
  <2>1. CASE Request(r)           BY <2>1 DEF Request
  <2>2. CASE Refuse(r)            BY <2>2 DEF Refuse
  <2>3. CASE AcquireFast(r)
    <3>1. PICK m \in idle[depth[r]] : Take(r, depth[r], m)
      BY <2>3 DEF AcquireFast
    <3>2. depth[r] \in Depths
      BY <2>3 DEF AcquireFast
    <3>3. m \in VM
      BY <3>1, <3>2
    <3>4. idle' \in [Depths -> SUBSET VM] /\ vm' \in [Renders -> VM \cup {NoVM}]
      BY <3>1, <3>2, <3>3 DEF Take
    <3> QED
      BY <2>3, <3>1, <3>4 DEF AcquireFast, Take
  <2>4. CASE AcquireSlow(r)       BY <2>4 DEF AcquireSlow
  <2>5. CASE AcquireIdle(r)
    <3>1. PICK m \in idle[depth[r]] : Take(r, depth[r], m)
      BY <2>5 DEF AcquireIdle
    <3>2. depth[r] \in Depths
      BY <2>5 DEF AcquireIdle, AtItsDepth
    <3>3. m \in VM
      BY <3>1, <3>2
    <3>4. idle' \in [Depths -> SUBSET VM] /\ vm' \in [Renders -> VM \cup {NoVM}]
      BY <3>1, <3>2, <3>3 DEF Take
    <3> QED
      BY <2>5, <3>1, <3>4 DEF AcquireIdle, Take
  <2>6. CASE AcquireBuild(r)
    <3>1. [id |-> created, jobs |-> {}, intr |-> FALSE, open |-> 0] \in VM
      BY DEF VM
    <3>2. depth[r] \in Depths /\ permits[depth[r]] \in Nat
      BY <2>6 DEF AcquireBuild, AtItsDepth
    <3>3. permits' \in [Depths -> Nat] /\ created' \in Nat
      <4>1. permits[depth[r]] - 1 \in Nat /\ created + 1 \in Nat
        BY <2>6, <3>2 DEF AcquireBuild
      <4>2. /\ permits' = [permits EXCEPT ![depth[r]] = permits[depth[r]] - 1]
            /\ created' = created + 1
        BY <2>6 DEF AcquireBuild
      <4> QED
        BY <3>2, <4>1, <4>2
    <3>4. vm' \in [Renders -> VM \cup {NoVM}]
      BY <2>6, <3>1 DEF AcquireBuild
    <3> QED
      BY <2>6, <3>3, <3>4 DEF AcquireBuild
  <2>7. CASE BuildFailed(r)       BY <2>7 DEF BuildFailed
  <2>8. CASE AcquireCancelled(r)  BY <2>8 DEF AcquireCancelled
  <2>9. CASE Finished(r)          BY <2>9 DEF Finished
  <2>10. CASE DrainCancelled(r)   BY <2>10 DEF DrainCancelled
  <2>11. CASE DrainTop(r)         BY <2>11 DEF DrainTop
  <2>12. CASE GiveUp(r)           BY <2>12 DEF GiveUp
  <2>13. CASE Park(r)             BY <2>13 DEF Park
  <2>14. CASE Stop(r)             BY <2>14 DEF Stop
  <2>15. CASE Cancel(r)           BY <2>15 DEF Cancel
  <2>16. CASE Propagate(r)        BY <2>16 DEF Propagate
  <2>17. CASE Interrupt(r)
    <3>1. [vm[r] EXCEPT !.intr = TRUE] \in VM
      BY <2>17, WrittenVM DEF Interrupt, Armed, Holding, HeldIsVM
    <3>2. vm' = [vm EXCEPT ![r] = [vm[r] EXCEPT !.intr = TRUE]]
      BY <2>17 DEF Interrupt
    <3>3. vm' \in [Renders -> VM \cup {NoVM}]
      BY <3>1, <3>2
    <3> QED
      BY <2>17, <3>3 DEF Interrupt
  <2> QED
    BY <2>1, <2>2, <2>3, <2>4, <2>5, <2>6, <2>7, <2>8, <2>9, <2>10, <2>11,
       <2>12, <2>13, <2>14, <2>15, <2>16, <2>17 DEF RenderMoves
<1>2. HeldIsVM' /\ AtItsDepth'
  <2> USE DEF TypeOK, HeldIsVM, AtItsDepth, Holding, pools, lineage, Goto
  <2>1. CASE Request(r)           BY <2>1 DEF Request
  <2>2. CASE Refuse(r)            BY <2>2 DEF Refuse
  <2>3. CASE AcquireFast(r)
    <3>1. PICK m \in idle[depth[r]] : Take(r, depth[r], m)
      BY <2>3 DEF AcquireFast
    <3>2. depth[r] \in Depths
      BY <2>3 DEF AcquireFast
    <3>3. m \in VM
      BY <3>1, <3>2
    <3> QED
      BY <2>3, <3>1, <3>2, <3>3 DEF AcquireFast, Take
  <2>4. CASE AcquireSlow(r)
    <3>1. depth[r] \in Depths
      BY <2>4 DEF AcquireSlow
    <3> QED
      BY <2>4, <3>1 DEF AcquireSlow
  <2>5. CASE AcquireIdle(r)
    <3>1. idle[depth[r]] \in SUBSET VM
      BY <2>5 DEF AcquireIdle
    <3> QED
      BY <2>5, <3>1 DEF AcquireIdle, Take
  <2>6. CASE AcquireBuild(r)
    <3>1. [id |-> created, jobs |-> {}, intr |-> FALSE, open |-> 0] \in VM
      BY DEF VM
    <3> QED
      BY <2>6, <3>1 DEF AcquireBuild
  <2>7. CASE BuildFailed(r)       BY <2>7 DEF BuildFailed
  <2>8. CASE AcquireCancelled(r)  BY <2>8 DEF AcquireCancelled
  <2>9. CASE Finished(r)          BY <2>9 DEF Finished
  <2>10. CASE DrainCancelled(r)   BY <2>10 DEF DrainCancelled
  <2>11. CASE DrainTop(r)         BY <2>11 DEF DrainTop
  <2>12. CASE GiveUp(r)           BY <2>12 DEF GiveUp
  <2>13. CASE Park(r)             BY <2>13 DEF Park
  <2>14. CASE Stop(r)             BY <2>14 DEF Stop
  <2>15. CASE Cancel(r)           BY <2>15 DEF Cancel
  <2>16. CASE Propagate(r)        BY <2>16 DEF Propagate
  <2>17. CASE Interrupt(r)
    <3>1. [vm[r] EXCEPT !.intr = TRUE] \in VM
      BY <2>17, WrittenVM DEF Interrupt, Armed
    <3> QED
      BY <2>17, <3>1 DEF Interrupt
  <2> QED
    BY <2>1, <2>2, <2>3, <2>4, <2>5, <2>6, <2>7, <2>8, <2>9, <2>10, <2>11,
       <2>12, <2>13, <2>14, <2>15, <2>16, <2>17 DEF RenderMoves
<1>3. /\ UNCHANGED <<call, queue, issued, completed, settled, slots>>
      /\ \A s \in Renders : pc[s] = "ended" => pc'[s] = "ended"
  BY DEF RenderMoves, Request, Refuse, AcquireFast, AcquireSlow, AcquireIdle,
         AcquireBuild, BuildFailed, AcquireCancelled, Finished, DrainCancelled,
         DrainTop, GiveUp, Park, Stop, Cancel, Propagate, Interrupt, Take,
         Goto, Armed, Holding, work, workers, TypeOK
<1> QED
  BY <1>1, <1>2, <1>3, WorkersUntouched

-----------------------------------------------------------------------------
(* Turns of JavaScript: StartRender, Complete and Tick.                     *)

\* What a turn that makes n host calls does to the runtime, the queue and the
\* calls of its render.
TurnDoes(r, jobs, base, n) ==
  /\ issued' = [issued EXCEPT ![r] = @ + n]
  /\ queue' = [queue EXCEPT ![r] = @ \o [k \in 1..n |-> issued[r] + k]]
  /\ call' = [call EXCEPT ![r] = [c \in Calls |->
       IF c \in (issued[r] + 1)..(issued[r] + n)
         THEN "queued" ELSE call[r][c]]]
  /\ outstanding' = [outstanding EXCEPT ![r] = base + n]
  /\ vm' \in [Renders -> VM \cup {NoVM}]
  /\ vm'[r] \in VM
  /\ \A s \in Renders : s # r => vm'[s] = vm[s]
  /\ vm'[r].jobs \subseteq jobs \cup {r}
  /\ vm'[r].id = vm[r].id /\ vm'[r].intr = vm[r].intr
  /\ jsDone' \in [Renders -> BOOLEAN]
  /\ \E to \in {"stop", "top"} : pc' = [pc EXCEPT ![r] = to]

LEMMA TurnShape ==
  ASSUME SlotInv, NEW r \in Renders, pc[r] \in Holding,
         NEW jobs \in SUBSET Renders, NEW base \in Int,
         Turn(r, jobs, base)
  PROVE  /\ outstanding' \in [Renders -> Int]
         /\ \E n \in 0..(MaxCalls - issued[r]) : TurnDoes(r, jobs, base, n)
<1> USE DEF SlotInv
<1>1. vm[r] \in VM
  BY DEF HeldIsVM
<1>2. issued[r] \in Nat /\ MaxCalls - issued[r] \in Nat
      /\ queue[r] \in Seq(Calls)
  BY DEF TypeOK
<1>3. ASSUME NEW new \in SUBSET Renders, new \subseteq jobs \cup {r},
             vm' = [vm EXCEPT ![r] = [vm[r] EXCEPT !.jobs = new]]
      PROVE  /\ vm' \in [Renders -> VM \cup {NoVM}]
             /\ vm'[r] \in VM
             /\ \A s \in Renders : s # r => vm'[s] = vm[s]
             /\ vm'[r].jobs \subseteq jobs \cup {r}
             /\ vm'[r].id = vm[r].id /\ vm'[r].intr = vm[r].intr
  <2>1. [vm[r] EXCEPT !.jobs = new] \in VM
    BY <1>1, WrittenVM
  <2>2. vm'[r] = [vm[r] EXCEPT !.jobs = new]
    BY <1>3 DEF TypeOK
  <2>3. /\ vm'[r].jobs = new /\ vm'[r].id = vm[r].id
        /\ vm'[r].intr = vm[r].intr
    BY <1>1, <2>2 DEF VM
  <2> QED
    BY <1>3, <2>1, <2>2, <2>3 DEF TypeOK
<1>4. CASE TurnThrows(r, jobs) /\ outstanding' = [outstanding EXCEPT ![r] = base]
  <2>1. vm' = [vm EXCEPT ![r] = [vm[r] EXCEPT !.jobs = jobs]]
    BY <1>4 DEF TurnThrows
  <2>2. queue[r] \o [k \in 1..0 |-> issued[r] + k] = queue[r]
    <3>1. [k \in 1..0 |-> issued[r] + k] = << >>
      OBVIOUS
    <3> QED
      BY <1>2, <3>1
  <2>3. issued' = [issued EXCEPT ![r] = @ + 0]
    BY <1>2, <1>4 DEF TurnThrows, TypeOK
  <2>4. queue' = [queue EXCEPT ![r] = @ \o [k \in 1..0 |-> issued[r] + k]]
    BY <2>2, <1>4 DEF TurnThrows, TypeOK
  <2>5. call' = [call EXCEPT ![r] = [c \in Calls |->
               IF c \in (issued[r] + 1)..(issued[r] + 0)
                 THEN "queued" ELSE call[r][c]]]
    <3>1. call[r] = [c \in Calls |-> call[r][c]]
      BY DEF TypeOK
    <3>2. (issued[r] + 1)..(issued[r] + 0) = {}
      BY <1>2
    <3> QED
      BY <3>1, <3>2, <1>4 DEF TurnThrows, TypeOK
  <2>6. /\ outstanding' = [outstanding EXCEPT ![r] = base + 0]
        /\ outstanding' \in [Renders -> Int]
        /\ jsDone' \in [Renders -> BOOLEAN]
    <3>1. base = base + 0
      OBVIOUS
    <3>2. outstanding' \in [Renders -> Int] /\ jsDone' \in [Renders -> BOOLEAN]
      BY <1>4 DEF TurnThrows, TypeOK
    <3> QED
      BY <3>1, <3>2, <1>4
  <2>7. pc' = [pc EXCEPT ![r] = "stop"]
    BY <1>4 DEF TurnThrows, Goto
  <2>8. 0 \in 0..(MaxCalls - issued[r])
    BY <1>2
  <2>9. TurnDoes(r, jobs, base, 0)
    BY <1>3, <2>1, <2>3, <2>4, <2>5, <2>6, <2>7 DEF TurnDoes
  <2> QED
    BY <2>6, <2>8, <2>9
<1>5. ASSUME NEW n \in 0..(MaxCalls - issued[r]), NEW sched \in BOOLEAN,
             NEW done \in BOOLEAN, TurnRuns(r, jobs, n, sched, done),
             outstanding' = [outstanding EXCEPT ![r] = base + n]
      PROVE  outstanding' \in [Renders -> Int] /\ TurnDoes(r, jobs, base, n)
  <2> DEFINE new == IF sched THEN jobs \cup {r} ELSE jobs
  <2>1. vm' = [vm EXCEPT ![r] = [vm[r] EXCEPT !.jobs = new]]
    BY <1>5 DEF TurnRuns
  <2>2. new \in SUBSET Renders /\ new \subseteq jobs \cup {r}
    OBVIOUS
  <2>3. Enqueue(r, n) /\ Goto(r, "top") /\ jsDone' = [jsDone EXCEPT ![r] = @ \/ done]
    BY <1>5 DEF TurnRuns
  <2>4. jsDone' \in [Renders -> BOOLEAN] /\ outstanding' \in [Renders -> Int]
    <3>1. jsDone \in [Renders -> BOOLEAN] /\ outstanding \in [Renders -> Int]
      BY <1>2 DEF TypeOK
    <3>2. jsDone' \in [Renders -> BOOLEAN]
      BY <2>3, <3>1, ZenonT(60)
    <3>3. outstanding' \in [Renders -> Int]
      BY <1>5, <3>1 DEF TurnRuns
    <3> QED
      BY <3>2, <3>3
  <2> HIDE DEF new
  <2> QED
    BY <1>3, <1>5, <2>1, <2>2, <2>3, <2>4 DEF Enqueue, Goto, TurnDoes
<1> QED
  BY <1>4, <1>5 DEF Turn

DistinctUpTo(q, m) ==
  \A i \in 1..Len(q) :
    q[i] <= m /\ \A j \in 1..Len(q) : i # j => q[i] # q[j]

Counting(s, m, n) == Len(s) = n /\ \A k \in 1..n : s[k] = m + k

OldOrNew(w, q, m, n) ==
  \A i \in 1..Len(w) : \/ \E j \in 1..Len(q) : w[i] = q[j]
                       \/ w[i] \in (m + 1)..(m + n)

\* Appending the numbers m+1 to m+n to a sequence of distinct numbers up to m.
LEMMA AppendNumbers ==
  ASSUME NEW S \in SUBSET Nat, NEW q \in Seq(S), NEW m \in Nat, NEW n \in Nat,
         DistinctUpTo(q, m), NEW more \in Seq(S), Counting(more, m, n)
  PROVE  /\ q \o more \in Seq(S)
         /\ DistinctUpTo(q \o more, m + n)
         /\ OldOrNew(q \o more, q, m, n)
<1> USE DEF DistinctUpTo, Counting
<1> DEFINE w == q \o more
<1>1. /\ w \in Seq(S)
      /\ Len(w) = Len(q) + Len(more)
      /\ \A i \in 1..(Len(q) + Len(more)) :
           w[i] = IF i <= Len(q) THEN q[i] ELSE more[i - Len(q)]
  BY ZenonT(60), ConcatProperties
<1> HIDE DEF w
<1>3. Len(q) \in Nat /\ \A i \in 1..Len(q) : q[i] \in Nat
  BY LenProperties, ElementOfSeq
<1>4. /\ Len(w) = Len(q) + n
      /\ \A i \in 1..Len(w) :
           w[i] = IF i <= Len(q) THEN q[i] ELSE more[i - Len(q)]
  BY <1>1
<1>5. ASSUME NEW i \in 1..Len(w), i > Len(q)
      PROVE  w[i] = m + (i - Len(q)) /\ i - Len(q) \in 1..n
  BY <1>3, <1>4, <1>5
<1>6. ASSUME NEW i \in 1..Len(w), i <= Len(q)
      PROVE  w[i] = q[i] /\ i \in 1..Len(q)
  BY <1>3, <1>4, <1>6
<1>7. ASSUME NEW i \in 1..Len(w), NEW j \in 1..Len(w), i # j
      PROVE  w[i] # w[j]
  <2>1. CASE i <= Len(q) /\ j <= Len(q)
    BY <2>1, <1>6, <1>7
  <2>2. CASE i <= Len(q) /\ j > Len(q)
    BY <2>2, <1>3, <1>4, <1>5, <1>6
  <2>3. CASE i > Len(q) /\ j <= Len(q)
    BY <2>3, <1>3, <1>5, <1>6
  <2>4. CASE i > Len(q) /\ j > Len(q)
    BY <2>4, <1>3, <1>4, <1>5, <1>7
  <2>5. i \in Nat /\ j \in Nat /\ Len(q) \in Nat
    BY <1>3, <1>4
  <2> QED
    BY <2>1, <2>2, <2>3, <2>4, <2>5
<1>8. ASSUME NEW i \in 1..Len(w)
      PROVE  /\ \/ \E j \in 1..Len(q) : w[i] = q[j]
                \/ w[i] \in (m + 1)..(m + n)
             /\ w[i] <= m + n
  <2>1. CASE i <= Len(q)
    BY <2>1, <1>3, <1>6
  <2>2. CASE i > Len(q)
    BY <2>2, <1>3, <1>5
  <2> QED
    BY <2>1, <2>2, <1>3, <1>4
<1> QED
  BY <1>1, <1>7, <1>8 DEF w, OldOrNew

\* The functions that most steps update, by themselves.
LEMMA FunctionsTyped ==
  ASSUME TypeOK
  PROVE  /\ pc \in [Renders -> PC]
         /\ vm \in [Renders -> VM \cup {NoVM}]
         /\ call \in [Renders -> [Calls -> CallState]]
         /\ queue \in [Renders -> Seq(Calls)]
         /\ issued \in [Renders -> 0..MaxCalls]
  BY DEF TypeOK

\* A turn only adds calls that were never made, and queues each of them once.
LEMMA TurnKeeps ==
  ASSUME SlotInv, NEW r \in Renders, pc[r] \in Holding, UNCHANGED slots,
         NEW jobs \in SUBSET Renders, NEW base \in Int,
         Turn(r, jobs, base)
  PROVE  /\ issued' \in [Renders -> 0..MaxCalls]
         /\ queue' \in [Renders -> Seq(Calls)]
         /\ call' \in [Renders -> [Calls -> CallState]]
         /\ pc' \in [Renders -> PC]
         /\ HeldIsVM' /\ QueuedIsQueued' /\ NotMadeYet'
         /\ SlotsAreLiveGoroutines'
         /\ \A s \in Renders : issued[s] <= issued'[s]
         /\ \A s \in Renders : pc'[s] # pc[s] => pc[s] \in Holding
         /\ pc[r] # "ended"
<1> USE DEF SlotInv
<1>0. PICK n \in 0..(MaxCalls - issued[r]) : TurnDoes(r, jobs, base, n)
  BY TurnShape
<1>1. /\ issued' = [issued EXCEPT ![r] = @ + n]
      /\ queue' = [queue EXCEPT ![r] = @ \o [k \in 1..n |-> issued[r] + k]]
      /\ call' = [call EXCEPT ![r] = [c \in Calls |->
           IF c \in (issued[r] + 1)..(issued[r] + n)
             THEN "queued" ELSE call[r][c]]]
      /\ vm'[r] \in VM
      /\ \A s \in Renders : s # r => vm'[s] = vm[s]
      /\ \E to \in {"stop", "top"} : pc' = [pc EXCEPT ![r] = to]
  BY <1>0 DEF TurnDoes
<1>2. issued[r] \in 0..MaxCalls /\ issued[r] + n \in 0..MaxCalls /\ n \in Nat
  BY <1>1 DEF TypeOK
<1>3. issued' \in [Renders -> 0..MaxCalls]
  BY <1>1, <1>2 DEF TypeOK
<1>4. /\ queue'[r] \in Seq(Calls)
      /\ DistinctUpTo(queue'[r], issued[r] + n)
      /\ OldOrNew(queue'[r], queue[r], issued[r], n)
  <2>1. queue[r] \in Seq(Calls) /\ issued[r] \in Nat /\ issued[r] + n <= MaxCalls
    BY <1>2 DEF TypeOK
  <2>2. DistinctUpTo(queue[r], issued[r])
    BY DEF QueuedIsQueued, DistinctUpTo
  <2>3. queue'[r] = queue[r] \o [k \in 1..n |-> issued[r] + k]
    BY <1>1 DEF TypeOK
  <2> DEFINE more == [k \in 1..n |-> issued[r] + k]
  <2>4. more \in Seq(Calls) /\ Counting(more, issued[r], n)
    <3>1. more \in [1..n -> Calls]
      BY <1>2
    <3>2. more \in Seq(Calls) /\ Len(more) = n
      BY <3>1, <1>2
    <3>3. \A k \in 1..n : more[k] = issued[r] + k
      OBVIOUS
    <3> HIDE DEF more
    <3> QED
      BY <3>2, <3>3 DEF Counting
  <2>5. queue'[r] = queue[r] \o more
    BY <2>3
  <2>6. Calls \in SUBSET Nat
    OBVIOUS
  <2> HIDE DEF more, Calls, SlotInv
  <2>7. ASSUME NEW q \in Seq(Calls), NEW m \in Nat,
               DistinctUpTo(q, m), Counting(more, m, n)
        PROVE  /\ q \o more \in Seq(Calls)
               /\ DistinctUpTo(q \o more, m + n)
               /\ OldOrNew(q \o more, q, m, n)
    BY <1>2, <2>4, <2>6, <2>7, AppendNumbers
  <2> QED
    BY <2>1, <2>2, <2>4, <2>5, <2>7
<1>5. queue' \in [Renders -> Seq(Calls)]
  BY <1>1, <1>4, FunctionsTyped
<1>6. call' \in [Renders -> [Calls -> CallState]]
  <2>1. [c \in Calls |-> IF c \in (issued[r] + 1)..(issued[r] + n)
                           THEN "queued" ELSE call[r][c]]
          \in [Calls -> CallState]
    BY FunctionsTyped DEF CallState
  <2> QED
    BY <1>1, <2>1, FunctionsTyped
<1>7. pc' \in [Renders -> PC] /\ pc[r] # "ended"
      /\ \A s \in Renders : pc'[s] # pc[s] => pc[s] \in Holding
  BY <1>1 DEF TypeOK, PC, Holding
<1>8. HeldIsVM'
  BY <1>1 DEF HeldIsVM, TypeOK
<1>9. \A s \in Renders : s # r =>
        /\ queue'[s] = queue[s] /\ call'[s] = call[s]
        /\ issued'[s] = issued[s] /\ pc'[s] = pc[s]
  BY <1>1 DEF TypeOK
<1>10. /\ issued'[r] = issued[r] + n
       /\ \A c \in Calls :
            call'[r][c] = IF c \in (issued[r] + 1)..(issued[r] + n)
                            THEN "queued" ELSE call[r][c]
  BY <1>1 DEF TypeOK
<1>11. QueuedIsQueued'
  <2> SUFFICES ASSUME NEW s \in Renders, NEW i \in 1..Len(queue'[s])
               PROVE  /\ call'[s][queue'[s][i]] = "queued"
                      /\ queue'[s][i] <= issued'[s]
                      /\ \A j \in 1..Len(queue'[s]) :
                           i # j => queue'[s][i] # queue'[s][j]
    BY DEF QueuedIsQueued
  <2>1. CASE s # r
    BY <2>1, <1>9 DEF QueuedIsQueued
  <2>2. CASE s = r
    <3>1. queue'[r][i] \in Calls
      BY <2>2, <1>4
    <3>2. call'[r][queue'[r][i]] = "queued"
      <4>1. CASE \E j \in 1..Len(queue[r]) : queue'[r][i] = queue[r][j]
        <5>1. call[r][queue'[r][i]] = "queued"
          BY <4>1 DEF QueuedIsQueued
        <5> QED
          BY <5>1, <3>1, <1>10
      <4>2. CASE queue'[r][i] \in (issued[r] + 1)..(issued[r] + n)
        BY <4>2, <3>1, <1>10
      <4> QED
        BY <2>2, <4>1, <4>2, <1>4 DEF OldOrNew
    <3> QED
      BY <2>2, <3>2, <1>4, <1>10 DEF DistinctUpTo
  <2> QED
    BY <2>1, <2>2
<1>12. NotMadeYet'
  BY <1>2, <1>7, <1>9, <1>10 DEF NotMadeYet
<1>13. SlotsAreLiveGoroutines'
  <2>1. \A s \in Renders, c \in Calls :
          call'[s][c] \in Live <=> call[s][c] \in Live
    BY <1>2, <1>7, <1>9, <1>10 DEF NotMadeYet, Live
  <2> QED
    BY <2>1, SameLiveCalls
<1>14. \A s \in Renders : issued[s] <= issued'[s]
  <2>1. issued[r] <= issued'[r]
    BY <1>2, <1>10
  <2>2. \A s \in Renders : issued[s] \in Nat
    BY DEF TypeOK
  <2> QED
    BY <2>1, <2>2, <1>9
<1> QED
  BY <1>3, <1>5, <1>6, <1>7, <1>8, <1>11, <1>12, <1>13, <1>14

\* Making more calls takes nothing from what is known of the answers.
LEMMA MoreCallsKeepAnswers ==
  ASSUME SlotInv, UNCHANGED <<completed, settled>>,
         issued' \in [Renders -> 0..MaxCalls],
         \A s \in Renders : issued[s] <= issued'[s]
  PROVE  AnswersWereMade'
<1> USE DEF SlotInv
<1>1. SUFFICES ASSUME NEW s \in Renders
               PROVE  /\ settled[s] \subseteq 1..issued'[s]
                      /\ \A i \in 1..Len(completed[s]) :
                           completed[s][i].id <= issued'[s]
  BY DEF AnswersWereMade
<1>2. issued[s] \in Nat /\ issued'[s] \in Nat /\ issued[s] <= issued'[s]
  BY DEF TypeOK
<1>3. settled[s] \subseteq 1..issued'[s]
  BY <1>2 DEF AnswersWereMade
<1>4. ASSUME NEW i \in 1..Len(completed[s])
      PROVE  completed[s][i].id <= issued'[s]
  <2>1. completed[s] \in Seq([id : Calls, ok : BOOLEAN])
    BY DEF TypeOK
  <2>2. completed[s][i].id \in Calls
    <3>1. completed[s][i] \in [id : Calls, ok : BOOLEAN]
      BY <2>1, ElementOfSeq
    <3> QED
      BY <3>1
  <2>3. completed[s][i].id <= issued[s]
    BY DEF AnswersWereMade
  <2> QED
    BY <1>2, <2>2, <2>3
<1> QED
  BY <1>3, <1>4

\* In each of these steps the page runs one turn.
LEMMA TurnOfRender ==
  ASSUME SlotInv, NEW r \in Renders,
         StartRender(r) \/ Complete(r) \/ Tick(r)
  PROVE  \E jobs \in SUBSET Renders, base \in Int : Turn(r, jobs, base)
<1>1. CASE StartRender(r)
  <2>1. KeptJobs(r) \in SUBSET Renders /\ 0 \in Int
    BY DEF KeptJobs
  <2>2. Turn(r, KeptJobs(r), 0)
    BY <1>1 DEF StartRender
  <2> QED
    BY <2>1, <2>2
<1>2. CASE Tick(r)
  <2>1. PICK jobs \in SUBSET vm[r].jobs : Turn(r, jobs, outstanding[r])
    BY <1>2 DEF Tick
  <2>2. jobs \in SUBSET Renders /\ outstanding[r] \in Int
    BY <1>2 DEF Tick, SlotInv, HeldIsVM, VM, TypeOK, Holding
  <2> QED
    BY <2>1, <2>2
<1>3. CASE Complete(r)
  <2>1. vm[r].jobs \in SUBSET Renders
    BY <1>3 DEF Complete, SlotInv, HeldIsVM, VM, Holding
  <2>2. outstanding[r] - 1 \in Int
    BY DEF SlotInv, TypeOK
  <2>3. Turn(r, vm[r].jobs, outstanding[r] - 1)
    BY <1>3 DEF Complete
  <2> QED
    BY <2>1, <2>2, <2>3
<1> QED
  BY <1>1, <1>2, <1>3

LEMMA TurnsKeepSlotInv ==
  ASSUME SlotInv, NEW r \in Renders,
         StartRender(r) \/ Complete(r) \/ Tick(r)
  PROVE  SlotInv'
<1> USE DEF SlotInv
<1>1. ASSUME pc[r] \in Holding,
             \E jobs \in SUBSET Renders, base \in Int : Turn(r, jobs, base),
             UNCHANGED <<permits, idle, created, depth, parent, ctxDone, slots,
                         nested>>
      PROVE  /\ vm' \in [Renders -> VM \cup {NoVM}]
             /\ jsDone' \in [Renders -> BOOLEAN]
             /\ outstanding' \in [Renders -> Int]
             /\ HeldIsVM' /\ AtItsDepth' /\ QueuedIsQueued' /\ NotMadeYet'
             /\ SlotsAreLiveGoroutines'
             /\ issued' \in [Renders -> 0..MaxCalls]
             /\ queue' \in [Renders -> Seq(Calls)]
             /\ call' \in [Renders -> [Calls -> CallState]]
             /\ pc' \in [Renders -> PC]
             /\ \A s \in Renders : issued[s] <= issued'[s]
  <2>1. /\ vm' \in [Renders -> VM \cup {NoVM}]
        /\ jsDone' \in [Renders -> BOOLEAN]
        /\ outstanding' \in [Renders -> Int]
    BY <1>1, TurnShape DEF TurnDoes
  <2>2. /\ HeldIsVM' /\ QueuedIsQueued' /\ NotMadeYet'
        /\ SlotsAreLiveGoroutines'
        /\ issued' \in [Renders -> 0..MaxCalls]
        /\ queue' \in [Renders -> Seq(Calls)]
        /\ call' \in [Renders -> [Calls -> CallState]]
        /\ pc' \in [Renders -> PC]
        /\ \A s \in Renders : issued[s] <= issued'[s]
        /\ \A s \in Renders : pc'[s] # pc[s] => pc[s] \in Holding
    BY <1>1, TurnKeeps
  <2>3. AtItsDepth'
    BY <1>1, <2>2 DEF AtItsDepth
  <2> QED
    BY <2>1, <2>2, <2>3
<1>2. CASE StartRender(r)
  <2>1. pc[r] \in Holding
    BY <1>2 DEF StartRender, Holding
  <2>2. UNCHANGED <<permits, idle, created, depth, parent, ctxDone, slots, nested,
                    completed, settled, failed, reusable, ticks>>
    BY <1>2 DEF StartRender, pools, lineage
  <2>3. \E jobs \in SUBSET Renders, base \in Int : Turn(r, jobs, base)
    BY TurnOfRender
  <2>4. TypeOK'
    BY <1>1, <2>1, <2>2, <2>3 DEF TypeOK
  <2>5. AnswersWereMade'
    BY <1>1, <2>1, <2>2, <2>3, MoreCallsKeepAnswers
  <2> QED
    BY <1>1, <2>1, <2>2, <2>3, <2>4, <2>5
<1>3. CASE Tick(r)
  <2>1. pc[r] \in Holding
    BY <1>3 DEF Tick, Holding
  <2>2. \E jobs \in SUBSET Renders, base \in Int : Turn(r, jobs, base)
    BY TurnOfRender
  <2>3. UNCHANGED <<permits, idle, created, depth, parent, ctxDone, slots, nested,
                    completed, settled, failed, reusable>>
    BY <1>3 DEF Tick, pools, lineage
  <2>4. ticks' \in [Renders -> 0..MaxTicks]
    <3>1. ticks[r] \in 0..MaxTicks /\ ticks[r] < MaxTicks
      BY <1>3 DEF Tick, TypeOK
    <3>2. ticks[r] + 1 \in 0..MaxTicks
      BY <3>1
    <3>3. ticks' = [ticks EXCEPT ![r] = ticks[r] + 1]
      BY <1>3 DEF Tick
    <3> QED
      BY <3>2, <3>3 DEF TypeOK
  <2>5. TypeOK'
    BY <1>1, <2>1, <2>2, <2>3, <2>4 DEF TypeOK
  <2>6. AnswersWereMade'
    BY <1>1, <2>1, <2>2, <2>3, MoreCallsKeepAnswers
  <2> QED
    BY <1>1, <2>1, <2>2, <2>3, <2>5, <2>6
<1>4. CASE Complete(r)
  <2>1. pc[r] \in Holding
    BY <1>4 DEF Complete, Holding
  <2>2. UNCHANGED <<permits, idle, created, depth, parent, ctxDone, slots, nested,
                    reusable, ticks>>
    BY <1>4 DEF Complete, pools, lineage
  <2>3. \E jobs \in SUBSET Renders, base \in Int : Turn(r, jobs, base)
    BY TurnOfRender
  <2> DEFINE Answer == [id : Calls, ok : BOOLEAN]
             first == Head(completed[r])
             rest == Tail(completed[r])
  <2>4. completed[r] \in Seq(Answer) /\ completed[r] # << >>
    BY <1>4 DEF Complete, TypeOK
  <2>5. /\ first \in Answer /\ rest \in Seq(Answer)
        /\ first = completed[r][1] /\ 1 \in 1..Len(completed[r])
        /\ \A i \in 1..Len(rest) :
             rest[i] = completed[r][i + 1] /\ i + 1 \in 1..Len(completed[r])
    <3> HIDE DEF Answer
    <3> QED
      BY <2>4
  <2>6. /\ completed' = [completed EXCEPT ![r] = rest]
        /\ settled' = [settled EXCEPT ![r] = @ \cup {first.id}]
        /\ failed' = [failed EXCEPT ![r] = @ \/ ~first.ok]
    BY <1>4 DEF Complete
  <2>7. /\ completed' \in [Renders -> Seq(Answer)]
        /\ settled' \in [Renders -> SUBSET Calls]
        /\ failed' \in [Renders -> BOOLEAN]
    <3> HIDE DEF first, rest
    <3> QED
      BY <2>5, <2>6 DEF TypeOK
  <2>8. TypeOK'
    BY <1>1, <2>1, <2>2, <2>3, <2>7 DEF TypeOK
  <2>9. AnswersWereMade'
    <3>1. first.id \in 1..issued[r]
      BY <2>5 DEF AnswersWereMade
    <3>2. \A i \in 1..Len(rest) : rest[i].id <= issued[r]
      BY <2>5 DEF AnswersWereMade
    <3> HIDE DEF first, rest
    <3>3. \A s \in Renders : issued[s] \in Nat /\ issued'[s] \in Nat
                             /\ issued[s] <= issued'[s]
      <4>1. /\ issued' \in [Renders -> 0..MaxCalls]
            /\ \A s \in Renders : issued[s] <= issued'[s]
        BY <1>1, <2>1, <2>2, <2>3
      <4> QED
        BY <4>1 DEF TypeOK
    <3>4. ASSUME NEW s \in Renders
          PROVE  settled'[s] \subseteq 1..issued[s]
      BY <2>6, <3>1 DEF AnswersWereMade, TypeOK
    <3>5. ASSUME NEW s \in Renders, NEW i \in 1..Len(completed'[s])
          PROVE  completed'[s][i].id \in Calls /\ completed'[s][i].id <= issued[s]
      <4>1. completed'[s] \in Seq(Answer)
        BY <2>7
      <4>2. completed'[s][i].id \in Calls
        <5>1. completed'[s][i] \in Answer
          BY <4>1, <3>5, ElementOfSeq
        <5> QED
          BY <5>1
      <4>3. completed'[s][i].id <= issued[s]
        BY <3>2, <3>5, <2>6 DEF AnswersWereMade, TypeOK
      <4> QED
        BY <4>2, <4>3
    <3>6. ASSUME NEW s \in Renders
          PROVE  settled'[s] \subseteq 1..issued'[s]
      BY <3>3, <3>4
    <3>7. ASSUME NEW s \in Renders, NEW i \in 1..Len(completed'[s])
          PROVE  completed'[s][i].id <= issued'[s]
      BY <3>3, <3>5
    <3> QED
      BY <3>6, <3>7 DEF AnswersWereMade
  <2> QED
    BY <1>1, <2>1, <2>2, <2>3, <2>8, <2>9
<1> QED
  BY <1>2, <1>3, <1>4

-----------------------------------------------------------------------------
(* The goroutines of host calls, and the end of a render.                   *)

\* Starting a worker takes a slot and the head of the queue together.
LEMMA StartWorkerKeeps ==
  ASSUME SlotInv, NEW r \in Renders, pc[r] # "ended", StartWorker(r),
         UNCHANGED <<issued, completed, settled>>,
         \A s \in Renders : pc[s] = "ended" => pc'[s] = "ended"
  PROVE  /\ slots' \in Nat
         /\ queue' \in [Renders -> Seq(Calls)]
         /\ call' \in [Renders -> [Calls -> CallState]]
         /\ QueuedIsQueued' /\ NotMadeYet' /\ AnswersWereMade'
         /\ SlotsAreLiveGoroutines'
<1> USE DEF SlotInv
<1> DEFINE q == queue[r]
           c == Head(queue[r])
           rest == Tail(queue[r])
<1>1. q \in Seq(Calls) /\ q # << >>
  BY DEF StartWorker, TypeOK
<1>2. /\ c \in Calls /\ c = q[1] /\ 1 \in 1..Len(q)
      /\ rest \in Seq(Calls)
      /\ \A i \in 1..Len(rest) : rest[i] = q[i + 1] /\ i + 1 \in 1..Len(q)
                                 /\ i + 1 # 1
  <2> HIDE DEF Calls
  <2> QED
    BY <1>1
<1>3. /\ slots' = slots + 1 /\ slots < MaxHostCalls
      /\ call' = [call EXCEPT ![r][c] = "running"]
      /\ queue' = [queue EXCEPT ![r] = rest]
  BY DEF StartWorker
<1>4. call[r][c] = "queued" /\ c <= issued[r]
  BY <1>2 DEF QueuedIsQueued
<1>5. \A i \in 1..Len(rest) : rest[i] # c
  BY <1>2 DEF QueuedIsQueued
<1> HIDE DEF c, rest
<1>6. slots' \in Nat
  BY <1>3 DEF TypeOK
<1>7. queue' \in [Renders -> Seq(Calls)]
  BY <1>2, <1>3 DEF TypeOK
<1>8. call' \in [Renders -> [Calls -> CallState]]
  BY <1>2, <1>3 DEF TypeOK, CallState
<1>9. /\ \A s \in Renders : s # r => queue'[s] = queue[s] /\ call'[s] = call[s]
      /\ queue'[r] = rest
      /\ call'[r][c] = "running"
      /\ \A d \in Calls : d # c => call'[r][d] = call[r][d]
  BY <1>2, <1>3 DEF TypeOK
<1>10. QueuedIsQueued'
  <2> SUFFICES ASSUME NEW s \in Renders, NEW i \in 1..Len(queue'[s])
               PROVE  /\ call'[s][queue'[s][i]] = "queued"
                      /\ queue'[s][i] <= issued[s]
                      /\ \A j \in 1..Len(queue'[s]) :
                           i # j => queue'[s][i] # queue'[s][j]
    BY DEF QueuedIsQueued
  <2>1. CASE s # r
    BY <2>1, <1>9 DEF QueuedIsQueued
  <2>2. CASE s = r
    <3>1. rest[i] \in Calls /\ rest[i] = q[i + 1] /\ i + 1 \in 1..Len(q)
          /\ rest[i] # c
      BY <2>2, <1>2, <1>5, <1>9, ElementOfSeq
    <3>2. call'[r][rest[i]] = "queued" /\ rest[i] <= issued[r]
      BY <3>1, <1>9 DEF QueuedIsQueued
    <3>3. ASSUME NEW j \in 1..Len(rest), i # j
          PROVE  rest[i] # rest[j]
      <4>1. rest[j] = q[j + 1] /\ j + 1 \in 1..Len(q)
        BY <1>2
      <4>2. i + 1 # j + 1
        BY <3>3
      <4> QED
        BY <3>1, <4>1, <4>2 DEF QueuedIsQueued
    <3> QED
      BY <2>2, <3>2, <3>3, <1>9
  <2> QED
    BY <2>1, <2>2
<1>11. NotMadeYet'
  <2> SUFFICES ASSUME NEW s \in Renders, pc'[s] # "ended",
                      NEW d \in Calls, d > issued[s]
               PROVE  call'[s][d] = "none"
    BY DEF NotMadeYet
  <2>1. call[s][d] = "none"
    BY DEF NotMadeYet
  <2>2. <<s, d>> # <<r, c>>
    BY <2>1, <1>4
  <2> QED
    BY <2>1, <2>2, <1>9
<1>12. AnswersWereMade'
  BY DEF AnswersWereMade
<1>13. SlotsAreLiveGoroutines'
  <2>1. LiveCalls' = LiveCalls \cup {<<r, c>>}
    <3>1. \A s \in Renders, d \in Calls :
            call'[s][d] \in Live <=> call[s][d] \in Live \/ <<s, d>> = <<r, c>>
      BY <1>2, <1>9 DEF Live
    <3> QED
      BY <3>1, <1>2 DEF LiveCalls
  <2>2. <<r, c>> \notin LiveCalls
    BY <1>4 DEF LiveCalls, Live
  <2>3. Cardinality(LiveCalls') = Cardinality(LiveCalls) + 1
    BY <2>1, <2>2, LiveCallsFinite, FS_AddElement
  <2> QED
    BY <2>3, <1>3 DEF SlotsAreLiveGoroutines, TypeOK
<1> QED
  BY <1>6, <1>7, <1>8, <1>10, <1>11, <1>12, <1>13

LEMMA StartsKeepSlotInv ==
  ASSUME SlotInv, NEW r \in Renders, Launch(r) \/ ParkedStart(r)
  PROVE  SlotInv'
<1> USE DEF SlotInv
<1>1. /\ pc[r] \in {"poll", "park"} /\ StartWorker(r)
      /\ pc' \in [Renders -> PC]
      /\ \A s \in Renders : pc[s] = "ended" => pc'[s] = "ended"
      /\ \A s \in Renders : pc'[s] \in Holding \cup {"wait"} =>
           pc[s] = pc'[s] \/ pc[s] = "park"
      /\ UNCHANGED <<permits, idle, created, issued, outstanding, completed,
                     settled, nested, jsDone, failed, reusable, ticks, depth,
                     parent, ctxDone, vm>>
  BY DEF Launch, ParkedStart, Goto, PC, TypeOK, pools, outcome, lineage
<1>2. /\ slots' \in Nat
      /\ queue' \in [Renders -> Seq(Calls)]
      /\ call' \in [Renders -> [Calls -> CallState]]
      /\ QueuedIsQueued' /\ NotMadeYet' /\ AnswersWereMade'
      /\ SlotsAreLiveGoroutines'
  BY <1>1, StartWorkerKeeps
<1>3. TypeOK'
  BY <1>1, <1>2 DEF TypeOK
<1>4. HeldIsVM' /\ AtItsDepth'
  BY <1>1 DEF HeldIsVM, AtItsDepth, Holding
<1> QED
  BY <1>2, <1>3, <1>4

LEMMA PutKeepsSlotInv ==
  ASSUME SlotInv, NEW r \in Renders, Put(r)
  PROVE  SlotInv'
<1> USE DEF SlotInv
<1> DEFINE left == [vm[r] EXCEPT !.open = issued[r] - Cardinality(settled[r])]
<1>1. left \in VM
  <2>1. vm[r] \in VM
    BY DEF Put, HeldIsVM, Holding
  <2>2. issued[r] - Cardinality(settled[r]) \in Nat
    <3>1. issued[r] \in Nat /\ settled[r] \subseteq 1..issued[r]
      BY DEF TypeOK, AnswersWereMade
    <3>2. /\ IsFiniteSet(1..issued[r])
          /\ Cardinality(1..issued[r]) = issued[r]
      <4>1. 1 \in Int /\ issued[r] \in Int
        BY <3>1
      <4>2. /\ IsFiniteSet(1..issued[r])
            /\ Cardinality(1..issued[r]) =
                 IF 1 > issued[r] THEN 0 ELSE issued[r] - 1 + 1
        BY <4>1, FS_Interval
      <4> QED
        BY <3>1, <4>2
    <3>3. /\ IsFiniteSet(settled[r])
          /\ Cardinality(settled[r]) <= issued[r]
      BY <3>1, <3>2, FS_Subset
    <3> QED
      BY <3>1, <3>3, FS_CardinalityType
  <2> HIDE DEF left
  <2> QED
    BY <2>1, <2>2, WrittenVM DEF left
<1>2. /\ \/ idle' = [idle EXCEPT ![depth[r]] = @ \cup {left}] /\ permits' = permits
         \/ permits' = [permits EXCEPT ![depth[r]] = @ + 1] /\ idle' = idle
      /\ vm' = [vm EXCEPT ![r] = NoVM]
      /\ pc[r] = "put" /\ pc' = [pc EXCEPT ![r] = "ended"]
      /\ ctxDone' = [ctxDone EXCEPT ![r] = TRUE]
  BY DEF Put, Goto
<1>3. /\ issued'      = [issued EXCEPT ![r] = 0]
      /\ queue'       = [queue EXCEPT ![r] = <<>>]
      /\ outstanding' = [outstanding EXCEPT ![r] = 0]
      /\ completed'   = [completed EXCEPT ![r] = <<>>]
      /\ settled'     = [settled EXCEPT ![r] = {}]
      /\ jsDone'      = [jsDone EXCEPT ![r] = FALSE]
      /\ failed'      = [failed EXCEPT ![r] = FALSE]
      /\ reusable'    = [reusable EXCEPT ![r] = FALSE]
      /\ ticks'       = [ticks EXCEPT ![r] = 0]
      /\ call' = [call EXCEPT ![r] = [c \in Calls |->
           IF call[r][c] = "queued" THEN "none" ELSE call[r][c]]]
      /\ UNCHANGED <<created, slots, nested, depth, parent>>
  BY DEF Put, lineage
<1> HIDE DEF left
<1>4. TypeOK'
  <2>1. idle' \in [Depths -> SUBSET VM] /\ permits' \in [Depths -> Nat]
    <3>1. depth[r] \in Depths /\ permits[depth[r]] \in Nat
      BY <1>2 DEF AtItsDepth, Holding, TypeOK
    <3>2. permits \in [Depths -> Nat] /\ idle \in [Depths -> SUBSET VM]
      BY DEF TypeOK
    <3>3. CASE /\ idle' = [idle EXCEPT ![depth[r]] = @ \cup {left}]
               /\ permits' = permits
      <4>1. idle[depth[r]] \cup {left} \in SUBSET VM
        BY <3>1, <3>2, <1>1
      <4> QED
        BY <3>2, <3>3, <4>1
    <3>4. CASE /\ permits' = [permits EXCEPT ![depth[r]] = @ + 1]
               /\ idle' = idle
      <4>1. permits[depth[r]] + 1 \in Nat
        BY <3>1
      <4> QED
        BY <3>2, <3>4, <4>1
    <3> QED
      BY <3>3, <3>4, <1>2
  <2>2. /\ vm' \in [Renders -> VM \cup {NoVM}]
        /\ pc' \in [Renders -> PC] /\ ctxDone' \in [Renders -> BOOLEAN]
    BY <1>2 DEF TypeOK, PC
  <2>3. /\ issued' \in [Renders -> 0..MaxCalls]
        /\ queue' \in [Renders -> Seq(Calls)]
        /\ outstanding' \in [Renders -> Int]
        /\ completed' \in [Renders -> Seq([id : Calls, ok : BOOLEAN])]
        /\ settled' \in [Renders -> SUBSET Calls]
        /\ jsDone' \in [Renders -> BOOLEAN]
        /\ failed' \in [Renders -> BOOLEAN]
        /\ reusable' \in [Renders -> BOOLEAN]
        /\ ticks' \in [Renders -> 0..MaxTicks]
    <3>1. << >> \in Seq(Calls) /\ << >> \in Seq([id : Calls, ok : BOOLEAN])
      OBVIOUS
    <3>2. 0 \in 0..MaxCalls /\ 0 \in 0..MaxTicks /\ 0 \in Int
      OBVIOUS
    <3>3. /\ queue' \in [Renders -> Seq(Calls)]
          /\ completed' \in [Renders -> Seq([id : Calls, ok : BOOLEAN])]
      BY <3>1, <1>3 DEF TypeOK
    <3>4. /\ issued' \in [Renders -> 0..MaxCalls]
          /\ outstanding' \in [Renders -> Int]
          /\ ticks' \in [Renders -> 0..MaxTicks]
      BY <3>2, <1>3 DEF TypeOK
    <3>5. /\ settled' \in [Renders -> SUBSET Calls]
          /\ jsDone' \in [Renders -> BOOLEAN]
          /\ failed' \in [Renders -> BOOLEAN]
          /\ reusable' \in [Renders -> BOOLEAN]
      BY <1>3 DEF TypeOK
    <3> QED
      BY <3>3, <3>4, <3>5
  <2>4. call' \in [Renders -> [Calls -> CallState]]
    BY <1>3 DEF TypeOK, CallState
  <2> QED
    BY <2>1, <2>2, <2>3, <2>4, <1>3 DEF TypeOK
<1>5. HeldIsVM' /\ AtItsDepth'
  BY <1>2, <1>3 DEF HeldIsVM, AtItsDepth, Holding, TypeOK
<1>6. /\ \A s \in Renders : s # r =>
           /\ queue'[s] = queue[s] /\ call'[s] = call[s]
           /\ issued'[s] = issued[s] /\ pc'[s] = pc[s]
           /\ settled'[s] = settled[s] /\ completed'[s] = completed[s]
      /\ queue'[r] = << >> /\ completed'[r] = << >> /\ settled'[r] = {}
      /\ pc'[r] = "ended"
  BY <1>2, <1>3 DEF TypeOK
<1>7. QueuedIsQueued'
  BY <1>6 DEF QueuedIsQueued
<1>8. NotMadeYet'
  BY <1>6 DEF NotMadeYet
<1>9. AnswersWereMade'
  BY <1>6 DEF AnswersWereMade
<1>10. SlotsAreLiveGoroutines'
  <2>1. \A s \in Renders, c \in Calls :
          call'[s][c] \in Live <=> call[s][c] \in Live
    BY <1>3, <1>6, FunctionsTyped DEF Live
  <2> QED
    BY <2>1, <1>3, SameLiveCalls
<1> QED
  BY <1>4, <1>5, <1>7, <1>8, <1>9, <1>10

\* Steps of a goroutine that is alive before and after.
LEMMA AliveKeepsSlotInv ==
  ASSUME SlotInv, NEW r \in Renders, NEW c \in Calls,
         \/ HandlerReturn(r, c) \/ FetchReturn(r, c) \/ Deliver(r, c)
         \/ Abandon(r, c) \/ \E child \in Renders : FetchPage(r, c, child)
  PROVE  SlotInv'
<1> USE DEF SlotInv
<1>1. PICK to \in Live :
        call[r][c] \in Live /\ call' = [call EXCEPT ![r][c] = to]
  BY DEF HandlerReturn, FetchReturn, Deliver, Abandon, FetchPage, SetCall, Live
<1>2. /\ UNCHANGED <<permits, idle, created, issued, queue, outstanding,
                     settled, jsDone, failed, reusable, ticks, ctxDone, vm,
                     slots>>
      /\ \A s \in Renders : pc'[s] # pc[s] => pc[s] = "off" /\ pc'[s] = "enter"
      /\ pc' \in [Renders -> PC]
      /\ depth' \in [Renders -> Nat]
      /\ parent' \in [Renders -> Renders \cup {NoRender}]
      /\ \A s \in Renders : pc[s] # "off" => depth'[s] = depth[s]
  <2>1. CASE \E child \in Renders : FetchPage(r, c, child)
    <3>1. PICK child \in Renders : FetchPage(r, c, child)
      BY <2>1
    <3>2. depth[r] + 1 \in Nat
      <4>1. depth[r] \in Nat
        BY DEF TypeOK
      <4> QED
        BY <4>1
    <3>3. /\ pc[child] = "off" /\ pc' = [pc EXCEPT ![child] = "enter"]
          /\ parent' = [parent EXCEPT ![child] = r]
          /\ depth' = [depth EXCEPT ![child] = depth[r] + 1]
          /\ UNCHANGED <<pools, work, outcome, slots, ctxDone, vm>>
      BY <3>1 DEF FetchPage, Goto
    <3> QED
      BY <3>2, <3>3 DEF PC, TypeOK, pools, work, outcome
  <2>2. CASE HandlerReturn(r, c) \/ FetchReturn(r, c) \/ Abandon(r, c)
    BY <2>2 DEF HandlerReturn, FetchReturn, Abandon, TypeOK, pools, work,
                outcome, lineage
  <2>3. CASE Deliver(r, c)
    BY <2>3 DEF Deliver, TypeOK, pools, outcome, lineage
  <2> QED
    BY <2>1, <2>2, <2>3
<1>3. nested' \in [Renders -> [Calls -> Renders \cup {NoRender}]]
  <2>1. CASE \E child \in Renders : FetchPage(r, c, child)
    <3>1. PICK child \in Renders :
            nested' = [nested EXCEPT ![r][c] = child]
      BY <2>1 DEF FetchPage
    <3>2. nested \in [Renders -> [Calls -> Renders \cup {NoRender}]]
      BY DEF TypeOK
    <3> QED
      BY <3>1, <3>2
  <2>2. CASE FetchReturn(r, c)
    BY <2>2 DEF FetchReturn, TypeOK
  <2>3. CASE HandlerReturn(r, c) \/ Deliver(r, c) \/ Abandon(r, c)
    BY <2>3 DEF HandlerReturn, Deliver, Abandon, TypeOK
  <2> QED
    BY <2>1, <2>2, <2>3
<1>4. /\ completed' \in [Renders -> Seq([id : Calls, ok : BOOLEAN])]
      /\ AnswersWereMade'
  <2>1. CASE ~ Deliver(r, c)
    <3>1. UNCHANGED completed
      BY <2>1 DEF HandlerReturn, FetchReturn, Abandon, FetchPage, work
    <3> QED
      BY <3>1, <1>2 DEF TypeOK, AnswersWereMade
  <2>2. CASE Deliver(r, c)
    <3> DEFINE Answer == [id : Calls, ok : BOOLEAN]
    <3>1. PICK ok \in BOOLEAN :
            completed' = [completed EXCEPT ![r] =
                            Append(@, [id |-> c, ok |-> ok])]
      BY <2>2 DEF Deliver
    <3> DEFINE a == [id |-> c, ok |-> ok]
    <3>2. a \in Answer /\ a.id = c
      OBVIOUS
    <3>3. c <= issued[r]
      <4>1. pc[r] # "ended" /\ call[r][c] # "none"
        BY <2>2 DEF Deliver, Holding
      <4>2. issued[r] \in Nat /\ c \in Nat
        BY DEF TypeOK
      <4> QED
        BY <4>1, <4>2 DEF NotMadeYet
    <3>4. completed' = [completed EXCEPT ![r] = Append(@, a)]
      BY <3>1
    <3> HIDE DEF a, Answer
    <3>5. completed[r] \in Seq(Answer)
      BY DEF TypeOK, Answer
    <3>6. /\ Append(completed[r], a) \in Seq(Answer)
          /\ \A i \in 1..Len(Append(completed[r], a)) :
               \/ Append(completed[r], a)[i] = a
               \/ /\ i \in 1..Len(completed[r])
                  /\ Append(completed[r], a)[i] = completed[r][i]
      BY <3>2, <3>5
    <3>7. completed' \in [Renders -> Seq(Answer)]
      BY <3>4, <3>6 DEF TypeOK, Answer
    <3>8. \A s \in Renders : s # r => completed'[s] = completed[s]
      BY <3>4 DEF TypeOK
    <3>9. completed'[r] = Append(completed[r], a)
      BY <3>4 DEF TypeOK
    <3>10. ASSUME NEW s \in Renders, NEW i \in 1..Len(completed'[s])
           PROVE  completed'[s][i].id <= issued[s]
      <4>1. CASE s # r
        BY <4>1, <3>8 DEF AnswersWereMade
      <4>2. CASE s = r
        BY <4>2, <3>2, <3>3, <3>6, <3>9 DEF AnswersWereMade
      <4> QED
        BY <4>1, <4>2
    <3> QED
      BY <3>7, <3>10, <1>2 DEF AnswersWereMade, Answer
  <2> QED
    BY <2>1, <2>2
<1>5. call' \in [Renders -> [Calls -> CallState]]
  BY <1>1 DEF TypeOK, CallState, Live
<1>6. TypeOK'
  BY <1>2, <1>3, <1>4, <1>5 DEF TypeOK
<1>7. HeldIsVM' /\ AtItsDepth'
  BY <1>2 DEF HeldIsVM, AtItsDepth, Holding
<1>8. \A s \in Renders, d \in Calls :
        \/ call'[s][d] = call[s][d]
        \/ call[s][d] \in Live /\ call'[s][d] \in Live
  BY <1>1, FunctionsTyped
<1>9. QueuedIsQueued'
  <2>1. \A s \in Renders : \A i \in 1..Len(queue[s]) : queue[s][i] \in Calls
    <3>1. \A s \in Renders : queue[s] \in Seq(Calls)
      BY DEF TypeOK
    <3> QED
      BY <3>1, ElementOfSeq
  <2>3. UNCHANGED <<queue, issued>>
    BY <1>2
  <2> SUFFICES ASSUME NEW s \in Renders, NEW i \in 1..Len(queue[s])
               PROVE  /\ call'[s][queue[s][i]] = "queued"
                      /\ queue[s][i] <= issued[s]
                      /\ \A j \in 1..Len(queue[s]) :
                           i # j => queue[s][i] # queue[s][j]
    BY <2>3 DEF QueuedIsQueued
  <2>2. queue[s][i] \in Calls /\ call[s][queue[s][i]] = "queued"
    BY <2>1 DEF QueuedIsQueued
  <2>4. call[s][queue[s][i]] \notin Live
    BY <2>2 DEF Live
  <2> QED
    BY <2>2, <2>4, <1>8 DEF QueuedIsQueued
<1>10. NotMadeYet'
  BY <1>2, <1>8 DEF NotMadeYet, Live
<1>11. SlotsAreLiveGoroutines'
  BY <1>2, <1>8, SameLiveCalls
<1> QED
  BY <1>4, <1>6, <1>7, <1>9, <1>10, <1>11

\* The goroutine ends and its slot with it.
LEMMA ReleaseKeepsSlotInv ==
  ASSUME SlotInv, NEW r \in Renders, NEW c \in Calls, Release(r, c)
  PROVE  SlotInv'
<1> USE DEF SlotInv
<1>1. /\ call[r][c] = "releasing" /\ slots' = slots - 1
      /\ call' = [call EXCEPT ![r][c] = "none"]
      /\ UNCHANGED <<permits, idle, created, issued, queue, outstanding,
                     completed, settled, jsDone, failed, reusable, ticks, depth,
                     parent, pc, ctxDone, vm, nested>>
  BY DEF Release, SetCall, pools, work, outcome, lineage
<1>2. \A s \in Renders, d \in Calls :
        call'[s][d] = IF s = r /\ d = c THEN "none" ELSE call[s][d]
  BY <1>1, FunctionsTyped
<1>3. /\ LiveCalls' = LiveCalls \ {<<r, c>>}
      /\ <<r, c>> \in LiveCalls
  <2>1. \A s \in Renders, d \in Calls :
          call'[s][d] \in Live <=> call[s][d] \in Live /\ <<s, d>> # <<r, c>>
    BY <1>2 DEF Live
  <2> QED
    BY <2>1, <1>1 DEF LiveCalls, Live
<1>4. /\ Cardinality(LiveCalls') = Cardinality(LiveCalls) - 1
      /\ Cardinality(LiveCalls') \in Nat
  <2>1. IsFiniteSet(LiveCalls')
    BY <1>3, LiveCallsFinite, FS_RemoveElement
  <2> QED
    BY <2>1, <1>3, LiveCallsFinite, FS_RemoveElement, FS_CardinalityType
<1>5. SlotsAreLiveGoroutines' /\ slots' \in Nat
  BY <1>1, <1>4 DEF SlotsAreLiveGoroutines, TypeOK
<1>6. call' \in [Renders -> [Calls -> CallState]]
  BY <1>1 DEF TypeOK, CallState
<1>7. TypeOK'
  BY <1>1, <1>5, <1>6 DEF TypeOK
<1>8. HeldIsVM' /\ AtItsDepth' /\ AnswersWereMade'
  BY <1>1 DEF HeldIsVM, AtItsDepth, AnswersWereMade
<1>9. QueuedIsQueued'
  <2>1. \A s \in Renders : \A i \in 1..Len(queue[s]) : queue[s][i] \in Calls
    <3>1. \A s \in Renders : queue[s] \in Seq(Calls)
      BY DEF TypeOK
    <3> QED
      BY <3>1, ElementOfSeq
  <2> QED
    BY <2>1, <1>1, <1>2 DEF QueuedIsQueued
<1>10. NotMadeYet'
  BY <1>1, <1>2 DEF NotMadeYet
<1> QED
  BY <1>5, <1>7, <1>8, <1>9, <1>10

LEMMA NextKeepsSlotInv == SlotInv /\ [Next]_vars => SlotInv'
<1> SUFFICES ASSUME SlotInv, [Next]_vars PROVE SlotInv'
  OBVIOUS
<1>1. ASSUME NEW r \in Renders,
             Request(r) \/ RenderStep(r) \/ Cancel(r) \/ ContextStep(r)
      PROVE  SlotInv'
  BY <1>1, MovesKeepSlotInv, TurnsKeepSlotInv, StartsKeepSlotInv,
     PutKeepsSlotInv DEF RenderStep, ContextStep, RenderMoves
<1>2. ASSUME NEW r \in Renders, NEW c \in Calls,
             \/ HandlerReturn(r, c) \/ FetchReturn(r, c) \/ WorkerStep(r, c)
             \/ \E child \in Renders : FetchPage(r, c, child)
      PROVE  SlotInv'
  BY <1>2, AliveKeepsSlotInv, ReleaseKeepsSlotInv DEF WorkerStep
<1>3. CASE UNCHANGED vars
  <2>1. UNCHANGED <<call, queue, issued, completed, settled, slots, pc>>
    BY <1>3 DEF vars, work, workers
  <2>2. TypeOK'
    BY <1>3 DEF SlotInv, TypeOK, vars, pools, work, workers, outcome, lineage
  <2>3. HeldIsVM' /\ AtItsDepth'
    BY <1>3 DEF SlotInv, HeldIsVM, AtItsDepth, vars, lineage
  <2> QED
    BY <2>1, <2>2, <2>3, WorkersUntouched DEF SlotInv
<1> QED
  BY <1>1, <1>2, <1>3 DEF Next

\* Every variable keeps its type: in particular no permit, slot or promise
\* counter ever leaves its range (engine.go, async.go).
THEOREM TypeCorrect == Spec => []TypeOK
<1>1. SlotInv => TypeOK
  BY DEF SlotInv
<1> QED
  BY <1>1, InitSlotInv, NextKeepsSlotInv, PTL DEF Spec

\* However many renders are cancelled, interrupted or nested, the slots taken
\* are exactly the goroutines alive, and never more than maxHostCalls of them
\* (async.go: '"holds a slot" and "goroutine is alive" stay the same thing').
THEOREM SlotsAccounted == Spec => []SlotsAreLiveGoroutines
<1>1. SlotInv => SlotsAreLiveGoroutines
  BY DEF SlotInv
<1> QED
  BY <1>1, InitSlotInv, NextKeepsSlotInv, PTL DEF Spec

-----------------------------------------------------------------------------
(* Whose callbacks run in a render.                                         *)

Started == Holding \ {"start"}

LEMMA NextKeepsOwnCallbacks ==
  ASSUME SlotInv, OwnCallbacksOnly, [Next]_vars
  PROVE  OwnCallbacksOnly'
<1> USE DEF SlotInv, OwnCallbacksOnly
<1>1. ASSUME NEW r \in Renders,
             StartRender(r) \/ Complete(r) \/ Tick(r)
      PROVE  OwnCallbacksOnly'
  <2>1. pc[r] \in Holding
    BY <1>1 DEF StartRender, Complete, Tick, Holding
  <2>2. vm[r].jobs \in SUBSET Renders /\ outstanding[r] \in Int
        /\ outstanding[r] - 1 \in Int
    BY <2>1 DEF HeldIsVM, VM, TypeOK
  <2>3. \E jobs \in SUBSET Renders, base \in Int :
           jobs \subseteq {r} /\ Turn(r, jobs, base)
    <3>1. CASE StartRender(r)
      <4>1. {} \in SUBSET Renders /\ 0 \in Int /\ Turn(r, {}, 0)
        BY <3>1 DEF StartRender, KeptJobs
      <4> QED
        BY <4>1
    <3>2. CASE Complete(r)
      <4>1. vm[r].jobs \subseteq {r}
        BY <3>2 DEF Complete, Holding
      <4>2. Turn(r, vm[r].jobs, outstanding[r] - 1)
        BY <3>2 DEF Complete
      <4> QED
        BY <2>2, <4>1, <4>2
    <3>3. CASE Tick(r)
      <4>1. PICK jobs \in SUBSET vm[r].jobs : Turn(r, jobs, outstanding[r])
        BY <3>3 DEF Tick
      <4>2. vm[r].jobs \subseteq {r}
        BY <3>3 DEF Tick, Holding
      <4> QED
        BY <2>2, <4>1, <4>2
    <3> QED
      BY <1>1, <3>1, <3>2, <3>3
  <2>4. PICK jobs \in SUBSET Renders, base \in Int :
           jobs \subseteq {r} /\ Turn(r, jobs, base)
    BY <2>3
  <2>5. /\ vm'[r].jobs \subseteq {r}
        /\ \A s \in Renders : s # r => vm'[s] = vm[s]
        /\ \E to \in {"stop", "top"} : pc' = [pc EXCEPT ![r] = to]
    BY <2>1, <2>4, TurnShape DEF TurnDoes
  <2> QED
    BY <2>5, FunctionsTyped
<1>2. ASSUME NEW r \in Renders, RenderMoves(r)
      PROVE  OwnCallbacksOnly'
  <2>1. CASE Interrupt(r)
    <3>1. /\ vm' = [vm EXCEPT ![r] = [vm[r] EXCEPT !.intr = TRUE]]
          /\ pc' = pc /\ vm[r] \in VM
      BY <2>1 DEF Interrupt, Armed, HeldIsVM
    <3>2. vm'[r].jobs = vm[r].jobs
      BY <3>1 DEF TypeOK, VM
    <3>3. \A s \in Renders : s # r => vm'[s] = vm[s]
      BY <3>1 DEF TypeOK
    <3> QED
      BY <3>1, <3>2, <3>3
  <2>2. CASE AcquireFast(r) \/ AcquireIdle(r) \/ AcquireBuild(r)
    <3>1. /\ pc' = [pc EXCEPT ![r] = "start"]
          /\ \A s \in Renders : s # r => vm'[s] = vm[s]
      <4>1. CASE AcquireFast(r)
        BY <4>1, FunctionsTyped DEF AcquireFast, Take, Goto
      <4>2. CASE AcquireIdle(r)
        BY <4>2, FunctionsTyped DEF AcquireIdle, Take, Goto
      <4>3. CASE AcquireBuild(r)
        BY <4>3, FunctionsTyped DEF AcquireBuild, Goto
      <4> QED
        BY <2>2, <4>1, <4>2, <4>3
    <3> QED
      BY <3>1, FunctionsTyped
  <2>3. CASE /\ ~Interrupt(r) /\ ~AcquireFast(r)
             /\ ~AcquireIdle(r) /\ ~AcquireBuild(r)
    <3>1. /\ vm' = vm
          /\ \A s \in Renders : pc'[s] \in Started => pc[s] \in Started
      <4>1. CASE Cancel(r) \/ Propagate(r)
        BY <4>1 DEF Cancel, Propagate
      <4>2. CASE ~Cancel(r) /\ ~Propagate(r)
        <5>1. /\ vm' = vm
              /\ \/ \E to \in {"enter", "wait", "ended"} :
                      pc' = [pc EXCEPT ![r] = to]
                 \/ /\ pc[r] \in Started
                    /\ \E to \in PC : pc' = [pc EXCEPT ![r] = to]
          BY <1>2, <2>3, <4>2 DEF RenderMoves, Request, Refuse, AcquireSlow,
               BuildFailed, AcquireCancelled, Finished, DrainCancelled,
               DrainTop, GiveUp, Park, Stop, Goto, Started, Holding, PC
        <5>2. pc \in [Renders -> PC]
          BY DEF TypeOK
        <5> QED
          BY <5>1, <5>2 DEF Started, Holding
      <4> QED
        BY <4>1, <4>2
    <3> QED
      BY <3>1 DEF Started
  <2> QED
    BY <2>1, <2>2, <2>3
<1>3. ASSUME NEW r \in Renders, Launch(r) \/ ParkedStart(r) \/ Put(r)
      PROVE  OwnCallbacksOnly'
  <2>1. /\ \A s \in Renders : pc'[s] \in Started => pc[s] \in Started
        /\ \A s \in Renders : pc'[s] \in Started => vm'[s] = vm[s]
    <3>1. CASE Launch(r)
      BY <3>1 DEF Launch
    <3>2. CASE ParkedStart(r)
      BY <3>2, FunctionsTyped DEF ParkedStart, Goto, Holding, Started
    <3>3. CASE Put(r)
      <4>1. /\ pc' = [pc EXCEPT ![r] = "ended"]
            /\ vm' = [vm EXCEPT ![r] = NoVM]
        BY <3>3 DEF Put, Goto
      <4> QED
        BY <4>1 DEF Holding, Started, TypeOK
    <3> QED
      BY <1>3, <3>1, <3>2, <3>3
  <2> QED
    BY <2>1 DEF Started
<1>4. ASSUME NEW r \in Renders, NEW c \in Calls,
             \/ HandlerReturn(r, c) \/ FetchReturn(r, c) \/ WorkerStep(r, c)
             \/ \E child \in Renders : FetchPage(r, c, child)
      PROVE  OwnCallbacksOnly'
  <2>1. /\ vm' = vm
        /\ \A s \in Renders : pc'[s] \in Started => pc[s] \in Started
    <3>1. CASE \E child \in Renders : FetchPage(r, c, child)
      <4>1. PICK child \in Renders :
              vm' = vm /\ pc' = [pc EXCEPT ![child] = "enter"]
        BY <3>1 DEF FetchPage, Goto
      <4> QED
        BY <4>1 DEF Holding, Started, TypeOK
    <3>2. CASE HandlerReturn(r, c) \/ FetchReturn(r, c) \/ WorkerStep(r, c)
      BY <3>2 DEF HandlerReturn, FetchReturn, WorkerStep, Deliver, Abandon,
           Release
    <3> QED
      BY <1>4, <3>1, <3>2
  <2> QED
    BY <2>1 DEF Started
<1>5. CASE UNCHANGED vars
  BY <1>5 DEF vars
<1>6. ASSUME NEW r \in Renders,
             Request(r) \/ RenderStep(r) \/ Cancel(r) \/ ContextStep(r)
      PROVE  OwnCallbacksOnly'
  BY <1>6, <1>1, <1>2, <1>3 DEF RenderStep, ContextStep, RenderMoves
<1> QED
  BY <1>4, <1>5, <1>6 DEF Next

\* Whatever the renders before it left on a pooled runtime, a render runs only
\* callbacks it scheduled itself (globals.go, __skgo_reset).
THEOREM CallbacksAreOwn == Spec => []OwnCallbacksOnly
<1>1. Init => OwnCallbacksOnly
  BY DEF Init, OwnCallbacksOnly, Holding
<1>2. SlotInv /\ OwnCallbacksOnly /\ [Next]_vars => OwnCallbacksOnly'
  BY NextKeepsOwnCallbacks
<1> QED
  BY <1>1, <1>2, InitSlotInv, NextKeepsSlotInv, PTL DEF Spec
-----------------------------------------------------------------------------
(* Where the runtimes are.                                                  *)

\* The next runtime built gets an id nobody has, and two idle runtimes never
\* share one.
IdsAreOwn ==
  /\ \A d \in Depths : \A m \in idle[d] : m.id < created
  /\ \A r \in Renders : pc[r] \in Holding => vm[r].id < created
  /\ \A d, e \in Depths : \A m \in idle[d], n \in idle[e] :
       m.id = n.id => d = e /\ m = n

IdleIsFinite == \A d \in Depths : IsFiniteSet(idle[d])

PoolInv == PoolConserved /\ IdsAreOwn /\ IdleIsFinite

LEMMA HoldersFinite ==
  ASSUME NEW d \in Depths
  PROVE  IsFiniteSet(Holders(d)) /\ Cardinality(Holders(d)) \in Nat
<1>1. Holders(d) \subseteq Renders
  BY DEF Holders
<1> QED
  BY <1>1, FS_Subset, FS_CardinalityType

\* What leaves every runtime where it was leaves the pools as they were.
LEMMA PoolStays ==
  ASSUME PoolInv, UNCHANGED <<permits, idle, created>>,
         \A s \in Renders : pc'[s] \in Holding <=> pc[s] \in Holding,
         \A s \in Renders : pc[s] \in Holding =>
           depth'[s] = depth[s] /\ vm'[s].id = vm[s].id
  PROVE  PoolInv'
<1> USE DEF PoolInv, PoolConserved, RuntimeExclusive, IdsAreOwn, IdleIsFinite
<1>1. \A d \in Depths : Holders(d)' = Holders(d)
  BY DEF Holders
<1>2. \A d \in Depths :
        permits'[d] + Cardinality(idle'[d]) + Cardinality(Holders(d)') = Size
  BY <1>1
<1>3. RuntimeExclusive'
  OBVIOUS
<1> QED
  BY <1>2, <1>3

\* The runtimes and the ids, when a render comes to hold one.
LEMMA PoolGives ==
  ASSUME SlotInv, PoolInv, NEW r \in Renders, NEW d \in Depths, NEW m \in VM,
         pc[r] \notin Holding, depth[r] = d, depth' = depth,
         pc' = [pc EXCEPT ![r] = "start"],
         vm' = [vm EXCEPT ![r] = m],
         \/ /\ m \in idle[d] /\ idle' = [idle EXCEPT ![d] = @ \ {m}]
            /\ UNCHANGED <<permits, created>>
         \/ /\ permits' = [permits EXCEPT ![d] = @ - 1] /\ UNCHANGED idle
            /\ m.id = created /\ created' = created + 1
  PROVE  PoolInv'
<1> USE DEF SlotInv, PoolInv
<1>1. /\ pc'[r] = "start" /\ vm'[r] = m
      /\ \A s \in Renders : s # r => pc'[s] = pc[s] /\ vm'[s] = vm[s]
  BY FunctionsTyped
<1>2. /\ Holders(d)' = Holders(d) \cup {r} /\ r \notin Holders(d)
      /\ \A e \in Depths : e # d => Holders(e)' = Holders(e)
  BY <1>1 DEF Holders, Holding
<1>3. Cardinality(Holders(d)') = Cardinality(Holders(d)) + 1
  BY <1>2, HoldersFinite, FS_AddElement
<1>4. /\ idle \in [Depths -> SUBSET VM] /\ permits \in [Depths -> Nat]
      /\ created \in Nat
      /\ \A s \in Renders : pc[s] \in Holding => vm[s] \in VM
  BY DEF TypeOK, HeldIsVM
<1>5. CASE /\ m \in idle[d] /\ idle' = [idle EXCEPT ![d] = @ \ {m}]
           /\ UNCHANGED <<permits, created>>
  <2>1. /\ idle'[d] = idle[d] \ {m}
        /\ \A e \in Depths : e # d => idle'[e] = idle[e]
        /\ \A e \in Depths : idle'[e] \subseteq idle[e]
    BY <1>4, <1>5
  <2>2. /\ IsFiniteSet(idle'[d]) /\ Cardinality(idle[d]) \in Nat
        /\ Cardinality(idle'[d]) = Cardinality(idle[d]) - 1
    BY <1>5, <2>1, FS_RemoveElement, FS_CardinalityType DEF IdleIsFinite
  <2>3. ASSUME NEW e \in Depths
        PROVE  /\ permits'[e] + Cardinality(idle'[e]) + Cardinality(Holders(e)')
                    = Size
               /\ IsFiniteSet(idle'[e])
    <3>1. permits[d] + Cardinality(idle[d]) + Cardinality(Holders(d)) = Size
          /\ permits[d] \in Nat /\ Cardinality(Holders(d)) \in Nat
      BY <1>4, HoldersFinite DEF PoolConserved
    <3>2. CASE e = d
      BY <3>1, <3>2, <2>2, <1>3, <1>5
    <3>3. CASE e # d
      BY <3>3, <2>1, <1>2, <1>5 DEF PoolConserved, IdleIsFinite
    <3> QED
      BY <3>2, <3>3
  <2>4. RuntimeExclusive'
    <3>1. \A s \in Renders : s # r /\ pc[s] \in Holding => vm[s].id # m.id
      BY <1>5 DEF PoolConserved, RuntimeExclusive
    <3>2. \A e \in Depths : \A n \in idle'[e] : n.id # m.id
      BY <1>5, <2>1 DEF IdsAreOwn
    <3> QED
      BY <1>1, <2>1, <3>1, <3>2 DEF PoolConserved, RuntimeExclusive
  <2>5. IdsAreOwn'
    BY <1>1, <1>5, <2>1 DEF IdsAreOwn
  <2> QED
    BY <2>3, <2>4, <2>5 DEF PoolConserved, IdleIsFinite
<1>6. CASE /\ permits' = [permits EXCEPT ![d] = @ - 1] /\ UNCHANGED idle
           /\ m.id = created /\ created' = created + 1
  <2>1. ASSUME NEW e \in Depths
        PROVE  permits'[e] + Cardinality(idle'[e]) + Cardinality(Holders(e)')
                 = Size
    <3>1. permits[e] + Cardinality(idle[e]) + Cardinality(Holders(e)) = Size
          /\ permits[e] \in Nat /\ Cardinality(Holders(e)) \in Nat
          /\ Cardinality(idle[e]) \in Nat
      BY <1>4, HoldersFinite, FS_CardinalityType DEF PoolConserved, IdleIsFinite
    <3>2. CASE e = d
      BY <3>1, <3>2, <1>3, <1>4, <1>6
    <3>3. CASE e # d
      BY <3>1, <3>3, <1>2, <1>4, <1>6
    <3> QED
      BY <3>2, <3>3
  <2>2. RuntimeExclusive'
    <3>1. \A s \in Renders : pc[s] \in Holding =>
            vm[s].id \in Nat /\ vm[s].id < created
      BY <1>4 DEF IdsAreOwn, VM
    <3>2. \A e \in Depths : \A n \in idle[e] : n.id \in Nat /\ n.id < created
      BY <1>4 DEF IdsAreOwn, VM
    <3> QED
      BY <1>1, <1>4, <1>6, <3>1, <3>2 DEF PoolConserved, RuntimeExclusive
  <2>3. IdsAreOwn'
    <3>1. \A s \in Renders : pc'[s] \in Holding => vm'[s].id < created'
      BY <1>1, <1>4, <1>6 DEF IdsAreOwn, VM
    <3>2. \A e \in Depths : \A n \in idle'[e] : n.id < created'
      BY <1>4, <1>6 DEF IdsAreOwn, VM
    <3> QED
      BY <1>6, <3>1, <3>2 DEF IdsAreOwn
  <2> QED
    BY <1>6, <2>1, <2>2, <2>3 DEF PoolConserved, IdleIsFinite
<1> QED
  BY <1>5, <1>6

\* A render ends: its runtime is idle again, or its permit is free.
LEMMA PutKeepsPool ==
  ASSUME SlotInv, PoolInv, NEW r \in Renders, Put(r)
  PROVE  PoolInv'
<1> USE DEF SlotInv, PoolInv
<1> DEFINE left == [vm[r] EXCEPT !.open = issued[r] - Cardinality(settled[r])]
<1>0. PICK d \in Depths : depth[r] = d
  BY DEF Put, AtItsDepth, Holding
<1>1. /\ \/ idle' = [idle EXCEPT ![d] = @ \cup {left}] /\ permits' = permits
         \/ permits' = [permits EXCEPT ![d] = @ + 1] /\ idle' = idle
      /\ vm' = [vm EXCEPT ![r] = NoVM]
      /\ pc[r] = "put" /\ pc' = [pc EXCEPT ![r] = "ended"]
      /\ UNCHANGED <<created, depth>>
  BY <1>0 DEF Put, Goto, lineage
<1>2. /\ pc'[r] = "ended"
      /\ \A s \in Renders : s # r => pc'[s] = pc[s] /\ vm'[s] = vm[s]
  BY <1>1, FunctionsTyped
<1>3. pc[r] \in Holding /\ vm[r] \in VM
  BY <1>1 DEF HeldIsVM, Holding
<1>4. /\ Holders(d)' = Holders(d) \ {r} /\ r \in Holders(d)
      /\ \A e \in Depths : e # d => Holders(e)' = Holders(e)
  BY <1>0, <1>1, <1>2, <1>3 DEF Holders, Holding
<1>5. Cardinality(Holders(d)') = Cardinality(Holders(d)) - 1
  BY <1>3, <1>4, HoldersFinite, FS_RemoveElement
<1>6. left.id = vm[r].id
  BY <1>3 DEF VM
<1> HIDE DEF left
<1>7. /\ idle \in [Depths -> SUBSET VM] /\ permits \in [Depths -> Nat]
      /\ created \in Nat
  BY DEF TypeOK
<1>8. CASE idle' = [idle EXCEPT ![d] = @ \cup {left}] /\ permits' = permits
  <2>1. /\ idle'[d] = idle[d] \cup {left}
        /\ \A e \in Depths : e # d => idle'[e] = idle[e]
    BY <1>3, <1>7, <1>8
  <2>2. \A e \in Depths : \A n \in idle[e] : n.id # left.id
    BY <1>3, <1>6 DEF PoolConserved, RuntimeExclusive
  <2>3. /\ IsFiniteSet(idle'[d]) /\ Cardinality(idle[d]) \in Nat
        /\ Cardinality(idle'[d]) = Cardinality(idle[d]) + 1
    <3>1. left \notin idle[d] /\ IsFiniteSet(idle[d])
      BY <1>3, <2>2 DEF IdleIsFinite
    <3> QED
      BY <3>1, <2>1, FS_AddElement, FS_CardinalityType
  <2>4. ASSUME NEW e \in Depths
        PROVE  /\ permits'[e] + Cardinality(idle'[e]) + Cardinality(Holders(e)')
                    = Size
               /\ IsFiniteSet(idle'[e])
    <3>1. permits[d] + Cardinality(idle[d]) + Cardinality(Holders(d)) = Size
          /\ permits[d] \in Nat /\ Cardinality(Holders(d)) \in Nat
      BY <1>3, <1>7, HoldersFinite DEF PoolConserved
    <3>2. CASE e = d
      BY <3>1, <3>2, <2>3, <1>5, <1>8
    <3>3. CASE e # d
      BY <3>3, <2>1, <1>4, <1>8 DEF PoolConserved, IdleIsFinite
    <3> QED
      BY <3>2, <3>3
  <2>5. RuntimeExclusive'
    <3>1. ASSUME NEW s \in Renders, pc'[s] \in Holding,
                 NEW e \in Depths, NEW n \in idle'[e]
          PROVE  n.id # vm'[s].id
      <4>1. s # r /\ pc[s] \in Holding /\ vm'[s] = vm[s]
        BY <1>2, <3>1 DEF Holding
      <4>2. CASE n \in idle[e]
        BY <4>1, <4>2 DEF PoolConserved, RuntimeExclusive
      <4>3. CASE n = left
        BY <4>1, <4>3, <1>3, <1>6 DEF PoolConserved, RuntimeExclusive
      <4> QED
        BY <4>2, <4>3, <2>1
    <3>2. ASSUME NEW s \in Renders, NEW t \in Renders, s # t,
                 pc'[s] \in Holding, pc'[t] \in Holding
          PROVE  vm'[s].id # vm'[t].id
      BY <3>2, <1>2 DEF PoolConserved, RuntimeExclusive, Holding
    <3> QED
      BY <3>1, <3>2 DEF RuntimeExclusive
  <2>6. IdsAreOwn'
    <3>1. \A e \in Depths : \A n \in idle'[e] : n.id < created'
      BY <1>1, <1>3, <1>6, <2>1 DEF IdsAreOwn
    <3>2. \A s \in Renders : pc'[s] \in Holding => vm'[s].id < created'
      BY <1>1, <1>2 DEF IdsAreOwn, Holding
    <3>3. ASSUME NEW e \in Depths, NEW f \in Depths,
                 NEW m \in idle'[e], NEW n \in idle'[f], m.id = n.id
          PROVE  e = f /\ m = n
      BY <3>3, <2>1, <2>2, <1>3 DEF IdsAreOwn
    <3> QED
      BY <3>1, <3>2, <3>3 DEF IdsAreOwn
  <2> QED
    BY <2>4, <2>5, <2>6 DEF PoolConserved, IdleIsFinite
<1>9. CASE permits' = [permits EXCEPT ![d] = @ + 1] /\ idle' = idle
  <2>1. ASSUME NEW e \in Depths
        PROVE  permits'[e] + Cardinality(idle'[e]) + Cardinality(Holders(e)')
                 = Size
    <3>1. permits[e] + Cardinality(idle[e]) + Cardinality(Holders(e)) = Size
          /\ permits[e] \in Nat /\ Cardinality(Holders(e)) \in Nat
          /\ Cardinality(idle[e]) \in Nat
      BY <1>7, HoldersFinite, FS_CardinalityType DEF PoolConserved, IdleIsFinite
    <3>2. CASE e = d
      BY <3>1, <3>2, <1>5, <1>7, <1>9
    <3>3. CASE e # d
      BY <3>1, <3>3, <1>4, <1>7, <1>9
    <3> QED
      BY <3>2, <3>3
  <2>2. RuntimeExclusive'
    BY <1>2, <1>9 DEF PoolConserved, RuntimeExclusive, Holding
  <2>3. IdsAreOwn'
    BY <1>1, <1>2, <1>9 DEF IdsAreOwn, Holding
  <2> QED
    BY <1>9, <2>1, <2>2, <2>3 DEF PoolConserved, IdleIsFinite
<1> QED
  BY <1>1, <1>8, <1>9

LEMMA NextKeepsPool ==
  ASSUME SlotInv, PoolInv, [Next]_vars
  PROVE  PoolInv'
<1> USE DEF SlotInv
<1>1. ASSUME NEW r \in Renders,
             StartRender(r) \/ Complete(r) \/ Tick(r)
      PROVE  PoolInv'
  <2>1. pc[r] \in Holding
    BY <1>1 DEF StartRender, Complete, Tick, Holding
  <2>2. /\ UNCHANGED <<permits, idle, created, depth>>
        /\ \E jobs \in SUBSET Renders, base \in Int : Turn(r, jobs, base)
    BY <1>1, <2>1, TurnOfRender DEF StartRender, Complete, Tick, pools, lineage
  <2>3. /\ vm'[r].id = vm[r].id
        /\ \A s \in Renders : s # r => vm'[s] = vm[s]
        /\ \E to \in {"stop", "top"} : pc' = [pc EXCEPT ![r] = to]
    BY <2>1, <2>2, TurnShape DEF TurnDoes
  <2>4. \A s \in Renders : pc'[s] \in Holding <=> pc[s] \in Holding
    BY <2>1, <2>3, FunctionsTyped DEF Holding
  <2> QED
    BY <2>2, <2>3, <2>4, PoolStays
<1>2. ASSUME NEW r \in Renders, RenderMoves(r)
      PROVE  PoolInv'
  <2>1. CASE AcquireFast(r) \/ AcquireIdle(r)
    <3>1. PICK m \in idle[depth[r]] : Take(r, depth[r], m)
      BY <2>1 DEF AcquireFast, AcquireIdle
    <3>2. /\ depth[r] \in Depths /\ pc[r] \notin Holding
          /\ UNCHANGED <<permits, created, depth>>
      <4>1. CASE AcquireFast(r)
        BY <4>1 DEF AcquireFast, Holding, lineage, TypeOK
      <4>2. CASE AcquireIdle(r)
        BY <4>2 DEF AcquireIdle, AtItsDepth, Holding, lineage
      <4> QED
        BY <2>1, <4>1, <4>2
    <3>3. m \in VM
      BY <3>2 DEF TypeOK
    <3> QED
      BY <3>1, <3>2, <3>3, PoolGives DEF Take, Goto
  <2>2. CASE AcquireBuild(r)
    <3> DEFINE m == [id |-> created, jobs |-> {}, intr |-> FALSE, open |-> 0]
    <3>1. /\ depth[r] \in Depths /\ pc[r] \notin Holding
          /\ UNCHANGED <<idle, depth>>
      BY <2>2 DEF AcquireBuild, AtItsDepth, Holding, lineage
    <3>2. m \in VM /\ m.id = created
      BY DEF VM, TypeOK
    <3>3. /\ permits' = [permits EXCEPT ![depth[r]] = @ - 1]
          /\ vm' = [vm EXCEPT ![r] = m] /\ created' = created + 1
          /\ pc' = [pc EXCEPT ![r] = "start"]
      BY <2>2 DEF AcquireBuild, Goto
    <3> HIDE DEF m
    <3> QED
      BY <3>1, <3>2, <3>3, PoolGives
  <2>3. CASE Interrupt(r)
    <3>1. /\ vm' = [vm EXCEPT ![r] = [vm[r] EXCEPT !.intr = TRUE]]
          /\ UNCHANGED <<pc, permits, idle, created, depth>> /\ vm[r] \in VM
      BY <2>3 DEF Interrupt, Armed, HeldIsVM, pools, lineage
    <3>2. \A s \in Renders : vm'[s].id = vm[s].id
      BY <3>1, FunctionsTyped DEF VM
    <3> QED
      BY <3>1, <3>2, PoolStays
  <2>4. CASE /\ ~Interrupt(r) /\ ~AcquireFast(r)
             /\ ~AcquireIdle(r) /\ ~AcquireBuild(r)
    <3>1. UNCHANGED <<permits, idle, created, depth, vm>>
      BY <1>2, <2>4 DEF RenderMoves, Request, Refuse, AcquireSlow, BuildFailed,
           AcquireCancelled, Finished, DrainCancelled, DrainTop, GiveUp, Park,
           Stop, Cancel, Propagate, pools, lineage
    <3>2. \A s \in Renders : pc'[s] \in Holding <=> pc[s] \in Holding
      <4>1. CASE Cancel(r) \/ Propagate(r)
        BY <4>1 DEF Cancel, Propagate
      <4>2. CASE ~Cancel(r) /\ ~Propagate(r)
        <5>1. \/ /\ pc[r] \notin Holding
                 /\ \E to \in {"enter", "wait", "ended"} :
                      pc' = [pc EXCEPT ![r] = to]
              \/ /\ pc[r] \in Holding
                 /\ \E to \in Holding : pc' = [pc EXCEPT ![r] = to]
          BY <1>2, <2>4, <4>2 DEF RenderMoves, Request, Refuse, AcquireSlow,
               BuildFailed, AcquireCancelled, Finished, DrainCancelled,
               DrainTop, GiveUp, Park, Stop, Goto, Holding
        <5>2. pc \in [Renders -> PC]
          BY DEF TypeOK
        <5> QED
          BY <5>1, <5>2 DEF Holding
      <4> QED
        BY <4>1, <4>2
    <3> QED
      BY <3>1, <3>2, PoolStays
  <2> QED
    BY <2>1, <2>2, <2>3, <2>4
<1>3. ASSUME NEW r \in Renders, Launch(r) \/ ParkedStart(r)
      PROVE  PoolInv'
  <2>1. /\ UNCHANGED <<permits, idle, created, depth, vm>>
        /\ \A s \in Renders : pc'[s] \in Holding <=> pc[s] \in Holding
    BY <1>3, FunctionsTyped DEF Launch, ParkedStart, Goto, Holding, pools,
       lineage
  <2> QED
    BY <2>1, PoolStays
<1>4. ASSUME NEW r \in Renders, NEW c \in Calls,
             \/ HandlerReturn(r, c) \/ FetchReturn(r, c) \/ WorkerStep(r, c)
             \/ \E child \in Renders : FetchPage(r, c, child)
      PROVE  PoolInv'
  <2>1. CASE \E child \in Renders : FetchPage(r, c, child)
    <3>1. PICK child \in Renders :
            /\ pc[child] = "off" /\ pc' = [pc EXCEPT ![child] = "enter"]
            /\ depth' = [depth EXCEPT ![child] = depth[r] + 1]
            /\ UNCHANGED <<permits, idle, created, vm>>
      BY <2>1 DEF FetchPage, Goto, pools
    <3>2. /\ \A s \in Renders : pc'[s] \in Holding <=> pc[s] \in Holding
          /\ \A s \in Renders : pc[s] \in Holding => depth'[s] = depth[s]
      BY <3>1 DEF TypeOK, Holding
    <3> QED
      BY <3>1, <3>2, PoolStays
  <2>2. CASE HandlerReturn(r, c) \/ FetchReturn(r, c) \/ WorkerStep(r, c)
    <3>1. UNCHANGED <<permits, idle, created, depth, vm, pc>>
      BY <2>2 DEF HandlerReturn, FetchReturn, WorkerStep, Deliver, Abandon,
         Release, pools, lineage
    <3> QED
      BY <3>1, PoolStays
  <2> QED
    BY <1>4, <2>1, <2>2
<1>5. CASE UNCHANGED vars
  BY <1>5, PoolStays DEF vars, pools, lineage
<1>6. ASSUME NEW r \in Renders,
             Request(r) \/ RenderStep(r) \/ Cancel(r) \/ ContextStep(r)
      PROVE  PoolInv'
  BY <1>6, <1>1, <1>2, <1>3, PutKeepsPool DEF RenderStep, ContextStep, RenderMoves
<1> QED
  BY <1>4, <1>5, <1>6 DEF Next

LEMMA InitPool == Init => PoolInv
<1> SUFFICES ASSUME Init PROVE PoolInv
  OBVIOUS
<1>1. \A d \in Depths : Holders(d) = {}
  BY DEF Init, Holders, Holding
<1>2. \A d \in Depths : Cardinality(Holders(d)) = 0
  BY <1>1, FS_EmptySet
<1>3. ASSUME NEW d \in Depths
      PROVE  /\ permits[d] + Cardinality(idle[d]) = Size /\ permits[d] \in Int
             /\ IsFiniteSet(idle[d])
  <2>1. CASE d = 0
    <3> DEFINE m == [id |-> 0, jobs |-> {}, intr |-> FALSE, open |-> 0]
    <3>1. idle[d] = {m} /\ permits[d] = Size - 1
      BY <2>1 DEF Init
    <3> HIDE DEF m
    <3>2. IsFiniteSet(idle[d]) /\ Cardinality(idle[d]) = 1
      <4>1. IsFiniteSet({m}) /\ Cardinality({m}) = 1
        BY FS_Singleton, Zenon
      <4> QED
        BY <3>1, <4>1
    <3>3. Size - 1 \in Int /\ (Size - 1) + 1 = Size
      OBVIOUS
    <3> QED
      BY <3>1, <3>2, <3>3
  <2>2. CASE d # 0
    <3>1. idle[d] = {} /\ permits[d] = Size
      BY <2>2 DEF Init
    <3> QED
      BY <3>1, FS_EmptySet
  <2> QED
    BY <2>1, <2>2
<1>4. \A d \in Depths : permits[d] + Cardinality(idle[d]) + Cardinality(Holders(d)) = Size
  BY <1>2, <1>3
<1>5. RuntimeExclusive
  BY DEF Init, RuntimeExclusive, Holding
<1>6. IdsAreOwn
  <2> DEFINE m0 == [id |-> 0, jobs |-> {}, intr |-> FALSE, open |-> 0]
  <2>1. \A d \in Depths : idle[d] = IF d = 0 THEN {m0} ELSE {}
    BY DEF Init
  <2>2. m0.id = 0 /\ created = 1 /\ \A s \in Renders : pc[s] \notin Holding
    BY DEF Init, Holding
  <2> HIDE DEF m0
  <2> QED
    BY <2>1, <2>2 DEF IdsAreOwn
<1> QED
  BY <1>3, <1>4, <1>5, <1>6 DEF PoolInv, PoolConserved, IdleIsFinite

\* Every runtime is idle in one pool or held by one render, and every permit of
\* every pool is free or accounted for by one of them, however builds fail and
\* renders end (engine.go, acquire and release).
THEOREM NoRuntimeIsLost == Spec => []PoolConserved
<1>1. PoolInv => PoolConserved
  BY DEF PoolInv
<1>2. SlotInv /\ PoolInv /\ [Next]_vars => PoolInv'
  BY NextKeepsPool
<1> QED
  BY <1>1, <1>2, InitPool, InitSlotInv, NextKeepsSlotInv, PTL DEF Spec

-----------------------------------------------------------------------------
(* Who answers a promise.                                                   *)

Before    == {"off", "enter", "wait", "start"}
Answering == {"running", "nested", "answered"}
Awaited   == Answering \cup {"queued"}

NoCallYet == \A r \in Renders : pc[r] \in Before => issued[r] = 0

\* An answer is in the channel once, and neither it nor a call that has yet to
\* be answered is of a promise that was settled.
AnsweredOnce ==
  \A r \in Renders :
    /\ \A c \in Calls : call[r][c] \in Awaited =>
         c \notin settled[r] /\ c \notin Delivered(r)
    /\ \A i \in 1..Len(completed[r]) :
         /\ completed[r][i].id \notin settled[r]
         /\ \A j \in 1..Len(completed[r]) :
              i # j => completed[r][i].id # completed[r][j].id

PromiseInv == EveryPromiseHasAnAnswerer /\ NoCallYet /\ AnsweredOnce

LEMMA TailIds ==
  ASSUME NEW S, NEW s \in Seq(S), s # << >>
  PROVE  IdsOf(s) = {Head(s)} \cup IdsOf(Tail(s))
<1>1. /\ Len(s) \in Nat /\ Len(s) # 0 /\ Head(s) = s[1]
      /\ Tail(s) \in Seq(S) /\ Len(Tail(s)) = Len(s) - 1
      /\ \A i \in 1..Len(Tail(s)) : Tail(s)[i] = s[i + 1]
  OBVIOUS
<1>2. DOMAIN s = 1..Len(s) /\ DOMAIN Tail(s) = 1..Len(Tail(s))
  BY <1>1
<1>3. ASSUME NEW k \in DOMAIN s
      PROVE  s[k] = Head(s) \/ \E j \in DOMAIN Tail(s) : s[k] = Tail(s)[j]
  <2>1. CASE k = 1
    BY <2>1, <1>1
  <2>2. CASE k # 1
    <3>1. k - 1 \in 1..Len(Tail(s)) /\ (k - 1) + 1 = k
      BY <2>2, <1>1, <1>2
    <3> QED
      BY <3>1, <1>1, <1>2
  <2> QED
    BY <2>1, <2>2
<1>4. \A j \in DOMAIN Tail(s) : j + 1 \in DOMAIN s /\ Tail(s)[j] = s[j + 1]
  BY <1>1, <1>2
<1>5. 1 \in DOMAIN s
  BY <1>1, <1>2
<1>6. IdsOf(s) \subseteq {Head(s)} \cup IdsOf(Tail(s))
  BY <1>3, Zenon DEF IdsOf
<1>7. Head(s) \in IdsOf(s)
  BY <1>1, <1>5, Zenon DEF IdsOf
<1>8. IdsOf(Tail(s)) \subseteq IdsOf(s)
  BY <1>4, Zenon DEF IdsOf
<1> QED
  BY <1>6, <1>7, <1>8

LEMMA AppendIds ==
  ASSUME NEW S, NEW s \in Seq(S), NEW a \in S
  PROVE  IdsOf(Append(s, a)) = IdsOf(s) \cup {a}
<1> DEFINE w == Append(s, a)
<1>1. /\ Len(s) \in Nat /\ Len(w) = Len(s) + 1 /\ w[Len(w)] = a
      /\ w \in Seq(S)
      /\ \A i \in 1..Len(s) : w[i] = s[i]
  OBVIOUS
<1>2. DOMAIN s = 1..Len(s) /\ DOMAIN w = 1..Len(w)
  BY <1>1
<1> HIDE DEF w
<1>3. \A i \in DOMAIN w : i \in DOMAIN s \/ i = Len(w)
  BY <1>1, <1>2
<1>4. /\ \A i \in DOMAIN s : i \in DOMAIN w
      /\ Len(w) \in DOMAIN w
  BY <1>1, <1>2
<1>5. IdsOf(w) = IdsOf(s) \cup {a}
  BY <1>1, <1>2, <1>3, <1>4 DEF IdsOf
<1> QED
  BY <1>5 DEF w

LEMMA ConcatIds ==
  ASSUME NEW S, NEW s \in Seq(S), NEW t \in Seq(S)
  PROVE  IdsOf(s) \cup IdsOf(t) \subseteq IdsOf(s \o t)
<1> DEFINE w == s \o t
<1>1. /\ w \in Seq(S)
      /\ Len(w) = Len(s) + Len(t)
      /\ \A i \in 1..(Len(s) + Len(t)) :
           w[i] = IF i <= Len(s) THEN s[i] ELSE t[i - Len(s)]
  BY ZenonT(60), ConcatProperties
<1> HIDE DEF w
<1>2. /\ DOMAIN s = 1..Len(s) /\ DOMAIN t = 1..Len(t) /\ DOMAIN w = 1..Len(w)
      /\ Len(s) \in Nat /\ Len(t) \in Nat
  BY <1>1
<1>3. \A i \in DOMAIN s : i \in DOMAIN w /\ w[i] = s[i]
  BY <1>1, <1>2
<1>4. ASSUME NEW i \in DOMAIN t
      PROVE  \E k \in DOMAIN w : w[k] = t[i]
  <2>1. Len(s) + i \in DOMAIN w /\ w[Len(s) + i] = t[i]
    BY <1>1, <1>2
  <2> QED
    BY <2>1
<1>5. IdsOf(s) \cup IdsOf(t) \subseteq IdsOf(w)
  BY <1>3, <1>4 DEF IdsOf
<1> QED
  BY <1>5 DEF w

\* What was delivered, as the places of the channel.
LEMMA DeliveredAt ==
  ASSUME SlotInv, NEW r \in Renders
  PROVE  Delivered(r) = {completed[r][i].id : i \in 1..Len(completed[r])}
<1>1. DOMAIN completed[r] = 1..Len(completed[r])
  <2>1. completed[r] \in Seq([id : Calls, ok : BOOLEAN])
    BY DEF SlotInv, TypeOK
  <2> QED
    BY <2>1
<1> QED
  BY <1>1 DEF Delivered, IdsOf

LEMMA UnsettledFinite ==
  ASSUME SlotInv, NEW r \in Renders
  PROVE  /\ IsFiniteSet(Unsettled(r)) /\ Cardinality(Unsettled(r)) \in Nat
         /\ settled[r] \subseteq 1..issued[r] /\ IsFiniteSet(settled[r])
         /\ Cardinality(Unsettled(r)) = issued[r] - Cardinality(settled[r])
<1>1. issued[r] \in Nat /\ settled[r] \subseteq 1..issued[r]
  BY DEF SlotInv, TypeOK, AnswersWereMade
<1>2. IsFiniteSet(1..issued[r]) /\ Cardinality(1..issued[r]) = issued[r]
  <2>1. 1 \in Int /\ issued[r] \in Int
    BY <1>1
  <2>2. /\ IsFiniteSet(1..issued[r])
        /\ Cardinality(1..issued[r]) =
             IF 1 > issued[r] THEN 0 ELSE issued[r] - 1 + 1
    BY <2>1, FS_Interval
  <2> QED
    BY <1>1, <2>2
<1>3. IsFiniteSet(settled[r])
  BY <1>1, <1>2, FS_Subset
<1>4. /\ Unsettled(r) \subseteq 1..issued[r]
      /\ 1..issued[r] \cap settled[r] = settled[r]
  BY <1>1 DEF Unsettled
<1>5. Cardinality(Unsettled(r)) = issued[r] - Cardinality(settled[r])
  <2>1. Cardinality(1..issued[r] \ settled[r]) =
          Cardinality(1..issued[r]) - Cardinality(1..issued[r] \cap settled[r])
    BY <1>2, <1>3, FS_Difference
  <2> QED
    BY <2>1, <1>2, <1>4 DEF Unsettled
<1> QED
  BY <1>1, <1>2, <1>3, <1>4, <1>5, FS_Subset, FS_CardinalityType

\* What neither makes nor answers a promise, and takes no answerer away unless
\* the context is done.
LEMMA PromisesStay ==
  ASSUME SlotInv, PromiseInv,
         UNCHANGED <<issued, queue, outstanding, completed, settled>>,
         \A s \in Renders :
           /\ ctxDone[s] => ctxDone'[s]
           /\ pc'[s] \in Before => pc[s] \in Before
           /\ \A c \in Calls :
                /\ call'[s][c] \in Awaited => call[s][c] \in Awaited
                /\ call[s][c] \in Answering =>
                     call'[s][c] \in Answering \/ ctxDone[s]
  PROVE  PromiseInv'
<1>1. \A s \in Renders : /\ Unsettled(s)' = Unsettled(s)
                         /\ Delivered(s)' = Delivered(s)
                         /\ IdsOf(queue[s])' = IdsOf(queue[s])
  BY DEF Unsettled, Delivered, IdsOf
<1>2. NoCallYet' /\ AnsweredOnce'
  BY <1>1 DEF PromiseInv, NoCallYet, AnsweredOnce
<1>3. EveryPromiseHasAnAnswerer'
  <2> SUFFICES ASSUME NEW s \in Renders, NEW c \in Unsettled(s)
               PROVE  /\ outstanding'[s] = Cardinality(Unsettled(s)')
                      /\ \/ c \in IdsOf(queue'[s])
                         \/ call'[s][c] \in Answering
                         \/ c \in Delivered(s)'
                         \/ ctxDone'[s]
    <3>1. \A s \in Renders : outstanding'[s] = Cardinality(Unsettled(s)')
      BY <1>1 DEF PromiseInv, EveryPromiseHasAnAnswerer
    <3> QED
      BY <3>1, <1>1 DEF EveryPromiseHasAnAnswerer, Answering
  <2>1. outstanding'[s] = Cardinality(Unsettled(s)')
    BY <1>1 DEF PromiseInv, EveryPromiseHasAnAnswerer
  <2>2. \/ c \in IdsOf(queue[s]) \/ call[s][c] \in Answering
        \/ c \in Delivered(s) \/ ctxDone[s]
    BY DEF PromiseInv, EveryPromiseHasAnAnswerer, Answering
  <2>3. c \in Calls
    BY DEF Unsettled, SlotInv, TypeOK
  <2> QED
    BY <2>1, <2>2, <2>3, <1>1
<1> QED
  BY <1>2, <1>3 DEF PromiseInv

\* A turn: `base' promises of the calls made so far are open when it begins,
\* and it makes n more.
TurnOpens(r, base, n) ==
  /\ base = Cardinality(1..issued[r] \ settled'[r])
  /\ settled[r] \subseteq settled'[r] /\ settled'[r] \subseteq 1..issued[r]
  /\ settled'[r] \subseteq settled[r] \cup Delivered(r)
  /\ Delivered(r)' \subseteq Delivered(r)
  /\ Delivered(r) \subseteq Delivered(r)' \cup settled'[r]
  /\ \A i \in 1..Len(completed'[r]) :
       /\ completed'[r][i].id \notin settled'[r]
       /\ \A j \in 1..Len(completed'[r]) :
            i # j => completed'[r][i].id # completed'[r][j].id
  /\ \A s \in Renders : s # r =>
       completed'[s] = completed[s] /\ settled'[s] = settled[s]

LEMMA TurnKeepsPromises ==
  ASSUME SlotInv, PromiseInv, NEW r \in Renders, UNCHANGED ctxDone,
         NEW jobs, NEW base \in Int, NEW n \in 0..(MaxCalls - issued[r]),
         TurnDoes(r, jobs, base, n), TurnOpens(r, base, n)
  PROVE  PromiseInv'
<1>0. issued[r] \in 0..MaxCalls /\ queue[r] \in Seq(Calls)
  BY DEF SlotInv, TypeOK
<1>1. issued[r] \in Nat /\ n \in Nat /\ issued[r] + n <= MaxCalls
  BY <1>0
<1>2. /\ issued'[r] = issued[r] + n /\ outstanding'[r] = base + n
      /\ queue'[r] = queue[r] \o [k \in 1..n |-> issued[r] + k]
      /\ \A c \in Calls :
           call'[r][c] = IF c \in (issued[r] + 1)..(issued[r] + n)
                           THEN "queued" ELSE call[r][c]
      /\ pc'[r] \in {"stop", "top"}
  BY DEF TurnDoes, SlotInv, TypeOK
<1>3. \A s \in Renders : s # r =>
        /\ queue'[s] = queue[s] /\ call'[s] = call[s]
        /\ issued'[s] = issued[s] /\ pc'[s] = pc[s]
        /\ outstanding'[s] = outstanding[s]
        /\ completed'[s] = completed[s] /\ settled'[s] = settled[s]
        /\ Unsettled(s)' = Unsettled(s) /\ Delivered(s)' = Delivered(s)
        /\ IdsOf(queue[s])' = IdsOf(queue[s])
  <2>1. \A s \in Renders : s # r =>
          /\ queue'[s] = queue[s] /\ call'[s] = call[s]
          /\ issued'[s] = issued[s] /\ pc'[s] = pc[s]
          /\ outstanding'[s] = outstanding[s]
          /\ completed'[s] = completed[s] /\ settled'[s] = settled[s]
    BY DEF TurnDoes, TurnOpens, SlotInv, TypeOK
  <2> QED
    BY <2>1 DEF Unsettled, Delivered, IdsOf
<1> DEFINE new == (issued[r] + 1)..(issued[r] + n)
           old == 1..issued[r] \ settled'[r]
<1>4. /\ \A c \in Delivered(r) : c \in 1..issued[r]
      /\ \A c \in new : c \in Calls /\ c \notin 1..issued[r]
      /\ \A c \in Calls : c \notin new => call'[r][c] = call[r][c]
  <2>1. \A i \in 1..Len(completed[r]) :
          completed[r][i].id \in Calls /\ completed[r][i].id <= issued[r]
    <3>1. completed[r] \in Seq([id : Calls, ok : BOOLEAN])
      BY DEF SlotInv, TypeOK
    <3>2. \A i \in 1..Len(completed[r]) :
            completed[r][i] \in [id : Calls, ok : BOOLEAN]
      BY <3>1, ElementOfSeq
    <3> QED
      BY <3>2 DEF SlotInv, AnswersWereMade
  <2>2. \A c \in Delivered(r) : c \in 1..issued[r]
    <3>1. Delivered(r) = {completed[r][i].id : i \in 1..Len(completed[r])}
      BY DeliveredAt
    <3> QED
      BY <3>1, <2>1, <1>1
  <2>3. \A c \in new : c \in Calls /\ c \notin 1..issued[r]
    BY <1>1
  <2> QED
    BY <2>2, <2>3, <1>2
<1>5. NoCallYet'
  BY <1>2, <1>3 DEF NoCallYet, Before, PromiseInv
<1>6. AnsweredOnce'
  <2>1. ASSUME NEW c \in Calls, call'[r][c] \in Awaited
        PROVE  c \notin settled'[r] /\ c \notin Delivered(r)'
    <3>1. CASE c \in new
      BY <3>1, <1>4 DEF TurnOpens
    <3>2. CASE c \notin new
      <4>1. c \notin settled[r] /\ c \notin Delivered(r)
        BY <2>1, <3>2, <1>4 DEF PromiseInv, AnsweredOnce
      <4> QED
        BY <4>1 DEF TurnOpens
    <3> QED
      BY <3>1, <3>2
  <2> QED
    BY <2>1, <1>3 DEF AnsweredOnce, PromiseInv, TurnOpens
<1>7. Unsettled(r)' = old \cup new /\ old \cap new = {}
  BY <1>1, <1>2 DEF Unsettled, TurnOpens
<1>8. outstanding'[r] = Cardinality(Unsettled(r)')
  <2>1. IsFiniteSet(1..issued[r]) /\ IsFiniteSet(new) /\ Cardinality(new) = n
    <3>1. IsFiniteSet(1..issued[r])
      BY <1>1, FS_Interval
    <3>2. issued[r] + 1 \in Int /\ issued[r] + n \in Int
      BY <1>1
    <3>3. /\ IsFiniteSet(new)
          /\ Cardinality(new) = IF issued[r] + 1 > issued[r] + n THEN 0
                                ELSE (issued[r] + n) - (issued[r] + 1) + 1
      BY <3>2, FS_Interval
    <3> HIDE DEF new
    <3> QED
      BY <3>1, <3>3, <1>1
  <2>2. IsFiniteSet(old) /\ Cardinality(old) \in Nat
    BY <2>1, FS_Subset, FS_CardinalityType
  <2>3. Cardinality(old) = base
    BY DEF TurnOpens
  <2> HIDE DEF old, new
  <2>4. Cardinality(old \cup new) = Cardinality(old) + Cardinality(new)
    <3>1. Cardinality(old \cup new) =
            Cardinality(old) + Cardinality(new) - Cardinality(old \cap new)
      BY <2>1, <2>2, FS_Union
    <3>2. Cardinality(old \cap new) = 0
      BY <1>7, FS_EmptySet
    <3> QED
      BY <3>1, <3>2, <2>1, <2>2, <1>1
  <2> QED
    BY <2>1, <2>3, <2>4, <1>2, <1>7
<1>9. ASSUME NEW c \in Unsettled(r)'
      PROVE  \/ c \in IdsOf(queue'[r]) \/ call'[r][c] \in Answering
             \/ c \in Delivered(r)' \/ ctxDone'[r]
  <2> DEFINE more == [k \in 1..n |-> issued[r] + k]
  <2>1. more \in Seq(Calls) /\ DOMAIN more = 1..n
    <3>1. more \in [1..n -> Calls]
      BY <1>1
    <3> QED
      BY <3>1, <1>1
  <2>2. IdsOf(queue[r]) \cup IdsOf(more) \subseteq IdsOf(queue'[r])
    <3>1. queue'[r] = queue[r] \o more
      BY <1>2
    <3> HIDE DEF more, Calls
    <3>2. IdsOf(queue[r]) \cup IdsOf(more) \subseteq IdsOf(queue[r] \o more)
      BY <1>0, <2>1, ConcatIds
    <3> QED
      BY <3>1, <3>2
  <2>3. CASE c \in new
    <3>1. c - issued[r] \in 1..n /\ issued[r] + (c - issued[r]) = c
      BY <2>3, <1>1
    <3>2. more[c - issued[r]] = c
      BY <3>1
    <3> HIDE DEF more
    <3>3. c \in IdsOf(more)
      BY <3>1, <3>2, <2>1 DEF IdsOf
    <3> QED
      BY <3>3, <2>2
  <2>4. CASE c \in old
    <3>1. c \in Unsettled(r) /\ c \notin settled'[r]
      BY <2>4 DEF Unsettled, TurnOpens
    <3>2. \/ c \in IdsOf(queue[r]) \/ call[r][c] \in Answering
          \/ c \in Delivered(r) \/ ctxDone[r]
      BY <3>1 DEF PromiseInv, EveryPromiseHasAnAnswerer, Answering
    <3>3. call'[r][c] = call[r][c]
      BY <2>4, <1>1, <1>4
    <3>4. c \in Delivered(r) => c \in Delivered(r)'
      BY <3>1 DEF TurnOpens
    <3> QED
      BY <3>2, <3>3, <3>4, <2>2
  <2> QED
    BY <2>3, <2>4, <1>7
<1>10. EveryPromiseHasAnAnswerer'
  <2>1. ASSUME NEW s \in Renders, s # r
        PROVE  /\ outstanding'[s] = Cardinality(Unsettled(s)')
               /\ \A c \in Unsettled(s)' :
                    \/ c \in IdsOf(queue'[s]) \/ call'[s][c] \in Answering
                    \/ c \in Delivered(s)' \/ ctxDone'[s]
    BY <2>1, <1>3 DEF PromiseInv, EveryPromiseHasAnAnswerer, Answering
  <2> QED
    BY <2>1, <1>8, <1>9 DEF EveryPromiseHasAnAnswerer, Answering
<1> QED
  BY <1>5, <1>6, <1>10 DEF PromiseInv

\* In each turn the promises opened before it are those of the calls made, less
\* the one whose answer it is given.
LEMMA TurnsKeepPromises ==
  ASSUME SlotInv, PromiseInv, NEW r \in Renders,
         StartRender(r) \/ Complete(r) \/ Tick(r)
  PROVE  PromiseInv'
<1>1. ASSUME NEW jobs \in SUBSET Renders, NEW base \in Int,
             Turn(r, jobs, base), pc[r] \in Holding, UNCHANGED ctxDone,
             \A n : TurnOpens(r, base, n)
      PROVE  PromiseInv'
  <2>1. PICK n \in 0..(MaxCalls - issued[r]) : TurnDoes(r, jobs, base, n)
    BY <1>1, TurnShape
  <2> QED
    BY <1>1, <2>1, TurnKeepsPromises
<1>2. ASSUME UNCHANGED <<completed, settled>>, NEW base \in Int,
             base = Cardinality(Unsettled(r))
      PROVE  \A n : TurnOpens(r, base, n)
  <2>1. Delivered(r)' = Delivered(r) /\ settled[r] \subseteq 1..issued[r]
    BY <1>2, UnsettledFinite DEF Delivered, IdsOf
  <2>2. \A i \in 1..Len(completed[r]) :
          /\ completed[r][i].id \notin settled[r]
          /\ \A j \in 1..Len(completed[r]) :
               i # j => completed[r][i].id # completed[r][j].id
    BY DEF PromiseInv, AnsweredOnce
  <2> QED
    BY <1>2, <2>1, <2>2 DEF TurnOpens, Unsettled
<1>3. CASE StartRender(r)
  <2>1. /\ pc[r] = "start" /\ pc[r] \in Holding
        /\ UNCHANGED <<completed, settled, ctxDone>>
    BY <1>3 DEF StartRender, Holding
  <2>2. {} \in SUBSET Renders /\ 0 \in Int /\ Turn(r, {}, 0)
    BY <1>3 DEF StartRender, KeptJobs
  <2>3. Cardinality(Unsettled(r)) = 0
    <3>1. issued[r] = 0
      BY <2>1 DEF PromiseInv, NoCallYet, Before
    <3>2. Unsettled(r) = {}
      BY <3>1 DEF Unsettled
    <3> QED
      BY <3>2, FS_EmptySet
  <2> QED
    BY <2>1, <2>2, <2>3, <1>1, <1>2
<1>4. CASE Tick(r)
  <2>1. pc[r] \in Holding /\ UNCHANGED <<completed, settled, ctxDone>>
    BY <1>4 DEF Tick, Holding
  <2>2. PICK jobs \in SUBSET vm[r].jobs : Turn(r, jobs, outstanding[r])
    BY <1>4 DEF Tick
  <2>3. jobs \in SUBSET Renders /\ outstanding[r] \in Int
    BY <2>1 DEF SlotInv, HeldIsVM, VM, TypeOK
  <2>4. outstanding[r] = Cardinality(Unsettled(r))
    BY DEF PromiseInv, EveryPromiseHasAnAnswerer
  <2> QED
    BY <2>1, <2>2, <2>3, <2>4, <1>1, <1>2
<1>5. CASE Complete(r)
  <2> DEFINE Answer == [id : Calls, ok : BOOLEAN]
             first == Head(completed[r])
             rest == Tail(completed[r])
  <2>1. pc[r] \in Holding /\ UNCHANGED ctxDone
    BY <1>5 DEF Complete, Holding
  <2>2. vm[r].jobs \in SUBSET Renders /\ outstanding[r] - 1 \in Int
    BY <2>1 DEF SlotInv, HeldIsVM, VM, TypeOK
  <2>3. /\ Turn(r, vm[r].jobs, outstanding[r] - 1)
        /\ completed' = [completed EXCEPT ![r] = rest]
        /\ settled' = [settled EXCEPT ![r] = @ \cup {first.id}]
        /\ completed[r] # << >>
    BY <1>5 DEF Complete
  <2>4. /\ completed[r] \in Seq(Answer) /\ settled \in [Renders -> SUBSET Calls]
        /\ completed \in [Renders -> Seq(Answer)]
    BY DEF SlotInv, TypeOK
  <2>5. /\ first \in Answer /\ rest \in Seq(Answer)
        /\ first = completed[r][1] /\ 1 \in 1..Len(completed[r])
        /\ Len(rest) \in Nat /\ Len(completed[r]) = Len(rest) + 1
        /\ \A i \in 1..Len(rest) :
             rest[i] = completed[r][i + 1] /\ i + 1 \in 1..Len(completed[r])
    <3> HIDE DEF Answer
    <3> QED
      BY <2>3, <2>4
  <2>6. IdsOf(completed[r]) = {first} \cup IdsOf(rest)
    BY <2>3, <2>4, TailIds
  <2> HIDE DEF first, rest
  <2>7. /\ completed'[r] = rest /\ settled'[r] = settled[r] \cup {first.id}
        /\ \A s \in Renders : s # r =>
             completed'[s] = completed[s] /\ settled'[s] = settled[s]
    BY <2>3, <2>4
  <2>8. Delivered(r) = {first.id} \cup {a.id : a \in IdsOf(rest)}
    BY <2>6 DEF Delivered
  <2>9. Delivered(r)' = {a.id : a \in IdsOf(rest)}
    BY <2>7 DEF Delivered, IdsOf
  <2>10. /\ first.id \notin settled[r] /\ first.id \in 1..issued[r]
         /\ settled[r] \subseteq 1..issued[r]
    <3>1. first.id \in Calls /\ first.id <= issued[r]
      BY <2>5 DEF SlotInv, AnswersWereMade
    <3>2. first.id \notin settled[r]
      BY <2>5 DEF PromiseInv, AnsweredOnce
    <3>3. issued[r] \in Nat
      BY DEF SlotInv, TypeOK
    <3> QED
      BY <3>1, <3>2, <3>3, UnsettledFinite
  <2>11. outstanding[r] - 1 = Cardinality(1..issued[r] \ settled'[r])
    <3>1. 1..issued[r] \ settled'[r] = Unsettled(r) \ {first.id}
      BY <2>7 DEF Unsettled
    <3>2. first.id \in Unsettled(r)
      BY <2>10 DEF Unsettled
    <3>3. Cardinality(Unsettled(r) \ {first.id}) = Cardinality(Unsettled(r)) - 1
      BY <3>2, UnsettledFinite, FS_RemoveElement
    <3> QED
      BY <3>1, <3>3 DEF PromiseInv, EveryPromiseHasAnAnswerer
  <2>12. \A i \in 1..Len(rest) :
           /\ rest[i].id \notin settled'[r]
           /\ \A j \in 1..Len(rest) : i # j => rest[i].id # rest[j].id
    <3> SUFFICES ASSUME NEW i \in 1..Len(rest)
                 PROVE  /\ rest[i].id \notin settled'[r]
                        /\ \A j \in 1..Len(rest) :
                             i # j => rest[i].id # rest[j].id
      OBVIOUS
    <3>1. rest[i] = completed[r][i + 1] /\ i + 1 \in 1..Len(completed[r])
          /\ i + 1 # 1
      BY <2>5
    <3>2. rest[i].id \notin settled[r] /\ rest[i].id # first.id
      BY <3>1, <2>5 DEF PromiseInv, AnsweredOnce
    <3>3. ASSUME NEW j \in 1..Len(rest), i # j
          PROVE  rest[i].id # rest[j].id
      <4>1. rest[j] = completed[r][j + 1] /\ j + 1 \in 1..Len(completed[r])
        BY <2>5
      <4>2. i + 1 # j + 1
        BY <3>3
      <4> QED
        BY <3>1, <4>1, <4>2 DEF PromiseInv, AnsweredOnce
    <3> QED
      BY <3>2, <3>3, <2>7
  <2>13. \A n : TurnOpens(r, outstanding[r] - 1, n)
    BY <2>7, <2>8, <2>9, <2>10, <2>11, <2>12 DEF TurnOpens
  <2> QED
    BY <2>1, <2>2, <2>3, <2>13, <1>1
<1> QED
  BY <1>3, <1>4, <1>5

\* A call that leaves the queue has a goroutine from that moment on.
LEMMA StartsKeepPromises ==
  ASSUME SlotInv, PromiseInv, NEW r \in Renders, Launch(r) \/ ParkedStart(r)
  PROVE  PromiseInv'
<1> DEFINE c == Head(queue[r])
           rest == Tail(queue[r])
<1>1. /\ StartWorker(r)
      /\ UNCHANGED <<issued, outstanding, completed, settled, ctxDone>>
      /\ \A s \in Renders : pc'[s] \in Before => pc[s] \in Before
  BY FunctionsTyped DEF Launch, ParkedStart, Goto, Before, SlotInv
<1>2. queue[r] \in Seq(Calls) /\ queue[r] # << >>
  BY <1>1 DEF StartWorker, SlotInv, TypeOK
<1>3. IdsOf(queue[r]) = {c} \cup IdsOf(rest)
  BY <1>2, TailIds
<1>4. c \in Calls /\ c = queue[r][1] /\ 1 \in 1..Len(queue[r])
  <2> HIDE DEF Calls
  <2> QED
    BY <1>2
<1>5. call[r][c] = "queued"
  BY <1>4 DEF SlotInv, QueuedIsQueued
<1>6. /\ call' = [call EXCEPT ![r][c] = "running"]
      /\ queue' = [queue EXCEPT ![r] = rest]
  BY <1>1 DEF StartWorker
<1> HIDE DEF c, rest
<1>7. /\ \A s \in Renders : s # r => queue'[s] = queue[s] /\ call'[s] = call[s]
      /\ queue'[r] = rest /\ call'[r][c] = "running"
      /\ \A d \in Calls : d # c => call'[r][d] = call[r][d]
  BY <1>4, <1>6, FunctionsTyped DEF SlotInv
<1>8. \A s \in Renders : /\ Unsettled(s)' = Unsettled(s)
                         /\ Delivered(s)' = Delivered(s)
  BY <1>1 DEF Unsettled, Delivered, IdsOf
<1>9. NoCallYet'
  BY <1>1 DEF PromiseInv, NoCallYet
<1>10. AnsweredOnce'
  <2>1. \A s \in Renders, d \in Calls :
          call'[s][d] \in Awaited => call[s][d] \in Awaited
    BY <1>5, <1>7 DEF Awaited, Answering
  <2> QED
    BY <1>1, <1>8, <2>1 DEF PromiseInv, AnsweredOnce
<1>11. EveryPromiseHasAnAnswerer'
  <2> SUFFICES ASSUME NEW s \in Renders, NEW d \in Unsettled(s)
               PROVE  \/ d \in IdsOf(queue'[s])
                      \/ call'[s][d] \in Answering
                      \/ d \in Delivered(s)
                      \/ ctxDone[s]
    BY <1>1, <1>8 DEF PromiseInv, EveryPromiseHasAnAnswerer, Answering
  <2>1. \/ d \in IdsOf(queue[s]) \/ call[s][d] \in Answering
        \/ d \in Delivered(s) \/ ctxDone[s]
    BY DEF PromiseInv, EveryPromiseHasAnAnswerer, Answering
  <2>2. d \in Calls
    BY DEF Unsettled, SlotInv, TypeOK
  <2>3. CASE s = r /\ d = c
    BY <2>3, <1>7 DEF Answering
  <2>4. CASE s # r
    BY <2>1, <2>4, <1>7
  <2>5. CASE s = r /\ d # c
    BY <2>1, <2>2, <2>5, <1>3, <1>7
  <2> QED
    BY <2>3, <2>4, <2>5
<1> QED
  BY <1>9, <1>10, <1>11 DEF PromiseInv

\* An answer that is sent is in the channel before its goroutine stops counting
\* as the one that answers.
LEMMA DeliverKeepsPromises ==
  ASSUME SlotInv, PromiseInv, NEW r \in Renders, NEW c \in Calls, Deliver(r, c)
  PROVE  PromiseInv'
<1> DEFINE Answer == [id : Calls, ok : BOOLEAN]
<1>1. PICK ok \in BOOLEAN :
        completed' = [completed EXCEPT ![r] = Append(@, [id |-> c, ok |-> ok])]
  BY DEF Deliver
<1> DEFINE a == [id |-> c, ok |-> ok]
           w == Append(completed[r], a)
<1>2. /\ call[r][c] = "answered" /\ call' = [call EXCEPT ![r][c] = "releasing"]
      /\ UNCHANGED <<issued, queue, outstanding, settled, pc, ctxDone>>
  BY DEF Deliver, SetCall
<1>3. completed \in [Renders -> Seq(Answer)] /\ completed[r] \in Seq(Answer)
  BY DEF SlotInv, TypeOK
<1>4. a \in Answer /\ a.id = c
  OBVIOUS
<1>5. /\ completed'[r] = w
      /\ \A s \in Renders : s # r => completed'[s] = completed[s]
  BY <1>1, <1>3
<1> HIDE DEF a, Answer
<1>6. IdsOf(w) = IdsOf(completed[r]) \cup {a}
  BY <1>3, <1>4, AppendIds
<1>7. /\ Len(completed[r]) \in Nat /\ Len(w) = Len(completed[r]) + 1
      /\ w[Len(w)] = a
      /\ \A i \in 1..Len(completed[r]) : w[i] = completed[r][i]
  BY <1>3, <1>4
<1> HIDE DEF w
<1>8. /\ Delivered(r)' = Delivered(r) \cup {c}
      /\ \A s \in Renders : s # r => Delivered(s)' = Delivered(s)
      /\ \A s \in Renders : /\ Unsettled(s)' = Unsettled(s)
                            /\ IdsOf(queue[s])' = IdsOf(queue[s])
  <2>1. Delivered(r)' = {b.id : b \in IdsOf(w)}
    BY <1>5 DEF Delivered, IdsOf
  <2>2. Delivered(r)' = Delivered(r) \cup {c}
    BY <2>1, <1>4, <1>6 DEF Delivered
  <2> QED
    BY <2>2, <1>2, <1>5 DEF Delivered, Unsettled, IdsOf
<1>9. /\ call'[r][c] = "releasing"
      /\ \A s \in Renders, d \in Calls :
           s # r \/ d # c => call'[s][d] = call[s][d]
  BY <1>2, FunctionsTyped DEF SlotInv
<1>10. NoCallYet'
  BY <1>2 DEF PromiseInv, NoCallYet
<1>11. c \notin settled[r] /\ c \notin Delivered(r)
  BY <1>2 DEF PromiseInv, AnsweredOnce, Awaited, Answering
<1>12. AnsweredOnce'
  <2>1. ASSUME NEW s \in Renders, NEW d \in Calls, call'[s][d] \in Awaited
        PROVE  d \notin settled'[s] /\ d \notin Delivered(s)'
    <3>1. s # r \/ d # c
      BY <2>1, <1>9 DEF Awaited, Answering
    <3>2. d \notin settled[s] /\ d \notin Delivered(s)
      BY <2>1, <3>1, <1>9 DEF PromiseInv, AnsweredOnce
    <3> QED
      BY <3>1, <3>2, <1>2, <1>8
  <2>2. \A i \in 1..Len(completed[r]) : completed[r][i].id # c
    BY <1>11, DeliveredAt
  <2>3. ASSUME NEW i \in 1..Len(w)
        PROVE  /\ w[i].id \notin settled[r]
               /\ \A j \in 1..Len(w) : i # j => w[i].id # w[j].id
    <3>1. \A k \in 1..Len(w) : k = Len(w) \/ k \in 1..Len(completed[r])
      BY <1>7
    <3>2. w[Len(w)].id = c
      BY <1>4, <1>7
    <3>3. ASSUME NEW k \in 1..Len(completed[r])
          PROVE  w[k] = completed[r][k] /\ w[k].id # c
      BY <1>7, <2>2
    <3>4. w[i].id \notin settled[r]
      <4>1. CASE i = Len(w)
        BY <4>1, <3>2, <1>11
      <4>2. CASE i \in 1..Len(completed[r])
        BY <4>2, <3>3 DEF PromiseInv, AnsweredOnce
      <4> QED
        BY <4>1, <4>2, <3>1
    <3>5. ASSUME NEW j \in 1..Len(w), i # j
          PROVE  w[i].id # w[j].id
      <4>1. CASE i = Len(w)
        BY <4>1, <3>1, <3>2, <3>3, <3>5
      <4>2. CASE j = Len(w)
        BY <4>2, <3>1, <3>2, <3>3, <3>5
      <4>3. CASE i \in 1..Len(completed[r]) /\ j \in 1..Len(completed[r])
        BY <4>3, <3>3, <3>5 DEF PromiseInv, AnsweredOnce
      <4> QED
        BY <4>1, <4>2, <4>3, <3>1
    <3> QED
      BY <3>4, <3>5
  <2>4. \A i \in 1..Len(completed'[r]) :
          /\ completed'[r][i].id \notin settled'[r]
          /\ \A j \in 1..Len(completed'[r]) :
               i # j => completed'[r][i].id # completed'[r][j].id
    BY <2>3, <1>2, <1>5
  <2>5. ASSUME NEW s \in Renders, s # r
        PROVE  \A i \in 1..Len(completed'[s]) :
                 /\ completed'[s][i].id \notin settled'[s]
                 /\ \A j \in 1..Len(completed'[s]) :
                      i # j => completed'[s][i].id # completed'[s][j].id
    BY <2>5, <1>2, <1>5 DEF PromiseInv, AnsweredOnce
  <2> QED
    BY <2>1, <2>4, <2>5 DEF AnsweredOnce
<1>13. EveryPromiseHasAnAnswerer'
  <2> SUFFICES ASSUME NEW s \in Renders, NEW d \in Unsettled(s)
               PROVE  \/ d \in IdsOf(queue[s])
                      \/ call'[s][d] \in Answering
                      \/ d \in Delivered(s)'
                      \/ ctxDone[s]
    BY <1>2, <1>8 DEF PromiseInv, EveryPromiseHasAnAnswerer, Answering
  <2>1. \/ d \in IdsOf(queue[s]) \/ call[s][d] \in Answering
        \/ d \in Delivered(s) \/ ctxDone[s]
    BY DEF PromiseInv, EveryPromiseHasAnAnswerer, Answering
  <2>2. d \in Calls
    <3>1. issued[s] \in 0..MaxCalls
      BY DEF SlotInv, TypeOK
    <3> QED
      BY <3>1 DEF Unsettled
  <2>3. CASE s = r /\ d = c
    BY <2>3, <1>8
  <2>4. CASE s # r \/ d # c
    BY <2>1, <2>2, <2>4, <1>8, <1>9
  <2> QED
    BY <2>3, <2>4
<1> QED
  BY <1>10, <1>12, <1>13 DEF PromiseInv

\* A render that is over has no promises, whoever is still working for it.
LEMMA PutKeepsPromises ==
  ASSUME SlotInv, PromiseInv, NEW r \in Renders, Put(r)
  PROVE  PromiseInv'
<1>1. /\ issued'[r] = 0 /\ queue'[r] = <<>> /\ outstanding'[r] = 0
      /\ completed'[r] = <<>> /\ settled'[r] = {} /\ ctxDone'[r] = TRUE
      /\ pc'[r] = "ended"
      /\ \A c \in Calls :
           call'[r][c] = IF call[r][c] = "queued" THEN "none" ELSE call[r][c]
  BY DEF Put, Goto, SlotInv, TypeOK
<1>2. \A s \in Renders : s # r =>
        /\ issued'[s] = issued[s] /\ queue'[s] = queue[s]
        /\ outstanding'[s] = outstanding[s] /\ completed'[s] = completed[s]
        /\ settled'[s] = settled[s] /\ ctxDone'[s] = ctxDone[s]
        /\ pc'[s] = pc[s] /\ call'[s] = call[s]
  BY DEF Put, Goto, SlotInv, TypeOK
<1>3. /\ Unsettled(r)' = {} /\ Delivered(r)' = {}
      /\ \A s \in Renders : s # r => /\ Unsettled(s)' = Unsettled(s)
                                     /\ Delivered(s)' = Delivered(s)
                                     /\ IdsOf(queue[s])' = IdsOf(queue[s])
  <2>1. 1..issued'[r] = {} /\ DOMAIN completed'[r] = {} /\ Len(completed'[r]) = 0
    BY <1>1
  <2>2. Unsettled(r)' = {} /\ Delivered(r)' = {}
    BY <2>1 DEF Unsettled, Delivered, IdsOf
  <2> QED
    BY <2>2, <1>2 DEF Unsettled, Delivered, IdsOf
<1>4. NoCallYet'
  BY <1>1, <1>2 DEF PromiseInv, NoCallYet
<1>5. AnsweredOnce'
  <2> DEFINE Once(s) ==
        /\ \A c \in Calls : call[s][c] \in Awaited =>
             c \notin settled[s] /\ c \notin Delivered(s)
        /\ \A i \in 1..Len(completed[s]) :
             /\ completed[s][i].id \notin settled[s]
             /\ \A j \in 1..Len(completed[s]) :
                  i # j => completed[s][i].id # completed[s][j].id
  <2>1. Once(r)'
    <3>1. 1..Len(completed'[r]) = {}
      BY <1>1
    <3> QED
      BY <3>1, <1>1, <1>3
  <2>2. ASSUME NEW s \in Renders, s # r PROVE Once(s)'
    <3>1. Once(s)
      BY DEF PromiseInv, AnsweredOnce
    <3> QED
      BY <2>2, <3>1, <1>2, <1>3
  <2> QED
    BY <2>1, <2>2 DEF AnsweredOnce
<1>6. EveryPromiseHasAnAnswerer'
  <2> DEFINE Kept(s) ==
        /\ outstanding[s] = Cardinality(Unsettled(s))
        /\ \A c \in Unsettled(s) :
             \/ c \in IdsOf(queue[s]) \/ call[s][c] \in Answering
             \/ c \in Delivered(s) \/ ctxDone[s]
  <2>1. Kept(r)'
    <3>1. Cardinality({}) = 0
      BY FS_EmptySet
    <3> QED
      BY <3>1, <1>1, <1>3
  <2>2. ASSUME NEW s \in Renders, s # r PROVE Kept(s)'
    <3>1. Kept(s)
      BY DEF PromiseInv, EveryPromiseHasAnAnswerer, Answering
    <3> QED
      BY <2>2, <3>1, <1>2, <1>3
  <2> QED
    BY <2>1, <2>2 DEF EveryPromiseHasAnAnswerer, Answering
<1> QED
  BY <1>4, <1>5, <1>6 DEF PromiseInv

LEMMA NextKeepsPromises ==
  ASSUME SlotInv, PromiseInv, [Next]_vars
  PROVE  PromiseInv'
<1>1. ASSUME NEW r \in Renders, RenderMoves(r)
      PROVE  PromiseInv'
  <2>1. UNCHANGED <<issued, queue, outstanding, completed, settled, call>>
    BY <1>1 DEF RenderMoves, Request, Refuse, AcquireFast, AcquireSlow,
       AcquireIdle, AcquireBuild, BuildFailed, AcquireCancelled, Finished,
       DrainCancelled, DrainTop, GiveUp, Park, Stop, Cancel, Propagate,
       Interrupt, Take, work, workers
  <2>2. \A s \in Renders : ctxDone[s] => ctxDone'[s]
    <3>1. ctxDone' = ctxDone \/ ctxDone' = [ctxDone EXCEPT ![r] = TRUE]
      BY <1>1 DEF RenderMoves, Request, Refuse, AcquireFast, AcquireSlow,
         AcquireIdle, AcquireBuild, BuildFailed, AcquireCancelled, Finished,
         DrainCancelled, DrainTop, GiveUp, Park, Stop, Cancel, Propagate,
         Interrupt
    <3>2. ctxDone \in [Renders -> BOOLEAN]
      BY DEF SlotInv, TypeOK
    <3> QED
      BY <3>1, <3>2
  <2>3. \A s \in Renders : pc'[s] \in Before => pc[s] \in Before
    <3>1. CASE Cancel(r) \/ Propagate(r) \/ Interrupt(r)
      BY <3>1 DEF Cancel, Propagate, Interrupt
    <3>2. CASE ~Cancel(r) /\ ~Propagate(r) /\ ~Interrupt(r)
      <4>1. \/ /\ pc[r] \in Before /\ \E to : pc' = [pc EXCEPT ![r] = to]
            \/ \E to \in {"ended", "stop", "poll", "park", "put"} :
                 pc' = [pc EXCEPT ![r] = to]
        BY <1>1, <3>2 DEF RenderMoves, Request, Refuse, AcquireFast,
           AcquireSlow, AcquireIdle, AcquireBuild, BuildFailed,
           AcquireCancelled, Finished, DrainCancelled, DrainTop, GiveUp, Park,
           Stop, Take, Goto, Before
      <4>2. pc \in [Renders -> PC]
        BY DEF SlotInv, TypeOK
      <4> QED
        BY <4>1, <4>2 DEF Before
    <3> QED
      BY <3>1, <3>2
  <2> QED
    BY <2>1, <2>2, <2>3, PromisesStay
<1>2. ASSUME NEW r \in Renders, NEW c \in Calls,
             \/ HandlerReturn(r, c) \/ FetchReturn(r, c) \/ Abandon(r, c)
             \/ Release(r, c) \/ \E child \in Renders : FetchPage(r, c, child)
      PROVE  PromiseInv'
  <2>1. /\ UNCHANGED <<issued, queue, outstanding, completed, settled, ctxDone>>
        /\ \/ /\ call[r][c] \in Answering
              /\ \E st \in Answering : call' = [call EXCEPT ![r][c] = st]
           \/ /\ call[r][c] = "answered" /\ ctxDone[r]
              /\ call' = [call EXCEPT ![r][c] = "releasing"]
           \/ /\ call[r][c] = "releasing"
              /\ call' = [call EXCEPT ![r][c] = "none"]
    BY <1>2 DEF HandlerReturn, FetchReturn, Abandon, Release, FetchPage,
       SetCall, Answering, work
  <2>2. \A s \in Renders : pc'[s] \in Before => pc[s] \in Before
    <3>1. CASE \E child \in Renders : FetchPage(r, c, child)
      <4>1. PICK child \in Renders :
              pc[child] = "off" /\ pc' = [pc EXCEPT ![child] = "enter"]
        BY <3>1 DEF FetchPage, Goto
      <4> QED
        BY <4>1, FunctionsTyped DEF SlotInv, Before
    <3>2. CASE ~ \E child \in Renders : FetchPage(r, c, child)
      BY <1>2, <3>2 DEF HandlerReturn, FetchReturn, Abandon, Release
    <3> QED
      BY <3>1, <3>2
  <2>3. \A s \in Renders, d \in Calls :
          /\ call'[s][d] \in Awaited => call[s][d] \in Awaited
          /\ call[s][d] \in Answering => call'[s][d] \in Answering \/ ctxDone[s]
    <3>1. \A s \in Renders, d \in Calls :
            s # r \/ d # c => call'[s][d] = call[s][d]
      BY <2>1, FunctionsTyped DEF SlotInv
    <3>2. \/ call[r][c] \in Answering /\ call'[r][c] \in Answering
          \/ call[r][c] = "answered" /\ ctxDone[r] /\ call'[r][c] = "releasing"
          \/ call[r][c] = "releasing" /\ call'[r][c] = "none"
      BY <2>1, FunctionsTyped DEF SlotInv
    <3> QED
      BY <3>1, <3>2 DEF Awaited, Answering
  <2> QED
    BY <2>1, <2>2, <2>3, PromisesStay
<1>3. CASE UNCHANGED vars
  BY <1>3, PromisesStay DEF vars, work, workers
<1>4. ASSUME NEW r \in Renders,
             Request(r) \/ RenderStep(r) \/ Cancel(r) \/ ContextStep(r)
      PROVE  PromiseInv'
  BY <1>4, <1>1, TurnsKeepPromises, StartsKeepPromises, PutKeepsPromises
     DEF RenderStep, ContextStep, RenderMoves
<1>5. ASSUME NEW r \in Renders, NEW c \in Calls,
             \/ HandlerReturn(r, c) \/ FetchReturn(r, c) \/ WorkerStep(r, c)
             \/ \E child \in Renders : FetchPage(r, c, child)
      PROVE  PromiseInv'
  BY <1>5, <1>2, DeliverKeepsPromises DEF WorkerStep
<1> QED
  BY <1>3, <1>4, <1>5 DEF Next

LEMMA InitPromises == Init => PromiseInv
<1> SUFFICES ASSUME Init PROVE PromiseInv
  OBVIOUS
<1>1. \A r \in Renders : issued[r] = 0 /\ completed[r] = <<>>
        /\ outstanding[r] = 0 /\ \A c \in Calls : call[r][c] = "none"
  BY DEF Init
<1>2. \A r \in Renders : Unsettled(r) = {}
  BY <1>1 DEF Unsettled
<1>3. NoCallYet /\ AnsweredOnce
  BY <1>1 DEF NoCallYet, AnsweredOnce, Awaited, Answering
<1>4. EveryPromiseHasAnAnswerer
  BY <1>1, <1>2, FS_EmptySet DEF EveryPromiseHasAnAnswerer
<1> QED
  BY <1>3, <1>4 DEF PromiseInv

\* A promise a page waits for is in a queue, with a goroutine or in the channel
\* until it is settled, unless the render's context is done (async.go).
THEOREM PromisesAreAnswered == Spec => []EveryPromiseHasAnAnswerer
<1>1. PromiseInv => EveryPromiseHasAnAnswerer
  BY DEF PromiseInv
<1>2. SlotInv /\ PromiseInv /\ [Next]_vars => PromiseInv'
  BY NextKeepsPromises
<1> QED
  BY <1>1, <1>2, InitPromises, InitSlotInv, NextKeepsSlotInv, PTL DEF Spec

-----------------------------------------------------------------------------
(* What a pool hands on.                                                    *)

\* Only a context that is done interrupts a runtime.
InterruptedWereDone ==
  \A r \in Renders : pc[r] \in Holding => (vm[r].intr => ctxDone[r])

CleanInv == IdleRuntimesAreClean /\ InterruptedWereDone

\* What neither lends nor interrupts a runtime.
LEMMA CleanStays ==
  ASSUME CleanInv, UNCHANGED idle,
         \A s \in Renders : pc'[s] \in Holding =>
           pc[s] \in Holding /\ vm'[s].intr = vm[s].intr,
         \A s \in Renders : ctxDone[s] => ctxDone'[s]
  PROVE  CleanInv'
BY DEF CleanInv, IdleRuntimesAreClean, InterruptedWereDone

LEMMA NextKeepsClean ==
  ASSUME SlotInv, PromiseInv, CleanInv, [Next]_vars
  PROVE  CleanInv'
<1>1. ASSUME NEW r \in Renders, StartRender(r) \/ Complete(r) \/ Tick(r)
      PROVE  CleanInv'
  <2>1. pc[r] \in Holding /\ UNCHANGED <<idle, ctxDone>>
    BY <1>1 DEF StartRender, Complete, Tick, Holding, pools
  <2>2. PICK jobs \in SUBSET Renders, base \in Int : Turn(r, jobs, base)
    BY <1>1, TurnOfRender
  <2>3. /\ vm'[r].intr = vm[r].intr
        /\ \A s \in Renders : s # r => vm'[s] = vm[s]
        /\ \E to \in {"stop", "top"} : pc' = [pc EXCEPT ![r] = to]
    BY <2>1, <2>2, TurnShape DEF TurnDoes
  <2>4. \A s \in Renders : pc'[s] \in Holding => pc[s] \in Holding
    BY <2>1, <2>3, FunctionsTyped DEF SlotInv
  <2> QED
    BY <2>1, <2>3, <2>4, CleanStays
<1>2. ASSUME NEW r \in Renders,
             AcquireFast(r) \/ AcquireIdle(r) \/ AcquireBuild(r)
      PROVE  CleanInv'
  <2>1. \E m : /\ ~m.intr /\ vm' = [vm EXCEPT ![r] = m]
               /\ pc' = [pc EXCEPT ![r] = "start"] /\ UNCHANGED ctxDone
    <3>1. CASE AcquireFast(r)
      <4>1. depth[r] \in Depths
        BY <3>1 DEF AcquireFast, SlotInv, TypeOK
      <4> QED
        BY <3>1, <4>1 DEF AcquireFast, Take, Goto, CleanInv, IdleRuntimesAreClean
    <3>2. CASE AcquireIdle(r)
      <4>1. depth[r] \in Depths
        BY <3>2 DEF AcquireIdle, SlotInv, AtItsDepth
      <4> QED
        BY <3>2, <4>1 DEF AcquireIdle, Take, Goto, CleanInv, IdleRuntimesAreClean
    <3>3. CASE AcquireBuild(r)
      <4> DEFINE m == [id |-> created, jobs |-> {}, intr |-> FALSE, open |-> 0]
      <4>1. ~m.intr
        OBVIOUS
      <4>2. /\ vm' = [vm EXCEPT ![r] = m]
            /\ pc' = [pc EXCEPT ![r] = "start"] /\ UNCHANGED ctxDone
        BY <3>3 DEF AcquireBuild, Goto
      <4> HIDE DEF m
      <4> QED
        BY <4>1, <4>2
    <3> QED
      BY <1>2, <3>1, <3>2, <3>3
  <2>2. \A d \in Depths : idle'[d] \subseteq idle[d]
    <3>1. idle' = idle \/ \E m : idle' = [idle EXCEPT ![depth[r]] = @ \ {m}]
      BY <1>2 DEF AcquireFast, AcquireIdle, AcquireBuild, Take
    <3>2. idle \in [Depths -> SUBSET VM]
      BY DEF SlotInv, TypeOK
    <3> QED
      BY <3>1, <3>2
  <2>3. InterruptedWereDone'
    BY <2>1, FunctionsTyped DEF SlotInv, CleanInv, InterruptedWereDone
  <2> QED
    BY <2>2, <2>3 DEF CleanInv, IdleRuntimesAreClean
<1>3. ASSUME NEW r \in Renders, Interrupt(r)
      PROVE  CleanInv'
  <2>1. /\ ctxDone[r] /\ vm' = [vm EXCEPT ![r] = [vm[r] EXCEPT !.intr = TRUE]]
        /\ UNCHANGED <<idle, pc, ctxDone>>
    BY <1>3 DEF Interrupt, pools
  <2>2. \A s \in Renders : s # r => vm'[s] = vm[s]
    BY <2>1
  <2> QED
    BY <2>1, <2>2 DEF CleanInv, IdleRuntimesAreClean, InterruptedWereDone
<1>4. ASSUME NEW r \in Renders, RenderMoves(r), ~Interrupt(r),
             ~AcquireFast(r), ~AcquireIdle(r), ~AcquireBuild(r)
      PROVE  CleanInv'
  <2>1. UNCHANGED <<idle, vm>>
    BY <1>4 DEF RenderMoves, Request, Refuse, AcquireSlow, BuildFailed,
       AcquireCancelled, Finished, DrainCancelled, DrainTop, GiveUp, Park,
       Stop, Cancel, Propagate, pools
  <2>2. \/ pc' = pc /\ ctxDone' = [ctxDone EXCEPT ![r] = TRUE]
        \/ /\ ctxDone' = ctxDone
           /\ \/ \E to \in {"enter", "wait", "ended"} :
                   pc' = [pc EXCEPT ![r] = to]
              \/ /\ pc[r] \in Holding
                 /\ \E to \in Holding : pc' = [pc EXCEPT ![r] = to]
    BY <1>4 DEF RenderMoves, Request, Refuse, AcquireSlow, BuildFailed,
       AcquireCancelled, Finished, DrainCancelled, DrainTop, GiveUp, Park,
       Stop, Cancel, Propagate, Goto, Holding
  <2>3. /\ \A s \in Renders : pc'[s] \in Holding => pc[s] \in Holding
        /\ \A s \in Renders : ctxDone[s] => ctxDone'[s]
    <3>1. pc \in [Renders -> PC] /\ ctxDone \in [Renders -> BOOLEAN]
      BY DEF SlotInv, TypeOK
    <3> QED
      BY <2>2, <3>1 DEF Holding
  <2> QED
    BY <2>1, <2>3, CleanStays
<1>5. ASSUME NEW r \in Renders, Launch(r) \/ ParkedStart(r)
      PROVE  CleanInv'
  <2>1. /\ UNCHANGED <<idle, vm, ctxDone>>
        /\ \A s \in Renders : pc'[s] \in Holding => pc[s] \in Holding
    BY <1>5, FunctionsTyped DEF SlotInv, Launch, ParkedStart, Goto, Holding,
       pools
  <2> QED
    BY <2>1, CleanStays
<1>6. ASSUME NEW r \in Renders, Put(r)
      PROVE  CleanInv'
  <2> DEFINE open == issued[r] - Cardinality(settled[r])
             left == [vm[r] EXCEPT !.open = open]
  <2>1. pc[r] \in Holding /\ vm[r] \in VM /\ depth[r] \in Depths
    BY <1>6 DEF Put, Holding, SlotInv, HeldIsVM, AtItsDepth
  <2>2. /\ \/ Clean(r) /\ idle' = [idle EXCEPT ![depth[r]] = @ \cup {left}]
           \/ idle' = idle
        /\ vm' = [vm EXCEPT ![r] = NoVM] /\ pc' = [pc EXCEPT ![r] = "ended"]
        /\ ctxDone' = [ctxDone EXCEPT ![r] = TRUE]
    BY <1>6 DEF Put, Goto
  <2>3. left.intr = vm[r].intr /\ left.open = open
    BY <2>1 DEF VM
  <2>4. Clean(r) => ~left.intr /\ left.open = 0
    <3>1. ASSUME Clean(r) PROVE open = 0 /\ ~vm[r].intr
      <4>1. Cardinality(Unsettled(r)) = 0
        BY <3>1 DEF Clean, PromiseInv, EveryPromiseHasAnAnswerer
      <4> QED
        BY <3>1, <4>1, <2>1, UnsettledFinite
           DEF Clean, CleanInv, InterruptedWereDone
    <3> QED
      BY <3>1, <2>3
  <2> HIDE DEF left
  <2>5. IdleRuntimesAreClean'
    <3>1. \A d \in Depths : \A m \in idle'[d] :
            m \in idle[d] \/ (m = left /\ Clean(r))
      <4>1. idle \in [Depths -> SUBSET VM]
        BY DEF SlotInv, TypeOK
      <4> QED
        BY <2>1, <2>2, <4>1
    <3> QED
      BY <3>1, <2>4 DEF CleanInv, IdleRuntimesAreClean
  <2>6. InterruptedWereDone'
    <3>1. /\ pc'[r] = "ended"
          /\ \A s \in Renders : s # r => /\ pc'[s] = pc[s] /\ vm'[s] = vm[s]
                                         /\ ctxDone'[s] = ctxDone[s]
      BY <2>2 DEF SlotInv, TypeOK
    <3> QED
      BY <3>1 DEF CleanInv, InterruptedWereDone, Holding
  <2> QED
    BY <2>5, <2>6 DEF CleanInv
<1>7. ASSUME NEW r \in Renders, NEW c \in Calls,
             \/ HandlerReturn(r, c) \/ FetchReturn(r, c) \/ WorkerStep(r, c)
             \/ \E child \in Renders : FetchPage(r, c, child)
      PROVE  CleanInv'
  <2>1. CASE \E child \in Renders : FetchPage(r, c, child)
    <3>1. PICK child \in Renders :
            /\ pc' = [pc EXCEPT ![child] = "enter"]
            /\ UNCHANGED <<idle, vm, ctxDone>>
      BY <2>1 DEF FetchPage, Goto, pools
    <3>2. \A s \in Renders : pc'[s] \in Holding => pc[s] \in Holding
      BY <3>1, FunctionsTyped DEF SlotInv, Holding
    <3> QED
      BY <3>1, <3>2, CleanStays
  <2>2. CASE HandlerReturn(r, c) \/ FetchReturn(r, c) \/ WorkerStep(r, c)
    <3>1. UNCHANGED <<idle, vm, pc, ctxDone>>
      BY <2>2 DEF HandlerReturn, FetchReturn, WorkerStep, Deliver, Abandon,
         Release, pools
    <3> QED
      BY <3>1, CleanStays
  <2> QED
    BY <1>7, <2>1, <2>2
<1>8. CASE UNCHANGED vars
  BY <1>8, CleanStays DEF vars, pools
<1>9. ASSUME NEW r \in Renders,
             Request(r) \/ RenderStep(r) \/ Cancel(r) \/ ContextStep(r)
      PROVE  CleanInv'
  BY <1>9, <1>1, <1>2, <1>3, <1>4, <1>5, <1>6
     DEF RenderStep, ContextStep, RenderMoves
<1> QED
  BY <1>7, <1>8, <1>9 DEF Next

\* No render takes from a pool a runtime that was interrupted, or on which an
\* earlier render left a promise open (engine.go, the deferred end of Render).
THEOREM PoolsAreClean == Spec => []IdleRuntimesAreClean
<1>1. Init => CleanInv
  <2> SUFFICES ASSUME Init PROVE CleanInv
    OBVIOUS
  <2> DEFINE m0 == [id |-> 0, jobs |-> {}, intr |-> FALSE, open |-> 0]
  <2>1. \A d \in Depths : idle[d] = IF d = 0 THEN {m0} ELSE {}
    BY DEF Init
  <2>2. ~m0.intr /\ m0.open = 0 /\ \A s \in Renders : pc[s] \notin Holding
    BY DEF Init, Holding
  <2> HIDE DEF m0
  <2> QED
    BY <2>1, <2>2 DEF CleanInv, IdleRuntimesAreClean, InterruptedWereDone
<1>2. SlotInv /\ PromiseInv /\ CleanInv /\ [Next]_vars => CleanInv'
  BY NextKeepsClean
<1>3. SlotInv /\ PromiseInv /\ [Next]_vars => PromiseInv'
  BY NextKeepsPromises
<1>4. CleanInv => IdleRuntimesAreClean
  BY DEF CleanInv
<1> QED
  BY <1>1, <1>2, <1>3, <1>4, InitPromises, InitSlotInv, NextKeepsSlotInv, PTL
     DEF Spec
=============================================================================
