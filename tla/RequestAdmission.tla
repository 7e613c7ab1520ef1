-------------------------- MODULE RequestAdmission --------------------------
(***************************************************************************)
(* requestAdmission of internal/devserver/admission.go: the public         *)
(* listener's gate in front of the two processes a development session     *)
(* replaces.  Request goroutines call enter and finish; the session's own  *)
(* goroutine calls pause, resume and, on its way out, close.               *)
(*                                                                         *)
(* An action is one critical section of `mu', or one outcome of a select.  *)
(* A channel is a number, and a closed one is a member of a set: `ready'   *)
(* and `drained' are replaced while goroutines still hold the old ones.    *)
(***************************************************************************)
EXTENDS Integers, FiniteSets

CONSTANTS
  Requests,   \* the requests of a behaviour; each calls enter once
  MaxPauses   \* bound: `ready' channels made, the listener's first included

ASSUME RequestsAssumption == IsFiniteSet(Requests)
ASSUME PausesAssumption   == MaxPauses \in Nat \ {0}

Nil == 0

VARIABLES
  ready,     \* requestAdmission.ready
  drained,   \* requestAdmission.drained
  active,    \* requestAdmission.active, the keys
  closed,    \* requestAdmission.closed
  readies,   \* how many ready channels were made
  drains,    \* how many drained channels were made
  shutCh,    \* the ready channels that were closed
  emptyCh,   \* the drained channels that were closed
  panicked,  \* a closed channel was closed again
  pc,        \* where each request is
  snap,      \* enter's local `ready'
  left,      \* the caller's context is done
  canceled,  \* the requests whose cancel function was called
  session,   \* where the session's goroutine is
  waitsOn,   \* pause's local `drained'
  expired,   \* pause returned because its grace ran out
  stopped    \* the session's context is done

gate     == <<ready, readies, shutCh, closed>>
crowd    == <<drained, drains, emptyCh, active, panicked>>
requests == <<pc, snap, left, canceled>>
owner    == <<session, waitsOn, expired, stopped>>
vars     == <<gate, crowd, requests, owner>>

RequestPC == {"off", "loop", "wait", "inside", "leaving", "refused", "done"}
SessionPC == {"open", "draining", "paused", "failed", "closed"}

TypeOK ==
  /\ ready \in 0..MaxPauses /\ readies \in 1..MaxPauses
  /\ shutCh \subseteq 1..readies
  /\ drains \in Nat /\ drained \in 0..drains
  /\ emptyCh \subseteq 1..drains
  /\ active \subseteq Requests
  /\ closed \in BOOLEAN /\ panicked \in BOOLEAN
  /\ pc \in [Requests -> RequestPC]
  /\ snap \in [Requests -> 0..MaxPauses]
  /\ left \subseteq Requests /\ canceled \subseteq Requests
  /\ session \in SessionPC
  /\ waitsOn \in 0..drains
  /\ expired \in BOOLEAN /\ stopped \in BOOLEAN

\* Public dispatch waits until the first host is published.
Init ==
  /\ ready = 1 /\ readies = 1 /\ shutCh = {} /\ closed = FALSE
  /\ drained = Nil /\ drains = 0 /\ emptyCh = {}
  /\ active = {} /\ panicked = FALSE
  /\ pc = [r \in Requests |-> "off"] /\ snap = [r \in Requests |-> Nil]
  /\ left = {} /\ canceled = {}
  /\ session = "paused" /\ waitsOn = Nil
  /\ expired = FALSE /\ stopped = FALSE

Goto(r, to) == pc' = [pc EXCEPT ![r] = to]

-----------------------------------------------------------------------------
(* enter and finish, in the request's goroutine                            *)

Arrive(r) ==
  /\ pc[r] = "off"
  /\ Goto(r, "loop")
  /\ UNCHANGED <<gate, crowd, owner, snap, left, canceled>>

\* The caller's context is done: looked at first in every turn of the loop.
EnterGone(r) ==
  /\ pc[r] = "loop" /\ r \in left
  /\ Goto(r, "refused")
  /\ UNCHANGED <<gate, crowd, owner, snap, left, canceled>>

EnterClosed(r) ==
  /\ pc[r] = "loop" /\ r \notin left
  /\ closed
  /\ Goto(r, "refused")
  /\ UNCHANGED <<gate, crowd, owner, snap, left, canceled>>

\* Mutant: the drained channel of an earlier crowd is kept.
FreshDrainedOnce ==
  IF drains = 0
  THEN drained' = 1 /\ drains' = 1
  ELSE UNCHANGED <<drained, drains>>

\* The first of a new crowd makes the channel the last of it will close.
FreshDrained ==
  IF active = {}
  THEN drained' = drains + 1 /\ drains' = drains + 1
  ELSE UNCHANGED <<drained, drains>>

\* Mutant: whoever was woken is admitted without looking at ready again.
AdmitUnlooked(r) ==
  /\ pc[r] = "loop" /\ r \notin left /\ ~closed
  /\ ready = Nil \/ snap[r] \in shutCh
  /\ FreshDrained
  /\ active' = active \cup {r}
  /\ Goto(r, "inside")
  /\ UNCHANGED <<gate, owner, emptyCh, panicked, snap, left, canceled>>

Admit(r) ==
  /\ pc[r] = "loop" /\ r \notin left /\ ~closed
  /\ ready = Nil
  /\ FreshDrained
  /\ active' = active \cup {r}
  /\ Goto(r, "inside")
  /\ UNCHANGED <<gate, owner, emptyCh, panicked, snap, left, canceled>>

EnterWait(r) ==
  /\ pc[r] = "loop" /\ r \notin left /\ ~closed
  /\ ready # Nil
  /\ snap' = [snap EXCEPT ![r] = ready]
  /\ Goto(r, "wait")
  /\ UNCHANGED <<gate, crowd, owner, left, canceled>>

Woken(r) ==
  /\ pc[r] = "wait"
  /\ snap[r] \in shutCh
  /\ Goto(r, "loop")
  /\ UNCHANGED <<gate, crowd, owner, snap, left, canceled>>

WaitGone(r) ==
  /\ pc[r] = "wait" /\ r \in left
  /\ Goto(r, "refused")
  /\ UNCHANGED <<gate, crowd, owner, snap, left, canceled>>

\* The one timer of this call runs through all its waits.
WaitTimeout(r) ==
  /\ pc[r] = "wait"
  /\ Goto(r, "refused")
  /\ UNCHANGED <<gate, crowd, owner, snap, left, canceled>>

\* finish: the context first, outside the lock.
FinishCancel(r) ==
  /\ pc[r] = "inside"
  /\ canceled' = canceled \cup {r}
  /\ Goto(r, "leaving")
  /\ UNCHANGED <<gate, crowd, owner, snap, left>>

FinishDelete(r) ==
  /\ pc[r] = "leaving"
  /\ active' = active \ {r}
  /\ IF active' = {}
     THEN /\ emptyCh'  = emptyCh \cup {drained}
          /\ panicked' = (panicked \/ drained \in emptyCh)
     ELSE UNCHANGED <<emptyCh, panicked>>
  /\ Goto(r, "done")
  /\ UNCHANGED <<gate, owner, drained, drains, snap, left, canceled>>

\* The browser goes away.
ClientLeaves(r) ==
  /\ pc[r] \in {"loop", "wait", "inside"} /\ r \notin left
  /\ left' = left \cup {r}
  /\ UNCHANGED <<gate, crowd, owner, pc, snap, canceled>>

-----------------------------------------------------------------------------
(* pause, resume and close, in the session's goroutine                     *)

\* Mutant: those inside lose their contexts at once.
PauseImpatient ==
  /\ session = "open"
  /\ readies < MaxPauses
  /\ IF ready = Nil /\ ~closed
     THEN ready' = readies + 1 /\ readies' = readies + 1
     ELSE UNCHANGED <<ready, readies>>
  /\ waitsOn' = drained /\ expired' = FALSE
  /\ session' = IF active # {} THEN "draining"
                ELSE IF stopped THEN "failed" ELSE "paused"
  /\ canceled' = canceled \cup active
  /\ UNCHANGED <<crowd, shutCh, closed, pc, snap, left, stopped>>

\* One critical section: admission stops and the crowd is looked at.
Pause ==
  /\ session = "open"
  /\ readies < MaxPauses
  /\ IF ready = Nil /\ ~closed
     THEN ready' = readies + 1 /\ readies' = readies + 1
     ELSE UNCHANGED <<ready, readies>>
  /\ waitsOn' = drained /\ expired' = FALSE
  /\ session' = IF active # {} THEN "draining"
                ELSE IF stopped THEN "failed" ELSE "paused"
  /\ UNCHANGED <<crowd, requests, shutCh, closed, stopped>>

PauseDrained ==
  /\ session = "draining"
  /\ waitsOn \in emptyCh
  /\ session' = IF stopped THEN "failed" ELSE "paused"
  /\ UNCHANGED <<gate, crowd, requests, waitsOn, expired, stopped>>

\* Mutant: the grace runs out and nobody's context is cancelled.
PauseExpiredKeeps ==
  /\ session = "draining"
  /\ expired' = TRUE
  /\ session' = IF stopped THEN "failed" ELSE "paused"
  /\ UNCHANGED <<gate, crowd, requests, waitsOn, stopped>>

\* Mutant: the drain waits for every response to end.
PauseExpiredNever ==
  /\ session = "draining" /\ stopped
  /\ canceled' = canceled \cup active
  /\ expired' = TRUE
  /\ session' = IF stopped THEN "failed" ELSE "paused"
  /\ UNCHANGED <<gate, crowd, pc, snap, left, waitsOn, stopped>>

PauseExpired ==
  /\ session = "draining"
  /\ canceled' = canceled \cup active
  /\ expired' = TRUE
  /\ session' = IF stopped THEN "failed" ELSE "paused"
  /\ UNCHANGED <<gate, crowd, pc, snap, left, waitsOn, stopped>>

PauseStopped ==
  /\ session = "draining" /\ stopped
  /\ session' = "failed"
  /\ UNCHANGED <<gate, crowd, requests, waitsOn, expired, stopped>>

\* Mutant: the channel is forgotten, and those who hold it are not woken.
WakeNobody ==
  IF ready # Nil
  THEN ready' = Nil /\ UNCHANGED shutCh
  ELSE UNCHANGED <<ready, shutCh>>

Wake ==
  IF ready # Nil
  THEN shutCh' = shutCh \cup {ready} /\ ready' = Nil
  ELSE UNCHANGED <<ready, shutCh>>

Resume ==
  /\ session = "paused"
  /\ Wake
  /\ session' = "open"
  /\ UNCHANGED <<crowd, requests, readies, closed, waitsOn, expired, stopped>>

SessionStops ==
  /\ ~stopped /\ session # "closed"
  /\ stopped' = TRUE
  /\ UNCHANGED <<gate, crowd, requests, session, waitsOn, expired>>

\* Run returns: pause failed, the session's context is done, or a recovery or
\* a restore failed while admission was paused.
Close ==
  /\ session \in {"open", "paused", "failed"}
  /\ closed' = TRUE
  /\ Wake
  /\ canceled' = canceled \cup active
  /\ session' = "closed"
  /\ UNCHANGED <<crowd, readies, pc, snap, left, waitsOn, expired, stopped>>

-----------------------------------------------------------------------------
RequestStep(r) ==
  \/ EnterGone(r) \/ EnterClosed(r) \/ Admit(r) \/ EnterWait(r)
  \/ Woken(r) \/ WaitGone(r) \/ FinishDelete(r)

Next ==
  \/ \E r \in Requests :
       \/ Arrive(r) \/ RequestStep(r) \/ WaitTimeout(r)
       \/ FinishCancel(r) \/ ClientLeaves(r)
  \/ Pause \/ PauseDrained \/ PauseExpired \/ PauseStopped
  \/ Resume \/ Close \/ SessionStops

Spec == Init /\ [][Next]_vars

(* The Go scheduler runs every goroutine that can run.  Nothing obliges a  *)
(* response to end, a browser to leave or the session to pause again.  No  *)
(* fairness makes enter's timer fire, so that it hides no lost wake-up;    *)
(* the drain's has its own, assumed only where it is needed.               *)
Scheduled ==
  /\ \A r \in Requests : WF_vars(RequestStep(r))
  /\ WF_vars(PauseDrained \/ PauseStopped)

DrainTimer == WF_vars(PauseExpired)

FairSpec == Spec /\ Scheduled

-----------------------------------------------------------------------------
(* Correctness                                                             *)

\* Done: the request's derived context, or its parent's.
ContextDone == left \cup canceled

\* When pause has returned nil, and until admission resumes, nobody is inside
\* whose context is live; and nobody at all unless the grace ran out.  The
\* channel a crowd closes is closed once: closing it twice would panic.
PausedMeansQuiet ==
  /\ session = "paused" =>
       /\ active \subseteq ContextDone
       /\ ~expired => active = {}
  /\ ~panicked

\* An admitted request loses its context only when it finishes, when its own
\* client leaves, when the grace of a pause runs out, or at the end of Run.
CancelledForAReason ==
  [][\A r \in active' \cap active :
       r \in ContextDone' \ ContextDone =>
         \/ pc'[r] = "leaving"
         \/ r \in left'
         \/ session = "draining" /\ expired'
         \/ session' = "closed"]_vars

\* Given its timer, pause returns, even if no response ever ends.
PauseEnds == DrainTimer => (session = "draining" ~> session # "draining")

\* Without any help from the timers, everyone waiting when admission opens for
\* good, or when Run ends, is let in or refused: no wake-up is lost.
OpeningReleasesWaiters ==
  \A r \in Requests :
    <>[](session \in {"open", "closed"}) => []<>(pc[r] # "wait")

\* Neither the session nor a request waits for ever at a gate.
NobodyWaitsForever == PauseEnds /\ OpeningReleasesWaiters

(* The gate it implements.                                                 *)
Promise == INSTANCE Gate WITH
  gate      <- IF closed THEN "closed" ELSE IF ready = Nil THEN "open" ELSE "shut",
  inside    <- active,
  cancelled <- active \cap ContextDone

PromiseKept == Promise!GateSpec
=============================================================================
