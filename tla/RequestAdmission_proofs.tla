----------------------- MODULE RequestAdmission_proofs -----------------------
(***************************************************************************)
(* Proofs about RequestAdmission, for any number of requests and pauses:   *)
(* what a pause that returned guarantees, why a context is cancelled, and  *)
(* that the channels and the mutex implement Gate.                         *)
(***************************************************************************)
EXTENDS RequestAdmission, TLAPS

USE RequestsAssumption, PausesAssumption DEF Nil

(***************************************************************************)
(* The inductive invariant.                                                *)
(***************************************************************************)

\* The gate is shut exactly while the session needs it shut, so that nobody is
\* admitted between the look a pause takes at the crowd and its resume.
GateFollows ==
  /\ session = "open" => ready = Nil /\ ~closed
  /\ session \in {"draining", "paused", "failed"} => ready # Nil /\ ~closed
  /\ session = "closed" => ready = Nil /\ closed
  /\ ready <= readies

\* Whoever is inside is in the map; one that is leaving has cancelled its own
\* context, and none is cancelled before it was admitted.
CrowdIsCounted ==
  /\ active = {r \in Requests : pc[r] \in {"inside", "leaving"}}
  /\ \A r \in Requests : /\ pc[r] = "leaving" => r \in canceled
                         /\ pc[r] \in {"off", "loop", "wait"} => r \notin canceled

\* The channel of the crowd is open while somebody is inside, and a pause that
\* drains waits on that of the crowd it saw.
ChannelIsTheCrowds ==
  /\ active # {} => drained \notin emptyCh /\ drained # Nil
  /\ drained # Nil => drained = drains
  /\ session = "draining" => waitsOn = drained

Inv ==
  /\ TypeOK /\ GateFollows /\ CrowdIsCounted /\ ChannelIsTheCrowds
  /\ PausedMeansQuiet

\* Steps of a request that is not inside, and of its client.
Outside(r) ==
  \/ Arrive(r) \/ EnterGone(r) \/ EnterClosed(r) \/ EnterWait(r) \/ Woken(r)
  \/ WaitGone(r) \/ WaitTimeout(r) \/ ClientLeaves(r)

LEMMA InitInv == Init => Inv
<1> SUFFICES ASSUME Init PROVE Inv
  OBVIOUS
<1>1. TypeOK
  <2>1. pc \in [Requests -> RequestPC] /\ snap \in [Requests -> 0..MaxPauses]
    BY DEF Init, RequestPC
  <2>2. session \in SessionPC /\ waitsOn \in 0..drains
    BY DEF Init, SessionPC
  <2>3. ready \in 0..MaxPauses /\ readies \in 1..MaxPauses
    BY DEF Init
  <2>4. drains \in Nat /\ drained \in 0..drains
    BY DEF Init
  <2>5. /\ shutCh \subseteq 1..readies /\ emptyCh \subseteq 1..drains
        /\ active \subseteq Requests
        /\ left \subseteq Requests /\ canceled \subseteq Requests
    BY DEF Init
  <2>6. /\ closed \in BOOLEAN /\ panicked \in BOOLEAN
        /\ expired \in BOOLEAN /\ stopped \in BOOLEAN
    BY DEF Init
  <2> QED
    BY <2>1, <2>2, <2>3, <2>4, <2>5, <2>6, Zenon DEF TypeOK
<1>2. GateFollows /\ CrowdIsCounted /\ ChannelIsTheCrowds
  BY DEF Init, GateFollows, CrowdIsCounted, ChannelIsTheCrowds
<1>3. PausedMeansQuiet
  BY DEF Init, PausedMeansQuiet
<1> QED
  BY <1>1, <1>2, <1>3 DEF Inv

LEMMA OutsideInv ==
  ASSUME Inv, NEW r \in Requests, Outside(r)
  PROVE  Inv'
<1> USE DEF Outside, Arrive, EnterGone, EnterClosed, EnterWait, Woken,
   WaitGone,
        WaitTimeout, ClientLeaves, Goto, gate, crowd, owner
<1>1. TypeOK'
  BY ZenonT(60) DEF Inv, TypeOK, RequestPC
<1>2. GateFollows' /\ ChannelIsTheCrowds'
  BY DEF Inv, GateFollows, ChannelIsTheCrowds
<1>3. CrowdIsCounted'
  BY DEF Inv, TypeOK, CrowdIsCounted
<1>4. PausedMeansQuiet'
  BY DEF Inv, PausedMeansQuiet, ContextDone
<1> QED
  BY <1>1, <1>2, <1>3, <1>4 DEF Inv

\* Nobody is admitted while the session pauses or has paused.
LEMMA AdmitInv ==
  ASSUME Inv, NEW r \in Requests, Admit(r)
  PROVE  Inv'
<1> USE DEF Admit, FreshDrained, Goto, gate, owner
<1>1. TypeOK'
  BY DEF Inv, TypeOK, RequestPC
<1>2. session \in {"open", "closed"} /\ GateFollows'
  BY DEF Inv, TypeOK, GateFollows, SessionPC
<1>3. CrowdIsCounted'
  BY DEF Inv, TypeOK, CrowdIsCounted
<1>4. ChannelIsTheCrowds'
  BY <1>2 DEF Inv, TypeOK, ChannelIsTheCrowds
<1>5. PausedMeansQuiet'
  BY <1>2 DEF Inv, PausedMeansQuiet
<1> QED
  BY <1>1, <1>2, <1>3, <1>4, <1>5 DEF Inv

\* The last of a crowd closes a channel that was open.
LEMMA FinishInv ==
  ASSUME Inv, NEW r \in Requests, FinishCancel(r) \/ FinishDelete(r)
  PROVE  Inv'
<1> USE DEF Goto, gate, crowd, owner
<1>1. CASE FinishCancel(r)
  <2> USE <1>1 DEF FinishCancel
  <2>1. TypeOK' /\ GateFollows' /\ ChannelIsTheCrowds'
    BY DEF Inv, TypeOK, RequestPC, GateFollows, ChannelIsTheCrowds
  <2>2. CrowdIsCounted'
    BY DEF Inv, TypeOK, CrowdIsCounted
  <2>3. PausedMeansQuiet'
    BY DEF Inv, PausedMeansQuiet, ContextDone
  <2> QED
    BY <2>1, <2>2, <2>3 DEF Inv
<1>2. CASE FinishDelete(r)
  <2> USE <1>2 DEF FinishDelete
  <2>1. r \in active /\ drained \notin emptyCh /\ drained # Nil
    BY DEF Inv, CrowdIsCounted, ChannelIsTheCrowds
  <2>2. GateFollows' /\ TypeOK'
    <3>1. drained \in 1..drains
      BY <2>1 DEF Inv, TypeOK
    <3>2. emptyCh' \subseteq 1..drains' /\ panicked' \in BOOLEAN
      BY <3>1 DEF Inv, TypeOK
    <3> QED
      BY <3>2 DEF Inv, TypeOK, RequestPC, GateFollows
  <2>3. CrowdIsCounted'
    BY DEF Inv, TypeOK, CrowdIsCounted
  <2>4. ChannelIsTheCrowds'
    BY DEF Inv, ChannelIsTheCrowds
  <2>5. PausedMeansQuiet'
    BY <2>1 DEF Inv, PausedMeansQuiet, ContextDone
  <2> QED
    BY <2>2, <2>3, <2>4, <2>5 DEF Inv
<1> QED
  BY <1>1, <1>2

\* The session's own steps.
LEMMA SessionInv ==
  ASSUME Inv,
         \/ Pause \/ PauseDrained \/ PauseExpired \/ PauseStopped \/ Resume
         \/ Close \/ SessionStops
  PROVE  Inv'
<1> USE DEF gate, crowd, requests, Wake
<1>1. CASE Pause
  <2> USE <1>1 DEF Pause
  <2>1. TypeOK'
    <3>1. ready' \in 0..MaxPauses /\ readies' \in 1..MaxPauses
          /\ shutCh' \subseteq 1..readies'
      BY DEF Inv, TypeOK
    <3> QED
      BY <3>1 DEF Inv, TypeOK, SessionPC
  <2>2. GateFollows'
    BY DEF Inv, TypeOK, GateFollows
  <2>3. CrowdIsCounted' /\ ChannelIsTheCrowds' /\ PausedMeansQuiet'
    BY DEF Inv, CrowdIsCounted, ChannelIsTheCrowds, PausedMeansQuiet
  <2> QED
    BY <2>1, <2>2, <2>3 DEF Inv
<1>2. CASE PauseDrained
  <2> USE <1>2 DEF PauseDrained
  <2>1. TypeOK' /\ GateFollows' /\ CrowdIsCounted' /\ ChannelIsTheCrowds'
    BY DEF Inv, TypeOK, SessionPC, GateFollows, CrowdIsCounted,
           ChannelIsTheCrowds
  <2>2. active = {}
    BY DEF Inv, ChannelIsTheCrowds
  <2> QED
    BY <2>1, <2>2 DEF Inv, PausedMeansQuiet
<1>3. CASE PauseExpired
  <2> USE <1>3 DEF PauseExpired
  <2>1. TypeOK' /\ GateFollows' /\ ChannelIsTheCrowds'
    BY DEF Inv, TypeOK, SessionPC, GateFollows, ChannelIsTheCrowds
  <2>2. CrowdIsCounted'
    BY DEF Inv, CrowdIsCounted
  <2>3. PausedMeansQuiet'
    BY DEF Inv, PausedMeansQuiet, ContextDone
  <2> QED
    BY <2>1, <2>2, <2>3 DEF Inv
<1>4. CASE PauseStopped
  BY <1>4 DEF Inv, TypeOK, SessionPC, GateFollows, CrowdIsCounted,
              ChannelIsTheCrowds, PausedMeansQuiet, PauseStopped
<1>5. CASE Resume
  <2> USE <1>5 DEF Resume
  <2>1. TypeOK' /\ GateFollows'
    <3>1. shutCh' \subseteq 1..readies /\ ready' = Nil
      <4>1. shutCh \subseteq 1..readies /\ (ready # Nil => ready \in 1..readies)
        BY DEF Inv, TypeOK, GateFollows
      <4> QED
        BY <4>1
    <3> QED
      BY <3>1 DEF Inv, TypeOK, SessionPC, GateFollows
  <2> QED
    BY <2>1 DEF Inv, CrowdIsCounted, ChannelIsTheCrowds, PausedMeansQuiet
<1>6. CASE Close
  <2> USE <1>6 DEF Close
  <2>1. TypeOK' /\ GateFollows'
    <3>1. shutCh' \subseteq 1..readies /\ ready' = Nil
      <4>1. shutCh \subseteq 1..readies /\ (ready # Nil => ready \in 1..readies)
        BY DEF Inv, TypeOK, GateFollows
      <4> QED
        BY <4>1
    <3>2. canceled' \subseteq Requests
      BY DEF Inv, TypeOK
    <3> QED
      BY <3>1, <3>2 DEF Inv, TypeOK, SessionPC, GateFollows
  <2>2. CrowdIsCounted'
    BY DEF Inv, CrowdIsCounted
  <2>3. ChannelIsTheCrowds' /\ PausedMeansQuiet'
    BY DEF Inv, ChannelIsTheCrowds, PausedMeansQuiet
  <2> QED
    BY <2>1, <2>2, <2>3 DEF Inv
<1>7. CASE SessionStops
  BY <1>7 DEF Inv, TypeOK, GateFollows, CrowdIsCounted, ChannelIsTheCrowds,
              PausedMeansQuiet, ContextDone, SessionStops
<1> QED
  BY <1>1, <1>2, <1>3, <1>4, <1>5, <1>6, <1>7

LEMMA NextInv == Inv /\ [Next]_vars => Inv'
<1> SUFFICES ASSUME Inv, [Next]_vars PROVE Inv'
  OBVIOUS
<1>1. ASSUME NEW r \in Requests,
             Arrive(r) \/ RequestStep(r) \/ WaitTimeout(r) \/ FinishCancel(r)
                       \/ ClientLeaves(r)
      PROVE  Inv'
  BY <1>1, OutsideInv, AdmitInv, FinishInv DEF RequestStep, Outside
<1>2. CASE UNCHANGED vars
  BY <1>2 DEF Inv, TypeOK, GateFollows, CrowdIsCounted, ChannelIsTheCrowds,
              PausedMeansQuiet, ContextDone, vars, gate, crowd, requests, owner
<1> QED
  BY <1>1, <1>2, SessionInv DEF Next

LEMMA Invariance == Spec => []Inv
BY InitInv, NextInv, PTL DEF Spec

\* When pause has returned, and until admission resumes, nobody is inside with
\* a live context, and a crowd's channel is closed once.
THEOREM PauseIsQuiet == Spec => []PausedMeansQuiet
<1>1. Inv => PausedMeansQuiet
  BY DEF Inv
<1> QED
  BY <1>1, Invariance, PTL

\* An admitted request loses its context by its own end, its client's, the end
\* of a pause's grace or the end of the session, and by nothing else.
THEOREM ContextsEndForAReason == Spec => CancelledForAReason
<1> DEFINE Reason(r) == \/ pc'[r] = "leaving"
                        \/ r \in left'
                        \/ session = "draining" /\ expired'
                        \/ session' = "closed"
<1>1. ASSUME Inv, [Next]_vars, NEW r \in active' \cap active,
             r \in ContextDone' \ ContextDone
      PROVE  Reason(r)
  <2>1. r \in Requests
    BY <1>1 DEF Inv, TypeOK
  <2>2. ASSUME r \in canceled' \ canceled PROVE Reason(r)
    <3>1. ASSUME NEW q \in Requests, FinishCancel(q) PROVE Reason(r)
      <4>1. r = q
        BY <2>2, <3>1 DEF FinishCancel
      <4>2. pc'[q] = "leaving"
        BY <1>1, <3>1 DEF FinishCancel, Goto, Inv, TypeOK
      <4> QED
        BY <4>1, <4>2
    <3>2. CASE PauseExpired
      BY <3>2 DEF PauseExpired
    <3>3. CASE Close
      BY <3>3 DEF Close
    <3>4. ASSUME NEW q \in Requests,
                 Outside(q) \/ Admit(q) \/ FinishDelete(q)
          PROVE  canceled' = canceled
      BY <3>4 DEF Outside, Arrive, EnterGone, EnterClosed, EnterWait, Woken,
         WaitGone, WaitTimeout, ClientLeaves, Admit, FinishDelete
    <3>5. CASE Pause \/ PauseDrained \/ PauseStopped \/ Resume \/ SessionStops
               \/ UNCHANGED vars
      BY <2>2, <3>5 DEF Pause, PauseDrained, PauseStopped, Resume,
         SessionStops,
         requests, vars
    <3> QED
      BY <1>1, <2>2, <3>1, <3>2, <3>3, <3>4, <3>5 DEF Next, RequestStep,
         Outside
  <2> QED
    BY <1>1, <2>2 DEF ContextDone
<1>2. Inv /\ [Next]_vars =>
        [\A r \in active' \cap active :
           r \in ContextDone' \ ContextDone => Reason(r)]_vars
  BY <1>1
<1> QED
  BY <1>2, Invariance, PTL DEF Spec, CancelledForAReason

(***************************************************************************)
(* The refinement of Gate.                                                 *)
(***************************************************************************)
LEMMA InitRefines == Init => Promise!GateInit
BY DEF Init, Promise!GateInit

LEMMA StepRefines ==
  Inv /\ [Next]_vars => [Promise!GateNext]_Promise!gateVars
<1> SUFFICES ASSUME Inv, [Next]_vars
             PROVE  Promise!GateNext \/ UNCHANGED Promise!gateVars
  OBVIOUS
<1> DEFINE cancelled == active \cap ContextDone
<1> USE DEF Promise!GateNext, Promise!gateVars
<1>1. ASSUME NEW r \in Requests, Outside(r)
      PROVE  Promise!CancelOne(r) \/ UNCHANGED Promise!gateVars
  <2>1. UNCHANGED <<ready, closed, active, canceled>>
    BY <1>1 DEF Outside, Arrive, EnterGone, EnterClosed, EnterWait, Woken,
       WaitGone, WaitTimeout, ClientLeaves, gate, crowd
  <2>2. left' = left \/ left' = left \cup {r}
    BY <1>1 DEF Outside, Arrive, EnterGone, EnterClosed, EnterWait, Woken,
       WaitGone, WaitTimeout, ClientLeaves
  <2>3. CASE r \in active
    BY <2>1, <2>2, <2>3 DEF Promise!CancelOne, ContextDone
  <2>4. CASE r \notin active
    BY <2>1, <2>2, <2>4 DEF ContextDone
  <2> QED
    BY <2>3, <2>4
<1>2. ASSUME NEW r \in Requests, Admit(r) PROVE Promise!Enter(r)
  <2>1. r \notin ContextDone /\ r \notin active
    BY <1>2 DEF Admit, Inv, CrowdIsCounted, ContextDone
  <2> QED
    BY <1>2, <2>1 DEF Admit, Promise!Enter, gate, ContextDone
<1>3. ASSUME NEW r \in Requests, FinishCancel(r) PROVE Promise!CancelOne(r)
  BY <1>3 DEF FinishCancel, Promise!CancelOne, Inv, CrowdIsCounted,
     ContextDone, gate, crowd
<1>4. ASSUME NEW r \in Requests, FinishDelete(r) PROVE Promise!Leave(r)
  BY <1>4 DEF FinishDelete, Promise!Leave, Inv, CrowdIsCounted, ContextDone,
     gate
<1>5. CASE Pause
  BY <1>5 DEF Pause, Promise!Shut, Inv, TypeOK, GateFollows, crowd, requests,
     ContextDone
<1>6. CASE PauseExpired
  BY <1>6 DEF PauseExpired, Promise!Expire, Inv, GateFollows, crowd, gate,
     ContextDone
<1>7. CASE Resume
  BY <1>7 DEF Resume, Wake, Promise!Open, Promise!Quiet, Inv, GateFollows,
     PausedMeansQuiet, crowd, requests, ContextDone
<1>8. CASE Close
  BY <1>8 DEF Close, Wake, Promise!CloseGate, Inv, GateFollows, crowd,
     ContextDone
<1>9. CASE PauseDrained \/ PauseStopped \/ SessionStops \/ UNCHANGED vars
  BY <1>9 DEF PauseDrained, PauseStopped, SessionStops, vars, gate, crowd,
     requests, ContextDone
<1> QED
  BY <1>1, <1>2, <1>3, <1>4, <1>5, <1>6, <1>7, <1>8, <1>9
  DEF Next, RequestStep, Outside

\* The locks, maps and channels of requestAdmission deliver what Gate says: a
\* request enters only an open gate, and the gate opens again only after a
\* moment in which nobody was inside with a live context.
THEOREM ImplementsGate == Spec => PromiseKept
<1> QED
  BY InitRefines, StepRefines, Invariance, PTL
  DEF Spec, PromiseKept, Promise!GateSpec
==============================================================================
