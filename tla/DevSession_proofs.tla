------------------------- MODULE DevSession_proofs -------------------------
(***************************************************************************)
(* Proofs about the development session, for any contents of the source,   *)
(* any faults of theirs, any number of requests and any budgets.           *)
(***************************************************************************)
EXTENDS DevSession, FiniteSetTheorems, TLAPS

USE DevSessionAssumption DEF HostIds, NoHost, LeaseIds, NoLease

(***************************************************************************)
(* Where the hosts stand.  Outside a replacement there is the active host  *)
(* alone; the replacement is compiled beside it, and from the stop of the  *)
(* old host to the adoption there is the replacement alone, behind a gate  *)
(* that let nobody in since it was quiet.                                  *)
(***************************************************************************)

Standing(h) == h \in HostIds /\ host[h].st \in {"up", "dead"}
Alone(h)    == \A i \in HostIds \ {h} : host[i] = Absent

BesideBuilt  == {"built", "drain"}
InsteadOfOld == {"start", "swapplan", "restore"}
Starting     == ended = "no" /\ stage # "loop"
StartupPcs   ==
  {"prepare", "preparing", "commit", "snapshot", "observe", "make", "made"}
LoopBuilt    ==
  {"classify", "admit", "install", "reload", "plan", "publish", "snapshot", "observe",
   "join", "built", "drain", "start", "swapplan", "restore", "failed", "obsolete"}
LoopPcs      == LoopBuilt \cup
  {"prepare", "preparing", "top", "select", "recover", "look", "peek", "weigh"}

StartsWithoutHost ==
  Starting =>
    /\ pc \in StartupPcs /\ gate = "shut" /\ inside = {}
    /\ pc = "made" => Standing(active) /\ Alone(active)
    /\ pc # "made" => \A h \in HostIds : host[h] = Absent

LoopHasHost ==
  InLoop =>
    /\ pc \in LoopPcs
    /\ pc \notin InsteadOfOld => Standing(active) /\ target = active
    /\ pc \notin InsteadOfOld \cup BesideBuilt => Alone(active)
    /\ pc \in BesideBuilt => /\ replacement \in HostIds \ {active}
                             /\ host[replacement].st = "built"
                             /\ \A i \in HostIds \ {active, replacement} : host[i] = Absent
    /\ pc \in InsteadOfOld => replacement \in HostIds /\ Alone(replacement)
    /\ pc = "start" => host[replacement].st = "built"
    /\ pc = "restore" => host[replacement].st # "none"
    /\ pc = "swapplan" => Standing(replacement) /\ target = replacement

EndedIsEmpty ==
  /\ ended # "no" <=> pc = "done"
  /\ ended # "no" => gate = "closed" /\ \A h \in HostIds : host[h] = Absent

GateIsShutForIt ==
  /\ gate = "open" => InLoop /\ pc \notin InsteadOfOld \cup {"recover", "drain"}
  /\ (ended = "no" /\ pc \in InsteadOfOld) => G!Quiet

HostsInv == /\ StartsWithoutHost /\ LoopHasHost /\ EndedIsEmpty
            /\ GateIsShutForIt /\ AnsweredByOneHost

(***************************************************************************)
(* Whose files there are.                                                  *)
(***************************************************************************)

StartupBuilt == {"commit", "make", "made"}
Built == IF stage = "loop" THEN pc \in LoopBuilt ELSE pc \in StartupBuilt

BuildIsLeased ==
  ended = "no" => IF Built THEN leases.build \in LeaseIds
                           ELSE leases.build = NoLease

StartupLeases ==
  Starting => /\ leases.host = NoLease /\ leases.good = NoLease /\ sweep = {}
              /\ open = {leases.build} \ {NoLease}

LoopLeases ==
  InLoop =>
    /\ leases.host \in LeaseIds /\ leases.good \in LeaseIds
    /\ open = ({leases.host, leases.good, leases.build} \ {NoLease}) \cup sweep
    /\ leases.build \notin {leases.host, leases.good} \cup sweep
    /\ leases.host \notin sweep /\ leases.good \notin sweep
    /\ (sweep # {}) => pc = "top" /\ ~flags.pending
    /\ flags.pending => pc \in {"top", "look"}

LeasesInv == BuildIsLeased /\ StartupLeases /\ LoopLeases

(***************************************************************************)
(* What the host serves.                                                   *)
(***************************************************************************)

Answers(h) == host[h].st = "up" /\ host[h].sound

SoundIsExact ==
  \A h \in HostIds : host[h].sound => /\ host[h].late = NoCommand
                                      /\ host[h].runs = host[h].installed

NewHostServesBuild ==
  /\ Starting /\ pc = "made" /\ Answers(active)
     => host[active].runs = build.code /\ host[active].dist = snap.dist
  /\ InLoop /\ pc = "swapplan" /\ Answers(replacement)
     => host[replacement].runs = build.code /\ host[replacement].dist = snap.dist

InPlaceServesBuild ==
  (InLoop /\ Answers(active)) =>
    /\ pc \in {"reload", "plan"} => host[active].runs = build.code
    /\ pc = "plan" => host[active].dist = snap.dist \/ host[active].ahead

GoodIsServed ==
  (InLoop /\ Answers(active) /\ pc \notin InsteadOfOld \cup {"plan"}) =>
    /\ host[active].dist = good.dist \/ host[active].ahead
    /\ (~overlay /\ pc \notin {"reload", "failed"}) => host[active].runs = good.code

ServedInv == SoundIsExact /\ NewHostServesBuild /\ InPlaceServesBuild /\ GoodIsServed

(***************************************************************************)
(* Types.                                                                  *)
(***************************************************************************)

\* Helpers that take a first free id find one of the set.
LEMMA LeastIsOfIt ==
  ASSUME NEW S \in SUBSET (1..4), S # {}
  PROVE  Least(S) \in S
<1>1. PICK x \in S : \A y \in S : x <= y
  <2>0. \A y \in S : y = 1 \/ y = 2 \/ y = 3 \/ y = 4
    OBVIOUS
  <2>1. CASE 1 \in S
    BY <2>0, <2>1
  <2>2. CASE 1 \notin S /\ 2 \in S
    BY <2>0, <2>2
  <2>3. CASE 1 \notin S /\ 2 \notin S /\ 3 \in S
    BY <2>0, <2>3
  <2>4. CASE 1 \notin S /\ 2 \notin S /\ 3 \notin S
    <3>1. \A y \in S : y = 4
      BY <2>0, <2>4
    <3>2. PICK x \in S : TRUE
      OBVIOUS
    <3>3. \A y \in S : x <= y
      BY <3>1, <3>2
    <3> QED
      BY <3>3
  <2> QED
    BY <2>1, <2>2, <2>3, <2>4
<1> QED
  BY <1>1 DEF Least

LEMMA HostsOfTheirType ==
  /\ Absent \in Hosts
  /\ \A c \in Codes : \A d \in Dists : Running(c, d) \in Hosts
<1>1. NoDist \in Dists /\ NoCommand \in Commands /\ First \in Codes
  BY DEF Dists, Commands
<1>2. Absent \in Hosts
  BY <1>1 DEF Absent, Hosts
<1>3. ASSUME NEW c \in Codes, NEW d \in Dists PROVE Running(c, d) \in Hosts
  <2>1. \A x \in Hosts :
          [x EXCEPT !.st = "up", !.runs = c, !.installed = c, !.dist = d] \in Hosts
    BY DEF Hosts
  <2> QED
    BY <1>2, <2>1, Zenon DEF Running
<1> QED
  BY <1>2, <1>3

LEMMA ViewOfItsType == TypeOK => View \in Dists /\ NoDist \in Dists
BY DEF TypeOK, Dists, View

LEMMA InitTypes == Init => TypeOK
<1>1. NoDist \in Dists /\ First \in Codes /\ Routes[First] \in RouteSets
  BY DEF Dists, RouteSets
<1> SUFFICES ASSUME Init PROVE TypeOK
  OBVIOUS
<1>2. /\ cur \in [rev : Nat, code : Codes, routes : RouteSets]
      /\ snap \in [dist : Dists, routes : RouteSets] /\ last \in Dists
      /\ build \in [rev : Nat, code : Codes]
      /\ good \in [rev : Nat, code : Codes, dist : Dists]
  BY <1>1 DEF Init
<1>3. host \in [HostIds -> Hosts] /\ entered \in [Requests -> HostIds \cup {NoHost}]
  BY HostsOfTheirType DEF Init
<1>4. /\ leases \in [{"build", "host", "good"} -> LeaseIds \cup {NoLease}]
      /\ left \in [edits : 0..MaxEdits, trouble : 0..MaxTrouble]
  BY DEF Init
<1>5. flags \in [pending : BOOLEAN, goChanged : BOOLEAN, dirty : BOOLEAN]
  BY DEF Init
<1>6. G!GateTypeOK
  <2>1. gate = "shut" /\ inside = {} /\ cancelled = {}
    BY DEF Init, G!GateInit
  <2> QED
    BY <2>1 DEF G!GateTypeOK
<1>7. /\ changes \in BOOLEAN /\ overlay \in BOOLEAN /\ stop \in BOOLEAN
      /\ kit \in 0..MaxKit /\ disk \in Codes /\ reported \in Nat
      /\ {active, replacement, target} \subseteq HostIds \cup {NoHost}
      /\ open \subseteq LeaseIds /\ sweep \subseteq LeaseIds
  <2>1. changes = FALSE /\ overlay = FALSE /\ stop = FALSE
    BY DEF Init
  <2>2. kit = 0 /\ disk = First /\ reported = 0
    BY DEF Init
  <2>3. /\ active = NoHost /\ replacement = NoHost /\ target = NoHost
        /\ open = {} /\ sweep = {}
    BY DEF Init
  <2>4. changes \in BOOLEAN /\ overlay \in BOOLEAN /\ stop \in BOOLEAN
    BY <2>1, Zenon
  <2>5. kit \in 0..MaxKit /\ disk \in Codes /\ reported \in Nat
    BY <1>1, <2>2
  <2> QED
    BY <2>3, <2>4, <2>5
<1>8. /\ stage = "first" /\ pc = "prepare" /\ ended = "no"
  BY DEF Init
<1> QED
  BY <1>2, <1>3, <1>4, <1>5, <1>6, <1>7, <1>8 DEF TypeOK

(***************************************************************************)
(* Who changes what: the steps that leave a part of the state alone are    *)
(* dealt with here, once.                                                  *)
(***************************************************************************)

WorldChange == UNCHANGED world
  \/ ObserveAtStartup \/ SelectChanges \/ Weigh \/ ObserveAgain
  \/ (\E c \in Codes : Edit(c)) \/ KitChanges
HostsChange == UNCHANGED hosts
  \/ MakeFirstHost \/ AdmitFirstHost \/ SelectStop \/ SelectDone \/ Recover
  \/ RecoverFails \/ Install \/ Reload \/ PublishPlan \/ Join \/ AdmitReplacement
  \/ StopOld \/ DrainInterrupted \/ Start \/ Adopt \/ Restore \/ RestoreFails
  \/ (\E h \in HostIds : Die(h)) \/ (\E h \in HostIds : CarryOutLate(h))
SeenChange == UNCHANGED <<last, snap, build>>
  \/ BeginPrepare \/ SnapshotAtStartup \/ AdmitFirstHost \/ SelectTick \/ Peek
  \/ SnapshotAgain
ServedChange == UNCHANGED served
  \/ CommitStartup \/ AdmitFirstHost \/ PublishPlan \/ Publish \/ Adopt
InputsChange == UNCHANGED inputs
  \/ Prepared \/ PrepareObsolete \/ PrepareFails \/ CommitStartup
  \/ SnapshotAtStartup \/ MakeFirstHost \/ AdmitFirstHost \/ Sweep \/ SelectStop
  \/ SelectDone \/ Recover \/ RecoverFails \/ PublishPlan \/ Adopt \/ Restore
  \/ RestoreFails \/ Failed \/ Obsolete
RequestsChange == UNCHANGED requests
  \/ PrepareObsolete \/ PrepareFails \/ SnapshotAtStartup \/ MakeFirstHost
  \/ AdmitFirstHost \/ SelectStop \/ SelectDone \/ Recover \/ RecoverFails
  \/ AdmitReplacement \/ Adopt \/ Restore \/ RestoreFails
  \/ (\E r \in Requests : Enter(r)) \/ (\E r \in Requests : Leave(r)) \/ Expire
FlagsChange == UNCHANGED <<flags, stage>>
  \/ PrepareObsolete \/ CommitStartup \/ MakeFirstHost \/ AdmitFirstHost
  \/ SelectChanges \/ SelectTick \/ Look \/ Weigh \/ PublishPlan \/ ObserveAgain
  \/ Adopt \/ Obsolete
RestChange == UNCHANGED <<reported, overlay, stop, ended, left>>
  \/ PrepareObsolete \/ PrepareFails \/ SnapshotAtStartup \/ MakeFirstHost
  \/ SelectStop \/ SelectDone \/ Recover \/ RecoverFails \/ Look \/ Peek
  \/ Install \/ Reload \/ PublishPlan \/ Publish \/ SnapshotAgain \/ Start
  \/ Adopt \/ AdoptFails \/ RestoreFails \/ Failed \/ (\E c \in Codes : Edit(c))
  \/ KitChanges \/ (\E h \in HostIds : Die(h)) \/ Stop

EveryChange ==
  /\ WorldChange /\ HostsChange /\ SeenChange /\ ServedChange
  /\ InputsChange /\ RequestsChange /\ FlagsChange /\ RestChange

LEMMA WhoChanges == [Next]_vars => EveryChange
<1> SUFFICES ASSUME [Next]_vars
             PROVE  EveryChange
  OBVIOUS
<1> USE DEF EveryChange, WorldChange, HostsChange, SeenChange, ServedChange,
            InputsChange, RequestsChange, FlagsChange, RestChange,
            vars, world, hosts, loop, served, inputs, requests, gateVars, G!gateVars,
            browser, outcome
<1>1. CASE BeginPrepare
  BY <1>1 DEF BeginPrepare, At, Goto
<1>2. CASE Prepared
  BY <1>2 DEF Prepared, At, Goto
<1>3. CASE PrepareObsolete
  BY <1>3 DEF PrepareObsolete, At, Goto, ReturnEarly, CloseBuild, G!CloseGate
<1>4. CASE PrepareFails
  BY <1>4 DEF PrepareFails, At, Goto, ReturnEarly, CloseBuild, G!CloseGate
<1>5. CASE CommitStartup
  BY <1>5 DEF CommitStartup, At, Goto, CloseBuild
<1>6. CASE SnapshotAtStartup
  BY <1>6 DEF SnapshotAtStartup, At, Goto, Trouble, TakeSnapshot, ReturnEarly,
     CloseBuild, G!CloseGate
<1>7. CASE ObserveAtStartup
  BY <1>7 DEF ObserveAtStartup, At, Goto, ObserveRoutes
<1>8. CASE MakeFirstHost
  BY <1>8 DEF MakeFirstHost, At, Goto, Trouble, CloseBuild, ReturnEarly, G!CloseGate
<1>9. CASE AdmitFirstHost
  BY <1>9 DEF AdmitFirstHost, At, Goto, CloseBuild, G!Open
<1>10. CASE Sweep
  BY <1>10 DEF Sweep, At, Goto
<1>11. CASE SelectStop
  BY <1>11 DEF SelectStop, At, Return, G!CloseGate
<1>12. CASE SelectChanges
  BY <1>12 DEF SelectChanges, At, Goto
<1>13. CASE SelectTick
  BY <1>13 DEF SelectTick, At, Goto
<1>14. CASE SelectDone
  BY <1>14 DEF SelectDone, At, Goto, Pause, G!Shut, Return, G!CloseGate
<1>15. CASE Recover
  BY <1>15 DEF Recover, At, Goto, GoodHostTakesOver, G!Open
<1>16. CASE RecoverFails
  BY <1>16 DEF RecoverFails, At, Trouble, Return, G!CloseGate
<1>17. CASE Again
  BY <1>17 DEF Again, At, Goto
<1>18. CASE Look
  BY <1>18 DEF Look, At, Goto, Trouble
<1>19. CASE Peek
  BY <1>19 DEF Peek, At, Goto, Trouble, TakeSnapshot
<1>20. CASE Weigh
  BY <1>20 DEF Weigh, At, Goto, ObserveRoutes
<1>21. CASE Classify
  BY <1>21 DEF Classify, At, Goto
<1>22. CASE Admit
  BY <1>22 DEF Admit, At, Goto
<1>23. CASE Install
  BY <1>23 DEF Install, At, Goto, Trouble, GiveUp, Unreachable
<1>24. CASE Reload
  BY <1>24 DEF Reload, At, Goto, Trouble, GiveUp, Unreachable
<1>25. CASE PublishPlan
  BY <1>25 DEF PublishPlan, At, Goto, Trouble
<1>26. CASE Publish
  BY <1>26 DEF Publish, At, Goto, Trouble
<1>27. CASE SnapshotAgain
  BY <1>27 DEF SnapshotAgain, At, Goto, Trouble, TakeSnapshot
<1>28. CASE ObserveAgain
  BY <1>28 DEF ObserveAgain, At, Goto, ObserveRoutes
<1>29. CASE Join
  BY <1>29 DEF Join, At, Goto
<1>30. CASE AdmitReplacement
  BY <1>30 DEF AdmitReplacement, At, Goto, Pause, G!Shut, DropReplacement
<1>31. CASE StopOld
  BY <1>31 DEF StopOld, At, Goto
<1>32. CASE DrainInterrupted
  BY <1>32 DEF DrainInterrupted, At, Goto, DropReplacement
<1>33. CASE Start
  BY <1>33 DEF Start, At, Goto, Trouble
<1>34. CASE Adopt
  BY <1>34 DEF Adopt, At, Goto, G!Open
<1>35. CASE AdoptFails
  BY <1>35 DEF AdoptFails, At, Goto, Trouble
<1>36. CASE Restore
  BY <1>36 DEF Restore, At, Goto, GoodHostTakesOver, G!Open
<1>37. CASE RestoreFails
  BY <1>37 DEF RestoreFails, At, Trouble, Return, G!CloseGate
<1>38. CASE Failed
  BY <1>38 DEF Failed, At, Goto, CloseBuild
<1>39. CASE Obsolete
  BY <1>39 DEF Obsolete, At, Goto, CloseBuild
<1>40. ASSUME NEW c \in Codes, Edit(c) PROVE EveryChange
  <2>1. \E e \in Codes : Edit(e)
    BY <1>40
  <2>2. WorldChange /\ RestChange
    BY <2>1
  <2>3. /\ HostsChange /\ SeenChange /\ ServedChange
        /\ InputsChange /\ RequestsChange /\ FlagsChange
    BY <1>40 DEF Edit
  <2> QED
    BY <2>2, <2>3
<1>41. CASE KitChanges
  BY <1>41 DEF KitChanges, Trouble
<1>42. ASSUME NEW h \in HostIds, Die(h) PROVE EveryChange
  BY <1>42 DEF Die, Trouble
<1>43. ASSUME NEW h \in HostIds, CarryOutLate(h) PROVE EveryChange
  BY <1>43 DEF CarryOutLate
<1>44. ASSUME NEW r \in Requests, Enter(r) PROVE EveryChange
  BY <1>44 DEF Enter, Around, G!Enter
<1>45. ASSUME NEW r \in Requests, Leave(r) PROVE EveryChange
  BY <1>45 DEF Leave, Around, G!Leave
<1>46. CASE Expire
  BY <1>46 DEF Expire, Around, G!Expire
<1>47. CASE Stop
  BY <1>47 DEF Stop, Trouble
<1>48. CASE UNCHANGED vars
  BY <1>48
<1> QED
  BY <1>1, <1>2, <1>3, <1>4, <1>5, <1>6, <1>7, <1>8, <1>9, <1>10, <1>11, <1>12, <1>13,
     <1>14, <1>15, <1>16, <1>17, <1>18, <1>19, <1>20, <1>21, <1>22, <1>23, <1>24, <1>25,
     <1>26, <1>27, <1>28, <1>29, <1>30, <1>31, <1>32, <1>33, <1>34, <1>35, <1>36, <1>37,
     <1>38, <1>39, <1>40, <1>41, <1>42, <1>43, <1>44, <1>45, <1>46, <1>47, <1>48
     DEF Next, Environment, Session, Startup, Wait, Weighing, InPlace, Replace

(***************************************************************************)
(* The hosts stand where HostsInv says.  Three kinds of steps do most of   *)
(* the work: those that move the loop alone, those that write in the       *)
(* record of a standing host, and those that return.                       *)
(***************************************************************************)

Elsewhere == LoopPcs \ (InsteadOfOld \cup BesideBuilt \cup {"recover"})

MovesAlone ==
  /\ UNCHANGED <<host, active, replacement, target, requests, ended>>
  /\ ended = "no"
  /\ \/ /\ stage # "loop" /\ stage' # "loop"
        /\ pc # "made" /\ pc' \in StartupPcs \ {"made"}
     \/ stage = "loop" /\ stage' = "loop" /\ pc \in Elsewhere /\ pc' \in Elsewhere

Retouches(h) ==
  /\ UNCHANGED <<active, replacement, target, requests, ended, stage>>
  /\ h \in HostIds /\ host[h].st \in {"up", "dead"} /\ host'[h].st \in {"up", "dead"}
  /\ \A i \in HostIds \ {h} : host'[i] = host[i]
  /\ pc' = pc \/ (InLoop /\ pc \in Elsewhere /\ pc' \in Elsewhere)

Returns ==
  /\ ended' # "no" /\ pc' = "done" /\ gate' = "closed"
  /\ \A h \in HostIds : host'[h] = Absent

LEMMA MovingKeepsHosts == HostsInv /\ MovesAlone => HostsInv'
BY DEF HostsInv, MovesAlone, StartsWithoutHost, LoopHasHost, EndedIsEmpty, GateIsShutForIt,
       AnsweredByOneHost, Standing, Alone, Starting, InLoop, StartupPcs, LoopPcs,
       LoopBuilt, Elsewhere, InsteadOfOld, BesideBuilt, requests, gateVars

LEMMA RetouchKeepsHosts == ASSUME NEW h, HostsInv, Retouches(h) PROVE HostsInv'
<1> USE DEF HostsInv, Retouches, InsteadOfOld, BesideBuilt, Elsewhere, LoopPcs, LoopBuilt,
            requests, gateVars
<1>1. \A i \in HostIds : /\ host[i] = Absent => i # h /\ host'[i] = Absent
                         /\ host[i].st = "built" => i # h /\ host'[i].st = "built"
                         /\ host[i].st \in {"up", "dead"} => host'[i].st \in {"up", "dead"}
                         /\ host[i].st # "none" => host'[i].st # "none"
  BY DEF Absent
<1>2. StartsWithoutHost'
  BY <1>1 DEF StartsWithoutHost, Standing, Alone, Starting, InLoop, StartupPcs
<1>3. LoopHasHost'
  BY <1>1 DEF LoopHasHost, Standing, Alone, InLoop
<1>4. EndedIsEmpty'
  BY <1>1 DEF EndedIsEmpty, InLoop
<1>5. GateIsShutForIt'
  BY DEF GateIsShutForIt, InLoop, G!Quiet
<1>6. AnsweredByOneHost'
  BY DEF AnsweredByOneHost
<1> QED
  BY <1>2, <1>3, <1>4, <1>5, <1>6

LEMMA ReturnKeepsHosts == HostsInv /\ Returns => HostsInv'
BY DEF HostsInv, Returns, StartsWithoutHost, LoopHasHost, EndedIsEmpty, GateIsShutForIt,
       AnsweredByOneHost, Starting, InLoop

\* The steps that move the loop alone.
LEMMA MovingSteps ==
  ASSUME HostsInv,
         BeginPrepare \/ Prepared \/ CommitStartup \/ ObserveAtStartup \/ Sweep \/
         SelectChanges \/ SelectTick \/ Again \/ Look \/ Peek \/ Weigh \/ Classify \/
         Admit \/ Publish \/ SnapshotAgain \/ ObserveAgain \/ Failed \/ Obsolete
  PROVE  MovesAlone
<1> USE DEF MovesAlone, HostsInv, StartsWithoutHost, LoopHasHost, Starting, InLoop,
            StartupPcs, Elsewhere, LoopPcs, LoopBuilt, InsteadOfOld, BesideBuilt,
            At, Goto, hosts, loop, requests, outcome
<1>1. CASE BeginPrepare
  BY <1>1 DEF BeginPrepare
<1>2. CASE Prepared
  BY <1>2 DEF Prepared
<1>3. CASE CommitStartup
  BY <1>3 DEF CommitStartup
<1>4. CASE ObserveAtStartup
  BY <1>4 DEF ObserveAtStartup
<1>5. CASE Sweep
  BY <1>5 DEF Sweep
<1>6. CASE SelectChanges
  BY <1>6 DEF SelectChanges
<1>7. CASE SelectTick
  BY <1>7 DEF SelectTick
<1>8. CASE Again
  BY <1>8 DEF Again
<1>9. CASE Look
  BY <1>9 DEF Look
<1>10. CASE Peek
  BY <1>10 DEF Peek
<1>11. CASE Weigh
  BY <1>11 DEF Weigh
<1>12. CASE Classify
  BY <1>12 DEF Classify
<1>13. CASE Admit
  BY <1>13 DEF Admit
<1>14. CASE Publish
  BY <1>14 DEF Publish
<1>15. CASE SnapshotAgain
  BY <1>15 DEF SnapshotAgain
<1>16. CASE ObserveAgain
  BY <1>16 DEF ObserveAgain
<1>17. CASE Failed
  BY <1>17 DEF Failed
<1>18. CASE Obsolete
  BY <1>18 DEF Obsolete
<1> QED
  BY <1>1, <1>2, <1>3, <1>4, <1>5, <1>6, <1>7, <1>8, <1>9, <1>10, <1>11, <1>12, <1>13,
     <1>14, <1>15, <1>16, <1>17, <1>18

LEMMA ReturnSteps ==
  ASSUME HostsInv, NEW how \in {"stopped", "error", "obsolete", "lost"}
  PROVE  /\ Return(how) => Returns
         /\ (ReturnEarly(how) /\ Starting /\ pc # "made") => Returns
BY DEF Return, ReturnEarly, Returns, HostsInv, StartsWithoutHost, hosts, G!CloseGate

LEMMA RecordsOfHosts ==
  /\ Absent.st = "none" /\ Absent \in Hosts
  /\ \A c, d : /\ Running(c, d).st = "up" /\ Running(c, d).sound = TRUE
               /\ Running(c, d).late = NoCommand /\ Running(c, d).ahead = FALSE
               /\ Running(c, d).runs = c /\ Running(c, d).installed = c
               /\ Running(c, d).dist = d
<1>1. Absent.st = "none" /\ Absent \in Hosts
  BY HostsOfTheirType DEF Absent
<1>2. ASSUME NEW c, NEW d
      PROVE  /\ Running(c, d).st = "up" /\ Running(c, d).sound = TRUE
             /\ Running(c, d).late = NoCommand /\ Running(c, d).ahead = FALSE
             /\ Running(c, d).runs = c /\ Running(c, d).installed = c
             /\ Running(c, d).dist = d
  <2>1. Running(c, d).st = "up"
    BY DEF Absent, Running
  <2>2. Running(c, d).sound = TRUE
    BY DEF Absent, Running
  <2>3. Running(c, d).ahead = FALSE
    BY DEF Absent, Running
  <2>4. Running(c, d).runs = c /\ Running(c, d).installed = c
    BY DEF Absent, Running
  <2>5. Running(c, d).dist = d /\ Running(c, d).late = NoCommand
    BY DEF Absent, Running
  <2> QED
    BY <2>1, <2>2, <2>3, <2>4, <2>5
<1> QED
  BY <1>1, <1>2

LEMMA FreeHostIsFree ==
  ASSUME host \in [HostIds -> Hosts], \E h \in HostIds : host[h] = Absent
  PROVE  FreeHost \in HostIds /\ host[FreeHost].st = "none"
<1>1. {h \in HostIds : host[h].st = "none"} \in SUBSET (1..4)
  OBVIOUS
<1>2. {h \in HostIds : host[h].st = "none"} # {}
  BY DEF Absent
<1>3. FreeHost \in {h \in HostIds : host[h].st = "none"}
  BY <1>1, <1>2, LeastIsOfIt DEF FreeHost
<1> QED
  BY <1>3

\* The host of the last admitted build takes the place of the closed one.
LEMMA TakingOver ==
  ASSUME NEW h \in HostIds, host \in [HostIds -> Hosts], GoodHostTakesOver(h), Alone(h)
  PROVE  \E n \in HostIds :
           /\ active' = n /\ target' = n
           /\ host'[n] = Running(good.code, good.dist)
           /\ \A i \in HostIds \ {n} : host'[i] = Absent
           /\ host' \in [HostIds -> Hosts \cup {Running(good.code, good.dist)}]
<1> DEFINE S == {i \in HostIds : i = h \/ host[i].st = "none"}
           n == Least(S)
<1>1. n \in S
  <2>1. S \in SUBSET (1..4) /\ S # {}
    OBVIOUS
  <2> HIDE DEF S
  <2> QED
    BY <2>1, LeastIsOfIt
<1>2. n \in HostIds
  BY <1>1
<1>3. /\ active' = n /\ target' = n
      /\ host' = [host EXCEPT ![h] = Absent, ![n] = Running(good.code, good.dist)]
  BY DEF GoodHostTakesOver
<1> HIDE DEF n, S
<1>4. \A i \in HostIds \ {n} : host'[i] = Absent
  BY <1>2, <1>3 DEF Alone
<1> QED
  BY <1>2, <1>3, <1>4, RecordsOfHosts

\* The step kept the hosts where HostsInv says: one step per action that is not
\* of the three kinds above.
LEMMA NextKeepsHosts == TypeOK /\ HostsInv /\ [Next]_vars => HostsInv'
<1> SUFFICES ASSUME TypeOK, HostsInv, [Next]_vars PROVE HostsInv'
  OBVIOUS
<1>0. /\ host \in [HostIds -> Hosts] /\ G!GateTypeOK
      /\ entered \in [Requests -> HostIds \cup {NoHost}]
  BY DEF TypeOK
<1> USE <1>0
<1>1. CASE PrepareObsolete \/ PrepareFails \/ SnapshotAtStartup
  <2>1. stage # "loop" /\ (ReturnEarly("obsolete") \/ ReturnEarly("error")) => Returns
    BY <1>1, ReturnSteps DEF PrepareObsolete, PrepareFails, SnapshotAtStartup, At, Goto,
       Starting, HostsInv, LoopHasHost, InLoop
  <2>2. Returns \/ MovesAlone
    BY <1>1, <2>1 DEF PrepareObsolete, PrepareFails, SnapshotAtStartup, At, Goto,
       MovesAlone, StartupPcs, Elsewhere, LoopPcs, LoopBuilt, InsteadOfOld, BesideBuilt,
       hosts, loop, requests, outcome
  <2> QED
    BY <2>2, ReturnKeepsHosts, MovingKeepsHosts
<1>2. CASE MakeFirstHost
  <2>1. /\ Starting /\ pc = "make" /\ gate = "shut" /\ inside = {}
        /\ \A h \in HostIds : host[h] = Absent
    BY <1>2 DEF MakeFirstHost, At, HostsInv, LoopHasHost, StartsWithoutHost, Starting,
       InLoop, LoopPcs, LoopBuilt
  <2>2. CASE /\ host' = [host EXCEPT ![FreeHost] = Running(build.code, snap.dist)]
             /\ active' = FreeHost /\ pc' = "made" /\ UNCHANGED <<requests, stage, ended>>
    <3>1. FreeHost \in HostIds
      BY <2>1, FreeHostIsFree
    <3>2. /\ \A i \in HostIds \ {FreeHost} : host'[i] = Absent
          /\ host'[FreeHost].st = "up"
      BY <2>1, <2>2, <3>1, RecordsOfHosts
    <3> QED
      BY <2>1, <2>2, <3>1, <3>2 DEF HostsInv, StartsWithoutHost, LoopHasHost, EndedIsEmpty,
         GateIsShutForIt, AnsweredByOneHost, Standing, Alone,
         Starting, InLoop, StartupPcs, InsteadOfOld, requests, gateVars
  <2>3. CASE ReturnEarly("error")
    BY <2>1, <2>3, ReturnSteps, ReturnKeepsHosts
  <2>4. CASE /\ stage' = "seed" /\ pc' = "snapshot"
             /\ UNCHANGED <<hosts, requests, ended>>
    <3>1. MovesAlone
      BY <2>1, <2>4 DEF MovesAlone, StartupPcs, Starting, hosts
    <3> QED
      BY <3>1, MovingKeepsHosts
  <2> QED
    BY <1>2, <2>2, <2>3, <2>4 DEF MakeFirstHost, Goto, loop, outcome
<1>3. CASE AdmitFirstHost
  <2>1. /\ Starting /\ gate = "shut" /\ inside = {} /\ Standing(active) /\ Alone(active)
    BY <1>3 DEF AdmitFirstHost, At, HostsInv, LoopHasHost, StartsWithoutHost, Starting,
       InLoop, LoopPcs, LoopBuilt
  <2>2. CASE Current
    BY <1>3, <2>1, <2>2 DEF AdmitFirstHost, Goto, G!Open, G!Quiet, HostsInv,
       StartsWithoutHost, LoopHasHost, EndedIsEmpty, GateIsShutForIt, AnsweredByOneHost,
       Standing, Alone, Starting, InLoop, StartupPcs, LoopPcs, InsteadOfOld, BesideBuilt,
       outcome
  <2>3. CASE ~Current
    <3>1. \A h \in HostIds : host'[h] = Absent
      BY <1>3, <2>1, <2>3 DEF AdmitFirstHost, Alone, Standing
    <3> QED
      BY <1>3, <2>1, <2>3, <3>1 DEF AdmitFirstHost, Goto, HostsInv, StartsWithoutHost,
         LoopHasHost, EndedIsEmpty, GateIsShutForIt, AnsweredByOneHost,
         Starting, InLoop, StartupPcs, InsteadOfOld, outcome, gateVars
  <2> QED
    BY <2>2, <2>3
<1>4. CASE SelectStop \/ RecoverFails \/ RestoreFails
  BY <1>4, ReturnSteps, ReturnKeepsHosts DEF SelectStop, RecoverFails, RestoreFails
<1>5. CASE SelectDone
  <2>1. CASE Return("stopped")
    BY <2>1, ReturnSteps, ReturnKeepsHosts
  <2>2. CASE /\ At("select") /\ Pause /\ Goto("recover")
             /\ UNCHANGED <<world, hosts, loop, served, inputs, entered, browser, outcome>>
    BY <2>2 DEF At, Pause, G!Shut, gateVars, Goto, HostsInv, StartsWithoutHost, LoopHasHost,
       EndedIsEmpty, GateIsShutForIt, AnsweredByOneHost,
       Standing, Alone, Starting, InLoop, StartupPcs, LoopPcs, InsteadOfOld, BesideBuilt,
       hosts, loop, outcome
  <2> QED
    BY <1>5, <2>1, <2>2 DEF SelectDone
<1>6. CASE Recover \/ Restore
  <2>1. /\ InLoop /\ G!Quiet /\ gate = "shut"
        /\ \E h \in HostIds : Alone(h) /\ GoodHostTakesOver(h)
    BY <1>6 DEF Recover, Restore, At, G!Open, HostsInv, LoopHasHost, StartsWithoutHost,
       GateIsShutForIt, Starting, InLoop, StartupPcs, LoopPcs, Standing, InsteadOfOld,
       BesideBuilt
  <2>2. PICK n \in HostIds :
           /\ active' = n /\ target' = n /\ host'[n] = Running(good.code, good.dist)
           /\ \A i \in HostIds \ {n} : host'[i] = Absent
    BY <2>1, TakingOver
  <2>3. /\ pc' \in {"top", "failed"} /\ UNCHANGED <<stage, ended, inside, cancelled, entered>>
        /\ gate' = "open"
    BY <1>6 DEF Recover, Restore, Goto, G!Open, loop, outcome
  <2> QED
    BY <2>1, <2>2, <2>3, RecordsOfHosts DEF HostsInv, StartsWithoutHost, LoopHasHost,
       EndedIsEmpty, GateIsShutForIt, AnsweredByOneHost, G!Quiet,
       Standing, Alone, Starting, InLoop, LoopPcs, LoopBuilt, InsteadOfOld, BesideBuilt
<1>7. CASE Install \/ Reload \/ PublishPlan
  <2>1. /\ InLoop /\ pc \in Elsewhere /\ active \in HostIds
        /\ host[active].st \in {"up", "dead"} /\ host[active] \in Hosts
    BY <1>7 DEF Install, Reload, PublishPlan, At, HostsInv, LoopHasHost, StartsWithoutHost,
       Starting, InLoop, StartupPcs, Standing, InsteadOfOld, BesideBuilt, Elsewhere,
       LoopPcs, LoopBuilt
  <2>2. /\ UNCHANGED <<active, replacement, target, requests, ended, stage>>
        /\ pc' \in Elsewhere
    BY <1>7 DEF Install, Reload, PublishPlan, Goto, loop, outcome, Elsewhere, LoopPcs,
       LoopBuilt, InsteadOfOld, BesideBuilt
  <2>3. /\ \A i \in HostIds \ {active} : host'[i] = host[i]
        /\ host'[active].st = host[active].st
    BY <1>7, <2>1 DEF Install, Reload, PublishPlan, GiveUp, Unreachable, Hosts
  <2>4. Retouches(active)
    BY <2>1, <2>2, <2>3 DEF Retouches
  <2> QED
    BY <2>4, RetouchKeepsHosts
<1>8. ASSUME NEW h \in HostIds, Die(h) \/ CarryOutLate(h) PROVE HostsInv'
  <2>1. /\ \A i \in HostIds \ {h} : host'[i] = host[i]
        /\ host[h].st = "up" /\ host'[h].st \in {"up", "dead"}
    BY <1>8 DEF Die, CarryOutLate, Hosts
  <2>2. Retouches(h)
    BY <1>8, <2>1 DEF Retouches, Die, CarryOutLate, loop, outcome
  <2> QED
    BY <2>2, RetouchKeepsHosts
<1>9. CASE Join
  <2>1. /\ InLoop /\ Standing(active) /\ target = active /\ Alone(active)
        /\ active \in HostIds
    BY <1>9 DEF Join, At, HostsInv, StartsWithoutHost, LoopHasHost, EndedIsEmpty,
       GateIsShutForIt, AnsweredByOneHost, Starting, InLoop, StartupPcs, LoopPcs,
       LoopBuilt, InsteadOfOld, BesideBuilt, G!GateTypeOK, Standing
  <2>2. CASE Fault[build.code] = "compile"
    <3>1. MovesAlone
      BY <1>9, <2>1, <2>2 DEF Join, At, Goto, MovesAlone, InLoop, Elsewhere, LoopPcs,
         LoopBuilt, InsteadOfOld, BesideBuilt, loop, outcome
    <3> QED
      BY <3>1, MovingKeepsHosts
  <2>3. CASE Fault[build.code] # "compile"
    <3>1. \E h \in HostIds : host[h] = Absent
      BY <2>1 DEF Alone
    <3>2. FreeHost \in HostIds /\ FreeHost # active
      BY <2>1, <3>1, FreeHostIsFree DEF Standing
    <3>3. /\ host' = [host EXCEPT ![FreeHost].st = "built"] /\ replacement' = FreeHost
          /\ pc' = "built" /\ pc = "join"
          /\ UNCHANGED <<active, target, stage, ended, gate, inside, cancelled, entered>>
      BY <1>9, <2>3 DEF Join, At, Goto, loop, outcome, requests, gateVars
    <3>4. /\ host'[FreeHost].st = "built"
          /\ \A i \in HostIds \ {FreeHost} : host'[i] = host[i]
      BY <3>2, <3>3 DEF Hosts
    <3> QED
      BY <2>1, <3>2, <3>3, <3>4 DEF HostsInv, StartsWithoutHost, LoopHasHost, EndedIsEmpty,
         GateIsShutForIt, AnsweredByOneHost,
         Standing, Alone, Starting, InLoop, LoopPcs, LoopBuilt, InsteadOfOld, BesideBuilt
  <2> QED
    BY <2>2, <2>3
<1>10. CASE AdmitReplacement \/ DrainInterrupted
  <2>1. /\ InLoop /\ pc \in BesideBuilt /\ Standing(active) /\ target = active
        /\ replacement \in HostIds \ {active}
        /\ \A i \in HostIds \ {active, replacement} : host[i] = Absent
        /\ host[replacement].st = "built" /\ active \in HostIds
    BY <1>10 DEF AdmitReplacement, DrainInterrupted, At, HostsInv, LoopHasHost,
       StartsWithoutHost, Starting, InLoop, StartupPcs, LoopPcs, Standing, InsteadOfOld,
       BesideBuilt
  <2>2. CASE DropReplacement /\ pc' \in {"obsolete", "failed"} /\ UNCHANGED gateVars
    <3>1. host'[active] = host[active] /\ \A i \in HostIds \ {active} : host'[i] = Absent
      BY <2>1, <2>2 DEF DropReplacement
    <3>2. UNCHANGED <<active, target, stage, ended, entered>>
      BY <1>10 DEF AdmitReplacement, DrainInterrupted, loop, outcome, requests
    <3> QED
      BY <2>1, <2>2, <3>1, <3>2 DEF HostsInv, StartsWithoutHost, LoopHasHost, EndedIsEmpty,
         GateIsShutForIt, AnsweredByOneHost, gateVars,
         Standing, Alone, Starting, InLoop, LoopPcs, LoopBuilt, InsteadOfOld, BesideBuilt
  <2>3. CASE /\ pc' = "drain" /\ Pause
             /\ UNCHANGED <<hosts, loop, entered, outcome>>
    BY <2>1, <2>3 DEF Pause, G!Shut, HostsInv, StartsWithoutHost, LoopHasHost, EndedIsEmpty,
       GateIsShutForIt, AnsweredByOneHost, gateVars,
       Standing, Alone, Starting, InLoop, LoopPcs, LoopBuilt, InsteadOfOld, BesideBuilt,
       hosts, loop, outcome
  <2> QED
    BY <1>10, <2>2, <2>3 DEF AdmitReplacement, DrainInterrupted, Goto, hosts, requests
<1>11. CASE StopOld
  <2>1. /\ InLoop /\ pc \in BesideBuilt /\ active \in HostIds
        /\ replacement \in HostIds \ {active}
        /\ \A i \in HostIds \ {active, replacement} : host[i] = Absent
        /\ host[replacement].st = "built" /\ gate # "open"
    BY <1>11 DEF StopOld, At, HostsInv, StartsWithoutHost, LoopHasHost, EndedIsEmpty,
       GateIsShutForIt, AnsweredByOneHost,
       Starting, InLoop, StartupPcs, LoopPcs, LoopBuilt, Standing, InsteadOfOld, BesideBuilt
  <2>2. /\ host' = [host EXCEPT ![active] = Absent] /\ pc' = "start"
        /\ UNCHANGED <<active, replacement, target, stage, ended, requests>> /\ G!Quiet
    BY <1>11 DEF StopOld, Goto, loop, outcome
  <2>3. /\ host'[replacement] = host[replacement]
        /\ \A i \in HostIds \ {replacement} : host'[i] = Absent
    BY <2>1, <2>2
  <2> QED
    BY <2>1, <2>2, <2>3 DEF HostsInv, StartsWithoutHost, LoopHasHost, EndedIsEmpty,
       GateIsShutForIt, AnsweredByOneHost, requests, gateVars, G!Quiet,
       Standing, Alone, Starting, InLoop, LoopPcs, LoopBuilt, InsteadOfOld, BesideBuilt
<1>12. CASE Start \/ AdoptFails
  <2>1. /\ InLoop /\ pc \in {"start", "swapplan"} /\ replacement \in HostIds
        /\ Alone(replacement) /\ host[replacement].st # "none"
        /\ G!Quiet /\ gate # "open"
    BY <1>12 DEF Start, AdoptFails, At, HostsInv, StartsWithoutHost, LoopHasHost,
       EndedIsEmpty, GateIsShutForIt, AnsweredByOneHost,
       Starting, InLoop, StartupPcs, LoopPcs, LoopBuilt, Standing, InsteadOfOld, BesideBuilt
  <2>2. CASE pc' = "restore" /\ UNCHANGED <<host, target, replacement>>
    BY <1>12, <2>1, <2>2 DEF Start, AdoptFails, HostsInv, StartsWithoutHost, LoopHasHost,
       EndedIsEmpty, GateIsShutForIt, AnsweredByOneHost, G!Quiet,
       Standing, Alone, Starting, InLoop, LoopPcs, LoopBuilt, InsteadOfOld, BesideBuilt,
       hosts, loop, requests, gateVars, outcome
  <2>3. CASE /\ host' = [host EXCEPT ![replacement] = Running(build.code, snap.dist)]
             /\ target' = replacement /\ pc' = "swapplan" /\ UNCHANGED replacement
    <3>1. /\ host'[replacement].st = "up"
          /\ \A i \in HostIds \ {replacement} : host'[i] = Absent
      BY <2>1, <2>3, RecordsOfHosts DEF Alone
    <3> QED
      BY <1>12, <2>1, <2>3, <3>1 DEF Start, AdoptFails, HostsInv, StartsWithoutHost,
         LoopHasHost, EndedIsEmpty, GateIsShutForIt, AnsweredByOneHost, G!Quiet,
         Standing, Alone, Starting, InLoop, LoopPcs, LoopBuilt, InsteadOfOld, BesideBuilt,
         hosts, loop, requests, gateVars, outcome
  <2> QED
    BY <1>12, <2>2, <2>3 DEF Start, AdoptFails, Goto, hosts
<1>13. CASE Adopt
  <2>1. /\ InLoop /\ Standing(replacement) /\ Alone(replacement)
        /\ target = replacement /\ gate = "shut"
    BY <1>13 DEF Adopt, At, G!Open, HostsInv, LoopHasHost, StartsWithoutHost,
       Starting, InLoop, StartupPcs, Standing, InsteadOfOld
  <2>2. /\ active' = replacement /\ pc' = "top" /\ gate' = "open"
        /\ UNCHANGED <<host, target, stage, ended, inside, cancelled, entered>>
    BY <1>13 DEF Adopt, Goto, G!Open, outcome
  <2> QED
    BY <2>1, <2>2 DEF HostsInv, StartsWithoutHost, LoopHasHost, EndedIsEmpty,
       GateIsShutForIt, AnsweredByOneHost,
       Standing, Alone, Starting, InLoop, LoopPcs, LoopBuilt, InsteadOfOld, BesideBuilt
<1>14. ASSUME NEW r \in Requests, Enter(r) \/ Leave(r) PROVE HostsInv'
  <2>1. UNCHANGED <<hosts, pc, stage, ended, gate>>
    BY <1>14 DEF Enter, Leave, Around, loop, outcome, G!Enter, G!Leave
  <2>2. AnsweredByOneHost' /\ (G!Quiet /\ gate # "open" => G!Quiet')
    BY <1>14, <2>1 DEF Enter, Leave, G!Enter, G!Leave, G!Quiet, G!GateTypeOK, HostsInv,
       AnsweredByOneHost, hosts
  <2>3. inside = {} /\ gate # "open" => inside' = {}
    BY <1>14 DEF Enter, Leave, G!Enter, G!Leave
  <2> QED
    BY <2>1, <2>2, <2>3 DEF HostsInv, StartsWithoutHost, LoopHasHost, EndedIsEmpty,
       GateIsShutForIt, AnsweredByOneHost,
       Standing, Alone, Starting, InLoop, InsteadOfOld, hosts
<1>15. CASE Expire
  <2>1. /\ UNCHANGED <<hosts, pc, stage, ended, gate, inside, entered>>
        /\ pc \in {"recover", "drain"} /\ cancelled' = inside
    BY <1>15 DEF Expire, Around, loop, outcome, G!Expire
  <2> QED
    BY <2>1 DEF HostsInv, StartsWithoutHost, LoopHasHost, EndedIsEmpty, GateIsShutForIt,
       AnsweredByOneHost,
       Standing, Alone, Starting, InLoop, InsteadOfOld, hosts
<1>16. CASE (\E c \in Codes : Edit(c)) \/ KitChanges \/ Stop \/ UNCHANGED vars
  <2>1. UNCHANGED <<hosts, pc, stage, ended, requests>>
    <3>1. ASSUME NEW c \in Codes, Edit(c) PROVE UNCHANGED <<hosts, pc, stage, ended, requests>>
      BY <3>1 DEF Edit, loop, outcome
    <3>2. CASE KitChanges \/ Stop
      BY <3>2 DEF KitChanges, Stop, loop, outcome
    <3>3. CASE UNCHANGED vars
      BY <3>3 DEF vars, loop, outcome
    <3> QED
      BY <1>16, <3>1, <3>2, <3>3
  <2> QED
    BY <2>1 DEF HostsInv, StartsWithoutHost, LoopHasHost, EndedIsEmpty, GateIsShutForIt,
       AnsweredByOneHost, G!Quiet,
       Standing, Alone, Starting, InLoop, InsteadOfOld, hosts, requests, gateVars
<1> QED
  BY <1>1, <1>2, <1>3, <1>4, <1>5, <1>6, <1>7, <1>8, <1>9, <1>10, <1>11, <1>12, <1>13,
     <1>14, <1>15, <1>16, MovingSteps, MovingKeepsHosts
     DEF Next, Environment, Session, Startup, Wait, Weighing, InPlace, Replace

LEMMA HostsKept == TypeOK /\ HostsInv => OneHostAnswers
<1> SUFFICES ASSUME TypeOK, HostsInv PROVE OneHostAnswers
  OBVIOUS
<1>1. OneHostRuns
  <2> DEFINE Up == {h \in HostIds : host[h].st = "up"}
  <2>1. PICK x : Up \subseteq {x}
    <3>1. CASE ended # "no"
      BY <3>1 DEF HostsInv, EndedIsEmpty, Absent
    <3>2. CASE Starting
      BY <3>2 DEF HostsInv, StartsWithoutHost, Alone, Absent
    <3>3. CASE InLoop
      BY <3>3 DEF HostsInv, LoopHasHost, Alone, Absent, InsteadOfOld, BesideBuilt
    <3> QED
      BY <3>1, <3>2, <3>3 DEF Starting, InLoop
  <2>2. IsFiniteSet({x}) /\ Cardinality({x}) = 1
    BY FS_Singleton, Zenon
  <2> HIDE DEF Up
  <2>3. IsFiniteSet(Up) /\ Cardinality(Up) <= Cardinality({x})
    BY <2>1, <2>2, FS_Subset
  <2> QED
    BY <2>2, <2>3 DEF OneHostRuns, Up
<1>2. OpenGateHasHost
  BY DEF HostsInv, OpenGateHasHost, GateIsShutForIt, LoopHasHost, Standing, InLoop
<1> QED
  BY <1>1, <1>2 DEF OneHostAnswers, HostsInv

LEMMA InitHosts == Init => HostsInv
BY DEF Init, HostsInv, StartsWithoutHost, LoopHasHost, EndedIsEmpty, GateIsShutForIt,
   AnsweredByOneHost, Starting, InLoop, StartupPcs, InsteadOfOld, G!GateInit

(***************************************************************************)
(* The compiler inputs.                                                    *)
(***************************************************************************)

InputsTyped ==
  /\ leases \in [{"build", "host", "good"} -> LeaseIds \cup {NoLease}]
  /\ open \subseteq LeaseIds /\ sweep \subseteq LeaseIds

LEMMA FreeLeaseIsFree ==
  ASSUME InputsTyped, HostsInv, LeasesInv, ended = "no", pc = "preparing"
  PROVE  FreeLease \in LeaseIds \ (open \cup {leases.build, leases.host, leases.good})
<1> DEFINE S == LeaseIds \ (open \cup {leases[l] : l \in DOMAIN leases})
<1>1. open \subseteq {leases.host, leases.good} /\ leases.build = NoLease
  BY DEF LeasesInv, BuildIsLeased, StartupLeases, LoopLeases, Built, Starting, InLoop,
     StartupBuilt, LoopBuilt
<1>2. {leases[l] : l \in DOMAIN leases} = {leases.build, leases.host, leases.good}
  BY DEF InputsTyped
<1>3. S = LeaseIds \ (open \cup {leases.build, leases.host, leases.good})
  BY <1>2
<1>4. S \in SUBSET (1..4) /\ S # {}
  <2>1. \E l \in 1..3 : l # leases.host /\ l # leases.good
    OBVIOUS
  <2> QED
    BY <1>1, <1>3, <2>1
<1>5. Least(S) \in S
  <2> HIDE DEF S
  <2> QED
    BY <1>4, LeastIsOfIt
<1> QED
  BY <1>3, <1>5 DEF FreeLease

LEMMA NextKeepsLeases ==
  InputsTyped /\ flags \in [pending : BOOLEAN, goChanged : BOOLEAN, dirty : BOOLEAN]
  /\ HostsInv /\ LeasesInv /\ [Next]_vars => LeasesInv' /\ InputsTyped'
<1> SUFFICES ASSUME InputsTyped, HostsInv, LeasesInv, [Next]_vars,
                    flags \in [pending : BOOLEAN, goChanged : BOOLEAN, dirty : BOOLEAN]
             PROVE  LeasesInv' /\ InputsTyped'
  OBVIOUS
<1> USE DEF InputsTyped, LeasesInv, BuildIsLeased, StartupLeases, LoopLeases, Built,
   Starting, InLoop, StartupBuilt, LoopBuilt, At, Goto,
            vars, world, hosts, loop, served, inputs, requests, gateVars, browser, outcome
<1>0. (InLoop => pc \in LoopPcs) /\ (Starting => pc \in StartupPcs)
  BY DEF HostsInv, LoopHasHost, StartsWithoutHost
<1> USE <1>0 DEF LoopPcs, StartupPcs
<1>1. CASE BeginPrepare
  BY <1>1 DEF BeginPrepare
<1>2. CASE Prepared
  BY <1>2, FreeLeaseIsFree DEF Prepared
<1>3. CASE PrepareObsolete
  BY <1>3 DEF PrepareObsolete, ReturnEarly, CloseBuild, G!CloseGate
<1>4. CASE PrepareFails
  BY <1>4 DEF PrepareFails, ReturnEarly, CloseBuild, G!CloseGate
<1>5. CASE CommitStartup
  BY <1>5 DEF CommitStartup, CloseBuild
<1>6. CASE SnapshotAtStartup
  BY <1>6 DEF SnapshotAtStartup, ReturnEarly, CloseBuild, G!CloseGate
<1>7. CASE ObserveAtStartup
  BY <1>7 DEF ObserveAtStartup
<1>8. CASE MakeFirstHost
  BY <1>8 DEF MakeFirstHost, CloseBuild, ReturnEarly, G!CloseGate
<1>9. CASE AdmitFirstHost
  BY <1>9 DEF AdmitFirstHost, CloseBuild, G!Open
<1>10. CASE Sweep
  BY <1>10 DEF Sweep
<1>11. CASE SelectStop
  BY <1>11 DEF SelectStop, Return, G!CloseGate
<1>12. CASE SelectChanges
  BY <1>12 DEF SelectChanges
<1>13. CASE SelectTick
  BY <1>13 DEF SelectTick
<1>14. CASE SelectDone
  BY <1>14 DEF SelectDone, Pause, G!Shut, Return, G!CloseGate
<1>15. CASE Recover
  BY <1>15 DEF Recover, GoodHostTakesOver, G!Open
<1>16. CASE RecoverFails
  BY <1>16 DEF RecoverFails, Return, G!CloseGate
<1>17. CASE Again
  BY <1>17 DEF Again
<1>18. CASE Look
  BY <1>18 DEF Look
<1>19. CASE Peek
  BY <1>19 DEF Peek
<1>20. CASE Weigh
  BY <1>20 DEF Weigh
<1>21. CASE Classify
  BY <1>21 DEF Classify
<1>22. CASE Admit
  BY <1>22 DEF Admit
<1>23. CASE Install
  BY <1>23 DEF Install
<1>24. CASE Reload
  BY <1>24 DEF Reload
<1>25. CASE PublishPlan
  <2>1. /\ sweep = {} /\ InLoop /\ pc = "plan" /\ ~flags.pending
        /\ UNCHANGED <<stage, ended, open>>
    BY <1>25 DEF PublishPlan
  <2>2. CASE UNCHANGED <<inputs, flags>> /\ pc' = "failed"
    BY <2>1, <2>2
  <2>3. CASE /\ sweep' = (IF leases.good = leases.host THEN sweep ELSE sweep \cup {leases.good})
             /\ leases' = [leases EXCEPT !.build = NoLease, !.good = leases.build]
             /\ pc' = "top" /\ ~flags'.pending
    <3>1. /\ leases'.build = NoLease /\ leases'.good = leases.build
          /\ leases'.host = leases.host
          /\ leases' \in [{"build", "host", "good"} -> LeaseIds \cup {NoLease}]
      BY <2>3
    <3>4. /\ leases.build \in LeaseIds /\ leases.host \in LeaseIds /\ leases.good \in LeaseIds
          /\ leases.build # leases.host /\ leases.build # leases.good
          /\ open = {leases.host, leases.good, leases.build}
      BY <2>1
    <3>2. CASE leases.good = leases.host
      <4>1. sweep' = {} /\ open' = {leases'.host, leases'.good}
        BY <2>1, <2>3, <3>1, <3>2, <3>4
      <4> QED
        BY <2>1, <2>3, <3>1, <3>4, <4>1
    <3>3. CASE leases.good # leases.host
      <4>1. sweep' = {leases.good} /\ open' = {leases'.host, leases'.good} \cup sweep'
        BY <2>1, <2>3, <3>1, <3>3, <3>4
      <4> QED
        BY <2>1, <2>3, <3>1, <3>3, <3>4, <4>1
    <3> QED
      BY <3>2, <3>3
  <2> QED
    BY <1>25, <2>1, <2>2, <2>3 DEF PublishPlan
<1>26. CASE Publish
  BY <1>26 DEF Publish
<1>27. CASE SnapshotAgain
  BY <1>27 DEF SnapshotAgain
<1>28. CASE ObserveAgain
  BY <1>28 DEF ObserveAgain
<1>29. CASE Join
  BY <1>29 DEF Join
<1>30. CASE AdmitReplacement
  BY <1>30 DEF AdmitReplacement, Pause, G!Shut, DropReplacement
<1>31. CASE StopOld
  BY <1>31 DEF StopOld
<1>32. CASE DrainInterrupted
  BY <1>32 DEF DrainInterrupted, DropReplacement
<1>33. CASE Start
  BY <1>33 DEF Start
<1>34. CASE Adopt
  BY <1>34 DEF Adopt, G!Open
<1>35. CASE AdoptFails
  BY <1>35 DEF AdoptFails
<1>36. CASE Restore
  BY <1>36 DEF Restore, GoodHostTakesOver, G!Open
<1>37. CASE RestoreFails
  BY <1>37 DEF RestoreFails, Return, G!CloseGate
<1>38. CASE Failed
  BY <1>38 DEF Failed, CloseBuild
<1>39. CASE Obsolete
  BY <1>39 DEF Obsolete, CloseBuild
<1>40. ASSUME NEW c \in Codes, Edit(c) PROVE LeasesInv' /\ InputsTyped'
  BY <1>40 DEF Edit
<1>41. CASE KitChanges
  BY <1>41 DEF KitChanges
<1>42. ASSUME NEW h \in HostIds, Die(h) PROVE LeasesInv' /\ InputsTyped'
  BY <1>42 DEF Die
<1>43. ASSUME NEW h \in HostIds, CarryOutLate(h) PROVE LeasesInv' /\ InputsTyped'
  BY <1>43 DEF CarryOutLate
<1>44. ASSUME NEW r \in Requests, Enter(r) PROVE LeasesInv' /\ InputsTyped'
  BY <1>44 DEF Enter, Around, G!Enter
<1>45. ASSUME NEW r \in Requests, Leave(r) PROVE LeasesInv' /\ InputsTyped'
  BY <1>45 DEF Leave, Around, G!Leave
<1>46. CASE Expire
  BY <1>46 DEF Expire, Around, G!Expire
<1>47. CASE Stop
  BY <1>47 DEF Stop
<1>48. CASE UNCHANGED vars
  BY <1>48
<1> QED
  BY <1>1, <1>2, <1>3, <1>4, <1>5, <1>6, <1>7, <1>8, <1>9, <1>10, <1>11, <1>12, <1>13,
     <1>14, <1>15, <1>16, <1>17, <1>18, <1>19, <1>20, <1>21, <1>22, <1>23, <1>24, <1>25,
     <1>26, <1>27, <1>28, <1>29, <1>30, <1>31, <1>32, <1>33, <1>34, <1>35, <1>36, <1>37,
     <1>38, <1>39, <1>40, <1>41, <1>42, <1>43, <1>44, <1>45, <1>46, <1>47, <1>48 DEF Next,
     Environment, Session, Startup, Wait, Weighing, InPlace, Replace

LEMMA LeasesKept == HostsInv /\ LeasesInv => LeasesExact
BY DEF LeasesInv, BuildIsLeased, LoopLeases, StartupLeases, LeasesExact, LeasesHeld,
   NoLeaseLeaks, Idle, InLoop, Starting, Built, LoopBuilt, StartupBuilt

LEMMA InitLeases == Init => LeasesInv
BY DEF Init, LeasesInv, BuildIsLeased, LoopLeases, StartupLeases, InLoop, Starting, Built,
   StartupBuilt

(***************************************************************************)
(* What the host serves.                                                   *)
(***************************************************************************)

\* The steps after which the same host serves the same thing.
LEMMA StillServes ==
  ASSUME ServedInv, UNCHANGED <<host, active, replacement, good, build, snap, overlay,
                                pc, stage, ended>>
  PROVE  ServedInv'
BY DEF ServedInv, SoundIsExact, NewHostServesBuild, InPlaceServesBuild, GoodIsServed,
   Answers, Starting, InLoop

\* What is not up, or was given up on, does not answer.
LEMMA AbsentIsExact ==
  /\ Absent.st # "up" /\ Absent.late = NoCommand /\ Absent.runs = Absent.installed
  /\ (\A h \in HostIds : host'[h] = Absent)
     => SoundIsExact' /\ \A h \in HostIds : ~Answers(h)'
<1>1. Absent.st # "up" /\ Absent.late = NoCommand /\ Absent.runs = Absent.installed
  BY DEF Absent
<1>2. ASSUME \A h \in HostIds : host'[h] = Absent PROVE SoundIsExact'
  BY <1>1, <1>2 DEF SoundIsExact
<1>3. ASSUME NEW h \in HostIds, host'[h] = Absent PROVE ~Answers(h)'
  BY <1>1, <1>3 DEF Answers
<1> QED
  BY <1>1, <1>2, <1>3

LEMMA ReturnServes ==
  ASSUME ServedInv, ended' # "no",
         UNCHANGED host \/ \A h \in HostIds : host'[h] = Absent
  PROVE  ServedInv'
<1>1. SoundIsExact'
  BY AbsentIsExact DEF ServedInv, SoundIsExact
<1> QED
  BY <1>1 DEF ServedInv, NewHostServesBuild, InPlaceServesBuild, GoodIsServed, Starting, InLoop

LEMMA NextKeepsServed ==
  TypeOK /\ HostsInv /\ ServedInv /\ [Next]_vars => ServedInv'
<1> SUFFICES ASSUME TypeOK, HostsInv, ServedInv, [Next]_vars PROVE ServedInv'
  OBVIOUS
<1>0. /\ host \in [HostIds -> Hosts] /\ overlay \in BOOLEAN
      /\ InLoop => pc \in LoopPcs /\ (pc \notin InsteadOfOld => active \in HostIds)
      /\ InLoop /\ pc \in InsteadOfOld => replacement \in HostIds
      /\ Starting => pc \in StartupPcs /\ (pc = "made" => active \in HostIds)
  BY DEF TypeOK, HostsInv, LoopHasHost, StartsWithoutHost, Standing
<1> USE <1>0 DEF ServedInv, SoundIsExact, NewHostServesBuild, InPlaceServesBuild,
   GoodIsServed, Answers, InLoop, Starting, LoopPcs, LoopBuilt,
            StartupPcs, InsteadOfOld, At, Goto,
            vars, world, hosts, loop, served, inputs, requests, gateVars, browser, outcome
<1>1. CASE BeginPrepare
  BY <1>1 DEF BeginPrepare
<1>2. CASE Prepared
  BY <1>2 DEF Prepared
<1>3. CASE PrepareObsolete
  BY <1>3 DEF PrepareObsolete, ReturnEarly
<1>4. CASE PrepareFails
  BY <1>4 DEF PrepareFails, ReturnEarly
<1>5. CASE CommitStartup
  BY <1>5 DEF CommitStartup
<1>6. CASE SnapshotAtStartup
  BY <1>6 DEF SnapshotAtStartup, TakeSnapshot, ReturnEarly
<1>7. CASE ObserveAtStartup
  BY <1>7 DEF ObserveAtStartup
<1>8. CASE MakeFirstHost
  <2>1. /\ Starting /\ pc = "make" /\ stage' # "loop"
        /\ \A h \in HostIds : host[h] = Absent
    BY <1>8 DEF MakeFirstHost, ReturnEarly, HostsInv, StartsWithoutHost
  <2>2. CASE /\ host' = [host EXCEPT ![FreeHost] = Running(build.code, snap.dist)]
             /\ active' = FreeHost /\ UNCHANGED <<build, snap>>
    <3>1. FreeHost \in HostIds
      BY <2>1, FreeHostIsFree
    <3>2. host'[active'] = Running(build.code, snap.dist)
      BY <2>2, <3>1
    <3>3. \A i \in HostIds : host'[i] = Running(build.code, snap.dist) \/ host'[i] = Absent
      BY <2>1, <2>2, <3>1
    <3>4. SoundIsExact'
      BY <3>3, RecordsOfHosts, AbsentIsExact DEF SoundIsExact
    <3> QED
      BY <2>1, <2>2, <3>2, <3>4, RecordsOfHosts
  <2>3. CASE ReturnEarly("error")
    BY <2>3, ReturnServes DEF ReturnEarly
  <2>4. CASE pc' = "snapshot" /\ UNCHANGED host
    BY <2>1, <2>4
  <2> QED
    BY <1>8, <2>2, <2>3, <2>4 DEF MakeFirstHost
<1>9. CASE AdmitFirstHost
  <2>1. Starting /\ pc = "made" /\ active \in HostIds /\ Alone(active)
    BY <1>9 DEF AdmitFirstHost, HostsInv, StartsWithoutHost, LoopHasHost, Standing
  <2>2. CASE Current
    <3>1. /\ UNCHANGED <<host, active>> /\ pc' = "top" /\ ended' = ended
          /\ good'.code = build.code /\ good'.dist = snap.dist
      BY <1>9, <2>2 DEF AdmitFirstHost
    <3>2. Answers(active) => host[active].runs = build.code /\ host[active].dist = snap.dist
      BY <2>1
    <3>3. SoundIsExact' /\ GoodIsServed'
      BY <3>1, <3>2
    <3> QED
      BY <3>1, <3>3
  <2>3. CASE ~Current
    <3>1. /\ \A h \in HostIds : host'[h] = Absent
          /\ stage' = "seed" /\ pc' = "snapshot"
      BY <1>9, <2>1, <2>3 DEF AdmitFirstHost, Alone
    <3> QED
      BY <3>1, AbsentIsExact
  <2> QED
    BY <2>2, <2>3
<1>10. CASE Sweep
  BY <1>10 DEF Sweep
<1>11. CASE SelectStop
  BY <1>11, ReturnServes DEF SelectStop, Return
<1>12. CASE SelectChanges
  BY <1>12 DEF SelectChanges
<1>13. CASE SelectTick
  BY <1>13 DEF SelectTick
<1>14. CASE SelectDone
  <2>1. CASE Return("stopped")
    BY <2>1, ReturnServes DEF Return
  <2>2. CASE /\ pc = "select" /\ pc' = "recover" /\ ended = "no"
             /\ UNCHANGED <<host, active, replacement, good, build, snap, overlay, stage, ended>>
    BY <2>2
  <2> QED
    BY <1>14, <2>1, <2>2 DEF SelectDone
<1>15. CASE Recover
  <2>1. /\ InLoop /\ \E h \in HostIds : Alone(h) /\ GoodHostTakesOver(h)
    BY <1>15 DEF Recover, HostsInv, LoopHasHost, StartsWithoutHost, BesideBuilt, Standing
  <2>2. PICK n \in HostIds :
           /\ active' = n /\ host'[n] = Running(good.code, good.dist)
           /\ \A i \in HostIds \ {n} : host'[i] = Absent
    BY <2>1, TakingOver
  <2>3. pc' \in {"top", "failed"} /\ UNCHANGED <<good, stage, ended>>
    BY <1>15 DEF Recover
  <2>4. SoundIsExact'
    BY <2>2, RecordsOfHosts, AbsentIsExact
  <2>5. GoodIsServed'
    BY <2>2, <2>3, RecordsOfHosts
  <2> QED
    BY <2>1, <2>3, <2>4, <2>5
<1>16. CASE RecoverFails
  BY <1>16, ReturnServes DEF RecoverFails, Return
<1>17. CASE Again
  BY <1>17 DEF Again
<1>18. CASE Look
  BY <1>18 DEF Look
<1>19. CASE Peek
  BY <1>19 DEF Peek, TakeSnapshot
<1>20. CASE Weigh
  BY <1>20 DEF Weigh
<1>21. CASE Classify
  BY <1>21 DEF Classify
<1>22. CASE Admit
  BY <1>22 DEF Admit
<1>23. CASE Install
  <2>1. /\ InLoop /\ pc = "install" /\ active \in HostIds /\ host[active] \in Hosts
        /\ UNCHANGED <<active, good, build, snap, overlay, stage, ended>>
        /\ pc' \in {"reload", "failed", "publish"}
    BY <1>23 DEF Install
  <2>2. \A i \in HostIds \ {active} : host'[i] = host[i]
    BY <1>23, <2>1 DEF Install, GiveUp, Unreachable
  <2>3. CASE /\ Reachable /\ pc' = "reload"
             /\ host' = [host EXCEPT ![active].runs = build.code,
                                     ![active].installed = build.code]
    <3>1. /\ host'[active].runs = build.code /\ host'[active].installed = build.code
          /\ host'[active].dist = host[active].dist /\ host'[active].ahead = host[active].ahead
          /\ host'[active].late = host[active].late
          /\ host'[active].sound = host[active].sound /\ host'[active].st = host[active].st
      BY <2>1, <2>3 DEF Hosts
    <3>2. SoundIsExact'
      BY <2>1, <2>2, <3>1
    <3>3. InPlaceServesBuild'
      BY <2>1, <2>3, <3>1
    <3>4. GoodIsServed'
      BY <2>1, <2>3, <3>1
    <3> QED
      BY <2>1, <2>3, <3>2, <3>3, <3>4
  <2>4. CASE (Unreachable \/ GiveUp(<<"install", build.code>>)) /\ pc' \in {"failed", "publish"}
    <3>1. host'[active].sound = FALSE
      BY <2>1, <2>4 DEF Unreachable, GiveUp, Hosts
    <3> QED
      BY <2>1, <2>2, <2>4, <3>1
  <2>5. CASE UNCHANGED host /\ pc' \in {"failed", "publish"}
    BY <2>1, <2>5
  <2> QED
    BY <1>23, <2>3, <2>4, <2>5 DEF Install
<1>24. CASE Reload
  <2>1. /\ InLoop /\ pc = "reload" /\ active \in HostIds /\ host[active] \in Hosts
        /\ UNCHANGED <<active, good, build, snap, overlay, stage, ended>>
    BY <1>24 DEF Reload
  <2>2. \A i \in HostIds \ {active} : host'[i] = host[i]
    BY <1>24, <2>1 DEF Reload, GiveUp, Unreachable
  <2>3. CASE UNCHANGED host /\ snap.dist = good.dist /\ pc' = "plan"
    <3>1. InPlaceServesBuild'
      BY <2>1, <2>3
    <3> QED
      BY <2>1, <2>3, <3>1
  <2>4. CASE /\ pc' = "plan"
             /\ host' = [host EXCEPT ![active].dist = snap.dist, ![active].ahead = FALSE]
    <3>1. /\ host'[active].runs = host[active].runs
          /\ host'[active].installed = host[active].installed
          /\ host'[active].dist = snap.dist /\ host'[active].late = host[active].late
          /\ host'[active].sound = host[active].sound /\ host'[active].st = host[active].st
      BY <2>1, <2>4 DEF Hosts
    <3>2. SoundIsExact'
      BY <2>1, <2>2, <3>1
    <3>3. InPlaceServesBuild'
      BY <2>1, <2>4, <3>1
    <3> QED
      BY <2>1, <2>4, <3>2, <3>3
  <2>5. CASE (Unreachable \/ GiveUp(<<"reload", snap.dist>>)) /\ pc' = "failed"
    <3>1. host'[active].sound = FALSE
      BY <2>1, <2>5 DEF Unreachable, GiveUp, Hosts
    <3> QED
      BY <2>1, <2>2, <2>5, <3>1
  <2>6. CASE UNCHANGED host /\ pc' = "failed"
    BY <2>1, <2>6
  <2> QED
    BY <1>24, <2>3, <2>4, <2>5, <2>6 DEF Reload
<1>25. CASE PublishPlan
  <2>1. /\ InLoop /\ pc = "plan" /\ active \in HostIds /\ host[active] \in Hosts
        /\ UNCHANGED <<active, build, snap, stage, ended>>
    BY <1>25 DEF PublishPlan
  <2>2. CASE /\ good' = [rev |-> build.rev, code |-> build.code, dist |-> snap.dist]
             /\ pc' = "top" /\ UNCHANGED host
    <3>1. GoodIsServed'
      BY <2>1, <2>2
    <3> QED
      BY <2>1, <2>2, <3>1
  <2>3. CASE /\ host' = [host EXCEPT ![active].ahead = host[active].dist # good.dist]
             /\ pc' = "failed" /\ UNCHANGED <<good, overlay>>
    <3>1. /\ host'[active].runs = host[active].runs
          /\ host'[active].installed = host[active].installed
          /\ host'[active].dist = host[active].dist /\ host'[active].late = host[active].late
          /\ host'[active].sound = host[active].sound
      BY <2>1, <2>3 DEF Hosts
    <3>2. host'[active].ahead = (host[active].dist # good.dist)
      BY <2>1, <2>3 DEF Hosts
    <3>3. \A i \in HostIds \ {active} : host'[i] = host[i]
      BY <2>1, <2>3
    <3>4. SoundIsExact'
      BY <2>1, <3>1, <3>3
    <3>5. GoodIsServed'
      BY <2>1, <2>3, <3>1, <3>2
    <3> QED
      BY <2>1, <2>3, <3>4, <3>5
  <2> QED
    BY <1>25, <2>2, <2>3 DEF PublishPlan
<1>26. CASE Publish
  BY <1>26 DEF Publish
<1>27. CASE SnapshotAgain
  BY <1>27 DEF SnapshotAgain, TakeSnapshot
<1>28. CASE ObserveAgain
  BY <1>28 DEF ObserveAgain
<1>29. CASE Join
  <2>1. /\ InLoop /\ pc = "join" /\ active \in HostIds /\ Standing(active) /\ Alone(active)
        /\ UNCHANGED <<active, good, build, snap, overlay, stage, ended>>
        /\ pc' \in {"failed", "built"}
    BY <1>29 DEF Join, HostsInv, LoopHasHost, BesideBuilt
  <2>2. CASE UNCHANGED host
    BY <2>1, <2>2
  <2>3. CASE host' = [host EXCEPT ![FreeHost].st = "built"]
    <3>1. \E h \in HostIds : host[h] = Absent
      BY <2>1 DEF Alone
    <3>2. FreeHost \in HostIds \ {active}
      BY <2>1, <3>1, FreeHostIsFree DEF Standing
    <3>3. \A i \in HostIds : /\ host'[i].sound = host[i].sound /\ host'[i].late = host[i].late
                             /\ host'[i].runs = host[i].runs
                             /\ host'[i].installed = host[i].installed
      BY <2>3, <3>2 DEF Hosts
    <3>4. host'[active] = host[active]
      BY <2>1, <2>3, <3>2
    <3>5. SoundIsExact'
      BY <3>3
    <3> QED
      BY <2>1, <3>4, <3>5
  <2> QED
    BY <1>29, <2>2, <2>3 DEF Join
<1>30. CASE AdmitReplacement
  <2>1. /\ InLoop /\ pc \in {"built", "drain"} /\ active \in HostIds
        /\ replacement \in HostIds \ {active}
        /\ UNCHANGED <<active, good, build, snap, overlay, stage, ended>>
        /\ pc' \in {"drain", "obsolete", "failed"}
    BY <1>30 DEF AdmitReplacement, HostsInv, LoopHasHost, BesideBuilt
  <2>2. CASE UNCHANGED host
    BY <2>1, <2>2
  <2>3. CASE DropReplacement
    <3>1. /\ host'[active] = host[active] /\ host'[replacement] = Absent
          /\ \A i \in HostIds \ {replacement} : host'[i] = host[i]
      BY <2>1, <2>3 DEF DropReplacement
    <3>2. SoundIsExact'
      BY <3>1, AbsentIsExact
    <3> QED
      BY <2>1, <3>1, <3>2
  <2> QED
    BY <1>30, <2>2, <2>3 DEF AdmitReplacement
<1>31. CASE StopOld
  <2>1. /\ InLoop /\ pc' = "start" /\ active \in HostIds /\ stage' = "loop"
        /\ host' = [host EXCEPT ![active] = Absent]
    BY <1>31 DEF StopOld
  <2>2. \A i \in HostIds : host'[i] = host[i] \/ host'[i] = Absent
    BY <2>1
  <2>3. SoundIsExact'
    BY <2>2, AbsentIsExact
  <2> QED
    BY <2>1, <2>3
<1>32. CASE DrainInterrupted
  <2>1. /\ InLoop /\ pc \in {"built", "drain"} /\ active \in HostIds
        /\ replacement \in HostIds \ {active}
        /\ UNCHANGED <<active, good, build, snap, overlay, stage, ended>>
        /\ pc' \in {"drain", "obsolete", "failed"}
    BY <1>32 DEF DrainInterrupted, HostsInv, LoopHasHost, BesideBuilt
  <2>2. CASE UNCHANGED host
    BY <2>1, <2>2
  <2>3. CASE DropReplacement
    <3>1. /\ host'[active] = host[active] /\ host'[replacement] = Absent
          /\ \A i \in HostIds \ {replacement} : host'[i] = host[i]
      BY <2>1, <2>3 DEF DropReplacement
    <3>2. SoundIsExact'
      BY <3>1, AbsentIsExact
    <3> QED
      BY <2>1, <3>1, <3>2
  <2> QED
    BY <1>32, <2>2, <2>3 DEF DrainInterrupted
<1>33. CASE Start
  <2>1. /\ InLoop /\ pc = "start" /\ replacement \in HostIds
        /\ UNCHANGED <<replacement, build, snap, stage>>
    BY <1>33 DEF Start
  <2>2. CASE UNCHANGED host /\ pc' = "restore"
    BY <2>1, <2>2
  <2>3. CASE /\ host' = [host EXCEPT ![replacement] = Running(build.code, snap.dist)]
             /\ pc' = "swapplan"
    <3>1. /\ host'[replacement] = Running(build.code, snap.dist)
          /\ \A i \in HostIds \ {replacement} : host'[i] = host[i]
      BY <2>1, <2>3
    <3>2. SoundIsExact'
      BY <3>1, RecordsOfHosts
    <3>3. NewHostServesBuild'
      BY <2>1, <2>3, <3>1, RecordsOfHosts
    <3> QED
      BY <2>1, <2>3, <3>2, <3>3
  <2> QED
    BY <1>33, <2>2, <2>3 DEF Start
<1>34. CASE Adopt
  BY <1>34 DEF Adopt
<1>35. CASE AdoptFails
  BY <1>35 DEF AdoptFails
<1>36. CASE Restore
  <2>1. /\ InLoop /\ \E h \in HostIds : Alone(h) /\ GoodHostTakesOver(h)
    BY <1>36 DEF Restore, HostsInv, LoopHasHost, StartsWithoutHost, BesideBuilt, Standing
  <2>2. PICK n \in HostIds :
           /\ active' = n /\ host'[n] = Running(good.code, good.dist)
           /\ \A i \in HostIds \ {n} : host'[i] = Absent
    BY <2>1, TakingOver
  <2>3. pc' \in {"top", "failed"} /\ UNCHANGED <<good, stage, ended>>
    BY <1>36 DEF Restore
  <2>4. SoundIsExact'
    BY <2>2, RecordsOfHosts, AbsentIsExact
  <2>5. GoodIsServed'
    BY <2>2, <2>3, RecordsOfHosts
  <2> QED
    BY <2>1, <2>3, <2>4, <2>5
<1>37. CASE RestoreFails
  BY <1>37, ReturnServes DEF RestoreFails, Return
<1>38. CASE Failed
  BY <1>38 DEF Failed
<1>39. CASE Obsolete
  BY <1>39 DEF Obsolete
<1>40. ASSUME NEW c \in Codes, Edit(c) PROVE ServedInv'
  BY <1>40 DEF Edit
<1>41. CASE KitChanges
  BY <1>41 DEF KitChanges
<1>42. ASSUME NEW h \in HostIds, Die(h) PROVE ServedInv'
  <2>1. host[h] \in Hosts /\ host' = [host EXCEPT ![h].st = "dead", ![h].late = NoCommand]
    BY <1>42 DEF Die
  <2>2. /\ host'[h].st = "dead" /\ host'[h].late = NoCommand
        /\ host'[h].sound = host[h].sound /\ host'[h].runs = host[h].runs
        /\ host'[h].installed = host[h].installed
        /\ \A i \in HostIds \ {h} : host'[i] = host[i]
    BY <2>1 DEF Hosts
  <2>3. /\ UNCHANGED <<active, replacement, good, build, snap, overlay, pc, stage, ended>>
    BY <1>42 DEF Die
  <2>4. SoundIsExact'
    BY <2>2
  <2>5. \A i \in HostIds : Answers(i)' => host'[i] = host[i] /\ Answers(i)
    BY <2>2
  <2>6. NewHostServesBuild' /\ InPlaceServesBuild'
    BY <2>3, <2>5
  <2>7. GoodIsServed'
    BY <2>3, <2>5
  <2> QED
    BY <2>4, <2>6, <2>7
<1>43. ASSUME NEW h \in HostIds, CarryOutLate(h) PROVE ServedInv'
  <2>1. host[h] \in Hosts /\ host[h].late # NoCommand /\ ~host[h].sound
    BY <1>43 DEF CarryOutLate
  <2>2. /\ host'[h].sound = host[h].sound
        /\ \A i \in HostIds \ {h} : host'[i] = host[i]
    BY <1>43, <2>1 DEF CarryOutLate, Hosts
  <2>3. /\ UNCHANGED <<active, replacement, good, build, snap, overlay, pc, stage, ended>>
    BY <1>43 DEF CarryOutLate
  <2>4. SoundIsExact'
    BY <2>1, <2>2
  <2>5. \A i \in HostIds : Answers(i)' => host'[i] = host[i] /\ Answers(i)
    BY <2>1, <2>2
  <2>6. NewHostServesBuild' /\ InPlaceServesBuild'
    BY <2>3, <2>5
  <2>7. GoodIsServed'
    BY <2>3, <2>5
  <2> QED
    BY <2>4, <2>6, <2>7
<1>44. ASSUME NEW r \in Requests, Enter(r) PROVE ServedInv'
  BY <1>44 DEF Enter, Around
<1>45. ASSUME NEW r \in Requests, Leave(r) PROVE ServedInv'
  BY <1>45 DEF Leave, Around
<1>46. CASE Expire
  BY <1>46 DEF Expire, Around
<1>47. CASE Stop
  BY <1>47 DEF Stop
<1>48. CASE UNCHANGED vars
  BY <1>48, StillServes
<1> QED
  BY <1>1, <1>2, <1>3, <1>4, <1>5, <1>6, <1>7, <1>8, <1>9, <1>10, <1>11, <1>12, <1>13,
     <1>14, <1>15, <1>16, <1>17, <1>18, <1>19, <1>20, <1>21, <1>22, <1>23, <1>24, <1>25,
     <1>26, <1>27, <1>28, <1>29, <1>30, <1>31, <1>32, <1>33, <1>34, <1>35, <1>36, <1>37,
     <1>38, <1>39, <1>40, <1>41, <1>42, <1>43, <1>44, <1>45, <1>46, <1>47, <1>48 DEF Next,
     Environment, Session, Startup, Wait, Weighing, InPlace, Replace

(***************************************************************************)
(* Types, the parts of TypeOK one after the other.  The ids of hosts and   *)
(* of inputs need what was shown about who stands and what is leased.      *)
(***************************************************************************)

WorldTyped ==
  /\ cur \in [rev : Nat, code : Codes, routes : RouteSets]
  /\ changes \in BOOLEAN /\ kit \in 0..MaxKit
HostsTyped ==
  /\ host \in [HostIds -> Hosts]
  /\ {active, replacement, target} \subseteq HostIds \cup {NoHost}
FlagsTyped ==
  /\ stage \in {"first", "seed", "build", "loop"}
  /\ flags \in [pending : BOOLEAN, goChanged : BOOLEAN, dirty : BOOLEAN]
SeenTyped ==
  /\ last \in Dists /\ snap \in [dist : Dists, routes : RouteSets]
  /\ build \in [rev : Nat, code : Codes]
ServedTyped ==
  good \in [rev : Nat, code : Codes, dist : Dists] /\ disk \in Codes
RequestsTyped ==
  G!GateTypeOK /\ entered \in [Requests -> HostIds \cup {NoHost}]
RestTyped ==
  /\ reported \in Nat /\ overlay \in BOOLEAN /\ stop \in BOOLEAN
  /\ ended \in {"no", "stopped", "error", "obsolete", "lost"}
  /\ left \in [edits : 0..MaxEdits, trouble : 0..MaxTrouble]

LEMMA WorldStaysTyped == TypeOK /\ WorldChange => WorldTyped'
<1> SUFFICES ASSUME TypeOK, WorldChange PROVE WorldTyped'
  OBVIOUS
<1>0. WorldTyped /\ SeenTyped
  BY DEF TypeOK, WorldTyped, SeenTyped
<1> USE <1>0 DEF WorldTyped, world
<1>1. CASE ObserveAtStartup \/ Weigh \/ ObserveAgain
  <2>1. ObserveRoutes /\ UNCHANGED kit
    BY <1>1 DEF ObserveAtStartup, Weigh, ObserveAgain
  <2>2. [cur EXCEPT !.rev = @ + 1, !.routes = snap.routes]
          \in [rev : Nat, code : Codes, routes : RouteSets]
    <3>1. cur.rev + 1 \in Nat /\ snap.routes \in RouteSets
      BY DEF SeenTyped
    <3> QED
      BY <3>1
  <2> QED
    BY <2>1, <2>2 DEF ObserveRoutes
<1>2. CASE SelectChanges \/ KitChanges \/ UNCHANGED world
  BY <1>2 DEF SelectChanges, KitChanges
<1>3. ASSUME NEW c \in Codes, Edit(c) PROVE WorldTyped'
  <2>1. [cur EXCEPT !.rev = @ + 1, !.code = c] \in [rev : Nat, code : Codes, routes : RouteSets]
    <3>1. cur.rev + 1 \in Nat
      OBVIOUS
    <3> QED
      BY <3>1
  <2> QED
    BY <1>3, <2>1 DEF Edit
<1> QED
  BY <1>1, <1>2, <1>3 DEF WorldChange

LEMMA SeenStaysTyped == TypeOK /\ SeenChange => SeenTyped'
<1> SUFFICES ASSUME TypeOK, SeenChange PROVE SeenTyped'
  OBVIOUS
<1>0. /\ WorldTyped /\ SeenTyped /\ View \in Dists /\ NoDist \in Dists
      /\ Routes[cur.code] \in RouteSets
  BY ViewOfItsType DEF TypeOK, WorldTyped, SeenTyped, RouteSets
<1> HIDE DEF View, NoDist
<1> USE <1>0 DEF SeenTyped, loop
<1>1. CASE BeginPrepare
  BY <1>1 DEF BeginPrepare, WorldTyped
<1>2. CASE SnapshotAtStartup \/ SnapshotAgain \/ Peek
  BY <1>2 DEF SnapshotAtStartup, SnapshotAgain, Peek, TakeSnapshot, ReturnEarly
<1>3. CASE AdmitFirstHost \/ SelectTick
  BY <1>3 DEF AdmitFirstHost, SelectTick
<1>4. CASE UNCHANGED <<last, snap, build>>
  BY <1>4
<1> QED
  BY <1>1, <1>2, <1>3, <1>4 DEF SeenChange

LEMMA ServedStaysTyped == TypeOK /\ ServedChange => ServedTyped'
BY DEF TypeOK, ServedTyped, ServedChange, CommitStartup, AdmitFirstHost, PublishPlan, Publish,
   Adopt, served

LEMMA FlagsStayTyped == TypeOK /\ FlagsChange => FlagsTyped'
<1> SUFFICES ASSUME TypeOK, FlagsChange PROVE FlagsTyped'
  OBVIOUS
<1>0. FlagsTyped
  BY DEF TypeOK, FlagsTyped
<1> USE <1>0 DEF FlagsTyped, loop
<1>1. CASE PrepareObsolete \/ CommitStartup \/ MakeFirstHost \/ AdmitFirstHost
  BY <1>1 DEF PrepareObsolete, CommitStartup, MakeFirstHost, AdmitFirstHost, ReturnEarly
<1>2. CASE SelectChanges \/ SelectTick \/ Weigh \/ ObserveAgain \/ Adopt \/ Obsolete
  BY <1>2 DEF SelectChanges, SelectTick, Weigh, ObserveAgain, Adopt, Obsolete
<1>3. CASE Look
  BY <1>3 DEF Look
<1>4. CASE PublishPlan
  BY <1>4 DEF PublishPlan
<1>5. CASE UNCHANGED <<flags, stage>>
  BY <1>5
<1> QED
  BY <1>1, <1>2, <1>3, <1>4, <1>5 DEF FlagsChange

LEMMA RequestsStayTyped == TypeOK /\ RequestsChange => RequestsTyped'
<1> SUFFICES ASSUME TypeOK, RequestsChange PROVE RequestsTyped'
  OBVIOUS
<1>0. RequestsTyped /\ target \in HostIds \cup {NoHost}
  BY DEF TypeOK, RequestsTyped
<1> USE <1>0 DEF RequestsTyped, G!GateTypeOK, requests, gateVars
<1>1. CASE PrepareObsolete \/ PrepareFails \/ SnapshotAtStartup \/ MakeFirstHost
  BY <1>1 DEF PrepareObsolete, PrepareFails, SnapshotAtStartup, MakeFirstHost, ReturnEarly,
     G!CloseGate
<1>2. CASE SelectStop \/ SelectDone \/ RecoverFails \/ RestoreFails
  BY <1>2 DEF SelectStop, SelectDone, RecoverFails, RestoreFails, Return, G!CloseGate, Pause,
     G!Shut
<1>3. CASE AdmitFirstHost \/ AdmitReplacement
  BY <1>3 DEF AdmitFirstHost, AdmitReplacement, G!Open, Pause, G!Shut
<1>4. CASE Recover \/ Adopt \/ Restore
  BY <1>4 DEF Recover, Adopt, Restore, G!Open
<1>5. CASE (\E r \in Requests : Enter(r)) \/ (\E r \in Requests : Leave(r))
  BY <1>5 DEF Enter, Leave, G!Enter, G!Leave
<1>6. CASE Expire
  BY <1>6 DEF Expire, G!Expire
<1>7. CASE UNCHANGED requests
  BY <1>7
<1> QED
  BY <1>1, <1>2, <1>3, <1>4, <1>5, <1>6, <1>7 DEF RequestsChange

LEMMA RestStaysTyped == TypeOK /\ RestChange => RestTyped'
<1> SUFFICES ASSUME TypeOK, RestChange PROVE RestTyped'
  OBVIOUS
<1>0. RestTyped /\ cur.rev \in Nat /\ build.rev \in Nat
  BY DEF TypeOK, RestTyped
<1>1. /\ Trouble => left' \in [edits : 0..MaxEdits, trouble : 0..MaxTrouble]
      /\ left.edits > 0 /\ left' = [left EXCEPT !.edits = @ - 1]
         => left' \in [edits : 0..MaxEdits, trouble : 0..MaxTrouble]
  BY <1>0 DEF RestTyped, Trouble
<1> USE <1>0, <1>1 DEF RestTyped, browser, outcome
<1> HIDE DEF Trouble
<1>2. CASE PrepareObsolete \/ PrepareFails \/ SnapshotAtStartup \/ MakeFirstHost
  BY <1>2 DEF PrepareObsolete, PrepareFails, SnapshotAtStartup, MakeFirstHost, ReturnEarly
<1>3. CASE SelectStop \/ SelectDone \/ RecoverFails \/ RestoreFails
  BY <1>3 DEF SelectStop, SelectDone, RecoverFails, RestoreFails, Return
<1>4. CASE Recover \/ Look \/ Peek \/ Publish \/ SnapshotAgain \/ Start
  BY <1>4 DEF Recover, Look, Peek, Publish, SnapshotAgain, Start
<1>5. CASE Install \/ Reload \/ PublishPlan
  BY <1>5 DEF Install, Reload, PublishPlan
<1>6. CASE Adopt \/ AdoptFails \/ Failed \/ KitChanges \/ Stop
  BY <1>6 DEF Adopt, AdoptFails, Failed, KitChanges, Stop
<1>7. CASE (\E c \in Codes : Edit(c)) \/ (\E h \in HostIds : Die(h))
  <2>1. ASSUME NEW c \in Codes, Edit(c) PROVE RestTyped'
    <3>1. UNCHANGED <<reported, overlay, stop, ended>>
      BY <2>1 DEF Edit
    <3>2. left' \in [edits : 0..MaxEdits, trouble : 0..MaxTrouble]
      BY <2>1 DEF Edit
    <3> QED
      BY <3>1, <3>2
  <2>2. ASSUME NEW h \in HostIds, Die(h) PROVE RestTyped'
    BY <2>2 DEF Die
  <2> QED
    BY <1>7, <2>1, <2>2
<1>8. CASE UNCHANGED <<reported, overlay, stop, ended, left>>
  BY <1>8
<1> QED
  BY <1>2, <1>3, <1>4, <1>5, <1>6, <1>7, <1>8 DEF RestChange

LEMMA HostsStayTyped == TypeOK /\ HostsInv /\ HostsChange => HostsTyped'
<1> SUFFICES ASSUME TypeOK, HostsInv, HostsChange PROVE HostsTyped'
  OBVIOUS
<1>0. /\ HostsTyped /\ host \in [HostIds -> Hosts]
      /\ build.code \in Codes /\ good.code \in Codes
      /\ snap.dist \in Dists /\ good.dist \in Dists
  BY DEF TypeOK, HostsTyped
<1>1. /\ Absent \in Hosts /\ Running(build.code, snap.dist) \in Hosts
      /\ Running(good.code, good.dist) \in Hosts
  BY <1>0, HostsOfTheirType
<1>2. /\ InLoop => pc \in LoopPcs /\ (pc \notin InsteadOfOld => active \in HostIds)
      /\ InLoop /\ pc \in InsteadOfOld \cup BesideBuilt => replacement \in HostIds
      /\ Starting => pc \in StartupPcs /\ (pc = "made" => active \in HostIds)
  BY DEF HostsInv, LoopHasHost, StartsWithoutHost, Standing
<1>3. \A how : Return(how) => HostsTyped'
  BY <1>0, <1>1 DEF Return, HostsTyped
<1> USE <1>0, <1>1, <1>2 DEF HostsTyped, hosts, At, InLoop, Starting, InsteadOfOld, BesideBuilt,
                             LoopPcs, LoopBuilt, StartupPcs
<1>4. CASE MakeFirstHost
  <2>1. CASE UNCHANGED hosts
    BY <2>1
  <2>2. CASE /\ host' = [host EXCEPT ![FreeHost] = Running(build.code, snap.dist)]
             /\ active' = FreeHost /\ UNCHANGED <<replacement, target>>
    <3>1. \A h \in HostIds : host[h] = Absent
      BY <1>4 DEF MakeFirstHost, HostsInv, StartsWithoutHost
    <3>2. FreeHost \in HostIds
      BY <3>1, FreeHostIsFree
    <3> QED
      BY <2>2, <3>2
  <2> QED
    BY <1>4, <2>1, <2>2 DEF MakeFirstHost, ReturnEarly
<1>5. CASE AdmitFirstHost
  BY <1>5 DEF AdmitFirstHost
<1>6. CASE SelectStop \/ SelectDone \/ RecoverFails \/ RestoreFails
  BY <1>6, <1>3 DEF SelectStop, SelectDone, RecoverFails, RestoreFails
<1>7. CASE Recover \/ Restore
  <2>1. \E h \in HostIds : Alone(h) /\ GoodHostTakesOver(h)
    BY <1>7 DEF Recover, Restore, HostsInv, LoopHasHost, StartsWithoutHost, Standing
  <2>2. PICK n \in HostIds :
           /\ active' = n /\ target' = n
           /\ host' \in [HostIds -> Hosts \cup {Running(good.code, good.dist)}]
    BY <2>1, TakingOver
  <2>3. replacement' = NoHost
    BY <2>1 DEF GoodHostTakesOver
  <2>4. Hosts \cup {Running(good.code, good.dist)} = Hosts
    BY <1>1
  <2> QED
    BY <2>2, <2>3, <2>4
<1>8. CASE Install \/ Reload
  <2>1. /\ active \in HostIds /\ host[active] \in Hosts /\ UNCHANGED <<active, replacement, target>>
    BY <1>8 DEF Install, Reload
  <2>2. /\ <<"install", build.code>> \in Commands /\ <<"reload", snap.dist>> \in Commands
    BY DEF Commands
  <2>3. ASSUME NEW command \in Commands, GiveUp(command) PROVE host' \in [HostIds -> Hosts]
    <3>1. \A x \in Hosts : [x EXCEPT !.sound = FALSE, !.late = command] \in Hosts
      BY <2>3 DEF Hosts
    <3> DEFINE given == [host[active] EXCEPT !.sound = FALSE, !.late = command]
    <3>2. host' = [host EXCEPT ![active] = given]
      BY <2>1, <2>3, Zenon DEF GiveUp
    <3>3. given \in Hosts
      BY <2>1, <3>1, Zenon
    <3> HIDE DEF given
    <3> QED
      BY <2>1, <3>2, <3>3
  <2>4. Unreachable => host' \in [HostIds -> Hosts]
    <3>1. \A x \in Hosts : [x EXCEPT !.sound = FALSE] \in Hosts
      BY DEF Hosts
    <3>2. [host[active] EXCEPT !.sound = FALSE] \in Hosts
      BY <2>1, <3>1, Zenon
    <3>3. [host EXCEPT ![active] = [host[active] EXCEPT !.sound = FALSE]] \in [HostIds -> Hosts]
      BY <2>1, <3>2
    <3> QED
      BY <3>3, Zenon DEF Unreachable
  <2>5. CASE host' = [host EXCEPT ![active].runs = build.code, ![active].installed = build.code]
    BY <2>1, <2>5 DEF Hosts
  <2>6. CASE host' = [host EXCEPT ![active].dist = snap.dist, ![active].ahead = FALSE]
    BY <2>1, <2>6 DEF Hosts
  <2> QED
    BY <1>8, <2>1, <2>2, <2>3, <2>4, <2>5, <2>6 DEF Install, Reload
<1>9. CASE PublishPlan
  <2>1. active \in HostIds /\ host[active] \in Hosts
    BY <1>9 DEF PublishPlan
  <2>2. CASE host' = [host EXCEPT ![active].ahead = host[active].dist # good.dist]
    <3>1. (host[active].dist # good.dist) \in BOOLEAN
      OBVIOUS
    <3>2. \A b \in BOOLEAN : [host[active] EXCEPT !.ahead = b] \in Hosts
      BY <2>1 DEF Hosts
    <3> QED
      BY <1>9, <2>1, <2>2, <3>1, <3>2 DEF PublishPlan
  <2> QED
    BY <1>9, <2>2 DEF PublishPlan
<1>10. CASE Join
  <2>1. CASE UNCHANGED <<host, replacement>>
    BY <1>10, <2>1 DEF Join
  <2>2. CASE host' = [host EXCEPT ![FreeHost].st = "built"] /\ replacement' = FreeHost
    <3>1. \E h \in HostIds : host[h] = Absent
      BY <1>10 DEF Join, HostsInv, LoopHasHost, Alone, Standing
    <3>2. FreeHost \in HostIds
      BY <3>1, FreeHostIsFree
    <3>3. host' \in [HostIds -> Hosts]
      BY <2>2, <3>2 DEF Hosts
    <3> QED
      BY <1>10, <2>2, <3>2, <3>3 DEF Join
  <2> QED
    BY <1>10, <2>1, <2>2 DEF Join
<1>11. CASE AdmitReplacement \/ DrainInterrupted \/ StopOld
  BY <1>11 DEF AdmitReplacement, DrainInterrupted, StopOld, DropReplacement
<1>12. CASE Start \/ Adopt
  BY <1>12 DEF Start, Adopt
<1>13. ASSUME NEW h \in HostIds, Die(h) PROVE HostsTyped'
  <2>1. host' = [host EXCEPT ![h].st = "dead", ![h].late = NoCommand] /\ NoCommand \in Commands
    BY <1>13 DEF Die, Commands
  <2>2. host' \in [HostIds -> Hosts]
    BY <2>1 DEF Hosts
  <2> QED
    BY <1>13, <2>2 DEF Die
<1>14. ASSUME NEW h \in HostIds, CarryOutLate(h) PROVE HostsTyped'
  <2>1. /\ host[h].late \in Commands /\ NoCommand \in Commands /\ host[h] \in Hosts
    BY DEF Hosts, Commands
  <2>2. /\ host[h].late[1] = "install" => host[h].late[2] \in Codes
        /\ host[h].late[1] = "reload" => host[h].late[2] \in Dists
    BY <1>14, <2>1 DEF CarryOutLate, Commands
  <2>3. host' \in [HostIds -> Hosts]
    BY <1>14, <2>1, <2>2 DEF CarryOutLate, Hosts
  <2> QED
    BY <1>14, <2>3 DEF CarryOutLate
<1>15. CASE UNCHANGED hosts
  BY <1>15
<1> QED
  BY <1>4, <1>5, <1>6, <1>7, <1>8, <1>9, <1>10, <1>11, <1>12, <1>13, <1>14, <1>15
     DEF HostsChange

LEMMA NextKeepsTypes == TypeOK /\ HostsInv /\ LeasesInv /\ [Next]_vars => TypeOK'
<1> SUFFICES ASSUME TypeOK, HostsInv, LeasesInv, [Next]_vars PROVE TypeOK'
  OBVIOUS
<1>1. EveryChange
  BY WhoChanges
<1>2. /\ WorldTyped' /\ HostsTyped' /\ SeenTyped' /\ ServedTyped'
      /\ FlagsTyped' /\ RequestsTyped' /\ RestTyped'
  BY <1>1, WorldStaysTyped, HostsStayTyped, SeenStaysTyped, ServedStaysTyped, FlagsStayTyped,
     RequestsStayTyped, RestStaysTyped DEF EveryChange
<1>3. InputsTyped'
  BY NextKeepsLeases DEF TypeOK, InputsTyped
<1>4. HostsInv'
  BY NextKeepsHosts
<1>5. pc' \in StartupPcs \cup LoopPcs \cup {"done"}
  BY <1>4 DEF HostsInv, StartsWithoutHost, LoopHasHost, EndedIsEmpty, Starting, InLoop
<1> QED
  BY <1>2, <1>3, <1>5 DEF TypeOK, WorldTyped, HostsTyped, SeenTyped, ServedTyped, FlagsTyped,
     RequestsTyped, RestTyped, InputsTyped, StartupPcs, LoopPcs, LoopBuilt, Locked

(***************************************************************************)
(* The theorems.                                                           *)
(***************************************************************************)

LEMMA ServedKept == HostsInv /\ ServedInv => PublishedIsServed
BY DEF HostsInv, ServedInv, GoodIsServed, PublishedIsServed, Answers, Reachable, Idle, InLoop,
   InsteadOfOld

LEMMA InitServed == Init => ServedInv
BY AbsentIsExact DEF Init, ServedInv, SoundIsExact, NewHostServesBuild, InPlaceServesBuild,
   GoodIsServed, Starting, InLoop

(***************************************************************************)
(* No edit is forgotten.  A build in hand is of the current revision unless *)
(* an event says otherwise; the loop keeps that there was an edit until it  *)
(* published it; and it comes to rest only when nothing is left to say.     *)
(***************************************************************************)

Remembered == good.rev = cur.rev \/ changes \/ reported >= cur.rev

WorkInv ==
  InLoop =>
    /\ flags.goChanged \/ Remembered
    /\ pc \in {"top", "select", "recover"} =>
         Remembered \/ (pc = "top" /\ flags.pending)
    /\ pc \in LoopBuilt \cup {"preparing"} => Current \/ changes
    /\ pc \in Locked => Current

LEMMA NextKeepsWork ==
  ASSUME TypeOK, HostsInv, WorkInv, [Next]_vars
  PROVE  WorkInv'
<1>0. /\ cur.rev \in Nat /\ build.rev \in Nat /\ reported \in Nat
      /\ cur \in [rev : Nat, code : Codes, routes : RouteSets]
      /\ flags \in [pending : BOOLEAN, goChanged : BOOLEAN, dirty : BOOLEAN]
      /\ good \in [rev : Nat, code : Codes, dist : Dists]
      /\ InLoop => pc \in LoopPcs
  BY DEF TypeOK, HostsInv, LoopHasHost
<1> USE <1>0 DEF WorkInv, Remembered, InLoop, Current, LoopBuilt, LoopPcs, Locked, At, Goto,
            vars, world, hosts, loop, served, inputs, requests, browser, outcome
<1>1. CASE BeginPrepare \/ Prepared \/ PrepareObsolete \/ PrepareFails
  BY <1>1 DEF BeginPrepare, Prepared, PrepareObsolete, PrepareFails, ReturnEarly
<1>2. CASE CommitStartup \/ SnapshotAtStartup \/ ObserveAtStartup \/ MakeFirstHost
  BY <1>2 DEF CommitStartup, SnapshotAtStartup, ObserveAtStartup, MakeFirstHost,
     ReturnEarly
<1>3. CASE AdmitFirstHost
  BY <1>3 DEF AdmitFirstHost
<1>4. CASE Sweep \/ SelectStop \/ SelectChanges \/ SelectTick \/ SelectDone
  BY <1>4 DEF Sweep, SelectStop, SelectChanges, SelectTick, SelectDone, Return
<1>5. CASE Recover \/ RecoverFails
  BY <1>5 DEF Recover, RecoverFails, Return
<1>6. CASE Again \/ Peek \/ Classify
  BY <1>6 DEF Again, Peek, Classify
<1>7. CASE Look
  <2>1. flags'.goChanged = flags.goChanged /\ pc' \in {"peek", "prepare"}
    BY <1>7 DEF Look
  <2> QED
    BY <1>7, <2>1 DEF Look
<1>8. CASE Weigh
  BY <1>8 DEF Weigh, ObserveRoutes
<1>9. CASE Admit \/ Install \/ Reload
  BY <1>9 DEF Admit, Install, Reload
<1>10. CASE PublishPlan
  BY <1>10 DEF PublishPlan
<1>11. CASE Publish \/ SnapshotAgain \/ Join \/ AdmitReplacement
  BY <1>11 DEF Publish, SnapshotAgain, Join, AdmitReplacement
<1>12. CASE ObserveAgain
  BY <1>12 DEF ObserveAgain, ObserveRoutes
<1>13. CASE StopOld \/ DrainInterrupted \/ Start \/ AdoptFails
  BY <1>13 DEF StopOld, DrainInterrupted, Start, AdoptFails
<1>14. CASE Adopt
  BY <1>14 DEF Adopt
<1>15. CASE Restore \/ RestoreFails
  BY <1>15 DEF Restore, RestoreFails, Return
<1>16. CASE Failed \/ Obsolete
  BY <1>16 DEF Failed, Obsolete
<1>17. ASSUME NEW c \in Codes, Edit(c) PROVE WorkInv'
  BY <1>17 DEF Edit
<1>18. CASE KitChanges \/ Stop \/ Expire
  BY <1>18 DEF KitChanges, Stop, Expire, Around
<1>19. ASSUME NEW h \in HostIds, Die(h) \/ CarryOutLate(h) PROVE WorkInv'
  BY <1>19 DEF Die, CarryOutLate
<1>20. ASSUME NEW r \in Requests, Enter(r) \/ Leave(r) PROVE WorkInv'
  BY <1>20 DEF Enter, Leave, Around
<1>21. CASE UNCHANGED vars
  BY <1>21
<1> QED
  BY <1>1, <1>2, <1>3, <1>4, <1>5, <1>6, <1>7, <1>8, <1>9, <1>10, <1>11, <1>12,
     <1>13, <1>14, <1>15, <1>16, <1>17, <1>18, <1>19, <1>20, <1>21
     DEF Next, Environment, Session, Startup, Wait, Weighing, InPlace, Replace

SessionInv == TypeOK /\ HostsInv /\ LeasesInv /\ ServedInv /\ WorkInv

\* The inductive invariant of the session.
LEMMA SessionKept == Spec => []SessionInv
<1>1. Init => SessionInv
  <2>1. Init => WorkInv
    BY DEF Init, WorkInv, InLoop
  <2> QED
    BY <2>1, InitTypes, InitHosts, InitLeases, InitServed DEF SessionInv
<1>2. SessionInv /\ [Next]_vars => SessionInv'
  <2> SUFFICES ASSUME SessionInv, [Next]_vars PROVE SessionInv'
    OBVIOUS
  <2>1. TypeOK /\ HostsInv /\ LeasesInv /\ ServedInv /\ WorkInv
    BY DEF SessionInv
  <2>2. TypeOK' /\ HostsInv' /\ ServedInv' /\ WorkInv'
    BY <2>1, NextKeepsTypes, NextKeepsHosts, NextKeepsServed, NextKeepsWork
  <2>3. LeasesInv'
    BY <2>1, NextKeepsLeases DEF TypeOK, InputsTyped
  <2> QED
    BY <2>2, <2>3 DEF SessionInv
<1> QED
  BY <1>1, <1>2, PTL DEF Spec

\* Every variable of the session keeps its type, and a loop that is at an await
\* of the loop has the host, the inputs and the gate it relies on there.
THEOREM SessionIsWellTyped == Spec => []TypeOK
<1>1. SessionInv => TypeOK
  BY DEF SessionInv
<1> QED
  BY <1>1, SessionKept, PTL

\* For any source, faults, requests and failures: no two hosts run at once, a
\* request is dispatched to the host that stays the target until it is answered,
\* and the gate is open only in front of a host that was not stopped.
THEOREM OneHostAtATime == Spec => []OneHostAnswers
<1>1. SessionInv => OneHostAnswers
  BY HostsKept DEF SessionInv
<1> QED
  BY <1>1, SessionKept, PTL

\* For any source, faults and failures: the compiler inputs that something can
\* still be made from are there, and an idle loop has kept no others.
THEOREM InputsAreKeptExactly == Spec => []LeasesExact
<1>1. SessionInv => LeasesExact
  BY LeasesKept DEF SessionInv
<1> QED
  BY <1>1, SessionKept, PTL

\* For any source, faults and failures: whenever the loop waits with no error
\* shown, a host whose control stream is in order runs the published code, over
\* the published output unless a publication failed after the host was reloaded.
THEOREM TheHostServesWhatWasPublished == Spec => []PublishedIsServed
<1>1. SessionInv => PublishedIsServed
  BY ServedKept DEF SessionInv
<1> QED
  BY <1>1, SessionKept, PTL

\* For any source, faults and failures, wherever an edit falls between two steps
\* of the loop: a loop that waits has published or reported the last edit, or an
\* event that wakes it is there.
THEOREM EditsAreNotForgotten == Spec => []NoEditForgotten
<1>1. SessionInv => NoEditForgotten
  BY DEF SessionInv, WorkInv, Remembered, NoEditForgotten, Idle, InLoop
<1> QED
  BY <1>1, SessionKept, PTL

=============================================================================
