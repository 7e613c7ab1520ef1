---------------------- MODULE ProjectRevisions_proofs ----------------------
(***************************************************************************)
(* Proofs about ProjectRevisions, for any number of calls, keys and        *)
(* revisions: who a generation is shared by, and what a call builds from.  *)
(***************************************************************************)
EXTENDS ProjectRevisions, TLAPS

Active == {"queued", "working", "leaving"}
Using  == {"get", "wait", "left"}

(***************************************************************************)
(* The inductive invariant, in the parts the code keeps separate.          *)
(***************************************************************************)

\* A context is made by the revision that first had its key, and is cancelled
\* only when a later revision replaced it or the project closed.
Lives ==
    /\ \A i \in 1..Len(snaps) : snaps[i].life \in 1..i
    /\ dead \subseteq 1..Len(snaps)
    /\ snaps[Current].life \in dead => closed

\* What each step of a call knows.
Steady ==
    \A c \in Calls :
        /\ call[c].step \in Using \cup {"made", "built", "committed"}
              => call[c].of \in 1..Len(snaps)
        /\ call[c].of # None => call[c].of \in 1..Len(snaps)
        /\ call[c].step \in Using => call[c].future \in Calls
        /\ call[c].step = "wait" => call[c].run \in Calls
        /\ call[c].step \in {"idle", "get"} => runs[c].stage = "unused"
        /\ call[c].step \in Using \cup {"idle"} => call[c].outcome = "none"

\* A run counts exactly the calls that wait for it; one that is not over
\* belongs to its future unless its last waiter stopped it.
Shared ==
    \A r \in Calls :
        /\ runs[r].waiters = Waiting(r)
        /\ runs[r].stopped => Waiting(r) = {}
        /\ runs[r].stage = "unused" => Waiting(r) = {} /\ ~runs[r].stopped
        /\ runs[r].stage \in Active =>
              /\ runs[r].future \in Calls /\ runs[r].key \in Keys
              /\ ~runs[r].stopped => running[runs[r].future] = r
        /\ \A c \in Waiting(r) :
              \/ runs[r].stage \in Active /\ runs[r].future = call[c].future
              \/ runs[r].stage = "over" /\ memo[call[c].future] # None

Owned ==
    \A f \in Calls : running[f] # None =>
        LET r == running[f] IN
        /\ runs[r].stage \in Active /\ runs[r].future = f
        /\ ~runs[r].stopped /\ Waiting(r) # {}

\* A name no call has used yet names nothing.
Fresh ==
    \A f \in Calls : call[f].step = "idle" =>
        /\ memo[f] = None /\ running[f] = None
        /\ \A k \in Keys : pending[k] # f
        /\ \A c \in Calls : /\ call[c].step \in Using => call[c].future # f
                            /\ runs[c].stage \in Active => runs[c].future # f

\* A future, its run and its result are of one key, that of its callers.
OneKey ==
    \A c \in Calls : call[c].step \in Using =>
        LET k == Snap(c).key
            f == call[c].future
        IN  /\ memo[f] \in {None, k, "failed"}
            /\ \A j \in Keys : pending[j] = f => j = k
            /\ \A d \in Calls : call[d].step \in Using /\ call[d].future = f
                                   => Snap(d).key = k
            /\ \A r \in Calls : runs[r].stage \in Active /\ runs[r].future = f
                                   => runs[r].key = k

Leaving ==
    \A r \in Calls : runs[r].stage = "leaving" =>
        runs[r].value \in {runs[r].key, "failed"}

\* What get gave a call, and why.
Got ==
    \A c \in Calls :
        /\ call[c].got # "zero"
        /\ call[c].outcome = "canceled" => call[c].gaveUp
        /\ call[c].step = "left" =>
              \/ call[c].got \in {Snap(c).key, "failed"}
              \/ call[c].got = "canceled"
                 /\ (call[c].gaveUp \/ Snap(c).life \in dead)
        /\ call[c].step \in {"made", "built", "committed"} =>
              call[c].got = Snap(c).key

Diagnosed == diagnostic # None => diagnostic = Current

Inv ==
    /\ TypeOK /\ Lives /\ Steady /\ Shared /\ Owned /\ Fresh /\ OneKey
    /\ Leaving /\ Got /\ PendingIsWanted /\ Diagnosed

LEMMA RecordTypes ==
  ASSUME TypeOK
  PROVE  /\ NewRun \in Run /\ NewCall \in Call
         /\ \A c \in Calls, o \in Outcomes : Over(c, o) \in Call
<1>1. NewRun \in Run /\ NewCall \in Call
  BY DEF NewRun, NewCall, Run, Call, Stages, Steps, Outcomes
<1>2. ASSUME NEW c \in Calls, NEW o \in Outcomes PROVE Over(c, o) \in Call
  <2>1. call[c] \in Call
    BY DEF TypeOK
  <2>2. (o = "canceled" /\ call[c].gaveUp) \in BOOLEAN
    OBVIOUS
  <2>3. (IF o = "failed" THEN call[c].of ELSE None) \in Revisions \cup {None}
    BY <2>1 DEF Call
  <2>4. ASSUME NEW gaveUp \in BOOLEAN, NEW of \in Revisions \cup {None}
        PROVE  [NewCall EXCEPT !.step = "returned", !.outcome = o,
                               !.gaveUp = gaveUp, !.of = of] \in Call
    BY DEF NewCall, Call, Steps, Outcomes
  <2> QED
    BY <2>2, <2>3, <2>4 DEF Over
<1> QED
  BY <1>1, <1>2

\* An earlier snapshot stays what it was.
LEMMA Admitting ==
  ASSUME Inv, NEW k \in Keys, NEW b \in BOOLEAN, Admit(k, b)
  PROVE  /\ Len(snaps') = Len(snaps) + 1 /\ Len(snaps) \in Nat \ {0}
         /\ \A i \in 1..Len(snaps) : snaps'[i] = snaps[i] /\ snaps[i] \in Contents
         /\ snaps'[Len(snaps) + 1].key = k
         /\ \/ /\ snaps'[Len(snaps) + 1].life = snaps[Len(snaps)].life
               /\ dead' = dead
            \/ /\ snaps'[Len(snaps) + 1].life = Len(snaps) + 1
               /\ dead' = dead \cup {snaps[Len(snaps)].life}
         /\ snaps'[Len(snaps) + 1] \in Contents
         /\ ~closed
<1>1. /\ Len(snaps) \in Revisions /\ snaps \in Seq(Contents)
      /\ Len(snaps) < MaxRevisions
  BY DEF Inv, TypeOK, Admit, Current
<1>2. Len(snaps) \in Nat \ {0}
  BY <1>1, ConstantsAssumption DEF Revisions
<1>3. \A i \in 1..Len(snaps) : snaps[i] \in Contents
  BY <1>1
<1> DEFINE s == [key |-> k, life |-> IF k = snaps[Len(snaps)].key
                                     THEN snaps[Len(snaps)].life
                                     ELSE Len(snaps) + 1]
<1>4. snaps' = Append(snaps, s)
  BY DEF Admit, Current
<1>5. s.life \in Revisions
  BY <1>1, <1>2, <1>3, ConstantsAssumption DEF Contents, Revisions
<1>6. s \in Contents
  BY <1>5 DEF Contents
<1> HIDE DEF s
<1>7. Len(snaps') = Len(snaps) + 1 /\ snaps'[Len(snaps) + 1] = s
       /\ \A i \in 1..Len(snaps) : snaps'[i] = snaps[i]
  BY <1>1, <1>4, <1>6
<1> QED
  BY <1>2, <1>3, <1>6, <1>7 DEF Admit, Current, s

LEMMA AdmitStep ==
  ASSUME Inv, NEW k \in Keys, NEW b \in BOOLEAN, Admit(k, b)
  PROVE  Inv'
<1> USE Admitting
<1>1. TypeOK'
  <2>1. snaps' \in Seq(Contents) /\ Len(snaps') \in Revisions
    <3>1. snaps \in Seq(Contents) /\ Len(snaps) \in Revisions /\ Len(snaps) < MaxRevisions
      BY DEF Inv, TypeOK, Admit, Current
    <3>2. \E s : snaps' = Append(snaps, s)
      BY DEF Admit
    <3> QED
      BY <3>1, <3>2, ConstantsAssumption DEF Revisions
  <2>2. dead' \subseteq Revisions
    BY DEF Inv, TypeOK, Contents
  <2> QED
    BY <2>1, <2>2 DEF Inv, TypeOK, Admit
<1>2. Lives'
  <2>1. \A i \in 1..Len(snaps') : snaps'[i].life \in 1..i
    <3>1. snaps[Len(snaps)].life \in 1..Len(snaps)
      BY DEF Inv, Lives
    <3>2. snaps'[Len(snaps) + 1].life \in 1..(Len(snaps) + 1)
      BY <3>1
    <3> QED
      BY <3>2 DEF Inv, Lives
  <2>0. dead' \subseteq 1..Len(snaps')
    <3>1. snaps[Len(snaps)].life \in 1..Len(snaps)
      BY DEF Inv, Lives
    <3>2. dead \subseteq 1..Len(snaps)
      BY DEF Inv, Lives
    <3>3. dead' \subseteq dead \cup {snaps[Len(snaps)].life}
      OBVIOUS
    <3> QED
      BY <3>1, <3>2, <3>3
  <2>2. snaps'[Len(snaps')].life \notin dead'
    BY DEF Inv, Lives, Current
  <2> QED
    BY <2>0, <2>1, <2>2 DEF Lives, Current
<1>3. Steady'
  BY DEF Inv, Steady, Admit
<1>4. Shared' /\ Owned' /\ Fresh' /\ Leaving' /\ PendingIsWanted'
  BY DEF Inv, Shared, Owned, Fresh, Leaving, PendingIsWanted, Waiting, Admit
<1>5. \A c \in Calls : call[c].of # None => Snap(c)' = Snap(c)
  BY DEF Inv, Steady, Snap, Admit
<1>6. OneKey'
  BY <1>5, ConstantsAssumption DEF Inv, OneKey, Steady, Admit, Using
<1>7. Got'
  <2>1. \A c \in Calls : call[c].step \in {"left", "made", "built", "committed"}
                              => Snap(c)' = Snap(c)
    BY <1>5, ConstantsAssumption DEF Inv, Steady, Using
  <2>2. dead \subseteq dead'
    OBVIOUS
  <2> QED
    BY <2>1, <2>2 DEF Inv, Got, Admit
<1>8. Diagnosed'
  BY DEF Admit, Diagnosed
<1> QED
  BY <1>1, <1>2, <1>3, <1>4, <1>6, <1>7, <1>8 DEF Inv

LEMMA CloseStep ==
  ASSUME Inv, Close
  PROVE  Inv'
<1>1. snaps[Current] \in Contents /\ Len(snaps) \in Nat \ {0}
  BY ConstantsAssumption DEF Inv, TypeOK, Current, Revisions
<1>2. TypeOK'
  BY <1>1 DEF Inv, TypeOK, Close, Contents
<1>3. Lives'
  <2>1. snaps[Len(snaps)].life \in 1..Len(snaps)
    BY <1>1 DEF Inv, Lives
  <2> QED
    BY <2>1 DEF Inv, Lives, Close, Current
<1>4. Steady' /\ Shared' /\ Owned' /\ Fresh' /\ OneKey' /\ Leaving'
      /\ PendingIsWanted' /\ Diagnosed'
  BY DEF Inv, Steady, Shared, Owned, Fresh, OneKey, Leaving, PendingIsWanted,
         Diagnosed, Waiting, Snap, Current, Close
<1>5. Got'
  BY DEF Inv, Got, Snap, Close
<1> QED
  BY <1>2, <1>3, <1>4, <1>5 DEF Inv

\* The goroutine of a run: the calls and their contexts stay as they are.
LEMMA RunSteps ==
  ASSUME Inv, NEW r \in Calls, Analyse(r) \/ \E ok \in BOOLEAN : Generate(r, ok)
  PROVE  Inv'
<1>1. /\ runs[r].stage \in {"queued", "working"}
      /\ runs[r] \in Run /\ runs[r].key \in Keys
      /\ \E stage \in {"working", "leaving"}, value \in Results \cup {None} :
            /\ runs' = [runs EXCEPT ![r].stage = stage, ![r].value = value]
            /\ stage = "leaving" => value \in {runs[r].key, "failed"}
      /\ analysing' \in {None, r} /\ plans' \in Keys \cup {None}
      /\ UNCHANGED <<project, diagnostic, pending, memo, running, call>>
  <2>1. runs[r].stage \in Active => runs[r] \in Run /\ runs[r].key \in Keys
    BY DEF Inv, TypeOK, Shared
  <2>2. CASE Analyse(r)
    <3>1. runs[r].stage \in Active
      BY <2>2 DEF Analyse, Active
    <3> QED
      BY <2>1, <2>2, <3>1, ConstantsAssumption
      DEF Analyse, Results, project, Inv, TypeOK
  <2>3. ASSUME NEW ok \in BOOLEAN, Generate(r, ok) PROVE <1>1!:
    <3>1. runs[r].stage \in Active
      BY <2>3 DEF Generate, Active
    <3> QED
      BY <2>1, <2>3, <3>1 DEF Generate, Results, project, Inv, TypeOK
  <2> QED
    BY <2>2, <2>3
<1>2. PICK stage \in {"working", "leaving"}, value \in Results \cup {None} :
        /\ runs' = [runs EXCEPT ![r].stage = stage, ![r].value = value]
        /\ stage = "leaving" => value \in {runs[r].key, "failed"}
  BY <1>1
<1>u. UNCHANGED <<snaps, broken, dead, closed, diagnostic, pending, memo,
                  running, call>>
  BY <1>1 DEF project
<1>3. TypeOK'
  <2>1. [runs[r] EXCEPT !.stage = stage, !.value = value] \in Run
    BY <1>1 DEF Run, Stages
  <2>2. runs' = [runs EXCEPT ![r] = [runs[r] EXCEPT !.stage = stage,
                                                   !.value = value]]
    BY <1>2 DEF Inv, TypeOK
  <2> QED
    BY <1>1, <2>1, <2>2 DEF Inv, TypeOK, project
<1>4. \A q \in Calls :
        /\ runs'[q].waiters = runs[q].waiters
        /\ runs'[q].stopped = runs[q].stopped
        /\ runs'[q].future = runs[q].future
        /\ runs'[q].key = runs[q].key
        /\ runs'[q].stage \in Active <=> runs[q].stage \in Active
        /\ runs'[q].stage = "unused" <=> runs[q].stage = "unused"
        /\ runs'[q].stage = "over" <=> runs[q].stage = "over"
  BY <1>1, <1>2 DEF Inv, TypeOK, Run, Active
<1>5. Shared' /\ Owned'
  <2>1. \A q \in Calls : Waiting(q)' = Waiting(q)
    BY <1>1 DEF Waiting
  <2> QED
    <3>1. Owned'
      <4>1. \A f \in Calls : running[f] # None => running[f] \in Calls
        BY DEF Inv, TypeOK
      <4>2. running' = running
        BY <1>u
      <4> QED
        BY <1>4, <2>1, <4>1, <4>2 DEF Inv, Owned
    <3>2. ASSUME NEW q \in Calls, NEW c \in Waiting(q)
          PROVE  \/ runs'[q].stage \in Active /\ runs'[q].future = call'[c].future
                 \/ runs'[q].stage = "over" /\ memo'[call'[c].future] # None
      BY <1>u, <1>4 DEF Inv, Shared
    <3> QED
      BY <1>u, <1>4, <2>1, <3>1, <3>2 DEF Inv, Shared
<1>6. Fresh' /\ OneKey'
  BY <1>u, <1>4 DEF Inv, Fresh, OneKey, Snap
<1>7. Leaving'
  BY <1>1, <1>2, <1>4 DEF Inv, TypeOK, Run, Leaving
<1>8. Lives' /\ Steady' /\ Got' /\ PendingIsWanted' /\ Diagnosed'
  BY <1>u, <1>4 DEF Inv, Lives, Steady, Got, PendingIsWanted, Diagnosed, Snap,
                    Current
<1> QED
  BY <1>3, <1>5, <1>6, <1>7, <1>8 DEF Inv

LEMMA FinishStep ==
  ASSUME Inv, NEW r \in Calls, Finish(r)
  PROVE  Inv'
<1> DEFINE f == runs[r].future
           over == [NewRun EXCEPT !.stage = "over", !.waiters = runs[r].waiters,
                                  !.stopped = runs[r].stopped]
<1>1. /\ runs[r] \in Run /\ f \in Calls
      /\ runs[r].value \in {runs[r].key, "failed"} /\ runs[r].key \in Keys
      /\ ~runs[r].stopped => running[f] = r
  BY DEF Inv, TypeOK, Shared, Leaving, Finish, Active
<1>2. /\ runs' = [runs EXCEPT ![r] = over]
      /\ memo' = IF ~runs[r].stopped THEN [memo EXCEPT ![f] = runs[r].value]
                 ELSE memo
      /\ running' = IF running[f] = r THEN [running EXCEPT ![f] = None]
                    ELSE running
      /\ UNCHANGED <<project, diagnostic, plans, pending, analysing, call>>
  BY <1>1 DEF Finish
<1>3. /\ over.stage = "over" /\ over.waiters = runs[r].waiters
      /\ over.stopped = runs[r].stopped /\ over \in Run
  BY <1>1 DEF NewRun, Run, Stages
<1> HIDE DEF over, f
<1>4. TypeOK'
  BY <1>1, <1>2, <1>3 DEF Inv, TypeOK, project, Results
<1>5. \A q \in Calls : Waiting(q)' = Waiting(q)
  BY <1>2 DEF Waiting
<1>6. \A q \in Calls : q # r => runs'[q] = runs[q]
  BY <1>2 DEF Inv, TypeOK
<1>7. runs'[r] = over
  BY <1>2 DEF Inv, TypeOK
<1>8. \A g \in Calls : /\ memo[g] # None => memo'[g] # None
                       /\ memo'[g] # memo[g] => g = f
                       /\ running[g] # r => running'[g] = running[g]
                       /\ running[g] = r => g = f /\ running'[g] = None
  <2>1. runs[r].value # None
    BY <1>1, ConstantsAssumption DEF NoPlan
  <2>2. \A g \in Calls : running[g] = r => g = f
    BY ConstantsAssumption DEF Inv, Owned, f
  <2> QED
    BY <1>1, <1>2, <2>1, <2>2 DEF Inv, TypeOK
<1>9. Shared'
  <2>1. ASSUME NEW q \in Calls, q # r
        PROVE  /\ runs'[q].stage \in Active /\ ~runs'[q].stopped
                    => running'[runs'[q].future] = q
               /\ \A c \in Waiting(q) :
                    \/ runs'[q].stage \in Active /\ runs'[q].future = call[c].future
                    \/ runs'[q].stage = "over" /\ memo'[call[c].future] # None
    BY <1>6, <1>8, <2>1 DEF Inv, Shared, Steady, Waiting, Using
  <2>2. \A c \in Waiting(r) : memo'[call[c].future] # None
    <3>1. \A c \in Waiting(r) : call[c].future = f /\ ~runs[r].stopped
      BY DEF Inv, Shared, Finish, f
    <3>2. runs[r].value # None
      BY <1>1, ConstantsAssumption DEF NoPlan
    <3> QED
      BY <1>1, <1>2, <3>1, <3>2 DEF Inv, TypeOK
  <2> QED
    BY <1>2, <1>3, <1>5, <1>6, <1>7, <2>1, <2>2 DEF Inv, Shared, Finish, Active
<1>10. Owned'
  <2>1. \A g \in Calls : running'[g] # None => running'[g] = running[g]
                                                /\ running[g] \in Calls \ {r}
    BY <1>8 DEF Inv, TypeOK
  <2> QED
    BY <1>5, <1>6, <2>1 DEF Inv, Owned
<1>11. Fresh'
  <2>1. call[f].step # "idle"
    BY <1>1 DEF Inv, Fresh, Finish, Active, f
  <2> QED
    BY <1>2, <1>3, <1>6, <1>7, <1>8, <2>1 DEF Inv, Fresh, Active
<1>12. OneKey'
  <2>1. \A c \in Calls : call[c].step \in Using /\ call[c].future = f
                            => Snap(c).key = runs[r].key
    BY <1>1 DEF Inv, OneKey, Finish, Active, f
  <2>2. \A c \in Calls : Snap(c)' = Snap(c)
    BY <1>2 DEF Snap, project
  <2>3. \A c \in Calls : call[c].step \in Using
           => memo'[call[c].future] \in {None, Snap(c).key, "failed"}
    BY <1>1, <1>2, <1>8, <2>1 DEF Inv, OneKey, Steady, TypeOK
  <2>4. \A q \in Calls : runs'[q].stage \in Active
                            => runs[q].stage \in Active /\ runs'[q] = runs[q]
    BY <1>3, <1>6, <1>7 DEF Active
  <2> QED
    BY <1>2, <2>2, <2>3, <2>4 DEF Inv, OneKey
<1>13. Leaving'
  BY <1>3, <1>6, <1>7 DEF Inv, Leaving
<1>14. Steady'
  BY <1>2, <1>3, <1>6, <1>7 DEF Inv, Steady, Finish, project
<1>15. Lives' /\ Got' /\ PendingIsWanted' /\ Diagnosed'
  BY <1>2 DEF Inv, Lives, Got, PendingIsWanted, Diagnosed, Snap, Current,
     project
<1> QED
  BY <1>4, <1>9, <1>10, <1>11, <1>12, <1>13, <1>14, <1>15 DEF Inv

\* A call that neither waits nor comes to wait moves on; futures may be
\* forgotten.
LEMMA CallMoves ==
  ASSUME Inv, NEW c \in Calls, NEW x \in Call,
         call' = [call EXCEPT ![c] = x],
         call[c].step # "wait",
         x.step \in {"made", "built", "committed", "returned"},
         x.of # None \/ x.step # "returned" => x.of \in 1..Len(snaps),
         \A k \in Keys : pending'[k] \in {None, pending[k]},
         UNCHANGED <<snaps, broken, dead, closed, memo, running, runs>>
  PROVE  Lives' /\ Steady' /\ Shared' /\ Owned' /\ Fresh' /\ OneKey' /\ Leaving'
<1>1. /\ call'[c] = x
      /\ \A d \in Calls : d # c => call'[d] = call[d]
  BY DEF Inv, TypeOK
<1>2. \A q \in Calls : Waiting(q)' = Waiting(q)
  BY <1>1 DEF Waiting
<1>3. \A d \in Calls : call'[d].step \in Using \cup {"idle"}
         => d # c /\ call'[d] = call[d] /\ Snap(d)' = Snap(d)
  BY <1>1 DEF Using, Snap
<1>4. Lives' /\ Leaving'
  BY DEF Inv, Lives, Leaving, Current
<1>5. Steady'
  BY <1>1 DEF Inv, Steady, Using
<1>6. Shared'
  <2>1. ASSUME NEW q \in Calls, NEW d \in Waiting(q) PROVE call'[d] = call[d]
    BY <1>1 DEF Waiting
  <2> QED
    BY <1>2, <2>1 DEF Inv, Shared
<1>7. Owned'
  <2>1. \A f \in Calls : running[f] # None => running[f] \in Calls
    BY DEF Inv, TypeOK
  <2> QED
    BY <1>2, <2>1 DEF Inv, Owned
<1>8. Fresh'
  BY <1>3, ConstantsAssumption DEF Inv, Fresh
<1>9. OneKey'
  <2>1. \A d \in Calls : call[d].step \in Using => call[d].future # None
    BY ConstantsAssumption DEF Inv, Steady
  <2> QED
    BY <1>3, <2>1 DEF Inv, OneKey
<1> QED
  BY <1>4, <1>5, <1>6, <1>7, <1>8, <1>9

\* A future that is forgotten is finished; the others keep a call that uses
\* them.
LEMMA MaterializeStep ==
  ASSUME Inv, NEW c \in Calls, NEW ok \in BOOLEAN, Materialize(c, ok)
  PROVE  Inv'
<1> DEFINE x == call'[c]
<1>1. /\ call[c] \in Call /\ call[c].step = "left" /\ call[c].of \in 1..Len(snaps)
      /\ call[c].future \in Calls
  BY DEF Inv, TypeOK, Steady, Materialize, Using
<1>2. /\ call' = [call EXCEPT ![c] = x] /\ x \in Call
      /\ x.step \in {"made", "returned"}
      /\ x.of # None \/ x.step # "returned" => x.of = call[c].of
      /\ x.step = "made" => x = [call[c] EXCEPT !.step = "made"]
                            /\ call[c].got \notin {"canceled", "failed"}
      /\ x.step = "returned" =>
            /\ x.got = None
            /\ x.outcome = "canceled" => /\ x.gaveUp <=> call[c].gaveUp
                                         /\ call[c].got = "canceled"
                                         /\ IsCurrent(c)
  <2>1. ASSUME NEW o \in {"obsolete", "canceled", "failed"},
               call' = [call EXCEPT ![c] = Over(c, o)],
               o = "canceled" => call[c].got = "canceled" /\ IsCurrent(c)
        PROVE  <1>2!:
    <3>1. Over(c, o) \in Call
      BY RecordTypes DEF Inv, Outcomes
    <3>2. x = Over(c, o)
      BY <2>1 DEF Inv, TypeOK
    <3>3. /\ x.step = "returned" /\ x.got = None /\ x.outcome = o
          /\ x.of \in {None, call[c].of}
      BY <3>2 DEF Over, NewCall
    <3>4. o = "canceled" => (x.gaveUp <=> call[c].gaveUp)
      BY <3>2 DEF Over, NewCall
    <3> QED
      BY <2>1, <3>1, <3>2, <3>3, <3>4
  <2>2. ASSUME call' = [call EXCEPT ![c].step = "made"],
               call[c].got \notin {"canceled", "failed"}
        PROVE  <1>2!:
    <3>1. x = [call[c] EXCEPT !.step = "made"]
      BY <2>2 DEF Inv, TypeOK
    <3> QED
      BY <1>1, <2>2, <3>1 DEF Inv, TypeOK, Call, Steps
  <2> QED
    BY <2>1, <2>2 DEF Materialize
<1> HIDE DEF x
<1>3. /\ pending' = Forget(c)
      /\ UNCHANGED <<snaps, broken, dead, closed, diagnostic, plans, analysing,
                     memo, running, runs>>
  BY DEF Materialize, project
<1>4. pending' \in [Keys -> Calls \cup {None}]
      /\ \A k \in Keys : pending'[k] \in {None, pending[k]}
  BY <1>3 DEF Inv, TypeOK, Forget
<1>5. Lives' /\ Steady' /\ Shared' /\ Owned' /\ Fresh' /\ OneKey' /\ Leaving'
  BY <1>1, <1>2, <1>3, <1>4, CallMoves
<1>6. TypeOK'
  BY <1>2, <1>3, <1>4 DEF Inv, TypeOK
<1>7. \A d \in Calls : d # c => call'[d] = call[d] /\ Snap(d)' = Snap(d)
  BY <1>2, <1>3 DEF Inv, TypeOK, Snap
<1>8. Got'
  <2>1. x.outcome = "canceled" => x.gaveUp
    <3>1. CASE x.step = "made"
      <4>1. x.outcome = call[c].outcome /\ x.gaveUp = call[c].gaveUp
        BY <1>1, <1>2, <3>1 DEF Call
      <4> QED
        BY <4>1 DEF Inv, Got
    <3>2. CASE x.step = "returned" /\ x.outcome = "canceled"
      <4>1. IsCurrent(c) /\ call[c].got = "canceled" /\ (x.gaveUp <=> call[c].gaveUp)
        BY <1>2, <3>2
      <4>2. call[c].gaveUp \/ Snap(c).life \in dead
        <5>1. Snap(c).key \in Keys
          <6>1. snaps \in Seq(Contents)
            BY DEF Inv, TypeOK
          <6>2. Snap(c) \in Contents
            BY <1>1, <6>1 DEF Snap
          <6> QED
            BY <6>2 DEF Contents
        <5>2. call[c].got \notin {Snap(c).key, "failed"}
          BY <4>1, <5>1, ConstantsAssumption DEF NoPlan
        <5> QED
          BY <1>1, <5>2 DEF Inv, Got
      <4>3. Snap(c).life \notin dead
        BY <4>1 DEF IsCurrent, Snap, Inv, Lives
      <4> QED
        BY <4>1, <4>2, <4>3
    <3> QED
      BY <1>2, <3>1, <3>2
  <2>2. x.got # "zero"
    BY <1>1, <1>2, ConstantsAssumption DEF Inv, Got, Call, NoPlan
  <2>3. x.step = "made" => x.got = Snap(c)'.key
    <3>1. ASSUME x.step = "made" PROVE x.got = call[c].got /\ x.of = call[c].of
      BY <1>1, <1>2, <3>1 DEF Call
    <3> QED
      BY <1>1, <1>2, <1>3, <3>1 DEF Inv, Got, Snap, x
  <2> QED
    BY <1>2, <1>7, <2>1, <2>2, <2>3, <1>3 DEF Inv, Got, x
<1>9. PendingIsWanted'
  <2> SUFFICES ASSUME NEW k \in Keys, pending'[k] # None
               PROVE  \E d \in Calls : /\ call'[d].step \in Using
                                       /\ call'[d].future = pending'[k]
    BY DEF PendingIsWanted, Using
  <2>1. pending'[k] = pending[k]
    BY <1>4
  <2>2. PICK d \in Calls : call[d].step \in Using /\ call[d].future = pending[k]
    BY <2>1 DEF Inv, PendingIsWanted, Using
  <2>3. CASE d # c
    BY <1>7, <2>1, <2>2, <2>3
  <2>4. CASE d = c
    <3>1. k = Snap(c).key
      BY <2>2, <2>4 DEF Inv, OneKey
    <3>2. running[call[c].future] # None
      BY <1>3, <2>1, <2>2, <2>4, <3>1 DEF Forget, Inv, TypeOK
    <3>3. PICK e \in Calls : /\ call[e].step = "wait"
                             /\ call[e].run = running[call[c].future]
      BY <1>1, <3>2 DEF Inv, Owned, Waiting
    <3>4. /\ runs[running[call[c].future]].stage \in Active
          /\ runs[running[call[c].future]].future = call[c].future
          /\ running[call[c].future] \in Calls
      BY <1>1, <3>2 DEF Inv, TypeOK, Owned
    <3>5. call[e].future = call[c].future
      BY <3>3, <3>4 DEF Inv, Shared, Waiting, Active
    <3> QED
      BY <1>1, <1>7, <2>1, <2>2, <2>4, <3>3, <3>5 DEF Using
  <2> QED
    BY <2>3, <2>4
<1>10. Diagnosed'
  BY <1>3 DEF Inv, Diagnosed, Current
<1> QED
  BY <1>5, <1>6, <1>8, <1>9, <1>10 DEF Inv
\* What Got says of a call that moves on with a plan it has, or without one.
LEMMA PlanMoves ==
  ASSUME Inv, NEW c \in Calls, NEW x \in Call, call' = [call EXCEPT ![c] = x],
         x.outcome = "canceled" => x.gaveUp,
         x.got # "zero",
         x.step \in {"built", "committed", "returned"},
         x.step \in {"built", "committed"} =>
            /\ x.of = call[c].of /\ x.got = call[c].got
            /\ call[c].step \in {"made", "built", "committed"},
         UNCHANGED <<snaps, dead>>
  PROVE  Got'
<1>1. /\ call'[c] = x
      /\ \A d \in Calls : d # c => call'[d] = call[d] /\ Snap(d)' = Snap(d)
  BY DEF Inv, TypeOK, Snap
<1>2. x.step # "returned" => x.got = Snap(c)'.key
  BY <1>1 DEF Inv, Got, Snap
<1> QED
  BY <1>1, <1>2 DEF Inv, Got

\* A call that uses no future may move on.
LEMMA StillWanted ==
  ASSUME Inv, NEW c \in Calls, NEW x, call' = [call EXCEPT ![c] = x],
         call[c].step \notin Using, UNCHANGED pending
  PROVE  PendingIsWanted'
<1>1. \A d \in Calls : d # c => call'[d] = call[d]
  BY DEF Inv, TypeOK
<1> QED
  BY <1>1 DEF Inv, PendingIsWanted, Using

LEMMA AdmissibleStep ==
  ASSUME Inv, NEW c \in Calls, NEW own \in BOOLEAN, Admissible(c, own)
  PROVE  Inv'
<1> DEFINE x == call'[c]
<1>1. /\ call[c] \in Call /\ call[c].step = "made" /\ call[c].of \in 1..Len(snaps)
      /\ call[c].got # "zero"
      /\ call[c].outcome = "canceled" => call[c].gaveUp
  BY DEF Inv, TypeOK, Steady, Got, Admissible
<1>2. /\ call' = [call EXCEPT ![c] = x] /\ x \in Call
      /\ x.step \in {"built", "returned"}
      /\ x.step = "returned" =>
            /\ x.of = None /\ x.got = None
            /\ x.outcome = "canceled" => x.gaveUp
      /\ x.step = "built" => x = [call[c] EXCEPT !.step = "built"]
  <2>1. ASSUME NEW o \in {"obsolete", "canceled"}, NEW gaveUp \in BOOLEAN,
               call' = [call EXCEPT ![c] = [Over(c, o) EXCEPT !.gaveUp = gaveUp]],
               o = "canceled" => gaveUp
        PROVE  <1>2!:
    <3>1. Over(c, o) \in Call
      BY RecordTypes DEF Inv, Outcomes
    <3>2. x = [Over(c, o) EXCEPT !.gaveUp = gaveUp]
      BY <2>1 DEF Inv, TypeOK
    <3>3. x \in Call /\ x.gaveUp = gaveUp
      BY <3>1, <3>2 DEF Call
    <3>4. x.step = "returned" /\ x.got = None /\ x.outcome = o /\ x.of = None
      BY <3>2 DEF Over, NewCall
    <3> QED
      BY <2>1, <3>3, <3>4
  <2>2. ASSUME call' = [call EXCEPT ![c].step = "built"]
        PROVE  <1>2!:
    <3>1. x = [call[c] EXCEPT !.step = "built"]
      BY <2>2 DEF Inv, TypeOK
    <3> QED
      BY <1>1, <2>2, <3>1 DEF Inv, TypeOK, Call, Steps
  <2> QED
    BY <2>1, <2>2 DEF Admissible
<1> HIDE DEF x
<1>3. x.step = "built" => /\ x.of = call[c].of /\ x.got = call[c].got
                          /\ x.outcome = call[c].outcome
                          /\ x.gaveUp = call[c].gaveUp
  BY <1>1, <1>2 DEF Call
<1>4. UNCHANGED <<snaps, broken, dead, closed, diagnostic, plans, pending,
                  analysing, memo, running, runs>>
  BY DEF Admissible, project
<1>5. Lives' /\ Steady' /\ Shared' /\ Owned' /\ Fresh' /\ OneKey' /\ Leaving'
  BY <1>1, <1>2, <1>3, <1>4, CallMoves
<1>6. TypeOK'
  BY <1>2, <1>4 DEF Inv, TypeOK
<1>7. Got'
  <2>1. x.outcome = "canceled" => x.gaveUp
    BY <1>1, <1>2, <1>3
  <2>2. x.got # "zero"
    BY <1>1, <1>2, <1>3, ConstantsAssumption DEF NoPlan
  <2> QED
    BY <1>1, <1>2, <1>3, <1>4, <2>1, <2>2, PlanMoves
<1>8. PendingIsWanted'
  BY <1>1, <1>2, <1>4, StillWanted DEF Using
<1>9. Diagnosed'
  BY <1>4 DEF Inv, Diagnosed, Current
<1> QED
  BY <1>5, <1>6, <1>7, <1>8, <1>9 DEF Inv

\* Builds that are published, dropped or diagnosed.
LEMMA BuildSteps ==
  ASSUME Inv, NEW c \in Calls,
         \/ \E close \in BOOLEAN : Publish(c, close)
         \/ FormatFails(c) \/ Diagnose(c) \/ Drop(c)
  PROVE  Inv'
<1>1. call[c] \in Call /\ call[c].of \in Revisions \cup {None}
  BY DEF Inv, TypeOK, Call
<1>2. CASE FormatFails(c) \/ Diagnose(c)
  <2>1. UNCHANGED <<snaps, broken, dead, closed, pending, analysing, memo,
                    running, runs, call>>
    BY <1>2 DEF FormatFails, Diagnose, project
  <2>2. /\ plans' \in Keys \cup {None}
        /\ diagnostic' \in Revisions \cup {None}
        /\ diagnostic' # None => diagnostic' = Current
    BY <1>1, <1>2 DEF FormatFails, Diagnose, IsCurrent, Inv, TypeOK, Diagnosed
  <2>3. TypeOK'
    BY <2>1, <2>2 DEF Inv, TypeOK
  <2>4. Shared' /\ Owned'
    <3>1. \A q \in Calls : Waiting(q)' = Waiting(q)
      BY <2>1 DEF Waiting
    <3>2. \A f \in Calls : running[f] # None => running[f] \in Calls
      BY DEF Inv, TypeOK
    <3>3. Owned'
      BY <2>1, <3>1, <3>2 DEF Inv, Owned
    <3> QED
      BY <2>1, <3>1, <3>3 DEF Inv, Shared
  <2>5. OneKey' /\ Got'
    BY <2>1 DEF Inv, OneKey, Got, Snap
  <2> QED
    BY <2>1, <2>2, <2>3, <2>4, <2>5 DEF Inv, Lives, Steady, Fresh, Leaving,
       PendingIsWanted, Diagnosed, Current
<1>3. CASE Drop(c) \/ \E close \in BOOLEAN : Publish(c, close)
  <2> DEFINE x == call'[c]
  <2>1. /\ call' = [call EXCEPT ![c] = x] /\ x \in Call
        /\ x.got # "zero"
        /\ x.outcome = "canceled" => x.gaveUp
        /\ \/ x.step = "returned" /\ x.of = None
           \/ /\ x.step \in {"built", "committed"} /\ x.of = call[c].of
              /\ x.got = call[c].got
    <3>1. CASE Drop(c)
      <4>1. Over(c, "none") \in Call /\ x = Over(c, "none")
        BY <3>1, RecordTypes DEF Inv, TypeOK, Outcomes, Drop
      <4>2. /\ x.step = "returned" /\ x.of = None /\ x.got = None
            /\ x.outcome = "none"
        BY <4>1 DEF Over, NewCall
      <4> QED
        BY <3>1, <4>1, <4>2, ConstantsAssumption DEF Drop, NoPlan
    <3>2. ASSUME NEW close \in BOOLEAN, Publish(c, close)
          PROVE  <2>1!:
      <4>1. PICK step \in {"built", "committed"} :
               call' = [call EXCEPT ![c].step = step]
        BY <3>2 DEF Publish, Inv, TypeOK
      <4>2. x = [call[c] EXCEPT !.step = step]
        BY <4>1 DEF Inv, TypeOK
      <4>3. /\ x \in Call /\ x.step = step /\ x.of = call[c].of
            /\ x.got = call[c].got /\ x.outcome = call[c].outcome
            /\ x.gaveUp = call[c].gaveUp
        BY <1>1, <4>2 DEF Call, Steps
      <4>4. call' = [call EXCEPT ![c] = x]
        BY <4>1, <4>2 DEF Inv, TypeOK
      <4> QED
        BY <4>3, <4>4 DEF Inv, Got
    <3> QED
      BY <1>3, <3>1, <3>2
  <2> HIDE DEF x
  <2>2. /\ UNCHANGED <<snaps, broken, dead, closed, plans, pending, analysing,
                       memo, running, runs>>
        /\ diagnostic' \in {None, diagnostic}
        /\ call[c].step = "built" /\ call[c].of \in 1..Len(snaps)
    BY <1>3 DEF Drop, Publish, project, Inv, Steady
  <2>3. Lives' /\ Steady' /\ Shared' /\ Owned' /\ Fresh' /\ OneKey' /\ Leaving'
    BY <2>1, <2>2, CallMoves
  <2>4. TypeOK'
    BY <2>1, <2>2 DEF Inv, TypeOK
  <2>5. Got'
    BY <2>1, <2>2, PlanMoves
  <2>6. PendingIsWanted'
    BY <2>1, <2>2, StillWanted DEF Using
  <2>7. Diagnosed'
    BY <2>2 DEF Inv, Diagnosed, Current
  <2> QED
    BY <2>3, <2>4, <2>5, <2>6, <2>7 DEF Inv
<1> QED
  BY <1>2, <1>3

LEMMA PrepareStep ==
  ASSUME Inv, NEW c \in Calls, Prepare(c)
  PROVE  Inv'
<1>1. /\ call[c] \in Call /\ call[c].step = "idle" /\ Current \in 1..Len(snaps)
      /\ Current \in Revisions /\ snaps[Current] \in Contents
      /\ call[c].outcome = "none"
  <2>1. snaps \in Seq(Contents) /\ Len(snaps) \in 1..MaxRevisions
    BY DEF Inv, TypeOK, Revisions
  <2>2. snaps[Len(snaps)] \in Contents
    BY <2>1
  <2> QED
    BY <2>1, <2>2, ConstantsAssumption DEF Inv, TypeOK, Steady, Got, Prepare,
       Current,
       Revisions
<1>2. UNCHANGED <<snaps, broken, dead, closed, diagnostic, plans, analysing,
                  memo, running, runs>>
  BY DEF Prepare, project
<1>3. ASSUME NEW outcome \in {"closed", "failed"}, UNCHANGED pending,
             call' = [call EXCEPT
                ![c] = [NewCall EXCEPT !.step = "returned", !.outcome = outcome,
                            !.of = IF outcome = "failed" THEN Current ELSE None]]
      PROVE  Inv'
  <2> DEFINE x == call'[c]
  <2>1. x = [NewCall EXCEPT !.step = "returned", !.outcome = outcome,
                            !.of = IF outcome = "failed" THEN Current ELSE None]
    BY <1>3 DEF Inv, TypeOK
  <2>2. /\ x \in Call /\ x.step = "returned" /\ x.got = None
        /\ x.outcome # "canceled" /\ x.of \in {Current, None}
        /\ call' = [call EXCEPT ![c] = x]
    <3>1. PICK of \in Revisions \cup {None} :
            x = [NewCall EXCEPT !.step = "returned", !.outcome = outcome, !.of = of]
            /\ of \in {Current, None}
      BY <1>1, <2>1
    <3>2. call' = [call EXCEPT ![c] = x]
      BY <1>3, <2>1
    <3> QED
      BY <3>1, <3>2 DEF NewCall, Call, Steps, Outcomes
  <2> HIDE DEF x
  <2>3. Lives' /\ Steady' /\ Shared' /\ Owned' /\ Fresh' /\ OneKey' /\ Leaving'
    BY <1>1, <1>2, <1>3, <2>2, CallMoves
  <2>4. TypeOK'
    BY <1>2, <1>3, <2>2 DEF Inv, TypeOK
  <2>5. Got'
    BY <1>1, <1>2, <2>2, PlanMoves, ConstantsAssumption DEF NoPlan
  <2>6. PendingIsWanted'
    BY <1>1, <1>3, <2>2, StillWanted DEF Using
  <2>7. Diagnosed'
    BY <1>2 DEF Inv, Diagnosed, Current
  <2> QED
    BY <2>3, <2>4, <2>5, <2>6, <2>7 DEF Inv
<1>4. ASSUME NEW k \in Keys, k = snaps[Current].key, NEW f,
             f = IF pending[k] = None THEN c ELSE pending[k],
             pending' = [pending EXCEPT ![k] = f],
             call' = [call EXCEPT ![c].step = "get", ![c].of = Current,
                                  ![c].future = f]
      PROVE  Inv'
  <2> DEFINE x == call'[c]
  <2>1. f \in Calls
    BY <1>4 DEF Inv, TypeOK
  <2>2. x = [call[c] EXCEPT !.step = "get", !.of = Current, !.future = f]
    BY <1>4 DEF Inv, TypeOK
  <2>3. /\ x \in Call /\ x.step = "get" /\ x.of = Current /\ x.future = f
        /\ x.got = call[c].got /\ x.outcome = "none"
    BY <1>1, <2>1, <2>2 DEF Call, Steps
  <2>4. call' = [call EXCEPT ![c] = x]
    BY <1>4, <2>2 DEF Inv, TypeOK
  <2>5. \A d \in Calls : d # c => call'[d] = call[d] /\ Snap(d)' = Snap(d)
    BY <1>2, <2>4 DEF Inv, TypeOK, Snap
  <2>6. Snap(c)' = snaps[Current] /\ call'[c] = x
    BY <1>2, <2>3 DEF Snap
  <2> HIDE DEF x
  <2>7. /\ pending'[k] = f
        /\ \A j \in Keys : j # k => pending'[j] = pending[j]
    BY <1>4 DEF Inv, TypeOK
  <2>8. TypeOK'
    <3>1. pending' \in [Keys -> Calls \cup {None}]
      BY <1>4, <2>1 DEF Inv, TypeOK
    <3>2. call' \in [Calls -> Call]
      BY <2>3, <2>4 DEF Inv, TypeOK
    <3> QED
      BY <1>2, <3>1, <3>2 DEF Inv, TypeOK
  <2>9. \A q \in Calls : Waiting(q)' = Waiting(q)
    BY <1>1, <2>3, <2>5, <2>6 DEF Waiting
  <2>10. Shared'
    <3>1. ASSUME NEW q \in Calls, NEW d \in Waiting(q) PROVE call'[d] = call[d]
      BY <1>1, <2>5 DEF Waiting
    <3> QED
      BY <1>2, <2>9, <3>1 DEF Inv, Shared
  <2>11. Owned'
    <3>1. \A g \in Calls : running[g] # None => running[g] \in Calls
      BY DEF Inv, TypeOK
    <3> QED
      BY <1>2, <2>9, <3>1 DEF Inv, Owned
  <2>12. Lives' /\ Leaving' /\ Diagnosed'
    BY <1>2 DEF Inv, Lives, Leaving, Diagnosed, Current
  <2>13. Steady'
    BY <1>1, <1>2, <2>1, <2>3, <2>5, <2>6 DEF Inv, Steady, Using
  <2>14. Got'
    BY <1>2, <2>3, <2>5, <2>6 DEF Inv, Got
  <2>15. Fresh'
    <3>0. \A g \in Calls : call'[g].step = "idle" => g # c /\ call[g].step = "idle"
      BY <2>3, <2>5, <2>6
    <3>1. \A g \in Calls : call'[g].step = "idle" => g # c /\ g # f
      BY <1>4, <3>0 DEF Inv, Fresh
    <3>2. \A d \in Calls : call'[d].step \in Using =>
            \/ d = c /\ call'[d].future = f
            \/ d # c /\ call[d].step \in Using /\ call'[d].future = call[d].future
      BY <2>3, <2>5, <2>6
    <3>3. \A g \in Calls : call'[g].step = "idle" => call[g].step = "idle"
      BY <2>5, <3>1
    <3> QED
      BY <1>2, <2>7, <3>1, <3>2, <3>3 DEF Inv, Fresh
  <2>16. /\ memo[f] \in {None, k, "failed"}
         /\ \A j \in Keys : pending[j] = f => j = k
         /\ \A d \in Calls : call[d].step \in Using /\ call[d].future = f
                                => Snap(d).key = k
         /\ \A r \in Calls : runs[r].stage \in Active /\ runs[r].future = f
                                => runs[r].key = k
    <3>1. CASE pending[k] = None
      BY <1>1, <1>4, <3>1 DEF Inv, Fresh
    <3>2. CASE pending[k] # None
      <4>1. PICK d \in Calls : call[d].step \in Using /\ call[d].future = f
        BY <1>4, <3>2 DEF Inv, PendingIsWanted, Using
      <4>2. Snap(d).key = k
        BY <1>4, <3>2, <4>1 DEF Inv, OneKey
      <4> QED
        BY <4>1, <4>2 DEF Inv, OneKey
    <3> QED
      BY <3>1, <3>2
  <2>17. OneKey'
    <3> SUFFICES ASSUME NEW d \in Calls, call'[d].step \in Using
                 PROVE  LET key == Snap(d)'.key
                            g == call'[d].future
                        IN  /\ memo[g] \in {None, key, "failed"}
                            /\ \A j \in Keys : pending'[j] = g => j = key
                            /\ \A e \in Calls :
                                  call'[e].step \in Using /\ call'[e].future = g
                                      => Snap(e)'.key = key
                            /\ \A r \in Calls :
                                  runs[r].stage \in Active /\ runs[r].future = g
                                      => runs[r].key = key
      BY <1>2 DEF OneKey
    <3>1. CASE call'[d].future = f
      <4>1. Snap(d)'.key = k
        BY ZenonT(60), <1>4, <2>5, <2>6, <2>16, <3>1
      <4>2. \A e \in Calls : call'[e].step \in Using /\ call'[e].future = f
                                => Snap(e)'.key = k
        BY <1>4, <2>5, <2>6, <2>16
      <4> QED
        BY <2>7, <2>16, <3>1, <4>1, <4>2
    <3>2. CASE call'[d].future # f
      <4>1. d # c
        BY <2>3, <2>6, <3>2
      <4>2. call[d].step \in Using /\ call'[d] = call[d] /\ Snap(d)' = Snap(d)
        BY <2>5, <4>1
      <4>3. \A e \in Calls : call'[e].step \in Using /\ call'[e].future = call[d].future
                => e # c /\ call'[e] = call[e] /\ Snap(e)' = Snap(e)
        BY <2>3, <2>5, <2>6, <3>2, <4>2
      <4> QED
        BY <2>7, <3>2, <4>2, <4>3 DEF Inv, OneKey
    <3> QED
      BY <3>1, <3>2
  <2>18. PendingIsWanted'
    <3> SUFFICES ASSUME NEW j \in Keys, pending'[j] # None
                 PROVE  \E d \in Calls : /\ call'[d].step \in Using
                                         /\ call'[d].future = pending'[j]
      BY DEF PendingIsWanted, Using
    <3>1. CASE j = k
      BY <2>3, <2>6, <2>7, <3>1 DEF Using
    <3>2. CASE j # k
      BY <1>1, <2>5, <2>7, <3>2 DEF Inv, PendingIsWanted, Using
    <3> QED
      BY <3>1, <3>2
  <2> QED
    BY <2>8, <2>10, <2>11, <2>12, <2>13, <2>14, <2>15, <2>17, <2>18 DEF Inv
<1>5. snaps[Current].key \in Keys
  BY <1>1 DEF Contents
<1> QED
  BY <1>3, <1>4, <1>5 DEF Prepare

\* A call leaves get with an answer; whatever becomes of its run, the runs
\* keep what they are for.
LEMMA Leaves ==
  ASSUME Inv, NEW c \in Calls, NEW what \in Keys \cup NoPlan, NEW own \in BOOLEAN,
         Leave(c, what, own), call[c].step \in {"get", "wait"},
         \/ what \in {Snap(c).key, "failed"}
         \/ what = "canceled" /\ (own \/ Snap(c).life \in dead),
         what # "zero",
         \A r \in Calls : /\ runs'[r].stage = runs[r].stage
                          /\ runs'[r].future = runs[r].future
                          /\ runs'[r].key = runs[r].key
                          /\ runs'[r].value = runs[r].value,
         \A f \in Calls : running'[f] \in {None, running[f]},
         UNCHANGED <<snaps, broken, dead, closed, diagnostic, pending, memo>>
  PROVE  /\ call' \in [Calls -> Call]
         /\ \A d \in Calls : d # c => call'[d] = call[d]
         /\ call'[c].step = "left"
         /\ Lives' /\ Steady' /\ Fresh' /\ OneKey' /\ Leaving' /\ Got'
         /\ PendingIsWanted' /\ Diagnosed'
<1> DEFINE x == [call[c] EXCEPT !.step = "left", !.got = what, !.gaveUp = own]
<1>1. call[c] \in Call /\ call[c].outcome = "none"
  BY DEF Inv, TypeOK, Steady, Using
<1>2. call' = [call EXCEPT ![c] = x]
  BY DEF Leave, Inv, TypeOK
<1>3. /\ x \in Call /\ x.step = "left" /\ x.got = what /\ x.gaveUp = own
      /\ x.of = call[c].of /\ x.future = call[c].future /\ x.run = call[c].run
      /\ x.outcome = "none"
  BY <1>1 DEF Call, Steps
<1> HIDE DEF x
<1>4. call'[c] = x /\ \A d \in Calls : d # c => call'[d] = call[d]
  BY <1>2 DEF Inv, TypeOK
<1>5. \A d \in Calls : Snap(d)' = Snap(d)
  BY <1>3, <1>4 DEF Snap
<1>6. \A d \in Calls :
        /\ call'[d].step \in Using => call[d].step \in Using
        /\ call[d].step \in Using => call'[d].step \in Using
        /\ call'[d].step = "idle" <=> call[d].step = "idle"
        /\ call'[d].future = call[d].future
  BY <1>3, <1>4 DEF Using
<1>7. call' \in [Calls -> Call]
  BY <1>2, <1>3 DEF Inv, TypeOK
<1>8. Lives' /\ Leaving' /\ Diagnosed'
  BY DEF Inv, Lives, Leaving, Diagnosed, Current
<1>9. Steady'
  <2>1. \A d \in Calls : d # c => /\ call'[d] = call[d]
                                  /\ runs'[d].stage = runs[d].stage
    BY <1>4
  <2>2. call[c].of \in 1..Len(snaps) /\ call[c].future \in Calls
    BY DEF Inv, Steady, Using
  <2> QED
    BY <1>3, <1>4, <2>1, <2>2 DEF Inv, Steady
<1>10. Fresh'
  BY <1>6, ConstantsAssumption DEF Inv, Fresh
<1>11. OneKey'
  BY <1>5, <1>6 DEF Inv, OneKey
<1>12. Got'
  BY <1>3, <1>4, <1>5 DEF Inv, Got
<1>13. PendingIsWanted'
  BY <1>6 DEF Inv, PendingIsWanted, Using
<1> QED
  BY <1>3, <1>4, <1>7, <1>8, <1>9, <1>10, <1>11, <1>12, <1>13

LEMMA CollectStep ==
  ASSUME Inv, NEW c \in Calls, Collect(c)
  PROVE  Inv'
<1>0. PICK r \in Calls, f \in Calls : r = call[c].run /\ f = call[c].future
  BY DEF Inv, Steady, Using, Collect
<1> DEFINE what == IF memo[f] # None THEN memo[f]
                   ELSE IF runs[r].stopped THEN "canceled" ELSE "zero"
           x == [runs[r] EXCEPT !.waiters = @ \ {c}]
<1>1. /\ call[c].step = "wait" /\ c \in Waiting(r)
      /\ runs[r] \in Run /\ runs[r].stage = "over"
  BY <1>0 DEF Inv, TypeOK, Collect, Waiting
<1>2. memo[f] # None
  BY <1>0, <1>1 DEF Inv, Shared, Active
<1>3. what \in {Snap(c).key, "failed"} /\ what \in Results /\ what = memo[f]
  BY <1>0, <1>1, <1>2 DEF Inv, OneKey, TypeOK, Using
<1>4. what # "zero" /\ what \in Keys \cup NoPlan
  BY <1>3, ConstantsAssumption DEF NoPlan, Results
<1>5. /\ runs' = [runs EXCEPT ![r] = x] /\ Leave(c, what, FALSE)
      /\ UNCHANGED <<snaps, broken, dead, closed, diagnostic, plans, pending,
                     analysing, memo, running>>
  BY <1>0 DEF Collect, project, Inv, TypeOK
<1>6. /\ x \in Run /\ x.stage = runs[r].stage /\ x.future = runs[r].future
      /\ x.key = runs[r].key /\ x.value = runs[r].value
      /\ x.stopped = runs[r].stopped /\ x.waiters = runs[r].waiters \ {c}
  BY <1>1 DEF Run
<1> HIDE DEF x, what
<1>7. runs'[r] = x /\ \A q \in Calls : q # r => runs'[q] = runs[q]
  BY <1>1, <1>5 DEF Inv, TypeOK
<1>8. \A q \in Calls : /\ runs'[q].stage = runs[q].stage
                       /\ runs'[q].future = runs[q].future
                       /\ runs'[q].key = runs[q].key
                       /\ runs'[q].value = runs[q].value
                       /\ runs'[q].stopped = runs[q].stopped
  BY <1>6, <1>7
<1>9. /\ call' \in [Calls -> Call]
      /\ \A d \in Calls : d # c => call'[d] = call[d]
      /\ call'[c].step = "left"
      /\ Lives' /\ Steady' /\ Fresh' /\ OneKey' /\ Leaving' /\ Got'
      /\ PendingIsWanted' /\ Diagnosed'
  BY <1>1, <1>3, <1>4, <1>5, <1>8, Leaves
<1>10. TypeOK'
  <2>1. runs' \in [Calls -> Run]
    BY <1>1, <1>5, <1>6 DEF Inv, TypeOK
  <2> QED
    BY <1>5, <1>9, <2>1 DEF Inv, TypeOK
<1>11. /\ Waiting(r)' = Waiting(r) \ {c}
       /\ \A q \in Calls : q # r => Waiting(q)' = Waiting(q)
  BY <1>0, <1>9 DEF Waiting
<1>12. Owned'
  <2>1. \A g \in Calls : running[g] # None =>
          running[g] \in Calls \ {r}
    BY <1>1 DEF Inv, TypeOK, Owned, Active
  <2> QED
    BY <1>5, <1>7, <1>11, <2>1 DEF Inv, Owned
<1>13. Shared'
  <2>1. \A q \in Calls : runs'[q].waiters = Waiting(q)'
    <3>1. runs'[r].waiters = Waiting(r)'
      BY <1>6, <1>7, <1>11 DEF Inv, Shared
    <3>2. \A q \in Calls : q # r => runs'[q].waiters = Waiting(q)'
      BY <1>7, <1>11 DEF Inv, Shared
    <3> QED
      BY <3>1, <3>2
  <2>2. \A q \in Calls : \A d \in Waiting(q)' :
           d \in Waiting(q) /\ call'[d] = call[d]
    BY <1>9, <1>11 DEF Waiting
  <2>3. \A q \in Calls : Waiting(q)' \subseteq Waiting(q)
    BY <1>11
  <2> QED
    BY <1>5, <1>8, <2>1, <2>2, <2>3 DEF Inv, Shared
<1> QED
  BY <1>9, <1>10, <1>12, <1>13 DEF Inv

LEMMA WalkAwayStep ==
  ASSUME Inv, NEW c \in Calls, NEW own \in BOOLEAN, WalkAway(c, own)
  PROVE  Inv'
<1>0. PICK r \in Calls, f \in Calls : r = call[c].run /\ f = call[c].future
  BY DEF Inv, Steady, Using, WalkAway
<1> DEFINE last == runs[r].waiters = {c} /\ running[f] = r
           x == [runs[r] EXCEPT !.waiters = @ \ {c}, !.stopped = @ \/ last]
<1>1. /\ call[c].step = "wait" /\ c \in Waiting(r)
      /\ runs[r] \in Run
  BY <1>0 DEF Inv, TypeOK, WalkAway, Waiting
<1>2. /\ runs' = [runs EXCEPT ![r] = x] /\ Leave(c, "canceled", own)
      /\ running' = IF last THEN [running EXCEPT ![f] = None] ELSE running
      /\ UNCHANGED <<snaps, broken, dead, closed, diagnostic, plans, pending,
                     analysing, memo>>
  BY <1>0 DEF WalkAway, project, Inv, TypeOK
<1>3. /\ x \in Run /\ x.stage = runs[r].stage /\ x.future = runs[r].future
      /\ x.key = runs[r].key /\ x.value = runs[r].value
      /\ x.stopped = (runs[r].stopped \/ last)
      /\ x.waiters = runs[r].waiters \ {c}
  BY <1>1 DEF Run
<1> HIDE DEF x, last
<1>4. runs'[r] = x /\ \A q \in Calls : q # r => runs'[q] = runs[q]
  BY <1>1, <1>2 DEF Inv, TypeOK
<1>5. \A q \in Calls : /\ runs'[q].stage = runs[q].stage
                       /\ runs'[q].future = runs[q].future
                       /\ runs'[q].key = runs[q].key
                       /\ runs'[q].value = runs[q].value
  BY <1>3, <1>4
<1>6. /\ last => running'[f] = None
      /\ ~last => running' = running
      /\ \A g \in Calls : g # f => running'[g] = running[g]
  BY <1>1, <1>2 DEF Inv, TypeOK
<1>7. /\ call' \in [Calls -> Call]
      /\ \A d \in Calls : d # c => call'[d] = call[d]
      /\ call'[c].step = "left"
      /\ Lives' /\ Steady' /\ Fresh' /\ OneKey' /\ Leaving' /\ Got'
      /\ PendingIsWanted' /\ Diagnosed'
  <2>1. own \/ Snap(c).life \in dead
    BY DEF WalkAway, Ended
  <2>2. "canceled" # "zero" /\ "canceled" \in Keys \cup NoPlan
    BY DEF NoPlan
  <2>3. \A g \in Calls : running'[g] \in {None, running[g]}
    BY <1>6
  <2> QED
    BY <1>1, <1>2, <1>5, <2>1, <2>2, <2>3, Leaves
<1>8. TypeOK'
  <2>1. runs' \in [Calls -> Run]
    BY <1>1, <1>2, <1>3 DEF Inv, TypeOK
  <2>2. running' \in [Calls -> Calls \cup {None}]
    BY <1>1, <1>2 DEF Inv, TypeOK
  <2> QED
    BY <1>2, <1>7, <2>1, <2>2 DEF Inv, TypeOK
<1>9. /\ Waiting(r)' = Waiting(r) \ {c}
      /\ \A q \in Calls : q # r => Waiting(q)' = Waiting(q)
  BY <1>0, <1>7 DEF Waiting
<1>10. last => Waiting(r) = {c} /\ running[f] = r
  BY <1>1 DEF Inv, Shared, last
<1>11. ~last /\ running[f] = r => Waiting(r) # {c}
  BY <1>1 DEF Inv, Shared, last
<1>12. \A g \in Calls : running[g] = r => g = f
  BY <1>0, <1>1, ConstantsAssumption DEF Inv, Owned, Shared, Active
<1>13. Owned'
  <2> SUFFICES ASSUME NEW g \in Calls, NEW q \in Calls, running'[g] = q
               PROVE  /\ runs'[q].stage \in Active /\ runs'[q].future = g
                      /\ ~runs'[q].stopped /\ Waiting(q)' # {}
    BY <1>8 DEF Owned, TypeOK
  <2>1. running[g] = q
    BY <1>6, ConstantsAssumption DEF Inv, TypeOK
  <2>2. CASE q # r
    BY <1>4, <1>9, <2>1, <2>2, ConstantsAssumption DEF Inv, Owned
  <2>3. CASE q = r
    <3>1. g = f /\ ~last
      BY <1>6, <1>12, <2>1, <2>3, ConstantsAssumption
    <3>2. ~runs[r].stopped /\ runs[r].stage \in Active /\ runs[r].future = g
      BY <2>1, <2>3, ConstantsAssumption DEF Inv, Owned
    <3>3. Waiting(r) # {c}
      BY <1>11, <2>1, <2>3, <3>1
    <3> QED
      BY <1>1, <1>3, <1>4, <1>9, <2>1, <2>3, <3>1, <3>2, <3>3
  <2> QED
    BY <2>2, <2>3
<1>14. Shared'
  <2>1. \A q \in Calls : runs'[q].waiters = Waiting(q)'
    <3>1. runs'[r].waiters = Waiting(r)'
      BY <1>3, <1>4, <1>9 DEF Inv, Shared
    <3>2. \A q \in Calls : q # r => runs'[q].waiters = Waiting(q)'
      BY <1>4, <1>9 DEF Inv, Shared
    <3> QED
      BY <3>1, <3>2
  <2>2. \A q \in Calls : \A d \in Waiting(q)' :
           d \in Waiting(q) /\ call'[d] = call[d]
    BY <1>7, <1>9 DEF Waiting
  <2>3. \A q \in Calls : Waiting(q)' \subseteq Waiting(q)
    BY <1>9
  <2>4. \A q \in Calls : runs'[q].stopped => Waiting(q)' = {}
    BY ZenonT(60), <1>3, <1>4, <1>9, <1>10 DEF Inv, Shared
  <2>5. \A q \in Calls : runs'[q].stage = "unused" =>
           Waiting(q)' = {} /\ ~runs'[q].stopped
    BY <1>1, <1>3, <1>4, <1>9 DEF Inv, Shared
  <2>6. \A q \in Calls : runs'[q].stage \in Active /\ ~runs'[q].stopped
           => running'[runs'[q].future] = q
    <3>1. ASSUME NEW q \in Calls, q # r, runs'[q].stage \in Active,
                 ~runs'[q].stopped
          PROVE  running'[runs'[q].future] = q
      <4>1. runs[q].future \in Calls /\ running[runs[q].future] = q
        BY <1>4, <3>1 DEF Inv, Shared
      <4>2. last => runs[q].future # f
        BY <1>10, <3>1, <4>1
      <4> QED
        BY <1>4, <1>6, <3>1, <4>1, <4>2
    <3>2. ASSUME runs'[r].stage \in Active, ~runs'[r].stopped
          PROVE  running'[runs'[r].future] = r
      BY <1>1, <1>3, <1>4, <1>6, <3>2 DEF Inv, Shared
    <3> QED
      BY <3>1, <3>2
  <2> QED
    BY <1>2, <1>5, <2>1, <2>2, <2>3, <2>4, <2>5, <2>6 DEF Inv, Shared
<1> QED
  BY <1>7, <1>8, <1>13, <1>14 DEF Inv

\* A call that asks its future waits for run r, which it may just have started.
LEMMA Joining ==
  ASSUME Inv, NEW c \in Calls, NEW f \in Calls, NEW r \in Calls,
         NEW x \in Run, NEW y \in Call,
         call[c].step = "get", call[c].future = f, memo[f] = None,
         \/ r = c /\ running[f] = None
         \/ r # c /\ running[f] = r,
         running' = [running EXCEPT ![f] = r],
         runs' = [runs EXCEPT ![r] = x], call' = [call EXCEPT ![c] = y],
         x.stage \in Active, x.future = f, ~x.stopped, x.key = Snap(c).key,
         x.waiters = runs[r].waiters \cup {c},
         x.stage = "leaving" => x.value \in {x.key, "failed"},
         y.step = "wait", y.run = r, y.future = f, y.of = call[c].of,
         y.got = call[c].got, y.outcome = "none",
         UNCHANGED <<snaps, broken, dead, closed, diagnostic, plans, pending,
                     analysing, memo>>
  PROVE  Inv'
<1>1. /\ runs[c].stage = "unused" /\ call[c].of \in 1..Len(snaps)
      /\ call[c].got # "zero"
  BY DEF Inv, Steady, Got, Using
<1>2. Snap(c).key \in Keys
  <2>1. snaps \in Seq(Contents)
    BY DEF Inv, TypeOK
  <2>2. Snap(c) \in Contents
    BY <1>1, <2>1 DEF Snap
  <2> QED
    BY <2>2 DEF Contents
<1>3. call'[c] = y /\ \A d \in Calls : d # c => call'[d] = call[d]
  BY DEF Inv, TypeOK
<1>4. runs'[r] = x /\ \A q \in Calls : q # r => runs'[q] = runs[q]
  BY DEF Inv, TypeOK
<1>5. x.waiters = Waiting(r) \cup {c}
  BY DEF Inv, Shared
<1>6. /\ running'[f] = r
      /\ \A g \in Calls : g # f => running'[g] = running[g]
  BY DEF Inv, TypeOK
<1>7. \/ r = c /\ running[f] = None /\ Waiting(r) = {}
      \/ /\ r # c /\ running[f] = r /\ runs[r].stage \in Active
         /\ runs[r].future = f /\ ~runs[r].stopped
  BY <1>1, ConstantsAssumption DEF Inv, Shared, Owned
<1>10. TypeOK'
  <2>1. runs' \in [Calls -> Run] /\ call' \in [Calls -> Call]
    BY <1>4, <1>4, <1>5 DEF Inv, TypeOK
  <2>2. running' \in [Calls -> Calls \cup {None}]
    BY DEF Inv, TypeOK
  <2> QED
    BY <1>5, <2>1, <2>2 DEF Inv, TypeOK
<1>11. \A d \in Calls :
         /\ Snap(d)' = Snap(d)
         /\ call'[d].step \in Using <=> call[d].step \in Using
         /\ call'[d].step = "idle" <=> call[d].step = "idle"
         /\ call'[d].future = call[d].future
  BY <1>3 DEF Snap, Using
<1>12. /\ Waiting(r)' = Waiting(r) \cup {c}
       /\ \A q \in Calls : q # r => Waiting(q)' = Waiting(q)
  BY <1>3 DEF Waiting
<1>13. Lives' /\ Diagnosed'
  BY <1>5 DEF Inv, Lives, Diagnosed, Current
<1>14. Leaving'
  BY <1>4, <1>5, <1>6 DEF Inv, Leaving
<1>15. Steady'
  <2>1. \A d \in Calls : call'[d].step \in {"idle", "get"} => d # c /\ d # r
    <3>1. r # c => call[r].step \notin {"idle", "get"}
      BY <1>7 DEF Inv, Steady, Active
    <3> QED
      BY <1>3, <3>1
  <2>2. \A d \in Calls : call'[d].step \in {"idle", "get"}
                            => call'[d] = call[d] /\ runs'[d] = runs[d]
    BY <1>3, <1>4, <1>6, <2>1
  <2>3. \A d \in Calls : call'[d].step \in {"idle", "get"}
                            => runs'[d].stage = "unused"
    BY <2>2 DEF Inv, Steady
  <2> QED
    BY <1>1, <1>3, <2>3 DEF Inv, Steady, Using
<1>16. Owned'
  <2> SUFFICES ASSUME NEW g \in Calls, NEW q \in Calls, running'[g] = q
               PROVE  /\ runs'[q].stage \in Active /\ runs'[q].future = g
                      /\ ~runs'[q].stopped /\ Waiting(q)' # {}
    BY <1>10 DEF Owned, TypeOK
  <2>1. CASE g = f
    BY <1>4, <1>5, <1>6, <1>12, <2>1
  <2>2. CASE g # f
    <3>1. running[g] = q
      BY <1>4, <1>6, <2>2
    <3>2. /\ runs[q].stage \in Active /\ runs[q].future = g
          /\ ~runs[q].stopped /\ Waiting(q) # {}
      BY <3>1, ConstantsAssumption DEF Inv, Owned
    <3>3. q # r
      BY <1>1, <1>7, <2>2, <3>2 DEF Active
    <3> QED
      BY <1>4, <1>6, <1>12, <3>2, <3>3
  <2> QED
    BY <2>1, <2>2
<1>17. Shared'
  <2> SUFFICES ASSUME NEW q \in Calls
               PROVE
        /\ runs'[q].waiters = Waiting(q)'
        /\ runs'[q].stopped => Waiting(q)' = {}
        /\ runs'[q].stage = "unused" => Waiting(q)' = {} /\ ~runs'[q].stopped
        /\ runs'[q].stage \in Active =>
              /\ runs'[q].future \in Calls /\ runs'[q].key \in Keys
              /\ ~runs'[q].stopped => running'[runs'[q].future] = q
        /\ \A d \in Waiting(q)' :
              \/ runs'[q].stage \in Active /\ runs'[q].future = call'[d].future
              \/ runs'[q].stage = "over" /\ memo'[call'[d].future] # None
    BY DEF Shared
  <2>1. CASE q = r
    <3>1. \A d \in Waiting(r) : call[d].future = f
      <4>1. CASE r = c
        BY <1>7, <4>1
      <4>2. CASE r # c
        BY <1>7, <4>2 DEF Inv, Shared, Active
      <4> QED
        BY <4>1, <4>2
    <3>2. \A d \in Waiting(r)' : d \in Calls /\ call'[d].future = f
      BY <1>11, <1>12, <3>1 DEF Waiting
    <3>3. runs'[q] = x /\ Waiting(q)' = Waiting(q) \cup {c}
      BY <1>4, <1>12, <2>1
    <3>4. x.stage # "unused" /\ x.stage # "over"
      BY DEF Active
    <3> QED
      BY <1>2, <1>5, <1>6, <2>1, <3>2, <3>3, <3>4
  <2>2. CASE q # r
    <3>1. runs'[q] = runs[q] /\ Waiting(q)' = Waiting(q)
      BY <1>4, <1>6, <1>12, <2>2
    <3>2. runs[q].stage \in Active /\ ~runs[q].stopped => runs[q].future # f
      BY <1>7, <2>2, ConstantsAssumption DEF Inv, Shared
    <3>3. \A d \in Waiting(q) : d \in Calls /\ call'[d].future = call[d].future
      BY <1>11 DEF Waiting
    <3> QED
      BY <1>4, <1>6, <3>1, <3>2, <3>3 DEF Inv, Shared
  <2> QED
    BY <2>1, <2>2
<1>18. Fresh'
  <2>1. \A g \in Calls : call[g].step = "idle" => g # f
    BY DEF Inv, Fresh, Using
  <2>2. \A q \in Calls : runs'[q].stage \in Active =>
           \/ runs'[q].future = f
           \/ runs[q].stage \in Active /\ runs'[q] = runs[q]
    BY <1>4
  <2> QED
    BY <1>4, <1>6, <1>11, <2>1, <2>2 DEF Inv, Fresh
<1>19. OneKey'
  <2>1. \A q \in Calls : runs'[q].stage \in Active =>
           \/ runs'[q].future = f /\ runs'[q].key = Snap(c).key
           \/ runs[q].stage \in Active /\ runs'[q] = runs[q]
    BY <1>4, <1>5, <1>6
  <2>2. \A d \in Calls : call[d].step \in Using /\ call[d].future = f
                            => Snap(d).key = Snap(c).key
    BY DEF Inv, OneKey, Using
  <2> QED
    BY <1>5, <1>11, <2>1, <2>2 DEF Inv, OneKey
<1>20. Got'
  BY <1>1, <1>3, <1>11 DEF Inv, Got
<1>21. PendingIsWanted'
  BY <1>5, <1>11 DEF Inv, PendingIsWanted, Using
<1> QED
  BY <1>10, <1>13, <1>14, <1>15, <1>16, <1>17, <1>18, <1>19, <1>20, <1>21 DEF
     Inv

LEMMA GetStep ==
  ASSUME Inv, NEW c \in Calls, NEW own \in BOOLEAN, Get(c, own)
  PROVE  Inv'
<1>1. PICK f \in Calls : f = call[c].future
  BY DEF Inv, Steady, Using, Get
<1>2. ASSUME NEW what \in Keys \cup NoPlan, NEW mine \in BOOLEAN,
             Leave(c, what, mine), UNCHANGED <<running, runs>>, what # "zero",
             \/ what \in {Snap(c).key, "failed"}
             \/ what = "canceled" /\ (mine \/ Snap(c).life \in dead)
      PROVE  Inv'
  <2>1. /\ call[c].step = "get"
        /\ UNCHANGED <<snaps, broken, dead, closed, diagnostic, plans, pending,
                       analysing, memo>>
    BY DEF Get, project
  <2>2. /\ call' \in [Calls -> Call]
        /\ \A d \in Calls : d # c => call'[d] = call[d]
        /\ call'[c].step = "left"
        /\ Lives' /\ Steady' /\ Fresh' /\ OneKey' /\ Leaving' /\ Got'
        /\ PendingIsWanted' /\ Diagnosed'
    BY <1>2, <2>1, Leaves
  <2>3. TypeOK'
    BY <1>2, <2>1, <2>2 DEF Inv, TypeOK
  <2>4. \A q \in Calls : Waiting(q)' = Waiting(q)
    BY <2>1, <2>2 DEF Waiting
  <2>5. Owned'
    <3>1. \A g \in Calls : running[g] # None => running[g] \in Calls
      BY DEF Inv, TypeOK
    <3> QED
      BY <1>2, <2>4, <3>1 DEF Inv, Owned
  <2>6. Shared'
    <3>1. \A q \in Calls : \A d \in Waiting(q) : call'[d] = call[d]
      BY <2>1, <2>2 DEF Waiting
    <3> QED
      BY <1>2, <2>1, <2>4, <3>1 DEF Inv, Shared
  <2> QED
    BY <2>2, <2>3, <2>5, <2>6 DEF Inv
<1>3. CASE Ended(c, own) /\ Leave(c, "canceled", own) /\ UNCHANGED <<running, runs>>
  BY <1>2, <1>3 DEF Ended, NoPlan
<1>4. CASE memo[f] # None /\ Leave(c, memo[f], FALSE) /\ UNCHANGED <<running, runs>>
  <2>1. memo[f] \in {Snap(c).key, "failed"} /\ memo[f] \in Results
    BY <1>1, <1>4 DEF Inv, TypeOK, OneKey, Get, Using
  <2>2. memo[f] \in Keys \cup NoPlan /\ memo[f] # "zero"
    BY <2>1, ConstantsAssumption DEF Results, NoPlan
  <2> QED
    BY <1>2, <1>4, <2>1, <2>2
<1>5. ASSUME memo[f] = None, NEW r \in Calls,
             r = (IF running[f] = None THEN c ELSE running[f]),
             running' = [running EXCEPT ![f] = r],
             runs' = [runs EXCEPT
                ![r] = IF r = c THEN [NewRun EXCEPT !.stage = "queued",
                             !.future = f, !.key = Snap(c).key, !.waiters = {c}]
                       ELSE [runs[r] EXCEPT !.waiters = @ \cup {c}]],
             call' = [call EXCEPT ![c].step = "wait", ![c].run = r]
      PROVE  Inv'
  <2> DEFINE y == [call[c] EXCEPT !.step = "wait", !.run = r]
             x == IF r = c THEN [NewRun EXCEPT !.stage = "queued", !.future = f,
                                     !.key = Snap(c).key, !.waiters = {c}]
                  ELSE [runs[r] EXCEPT !.waiters = @ \cup {c}]
  <2>2. /\ call[c] \in Call /\ call[c].step = "get" /\ runs[r] \in Run
        /\ runs[c].stage = "unused" /\ call[c].outcome = "none"
        /\ Waiting(c) = {} /\ runs[c].waiters = {} /\ Snap(c) \in Contents
    <3>1. call[c].step = "get" /\ call[c].of \in 1..Len(snaps) /\ snaps \in Seq(Contents)
      BY DEF Inv, TypeOK, Steady, Using, Get
    <3>2. Snap(c) \in Contents
      BY <3>1 DEF Snap
    <3> QED
      BY <3>1, <3>2 DEF Inv, TypeOK, Steady, Shared, Using
  <2>3. runs' = [runs EXCEPT ![r] = x]
    <3>1. CASE r = c
      BY <1>5, <3>1
    <3>2. CASE r # c
      BY <1>5, <3>2
    <3> QED
      BY <3>1, <3>2
  <2>7. call' = [call EXCEPT ![c] = y]
    BY <1>5 DEF Inv, TypeOK
  <2>4. /\ y \in Call /\ y.step = "wait" /\ y.run = r
        /\ y.future = call[c].future /\ y.of = call[c].of
        /\ y.got = call[c].got /\ y.outcome = "none"
    BY <2>2 DEF Call, Steps
  <2>5. /\ x \in Run /\ x.stage \in Active /\ x.future = f /\ ~x.stopped
        /\ x.key = Snap(c).key /\ x.waiters = runs[r].waiters \cup {c}
        /\ x.stage = "leaving" => x.value \in {x.key, "failed"}
        /\ (r = c /\ running[f] = None) \/ (r # c /\ running[f] = r)
    <3>1. CASE running[f] = None
      <4>1. x = [NewRun EXCEPT !.stage = "queued", !.future = f,
                               !.key = Snap(c).key, !.waiters = {c}]
        BY <1>5, <3>1
      <4>2. x \in Run /\ x.stage = "queued" /\ x.future = f /\ ~x.stopped
            /\ x.key = Snap(c).key /\ x.waiters = {c}
        BY ZenonT(60), <2>2, <4>1 DEF NewRun, Run, Stages, Contents
      <4> QED
        BY <1>5, <2>2, <3>1, <4>2 DEF Active
    <3>2. CASE running[f] # None
      <4>1. /\ running[f] = r /\ runs[r].stage \in Active
            /\ runs[r].future = f /\ ~runs[r].stopped
        BY <1>5, <3>2 DEF Inv, Owned
      <4>2. r # c /\ runs[r].key = Snap(c).key
        BY <1>1, <2>2, <4>1 DEF Inv, OneKey, Active, Using
      <4>3. x = [runs[r] EXCEPT !.waiters = @ \cup {c}]
        BY <4>2
      <4>4. /\ x \in Run /\ x.stage = runs[r].stage /\ x.future = runs[r].future
            /\ x.key = runs[r].key /\ x.value = runs[r].value
            /\ x.stopped = runs[r].stopped
            /\ x.waiters = runs[r].waiters \cup {c}
        BY <2>2, <4>3 DEF Run
      <4> QED
        BY <4>1, <4>2, <4>4 DEF Inv, Leaving
    <3> QED
      BY <3>1, <3>2
  <2> HIDE DEF x, y
  <2>6. UNCHANGED <<snaps, broken, dead, closed, diagnostic, plans, pending,
                    analysing, memo>>
    BY DEF Get, project
  <2>8. /\ x \in Run /\ y \in Call
        /\ call[c].step = "get" /\ call[c].future = f /\ memo[f] = None
        /\ \/ r = c /\ running[f] = None
           \/ r # c /\ running[f] = r
        /\ running' = [running EXCEPT ![f] = r]
        /\ y.future = f
    BY <1>1, <1>5, <2>2, <2>4, <2>5
  <2> QED
    BY <2>3, <2>4, <2>5, <2>6, <2>7, <2>8, Joining
<1>6. running[f] \in Calls \cup {None}
  BY DEF Inv, TypeOK
<1> QED
  BY <1>1, <1>3, <1>4, <1>5, <1>6 DEF Get

---------------------------------------------------------------------------

LEMMA InitInv == Init => Inv
<1> SUFFICES ASSUME Init PROVE Inv
  OBVIOUS
<1>1. /\ Len(snaps) = 1 /\ snaps[1] = [key |-> First, life |-> 1]
      /\ snaps \in Seq(Contents) /\ 1 \in Revisions
  BY ConstantsAssumption DEF Init, Contents, Revisions
<1>2. \A c \in Calls : call[c] = NewCall /\ runs[c] = NewRun
  BY DEF Init
<1>3. /\ NewCall.step = "idle" /\ NewCall.of = None /\ NewCall.outcome = "none"
      /\ NewCall.got = None
  BY DEF NewCall
<1>4. /\ NewRun.stage = "unused" /\ NewRun.waiters = {} /\ ~NewRun.stopped
  BY DEF NewRun
<1>5. TypeOK
  <2>1. NewRun \in Run /\ NewCall \in Call
    BY DEF NewRun, NewCall, Run, Call, Stages, Steps, Outcomes
  <2> QED
    BY <1>1, <2>1 DEF Init, TypeOK
<1>6. Lives
  BY <1>1 DEF Init, Lives, Current
<1>7. \A q \in Calls : Waiting(q) = {}
  BY <1>2, <1>3 DEF Waiting
<1>8. Steady /\ Shared /\ Leaving
  BY <1>2, <1>3, <1>4, <1>7 DEF Steady, Shared, Leaving, Using, Active
<1>9. Owned /\ Fresh /\ OneKey /\ PendingIsWanted
  BY <1>2, <1>3, <1>4, ConstantsAssumption
  DEF Init, Owned, Fresh, OneKey, PendingIsWanted, Using, Active
<1>10. Got /\ Diagnosed
  BY <1>2, <1>3, ConstantsAssumption DEF Init, Got, Diagnosed, NoPlan
<1> QED
  BY <1>5, <1>6, <1>8, <1>9, <1>10 DEF Inv

LEMMA NextInv == Inv /\ [Next]_vars => Inv'
<1> SUFFICES ASSUME Inv, [Next]_vars PROVE Inv'
  OBVIOUS
<1>1. CASE Event
  BY <1>1, AdmitStep DEF Event, Observe, ObserveRoutes
<1>2. CASE Close
  BY <1>2, CloseStep
<1>3. ASSUME NEW c \in Calls, Serving(c) PROVE Inv'
  BY <1>3, GetStep, WalkAwayStep, AdmissibleStep, CollectStep, MaterializeStep
  DEF Serving, Calling
<1>4. ASSUME NEW c \in Calls, Working(c) PROVE Inv'
  BY <1>4, RunSteps, FinishStep DEF Working
<1>5. ASSUME NEW c \in Calls, Owning(c) PROVE Inv'
  BY <1>5, PrepareStep, GetStep, WalkAwayStep, AdmissibleStep, BuildSteps
  DEF Owning, Calling
<1>6. CASE UNCHANGED vars
  <2>1. \A q \in Calls : Waiting(q)' = Waiting(q)
    BY <1>6 DEF vars, Waiting
  <2>2. TypeOK'
    BY <1>6 DEF Inv, TypeOK, vars
  <2>3. Owned'
    <3>1. \A g \in Calls : running[g] # None => running[g] \in Calls
      BY DEF Inv, TypeOK
    <3> QED
      BY <1>6, <2>1, <3>1 DEF Inv, Owned, vars
  <2>4. Shared' /\ Lives' /\ Steady' /\ Fresh'
    BY <1>6, <2>1 DEF Inv, Shared, Lives, Steady, Fresh, Current, vars
  <2>5. OneKey' /\ Leaving' /\ Got' /\ PendingIsWanted' /\ Diagnosed'
    BY <1>6 DEF Inv, OneKey, Leaving, Got, PendingIsWanted, Diagnosed, Snap,
       Current, vars
  <2> QED
    BY <2>2, <2>3, <2>4, <2>5 DEF Inv
<1> QED
  BY <1>1, <1>2, <1>3, <1>4, <1>5, <1>6 DEF Next

LEMMA Invariance == Spec => []Inv
BY InitInv, NextInv, PTL DEF Spec

\* Whatever calls share a generation and whenever they leave it, work stops
\* only when nobody waits for it, and a call is cancelled only by its own
\* caller.
THEOREM OwnCancellation == Spec => []NobodyElsesCancellation
<1>1. Inv => NobodyElsesCancellation
  BY DEF Inv, Shared, Got, NobodyElsesCancellation
<1> QED
  BY <1>1, Invariance, PTL

\* Whatever is observed while a call prepares, it builds from the plan of its
\* own revision's declarations, a diagnostic is the current revision's, and no
\* finished generation is kept for a later call.
THEOREM BuiltFromOwnPlan == Spec => []NothingStale
<1>1. Inv => NothingStale
  BY DEF Inv, Got, Diagnosed, NothingStale
<1> QED
  BY <1>1, Invariance, PTL

\* A call of Prepare is answered as if it had worked alone.
THEOREM WorkIsSharedUnseen == Spec => []SharingIsUnseen
BY OwnCancellation, BuiltFromOwnPlan, PTL DEF SharingIsUnseen
=============================================================================
