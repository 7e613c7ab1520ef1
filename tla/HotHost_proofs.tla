--------------------------- MODULE HotHost_proofs ---------------------------
(***************************************************************************)
(* Proofs about the native host.  HotRevisions, for any number of requests,*)
(* calls, installs and any budget: nobody executes unloaded code, and the  *)
(* count that decides about unloading is exact.  HostControl, for any      *)
(* number of commands: what the session believes of its host is true,      *)
(* although replies name no command.  HotHost, the process both share.     *)
(***************************************************************************)
EXTENDS HotHost, FiniteSetTheorems, TLAPS

USE RevisionsAssumption

(***************************************************************************)
(* The inductive invariant.  Unloading looks at the count, never at who    *)
(* holds the table: the count must be right for the look to mean anything, *)
(* and a table must not come back once it was retired.                     *)
(***************************************************************************)

\* Everything named is a table that was made, and the current one is live.
TablesAreMade ==
  /\ current \in 0..installs /\ current \notin retired \cup unloaded
  /\ retired \subseteq 1..installs /\ unloaded \subseteq 1..installs
  /\ reclaim \subseteq 1..installs
  /\ \A h \in Holders : pinned[h] \in 0..installs \cup {NoTable}

CountedAndFreed == ConsumersExact /\ OnlyNeededStaysLoaded

RevisionsInv == TypeOK /\ TablesAreMade /\ CountedAndFreed /\ PinnedStaysLoaded

LEMMA HoldersFinite ==
  /\ IsFiniteSet(Holders)
  /\ \A t : /\ Executing(t) \subseteq Holders /\ IsFiniteSet(Executing(t))
            /\ Cardinality(Executing(t)) \in Nat
<1>1. IsFiniteSet(Holders)
  BY FS_Union DEF Holders
<1>2. ASSUME NEW t
      PROVE  /\ Executing(t) \subseteq Holders /\ IsFiniteSet(Executing(t))
             /\ Cardinality(Executing(t)) \in Nat
  <2>1. Executing(t) \subseteq Holders
    BY DEF Executing
  <2>2. IsFiniteSet(Executing(t))
    BY <1>1, <2>1, FS_Subset
  <2> QED
    BY <2>1, <2>2, FS_CardinalityType
<1> QED
  BY <1>1, <1>2

\* A count of zero means that nobody holds the table.
LEMMA ZeroMeansNobody ==
  ASSUME NEW t, Cardinality(Executing(t)) = 0, NEW h \in Holders
  PROVE  pinned[h] # t
<1>1. Executing(t) = {}
  BY HoldersFinite, FS_EmptySet
<1> QED
  BY <1>1 DEF Executing

LEMMA InitRevisions == Init => RevisionsInv
<1> SUFFICES ASSUME Init PROVE RevisionsInv
  OBVIOUS
<1>1. TypeOK
  BY DEF Init, TypeOK, Tables, FetchPC
<1>2. TablesAreMade /\ PinnedStaysLoaded /\ OnlyNeededStaysLoaded
  BY DEF Init, TablesAreMade, PinnedStaysLoaded, OnlyNeededStaysLoaded
<1>3. ConsumersExact
  <2>1. ASSUME NEW t \in Tables PROVE Executing(t) = {}
    BY DEF Init, Executing, Tables
  <2> QED
    BY <2>1, FS_EmptySet DEF Init, ConsumersExact
<1> QED
  BY <1>1, <1>2, <1>3 DEF RevisionsInv, CountedAndFreed

\* Acquiring the current table counts the one who acquires it.
LEMMA AcquireInv ==
  ASSUME RevisionsInv, NEW h \in Holders, pinned[h] = NoTable, Acquire(h),
         UNCHANGED <<current, installs, modules, reclaim, retired, unloaded,
                     served, fetching>>
  PROVE  RevisionsInv'
<1> USE DEF Acquire, fetching
<1>1. TypeOK /\ current \in Nat /\ 0 \in Tables /\ current \in Tables
  BY DEF RevisionsInv, TypeOK, Tables
<1>2. TypeOK'
  <2>1. consumers' \in [Tables -> Nat]
    BY <1>1 DEF TypeOK
  <2>2. pinned' \in [Holders -> Tables \cup {NoTable}]
    BY <1>1 DEF TypeOK
  <2> QED
    BY <2>1, <2>2 DEF RevisionsInv, TypeOK
<1>3. TablesAreMade' /\ PinnedStaysLoaded'
  BY <1>1 DEF RevisionsInv, TypeOK, TablesAreMade, PinnedStaysLoaded
<1>4. ConsumersExact'
  <2> SUFFICES ASSUME NEW t \in Tables \ {0}
               PROVE  consumers'[t] = Cardinality(Executing(t)')
    BY DEF ConsumersExact
  <2>1. consumers[t] = Cardinality(Executing(t))
    BY DEF RevisionsInv, CountedAndFreed, ConsumersExact
  <2>2. CASE t = current
    <3>1. Executing(t)' = Executing(t) \cup {h} /\ h \notin Executing(t)
      BY <1>1, <2>2 DEF TypeOK, Executing
    <3>2. consumers'[t] = consumers[t] + 1
      BY <1>1, <2>2 DEF TypeOK
    <3>3. Cardinality(Executing(t) \cup {h}) = Cardinality(Executing(t)) + 1
      BY <3>1, HoldersFinite, FS_AddElement
    <3> QED
      BY <2>1, <3>1, <3>2, <3>3
  <2>3. CASE t # current
    <3>1. Executing(t)' = Executing(t)
      BY <1>1, <2>3 DEF TypeOK, Executing, Tables
    <3>2. consumers'[t] = consumers[t]
      BY <1>1, <2>3 DEF TypeOK
    <3> QED
      BY <2>1, <3>1, <3>2
  <2> QED
    BY <2>2, <2>3
<1>5. OnlyNeededStaysLoaded'
  <2> SUFFICES ASSUME NEW t \in modules \cap retired \cap reclaim
               PROVE  consumers'[t] > 0
    BY DEF OnlyNeededStaysLoaded
  <2>1. consumers[t] > 0 /\ t # current
    BY DEF RevisionsInv, CountedAndFreed, OnlyNeededStaysLoaded, TablesAreMade
  <2> QED
    BY <1>1, <2>1 DEF TypeOK
<1> QED
  BY <1>2, <1>3, <1>4, <1>5 DEF RevisionsInv, CountedAndFreed

\* Releasing uncounts it, and unloads the table only when nobody is left.
LEMMA ReleaseInv ==
  ASSUME RevisionsInv, NEW h \in Holders, pinned[h] # NoTable, Release(h),
         UNCHANGED <<current, installs, reclaim, retired, fetching>>,
         served' \subseteq Requests
  PROVE  RevisionsInv'
<1> USE DEF fetching
<1>0. PICK t : t = pinned[h]
  OBVIOUS
<1>1. /\ TypeOK /\ t \in Tables /\ t \in Nat /\ t \in 0..installs
      /\ consumers[t] \in Nat
  <2>1. TypeOK /\ TablesAreMade /\ installs \in Nat
    BY DEF RevisionsInv, TypeOK, Tables
  <2>2. t \in 0..installs
    BY <1>0, <2>1 DEF TablesAreMade
  <2>3. t \in Tables
    BY <2>1, <2>2 DEF TypeOK, Tables
  <2> QED
    BY <2>1, <2>2, <2>3 DEF TypeOK
<1>2. /\ pinned' = [pinned EXCEPT ![h] = NoTable]
      /\ t = 0 => consumers' = consumers
      /\ t # 0 => consumers' = [consumers EXCEPT ![t] = consumers[t] - 1]
  BY <1>0 DEF Release
<1>3. /\ modules' \subseteq modules
      /\ unloaded' = unloaded \cup (modules \ modules')
      /\ \A x \in modules \ modules' :
           /\ x = t /\ t # 0 /\ t \in retired
           /\ consumers'[t] = 0
      /\ (t # 0 /\ t \in retired /\ t \in reclaim /\ consumers'[t] = 0)
           => t \notin modules'
  BY <1>0 DEF Release, Retire
<1>4. ASSUME NEW x \in Tables \ {0}
      PROVE  /\ consumers'[x] = Cardinality(Executing(x)')
             /\ x # t => consumers'[x] = consumers[x]
             /\ consumers'[x] \in Nat
  <2>1. consumers[x] = Cardinality(Executing(x))
    BY DEF RevisionsInv, CountedAndFreed, ConsumersExact
  <2>2. CASE x = t
    <3>1. Executing(x)' = Executing(x) \ {h} /\ h \in Executing(x)
      BY <1>0, <1>1, <1>2, <2>2 DEF TypeOK, Executing
    <3>2. consumers'[x] = consumers[x] - 1
      BY <1>1, <1>2, <2>2 DEF TypeOK
    <3>3. /\ Cardinality(Executing(x)') = Cardinality(Executing(x)) - 1
          /\ Cardinality(Executing(x)') \in Nat
      BY <3>1, HoldersFinite, FS_RemoveElement, FS_CardinalityType
    <3> QED
      BY <2>1, <2>2, <3>2, <3>3
  <2>3. CASE x # t
    <3>1. Executing(x)' = Executing(x)
      BY <1>0, <1>1, <1>2, <2>3 DEF TypeOK, Executing, Tables
    <3>2. consumers'[x] = consumers[x]
      BY <1>1, <1>2, <2>3 DEF TypeOK
    <3> QED
      BY <2>1, <3>1, <3>2, HoldersFinite
  <2> QED
    BY <2>2, <2>3
<1>5. TypeOK'
  <2>1. consumers' \in [Tables -> Nat]
    <3>1. CASE t = 0
      BY <1>1, <1>2, <3>1 DEF TypeOK
    <3>2. CASE t # 0
      <4>1. consumers[t] - 1 \in Nat
        BY <1>1, <1>2, <1>4, <3>2 DEF TypeOK
      <4> QED
        BY <1>1, <1>2, <3>2, <4>1 DEF TypeOK
    <3> QED
      BY <3>1, <3>2
  <2>2. pinned' \in [Holders -> Tables \cup {NoTable}]
    BY <1>1, <1>2 DEF TypeOK
  <2>3. modules' \subseteq 1..installs /\ unloaded' \subseteq Tables
    BY <1>1, <1>3 DEF TypeOK, Tables
  <2> QED
    BY <1>1, <2>1, <2>2, <2>3 DEF TypeOK
<1>6. TablesAreMade'
  <2>1. current \notin modules \ modules'
    BY <1>3 DEF RevisionsInv, TablesAreMade
  <2>2. \A g \in Holders : pinned'[g] \in 0..installs \cup {NoTable}
    BY <1>1, <1>2 DEF RevisionsInv, TypeOK, TablesAreMade
  <2> QED
    BY <1>1, <1>3, <2>1, <2>2 DEF RevisionsInv, TypeOK, TablesAreMade
<1>7. ConsumersExact'
  BY <1>4 DEF ConsumersExact
<1>8. OnlyNeededStaysLoaded'
  <2> SUFFICES ASSUME NEW x \in modules' \cap retired \cap reclaim
               PROVE  consumers'[x] > 0
    BY DEF OnlyNeededStaysLoaded
  <2>1. x \in Tables \ {0} /\ x \in modules
    BY <1>1, <1>3 DEF TypeOK, Tables
  <2>2. CASE x = t
    BY <1>3, <1>4, <2>1, <2>2
  <2>3. CASE x # t
    <3>1. consumers[x] > 0
      BY <2>1 DEF RevisionsInv, CountedAndFreed, OnlyNeededStaysLoaded
    <3> QED
      BY <1>4, <2>1, <2>3, <3>1
  <2> QED
    BY <2>2, <2>3
<1>9. PinnedStaysLoaded'
  <2> SUFFICES ASSUME NEW g \in Holders, pinned'[g] # NoTable
               PROVE  pinned'[g] \notin unloaded'
    BY DEF PinnedStaysLoaded
  <2>1. g # h /\ pinned'[g] = pinned[g]
    BY <1>1, <1>2 DEF TypeOK
  <2>2. pinned[g] \notin unloaded
    BY <2>1 DEF RevisionsInv, PinnedStaysLoaded
  <2>3. pinned[g] \notin modules \ modules'
    <3> SUFFICES ASSUME pinned[g] \in modules \ modules' PROVE FALSE
      OBVIOUS
    <3>1. pinned[g] = t /\ t \in Tables \ {0} /\ consumers'[t] = 0
      BY <1>1, <1>3
    <3>2. Cardinality(Executing(t)') = 0
      BY <1>4, <3>1
    <3>3. Executing(t)' = {}
      BY <3>2, HoldersFinite, FS_EmptySet, FS_Subset DEF Executing
    <3> QED
      BY <2>1, <3>1, <3>3 DEF Executing
  <2> QED
    BY <1>3, <2>1, <2>2, <2>3
<1> QED
  BY <1>5, <1>6, <1>7, <1>8, <1>9 DEF RevisionsInv, CountedAndFreed

\* An install retires the table it replaces, and unloads it if it is idle.
LEMMA InstallInv ==
  ASSUME RevisionsInv, NEW numeric \in BOOLEAN, Install(numeric)
  PROVE  RevisionsInv'
<1> USE DEF fetching, holding
<1>1. TypeOK /\ TablesAreMade /\ installs + 1 \in Tables \ {0} /\ installs \in Nat
  BY DEF RevisionsInv, TypeOK, Install, Tables
<1>2. PICK kept :
        /\ kept = Retire(current, retired', reclaim', consumers)
        /\ modules' = kept \cup {installs + 1}
        /\ unloaded' = unloaded \cup (modules \ kept)
  BY DEF Install
<1>3. /\ installs' = installs + 1 /\ current' = installs + 1
      /\ reclaim' \subseteq reclaim \cup {installs + 1} /\ reclaim \subseteq reclaim'
      /\ retired' = IF current = 0 THEN retired ELSE retired \cup {current}
      /\ UNCHANGED <<consumers, pinned, served, borrowed, owner, fetchPC>>
  BY DEF Install
<1>4. /\ kept \subseteq modules
      /\ \A x \in modules \ kept : x = current /\ current # 0 /\ consumers[current] = 0
      /\ (current # 0 /\ current \in retired' /\ current \in reclaim'
            /\ consumers[current] = 0) => current \notin kept
  BY <1>2 DEF Retire
<1>5. TypeOK'
  <2>1. installs' \in Tables /\ current' \in Tables
    BY <1>1, <1>3
  <2>2. reclaim' \subseteq Tables /\ retired' \subseteq Tables
    BY <1>1, <1>3 DEF TypeOK
  <2>3. modules' \subseteq 1..installs' /\ unloaded' \subseteq Tables
    <3>1. 1..installs \subseteq Tables \cap 1..installs'
      BY <1>1, <1>3 DEF TypeOK, Tables
    <3>2. modules \subseteq 1..installs /\ installs' \in 1..installs'
      BY <1>1, <1>3 DEF TypeOK
    <3> QED
      BY <1>1, <1>2, <1>3, <1>4, <3>1, <3>2 DEF TypeOK
  <2> QED
    BY <1>1, <1>3, <2>1, <2>2, <2>3 DEF TypeOK
<1>6. TablesAreMade'
  <2>1. retired' \subseteq 1..installs /\ unloaded' \subseteq 1..installs
    <3>1. current # 0 => current \in 1..installs
      BY <1>1 DEF TablesAreMade
    <3>2. modules \subseteq 1..installs
      BY <1>1 DEF TypeOK
    <3> QED
      BY <1>1, <1>2, <1>3, <3>1, <3>2 DEF TablesAreMade
  <2>2. 1..installs \subseteq 1..installs' /\ 0..installs \subseteq 0..installs'
        /\ installs' \in 1..installs' /\ installs' \notin 1..installs
    BY <1>1, <1>3
  <2>3. \A h \in Holders : pinned'[h] \in 0..installs' \cup {NoTable}
    BY <1>1, <1>3, <2>2 DEF TablesAreMade
  <2> QED
    BY <1>1, <1>3, <2>1, <2>2, <2>3 DEF TablesAreMade
<1>7. ConsumersExact'
  BY <1>3 DEF RevisionsInv, CountedAndFreed, ConsumersExact, Executing
<1>8. OnlyNeededStaysLoaded'
  <2> SUFFICES ASSUME NEW x \in modules' \cap retired' \cap reclaim'
               PROVE  consumers[x] > 0
    BY <1>3 DEF OnlyNeededStaysLoaded
  <2>1. x # installs + 1 /\ x \in kept /\ x \in modules /\ x \in reclaim
    <3>1. x \in retired' /\ x \in reclaim' /\ x \in kept \cup {installs + 1}
      BY <1>2
    <3>2. retired \subseteq 1..installs /\ current \in 0..installs
      BY <1>1 DEF TablesAreMade
    <3>3. x \in 1..installs
      BY <1>1, <1>3, <3>1, <3>2
    <3>4. x # installs + 1
      BY <1>1, <3>3
    <3> QED
      BY <1>3, <1>4, <3>1, <3>4
  <2>2. CASE x = current
    BY <1>1, <1>4, <2>1, <2>2 DEF TypeOK, Tables
  <2>3. CASE x # current
    BY <1>3, <2>1, <2>3 DEF RevisionsInv, CountedAndFreed, OnlyNeededStaysLoaded
  <2> QED
    BY <2>2, <2>3
<1>9. PinnedStaysLoaded'
  <2> SUFFICES ASSUME NEW h \in Holders, pinned[h] # NoTable
               PROVE  pinned[h] \notin unloaded'
    BY <1>3 DEF PinnedStaysLoaded
  <2>1. pinned[h] \notin unloaded
    BY DEF RevisionsInv, PinnedStaysLoaded
  <2>2. pinned[h] \notin modules \ kept
    <3> SUFFICES ASSUME pinned[h] \in modules \ kept PROVE FALSE
      OBVIOUS
    <3>1. pinned[h] = current /\ current \in Tables \ {0} /\ consumers[current] = 0
      BY <1>1, <1>4 DEF TypeOK
    <3>2. Cardinality(Executing(current)) = 0
      BY <3>1 DEF RevisionsInv, CountedAndFreed, ConsumersExact
    <3> QED
      BY <3>1, <3>2, ZeroMeansNobody
  <2> QED
    BY <1>2, <2>1, <2>2
<1> QED
  BY <1>5, <1>6, <1>7, <1>8, <1>9 DEF RevisionsInv, CountedAndFreed

\* One that cannot be prepared stays loaded, and nobody ever holds it.
LEMMA UnpreparedInv == RevisionsInv /\ InstallUnprepared => RevisionsInv'
<1> SUFFICES ASSUME RevisionsInv, InstallUnprepared PROVE RevisionsInv'
  OBVIOUS
<1> USE DEF InstallUnprepared, fetching, holding
<1>1. TypeOK /\ TablesAreMade /\ installs + 1 \in Tables /\ installs \in Nat
  BY DEF RevisionsInv, TypeOK, Tables
<1>2. TypeOK'
  <2>1. modules' \subseteq 1..installs'
    BY <1>1 DEF TypeOK
  <2> QED
    BY <1>1, <2>1 DEF TypeOK
<1>3. TablesAreMade'
  BY <1>1 DEF TypeOK, TablesAreMade
<1>4. ConsumersExact' /\ PinnedStaysLoaded'
  BY DEF RevisionsInv, CountedAndFreed, ConsumersExact, Executing, PinnedStaysLoaded
<1>5. OnlyNeededStaysLoaded'
  <2>1. installs + 1 \notin retired
    BY <1>1 DEF TablesAreMade
  <2> QED
    BY <2>1 DEF RevisionsInv, CountedAndFreed, OnlyNeededStaysLoaded
<1> QED
  BY <1>2, <1>3, <1>4, <1>5 DEF RevisionsInv, CountedAndFreed

\* Subrequests change nothing that a table's life depends on.
LEMMA FetchingInv ==
  ASSUME RevisionsInv, TypeOK', UNCHANGED <<revisions, holding>>
  PROVE  RevisionsInv'
BY DEF RevisionsInv, TablesAreMade, CountedAndFreed, ConsumersExact, Executing,
       OnlyNeededStaysLoaded, PinnedStaysLoaded, revisions, holding

LEMMA NextRevisions == RevisionsInv /\ [Next]_vars => RevisionsInv'
<1> SUFFICES ASSUME RevisionsInv, [Next]_vars PROVE RevisionsInv'
  OBVIOUS
<1>1. ASSUME NEW r \in Requests, Serve(r) \/ Return(r) PROVE RevisionsInv'
  <2>1. r \in Holders
    BY DEF Holders
  <2>2. CASE Serve(r)
    BY <2>1, <2>2, AcquireInv DEF Serve
  <2>3. CASE Return(r)
    <3>1. served' \subseteq Requests
      BY <2>3 DEF RevisionsInv, TypeOK, Return
    <3> QED
      BY <2>1, <2>3, <3>1, ReleaseInv DEF Return
  <2> QED
    BY <1>1, <2>2, <2>3
<1>2. ASSUME NEW c \in Callers, Call(c) \/ CallReturns(c) PROVE RevisionsInv'
  <2>1. c \in Holders
    BY DEF Holders
  <2>2. CASE Call(c)
    BY <2>1, <2>2, AcquireInv DEF Call
  <2>3. CASE CallReturns(c)
    <3>1. served' \subseteq Requests
      BY <2>3 DEF RevisionsInv, TypeOK, CallReturns
    <3> QED
      BY <2>1, <2>3, <3>1, ReleaseInv DEF CallReturns
  <2> QED
    BY <1>2, <2>2, <2>3
<1>3. ASSUME NEW r \in Requests, NEW f \in Fetches, Fetch(r, f) PROVE RevisionsInv'
  <2>1. r \in Holders /\ pinned[r] \in Tables \cup {NoTable}
    BY DEF RevisionsInv, TypeOK, Holders
  <2>2. TypeOK'
    BY <1>3, <2>1 DEF RevisionsInv, TypeOK, Fetch, FetchPC, revisions, holding
  <2> QED
    BY <1>3, <2>2, FetchingInv DEF Fetch
<1>4. ASSUME NEW f \in Fetches, FetchResolves(f) \/ FetchReturns(f) PROVE RevisionsInv'
  <2>1. TypeOK'
    BY <1>4 DEF RevisionsInv, TypeOK, FetchResolves, FetchReturns, FetchPC, revisions,
               holding
  <2> QED
    BY <1>4, <2>1, FetchingInv DEF FetchResolves, FetchReturns
<1>5. CASE UNCHANGED vars
  <2>1. TypeOK'
    BY <1>5 DEF RevisionsInv, TypeOK, vars, revisions, holding, fetching
  <2> QED
    BY <1>5, <2>1, FetchingInv DEF vars
<1> QED
  BY <1>1, <1>2, <1>3, <1>4, <1>5, InstallInv, UnpreparedInv DEF Next

LEMMA RevisionsInvariance == Spec => []RevisionsInv
BY InitRevisions, NextRevisions, PTL DEF Spec

\* A table that a request or a direct call acquired is not unloaded before it
\* is released, however many installs retire it meanwhile.
THEOREM HeldCodeIsLoaded == Spec => []PinnedStaysLoaded
<1>1. RevisionsInv => PinnedStaysLoaded
  BY DEF RevisionsInv
<1> QED
  BY <1>1, RevisionsInvariance, PTL

\* Its consumers are counted exactly, and a retired, reclaimable table is gone
\* once they are.
THEOREM LoadedExactlyWhileUsed == Spec => []LoadedWhileUsed
<1>1. RevisionsInv => LoadedWhileUsed
  BY DEF RevisionsInv, CountedAndFreed, LoadedWhileUsed
<1> QED
  BY <1>1, RevisionsInvariance, PTL

-----------------------------------------------------------------------------
(* The control stream.                                                      *)

USE CommandsAssumption

(***************************************************************************)
(* The inductive invariant.  A trusted stream holds at most one thing: the *)
(* command, the child at work on it, or its reply.  A read that fails      *)
(* leaves it somewhere behind, which is why nothing is ever exchanged over *)
(* that stream again.                                                      *)
(***************************************************************************)
Numbered ==
  /\ commands \in Seq(1..sent)
  /\ replies \in Seq([id : 1..sent, kind : {"ok", "error"}])
  /\ child = "busy" => doing \in 1..sent

\* Where the one command of an exchange is.
OnItsWay  == commands = <<sent>> /\ replies = <<>> /\ child # "busy"
InTheWork == commands = <<>> /\ replies = <<>> /\ (child = "busy" => doing = sent)
Answered(kind) ==
  /\ commands = <<>> /\ child # "busy"
  /\ replies = <<[id |-> sent, kind |-> kind]>>

\* What the child has, before and after it carried the command out.
AsBelieved == child # "gone" => code = installed /\ dist = reloaded
AsCarried ==
  child # "gone" =>
    /\ code = IF op[sent] = "install" THEN sent ELSE installed
    /\ dist = IF op[sent] = "reload" THEN sent ELSE reloaded

\* No read has failed, not even one whose exchange has still to say so.
Trusted == ~controlErr /\ got # "failed"

OneInFlight ==
  Trusted =>
    /\ pc = "idle" => /\ commands = <<>> /\ replies = <<>> /\ child # "busy"
                      /\ AsBelieved
    /\ pc = "reading" => \/ (OnItsWay \/ InTheWork \/ Answered("error")) /\ AsBelieved
                         \/ Answered("ok") /\ AsCarried
    /\ pc = "leaving" =>
         /\ commands = <<>> /\ replies = <<>> /\ child # "busy"
         /\ got = "ok" => AsCarried
         /\ got = "error" => AsBelieved

\* The only callback there may be is that of the exchange under way, and it runs
\* for that exchange's context.
OwnCallback ==
  /\ \A id \in Ids : callback[id] # "off" => pc # "idle" /\ id = sent
  /\ \A id \in Ids : callback[id] \in {"running", "over"} => stopped \/ expired
  /\ CutForItself

ControlInv ==
  /\ ControlTypeOK /\ Numbered /\ OneInFlight /\ OwnCallback
  /\ pc # "idle" => ~controlErr /\ sent \in 1..MaxCommands
  /\ pc = "leaving" <=> got # "none"

LEMMA InitControl == ControlInit => ControlInv
<1> SUFFICES ASSUME ControlInit PROVE ControlInv
  OBVIOUS
<1>1. ControlTypeOK
  <2>1. commands \in Seq(Ids) /\ replies \in Seq(Reply)
    BY DEF ControlInit
  <2>2. sent \in 0..MaxCommands /\ 0 \in 0..sent
    BY DEF ControlInit
  <2> QED
    BY <2>1, <2>2 DEF ControlInit, ControlTypeOK
<1>2. Numbered /\ OneInFlight
  <2>1. commands \in Seq(1..sent)
        /\ replies \in Seq([id : 1..sent, kind : {"ok", "error"}])
    BY DEF ControlInit
  <2> QED
    BY <2>1 DEF ControlInit, Numbered, OneInFlight, Trusted, AsBelieved
<1>3. OwnCallback
  BY DEF ControlInit, OwnCallback, CutForItself
<1> QED
  BY <1>1, <1>2, <1>3 DEF ControlInit, ControlInv

\* What touches neither the pipes nor a callback.
LEMMA QuietInv ==
  ControlInv /\ (Refused \/ WriteFailed \/ ReadFailed) => ControlInv'
<1> SUFFICES ASSUME ControlInv, Refused \/ WriteFailed \/ ReadFailed PROVE ControlInv'
  OBVIOUS
<1> USE DEF Refused, WriteFailed, ReadFailed, reading, pipes, belief, process
<1>1. ControlTypeOK'
  <2>1. result' \in {"none", "ok", "error", "complete", "canceled"}
    BY DEF ControlInv, ControlTypeOK, Failure
  <2> QED
    BY <2>1 DEF ControlInv, ControlTypeOK
<1>2. Numbered'
  BY DEF ControlInv, Numbered
<1>3. OneInFlight'
  BY DEF ControlInv, OneInFlight, Trusted, AsBelieved, Usable
<1>4. OwnCallback'
  BY DEF ControlInv, OwnCallback, CutForItself
<1> QED
  BY <1>1, <1>2, <1>3, <1>4 DEF ControlInv, Usable

\* Contexts end, deadlines pass and callbacks run: the pipes stay as they are,
\* and a deadline is cut only by the callback of the exchange that reads by it.
LEMMA TimeInv ==
  ASSUME ControlInv,
         \/ SessionStops \/ ContextExpires \/ DeadlinePasses
         \/ \E id \in Ids : CallbackStarts(id) \/ Callback(id)
  PROVE  ControlInv'
<1> USE DEF SessionStops, ContextExpires, DeadlinePasses, CallbackStarts, Callback,
            reading, pipes, belief, process
<1>1. ControlTypeOK'
  <2>1. CASE SessionStops \/ ContextExpires \/ DeadlinePasses
    <3>1. /\ limit' \in {"ahead", "past", "cut"} /\ expired' \in BOOLEAN
          /\ stopped' \in BOOLEAN
      BY <2>1 DEF ControlInv, ControlTypeOK
    <3>2. UNCHANGED <<sent, op, pc, got, callback, commands, replies, controlErr,
                      installed, reloaded, result, acked, child, doing, code, dist>>
      BY <2>1
    <3> QED
      BY <3>1, <3>2 DEF ControlInv, ControlTypeOK
  <2>2. ASSUME NEW id \in Ids, CallbackStarts(id) \/ Callback(id)
        PROVE  ControlTypeOK'
    <3>1. /\ callback' \in [Ids -> {"off", "armed", "running", "over"}]
          /\ limit' \in {"ahead", "past", "cut"}
      BY <2>2 DEF ControlInv, ControlTypeOK
    <3> QED
      BY <2>2, <3>1 DEF ControlInv, ControlTypeOK
  <2> QED
    BY <2>1, <2>2
<1>2. Numbered' /\ OneInFlight'
  BY DEF ControlInv, Numbered, OneInFlight, Trusted, OnItsWay, InTheWork, Answered, AsBelieved,
         AsCarried
<1>3. OwnCallback'
  <2>1. CASE SessionStops \/ ContextExpires \/ DeadlinePasses
    BY <2>1 DEF ControlInv, OwnCallback, CutForItself
  <2>2. ASSUME NEW id \in Ids, CallbackStarts(id) \/ Callback(id)
        PROVE  OwnCallback'
    <3>1. /\ callback[id] # "off" /\ (stopped \/ expired)
          /\ \A i \in Ids : i # id => callback'[i] = callback[i]
          /\ UNCHANGED <<pc, sent, stopped, expired>>
      BY <2>2 DEF ControlInv, ControlTypeOK, OwnCallback
    <3> QED
      BY <3>1 DEF ControlInv, OwnCallback, CutForItself
  <2> QED
    BY <2>1, <2>2
<1> QED
  BY <1>1, <1>2, <1>3 DEF ControlInv

LEMMA WriteInv == ControlInv /\ Write => ControlInv'
<1> SUFFICES ASSUME ControlInv, Write PROVE ControlInv'
  OBVIOUS
<1> USE DEF Write, belief, process, Usable
<1>1. sent \in Nat /\ sent' = sent + 1 /\ sent' \in Ids /\ commands = <<>>
      /\ replies = <<>> /\ child # "busy" /\ AsBelieved
  BY DEF ControlInv, ControlTypeOK, OneInFlight, Trusted, Ids
<1>2. commands' = <<sent'>>
  BY <1>1
<1>3. ControlTypeOK'
  <2>1. commands' \in Seq(Ids)
    BY <1>1, <1>2
  <2>2. 0..sent \subseteq 0..sent' /\ sent' \in 0..MaxCommands
    BY <1>1 DEF Ids
  <2> QED
    BY <1>1, <2>1, <2>2 DEF ControlInv, ControlTypeOK
<1>4. Numbered'
  <2>1. commands' \in Seq(1..sent')
    BY <1>1, <1>2
  <2>2. replies' \in Seq([id : 1..sent', kind : {"ok", "error"}])
    BY <1>1
  <2> QED
    BY <1>1, <2>1, <2>2 DEF Numbered
<1>5. OneInFlight'
  BY <1>1, <1>2 DEF ControlInv, OneInFlight, Trusted, OnItsWay, AsBelieved
<1>6. OwnCallback'
  <2>1. \A id \in Ids : callback[id] = "off"
    BY DEF ControlInv, ControlTypeOK, OwnCallback
  <2>2. \A id \in Ids : callback'[id] = IF id = sent' THEN "armed" ELSE "off"
    BY <1>1, <2>1 DEF ControlInv, ControlTypeOK
  <2> QED
    BY <1>1, <2>2 DEF OwnCallback, CutForItself
<1> QED
  BY <1>1, <1>3, <1>4, <1>5, <1>6 DEF ControlInv, Ids

\* The reply that is read is that of the command that was sent last.
LEMMA ReadIsItsOwn ==
  ASSUME ControlInv, Read
  PROVE  /\ commands = <<>> /\ child # "busy" /\ sent \in 1..MaxCommands
         /\ ~controlErr
         /\ \E kind \in {"ok", "error"} :
              /\ replies = <<[id |-> sent, kind |-> kind]>>
              /\ kind = "ok" => AsCarried
              /\ kind = "error" => AsBelieved
<1>1. pc = "reading" /\ ~controlErr /\ replies # <<>> /\ sent \in 1..MaxCommands
  BY DEF ControlInv, Read
<1>2. (Answered("error") /\ AsBelieved) \/ (Answered("ok") /\ AsCarried)
  BY <1>1 DEF ControlInv, OneInFlight, Trusted, OnItsWay, InTheWork
<1> QED
  BY <1>1, <1>2 DEF Answered

LEMMA ReadInv == ControlInv /\ Read => ControlInv' /\ acked' = sent
<1> SUFFICES ASSUME ControlInv, Read PROVE ControlInv' /\ acked' = sent
  OBVIOUS
<1>1. PICK kind \in {"ok", "error"} :
        /\ replies = <<[id |-> sent, kind |-> kind]>>
        /\ kind = "ok" => AsCarried
        /\ kind = "error" => AsBelieved
  BY ReadIsItsOwn
<1>2. commands = <<>> /\ child # "busy" /\ sent \in 1..MaxCommands /\ ~controlErr
  BY ReadIsItsOwn
<1>3. PICK reply : reply = Head(replies)
  OBVIOUS
<1>4. reply = [id |-> sent, kind |-> kind] /\ Tail(replies) = <<>>
  BY <1>1, <1>3
<1>5. reply.id = sent /\ reply.kind = kind
  BY <1>4
<1>6. /\ replies' = <<>> /\ acked' = sent /\ got' = kind
      /\ pc = "reading" /\ pc' = "leaving"
      /\ UNCHANGED <<sent, op, reading, commands, controlErr, installed, reloaded,
                     result, process, stopped>>
  BY <1>3, <1>4, <1>5 DEF Read
<1>7. ControlTypeOK'
  <2>1. replies' \in Seq(Reply)
    BY <1>6
  <2> QED
    BY <1>2, <1>6, <2>1 DEF ControlInv, ControlTypeOK, reading, process
<1>8. Numbered'
  <2>1. replies' \in Seq([id : 1..sent', kind : {"ok", "error"}])
    BY <1>6
  <2> QED
    BY <1>2, <1>6, <2>1 DEF ControlInv, Numbered, process
<1>9. OneInFlight'
  BY <1>1, <1>2, <1>6 DEF OneInFlight, Trusted, AsBelieved, AsCarried, process
<1>10. OwnCallback'
  BY <1>6 DEF ControlInv, OwnCallback, CutForItself, reading
<1> QED
  BY <1>2, <1>6, <1>7, <1>8, <1>9, <1>10 DEF ControlInv

\* The session believes what the reply said, and the exchange takes its callback
\* with it.
LEMMA FinishInv == ControlInv /\ Finish => ControlInv'
<1> SUFFICES ASSUME ControlInv, Finish PROVE ControlInv'
  OBVIOUS
<1>1. /\ pc = "leaving" /\ ~controlErr /\ sent \in 1..MaxCommands
      /\ got \in {"ok", "error", "failed"} /\ op[sent] \in Op /\ sent \in Ids
  BY DEF ControlInv, ControlTypeOK, Finish, Ids
<1>2. /\ installed' = IF got = "ok" /\ op[sent] = "install" THEN sent ELSE installed
      /\ reloaded'  = IF got = "ok" /\ op[sent] = "reload"  THEN sent ELSE reloaded
      /\ result' \in {"none", "ok", "error", "complete", "canceled"}
      /\ controlErr' = (controlErr \/ got = "failed")
      /\ pc' = "idle" /\ got' = "none" /\ expired' = FALSE
      /\ UNCHANGED <<sent, op, limit, commands, replies, acked, child, doing, code,
                     dist, stopped>>
  BY DEF Finish, Believe, Failure, pipes, process
<1>3. /\ callback' \in [Ids -> {"off", "armed", "running", "over"}]
      /\ \A id \in Ids : callback'[id] = "off"
  <2>1. callback' = [callback EXCEPT ![sent] = "off"]
    BY <1>1 DEF ControlInv, ControlTypeOK, Finish, Joined
  <2>2. \A id \in Ids : id # sent => callback[id] = "off"
    BY DEF ControlInv, ControlTypeOK, OwnCallback
  <2> QED
    BY <1>1, <2>1, <2>2 DEF ControlInv, ControlTypeOK
<1>4. ControlTypeOK'
  <2>1. installed' \in 0..sent /\ reloaded' \in 0..sent
    BY <1>1, <1>2 DEF ControlInv, ControlTypeOK
  <2>2. controlErr' \in BOOLEAN
    BY <1>2 DEF ControlInv, ControlTypeOK
  <2> QED
    BY <1>2, <1>3, <2>1, <2>2 DEF ControlInv, ControlTypeOK
<1>5. Numbered'
  BY <1>2 DEF ControlInv, Numbered
<1>6. OneInFlight'
  <2> SUFFICES ASSUME got # "failed"
               PROVE  /\ commands = <<>> /\ replies = <<>> /\ child # "busy"
                      /\ AsBelieved'
    BY <1>1, <1>2 DEF OneInFlight, Trusted
  <2>1. /\ commands = <<>> /\ replies = <<>> /\ child # "busy"
        /\ got = "ok" => AsCarried
        /\ got = "error" => AsBelieved
    BY <1>1 DEF ControlInv, OneInFlight, Trusted
  <2> QED
    BY <1>1, <1>2, <2>1 DEF AsBelieved, AsCarried, Op
<1>7. OwnCallback'
  BY <1>2, <1>3 DEF OwnCallback, CutForItself
<1> QED
  BY <1>2, <1>4, <1>5, <1>6, <1>7 DEF ControlInv

LEMMA DecodeInv == ControlInv /\ Decode => ControlInv'
<1> SUFFICES ASSUME ControlInv, Decode PROVE ControlInv'
  OBVIOUS
<1> USE DEF Decode, reading, belief
<1>1. Head(commands) \in 1..sent /\ Tail(commands) \in Seq(1..sent)
  <2>1. PICK S : S = 1..sent
    OBVIOUS
  <2>2. commands \in Seq(S) /\ commands # <<>>
    BY <2>1 DEF ControlInv, Numbered
  <2>3. Head(commands) \in S /\ Tail(commands) \in Seq(S)
    BY <2>2
  <2> QED
    BY <2>1, <2>3
<1>2. ControlTypeOK'
  <2>1. Tail(commands) \in Seq(Ids)
    BY DEF ControlInv, ControlTypeOK
  <2>2. Head(commands) \in 0..sent
    BY <1>1 DEF ControlInv, ControlTypeOK
  <2> QED
    BY <2>1, <2>2 DEF ControlInv, ControlTypeOK
<1>3. Numbered'
  BY <1>1 DEF ControlInv, Numbered
<1>4. OneInFlight'
  <2>1. ASSUME Trusted
        PROVE  pc = "reading" /\ OnItsWay /\ AsBelieved
    <3>1. pc = "reading"
      BY <2>1 DEF ControlInv, ControlTypeOK, OneInFlight, Trusted
    <3> QED
      BY <2>1, <3>1 DEF ControlInv, OneInFlight, Trusted, InTheWork, Answered
  <2>2. ASSUME Trusted
        PROVE  commands' = <<>> /\ doing' = sent
    <3>1. commands = <<sent>>
      BY <2>1, <2>2 DEF OnItsWay
    <3>2. Head(<<sent>>) = sent /\ Tail(<<sent>>) = <<>>
      OBVIOUS
    <3> QED
      BY <3>1, <3>2
  <2> QED
    BY <2>1, <2>2 DEF OneInFlight, Trusted, OnItsWay, InTheWork, AsBelieved
<1>5. OwnCallback'
  BY DEF ControlInv, OwnCallback, CutForItself
<1> QED
  BY <1>2, <1>3, <1>4, <1>5 DEF ControlInv

\* Both of the child's answers.
LEMMA AnswerInv == ControlInv /\ (Carry \/ Refuse) => ControlInv'
<1> SUFFICES ASSUME ControlInv, Carry \/ Refuse PROVE ControlInv'
  OBVIOUS
<1>1. PICK kind \in {"ok", "error"} :
        /\ replies' = Append(replies, [id |-> doing, kind |-> kind])
        /\ kind = "ok" => /\ code' = IF op[doing] = "install" THEN doing ELSE code
                          /\ dist' = IF op[doing] = "reload" THEN doing ELSE dist
        /\ kind = "error" => UNCHANGED <<code, dist>>
  BY DEF Carry, Refuse
<1>2. /\ child = "busy" /\ child' = "up"
      /\ UNCHANGED <<sent, op, pc, got, limit, expired, callback, commands, controlErr,
                     installed, reloaded, result, acked, doing, stopped>>
  BY DEF Carry, Refuse, reading, belief
<1>3. doing \in 1..sent /\ sent \in 0..MaxCommands
  BY <1>2 DEF ControlInv, ControlTypeOK, Numbered
<1>4. PICK reply : reply = [id |-> doing, kind |-> kind]
  OBVIOUS
<1>5. /\ reply \in [id : 1..sent, kind : {"ok", "error"}]
      /\ reply \in Reply
  BY <1>3, <1>4 DEF Reply, Ids
<1>6. ControlTypeOK'
  <2>1. replies' \in Seq(Reply)
    BY <1>1, <1>4, <1>5 DEF ControlInv, ControlTypeOK
  <2>2. code' \in 0..sent /\ dist' \in 0..sent
    BY <1>1, <1>3 DEF ControlInv, ControlTypeOK
  <2> QED
    BY <1>2, <2>1, <2>2 DEF ControlInv, ControlTypeOK
<1>7. Numbered'
  <2>1. replies' \in Seq([id : 1..sent, kind : {"ok", "error"}])
    BY <1>1, <1>4, <1>5 DEF ControlInv, Numbered
  <2> QED
    BY <1>2, <2>1 DEF ControlInv, Numbered
<1>8. OneInFlight'
  <2> SUFFICES ASSUME Trusted PROVE OneInFlight'
    BY <1>2 DEF OneInFlight, Trusted, Trusted
  <2>1. pc = "reading" /\ InTheWork /\ AsBelieved
    BY <1>2 DEF ControlInv, ControlTypeOK, OneInFlight, Trusted, OnItsWay, Answered
  <2>2. replies' = <<[id |-> sent, kind |-> kind]>> /\ commands' = <<>> /\ doing = sent
    BY <1>1, <1>2, <2>1 DEF InTheWork
  <2>3. Answered(kind)'
    BY <1>2, <2>2 DEF Answered
  <2>4. (kind = "ok" => AsCarried') /\ (kind = "error" => AsBelieved')
    BY <1>1, <1>2, <2>1, <2>2 DEF AsBelieved, AsCarried
  <2> QED
    BY <1>2, <2>1, <2>3, <2>4 DEF OneInFlight, Trusted
<1>9. OwnCallback'
  BY <1>2 DEF ControlInv, OwnCallback, CutForItself
<1> QED
  BY <1>2, <1>6, <1>7, <1>8, <1>9 DEF ControlInv

\* A child that is gone makes no claim false.
LEMMA DieInv == ControlInv /\ Die => ControlInv'
<1> SUFFICES ASSUME ControlInv, Die PROVE ControlInv'
  OBVIOUS
<1> USE DEF Die, reading, pipes, belief
<1>1. ControlTypeOK' /\ Numbered'
  BY DEF ControlInv, ControlTypeOK, Numbered
<1>2. OneInFlight'
  BY DEF ControlInv, ControlTypeOK, OneInFlight, Trusted, OnItsWay, InTheWork, Answered, AsBelieved, AsCarried
<1>3. OwnCallback'
  BY DEF ControlInv, OwnCallback, CutForItself
<1> QED
  BY <1>1, <1>2, <1>3 DEF ControlInv

LEMMA NextControl == ControlInv /\ [ControlNext]_controlVars => ControlInv'
<1>1. ControlInv /\ UNCHANGED controlVars => ControlInv'
  BY DEF ControlInv, ControlTypeOK, Numbered, OneInFlight, Trusted, OnItsWay, InTheWork, Answered,
         AsBelieved, AsCarried, Trusted, OwnCallback, CutForItself, controlVars, reading,
         pipes, belief, process
<1> QED
  BY <1>1, QuietInv, TimeInv, WriteInv, ReadInv, FinishInv, DecodeInv, AnswerInv, DieInv
     DEF ControlNext, ControlSide

LEMMA ControlInvariance == ControlSpec => []ControlInv
BY InitControl, NextControl, PTL DEF ControlSpec

\* Between exchanges, while the stream is trusted and the child lives, it runs
\* the code and serves the output the session believes it does.
THEOREM TheSessionIsRight == ControlSpec => []BeliefIsTrue
<1>1. ControlInv => BeliefIsTrue
  BY DEF ControlInv, OneInFlight, Trusted, AsBelieved, BeliefIsTrue
<1> QED
  BY <1>1, ControlInvariance, PTL

\* An exchange returns the reply to its own command, never a late one to an
\* earlier, and its read is cut short by no other exchange's callback.
THEOREM ExchangesAreApart == ControlSpec => ExchangesKeepApart
<1>1. ASSUME ControlInv, [ControlNext]_controlVars
      PROVE  (acked' # acked => acked' = sent) /\ CutForItself'
  <2>1. Read => acked' = sent
    BY <1>1, ReadInv
  <2>2. ASSUME \/ Refused \/ WriteFailed \/ Write \/ ReadFailed \/ Finish
               \/ SessionStops \/ ContextExpires \/ DeadlinePasses
               \/ \E id \in Ids : CallbackStarts(id) \/ Callback(id)
        PROVE  acked' = acked
    BY <2>2 DEF Refused, WriteFailed, Write, ReadFailed, Finish, SessionStops,
       ContextExpires, DeadlinePasses, CallbackStarts, Callback, belief
  <2>3. Decode \/ Carry \/ Refuse \/ Die \/ UNCHANGED controlVars => acked' = acked
    BY DEF Decode, Carry, Refuse, Die, controlVars, belief
  <2>4. ControlInv'
    BY <1>1, NextControl
  <2>5. CutForItself'
    BY <2>4 DEF ControlInv, OwnCallback
  <2>6. acked' # acked => acked' = sent
    BY <1>1, <2>1, <2>2, <2>3 DEF ControlNext, ControlSide
  <2> QED
    BY <2>5, <2>6
<1> QED
  BY <1>1, ControlInvariance, PTL DEF ControlSpec, ExchangesKeepApart

(***************************************************************************)
(* The whole host.  A step of it is a step of each part, or leaves that    *)
(* part alone, so what was proved of the parts holds of it.                *)
(***************************************************************************)
LEMMA StepOfControl == [HostNext]_hostVars => [ControlNext]_controlVars
<1>1. ServingStep \/ UNCHANGED hostVars => UNCHANGED controlVars
  BY DEF ServingStep, hostVars
<1>2. SessionStep => ControlNext
  BY DEF SessionStep, ControlNext
<1>3. ChildStep => ControlNext
  BY DEF ChildStep, DecodeOrDie, CarryReload, CarryInstall, RefusePlainly,
         RefuseUnprepared, ControlNext
<1> QED
  BY <1>1, <1>2, <1>3 DEF HostNext

LEMMA StepOfRevisions == [HostNext]_hostVars => [Next]_vars
<1>1. SessionStep \/ UNCHANGED hostVars => UNCHANGED vars
  BY DEF SessionStep, hostVars, native
<1>2. ChildStep => [Next]_vars
  BY DEF ChildStep, DecodeOrDie, CarryReload, CarryInstall, RefusePlainly,
         RefuseUnprepared, native, Next
<1>3. ServingStep => Next
  BY DEF ServingStep, Next
<1> QED
  BY <1>1, <1>2, <1>3 DEF HostNext

\* The process implements the control protocol and the revisions' specification.
THEOREM HostKeepsItsParts == HostSpec => ControlSpec /\ Spec
<1>1. HostInit => ControlInit /\ Init
  BY DEF HostInit
<1> QED
  BY <1>1, StepOfControl, StepOfRevisions, PTL DEF HostSpec, ControlSpec, Spec

\* The current table is always made of the candidate the child carried out last:
\* the two change in one critical section.
TableIsTheCode ==
  /\ made \in [Tables -> 0..MaxCommands] /\ current \in Tables
  /\ installs \in Nat /\ made[current] = code

LEMMA TableInit == HostInit => TableIsTheCode
BY RevisionsAssumption, CommandsAssumption
   DEF HostInit, Init, ControlInit, TableIsTheCode, Tables

LEMMA TableNext == ControlInv /\ TableIsTheCode /\ [HostNext]_hostVars => TableIsTheCode'
<1> SUFFICES ASSUME ControlInv, TableIsTheCode, [HostNext]_hostVars PROVE TableIsTheCode'
  OBVIOUS
<1>1. ASSUME NEW numeric \in BOOLEAN, CarryInstall(numeric) PROVE TableIsTheCode'
  <2>1. /\ installs' = installs + 1 /\ current' = installs + 1
        /\ installs < MaxInstalls /\ code' = doing
        /\ made' = [made EXCEPT ![installs + 1] = doing]
    BY <1>1 DEF CarryInstall, Install, Carry
  <2>2. installs + 1 \in Tables /\ doing \in 0..MaxCommands
    <3>1. doing \in 0..sent /\ sent \in 0..MaxCommands
      BY DEF ControlInv, ControlTypeOK
    <3> QED
      BY <2>1, <3>1, RevisionsAssumption, CommandsAssumption
         DEF TableIsTheCode, Tables
  <2> QED
    BY <2>1, <2>2 DEF TableIsTheCode
<1>2. ASSUME UNCHANGED <<made, current, code>>, installs' \in Nat
      PROVE  TableIsTheCode'
    BY <1>2 DEF TableIsTheCode
<1>3. CASE SessionStep \/ UNCHANGED hostVars
  <2>1. ControlSide => UNCHANGED code
    BY DEF ControlSide, Refused, WriteFailed, Write, Read, ReadFailed, Finish,
       SessionStops, ContextExpires, DeadlinePasses, CallbackStarts, Callback, process
  <2> QED
    BY <1>2, <1>3, <2>1 DEF TableIsTheCode, SessionStep, hostVars, native, vars, revisions,
       controlVars, process
<1>4. CASE ServingStep
  BY <1>2, <1>4 DEF TableIsTheCode, ServingStep, Serve, Return, Call, CallReturns,
     Fetch, FetchResolves, FetchReturns, revisions, controlVars, process
<1>5. CASE RefuseUnprepared
  BY <1>2, <1>5 DEF TableIsTheCode, RefuseUnprepared, Refuse, InstallUnprepared
<1>6. CASE RefusePlainly \/ CarryReload \/ DecodeOrDie
  <2>1. UNCHANGED <<made, current, installs>>
    BY <1>6 DEF RefusePlainly, CarryReload, DecodeOrDie, native, vars, revisions
  <2>2. code' = code
    BY <1>6 DEF RefusePlainly, CarryReload, DecodeOrDie, Refuse, Carry, Decode, Die
  <2> QED
    BY <1>2, <2>1, <2>2 DEF TableIsTheCode
<1>7. CASE \E numeric \in BOOLEAN : CarryInstall(numeric)
  <2>1. PICK numeric \in BOOLEAN : CarryInstall(numeric)
    BY <1>7
  <2> QED
    BY <1>1, <2>1
<1>8. CASE ChildStep
  BY <1>5, <1>6, <1>7, <1>8 DEF ChildStep
<1> QED
  BY <1>3, <1>4, <1>8 DEF HostNext

\* Between exchanges, while the stream is trusted and the child lives, what a
\* request enters is what the session believes it installed.
THEOREM RequestsRunWhatIsBelieved == HostSpec => []BeliefReachesRequests
<1>1. ControlInv /\ TableIsTheCode => BeliefReachesRequests
  BY DEF ControlInv, OneInFlight, Trusted, AsBelieved, BeliefIsTrue, BeliefReachesRequests,
         TableIsTheCode, Alive
<1>2. HostInit => ControlInv /\ TableIsTheCode
  BY InitControl, TableInit DEF HostInit
<1>3. ControlInv /\ TableIsTheCode /\ [HostNext]_hostVars => (ControlInv /\ TableIsTheCode)'
  BY StepOfControl, NextControl, TableNext
<1> QED
  BY <1>1, <1>2, <1>3, PTL DEF HostSpec
=============================================================================
