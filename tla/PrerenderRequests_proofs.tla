----------------------- MODULE PrerenderRequests_proofs -----------------------
(***************************************************************************)
(* Proofs about PrerenderRequests, for any number of requests and          *)
(* callbacks: what an end guarantees, what a response's answer means, and  *)
(* that every handler that runs has an owner.  Then about FetchExchange,   *)
(* for any number of fetches and continuations: whose response a call      *)
(* gets, and that the owner of the fetches ends last.                      *)
(***************************************************************************)
EXTENDS PrerenderRequests, FetchExchange, FiniteSetTheorems, TLAPS

USE ConstantsAssumption

(***************************************************************************)
(* The inductive invariant.                                                *)
(***************************************************************************)
CallRecords   == [Requests -> [Kinds -> [at : Stops, gone : BOOLEAN, answer : Answers]]]
States  == [at : Handlers, ready : BOOLEAN, response : BOOLEAN, took : BOOLEAN,
            cancelled : BOOLEAN, closing : BOOLEAN, known : BOOLEAN,
            failure : BOOLEAN, active : Nat]
Entries == [Requests -> States]

Types ==
  /\ entries \subseteq Requests /\ doomed \subseteq Requests
  /\ entry \in Entries /\ call \in CallRecords
  /\ worker \in [Requests -> {"new", "begin", "work", "response", "end", "over"}]

\* Each kind of call has stops of its own, and each is made at most once.
Stages ==
  \A r \in Requests :
    /\ call[r]["begin"].at \in {"idle", "registering", "begun", "ending",
                                "waiting", "answered"}
    /\ call[r]["end"].at \in {"idle", "ending", "waiting", "answered"}
    /\ call[r]["response"].at \in {"idle", "asking", "sending", "waiting",
                                   "answered"}
    /\ \A k \in Callbacks :
         call[r][k].at \in {"idle", "asking", "running", "answered"}
    /\ worker[r] = "new" => call[r]["begin"].at = "idle"
    /\ worker[r] \in {"new", "begin", "work"} => call[r]["response"].at = "idle"

Begun(r) == call[r]["begin"].at \notin {"idle", "registering"}

\* A request is registered once, so that what has left the map never returns.
Registered ==
  \A r \in Requests :
    /\ r \in entries \cup doomed => Begun(r)
    /\ r \in doomed => r \notin entries
    /\ ~Begun(r) => /\ entry[r].at = "none" /\ ~entry[r].known /\ ~entry[r].ready
    /\ call[r]["end"].at = "waiting" \/ call[r]["end"].answer = "ok"
         => r \notin entries /\ Begun(r)

\* The calls that hold a request are counted in it, and are of workers that
\* were given its handle.
Holding(r, k) ==
  \/ k \in Callbacks /\ call[r][k].at = "running"
  \/ k = "response" /\ call[r][k].at \in {"sending", "waiting"}

Holders(r) == {k \in Kinds : Holding(r, k)}

Counted ==
  \A r \in Requests :
    /\ entry[r].active = Cardinality(Holders(r))
    /\ Holders(r) # {} => entry[r].known

\* A handler whose handle was given has asked for the response: if it is over,
\* it took one or failed.
Handled ==
  \A r \in Requests :
    /\ entry[r].ready \/ entry[r].known => entry[r].at \in {"parked", "after", "over"}
    /\ entry[r].at = "after" => entry[r].took
    /\ (entry[r].ready \/ entry[r].known) /\ entry[r].at = "over"
         => entry[r].took \/ entry[r].failure
    /\ call[r]["response"].answer = "ok" =>
         entry[r].at = "over" /\ entry[r].took /\ ~entry[r].failure

\* Where a request was ended, nothing of it runs.
Over ==
  /\ \A r \in Requests : call[r]["end"].answer = "ok" => Quiet(r)
  /\ service = "over" => \A r \in doomed : Quiet(r)

Inv ==
  /\ Types /\ Stages /\ Registered /\ Counted /\ Handled /\ Over
  /\ NothingUnowned

(***************************************************************************)
(* What a step does to the calls and to the count.                         *)
(***************************************************************************)
LEMMA KindsFinite ==
  /\ IsFiniteSet(Kinds) /\ {"begin", "end", "response"} \subseteq Kinds
  /\ Callbacks \subseteq Kinds
  /\ \A r : /\ IsFiniteSet(Holders(r)) /\ Holders(r) \subseteq Kinds
            /\ Cardinality(Holders(r)) \in Nat
<1>1. IsFiniteSet({"begin", "response", "end"})
  <2>1. IsFiniteSet({} \cup {"begin"})
    BY FS_EmptySet, FS_AddElement
  <2>2. IsFiniteSet(({} \cup {"begin"}) \cup {"response"})
    BY <2>1, FS_AddElement
  <2>3. IsFiniteSet((({} \cup {"begin"}) \cup {"response"}) \cup {"end"})
    BY <2>2, FS_AddElement
  <2>4. ((({} \cup {"begin"}) \cup {"response"}) \cup {"end"}) = {"begin", "response", "end"}
    OBVIOUS
  <2> QED
    BY <2>3, <2>4
<1>2. IsFiniteSet(Kinds)
  BY <1>1, FS_Union DEF Kinds
<1>3. ASSUME NEW r
      PROVE  /\ IsFiniteSet(Holders(r)) /\ Holders(r) \subseteq Kinds
             /\ Cardinality(Holders(r)) \in Nat
  BY <1>2, FS_Subset, FS_CardinalityType DEF Holders
<1> QED
  BY <1>2, <1>3 DEF Kinds

\* One call moves, and may be answered.
Moves(r, k, place, answer) ==
  /\ call' \in CallRecords
  /\ call'[r][k].at = place /\ call'[r][k].answer = answer
  /\ \A q \in Requests, m \in Kinds : q # r \/ m # k => call'[q][m] = call[q][m]

LEMMA MoveMoves ==
  ASSUME Types, NEW r \in Requests, NEW k \in Kinds, NEW place \in Stops,
         Move(r, k, place)
  PROVE  Moves(r, k, place, call[r][k].answer)
<1>1. PICK c : c = [call[r][k] EXCEPT !.at = place]
  OBVIOUS
<1>2. /\ call[r] \in [Kinds -> [at : Stops, gone : BOOLEAN, answer : Answers]]
      /\ call[r][k] \in [at : Stops, gone : BOOLEAN, answer : Answers]
  BY DEF Types, CallRecords
<1>3. /\ c \in [at : Stops, gone : BOOLEAN, answer : Answers]
      /\ c.at = place /\ c.answer = call[r][k].answer
  BY <1>1, <1>2
<1>4. call' = [call EXCEPT ![r] = [call[r] EXCEPT ![k] = c]]
  BY <1>1 DEF Move
<1> QED
  BY <1>2, <1>3, <1>4 DEF Types, CallRecords, Moves

LEMMA AnswerMoves ==
  ASSUME Types, NEW r \in Requests, NEW k \in Kinds, NEW answer \in Answers,
         Answer(r, k, answer)
  PROVE  Moves(r, k, "answered", answer)
<1>1. PICK c : c = [call[r][k] EXCEPT !.at = "answered", !.answer = answer]
  OBVIOUS
<1>2. /\ call[r] \in [Kinds -> [at : Stops, gone : BOOLEAN, answer : Answers]]
      /\ call[r][k] \in [at : Stops, gone : BOOLEAN, answer : Answers]
      /\ "answered" \in Stops
  BY DEF Types, CallRecords, Stops
<1>3. /\ c \in [at : Stops, gone : BOOLEAN, answer : Answers]
      /\ c.at = "answered" /\ c.answer = answer
  BY <1>1, <1>2
<1>4. call' = [call EXCEPT ![r] = [call[r] EXCEPT ![k] = c]]
  BY <1>1, <1>2 DEF Answer, Types, CallRecords
<1> QED
  BY <1>2, <1>3, <1>4 DEF Types, CallRecords, Moves

LEMMA GoneMoves ==
  ASSUME Types, NEW r \in Requests, NEW k \in Kinds,
         call' = [call EXCEPT ![r][k].gone = TRUE]
  PROVE  Moves(r, k, call[r][k].at, call[r][k].answer)
<1>1. PICK c : c = [call[r][k] EXCEPT !.gone = TRUE]
  OBVIOUS
<1>2. /\ call[r] \in [Kinds -> [at : Stops, gone : BOOLEAN, answer : Answers]]
      /\ call[r][k] \in [at : Stops, gone : BOOLEAN, answer : Answers]
  BY DEF Types, CallRecords
<1>3. /\ c \in [at : Stops, gone : BOOLEAN, answer : Answers]
      /\ c.at = call[r][k].at /\ c.answer = call[r][k].answer
  BY <1>1, <1>2
<1>4. call' = [call EXCEPT ![r] = [call[r] EXCEPT ![k] = c]]
  BY <1>1
<1>5. [call[r] EXCEPT ![k] = c] \in
        [Kinds -> [at : Stops, gone : BOOLEAN, answer : Answers]]
  BY <1>2, <1>3
<1>6. call' \in CallRecords /\ call'[r][k] = c
  <2>1. PICK f : f = [call[r] EXCEPT ![k] = c]
    OBVIOUS
  <2>2. f[k] = c
    BY <1>2, <2>1
  <2>3. call' = [call EXCEPT ![r] = f]
    BY <1>4, <2>1
  <2> QED
    BY <1>5, <2>1, <2>2, <2>3 DEF Types, CallRecords
<1>7. \A q \in Requests, m \in Kinds : q # r \/ m # k => call'[q][m] = call[q][m]
  BY <1>2, <1>4 DEF Types, CallRecords
<1> QED
  BY ZenonT(60), <1>3, <1>6, <1>7 DEF Moves

LEMMA KeepCount ==
  ASSUME Counted,
         \A q \in Requests : /\ entry'[q].active = entry[q].active
                             /\ entry[q].known => entry'[q].known
                             /\ \A k \in Kinds : Holding(q, k)' <=> Holding(q, k)
  PROVE  Counted'
<1> SUFFICES ASSUME NEW q \in Requests
             PROVE  /\ entry'[q].active = Cardinality(Holders(q)')
                    /\ Holders(q)' # {} => entry'[q].known
  BY DEF Counted
<1>1. Holders(q)' = Holders(q)
  BY DEF Holders
<1> QED
  BY <1>1 DEF Counted

\* A call takes hold of its request.
LEMMA AddCount ==
  ASSUME Counted, NEW r \in Requests, NEW k \in Kinds,
         ~Holding(r, k), Holding(r, k)',
         entry'[r].active = entry[r].active + 1, entry'[r].known,
         \A q \in Requests, m \in Kinds :
           q # r \/ m # k => (Holding(q, m)' <=> Holding(q, m)),
         \A q \in Requests \ {r} : entry'[q] = entry[q]
  PROVE  Counted'
<1> SUFFICES ASSUME NEW q \in Requests
             PROVE  /\ entry'[q].active = Cardinality(Holders(q)')
                    /\ Holders(q)' # {} => entry'[q].known
  BY DEF Counted
<1>1. CASE q = r
  <2>1. Holders(r)' = Holders(r) \cup {k} /\ k \notin Holders(r)
    BY DEF Holders
  <2>2. Cardinality(Holders(r) \cup {k}) = Cardinality(Holders(r)) + 1
    BY <2>1, KindsFinite, FS_AddElement
  <2> QED
    BY <1>1, <2>1, <2>2 DEF Counted
<1>2. CASE q # r
  <2>1. Holders(q)' = Holders(q) /\ entry'[q] = entry[q]
    BY <1>2 DEF Holders
  <2> QED
    BY <2>1 DEF Counted
<1> QED
  BY <1>1, <1>2

\* It lets go of it.
LEMMA DropCount ==
  ASSUME Counted, NEW r \in Requests, NEW k \in Kinds,
         Holding(r, k), ~Holding(r, k)',
         entry'[r].active = entry[r].active - 1, entry'[r].known = entry[r].known,
         \A q \in Requests, m \in Kinds :
           q # r \/ m # k => (Holding(q, m)' <=> Holding(q, m)),
         \A q \in Requests \ {r} : entry'[q] = entry[q]
  PROVE  Counted' /\ entry[r].active - 1 \in Nat /\ entry[r].known
<1>1. Holders(r)' = Holders(r) \ {k} /\ k \in Holders(r)
  BY DEF Holders
<1>2. /\ Cardinality(Holders(r) \ {k}) = Cardinality(Holders(r)) - 1
      /\ Cardinality(Holders(r) \ {k}) \in Nat
  BY <1>1, KindsFinite, FS_RemoveElement, FS_CardinalityType
<1>3. entry[r].known /\ entry[r].active - 1 \in Nat
  BY <1>1, <1>2 DEF Counted
<1>4. ASSUME NEW q \in Requests
      PROVE  /\ entry'[q].active = Cardinality(Holders(q)')
             /\ Holders(q)' # {} => entry'[q].known
  <2>1. CASE q = r
    BY <1>1, <1>2, <1>3, <2>1 DEF Counted
  <2>2. CASE q # r
    <3>1. Holders(q)' = Holders(q) /\ entry'[q] = entry[q]
      BY <2>2 DEF Holders
    <3> QED
      BY <3>1 DEF Counted
  <2> QED
    BY <2>1, <2>2
<1> QED
  BY <1>3, <1>4 DEF Counted

LEMMA InitInv == Init => Inv
<1> SUFFICES ASSUME Init PROVE Inv
  OBVIOUS
<1>1. Types
  <2>1. NewEntry \in States
    BY DEF NewEntry, Handlers, States
  <2>2. entry \in Entries /\ call \in CallRecords
    BY <2>1 DEF Init, Entries, CallRecords, Stops, Answers
  <2> QED
    BY <2>2 DEF Init, Types
<1>2. \A r \in Requests, k \in Kinds :
        call[r][k].at = "idle" /\ call[r][k].answer = "none"
  BY DEF Init
<1>3. \A r \in Requests :
        /\ entry[r].at = "none" /\ ~entry[r].ready /\ ~entry[r].known
        /\ entry[r].active = 0
  BY DEF Init, NewEntry
<1>4. Stages /\ Registered /\ Handled /\ Over /\ NothingUnowned
  <2>1. {"begin", "end", "response"} \subseteq Kinds /\ Callbacks \subseteq Kinds
    BY KindsFinite
  <2> QED
    BY <1>2, <1>3, <2>1 DEF Init, Stages, Registered, Handled, Over, Begun,
       NothingUnowned
<1>5. Counted
  <2>1. \A r \in Requests : Holders(r) = {}
    BY <1>2 DEF Holders, Holding
  <2> QED
    BY <1>3, <2>1, FS_EmptySet DEF Counted
<1> QED
  BY <1>1, <1>4, <1>5 DEF Inv

(***************************************************************************)
(* The handler's goroutine.                                                *)
(***************************************************************************)
LEMMA HookInv ==
  ASSUME Inv, NEW r \in Requests, Hook(r)
  PROVE  Inv'
<1> USE DEF Hook
<1>1. /\ Types /\ Stages /\ Registered /\ Counted /\ Handled /\ Over
      /\ NothingUnowned
  BY DEF Inv
<1>2. {"begin", "end", "response"} \subseteq Kinds /\ Callbacks \subseteq Kinds
  BY KindsFinite
<1>3. Inv'
  <2>1. /\ entry'[r].at \in {"parked", "over"}
        /\ entry'[r].active = entry[r].active /\ entry'[r].known = entry[r].known
        /\ \A q \in Requests \ {r} : entry'[q] = entry[q]
    BY <1>1 DEF Types, Entries, States
  <2>2. Counted' /\ Types'
    <3>1. \A q \in Requests, m \in Kinds : Holding(q, m)' <=> Holding(q, m)
      BY <1>1, <1>2 DEF Stages, Holding
    <3>2. entry' \in Entries
      BY <1>1, <1>2 DEF Types, Entries, States, Handlers
    <3>3. \A q \in Requests : /\ entry'[q].active = entry[q].active
                              /\ entry[q].known => entry'[q].known
      BY <1>1, <1>2 DEF Types, Entries, States
    <3>4. Types'
      BY <1>1, <1>2, <3>2 DEF Types, CallRecords, Registered
    <3> QED
      BY <1>1, <3>1, <3>3, <3>4, KeepCount
  <2>3. Stages'
    BY <1>1, <1>2 DEF Types, Stages
  <2>4. Registered'
    <3>1. Begun(r) /\ \A q \in Requests : Begun(q)' <=> Begun(q)
      BY <1>1 DEF Registered, Begun
    <3> QED
      BY <1>1, <2>1, <3>1 DEF Registered
  <2>5. Handled'
    BY <1>1, <1>2 DEF Types, Stages, Registered, Begun, Handled, Entries,
       States
  <2>6. Over'
    <3>1. ~Quiet(r) /\ \A q \in Requests \ {r} : Quiet(q)' <=> Quiet(q)
      BY <2>1 DEF Quiet
    <3>2. call[r]["end"].answer # "ok" /\ (service = "over" => r \notin doomed)
      BY <1>1, <3>1 DEF Over
    <3> QED
      BY <1>1, <3>1, <3>2 DEF Over, Types
  <2>7. NothingUnowned'
    BY <1>1, <1>2 DEF Types, Stages, NothingUnowned, At, Entries, States, Quiet
  <2> QED
    BY <2>2, <2>3, <2>4, <2>5, <2>6, <2>7 DEF Inv
<1> QED
  BY <1>3

LEMMA TakeInv ==
  ASSUME Inv, NEW r \in Requests, Take(r)
  PROVE  Inv'
<1> USE DEF Take
<1>1. /\ Types /\ Stages /\ Registered /\ Counted /\ Handled /\ Over
      /\ NothingUnowned
  BY DEF Inv
<1>2. {"begin", "end", "response"} \subseteq Kinds /\ Callbacks \subseteq Kinds
  BY KindsFinite
<1>3. Inv'
  <2>2. Counted' /\ Types'
    <3>1. \A q \in Requests, m \in Kinds : Holding(q, m)' <=> Holding(q, m)
      BY <1>1, <1>2 DEF Stages, Holding
    <3>2. entry' \in Entries
      BY <1>1, <1>2 DEF Types, Entries, States, Handlers
    <3>3. \A q \in Requests : /\ entry'[q].active = entry[q].active
                              /\ entry[q].known => entry'[q].known
      BY <1>1, <1>2 DEF Types, Entries, States
    <3>4. Types'
      BY <1>1, <1>2, <3>2 DEF Types, CallRecords, Registered
    <3> QED
      BY <1>1, <3>1, <3>3, <3>4, KeepCount
  <2>3. Stages'
    BY <1>1, <1>2 DEF Types, Stages
  <2>4. Registered'
    BY <1>1, <1>2 DEF Types, Stages, Registered, Begun, Entries, States
  <2>5. Handled'
    BY <1>1, <1>2 DEF Types, Stages, Registered, Begun, Handled, Entries,
       States
  <2>6. Over'
    BY <1>1, <1>2 DEF Types, Stages, Registered, Begun, Over, Quiet, Entries,
       States
  <2>7. NothingUnowned'
    BY <1>1, <1>2 DEF Types, Stages, NothingUnowned, At, Entries, States, Quiet
  <2> QED
    BY <2>2, <2>3, <2>4, <2>5, <2>6, <2>7 DEF Inv
<1> QED
  BY <1>3

LEMMA AbortInv ==
  ASSUME Inv, NEW r \in Requests, Abort(r)
  PROVE  Inv'
<1> USE DEF Abort
<1>1. /\ Types /\ Stages /\ Registered /\ Counted /\ Handled /\ Over
      /\ NothingUnowned
  BY DEF Inv
<1>2. {"begin", "end", "response"} \subseteq Kinds /\ Callbacks \subseteq Kinds
  BY KindsFinite
<1>3. Inv'
  <2>2. Counted' /\ Types'
    <3>1. \A q \in Requests, m \in Kinds : Holding(q, m)' <=> Holding(q, m)
      BY <1>1, <1>2 DEF Stages, Holding
    <3>2. entry' \in Entries
      <4>1. PICK e : e = [entry[r] EXCEPT !.at = "over", !.failure = TRUE]
        OBVIOUS
      <4>2. entry \in [Requests -> States] /\ entry[r] \in States
        BY <1>1 DEF Types, Entries
      <4>3. e \in States
        BY <4>1, <4>2 DEF States, Handlers
      <4>4. entry' = [entry EXCEPT ![r] = e]
        BY <4>1
      <4> QED
        BY <4>2, <4>3, <4>4 DEF Entries
    <3>3. \A q \in Requests : /\ entry'[q].active = entry[q].active
                              /\ entry[q].known => entry'[q].known
      BY <1>1, <1>2 DEF Types, Entries, States
    <3>4. Types'
      BY <1>1, <1>2, <3>2 DEF Types, CallRecords, Registered
    <3> QED
      BY <1>1, <3>1, <3>3, <3>4, KeepCount
  <2>3. Stages'
    BY <1>1, <1>2 DEF Types, Stages
  <2>4. Registered'
    BY <1>1, <1>2 DEF Types, Stages, Registered, Begun, Entries, States
  <2>5. Handled'
    BY <1>1, <1>2 DEF Types, Stages, Registered, Begun, Handled, Entries,
       States
  <2>6. Over'
    BY <1>1, <1>2 DEF Types, Stages, Registered, Begun, Over, Quiet, Entries,
       States
  <2>7. NothingUnowned'
    BY <1>1, <1>2 DEF Types, Stages, NothingUnowned, At, Entries, States, Quiet
  <2> QED
    BY <2>2, <2>3, <2>4, <2>5, <2>6, <2>7 DEF Inv
<1> QED
  BY <1>3

LEMMA AfterInv ==
  ASSUME Inv, NEW r \in Requests, After(r)
  PROVE  Inv'
<1> USE DEF After
<1>1. /\ Types /\ Stages /\ Registered /\ Counted /\ Handled /\ Over
      /\ NothingUnowned
  BY DEF Inv
<1>2. {"begin", "end", "response"} \subseteq Kinds /\ Callbacks \subseteq Kinds
  BY KindsFinite
<1>3. Inv'
  <2>2. Counted' /\ Types'
    <3>1. \A q \in Requests, m \in Kinds : Holding(q, m)' <=> Holding(q, m)
      BY <1>1, <1>2 DEF Stages, Holding
    <3>2. entry' \in Entries
      <4>0. PICK failure \in BOOLEAN :
              entry' = [entry EXCEPT ![r].at = "over", ![r].failure = failure]
        OBVIOUS
      <4>1. PICK e : e = [entry[r] EXCEPT !.at = "over", !.failure = failure]
        OBVIOUS
      <4>2. entry \in [Requests -> States] /\ entry[r] \in States
        BY <1>1 DEF Types, Entries
      <4>3. e \in States
        BY <4>0, <4>1, <4>2 DEF States, Handlers
      <4>4. entry' = [entry EXCEPT ![r] = e]
        BY <4>0, <4>1, <4>2
      <4> QED
        BY <4>2, <4>3, <4>4 DEF Entries
    <3>3. \A q \in Requests : /\ entry'[q].active = entry[q].active
                              /\ entry[q].known => entry'[q].known
      BY <1>1, <1>2 DEF Types, Entries, States
    <3>4. Types'
      BY <1>1, <1>2, <3>2 DEF Types, CallRecords, Registered
    <3> QED
      BY <1>1, <3>1, <3>3, <3>4, KeepCount
  <2>3. Stages'
    BY <1>1, <1>2 DEF Types, Stages
  <2>4. Registered'
    BY <1>1, <1>2 DEF Types, Stages, Registered, Begun, Entries, States
  <2>5. Handled'
    BY <1>1, <1>2 DEF Types, Stages, Registered, Begun, Handled, Entries,
       States
  <2>6. Over'
    BY <1>1, <1>2 DEF Types, Stages, Registered, Begun, Over, Quiet, Entries,
       States
  <2>7. NothingUnowned'
    BY <1>1, <1>2 DEF Types, Stages, NothingUnowned, At, Entries, States, Quiet
  <2> QED
    BY <2>2, <2>3, <2>4, <2>5, <2>6, <2>7 DEF Inv
<1> QED
  BY <1>3

(***************************************************************************)
(* begin.                                                                  *)
(***************************************************************************)
LEMMA BeginRefusedInv ==
  ASSUME Inv, NEW r \in Requests, BeginRefused(r)
  PROVE  Inv'
<1> USE DEF BeginRefused, At
<1>1. /\ Types /\ Stages /\ Registered /\ Counted /\ Handled /\ Over
      /\ NothingUnowned
  BY DEF Inv
<1>2. {"begin", "end", "response"} \subseteq Kinds /\ Callbacks \subseteq Kinds
  BY KindsFinite
<1>3. Inv'
  <2>1. Moves(r, "begin", "answered", "failed")
    BY <1>1, <1>2, AnswerMoves DEF Answers
  <2>2. Counted' /\ Types'
    <3>1. \A q \in Requests, m \in Kinds : Holding(q, m)' <=> Holding(q, m)
      BY <2>1, <1>1, <1>2 DEF Stages, Holding, Moves
    <3>2. entry' \in Entries
      BY <2>1, <1>1, <1>2 DEF Types, Entries, States, Handlers
    <3>3. \A q \in Requests : /\ entry'[q].active = entry[q].active
                              /\ entry[q].known => entry'[q].known
      BY <2>1, <1>1, <1>2 DEF Types, Entries, States
    <3>4. Types'
      BY <2>1, <1>1, <1>2, <3>2 DEF Types, CallRecords, Registered, Moves
    <3> QED
      BY <1>1, <3>1, <3>3, <3>4, KeepCount
  <2>3. Stages'
    BY <2>1, <1>1, <1>2 DEF Types, Stages, Moves
  <2>4. Registered'
    BY <2>1, <1>1, <1>2 DEF Types, Stages, Registered, Begun, Entries, States,
       Moves
  <2>5. Handled'
    BY <2>1, <1>1, <1>2 DEF Types, Stages, Registered, Begun, Handled, Entries,
       States, Moves
  <2>6. Over'
    BY <2>1, <1>1, <1>2 DEF Types, Stages, Registered, Begun, Over, Quiet,
       Entries, States, Moves
  <2>7. NothingUnowned'
    BY <2>1, <1>1, <1>2 DEF Types, Stages, NothingUnowned, At, Entries, States,
       Quiet, Moves
  <2> QED
    BY <2>2, <2>3, <2>4, <2>5, <2>6, <2>7 DEF Inv
<1> QED
  BY <1>3

LEMMA RegisterInv ==
  ASSUME Inv, NEW r \in Requests, Register(r)
  PROVE  Inv'
<1> USE DEF Register, At
<1>1. /\ Types /\ Stages /\ Registered /\ Counted /\ Handled /\ Over
      /\ NothingUnowned
  BY DEF Inv
<1>2. {"begin", "end", "response"} \subseteq Kinds /\ Callbacks \subseteq Kinds
  BY KindsFinite
<1>3. Inv'
  <2>1. Moves(r, "begin", "begun", call[r]["begin"].answer)
    BY <1>1, <1>2, MoveMoves DEF Stops
  <2>2. Counted' /\ Types'
    <3>1. \A q \in Requests, m \in Kinds : Holding(q, m)' <=> Holding(q, m)
      BY <2>1, <1>1, <1>2 DEF Stages, Holding, Moves
    <3>2. entry' \in Entries
      BY <2>1, <1>1, <1>2 DEF Types, Entries, States, Handlers
    <3>3. \A q \in Requests : /\ entry'[q].active = entry[q].active
                              /\ entry[q].known => entry'[q].known
      BY <2>1, <1>1, <1>2 DEF Types, Entries, States
    <3>4. Types'
      BY <2>1, <1>1, <1>2, <3>2 DEF Types, CallRecords, Registered, Moves
    <3> QED
      BY <1>1, <3>1, <3>3, <3>4, KeepCount
  <2>3. Stages'
    BY <2>1, <1>1, <1>2 DEF Types, Stages, Moves
  <2>4. Registered'
    BY <2>1, <1>1, <1>2 DEF Types, Stages, Registered, Begun, Entries, States,
       Moves
  <2>5. Handled'
    BY <2>1, <1>1, <1>2 DEF Types, Stages, Registered, Begun, Handled, Entries,
       States, Moves
  <2>6. Over'
    BY <2>1, <1>1, <1>2 DEF Types, Stages, Registered, Begun, Over, Quiet,
       Entries, States, Moves
  <2>7. NothingUnowned'
    BY <2>1, <1>1, <1>2 DEF Types, Stages, NothingUnowned, At, Entries, States,
       Quiet, Moves
  <2> QED
    BY <2>2, <2>3, <2>4, <2>5, <2>6, <2>7 DEF Inv
<1> QED
  BY <1>3

LEMMA BeginReadyInv ==
  ASSUME Inv, NEW r \in Requests, BeginReady(r)
  PROVE  Inv'
<1> USE DEF BeginReady, At
<1>1. /\ Types /\ Stages /\ Registered /\ Counted /\ Handled /\ Over
      /\ NothingUnowned
  BY DEF Inv
<1>2. {"begin", "end", "response"} \subseteq Kinds /\ Callbacks \subseteq Kinds
  BY KindsFinite
<1>3. Inv'
  <2>1. Moves(r, "begin", "answered", "resolve")
    BY <1>1, <1>2, AnswerMoves DEF Answers
  <2>2. Counted' /\ Types'
    <3>1. \A q \in Requests, m \in Kinds : Holding(q, m)' <=> Holding(q, m)
      BY <2>1, <1>1, <1>2 DEF Stages, Holding, Moves
    <3>2. entry' \in Entries
      <4>1. PICK e : e = [entry[r] EXCEPT !.ready = FALSE, !.known = TRUE]
        OBVIOUS
      <4>2. entry \in [Requests -> States] /\ entry[r] \in States
        BY <1>1 DEF Types, Entries
      <4>3. e \in States
        BY <4>1, <4>2 DEF States, Handlers
      <4>4. entry' = [entry EXCEPT ![r] = e]
        BY <4>1
      <4> QED
        BY <4>2, <4>3, <4>4 DEF Entries
    <3>3. \A q \in Requests : /\ entry'[q].active = entry[q].active
                              /\ entry[q].known => entry'[q].known
      BY <2>1, <1>1, <1>2 DEF Types, Entries, States
    <3>4. Types'
      BY <2>1, <1>1, <1>2, <3>2 DEF Types, CallRecords, Registered, Moves
    <3> QED
      BY <1>1, <3>1, <3>3, <3>4, KeepCount
  <2>3. Stages'
    BY <2>1, <1>1, <1>2 DEF Types, Stages, Moves
  <2>4. Registered'
    BY <2>1, <1>1, <1>2 DEF Types, Stages, Registered, Begun, Entries, States,
       Moves
  <2>5. Handled'
    BY <2>1, <1>1, <1>2 DEF Types, Stages, Registered, Begun, Handled, Entries,
       States, Moves
  <2>6. Over'
    BY <2>1, <1>1, <1>2 DEF Types, Stages, Registered, Begun, Over, Quiet,
       Entries, States, Moves
  <2>7. NothingUnowned'
    BY <2>1, <1>1, <1>2 DEF Types, Stages, NothingUnowned, At, Entries, States,
       Quiet, Moves
  <2> QED
    BY <2>2, <2>3, <2>4, <2>5, <2>6, <2>7 DEF Inv
<1> QED
  BY <1>3

LEMMA BeginDoneInv ==
  ASSUME Inv, NEW r \in Requests, BeginDone(r)
  PROVE  Inv'
<1> USE DEF BeginDone, At
<1>1. /\ Types /\ Stages /\ Registered /\ Counted /\ Handled /\ Over
      /\ NothingUnowned
  BY DEF Inv
<1>2. {"begin", "end", "response"} \subseteq Kinds /\ Callbacks \subseteq Kinds
  BY KindsFinite
<1>3. CASE entry[r].failure
  <2>1. Moves(r, "begin", "ending", call[r]["begin"].answer)
    BY <1>3, <1>1, <1>2, MoveMoves DEF Stops
  <2>2. Counted' /\ Types'
    <3>1. \A q \in Requests, m \in Kinds : Holding(q, m)' <=> Holding(q, m)
      BY <1>3, <2>1, <1>1, <1>2 DEF Stages, Holding, Moves
    <3>2. entry' \in Entries
      BY <1>3, <2>1, <1>1, <1>2 DEF Types, Entries, States, Handlers
    <3>3. \A q \in Requests : /\ entry'[q].active = entry[q].active
                              /\ entry[q].known => entry'[q].known
      BY <1>3, <2>1, <1>1, <1>2 DEF Types, Entries, States
    <3>4. Types'
      BY <1>3, <2>1, <1>1, <1>2, <3>2 DEF Types, CallRecords, Registered, Moves
    <3> QED
      BY <1>1, <3>1, <3>3, <3>4, KeepCount
  <2>3. Stages'
    BY <1>3, <2>1, <1>1, <1>2 DEF Types, Stages, Moves
  <2>4. Registered'
    BY <1>3, <2>1, <1>1, <1>2 DEF Types, Stages, Registered, Begun, Entries,
       States, Moves
  <2>5. Handled'
    BY <1>3, <2>1, <1>1, <1>2 DEF Types, Stages, Registered, Begun, Handled,
       Entries, States, Moves
  <2>6. Over'
    BY <1>3, <2>1, <1>1, <1>2 DEF Types, Stages, Registered, Begun, Over,
       Quiet, Entries, States, Moves
  <2>7. NothingUnowned'
    BY <1>3, <2>1, <1>1, <1>2 DEF Types, Stages, NothingUnowned, At, Entries,
       States, Quiet, Moves
  <2> QED
    BY <2>2, <2>3, <2>4, <2>5, <2>6, <2>7 DEF Inv
<1>4. CASE ~entry[r].failure
  <2>1. Moves(r, "begin", "answered", "final")
    BY <1>4, <1>1, <1>2, AnswerMoves DEF Answers
  <2>2. Counted' /\ Types'
    <3>1. \A q \in Requests, m \in Kinds : Holding(q, m)' <=> Holding(q, m)
      BY <1>4, <2>1, <1>1, <1>2 DEF Stages, Holding, Moves
    <3>2. entry' \in Entries
      BY <1>4, <2>1, <1>1, <1>2 DEF Types, Entries, States, Handlers
    <3>3. \A q \in Requests : /\ entry'[q].active = entry[q].active
                              /\ entry[q].known => entry'[q].known
      BY <1>4, <2>1, <1>1, <1>2 DEF Types, Entries, States
    <3>4. Types'
      BY <1>4, <2>1, <1>1, <1>2, <3>2 DEF Types, CallRecords, Registered, Moves
    <3> QED
      BY <1>1, <3>1, <3>3, <3>4, KeepCount
  <2>3. Stages'
    BY <1>4, <2>1, <1>1, <1>2 DEF Types, Stages, Moves
  <2>4. Registered'
    BY <1>4, <2>1, <1>1, <1>2 DEF Types, Stages, Registered, Begun, Entries,
       States, Moves
  <2>5. Handled'
    BY <1>4, <2>1, <1>1, <1>2 DEF Types, Stages, Registered, Begun, Handled,
       Entries, States, Moves
  <2>6. Over'
    BY <1>4, <2>1, <1>1, <1>2 DEF Types, Stages, Registered, Begun, Over,
       Quiet, Entries, States, Moves
  <2>7. NothingUnowned'
    BY <1>4, <2>1, <1>1, <1>2 DEF Types, Stages, NothingUnowned, At, Entries,
       States, Quiet, Moves
  <2> QED
    BY <2>2, <2>3, <2>4, <2>5, <2>6, <2>7 DEF Inv
<1> QED
  BY <1>3, <1>4

LEMMA BeginGoneInv ==
  ASSUME Inv, NEW r \in Requests, BeginGone(r)
  PROVE  Inv'
<1> USE DEF BeginGone, At
<1>1. /\ Types /\ Stages /\ Registered /\ Counted /\ Handled /\ Over
      /\ NothingUnowned
  BY DEF Inv
<1>2. {"begin", "end", "response"} \subseteq Kinds /\ Callbacks \subseteq Kinds
  BY KindsFinite
<1>3. Inv'
  <2>1. Moves(r, "begin", "ending", call[r]["begin"].answer)
    BY <1>1, <1>2, MoveMoves DEF Stops
  <2>2. Counted' /\ Types'
    <3>1. \A q \in Requests, m \in Kinds : Holding(q, m)' <=> Holding(q, m)
      BY <2>1, <1>1, <1>2 DEF Stages, Holding, Moves
    <3>2. entry' \in Entries
      BY <2>1, <1>1, <1>2 DEF Types, Entries, States, Handlers
    <3>3. \A q \in Requests : /\ entry'[q].active = entry[q].active
                              /\ entry[q].known => entry'[q].known
      BY <2>1, <1>1, <1>2 DEF Types, Entries, States
    <3>4. Types'
      BY <2>1, <1>1, <1>2, <3>2 DEF Types, CallRecords, Registered, Moves
    <3> QED
      BY <1>1, <3>1, <3>3, <3>4, KeepCount
  <2>3. Stages'
    BY <2>1, <1>1, <1>2 DEF Types, Stages, Moves
  <2>4. Registered'
    BY <2>1, <1>1, <1>2 DEF Types, Stages, Registered, Begun, Entries, States,
       Moves
  <2>5. Handled'
    BY <2>1, <1>1, <1>2 DEF Types, Stages, Registered, Begun, Handled, Entries,
       States, Moves
  <2>6. Over'
    BY <2>1, <1>1, <1>2 DEF Types, Stages, Registered, Begun, Over, Quiet,
       Entries, States, Moves
  <2>7. NothingUnowned'
    BY <2>1, <1>1, <1>2 DEF Types, Stages, NothingUnowned, At, Entries, States,
       Quiet, Moves
  <2> QED
    BY <2>2, <2>3, <2>4, <2>5, <2>6, <2>7 DEF Inv
<1> QED
  BY <1>3

(***************************************************************************)
(* acquire, end and close.                                                 *)
(***************************************************************************)
LEMMA AcquireInv ==
  ASSUME Inv, NEW r \in Requests, NEW k \in Kinds, Acquire(r, k)
  PROVE  Inv'
<1> USE DEF Acquire, At, Acquirable
<1>1. /\ Types /\ Stages /\ Registered /\ Counted /\ Handled /\ Over
      /\ NothingUnowned
  BY DEF Inv
<1>2. {"begin", "end", "response"} \subseteq Kinds /\ Callbacks \subseteq Kinds
  BY KindsFinite
<1>3. CASE Acquirable(r) /\ k = "response"
  <2>1. Moves(r, k, "sending", call[r][k].answer)
    BY <1>3, <1>1, <1>2, MoveMoves DEF Stops
  <2>2. Counted' /\ Types'
    <3>1. ~Holding(r, k) /\ Holding(r, k)'
      BY <1>3, <2>1, <1>1, <1>2 DEF Stages, Holding, Kinds, Moves
    <3>2. \A q \in Requests, m \in Kinds :
            q # r \/ m # k => (Holding(q, m)' <=> Holding(q, m))
      BY <1>3, <2>1, <1>1, <1>2 DEF Holding, Moves
    <3>3. /\ entry'[r].active = entry[r].active + 1 /\ entry'[r].known
           /\ \A q \in Requests \ {r} : entry'[q] = entry[q]
      BY <1>3, <2>1, <1>1, <1>2 DEF Types, Entries, States
    <3>4. entry' \in Entries
      BY <1>3, <2>1, <1>1, <1>2 DEF Types, Entries, States
    <3>5. Types'
      BY <1>3, <2>1, <1>1, <1>2, <3>4 DEF Types, CallRecords, Moves
    <3> QED
      BY <1>1, <1>2, <3>1, <3>2, <3>3, <3>5, AddCount
  <2>3. Stages'
    BY <1>3, <2>1, <1>1, <1>2 DEF Types, Stages, Moves
  <2>4. Registered'
    BY <1>3, <2>1, <1>1, <1>2 DEF Types, Stages, Registered, Begun, Entries,
       States, Moves
  <2>5. Handled'
    BY <1>3, <2>1, <1>1, <1>2 DEF Types, Stages, Registered, Begun, Handled,
       Entries, States, Moves
  <2>6. Over'
    <3>1. call[r]["end"].answer # "ok" /\ r \notin doomed
      BY <1>3, <1>1 DEF Registered, Acquirable
    <3>2. \A q \in Requests : call'[q]["end"].answer = call[q]["end"].answer
      BY <2>1, <1>2 DEF Moves
    <3>3. \A q \in Requests \ {r} : entry'[q] = entry[q]
      BY <1>3, <1>1 DEF Types, Entries
    <3> QED
      BY <1>3, <1>1, <3>1, <3>2, <3>3 DEF Over, Quiet, Types
  <2>7. NothingUnowned'
    BY <1>3, <2>1, <1>1, <1>2 DEF Types, Stages, NothingUnowned, At, Entries,
       States, Quiet, Moves
  <2> QED
    BY <2>2, <2>3, <2>4, <2>5, <2>6, <2>7 DEF Inv
<1>4. CASE Acquirable(r) /\ k # "response"
  <2>1. Moves(r, k, "running", call[r][k].answer)
    BY <1>4, <1>1, <1>2, MoveMoves DEF Stops
  <2>2. Counted' /\ Types'
    <3>1. ~Holding(r, k) /\ Holding(r, k)'
      BY <1>4, <2>1, <1>1, <1>2 DEF Stages, Holding, Kinds, Moves
    <3>2. \A q \in Requests, m \in Kinds :
            q # r \/ m # k => (Holding(q, m)' <=> Holding(q, m))
      BY <1>4, <2>1, <1>1, <1>2 DEF Holding, Moves
    <3>3. /\ entry'[r].active = entry[r].active + 1 /\ entry'[r].known
           /\ \A q \in Requests \ {r} : entry'[q] = entry[q]
      BY <1>4, <2>1, <1>1, <1>2 DEF Types, Entries, States
    <3>4. entry' \in Entries
      BY <1>4, <2>1, <1>1, <1>2 DEF Types, Entries, States
    <3>5. Types'
      BY <1>4, <2>1, <1>1, <1>2, <3>4 DEF Types, CallRecords, Moves
    <3> QED
      BY <1>1, <1>2, <3>1, <3>2, <3>3, <3>5, AddCount
  <2>3. Stages'
    BY <1>4, <2>1, <1>1, <1>2 DEF Types, Stages, Moves
  <2>4. Registered'
    BY <1>4, <2>1, <1>1, <1>2 DEF Types, Stages, Registered, Begun, Entries,
       States, Moves
  <2>5. Handled'
    BY <1>4, <2>1, <1>1, <1>2 DEF Types, Stages, Registered, Begun, Handled,
       Entries, States, Moves
  <2>6. Over'
    <3>1. ASSUME NEW q \in Requests, Quiet(q), q \notin entries PROVE Quiet(q)'
      BY <1>4, <2>1, <2>2, <1>1, <1>2, <3>1 DEF Types, Entries, States, Quiet
    <3>2. \A q \in Requests : call'[q]["end"].answer = "ok" => call[q]["end"].answer = "ok"
      BY <1>4, <2>1, <1>1, <1>2 DEF Moves, Stages
    <3> QED
      <4>1. \A q \in Requests : call[q]["end"].answer = "ok" => q \notin entries
        BY <1>1 DEF Registered
      <4> QED
        BY <1>1, <3>1, <3>2, <4>1 DEF Over, Types, Registered
  <2>7. NothingUnowned'
    BY <1>4, <2>1, <1>1, <1>2 DEF Types, Stages, NothingUnowned, At, Entries,
       States, Quiet, Moves
  <2> QED
    BY <2>2, <2>3, <2>4, <2>5, <2>6, <2>7 DEF Inv
<1>5. CASE ~Acquirable(r)
  <2>1. Moves(r, k, "answered", "refused")
    BY <1>5, <1>1, <1>2, AnswerMoves DEF Answers
  <2>2. Counted' /\ Types'
    <3>1. \A q \in Requests, m \in Kinds : Holding(q, m)' <=> Holding(q, m)
      BY <1>5, <2>1, <1>1, <1>2 DEF Stages, Holding, Moves
    <3>2. entry' \in Entries
      BY <1>5, <2>1, <1>1, <1>2 DEF Types, Entries, States, Handlers
    <3>3. \A q \in Requests : /\ entry'[q].active = entry[q].active
                              /\ entry[q].known => entry'[q].known
      BY <1>5, <2>1, <1>1, <1>2 DEF Types, Entries, States
    <3>4. Types'
      BY <1>5, <2>1, <1>1, <1>2, <3>2 DEF Types, CallRecords, Registered, Moves
    <3> QED
      BY <1>1, <3>1, <3>3, <3>4, KeepCount
  <2>3. Stages'
    BY <1>5, <2>1, <1>1, <1>2 DEF Types, Stages, Moves
  <2>4. Registered'
    BY <1>5, <2>1, <1>1, <1>2 DEF Types, Stages, Registered, Begun, Entries,
       States, Moves
  <2>5. Handled'
    BY <1>5, <2>1, <1>1, <1>2 DEF Types, Stages, Registered, Begun, Handled,
       Entries, States, Moves
  <2>6. Over'
    BY <1>5, <2>1, <1>1, <1>2 DEF Types, Stages, Registered, Begun, Over,
       Quiet, Entries, States, Moves
  <2>7. NothingUnowned'
    BY <1>5, <2>1, <1>1, <1>2 DEF Types, Stages, NothingUnowned, At, Entries,
       States, Quiet, Moves
  <2> QED
    BY <2>2, <2>3, <2>4, <2>5, <2>6, <2>7 DEF Inv
<1> QED
  BY <1>3, <1>4, <1>5

LEMMA EndingInv ==
  ASSUME Inv, NEW r \in Requests, NEW k \in {"begin", "end"}, Ending(r, k)
  PROVE  Inv'
<1> USE DEF Ending, At
<1>1. /\ Types /\ Stages /\ Registered /\ Counted /\ Handled /\ Over
      /\ NothingUnowned
  BY DEF Inv
<1>2. {"begin", "end", "response"} \subseteq Kinds /\ Callbacks \subseteq Kinds
  BY KindsFinite
<1>3. CASE r \in entries
  <2>1. Moves(r, k, "waiting", call[r][k].answer)
    BY <1>3, <1>1, <1>2, MoveMoves DEF Stops
  <2>2. Counted' /\ Types'
    <3>1. \A q \in Requests, m \in Kinds : Holding(q, m)' <=> Holding(q, m)
      BY <1>3, <2>1, <1>1, <1>2 DEF Stages, Holding, Moves
    <3>2. entry' \in Entries
      <4>1. PICK e : e = [entry[r] EXCEPT !.closing = TRUE, !.cancelled = TRUE]
        OBVIOUS
      <4>2. entry \in [Requests -> States] /\ entry[r] \in States
        BY <1>1 DEF Types, Entries
      <4>3. e \in States
        BY <1>3, <4>1, <4>2 DEF States, Handlers
      <4>4. entry' = [entry EXCEPT ![r] = e]
        BY <1>3, <4>1, <4>2
      <4> QED
        BY <4>2, <4>3, <4>4 DEF Entries
    <3>3. \A q \in Requests : /\ entry'[q].active = entry[q].active
                              /\ entry[q].known => entry'[q].known
      BY <1>3, <2>1, <1>1, <1>2 DEF Types, Entries, States
    <3>4. Types'
      BY <1>3, <2>1, <1>1, <1>2, <3>2 DEF Types, CallRecords, Registered, Moves
    <3> QED
      BY <1>1, <3>1, <3>3, <3>4, KeepCount
  <2>3. Stages'
    BY <1>3, <2>1, <1>1, <1>2 DEF Types, Stages, Moves
  <2>4. Registered'
    BY <1>3, <2>1, <1>1, <1>2 DEF Types, Stages, Registered, Begun, Entries,
       States, Moves
  <2>5. Handled'
    BY <1>3, <2>1, <1>1, <1>2 DEF Types, Stages, Registered, Begun, Handled,
       Entries, States, Moves
  <2>6. Over'
    <3>1. call[r]["end"].answer # "ok" /\ r \notin doomed
      BY <1>3, <1>1 DEF Registered
    <3>2. \A q \in Requests : call'[q]["end"].answer = call[q]["end"].answer
      BY <2>1, <1>2 DEF Moves
    <3>3. \A q \in Requests \ {r} : entry'[q] = entry[q]
      BY <1>3, <1>1 DEF Types, Entries
    <3> QED
      BY <1>3, <1>1, <3>1, <3>2, <3>3 DEF Over, Quiet, Types
  <2>7. NothingUnowned'
    BY <1>3, <2>1, <1>1, <1>2 DEF Types, Stages, NothingUnowned, At, Entries,
       States, Quiet, Moves
  <2> QED
    BY <2>2, <2>3, <2>4, <2>5, <2>6, <2>7 DEF Inv
<1>4. CASE r \notin entries
  <2>1. Moves(r, k, "answered", "refused")
    BY <1>4, <1>1, <1>2, AnswerMoves DEF Answers
  <2>2. Counted' /\ Types'
    <3>1. \A q \in Requests, m \in Kinds : Holding(q, m)' <=> Holding(q, m)
      BY <1>4, <2>1, <1>1, <1>2 DEF Stages, Holding, Moves
    <3>2. entry' \in Entries
      BY <1>4, <2>1, <1>1, <1>2 DEF Types, Entries, States, Handlers
    <3>3. \A q \in Requests : /\ entry'[q].active = entry[q].active
                              /\ entry[q].known => entry'[q].known
      BY <1>4, <2>1, <1>1, <1>2 DEF Types, Entries, States
    <3>4. Types'
      BY <1>4, <2>1, <1>1, <1>2, <3>2 DEF Types, CallRecords, Registered, Moves
    <3> QED
      BY <1>1, <3>1, <3>3, <3>4, KeepCount
  <2>3. Stages'
    BY <1>4, <2>1, <1>1, <1>2 DEF Types, Stages, Moves
  <2>4. Registered'
    BY <1>4, <2>1, <1>1, <1>2 DEF Types, Stages, Registered, Begun, Entries,
       States, Moves
  <2>5. Handled'
    BY <1>4, <2>1, <1>1, <1>2 DEF Types, Stages, Registered, Begun, Handled,
       Entries, States, Moves
  <2>6. Over'
    BY <1>4, <2>1, <1>1, <1>2 DEF Types, Stages, Registered, Begun, Over,
       Quiet, Entries, States, Moves
  <2>7. NothingUnowned'
    BY <1>4, <2>1, <1>1, <1>2 DEF Types, Stages, NothingUnowned, At, Entries,
       States, Quiet, Moves
  <2> QED
    BY <2>2, <2>3, <2>4, <2>5, <2>6, <2>7 DEF Inv
<1> QED
  BY <1>3, <1>4

LEMMA EndWaitedInv ==
  ASSUME Inv, NEW r \in Requests, NEW k \in {"begin", "end"}, EndWaited(r, k)
  PROVE  Inv'
<1> USE DEF EndWaited, At, Quiet
<1>1. /\ Types /\ Stages /\ Registered /\ Counted /\ Handled /\ Over
      /\ NothingUnowned
  BY DEF Inv
<1>2. {"begin", "end", "response"} \subseteq Kinds /\ Callbacks \subseteq Kinds
  BY KindsFinite
<1>3. CASE k = "end"
  <2>1. Moves(r, k, "answered", "ok")
    BY <1>3, <1>1, <1>2, AnswerMoves DEF Answers
  <2>2. Counted' /\ Types'
    <3>1. \A q \in Requests, m \in Kinds : Holding(q, m)' <=> Holding(q, m)
      BY <1>3, <2>1, <1>1, <1>2 DEF Stages, Holding, Moves
    <3>2. entry' \in Entries
      BY <1>3, <2>1, <1>1, <1>2 DEF Types, Entries, States, Handlers
    <3>3. \A q \in Requests : /\ entry'[q].active = entry[q].active
                              /\ entry[q].known => entry'[q].known
      BY <1>3, <2>1, <1>1, <1>2 DEF Types, Entries, States
    <3>4. Types'
      BY <1>3, <2>1, <1>1, <1>2, <3>2 DEF Types, CallRecords, Registered, Moves
    <3> QED
      BY <1>1, <3>1, <3>3, <3>4, KeepCount
  <2>3. Stages'
    BY <1>3, <2>1, <1>1, <1>2 DEF Types, Stages, Moves
  <2>4. Registered'
    BY <1>3, <2>1, <1>1, <1>2 DEF Types, Stages, Registered, Begun, Entries,
       States, Moves
  <2>5. Handled'
    BY <1>3, <2>1, <1>1, <1>2 DEF Types, Stages, Registered, Begun, Handled,
       Entries, States, Moves
  <2>6. Over'
    BY <1>3, <2>1, <1>1, <1>2 DEF Types, Stages, Registered, Begun, Over,
       Quiet, Entries, States, Moves
  <2>7. NothingUnowned'
    BY <1>3, <2>1, <1>1, <1>2 DEF Types, Stages, NothingUnowned, At, Entries,
       States, Quiet, Moves
  <2> QED
    BY <2>2, <2>3, <2>4, <2>5, <2>6, <2>7 DEF Inv
<1>4. CASE k = "begin"
  <2>1. Moves(r, k, "answered", "failed")
    BY <1>4, <1>1, <1>2, AnswerMoves DEF Answers
  <2>2. Counted' /\ Types'
    <3>1. \A q \in Requests, m \in Kinds : Holding(q, m)' <=> Holding(q, m)
      BY <1>4, <2>1, <1>1, <1>2 DEF Stages, Holding, Moves
    <3>2. entry' \in Entries
      BY <1>4, <2>1, <1>1, <1>2 DEF Types, Entries, States, Handlers
    <3>3. \A q \in Requests : /\ entry'[q].active = entry[q].active
                              /\ entry[q].known => entry'[q].known
      BY <1>4, <2>1, <1>1, <1>2 DEF Types, Entries, States
    <3>4. Types'
      BY <1>4, <2>1, <1>1, <1>2, <3>2 DEF Types, CallRecords, Registered, Moves
    <3> QED
      BY <1>1, <3>1, <3>3, <3>4, KeepCount
  <2>3. Stages'
    BY <1>4, <2>1, <1>1, <1>2 DEF Types, Stages, Moves
  <2>4. Registered'
    BY <1>4, <2>1, <1>1, <1>2 DEF Types, Stages, Registered, Begun, Entries,
       States, Moves
  <2>5. Handled'
    BY <1>4, <2>1, <1>1, <1>2 DEF Types, Stages, Registered, Begun, Handled,
       Entries, States, Moves
  <2>6. Over'
    BY <1>4, <2>1, <1>1, <1>2 DEF Types, Stages, Registered, Begun, Over,
       Quiet, Entries, States, Moves
  <2>7. NothingUnowned'
    BY <1>4, <2>1, <1>1, <1>2 DEF Types, Stages, NothingUnowned, At, Entries,
       States, Quiet, Moves
  <2> QED
    BY <2>2, <2>3, <2>4, <2>5, <2>6, <2>7 DEF Inv
<1> QED
  BY <1>3, <1>4

(***************************************************************************)
(* Callbacks and the response.                                             *)
(***************************************************************************)
LEMMA CallbackReturnsInv ==
  ASSUME Inv, NEW r \in Requests, NEW k \in Kinds, CallbackReturns(r, k)
  PROVE  Inv'
<1> USE DEF CallbackReturns, At
<1>1. /\ Types /\ Stages /\ Registered /\ Counted /\ Handled /\ Over
      /\ NothingUnowned
  BY DEF Inv
<1>2. {"begin", "end", "response"} \subseteq Kinds /\ Callbacks \subseteq Kinds
  BY KindsFinite
<1>3. CASE Ended(r, k) \/ Cancelled(r)
  <2>1. Moves(r, k, "answered", "canceled")
    BY <1>3, <1>1, <1>2, AnswerMoves DEF Answers
  <2>2. Counted' /\ Types' /\ entry[r].known /\ entry[r].active - 1 \in Nat
    <3>1. Holding(r, k) /\ ~Holding(r, k)'
      BY <1>3, <2>1, <1>1, <1>2 DEF Stages, Holding, Moves
    <3>2. \A q \in Requests, m \in Kinds :
            q # r \/ m # k => (Holding(q, m)' <=> Holding(q, m))
      BY <1>3, <2>1, <1>1, <1>2 DEF Holding, Moves
    <3>3. /\ entry'[r].active = entry[r].active - 1
           /\ entry'[r].known = entry[r].known
           /\ \A q \in Requests \ {r} : entry'[q] = entry[q]
      BY <1>3, <2>1, <1>1, <1>2 DEF Types, Entries, States
    <3>4. Counted' /\ entry[r].active - 1 \in Nat /\ entry[r].known
      BY <1>1, <1>2, <3>1, <3>2, <3>3, DropCount, KindsFinite
    <3>5. entry' \in Entries
      BY <1>3, <2>1, <1>1, <1>2, <3>4 DEF Types, Entries, States
    <3>6. Types'
      BY <1>3, <2>1, <1>1, <1>2, <3>5 DEF Types, CallRecords, Moves
    <3> QED
      BY <3>4, <3>6
  <2>3. Stages'
    BY <1>3, <2>1, <1>1, <1>2 DEF Types, Stages, Moves
  <2>4. Registered'
    BY <1>3, <2>1, <1>1, <1>2 DEF Types, Stages, Registered, Begun, Entries,
       States, Moves
  <2>5. Handled'
    BY <1>3, <2>1, <1>1, <1>2, <2>2 DEF Types, Stages, Registered, Begun,
       Handled, Entries, States, Moves
  <2>6. Over'
    BY <1>3, <2>1, <1>1, <1>2, <2>2 DEF Types, Stages, Registered, Begun, Over,
       Quiet, Entries, States, Moves
  <2>7. NothingUnowned'
    BY <1>3, <2>1, <1>1, <1>2 DEF Types, Stages, NothingUnowned, At, Entries,
       States, Quiet, Moves
  <2> QED
    BY <2>2, <2>3, <2>4, <2>5, <2>6, <2>7 DEF Inv
<1>4. CASE ~(Ended(r, k) \/ Cancelled(r))
  <2>1. Moves(r, k, "answered", "ok")
    BY <1>4, <1>1, <1>2, AnswerMoves DEF Answers
  <2>2. Counted' /\ Types' /\ entry[r].known /\ entry[r].active - 1 \in Nat
    <3>1. Holding(r, k) /\ ~Holding(r, k)'
      BY <1>4, <2>1, <1>1, <1>2 DEF Stages, Holding, Moves
    <3>2. \A q \in Requests, m \in Kinds :
            q # r \/ m # k => (Holding(q, m)' <=> Holding(q, m))
      BY <1>4, <2>1, <1>1, <1>2 DEF Holding, Moves
    <3>3. /\ entry'[r].active = entry[r].active - 1
           /\ entry'[r].known = entry[r].known
           /\ \A q \in Requests \ {r} : entry'[q] = entry[q]
      BY <1>4, <2>1, <1>1, <1>2 DEF Types, Entries, States
    <3>4. Counted' /\ entry[r].active - 1 \in Nat /\ entry[r].known
      BY <1>1, <1>2, <3>1, <3>2, <3>3, DropCount, KindsFinite
    <3>5. entry' \in Entries
      BY <1>4, <2>1, <1>1, <1>2, <3>4 DEF Types, Entries, States
    <3>6. Types'
      BY <1>4, <2>1, <1>1, <1>2, <3>5 DEF Types, CallRecords, Moves
    <3> QED
      BY <3>4, <3>6
  <2>3. Stages'
    BY <1>4, <2>1, <1>1, <1>2 DEF Types, Stages, Moves
  <2>4. Registered'
    BY <1>4, <2>1, <1>1, <1>2 DEF Types, Stages, Registered, Begun, Entries,
       States, Moves
  <2>5. Handled'
    BY <1>4, <2>1, <1>1, <1>2, <2>2 DEF Types, Stages, Registered, Begun,
       Handled, Entries, States, Moves
  <2>6. Over'
    BY <1>4, <2>1, <1>1, <1>2, <2>2 DEF Types, Stages, Registered, Begun, Over,
       Quiet, Entries, States, Moves
  <2>7. NothingUnowned'
    BY <1>4, <2>1, <1>1, <1>2 DEF Types, Stages, NothingUnowned, At, Entries,
       States, Quiet, Moves
  <2> QED
    BY <2>2, <2>3, <2>4, <2>5, <2>6, <2>7 DEF Inv
<1> QED
  BY <1>3, <1>4

LEMMA SendInv ==
  ASSUME Inv, NEW r \in Requests, Send(r)
  PROVE  Inv'
<1> USE DEF Send, At
<1>1. /\ Types /\ Stages /\ Registered /\ Counted /\ Handled /\ Over
      /\ NothingUnowned
  BY DEF Inv
<1>2. {"begin", "end", "response"} \subseteq Kinds /\ Callbacks \subseteq Kinds
  BY KindsFinite
<1>3. Inv'
  <2>1. Moves(r, "response", "waiting", call[r]["response"].answer)
    BY <1>1, <1>2, MoveMoves DEF Stops
  <2>2. Counted' /\ Types'
    <3>1. \A q \in Requests, m \in Kinds : Holding(q, m)' <=> Holding(q, m)
      BY <2>1, <1>1, <1>2 DEF Stages, Holding, Moves
    <3>2. entry' \in Entries
      <4>1. PICK e : e = [entry[r] EXCEPT !.response = TRUE]
        OBVIOUS
      <4>2. entry \in [Requests -> States] /\ entry[r] \in States
        BY <1>1 DEF Types, Entries
      <4>3. e \in States
        BY <4>1, <4>2 DEF States, Handlers
      <4>4. entry' = [entry EXCEPT ![r] = e]
        BY <4>1
      <4> QED
        BY <4>2, <4>3, <4>4 DEF Entries
    <3>3. \A q \in Requests : /\ entry'[q].active = entry[q].active
                              /\ entry[q].known => entry'[q].known
      BY <2>1, <1>1, <1>2 DEF Types, Entries, States
    <3>4. Types'
      BY <2>1, <1>1, <1>2, <3>2 DEF Types, CallRecords, Registered, Moves
    <3> QED
      BY <1>1, <3>1, <3>3, <3>4, KeepCount
  <2>3. Stages'
    BY <2>1, <1>1, <1>2 DEF Types, Stages, Moves
  <2>4. Registered'
    BY <2>1, <1>1, <1>2 DEF Types, Stages, Registered, Begun, Entries, States,
       Moves
  <2>5. Handled'
    BY <2>1, <1>1, <1>2 DEF Types, Stages, Registered, Begun, Handled, Entries,
       States, Moves
  <2>6. Over'
    BY <2>1, <1>1, <1>2 DEF Types, Stages, Registered, Begun, Over, Quiet,
       Entries, States, Moves
  <2>7. NothingUnowned'
    BY <2>1, <1>1, <1>2 DEF Types, Stages, NothingUnowned, At, Entries, States,
       Quiet, Moves
  <2> QED
    BY <2>2, <2>3, <2>4, <2>5, <2>6, <2>7 DEF Inv
<1> QED
  BY <1>3

LEMMA RespondedInv ==
  ASSUME Inv, NEW r \in Requests, Responded(r)
  PROVE  Inv'
<1> USE DEF Responded, At
<1>1. /\ Types /\ Stages /\ Registered /\ Counted /\ Handled /\ Over
      /\ NothingUnowned
  BY DEF Inv
<1>2. {"begin", "end", "response"} \subseteq Kinds /\ Callbacks \subseteq Kinds
  BY KindsFinite
<1>3. CASE entry[r].failure
  <2>1. Moves(r, "response", "answered", "failed")
    BY <1>3, <1>1, <1>2, AnswerMoves DEF Answers
  <2>2. Counted' /\ Types' /\ entry[r].known /\ entry[r].active - 1 \in Nat
    <3>1. Holding(r, "response") /\ ~Holding(r, "response")'
      BY <1>3, <2>1, <1>1, <1>2 DEF Stages, Holding, Moves
    <3>2. \A q \in Requests, m \in Kinds :
            q # r \/ m # "response" => (Holding(q, m)' <=> Holding(q, m))
      BY <1>3, <2>1, <1>1, <1>2 DEF Holding, Moves
    <3>3. /\ entry'[r].active = entry[r].active - 1
           /\ entry'[r].known = entry[r].known
           /\ \A q \in Requests \ {r} : entry'[q] = entry[q]
      BY <1>3, <2>1, <1>1, <1>2 DEF Types, Entries, States
    <3>4. Counted' /\ entry[r].active - 1 \in Nat /\ entry[r].known
      BY <1>1, <1>2, <3>1, <3>2, <3>3, DropCount, KindsFinite
    <3>5. entry' \in Entries
      BY <1>3, <2>1, <1>1, <1>2, <3>4 DEF Types, Entries, States
    <3>6. Types'
      BY <1>3, <2>1, <1>1, <1>2, <3>5 DEF Types, CallRecords, Moves
    <3> QED
      BY <3>4, <3>6
  <2>3. Stages'
    BY <1>3, <2>1, <1>1, <1>2 DEF Types, Stages, Moves
  <2>4. Registered'
    BY <1>3, <2>1, <1>1, <1>2 DEF Types, Stages, Registered, Begun, Entries,
       States, Moves
  <2>5. Handled'
    BY <1>3, <2>1, <1>1, <1>2, <2>2 DEF Types, Stages, Registered, Begun,
       Handled, Entries, States, Moves
  <2>6. Over'
    BY <1>3, <2>1, <1>1, <1>2, <2>2 DEF Types, Stages, Registered, Begun, Over,
       Quiet, Entries, States, Moves
  <2>7. NothingUnowned'
    BY <1>3, <2>1, <1>1, <1>2 DEF Types, Stages, NothingUnowned, At, Entries,
       States, Quiet, Moves
  <2> QED
    BY <2>2, <2>3, <2>4, <2>5, <2>6, <2>7 DEF Inv
<1>4. CASE ~entry[r].failure
  <2>1. Moves(r, "response", "answered", "ok")
    BY <1>4, <1>1, <1>2, AnswerMoves DEF Answers
  <2>2. Counted' /\ Types' /\ entry[r].known /\ entry[r].active - 1 \in Nat
    <3>1. Holding(r, "response") /\ ~Holding(r, "response")'
      BY <1>4, <2>1, <1>1, <1>2 DEF Stages, Holding, Moves
    <3>2. \A q \in Requests, m \in Kinds :
            q # r \/ m # "response" => (Holding(q, m)' <=> Holding(q, m))
      BY <1>4, <2>1, <1>1, <1>2 DEF Holding, Moves
    <3>3. /\ entry'[r].active = entry[r].active - 1
           /\ entry'[r].known = entry[r].known
           /\ \A q \in Requests \ {r} : entry'[q] = entry[q]
      BY <1>4, <2>1, <1>1, <1>2 DEF Types, Entries, States
    <3>4. Counted' /\ entry[r].active - 1 \in Nat /\ entry[r].known
      BY <1>1, <1>2, <3>1, <3>2, <3>3, DropCount, KindsFinite
    <3>5. entry' \in Entries
      BY <1>4, <2>1, <1>1, <1>2, <3>4 DEF Types, Entries, States
    <3>6. Types'
      BY <1>4, <2>1, <1>1, <1>2, <3>5 DEF Types, CallRecords, Moves
    <3> QED
      BY <3>4, <3>6
  <2>3. Stages'
    BY <1>4, <2>1, <1>1, <1>2 DEF Types, Stages, Moves
  <2>4. Registered'
    BY <1>4, <2>1, <1>1, <1>2 DEF Types, Stages, Registered, Begun, Entries,
       States, Moves
  <2>5. Handled'
    BY <1>4, <2>1, <1>1, <1>2, <2>2 DEF Types, Stages, Registered, Begun,
       Handled, Entries, States, Moves
  <2>6. Over'
    BY <1>4, <2>1, <1>1, <1>2, <2>2 DEF Types, Stages, Registered, Begun, Over,
       Quiet, Entries, States, Moves
  <2>7. NothingUnowned'
    BY <1>4, <2>1, <1>1, <1>2 DEF Types, Stages, NothingUnowned, At, Entries,
       States, Quiet, Moves
  <2> QED
    BY <2>2, <2>3, <2>4, <2>5, <2>6, <2>7 DEF Inv
<1> QED
  BY <1>3, <1>4

LEMMA ResponseGoneInv ==
  ASSUME Inv, NEW r \in Requests, ResponseGone(r)
  PROVE  Inv'
<1> USE DEF ResponseGone
<1>1. /\ Types /\ Stages /\ Registered /\ Counted /\ Handled /\ Over
      /\ NothingUnowned
  BY DEF Inv
<1>2. {"begin", "end", "response"} \subseteq Kinds /\ Callbacks \subseteq Kinds
  BY KindsFinite
<1>3. Inv'
  <2>1. Moves(r, "response", "answered", "canceled")
    BY <1>1, <1>2, AnswerMoves DEF Answers
  <2>2. Counted' /\ Types' /\ entry[r].known /\ entry[r].active - 1 \in Nat
    <3>1. Holding(r, "response") /\ ~Holding(r, "response")'
      BY <2>1, <1>1, <1>2 DEF Stages, Holding, Moves
    <3>2. \A q \in Requests, m \in Kinds :
            q # r \/ m # "response" => (Holding(q, m)' <=> Holding(q, m))
      BY <2>1, <1>1, <1>2 DEF Holding, Moves
    <3>3. /\ entry'[r].active = entry[r].active - 1
           /\ entry'[r].known = entry[r].known
           /\ \A q \in Requests \ {r} : entry'[q] = entry[q]
      BY <2>1, <1>1, <1>2 DEF Types, Entries, States
    <3>4. Counted' /\ entry[r].active - 1 \in Nat /\ entry[r].known
      BY <1>1, <1>2, <3>1, <3>2, <3>3, DropCount, KindsFinite
    <3>5. entry' \in Entries
      <4>1. PICK e : e = [entry[r] EXCEPT !.active = entry[r].active - 1, !.cancelled = TRUE]
        OBVIOUS
      <4>2. entry \in [Requests -> States] /\ entry[r] \in States
        BY <1>1 DEF Types, Entries
      <4>3. e \in States
        BY <3>4, <4>1, <4>2 DEF States, Handlers
      <4>4. entry' = [entry EXCEPT ![r] = e]
        BY <3>4, <4>1, <4>2
      <4> QED
        BY <4>2, <4>3, <4>4 DEF Entries
    <3>6. Types'
      BY <2>1, <1>1, <1>2, <3>5 DEF Types, CallRecords, Moves
    <3> QED
      BY <3>4, <3>6
  <2>3. Stages'
    BY <2>1, <1>1, <1>2 DEF Types, Stages, Moves
  <2>4. Registered'
    BY <2>1, <1>1, <1>2 DEF Types, Stages, Registered, Begun, Entries, States,
       Moves
  <2>5. Handled'
    BY <2>1, <1>1, <1>2, <2>2 DEF Types, Stages, Registered, Begun, Handled,
       Entries, States, Moves
  <2>6. Over'
    <3>1. ASSUME NEW q \in Requests, Quiet(q) PROVE Quiet(q)'
      BY <2>1, <2>2, <1>1, <1>2, <3>1 DEF Types, Entries, States, Quiet
    <3>2. \A q \in Requests : call'[q]["end"].answer = "ok" => call[q]["end"].answer = "ok"
      BY <2>1, <1>1, <1>2 DEF Moves, Stages
    <3> QED
      BY <1>1, <3>1, <3>2 DEF Over, Types, Registered
  <2>7. NothingUnowned'
    BY <2>1, <1>1, <1>2 DEF Types, Stages, NothingUnowned, At, Entries, States,
       Quiet, Moves
  <2> QED
    BY <2>2, <2>3, <2>4, <2>5, <2>6, <2>7 DEF Inv
<1> QED
  BY <1>3

(***************************************************************************)
(* The service.                                                            *)
(***************************************************************************)
LEMMA GiveUpInv ==
  ASSUME Inv, NEW r \in Requests, NEW k \in Kinds, GiveUp(r, k)
  PROVE  Inv'
<1> USE DEF GiveUp, Pending
<1>1. /\ Types /\ Stages /\ Registered /\ Counted /\ Handled /\ Over
      /\ NothingUnowned
  BY DEF Inv
<1>2. {"begin", "end", "response"} \subseteq Kinds /\ Callbacks \subseteq Kinds
  BY KindsFinite
<1>3. Inv'
  <2>1. Moves(r, k, call[r][k].at, call[r][k].answer)
    BY <1>1, GoneMoves
  <2>2. Counted' /\ Types'
    <3>1. \A q \in Requests, m \in Kinds : Holding(q, m)' <=> Holding(q, m)
      BY <2>1, <1>1, <1>2 DEF Stages, Holding, Moves
    <3>2. entry' \in Entries
      BY <2>1, <1>1, <1>2 DEF Types, Entries, States, Handlers
    <3>3. \A q \in Requests : /\ entry'[q].active = entry[q].active
                              /\ entry[q].known => entry'[q].known
      BY <2>1, <1>1, <1>2 DEF Types, Entries, States
    <3>4. Types'
      BY <2>1, <1>1, <1>2, <3>2 DEF Types, CallRecords, Registered, Moves
    <3> QED
      BY <1>1, <3>1, <3>3, <3>4, KeepCount
  <2>3. Stages'
    BY <2>1, <1>1, <1>2 DEF Types, Stages, Moves
  <2>4. Registered'
    BY <2>1, <1>1, <1>2 DEF Types, Stages, Registered, Begun, Entries, States,
       Moves
  <2>5. Handled'
    BY <2>1, <1>1, <1>2 DEF Types, Stages, Registered, Begun, Handled, Entries,
       States, Moves
  <2>6. Over'
    BY <2>1, <1>1, <1>2 DEF Types, Stages, Registered, Begun, Over, Quiet,
       Entries, States, Moves
  <2>7. NothingUnowned'
    BY <2>1, <1>1, <1>2 DEF Types, Stages, NothingUnowned, At, Entries, States,
       Quiet, Moves
  <2> QED
    BY <2>2, <2>3, <2>4, <2>5, <2>6, <2>7 DEF Inv
<1> QED
  BY <1>3

LEMMA LeaveInv ==
  ASSUME Inv, Leave
  PROVE  Inv'
<1> USE DEF Leave
<1>1. /\ Types /\ Stages /\ Registered /\ Counted /\ Handled /\ Over
      /\ NothingUnowned
  BY DEF Inv
<1>2. {"begin", "end", "response"} \subseteq Kinds /\ Callbacks \subseteq Kinds
  BY KindsFinite
<1>3. Inv'
  <2>2. Counted' /\ Types'
    <3>1. \A q \in Requests, m \in Kinds : Holding(q, m)' <=> Holding(q, m)
      BY <1>1, <1>2 DEF Stages, Holding
    <3>2. entry' \in Entries
      BY <1>1, <1>2 DEF Types, Entries, States, Handlers
    <3>3. \A q \in Requests : /\ entry'[q].active = entry[q].active
                              /\ entry[q].known => entry'[q].known
      BY <1>1, <1>2 DEF Types, Entries, States
    <3>4. Types'
      BY <1>1, <1>2, <3>2 DEF Types, CallRecords, Registered
    <3> QED
      BY <1>1, <3>1, <3>3, <3>4, KeepCount
  <2>3. Stages'
    BY <1>1, <1>2 DEF Types, Stages
  <2>4. Registered'
    BY <1>1, <1>2 DEF Types, Stages, Registered, Begun, Entries, States
  <2>5. Handled'
    BY <1>1, <1>2 DEF Types, Stages, Registered, Begun, Handled, Entries,
       States
  <2>6. Over'
    BY <1>1, <1>2 DEF Types, Stages, Registered, Begun, Over, Quiet, Entries,
       States
  <2>7. NothingUnowned'
    BY <1>1, <1>2 DEF Types, Stages, NothingUnowned, At, Entries, States, Quiet
  <2> QED
    BY <2>2, <2>3, <2>4, <2>5, <2>6, <2>7 DEF Inv
<1> QED
  BY <1>3

LEMMA CancelInv ==
  ASSUME Inv, Cancel
  PROVE  Inv'
<1> USE DEF Cancel
<1>1. /\ Types /\ Stages /\ Registered /\ Counted /\ Handled /\ Over
      /\ NothingUnowned
  BY DEF Inv
<1>2. {"begin", "end", "response"} \subseteq Kinds /\ Callbacks \subseteq Kinds
  BY KindsFinite
<1>3. Inv'
  <2>2. Counted' /\ Types'
    <3>1. \A q \in Requests, m \in Kinds : Holding(q, m)' <=> Holding(q, m)
      BY <1>1, <1>2 DEF Stages, Holding
    <3>2. entry' \in Entries
      BY <1>1, <1>2 DEF Types, Entries, States, Handlers
    <3>3. \A q \in Requests : /\ entry'[q].active = entry[q].active
                              /\ entry[q].known => entry'[q].known
      BY <1>1, <1>2 DEF Types, Entries, States
    <3>4. Types'
      BY <1>1, <1>2, <3>2 DEF Types, CallRecords, Registered
    <3> QED
      BY <1>1, <3>1, <3>3, <3>4, KeepCount
  <2>3. Stages'
    BY <1>1, <1>2 DEF Types, Stages
  <2>4. Registered'
    BY <1>1, <1>2 DEF Types, Stages, Registered, Begun, Entries, States
  <2>5. Handled'
    BY <1>1, <1>2 DEF Types, Stages, Registered, Begun, Handled, Entries,
       States
  <2>6. Over'
    BY <1>1, <1>2 DEF Types, Stages, Registered, Begun, Over, Quiet, Entries,
       States
  <2>7. NothingUnowned'
    BY <1>1, <1>2 DEF Types, Stages, NothingUnowned, At, Entries, States, Quiet
  <2> QED
    BY <2>2, <2>3, <2>4, <2>5, <2>6, <2>7 DEF Inv
<1> QED
  BY <1>3

LEMMA ShutdownInv ==
  ASSUME Inv, Shutdown
  PROVE  Inv'
<1> USE DEF Shutdown
<1>1. /\ Types /\ Stages /\ Registered /\ Counted /\ Handled /\ Over
      /\ NothingUnowned
  BY DEF Inv
<1>2. {"begin", "end", "response"} \subseteq Kinds /\ Callbacks \subseteq Kinds
  BY KindsFinite
<1>3. Inv'
  <2>2. Counted' /\ Types'
    <3>1. \A q \in Requests, m \in Kinds : Holding(q, m)' <=> Holding(q, m)
      BY <1>1, <1>2 DEF Stages, Holding
    <3>2. entry' \in Entries
      BY <1>1, <1>2 DEF Types, Entries, States, Handlers
    <3>3. \A q \in Requests : /\ entry'[q].active = entry[q].active
                              /\ entry[q].known => entry'[q].known
      BY <1>1, <1>2 DEF Types, Entries, States
    <3>4. Types'
      BY <1>1, <1>2, <3>2 DEF Types, CallRecords, Registered
    <3> QED
      BY <1>1, <3>1, <3>3, <3>4, KeepCount
  <2>3. Stages'
    BY <1>1, <1>2 DEF Types, Stages
  <2>4. Registered'
    BY <1>1, <1>2 DEF Types, Stages, Registered, Begun, Entries, States
  <2>5. Handled'
    BY <1>1, <1>2 DEF Types, Stages, Registered, Begun, Handled, Entries,
       States
  <2>6. Over'
    BY <1>1, <1>2 DEF Types, Stages, Registered, Begun, Over, Quiet, Entries,
       States
  <2>7. NothingUnowned'
    BY <1>1, <1>2 DEF Types, Stages, NothingUnowned, At, Entries, States, Quiet
  <2> QED
    BY <2>2, <2>3, <2>4, <2>5, <2>6, <2>7 DEF Inv
<1> QED
  BY <1>3

LEMMA StopInv ==
  ASSUME Inv, Stop
  PROVE  Inv'
<1> USE DEF Stop, Quiet
<1>1. /\ Types /\ Stages /\ Registered /\ Counted /\ Handled /\ Over
      /\ NothingUnowned
  BY DEF Inv
<1>2. {"begin", "end", "response"} \subseteq Kinds /\ Callbacks \subseteq Kinds
  BY KindsFinite
<1>3. Inv'
  <2>2. Counted' /\ Types'
    <3>1. \A q \in Requests, m \in Kinds : Holding(q, m)' <=> Holding(q, m)
      BY <1>1, <1>2 DEF Stages, Holding
    <3>2. entry' \in Entries
      BY <1>1, <1>2 DEF Types, Entries, States, Handlers
    <3>3. \A q \in Requests : /\ entry'[q].active = entry[q].active
                              /\ entry[q].known => entry'[q].known
      BY <1>1, <1>2 DEF Types, Entries, States
    <3>4. Types'
      BY <1>1, <1>2, <3>2 DEF Types, CallRecords, Registered
    <3> QED
      BY <1>1, <3>1, <3>3, <3>4, KeepCount
  <2>3. Stages'
    BY <1>1, <1>2 DEF Types, Stages
  <2>4. Registered'
    BY <1>1, <1>2 DEF Types, Stages, Registered, Begun, Entries, States
  <2>5. Handled'
    BY <1>1, <1>2 DEF Types, Stages, Registered, Begun, Handled, Entries,
       States
  <2>6. Over'
    BY <1>1, <1>2 DEF Types, Stages, Registered, Begun, Over, Quiet, Entries,
       States
  <2>7. NothingUnowned'
    BY <1>1, <1>2 DEF Types, Stages, NothingUnowned, At, Entries, States, Quiet
  <2> QED
    BY <2>2, <2>3, <2>4, <2>5, <2>6, <2>7 DEF Inv
<1> QED
  BY <1>3

LEMMA CloseInv ==
  ASSUME Inv, Close
  PROVE  Inv'
<1> USE DEF Close
<1>1. /\ Types /\ Stages /\ Registered /\ Counted /\ Handled /\ Over
      /\ NothingUnowned
  BY DEF Inv
<1>2. {"begin", "end", "response"} \subseteq Kinds /\ Callbacks \subseteq Kinds
  BY KindsFinite
<1>3. Inv'
  <2>2. Counted' /\ Types'
    <3>1. \A q \in Requests, m \in Kinds : Holding(q, m)' <=> Holding(q, m)
      BY <1>1, <1>2 DEF Stages, Holding
    <3>2. entry' \in Entries
      <4>1. ASSUME NEW q \in Requests
            PROVE  /\ [entry[q] EXCEPT !.cancelled = TRUE] \in States
                   /\ entry[q] \in States
        BY ZenonT(60), <1>1 DEF Types, Entries, States
      <4> QED
        BY <4>1 DEF Entries
    <3>3. \A q \in Requests : /\ entry'[q].active = entry[q].active
                              /\ entry[q].known => entry'[q].known
      BY <1>1, <1>2 DEF Types, Entries, States
    <3>4. Types'
      BY <1>1, <1>2, <3>2 DEF Types, CallRecords, Registered
    <3> QED
      BY <1>1, <3>1, <3>3, <3>4, KeepCount
  <2>3. Stages'
    BY <1>1, <1>2 DEF Types, Stages
  <2>4. Registered'
    BY <1>1, <1>2 DEF Types, Stages, Registered, Begun, Entries, States
  <2>5. Handled'
    BY <1>1, <1>2 DEF Types, Stages, Registered, Begun, Handled, Entries,
       States
  <2>6. Over'
    BY <1>1, <1>2 DEF Types, Stages, Registered, Begun, Over, Quiet, Entries,
       States
  <2>7. NothingUnowned'
    BY <1>1, <1>2 DEF Types, Stages, NothingUnowned, At, Entries, States, Quiet
  <2> QED
    BY <2>2, <2>3, <2>4, <2>5, <2>6, <2>7 DEF Inv
<1> QED
  BY <1>3

(***************************************************************************)
(* The worker.                                                             *)
(***************************************************************************)
LEMMA WorkerBeginsInv ==
  ASSUME Inv, NEW r \in Requests, WorkerBegins(r)
  PROVE  Inv'
<1> USE DEF WorkerBegins, Ask
<1>1. /\ Types /\ Stages /\ Registered /\ Counted /\ Handled /\ Over
      /\ NothingUnowned
  BY DEF Inv
<1>2. {"begin", "end", "response"} \subseteq Kinds /\ Callbacks \subseteq Kinds
  BY KindsFinite
<1>3. Inv'
  <2>1. Moves(r, "begin", "registering", call[r]["begin"].answer)
    BY <1>1, <1>2, MoveMoves DEF Stops
  <2>2. Counted' /\ Types'
    <3>1. \A q \in Requests, m \in Kinds : Holding(q, m)' <=> Holding(q, m)
      BY <2>1, <1>1, <1>2 DEF Stages, Holding, Moves
    <3>2. entry' \in Entries
      BY <2>1, <1>1, <1>2 DEF Types, Entries, States, Handlers
    <3>3. \A q \in Requests : /\ entry'[q].active = entry[q].active
                              /\ entry[q].known => entry'[q].known
      BY <2>1, <1>1, <1>2 DEF Types, Entries, States
    <3>4. Types'
      BY <2>1, <1>1, <1>2, <3>2 DEF Types, CallRecords, Registered, Moves
    <3> QED
      BY <1>1, <3>1, <3>3, <3>4, KeepCount
  <2>3. Stages'
    BY <2>1, <1>1, <1>2 DEF Types, Stages, Moves
  <2>4. Registered'
    BY <2>1, <1>1, <1>2 DEF Types, Stages, Registered, Begun, Entries, States,
       Moves
  <2>5. Handled'
    BY <2>1, <1>1, <1>2 DEF Types, Stages, Registered, Begun, Handled, Entries,
       States, Moves
  <2>6. Over'
    BY <2>1, <1>1, <1>2 DEF Types, Stages, Registered, Begun, Over, Quiet,
       Entries, States, Moves
  <2>7. NothingUnowned'
    BY <2>1, <1>1, <1>2 DEF Types, Stages, NothingUnowned, At, Entries, States,
       Quiet, Moves
  <2> QED
    BY <2>2, <2>3, <2>4, <2>5, <2>6, <2>7 DEF Inv
<1> QED
  BY <1>3

LEMMA WorkerBeganInv ==
  ASSUME Inv, NEW r \in Requests, WorkerBegan(r)
  PROVE  Inv'
<1> USE DEF WorkerBegan, Ask
<1>1. /\ Types /\ Stages /\ Registered /\ Counted /\ Handled /\ Over
      /\ NothingUnowned
  BY DEF Inv
<1>2. {"begin", "end", "response"} \subseteq Kinds /\ Callbacks \subseteq Kinds
  BY KindsFinite
<1>3. Inv'
  <2>2. Counted' /\ Types'
    <3>1. \A q \in Requests, m \in Kinds : Holding(q, m)' <=> Holding(q, m)
      BY <1>1, <1>2 DEF Stages, Holding
    <3>2. entry' \in Entries
      BY <1>1, <1>2 DEF Types, Entries, States, Handlers
    <3>3. \A q \in Requests : /\ entry'[q].active = entry[q].active
                              /\ entry[q].known => entry'[q].known
      BY <1>1, <1>2 DEF Types, Entries, States
    <3>4. Types'
      BY <1>1, <1>2, <3>2 DEF Types, CallRecords, Registered
    <3> QED
      BY <1>1, <3>1, <3>3, <3>4, KeepCount
  <2>3. Stages'
    BY <1>1, <1>2 DEF Types, Stages
  <2>4. Registered'
    BY <1>1, <1>2 DEF Types, Stages, Registered, Begun, Entries, States
  <2>5. Handled'
    BY <1>1, <1>2 DEF Types, Stages, Registered, Begun, Handled, Entries,
       States
  <2>6. Over'
    BY <1>1, <1>2 DEF Types, Stages, Registered, Begun, Over, Quiet, Entries,
       States
  <2>7. NothingUnowned'
    BY <1>1, <1>2 DEF Types, Stages, NothingUnowned, At, Entries, States, Quiet
  <2> QED
    BY <2>2, <2>3, <2>4, <2>5, <2>6, <2>7 DEF Inv
<1> QED
  BY <1>3

LEMMA WorkerCallsBackInv ==
  ASSUME Inv, NEW r \in Requests, NEW k \in Kinds, WorkerCallsBack(r, k)
  PROVE  Inv'
<1> USE DEF WorkerCallsBack, At, Ask
<1>1. /\ Types /\ Stages /\ Registered /\ Counted /\ Handled /\ Over
      /\ NothingUnowned
  BY DEF Inv
<1>2. {"begin", "end", "response"} \subseteq Kinds /\ Callbacks \subseteq Kinds
  BY KindsFinite
<1>3. Inv'
  <2>1. Moves(r, k, "asking", call[r][k].answer)
    BY <1>1, <1>2, MoveMoves DEF Stops
  <2>2. Counted' /\ Types'
    <3>1. \A q \in Requests, m \in Kinds : Holding(q, m)' <=> Holding(q, m)
      BY <2>1, <1>1, <1>2 DEF Stages, Holding, Moves
    <3>2. entry' \in Entries
      BY <2>1, <1>1, <1>2 DEF Types, Entries, States, Handlers
    <3>3. \A q \in Requests : /\ entry'[q].active = entry[q].active
                              /\ entry[q].known => entry'[q].known
      BY <2>1, <1>1, <1>2 DEF Types, Entries, States
    <3>4. Types'
      BY <2>1, <1>1, <1>2, <3>2 DEF Types, CallRecords, Registered, Moves
    <3> QED
      BY <1>1, <3>1, <3>3, <3>4, KeepCount
  <2>3. Stages'
    BY <2>1, <1>1, <1>2 DEF Types, Stages, Moves
  <2>4. Registered'
    BY <2>1, <1>1, <1>2 DEF Types, Stages, Registered, Begun, Entries, States,
       Moves
  <2>5. Handled'
    BY <2>1, <1>1, <1>2 DEF Types, Stages, Registered, Begun, Handled, Entries,
       States, Moves
  <2>6. Over'
    BY <2>1, <1>1, <1>2 DEF Types, Stages, Registered, Begun, Over, Quiet,
       Entries, States, Moves
  <2>7. NothingUnowned'
    BY <2>1, <1>1, <1>2 DEF Types, Stages, NothingUnowned, At, Entries, States,
       Quiet, Moves
  <2> QED
    BY <2>2, <2>3, <2>4, <2>5, <2>6, <2>7 DEF Inv
<1> QED
  BY <1>3

LEMMA WorkerRespondsInv ==
  ASSUME Inv, NEW r \in Requests, WorkerResponds(r)
  PROVE  Inv'
<1> USE DEF WorkerResponds, Ask
<1>1. /\ Types /\ Stages /\ Registered /\ Counted /\ Handled /\ Over
      /\ NothingUnowned
  BY DEF Inv
<1>2. {"begin", "end", "response"} \subseteq Kinds /\ Callbacks \subseteq Kinds
  BY KindsFinite
<1>3. Inv'
  <2>1. Moves(r, "response", "asking", call[r]["response"].answer)
    BY <1>1, <1>2, MoveMoves DEF Stops
  <2>2. Counted' /\ Types'
    <3>1. \A q \in Requests, m \in Kinds : Holding(q, m)' <=> Holding(q, m)
      BY <2>1, <1>1, <1>2 DEF Stages, Holding, Moves
    <3>2. entry' \in Entries
      BY <2>1, <1>1, <1>2 DEF Types, Entries, States, Handlers
    <3>3. \A q \in Requests : /\ entry'[q].active = entry[q].active
                              /\ entry[q].known => entry'[q].known
      BY <2>1, <1>1, <1>2 DEF Types, Entries, States
    <3>4. Types'
      BY <2>1, <1>1, <1>2, <3>2 DEF Types, CallRecords, Registered, Moves
    <3> QED
      BY <1>1, <3>1, <3>3, <3>4, KeepCount
  <2>3. Stages'
    BY <2>1, <1>1, <1>2 DEF Types, Stages, Moves
  <2>4. Registered'
    BY <2>1, <1>1, <1>2 DEF Types, Stages, Registered, Begun, Entries, States,
       Moves
  <2>5. Handled'
    BY <2>1, <1>1, <1>2 DEF Types, Stages, Registered, Begun, Handled, Entries,
       States, Moves
  <2>6. Over'
    BY <2>1, <1>1, <1>2 DEF Types, Stages, Registered, Begun, Over, Quiet,
       Entries, States, Moves
  <2>7. NothingUnowned'
    BY <2>1, <1>1, <1>2 DEF Types, Stages, NothingUnowned, At, Entries, States,
       Quiet, Moves
  <2> QED
    BY <2>2, <2>3, <2>4, <2>5, <2>6, <2>7 DEF Inv
<1> QED
  BY <1>3

LEMMA WorkerEndsInv ==
  ASSUME Inv, NEW r \in Requests, WorkerEnds(r)
  PROVE  Inv'
<1> USE DEF WorkerEnds, At, Ask
<1>1. /\ Types /\ Stages /\ Registered /\ Counted /\ Handled /\ Over
      /\ NothingUnowned
  BY DEF Inv
<1>2. {"begin", "end", "response"} \subseteq Kinds /\ Callbacks \subseteq Kinds
  BY KindsFinite
<1>3. Inv'
  <2>1. Moves(r, "end", "ending", call[r]["end"].answer)
    BY <1>1, <1>2, MoveMoves DEF Stops
  <2>2. Counted' /\ Types'
    <3>1. \A q \in Requests, m \in Kinds : Holding(q, m)' <=> Holding(q, m)
      BY <2>1, <1>1, <1>2 DEF Stages, Holding, Moves
    <3>2. entry' \in Entries
      BY <2>1, <1>1, <1>2 DEF Types, Entries, States, Handlers
    <3>3. \A q \in Requests : /\ entry'[q].active = entry[q].active
                              /\ entry[q].known => entry'[q].known
      BY <2>1, <1>1, <1>2 DEF Types, Entries, States
    <3>4. Types'
      BY <2>1, <1>1, <1>2, <3>2 DEF Types, CallRecords, Registered, Moves
    <3> QED
      BY <1>1, <3>1, <3>3, <3>4, KeepCount
  <2>3. Stages'
    BY <2>1, <1>1, <1>2 DEF Types, Stages, Moves
  <2>4. Registered'
    BY <2>1, <1>1, <1>2 DEF Types, Stages, Registered, Begun, Entries, States,
       Moves
  <2>5. Handled'
    BY <2>1, <1>1, <1>2 DEF Types, Stages, Registered, Begun, Handled, Entries,
       States, Moves
  <2>6. Over'
    BY <2>1, <1>1, <1>2 DEF Types, Stages, Registered, Begun, Over, Quiet,
       Entries, States, Moves
  <2>7. NothingUnowned'
    BY <2>1, <1>1, <1>2 DEF Types, Stages, NothingUnowned, At, Entries, States,
       Quiet, Moves
  <2> QED
    BY <2>2, <2>3, <2>4, <2>5, <2>6, <2>7 DEF Inv
<1> QED
  BY <1>3

LEMMA NextInv == Inv /\ [Next]_vars => Inv'
<1> SUFFICES ASSUME Inv, [Next]_vars PROVE Inv'
  OBVIOUS
<1>1. ASSUME NEW r \in Requests, Handling(r) \/ Replying(r) PROVE Inv'
  BY <1>1, HookInv, TakeInv, AbortInv, AfterInv, SendInv, RespondedInv,
     ResponseGoneInv DEF Handling, Replying
<1>2. ASSUME NEW r \in Requests, Serving(r) PROVE Inv'
  BY <1>2, BeginRefusedInv, RegisterInv, BeginReadyInv, BeginDoneInv,
     BeginGoneInv, EndingInv, EndWaitedInv DEF Serving
<1>3. ASSUME NEW r \in Requests, Working(r) PROVE Inv'
  BY <1>3, KindsFinite, WorkerBeginsInv, WorkerBeganInv, WorkerRespondsInv,
     WorkerEndsInv, WorkerCallsBackInv DEF Working
<1>4. ASSUME NEW r \in Requests, NEW k \in Kinds, Calling(r, k) \/ GiveUp(r, k)
      PROVE  Inv'
  BY <1>4, AcquireInv, CallbackReturnsInv, GiveUpInv DEF Calling
<1>5. CASE Leave \/ Leaving
  BY <1>5, LeaveInv, CancelInv, ShutdownInv, CloseInv, StopInv DEF Leaving
<1>6. CASE UNCHANGED vars
  <2>1. Types' /\ Stages' /\ Registered' /\ Handled'
    BY <1>6 DEF Inv, Types, Stages, Registered, Begun, Handled, vars
  <2>2. Counted'
    BY <1>6 DEF Inv, Counted, Holders, Holding, vars
  <2>3. Over' /\ NothingUnowned'
    BY <1>6 DEF Inv, Over, Quiet, NothingUnowned, At, vars
  <2> QED
    BY <2>1, <2>2, <2>3 DEF Inv
<1> QED
  BY <1>1, <1>2, <1>3, <1>4, <1>5, <1>6 DEF Next

LEMMA Invariance == Spec => []Inv
BY InitInv, NextInv, PTL DEF Spec

(***************************************************************************)
(* The theorems.                                                           *)
(***************************************************************************)

\* When an end has been answered, or the service has closed, neither the
\* handler of the request nor a call into it runs.
THEOREM EndsAreQuiet == Spec => []EndedIsQuiet
<1>1. Inv => EndedIsQuiet
  <2> SUFFICES ASSUME Inv, NEW r \in Requests, Quiet(r), NEW k \in Callbacks,
                      At(r, k, "running")
               PROVE  FALSE
    BY DEF Inv, Over, EndedIsQuiet
  <2>1. k \in Holders(r)
    BY KindsFinite DEF Holders, Holding, At
  <2>2. Cardinality(Holders(r)) = 0
    BY DEF Inv, Counted, Quiet
  <2>3. Holders(r) = {}
    BY <2>2, KindsFinite, FS_EmptySet
  <2> QED
    BY <2>1, <2>3
<1> QED
  BY <1>1, Invariance, PTL

\* A response that is answered was taken by a handler that did not fail; one
\* that was aborted is an error.
THEOREM AnswersAreWhole == Spec => []AnswerIsWhole
<1>1. Inv => AnswerIsWhole
  BY DEF Inv, Handled, AnswerIsWhole
<1> QED
  BY <1>1, Invariance, PTL

\* A handler that runs is registered, or somebody is waiting for its end.
THEOREM HandlersAreOwned == Spec => []NothingUnowned
<1>1. Inv => NothingUnowned
  BY DEF Inv
<1> QED
  BY <1>1, Invariance, PTL

\* Whatever runs for a request has an owner, and its end leaves nothing running.
THEOREM NothingIsLeft == Spec => []NothingLeftRunning
BY EndsAreQuiet, HandlersAreOwned, PTL DEF NothingLeftRunning

-------------------------------------------------------------------------------
(* The fetches of one owner.                                               *)

\* What the owner counts of an exchange: its hook from before it is registered,
\* its context as long as it is.  All given back, nothing of it is left.
BeginningInv(f) ==
  /\ kit[f] = "off" => /\ turn[f] = "off" /\ hook[f] = "off" /\ held[f] = {}
                       /\ f \notin exchanges /\ said[f] = None
  /\ turn[f] \in {"arriving", "registering", "starting"} =>
       kit[f] \in {"began", "over"} /\ hook[f] = "off" /\ said[f] = None
  /\ turn[f] = "arriving" => held[f] = {}
  /\ turn[f] \in {"arriving", "registering"} => f \notin exchanges
  /\ turn[f] \in {"registering", "starting"} => "hook" \in held[f]
  /\ hook[f] = "running" => "hook" \in held[f]
  /\ f \in exchanges => "context" \in held[f] \/ turn[f] = "starting"
  /\ owner = "ended" => held[f] = {}

\* Kit has one turn at a time, which either runs or has answered.
TurnInv(f) ==
  /\ turn[f] \in {"joining", "waiting", "selecting"} =>
       kit[f] \in {"began", "asked", "ending", "over"} /\ said[f] = None
  /\ said[f] # None => turn[f] \in {"off", "streaming"}
  /\ said[f] \in Calls => turn[f] = "off" /\ kit[f] \in {"began", "asked"}
  /\ kit[f] = "fetching" => turn[f] = "off" /\ said[f] = None
  /\ turn[f] = "streaming" => hook[f] = "over"

\* The continuation Kit was told of last, until its response arrives.
Told(f, c) == said[f] = c \/ at[f] = c

\* From the turn that tells Kit of a continuation to the upload that answers
\* it, nothing else takes the exchange's reply channel: a turn joins that
\* upload before it selects again.
AnswerInv(f) ==
  /\ kit[f] = "fetching" <=> at[f] \in Calls
  /\ hook[f] = "off" => \A c \in Calls : next[f][c] = "idle"
  /\ \A c \in Calls :
       /\ Told(f, c) => /\ continued[f] = c /\ reply[f] = c
                        /\ upload[f][c] = "off" /\ hook[f] # "off"
       /\ next[f][c] \in {"idle", "offering"} =>
            upload[f][c] = "off" /\ ~Told(f, c)
       /\ upload[f][c] = "arrived" =>
            /\ continued[f] = c /\ reply[f] \in {None, c}
            /\ turn[f] # "selecting" /\ hook[f] # "off"
       /\ c \in accepted[f] => upload[f][c] \in {"owned", "over"}
       /\ upload[f][c] = "answering" => taken[f][c] = c
       /\ got[f][c] \in {None, c}

\* The result stands once the hook returned; what was read to its end is
\* released, and nothing breaks off of it afterwards.
BodyInv(f) ==
  /\ result[f] # None => hook[f] = "over"
  /\ seen[f] = "whole" =>
       /\ hook[f] = "over" /\ result[f] \notin cut[f]
       /\ result[f] \in Calls => result[f] \in released[f]

FetchInv(f) == BeginningInv(f) /\ TurnInv(f) /\ AnswerInv(f) /\ BodyInv(f)

ExchangeInv == ExchangeTypeOK /\ \A f \in Fetches : FetchInv(f)

\* The types, a group of variables at a time.
LifetimeTyped ==
  /\ owner \in {"open", "ending", "ended"}
  /\ canceled \subseteq Fetches /\ exchanges \subseteq Fetches
  /\ held \in [Fetches -> SUBSET {"hook", "context"}]
HooksTyped ==
  /\ hook \in [Fetches -> {"off", "running", "over"}]
  /\ result \in [Fetches -> Calls \cup {None, "own", "error"}]
  /\ next \in [Fetches -> [Calls -> {"idle", "offering", "asking", "over"}]]
  /\ got \in [Fetches -> [Calls -> Calls \cup {None}]]
ChannelsTyped ==
  /\ reply \in [Fetches -> Calls \cup {None}]
  /\ continued \in [Fetches -> Calls \cup {None}]
  /\ accepted \in [Fetches -> SUBSET Calls]
TurnsTyped ==
  /\ turn \in [Fetches -> Turns]
  /\ said \in [Fetches -> Calls \cup {None, "final", "error"}]
UploadsTyped ==
  /\ upload \in [Fetches -> [Calls -> {"off", "arrived", "answering", "owned",
       "over"}]]
  /\ taken \in [Fetches -> [Calls -> Calls \cup {None}]]
  /\ cut \in [Fetches -> SUBSET Calls]
       /\ released \in [Fetches -> SUBSET Calls]
KitsTyped ==
  /\ kit \in [Fetches -> {"off", "began", "fetching", "asked", "reading",
                          "ending", "over"}]
  /\ at \in [Fetches -> Calls \cup {None}] /\ quit \subseteq Fetches
  /\ seen \in [Fetches -> {"none", "whole", "broken"}]
  /\ troubles \in 0..MaxTroubles

LEMMA TypesAre ==
  ExchangeTypeOK <=> /\ LifetimeTyped /\ HooksTyped /\ ChannelsTyped
    /\ TurnsTyped
                     /\ UploadsTyped /\ KitsTyped
BY DEF ExchangeTypeOK, LifetimeTyped, HooksTyped, ChannelsTyped, TurnsTyped,
       UploadsTyped, KitsTyped

LEMMA ExchangeStarts == ExchangeInit => ExchangeInv
<1> SUFFICES ASSUME ExchangeInit PROVE ExchangeInv
  OBVIOUS
<1> USE ExchangeAssumption DEF ExchangeInit
<1>1. LifetimeTyped
  BY DEF LifetimeTyped
<1>2. HooksTyped
  BY DEF HooksTyped
<1>3. ChannelsTyped
  BY DEF ChannelsTyped
<1>4. TurnsTyped
  BY DEF TurnsTyped, Turns
<1>5. UploadsTyped
  BY DEF UploadsTyped
<1>6. KitsTyped
  BY DEF KitsTyped
<1>7. ASSUME NEW f \in Fetches
      PROVE  FetchInv(f)
  BY DEF FetchInv, BeginningInv, TurnInv, AnswerInv, BodyInv, Told
<1> QED
  BY <1>1, <1>2, <1>3, <1>4, <1>5, <1>6, <1>7, TypesAre DEF ExchangeInv

LEMMA TurnOverTyped ==
  ASSUME ExchangeTypeOK, NEW f \in Fetches,
         NEW answer \in Calls \cup {"error"},
         TurnOver(f, answer)
  PROVE  /\ turn' \in [Fetches -> Turns]
         /\ said' \in [Fetches -> Calls \cup {None, "final", "error"}]
BY DEF TurnOver, ExchangeTypeOK, Turns

LEMMA ExchangeTyped ==
  ASSUME ExchangeInv, [ExchangeNext]_exchangeVars
  PROVE  ExchangeTypeOK'
<1> ExchangeTypeOK
  BY DEF ExchangeInv
<1> USE ExchangeAssumption
   DEF Trouble, lifetime, hooks, channels, uploads, kits
<1>1. CASE UNCHANGED exchangeVars
  BY <1>1 DEF exchangeVars, ExchangeTypeOK
<1>2. CASE OwnerEnds \/ OwnerCanceled \/ OwnerEnded
  BY <1>2 DEF OwnerEnds, OwnerCanceled, OwnerEnded, ExchangeTypeOK
<1>3. ASSUME NEW f \in Fetches, Beginning(f)
      PROVE  ExchangeTypeOK'
  <2>1. CASE AcquireOwner(f)
    <3> DEFINE opens ==
          /\ turn' = [turn EXCEPT ![f] = "registering"]
          /\ held' = [held EXCEPT ![f] = {"hook"}] /\ UNCHANGED said
        closes ==
          /\ turn' = [turn EXCEPT ![f] = "off"]
          /\ said' = [said EXCEPT ![f] = "error"] /\ UNCHANGED held
    <3>1. opens \/ closes
      BY <2>1 DEF AcquireOwner
    <3>2. UNCHANGED <<owner, canceled, exchanges, hooks, channels, uploads,
          kits>>
      BY <2>1 DEF AcquireOwner
    <3>3. CASE opens
      BY <3>2, <3>3 DEF ExchangeTypeOK, Turns
    <3>4. CASE closes
      BY <3>2, <3>4 DEF ExchangeTypeOK, Turns
    <3> QED
      BY <3>1, <3>3, <3>4
  <2>2. CASE FetchRefused(f)
    BY <2>2 DEF FetchRefused, ExchangeTypeOK, Turns
  <2>3. CASE RegisterExchange(f)
    BY <2>3 DEF RegisterExchange, ExchangeTypeOK, Turns
  <2>4. CASE StartHook(f)
    BY <2>4 DEF StartHook, ExchangeTypeOK, Turns
  <2> QED
    BY <1>3, <2>1, <2>2, <2>3, <2>4 DEF Beginning
<1>4. ASSUME NEW f \in Fetches, Hooking(f)
      PROVE  ExchangeTypeOK'
  <2>1. CASE HookReturns(f)
    BY <2>1 DEF HookReturns, ExchangeTypeOK
  <2>2. ASSUME NEW c \in Calls, HookAsks(f, c) PROVE ExchangeTypeOK'
    BY <2>2 DEF HookAsks, ExchangeTypeOK
  <2>3. ASSUME NEW c \in Calls, HookCloses(f, c) PROVE ExchangeTypeOK'
    BY <2>3 DEF HookCloses, ExchangeTypeOK
  <2> QED
    BY <1>4, <2>1, <2>2, <2>3 DEF Hooking
<1>5. ASSUME NEW f \in Fetches, Turning(f)
      PROVE  ExchangeTypeOK'
  <2>1. CASE Join(f)
    <3>1. CASE turn' = [turn EXCEPT ![f] = "waiting"] /\ UNCHANGED said
      BY <2>1, <3>1 DEF Join, ExchangeTypeOK, Turns
    <3>2. CASE TurnOver(f, "error")
      BY <2>1, <3>2, TurnOverTyped DEF Join, ExchangeTypeOK
    <3> QED
      BY <2>1, <3>1, <3>2 DEF Join
  <2>2. CASE Accepted(f)
    BY <2>2 DEF Accepted, ExchangeTypeOK, Turns
  <2>3. CASE TakeResult(f)
    <3>1. CASE turn' = [turn EXCEPT ![f] = "streaming"]
               /\ said' = [said EXCEPT ![f] = "final"]
      BY <2>3, <3>1 DEF TakeResult, ExchangeTypeOK, Turns
    <3>2. CASE TurnOver(f, "error")
      BY <2>3, <3>2, TurnOverTyped DEF TakeResult, ExchangeTypeOK
    <3> QED
      BY <2>3, <3>1, <3>2 DEF TakeResult
  <2>4. CASE TurnEnded(f)
    BY <2>4 DEF TurnEnded, ExchangeTypeOK, Turns, TurnOver
  <2>5. CASE TurnGone(f)
    BY <2>5 DEF TurnGone, ExchangeTypeOK, Turns, TurnOver
  <2>6. ASSUME NEW c \in Calls, TakeContinuation(f, c) PROVE ExchangeTypeOK'
    <3>1. turn' \in [Fetches -> Turns]
          /\ said' \in [Fetches -> Calls \cup {None, "final", "error"}]
      BY <2>6, TurnOverTyped DEF TakeContinuation, ExchangeTypeOK
    <3>2. canceled' \subseteq Fetches /\ troubles' \in 0..MaxTroubles
      BY <2>6 DEF TakeContinuation, ExchangeTypeOK
    <3>3. /\ next' = [next EXCEPT ![f][c] = "asking"]
          /\ reply' = [reply EXCEPT ![f] = c]
               /\ continued' = [continued EXCEPT ![f] = c]
          /\ UNCHANGED <<owner, exchanges, held, hook, result, got, accepted,
               uploads,
                         kit, at, quit, seen>>
      BY <2>6 DEF TakeContinuation
    <3> QED
      BY <3>1, <3>2, <3>3 DEF ExchangeTypeOK
  <2> QED
    BY <1>5, <2>1, <2>2, <2>3, <2>4, <2>5, <2>6 DEF Turning
<1>6. ASSUME NEW f \in Fetches, Streaming(f)
      PROVE  ExchangeTypeOK'
  <2>1. CASE StreamEnds(f)
    BY <2>1 DEF StreamEnds, ExchangeTypeOK, Turns, Streamed
  <2>2. CASE StreamBreaks(f)
    BY <2>2 DEF StreamBreaks, ExchangeTypeOK, Turns, Streamed
  <2> QED
    BY <1>6, <2>1, <2>2 DEF Streaming
<1>7. ASSUME NEW f \in Fetches, Kit(f)
      PROVE  ExchangeTypeOK'
  <2>1. CASE KitBegins(f)
    BY <2>1 DEF KitBegins, ExchangeTypeOK, Turns
  <2>2. CASE KitHears(f)
    BY <2>2 DEF KitHears, ExchangeTypeOK
  <2>3. CASE KitAnswers(f)
    BY <2>3 DEF KitAnswers, ExchangeTypeOK, Turns
  <2>4. CASE KitStops(f)
    BY <2>4 DEF KitStops, ExchangeTypeOK
  <2>5. CASE KitRead(f)
    BY <2>5 DEF KitRead, ExchangeTypeOK
  <2>6. CASE KitAborts(f)
    BY <2>6 DEF KitAborts, ExchangeTypeOK
  <2>7. CASE EndFetch(f)
    BY <2>7 DEF EndFetch, ExchangeTypeOK
  <2> QED
    BY <1>7, <2>1, <2>2, <2>3, <2>4, <2>5, <2>6, <2>7 DEF Kit
<1>8. ASSUME NEW f \in Fetches, NEW c \in Calls, Uploading(f, c)
      PROVE  ExchangeTypeOK'
  <2>1. CASE UploadTakes(f, c)
    <3>1. CASE Refused(f, c) /\ UNCHANGED <<taken, reply>>
      BY <2>1, <3>1 DEF UploadTakes, ExchangeTypeOK, Refused
    <3>2. CASE /\ upload' = [upload EXCEPT ![f][c] = "answering"]
               /\ taken' = [taken EXCEPT ![f][c] = reply[f]]
               /\ reply' = [reply EXCEPT ![f] = None]
               /\ UNCHANGED quit
      BY <2>1, <3>2 DEF UploadTakes, ExchangeTypeOK
    <3> QED
      BY <2>1, <3>1, <3>2 DEF UploadTakes
  <2>2. CASE UploadHands(f, c)
    <3> USE <2>2 DEF UploadHands
    <3>1. got' \in [Fetches -> [Calls -> Calls \cup {None}]]
      BY DEF ExchangeTypeOK
    <3>2. next' \in [Fetches -> [Calls -> {"idle", "offering", "asking",
          "over"}]]
      BY DEF ExchangeTypeOK
    <3>3. accepted' \in [Fetches -> SUBSET Calls]
      BY DEF ExchangeTypeOK, ExchangeInv, FetchInv, AnswerInv
    <3>4. upload' \in [Fetches -> [Calls -> {"off", "arrived", "answering",
          "owned", "over"}]]
      BY DEF ExchangeTypeOK
    <3>5. taken' \in [Fetches -> [Calls -> Calls \cup {None}]]
      BY DEF ExchangeTypeOK
    <3> QED
      BY <3>1, <3>2, <3>3, <3>4, <3>5 DEF ExchangeTypeOK
  <2>3. CASE UploadEnded(f, c)
    <3>1. CASE Refused(f, c)
      BY <2>3, <3>1 DEF UploadEnded, ExchangeTypeOK, Refused
    <3>2. CASE upload' = [upload EXCEPT ![f][c] = "over"] /\ UNCHANGED quit
      BY <2>3, <3>2 DEF UploadEnded, ExchangeTypeOK
    <3> QED
      BY <2>3, <3>1, <3>2 DEF UploadEnded
  <2>4. CASE UploadReleased(f, c)
    BY <2>4 DEF UploadReleased, ExchangeTypeOK
  <2>5. CASE UploadGone(f, c)
    BY <2>5 DEF UploadGone, ExchangeTypeOK
  <2> QED
    BY <1>8, <2>1, <2>2, <2>3, <2>4, <2>5 DEF Uploading
<1>9. ASSUME NEW f \in Fetches, ContextOver(f)
      PROVE  ExchangeTypeOK'
  BY <1>9 DEF ContextOver, ExchangeTypeOK
<1>10. ASSUME NEW f \in Fetches, NEW c \in Calls, NextCanceled(f, c)
      PROVE  ExchangeTypeOK'
  BY <1>10 DEF NextCanceled, ExchangeTypeOK
<1>11. ASSUME NEW f \in Fetches, NEW c \in Calls, BodyBreaks(f, c)
      PROVE  ExchangeTypeOK'
  BY <1>11 DEF BodyBreaks, ExchangeTypeOK
<1> QED
  BY <1>1, <1>2, <1>3, <1>4, <1>5, <1>6, <1>7, <1>8, <1>9, <1>10, <1>11
     DEF ExchangeNext

LEMMA FetchKept ==
  ASSUME ExchangeInv, ExchangeTypeOK', [ExchangeNext]_exchangeVars,
         NEW g \in Fetches
  PROVE  FetchInv(g)'
<1> USE ExchangeAssumption
    DEF ExchangeInv, ExchangeTypeOK, FetchInv, BeginningInv, TurnInv,
      AnswerInv,
        BodyInv, Told, Gone, Intact, lifetime, hooks, channels, uploads, kits
<1>1. CASE UNCHANGED exchangeVars
  BY <1>1 DEF exchangeVars
<1>2. CASE OwnerEnds \/ OwnerCanceled \/ OwnerEnded
  BY <1>2 DEF OwnerEnds, OwnerCanceled, OwnerEnded
<1>3. ASSUME NEW f \in Fetches, Beginning(f)
      PROVE  FetchInv(g)'
  <2>1. CASE AcquireOwner(f)
    <3>1. BeginningInv(g)'
      BY <2>1 DEF AcquireOwner
    <3>2. TurnInv(g)'
      BY <2>1 DEF AcquireOwner
    <3>3. AnswerInv(g)'
      BY <2>1 DEF AcquireOwner
    <3>4. BodyInv(g)'
      BY <2>1 DEF AcquireOwner
    <3> QED
      BY <3>1, <3>2, <3>3, <3>4 DEF FetchInv
  <2>2. CASE FetchRefused(f)
    BY <2>2 DEF FetchRefused
  <2>3. CASE RegisterExchange(f)
    BY <2>3 DEF RegisterExchange
  <2>4. CASE StartHook(f)
    BY <2>4 DEF StartHook
  <2> QED
    BY <1>3, <2>1, <2>2, <2>3, <2>4 DEF Beginning
<1>4. ASSUME NEW f \in Fetches, Hooking(f)
      PROVE  FetchInv(g)'
  <2>1. CASE HookReturns(f)
    BY <2>1 DEF HookReturns
  <2>2. ASSUME NEW c \in Calls, HookAsks(f, c) PROVE FetchInv(g)'
    BY <2>2 DEF HookAsks
  <2>3. ASSUME NEW c \in Calls, HookCloses(f, c) PROVE FetchInv(g)'
    BY <2>3 DEF HookCloses
  <2> QED
    BY <1>4, <2>1, <2>2, <2>3 DEF Hooking
<1>5. ASSUME NEW f \in Fetches, Turning(f)
      PROVE  FetchInv(g)'
  <2>1. CASE Join(f)
    BY <2>1 DEF Join, TurnOver
  <2>2. CASE Accepted(f)
    BY <2>2 DEF Accepted
  <2>3. CASE TakeResult(f)
    BY <2>3 DEF TakeResult, TurnOver
  <2>4. CASE TurnEnded(f)
    BY <2>4 DEF TurnEnded, TurnOver
  <2>5. CASE TurnGone(f)
    BY <2>5 DEF TurnGone, TurnOver
  <2>6. ASSUME NEW c \in Calls, TakeContinuation(f, c) PROVE FetchInv(g)'
    BY <2>6 DEF TakeContinuation, TurnOver
  <2> QED
    BY <1>5, <2>1, <2>2, <2>3, <2>4, <2>5, <2>6 DEF Turning
<1>6. ASSUME NEW f \in Fetches, Streaming(f)
      PROVE  FetchInv(g)'
  <2>1. CASE StreamEnds(f)
    BY <2>1 DEF StreamEnds, Streamed
  <2>2. CASE StreamBreaks(f)
    BY <2>2 DEF StreamBreaks, Streamed
  <2> QED
    BY <1>6, <2>1, <2>2 DEF Streaming
<1>7. ASSUME NEW f \in Fetches, Kit(f)
      PROVE  FetchInv(g)'
  <2>1. CASE KitBegins(f)
    BY <2>1 DEF KitBegins
  <2>2. CASE KitHears(f)
    BY <2>2 DEF KitHears
  <2>3. CASE KitAnswers(f)
    BY <2>3 DEF KitAnswers
  <2>4. CASE KitStops(f)
    BY <2>4 DEF KitStops
  <2>5. CASE KitRead(f)
    BY <2>5 DEF KitRead
  <2>6. CASE KitAborts(f)
    BY <2>6 DEF KitAborts
  <2>7. CASE EndFetch(f)
    BY <2>7 DEF EndFetch
  <2> QED
    BY <1>7, <2>1, <2>2, <2>3, <2>4, <2>5, <2>6, <2>7 DEF Kit
<1>8. ASSUME NEW f \in Fetches, NEW c \in Calls, Uploading(f, c)
      PROVE  FetchInv(g)'
  <2>1. CASE UploadTakes(f, c)
    <3>1. CASE Refused(f, c) /\ UNCHANGED <<taken, reply>>
      BY <2>1, <3>1 DEF UploadTakes, Refused
    <3>2. CASE /\ upload' = [upload EXCEPT ![f][c] = "answering"]
               /\ taken' = [taken EXCEPT ![f][c] = reply[f]]
               /\ reply' = [reply EXCEPT ![f] = None]
               /\ reply[f] # None /\ UNCHANGED quit
      BY <2>1, <3>2 DEF UploadTakes
    <3> QED
      BY <2>1, <3>1, <3>2 DEF UploadTakes
  <2>2. CASE UploadHands(f, c)
    BY <2>2 DEF UploadHands
  <2>3. CASE UploadEnded(f, c)
    <3>1. CASE Refused(f, c)
      BY <2>3, <3>1 DEF UploadEnded, Refused
    <3>2. CASE upload' = [upload EXCEPT ![f][c] = "over"] /\ UNCHANGED quit
      BY <2>3, <3>2 DEF UploadEnded
    <3> QED
      BY <2>3, <3>1, <3>2 DEF UploadEnded
  <2>4. CASE UploadReleased(f, c)
    BY <2>4 DEF UploadReleased
  <2>5. CASE UploadGone(f, c)
    BY <2>5 DEF UploadGone
  <2> QED
    BY <1>8, <2>1, <2>2, <2>3, <2>4, <2>5 DEF Uploading
<1>9. ASSUME NEW f \in Fetches, ContextOver(f)
      PROVE  FetchInv(g)'
  BY <1>9 DEF ContextOver
<1>10. ASSUME NEW f \in Fetches, NEW c \in Calls, NextCanceled(f, c)
      PROVE  FetchInv(g)'
  BY <1>10 DEF NextCanceled
<1>11. ASSUME NEW f \in Fetches, NEW c \in Calls, BodyBreaks(f, c)
      PROVE  FetchInv(g)'
  BY <1>11 DEF BodyBreaks
<1> HIDE DEF FetchInv, ExchangeInv, ExchangeTypeOK
<1> QED
  BY <1>1, <1>2, <1>3, <1>4, <1>5, <1>6, <1>7, <1>8, <1>9, <1>10, <1>11
     DEF ExchangeNext

LEMMA ExchangeHolds == ExchangeSpec => []ExchangeInv
<1>1. ExchangeInv /\ [ExchangeNext]_exchangeVars => ExchangeInv'
  BY ExchangeTyped, FetchKept DEF ExchangeInv
<1> QED
  BY <1>1, ExchangeStarts, PTL DEF ExchangeSpec

\* However many continuations a hook has under way and in whatever order their
\* uploads come, each gets the response to its own request; and what was read
\* to its end as the final response is whole (dev_fetch.go, fetch-bridge.js).
THEOREM FetchesGetTheirOwn == ExchangeSpec => []FetchedIsItsOwn
<1>1. ExchangeInv => FetchedIsItsOwn
  BY DEF ExchangeInv, FetchInv, AnswerInv, BodyInv, FetchedIsItsOwn
<1> QED
  BY <1>1, ExchangeHolds, PTL

\* The owner of fetches ends after them: no hook runs on, is about to start or
\* stays registered (dev_fetch.go, acquireOwner).
THEOREM OwnersEndLast == ExchangeSpec => []OwnerIsLast
<1>1. ExchangeInv => OwnerIsLast
  BY DEF ExchangeInv, FetchInv, BeginningInv, OwnerIsLast
<1> QED
  BY <1>1, ExchangeHolds, PTL
===============================================================================
