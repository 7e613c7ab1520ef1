------------------------------- MODULE HotHost -------------------------------
(***************************************************************************)
(* The native host of a development session as one process: the control    *)
(* stream over which the session installs and reloads (HostControl) and    *)
(* the hot revisions its requests run on (HotRevisions).  The child's      *)
(* command loop and the requests share the process: an install that is     *)
(* carried out publishes a table, an install that is refused may have      *)
(* loaded a module all the same, and a dead process serves nobody.         *)
(***************************************************************************)
EXTENDS HotRevisions, HostControl

VARIABLE made  \* the command whose candidate each table was made of; 0: none

native   == vars
hostVars == <<native, controlVars, made>>

HostTypeOK == TypeOK /\ ControlTypeOK /\ made \in [Tables -> 0..MaxCommands]

HostInit ==
  /\ Init /\ ControlInit
  /\ made = [t \in Tables |-> 0]

Alive == child # "gone"

-----------------------------------------------------------------------------
(* The child's command loop                                                *)

\* It takes a command off the pipe, or it dies.
DecodeOrDie == (Decode \/ Die) /\ UNCHANGED <<native, made>>

\* reload answers with a new handler over the same tables.
CarryReload ==
  /\ Carry /\ op[doing] = "reload"
  /\ UNCHANGED <<native, made>>

\* Mutant: the reply is sent before SkgoHotInstall publishes the table.
ReplyFirst(numeric) ==
  /\ Carry /\ op[doing] = "install"
  /\ installs < MaxInstalls /\ Room
  /\ UNCHANGED <<native, made>>

\* The module is loaded, its table published, and the reply sent.
CarryInstall(numeric) ==
  /\ Carry /\ op[doing] = "install"
  /\ Install(numeric)
  /\ made' = [made EXCEPT ![installs'] = doing]

\* The object is not of this host, its symbols are missing, the budget is
\* spent, or the application's constructor refuses the build output.
RefusePlainly == Refuse /\ UNCHANGED <<native, made>>

\* The module is loaded, but no table can be made of it.
RefuseUnprepared ==
  /\ Refuse /\ op[doing] = "install"
  /\ InstallUnprepared
  /\ UNCHANGED made

-----------------------------------------------------------------------------
(* The two sides                                                           *)

\* A step of the session's goroutines leaves what the process serves alone.
SessionStep == ControlSide /\ UNCHANGED <<native, made>>

ChildStep ==
  \/ DecodeOrDie \/ CarryReload
  \/ \E numeric \in BOOLEAN : CarryInstall(numeric)
  \/ RefusePlainly \/ RefuseUnprepared

\* What the process serves meanwhile.
ServingStep ==
  /\ Alive
  /\ \/ \E r \in Requests : Serve(r) \/ Return(r)
     \/ \E c \in Callers : Call(c) \/ CallReturns(c)
     \/ \E r \in Requests, f \in Fetches : Fetch(r, f)
     \/ \E f \in Fetches : FetchResolves(f) \/ FetchReturns(f)
  /\ UNCHANGED <<controlVars, made>>

HostNext == SessionStep \/ ChildStep \/ ServingStep

HostSpec == HostInit /\ [][HostNext]_hostVars

\* The session's goroutines run: the one in the exchange and those its contexts
\* start.  No deadline need pass, and nothing obliges the child to do anything.
Exchanging == (Read \/ ReadFailed \/ Finish) /\ UNCHANGED <<native, made>>
CallingBack(id) ==
  (CallbackStarts(id) \/ Callback(id)) /\ UNCHANGED <<native, made>>

HostFairSpec ==
  /\ HostSpec
  /\ WF_hostVars(Exchanging)
  /\ \A id \in Ids : WF_hostVars(CallingBack(id))

-----------------------------------------------------------------------------
(* Correctness                                                             *)

\* While the stream is trusted and the child lives, a request that enters runs
\* the code the session believes installed, over the output it believes served:
\* between exchanges the current table was made of that very candidate.
BeliefReachesRequests ==
  /\ BeliefIsTrue
  /\ pc = "idle" /\ ~controlErr /\ Alive => made[current] = installed
=============================================================================
