----------------------------- MODULE HostControl -----------------------------
(***************************************************************************)
(* The control stream between a development session and the native host it *)
(* started (internal/hotreload/host.go): two pipes, one command in flight, *)
(* a deadline on every read, and replies that name no command.             *)
(*                                                                         *)
(* The child decodes one command at a time, carries it out and replies.    *)
(* It may take for ever over one, refuse it, or die at any moment.  The    *)
(* session believes what Install and Reload returned.                      *)
(*                                                                         *)
(* The deadline is a property of the pipe, not of the read.  It passes, or *)
(* a callback of the exchange's context cuts it short, from a goroutine of *)
(* its own that may be late.                                               *)
(*                                                                         *)
(* A command is the number under which it was sent; an install puts that   *)
(* number in the place of the code, a reload in the place of the build     *)
(* output the child serves.                                                *)
(***************************************************************************)
EXTENDS Integers, Sequences

CONSTANT MaxCommands   \* bound: the commands of a behaviour

ASSUME CommandsAssumption == MaxCommands \in Nat

Ids == 1..MaxCommands
Op  == {"install", "reload"}

VARIABLES
  sent,        \* how many commands were written
  op,          \* what each of them asks for
  pc,          \* where exchange is
  got,         \* what its read came to
  limit,       \* the read deadline of the replies
  expired,     \* the own context of the exchange under way timed out
  callback,    \* the context.AfterFunc of each exchange
  commands,    \* the pipe to the child
  replies,     \* the pipe from the child
  controlErr,  \* Host.controlErr # nil
  installed,   \* the command whose files are Host.installed
  reloaded,    \* the command whose output the session believes is served
  result,      \* what the last Install or Reload returned
  acked,       \* the command whose reply the last successful read returned
  child,       \* "up", "busy" with a command, or "gone"
  doing,       \* the command the child is carrying out
  code,        \* the code the child runs
  dist,        \* the build output the child serves
  stopped      \* the session's context is done

reading  == <<limit, expired, callback>>
pipes    == <<commands, replies>>
belief   == <<installed, reloaded, result, acked>>
process  == <<child, doing, code, dist>>
controlVars ==
  <<sent, op, pc, got, reading, pipes, controlErr, belief, process, stopped>>

Reply == [id : Ids, kind : {"ok", "error"}]

ControlTypeOK ==
  /\ sent \in 0..MaxCommands /\ op \in [Ids -> Op]
  /\ pc \in {"idle", "reading", "leaving"}
  /\ got \in {"none", "ok", "error", "failed"}
  /\ limit \in {"ahead", "past", "cut"} /\ expired \in BOOLEAN
  /\ callback \in [Ids -> {"off", "armed", "running", "over"}]
  /\ commands \in Seq(Ids) /\ replies \in Seq(Reply)
  /\ controlErr \in BOOLEAN /\ stopped \in BOOLEAN
  /\ installed \in 0..sent /\ reloaded \in 0..sent /\ acked \in 0..sent
  /\ result \in {"none", "ok", "error", "complete", "canceled"}
  /\ child \in {"up", "busy", "gone"}
  /\ doing \in 0..sent /\ code \in 0..sent /\ dist \in 0..sent

\* Start has returned: the child sent its address and reads commands.
ControlInit ==
  /\ sent = 0 /\ op \in [Ids -> Op]
  /\ pc = "idle" /\ got = "none" /\ commands = <<>> /\ replies = <<>>
  /\ limit = "ahead" /\ expired = FALSE /\ callback = [i \in Ids |-> "off"]
  /\ controlErr = FALSE /\ stopped = FALSE
  /\ installed = 0 /\ reloaded = 0 /\ acked = 0 /\ result = "none"
  /\ child = "up" /\ doing = 0 /\ code = 0 /\ dist = 0

-----------------------------------------------------------------------------
(* The session's side: Install, Reload and the exchange under both         *)

\* What the caller makes of an exchange that failed: every failed install asks
\* for a complete build, whether or not the child's reply did.
Failure(id) ==
  IF op[id] = "reload" THEN "error"
  ELSE IF stopped THEN "canceled" ELSE "complete"

\* Mutant: the stream is used again after a read that failed.
UsableAlways == TRUE

Usable == ~controlErr

\* The exchange is refused before anything is written.
Refused ==
  /\ pc = "idle" /\ sent < MaxCommands
  /\ stopped \/ ~Usable
  /\ result' = Failure(sent + 1)
  /\ UNCHANGED <<sent, op, pc, got, reading, pipes, controlErr, installed,
                 reloaded, acked, process, stopped>>

\* The child is gone, or takes nothing off a full pipe until the deadline: what
\* was written of the command is never a whole one.
WriteFailed ==
  /\ pc = "idle" /\ sent < MaxCommands /\ ~stopped /\ Usable
  /\ controlErr' = TRUE
  /\ result' = Failure(sent + 1)
  /\ UNCHANGED <<sent, op, pc, got, reading, pipes, installed, reloaded, acked,
                 process, stopped>>

\* receive sets a new deadline and a new callback, of the exchange's context.
Write ==
  /\ pc = "idle" /\ sent < MaxCommands /\ ~stopped /\ Usable
  /\ sent' = sent + 1
  /\ commands' = Append(commands, sent + 1)
  /\ pc' = "reading"
  /\ limit' = "ahead"
  /\ callback' = [callback EXCEPT ![sent + 1] = "armed"]
  /\ UNCHANGED <<op, got, expired, replies, controlErr, belief, process, stopped>>

\* A reply is there before the deadline: past it the pipe reads nothing.
Read ==
  /\ pc = "reading" /\ limit = "ahead" /\ replies # <<>>
  /\ replies' = Tail(replies)
  /\ got' = Head(replies).kind
  /\ acked' = Head(replies).id
  /\ pc' = "leaving"
  /\ UNCHANGED <<sent, op, reading, commands, controlErr, installed, reloaded,
                 result, process, stopped>>

\* The deadline has passed, or the child is gone and the pipe is empty.  The
\* reply may still come.
ReadFailed ==
  /\ pc = "reading"
  /\ limit # "ahead" \/ (child = "gone" /\ replies = <<>>)
  /\ got' = "failed"
  /\ pc' = "leaving"
  /\ UNCHANGED <<sent, op, reading, pipes, controlErr, belief, process, stopped>>

\* Mutant: Install records the files it sent whatever the reply says.
BelieveAnyReply(kind) ==
  IF op[sent] = "install"
  THEN installed' = sent /\ reloaded' = reloaded
  ELSE installed' = installed /\ reloaded' = IF kind = "ok" THEN sent ELSE reloaded

\* What a reply makes the session believe.
Believe(kind) ==
  /\ installed' = IF kind = "ok" /\ op[sent] = "install" THEN sent ELSE installed
  /\ reloaded'  = IF kind = "ok" /\ op[sent] = "reload"  THEN sent ELSE reloaded

\* Mutant: the exchange does not wait for a callback that already runs.
JoinedAtOnce == TRUE

\* stop() keeps the callback from running, or <-interrupted waits for its end.
Joined == callback[sent] \in {"armed", "over"}

Finish ==
  /\ pc = "leaving" /\ Joined
  /\ callback' = [callback EXCEPT ![sent] = IF @ = "running" THEN @ ELSE "off"]
  /\ controlErr' = (controlErr \/ got = "failed")
  /\ Believe(got)
  /\ result' = IF got = "ok" THEN "ok" ELSE Failure(sent)
  /\ pc' = "idle" /\ got' = "none" /\ expired' = FALSE
  /\ UNCHANGED <<sent, op, limit, pipes, acked, process, stopped>>

-----------------------------------------------------------------------------
(* Contexts and deadlines                                                  *)

SessionStops ==
  /\ ~stopped
  /\ stopped' = TRUE
  /\ UNCHANGED <<sent, op, pc, got, reading, pipes, controlErr, belief, process>>

\* The ten seconds of an install are those of its context and of its reads.
ContextExpires ==
  /\ pc # "idle" /\ op[sent] = "install" /\ ~expired
  /\ expired' = TRUE
  /\ UNCHANGED <<sent, op, pc, got, limit, callback, pipes, controlErr, belief,
                 process, stopped>>

DeadlinePasses ==
  /\ pc = "reading" /\ limit = "ahead"
  /\ limit' = "past"
  /\ UNCHANGED <<sent, op, pc, got, expired, callback, pipes, controlErr, belief,
                 process, stopped>>

\* The context is done and its callback gets a goroutine, unless stop() was first.
CallbackStarts(id) ==
  /\ callback[id] = "armed" /\ (stopped \/ expired)
  /\ callback' = [callback EXCEPT ![id] = "running"]
  /\ UNCHANGED <<sent, op, pc, got, limit, expired, pipes, controlErr, belief,
                 process, stopped>>

\* Mutant: it tells the exchange that it ran, and leaves the pipe alone.
CallbackOnlyTells(id) ==
  /\ callback[id] = "running"
  /\ callback' = [callback EXCEPT ![id] = "over"]
  /\ UNCHANGED <<sent, op, pc, got, limit, expired, pipes, controlErr, belief,
                 process, stopped>>

\* The deadline of the pipe, whosever it is by now, becomes the present.
Callback(id) ==
  /\ callback[id] = "running"
  /\ limit' = "cut"
  /\ callback' = [callback EXCEPT ![id] = "over"]
  /\ UNCHANGED <<sent, op, pc, got, expired, pipes, controlErr, belief, process,
                 stopped>>

-----------------------------------------------------------------------------
(* The child's command loop                                                *)

Decode ==
  /\ child = "up" /\ commands # <<>>
  /\ child' = "busy" /\ doing' = Head(commands)
  /\ commands' = Tail(commands)
  /\ UNCHANGED <<sent, op, pc, got, reading, replies, controlErr, belief, code,
                 dist, stopped>>

Carry ==
  /\ child = "busy"
  /\ code' = IF op[doing] = "install" THEN doing ELSE code
  /\ dist' = IF op[doing] = "reload" THEN doing ELSE dist
  /\ replies' = Append(replies, [id |-> doing, kind |-> "ok"])
  /\ child' = "up"
  /\ UNCHANGED <<sent, op, pc, got, reading, commands, controlErr, belief, doing,
                 stopped>>

\* An error leaves the running code and handler as they were.
Refuse ==
  /\ child = "busy"
  /\ replies' = Append(replies, [id |-> doing, kind |-> "error"])
  /\ child' = "up"
  /\ UNCHANGED <<sent, op, pc, got, reading, commands, controlErr, belief, doing,
                 code, dist, stopped>>

\* It panics, exits or is killed.
Die ==
  /\ child # "gone"
  /\ child' = "gone"
  /\ UNCHANGED <<sent, op, pc, got, reading, pipes, controlErr, belief, doing, code,
                 dist, stopped>>

-----------------------------------------------------------------------------
ControlSide ==
  \/ Refused \/ WriteFailed \/ Write \/ Read \/ ReadFailed \/ Finish
  \/ SessionStops \/ ContextExpires \/ DeadlinePasses
  \/ \E id \in Ids : CallbackStarts(id) \/ Callback(id)

ControlNext == ControlSide \/ Decode \/ Carry \/ Refuse \/ Die

ControlSpec == ControlInit /\ [][ControlNext]_controlVars

-----------------------------------------------------------------------------
(* Correctness                                                             *)

\* A callback cuts a read short for its own exchange: between a deadline that
\* is set and the read that fails by it, none of an earlier exchange comes.
CutForItself == pc = "reading" /\ limit = "cut" => stopped \/ expired

\* Exchanges keep apart, although replies carry no name and the deadline is the
\* pipe's: a command is acknowledged by its own reply and never by a late one,
\* and its read is not ended by the late callback of another.
ExchangesKeepApart ==
  [][/\ acked' # acked => acked' = sent
     /\ CutForItself']_controlVars

\* While the stream is trusted and the child lives, the child runs exactly the
\* code and serves exactly the output the session believes it does.
BeliefIsTrue ==
  pc = "idle" /\ ~controlErr /\ child # "gone" =>
    /\ code = installed
    /\ dist = reloaded

\* An exchange whose context is done returns, however far the deadline of its
\* read is and whatever the child does.
ExchangeReturns == (pc # "idle" /\ (stopped \/ expired)) ~> pc = "idle"
=============================================================================
