------------------------------ MODULE Execution -----------------------------
(***************************************************************************)
(* Command dispatch, device receipts, hold, abort, recovery and on-site    *)
(* verification for batches whose steps are independent device actions     *)
(* (several roots of a dependency graph, no bound labware): the executor's *)
(* station workers (execution_service.py), the operator's services         *)
(* (batch_service.py), the advance of a step on its receipt                *)
(* (workflow_service.py) and the automatic retry of a command that never   *)
(* left the system (exception_service.py), against devices that may lose,  *)
(* fail or blur any call.                                                  *)
(*                                                                         *)
(* A database transaction is one step, except that a station worker's call *)
(* to a device spans three: what it reads before the call (Begin, Ask) is  *)
(* what it acts on after it (Settle), however the books changed meanwhile. *)
(***************************************************************************)
EXTENDS Commands

CONSTANTS
  Pausable, Retryable,  \* steps whose capability allows resume / retry
  Unsupported,          \* <<station, control type>> the adapter declares it cannot do
  NoQuery,              \* stations whose adapter cannot be asked about a command
  AutoRetry,            \* may the exception policy retry what never left the system?
  MaxTrouble            \* bound: how many things go wrong (see Trouble)

ASSUME PolicyAssumption ==
  /\ Pausable \subseteq Step /\ Retryable \subseteq Step
  /\ Unsupported \subseteq Station \X Control /\ NoQuery \subseteq Station
  /\ AutoRetry \in BOOLEAN /\ MaxTrouble \in Nat

VARIABLES
  batch,    \* [Batch -> state]
  current,  \* [Batch -> Step], current_step: what the recovery is about
  cmd,      \* the command table
  run,      \* [Step -> Seq(state)], one entry per attempt at the step
  ack,      \* [CmdId -> state of the checkpoint's device_ack event]
  acur,     \* [Station -> current_command_id of the adapter]
  job,      \* [Station -> what its worker is in the middle of]
  phys,     \* [CmdId -> what the device really made of the command]
  trouble   \* how many things have gone wrong so far

books == <<batch, current, cmd, run, ack, acur>>
vars  == <<books, job, phys, trouble>>

(* Something goes wrong: a worker crash or lost transaction, a refusal, a   *)
(* failure, a lost or blurred answer, a timeout.  Only their number is      *)
(* bounded, not which or when.                                              *)
Trouble == trouble < MaxTrouble /\ trouble' = trouble + 1

StepsOf(b) == {s \in Step : BatchOf[s] = b}
MinStep(S) == CHOOSE s \in S : \A t \in S : s <= t

NoSnap == [batch |-> "scheduled", current |-> 0, cmd |-> "sent", target |-> "sent"]
Working(phase, kind, c, locks, reply, snap) ==
  [phase |-> phase, kind |-> kind, cmd |-> c, locks |-> locks, reply |-> reply, snap |-> snap]
Idle   == Working("idle", "submit", NoCmd, FALSE, "", NoSnap)
Reply  == {"running", "done", "failed", "unclear", "absent", "lost"}
Phys   == {"none", "acting", "held", "continued", "done", "stopped"}
Physical == {"acting", "held"}   \* the device is engaged by this action

Init ==
  /\ batch = [b \in Batch |-> "scheduled"]
  /\ current = [b \in Batch |-> MinStep(StepsOf(b))]
  /\ cmd = << >>
  /\ run = [s \in Step |-> << >>]
  /\ ack = [c \in CmdId |-> "none"]
  /\ acur = [st \in Station |-> NoCmd]
  /\ job = [st \in Station |-> Idle]
  /\ phys = [c \in CmdId |-> "none"]
  /\ trouble = 0

-----------------------------------------------------------------------------
(* Readings and partial effects shared by the handlers.                    *)

BatchOfCmd(c)   == BatchOf[cmd[c].step]
StationOfCmd(c) == StationOf[cmd[c].step]

(* The attempt a at step s turned to state v. *)
PutRun(rs, s, a, v) ==
  [t \in Step |-> [i \in DOMAIN rs[t] |-> IF t = s /\ i = a THEN v ELSE rs[t][i]]]

(* The verdict "unknown" put on a command, and on its step if it was open.  *)
MarkUnknown(cs, c, delivery) == [cs EXCEPT ![c].state = "unknown", ![c].delivery = delivery]
RunUnknown(rs, r) ==
  IF rs[r.step][r.attempt] \in OpenRun THEN PutRun(rs, r.step, r.attempt, "unknown") ELSE rs

(* Mutant: whatever lacks a verdict is sent again. *)
NeverLeft_Mut(r) == r.type \in DISPATCHING

(* never_left_system: no executor ever handed the command to an adapter.    *)
NeverLeft(r) == r.type \in DISPATCHING /\ ~r.started /\ r.delivery = "unreachable"

(* The exception engine's retry: the old command is settled as not          *)
(* executed, its step is open again, a fresh command is queued, and the     *)
(* batch is put back to running unless another command lacks a verdict.     *)
AutoRetried(c, cs, rs, faulted) ==
  LET r     == cs[c]
      b     == BatchOf[r.step]
      kind  == IF r.type = "resume" /\ ~EverDelivered(cs, r.step, r.attempt)
                 THEN "dispatch" ELSE r.type
      fresh == NewCommand(kind, r.step, r.attempt, IF kind = "dispatch" THEN NoCmd ELSE r.target)
      old   == [cs EXCEPT ![c].state = "not_executed"]
      others == {d \in BatchCmds(cs, b) \ {c} : cs[d].state \in {"unknown", "partial"}}
      reopened == rs[r.step][r.attempt] \in {"unknown", "failed"}
  IN /\ CanIssue(cs, {c})
     /\ SecondActionAllowed(old, r.step, kind, fresh.target)
     /\ cmd' = Issue(old, [x \in {c} |-> fresh])
     /\ run' = IF reopened THEN PutRun(rs, r.step, r.attempt, "ready") ELSE rs
     /\ batch' = IF others = {} THEN [batch EXCEPT ![b] = "running"] ELSE faulted

(* fault(): the batch object was read when the worker's transaction began   *)
(* (snap); an attribute is written back only where the new value differs    *)
(* from the one read, over whatever the row holds by now.  The exception    *)
(* engine may then take the matter up, as its rules and attempt counts say. *)
Fault(c, delivery, snap, cs, rs) ==
  LET r   == cs[c]
      b   == BatchOf[r.step]
      cs1 == MarkUnknown(cs, c, delivery)
      rs1 == RunUnknown(rs, r)
      live == snap.batch \notin BatchEnded
      faulted == IF live /\ snap.batch # "fault" THEN [batch EXCEPT ![b] = "fault"] ELSE batch
  IN /\ current' = IF live /\ r.type \in DISPATCHING /\ snap.current # r.step
                     THEN [current EXCEPT ![b] = r.step] ELSE current
     /\ \/ AutoRetry /\ live /\ NeverLeft(cs1[c]) /\ AutoRetried(c, cs1, rs1, faulted)
        \/ cmd' = cs1 /\ run' = rs1 /\ batch' = faulted

Fresh(c) == [batch |-> batch[BatchOfCmd(c)], current |-> current[BatchOfCmd(c)],
             cmd |-> cmd[c].state,
             target |-> IF cmd[c].target = NoCmd THEN "sent" ELSE cmd[cmd[c].target].state]

Release(st, cs) == [acur EXCEPT ![st] = IF @ \in cs THEN NoCmd ELSE @]

(* _take_over: the action a resume or retry continues ends with the         *)
(* acceptance of the new command.                                           *)
TakeOver(cs, c) ==
  LET t == cs[c].target
  IN IF cs[c].type \in DISPATCHING /\ t # NoCmd /\ Engaged(cs[t])
       THEN [cs EXCEPT ![t].state = "superseded"] ELSE cs

(* complete_device_step, up to its commit: checkpoint, receipt event, and   *)
(* the held siblings of the same attempt ended.  The event is emitted once  *)
(* per command; one that was rejected is tried again.                       *)
CompleteStep(cs, c) ==
  LET done == TakeOver([cs EXCEPT ![c].state = "done"], c)
  IN [d \in DOMAIN cs |->
        IF /\ d # c /\ done[d].state = "held"
           /\ done[d].step = cs[c].step /\ done[d].attempt = cs[c].attempt
          THEN [done[d] EXCEPT !.state = "superseded"] ELSE done[d]]
AckEmitted(c) == [ack EXCEPT ![c] = IF @ = "processed" THEN @ ELSE "pending"]

(* The actions a hold or abort command is about (_control_target).          *)
ControlTargets(cs, c) ==
  LET t == cs[c].target
  IN IF t # NoCmd THEN {t} \cap {d \in Actions(cs) : StillOccupying(cs[d])}
     ELSE PossiblyActing(cs, BatchOf[cs[c].step]) \cap StationCmds(cs, StationOf[cs[c].step])

(* Mutant: one device that has stopped means that all have. *)
StillWaiting_Mut(cs, b, own) == FALSE

(* _finalize_abort: everybody has stopped, or some station is still awaited. *)
StillWaiting(cs, b, own) ==
  \/ \E c \in BatchCmds(cs, b) \ {own} :
       cs[c].type = "abort" /\ cs[c].state \in {"sent", "accepted", "running", "unknown"}
  \/ PossiblyActing(cs, b) # {}
CloseUnknown(cs, b, own) ==
  [c \in DOMAIN cs |-> IF c \in BatchCmds(cs, b) \ {own} /\ cs[c].state = "unknown"
                         THEN [cs[c] EXCEPT !.state = "cancelled"] ELSE cs[c]]
FinalizeAbort(cs, b, own) ==
  IF StillWaiting(cs, b, own)
    THEN cmd' = cs /\ UNCHANGED batch
    ELSE cmd' = CloseUnknown(cs, b, own) /\ batch' = [batch EXCEPT ![b] = "aborted"]

(* _confirm_abort: its targets are cancelled, then, under the batch lock    *)
(* and with everything read again, the abort is concluded if it can be.     *)
ConfirmAbort(cs, c, stopped) ==
  LET b   == BatchOf[cs[c].step]
      cs1 == [d \in DOMAIN cs |-> IF d \in stopped THEN [cs[d] EXCEPT !.state = "cancelled"] ELSE cs[d]]
  IN IF batch[b] \in BatchEnded THEN cmd' = cs1 /\ UNCHANGED batch
     ELSE FinalizeAbort(cs1, b, c)


-----------------------------------------------------------------------------
(* The operator: batch_service.py.  Each holds the batch lock throughout.  *)

(* dispatch: every step is a root of the graph, opened and queued at once. *)
Dispatch(b) ==
  /\ batch[b] = "scheduled"
  /\ CanIssue(cmd, StepsOf(b))
  /\ batch' = [batch EXCEPT ![b] = "running"]
  /\ current' = [current EXCEPT ![b] = MinStep(StepsOf(b))]
  /\ run' = [s \in Step |-> IF s \in StepsOf(b) THEN Append(run[s], "ready") ELSE run[s]]
  /\ cmd' = Issue(cmd, [s \in StepsOf(b) |-> NewCommand("dispatch", s, Len(run[s]) + 1, NoCmd)])
  /\ UNCHANGED <<ack, acur, job, phys, trouble>>

(* hold: withdraw what is queued, ask every acting device to hold.  When a *)
(* step is running without a command in flight (its receipt not processed  *)
(* yet) the hold goes to its station without a target.                     *)
Hold(b) ==
  LET acting  == ActingInBatch(cmd, b)
      adrift  == {s \in StepsOf(b) : run[s] # << >> /\ run[s][Len(run[s])] = "running"}
      steps   == IF acting # {} THEN {cmd[c].step : c \in acting} ELSE adrift
      queue   == WithdrawQueued(cmd, b)
      holdOf  == [c \in acting |-> NewCommand("hold", cmd[c].step, cmd[c].attempt, c)]
      holdAt  == [s \in adrift |-> NewCommand("hold", s, Len(run[s]), NoCmd)]
  IN /\ batch[b] = "running"
     /\ steps \subseteq Pausable
     /\ CanIssue(cmd, IF acting # {} THEN acting ELSE adrift)
     /\ batch' = [batch EXCEPT ![b] = "paused"]
     /\ cmd' = Issue(queue, IF acting # {} THEN holdOf ELSE holdAt)
     /\ current' = IF steps # {} THEN [current EXCEPT ![b] = MinStep(steps)] ELSE current
     /\ UNCHANGED <<run, ack, acur, job, phys, trouble>>

(* A worker keeps the run row it turned to running locked until it commits. *)
RunLocked(s, a) ==
  \E st \in Station : job[st].locks /\ cmd[job[st].cmd].step = s /\ cmd[job[st].cmd].attempt = a

(* abort, and recover with the abort strategy: cancel the open steps and    *)
(* their pending receipts, withdraw the queue, and send an abort to every   *)
(* device that may be acting.  It waits for the run rows a worker has       *)
(* locked.                                                                  *)
Abort(b) ==
  LET acting == PossiblyActing(cmd, b)
      queue  == WithdrawQueued(cmd, b)
      abortOf == [c \in acting |-> NewCommand("abort", cmd[c].step, cmd[c].attempt, c)]
      dispatched == batch[b] # "scheduled"
  IN /\ batch[b] \notin BatchEnded
     /\ \A s \in StepsOf(b) : \A a \in DOMAIN run[s] : ~RunLocked(s, a)
     /\ CanIssue(cmd, acting)
     /\ run' = [s \in Step |-> IF s \in StepsOf(b)
                  THEN [a \in DOMAIN run[s] |-> IF run[s][a] \in OpenRun THEN "cancelled" ELSE run[s][a]]
                  ELSE run[s]]
     /\ ack' = [c \in CmdId |-> IF c \in BatchCmds(cmd, b) /\ ack[c] = "pending" THEN "rejected" ELSE ack[c]]
     /\ cmd' = IF dispatched THEN Issue(queue, abortOf) ELSE cmd
     /\ batch' = [batch EXCEPT ![b] = IF dispatched /\ acting # {} THEN "aborting" ELSE "aborted"]
     /\ UNCHANGED <<current, acur, job, phys, trouble>>

(* ---- recover ---- *)

OpenAttempts(rs, s) == {a \in DOMAIN rs[s] : rs[s][a] \in OpenRun}
OpenSteps(rs, b)    == {s \in StepsOf(b) : OpenAttempts(rs, s) # {}}
DoneSteps(rs, b)    == {s \in StepsOf(b) : \E a \in DOMAIN rs[s] : rs[s][a] = "completed"}
FirstOpen(rs, s)    == CHOOSE a \in OpenAttempts(rs, s) : \A o \in OpenAttempts(rs, s) : a <= o

(* all_resolved over flow_state: the latest attempt at every step that was  *)
(* neither superseded nor cancelled has completed.                          *)
AllResolved(rs, b) ==
  \A s \in StepsOf(b) : \E a \in DOMAIN rs[s] :
     /\ rs[s][a] = "completed"
     /\ \A later \in DOMAIN rs[s] : later > a => rs[s][later] \in VoidRun

(* Mutant: whatever has not completed is to be opened. *)
Unopened_Mut(rs, b) == {s \in StepsOf(b) : \A a \in DOMAIN rs[s] : rs[s][a] # "completed"}

(* frontier: every attempt at the step is void, so it is to be opened.      *)
Unopened(rs, b) == {s \in StepsOf(b) : \A a \in DOMAIN rs[s] : rs[s][a] \in VoidRun}

(* _reattach_acting: the hold or abort never reached the device, so the     *)
(* steps of these actions are running after all.                            *)
Reattach(rs, cs, acting) ==
  [s \in Step |-> [a \in DOMAIN rs[s] |->
     IF /\ rs[s][a] = "unknown"
        /\ \E c \in acting : cs[c].step = s /\ cs[c].attempt = a
       THEN "running" ELSE rs[s][a]]]

(* recovery_options, blind_retry_allowed: what forbids driving the device.  *)
MayDrive(b, strategy) ==
  /\ \A c \in BatchCmds(cmd, b) : /\ cmd[c].state # "partial"
                                  /\ ~OutcomeUnknown(cmd[c])
                                  /\ cmd[c].type = "hold" =>
                                       cmd[c].state \notin {"sent", "accepted", "running"}
  /\ CASE strategy = "resume" -> \/ current[b] \in Pausable
                                 \/ OpenSteps(run, b) = {} /\ AllResolved(run, b)
       [] strategy = "retry"  -> current[b] \in Retryable /\ ActingInBatch(cmd, b) = {}

(* _reissue: a new command for attempt a at step s, taking over the action  *)
(* held there; a resume of what no device ever saw is a first dispatch.     *)
Reissued(cs, s, a, strategy) ==
  LET held == {c \in Actions(cs) : cs[c].step = s /\ cs[c].state = "held"}
      type == IF strategy = "resume" /\ held = {} /\ ~EverDelivered(cs, s, a)
                THEN "dispatch" ELSE strategy
  IN NewCommand(type, s, a, IF held = {} THEN NoCmd ELSE CHOOSE c \in held : \A d \in held : d <= c)

HasLive(cs, s, a) ==
  \E c \in DOMAIN cs : /\ cs[c].step = s /\ cs[c].attempt = a
                       /\ cs[c].state \in {"sent", "accepted", "running", "unknown"}

(* The steps a recovery can be about: the one recorded at the fault if its  *)
(* attempt is open; the first open one if that step has completed; else a   *)
(* step that must be opened again (attempt 0), or none at all: the flow is  *)
(* complete.                                                                *)
MainStep(b, rs, strategy) ==
  LET cur   == current[b]
      done  == DoneSteps(rs, b)
      open  == OpenSteps(rs, b)
      fresh == Unopened(rs, b)
      target == IF cur \in done /\ open = {} /\ fresh # {} THEN MinStep(fresh) ELSE cur
      undone == StepsOf(b) \ done
  IN IF strategy = "retry" THEN [step |-> target, attempt |-> 0]
     ELSE IF cur \in open THEN [step |-> cur, attempt |-> FirstOpen(rs, cur)]
     ELSE IF cur \in done /\ open # {} THEN [step |-> MinStep(open), attempt |-> FirstOpen(rs, MinStep(open))]
     ELSE IF target \notin done THEN [step |-> target, attempt |-> 0]
     ELSE IF undone # {} THEN [step |-> MinStep(undone), attempt |-> 0]
     ELSE [step |-> cur, attempt |-> 1]

(* retry on a step whose attempt is open supersedes that attempt, or the    *)
(* first open attempt of the batch when the recorded step has completed.    *)
Superseded(b, rs) ==
  LET open == OpenSteps(rs, b)
      s == IF current[b] \in open THEN current[b] ELSE MinStep(open)
  IN IF /\ open # {}
        /\ current[b] \in open \cup DoneSteps(rs, b)
        /\ rs[s][FirstOpen(rs, s)] \in {"ready", "running"}
       THEN PutRun(rs, s, FirstOpen(rs, s), "superseded") ELSE rs

(* _resume_other_branches: a second open attempt at a step counts as a       *)
(* branch of its own; its command would be refused, and all of it with it.  *)
OnlyOpen(rs, s, a) == OpenAttempts(rs, s) = {a}

(* recover: the step is put in order, its attempt and those of the other    *)
(* open branches get a command each, or nothing is done at all.             *)
Recover(b, strategy) ==
  LET acting  == ActingInBatch(cmd, b)
      moving  == {cmd[c].step : c \in acting}
      rs1     == Reattach(run, cmd, acting)
      main    == MainStep(b, rs1, strategy)
      ends    == strategy = "resume" /\ OpenSteps(rs1, b) = {} /\ DoneSteps(rs1, b) = StepsOf(b)
      opens   == main.attempt = 0
      rs2     == IF strategy = "retry" THEN Superseded(b, rs1) ELSE rs1
      rs3     == IF opens THEN [rs2 EXCEPT ![main.step] = Append(@, "ready")] ELSE rs2
      attempt == [s \in OpenSteps(rs3, b) |->
                    IF s # main.step THEN FirstOpen(rs3, s)
                    ELSE IF opens THEN Len(rs3[s]) ELSE main.attempt]
      others  == {s \in OpenSteps(rs3, b) \ {main.step} : ~HasLive(cmd, s, attempt[s])}
      again   == others \cup ({main.step} \ moving)
      rs4     == [s \in Step |-> IF s \in again THEN [rs3[s] EXCEPT ![attempt[s]] = "ready"] ELSE rs3[s]]
      new     == [s \in again |-> Reissued(cmd, s, attempt[s], IF s = main.step THEN strategy ELSE "resume")]
  IN /\ batch[b] \in {"paused", "fault"}
     /\ MayDrive(b, strategy)
     /\ IF ends
          THEN batch' = [batch EXCEPT ![b] = "done"] /\ UNCHANGED <<current, run, cmd>>
          ELSE /\ \A s \in again : /\ SecondActionAllowed(cmd, s, new[s].type, new[s].target)
                                  /\ OnlyOpen(rs3, s, attempt[s])
               /\ CanIssue(cmd, again)
               /\ batch' = [batch EXCEPT ![b] = "running"]
               /\ current' = IF opens THEN [current EXCEPT ![b] = main.step] ELSE current
               /\ run' = rs4
               /\ cmd' = Issue(cmd, new)
     /\ UNCHANGED <<ack, acur, job, phys, trouble>>

(* ---- verify_command: a person looks at the device and signs ---- *)

(* What the device does when it obeys hold or abort command c.              *)
Obeyed(ph, c, t) ==
  [d \in CmdId |->
     IF d = c THEN "done"
     ELSE IF d = t /\ ph[d] \in Physical THEN (IF cmd[c].type = "hold" THEN "held" ELSE "stopped")
     ELSE ph[d]]

(* The verdicts are true ones: executed only of an action that is done, of  *)
(* a hold whose targets stand still, of an abort after the person has       *)
(* stopped the device; not_executed only of what the device never took; a   *)
(* partial action is stopped by hand.  Only a hold cannot be partial.       *)
VerifyExecuted(c) ==
  LET r     == cmd[c]
      seen  == [cmd EXCEPT ![c].delivery = "delivered"]
      done  == [seen EXCEPT ![c].state = "done"]
      about == ControlTargets(cmd, c)
  IN /\ r.state = "unknown"
     /\ \/ /\ r.type \in DISPATCHING
           /\ phys[c] = "done"
           /\ cmd' = CompleteStep(seen, c)
           /\ ack' = AckEmitted(c)
           /\ acur' = Release(StationOfCmd(c), {c})
           /\ UNCHANGED <<batch, phys>>
        \/ /\ r.type = "hold"
           /\ \A t \in about : phys[t] = "held"
           /\ cmd' = [d \in DOMAIN cmd |-> IF d \in about /\ InFlight(cmd[d])
                                             THEN [done[d] EXCEPT !.state = "held"] ELSE done[d]]
           /\ acur' = Release(StationOfCmd(c), {c})
           /\ UNCHANGED <<batch, ack, phys>>
        \/ /\ r.type = "abort"
           /\ ConfirmAbort(done, c, about)
           /\ acur' = Release(StationOfCmd(c), about \cup {c})
           /\ phys' = [d \in CmdId |-> IF d \in about /\ phys[d] \in Physical THEN "stopped" ELSE phys[d]]
           /\ UNCHANGED ack
     /\ UNCHANGED <<current, run, job, trouble>>

RunFailed(r) ==
  IF run[r.step][r.attempt] = "unknown" THEN PutRun(run, r.step, r.attempt, "failed") ELSE run

VerifyNotExecuted(c) ==
  LET r == cmd[c]
      b == BatchOfCmd(c)
      about == ControlTargets(cmd, c)
  IN /\ r.state = "unknown"
     /\ cmd' = [cmd EXCEPT ![c].state = "not_executed"]
     /\ acur' = Release(StationOfCmd(c), {c})
     /\ \/ /\ r.type \in DISPATCHING
           /\ phys[c] = "none"
           /\ run' = RunFailed(r)
           /\ UNCHANGED batch
        \/ /\ r.type \in Control
           /\ r.type = "hold" => \E t \in about : phys[t] # "held"
           /\ r.type = "abort" => phys[c] # "done"
           /\ run' = Reattach(run, cmd, {t \in about : InFlight(cmd[t])})
           /\ batch' = IF r.type = "abort" /\ batch[b] = "aborting"
                         THEN [batch EXCEPT ![b] = "fault"] ELSE batch
     /\ UNCHANGED <<current, ack, job, phys, trouble>>

VerifyPartial(c) ==
  LET r == cmd[c]
  IN /\ r.state = "unknown"
     /\ r.type # "hold"
     /\ cmd' = [cmd EXCEPT ![c].state = "partial"]
     /\ acur' = Release(StationOfCmd(c), {c})
     /\ \/ /\ r.type \in DISPATCHING
           /\ phys[c] \in {"acting", "held", "stopped", "continued"}
           /\ phys' = IF phys[c] \in Physical THEN [phys EXCEPT ![c] = "stopped"] ELSE phys
           /\ run' = RunFailed(r)
        \/ r.type = "abort" /\ UNCHANGED <<phys, run>>
     /\ UNCHANGED <<batch, current, ack, job, trouble>>

-----------------------------------------------------------------------------
(* A station's worker: execution_service.py.  One worker serves a station  *)
(* at a time, and a pass reconciles before it polls or dispatches.         *)

Quiet(st) == job[st] = Idle
Unconfirmed(st) == {c \in StationCmds(cmd, st) : cmd[c].delivery = "maybe_sent" /\ InFlight(cmd[c])}
Ready(st) == Quiet(st) /\ Unconfirmed(st) = {}

(* execute: the batch stopped before the action was claimed.                *)
Withdraw(c) ==
  /\ Queued(cmd[c]) /\ Ready(StationOfCmd(c))
  /\ cmd[c].type \in DISPATCHING /\ batch[BatchOfCmd(c)] # "running"
  /\ cmd' = [cmd EXCEPT ![c].state = "cancelled", ![c].delivery = "not_sent"]
  /\ UNCHANGED <<batch, current, run, ack, acur, job, phys, trouble>>

(* execute: no adapter, adapter disabled or disconnected, interlock, stale  *)
(* heartbeat, failed acceptance, station or asset out of service.           *)
Refuse(c) ==
  /\ Queued(cmd[c]) /\ Ready(StationOfCmd(c))
  /\ cmd[c].type \in DISPATCHING => batch[BatchOfCmd(c)] = "running"
  /\ Trouble
  /\ Fault(c, "unreachable", Fresh(c), cmd, run)
  /\ UNCHANGED <<ack, acur, job, phys>>

(* Mutant: a hold or abort waits like an action. *)
Claim_Mut(c) ==
  LET st == StationOfCmd(c)
  IN /\ Queued(cmd[c]) /\ Ready(st)
     /\ batch[BatchOfCmd(c)] = "running"
     /\ Cardinality(Occupying(cmd, batch, st) \ {cmd[c].target}) < Channels[st]
     /\ cmd' = [cmd EXCEPT ![c].state = "accepted", ![c].delivery = "maybe_sent", ![c].started = TRUE]
     /\ acur' = IF cmd[c].type \in DISPATCHING THEN [acur EXCEPT ![st] = c] ELSE acur
     /\ job' = [job EXCEPT ![st] = Working("claimed", "submit", c, FALSE, "", NoSnap)]
     /\ UNCHANGED <<batch, current, run, ack, phys, trouble>>

(* execute: an action waits while the station's channels are taken by other *)
(* actions than the one it takes over; a hold or abort never waits.  The    *)
(* claim commits that the command may have been sent before it is.          *)
Claim(c) ==
  LET st == StationOfCmd(c)
      action == cmd[c].type \in DISPATCHING
  IN /\ Queued(cmd[c]) /\ Ready(st)
     /\ action => /\ batch[BatchOfCmd(c)] = "running"
                  /\ Cardinality(Occupying(cmd, batch, st) \ {cmd[c].target}) < Channels[st]
     /\ cmd' = [cmd EXCEPT ![c].state = "accepted", ![c].delivery = "maybe_sent", ![c].started = TRUE]
     /\ acur' = IF action THEN [acur EXCEPT ![st] = c] ELSE acur
     /\ job' = [job EXCEPT ![st] = Working("claimed", "submit", c, FALSE, "", NoSnap)]
     /\ UNCHANGED <<batch, current, run, ack, phys, trouble>>

(* The action a control command names has ended in the meantime. *)
Moot(r) == r.target # NoCmd /\ ~StillOccupying(cmd[r.target])

(* _perform, up to the call: what the transaction has read by then.  The    *)
(* step turns running in it, which locks the run row until it commits.      *)
Begin(st) ==
  LET c == job[st].cmd
      r == cmd[c]
  IN /\ job[st].phase = "claimed"
     /\ r.type \in Control => /\ <<st, r.type>> \notin Unsupported
                              /\ ~Moot(r)
     /\ job' = [job EXCEPT ![st] = Working("calling", "submit", c,
          r.type \in DISPATCHING /\ run[r.step][r.attempt] = "ready", "", Fresh(c))]
     /\ UNCHANGED <<books, phys, trouble>>

(* _perform: a hard time window passed or the environment is out of limits, *)
(* so the action is not sent after all.                                     *)
BeginRefused(st) ==
  LET c == job[st].cmd
  IN /\ job[st].phase = "claimed" /\ cmd[c].type \in DISPATCHING
     /\ Trouble
     /\ Fault(c, "unreachable", Fresh(c), [cmd EXCEPT ![c].started = FALSE], run)
     /\ acur' = Release(st, {c})
     /\ job' = [job EXCEPT ![st] = Idle]
     /\ UNCHANGED <<ack, phys>>

(* _perform: the action to hold or abort has ended, so the device is not    *)
(* called and the control command counts as done (_settle_moot).            *)
BeginMoot(st) ==
  LET c == job[st].cmd
      r == cmd[c]
      done == [cmd EXCEPT ![c].state = "done", ![c].delivery = "not_sent"]
  IN /\ job[st].phase = "claimed" /\ r.type \in Control
     /\ Moot(r)
     /\ IF r.type = "abort" THEN ConfirmAbort(done, c, {}) ELSE cmd' = done /\ UNCHANGED batch
     /\ job' = [job EXCEPT ![st] = Idle]
     /\ UNCHANGED <<current, run, ack, acur, phys, trouble>>

(* _perform: the adapter declares it cannot hold or abort.                  *)
BeginUnsupported(st) ==
  LET c == job[st].cmd
      r == cmd[c]
  IN /\ job[st].phase = "claimed" /\ <<st, r.type>> \in Unsupported
     /\ ~Moot(r)
     /\ Fault(c, "delivered", Fresh(c), cmd, run)
     /\ job' = [job EXCEPT ![st] = Idle]
     /\ UNCHANGED <<ack, acur, phys, trouble>>

(* reconcile and poll_running, up to the call: the device is asked by the   *)
(* command's own id.                                                        *)
Ask(c, kind) ==
  LET st == StationOfCmd(c)
  IN /\ InFlight(cmd[c]) /\ Quiet(st) /\ st \notin NoQuery
     /\ \/ kind = "reconcile" /\ cmd[c].delivery = "maybe_sent"
        \/ kind = "poll" /\ cmd[c].delivery = "delivered" /\ Unconfirmed(st) = {}
     /\ job' = [job EXCEPT ![st] = Working("calling", kind, c, FALSE, "", Fresh(c))]
     /\ UNCHANGED <<books, phys, trouble>>

-----------------------------------------------------------------------------
(* The device (outside the repository): what it makes of a call and what   *)
(* the adapter hands back.                                                 *)

Refused(p) == IF p = "none" THEN {"failed"} ELSE {}   \* rejected outright
Answered(st, reply, expected) ==
  /\ job' = [job EXCEPT ![st] =
       Working("answered", job[st].kind, job[st].cmd, job[st].locks, reply, job[st].snap)]
  /\ IF reply \in expected THEN UNCHANGED trouble ELSE Trouble

(* What an honest device may report of an action in state p; a call or its  *)
(* answer may be lost, and a device may not know.                           *)
Report(p) ==
  CASE p = "none"      -> {"unclear", "lost"}
    [] p \in Physical  -> {"running", "unclear", "lost"}
    [] p = "done"      -> {"done", "unclear", "lost"}
    [] p = "stopped"   -> {"failed", "unclear", "lost"}
    [] p = "continued" -> {"running", "unclear", "lost"}

Aim(c) ==
  LET t == cmd[c].target
      near == {d \in ActingInBatch(cmd, BatchOfCmd(c)) : StationOfCmd(d) = StationOfCmd(c)}
  IN IF t # NoCmd \/ near = {} THEN t ELSE CHOOSE d \in near : TRUE

CanObey(c, t) == (cmd[c].type = "hold" /\ t # NoCmd) => phys[t] \in Physical

(* A submitted command is lost, refused, taken up, or done at once.  A      *)
(* resume or retry continues the action it names.                           *)
DeliverAction(st) ==
  LET c == job[st].cmd
      t == cmd[c].target
  IN /\ job[st].phase = "calling" /\ job[st].kind = "submit"
     /\ cmd[c].type \in DISPATCHING
     /\ \E p \in {"none", "acting", "done", "stopped"} :
          /\ phys' = [d \in CmdId |-> IF d = c THEN p
                                      ELSE IF d = t /\ p # "none" /\ phys[d] \in Physical
                                        THEN "continued" ELSE phys[d]]
          /\ \E reply \in Report(p) \cup Refused(p) : Answered(st, reply, {"running", "done"})
     /\ UNCHANGED books

DeliverControl(st) ==
  LET c == job[st].cmd
      t == Aim(c)
  IN /\ job[st].phase = "calling" /\ job[st].kind = "submit"
     /\ cmd[c].type \in Control
     /\ \E p \in {"none", "acting", "done", "stopped"} :
          /\ p = "done" => CanObey(c, t)
          /\ phys' = IF p = "done" THEN Obeyed(phys, c, t) ELSE [phys EXCEPT ![c] = p]
          /\ \E reply \in Report(p) \cup Refused(p) : Answered(st, reply, {"running", "done"})
     /\ UNCHANGED books

(* A query.  What never arrived is not known to the device; a restarted      *)
(* gateway may also have forgotten what did.                                *)
Answer(st) ==
  LET p == phys[job[st].cmd]
      truth == IF p = "none" THEN {"absent"} ELSE Report(p) \ {"unclear", "lost"}
  IN /\ job[st].phase = "calling" /\ job[st].kind \in {"poll", "reconcile"}
     /\ \E reply \in Report(p) \cup {"absent"} : Answered(st, reply, truth)
     /\ UNCHANGED <<books, phys>>

DeviceFinish(c) ==
  /\ phys[c] = "acting"
  /\ \/ /\ cmd[c].type \in DISPATCHING
        /\ phys' = [phys EXCEPT ![c] = "done"] /\ UNCHANGED trouble
     \/ /\ cmd[c].type \in Control /\ CanObey(c, Aim(c))
        /\ phys' = Obeyed(phys, c, Aim(c)) /\ UNCHANGED trouble
     \/ phys' = [phys EXCEPT ![c] = "stopped"] /\ Trouble
  /\ UNCHANGED <<books, job>>

-----------------------------------------------------------------------------
(* After the call: settle() and the error branches around it.  The commit  *)
(* of a submit also commits the run it turned to running.                  *)

Mine(st)    == job[st].cmd
Seen(st)    == IF job[st].kind = "poll" THEN cmd ELSE [cmd EXCEPT ![Mine(st)].delivery = "delivered"]
RunSeen(st) == LET r == cmd[Mine(st)]
               IN IF job[st].locks THEN PutRun(run, r.step, r.attempt, "running") ELSE run
Settles(st, replies) == /\ job[st].phase = "answered" /\ job[st].reply \in replies
                        /\ job' = [job EXCEPT ![st] = Idle]
                        /\ UNCHANGED <<phys, trouble>>

(* A submit looked its control target up before the call and still holds    *)
(* that copy; a poll or reconciliation reads it now.                        *)
StaleTarget(st) == job[st].kind = "submit" /\ cmd[Mine(st)].target # NoCmd
(* Mutant: a confirmation counts for every action of the batch. *)
TargetsSeen_Mut(st) == PossiblyActing(cmd, BatchOfCmd(Mine(st)))
TargetsSeen(st) == IF StaleTarget(st) THEN {cmd[Mine(st)].target}
                   ELSE ControlTargets(cmd, Mine(st))
TargetMoves(st, t) == IF StaleTarget(st) THEN job[st].snap.target \in {"accepted", "running"}
                      ELSE InFlight(cmd[t])

SettleRunning(st) ==
  LET c == Mine(st)
      state == IF job[st].snap.cmd = "running" THEN cmd[c].state ELSE "running"
  IN /\ Settles(st, {"running"})
     /\ cmd' = TakeOver([Seen(st) EXCEPT ![c].state = state], c)
     /\ run' = RunSeen(st)
     /\ UNCHANGED <<batch, current, ack, acur>>

SettleActionDone(st) ==
  LET c == Mine(st)
  IN /\ Settles(st, {"done"}) /\ cmd[c].type \in DISPATCHING
     /\ cmd' = CompleteStep(Seen(st), c)
     /\ ack' = AckEmitted(c)
     /\ run' = RunSeen(st)
     /\ acur' = Release(st, {c})
     /\ UNCHANGED <<batch, current>>

(* confirm_hold: a hold confirms its own targets only. *)
SettleHoldDone(st) ==
  LET c == Mine(st)
      done == [Seen(st) EXCEPT ![c].state = "done"]
  IN /\ Settles(st, {"done"}) /\ cmd[c].type = "hold"
     /\ cmd' = [d \in DOMAIN cmd |-> IF d \in TargetsSeen(st) /\ TargetMoves(st, d)
                                       THEN [done[d] EXCEPT !.state = "held"] ELSE done[d]]
     /\ UNCHANGED <<batch, current, run, ack, acur>>

SettleAbortDone(st) ==
  LET c == Mine(st)
  IN /\ Settles(st, {"done"}) /\ cmd[c].type = "abort"
     /\ ConfirmAbort([Seen(st) EXCEPT ![c].state = "done"], c, TargetsSeen(st))
     /\ acur' = Release(st, TargetsSeen(st))
     /\ UNCHANGED <<current, run, ack>>

(* The device failed, or does not know: only a failure frees the station.   *)
SettleFailed(st) ==
  LET c == Mine(st)
      failed == job[st].reply = "failed"
      cs == [Seen(st) EXCEPT ![c].outcome = IF failed THEN "failed" ELSE "unknown"]
  IN /\ Settles(st, {"failed", "unclear"})
     /\ Fault(c, "delivered", job[st].snap, cs, RunSeen(st))
     /\ acur' = IF failed THEN Release(st, {c}) ELSE acur
     /\ UNCHANGED ack

(* Mutant: no answer is taken for a command that was not sent. *)
SettleLost_Mut(st) ==
  /\ Settles(st, {"lost", "absent"})
  /\ IF job[st].reply = "lost" /\ job[st].kind = "poll"
       THEN UNCHANGED <<batch, current, cmd, run>>
       ELSE Fault(Mine(st), "unreachable", job[st].snap, cmd, RunSeen(st))
  /\ UNCHANGED <<ack, acur>>

(* No answer, or the device knows nothing of the command: it may have acted. *)
(* A poll without an answer is simply asked again.                          *)
SettleLost(st) ==
  /\ Settles(st, {"lost", "absent"})
  /\ IF job[st].reply = "lost" /\ job[st].kind = "poll"
       THEN UNCHANGED <<batch, current, cmd, run>>
       ELSE Fault(Mine(st), "maybe_sent", job[st].snap, cmd, RunSeen(st))
  /\ UNCHANGED <<ack, acur>>

(* Mutant: what cannot be asked about is taken for not sent. *)
ReconcileBlind_Mut(c) ==
  /\ Quiet(StationOfCmd(c)) /\ StationOfCmd(c) \in NoQuery
  /\ c \in Unconfirmed(StationOfCmd(c))
  /\ Fault(c, "unreachable", Fresh(c), cmd, run)
  /\ UNCHANGED <<ack, acur, job, phys, trouble>>

(* reconcile: the adapter cannot be asked about what may have been sent.    *)
ReconcileBlind(c) ==
  /\ Quiet(StationOfCmd(c)) /\ StationOfCmd(c) \in NoQuery
  /\ c \in Unconfirmed(StationOfCmd(c))
  /\ Fault(c, "maybe_sent", Fresh(c), cmd, run)
  /\ UNCHANGED <<ack, acur, job, phys, trouble>>

(* reconcile: an action in flight that the station does not name as its     *)
(* current one (single-channel stations only).                              *)
Mismatched(c) ==
  /\ cmd[c].type \in DISPATCHING /\ InFlight(cmd[c]) /\ cmd[c].delivery # "maybe_sent"
  /\ Channels[StationOfCmd(c)] = 1 /\ acur[StationOfCmd(c)] # c
ReconcileMismatch(c) ==
  /\ Mismatched(c) /\ Ready(StationOfCmd(c))
  /\ Fault(c, "maybe_sent", Fresh(c), cmd, run)
  /\ UNCHANGED <<ack, acur, job, phys, trouble>>

(* check_timeouts: a command in flight is past its hard limit. *)
Timeout(c) ==
  /\ InFlight(cmd[c]) /\ cmd[c].started /\ Ready(StationOfCmd(c))
  /\ Trouble
  /\ Fault(c, "maybe_sent", Fresh(c), cmd, run)
  /\ UNCHANGED <<ack, acur, job, phys>>

(* The process dies, or the database kills the worker's transaction: what   *)
(* it had not committed is gone, the claim is not.                          *)
Interrupt(st) ==
  /\ ~Quiet(st)
  /\ job' = [job EXCEPT ![st] = Idle]
  /\ Trouble
  /\ UNCHANGED <<books, phys>>

(* finish_hanging_aborts, reconcile_abort: everybody has stopped, but the   *)
(* abort was not concluded.                                                 *)
FinishAborts(b) ==
  /\ batch[b] = "aborting" /\ ~StillWaiting(cmd, b, NoCmd)
  /\ FinalizeAbort(cmd, b, NoCmd)
  /\ UNCHANGED <<current, run, ack, acur, job, phys, trouble>>

-----------------------------------------------------------------------------
(* process_event on a device receipt (workflow_service.py): the step         *)
(* completes, steps that wait or were voided are opened, and the batch is    *)
(* done when every step is resolved while it is running.  A receipt the      *)
(* step's state does not admit, or whose next commands may not be issued, is *)
(* rejected and changes nothing else.  It waits for a locked run row.        *)
ProcessAck(c) ==
  LET r == cmd[c]
      b == BatchOfCmd(c)
      going   == batch[b] \notin {"aborting", "aborted", "done"}
      rs1     == PutRun(run, r.step, r.attempt, "completed")
      waiting == {s \in OpenSteps(rs1, b) : rs1[s][FirstOpen(rs1, s)] = "pending"}
      over    == AllResolved(rs1, b)
      opened  == IF over THEN {} ELSE Unopened(rs1, b)
      issued  == IF batch[b] = "running" THEN waiting \cup opened ELSE {}
      first   == IF batch[b] = "running" THEN "ready" ELSE "pending"
      rs2     == [s \in Step |-> IF s \in opened THEN Append(rs1[s], first)
                                 ELSE IF s \in issued THEN [rs1[s] EXCEPT ![FirstOpen(rs1, s)] = "ready"]
                                 ELSE rs1[s]]
      new     == [s \in issued |->
                    NewCommand("dispatch", s, IF s \in opened THEN Len(rs2[s]) ELSE FirstOpen(rs1, s), NoCmd)]
      admitted == run[r.step][r.attempt] \in {"running", "unknown"}
      mayIssue == \A s \in issued : SecondActionAllowed(cmd, s, "dispatch", NoCmd)
  IN /\ ack[c] = "pending"
     /\ ~RunLocked(r.step, r.attempt)
     /\ IF ~admitted \/ (going /\ ~mayIssue)
          THEN /\ ack' = [ack EXCEPT ![c] = "rejected"]
               /\ UNCHANGED <<batch, current, cmd, run>>
          ELSE /\ ack' = [ack EXCEPT ![c] = "processed"]
               /\ IF ~going THEN run' = rs1 /\ UNCHANGED <<batch, current, cmd>>
                  ELSE /\ CanIssue(cmd, issued)
                       /\ run' = rs2
                       /\ cmd' = Issue(cmd, new)
                       /\ batch' = IF over /\ batch[b] = "running"
                                     THEN [batch EXCEPT ![b] = "done"] ELSE batch
                       /\ current' = IF ~over /\ OpenSteps(rs2, b) # {}
                                       THEN [current EXCEPT ![b] = MinStep(OpenSteps(rs2, b))] ELSE current
     /\ UNCHANGED <<acur, job, phys, trouble>>

-----------------------------------------------------------------------------
Operator(b) ==
  \/ Dispatch(b) \/ Hold(b) \/ Abort(b)
  \/ \E strategy \in {"resume", "retry"} : Recover(b, strategy)
Verify(c) == VerifyExecuted(c) \/ VerifyNotExecuted(c) \/ VerifyPartial(c)
Serve(c)  == \/ Withdraw(c) \/ Refuse(c) \/ Claim(c)
             \/ \E kind \in {"poll", "reconcile"} : Ask(c, kind)
             \/ ReconcileBlind(c) \/ ReconcileMismatch(c) \/ Timeout(c)
Perform(st) == Begin(st) \/ BeginRefused(st) \/ BeginMoot(st) \/ BeginUnsupported(st)
Device(st)  == DeliverAction(st) \/ DeliverControl(st) \/ Answer(st)
Settle(st)  == \/ SettleRunning(st) \/ SettleActionDone(st) \/ SettleHoldDone(st)
               \/ SettleAbortDone(st) \/ SettleFailed(st) \/ SettleLost(st)

Next ==
  \/ \E b \in Batch : Operator(b) \/ FinishAborts(b)
  \/ \E c \in DOMAIN cmd : Verify(c) \/ Serve(c) \/ ProcessAck(c) \/ DeviceFinish(c)
  \/ \E st \in Station : Perform(st) \/ Device(st) \/ Settle(st) \/ Interrupt(st)

Spec == Init /\ [][Next]_vars

-----------------------------------------------------------------------------
(* Properties.                                                             *)

Snap == [batch : BatchState, current : Step \cup {0}, cmd : CommandState, target : CommandState]
Job  == [phase : {"idle", "claimed", "calling", "answered"}, kind : {"submit", "poll", "reconcile"},
         cmd : CmdId \cup {NoCmd}, locks : BOOLEAN, reply : Reply \cup {""}, snap : Snap]

(* Types of the books, the workers' memory and the devices; a worker that   *)
(* is busy is busy with an issued command.                                  *)
TypeOK ==
  /\ batch \in [Batch -> BatchState]
  /\ current \in [Batch -> Step]
  /\ DOMAIN cmd \subseteq CmdId /\ cmd \in [DOMAIN cmd -> Command]
  /\ run \in [Step -> Seq(RunState)]
  /\ ack \in [CmdId -> {"none", "pending", "processed", "rejected"}]
  /\ acur \in [Station -> CmdId \cup {NoCmd}]
  /\ job \in [Station -> Job]
  /\ phys \in [CmdId -> Phys]
  /\ trouble \in 0..MaxTrouble

(* Whatever a device is physically doing for a command, the books count as  *)
(* possibly acting: a crash, a lost answer, a takeover, a stale write-back  *)
(* or a wrong release never lets a moving device out of sight               *)
(* (repositories/execution.py, still_occupying).                            *)
BooksCoverDevice ==
  \A c \in Actions(cmd) : phys[c] \in Physical => StillOccupying(cmd[c])

(* Two actions never share a channel: what physically engages a station     *)
(* never exceeds its channels (execute, _occupied), the repetition of a     *)
(* step that has completed set aside: its batch may be over, and the        *)
(* channel taken for free, while it still acts (CompletedOnce).             *)
OneActionPerChannel ==
  \A st \in Station :
    Cardinality({c \in Actions(cmd) \cap StationCmds(cmd, st) :
                   phys[c] \in Physical /\ cmd[c].step \notin DoneSteps(run, BatchOfCmd(c))}) <= Channels[st]

(* A batch is declared aborted only when no device is acting for it         *)
(* (_finalize_abort): several stations confirm in any order, concurrently.  *)
AbortedMeansStopped ==
  \A b \in Batch : batch[b] = "aborted" =>
    \A c \in Actions(cmd) \cap BatchCmds(cmd, b) : phys[c] \notin Physical

(* Two commands never drive the same step at the same time                  *)
(* (_refuse_second_action, _take_over, never_left_system): the device would *)
(* do the step twice.  A free channel alone does not allow it, but see the  *)
(* README, section 5, for what three unanswered aborts lead to there.       *)
SingleAction ==
  \A c, d \in Actions(cmd) :
    c # d /\ cmd[c].step = cmd[d].step => ~(phys[c] \in Physical /\ phys[d] \in Physical)

(* An action the books call held does not move, although the hold and the   *)
(* action's own answers are settled from copies read before the calls: held *)
(* actions are neither polled nor timed out (confirm_hold).                 *)
HeldMeansStill ==
  \A c \in Actions(cmd) : cmd[c].state = "held" => phys[c] # "acting"

(* A step never has two open attempts, whatever mix of recoveries, receipts *)
(* and automatic retries opened them: two would be driven independently     *)
(* (open_step, recover, _advance_graph).                                    *)
OneAttemptOpen ==
  \A s \in Step : Cardinality(OpenAttempts(run, s)) <= 1

(* A step whose action is done is not left open when its receipt is refused *)
(* (process_event, _reject_event): nothing would ever conclude it, and a    *)
(* recovery would drive the device again.                                   *)
ReceiptConcludesStep ==
  \A c \in DOMAIN cmd : ack[c] = "rejected" => run[cmd[c].step][cmd[c].attempt] \notin OpenRun

(* The same attempt at a step is not completed by two commands (_take_over, *)
(* complete_device_step).                                                   *)
CompletedOnce ==
  \A c, d \in Actions(cmd) :
    (c # d /\ cmd[c].step = cmd[d].step /\ cmd[c].attempt = cmd[d].attempt)
      => ~(cmd[c].state = "done" /\ cmd[d].state = "done")

(* A batch does not run while the outcome of one of its actions is unknown  *)
(* and the device may be acting: somebody has to look first (fault,         *)
(* recovery_options).                                                       *)
UnknownStopsBatch ==
  \A c \in Actions(cmd) : OutcomeUnknown(cmd[c]) => batch[BatchOfCmd(c)] # "running"

(* A batch that has ended stays ended, whatever answer comes in late        *)
(* (fault, _confirm_abort).                                                 *)
EndedStaysEnded == [][\A b \in Batch : batch[b] \in BatchEnded => batch'[b] = batch[b]]_vars

(* A batch is not put back to running while the device has yet to confirm a *)
(* hold, neither by a person nor by the exception engine (recovery_options, *)
(* _resume_batch).                                                          *)
HoldIsNotOverrun ==
  [][\A b \in Batch : (batch[b] # "running" /\ batch'[b] = "running") =>
       \A c \in BatchCmds(cmd', b) :
         cmd'[c].type = "hold" => cmd'[c].state \notin {"sent", "accepted", "running"}]_vars

-----------------------------------------------------------------------------
(* What the queue promises, as a specification of its own: the fate the     *)
(* books give each action, and what the devices have really taken up.       *)
Fate(c) ==
  IF c \notin Actions(cmd) \/ cmd[c].delivery = "queued" THEN "open"
  ELSE IF cmd[c].delivery \in {"not_sent", "unreachable"} THEN "barred" ELSE "given"
Taken == {c \in Actions(cmd) : phys[c] # "none"}

Promise == INSTANCE Handover WITH fate <- [c \in CmdId |-> Fate(c)], taken <- Taken

(* Every step of the executor, the operator, a crash or a late answer keeps *)
(* the promise (execute, withdraw, _refuse, _perform, reconcile).           *)
KeepsPromise == Promise!Spec

-----------------------------------------------------------------------------
(* A worker makes a pass over its station every few hundred milliseconds,   *)
(* and every pass tries each command of its queue, each unanswered one and  *)
(* each one in flight; a call to a device returns or times out; a device    *)
(* that is acting comes to an end.  Nothing is assumed of people.           *)
Fairness ==
  /\ \A st \in Station : WF_vars(Perform(st)) /\ WF_vars(Device(st)) /\ WF_vars(Settle(st))
  /\ \A c \in CmdId :
       /\ SF_vars(c \in DOMAIN cmd /\ (Claim(c) \/ Withdraw(c)))
       /\ SF_vars(c \in DOMAIN cmd /\ \E kind \in {"poll", "reconcile"} : Ask(c, kind))
       /\ WF_vars(c \in DOMAIN cmd /\ DeviceFinish(c))
       /\ WF_vars(c \in DOMAIN cmd /\ ProcessAck(c))
  /\ \A b \in Batch : WF_vars(FinishAborts(b))
FairSpec == Spec /\ Fairness

(* An abort is concluded, or a verdict on some command is asked of a        *)
(* person; several stations confirming at the same moment do not each wait  *)
(* for the other (_confirm_abort, finish_hanging_aborts).                   *)
AsksPerson(b) == \E c \in BatchCmds(cmd, b) : cmd[c].state = "unknown"
AbortConcludes ==
  \A b \in Batch : batch[b] = "aborting" ~> (batch[b] # "aborting" \/ AsksPerson(b))
=============================================================================
