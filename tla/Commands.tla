------------------------------ MODULE Commands ------------------------------
(***************************************************************************)
(* The persisted books of the command queue: what one device command and   *)
(* one step run are, and the readings of them that the executor and the    *)
(* operator's services share (models/execution.py,                         *)
(* repositories/execution.py, domain/workflow.py).  No behaviour here: the *)
(* operators take the table of commands as an argument, because a handler  *)
(* reads it half way through its own changes.                              *)
(***************************************************************************)
EXTENDS Naturals, Sequences, FiniteSets, Functions

CONSTANTS
  Batch,       \* batches
  Step,        \* device steps of all batches, numbered (step_index order)
  Station,     \* physical stations
  BatchOf,     \* [Step -> Batch]
  StationOf,   \* [Step -> Station], the station the schedule reserved
  Channels,    \* [Station -> Nat], actions a station can run at once
  MaxCmd       \* bound: commands ever issued

ASSUME StepAssumption == Step \subseteq Nat
ASSUME PlanAssumption ==
  /\ BatchOf \in [Step -> Batch] /\ StationOf \in [Step -> Station]
  /\ \A b \in Batch : \E s \in Step : BatchOf[s] = b
ASSUME ChannelAssumption == Channels \in [Station -> Nat \ {0}]
ASSUME BoundAssumption == MaxCmd \in Nat

CmdId == 1..MaxCmd
NoCmd == 0          \* the empty target_command_id / current_command_id

(* Command types.  Transfers (the other MOTION type) are not modelled here. *)
DISPATCHING == {"dispatch", "resume", "retry"}
Control     == {"hold", "abort"}

CommandState ==
  {"sent", "accepted", "running", "held", "done", "superseded", "cancelled",
   "unknown", "not_executed", "partial"}
Delivery == {"queued", "maybe_sent", "delivered", "unreachable", "not_sent"}
Outcome  == {"", "failed", "unknown"}

Command ==
  [type : DISPATCHING \cup Control, step : Step, attempt : Nat \ {0},
   target : CmdId \cup {NoCmd}, state : CommandState, delivery : Delivery,
   outcome : Outcome, started : BOOLEAN]

OpenRun  == {"pending", "ready", "running"}
VoidRun  == {"superseded", "cancelled"}   \* no longer the step's conclusion
RunState == OpenRun \cup VoidRun \cup {"completed", "failed", "unknown"}

BatchState == {"scheduled", "running", "paused", "fault", "aborting", "aborted", "done"}
BatchEnded == {"done", "aborted"}

(* Mutant: attempts counted from zero. *)
NewCommand_Mut(type, step, attempt, target) ==
  [type |-> type, step |-> step, attempt |-> attempt - 1, target |-> target,
   state |-> "sent", delivery |-> "queued", outcome |-> "", started |-> FALSE]

(* issue_command: a row that no executor has claimed yet. *)
NewCommand(type, step, attempt, target) ==
  [type |-> type, step |-> step, attempt |-> attempt, target |-> target,
   state |-> "sent", delivery |-> "queued", outcome |-> "", started |-> FALSE]

(* One new row for each member of new, by some choice of ids not yet taken. *)
FreeIds(cs)     == CmdId \ DOMAIN cs
CanIssue(cs, T) == Injection(T, FreeIds(cs)) # {}
Issue(cs, new) ==
  LET id == CHOOSE f \in Injection(DOMAIN new, FreeIds(cs)) : TRUE
      for(n) == CHOOSE t \in DOMAIN new : id[t] = n
  IN [n \in DOMAIN cs \cup Range(id) |-> IF n \in DOMAIN cs THEN cs[n] ELSE new[for(n)]]

-----------------------------------------------------------------------------
Queued(r)        == r.state = "sent" /\ r.delivery = "queued"
InFlight(r)      == r.state \in {"accepted", "running"}
Engaged(r)       == r.state \in {"accepted", "running", "held"}

(* Mutant: an answer "I do not know" counts as the end of the action. *)
OutcomeUnknown_Mut(r) == r.state = "unknown" /\ r.delivery = "maybe_sent"

(* No verdict, and the device may still be acting: it may have received the *)
(* command, or it answered that it does not know what became of it.         *)
OutcomeUnknown(r) ==
  /\ r.state = "unknown"
  /\ \/ r.delivery = "maybe_sent"
     \/ r.delivery = "delivered" /\ r.outcome = "unknown"
StillOccupying(r) == Engaged(r) \/ OutcomeUnknown(r)

BatchCmds(cs, b)    == {c \in DOMAIN cs : BatchOf[cs[c].step] = b}
StationCmds(cs, st) == {c \in DOMAIN cs : StationOf[cs[c].step] = st}
Actions(cs)         == {c \in DOMAIN cs : cs[c].type \in DISPATCHING}

ActingInBatch(cs, b) == {c \in Actions(cs) \cap BatchCmds(cs, b) : InFlight(cs[c])}
(* Mutant: an action without a verdict is not stopped. *)
PossiblyActing_Mut(cs, b) == {c \in Actions(cs) \cap BatchCmds(cs, b) : Engaged(cs[c])}
PossiblyActing(cs, b) == {c \in Actions(cs) \cap BatchCmds(cs, b) : StillOccupying(cs[c])}

(* Mutant: an action without a verdict takes no channel. *)
Occupying_Mut(cs, bs, st) ==
  {c \in Actions(cs) \cap StationCmds(cs, st) :
     Engaged(cs[c]) /\ bs[BatchOf[cs[c].step]] \notin BatchEnded}

(* The actions counted against a station's channels.  An action that is in  *)
(* flight or held stops counting when its batch has ended; one without a    *)
(* verdict counts until somebody gives the verdict.                         *)
Occupying(cs, bs, st) ==
  {c \in Actions(cs) \cap StationCmds(cs, st) :
     \/ Engaged(cs[c]) /\ bs[BatchOf[cs[c].step]] \notin BatchEnded
     \/ OutcomeUnknown(cs[c])}

EverDelivered(cs, s, a) ==
  \E c \in Actions(cs) : /\ cs[c].step = s /\ cs[c].attempt = a
                         /\ cs[c].delivery \in {"maybe_sent", "delivered"}

(* _refuse_second_action: is another action on this step allowed?  Only     *)
(* when none is alive, or the new one takes over the one that is held.      *)
SecondActionAllowed(cs, s, type, target) ==
  LET live == {c \in Actions(cs) : cs[c].step = s /\ (Queued(cs[c]) \/ StillOccupying(cs[c]))}
  IN \/ live = {}
     \/ /\ type \in {"resume", "retry"}
        /\ \A c \in live : cs[c].state = "held"
        /\ target \in live

(* Mutant: a command that an executor has just claimed is withdrawn too. *)
WithdrawQueued_Mut(cs, b) ==
  [c \in DOMAIN cs |-> IF c \in BatchCmds(cs, b) /\ cs[c].state \in {"sent", "accepted"}
                         THEN [cs[c] EXCEPT !.state = "cancelled", !.delivery = "not_sent"]
                         ELSE cs[c]]

(* execution_service.withdraw on everything of a batch that no executor has *)
(* claimed: the device will never see it.                                   *)
WithdrawQueued(cs, b) ==
  [c \in DOMAIN cs |-> IF c \in BatchCmds(cs, b) /\ Queued(cs[c])
                         THEN [cs[c] EXCEPT !.state = "cancelled", !.delivery = "not_sent"]
                         ELSE cs[c]]
=============================================================================
