------------------------------ MODULE Workflow ------------------------------
(***************************************************************************)
(* The advancer (services/workflow_service.py) with the operator's use     *)
(* cases that move a flow (services/batch_service.py): one batch, the       *)
(* instances of its steps, the persisted events that conclude them, the     *)
(* nodes the system decides by itself (gates, branches, splits), signals,   *)
(* deadlines, hold, recovery, skipping, redoing and aborting.               *)
(*                                                                         *)
(* The advancer and the request threads work in transactions of their own.  *)
(* Processing an event locks the row of its step and reads the batch        *)
(* without a lock (Begin); what follows (Apply) may act on a batch that has *)
(* changed in between.  The recursion of the code - a step that is opened   *)
(* may conclude at once and open others - is the agenda of the transaction  *)
(* that is being written; no other transaction interferes with an agenda.   *)
(* What a device does with a command is the subject of Execution; here a    *)
(* device step has a command that is queued, acting, held or over.          *)
(***************************************************************************)
EXTENDS Flow

CONSTANTS
  Flows,       \* the flows a batch may have been created from
  Signals,     \* identifiers of signals
  MaxUpsets,   \* bound: interventions, failures, deadlines and crashes
  MaxTries     \* advance_max_attempts: processing attempts of one event

ASSUME BoundsAssumption == MaxUpsets \in Nat /\ MaxTries \in Nat \ {0}

(* A method without a step is not released.                                 *)
ASSUME FlowsAssumption == \A f \in Flows : Len(f) \in Nat \ {0} /\ DOMAIN f = 1..Len(f)

(* A signal without an identifier is not accepted; "" stands for none.      *)
ASSUME SignalsAssumption == "" \notin Signals

VARIABLES
  steps,    \* the flow of this batch, recipe_snapshot
  batch,    \* [state, why, note, current], the steps people had redone, and the
            \* instances a retry left waiting when it opened another
  runs,     \* step_runs: the instances, in the order they were opened
  events,   \* workflow_events
  claims,   \* step_advances: what has been advanced already
  alarms,   \* conditions still open: <<"node" | "stuck" | "timeout", instance>>
  signals,  \* batch_signals received: [id -> name and consumer]
  tx,       \* events being processed: what each transaction has read
  agenda,   \* what the transaction that is writing still has to do
  work,     \* how that transaction sees the batch, and what is left when it is refused
  upsets    \* interventions, failures, deadlines and crashes so far

vars == <<steps, batch, runs, events, claims, alarms, signals, tx, agenda, work, upsets>>

Row == 1..Len(runs)
Kind(r) == steps[runs[r].step].kind
StepOf(r) == steps[runs[r].step]

NewRun(i) ==
  [step |-> i, state |-> InitialState(steps[i]), redo |-> FALSE, exits |-> {}, signal |-> "",
   late |-> FALSE, dev |-> "none"]

Init ==
  /\ steps \in {f \in Flows : Sound(f)}
  /\ batch = [state |-> "scheduled", why |-> "", note |-> FALSE, current |-> 1, redone |-> {}, left |-> {}]
  /\ runs = << >> /\ events = {} /\ claims = {} /\ alarms = {}
  /\ signals = [s \in {} |-> ""] /\ tx = {} /\ agenda = << >> /\ work = << >> /\ upsets = 0

Upset == upsets < MaxUpsets /\ upsets' = upsets + 1

-----------------------------------------------------------------------------
(* Readings.                                                                *)

RowsOf(rs, i) == {r \in DOMAIN rs : rs[r].step = i}
OpenRows(rs)  == {r \in DOMAIN rs : rs[r].state \in Undecided}
Void == {"superseded", "cancelled"}

(* The last valid instance of every step that has one; a failure that waits *)
(* to be assessed again is not a verdict.                                   *)
Valid(rs, i) ==
  {r \in RowsOf(rs, i) : rs[r].state \notin Void /\ ~(rs[r].state = "failed" /\ rs[r].redo)}
Status(rs) ==
  [i \in {i \in DOMAIN steps : Valid(rs, i) # {}} |-> rs[Largest(Valid(rs, i))].state]
Chosen(rs) ==
  LET decided == {i \in DOMAIN Status(rs) : steps[i].kind = "branch" /\ Status(rs)[i] = "completed"}
  IN [i \in decided |-> rs[Largest(Valid(rs, i))].exits]

(* Two device steps on one plate; the plate is in use by another instance.  *)
SamePlate(rs, r, q) ==
  /\ \A x \in {r, q} : steps[rs[x].step].kind = "device" /\ steps[rs[x].step].plate # 0
  /\ steps[rs[r].step].plate = steps[rs[q].step].plate
PlateBusy(rs, r) ==
  \E q \in DOMAIN rs \ {r} : SamePlate(rs, q, r) /\ rs[q].state \in {"ready", "running"}

(* In the order in which the instances of a batch are listed.               *)
Before(rs, r, q) == rs[r].step < rs[q].step \/ (rs[r].step = rs[q].step /\ r < q)
FirstOnPlate(rs, S) == {r \in S : \A q \in S : SamePlate(rs, q, r) => ~Before(rs, q, r)}

Acting == {r \in Row : runs[r].dev \in {"acting", "holding"}}
Live   == {"queued", "acting", "holding", "held"}

Locked(r) == \E t \in tx : t.run = r
Quiet  == agenda = << >>          \* no transaction is half way
Ended  == {"aborting", "aborted", "done"}

-----------------------------------------------------------------------------
(* Partial effects.                                                         *)

(* The object-relational mapper writes only what differs from what the      *)
(* transaction has read: an assignment that looks like no change is none.   *)
Turned(b, v) == [b EXCEPT !.state = IF work.view = v THEN @ ELSE v]

Task(op, r, i, n) == [op |-> op, run |-> r, step |-> i, epoch |-> n, pruned |-> FALSE, opened |-> FALSE]

(* The agenda goes on with these tasks, and the transaction sees the batch  *)
(* in this state; it ends with its agenda.                                  *)
Seeing(v, tasks) ==
  LET rest == tasks \o Tail(agenda)
  IN agenda' = rest /\ work' = IF rest = << >> THEN << >> ELSE [work EXCEPT !.view = v]
Then(tasks) == Seeing(work.view, tasks)

(* A transaction begins to write; what would be left of it if it failed.    *)
Opens(v, tasks, es, as) ==
  /\ agenda' = tasks
  /\ work' = [view |-> v, batch |-> batch, runs |-> runs, events |-> es, claims |-> claims,
              alarms |-> as, signals |-> signals]
Request(v, tasks) == Opens(v, tasks, events, alarms)

Emit(es, type, r, arg) ==
  IF \E e \in es : e.type = type /\ e.run = r THEN es
  ELSE es \cup {[type |-> type, run |-> r, arg |-> arg, state |-> "pending", tries |-> 0]}

Joined(i, n) == <<"join", i, n>>
Once(r)      == <<"run", r, 0>>

Driven_Mut(row) == [row EXCEPT !.state = "queued", !.dev = "queued"]

(* A device step that is driven gets a command in the queue.                *)
Driven(row) == [row EXCEPT !.state = "ready", !.dev = "queued"]

(* The device steps that wait for a plate or for the end of a hold, in the  *)
(* order of the list: the first of each plate that is free takes it.        *)
Released(rs) ==
  LET waiting == {r \in DOMAIN rs : rs[r].state = "pending" /\ steps[rs[r].step].kind = "device"}
      go == FirstOnPlate(rs, {r \in waiting : ~PlateBusy(rs, r)})
  IN [r \in DOMAIN rs |-> IF r \in go THEN Driven(rs[r]) ELSE rs[r]]

(* A step has a second command while the first may still act: the command   *)
(* is refused and with it the whole transaction.                            *)
Clash(rs) ==
  \E r, q \in DOMAIN rs : r # q /\ rs[r].step = rs[q].step /\ rs[r].dev \in Live /\ rs[q].dev = "queued"

(* Refused half way: what the transaction found, its event rejected.        *)
RolledBack ==
  /\ batch' = work.batch /\ runs' = work.runs /\ events' = work.events /\ claims' = work.claims
  /\ alarms' = work.alarms /\ signals' = work.signals
  /\ agenda' = << >> /\ work' = << >>

Finished(b) == [Turned(b, "done") EXCEPT !.why = b.why]

NodePaused(b, r, why) ==
  [Turned(b, "paused") EXCEPT !.why = why, !.current = IF why = "gate" THEN @ ELSE runs[r].step]

Closed(rs, r, v) == [rs EXCEPT ![r].state = v]

-----------------------------------------------------------------------------
(* The work of a transaction: opening, entering and advancing.              *)

Todo(op) == agenda # << >> /\ Head(agenda).op = op

EarlySignal_Mut(i) == {}

(* An instance that waits for a signal takes one that came early; the       *)
(* batch is locked for it.                                                  *)
EarlySignal(i) == {s \in DOMAIN signals : signals[s].name = steps[i].event /\ signals[s].by = 0}
WaitsForSignal(i) == steps[i].kind = "wait" /\ steps[i].event # ""
Takes(i)    == IF WaitsForSignal(i) /\ EarlySignal(i) # {} THEN EarlySignal(i) ELSE {""}
Taken(s, r) == IF s = "" THEN UNCHANGED <<signals, events>>
               ELSE signals' = [signals EXCEPT ![s].by = r] /\ events' = Emit(events, "signal", r, "")

MarkOpened(ts) ==
  LET tails == {k \in DOMAIN ts : ts[k].op = "tail"}
  IN IF tails = {} THEN ts ELSE [ts EXCEPT ![CHOOSE k \in tails : \A j \in tails : k <= j].opened = TRUE]

OpenStep ==
  /\ Todo("open")
  /\ LET i == Head(agenda).step
         n == Head(agenda).epoch
         r == Len(runs) + 1
     IN IF n # 0 /\ Joined(i, n) \in claims
        THEN Then(<< >>) /\ UNCHANGED <<batch, runs, events, claims, signals>>
        ELSE /\ claims' = claims \cup (IF n = 0 THEN {} ELSE {Joined(i, n)})
             /\ batch' = [batch EXCEPT !.current = i]
             /\ agenda' = <<Task("enter", r, i, 0)>> \o MarkOpened(Tail(agenda))
             /\ work' = IF WaitsForSignal(i) THEN [work EXCEPT !.view = batch.state] ELSE work
             /\ \E s \in Takes(i) : runs' = Append(runs, [NewRun(i) EXCEPT !.signal = s]) /\ Taken(s, r)
  /\ UNCHANGED <<steps, alarms, tx, upsets>>

Entering(kinds) == Todo("enter") /\ Kind(Head(agenda).run) \in kinds
R == Head(agenda).run    \* the instance the head of the agenda is about

(* People, time and signals conclude these; notifications and merges the    *)
(* system concludes at once.                                                *)
EnterTodo ==
  /\ Entering({"manual", "wait", "review"})
  /\ Then(<< >>)
  /\ UNCHANGED <<steps, batch, runs, events, claims, alarms, signals, tx, upsets>>

EnterAtOnce ==
  /\ Entering({"notify", "merge"})
  /\ runs' = Closed(runs, R, "completed")
  /\ Then(<<Task("advance", R, 0, 0)>>)
  /\ UNCHANGED <<steps, batch, events, claims, alarms, signals, tx, upsets>>

Waits(r) == HoldBlocks(work.view) \/ (GraphMode(steps) /\ PlateBusy(runs, r))

EnterDevice ==
  /\ Entering({"device"})
  /\ LET rs == IF Waits(R) THEN Closed(runs, R, "pending") ELSE [runs EXCEPT ![R] = Driven(@)] IN
     IF Clash(rs) THEN RolledBack
     ELSE /\ runs' = rs /\ Then(<< >>)
          /\ UNCHANGED <<batch, events, claims, alarms, signals>>
  /\ UNCHANGED <<steps, tx, upsets>>

(* No sample of this batch is covered by the step.                          *)
EnterUncovered ==
  /\ Entering({"device"}) /\ StepOf(R).skippable
  /\ runs' = Closed(runs, R, "skipped")
  /\ Then(<<Task("advance", R, 0, 0)>>)
  /\ UNCHANGED <<steps, batch, events, claims, alarms, signals, tx, upsets>>

(* A node the system cannot decide: it stays open, the batch is paused, an  *)
(* alarm asks for a person.                                                 *)
Hang(r, why) ==
  /\ batch' = NodePaused(batch, r, why)
  /\ alarms' = alarms \cup {<<"node", r>>}
  /\ Seeing("paused", << >>)
  /\ UNCHANGED <<steps, runs, events, claims, signals, tx, upsets>>

(* Samples or vessels for a split or a merge are missing, or their number   *)
(* cannot be read.                                                          *)
EnterSplitEmpty == Entering({"split", "merge"}) /\ Hang(R, "split")

EnterSplit ==
  /\ Entering({"split"})
  /\ IF StepOf(R).physical
     THEN Then(<< >>) /\ UNCHANGED runs
     ELSE runs' = Closed(runs, R, "completed") /\ Then(<<Task("advance", R, 0, 0)>>)
  /\ UNCHANGED <<steps, batch, events, claims, alarms, signals, tx, upsets>>

(* What a redo voids: the region's conclusions, kept as superseded rows.    *)
Voided(rs, region, states) ==
  [r \in DOMAIN rs |->
     IF rs[r].step \in region /\ rs[r].state \in states THEN [rs[r] EXCEPT !.state = "superseded"] ELSE rs[r]]

Irreversible(region) ==
  \E r \in Row : /\ Kind(r) = "split" /\ StepOf(r).physical /\ runs[r].state = "completed"
                 /\ runs[r].step \in region

GatePasses ==
  /\ Entering({"gate"})
  /\ runs' = Closed(runs, R, "completed")
  /\ Then(<<Task("advance", R, 0, 0)>>)
  /\ UNCHANGED <<steps, batch, events, claims, alarms, signals, tx, upsets>>

GateUndecided == Entering({"gate"}) /\ Hang(R, "gate")

Rounds_Mut(i) == Cardinality({r \in RowsOf(runs, i) : runs[r].state = "failed"})
Rounds(i) == Cardinality({r \in RowsOf(runs, i) : runs[r].state = "failed"}) + 1

GateFails ==
  /\ Entering({"gate"})
  /\ LET g == StepOf(R)
         region == LoopBody(steps, runs[R].step, g.reworkTo)
     IN \/ /\ g.onFail = "rework" /\ ~Irreversible(region)
           /\ Rounds(runs[R].step) <= g.maxRework
           /\ claims' = claims \cup {Once(R)}
           /\ runs' = [Voided(runs, region, {"completed", "not_taken"})
                         EXCEPT ![R].state = "failed", ![R].redo = TRUE]
           /\ Then(<<Task("open", 0, g.reworkTo, 0)>>)
           /\ UNCHANGED <<steps, batch, events, alarms, signals, tx, upsets>>
        \/ /\ g.onFail = "hold" \/ (g.onFail = "rework" /\ (Irreversible(region)
                                                            \/ Rounds(runs[R].step) > g.maxRework))
           /\ Hang(R, "gate")
        \/ /\ g.onFail = "scrap"
           /\ runs' = Closed(runs, R, "failed")
           /\ batch' = [Turned(batch, "fault") EXCEPT !.why = "scrap"]
           /\ alarms' = alarms \cup {<<"node", R>>}
           /\ Seeing("fault", << >>)
           /\ UNCHANGED <<steps, events, claims, signals, tx, upsets>>

(* A branch waits for a person, follows its reading (or the readings of the *)
(* samples), or has none that can be trusted.                               *)
BranchAsks ==
  /\ Entering({"branch"}) /\ StepOf(R).asks
  /\ Then(<< >>)
  /\ UNCHANGED <<steps, batch, runs, events, claims, alarms, signals, tx, upsets>>

BranchUndecided == Entering({"branch"}) /\ ~StepOf(R).asks /\ Hang(R, "branch")

LoopsDone(i, exit) ==
  Cardinality({r \in RowsOf(runs, i) : runs[r].exits = {exit} /\ runs[r].state \in {"completed", "superseded"}})

MayLoop(r, exit) ==
  /\ LoopsDone(runs[r].step, exit) < StepOf(r).maxLoops
  /\ ~Irreversible(LoopBody(steps, runs[r].step, LoopOf(StepOf(r), exit)))

(* The exit is taken: forward the flow advances, backward the body and the  *)
(* branch are voided and the target is opened anew.                         *)
Take(r, exit, Goes(_)) ==
  IF LoopOf(StepOf(r), exit) = 0
  THEN /\ runs' = [Closed(runs, r, "completed") EXCEPT ![r].exits = {exit}]
       /\ Goes(<<Task("advance", r, 0, 0)>>)
       /\ UNCHANGED claims
  ELSE LET to == LoopOf(StepOf(r), exit)
           body == LoopBody(steps, runs[r].step, to) \cup {runs[r].step}
       IN /\ runs' = Voided([runs EXCEPT ![r].state = "completed", ![r].exits = {exit}],
                            body, Resolved)
          /\ claims' = claims \cup {Once(r)}
          /\ Goes(<<Task("open", 0, to, 0)>>)

BranchTakes ==
  /\ Entering({"branch"}) /\ ~StepOf(R).asks /\ ~StepOf(R).perSample
  /\ \E exit \in Exits(StepOf(R)) :
       \/ /\ LoopOf(StepOf(R), exit) = 0 \/ MayLoop(R, exit)
          /\ Take(R, exit, Then)
          /\ UNCHANGED <<steps, batch, events, alarms, signals, tx, upsets>>
       \/ /\ LoopOf(StepOf(R), exit) # 0 /\ ~MayLoop(R, exit)
          /\ Hang(R, "branch")

BranchRoutes ==
  /\ Entering({"branch"}) /\ StepOf(R).perSample
  /\ \E exits \in SUBSET Exits(StepOf(R)) \ {{}} :
       runs' = [Closed(runs, R, "completed") EXCEPT ![R].exits = exits]
  /\ Then(<<Task("advance", R, 0, 0)>>)
  /\ UNCHANGED <<steps, batch, events, claims, alarms, signals, tx, upsets>>

-----------------------------------------------------------------------------
(* Advancing past an instance that has concluded.                           *)

(* Without a graph: the next step in the list that has not been concluded.  *)
NextOpen(from) ==
  LET open == {i \in DOMAIN steps : i > from /\ \A r \in RowsOf(runs, i) : runs[r].state \notin
                 (IF GraphMode(steps) THEN Resolved ELSE Passed)}
  IN IF open = {} THEN 0 ELSE CHOOSE i \in open : \A j \in open : i <= j

AdvanceLinear ==
  /\ LET next == NextOpen(runs[R].step) IN
     IF next = 0 /\ work.view # "running"
     THEN /\ batch' = [batch EXCEPT !.current = runs[R].step]
          /\ Then(<< >>) /\ UNCHANGED claims
     ELSE IF Once(R) \in claims
     THEN Then(<< >>) /\ UNCHANGED <<batch, claims>>
     ELSE /\ claims' = claims \cup {Once(R)}
          /\ IF next = 0
             THEN batch' = [Finished(batch) EXCEPT !.current = runs[R].step] /\ Seeing("done", << >>)
             ELSE Then(<<Task("open", 0, next, 0)>>) /\ UNCHANGED batch
  /\ UNCHANGED <<runs, events, alarms, signals>>

Epoch_Mut(rs, i) == 1
Epoch(rs, i) == 1 + Cardinality(RowsOf(rs, i))

(* All resolved: the batch ends, unless it is under somebody's control.     *)
FinishGraph(r) ==
  IF batch.state # "running" \/ Once(r) \in claims
  THEN UNCHANGED <<batch, claims>> /\ Seeing(batch.state, << >>)
  ELSE batch' = [batch EXCEPT !.state = "done"] /\ claims' = claims \cup {Once(r)} /\ Seeing("done", << >>)

(* With a graph: the batch is locked and everything read again; then the    *)
(* waiting devices are released, dead paths pruned, the frontier opened.    *)
AdvanceGraph ==
  LET rs == IF batch.state = "running" THEN Released(runs) ELSE runs
      f  == Frontier(steps, Status(rs), Chosen(rs))
      dead == Ordered({i \in f.prune : Joined(i, Epoch(rs, i)) \notin claims})
      open == Ordered(f.open)
  IN IF Clash(rs) THEN RolledBack
     ELSE /\ IF AllResolved(steps, Status(rs))
             THEN runs' = rs /\ FinishGraph(R)
             ELSE /\ runs' = rs \o [k \in DOMAIN dead |-> [NewRun(dead[k]) EXCEPT !.state = "not_taken"]]
                  /\ claims' = claims \cup {Joined(dead[k], Epoch(rs, dead[k])) : k \in DOMAIN dead}
                  /\ UNCHANGED batch
                  /\ Seeing(batch.state,
                       [k \in DOMAIN open |-> Task("open", 0, open[k], Epoch(rs, open[k]))]
                          \o <<[Task("tail", R, 0, 0) EXCEPT !.pruned = dead # << >>]>>)
          /\ UNCHANGED <<events, alarms, signals>>

(* Nothing follows from an instance of a batch that has ended.              *)
Advance ==
  /\ Todo("advance")
  /\ IF work.view \in Ended
     THEN Then(<< >>) /\ UNCHANGED <<batch, runs, events, claims, alarms, signals>>
     ELSE IF GraphMode(steps) THEN AdvanceGraph ELSE AdvanceLinear
  /\ UNCHANGED <<steps, tx, upsets>>

LeastStep(rs) == LET S == {rs[r].step : r \in OpenRows(rs)} IN CHOOSE i \in S : \A j \in S : i <= j
Synced(b) == IF OpenRows(runs) = {} THEN b ELSE [b EXCEPT !.current = LeastStep(runs)]

(* After the openings: the current step is the first that is open; if the   *)
(* last thing left was a dead path, the batch ends here.                    *)
AdvanceTail ==
  /\ Todo("tail")
  /\ IF /\ Head(agenda).pruned /\ ~Head(agenda).opened /\ AllResolved(steps, Status(runs))
        /\ work.view = "running" /\ Once(R) \notin claims
     THEN /\ batch' = Finished(Synced(batch)) /\ Seeing("done", << >>)
          /\ claims' = claims \cup {Once(R)}
     ELSE batch' = Synced(batch) /\ UNCHANGED claims /\ Then(<< >>)
  /\ UNCHANGED <<steps, runs, events, alarms, signals, tx, upsets>>

Agenda ==
  \/ OpenStep \/ EnterTodo \/ EnterAtOnce \/ EnterDevice \/ EnterUncovered \/ EnterSplitEmpty \/ EnterSplit
  \/ GatePasses \/ GateUndecided \/ GateFails
  \/ BranchAsks \/ BranchUndecided \/ BranchTakes \/ BranchRoutes
  \/ Advance \/ AdvanceTail

-----------------------------------------------------------------------------
(* Events and the transactions that process them.                           *)

(* A request emits and processes at once, the advancer claims what is       *)
(* pending: either way the row of the step is locked and the batch read     *)
(* without a lock.                                                          *)
Begin(e) ==
  /\ Quiet /\ ~Locked(e.run)
  /\ e.state = "pending"
  /\ events' = (events \ {e}) \cup {[e EXCEPT !.state = "processing"]}
  /\ tx' = tx \cup {[type |-> e.type, run |-> e.run, seen |-> batch.state]}
  /\ UNCHANGED <<steps, batch, runs, claims, alarms, signals, agenda, work, upsets>>

Settled_Mut(e, v) == events
EventOf(t) == CHOOSE e \in events : e.type = t.type /\ e.run = t.run
Settled(e, v) == (events \ {e}) \cup {[e EXCEPT !.state = v]}

Target(e) ==
  CASE e.type \in {"manual_submit", "wait_due", "signal"} -> "completed"
    [] e.type = "timeout"         -> IF e.arg = "fail" THEN "failed" ELSE "skipped"
    [] e.type = "device_ack"      -> IF e.arg = "done" THEN "completed" ELSE "failed"
    [] e.type = "review_decision" -> IF e.arg = "approved" THEN "completed" ELSE "failed"

Stuck(t) == IF runs[t.run].state \in Undecided /\ t.seen \notin {"done", "aborted"} THEN {<<"stuck", t.run>>} ELSE {}

Refused(e, t) ==
  /\ events' = Settled(e, "rejected")
  /\ alarms' = alarms \cup Stuck(t)
  /\ UNCHANGED <<steps, batch, runs, claims, signals, agenda, work, upsets>>

(* The savepoint: refused half way, the event is rejected and nothing else  *)
(* is left of it.                                                           *)
Processing(t, tasks) == Opens(t.seen, tasks, Settled(EventOf(t), "rejected"), alarms \cup Stuck(t))

(* A rejected review reopens the nearest manual step upstream; with devices *)
(* only upstream the batch is held.                                         *)
Returned(r, t) ==
  LET back == NearestManual(steps, runs[r].step) IN
  IF back = 0
  THEN /\ batch' = [batch EXCEPT !.state = IF t.seen = "paused" THEN @ ELSE "paused", !.why = "review"]
       /\ runs' = Closed(runs, r, "failed") /\ UNCHANGED <<claims, agenda, work>>
  ELSE /\ claims' = claims \cup {Once(r)}
       /\ runs' = [Closed(runs, r, "failed") EXCEPT ![r].redo = TRUE]
       /\ Processing(t, <<Task("open", 0, back, 0)>>)
       /\ UNCHANGED batch

Apply(t) ==
  /\ Quiet /\ t \in tx /\ tx' = tx \ {t}
  /\ LET e == EventOf(t)  r == t.run  target == Target(e) IN
     IF ~CanTransition(Kind(r), runs[r].state, target) THEN Refused(e, t)
     ELSE /\ events' = Settled(e, "processed")
          /\ alarms' = alarms \ (IF e.type = "timeout" THEN {} ELSE {<<"timeout", r>>})
          /\ CASE target = "failed" /\ e.type = "review_decision" -> Returned(r, t)
               [] target = "failed" /\ e.type # "review_decision" ->
                    /\ runs' = Closed(runs, r, "failed")
                    /\ batch' = [batch EXCEPT !.state = IF t.seen = "fault" THEN @ ELSE "fault",
                                             !.why = "failed", !.current = runs[r].step]
                    /\ UNCHANGED <<claims, agenda, work>>
               [] OTHER ->
                    /\ runs' = Closed(runs, r, target)
                    /\ Processing(t, <<Task("advance", r, 0, 0)>>)
                    /\ UNCHANGED <<batch, claims>>
          /\ UNCHANGED <<steps, signals, upsets>>

(* Anything but a refusal of the rules is tried again later, up to a limit. *)
Retry(t) ==
  /\ Quiet /\ t \in tx /\ tx' = tx \ {t} /\ Upset
  /\ LET e == EventOf(t)  n == e.tries + 1 IN
     IF n >= MaxTries
     THEN /\ events' = (events \ {e}) \cup {[e EXCEPT !.state = "rejected", !.tries = n]}
          /\ alarms' = alarms \cup Stuck(t)
     ELSE /\ events' = (events \ {e}) \cup {[e EXCEPT !.state = "pending", !.tries = n]}
          /\ UNCHANGED alarms
  /\ UNCHANGED <<steps, batch, runs, claims, signals, agenda, work>>

(* The process dies in the middle: the row lock is gone, the claim stays.   *)
Crash(t) ==
  /\ Quiet /\ t \in tx /\ tx' = tx \ {t} /\ Upset
  /\ UNCHANGED <<steps, batch, runs, events, claims, alarms, signals, agenda, work>>

(* A claim that has lasted too long is queued again, whether its process    *)
(* died or is merely slow.                                                  *)
Requeue(e) ==
  /\ Quiet /\ e \in events /\ e.state = "processing"
  /\ IF \E t \in tx : t.run = e.run /\ t.type = e.type THEN Upset ELSE UNCHANGED upsets
  /\ events' = Settled(e, "pending")
  /\ UNCHANGED <<steps, batch, runs, claims, alarms, signals, tx, agenda, work>>

-----------------------------------------------------------------------------
(* What concludes a step from outside.                                      *)

SubmitManual(r) ==
  /\ Quiet /\ Kind(r) = "manual" /\ ~Locked(r)
  /\ runs[r].state \in Undecided /\ batch.state \notin {"fault", "aborting", "aborted"}
  /\ events' = Emit(events, "manual_submit", r, "")
  /\ UNCHANGED <<steps, batch, runs, claims, alarms, signals, tx, agenda, work, upsets>>

DecideReview(r) ==
  /\ Quiet /\ Kind(r) = "review" /\ ~Locked(r) /\ runs[r].state \in Undecided
  /\ \/ events' = Emit(events, "review_decision", r, "approved") /\ UNCHANGED upsets
     \/ events' = Emit(events, "review_decision", r, "rejected") /\ Upset
  /\ UNCHANGED <<steps, batch, runs, claims, alarms, signals, tx, agenda, work>>

(* What was refused before keeps its event, and whoever submits again only  *)
(* has that one processed once more, with what it said the first time.      *)
Resubmit(e) ==
  /\ Quiet /\ ~Locked(e.run)
  /\ e.state = "rejected" /\ e.type \in {"manual_submit", "review_decision"}
  /\ runs[e.run].state \in Undecided
  /\ e.type = "manual_submit" => batch.state \notin {"fault", "aborting", "aborted"}
  /\ tx' = tx \cup {[type |-> e.type, run |-> e.run, seen |-> batch.state]}
  /\ UNCHANGED <<steps, batch, runs, events, claims, alarms, signals, agenda, work, upsets>>

WaitDue(r) ==
  /\ Quiet /\ Kind(r) = "wait" /\ StepOf(r).event = "" /\ runs[r].state = "waiting"
  /\ events' = Emit(events, "wait_due", r, "")
  /\ UNCHANGED <<steps, batch, runs, claims, alarms, signals, tx, agenda, work, upsets>>

(* A missed deadline raises an alarm and, as configured, fails or skips the *)
(* step; a device step is never failed this way.                            *)
Timeout(r) ==
  /\ Quiet /\ StepOf(r).timeout # "none" /\ ~runs[r].late /\ runs[r].state \in Undecided
  /\ ~Locked(r) /\ Upset
  /\ runs' = [runs EXCEPT ![r].late = TRUE]
  /\ IF batch.state \in {"done", "aborted"} THEN UNCHANGED <<events, alarms>>
     ELSE /\ alarms' = alarms \cup {<<"timeout", r>>}
          /\ events' = IF StepOf(r).timeout = "skip" \/ (StepOf(r).timeout = "fail" /\ Kind(r) # "device")
                       THEN Emit(events, "timeout", r, StepOf(r).timeout) ELSE events
  /\ UNCHANGED <<steps, batch, claims, signals, tx, agenda, work>>

WaitsFor(name) ==
  {r \in Row : /\ Kind(r) = "wait" /\ StepOf(r).event = name
               /\ runs[r].state = "waiting" /\ runs[r].signal = ""}

(* The first waiting instance consumes the signal; without one it is kept.  *)
(* A signal sent twice has the same identifier and is not received again.   *)
Signal(s, name) ==
  /\ Quiet /\ s \notin DOMAIN signals /\ batch.state \notin {"done", "aborted"}
  /\ LET first == {r \in WaitsFor(name) : \A q \in WaitsFor(name) : r <= q}
         by == IF first = {} THEN 0 ELSE CHOOSE r \in first : TRUE
     IN /\ by # 0 => ~Locked(by)
        /\ signals' = [x \in DOMAIN signals \cup {s} |->
                         IF x = s THEN [name |-> name, by |-> by] ELSE signals[x]]
        /\ IF by = 0 THEN UNCHANGED <<runs, events>>
           ELSE runs' = [runs EXCEPT ![by].signal = s] /\ events' = Emit(events, "signal", by, "")
  /\ UNCHANGED <<steps, batch, claims, alarms, tx, agenda, work, upsets>>

(* The device side: delivery, the receipt, a failure established by the     *)
(* executor or on the spot, a hold that is confirmed or does not arrive.    *)
Deliver(r) ==
  /\ Quiet /\ runs[r].dev = "queued" /\ batch.state = "running" /\ ~Locked(r)
  /\ runs' = [runs EXCEPT ![r].dev = "acting", ![r].state = IF @ = "ready" THEN "running" ELSE @]
  /\ UNCHANGED <<steps, batch, events, claims, alarms, signals, tx, agenda, work, upsets>>

AllStopped(rs) == \A r \in DOMAIN rs : rs[r].dev \notin Live
Concluded(rs) == IF batch.state = "aborting" /\ AllStopped(rs) THEN [batch EXCEPT !.state = "aborted"] ELSE batch

DeviceDone(r) ==
  /\ Quiet /\ runs[r].dev \in {"acting", "holding"}
  /\ runs' = [runs EXCEPT ![r].dev = "over"]
  /\ events' = Emit(events, "device_ack", r, "done")
  /\ batch' = Concluded(runs')
  /\ UNCHANGED <<steps, claims, alarms, signals, tx, agenda, work, upsets>>

DeviceFails(r) ==
  /\ Quiet /\ runs[r].dev \in {"acting", "holding"} /\ Upset
  /\ runs' = [runs EXCEPT ![r].dev = "over"]
  /\ events' = Emit(events, "device_ack", r, "failed")
  /\ batch' = IF batch.state \in Ended THEN Concluded(runs')
              ELSE [batch EXCEPT !.state = "fault", !.why = "failed", !.current = runs[r].step]
  /\ UNCHANGED <<steps, claims, alarms, signals, tx, agenda, work>>

HoldConfirmed(r) ==
  /\ Quiet /\ runs[r].dev = "holding"
  /\ runs' = [runs EXCEPT ![r].dev = "held"]
  /\ UNCHANGED <<steps, batch, events, claims, alarms, signals, tx, agenda, work, upsets>>

AbortConfirmed(r) ==
  /\ Quiet /\ batch.state = "aborting" /\ runs[r].dev \in Live
  /\ runs' = [runs EXCEPT ![r].dev = "over"]
  /\ batch' = Concluded(runs')
  /\ UNCHANGED <<steps, events, claims, alarms, signals, tx, agenda, work, upsets>>

-----------------------------------------------------------------------------
(* The operator (and QA).  A request that writes rows of steps waits for    *)
(* the transactions that hold them.                                         *)

Free == Quiet /\ \A r \in OpenRows(runs) : ~Locked(r)

Start ==
  /\ Quiet /\ batch.state = "scheduled"
  /\ LET first == IF GraphMode(steps) THEN Ordered(Frontier(steps, << >>, << >>).open)
                                      ELSE <<1>>
     IN Request("running", [k \in DOMAIN first |-> Task("open", 0, first[k], IF GraphMode(steps) THEN 1 ELSE 0)]
                           \o <<Task("tail", 0, 0, 0)>>)
  /\ batch' = [batch EXCEPT !.state = "running"]
  /\ UNCHANGED <<steps, runs, events, claims, alarms, signals, tx, upsets>>

OthersHeld(r) ==
  \E q \in Row \ {r} : /\ <<"node", q>> \in alarms /\ runs[q].state = "ready"
                       /\ Kind(q) \in {"gate", "branch", "split"}

Restored(b) == [b EXCEPT !.state = "running", !.why = ""]

(* QA decides a gate that waits.  The batch runs again when this gate is    *)
(* what it was held for.                                                    *)
DecideGate(r) ==
  /\ Free /\ Kind(r) = "gate" /\ runs[r].state = "ready" /\ batch.state \notin Ended
  /\ alarms' = alarms \ {<<"node", r>>}
  /\ \/ LET heldHere == /\ batch.state = "paused" /\ batch.why = "gate" /\ ~batch.note
                        /\ \A q \in Row : runs[q].dev # "held"
                        /\ ~OthersHeld(r)
        IN /\ runs' = Closed(runs, r, "completed")
           /\ batch' = IF heldHere THEN Restored(batch) ELSE batch
           /\ Request(batch'.state, <<Task("advance", r, 0, 0)>>)
           /\ UNCHANGED upsets
     \/ /\ Upset
        /\ runs' = Closed(runs, r, "failed")
        /\ batch' = [batch EXCEPT !.state = "fault", !.why = "scrap"]
        /\ UNCHANGED <<agenda, work>>
  /\ UNCHANGED <<steps, events, claims, signals, tx>>

(* A person chooses the exit of a branch that asks for it, or that could    *)
(* not decide by itself and holds the batch.                                *)
DecideBranch(r) ==
  /\ Free /\ Kind(r) = "branch" /\ runs[r].state = "ready"
  /\ LET held == batch.state = "paused" /\ batch.why = "branch"
         b == IF held /\ ~OthersHeld(r) THEN Restored(batch) ELSE batch
     IN /\ batch.state = "running" \/ held
        /\ alarms' = IF held THEN alarms \ {<<"node", r>>} ELSE alarms
        /\ batch' = b
        /\ IF StepOf(r).perSample
           THEN \E exits \in SUBSET Exits(StepOf(r)) \ {{}} :
                  /\ runs' = [Closed(runs, r, "completed") EXCEPT ![r].exits = exits]
                  /\ Request(b.state, <<Task("advance", r, 0, 0)>>) /\ UNCHANGED claims
           ELSE \E exit \in Exits(StepOf(r)) :
                  /\ LoopOf(StepOf(r), exit) = 0 \/ MayLoop(r, exit)
                  /\ Take(r, exit, LAMBDA tasks : Request(b.state, tasks))
  /\ UNCHANGED <<steps, events, signals, tx, upsets>>

ConfirmSplit(r) ==
  /\ Free /\ Kind(r) = "split" /\ StepOf(r).physical /\ runs[r].state = "ready"
  /\ batch.state = "running"
  /\ runs' = Closed(runs, r, "completed")
  /\ Request("running", <<Task("advance", r, 0, 0)>>)
  /\ UNCHANGED <<steps, batch, events, claims, alarms, signals, tx, upsets>>

ClearAlarm(a) ==
  /\ Quiet /\ a \in alarms /\ alarms' = alarms \ {a}
  /\ UNCHANGED <<steps, batch, runs, events, claims, signals, tx, agenda, work, upsets>>

Withdrawn(rs) == [r \in DOMAIN rs |-> IF rs[r].dev = "queued" THEN [rs[r] EXCEPT !.dev = "none"] ELSE rs[r]]

(* A device that cannot be stopped is refused by Execution; here every      *)
(* device step may be held.                                                 *)
Hold ==
  /\ Quiet /\ batch.state = "running" /\ Upset
  /\ runs' = [r \in Row |-> IF runs[r].dev = "acting" THEN [runs[r] EXCEPT !.dev = "holding"]
                            ELSE Withdrawn(runs)[r]]
  /\ batch' = [batch EXCEPT !.state = "paused", !.note = TRUE,
                            !.current = IF Acting = {} THEN @ ELSE runs[CHOOSE r \in Acting : \A q \in Acting : r <= q].step]
  /\ UNCHANGED <<steps, events, claims, alarms, signals, tx, agenda, work>>

FirstOpen(S) == {r \in S : \A q \in S \ {r} : Before(runs, r, q)}     \* one element, or none

Reissued(row) ==
  [row EXCEPT !.state = IF steps[row.step].kind = "wait" THEN "waiting" ELSE "ready",
              !.dev = IF steps[row.step].kind = "device" THEN "queued" ELSE @]

(* A device step that goes on takes over from the action of its step that   *)
(* is held.                                                                 *)
GoOn(rs, S) ==
  [q \in DOMAIN rs |->
     IF q \in S THEN Reissued(rs[q])
     ELSE IF rs[q].dev = "held" /\ \E r \in S : rs[r].step = rs[q].step THEN [rs[q] EXCEPT !.dev = "over"]
     ELSE rs[q]]

(* The other device branches that the hold stopped, or that were withdrawn; *)
(* of those that wait for a plate, the first of each plate that is free.    *)
OthersResumed(rs, main) ==
  LET others == {r \in DOMAIN rs \ {main} : /\ steps[rs[r].step].kind = "device"
                                            /\ rs[r].dev \notin {"queued", "acting"}}
      waiting == {r \in others : rs[r].state = "pending" /\ ~PlateBusy(rs, r)}
      go == {r \in others : rs[r].state \in {"ready", "running"}} \cup FirstOnPlate(rs, waiting)
  IN IF GraphMode(steps) THEN GoOn(rs, go) ELSE rs

Complete(rs) ==
  /\ OpenRows(rs) = {} /\ rs # << >>
  /\ IF GraphMode(steps) THEN AllResolved(steps, Status(rs)) ELSE NextOpen(0) = 0

(* What a retry voids; an instance that waits to be driven is left as it is. *)
GivenUp_Mut(row) == IF row.state = "running" THEN [row EXCEPT !.state = "superseded", !.dev = "over"] ELSE row
GivenUp(row) ==
  IF row.state \in {"ready", "running"} THEN [row EXCEPT !.state = "superseded", !.dev = "over"] ELSE row

(* Recovery goes on with the step that caused it, with another that can go  *)
(* on, or opens one; a flow with nothing left ends.                         *)
Recover(strategy) ==
  /\ Free /\ batch.state \in {"paused", "fault"} /\ alarms = {} /\ Upset
  /\ \A r \in Row : runs[r].dev # "holding"
  /\ steps[batch.current].kind = "device" \/ (strategy = "resume" /\ Complete(runs))
  /\ strategy = "retry" => Acting = {}
  /\ LET open == OpenRows(runs)
         done == {runs[r].step : r \in {r \in Row : runs[r].state = "completed"}}
         tried == {runs[r].step : r \in {r \in Row : runs[r].state \notin {"completed"} \cup Void}}
         own == FirstOpen({r \in open : runs[r].step = batch.current})
         main == IF ~GraphMode(steps) \/ (own = {} /\ batch.current \in done) THEN FirstOpen(open) ELSE own
         ready == IF GraphMode(steps) /\ main = {} /\ batch.current \in done
                  THEN ReadyAfter(steps, done, tried) ELSE {}
         current == IF ready = {} THEN batch.current ELSE CHOOSE i \in ready : \A j \in ready : i <= j
         pending == GraphMode(steps) /\ main = {} /\ current \notin done
         next == NextOpen(0)
         b == [Restored(batch) EXCEPT !.note = FALSE, !.current = current]
         left == {r \in main : strategy = "retry" /\ runs[r].state \notin {"ready", "running"}}
         End(rs, i) ==
           LET r == Len(rs) + 1 IN
           /\ \E s \in Takes(i) :
                /\ runs' = OthersResumed(GoOn(Append(rs, [NewRun(i) EXCEPT !.signal = s]), {r}), r)
                /\ Taken(s, r)
           /\ batch' = [b EXCEPT !.current = i, !.left = @ \cup left]
     IN CASE main = {} /\ strategy # "retry" /\ ~pending ->
               IF next = 0 THEN batch' = [b EXCEPT !.state = "done"] /\ UNCHANGED <<runs, events, signals>>
               ELSE End(runs, next)
          [] strategy = "retry" \/ (main = {} /\ pending) ->
               End([r \in Row |-> IF r \in main THEN GivenUp(runs[r]) ELSE runs[r]], current)
          [] OTHER ->
               LET m == CHOOSE r \in main : TRUE IN
               /\ runs' = OthersResumed(IF runs[m].dev = "acting" THEN runs ELSE GoOn(runs, {m}), m)
               /\ batch' = b /\ UNCHANGED <<events, signals>>
  /\ ~Clash(runs')
  /\ UNCHANGED <<steps, claims, alarms, tx, agenda, work>>

(* A step the method allows to skip: as it waits, or after its failure as a *)
(* new instance.                                                            *)
Skip(i) ==
  /\ Free /\ batch.state \in {"running", "paused", "fault"} /\ steps[i].skippable /\ Upset
  /\ LET live == {r \in RowsOf(runs, i) : runs[r].state \notin Void} IN
     /\ live # {}
     /\ LET r == Largest(live) IN
        /\ runs[r].state \notin Resolved
        /\ runs[r].dev \in {"none", "queued"} \/ (runs[r].state = "failed" /\ runs[r].dev = "over")
        /\ IF runs[r].state \in Undecided
           THEN /\ runs' = [runs EXCEPT ![r].state = "skipped", ![r].dev = "none"]
                /\ Request("running", <<Task("advance", r, 0, 0)>>)
                /\ batch' = IF batch.state = "running" THEN batch ELSE [Restored(batch) EXCEPT !.note = FALSE]
           ELSE /\ runs' = Append(runs, [NewRun(i) EXCEPT !.state = "skipped"])
                /\ Request("running", <<Task("advance", Len(runs) + 1, 0, 0)>>)
                /\ batch' = [(IF batch.state = "running" THEN batch ELSE [Restored(batch) EXCEPT !.note = FALSE])
                               EXCEPT !.current = i]
  /\ UNCHANGED <<steps, events, claims, alarms, signals, tx>>

(* The steps the evaluation offers to redo from; the request itself does    *)
(* not insist on them.                                                      *)
RerunTargets == {i \in DOMAIN steps : i \in Ancestors(steps, batch.current) \cup {batch.current}}

(* The step and all that follows from it are voided and the step is opened  *)
(* and entered anew.                                                        *)
RerunFrom(i) ==
  /\ Free /\ batch.state \in {"paused", "fault"} /\ Upset
  /\ \A r \in Row : runs[r].dev \notin {"acting", "holding", "held"}
  /\ LET scope == {i} \cup Descendants(steps, i)
         In(r) == runs[r].step \in scope
     IN /\ runs' = [r \in Row |->
                      IF In(r) /\ runs[r].state \in Undecided
                      THEN [runs[r] EXCEPT !.state = "cancelled", !.dev = IF @ = "queued" THEN "none" ELSE @]
                      ELSE IF In(r) /\ runs[r].state \in Resolved \cup {"failed"}
                      THEN [runs[r] EXCEPT !.state = "superseded"] ELSE runs[r]]
        /\ batch' = [Restored(batch) EXCEPT !.note = FALSE, !.current = i, !.redone = @ \cup scope]
  /\ Request("running", <<Task("open", 0, i, 0)>>)
  /\ UNCHANGED <<steps, events, claims, alarms, signals, tx>>

Abort ==
  /\ Free /\ batch.state \in {"scheduled", "running", "paused", "fault"} /\ Upset
  /\ LET closed == [r \in Row |-> IF r \in OpenRows(runs) THEN [runs[r] EXCEPT !.state = "cancelled"] ELSE runs[r]]
     IN /\ runs' = Withdrawn(closed)
        /\ batch' = [batch EXCEPT !.state = IF AllStopped(Withdrawn(closed)) THEN "aborted" ELSE "aborting"]
  /\ events' = {[e EXCEPT !.state = IF @ = "pending" THEN "rejected" ELSE @] : e \in events}
  /\ UNCHANGED <<steps, claims, alarms, signals, tx, agenda, work>>

-----------------------------------------------------------------------------

Advancer ==
  \/ \E e \in events : Begin(e) \/ Requeue(e)
  \/ \E t \in tx : Apply(t) \/ Retry(t) \/ Crash(t)
  \/ \E r \in Row : WaitDue(r) \/ Timeout(r)

People ==
  \/ Start \/ Hold \/ Abort
  \/ \E r \in Row : SubmitManual(r) \/ DecideReview(r) \/ DecideGate(r) \/ DecideBranch(r) \/ ConfirmSplit(r)
  \/ \E e \in events : Resubmit(e)
  \/ \E s \in Signals, i \in DOMAIN steps : steps[i].event # "" /\ Signal(s, steps[i].event)
  \/ \E a \in alarms : ClearAlarm(a)
  \/ \E strategy \in {"resume", "retry"} : Recover(strategy)
  \/ \E i \in DOMAIN steps : Skip(i)
  \/ \E i \in RerunTargets : RerunFrom(i)

Devices == \E r \in Row : Deliver(r) \/ DeviceDone(r) \/ DeviceFails(r) \/ HoldConfirmed(r) \/ AbortConfirmed(r)

Next == Agenda \/ Advancer \/ People \/ Devices

Spec == Init /\ [][Next]_vars

(* The advancer's thread keeps running: a transaction that writes is worked *)
(* off, what is pending is taken, what was taken is finished, and what a    *)
(* dead process had claimed is queued again.                                *)
FairSpec ==
  /\ Spec
  /\ []<>Quiet
  /\ WF_vars(\E e \in events : Begin(e))
  /\ WF_vars(\E t \in tx : Apply(t))
  /\ WF_vars(\E e \in events : Requeue(e) /\ \A t \in tx : ~(t.run = e.run /\ t.type = e.type))

-----------------------------------------------------------------------------

(* Every variable has the type the columns of the tables give it.           *)
TypeOK ==
  /\ batch.state \in {"scheduled", "running", "paused", "fault", "aborting", "aborted", "done"}
  /\ batch.current \in DOMAIN steps
  /\ \A r \in Row : /\ runs[r].step \in DOMAIN steps
                    /\ runs[r].state \in Undecided \cup Resolved \cup Void \cup {"failed"}
                    /\ runs[r].dev \in Live \cup {"none", "over"}
  /\ \A e \in events : e.run \in Row /\ e.state \in {"pending", "processing", "processed", "rejected"}
  /\ \A t \in tx : t.run \in Row
  /\ \A s \in DOMAIN signals : signals[s].by \in 0..Len(runs)

(* Two instances of a step are never under way at once, however many        *)
(* predecessors, retries, reworks and redos ask for it (open_step,          *)
(* StepAdvance, recover).                                                   *)
OneAttemptUnderWay ==
  Quiet => \A r, q \in OpenRows(runs) :
             runs[r].step = runs[q].step /\ "pending" \notin {runs[r].state, runs[q].state} => r = q

(* Nothing that may be opened is left behind: when a flow with a graph runs *)
(* and no transaction is under way, every step whose premises are settled   *)
(* has been opened or pruned, although the premises are settled by          *)
(* transactions that do not see one another (_advance_graph).               *)
NothingLeftBehind ==
  (Quiet /\ batch.state = "running" /\ GraphMode(steps) /\ runs # << >>) =>
    LET f == Frontier(steps, Status(runs), Chosen(runs)) IN f.open = {} /\ f.prune = {}

(* A batch is done when every step has a conclusion; nothing of it is under *)
(* way any more, but for an action that a recovery repeats on an instance   *)
(* whose receipt was on its way, and for an instance that a retry left      *)
(* waiting (finish_batch, recover).                                         *)
DoneMeansResolved ==
  (Quiet /\ batch.state = "done") =>
    /\ IF GraphMode(steps) THEN \A i \in DOMAIN steps : StatusOf(Status(runs), i) \in Resolved
       ELSE NextOpen(0) = 0
    /\ OpenRows(runs) \subseteq batch.left
    /\ \A r \in Row \ batch.left : runs[r].dev \in Live => runs[r].state \in Resolved

(* Work is done on the chosen path and nowhere else, unless a person redoes *)
(* a step: a step that counts has an edge the branches have taken, a step   *)
(* that was not taken has none (frontier, _prune, _loop_back).              *)
OnPath(i) ==
  LET edges == {EdgeOf(steps, Status(runs), Chosen(runs), p, i) : p \in Predecessors(steps, i)} IN
  edges = {} \/ (IF Status(runs)[i] = "not_taken" THEN edges = {"dead"} ELSE "active" \in edges)
PathIsChosen ==
  (Quiet /\ GraphMode(steps)) => \A i \in DOMAIN Status(runs) \ batch.redone : OnPath(i)

(* A signal wakes one waiting step, and no step waits for a signal that has *)
(* come and woken nobody (signal, _consume_early_signal).                   *)
NoMissedSignal ==
  Quiet =>
    /\ \A s, u \in DOMAIN signals : signals[s].by = signals[u].by /\ signals[s].by # 0 => s = u
    /\ \A s \in DOMAIN signals : signals[s].by = 0 => WaitsFor(signals[s].name) = {}

(* A conclusion is never rewritten: what a person or a device concluded is  *)
(* only ever marked as void (can_transition, VOID_STATES); a transaction    *)
(* that is refused leaves what it found.                                    *)
ConclusionsStand ==
  [][(work # << >> /\ runs' = work.runs) \/ \A r \in Row :
       runs[r].state \notin Undecided /\ r \in DOMAIN runs' =>
         runs'[r].state \in {runs[r].state, "superseded"}]_vars

(* Every event is processed or refused in the end, although processing may  *)
(* fail and the process may die between claim and conclusion                *)
(* (process_pending, requeue of stale claims).                              *)
EventsSettle == []<>(\A e \in events : e.state \in {"processed", "rejected"})

(* What the code says of decide_gate: another branch's fault and the        *)
(* operator's hold are not lifted by deciding a node.                       *)
DecisionLiftsOwnHoldOnly ==
  [][(Quiet /\ batch.note /\ batch.state = "paused" /\ batch'.note) => batch'.state # "running"]_vars

(* What the code says of a retry: the old instance is void and the new one  *)
(* goes on, so that no device acts for an instance of a step that a later   *)
(* one has completed.                                                       *)
RetryReplaces ==
  \A r, q \in Row : (r < q /\ runs[r].step = runs[q].step /\ runs[q].state = "completed") =>
    runs[r].dev # "acting"

(* What the code says of recovery: it never opens the device steps of a     *)
(* path that was not chosen.                                                *)
UnchosenPathStaysShut ==
  (Quiet /\ GraphMode(steps)) =>
    \A r \in Row : runs[r].dev = "acting" /\ runs[r].step \in DOMAIN Status(runs) => OnPath(runs[r].step)
=============================================================================
