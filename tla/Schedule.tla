------------------------------ MODULE Schedule ------------------------------
(***************************************************************************)
(* The station timeline (api/app/services/schedule_service.py and          *)
(* reschedule_service.py): batches are scheduled, unscheduled, optimized   *)
(* together, replanned in part, moved with the real progress and held, and *)
(* replanning proposals are made, applied or dismissed.  Every plan is     *)
(* the planner's (module Planner); every writing request takes the         *)
(* schedule lock and reads the timeline behind it, so a write is one step. *)
(* What a request read BEFORE it waited for the lock is the batch row: it  *)
(* may act on a batch state that is no longer true.                        *)
(***************************************************************************)
EXTENDS Planner

CONSTANTS
    Batch, Recipe,      \* the batches and the steps of each
    Roles,              \* batch -> labware roles bound to it
    Rank,               \* station -> its place in the order of names
    Priority,           \* batch -> priority
    Fragile,            \* stations that may go into maintenance
    Early, Grace,       \* early_start_tolerance_min, realign_grace_min
    MaxNow,             \* bound of the clock
    MaxPlans, MaxTroubles \* bounds: planning requests, troubles and failures

VARIABLES
    now,
    state,      \* batch -> planned, scheduled, running, paused, done
    begins,     \* batch -> planned_start_at
    alloc,      \* the windows
    run,        \* batch -> step -> new, open, done, skipped
    ended,      \* batch -> step -> when it ended
    heldAt,     \* batch -> when it was held
    down,       \* stations in maintenance
    proposal,   \* the replanning proposal, or None
    waiting,    \* the request that waits for the lock with the state it read
    told,       \* pairs of batches whose overlap was reported
    fresh,      \* what the last step planned: [b, steps]
    plans, troubles

hvars == <<now, state, begins, alloc, run, ended, heldAt, down, proposal, waiting, told, fresh, plans, troubles>>

Steps(b) == DOMAIN Recipe[b]
Of(rows, b) == {r \in rows : r.b = b}
Live == {b \in Batch : state[b] # "done"}
WorkRow(b, i) == {r \in alloc : r.b = b /\ r.i = i /\ r.k = Work}
NothingFresh == [b |-> None, steps |-> {}]

Init ==
    /\ now = 0
    /\ state = [b \in Batch |-> "planned"] /\ begins = [b \in Batch |-> 0]
    /\ alloc = {} /\ down = {} /\ told = {}
    /\ run = [b \in Batch |-> [i \in Steps(b) |-> "new"]]
    /\ ended = [b \in Batch |-> [i \in Steps(b) |-> 0]]
    /\ heldAt = [b \in Batch |-> 0]
    /\ proposal = None /\ waiting = None
    /\ fresh = NothingFresh /\ plans = 0 /\ troubles = 0

(***************************************************************************)
(* What every plan starts from                                             *)
(***************************************************************************)
\* Stations kept by a stopped batch: nobody knows when they are free.
HeldStations == {r.s : r \in {x \in alloc : state[x.b] = "paused" /\ x.k = Work /\ run[x.b][x.i] = "open"}}
Shut == HeldStations \cup down

\* The timeline of the live batches outside the set.
Busy(out) == {r \in alloc : r.b \in Live \ out}

Frozen(b) == {i \in Steps(b) : run[b][i] # "new"}

\* step_ends: when each step ends, as far as it can be told.
StepEnds(b) ==
    LET end[i \in Steps(b)] ==
            IF run[b][i] \in {"done", "skipped"} THEN ended[b][i]
            ELSE IF WorkRow(b, i) # {} THEN (CHOOSE r \in WorkRow(b, i) : TRUE).to
            ELSE Max({begins[b]} \cup {end[j] : j \in Recipe[b][i].pre}) + Recipe[b][i].dur
    IN  end

KnownTail_Mut(b, keep) == [ends |-> [i \in keep |-> now], where |-> [i \in keep |-> None], plate |-> <<>>]
\* _known_tail: ends, places and plates of the steps that are kept.
KnownTail(b, keep) ==
    LET ends == StepEnds(b)
        last(i) == CHOOSE j \in Recipe[b][i].pre \cap keep : \A k \in Recipe[b][i].pre \cap keep :
                       ends[k] < ends[j] \/ (ends[k] = ends[j] /\ k <= j)
        where[i \in keep] ==
            IF WorkRow(b, i) # {} THEN (CHOOSE r \in WorkRow(b, i) : TRUE).s
            ELSE IF Recipe[b][i].pre \cap keep = {} THEN None ELSE where[last(i)]
        on(role) == {i \in keep : Recipe[b][i].role = role /\ WorkRow(b, i) # {}}
        latest(role) == CHOOSE i \in on(role) : \A j \in on(role) : ends[j] < ends[i] \/ (ends[j] = ends[i] /\ i <= j)
        plate == [role \in {r \in Roles[b] : on(r) # {}} |-> [free |-> ends[latest(role)], at |-> where[latest(role)]]]
    IN  [ends |-> [i \in keep |-> ends[i]], where |-> where, plate |-> plate]

Problem(b, begin, shut) ==
    [b |-> b, steps |-> Recipe[b], begin |-> begin, roles |-> Roles[b], shut |-> shut, rank |-> Rank]

\* The steps of replan, planned into the timeline with the others kept.
Planned(b, begin, replan, busy, shut) ==
    PlanSteps(Problem(b, begin, shut), busy \cup {r \in Of(alloc, b) : r.i \notin replan},
              IF replan = Steps(b) THEN NoTail ELSE KnownTail(b, Steps(b) \ replan))

\* _overlaps and _asset_overloads: windows of two batches where the channels of
\* the station, or the capacity of the asset, are exceeded from time t on.
Load(rows, t) == SumU({r \in rows : r.from <= t /\ t < r.to})
Clashes(rows, t0) ==
    {pair \in {<<r, q>> \in rows \X rows :
                   r.b # q.b /\ AssetOf[r.s] = AssetOf[q.s] /\ r.from <= q.from /\ q.from < r.to /\ r.to > t0} :
        LET t == pair[2].from IN
        \/ pair[1].s = pair[2].s /\ Load({x \in rows : x.s = pair[1].s}, t) > Channels[pair[1].s]
        \/ Load(OnAsset(rows, AssetOf[pair[1].s]), t) > Capacity[AssetOf[pair[1].s]]}
Pairs(rows, b) == {{p[1].b, p[2].b} : p \in {q \in Clashes(rows, 0) : b \in {q[1].b, q[2].b}}}

\* _refuse_overlaps, and a booking it would run into.
Refused(rows, b) ==
    \/ Pairs({r \in rows : r.b \in Live}, b) # {}
    \/ \E r \in Of(rows, b) : PeakLoad(OnAsset({x \in rows : x.b \in Live}, AssetOf[r.s]), r.from, r.to) > Capacity[AssetOf[r.s]]

\* A batch whose roots are all replanned gets a new planned start.
StartsAnew(b, replan) == {i \in Steps(b) : Recipe[b][i].pre = {}} \subseteq replan

(***************************************************************************)
(* Requests of the dispatcher.  seen: the batch state the request read.    *)
(***************************************************************************)
PlanBudget == plans < MaxPlans /\ plans' = plans + 1
KeepRuns == UNCHANGED <<run, ended, heldAt, down, told, troubles>>

\* What a plan makes of the windows.
Adopted(b, replan, plan) == {r \in alloc : ~(r.b = b /\ r.i \in replan)} \cup plan.rows
Fit(plan, rows, b) == plan.err = None /\ ~Refused(rows, b)

\* schedule()
ScheduleBatch(b, seen) ==
    /\ seen \in {"planned", "scheduled"} /\ PlanBudget
    /\ \E plan \in {Planned(b, now, Steps(b), Busy({b}), Shut)} :
           /\ alloc' = Adopted(b, Steps(b), plan)
           /\ Fit(plan, alloc', b)
    /\ begins' = [begins EXCEPT ![b] = now]
    \* the column is written only where it differs from what was read
    /\ state' = IF seen = "scheduled" THEN state ELSE [state EXCEPT ![b] = "scheduled"]
    /\ fresh' = [b |-> b, steps |-> Steps(b)]
    /\ KeepRuns /\ UNCHANGED <<now, proposal>>

\* unschedule(): no schedule lock.
Unschedule(b, seen) ==
    /\ seen = "scheduled" /\ PlanBudget
    /\ alloc' = alloc \ Of(alloc, b)
    /\ state' = [state EXCEPT ![b] = "planned"] /\ begins' = [begins EXCEPT ![b] = 0]
    /\ fresh' = NothingFresh /\ KeepRuns /\ UNCHANGED <<now, proposal>>

\* apply_optimized(): the windows of all chosen batches are removed, then each
\* is scheduled in the confirmed order; one refusal undoes the whole request.
AddPlan(acc, b, plan) ==
    IF ~acc.ok \/ ~Fit(plan, acc.rows \cup plan.rows, b) THEN [acc EXCEPT !.ok = FALSE]
    ELSE [acc EXCEPT !.rows = @ \cup plan.rows]
ApplyOptimized(order) ==
    LET chosen == Range(order)
        step(acc, b) == AddPlan(acc, b, PlanSteps(Problem(b, now, Shut), {r \in acc.rows : r.b \in Live}, NoTail))
    IN  /\ \A b \in chosen : state[b] \in {"planned", "scheduled"}
        /\ PlanBudget
        /\ \E all \in {FoldLeft(step, [ok |-> TRUE, rows |-> {r \in alloc : r.b \notin chosen}], order)} :
               all.ok /\ alloc' = all.rows
        /\ state' = [b \in Batch |-> IF b \in chosen THEN "scheduled" ELSE state[b]]
        /\ begins' = [b \in Batch |-> IF b \in chosen THEN now ELSE begins[b]]
        /\ fresh' = NothingFresh /\ KeepRuns /\ UNCHANGED <<now, proposal>>

\* reschedule_from(): the steps from `from` on that have not been opened.
Kept_Mut(b, seen) == IF seen \in {"running", "paused"} THEN {i \in Frozen(b) : run[b][i] # "open"} ELSE {}
Kept(b, seen) == IF seen \in {"running", "paused"} THEN Frozen(b) ELSE {}

Reschedule(b, from, seen) ==
    LET replan == {i \in Steps(b) : i >= from} \ Kept(b, seen)
    IN  /\ seen # "done" /\ from \notin Kept(b, seen) /\ PlanBudget
        /\ \E plan \in {Planned(b, now, replan, Busy({b}), Shut)} :
               /\ alloc' = Adopted(b, replan, plan)
               /\ Fit(plan, alloc', b)
        /\ begins' = IF seen \in {"planned", "scheduled"} /\ StartsAnew(b, replan)
                     THEN [begins EXCEPT ![b] = now] ELSE begins
        /\ fresh' = [b |-> b, steps |-> replan]
        /\ KeepRuns /\ UNCHANGED <<now, state, proposal>>

\* A request reads the batch row and then waits for the lock.
Wait(b) ==
    /\ waiting = None /\ plans < MaxPlans /\ state[b] # "done"
    /\ waiting' = [b |-> b, seen |-> state[b]]
    /\ fresh' = NothingFresh
    /\ KeepRuns /\ UNCHANGED <<now, state, begins, alloc, proposal, plans>>

Locked ==
    /\ waiting # None /\ waiting' = None
    /\ \/ ScheduleBatch(waiting.b, waiting.seen)
       \/ Unschedule(waiting.b, waiting.seen)
       \/ \E i \in Steps(waiting.b) : Reschedule(waiting.b, i, waiting.seen)

GivesUp == waiting # None /\ waiting' = None /\ fresh' = NothingFresh
           /\ KeepRuns /\ UNCHANGED <<now, state, begins, alloc, proposal, plans>>

Request ==
    \/ waiting = None /\ UNCHANGED waiting
       /\ \E b \in Batch : \/ ScheduleBatch(b, state[b]) \/ Unschedule(b, state[b])
                           \/ \E i \in Steps(b) : Reschedule(b, i, state[b])
    \/ UNCHANGED waiting /\ \E order \in SetToSeqs(Batch) : ApplyOptimized(order)
    \/ \E b \in Batch : Wait(b)
    \/ Locked \/ GivesUp

(***************************************************************************)
(* Real progress                                                           *)
(***************************************************************************)
\* _realign_shifts: a successor moves at least as far as its predecessors in
\* range, and when moving up not before a predecessor out of range ends.
Descendants(b, i) ==
    LET into[j \in Steps(b)] == \E k \in Recipe[b][j].pre : k = i \/ into[k]
    IN  {j \in Steps(b) : into[j]}
Shifts(b, i, delay) ==
    LET moving == {i} \cup {j \in Descendants(b, i) : run[b][j] = "new"}
        ends   == StepEnds(b)
        starts(j) == IF WorkRow(b, j) # {} THEN (CHOOSE r \in WorkRow(b, j) : TRUE).from
                     ELSE ends[j] - Recipe[b][j].dur
        shift[j \in moving] ==
            IF j = i THEN delay
            ELSE Max({delay} \cup {shift[k] : k \in Recipe[b][j].pre \cap moving}
                     \cup IF delay < 0 THEN {ends[k] - starts(j) : k \in Recipe[b][j].pre \ moving} ELSE {})
    IN  shift
Shifted(b, shift) ==
    {IF r.b = b /\ r.i \in DOMAIN shift THEN [r EXCEPT !.from = @ + shift[r.i], !.to = @ + shift[r.i]] ELSE r : r \in alloc}

\* Clean windows another step of the same batch now works in.
Absorbed(rows, b) ==
    {c \in Of(rows, b) : c.k = "clean" /\ \E w \in Of(rows, b) :
         w.k \in {Work, "assist"} /\ w.s = c.s /\ w.i # c.i /\ Overlapping(w, c.from, c.to)}

Realigned_Mut(b, i) ==
    LET from == (CHOOSE r \in WorkRow(b, i) : TRUE).from
    IN  IF WorkRow(b, i) = {} \/ (now - from <= Grace /\ now - from >= -Early) THEN [rows |-> alloc, told |-> {}]
        ELSE [rows |-> Shifted(b, Shifts(b, i, now - from)), told |-> {}]

\* realign() when step i is opened: ahead of time the rest moves up if nothing
\* stands in the way, late it moves back and overlaps are reported.
OfLive(rows) == {r \in rows : r.b \in Live}
MovedUp(b, moved, kept) ==
    IF \/ Pairs(OfLive(moved), b) # {}
       \/ \E r \in Of(kept, b) : PeakLoad(OnAsset(OfLive(kept), AssetOf[r.s]), r.from, r.to) > Capacity[AssetOf[r.s]]
    THEN alloc ELSE kept
MovedTo(b, delay, moved) ==
    IF delay < 0 THEN [rows |-> MovedUp(b, moved, moved \ Absorbed(moved, b)), told |-> {}]
    ELSE [rows |-> moved, told |-> Pairs(OfLive(moved), b)]
Realigned(b, i) ==
    LET from  == (CHOOSE r \in WorkRow(b, i) : TRUE).from
        delay == now - from
    IN  IF WorkRow(b, i) = {} \/ (-Early <= delay /\ delay <= Grace) THEN [rows |-> alloc, told |-> {}]
        ELSE MovedTo(b, delay, Shifted(b, Shifts(b, i, delay)))

Ready(b, i) == run[b][i] = "new" /\ \A j \in Recipe[b][i].pre : run[b][j] \in {"done", "skipped"}

Open(b, i) ==
    /\ state[b] \in {"scheduled", "running"} /\ Ready(b, i)
    /\ state' = [state EXCEPT ![b] = "running"]
    /\ run' = [run EXCEPT ![b][i] = "open"]
    /\ \E r \in {Realigned(b, i)} : alloc' = r.rows /\ told' = told \cup r.told
    /\ fresh' = NothingFresh
    /\ UNCHANGED <<now, begins, ended, heldAt, down, proposal, waiting, plans, troubles>>

\* release_unused() when the device finished step i: what is left of its window
\* is given back and the clean window follows.
Released(b, i) ==
    {IF r.b # b \/ r.i # i THEN r
     ELSE IF r.k \in {Work, "assist"} /\ r.to > now
     THEN IF r.from < now THEN [r EXCEPT !.to = now] ELSE [r EXCEPT !.from = Max({now - 1, 0}), !.to = now]
     ELSE IF r.k = "clean" /\ r.from > now THEN [r EXCEPT !.from = now, !.to = now + (r.to - r.from)] ELSE r : r \in alloc}

\* The executor does not deliver before the window, less the tolerance.
Finish(b, i) ==
    /\ state[b] = "running" /\ run[b][i] = "open"
    /\ \A r \in WorkRow(b, i) : now > r.from - Early
    /\ run' = [run EXCEPT ![b][i] = "done"] /\ ended' = [ended EXCEPT ![b][i] = now]
    /\ alloc' = Released(b, i)
    /\ state' = IF \A j \in Steps(b) \ {i} : run[b][j] \in {"done", "skipped"} THEN [state EXCEPT ![b] = "done"] ELSE state
    /\ fresh' = NothingFresh
    /\ UNCHANGED <<now, begins, heldAt, down, proposal, waiting, told, plans, troubles>>

\* A branch is decided: step i is not taken, and roll_forward() replans what
\* has not been opened; a plan that does not fit leaves the windows (alarm).
Skip(b, i) ==
    LET taken  == [run EXCEPT ![b][i] = "skipped"]
        replan == {j \in Steps(b) : taken[b][j] = "new"}
    IN  /\ state[b] \in {"running", "paused"} /\ Ready(b, i) /\ Recipe[b][i].able # {}
        /\ replan # {} /\ plans < MaxPlans /\ plans' = plans + 1
        /\ run' = taken /\ ended' = [ended EXCEPT ![b][i] = now]
        /\ \E plan \in {PlanSteps(Problem(b, now, Shut), Busy({b}) \cup {r \in Of(alloc, b) : r.i \notin replan},
                                   KnownTail(b, Steps(b) \ replan))} :
           \E rolls \in {/\ \E j \in replan : Recipe[b][j].able # {}
                         /\ Fit(plan, Adopted(b, replan, plan), b)} :
               /\ alloc' = IF rolls THEN Adopted(b, replan, plan) ELSE alloc
               /\ fresh' = IF rolls THEN [b |-> b, steps |-> replan] ELSE NothingFresh
        /\ UNCHANGED <<now, state, begins, heldAt, down, proposal, waiting, told, troubles>>

Hold(b) ==
    /\ state[b] = "running" /\ troubles < MaxTroubles /\ troubles' = troubles + 1
    /\ \E i \in Steps(b) : run[b][i] = "open"
    /\ state' = [state EXCEPT ![b] = "paused"] /\ heldAt' = [heldAt EXCEPT ![b] = now]
    /\ fresh' = NothingFresh
    /\ UNCHANGED <<now, begins, alloc, run, ended, down, proposal, waiting, told, plans>>

\* extend_after_hold(): the held steps keep their stations for the hold longer
\* (a transfer that has begun does not), their unopened successors follow; the
\* overlaps are counted in the audit record.
Extended(b, shift) ==
    LET heldSteps == {i \in Steps(b) : run[b][i] = "open"}
        later == {j \in UNION {Descendants(b, i) : i \in heldSteps} : run[b][j] = "new"}
        longer(r) ==
            IF r.b = b /\ r.i \in heldSteps
            THEN IF r.k = "transfer" /\ r.from <= now THEN r
                 ELSE [r EXCEPT !.to = @ + shift, !.from = IF r.k \in {Work, "assist"} THEN @ ELSE @ + shift]
            ELSE IF r.b = b /\ r.i \in later THEN [r EXCEPT !.from = @ + shift, !.to = @ + shift] ELSE r
    IN  {longer(r) : r \in alloc}

Recover(b) ==
    /\ state[b] = "paused" /\ waiting = None
    /\ state' = [state EXCEPT ![b] = "running"]
    /\ alloc' = Extended(b, now - heldAt[b])
    /\ told' = told \cup Pairs({r \in alloc' : r.b \in Live}, b)
    /\ heldAt' = [heldAt EXCEPT ![b] = 0] /\ fresh' = NothingFresh
    /\ UNCHANGED <<now, begins, run, ended, down, proposal, waiting, plans, troubles>>

\* A station goes into maintenance.
Shutdown(s) ==
    /\ s \notin down /\ down' = down \cup {s} /\ fresh' = NothingFresh
    /\ troubles < MaxTroubles /\ troubles' = troubles + 1
    /\ UNCHANGED <<now, state, begins, alloc, run, ended, heldAt, proposal, waiting, told, plans>>

(***************************************************************************)
(* Replanning proposals (reschedule_service.py)                            *)
(***************************************************************************)
Replan(b) == IF state[b] = "scheduled" THEN Steps(b) ELSE Steps(b) \ Frozen(b)
Active(b) == state[b] \in {"scheduled", "running", "paused"}

\* plan(): the affected batches in order share one timeline; one that does not
\* fit keeps its windows.
AddReplan(acc, b, plan) ==
    IF Replan(b) = {} THEN acc
    ELSE IF plan.err # None THEN [acc EXCEPT !.busy = @ \cup {r \in Of(alloc, b) : r.i \in Replan(b)}]
    ELSE [busy |-> acc.busy \cup plan.rows, after |-> (b :> [replan |-> Replan(b), rows |-> plan.rows]) @@ acc.after]
PlanTogether(chosen, shut) ==
    LET order == SetToSortSeq(chosen, LAMBDA x, y : Priority[x] < Priority[y])
        keep  == UNION {{r \in Of(alloc, b) : r.i \notin Replan(b)} : b \in chosen}
        step(acc, b) == AddReplan(acc, b, PlanSteps(Problem(b, now, shut), acc.busy,
                                  IF Replan(b) = Steps(b) THEN NoTail ELSE KnownTail(b, Steps(b) \ Replan(b))))
    IN  FoldLeft(step, [busy |-> Busy(chosen) \cup keep, after |-> <<>>], order).after

\* The condition of a station affects every live batch with a window there.
Affected(s) == {r.b : r \in {x \in alloc : x.s = s /\ x.to > now /\ Active(x.b)}}

Propose(s) ==
    /\ Affected(s) # {}
    /\ PlanBudget /\ proposal = None
    /\ \E after \in {PlanTogether(Affected(s), Shut \cup {s})} :
           /\ DOMAIN after # {}
           /\ proposal' = [after |-> after, before |-> [b \in DOMAIN after |-> Of(alloc, b)], at |-> now]
    /\ fresh' = NothingFresh
    /\ KeepRuns /\ UNCHANGED <<now, state, begins, alloc, waiting>>

\* apply(): the windows must be those the proposal was made from and no step
\* of it opened since; the whole set is replaced and checked once more.
ApplyProposal ==
    LET after == proposal.after
        rows  == {r \in alloc : ~(r.b \in DOMAIN after /\ r.i \in after[r.b].replan)}
                 \cup UNION {after[b].rows : b \in DOMAIN after}
        fits  == \A b \in DOMAIN after :
                    /\ Active(b)
                    /\ Of(alloc, b) = proposal.before[b]
                    /\ Frozen(b) \cap after[b].replan = {}
        valid == /\ \A b \in DOMAIN after : ~Refused(rows, b)
                 /\ \A b \in DOMAIN after : \A r \in after[b].rows : r.s \notin down
    IN  /\ proposal # None /\ proposal' = None
        /\ alloc' = IF fits /\ valid THEN rows ELSE alloc
        /\ begins' = [b \in Batch |-> IF fits /\ valid /\ b \in DOMAIN after /\ state[b] = "scheduled"
                                         /\ StartsAnew(b, after[b].replan) THEN proposal.at ELSE begins[b]]
        /\ fresh' = NothingFresh
        /\ KeepRuns /\ UNCHANGED <<now, state, waiting, plans>>

Tick ==
    /\ now < MaxNow /\ now' = now + 1 /\ fresh' = NothingFresh
    /\ UNCHANGED <<state, begins, alloc, run, ended, heldAt, down, proposal, waiting, told, plans, troubles>>

Next ==
    \/ Request
    \/ \E b \in Batch : \E i \in Steps(b) : Open(b, i) \/ Finish(b, i) \/ Skip(b, i)
    \/ \E b \in Batch : Hold(b) \/ Recover(b)
    \/ \E s \in Fragile : Shutdown(s)
    \/ \E s \in Fragile : Propose(s)
    \/ ApplyProposal
    \/ Tick

HSpec == Init /\ [][Next]_hvars

(***************************************************************************)
(* Properties                                                              *)
(***************************************************************************)
\* From now on no station and no asset is promised beyond its channels or its
\* capacity to two batches unless the overlap was reported to the dispatcher:
\* planning never books what is taken, moving ahead of time never does either.
OverlapsAreReported ==
    \A p \in Clashes({r \in alloc : r.b \in Live}, now) : {p[1].b, p[2].b} \in told

\* What was just planned keeps the order of the flow: no step starts before its
\* predecessors end, kept or planned, nor earlier than the plate can be carried
\* to another station.
PlannedInOrder ==
    fresh.b # None =>
        \A i \in fresh.steps : \A r \in WorkRow(fresh.b, i) : \A j \in Recipe[fresh.b][i].pre :
            /\ r.from >= StepEnds(fresh.b)[j]
            /\ \A q \in WorkRow(fresh.b, j) :
                   q.s # r.s /\ Recipe[fresh.b][i].role = Recipe[fresh.b][j].role => r.from >= q.to + TransferMin

\* What was just planned never needs one plate on two devices at a time, the
\* windows of kept and running steps included.
OnePlateAtATime ==
    fresh.b # None =>
        \A i \in {j \in fresh.steps : ~Recipe[fresh.b][j].hold} : \A r \in WorkRow(fresh.b, i) : \A q \in Of(alloc, fresh.b) :
            q.k = Work /\ q.s # r.s /\ Recipe[fresh.b][q.i].role = Recipe[fresh.b][i].role
              /\ Recipe[fresh.b][i].role \in Roles[fresh.b] /\ run[fresh.b][q.i] # "done"
              => ~Overlapping(q, r.from, r.to)

\* A batch's clean window follows the whole time its sample is in the station,
\* the wait that keeps the station included: the two never overlap.
CleanAfterHold ==
    \A c \in alloc : c.k = "clean" /\ state[c.b] \in {"scheduled", "running"} =>
        \A w \in HoldAfter(Recipe[c.b], c.i) : \A r \in WorkRow(c.b, w) : ~Overlapping(c, r.from, r.to)

Work_of(rows, b, i) == {r \in rows : r.b = b /\ r.i = i /\ r.k = Work}
MovesWork(b, i) == /\ i \in Frozen(b) /\ Work_of(alloc, b, i) # Work_of(alloc', b, i)
                   /\ run'[b][i] = run[b][i] /\ ~(state[b] = "paused" /\ state'[b] = "running")

\* A request that read the batch after its release never moves or removes the
\* work of an opened step, also of one opened while the request waited for the
\* lock: its windows change only as the step itself is opened or finished, and
\* when its batch is recovered from a hold.
ReadBefore(b) == waiting # None /\ waiting' = None /\ waiting.b = b /\ waiting.seen \in {"planned", "scheduled"}
FrozenWindowsStand == [][\A b \in Batch : \A i \in Steps(b) : MovesWork(b, i) => ReadBefore(b)]_hvars

\* A plan can be carried out as it stands: in the order of the flow, with each
\* plate on one device at a time (domain/scheduling.py plan).
PlanHolds == PlannedInOrder /\ OnePlateAtATime

============================================================================
