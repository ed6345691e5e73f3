--------------------------------- MODULE Tasks ---------------------------------
(***************************************************************************)
(* The task centre (services/task_service.py, domain/tasks.py): tasks that *)
(* are split into shares, wait for other tasks, are handed to people, are  *)
(* executed as one batch each, and whose state is derived from all that,   *)
(* never stored.  The batches are seen as far as the tasks look at them:   *)
(* their state, how many of their samples failed, how far their data is    *)
(* reviewed.                                                               *)
(*                                                                         *)
(* One plan, by number of samples: version v asks for Total[v] samples, a  *)
(* batch holds Plate of them.  Tasks are numbered in order of creation.    *)
(* Every handler is one transaction.  Two of them are slow ones, whose     *)
(* reads may be old when they write: no lock is taken on the tasks.        *)
(***************************************************************************)
EXTENDS Integers, Sequences, FiniteSets, FiniteSetsExt, SequencesExt

CONSTANTS MaxTask, Person, None,
          Total,      \* <<samples asked for by each plan version>>
          Plate,      \* samples a batch can hold
          MaxDepth,   \* levels of the tree
          MaxCreated, \* tasks people create
          MaxRuns,    \* batches that are dispatched
          MaxEdits    \* decisions of people about tasks

VARIABLES task,       \* the rows, in order of creation
          batch,      \* the batch of each task, or None
          cover,      \* the tasks whose batches its published report covers
          approved,   \* the newest approved plan version
          slow,       \* the request under way that has read and not yet written
          met,        \* the parts of upstream tasks a dispatched batch waited for
          edits

tvars == <<task, batch, cover, approved, slow, met, edits>>

Task == DOMAIN task
Ids == 1..MaxTask
New(parent, dep, gate, version) ==
    [parent |-> parent, dep |-> dep, gate |-> gate, version |-> version, count |-> 0, offset |-> 0,
     replica |-> 0, purpose |-> "", state |-> "unassigned", assignee |-> None, accepted |-> FALSE,
     given |-> 0]

Init ==
    /\ task = <<>> /\ approved = 1 /\ edits = 0
    /\ batch = [t \in Ids |-> None] /\ cover = [t \in Ids |-> {}]
    /\ slow = None /\ met = [t \in Ids |-> {}]

(***************************************************************************)
(* Splitting a number of samples.                                          *)
(***************************************************************************)
BatchesNeeded(total, capacity) == Max({1, (total + capacity - 1) \div capacity})
Balanced(total, parts) ==
    [i \in 1..parts |-> total \div parts + (IF i <= total % parts THEN 1 ELSE 0)]
Offsets(sizes) == [i \in DOMAIN sizes |-> FoldLeft(+, 0, SubSeq(sizes, 1, i - 1))]
SplitSizes(total, parts) == Balanced(total, IF parts = 0 THEN BatchesNeeded(total, Plate) ELSE parts)
Splits(sizes) == \A i \in DOMAIN sizes : sizes[i] \in 1..Plate

(***************************************************************************)
(* The tree.                                                               *)
(***************************************************************************)
ChildrenIn(tab, t) == {c \in DOMAIN tab : tab[c].parent = t}
Children(t) == ChildrenIn(task, t)
Ancestors(t) == LET up[x \in Task] == IF task[x].parent = None THEN {}
                                      ELSE {task[x].parent} \cup up[task[x].parent] IN up[t]
Descendants(t) == {d \in Task : t \in Ancestors(d)}
Leaves(t) == {l \in {t} \cup Descendants(t) : Children(l) = {}}
Planned(t) == IF task[t].count > 0 THEN task[t].count ELSE Total[task[t].version]

(***************************************************************************)
(* Progress, by samples.  What was dispatched counts as its samples say,   *)
(* what was cancelled before is descoped, a retest is not part of the      *)
(* target; what was given up by signature lessens the shortfall.           *)
(***************************************************************************)
Undispatched(t) == batch[t] = None \/ batch[t].state \in {"planned", "scheduled"}
Descoped(t) == Undispatched(t) /\ task[t].state = "cancelled"
Valid(t) == IF Undispatched(t) \/ batch[t].state # "done" THEN 0 ELSE batch[t].n - batch[t].bad
Open(t) == IF Undispatched(t) THEN (IF Descoped(t) THEN 0 ELSE Planned(t))
           ELSE IF batch[t].state \in {"running", "paused"} THEN batch[t].n - batch[t].bad ELSE 0
Sum(F(_), S) == MapThenSumSet(F, S)
Target(t) == Sum(Planned, {l \in Leaves(t) : task[l].purpose # "retest" /\ ~Descoped(l)})
GivenUp(t) == Sum(LAMBDA x : task[x].given, {t} \cup Descendants(t))
Shortfall(t) == Max({0, Max({0, Target(t) - Sum(Valid, Leaves(t)) - Sum(Open, Leaves(t))}) - GivenUp(t)})

(***************************************************************************)
(* The derived state.                                                      *)
(***************************************************************************)
Order == <<"unassigned", "pending_accept", "accepted", "running", "data_review", "reporting", "done">>
Stage(s) == CHOOSE i \in DOMAIN Order : Order[i] = s
RunFinished == {"data_review", "reporting", "done"}
Gates == [run_completed |-> RunFinished, data_validated |-> {"reporting", "done"}, released |-> {"done"}]

\* A task's result is out when its own report is, or one above it that names its batch.
ReportCovers(t) == cover[t] # {} \/ \E a \in Ancestors(t) : t \in cover[a]

LeafState(t) ==
    LET b == batch[t] IN
    CASE b = None -> IF task[t].assignee = None THEN "unassigned"
                     ELSE IF task[t].accepted THEN "accepted" ELSE "pending_accept"
      [] b # None /\ b.state = "aborted" -> "cancelled"
      [] b # None /\ b.state \notin {"done", "aborted"} -> "running"
      [] OTHER -> IF b.data = "open" THEN "data_review"
                  ELSE IF ReportCovers(t) THEN "done" ELSE "reporting"

\* A whole counted as finished with its first finished part.
Aggregate_Mut(states) ==
    LET live == states \ {"cancelled"}
        done == {s \in live : s \in RunFinished} IN
    IF live = {} THEN "cancelled"
    ELSE IF done # {} THEN CHOOSE s \in done : \A o \in done : Stage(s) <= Stage(o)
    ELSE CHOOSE s \in live \ {"shortfall"} : TRUE

Aggregate(states) ==
    LET live == states \ {"cancelled"}
        staged == live \ {"shortfall"}
        least == CHOOSE s \in staged : \A o \in staged : Stage(s) <= Stage(o)
        finished == \A s \in staged : Stage(s) >= Stage("data_review") IN
    IF live = {} THEN "cancelled"
    ELSE IF "shortfall" \in live THEN IF finished THEN "shortfall" ELSE "running"
    ELSE IF finished THEN least
    ELSE IF \E s \in staged : Stage(s) >= Stage("running") THEN "running" ELSE least

State(t) ==
    LET of[x \in Task] ==
            LET parts == Children(x)
                all == Aggregate({of[c] : c \in parts}) IN
            CASE task[x].state = "cancelled" -> "cancelled"
              [] task[x].state # "cancelled" /\ parts = {} -> LeafState(x)
              [] OTHER -> IF all \in RunFinished /\ Shortfall(x) > 0 THEN "shortfall" ELSE all
    IN of[t]

(***************************************************************************)
(* Waiting for other tasks: a task waits for its own upstream tasks and    *)
(* for those of every task it is a part of.                                *)
(***************************************************************************)
EffectiveEdges(t) == UNION {{<<u, task[a].gate>> : u \in task[a].dep} : a \in {t} \cup Ancestors(t)}
Effective(t) == {e[1] : e \in EffectiveEdges(t)}

DataProblems(t) ==
    \E l \in Leaves(t) :
        /\ \A x \in {l} \cup (Ancestors(l) \cap Descendants(t)) : x = t \/ State(x) # "cancelled"
        /\ batch[l] = None \/ batch[l].state # "done" \/ batch[l].data \in {"open", "invalid"}
Satisfied(u, gate) ==
    LET s == State(u) IN
    s # "cancelled" /\ (gate = "data_validated" => ~DataProblems(u)) /\ s \in Gates[gate]
Blocked(t) == \E e \in EffectiveEdges(t) : ~Satisfied(e[1], e[2])

\* What the check of new upstream tasks calls a cycle.
OwnCycle(t, wanted) ==
    LET next(x) == IF x = t THEN wanted ELSE task[x].dep
        RECURSIVE reach(_)
        reach(S) == LET more == S \cup UNION {next(x) : x \in S} IN IF more = S THEN S ELSE reach(more)
    IN t \in reach(wanted)
InheritedCycle(t, wanted) ==
    LET RECURSIVE reach(_)
        reach(S) == LET more == S \cup UNION {Effective(x) \cup Children(x) : x \in S} IN
                    IF more = S THEN S ELSE reach(more)
    IN reach(wanted) \cap ({t} \cup Descendants(t)) # {}
InFlightBelow(t) == \E l \in Leaves(t) : batch[l] # None /\ batch[l].state \notin {"planned", "scheduled"}

----------------------------------------------------------------------------
Decision == edits < MaxEdits /\ edits' = edits + 1
Rows(tab) == task' = tab /\ Len(tab) <= MaxTask

(***************************************************************************)
(* New tasks, and the shares of a split one.                               *)
(***************************************************************************)
\* A part takes over the person of the whole, and what that person accepted.
FollowParent(row, t) ==
    IF task[t].assignee = None THEN row
    ELSE [row EXCEPT !.assignee = task[t].assignee, !.accepted = task[t].accepted,
                     !.state = IF task[t].accepted THEN "accepted" ELSE "pending_accept"]

SplitDependencies(first, i, mode) ==
    IF i = 1 \/ mode = "parallel" THEN [dep |-> {}, gate |-> "run_completed"]
    ELSE IF mode = "pilot" THEN [dep |-> {first}, gate |-> "data_validated"]
    ELSE [dep |-> {first + i - 2}, gate |-> "run_completed"]

\* The rows after task t of tab is split into shares of these sizes.
Split(tab, t, row, sizes, replicate, mode) ==
    tab \o [i \in DOMAIN sizes |->
        LET wait == SplitDependencies(Len(tab) + 1, i, mode) IN
        [row EXCEPT !.parent = t, !.dep = wait.dep, !.gate = wait.gate, !.count = sizes[i],
                    !.offset = IF replicate THEN (i - 1) * sizes[i] ELSE Offsets(sizes)[i],
                    !.replica = IF replicate THEN i ELSE 0]]

Created == {t \in Task : task[t].count = 0}
Create(parent, dep, gate) ==
    /\ Cardinality(Created) < MaxCreated
    /\ IF parent = None THEN TRUE ELSE /\ batch[parent] = None
                                       /\ Cardinality(Ancestors(parent)) + 2 <= MaxDepth
    /\ LET row == New(parent, dep, gate, approved)
           more == Append(task, row)
           sizes == SplitSizes(Total[approved], 0) IN
       Rows(IF Total[approved] <= Plate THEN more
            ELSE Split(more, Len(more), New(None, {}, "run_completed", approved), sizes, FALSE, "parallel"))
    /\ UNCHANGED <<batch, cover, approved, met, slow>>

\* The split takes the whole plan's number, also for a task that is itself a share.
Decompose(t, parts, replicate, mode) ==
    LET total == Total[task[t].version]
        sizes == IF replicate THEN [i \in 1..parts |-> total] ELSE SplitSizes(total, parts) IN
    /\ task[t].state # "cancelled" /\ batch[t] = None /\ Children(t) = {}
    /\ Splits(sizes) /\ Len(sizes) >= 2
    /\ Cardinality(Ancestors(t)) + 2 <= MaxDepth
    /\ Rows(Split(task, t, FollowParent(New(t, {}, "run_completed", task[t].version), t), sizes, replicate, mode))
    /\ UNCHANGED <<batch, cover, approved, met, slow>>

\* New conditions are checked against the tree and the batches as they are ...
CheckDependencies(t, wanted, gate) ==
    /\ slow = None /\ (wanted # task[t].dep \/ gate # task[t].gate)
    /\ ~OwnCycle(t, wanted) /\ t \notin UNION {Ancestors(u) : u \in wanted} /\ ~InheritedCycle(t, wanted)
    /\ (~(wanted \subseteq task[t].dep) \/ Cardinality(Gates[gate]) < Cardinality(Gates[task[t].gate]))
          => ~InFlightBelow(t)
    /\ slow' = [what |-> "dependencies", task |-> t, dep |-> wanted, gate |-> gate, read |-> task[t]]
    /\ UNCHANGED <<task, batch, cover, approved, met>>

\* ... and written later, each column where it differs from what was read.
SetDependencies ==
    /\ slow # None /\ slow.what = "dependencies" /\ slow' = None
    /\ task' = [task EXCEPT ![slow.task].dep = IF slow.dep = slow.read.dep THEN @ ELSE slow.dep,
                            ![slow.task].gate = IF slow.gate = slow.read.gate THEN @ ELSE slow.gate]
    /\ UNCHANGED <<batch, cover, approved, met>>

(***************************************************************************)
(* A new plan version.  Tasks keep theirs until they are migrated: the     *)
(* shares that have no batch yet are sized anew.                           *)
(***************************************************************************)
Approve == /\ approved < Len(Total) /\ approved' = approved + 1
           /\ UNCHANGED <<task, batch, cover, met, slow>>

Shares(t) == {c \in Children(t) : task[c].purpose # "retest" /\ task[c].state # "cancelled" /\ task[c].count > 0}
Movable(t) == {c \in Shares(t) : batch[c] = None}
Fixed(t) == Shares(t) \ Movable(t)
Used(t) == Sum(LAMBDA c : task[c].count, Fixed(t))
Reportion(t, total) ==
    LET move == SetToSortSeq(Movable(t), <)
        sizes == Balanced(total - Used(t), Len(move))
        start == Max({0} \cup {task[c].offset + task[c].count : c \in Fixed(t)})
        place == [c \in Movable(t) |-> CHOOSE i \in DOMAIN move : move[i] = c] IN
    IF Movable(t) = {} THEN [fits |-> TRUE, of |-> <<>>]
    ELSE IF \E c \in Shares(t) : task[c].replica > 0
    THEN [fits |-> total <= Plate,
          of |-> [c \in Movable(t) |-> [count |-> total, offset |-> (Max({1, task[c].replica}) - 1) * total]]]
    ELSE [fits |-> total - Used(t) >= Len(move) /\ Splits(sizes),
          of |-> [c \in Movable(t) |-> [count |-> sizes[place[c]], offset |-> start + Offsets(sizes)[place[c]]]]]

MigrateVersion(t) ==
    LET family == {x \in {t} \cup Descendants(t) : task[x].state # "cancelled" /\ batch[x] = None}
        new == Reportion(t, Total[approved]) IN
    /\ task[t].state # "cancelled" /\ batch[t] = None /\ task[t].version # approved
    /\ new.fits
    /\ task' = [x \in Task |->
                  LET row == IF x \in family THEN [task[x] EXCEPT !.version = approved] ELSE task[x] IN
                  IF x \in DOMAIN new.of THEN [row EXCEPT !.count = new.of[x].count, !.offset = new.of[x].offset]
                  ELSE row]
    /\ UNCHANGED <<batch, cover, approved, met, slow>>

(***************************************************************************)
(* Samples that came to nothing are done again or given up.                *)
(***************************************************************************)
Retests(t) == {c \in Children(t) : task[c].purpose = "retest"}
Retest(t, wanted) ==
    LET count == IF wanted > 0 THEN wanted ELSE Shortfall(t)
        base == Max({Target(t)} \cup {task[c].offset + task[c].count : c \in Retests(t)})
        sizes == SplitSizes(count, 0)
        row == FollowParent([New(t, {}, "run_completed", task[t].version) EXCEPT !.purpose = "retest"], t) IN
    /\ task[t].state # "cancelled" /\ Children(t) # {} /\ count > 0
    /\ Rows(task \o [i \in DOMAIN sizes |-> [row EXCEPT !.count = sizes[i], !.offset = base + Offsets(sizes)[i]]])
    /\ UNCHANGED <<batch, cover, approved, met, slow>>

AcceptShortfall(t, count) ==
    /\ task[t].state # "cancelled" /\ Children(t) # {} /\ count \in 1..Shortfall(t)
    /\ task' = [task EXCEPT ![t].given = @ + count]
    /\ UNCHANGED <<batch, cover, approved, met, slow>>

(***************************************************************************)
(* People.  Parts that have nobody, or the person the whole had, follow    *)
(* the whole unless their batch is on its way.                             *)
(***************************************************************************)
Followers(t, previous) ==
    {c \in Descendants(t) : task[c].state # "cancelled" /\ task[c].assignee \in {None, previous} /\ Undispatched(c)}
HandedTo(row, p) == [row EXCEPT !.assignee = p, !.accepted = FALSE, !.state = "pending_accept"]

Assign(t, p) ==
    LET same == {c \in Followers(t, task[t].assignee) : task[c].assignee = p /\ task[c].accepted}
        moved == Followers(t, task[t].assignee) \ same IN
    /\ task[t].state # "cancelled"
    /\ task' = [x \in Task |-> IF x \in {t} \cup moved THEN HandedTo(task[x], p) ELSE task[x]]
    /\ UNCHANGED <<batch, cover, approved, met, slow>>

\* Nothing here asks whether the task was cancelled.
Accept(t, p) ==
    LET all == {t} \cup {c \in Followers(t, p) : task[c].assignee = p /\ ~task[c].accepted} IN
    /\ task[t].assignee = p /\ ~task[t].accepted
    /\ task' = [x \in Task |-> IF x \in all THEN [task[x] EXCEPT !.accepted = TRUE, !.state = "accepted"] ELSE task[x]]
    /\ UNCHANGED <<batch, cover, approved, met, slow>>

InFlight(t) == batch[t] # None /\ batch[t].state \in {"running", "paused"}
Cancel(t) ==
    /\ \A c \in {t} \cup Children(t) : ~InFlight(c)
    /\ task' = [x \in Task |-> IF x \in {t} \cup Children(t) THEN [task[x] EXCEPT !.state = "cancelled"] ELSE task[x]]
    /\ UNCHANGED <<batch, cover, approved, met, slow>>

(***************************************************************************)
(* The batches of the tasks.                                               *)
(***************************************************************************)
\* The row of the batch is locked by a dispatch under way.
Held(t) == slow # None /\ slow.what = "dispatch" /\ slow.task = t
NewBatch(t) == [state |-> "planned", n |-> Planned(t), bad |-> 0, data |-> "none"]
Creatable(t) == /\ task[t].state # "cancelled" /\ batch[t] = None /\ Children(t) = {}
                /\ Planned(t) <= Plate
CreateBatch(t) == /\ Creatable(t) /\ batch' = [batch EXCEPT ![t] = NewBatch(t)]
                  /\ UNCHANGED <<task, cover, approved, met, slow>>
CreateForChildren(t) ==
    LET pending == {l \in Leaves(t) \ {t} : batch[l] = None /\ task[l].state # "cancelled"} IN
    /\ pending # {} /\ \A l \in pending : Creatable(l)
    /\ batch' = [l \in Ids |-> IF l \in pending THEN NewBatch(l) ELSE batch[l]]
    /\ UNCHANGED <<task, cover, approved, met, slow>>
Delete(t) ==
    /\ batch[t] # None /\ Undispatched(t) /\ ~Held(t)
    /\ batch' = [batch EXCEPT ![t] = None]
    /\ UNCHANGED <<task, cover, approved, met, slow>>

\* Scheduled only when every batch it waits for has a time; books the person.
Schedule(t) ==
    LET upstream == UNION {Leaves(u) : u \in Effective(t)} IN
    /\ batch[t] # None /\ batch[t].state = "planned"
    /\ \A u \in upstream : batch[u] # None /\ batch[u].state \notin {"planned", "aborted"}
    /\ batch' = [batch EXCEPT ![t].state = "scheduled"]
    /\ UNCHANGED <<task, cover, approved, met, slow>>

\* A dispatch locks the row of its batch, reads the tasks and the batches above,
\* and checks a good deal more before it commits.
Stands(t, l) == \A x \in {l} \cup (Ancestors(l) \cap Descendants(t)) : x = t \/ task[x].state # "cancelled"
PartsOf(u) == {l \in Leaves(u) : task[u].state # "cancelled" /\ Stands(u, l)}
CheckDispatch(t) ==
    /\ slow = None /\ batch[t] # None /\ batch[t].state = "scheduled" /\ ~Blocked(t)
    /\ Cardinality({x \in Task : batch[x] # None /\ ~Undispatched(x)}) < MaxRuns
    /\ slow' = [what |-> "dispatch", task |-> t, parts |-> UNION {PartsOf(u) : u \in Effective(t)}]
    /\ UNCHANGED <<task, batch, cover, approved, met>>

Dispatch ==
    /\ slow # None /\ slow.what = "dispatch" /\ slow' = None
    /\ batch' = [batch EXCEPT ![slow.task].state = "running"]
    /\ met' = [met EXCEPT ![slow.task] = slow.parts]
    /\ UNCHANGED <<task, cover, approved>>

SampleFails(t) == /\ InFlight(t) /\ batch[t].bad < batch[t].n
                  /\ batch' = [batch EXCEPT ![t].bad = @ + 1]
                  /\ UNCHANGED <<task, cover, approved, met, slow>>
Ends(t) == /\ InFlight(t) /\ batch[t].state = "running"
           /\ batch' = [batch EXCEPT ![t].state = "done"]
           /\ UNCHANGED <<task, cover, approved, met, slow>>
Pauses(t) == /\ InFlight(t)
             /\ batch' = [batch EXCEPT ![t].state = IF @ = "running" THEN "paused" ELSE "running"]
             /\ UNCHANGED <<task, cover, approved, met, slow>>
AbortBatch(t) == /\ batch[t] # None /\ ~Held(t) /\ batch[t].state \notin {"done", "aborted"}
                 /\ batch' = [batch EXCEPT ![t].state = "aborted", ![t].bad = batch[t].n]
                 /\ UNCHANGED <<task, cover, approved, met, slow>>

\* The data of a finished batch: analyses are opened, reviewed, repeated.
Review(t, data) ==
    /\ batch[t] # None /\ batch[t].state = "done"
    /\ <<batch[t].data, data>> \in {<<"none", "open">>, <<"open", "valid">>, <<"open", "invalid">>, <<"invalid", "open">>}
    /\ batch' = [batch EXCEPT ![t].data = data]
    /\ UNCHANGED <<task, cover, approved, met, slow>>

TaskBatches(t) == {l \in Leaves(t) : batch[l] # None}
Reportable(t) ==
    /\ \A l \in Leaves(t) : batch[l] # None \/ task[l].state = "cancelled"
    /\ \A l \in TaskBatches(t) : batch[l].state \in {"done", "aborted"}
    /\ \E l \in TaskBatches(t) : batch[l].state = "done"
    /\ Children(t) # {} => Shortfall(t) = 0
Publish(t) == /\ Reportable(t) /\ cover[t] # TaskBatches(t)
              /\ cover' = [cover EXCEPT ![t] = TaskBatches(t)]
              /\ UNCHANGED <<task, batch, approved, met, slow>>

GateNames == DOMAIN Gates
TNext ==
    \/ edits' = edits /\ (Approve \/ SetDependencies \/ Dispatch)
    \/ edits' = edits /\ \E parent \in Task \cup {None}, dep \in SUBSET Task : Create(parent, dep, "run_completed")
    \/ Decision /\ \E t \in Task :
        \/ \E parts \in {0, 2}, how \in BOOLEAN, mode \in {"parallel", "pilot", "sequential"} :
               (how => parts > 0) /\ Decompose(t, parts, how, mode)
        \/ \E wanted \in SUBSET Task, gate \in GateNames : CheckDependencies(t, wanted, gate)
        \/ \E n \in 0..1 : Retest(t, n)
        \/ \E n \in 1..Plate : AcceptShortfall(t, n)
        \/ \E p \in Person : Assign(t, p)
        \/ MigrateVersion(t) \/ Cancel(t) \/ Delete(t) \/ Pauses(t) \/ AbortBatch(t)
    \/ edits' = edits /\ \E t \in Task :
        \/ \E p \in Person : Accept(t, p)
        \/ CreateBatch(t) \/ CreateForChildren(t) \/ Schedule(t) \/ CheckDispatch(t)
        \/ SampleFails(t) \/ Ends(t) \/ Publish(t)
        \/ \E d \in {"open", "valid", "invalid"} : Review(t, d)

TSpec == Init /\ [][TNext]_tvars

----------------------------------------------------------------------------
(* A batch starts on work that is over: every part of a task it waited for  *)
(* that had not been given up when its conditions were read has a batch that *)
(* has ended, whatever is split, attached, retested, cancelled and           *)
(* reassigned meanwhile, and it never runs again.                            *)
UpstreamHasEnded ==
    \A t \in Task : \A l \in met[t] : batch[l] # None /\ batch[l].state \in {"done", "aborted"}

=============================================================================
