------------------------------- MODULE Records -------------------------------
(*****************************************************************************)
(* What a run measured and what is said of it: analysis tasks with the       *)
(* metrics they ask for, the values that arrive from instruments, people and *)
(* the stations of the batch, their corrections and reviews, and the report  *)
(* that is built, approved and published from them. Every handler is one     *)
(* transaction; whether the sample is done may be judged by rows that another *)
(* one is just changing. Values of one sample; one report with its versions. *)
(*****************************************************************************)
EXTENDS Integers, Sequences, FiniteSets

CONSTANTS
  None,
  Metric,      \* the metrics an analysis task may ask for
  Curve,       \* those whose values are curves
  DerivedOf,   \* DerivedOf[c]: the numbers computed from curve c
  Peak,        \* Peak[x]: the number computed from curve x, None when there is none
  Value,       \* what a metric may be measured as
  Odd,         \* the <<metric, value>> outside the range the metric allows
  Rules,       \* the rules between numbers: [clash: set of <<metric, value>>, reject: BOOLEAN]
  Person,
  StepOf,      \* StepOf[k]: the step of the k-th device command that reports values
  MaxTasks, MaxEvents, MaxValues, MaxVersions, MaxEdits, MaxTickets  \* bounds

VARIABLES
  sample,    \* the assignment of the sample: its state, whether its batch has finished, the tasks
             \* its state was judged by
  looked,    \* what a request under way has read of the batch and the tasks, or None
  analysis,  \* the analysis tasks, in the order of their creation
  event,     \* the events taken in: [source, task, id]
  values,    \* the result values
  ticket,    \* signatures given and not used: [user, ref, version, seen]; ref and version may be None
  report,    \* the versions of the report
  edits      \* edits of a draft so far (bound)

rvars == <<sample, looked, analysis, event, values, ticket, report, edits>>

-----------------------------------------------------------------------------
(* Values: the current one of a metric is the highest not superseded.       *)

Of(rows, t, m) == {v \in rows : v.task = t /\ v.metric = m}

NextVersion(rows, t, m) == 1 + Cardinality(Of(rows, t, m))

InForce(rows, t, m) == {v \in Of(rows, t, m) : ~v.super}
Current(rows, t, m) ==
  {v \in InForce(rows, t, m) : \A w \in InForce(rows, t, m) : w.version <= v.version}

Measured(rows, t, m) == \E v \in Current(rows, t, m) : v.val # None

Numbers(rows, t) ==
  {<<v.metric, v.val>> : v \in UNION {Current(rows, t, m) : m \in Metric \ Curve}}

\* The rules that the numbers break, of those that a fresh number takes part in.
Broken(old, fresh) ==
  LET now == {p \in old : \A q \in fresh : q[1] # p[1]} \cup fresh IN
  {r \in Rules : r.clash \subseteq now /\ r.clash \cap fresh # {}}

Flagged(m, x, old, fresh) ==
  \/ <<m, x>> \in Odd
  \/ \E r \in Broken(old, fresh) : <<m, x>> \in r.clash

Entry(rows, t, m, x, from, by, origin, suspect) ==
  [task |-> t, metric |-> m, version |-> NextVersion(rows, t, m), val |-> x, from |-> from,
   by |-> by, origin |-> origin, super |-> FALSE, review |-> "pending",
   quality |-> IF suspect THEN "suspect" ELSE "unassessed"]

Superseded(rows, gone) == (rows \ gone) \cup {[v EXCEPT !.super = TRUE] : v \in gone}

Official(v) == v.review = "approved" /\ v.quality = "valid" /\ ~v.super /\ v.val # None

-----------------------------------------------------------------------------
(* Analysis tasks and the assignment they complete.                         *)

Refreshed(tasks, rows, t) ==
  LET has(m) == InForce(rows, t, m) # {} IN
  [tasks EXCEPT ![t].state =
     IF @ = "cancelled" THEN @
     ELSE IF \A m \in tasks[t].metrics : has(m) THEN "collected"
     ELSE IF \E m \in Metric : has(m) THEN "collecting" ELSE "pending"]

Open(tasks) == {t \in DOMAIN tasks : tasks[t].state # "cancelled"}

\* The first task with all its values counts for all of them.
Complete_Mut(tasks) == \E t \in Open(tasks) : tasks[t].state = "collected"

Complete(tasks) == Open(tasks) # {} /\ \A t \in Open(tasks) : tasks[t].state = "collected"

\* The sample as judged by the end of its batch and the tasks that are seen.
Settled(s, batch, tasks) ==
  IF s.state = "running" /\ batch = "done" /\ Complete(tasks)
  THEN [s EXCEPT !.state = "done", !.counted = Open(tasks)] ELSE s

\* What a request has read when another one commits: its own tasks are as it leaves them.
Seen(tasks, own) == [t \in DOMAIN looked.tasks \cup own |-> IF t \in own THEN tasks[t] ELSE looked.tasks[t]]

\* Any change of the tasks ends with the judgement, by the rows as they are or
\* as they were when the request read them.
Judge(tasks, own) ==
  \/ sample' = Settled(sample, sample.batch, tasks) /\ UNCHANGED looked
  \/ looked # None /\ looked' = None /\ sample' = Settled(sample, looked.batch, Seen(tasks, own))

Task(metrics, device) == [state |-> "pending", metrics |-> metrics, device |-> device]

RecordsInit ==
  /\ sample = [state |-> "running", batch |-> "running", counted |-> {}] /\ looked = None
  /\ analysis = <<>> /\ event = {} /\ values = {} /\ ticket = {} /\ report = <<>> /\ edits = 0

Look ==
  /\ looked = None /\ sample.state = "running" /\ looked' = [batch |-> sample.batch, tasks |-> analysis]
  /\ UNCHANGED <<sample, analysis, event, values, ticket, report, edits>>

\* A new task, or a retest of an earlier one: the metrics asked for are frozen.
CreateTask(metrics) ==
  /\ Len(analysis) < MaxTasks /\ metrics # {}
  /\ analysis' = Append(analysis, Task(metrics, FALSE))
  /\ UNCHANGED <<sample, looked, event, values, ticket, report, edits>>

CancelTask(t) ==
  /\ analysis[t].state \notin {"collected", "cancelled"}
  /\ analysis' = [analysis EXCEPT ![t].state = "cancelled"]
  /\ Judge(analysis', {t})
  /\ UNCHANGED <<event, values, ticket, report, edits>>

\* The batch completes in the executor and settles its assignments.
FinishBatch ==
  /\ sample.batch = "running"
  /\ LET ended == [sample EXCEPT !.batch = "done"] IN
     \/ sample' = Settled(ended, "done", analysis) /\ UNCHANGED looked
     \/ looked # None /\ looked' = None /\ sample' = Settled(ended, "done", looked.tasks)
  /\ UNCHANGED <<analysis, event, values, ticket, report, edits>>

-----------------------------------------------------------------------------
(* Values come in.                                                          *)

\* What the curves of a body say of the numbers asked for that it does not give
\* itself: those without a measured value, and on a repeated step its own again.
DerivedRows(body, metrics, t, redo) ==
  {<<p[2], Peak[body[p[1]]], p[1]>> :
     p \in {p \in (Curve \cap DOMAIN body) \X (metrics \ DOMAIN body) :
       /\ p[2] \in DerivedOf[p[1]] /\ body[p[1]] # None /\ Peak[body[p[1]]] # None
       /\ \A v \in Current(values, t, p[2]) : v.val = None \/ (redo /\ v.from = p[1])}}

Rows(body) == {<<m, body[m], None>> : m \in DOMAIN body}
Fresh(rows) == {<<r[1], r[2]>> : r \in {r \in rows : r[1] \notin Curve /\ r[2] # None}}

\* An instrument, a service or a person reports: the whole event or nothing of it.
\* "Could not be measured" is accepted whatever is there already.
Ingest(t, id, by, body) ==
  /\ analysis[t].state # "cancelled"
  /\ [source |-> by, task |-> t, id |-> id] \notin event
  /\ Cardinality(event) < MaxEvents
  /\ DOMAIN body \subseteq analysis[t].metrics
  /\ \A m \in DOMAIN body : body[m] # None => ~Measured(values, t, m)
  /\ \E rows \in {Rows(body) \cup DerivedRows(body, analysis[t].metrics, t, FALSE)} :
     \E fresh \in {Fresh(rows)}, old \in {Numbers(values, t)} :
       /\ \A r \in Broken(old, fresh) : ~r.reject
       /\ values' = values \cup
            {Entry(values, t, r[1], r[2], r[3], by, 0, Flagged(r[1], r[2], old, fresh)) : r \in rows}
  /\ event' = event \cup {[source |-> by, task |-> t, id |-> id]}
  /\ analysis' = Refreshed(analysis, values', t) /\ Judge(analysis', {t})
  /\ UNCHANGED <<ticket, report, edits>>

\* The task that collects what the stations report, made with the first report.
DeviceTask(tasks) ==
  LET mine == {t \in DOMAIN tasks : tasks[t].device /\ tasks[t].state # "cancelled"} IN
  IF mine = {} THEN [tasks |-> Append(tasks, Task(Metric, TRUE)), id |-> Len(tasks) + 1]
               ELSE [tasks |-> tasks, id |-> CHOOSE t \in mine : \A u \in mine : t <= u]

\* A value another step has reported stays: only the same step replaces it.
ThisStepOnly(t, step, rows) ==
  {r \in rows : \A v \in Current(values, t, r[1]) : v.origin \in {0, step}}

\* The receipt of device command k: one event per command, replacing what its
\* step has reported before; a rule that would refuse an event only flags here.
DeviceRecord(k, body) ==
  \E d \in {DeviceTask(analysis)} :
    /\ Len(d.tasks) <= MaxTasks
    /\ Cardinality(event) < MaxEvents
    /\ [source |-> "device", task |-> d.id, id |-> k] \notin event
    /\ \E given \in {ThisStepOnly(d.id, StepOf[k], Rows(body))} :
       /\ given # {}
       /\ \E rows \in {given \cup ThisStepOnly(d.id, StepOf[k],
              DerivedRows([m \in {r[1] : r \in given} |-> body[m]], d.tasks[d.id].metrics, d.id, TRUE))} :
          \E fresh \in {Fresh(rows)}, old \in {Numbers(values, d.id)} :
            values' = Superseded(values, UNION {Current(values, d.id, r[1]) : r \in rows}) \cup
              {Entry(values, d.id, r[1], r[2], r[3], "device", StepOf[k],
                     \/ Flagged(r[1], r[2], old, fresh)
                     \/ \E b \in Broken(old, fresh) : b.reject) : r \in rows}
    /\ event' = event \cup {[source |-> "device", task |-> d.id, id |-> k]}
    /\ analysis' = Refreshed(d.tasks, values', d.id) /\ Judge(analysis', {d.id})
    /\ UNCHANGED <<ticket, report, edits>>

-----------------------------------------------------------------------------
(* Corrections and reviews.                                                  *)

\* Every current number computed from the corrected curve gets a new version;
\* only its range is looked at.
Rederived(rows, t, c, x, by) ==
  LET hit == {v \in rows : v.from = c /\ v.task = t /\ v.metric \in DerivedOf[c] /\ v \in Current(rows, t, v.metric)}
      new == IF x = None THEN None ELSE Peak[x] IN
  Superseded(rows, hit) \cup
    {Entry(rows, t, v.metric, new, c, by, v.origin, <<v.metric, new>> \in Odd) : v \in hit}

\* A correction names the version it corrects, which need not be the current one.
Revise(v, x, by) ==
  /\ ~v.super
  /\ \E old \in {{p \in Numbers(values, v.task) : p[1] # v.metric}},
        fresh \in {Fresh({<<v.metric, x, None>>})} :
       /\ \A r \in Broken(old, fresh) : ~r.reject
       /\ \E rows \in {Superseded(values, {v}) \cup
              {Entry(values, v.task, v.metric, x, None, by, v.origin, Flagged(v.metric, x, old, fresh))}} :
            values' = IF v.metric \in Curve THEN Rederived(rows, v.task, v.metric, x, by) ELSE rows
  /\ analysis' = Refreshed(analysis, values', v.task) /\ Judge(analysis', {v.task})
  /\ UNCHANGED <<event, ticket, report, edits>>

\* A signature is given on an object as it stands, and used once. It names the
\* object and its version, or leaves them open and fits any.
Sign(user, ref, version, seen) ==
  /\ Cardinality(ticket) < MaxTickets
  /\ ticket' = ticket \cup {[user |-> user, ref |-> ref, version |-> version, seen |-> seen]}
  /\ UNCHANGED <<sample, looked, analysis, event, values, report, edits>>

Expire(k) ==
  /\ ticket' = ticket \ {k}
  /\ UNCHANGED <<sample, looked, analysis, event, values, report, edits>>

Consume(user, ref, version, k) ==
  /\ k.user = user /\ k.ref \in {ref, None} /\ k.version \in {version, None}
  /\ ticket' = ticket \ {k}

\* A version that has been reviewed may be reviewed again.
Review(v, user, conclusion, quality, k) ==
  /\ ~v.super /\ v.by # user
  /\ conclusion = "approved" => quality # "unassessed"
  /\ Consume(user, <<"value", v.task, v.metric>>, v.version, k)
  /\ values' = (values \ {v}) \cup {[v EXCEPT !.review = conclusion, !.quality = quality]}
  /\ UNCHANGED <<sample, looked, analysis, event, report, edits>>

-----------------------------------------------------------------------------
(* Reports. The content is what was official when it was built.              *)

Key(v) == <<v.task, v.metric, v.version>>
Content == {<<Key(v), v.val>> : v \in {w \in values : Official(w)}}

\* What still stands in the way of a submission or a publication.
Blockers == {v \in values : ~v.super /\ v.review = "pending"}

Draft(n, author) ==
  [version |-> n, state |-> "draft", author |-> author, shown |-> Content, rv |-> 1, signed |-> None]

\* What the signer of a version of the report saw of it, None when the signature
\* does not name the report and its version.
SeenBy(k, i) == IF k.ref = <<"report", i>> /\ k.version # None THEN k.seen ELSE None

\* The number a signature refers to does not move.
Moved_Mut(i, state) == [report EXCEPT ![i].state = state]

Moved(i, state) == [report EXCEPT ![i].state = state, ![i].rv = @ + 1]

CreateReport(user) ==
  /\ report = <<>>
  /\ report' = <<Draft(1, user)>>
  /\ UNCHANGED <<sample, looked, analysis, event, values, ticket, edits>>

\* A draft is taken again from the results; rv is what the editor has read.
UpdateDraft(i, rv) ==
  /\ report[i].state = "draft" /\ report[i].rv = rv
  /\ edits < MaxEdits
  /\ report' = [Moved(i, "draft") EXCEPT ![i].shown = Content]
  /\ edits' = edits + 1
  /\ UNCHANGED <<sample, looked, analysis, event, values, ticket>>

Submit(i) ==
  /\ report[i].state = "draft" /\ Blockers = {}
  /\ report' = Moved(i, "review")
  /\ UNCHANGED <<sample, looked, analysis, event, values, ticket, edits>>

RejectReport(i, user) ==
  /\ report[i].state = "review" /\ report[i].author # user
  /\ edits < MaxEdits
  /\ report' = Moved(i, "draft") /\ edits' = edits + 1
  /\ UNCHANGED <<sample, looked, analysis, event, values, ticket>>

ApproveReport(i, user, k) ==
  /\ report[i].state = "review" /\ report[i].author # user
  /\ Consume(user, <<"report", i>>, report[i].rv, k)
  /\ report' = [Moved(i, "approved") EXCEPT ![i].signed = SeenBy(k, i)]
  /\ UNCHANGED <<sample, looked, analysis, event, values, edits>>

\* Only a later version is looked for.
PublishedBefore_Mut(i) == {j \in DOMAIN report : j > i /\ report[j].state = "published"}

\* The version published before is superseded by this one.
PublishedBefore(i) == {j \in DOMAIN report \ {i} : report[j].state = "published"}

Publish(i, user, k) ==
  /\ report[i].state = "approved" /\ Blockers = {}
  /\ Consume(user, <<"report", i>>, report[i].rv, k)
  /\ report' = [j \in DOMAIN report |->
       CASE j = i -> [Moved(i, "published")[i] EXCEPT !.signed = SeenBy(k, i)]
         [] j \in PublishedBefore(i) -> Moved(j, "superseded")[j]
         [] OTHER -> report[j]]
  /\ UNCHANGED <<sample, looked, analysis, event, values, edits>>

\* The numbers of versions are unique: from one published version one successor.
ReviseReport(i, user) ==
  /\ report[i].state = "published"
  /\ Len(report) = i /\ i < MaxVersions
  /\ report' = Append(report, Draft(i + 1, user))
  /\ UNCHANGED <<sample, looked, analysis, event, values, ticket, edits>>

-----------------------------------------------------------------------------
Bodies == UNION {[S -> Value \cup {None}] : S \in (SUBSET Metric) \ {{}}}
Readings == UNION {[S -> Value] : S \in (SUBSET Metric) \ {{}}}

ResultsNext ==
  \/ \E metrics \in SUBSET Metric : CreateTask(metrics)
  \/ \E t \in DOMAIN analysis : CancelTask(t)
  \/ Look \/ FinishBatch
  \/ Cardinality(values) < MaxValues /\
     (\/ \E t \in DOMAIN analysis, id \in 1..MaxEvents, by \in Person, body \in Bodies : Ingest(t, id, by, body)
      \/ \E k \in DOMAIN StepOf, body \in Readings : DeviceRecord(k, body)
      \/ \E v \in values, x \in Value \cup {None}, by \in Person : Revise(v, x, by))

ReviewNext ==
  \/ \E v \in values, user \in Person : \E version \in {v.version, None} :
       Sign(user, <<"value", v.task, v.metric>>, version, {})
  \/ \E k \in ticket : Expire(k)
  \/ \E v \in values, user \in Person, conclusion \in {"approved", "rejected"},
        quality \in {"valid", "invalid"}, k \in ticket : Review(v, user, conclusion, quality, k)

ReportNext ==
  \/ \E user \in Person : CreateReport(user)
  \/ \E i \in DOMAIN report :
       \/ \E rv \in 1..report[i].rv : UpdateDraft(i, rv)
       \/ Submit(i)
       \/ \E user \in Person :
            \/ Sign(user, <<"report", i>>, report[i].rv, report[i].shown)
            \/ \E ref \in {<<"report", i>>, None} : Sign(user, ref, None, {})
            \/ RejectReport(i, user) \/ ReviseReport(i, user)
            \/ \E k \in ticket : ApproveReport(i, user, k) \/ Publish(i, user, k)

RecordsNext == ResultsNext \/ ReviewNext \/ ReportNext

RecordsSpec == RecordsInit /\ [][RecordsNext]_rvars

-----------------------------------------------------------------------------
(* Properties.                                                              *)

\* services/analysis_service.py:207 to 209: a sample is done only when its batch
\* has run to its end and every task its state was judged by has a value of each
\* metric it asks for: no values of a device that come half way
\* through, no correction and no cancelled task make it done before, also when
\* the end of the batch, values, corrections and cancellations overlap.
SettledOnlyWhole ==
  sample.state = "done" =>
    /\ sample.batch = "done" /\ sample.counted # {}
    /\ \A t \in sample.counted : \A m \in analysis[t].metrics : InForce(values, t, m) # {}

\* What a report was approved or published as is what the signer saw: no edit, no
\* rejection and resubmission, comes between, when the signature names the report
\* and its version, as those do that the program asks for (web
\* src/features/reports/ReportsPage.tsx:271 and 287, identity_service.consume_signature, report_service.approve
\* and publish). One that leaves the version open is taken for any.
SignedAsSeen ==
  \A i \in DOMAIN report :
    report[i].state \in {"approved", "published", "superseded"}
      => report[i].signed \in {report[i].shown, None}

\* A report has one published version at most, and the last one published is it
\* (report_service.publish and revise).
OnePublished ==
  \A i, j \in DOMAIN report :
    /\ report[i].state = "published" /\ report[j].state = "published" => i = j
    /\ i < j /\ report[j].state \in {"published", "superseded"} => report[i].state = "superseded"

\* The published report is one, the last, and what those saw whose signatures name it.
ReportsStand == SignedAsSeen /\ OnePublished

=============================================================================
