--------------------------- MODULE Records_proofs ---------------------------
(***************************************************************************)
(* For any metrics, rules, people and bounds: a sample is done only when   *)
(* its batch is and every task it was judged by has its values; and the    *)
(* published report is one, the last, and what its signers saw.            *)
(***************************************************************************)
EXTENDS Records, WellFoundedInduction, TLAPS

-----------------------------------------------------------------------------
(* The invariant.  A task that is collected, or was when it was read, has a *)
(* value of every metric, and keeps having one: what is superseded is       *)
(* replaced.  A signature on a report saw it as it is unless the report has *)
(* moved since; only the last version of a report is still worked on.       *)

TaskRow == [state : {"pending", "collecting", "collected", "cancelled"},
            metrics : (SUBSET Metric) \ {{}}, device : BOOLEAN]
IsValue(v) == v \in [task : {v.task}, metric : {v.metric}, version : {v.version}, val : {v.val}, from : {v.from},
                     by : {v.by}, origin : {v.origin}, super : BOOLEAN, review : {v.review},
                     quality : {v.quality}]
IsSample(s) == s \in [state : {"running", "done"}, batch : {"running", "done"}, counted : {s.counted}]

\* Every value is one of a task.
Homed(rows, tasks) == \A v \in rows : v.task \in tasks

FillTyped ==
  /\ IsSample(sample)
  /\ analysis \in Seq(TaskRow)
  /\ \A v \in values : IsValue(v)
  /\ Homed(values, DOMAIN analysis)

Filled(a, rows, t) == \A m \in a.metrics : InForce(rows, t, m) # {}

\* What is seen of the tasks is true of them: those that are collected have their values.
Sound(view, tasks, rows) ==
  \A t \in DOMAIN view : t \in DOMAIN tasks /\ (view[t].state = "collected" => Filled(tasks[t], rows, t))

Whole(s, tasks, rows) ==
  s.state = "done" =>
    s.batch = "done" /\ s.counted # {} /\ \A t \in s.counted : t \in DOMAIN tasks /\ Filled(tasks[t], rows, t)

FillInv ==
  /\ FillTyped
  /\ Sound(analysis, analysis, values)
  /\ looked # None => (looked.batch = "done" => sample.batch = "done") /\ Sound(looked.tasks, analysis, values)
  /\ Whole(sample, analysis, values)

Gone == {"published", "superseded"}
IsReport(r) == r \in [version : {r.version}, state : {"draft", "review", "approved"} \cup Gone, author : {r.author},
                      shown : {r.shown}, rv : Nat, signed : {r.signed}]

\* A signature that names the report and its version.
OnReport(k, i) == k.ref = <<"report", i>> /\ k.version # None
SeenOn(k, r) == k.version \in Nat /\ k.version <= r.rv /\ (k.version = r.rv => k.seen = r.shown)

ReportInv ==
  /\ \E S : report \in Seq(S)
  /\ \A i \in DOMAIN report : IsReport(report[i])
  /\ \A k \in ticket : \A i \in Nat : OnReport(k, i) => i \in DOMAIN report /\ SeenOn(k, report[i])
  /\ \A i \in DOMAIN report : i < Len(report) => report[i].state \in Gone
  /\ ReportsStand

RecordsInv == FillInv /\ ReportInv

-----------------------------------------------------------------------------
(* Values.                                                                  *)

\* A metric that has a value goes on having one.
Grows(new, old) ==
  /\ \A v \in new : IsValue(v)
  /\ \A t, m : InForce(old, t, m) # {} => InForce(new, t, m) # {}

(* A new value is one of its task, and not superseded.                      *)
LEMMA EntryIs ==
  ASSUME NEW rows, NEW t, NEW m, NEW x, NEW from, NEW by, NEW origin, NEW suspect
  PROVE  IsValue(Entry(rows, t, m, x, from, by, origin, suspect))
         /\ Entry(rows, t, m, x, from, by, origin, suspect).task = t
         /\ Entry(rows, t, m, x, from, by, origin, suspect).metric = m
BY DEF IsValue, Entry

LEMMA EntryStands ==
  ASSUME NEW rows, NEW t, NEW m, NEW x, NEW from, NEW by, NEW origin, NEW suspect
  PROVE  ~Entry(rows, t, m, x, from, by, origin, suspect).super
BY DEF Entry

(* What is superseded is still a value.                                     *)
LEMMA SupersededIs ==
  ASSUME NEW v, IsValue(v)
  PROVE  IsValue([v EXCEPT !.super = TRUE])
BY DEF IsValue

(* So it stays with its task.                                               *)
LEMMA ReplacedHomed ==
  ASSUME NEW rows, NEW tasks, NEW gone, NEW new, Homed(rows, tasks), \A v \in rows : IsValue(v),
         \A v \in gone : v \in rows, \A v \in new : v.task \in tasks
  PROVE  Homed(Superseded(rows, gone) \cup new, tasks)
<1>1. \A v \in Superseded(rows, gone) : v \in rows \/ \E w \in gone : v = [w EXCEPT !.super = TRUE]
  BY Zenon DEF Superseded
<1>2. \A w \in rows : [w EXCEPT !.super = TRUE].task = w.task
  BY DEF IsValue
<1>3. QED
  BY <1>1, <1>2 DEF Homed

(* New values take nothing away, whatever they supersede, when each that is *)
(* superseded is replaced.                                                  *)
LEMMA ReplacedGrows ==
  ASSUME NEW rows, NEW gone, NEW new, NEW now, \A v \in rows : IsValue(v), \A v \in gone : v \in rows,
         \A v \in new : IsValue(v), now = Superseded(rows, gone) \cup new,
         \A v \in gone : \E e \in new : e.task = v.task /\ e.metric = v.metric /\ ~e.super
  PROVE  Grows(now, rows)
<1>1. \A v \in Superseded(rows, gone) : v \in rows \/ \E w \in gone : v = [w EXCEPT !.super = TRUE]
  BY Zenon DEF Superseded
<1>2. \A v \in rows : v \in gone \/ v \in now
  BY DEF Superseded
<1>3. \A v \in Superseded(rows, gone) : IsValue(v)
  BY <1>1, SupersededIs
<1>4. ASSUME NEW t, NEW m, InForce(rows, t, m) # {} PROVE InForce(now, t, m) # {}
  <2>1. PICK v \in rows : v.task = t /\ v.metric = m /\ ~v.super
    BY <1>4 DEF InForce, Of
  <2>2. \E e \in now : e.task = t /\ e.metric = m /\ ~e.super
    BY <1>2, <2>1
  <2>3. QED
    BY <2>2 DEF InForce, Of
<1>5. QED
  BY <1>3, <1>4, Zenon DEF Grows

(* So do values that supersede none.                                        *)
LEMMA EntriesGrow ==
  ASSUME NEW rows, NEW new, \A v \in rows : IsValue(v), \A v \in new : IsValue(v)
  PROVE  Grows(rows \cup new, rows)
<1>1. ASSUME NEW t, NEW m, InForce(rows, t, m) # {} PROVE InForce(rows \cup new, t, m) # {}
  BY <1>1 DEF InForce, Of
<1>2. QED
  BY <1>1, Zenon DEF Grows

(* So does one change of the values after the other.                        *)
LEMMA GrowsAgain ==
  ASSUME NEW a, NEW b, NEW c, Grows(b, a), Grows(c, b)
  PROVE  Grows(c, a)
BY Zenon DEF Grows

(* A task that has its values keeps having them.                            *)
LEMMA StaysFilled ==
  ASSUME NEW a, NEW b, a.metrics = b.metrics, NEW old, NEW new, Grows(new, old), NEW t, Filled(a, old, t)
  PROVE  Filled(b, new, t)
BY DEF Filled, Grows

-----------------------------------------------------------------------------
(* The sample.                                                              *)

(* A sample that is judged by what is true of its tasks is done only with   *)
(* all values there.                                                        *)
LEMMA SettledIsWhole ==
  ASSUME NEW s, IsSample(s), NEW batch, batch = "done" => s.batch = "done",
         NEW view, NEW tasks, NEW rows, Sound(view, tasks, rows), Whole(s, tasks, rows)
  PROVE  /\ IsSample(Settled(s, batch, view)) /\ Settled(s, batch, view).batch = s.batch
         /\ Whole(Settled(s, batch, view), tasks, rows)
<1> DEFINE open == Open(view)
           new == [s EXCEPT !.state = "done", !.counted = open]
<1>1. CASE s.state = "running" /\ batch = "done" /\ Complete(view)
  <2>1. Settled(s, batch, view) = new
    BY <1>1 DEF Settled
  <2>2. open # {} /\ \A t \in open : t \in DOMAIN view /\ view[t].state = "collected"
    BY <1>1 DEF Complete, Open
  <2> HIDE DEF open
  <2>3. IsSample(new) /\ new.state = "done" /\ new.batch = s.batch /\ new.counted = open
    BY DEF IsSample
  <2> HIDE DEF new
  <2>4. Whole(new, tasks, rows)
    BY <1>1, <2>2, <2>3 DEF Whole, Sound
  <2>5. QED
    BY <2>1, <2>3, <2>4
<1>2. CASE ~(s.state = "running" /\ batch = "done" /\ Complete(view))
  <2>1. Settled(s, batch, view) = s
    BY <1>2, Zenon DEF Settled
  <2>2. QED
    BY <2>1
<1>3. QED
  BY <1>1, <1>2

(* What is true of the tasks and the sample stays true.                     *)
LEMMA StaysSound ==
  ASSUME NEW view, NEW tasks, NEW new, NEW old, NEW now,
         \A u \in DOMAIN tasks : u \in DOMAIN new /\ new[u].metrics = tasks[u].metrics, Grows(now, old)
  PROVE  /\ Sound(view, tasks, old) => Sound(view, new, now)
         /\ \A s : Whole(s, tasks, old) => Whole(s, new, now)
<1>1. \A u \in DOMAIN tasks : Filled(tasks[u], old, u) => Filled(new[u], now, u)
  BY StaysFilled
<1>2. Sound(view, tasks, old) => Sound(view, new, now)
  BY <1>1 DEF Sound
<1>3. ASSUME NEW s, Whole(s, tasks, old) PROVE Whole(s, new, now)
  BY <1>1, <1>3 DEF Whole
<1>4. QED
  BY <1>2, <1>3

(* A change of the tasks and their values ends with the judgement.          *)
LEMMA Judged ==
  ASSUME FillInv, NEW t, analysis' \in Seq(TaskRow), t \in DOMAIN analysis',
         \A u \in DOMAIN analysis : u \in DOMAIN analysis' /\ analysis'[u].metrics = analysis[u].metrics,
         Grows(values', values), Homed(values', DOMAIN analysis'), Sound(analysis', analysis', values'), Judge(analysis', {t})
  PROVE  FillInv'
<1>1. /\ IsSample(sample) /\ Whole(sample, analysis', values')
      /\ looked # None => (looked.batch = "done" => sample.batch = "done") /\ Sound(looked.tasks, analysis', values')
  BY StaysSound DEF FillInv, FillTyped
<1>2. \A v \in values' : IsValue(v)
  BY DEF Grows
<1>3. CASE sample' = Settled(sample, sample.batch, analysis') /\ looked' = looked
  <2>1. IsSample(sample') /\ sample'.batch = sample.batch /\ Whole(sample', analysis', values')
    BY <1>1, <1>3, SettledIsWhole
  <2>2. QED
    BY <1>1, <1>2, <1>3, <2>1 DEF FillInv, FillTyped
<1>4. CASE looked # None /\ looked' = None /\ sample' = Settled(sample, looked.batch, Seen(analysis', {t}))
  <2> DEFINE view == Seen(analysis', {t})
  <2>1. /\ DOMAIN view = DOMAIN looked.tasks \cup {t} /\ view[t] = analysis'[t]
        /\ \A u \in DOMAIN looked.tasks : u # t => view[u] = looked.tasks[u]
    BY DEF Seen
  <2> HIDE DEF view
  <2>2. Sound(view, analysis', values')
    BY <1>1, <1>4, <2>1 DEF Sound
  <2>3. IsSample(sample') /\ sample'.batch = sample.batch /\ Whole(sample', analysis', values')
    BY <1>1, <1>4, <2>2, SettledIsWhole DEF view
  <2>4. QED
    BY <1>2, <1>4, <2>3 DEF FillInv, FillTyped
<1>5. QED
  BY <1>3, <1>4 DEF Judge

(* Refreshing the task whose values came in makes it collected when it has  *)
(* them all.                                                                *)
LEMMA RefreshedFills ==
  ASSUME FillInv, NEW tasks \in Seq(TaskRow), NEW t \in DOMAIN tasks,
         \A u \in DOMAIN analysis : u \in DOMAIN tasks /\ tasks[u] = analysis[u],
         Sound(tasks, tasks, values), Grows(values', values), Homed(values', DOMAIN tasks),
         analysis' = Refreshed(tasks, values', t), Judge(analysis', {t})
  PROVE  FillInv'
<1>1. tasks \in [1..Len(tasks) -> TaskRow] /\ DOMAIN tasks = 1..Len(tasks) /\ Len(tasks) \in Nat
  OBVIOUS
<1> DEFINE state == IF tasks[t].state = "cancelled" THEN "cancelled"
                    ELSE IF Filled(tasks[t], values', t) THEN "collected"
                    ELSE IF \E m \in Metric : InForce(values', t, m) # {} THEN "collecting" ELSE "pending"
           new == [tasks[t] EXCEPT !.state = state]
<1>2. analysis' = [u \in DOMAIN tasks |-> IF u = t THEN new ELSE tasks[u]]
  BY Zenon DEF Refreshed, Filled
<1>3. tasks[t] \in TaskRow /\ state \in {"pending", "collecting", "collected", "cancelled"}
  BY <1>1
<1>4. state = "collected" => Filled(tasks[t], values', t)
  OBVIOUS
<1> HIDE DEF state
<1>5. new \in TaskRow /\ new.state = state /\ new.metrics = tasks[t].metrics
  BY <1>3 DEF TaskRow
<1> HIDE DEF new
<1>6. analysis' \in [1..Len(tasks) -> TaskRow]
  BY <1>1, <1>2, <1>5
<1>7. analysis' \in Seq(TaskRow) /\ DOMAIN analysis' = DOMAIN tasks
  BY <1>1, <1>6
<1>8. \A u \in DOMAIN tasks : analysis'[u].metrics = tasks[u].metrics
  BY <1>2, <1>5
<1>9. ASSUME NEW u \in DOMAIN analysis', analysis'[u].state = "collected"
      PROVE  Filled(analysis'[u], values', u)
  <2>1. CASE u = t
    <3>1. analysis'[u] = new
      BY <1>2, <1>7, <2>1
    <3>2. QED
      BY <1>4, <1>5, <1>9, <2>1, <3>1 DEF Filled
  <2>2. CASE u # t
    <3>1. analysis'[u] = tasks[u]
      BY <1>2, <1>7, <2>2
    <3>2. Filled(tasks[u], values, u)
      BY <1>7, <1>9, <3>1 DEF Sound
    <3>3. QED
      BY <3>1, <3>2, StaysFilled
  <2>3. QED
    BY <2>1, <2>2
<1>10. Sound(analysis', analysis', values')
  BY <1>9 DEF Sound
<1>11. QED
  BY <1>7, <1>8, <1>10, Judged

(* A nonempty set of numbers has a least one.                               *)
LEMMA SmallestOfAll ==
  ASSUME NEW S \in SUBSET Nat, S # {}
  PROVE  \E s \in S : \A t \in S : s <= t
<1>1. PICK s \in S : \A t \in S : <<t, s>> \notin OpToRel(<, Nat)
  BY NatLessThanWellFounded, WFMin, Zenon
<1>2. ASSUME NEW t \in S PROVE s <= t
  <2>1. ~(t < s)
    BY <1>1 DEF OpToRel
  <2>2. QED
    BY <2>1
<1>3. QED
  BY <1>2

-----------------------------------------------------------------------------
(* The tasks and their values.                                              *)

(* The task for what the stations report is one, and others stay.           *)
LEMMA DeviceTaskIs ==
  ASSUME FillInv, Metric # {}, NEW d, d = DeviceTask(analysis)
  PROVE  /\ d.tasks \in Seq(TaskRow) /\ d.id \in DOMAIN d.tasks
         /\ \A u \in DOMAIN analysis : u \in DOMAIN d.tasks /\ d.tasks[u] = analysis[u]
         /\ Sound(d.tasks, d.tasks, values)
<1> DEFINE mine == {t \in DOMAIN analysis : analysis[t].device /\ analysis[t].state # "cancelled"}
           new == Task(Metric, TRUE)
<1>1. /\ analysis \in Seq(TaskRow) /\ DOMAIN analysis = 1..Len(analysis) /\ Len(analysis) \in Nat
      /\ Sound(analysis, analysis, values)
  BY DEF FillInv, FillTyped
<1>2. CASE mine = {}
  <2>1. d.tasks = Append(analysis, new) /\ d.id = Len(analysis) + 1
    BY <1>2 DEF DeviceTask
  <2>2. new \in TaskRow /\ new.state = "pending"
    BY DEF Task, TaskRow
  <2> HIDE DEF new
  <2>3. /\ d.tasks \in Seq(TaskRow) /\ DOMAIN d.tasks = 1..(Len(analysis) + 1)
        /\ d.tasks[Len(analysis) + 1] = new /\ \A u \in DOMAIN analysis : d.tasks[u] = analysis[u]
    BY <1>1, <2>1, <2>2
  <2>4. \A u \in DOMAIN d.tasks : u \in DOMAIN analysis \/ u = Len(analysis) + 1
    BY <1>1, <2>3
  <2>5. Sound(d.tasks, d.tasks, values)
    BY <1>1, <2>2, <2>3, <2>4 DEF Sound
  <2>6. QED
    BY <1>1, <2>1, <2>3, <2>5
<1>3. CASE mine # {}
  <2>1. d.tasks = analysis /\ d.id = CHOOSE t \in mine : \A u \in mine : t <= u
    BY <1>3, Zenon DEF DeviceTask
  <2>2. mine \in SUBSET Nat
    BY <1>1
  <2>3. \E t \in mine : \A u \in mine : t <= u
    <3> HIDE DEF mine
    <3>1. QED
      BY <1>3, <2>2, SmallestOfAll
  <2>4. d.id \in mine
    BY <2>1, <2>3, Zenon
  <2>5. QED
    BY <1>1, <2>1, <2>4
<1>4. QED
  BY <1>2, <1>3

(* Values do not change.                                                    *)
LEMMA NoneGrows == ASSUME NEW rows, \A v \in rows : IsValue(v) PROVE Grows(rows, rows)
BY Zenon DEF Grows

(* Each step of the tasks and their values keeps what is known of them.     *)
LEMMA ResultsStep == ASSUME FillInv, ResultsNext PROVE FillInv'
<1>1. /\ analysis \in Seq(TaskRow) /\ DOMAIN analysis = 1..Len(analysis) /\ Len(analysis) \in Nat
      /\ \A t \in DOMAIN analysis : analysis[t] \in TaskRow
      /\ Sound(analysis, analysis, values) /\ Whole(sample, analysis, values) /\ IsSample(sample)
      /\ FillTyped /\ (\A v \in values : IsValue(v)) /\ Grows(values, values)
      /\ Homed(values, DOMAIN analysis)
      /\ looked # None => (looked.batch = "done" => sample.batch = "done") /\ Sound(looked.tasks, analysis, values)
  BY NoneGrows DEF FillInv, FillTyped
<1>2. ASSUME NEW metrics \in SUBSET Metric, CreateTask(metrics) PROVE FillInv'
  <2> DEFINE new == Task(metrics, FALSE)
  <2>1. metrics # {} /\ analysis' = Append(analysis, new) /\ UNCHANGED <<sample, looked, values>>
    BY <1>2 DEF CreateTask
  <2>2. new \in TaskRow /\ new.state = "pending"
    BY <2>1 DEF Task, TaskRow
  <2> HIDE DEF new
  <2>3. /\ analysis' \in Seq(TaskRow) /\ DOMAIN analysis' = 1..(Len(analysis) + 1)
        /\ analysis'[Len(analysis) + 1] = new /\ \A u \in DOMAIN analysis : analysis'[u] = analysis[u]
    BY <1>1, <2>1, <2>2
  <2>4. \A u \in DOMAIN analysis : u \in DOMAIN analysis' /\ analysis'[u].metrics = analysis[u].metrics
    BY <1>1, <2>3
  <2>5. /\ Sound(analysis, analysis', values) /\ Whole(sample, analysis', values)
        /\ looked # None => Sound(looked.tasks, analysis', values)
    BY <1>1, <2>4, StaysSound
  <2>6. \A u \in DOMAIN analysis' : u \in DOMAIN analysis \/ u = Len(analysis) + 1
    BY <1>1, <2>3
  <2>7. Sound(analysis', analysis', values)
    BY <2>2, <2>3, <2>5, <2>6 DEF Sound
  <2>8. Homed(values', DOMAIN analysis')
    BY <1>1, <2>1, <2>4 DEF Homed
  <2>9. QED
    BY <1>1, <2>1, <2>3, <2>5, <2>7, <2>8 DEF FillInv, FillTyped
<1>3. ASSUME NEW t \in DOMAIN analysis, CancelTask(t) PROVE FillInv'
  <2> DEFINE new == [analysis[t] EXCEPT !.state = "cancelled"]
  <2>1. /\ analysis' = [u \in DOMAIN analysis |-> IF u = t THEN new ELSE analysis[u]] /\ values' = values
        /\ Judge(analysis', {t})
    BY <1>3, Zenon DEF CancelTask
  <2>2. new \in TaskRow /\ new.state = "cancelled" /\ new.metrics = analysis[t].metrics
    BY <1>1 DEF TaskRow
  <2> HIDE DEF new
  <2>3. analysis' \in [1..Len(analysis) -> TaskRow]
    BY <1>1, <2>1, <2>2
  <2>4. analysis' \in Seq(TaskRow) /\ DOMAIN analysis' = DOMAIN analysis
    BY <1>1, <2>3
  <2>5. \A u \in DOMAIN analysis : u \in DOMAIN analysis' /\ analysis'[u].metrics = analysis[u].metrics
    BY <2>1, <2>2, <2>4
  <2>6. Sound(analysis', analysis', values')
    <3>1. Sound(analysis, analysis', values')
      BY <1>1, <2>1, <2>5, StaysSound
    <3>2. QED
      BY <2>1, <2>2, <2>4, <3>1 DEF Sound
  <2>7. Grows(values', values) /\ Homed(values', DOMAIN analysis')
    BY <1>1, <2>1, <2>4
  <2>8. QED
    BY <2>1, <2>4, <2>5, <2>6, <2>7, Judged
<1>4. ASSUME FinishBatch PROVE FillInv'
  <2> DEFINE s == [sample EXCEPT !.batch = "done"]
  <2>1. /\ UNCHANGED <<analysis, values>> /\ sample.batch = "running"
        /\ \/ sample' = Settled(s, "done", analysis) /\ looked' = looked
           \/ looked # None /\ looked' = None /\ sample' = Settled(s, "done", looked.tasks)
    BY <1>4 DEF FinishBatch
  <2>2. IsSample(s) /\ s.batch = "done" /\ s.state = sample.state
    BY <1>1 DEF IsSample
  <2> HIDE DEF s
  <2>3. Whole(s, analysis, values)
    BY <1>1, <2>1, <2>2 DEF Whole
  <2>4. CASE sample' = Settled(s, "done", analysis) /\ looked' = looked
    <3>1. IsSample(sample') /\ sample'.batch = "done" /\ Whole(sample', analysis, values)
      BY <1>1, <2>2, <2>3, <2>4, SettledIsWhole
    <3>2. QED
      BY <1>1, <2>1, <2>4, <3>1 DEF FillInv, FillTyped
  <2>5. CASE looked # None /\ looked' = None /\ sample' = Settled(s, "done", looked.tasks)
    <3>1. IsSample(sample') /\ sample'.batch = "done" /\ Whole(sample', analysis, values)
      BY <1>1, <2>2, <2>3, <2>5, SettledIsWhole
    <3>2. QED
      BY <1>1, <2>1, <2>5, <3>1 DEF FillInv, FillTyped
  <2>6. QED
    BY <2>1, <2>4, <2>5
<1>9. ASSUME Look PROVE FillInv'
  <2>1. looked' = [batch |-> sample.batch, tasks |-> analysis] /\ UNCHANGED <<sample, analysis, values>>
    BY <1>9 DEF Look
  <2>2. looked'.batch = sample.batch /\ looked'.tasks = analysis
    BY <2>1
  <2>3. QED
    BY <1>1, <2>1, <2>2 DEF FillInv, FillTyped
<1>5. ASSUME NEW t \in DOMAIN analysis, NEW id, NEW by \in Person, NEW body \in Bodies, Ingest(t, id, by, body)
      PROVE  FillInv'
  <2>1. /\ analysis' = Refreshed(analysis, values', t) /\ Judge(analysis', {t})
        /\ \E rows \in {Rows(body) \cup DerivedRows(body, analysis[t].metrics, t, FALSE)} :
           \E fresh \in {Fresh(rows)}, old \in {Numbers(values, t)} :
             /\ \A r \in Broken(old, fresh) : ~r.reject
             /\ values' = values \cup
                  {Entry(values, t, r[1], r[2], r[3], by, 0, Flagged(r[1], r[2], old, fresh)) : r \in rows}
    BY <1>5, Zenon DEF Ingest
  <2>2. PICK rows \in {Rows(body) \cup DerivedRows(body, analysis[t].metrics, t, FALSE)} :
          \E fresh \in {Fresh(rows)}, old \in {Numbers(values, t)} :
             /\ \A r \in Broken(old, fresh) : ~r.reject
             /\ values' = values \cup
                  {Entry(values, t, r[1], r[2], r[3], by, 0, Flagged(r[1], r[2], old, fresh)) : r \in rows}
    BY <2>1
  <2>3. PICK fresh \in {Fresh(rows)}, old \in {Numbers(values, t)} :
             /\ \A r \in Broken(old, fresh) : ~r.reject
             /\ values' = values \cup
                  {Entry(values, t, r[1], r[2], r[3], by, 0, Flagged(r[1], r[2], old, fresh)) : r \in rows}
    BY <2>2
  <2> DEFINE odd(r) == Flagged(r[1], r[2], old, fresh)
             new == {Entry(values, t, r[1], r[2], r[3], by, 0, odd(r)) : r \in rows}
  <2>4. values' = values \cup new
    BY <2>3
  <2> HIDE DEF odd
  <2>5. \A v \in new : IsValue(v) /\ v.task = t
    BY EntryIs
  <2> HIDE DEF new
  <2>6. Grows(values', values)
    BY <1>1, <2>4, <2>5, EntriesGrow
  <2>8. Homed(values', DOMAIN analysis)
    BY <1>1, <2>4, <2>5 DEF Homed
  <2>7. QED
    BY <1>1, <2>1, <2>6, <2>8, RefreshedFills
<1>6. ASSUME NEW k \in DOMAIN StepOf, NEW body \in Readings, DeviceRecord(k, body) PROVE FillInv'
  <2>1. Metric # {}
    BY DEF Readings
  <2>2. PICK d \in {DeviceTask(analysis)} :
        /\ \E given \in {ThisStepOnly(d.id, StepOf[k], Rows(body))} :
             /\ given # {}
             /\ \E rows \in {given \cup ThisStepOnly(d.id, StepOf[k],
                    DerivedRows([m \in {r[1] : r \in given} |-> body[m]], d.tasks[d.id].metrics, d.id, TRUE))} :
                \E fresh \in {Fresh(rows)}, old \in {Numbers(values, d.id)} :
                  values' = Superseded(values, UNION {Current(values, d.id, r[1]) : r \in rows}) \cup
                    {Entry(values, d.id, r[1], r[2], r[3], "device", StepOf[k],
                           \/ Flagged(r[1], r[2], old, fresh)
                           \/ \E b \in Broken(old, fresh) : b.reject) : r \in rows}
        /\ analysis' = Refreshed(d.tasks, values', d.id) /\ Judge(analysis', {d.id})
    BY <1>6, Zenon DEF DeviceRecord
  <2>3. /\ d.tasks \in Seq(TaskRow) /\ d.id \in DOMAIN d.tasks
        /\ \A u \in DOMAIN analysis : u \in DOMAIN d.tasks /\ d.tasks[u] = analysis[u]
        /\ Sound(d.tasks, d.tasks, values)
    BY <2>1, DeviceTaskIs
  <2>4. PICK given \in {ThisStepOnly(d.id, StepOf[k], Rows(body))} :
             /\ given # {}
             /\ \E rows \in {given \cup ThisStepOnly(d.id, StepOf[k],
                    DerivedRows([m \in {r[1] : r \in given} |-> body[m]], d.tasks[d.id].metrics, d.id, TRUE))} :
                \E fresh \in {Fresh(rows)}, old \in {Numbers(values, d.id)} :
                  values' = Superseded(values, UNION {Current(values, d.id, r[1]) : r \in rows}) \cup
                    {Entry(values, d.id, r[1], r[2], r[3], "device", StepOf[k],
                           \/ Flagged(r[1], r[2], old, fresh)
                           \/ \E b \in Broken(old, fresh) : b.reject) : r \in rows}
    BY <2>2, Zenon
  <2>12. PICK rows \in {given \cup ThisStepOnly(d.id, StepOf[k],
                    DerivedRows([m \in {r[1] : r \in given} |-> body[m]], d.tasks[d.id].metrics, d.id, TRUE))} :
                \E fresh \in {Fresh(rows)}, old \in {Numbers(values, d.id)} :
                  values' = Superseded(values, UNION {Current(values, d.id, r[1]) : r \in rows}) \cup
                    {Entry(values, d.id, r[1], r[2], r[3], "device", StepOf[k],
                           \/ Flagged(r[1], r[2], old, fresh)
                           \/ \E b \in Broken(old, fresh) : b.reject) : r \in rows}
    BY <2>4, Zenon
  <2>13. PICK fresh \in {Fresh(rows)}, old \in {Numbers(values, d.id)} :
                  values' = Superseded(values, UNION {Current(values, d.id, r[1]) : r \in rows}) \cup
                    {Entry(values, d.id, r[1], r[2], r[3], "device", StepOf[k],
                           \/ Flagged(r[1], r[2], old, fresh)
                           \/ \E b \in Broken(old, fresh) : b.reject) : r \in rows}
    BY <2>12, Zenon
  <2> DEFINE gone == UNION {Current(values, d.id, r[1]) : r \in rows}
             odd(r) == Flagged(r[1], r[2], old, fresh) \/ \E b \in Broken(old, fresh) : b.reject
             new == {Entry(values, d.id, r[1], r[2], r[3], "device", StepOf[k], odd(r)) : r \in rows}
  <2>7. values' = Superseded(values, gone) \cup new
    BY <2>13
  <2> HIDE DEF odd
  <2>5. \A v \in gone : v \in values /\ v.task = d.id /\ \E r \in rows : v.metric = r[1]
    BY DEF Current, InForce, Of
  <2>6. \A v \in new : IsValue(v) /\ v.task = d.id
    BY EntryIs
  <2>14. ASSUME NEW r \in rows PROVE \E e \in new : e.task = d.id /\ e.metric = r[1] /\ ~e.super
    <3> DEFINE e == Entry(values, d.id, r[1], r[2], r[3], "device", StepOf[k], odd(r))
    <3>1. e \in new
      BY Zenon
    <3>2. e.task = d.id /\ e.metric = r[1]
      BY EntryIs
    <3>3. ~e.super
      BY EntryStands
    <3>4. QED
      BY <3>1, <3>2, <3>3
  <2> HIDE DEF gone, new
  <2>8. \A v \in gone : \E e \in new : e.task = v.task /\ e.metric = v.metric /\ ~e.super
    BY <2>5, <2>14
  <2>9. Grows(values', values)
    BY <1>1, <2>5, <2>6, <2>7, <2>8, ReplacedGrows
  <2>10. Homed(values', DOMAIN d.tasks)
    <3>1. Homed(values, DOMAIN d.tasks)
      BY <1>1, <2>3 DEF Homed
    <3>2. QED
      BY <1>1, <2>3, <2>5, <2>6, <2>7, <3>1, ReplacedHomed
  <2>11. QED
    BY <2>2, <2>3, <2>9, <2>10, RefreshedFills
<1>7. ASSUME NEW v \in values, NEW x, NEW by \in Person, Revise(v, x, by) PROVE FillInv'
  <2> DEFINE t == v.task
  <2>2. /\ \E rows, old, fresh :
             /\ rows = Superseded(values, {v}) \cup
                  {Entry(values, t, v.metric, x, None, by, v.origin, Flagged(v.metric, x, old, fresh))}
             /\ values' = IF v.metric \in Curve THEN Rederived(rows, t, v.metric, x, by) ELSE rows
        /\ analysis' = Refreshed(analysis, values', t) /\ Judge(analysis', {t})
    BY <1>7, Zenon DEF Revise
  <2>3. PICK rows, old, fresh :
          /\ rows = Superseded(values, {v}) \cup
               {Entry(values, t, v.metric, x, None, by, v.origin, Flagged(v.metric, x, old, fresh))}
          /\ values' = IF v.metric \in Curve THEN Rederived(rows, t, v.metric, x, by) ELSE rows
    BY <2>2
  <2>6. t \in DOMAIN analysis
    BY <1>1 DEF Homed
  <2>4. Grows(rows, values) /\ Homed(rows, DOMAIN analysis)
    <3> DEFINE e == Entry(values, t, v.metric, x, None, by, v.origin, Flagged(v.metric, x, old, fresh))
    <3>8. IsValue(e) /\ e.task = v.task /\ e.metric = v.metric
      BY EntryIs
    <3>9. ~e.super
      BY EntryStands
    <3>1. IsValue(e) /\ e.task = v.task /\ e.metric = v.metric /\ ~e.super
      BY <3>8, <3>9
    <3>2. rows = Superseded(values, {v}) \cup {e}
      BY <2>3
    <3> HIDE DEF e
    <3>3. /\ \A w \in {v} : w \in values /\ \E f \in {e} : f.task = w.task /\ f.metric = w.metric /\ ~f.super
          /\ \A w \in {e} : IsValue(w)
      BY <3>1
    <3>4. Grows(rows, values)
      <4> DEFINE gone == {v}
                 new == {e}
      <4>1. /\ rows = Superseded(values, gone) \cup new /\ \A w \in new : IsValue(w)
            /\ \A w \in gone : w \in values /\ \E f \in new : f.task = w.task /\ f.metric = w.metric /\ ~f.super
        BY <3>2, <3>3
      <4> HIDE DEF gone, new
      <4>2. QED
        BY <1>1, <4>1, ReplacedGrows
    <3>5. \A w \in {e} : w.task \in DOMAIN analysis
      BY <2>6, <3>1
    <3>6. Homed(rows, DOMAIN analysis)
      BY <1>1, <3>2, <3>3, <3>5, ReplacedHomed
    <3>7. QED
      BY <3>4, <3>6
  <2>5. Grows(values', values) /\ Homed(values', DOMAIN analysis)
    <3>1. CASE v.metric \notin Curve
      BY <2>3, <2>4, <3>1
    <3>2. CASE v.metric \in Curve
      <4> DEFINE hit == {w \in rows : w.from = v.metric /\ w.task = t /\ w.metric \in DerivedOf[v.metric]
                                      /\ w \in Current(rows, t, w.metric)}
                 num == IF x = None THEN None ELSE Peak[x]
                 odd(w) == <<w.metric, num>> \in Odd
                 new == {Entry(rows, t, w.metric, num, v.metric, by, w.origin, odd(w)) : w \in hit}
      <4>1. values' = Superseded(rows, hit) \cup new
        BY <2>3, <3>2, Zenon DEF Rederived
      <4>2. \A w \in rows : IsValue(w)
        BY <2>4 DEF Grows
      <4>3. \A w \in hit : w \in rows /\ w.task = t
        OBVIOUS
      <4>4. (\A e \in new : IsValue(e) /\ e.task = t) /\ \A w \in hit : \E e \in new : e.task = t /\ e.metric = w.metric /\ ~e.super
        <5> HIDE DEF hit, num, odd, t
        <5>1. \A e \in new : IsValue(e) /\ e.task = t
          BY EntryIs
        <5>2. ASSUME NEW w \in hit PROVE \E e \in new : e.task = t /\ e.metric = w.metric /\ ~e.super
          <6> DEFINE e == Entry(rows, t, w.metric, num, v.metric, by, w.origin, odd(w))
          <6>1. e \in new
            BY Zenon
          <6>2. e.task = t /\ e.metric = w.metric
            BY EntryIs
          <6>3. ~e.super
            BY EntryStands
          <6>4. QED
            BY <6>1, <6>2, <6>3
        <5>3. QED
          BY <5>1, <5>2
      <4> HIDE DEF hit, new
      <4>5. \A w \in hit : \E e \in new : e.task = w.task /\ e.metric = w.metric /\ ~e.super
        BY <4>3, <4>4
      <4>6. Grows(values', rows)
        BY <4>1, <4>2, <4>3, <4>4, <4>5, ReplacedGrows
      <4>7. Homed(values', DOMAIN analysis)
        BY <2>4, <2>6, <4>1, <4>2, <4>3, <4>4, ReplacedHomed
      <4>8. QED
        BY <2>4, <4>6, <4>7, GrowsAgain
    <3>3. QED
      BY <3>1, <3>2
  <2> HIDE DEF t
  <2>7. QED
    BY <1>1, <2>2, <2>5, <2>6, RefreshedFills
<1>8. QED
  BY <1>2, <1>3, <1>4, <1>5, <1>6, <1>7, <1>9 DEF ResultsNext

(* A review says something of a value and leaves it where it is.            *)
LEMMA ReviewFills ==
  ASSUME FillInv, NEW v \in values, NEW user, NEW conclusion, NEW quality, NEW k, Review(v, user, conclusion, quality, k)
  PROVE  FillInv'
<1> DEFINE new == [v EXCEPT !.review = conclusion, !.quality = quality]
<1>1. values' = (values \ {v}) \cup {new} /\ UNCHANGED <<sample, looked, analysis>> /\ ~v.super
  BY DEF Review
<1>2. FillTyped /\ IsValue(v) /\ \A w \in values : IsValue(w)
  BY DEF FillInv, FillTyped
<1>3. IsValue(new) /\ new.task = v.task /\ new.metric = v.metric /\ ~new.super
  BY <1>1, <1>2 DEF IsValue
<1> HIDE DEF new
<1>4. ASSUME NEW t, NEW m, InForce(values, t, m) # {} PROVE InForce(values', t, m) # {}
  BY <1>1, <1>3, <1>4 DEF InForce, Of
<1>5. Grows(values', values) /\ Homed(values', DOMAIN analysis')
  BY <1>1, <1>2, <1>3, <1>4 DEF Grows, Homed, FillTyped
<1>6. /\ Sound(analysis, analysis, values') /\ Whole(sample, analysis, values')
      /\ looked # None => Sound(looked.tasks, analysis, values')
  BY <1>5, StaysSound DEF FillInv
<1>7. QED
  BY <1>1, <1>2, <1>5, <1>6 DEF FillInv, FillTyped, Grows

(* What leaves the sample, the tasks and the values alone keeps it.         *)
LEMMA FillsOn == ASSUME FillInv, UNCHANGED <<sample, looked, analysis, values>> PROVE FillInv'
BY DEF FillInv, FillTyped, Homed

-----------------------------------------------------------------------------
(* The report.                                                              *)

(* A sequence, and what is added to it.                                     *)
LEMMA SequenceIs ==
  ASSUME NEW S, NEW s \in Seq(S)
  PROVE  DOMAIN s = 1..Len(s) /\ Len(s) \in Nat /\ s \in [1..Len(s) -> S]
OBVIOUS

(* A sequence with one more.                                                *)
LEMMA AppendedIs ==
  ASSUME NEW S, NEW s \in Seq(S), NEW e, NEW new, new = Append(s, e)
  PROVE  /\ new \in Seq(S \cup {e}) /\ DOMAIN new = 1..(Len(s) + 1) /\ Len(new) = Len(s) + 1
         /\ new[Len(s) + 1] = e /\ \A j \in 1..Len(s) : new[j] = s[j]
<1>1. s \in [1..Len(s) -> S \cup {e}] /\ Len(s) \in Nat
  BY SequenceIs
<1>2. s \in Seq(S \cup {e})
  BY <1>1
<1>3. QED
  BY <1>2

\* A report that has moved.
Moving(r, state) == [r EXCEPT !.state = state, !.rv = @ + 1]

(* A report that has moved: its number of changes goes up.                  *)
LEMMA MovedIs ==
  ASSUME NEW r, IsReport(r), NEW state \in {"draft", "review", "approved"} \cup Gone, NEW new,
         new = Moving(r, state)
  PROVE  /\ IsReport(new) /\ new.state = state /\ new.rv = r.rv + 1 /\ r.rv \in Nat
         /\ new.shown = r.shown /\ new.signed = r.signed
<1>1. r.rv \in Nat
  BY DEF IsReport
<1>2. new = [version |-> r.version, state |-> state, author |-> r.author, shown |-> r.shown,
             rv |-> r.rv + 1, signed |-> r.signed]
  BY DEF IsReport, Moving
<1>3. QED
  BY <1>1, <1>2 DEF IsReport

(* One version changes, signatures are used up, and nothing else happens:   *)
(* the version is the last, or what has replaced it is published already.   *)
LEMMA OneMoves ==
  ASSUME ReportInv, NEW i \in DOMAIN report, NEW new, IsReport(new),
         report' = [j \in DOMAIN report |-> IF j = i THEN new ELSE report[j]], ticket' \subseteq ticket,
         i = Len(report), new.state \in {"draft", "review", "approved"}, report[i].state \notin Gone,
         new.rv = report[i].rv + 1,
         new.state = "approved" => new.signed \in {new.shown, None}
  PROVE  ReportInv'
<1>1. PICK S : report \in Seq(S)
  BY DEF ReportInv
<1>2. DOMAIN report = 1..Len(report) /\ Len(report) \in Nat /\ report \in [1..Len(report) -> S]
  BY <1>1
<1>3. report' \in [1..Len(report) -> S \cup {new}]
  BY <1>2
<1>4. report' \in Seq(S \cup {new}) /\ DOMAIN report' = DOMAIN report /\ Len(report') = Len(report)
  BY <1>2, <1>3
<1>5. report'[i] = new /\ \A j \in DOMAIN report : j # i => report'[j] = report[j]
  OBVIOUS
<1>6. \A j \in DOMAIN report' : IsReport(report'[j])
  BY <1>4, <1>5 DEF ReportInv
<1>7. \A k \in ticket' : \A j \in Nat : OnReport(k, j) => j \in DOMAIN report' /\ SeenOn(k, report'[j])
  <2> SUFFICES ASSUME NEW k \in ticket', NEW j \in Nat, OnReport(k, j)
               PROVE  j \in DOMAIN report' /\ SeenOn(k, report'[j])
    OBVIOUS
  <2>1. j \in DOMAIN report /\ SeenOn(k, report[j])
    BY DEF ReportInv
  <2>2. report[i].rv \in Nat
    BY DEF ReportInv, IsReport
  <2>3. ASSUME j = i PROVE SeenOn(k, new)
    <3>1. k.version \in Nat /\ k.version <= report[i].rv
      BY <2>1, <2>3 DEF SeenOn
    <3>2. k.version <= new.rv /\ k.version # new.rv
      <4>1. \A a, b, c \in Nat : a <= b /\ c = b + 1 => a <= c /\ a # c
        OBVIOUS
      <4>2. new.rv = report[i].rv + 1 /\ new.rv \in Nat
        BY DEF IsReport
      <4>3. QED
        BY <2>2, <3>1, <4>1, <4>2, Zenon
    <3>3. QED
      BY <3>1, <3>2 DEF SeenOn
  <2>4. QED
    BY <1>4, <1>5, <2>1, <2>3
<1>8. \A j \in DOMAIN report' : j < Len(report') => report'[j].state \in Gone
  BY <1>2, <1>4, <1>5 DEF ReportInv
<1>9. SignedAsSeen'
  BY <1>4, <1>5 DEF ReportInv, ReportsStand, SignedAsSeen, Gone
<1>10. OnePublished'
  <2>1. \A a \in DOMAIN report : a # i => report'[a] = report[a]
    BY <1>5
  <2>2. report'[i].state \notin {"published", "superseded"}
    BY <1>5 DEF Gone
  <2>3. \A a \in DOMAIN report : a <= i
    BY <1>2
  <2>4. OnePublished
    BY DEF ReportInv, ReportsStand
  <2>5. QED
    BY <1>2, <1>4, <2>1, <2>2, <2>3, <2>4 DEF OnePublished
<1>11. QED
  BY <1>4, <1>6, <1>7, <1>8, <1>9, <1>10 DEF ReportInv, ReportsStand

(* Only signatures come and go.                                             *)
LEMMA TicketsMove ==
  ASSUME ReportInv, report' = report,
         \A k \in ticket' : k \in ticket \/
           \A i \in Nat : OnReport(k, i) => i \in DOMAIN report /\ SeenOn(k, report[i])
  PROVE  ReportInv'
<1>1. \A k \in ticket' : \A i \in Nat : OnReport(k, i) => i \in DOMAIN report /\ SeenOn(k, report[i])
  BY DEF ReportInv
<1>2. QED
  BY <1>1 DEF ReportInv, ReportsStand, SignedAsSeen, OnePublished

(* A new version is added when all there are are published or superseded,   *)
(* the last of them published.                                              *)
LEMMA VersionComes ==
  ASSUME ReportInv, NEW new, IsReport(new), new.state = "draft", report' = Append(report, new), ticket' = ticket,
         \A i \in DOMAIN report : report[i].state \in Gone,
         \A k \in ticket : ~OnReport(k, Len(report) + 1)
  PROVE  ReportInv'
<1>1. PICK S : report \in Seq(S)
  BY DEF ReportInv
<1>2. DOMAIN report = 1..Len(report) /\ Len(report) \in Nat
  BY <1>1, SequenceIs
<1>3. /\ report' \in Seq(S \cup {new}) /\ DOMAIN report' = 1..(Len(report) + 1) /\ Len(report') = Len(report) + 1
      /\ report'[Len(report) + 1] = new /\ \A j \in 1..Len(report) : report'[j] = report[j]
  BY <1>1, AppendedIs
<1>4. \A j \in DOMAIN report' : (j \in DOMAIN report /\ report'[j] = report[j]) \/ (j = Len(report) + 1 /\ report'[j] = new)
  BY <1>2, <1>3
<1>5. \A j \in DOMAIN report' : IsReport(report'[j])
  BY <1>4 DEF ReportInv
<1>6. \A k \in ticket' : \A j \in Nat : OnReport(k, j) => j \in DOMAIN report' /\ SeenOn(k, report'[j])
  BY <1>2, <1>3, <1>4 DEF ReportInv
<1>7. \A j \in DOMAIN report' : j < Len(report') => report'[j].state \in Gone
  BY <1>2, <1>3, <1>4
<1>8. SignedAsSeen'
  BY <1>4 DEF ReportInv, ReportsStand, SignedAsSeen
<1>9. OnePublished'
  BY <1>2, <1>3, <1>4 DEF ReportInv, ReportsStand, OnePublished
<1>10. QED
  BY <1>3, <1>5, <1>6, <1>7, <1>8, <1>9 DEF ReportInv, ReportsStand

(* A new draft is a report.                                                 *)
LEMMA DraftIs ==
  ASSUME NEW n, NEW user
  PROVE  IsReport(Draft(n, user)) /\ Draft(n, user).state = "draft"
BY DEF IsReport, Draft

(* A used signature was there and, when it names the report, saw it.        *)
LEMMA UsedSaw ==
  ASSUME ReportInv, NEW i \in DOMAIN report, NEW user, NEW k \in ticket,
         Consume(user, <<"report", i>>, report[i].rv, k)
  PROVE  ticket' \subseteq ticket /\ SeenBy(k, i) \in {report[i].shown, None}
<1>1. k.version \in {report[i].rv, None} /\ ticket' = ticket \ {k}
  BY DEF Consume
<1>2. i \in Nat
  BY SequenceIs DEF ReportInv
<1>3. OnReport(k, i) => k.version = report[i].rv /\ SeenOn(k, report[i])
  BY <1>1, <1>2 DEF ReportInv, OnReport
<1>4. QED
  BY <1>1, <1>3 DEF SeenOn, SeenBy, OnReport

(* The last version is published: those before are superseded.              *)
LEMMA Published ==
  ASSUME ReportInv, NEW i \in DOMAIN report, NEW user, NEW k \in ticket, Publish(i, user, k)
  PROVE  ReportInv'
<1> DEFINE r == report[i]
           moved == Moving(r, "published")
           new == [moved EXCEPT !.signed = SeenBy(k, i)]
           old(j) == Moving(report[j], "superseded")
           now(j) == CASE j = i -> [Moved(i, "published")[i] EXCEPT !.signed = SeenBy(k, i)]
                       [] j \in PublishedBefore(i) -> Moved(j, "superseded")[j]
                       [] OTHER -> report[j]
<1>1. PICK S : report \in Seq(S)
  BY DEF ReportInv
<1>2. DOMAIN report = 1..Len(report) /\ Len(report) \in Nat
  BY <1>1, SequenceIs
<1>3. r.state = "approved" /\ Consume(user, <<"report", i>>, r.rv, k)
  BY Zenon DEF Publish
<1>4. report' = [j \in DOMAIN report |-> now(j)]
  BY Zenon DEF Publish
<1>5. i = Len(report)
  BY <1>2, <1>3 DEF ReportInv, Gone
<1>6. /\ now(i) = new
      /\ \A j \in DOMAIN report : j # i /\ report[j].state = "published" => now(j) = old(j)
      /\ \A j \in DOMAIN report : j # i /\ report[j].state # "published" => now(j) = report[j]
  <2>1. Moved(i, "published")[i] = moved
    BY Zenon DEF Moved, Moving
  <2>2. \A j \in DOMAIN report : Moved(j, "superseded")[j] = old(j)
    BY Zenon DEF Moved, Moving
  <2>3. now(i) = new
    <3>1. i \notin PublishedBefore(i)
      BY DEF PublishedBefore
    <3>2. QED
      BY <2>1, <3>1, Zenon
  <2>4. ASSUME NEW j \in DOMAIN report, j # i, report[j].state = "published" PROVE now(j) = old(j)
    <3>1. j \in PublishedBefore(i)
      BY <2>4 DEF PublishedBefore
    <3>2. now(j) = Moved(j, "superseded")[j]
      BY <2>4, <3>1, Zenon
    <3>3. QED
      BY <2>2, <3>2, Zenon
  <2>5. ASSUME NEW j \in DOMAIN report, j # i, report[j].state # "published" PROVE now(j) = report[j]
    <3>1. j \notin PublishedBefore(i)
      BY <2>5 DEF PublishedBefore
    <3>2. QED
      BY <2>5, <3>1, Zenon
  <2>6. QED
    BY <2>3, <2>4, <2>5, Zenon
<1> HIDE DEF now
<1>7. DOMAIN report' = DOMAIN report /\ report'[i] = new /\ \A j \in DOMAIN report : report'[j] = now(j)
  BY <1>4, <1>6
<1>8. ticket' \subseteq ticket /\ SeenBy(k, i) \in {r.shown, None}
  BY <1>3, UsedSaw
<1>10. IsReport(r) /\ "published" \in Gone /\ "superseded" \in Gone
  BY DEF ReportInv, Gone
<1>11. /\ IsReport(moved) /\ moved.state = "published" /\ moved.rv = r.rv + 1 /\ r.rv \in Nat /\ moved.shown = r.shown
  BY <1>10, MovedIs
<1>12. IsReport(new) /\ new.state = "published" /\ new.rv = r.rv + 1 /\ new.shown = r.shown /\ new.signed = SeenBy(k, i)
  <2> HIDE DEF moved
  <2>1. QED
    BY <1>11 DEF IsReport
<1>13. \A j \in DOMAIN report : /\ IsReport(old(j)) /\ old(j).state = "superseded" /\ old(j).rv = report[j].rv + 1
                               /\ report[j].rv \in Nat /\ old(j).shown = report[j].shown
                               /\ old(j).signed = report[j].signed
  BY <1>10, MovedIs DEF ReportInv
<1> HIDE DEF new, moved, old
<1>14. \A j \in DOMAIN report : /\ IsReport(report[j]) /\ (j < Len(report) => report[j].state \in Gone)
                               /\ (report[j].state \in Gone => report[j].signed \in {report[j].shown, None})
  BY DEF ReportInv, ReportsStand, SignedAsSeen, Gone
<1>15. \A j \in DOMAIN report : /\ IsReport(report'[j]) /\ report'[j].rv \in Nat /\ report[j].rv \in Nat
                               /\ (report'[j] = report[j] \/ report'[j].rv = report[j].rv + 1)
                               /\ report'[j].shown = report[j].shown
                               /\ report'[j].signed \in {report'[j].shown, None}
                               /\ report'[j].state = IF j = i THEN "published" ELSE "superseded"
  <2>1. ASSUME NEW j \in DOMAIN report, j # i
        PROVE  /\ report'[j] = report[j] \/ report'[j] = old(j)
               /\ report'[j].state = "superseded" /\ report[j].signed \in {report[j].shown, None}
    <3>1. j < Len(report)
      BY <1>2, <1>5, <2>1
    <3>2. report[j].state \in Gone
      BY <1>14, <3>1
    <3>3. QED
      BY <1>6, <1>7, <1>13, <1>14, <2>1, <3>2 DEF Gone
  <2>2. \A j \in DOMAIN report : report[j].rv \in Nat
    BY <1>14 DEF IsReport
  <2>3. QED
    BY <1>7, <1>8, <1>12, <1>13, <1>14, <2>1, <2>2
<1>16. \E T : report' \in Seq(T)
  <2> DEFINE T == {now(j) : j \in DOMAIN report}
  <2>1. report' \in [1..Len(report) -> T]
    BY <1>2, <1>4
  <2> HIDE DEF T
  <2>2. report' \in Seq(T)
    BY <1>2, <2>1
  <2>3. QED
    BY <2>2
<1>17. Len(report') = Len(report)
  BY <1>2, <1>7, <1>16, SequenceIs
<1>18. \A c \in ticket' : \A j \in Nat : OnReport(c, j) => j \in DOMAIN report' /\ SeenOn(c, report'[j])
  <2> SUFFICES ASSUME NEW c \in ticket', NEW j \in Nat, OnReport(c, j)
               PROVE  j \in DOMAIN report' /\ SeenOn(c, report'[j])
    OBVIOUS
  <2>1. j \in DOMAIN report /\ SeenOn(c, report[j])
    BY <1>8 DEF ReportInv
  <2>2. report[j].rv \in Nat /\ (report'[j] = report[j] \/ report'[j].rv = report[j].rv + 1)
    BY <1>15, <2>1
  <2>3. SeenOn(c, report'[j])
    BY <2>1, <2>2 DEF SeenOn
  <2>4. QED
    BY <1>7, <2>1, <2>3
<1>19. SignedAsSeen'
  BY <1>7, <1>15 DEF SignedAsSeen
<1>20. OnePublished'
  BY <1>2, <1>5, <1>7, <1>15 DEF OnePublished
<1>21. QED
  BY <1>5, <1>2, <1>7, <1>15, <1>16, <1>17, <1>18, <1>19, <1>20 DEF ReportInv, ReportsStand, Gone

(* Each step of the report keeps what is known of it.                       *)
LEMMA ReportStep == ASSUME ReportInv, ReportNext PROVE ReportInv'
<1>1. PICK S : report \in Seq(S)
  BY DEF ReportInv
<1>2. DOMAIN report = 1..Len(report) /\ Len(report) \in Nat
  BY <1>1, SequenceIs
<1>3. \A i \in DOMAIN report : /\ IsReport(report[i]) /\ report[i].rv \in Nat
                              /\ (report[i].state \notin Gone => i = Len(report))
  <2>1. \A i \in DOMAIN report : IsReport(report[i])
    BY DEF ReportInv
  <2>2. \A i \in DOMAIN report : report[i].state \notin Gone => i = Len(report)
    BY <1>2 DEF ReportInv
  <2>3. QED
    BY <2>1, <2>2 DEF IsReport
<1>4. \A k \in ticket : \A i \in Nat : OnReport(k, i) => i \in DOMAIN report
  BY DEF ReportInv
<1>5. ASSUME NEW user \in Person, CreateReport(user) PROVE ReportInv'
  <2> DEFINE new == Draft(1, user)
  <2>1. report = <<>> /\ report' = <<new>> /\ ticket' = ticket
    BY <1>5 DEF CreateReport
  <2> HIDE DEF new
  <2>2. report' = Append(report, new) /\ Len(report) = 0 /\ DOMAIN report = {}
    BY <2>1
  <2>3. IsReport(new) /\ new.state = "draft"
    BY DraftIs DEF new
  <2>4. \A k \in ticket : ~OnReport(k, Len(report) + 1)
    BY <1>4, <2>2
  <2>5. QED
    BY <2>1, <2>2, <2>3, <2>4, VersionComes
<1>6. ASSUME NEW i \in DOMAIN report, NEW user \in Person, ReviseReport(i, user) PROVE ReportInv'
  <2> DEFINE new == Draft(i + 1, user)
  <2>1. report[i].state = "published" /\ Len(report) = i /\ report' = Append(report, new) /\ ticket' = ticket
    BY <1>6 DEF ReviseReport
  <2> HIDE DEF new
  <2>2. IsReport(new) /\ new.state = "draft"
    BY DraftIs DEF new
  <2>3. \A k \in ticket : ~OnReport(k, Len(report) + 1)
    BY <1>2, <1>4
  <2>4. \A j \in DOMAIN report : report[j].state \in Gone
    BY <1>3, <2>1 DEF Gone
  <2>5. QED
    BY <2>1, <2>2, <2>3, <2>4, VersionComes
<1>7. ASSUME NEW i \in DOMAIN report, NEW rv, UpdateDraft(i, rv) PROVE ReportInv'
  <2> DEFINE moved == Moving(report[i], "draft")
             new == [moved EXCEPT !.shown = Content]
  <2>1. report[i].state = "draft" /\ ticket' = ticket
    BY <1>7, Zenon DEF UpdateDraft
  <2>2. report' = [j \in DOMAIN report |-> IF j = i THEN new ELSE report[j]]
    BY <1>7, Zenon DEF UpdateDraft, Moved, Moving
  <2>3. IsReport(moved) /\ moved.state = "draft" /\ moved.rv = report[i].rv + 1
    BY <1>3, MovedIs
  <2> HIDE DEF moved
  <2>4. IsReport(new) /\ new.state = "draft" /\ new.rv = report[i].rv + 1
    BY <2>3 DEF IsReport
  <2> HIDE DEF new
  <2>5. report[i].state \notin Gone /\ i = Len(report)
    BY <1>3, <2>1 DEF Gone
  <2>6. QED
    BY <2>1, <2>2, <2>4, <2>5, OneMoves
<1>8. ASSUME NEW i \in DOMAIN report, NEW state \in {"draft", "review"}, report[i].state \in {"draft", "review"},
             report' = Moved(i, state), ticket' = ticket
      PROVE  ReportInv'
  <2> DEFINE new == Moving(report[i], state)
  <2>1. report' = [j \in DOMAIN report |-> IF j = i THEN new ELSE report[j]]
    BY <1>8, Zenon DEF Moved, Moving
  <2>2. IsReport(new) /\ new.state = state /\ new.rv = report[i].rv + 1
    BY <1>3, <1>8, MovedIs
  <2> HIDE DEF new
  <2>3. report[i].state \notin Gone /\ i = Len(report)
    BY <1>3, <1>8 DEF Gone
  <2>4. QED
    BY <1>8, <2>1, <2>2, <2>3, OneMoves
<1>9. ASSUME NEW i \in DOMAIN report, Submit(i) PROVE ReportInv'
  BY <1>8, <1>9, Zenon DEF Submit
<1>10. ASSUME NEW i \in DOMAIN report, NEW user \in Person, RejectReport(i, user) PROVE ReportInv'
  BY <1>8, <1>10, Zenon DEF RejectReport
<1>11. ASSUME NEW i \in DOMAIN report, NEW user \in Person, NEW k \in ticket, ApproveReport(i, user, k)
       PROVE  ReportInv'
  <2> DEFINE moved == Moving(report[i], "approved")
             new == [moved EXCEPT !.signed = SeenBy(k, i)]
  <2>1. report[i].state = "review" /\ Consume(user, <<"report", i>>, report[i].rv, k)
    BY <1>11, Zenon DEF ApproveReport
  <2>2. report' = [j \in DOMAIN report |-> IF j = i THEN new ELSE report[j]]
    BY <1>11, Zenon DEF ApproveReport, Moved, Moving
  <2>3. ticket' \subseteq ticket /\ SeenBy(k, i) \in {report[i].shown, None}
    BY <2>1, UsedSaw
  <2>4. IsReport(moved) /\ moved.state = "approved" /\ moved.rv = report[i].rv + 1 /\ moved.shown = report[i].shown
    BY <1>3, MovedIs
  <2> HIDE DEF moved
  <2>5. /\ IsReport(new) /\ new.state = "approved" /\ new.rv = report[i].rv + 1
        /\ new.signed = SeenBy(k, i) /\ new.shown = report[i].shown
    BY <2>4 DEF IsReport
  <2> HIDE DEF new
  <2>6. report[i].state \notin Gone /\ i = Len(report)
    BY <1>3, <2>1 DEF Gone
  <2>7. QED
    BY <2>2, <2>3, <2>5, <2>6, OneMoves
<1>12. ASSUME NEW i \in DOMAIN report, NEW user \in Person, NEW k \in ticket, Publish(i, user, k)
       PROVE  ReportInv'
  BY <1>12, Published
<1>13. ASSUME NEW i \in DOMAIN report, NEW user \in Person, NEW ref \in {<<"report", i>>, None}, NEW version, NEW seen,
              version # None => /\ ref = <<"report", i>> /\ version = report[i].rv /\ seen = report[i].shown,
              Sign(user, ref, version, seen)
       PROVE  ReportInv'
  <2> DEFINE k == [user |-> user, ref |-> ref, version |-> version, seen |-> seen]
  <2>1. ticket' = ticket \cup {k} /\ report' = report
    BY <1>13 DEF Sign
  <2>2. k.ref = ref /\ k.version = version /\ k.seen = seen
    OBVIOUS
  <2> HIDE DEF k
  <2>3. \A j \in Nat : OnReport(k, j) => j \in DOMAIN report /\ SeenOn(k, report[j])
    <3>1. ASSUME NEW j \in Nat, OnReport(k, j) PROVE j = i /\ SeenOn(k, report[i])
      <4>1. version = report[i].rv /\ seen = report[i].shown /\ <<"report", i>> = <<"report", j>>
        BY <1>13, <2>2, <3>1 DEF OnReport
      <4>2. QED
        BY <1>3, <2>2, <4>1 DEF SeenOn
    <3>2. QED
      BY <3>1
  <2>4. QED
    BY <2>1, <2>3, TicketsMove
<1>14. QED
  BY <1>5, <1>6, <1>7, <1>9, <1>10, <1>11, <1>12, <1>13 DEF ReportNext

-----------------------------------------------------------------------------
(* All of it.                                                               *)

(* There are no tasks, values or reports at the beginning.                  *)
LEMMA RecordsStart == ASSUME RecordsInit PROVE RecordsInv
<1>1. /\ sample = [state |-> "running", batch |-> "running", counted |-> {}] /\ looked = None /\ analysis = <<>> /\ values = {} /\ ticket = {}
      /\ report = <<>> /\ DOMAIN analysis = {} /\ DOMAIN report = {}
  BY DEF RecordsInit
<1>2. FillInv
  BY <1>1 DEF FillInv, FillTyped, Homed, IsSample, Sound, Whole
<1>3. report \in Seq({})
  BY <1>1
<1>4. ReportInv
  BY <1>1, <1>3 DEF ReportInv, ReportsStand, SignedAsSeen, OnePublished
<1>5. QED
  BY <1>2, <1>4 DEF RecordsInv

(* What leaves the report and the signatures alone keeps what is known.     *)
LEMMA ReportStays == ASSUME ReportInv, UNCHANGED <<report, ticket>> PROVE ReportInv'
BY TicketsMove

(* Each step keeps what is known of values and report.                      *)
LEMMA RecordsStep == ASSUME RecordsInv, RecordsNext PROVE RecordsInv'
<1>1. FillInv /\ ReportInv
  BY DEF RecordsInv
<1>2. CASE ResultsNext
  <2>1. UNCHANGED <<report, ticket>>
    BY <1>2 DEF ResultsNext, Look, CreateTask, CancelTask, FinishBatch, Ingest, DeviceRecord, Revise
  <2>2. QED
    BY <1>1, <1>2, <2>1, ResultsStep, ReportStays DEF RecordsInv
<1>3. CASE ReviewNext
  <2>1. ASSUME NEW v \in values, NEW user \in Person, NEW version, Sign(user, <<"value", v.task, v.metric>>, version, {})
        PROVE  RecordsInv'
    <3> DEFINE k == [user |-> user, ref |-> <<"value", v.task, v.metric>>, version |-> version, seen |-> {}]
    <3>1. ticket' = ticket \cup {k} /\ UNCHANGED <<report, sample, looked, analysis, values>>
      BY <2>1 DEF Sign
    <3>2. \A i \in Nat : ~OnReport(k, i)
      BY DEF OnReport
    <3> HIDE DEF k
    <3>3. QED
      BY <1>1, <3>1, <3>2, TicketsMove, FillsOn DEF RecordsInv
  <2>2. ASSUME NEW k \in ticket, Expire(k) PROVE RecordsInv'
    BY <1>1, <2>2, TicketsMove, FillsOn DEF Expire, RecordsInv
  <2>3. ASSUME NEW v \in values, NEW user \in Person, NEW conclusion \in {"approved", "rejected"},
               NEW quality \in {"valid", "invalid"}, NEW k \in ticket, Review(v, user, conclusion, quality, k)
        PROVE  RecordsInv'
    <3>1. ticket' = ticket \ {k} /\ report' = report
      BY <2>3 DEF Review, Consume
    <3>2. QED
      BY <1>1, <2>3, <3>1, TicketsMove, ReviewFills DEF RecordsInv
  <2>4. QED
    BY <1>3, <2>1, <2>2, <2>3 DEF ReviewNext
<1>4. CASE ReportNext
  <2>1. UNCHANGED <<sample, looked, analysis, values>>
    BY <1>4 DEF ReportNext, CreateReport, UpdateDraft, Submit, Sign, RejectReport, ReviseReport, ApproveReport, Publish
  <2>2. QED
    BY <1>1, <1>4, <2>1, ReportStep, FillsOn DEF RecordsInv
<1>5. QED
  BY <1>2, <1>3, <1>4 DEF RecordsNext

(* What changes nothing keeps it.                                           *)
LEMMA RecordsStay == ASSUME RecordsInv, UNCHANGED rvars PROVE RecordsInv'
BY FillsOn, ReportStays DEF rvars, RecordsInv

(* What is known of values and report is enough.                            *)
LEMMA FillsSuffice == ASSUME RecordsInv PROVE SettledOnlyWhole
BY DEF RecordsInv, FillInv, Whole, Filled, SettledOnlyWhole

(* For any metrics, rules, people and bounds: a sample is done only when    *)
(* its batch is and every task it was judged by has its values, and the     *)
(* published report is one, the last, and what those saw whose signatures   *)
(* name it (services/analysis_service.py settle_assignment,                 *)
(* services/report_service.py approve and publish).                         *)
THEOREM RecordsHold == RecordsSpec => [](SettledOnlyWhole /\ ReportsStand)
<1>1. RecordsInit => RecordsInv
  BY RecordsStart
<1>2. RecordsInv /\ [RecordsNext]_rvars => RecordsInv'
  BY RecordsStep, RecordsStay
<1>3. RecordsInv => SettledOnlyWhole /\ ReportsStand
  BY FillsSuffice DEF RecordsInv, ReportInv
<1>4. QED
  BY <1>1, <1>2, <1>3, PTL DEF RecordsSpec

=============================================================================
