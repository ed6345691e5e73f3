--------------------------------- MODULE Removal ---------------------------------
(*****************************************************************************)
(* The removal of an object with everything that depends on it. The tables   *)
(* are rows that refer to each other; what a reference means is decided by    *)
(* its column. A removal computes what depends on the object, looks whether   *)
(* any of it runs, takes the signature, and deletes table by table in one    *)
(* transaction that locks nothing beforehand: what is written between the    *)
(* look and the deletion is deleted too, or left behind, as it happens to    *)
(* refer to what goes. Where a column is a foreign key, the database refuses *)
(* the whole removal rather than leave a row behind.                         *)
(*****************************************************************************)
EXTENDS Integers, FiniteSets

CONSTANTS
  None,
  Id,
  Worlds,      \* the databases to begin with: [Id -> row or None]
  Arrivals,    \* the rows that may be written meanwhile: [id, row]
  MaxRemovals  \* bound

VARIABLES
  db,        \* the rows: [kind, refs, state], refs a set of [col, to], or None
  removal,   \* what was checked and is not deleted yet: [root, closure], or None
  removals,  \* bound
  story      \* ghost: [gone, lost, late]: lost, what went with a root; late, what arrived during a removal

removalVars == <<db, removal, removals, story>>

Kinds == {"batch", "task", "plan", "recipe", "method", "template", "station", "asset", "capability", "lot", "waste"}

Rows == {i \in Id : db[i] # None}
To(i, cols) == {r.to : r \in {x \in db[i].refs : x.col \in cols}}

-----------------------------------------------------------------------------
(* What depends on what: the columns that are followed.                     *)

FollowedFrom ==
  [capability |-> {"method.capability", "recipe.capability"},
   method |-> {"recipe.method"},
   recipe |-> {"recipe.parent", "recipe.flow", "plan.recipe", "batch.recipe"},
   station |-> {"batch.station"},
   plan |-> {"task.plan", "batch.plan"},
   task |-> {"task.parent", "batch.task"}]

Followed_Mut == UNION {FollowedFrom[k] : k \in DOMAIN FollowedFrom} \ {"recipe.flow"}

Followed == UNION {FollowedFrom[k] : k \in DOMAIN FollowedFrom}

\* One round: who refers to what is taken, and the batch a taken task made.
Round(taken) ==
  taken \cup {i \in Rows : To(i, Followed) \cap taken # {}}
        \cup UNION {To(i, {"task.batch"}) : i \in {t \in taken : db[t].kind = "task"}}

Closure(root) ==
  LET rounds[n \in Nat] == IF n = 0 THEN {root} ELSE UNION {Round(taken) : taken \in {rounds[n - 1]}} IN
  rounds[Cardinality(Kinds)]

\* What runs, or has a command on a device, is ended first.
Blocked(closure) ==
  \/ \E i \in closure : db[i].kind = "batch" /\ db[i].state \in {"running", "held", "aborting"}
  \/ \E i \in Rows : db[i].kind = "command" /\ db[i].state \in {"live", "sent"} /\ To(i, {"command.batch"}) \cap closure # {}

-----------------------------------------------------------------------------
(* What goes with a row, and what only mentions it: section by section of    *)
(* the deletion.                                                            *)

Sections ==
  [results |-> [drop |-> {"review.value", "value.analysis", "ingest.analysis", "analysis.sample", "report.batch", "report.task",
                          "report.plan", "reportversion.report"},
                clear |-> {}],
   batch |-> [drop |-> {"exception.batch", "telemetry.batch", "event.batch", "advance.batch", "signal.batch", "execution.command",
                        "checkpoint.batch", "move.batch", "command.batch", "steprun.batch", "allocation.batch", "booking.batch",
                        "personbooking.batch", "reservation.batch", "link.batch", "sample.batch"},
              clear |-> {"adapter.command", "labware.batch", "station.dirty", "recipe.golden", "task.batch", "proposal.batch"}],
   task |-> [drop |-> {"assignment.task"}, clear |-> {"task.depends"}],
   plan |-> [drop |-> {"link.plan", "planversion.plan", "suggestion.plan", "analysisrun.plan", "dataset.plan"},
             clear |-> {"suggestion.created", "plantemplate.source", "plan.parent"}],
   recipe |-> [drop |-> {"plantemplate.recipe"}, clear |-> {}],
   capability |-> [drop |-> {"qualification.capability"}, clear |-> {"station.limit"}],
   template |-> [drop |-> {}, clear |-> {"adapter.template"}],
   station |-> [drop |-> {"execution.station", "acceptance.station", "write.station", "telemetry.station", "booking.station",
                          "exception.station", "proposal.station", "adapter.station"},
                clear |-> {"location.station", "service.station"}],
   asset |-> [drop |-> {"calibration.asset", "booking.asset", "order.asset"}, clear |-> {"station.asset", "allocation.asset"}],
   lot |-> [drop |-> {"reservation.lot", "line.lot"}, clear |-> {}],
   loose |-> [drop |-> {"alarm.source", "comment.target"}, clear |-> {}]]

Dropped_Mut == UNION {Sections[s].drop : s \in DOMAIN Sections} \ {"value.analysis"}

Dropped == UNION {Sections[s].drop : s \in DOMAIN Sections}

Cleared_Mut == UNION {Sections[s].clear : s \in DOMAIN Sections} \ {"task.depends"}

Cleared == UNION {Sections[s].clear : s \in DOMAIN Sections}

\* The rows that go with those, and the rows that go with them.
Along(taken) == taken \cup {i \in Rows : To(i, Dropped) \cap taken # {}}

WithThem(taken) == UNION {UNION {Along(two) : two \in {Along(one)}} : one \in {Along(taken)}}

\* A proposal of batches goes when none of its batches is left.
Emptied(taken) ==
  {i \in Rows : To(i, {"proposal.batch"}) # {} /\ To(i, {"proposal.batch"}) \subseteq taken}

\* An inventory event goes with the last of its lines.
LastLines(taken) ==
  {i \in Rows : /\ db[i].kind = "inventory"
                /\ \E j \in taken : i \in To(j, {"line.event"})
                /\ \A j \in Rows \ taken : i \notin To(j, {"line.event"})}

SampleColumns == {"sample.physical", "analysis.physical", "value.physical", "physical.parent", "plan.samples", "task.samples"}

\* The generated samples of what is taken, when nobody else uses them.
SweepPhysical_Mut(taken) ==
  {i \in Rows : db[i].kind = "physical" /\ \E j \in taken : i \in To(j, {"sample.physical", "plan.samples", "task.samples"})}

SweepPhysical(taken) ==
  LET candidates == {i \in Rows : /\ db[i].kind = "physical" /\ db[i].state = "generated"
                                  /\ \E j \in taken : i \in To(j, {"sample.physical", "plan.samples", "task.samples"})} IN
  {i \in candidates : \A j \in Rows \ (taken \cup candidates) : i \notin To(j, SampleColumns)}

\* The rows that stay, without what they said of those that went.
After(gone) ==
  [i \in Id |-> IF db[i] = None \/ i \in gone THEN None
                ELSE [db[i] EXCEPT !.refs = {r \in @ : ~(r.col \in Cleared /\ r.to \in gone)}]]

-----------------------------------------------------------------------------
(* The removal.                                                             *)

\* The columns that are foreign keys.
Keys == {"plan.recipe", "batch.recipe", "batch.plan", "planversion.plan", "assignment.task", "command.batch", "command.station",
         "allocation.batch", "allocation.station", "sample.batch", "analysis.sample", "steprun.batch", "checkpoint.batch",
         "execution.command", "execution.station", "reservation.lot", "line.lot", "line.event", "calibration.asset",
         "reportversion.report", "review.value", "transfer.physical", "physical.parent"}

Check(root) ==
  /\ removals < MaxRemovals
  /\ removal = None
  /\ db[root].kind \in Kinds
  /\ \E closure \in {Closure(root)} :
       /\ ~Blocked(closure)
       /\ removal' = [root |-> root, closure |-> closure]
  /\ removals' = removals + 1
  /\ UNCHANGED <<db, story>>

Execute ==
  /\ removal # None
  /\ \E taken \in {WithThem(removal.closure \cap Rows)} :
     \E more \in {taken \cup Emptied(taken) \cup LastLines(taken)} :
     \E swept \in {SweepPhysical(more)} :
     \E gone \in {more \cup swept \cup {i \in Rows : To(i, {"transfer.physical", "occupancy.physical"}) \cap swept # {}}} :
       /\ \A i \in Rows \ gone : To(i, Keys) \cap gone = {}
       /\ db' = After(gone)
       /\ story' = [story EXCEPT !.gone = @ \cup gone,
                                 !.lost = @ \cup {[kind |-> db[i].kind, state |-> db[i].state] : i \in gone \ {removal.root}}]
  /\ removal' = None
  /\ UNCHANGED removals

\* The signature or the database refuses, or the process dies: nothing was deleted.
GiveUp ==
  /\ removal # None
  /\ removal' = None
  /\ UNCHANGED <<db, removals, story>>

-----------------------------------------------------------------------------
(* The others, who write at any time.                                       *)

Arrive(new) ==
  /\ db[new.id] = None
  /\ new.id \notin story.gone
  /\ \A r \in new.row.refs : db[r.to] # None
  /\ db' = [db EXCEPT ![new.id] = new.row]
  /\ story' = IF removal = None THEN story ELSE [story EXCEPT !.late = @ \cup {new.id}]
  /\ UNCHANGED <<removal, removals>>

Turns == [scheduled |-> {"running"}, running |-> {"held", "completed"}, held |-> {"running", "aborting"}, aborting |-> {"aborted"}]

\* A batch is dispatched, held, aborted or ends.
Turn(b, state) ==
  /\ db[b].kind = "batch"
  /\ db[b].state \in DOMAIN Turns
  /\ state \in Turns[db[b].state]
  /\ db' = [db EXCEPT ![b].state = state]
  /\ UNCHANGED <<removal, removals, story>>

-----------------------------------------------------------------------------
RemovalInit ==
  /\ db \in Worlds
  /\ removal = None
  /\ removals = 0
  /\ story = [gone |-> {}, lost |-> {}, late |-> {}]

RemovalNext ==
  \/ \E i \in Rows : Check(i) \/ \E state \in {"running", "held", "completed", "aborting", "aborted"} : Turn(i, state)
  \/ Execute \/ GiveUp
  \/ \E new \in Arrivals : Arrive(new)

RemovalSpec == RemovalInit /\ [][RemovalNext]_removalVars

-----------------------------------------------------------------------------
\* The lines of the ledger keep the number of the batch they were booked for.
\* The stations that help a command, and the station a value came from, are
\* neither followed nor cleared.
Unfollowed == {"line.batch", "command.assist", "value.station"}

(* Whatever the tables hold, and whatever starts or is written meanwhile, a  *)
(* row that stays refers to a row that went only by a column that is not     *)
(* followed, or when the row itself was inserted between the look and the    *)
(* deletion; through a foreign key none does.                                *)
OnlyLateRowsDangle ==
  \A i \in Rows : \A r \in db[i].refs :
    db[r.to] = None => \/ r.col \in Unfollowed
                       \/ i \in story.late /\ r.col \notin Keys

(* Nobody loses what only happened to be mentioned or used: devices, assets, *)
(* lots and samples that somebody registered only go when they are removed   *)
(* themselves.                                                               *)
OthersStay ==
  \A l \in story.lost :
    /\ l.kind \notin {"asset", "lot", "waste", "template", "station", "capability"}
    /\ l.kind = "physical" => l.state = "generated"

RemovalHolds == OnlyLateRowsDangle /\ OthersStay
================================================================================
