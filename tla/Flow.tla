-------------------------------- MODULE Flow --------------------------------
(***************************************************************************)
(* The rules of a flow (domain/graph.py, domain/steps.py and               *)
(* domain/workflow.py): a flow is a sequence of steps, a step depends on   *)
(* the one before it unless it names its predecessors, a branch chooses    *)
(* one of its exits (several when it routes sample by sample), an edge out *)
(* of a branch may carry the exit it belongs to.  Operators only: the      *)
(* advancer (Workflow) and the editor's checks use the same ones.          *)
(***************************************************************************)
EXTENDS Integers, Sequences, FiniteSets, SequencesExt

Kinds == {"device", "manual", "wait", "review", "gate", "branch", "split", "merge", "notify"}

(* A step with nothing configured; flows are written as exceptions to it.   *)
Plain(kind) ==
  [kind |-> kind,
   declares |-> FALSE, after |-> {},     \* "after" is present; the predecessors it names
   when |-> << >>,                       \* branch |-> the exit this step is on
   exits |-> << >>, maxLoops |-> 0,      \* a branch: [key, loop], loop = 0 for a forward exit
   perSample |-> FALSE, asks |-> FALSE,  \* a branch: sample by sample; chosen by a person
   source |-> 0,                         \* the step whose reading decides
   onFail |-> "hold", reworkTo |-> 0, maxRework |-> 0,   \* a gate
   physical |-> FALSE,                   \* a split into real vessels
   event |-> "", timeout |-> "none",     \* a wait for a signal; what a missed deadline does
   skippable |-> FALSE, plate |-> 0,     \* labware role, 0 when the batch has none for it
   dur |-> 1]

Undecided == {"pending", "ready", "running", "waiting"}   \* OPEN_STATES
Passed    == {"completed", "skipped"}
Resolved  == Passed \cup {"not_taken"}
Unsettled == Undecided \cup {"opening"}

-----------------------------------------------------------------------------
(* The dependency graph.                                                    *)

GraphMode(f) == \E i \in DOMAIN f : f[i].declares \/ f[i].kind = "branch"

(* A reference to a step that does not come before this one counts for      *)
(* nothing; GraphSound reports it.                                          *)
Predecessors(f, i) ==
  IF f[i].declares THEN {p \in f[i].after : p \in 1..(i - 1)} ELSE {i - 1} \ {0}

Successors(f, i) == {j \in DOMAIN f : i \in Predecessors(f, j)}

InOrder(f) == [i \in DOMAIN f |-> i]
Ancestry(f) ==
  FoldLeft(LAMBDA above, i : Append(above, Predecessors(f, i) \cup UNION {above[p] : p \in Predecessors(f, i)}),
           << >>, InOrder(f))
Ancestors(f, i)   == Ancestry(f)[i]
Descendants(f, i) == LET above == Ancestry(f) IN {j \in DOMAIN f : i \in above[j]}

(* These steps one after the other, as the list has them.                   *)
Ordered(S) ==
  [k \in 1..Cardinality(S) |-> CHOOSE i \in S : Cardinality({j \in S : j < i}) = k - 1]

Roots(f) == {i \in DOMAIN f : Predecessors(f, i) = {}}

(* What a loop back to t from the branch b does over again, b left out.     *)
LoopBody(f, b, t) == {t} \cup (Descendants(f, t) \cap Ancestors(f, b))

(* The flow written out with every dependency named.                        *)
Explicit(f) ==
  [i \in DOMAIN f |-> [f[i] EXCEPT !.declares = TRUE, !.after = Predecessors(f, i)]]

Exits(s)        == {s.exits[k].key : k \in DOMAIN s.exits}
ForwardExits(s) == {s.exits[k].key : k \in {k \in DOMAIN s.exits : s.exits[k].loop = 0}}
LoopOf(s, exit) == s.exits[CHOOSE k \in DOMAIN s.exits : s.exits[k].key = exit].loop
Loops(s)        == {s.exits[k].loop : k \in DOMAIN s.exits} \ {0}

-----------------------------------------------------------------------------
(* What the editor and the release of a method refuse.                      *)

AfterSound(f) ==
  \A i \in DOMAIN f : f[i].declares => f[i].after \subseteq 1..(i - 1)

(* Exits are named on edges out of a branch only, and only exits that lead  *)
(* forward.                                                                 *)
WhenSound(f) ==
  \A i \in DOMAIN f : \A b \in DOMAIN f[i].when :
    /\ b \in Predecessors(f, i) /\ f[b].kind = "branch"
    /\ f[i].when[b] \in ForwardExits(f[b])

ExitsNamed(f) ==
  \A b \in DOMAIN f : f[b].kind = "branch" =>
    \A i \in Successors(f, b) : b \in DOMAIN f[i].when

SourcesUpstream(f) ==
  \A b \in DOMAIN f : f[b].kind = "branch" /\ ~f[b].asks /\ f[b].source \in DOMAIN f =>
    f[b].source \in Ancestors(f, b)

(* A loop goes back to a step upstream, and nothing leaves its body but     *)
(* through the branch.                                                      *)
LoopsClosed(f) ==
  \A b \in DOMAIN f : f[b].kind = "branch" => \A t \in Loops(f[b]) :
    /\ t \in Ancestors(f, b)
    /\ LET body == LoopBody(f, b, t)
       IN \A m \in body : Successors(f, m) \subseteq body \cup {b}

GraphSound(f) ==
  GraphMode(f) =>
    AfterSound(f) /\ WhenSound(f) /\ ExitsNamed(f) /\ SourcesUpstream(f) /\ LoopsClosed(f)

(* What a rework or a loop does over again may not hold a split into real   *)
(* vessels.                                                                 *)
Reversible(f, target, trigger) ==
  \A m \in LoopBody(f, trigger, target) : ~(f[m].kind = "split" /\ f[m].physical)

GateSound(f, g) ==
  /\ f[g].source \in 1..(g - 1) /\ f[f[g].source].kind = "device"
  /\ f[g].onFail = "rework" =>
       /\ f[g].reworkTo \in 1..f[g].source
       /\ GraphMode(f) => f[g].reworkTo \in Ancestors(f, g)
       /\ Reversible(f, f[g].reworkTo, g)
       /\ f[g].maxRework \in 1..5

BranchSound(f, b) ==
  /\ f[b].asks \/ (f[b].source \in 1..(b - 1) /\ f[f[b].source].kind \in {"device", "manual"})
  /\ Cardinality(Exits(f[b])) >= 2 /\ Cardinality(Exits(f[b])) = Len(f[b].exits)
  /\ ForwardExits(f[b]) # {}
  /\ Loops(f[b]) # {} => f[b].maxLoops > 0 /\ ~f[b].perSample
  /\ \A t \in Loops(f[b]) : t \in 1..(b - 1) /\ Reversible(f, t, b)
  /\ f[b].perSample => ~f[b].asks /\ f[f[b].source].kind = "device"

(* A missed deadline may only raise an alarm at a device, may not skip a     *)
(* branch, and has no place where the system decides at once or where the   *)
(* end is a matter of time.                                                 *)
DeadlineActions(kind) ==
  CASE kind = "device" -> {"alarm"}
    [] kind = "branch" -> {"alarm", "fail"}
    [] kind \in {"manual", "wait", "review"} -> {"alarm", "fail", "skip"}
    [] OTHER -> {}

DeadlineSound(s) ==
  s.timeout # "none" =>
    /\ s.timeout \in DeadlineActions(s.kind)
    /\ s.timeout = "skip" => s.skippable
    /\ s.kind = "wait" => s.event # ""

Sound(f) ==
  /\ GraphSound(f)
  /\ \A i \in DOMAIN f : /\ f[i].kind = "gate" => GateSound(f, i)
                         /\ f[i].kind = "branch" => BranchSound(f, i)
                         /\ DeadlineSound(f[i])
                         /\ f[i].skippable => f[i].kind \in {"device", "manual", "wait", "review"}

-----------------------------------------------------------------------------
(* Which steps may be opened.  "status" is a function on the steps that     *)
(* have a valid attempt, "chosen" gives the exits taken by the branches     *)
(* that have concluded.                                                     *)

StatusOf(status, i) == IF i \in DOMAIN status THEN status[i] ELSE "none"

EdgeOf(f, status, chosen, p, i) ==
  CASE StatusOf(status, p) \in Passed ->
         IF f[p].kind = "branch" /\ p \in DOMAIN f[i].when
         THEN IF p \in DOMAIN chosen /\ f[i].when[p] \in chosen[p] THEN "active" ELSE "dead"
         ELSE "active"
    [] StatusOf(status, p) = "not_taken" -> "dead"
    [] OTHER -> "pending"

(* One of several paths that come together is enough.                       *)
Reached_Mut(edges) == "dead" \notin edges
Reached(edges) == edges = {} \/ "active" \in edges

(* One pass over the list: "opening" and "not_taken" count at once for the  *)
(* steps that follow.                                                       *)
Pass(f, chosen, acc) ==
  LET above == Ancestry(f)
      Judge(a, i) ==
        LET edges == {EdgeOf(f, a.status, chosen, p, i) : p \in Predecessors(f, i)} IN
        IF i \in DOMAIN a.status \/ "pending" \in edges THEN a
        ELSE IF Reached(edges)
        THEN IF \E p \in above[i] : StatusOf(a.status, p) \in Unsettled THEN a
             ELSE [a EXCEPT !.status = (i :> "opening") @@ @, !.open = @ \cup {i}]
        ELSE [a EXCEPT !.status = (i :> "not_taken") @@ @, !.prune = @ \cup {i}]
  IN FoldLeft(Judge, acc, InOrder(f))

(* The passes are repeated as long as one of them pruned something.         *)
Frontier(f, status, chosen) ==
  LET Again(acc, k) ==
        IF ~acc.more THEN acc
        ELSE LET next == Pass(f, chosen, acc)
             IN [next EXCEPT !.more = next.prune # acc.prune]
      last == FoldLeft(Again, [status |-> status, open |-> {}, prune |-> {}, more |-> TRUE],
                       [k \in 1..(Len(f) + 1) |-> k])
  IN [open |-> {i \in DOMAIN f : i \in last.open}, prune |-> {i \in DOMAIN f : i \in last.prune}]

AllResolved_Mut(f, status) == \A i \in DOMAIN f : StatusOf(status, i) \notin Unsettled
AllResolved(f, status) == \A i \in DOMAIN f : StatusOf(status, i) \in Resolved

(* Recovery's reading of the frontier: what is done counts as completed,    *)
(* what was ever tried otherwise blocks, and no branch has chosen.          *)
ReadyAfter(f, completed, attempted) ==
  Frontier(f, [i \in completed \cup attempted |-> IF i \in completed THEN "completed" ELSE "attempted"],
           << >>).open

-----------------------------------------------------------------------------
(* Which samples, and which exits, a step stands for.                       *)

BranchReach(f, i) ==
  LET line == Ancestors(f, i) \cup {i}
      met  == UNION {DOMAIN f[m].when : m \in line}
  IN [b \in met |-> {f[m].when[b] : m \in {m \in line : b \in DOMAIN f[m].when}}]

(* The exits, per branch that routes by sample, whose samples this step     *)
(* handles; a branch that has come together again is not named.             *)
SampleScopes(f, i) ==
  LET reach == BranchReach(f, i)
      limit == {b \in DOMAIN reach : /\ f[b].kind = "branch" /\ f[b].perSample
                                     /\ b \in Ancestors(f, i)
                                     /\ reach[b] # ForwardExits(f[b])}
  IN [b \in limit |-> reach[b]]

(* The two steps are never both done to the same sample.                    *)
ExclusivePaths(f, i, j) ==
  /\ i # j /\ i \notin Ancestors(f, j) /\ j \notin Ancestors(f, i)
  /\ \E b \in DOMAIN BranchReach(f, i) \cap DOMAIN BranchReach(f, j) :
       BranchReach(f, i)[b] \cap BranchReach(f, j)[b] = {}

Largest(S) == IF S = {} THEN 0 ELSE CHOOSE x \in S : \A y \in S : y <= x

(* The time that must pass before a step can start, and the longest path.   *)
LeadMin(f, i) ==
  FoldLeft(LAMBDA lead, j : Append(lead, Largest({lead[p] + f[p].dur : p \in Predecessors(f, j)})),
           << >>, InOrder(f))[i]
CriticalPath(f) == Largest({LeadMin(f, i) + f[i].dur : i \in DOMAIN f})

-----------------------------------------------------------------------------
(* The transitions of a step (domain/workflow.py ALLOWED), the states it    *)
(* opens in, and what a batch under hold must not be driven through.        *)

Allowed(kind) ==
  LET Common == {<<"pending", "cancelled">>, <<"ready", "cancelled">>, <<"ready", "completed">>, <<"pending", "ready">>}
      Waits  == {<<"pending", "skipped">>}
  IN CASE kind = "device" ->
            {<<"pending", "ready">>, <<"ready", "running">>} \cup Waits \cup {<<"ready", "skipped">>}
            \cup ({"pending", "ready", "unknown"} \X {"cancelled"})
            \cup {<<"running", v>> : v \in {"completed", "failed", "unknown"}}
            \cup {<<"unknown", v>> : v \in {"completed", "failed"}}
       [] kind = "manual" ->
            Common \cup Waits \cup {<<"ready", v>> : v \in {"running", "skipped", "failed"}}
            \cup {<<"running", v>> : v \in {"completed", "failed", "cancelled"}}
       [] kind = "wait" ->
            Waits \cup {<<"pending", "waiting">>, <<"pending", "cancelled">>}
            \cup {<<"waiting", v>> : v \in {"completed", "cancelled", "skipped", "failed"}}
       [] kind = "review" -> Common \cup Waits \cup {<<"ready", "failed">>, <<"ready", "skipped">>}
       [] kind \in {"branch", "gate"} -> Common \cup {<<"ready", "failed">>}
       [] OTHER -> Common

CanTransition_Mut(kind, from, to) == <<from, to>> \in Allowed(kind) \/ from = "cancelled"
CanTransition(kind, from, to) == <<from, to>> \in Allowed(kind)
InitialState(s) == IF s.kind = "wait" THEN "waiting" ELSE "ready"
HoldBlocks(state) == state \in {"paused", "fault", "aborting", "aborted"}

(* Where the rejection of a review lands: the nearest manual step upstream, *)
(* level by level, the last in the list on the first level that has one.    *)
NearestManual(f, i) ==
  LET Up(level, k) ==
        IF \E p \in level : f[p].kind = "manual" THEN level
        ELSE UNION {Predecessors(f, p) : p \in level}
      last == FoldLeft(Up, Predecessors(f, i), InOrder(f))
  IN Largest({p \in DOMAIN f : p \in last /\ f[p].kind = "manual"})
=============================================================================
