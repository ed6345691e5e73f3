--------------------------------- MODULE Plans ---------------------------------
(*****************************************************************************)
(* One experiment plan: editing, locking, the levels of its approval with    *)
(* their signatures, withdrawal, rejection, revision, going back to an       *)
(* earlier version, and the batches that are made from it, from the plan as  *)
(* it stands or from the approved version a task was given. Every handler is *)
(* one transaction.                                                          *)
(*****************************************************************************)
EXTENDS Integers, Sequences, FiniteSets

CONSTANTS
  None,
  Planner,     \* who may edit the plan
  Signer,      \* who may approve it
  Body,        \* what the plan may say
  Sound,       \* what of that passes the checks of a submission
  Levels,      \* the chains of approval asked for: sequences of Signer \cup {None}
  MaxPlanVersions, MaxPlanEdits, MaxPlanRuns, MaxPlanTickets  \* bounds

VARIABLES
  plan,          \* [state, approval, version, body, rv]
  planVersions,  \* per version: [state, body, author, levels]
  planTasks,     \* the version each task was given
  planRuns,      \* the batches: the version they name and what they froze
  planTicket,    \* signatures given and not used: [user, rv, saw]; rv and saw None: no version named
  planEdits      \* edits so far (bound)

planVars == <<plan, planVersions, planTasks, planRuns, planTicket, planEdits>>

\* What the plan freezes when it is kept as a version.
Snapshot == plan.body

LockChecks(body) == body \in Sound

-----------------------------------------------------------------------------
(* Levels of approval: [assignee, by, saw, conclusion].                     *)

BuildLevels(asked) ==
  [n \in 1..(IF asked = <<>> THEN 1 ELSE Len(asked)) |->
     [assignee |-> IF asked = <<>> THEN None ELSE asked[n], by |-> None, saw |-> None, conclusion |-> None]]

Open(levels) == {n \in DOMAIN levels : levels[n].conclusion = None}
CurrentLevel(levels) == CHOOSE n \in Open(levels) : \A m \in Open(levels) : n <= m

\* Nobody decides twice, the author not at all, and an assigned level is approved
\* by the one it is assigned to.
MayDecide_Mut(levels, user, author, conclusion) ==
  /\ Open(levels) # {}
  /\ user # author
  /\ conclusion = "approved" => levels[CurrentLevel(levels)].assignee \in {None, user}

MayDecide(levels, user, author, conclusion) ==
  /\ Open(levels) # {}
  /\ user # author
  /\ \A n \in DOMAIN levels \ {CurrentLevel(levels)} : levels[n].by # user
  /\ conclusion = "approved" => levels[CurrentLevel(levels)].assignee \in {None, user}

Recorded(levels, user, conclusion, saw) ==
  [levels EXCEPT ![CurrentLevel(levels)].by = user, ![CurrentLevel(levels)].saw = saw,
                 ![CurrentLevel(levels)].conclusion = conclusion]

-----------------------------------------------------------------------------
PlanInit ==
  /\ \E body \in Body : plan = [state |-> "draft", approval |-> "draft", version |-> 1, body |-> body, rv |-> 1]
  /\ planVersions = <<>> /\ planTasks = <<>> /\ planRuns = <<>> /\ planTicket = {} /\ planEdits = 0

Edit == planEdits < MaxPlanEdits /\ planEdits' = planEdits + 1

Changed(p) == plan' = [p EXCEPT !.rv = @ + 1]

\* A plan in review may be written on.
PatchPlan_Mut(body) ==
  /\ plan.state = "draft" /\ plan.approval # "approved"
  /\ Edit /\ Changed([plan EXCEPT !.body = body])
  /\ UNCHANGED <<planVersions, planTasks, planRuns, planTicket>>

PatchPlan(body) ==
  /\ plan.state = "draft" /\ plan.approval \notin {"approved", "review"}
  /\ Edit /\ Changed([plan EXCEPT !.body = body])
  /\ UNCHANGED <<planVersions, planTasks, planRuns, planTicket>>

Lock ==
  /\ plan.state # "locked" /\ LockChecks(plan.body)
  /\ Changed([plan EXCEPT !.state = "locked"])
  /\ UNCHANGED <<planVersions, planTasks, planRuns, planTicket, planEdits>>

Unlock ==
  /\ planRuns = <<>> /\ Edit
  /\ Changed([plan EXCEPT !.state = "draft"])
  /\ UNCHANGED <<planVersions, planTasks, planRuns, planTicket>>

\* The row of the version is made with the first submission, or with the revision;
\* its author is who made it.
SubmitPlan(user, asked) ==
  /\ plan.approval \notin {"review", "approved"} /\ LockChecks(plan.body)
  /\ \A n \in DOMAIN asked : asked[n] # user /\ \A m \in 1..(n - 1) : asked[m] # asked[n] \/ asked[n] = None
  /\ planVersions' =
       IF plan.version \in DOMAIN planVersions
       THEN [planVersions EXCEPT ![plan.version].state = "review", ![plan.version].body = Snapshot,
                                 ![plan.version].levels = BuildLevels(asked)]
       ELSE Append(planVersions, [state |-> "review", body |-> Snapshot, author |-> user,
                                  levels |-> BuildLevels(asked)])
  /\ Changed([plan EXCEPT !.approval = "review"])
  /\ UNCHANGED <<planTasks, planRuns, planTicket, planEdits>>

\* A signature is given on the plan as it stands, or it names no version.
SignPlan(user) ==
  /\ Cardinality(planTicket) < MaxPlanTickets
  /\ \E k \in {[user |-> user, rv |-> plan.rv, saw |-> plan.body], [user |-> user, rv |-> None, saw |-> None]} :
       planTicket' = planTicket \cup {k}
  /\ UNCHANGED <<plan, planVersions, planTasks, planRuns, planEdits>>

DropTicket(k) ==
  /\ planTicket' = planTicket \ {k}
  /\ UNCHANGED <<plan, planVersions, planTasks, planRuns, planEdits>>

RejectPlan(user) ==
  /\ plan.approval = "review"
  /\ MayDecide(planVersions[plan.version].levels, user, planVersions[plan.version].author, "rejected")
  /\ Edit
  /\ planVersions' = [planVersions EXCEPT ![plan.version].state = "rejected",
                                          ![plan.version].levels = Recorded(@, user, "rejected", None)]
  /\ Changed([plan EXCEPT !.approval = "rejected"])
  /\ UNCHANGED <<planTasks, planRuns, planTicket>>

\* One level approves; the last of them approves the plan as it is then. Until then
\* the plan itself does not change, nor does the number a signature refers to. A
\* signature that names no number is taken for any (identity_service.py:510-518).
ApproveLevel(user, k) ==
  /\ plan.approval = "review"
  /\ MayDecide(planVersions[plan.version].levels, user, planVersions[plan.version].author, "approved")
  /\ k.user = user /\ k.rv \in {plan.rv, None} /\ planTicket' = planTicket \ {k}
  /\ \E levels \in {Recorded(planVersions[plan.version].levels, user, "approved", k.saw)} :
       IF Open(levels) # {}
       THEN /\ planVersions' = [planVersions EXCEPT ![plan.version].levels = levels]
            /\ UNCHANGED plan
       ELSE /\ planVersions' = [planVersions EXCEPT ![plan.version].levels = levels,
                                  ![plan.version].state = "approved", ![plan.version].body = Snapshot]
            /\ Changed([plan EXCEPT !.approval = "approved"])
  /\ UNCHANGED <<planTasks, planRuns, planEdits>>

\* Whoever may edit plans may take one back.
Withdraw ==
  /\ plan.approval = "review" /\ Edit
  /\ planVersions' = [planVersions EXCEPT ![plan.version].state = "draft", ![plan.version].levels = <<>>]
  /\ Changed([plan EXCEPT !.approval = "draft"])
  /\ UNCHANGED <<planTasks, planRuns, planTicket>>

RestorePlan(v) ==
  /\ plan.approval \in {"draft", "rejected"} /\ plan.state = "draft"
  /\ Edit /\ Changed([plan EXCEPT !.body = planVersions[v].body])
  /\ UNCHANGED <<planVersions, planTasks, planRuns, planTicket>>

RevisePlan(user) ==
  /\ plan.approval = "approved" /\ plan.version < MaxPlanVersions
  /\ Changed([plan EXCEPT !.version = @ + 1, !.approval = "draft", !.state = "draft"])
  /\ planVersions' = Append(planVersions, [state |-> "draft", body |-> Snapshot, author |-> user, levels |-> <<>>])
  /\ UNCHANGED <<planTasks, planRuns, planTicket, planEdits>>

\* The latest approved version.
LatestApproved ==
  LET ok == {v \in DOMAIN planVersions : planVersions[v].state = "approved"} IN
  IF ok = {} THEN None ELSE CHOOSE v \in ok : \A w \in ok : w <= v

\* A task is given the version that is approved when it is made.
GiveTask ==
  /\ Len(planTasks) < MaxPlanRuns /\ LatestApproved # None
  /\ planTasks' = Append(planTasks, LatestApproved)
  /\ UNCHANGED <<plan, planVersions, planRuns, planTicket, planEdits>>

\* A batch of a task freezes what the version of the task says.
PinnedRun(n) ==
  /\ Len(planRuns) < MaxPlanRuns
  /\ planVersions[planTasks[n]].state = "approved"
  /\ planRuns' = Append(planRuns, [version |-> planTasks[n], body |-> planVersions[planTasks[n]].body])
  /\ UNCHANGED <<plan, planVersions, planTasks, planTicket, planEdits>>

\* A batch without a task freezes the plan itself, and names the latest approved
\* version.
FreeRun ==
  /\ Len(planRuns) < MaxPlanRuns
  /\ plan.state = "locked" /\ plan.approval = "approved"
  /\ planRuns' = Append(planRuns, [version |-> IF LatestApproved # None THEN LatestApproved ELSE plan.version,
                                   body |-> plan.body])
  /\ UNCHANGED <<plan, planVersions, planTasks, planTicket, planEdits>>

PlanNext ==
  \/ \E body \in Body : PatchPlan(body)
  \/ Lock \/ Unlock \/ Withdraw \/ GiveTask \/ FreeRun
  \/ \E user \in Planner : RevisePlan(user) \/ \E asked \in Levels : SubmitPlan(user, asked)
  \/ \E user \in Signer :
       \/ SignPlan(user) \/ RejectPlan(user)
       \/ \E k \in planTicket : ApproveLevel(user, k)
  \/ \E k \in planTicket : DropTicket(k)
  \/ \E v \in DOMAIN planVersions : RestorePlan(v)
  \/ \E n \in DOMAIN planTasks : PinnedRun(n)

PlanSpec == PlanInit /\ [][PlanNext]_planVars

-----------------------------------------------------------------------------
(* Properties.                                                              *)

\* What a batch runs by is what every level of the version it names has signed, if
\* its signature says which version it is for, whatever was edited, withdrawn,
\* revised or restored since or between two levels. Of a signature that names no
\* version nothing is promised: the code takes it for the plan as it is by then
\* (services/plan_service.py decide, services/batch_service.py _create).
RunsAsSigned ==
  \A n \in DOMAIN planRuns : \E v \in {planVersions[planRuns[n].version]} :
    /\ v.state = "approved"
    /\ \A m \in DOMAIN v.levels : v.levels[m].saw \in {planRuns[n].body, None}

\* An approved version was approved by as many people as it has levels, its author
\* not among them (domain/approval.py blockers).
SignedByAll ==
  \A v \in DOMAIN planVersions : planVersions[v].state = "approved" =>
    \E levels \in {planVersions[v].levels} :
      /\ \A n \in DOMAIN levels : levels[n].conclusion = "approved" /\ levels[n].by # planVersions[v].author
      /\ \A n, m \in DOMAIN levels : n # m => levels[n].by # levels[m].by

\* A plan that runs was approved by everybody it was to be approved by, and as it
\* runs by everybody whose signature names a version.
SignaturesStand == RunsAsSigned /\ SignedByAll

=============================================================================
