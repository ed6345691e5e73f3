---------------------------- MODULE Office_proofs ----------------------------
(***************************************************************************)
(* What people decide in the office, for any people, any content and any   *)
(* bound: plans and their signatures, accounts and roles, duties and the   *)
(* work given out, definitions and what refers to them.  Each part has an  *)
(* inductive invariant; Desk_proofs puts them together with the others.    *)
(***************************************************************************)
EXTENDS MCDesk, FiniteSetTheorems, WellFoundedInduction, TLAPS

-----------------------------------------------------------------------------
(* Facts about numbers and sequences.                                       *)

(* A nonempty set of numbers has a least one.                               *)
LEMMA LeastOne ==
  ASSUME NEW S \in SUBSET Nat, S # {}
  PROVE  \E s \in S : \A t \in S : s <= t
<1>1. \E s \in S : \A t \in S : <<t, s>> \notin OpToRel(<, Nat)
  BY NatLessThanWellFounded, WFMin, Zenon
<1>2. PICK s \in S : \A t \in S : <<t, s>> \notin OpToRel(<, Nat)
  BY <1>1
<1>3. ASSUME NEW t \in S PROVE s <= t
  <2>1. t \in Nat /\ s \in Nat
    OBVIOUS
  <2>2. ~(t < s)
    BY <1>2, <2>1 DEF OpToRel
  <2>3. QED
    BY <2>1, <2>2
<1>4. QED
  BY <1>3

(* A nonempty set of numbers that are bounded has a greatest one.           *)
LEMMA GreatestOne ==
  ASSUME NEW N \in Nat, NEW S \in SUBSET (0..N), S # {}
  PROVE  \E s \in S : \A t \in S : t <= s
<1> DEFINE T == {N - s : s \in S}
<1>1. T \in SUBSET Nat /\ T # {}
  <2>1. \A s \in S : N - s \in Nat
    OBVIOUS
  <2>2. QED
    BY <2>1, Zenon
<1>2. PICK u \in T : \A t \in T : u <= t
  BY <1>1, LeastOne
<1>3. PICK s \in S : u = N - s
  OBVIOUS
<1>4. ASSUME NEW t \in S PROVE t <= s
  <2>1. u <= N - t
    BY <1>2
  <2>2. QED
    BY <2>1, <1>3
<1>5. QED
  BY <1>4

(* A function on 1..n with values in S is a sequence over S.                *)
LEMMA SeqOfFunction ==
  ASSUME NEW S, NEW n \in Nat, NEW f \in [1..n -> S]
  PROVE  f \in Seq(S)
OBVIOUS

(* What is appended comes last; the rest stays as it was.                   *)
LEMMA Appended ==
  ASSUME NEW S, NEW q \in Seq(S), NEW x \in S
  PROVE  /\ Append(q, x) \in Seq(S) /\ DOMAIN q \subseteq DOMAIN Append(q, x)
         /\ Len(Append(q, x)) = Len(q) + 1 /\ Append(q, x)[Len(q) + 1] = x
         /\ \A n \in DOMAIN q : Append(q, x)[n] = q[n]
         /\ \A n \in DOMAIN Append(q, x) : n \in DOMAIN q \/ Append(q, x)[n] = x
OBVIOUS

-----------------------------------------------------------------------------
(* Plans.  While a plan is in review its content stays, and whoever has     *)
(* signed has seen it; what is approved stays as it was signed.             *)

PlanLevel == [assignee : Signer \cup {None}, by : Signer \cup {None}, saw : Body \cup {None},
              conclusion : {None, "approved", "rejected"}]
PlanVersion == [state : {"draft", "review", "rejected", "approved"}, body : Body, author : Planner,
                levels : Seq(PlanLevel)]
PlanTyped ==
  /\ plan \in [state : {"draft", "locked"}, approval : {"draft", "review", "rejected", "approved"},
               version : Nat, body : Body, rv : Nat]
  /\ planVersions \in Seq(PlanVersion)
  /\ planTasks \in Seq(Nat)
  /\ planRuns \in Seq([version : Nat, body : Body])
  /\ planTicket \in SUBSET [user : Signer, rv : Nat \cup {None}, saw : Body \cup {None}]
  /\ planEdits \in Nat

\* Who has concluded a level has approved it, and saw what the version is to say or
\* named no version.
LevelsSigned(levels, author, body) ==
  /\ \A n \in DOMAIN levels : levels[n].conclusion # None =>
       /\ levels[n].conclusion = "approved"
       /\ levels[n].by # author /\ levels[n].saw \in {body, None}
  /\ \A n, m \in DOMAIN levels :
       n # m /\ levels[n].conclusion # None /\ levels[m].conclusion # None => levels[n].by # levels[m].by
Concluded(levels) == \A n \in DOMAIN levels : levels[n].conclusion # None
VersionSigned(v) == LevelsSigned(v.levels, v.author, v.body) /\ Concluded(v.levels)

\* The current version is the last one; before the first submission there is none.
VersionIsLast ==
  \/ plan.version = Len(planVersions) /\ plan.version > 0
  \/ plan.version = 1 /\ planVersions = <<>> /\ plan.approval = "draft"
InReview ==
  plan.approval = "review" =>
    /\ planVersions[plan.version].state = "review"
    /\ LevelsSigned(planVersions[plan.version].levels, planVersions[plan.version].author, plan.body)
IsApproved ==
  plan.version \in DOMAIN planVersions =>
    IF plan.approval = "approved"
    THEN planVersions[plan.version].state = "approved" /\ planVersions[plan.version].body = plan.body
    ELSE planVersions[plan.version].state # "approved"
ApprovedSigned ==
  \A v \in DOMAIN planVersions : planVersions[v].state = "approved" => VersionSigned(planVersions[v])
TicketsSaw ==
  \A k \in planTicket :
    \/ k.rv = None /\ k.saw = None
    \/ k.rv \in Nat /\ k.rv <= plan.rv /\ (k.rv = plan.rv => k.saw = plan.body)
TasksName == \A n \in DOMAIN planTasks : planTasks[n] \in DOMAIN planVersions
RunsName ==
  \A n \in DOMAIN planRuns :
    /\ planRuns[n].version \in DOMAIN planVersions
    /\ planVersions[planRuns[n].version].state = "approved"
    /\ planVersions[planRuns[n].version].body = planRuns[n].body
PlansInv ==
  /\ PlanTyped /\ VersionIsLast /\ InReview /\ IsApproved /\ ApprovedSigned /\ TicketsSaw
  /\ TasksName /\ RunsName

(* An open chain has a current level, which is one of the open ones.        *)
LEMMA CurrentIsOpen ==
  ASSUME NEW levels \in Seq(PlanLevel), Schemes!Open(levels) # {}
  PROVE  /\ Schemes!CurrentLevel(levels) \in DOMAIN levels
         /\ levels[Schemes!CurrentLevel(levels)].conclusion = None
<1>1. Schemes!Open(levels) \in SUBSET Nat
  BY DEF Schemes!Open
<1>2. \E n \in Schemes!Open(levels) : \A m \in Schemes!Open(levels) : n <= m
  BY <1>1, LeastOne
<1>3. Schemes!CurrentLevel(levels) \in Schemes!Open(levels)
  BY <1>2, Zenon DEF Schemes!CurrentLevel
<1>4. QED
  BY <1>3 DEF Schemes!Open

(* What is recorded is recorded at the current level, and only there.       *)
LEMMA RecordedThere ==
  ASSUME NEW levels \in Seq(PlanLevel), Schemes!Open(levels) # {}, NEW user \in Signer,
         NEW conclusion \in {"approved", "rejected"}, NEW seen \in Body \cup {None}
  PROVE  /\ Schemes!Recorded(levels, user, conclusion, seen) \in Seq(PlanLevel)
         /\ DOMAIN Schemes!Recorded(levels, user, conclusion, seen) = DOMAIN levels
         /\ \A n \in DOMAIN levels :
              IF n = Schemes!CurrentLevel(levels)
              THEN /\ Schemes!Recorded(levels, user, conclusion, seen)[n].by = user
                   /\ Schemes!Recorded(levels, user, conclusion, seen)[n].saw = seen
                   /\ Schemes!Recorded(levels, user, conclusion, seen)[n].conclusion = conclusion
              ELSE Schemes!Recorded(levels, user, conclusion, seen)[n] = levels[n]
<1> DEFINE c == Schemes!CurrentLevel(levels)
<1>1. c \in DOMAIN levels
  BY CurrentIsOpen
<1> HIDE DEF c
<1>2. Schemes!Recorded(levels, user, conclusion, seen) =
        [levels EXCEPT ![c].by = user, ![c].saw = seen, ![c].conclusion = conclusion]
  BY Zenon DEF Schemes!Recorded, c
<1> DEFINE there == [levels[c] EXCEPT !.by = user, !.saw = seen, !.conclusion = conclusion]
<1>3. Schemes!Recorded(levels, user, conclusion, seen) =
        [n \in DOMAIN levels |-> IF n = c THEN there ELSE levels[n]]
  BY <1>1, <1>2, Zenon
<1>4. levels[c] \in PlanLevel
  BY <1>1
<1>5. /\ there \in PlanLevel /\ there.by = user /\ there.saw = seen
      /\ there.conclusion = conclusion
  BY <1>4 DEF PlanLevel
<1> HIDE DEF there
<1>6. Schemes!Recorded(levels, user, conclusion, seen) \in Seq(PlanLevel)
  BY <1>3, <1>5
<1>7. QED
  BY <1>3, <1>5, <1>6 DEF c

(* A chain that is built is open at every level.                            *)
LEMMA BuiltIsOpen ==
  ASSUME NEW asked \in Levels
  PROVE  /\ Schemes!BuildLevels(asked) \in Seq(PlanLevel)
         /\ \A n \in DOMAIN Schemes!BuildLevels(asked) :
              Schemes!BuildLevels(asked)[n].conclusion = None
<1> DEFINE l == IF asked = <<>> THEN 1 ELSE Len(asked)
           f == [n \in 1..l |-> [assignee |-> IF asked = <<>> THEN None ELSE asked[n],
                                 by |-> None, saw |-> None, conclusion |-> None]]
<1>1. asked \in Seq(Signer \cup {None})
  BY LevelsAreChains
<1>2. l \in Nat
  BY <1>1
<1>3. \A n \in 1..l : (IF asked = <<>> THEN None ELSE asked[n]) \in Signer \cup {None}
  BY <1>1
<1>4. f \in [1..l -> PlanLevel]
  BY <1>3 DEF PlanLevel
<1>5. f \in Seq(PlanLevel)
  BY <1>2, <1>4, SeqOfFunction, Zenon
<1>6. Schemes!BuildLevels(asked) = f
  BY Zenon DEF Schemes!BuildLevels
<1>7. DOMAIN f = 1..l /\ \A n \in 1..l : f[n].conclusion = None
  OBVIOUS
<1> HIDE DEF f
<1>8. QED
  BY <1>5, <1>6, <1>7

(* The invariant of the plans holds at the start.                           *)
LEMMA PlansStart == ASSUME Schemes!PlanInit PROVE PlansInv
<1> USE DEF Schemes!PlanInit
<1>1. PlanTyped
  BY DEF PlanTyped
<1>2. QED
  BY <1>1 DEF PlansInv, VersionIsLast, InReview, IsApproved, ApprovedSigned, TicketsSaw, TasksName,
     RunsName

(* An edit of the content, or of the lock, that leaves the versions alone.  *)
LEMMA PlanEdited ==
  ASSUME PlansInv, PlanTyped', UNCHANGED <<planVersions, planTasks, planRuns, planTicket>>,
         plan'.rv = plan.rv + 1, plan'.version = plan.version, plan'.approval = plan.approval,
         plan.approval \in {"review", "approved"} => plan'.body = plan.body
  PROVE  PlansInv'
<1> USE DEF PlansInv
<1>1. VersionIsLast'
  BY DEF VersionIsLast
<1>2. InReview'
  BY DEF InReview
<1>3. IsApproved'
  BY DEF IsApproved
<1>4. ApprovedSigned'
  BY DEF ApprovedSigned
<1>5. TicketsSaw'
  BY DEF TicketsSaw, PlanTyped
<1>6. TasksName' /\ RunsName'
  BY DEF TasksName, RunsName
<1>7. QED
  BY <1>1, <1>2, <1>3, <1>4, <1>5, <1>6

\* The plan as one of its fields is changed.
(* A change of the plan counts its number on and leaves the other fields.   *)
LEMMA PlanChanged ==
  ASSUME PlanTyped, NEW p, Schemes!Changed(p),
         p \in [state : {"draft", "locked"}, approval : {"draft", "review", "rejected", "approved"},
                version : Nat, body : Body, rv : Nat]
  PROVE  /\ plan' \in [state : {"draft", "locked"},
                       approval : {"draft", "review", "rejected", "approved"},
                       version : Nat, body : Body, rv : Nat]
         /\ plan'.state = p.state /\ plan'.approval = p.approval /\ plan'.version = p.version
         /\ plan'.body = p.body /\ plan'.rv = p.rv + 1
  BY DEF Schemes!Changed

\* The shape of the plan and of its versions after a step.
PlanRow == [state : {"draft", "locked"}, approval : {"draft", "review", "rejected", "approved"},
            version : Nat, body : Body, rv : Nat]

(* A plan that changes its approval only keeps its version, and is written   *)
(* once.                                                                     *)
LEMMA PlanWritten ==
  ASSUME PlanTyped, NEW p \in PlanRow, Schemes!Changed(p), p.version = plan.version, p.rv = plan.rv
  PROVE  /\ plan' \in PlanRow /\ plan'.rv = plan.rv + 1 /\ plan'.version = plan.version
         /\ plan'.approval = p.approval /\ plan'.body = p.body
<1>1. p \in [state : {"draft", "locked"}, approval : {"draft", "review", "rejected", "approved"},
             version : Nat, body : Body, rv : Nat]
  BY DEF PlanRow
<1>2. /\ plan' \in [state : {"draft", "locked"}, approval : {"draft", "review", "rejected", "approved"},
                    version : Nat, body : Body, rv : Nat]
      /\ plan'.approval = p.approval /\ plan'.version = p.version
      /\ plan'.body = p.body /\ plan'.rv = p.rv + 1
  BY <1>1, PlanChanged
<1>3. plan' \in PlanRow
  BY <1>2 DEF PlanRow
<1>4. QED
  BY <1>2, <1>3

(* A version is put in the place of the current one, and the plan goes on:  *)
(* the rest of the books stay true where the version was not approved.      *)
LEMMA VersionPut ==
  ASSUME PlansInv, plan.version \in DOMAIN planVersions, plan.approval # "approved",
         NEW ver \in PlanVersion, ver.state = "approved" => VersionSigned(ver),
         planVersions' = [n \in DOMAIN planVersions |-> IF n = plan.version THEN ver ELSE planVersions[n]],
         UNCHANGED <<planTasks, planRuns>>
  PROVE  /\ planVersions' \in Seq(PlanVersion) /\ DOMAIN planVersions' = DOMAIN planVersions
         /\ planVersions'[plan.version] = ver /\ Len(planVersions') = Len(planVersions)
         /\ ApprovedSigned' /\ TasksName' /\ RunsName'
<1> USE DEF PlansInv
<1>1. planVersions \in Seq(PlanVersion)
  BY DEF PlanTyped
<1>2. /\ planVersions' \in Seq(PlanVersion) /\ DOMAIN planVersions' = DOMAIN planVersions
      /\ planVersions'[plan.version] = ver /\ Len(planVersions') = Len(planVersions)
  BY <1>1
<1>3. \A n \in DOMAIN planVersions : n # plan.version => planVersions'[n] = planVersions[n]
  OBVIOUS
<1>4. planVersions[plan.version].state # "approved"
  BY DEF IsApproved
<1>5. ApprovedSigned'
  BY <1>2, <1>3 DEF ApprovedSigned, VersionSigned
<1>6. TasksName'
  BY <1>2 DEF TasksName
<1>7. RunsName'
  BY <1>2, <1>3, <1>4 DEF RunsName
<1>8. QED
  BY <1>2, <1>5, <1>6, <1>7

(* A version is added, not yet approved.                                    *)
LEMMA VersionAdded ==
  ASSUME PlansInv, NEW ver \in PlanVersion, ver.state # "approved",
         planVersions' = Append(planVersions, ver), UNCHANGED <<planTasks, planRuns>>
  PROVE  /\ planVersions' \in Seq(PlanVersion) /\ DOMAIN planVersions \subseteq DOMAIN planVersions'
         /\ planVersions'[Len(planVersions) + 1] = ver /\ Len(planVersions') = Len(planVersions) + 1
         /\ ApprovedSigned' /\ TasksName' /\ RunsName'
<1> USE DEF PlansInv
<1>1. planVersions \in Seq(PlanVersion)
  BY DEF PlanTyped
<1>2. /\ planVersions' \in Seq(PlanVersion) /\ DOMAIN planVersions \subseteq DOMAIN planVersions'
      /\ planVersions'[Len(planVersions) + 1] = ver /\ Len(planVersions') = Len(planVersions) + 1
  BY <1>1
<1>3. \A n \in DOMAIN planVersions : planVersions'[n] = planVersions[n]
  BY <1>1
<1>4. \A n \in DOMAIN planVersions' : n \in DOMAIN planVersions \/ planVersions'[n] = ver
  BY <1>1
<1>5. ApprovedSigned'
  BY <1>3, <1>4 DEF ApprovedSigned, VersionSigned
<1>6. TasksName'
  BY <1>2 DEF TasksName
<1>7. RunsName'
  BY <1>2, <1>3 DEF RunsName
<1>8. QED
  BY <1>2, <1>5, <1>6, <1>7

(* Editing the content, locking and unlocking.                              *)
LEMMA PlanEdits ==
  ASSUME PlansInv
  PROVE  /\ \A body \in Body : Schemes!PatchPlan(body) => PlansInv'
         /\ Schemes!Lock => PlansInv'
         /\ Schemes!Unlock => PlansInv'
         /\ \A v \in DOMAIN planVersions : Schemes!RestorePlan(v) => PlansInv'
<1>0. PlanTyped /\ plan \in PlanRow
  BY DEF PlansInv, PlanTyped, PlanRow
<1>1. ASSUME NEW body \in Body, Schemes!PatchPlan(body) PROVE PlansInv'
  <2> DEFINE p == [plan EXCEPT !.body = body]
  <2>1. Schemes!Changed(p) /\ plan.approval \notin {"approved", "review"}
        /\ UNCHANGED <<planVersions, planTasks, planRuns, planTicket>> /\ Schemes!Edit
    BY <1>1, Zenon DEF Schemes!PatchPlan
  <2>2. p \in PlanRow /\ p.version = plan.version /\ p.approval = plan.approval /\ p.rv = plan.rv
    BY <1>0 DEF PlanRow
  <2> HIDE DEF p
  <2>3. /\ plan' \in PlanRow /\ plan'.rv = plan.rv + 1 /\ plan'.version = plan.version
        /\ plan'.approval = plan.approval
    BY <1>0, <2>1, <2>2, PlanChanged DEF PlanRow
  <2>4. PlanTyped'
    BY <1>0, <2>1, <2>3 DEF PlanTyped, PlanRow, Schemes!Edit
  <2>5. QED
    BY <2>1, <2>3, <2>4, PlanEdited
<1>2. ASSUME Schemes!Lock PROVE PlansInv'
  <2> DEFINE p == [plan EXCEPT !.state = "locked"]
  <2>1. Schemes!Changed(p)
        /\ UNCHANGED <<planVersions, planTasks, planRuns, planTicket, planEdits>>
    BY <1>2, Zenon DEF Schemes!Lock
  <2>2. p \in PlanRow /\ p.version = plan.version /\ p.approval = plan.approval /\ p.rv = plan.rv
        /\ p.body = plan.body
    BY <1>0 DEF PlanRow
  <2> HIDE DEF p
  <2>3. /\ plan' \in PlanRow /\ plan'.rv = plan.rv + 1 /\ plan'.version = plan.version
        /\ plan'.approval = plan.approval /\ plan'.body = plan.body
    BY <1>0, <2>1, <2>2, PlanChanged DEF PlanRow
  <2>4. PlanTyped'
    BY <1>0, <2>1, <2>3 DEF PlanTyped, PlanRow
  <2>5. QED
    BY <2>1, <2>3, <2>4, PlanEdited
<1>3. ASSUME Schemes!Unlock PROVE PlansInv'
  <2> DEFINE p == [plan EXCEPT !.state = "draft"]
  <2>1. Schemes!Changed(p) /\ Schemes!Edit
        /\ UNCHANGED <<planVersions, planTasks, planRuns, planTicket>>
    BY <1>3, Zenon DEF Schemes!Unlock
  <2>2. p \in PlanRow /\ p.version = plan.version /\ p.approval = plan.approval /\ p.rv = plan.rv
        /\ p.body = plan.body
    BY <1>0 DEF PlanRow
  <2> HIDE DEF p
  <2>3. /\ plan' \in PlanRow /\ plan'.rv = plan.rv + 1 /\ plan'.version = plan.version
        /\ plan'.approval = plan.approval /\ plan'.body = plan.body
    BY <1>0, <2>1, <2>2, PlanChanged DEF PlanRow
  <2>4. PlanTyped'
    BY <1>0, <2>1, <2>3 DEF PlanTyped, PlanRow, Schemes!Edit
  <2>5. QED
    BY <2>1, <2>3, <2>4, PlanEdited
<1>4. ASSUME NEW v \in DOMAIN planVersions, Schemes!RestorePlan(v) PROVE PlansInv'
  <2> DEFINE p == [plan EXCEPT !.body = planVersions[v].body]
  <2>0. planVersions[v].body \in Body
    <3>1. planVersions \in Seq(PlanVersion)
      BY <1>0 DEF PlanTyped
    <3>2. planVersions[v] \in PlanVersion
      BY <3>1
    <3>3. QED
      BY <3>2 DEF PlanVersion
  <2>1. Schemes!Changed(p) /\ plan.approval \in {"draft", "rejected"} /\ Schemes!Edit
        /\ UNCHANGED <<planVersions, planTasks, planRuns, planTicket>>
    BY <1>4, Zenon DEF Schemes!RestorePlan
  <2>2. p \in PlanRow /\ p.version = plan.version /\ p.approval = plan.approval /\ p.rv = plan.rv
    BY <1>0, <2>0 DEF PlanRow
  <2> HIDE DEF p
  <2>3. /\ plan' \in PlanRow /\ plan'.rv = plan.rv + 1 /\ plan'.version = plan.version
        /\ plan'.approval = plan.approval
    BY <1>0, <2>1, <2>2, PlanChanged DEF PlanRow
  <2>4. PlanTyped'
    BY <1>0, <2>1, <2>3 DEF PlanTyped, PlanRow, Schemes!Edit
  <2>5. QED
    BY <2>1, <2>3, <2>4, PlanEdited
<1>5. QED
  BY <1>1, <1>2, <1>3, <1>4

(* The plan goes on to another state of its approval, with its versions     *)
(* put right: what remains of the invariant.                                *)
LEMMA PlanMoved ==
  ASSUME PlansInv, plan' \in PlanRow, planVersions' \in Seq(PlanVersion), planEdits' \in Nat,
         plan'.rv = plan.rv + 1, planTicket' \subseteq planTicket,
         UNCHANGED <<planTasks, planRuns>>,
         plan'.version = Len(planVersions'), plan'.version > 0,
         ApprovedSigned', TasksName', RunsName', InReview', IsApproved'
  PROVE  PlansInv'
<1> USE DEF PlansInv
<1>1. PlanTyped'
  BY DEF PlanTyped, PlanRow
<1>2. VersionIsLast'
  BY DEF VersionIsLast
<1>3. TicketsSaw'
  BY DEF TicketsSaw, PlanTyped
<1>4. QED
  BY <1>1, <1>2, <1>3

(* A submission puts the content of the plan into its version, with a chain *)
(* nobody has signed yet.                                                   *)
LEMMA PlanSubmitted ==
  ASSUME PlansInv, NEW user \in Planner, NEW asked \in Levels, Schemes!SubmitPlan(user, asked)
  PROVE  PlansInv'
<1> DEFINE p == [plan EXCEPT !.approval = "review"]
           built == Schemes!BuildLevels(asked)
           made == [state |-> "review", body |-> plan.body, author |-> user, levels |-> built]
           over == [planVersions[plan.version] EXCEPT !.state = "review", !.body = plan.body,
                                                      !.levels = built]
<1>0. /\ PlanTyped /\ plan \in PlanRow /\ planVersions \in Seq(PlanVersion) /\ planEdits \in Nat
      /\ VersionIsLast
  BY DEF PlansInv, PlanTyped, PlanRow
<1>1. /\ Schemes!Changed(p) /\ plan.approval \notin {"review", "approved"}
      /\ UNCHANGED <<planTasks, planRuns, planTicket, planEdits>>
  BY Zenon DEF Schemes!SubmitPlan
<1>2. p \in PlanRow /\ p.version = plan.version /\ p.approval = "review" /\ p.rv = plan.rv
      /\ p.body = plan.body
  BY <1>0 DEF PlanRow
<1>3. /\ plan' \in PlanRow /\ plan'.rv = plan.rv + 1 /\ plan'.version = plan.version
      /\ plan'.approval = "review" /\ plan'.body = plan.body
  <2> HIDE DEF p
  <2>1. QED
    BY <1>0, <1>1, <1>2, PlanChanged DEF PlanRow
<1>4. /\ built \in Seq(PlanLevel) /\ \A n \in DOMAIN built : built[n].conclusion = None
  BY BuiltIsOpen
<1>5. CASE plan.version \in DOMAIN planVersions
  <2>1. planVersions' = [n \in DOMAIN planVersions |->
                           IF n = plan.version THEN over ELSE planVersions[n]]
    <3>1. planVersions' = [planVersions EXCEPT ![plan.version].state = "review",
                                               ![plan.version].body = plan.body,
                                               ![plan.version].levels = built]
      BY <1>5, Zenon DEF Schemes!SubmitPlan, Schemes!Snapshot
    <3>2. QED
      BY <1>5, <3>1, Zenon
  <2>2. planVersions[plan.version] \in PlanVersion
    BY <1>0, <1>5
  <2>3. /\ over \in PlanVersion /\ over.state = "review" /\ over.body = plan.body
        /\ over.levels = built
    <3> HIDE DEF built
    <3>1. QED
      BY <1>0, <1>4, <2>2 DEF PlanVersion, PlanRow
  <2> HIDE DEF over, built, p
  <2>4. /\ planVersions' \in Seq(PlanVersion) /\ DOMAIN planVersions' = DOMAIN planVersions
        /\ planVersions'[plan.version] = over /\ Len(planVersions') = Len(planVersions)
        /\ ApprovedSigned' /\ TasksName' /\ RunsName'
    BY <1>1, <1>5, <2>1, <2>3, VersionPut
  <2>5. InReview'
    BY <1>3, <1>4, <2>3, <2>4 DEF InReview, LevelsSigned
  <2>6. IsApproved'
    BY <1>3, <2>3, <2>4 DEF IsApproved
  <2>7. plan.version = Len(planVersions) /\ plan.version > 0
    BY <1>0, <1>5 DEF VersionIsLast
  <2>8. planTicket' \subseteq planTicket
    BY <1>1
  <2>9. QED
    BY <1>0, <1>1, <1>3, <2>4, <2>5, <2>6, <2>7, <2>8, PlanMoved
<1>6. CASE plan.version \notin DOMAIN planVersions
  <2>1. planVersions' = Append(planVersions, made)
    BY <1>6, Zenon DEF Schemes!SubmitPlan, Schemes!Snapshot
  <2>2. made \in PlanVersion /\ made.state = "review" /\ made.levels = built
    <3> HIDE DEF built
    <3>1. QED
      BY <1>0, <1>4 DEF PlanVersion, PlanRow
  <2> HIDE DEF made, built, p
  <2>3. plan.version = 1 /\ planVersions = <<>>
    BY <1>0, <1>6 DEF VersionIsLast
  <2>4. /\ planVersions' \in Seq(PlanVersion)
        /\ planVersions'[Len(planVersions) + 1] = made /\ Len(planVersions') = Len(planVersions) + 1
        /\ ApprovedSigned' /\ TasksName' /\ RunsName'
    BY <1>1, <2>1, <2>2, VersionAdded
  <2>5. Len(planVersions) = 0
    BY <2>3
  <2>6. plan'.version = Len(planVersions') /\ plan'.version = 1 /\ planVersions'[1] = made
    BY <1>3, <2>3, <2>4, <2>5
  <2>7. InReview'
    BY <1>3, <1>4, <2>2, <2>6 DEF InReview, LevelsSigned
  <2>8. IsApproved'
    BY <1>3, <2>2, <2>6 DEF IsApproved
  <2>9. planTicket' \subseteq planTicket
    BY <1>1
  <2>10. QED
    BY <1>0, <1>1, <1>3, <2>4, <2>6, <2>7, <2>8, <2>9, PlanMoved
<1>7. QED
  BY <1>5, <1>6

(* A revision adds a version of its own, which nobody has approved.         *)
LEMMA PlanRevised ==
  ASSUME PlansInv, NEW user \in Planner, Schemes!RevisePlan(user)
  PROVE  PlansInv'
<1> DEFINE p == [plan EXCEPT !.version = @ + 1, !.approval = "draft", !.state = "draft"]
           made == [state |-> "draft", body |-> plan.body, author |-> user, levels |-> <<>>]
<1>0. /\ PlanTyped /\ plan \in PlanRow /\ planVersions \in Seq(PlanVersion) /\ planEdits \in Nat
      /\ VersionIsLast
  BY DEF PlansInv, PlanTyped, PlanRow
<1>1. /\ Schemes!Changed(p) /\ plan.approval = "approved"
      /\ UNCHANGED <<planTasks, planRuns, planTicket, planEdits>>
      /\ planVersions' = Append(planVersions, made)
  BY Zenon DEF Schemes!RevisePlan, Schemes!Snapshot
<1>2. p \in PlanRow /\ p.version = plan.version + 1 /\ p.approval = "draft" /\ p.rv = plan.rv
  <2> DEFINE next == plan.version + 1
  <2>1. p = [plan EXCEPT !.version = next, !.approval = "draft", !.state = "draft"]
    OBVIOUS
  <2>2. next \in Nat
    BY <1>0 DEF PlanRow
  <2> HIDE DEF next
  <2>3. /\ [plan EXCEPT !.version = next, !.approval = "draft", !.state = "draft"] \in PlanRow
        /\ [plan EXCEPT !.version = next, !.approval = "draft", !.state = "draft"].version = next
        /\ [plan EXCEPT !.version = next, !.approval = "draft", !.state = "draft"].approval = "draft"
        /\ [plan EXCEPT !.version = next, !.approval = "draft", !.state = "draft"].rv = plan.rv
    BY <1>0, <2>2 DEF PlanRow
  <2> HIDE DEF p
  <2>4. QED
    BY <2>1, <2>3, Zenon DEF next
<1>3. /\ plan' \in PlanRow /\ plan'.rv = plan.rv + 1 /\ plan'.version = plan.version + 1
      /\ plan'.approval = "draft"
  <2> HIDE DEF p
  <2>1. QED
    BY <1>0, <1>1, <1>2, PlanChanged DEF PlanRow
<1>4. made \in PlanVersion /\ made.state = "draft"
  BY <1>0 DEF PlanVersion, PlanRow
<1> HIDE DEF made, p
<1>5. /\ planVersions' \in Seq(PlanVersion)
      /\ planVersions'[Len(planVersions) + 1] = made /\ Len(planVersions') = Len(planVersions) + 1
      /\ ApprovedSigned' /\ TasksName' /\ RunsName'
  BY <1>1, <1>4, VersionAdded
<1>6. plan.version = Len(planVersions) /\ plan.version > 0
  BY <1>0, <1>1 DEF VersionIsLast
<1>7. plan'.version = Len(planVersions') /\ plan'.version > 0
  BY <1>3, <1>5, <1>6
<1>8. InReview'
  BY <1>3 DEF InReview
<1>9. IsApproved'
  BY <1>3, <1>4, <1>5, <1>6 DEF IsApproved
<1>10. planTicket' \subseteq planTicket
  BY <1>1
<1>11. QED
  BY <1>0, <1>1, <1>3, <1>5, <1>7, <1>8, <1>9, <1>10, PlanMoved

(* A withdrawal opens the version again and drops its chain.                *)
LEMMA PlanWithdrawn == ASSUME PlansInv, Schemes!Withdraw PROVE PlansInv'
<1> DEFINE p == [plan EXCEPT !.approval = "draft"]
           over == [planVersions[plan.version] EXCEPT !.state = "draft", !.levels = <<>>]
<1>0. /\ PlanTyped /\ plan \in PlanRow /\ planVersions \in Seq(PlanVersion) /\ planEdits \in Nat
      /\ VersionIsLast
  BY DEF PlansInv, PlanTyped, PlanRow
<1>1. /\ Schemes!Changed(p) /\ plan.approval = "review" /\ Schemes!Edit
      /\ UNCHANGED <<planTasks, planRuns, planTicket>>
      /\ planVersions' = [planVersions EXCEPT ![plan.version].state = "draft",
                                              ![plan.version].levels = <<>>]
  BY Zenon DEF Schemes!Withdraw
<1>2. p \in PlanRow /\ p.version = plan.version /\ p.approval = "draft" /\ p.rv = plan.rv
  BY <1>0 DEF PlanRow
<1>3. /\ plan' \in PlanRow /\ plan'.rv = plan.rv + 1 /\ plan'.version = plan.version
      /\ plan'.approval = "draft"
  <2> HIDE DEF p, over
  <2>1. PlanTyped /\ Schemes!Changed(p) /\ p \in PlanRow
    BY <1>0, <1>1, <1>2
  <2>2. QED
    BY <1>2, <2>1, PlanWritten
<1>4. plan.version = Len(planVersions) /\ plan.version \in DOMAIN planVersions
  BY <1>0, <1>1 DEF VersionIsLast
<1>5. planVersions' = [n \in DOMAIN planVersions |-> IF n = plan.version THEN over ELSE planVersions[n]]
  BY <1>1, <1>4, Zenon
<1>6. planVersions[plan.version] \in PlanVersion
  BY <1>0, <1>4
<1>7. over \in PlanVersion /\ over.state = "draft"
  <2> DEFINE none == <<>>
  <2>1. none \in Seq(PlanLevel)
    OBVIOUS
  <2>2. over = [planVersions[plan.version] EXCEPT !.state = "draft", !.levels = none]
    OBVIOUS
  <2> HIDE DEF none, over
  <2>3. QED
    BY <1>6, <2>1, <2>2 DEF PlanVersion
<1>8. planEdits' \in Nat /\ UNCHANGED <<planTasks, planRuns>> /\ planTicket' \subseteq planTicket
  <2> HIDE DEF p, over
  <2>1. Schemes!Edit /\ UNCHANGED <<planTasks, planRuns, planTicket>>
    BY <1>1
  <2>2. QED
    BY <1>0, <2>1 DEF Schemes!Edit
<1>9. plan.approval = "review"
  BY <1>1
<1> HIDE DEF over, p
<1>10. /\ planVersions' \in Seq(PlanVersion)
       /\ planVersions'[plan.version] = over /\ Len(planVersions') = Len(planVersions)
       /\ ApprovedSigned' /\ TasksName' /\ RunsName'
  BY <1>4, <1>5, <1>7, <1>8, <1>9, VersionPut
<1>11. InReview' /\ IsApproved'
  BY <1>3, <1>7, <1>10 DEF InReview, IsApproved
<1>12. plan'.version = Len(planVersions') /\ plan'.version > 0
  BY <1>3, <1>4, <1>10, <1>0
<1>13. QED
  BY <1>3, <1>8, <1>10, <1>11, <1>12, PlanMoved

(* A rejection closes the version with what was recorded.                   *)
LEMMA PlanRejected ==
  ASSUME PlansInv, NEW user \in Signer, Schemes!RejectPlan(user)
  PROVE  PlansInv'
<1> DEFINE p == [plan EXCEPT !.approval = "rejected"]
           levels == Schemes!Recorded(planVersions[plan.version].levels, user, "rejected", None)
           over == [planVersions[plan.version] EXCEPT !.state = "rejected", !.levels = levels]
<1>0. /\ PlanTyped /\ plan \in PlanRow /\ planVersions \in Seq(PlanVersion) /\ planEdits \in Nat
      /\ VersionIsLast
  BY DEF PlansInv, PlanTyped, PlanRow
<1>1. /\ Schemes!Changed(p) /\ plan.approval = "review" /\ Schemes!Edit
      /\ UNCHANGED <<planTasks, planRuns, planTicket>>
      /\ Schemes!Open(planVersions[plan.version].levels) # {}
      /\ planVersions' = [planVersions EXCEPT ![plan.version].state = "rejected",
           ![plan.version].levels = Schemes!Recorded(@, user, "rejected", None)]
  BY Zenon DEF Schemes!RejectPlan, Schemes!MayDecide
<1>2. p \in PlanRow /\ p.version = plan.version /\ p.approval = "rejected" /\ p.rv = plan.rv
  BY <1>0 DEF PlanRow
<1>3. /\ plan' \in PlanRow /\ plan'.rv = plan.rv + 1 /\ plan'.version = plan.version
      /\ plan'.approval = "rejected"
  <2> HIDE DEF p
  <2>1. PlanTyped /\ Schemes!Changed(p) /\ p \in PlanRow
    BY <1>0, <1>1, <1>2
  <2>2. QED
    BY <1>2, <2>1, PlanWritten
<1>4. plan.version = Len(planVersions) /\ plan.version \in DOMAIN planVersions
  BY <1>0, <1>1 DEF VersionIsLast
<1>5. planVersions' = [n \in DOMAIN planVersions |-> IF n = plan.version THEN over ELSE planVersions[n]]
  BY <1>1, <1>4, Zenon
<1>6. planVersions[plan.version] \in PlanVersion
  BY <1>0, <1>4
<1>7. over \in PlanVersion /\ over.state = "rejected"
  <2>1. planVersions[plan.version].levels \in Seq(PlanLevel)
    BY <1>6 DEF PlanVersion
  <2>2. levels \in Seq(PlanLevel)
    BY <1>1, <2>1, RecordedThere
  <2> HIDE DEF levels
  <2>3. QED
    BY <1>6, <2>2 DEF PlanVersion
<1>8. planEdits' \in Nat /\ UNCHANGED <<planTasks, planRuns>> /\ planTicket' \subseteq planTicket
  <2> HIDE DEF p, over
  <2>1. Schemes!Edit /\ UNCHANGED <<planTasks, planRuns, planTicket>>
    BY <1>1
  <2>2. QED
    BY <1>0, <2>1 DEF Schemes!Edit
<1>9. plan.approval = "review"
  BY <1>1
<1> HIDE DEF over, p, levels
<1>10. /\ planVersions' \in Seq(PlanVersion)
       /\ planVersions'[plan.version] = over /\ Len(planVersions') = Len(planVersions)
       /\ ApprovedSigned' /\ TasksName' /\ RunsName'
  BY <1>4, <1>5, <1>7, <1>8, <1>9, VersionPut
<1>11. InReview' /\ IsApproved'
  BY <1>3, <1>7, <1>10 DEF InReview, IsApproved
<1>12. plan'.version = Len(planVersions') /\ plan'.version > 0
  BY <1>3, <1>4, <1>10, <1>0
<1>13. QED
  BY <1>3, <1>8, <1>10, <1>11, <1>12, PlanMoved

(* One more signature on a chain, by somebody else who saw that much.       *)
LEMMA OneMoreSigns ==
  ASSUME NEW levels \in Seq(PlanLevel), NEW author, NEW body \in Body, NEW user \in Signer,
         NEW seen \in {body, None},
         LevelsSigned(levels, author, body),
         Schemes!MayDecide(levels, user, author, "approved")
  PROVE  /\ Schemes!Recorded(levels, user, "approved", seen) \in Seq(PlanLevel)
         /\ LevelsSigned(Schemes!Recorded(levels, user, "approved", seen), author, body)
<1> DEFINE new == Schemes!Recorded(levels, user, "approved", seen)
           c == Schemes!CurrentLevel(levels)
<1>1. Schemes!Open(levels) # {} /\ user # author /\ \A n \in DOMAIN levels \ {c} : levels[n].by # user
  BY DEF Schemes!MayDecide
<1>2. /\ new \in Seq(PlanLevel) /\ DOMAIN new = DOMAIN levels
      /\ \A n \in DOMAIN levels :
           IF n = c THEN new[n].by = user /\ new[n].saw = seen /\ new[n].conclusion = "approved"
           ELSE new[n] = levels[n]
  BY <1>1, RecordedThere
<1> HIDE DEF new, c
<1>3. \A n \in DOMAIN new : new[n].conclusion # None =>
        new[n].conclusion = "approved" /\ new[n].by # author /\ new[n].saw \in {body, None}
  BY <1>1, <1>2 DEF LevelsSigned
<1>4. \A n, m \in DOMAIN new :
        n # m /\ new[n].conclusion # None /\ new[m].conclusion # None => new[n].by # new[m].by
  BY <1>1, <1>2 DEF LevelsSigned
<1>5. LevelsSigned(new, author, body)
  BY <1>3, <1>4 DEF LevelsSigned
<1>6. QED
  BY <1>2, <1>5 DEF new

(* One level approves.  The signature is on the plan as it stands, or names *)
(* no version; with the last one the version is approved as all of them saw *)
(* it who named one.                                                        *)
LEMMA PlanLevelApproved ==
  ASSUME PlansInv, NEW user \in Signer, NEW k \in planTicket, Schemes!ApproveLevel(user, k)
  PROVE  PlansInv'
<1> DEFINE old == planVersions[plan.version]
           levels == Schemes!Recorded(old.levels, user, "approved", k.saw)
           p == [plan EXCEPT !.approval = "approved"]
           one == [old EXCEPT !.levels = levels]
           all == [old EXCEPT !.levels = levels, !.state = "approved", !.body = plan.body]
<1>0. /\ PlanTyped /\ plan \in PlanRow /\ planVersions \in Seq(PlanVersion) /\ planEdits \in Nat
      /\ VersionIsLast
  BY DEF PlansInv, PlanTyped, PlanRow
<1>1. /\ plan.approval = "review" /\ Schemes!MayDecide(old.levels, user, old.author, "approved")
      /\ k.user = user /\ k.rv \in {plan.rv, None} /\ planTicket' = planTicket \ {k}
      /\ UNCHANGED <<planTasks, planRuns, planEdits>>
  BY Zenon DEF Schemes!ApproveLevel
<1>2. IF Schemes!Open(levels) # {}
      THEN /\ planVersions' = [planVersions EXCEPT ![plan.version].levels = levels]
           /\ UNCHANGED plan
      ELSE /\ planVersions' = [planVersions EXCEPT ![plan.version].levels = levels,
                ![plan.version].state = "approved", ![plan.version].body = plan.body]
           /\ Schemes!Changed(p)
  BY Zenon DEF Schemes!ApproveLevel, Schemes!Snapshot
<1>3. plan.version = Len(planVersions) /\ plan.version \in DOMAIN planVersions
  BY <1>0, <1>1 DEF VersionIsLast
<1>4. old \in PlanVersion
  BY <1>0, <1>3
<1>5. k.saw \in {plan.body, None} /\ plan.body \in Body
  <2>1. plan.rv \in Nat /\ plan.body \in Body
    BY <1>0 DEF PlanRow
  <2>2. \/ k.rv = None /\ k.saw = None
        \/ k.rv \in Nat /\ k.rv <= plan.rv /\ (k.rv = plan.rv => k.saw = plan.body)
    BY DEF PlansInv, TicketsSaw
  <2>3. QED
    BY <1>1, <2>1, <2>2, NoneIsNothing
<1>6. old.levels \in Seq(PlanLevel)
  BY <1>4 DEF PlanVersion
<1>7. LevelsSigned(old.levels, old.author, plan.body) /\ old.state = "review"
  BY <1>1 DEF PlansInv, InReview
<1>8. levels \in Seq(PlanLevel) /\ LevelsSigned(levels, old.author, plan.body)
  BY <1>1, <1>5, <1>6, <1>7, OneMoreSigns
<1>9. planTicket' \subseteq planTicket
  BY <1>1
<1>10. CASE Schemes!Open(levels) # {}
  <2>1. planVersions' = [n \in DOMAIN planVersions |-> IF n = plan.version THEN one ELSE planVersions[n]]
        /\ plan' = plan
    BY <1>2, <1>3, <1>10, Zenon
  <2>2. /\ one \in PlanVersion /\ one.state = "review" /\ one.levels = levels
        /\ one.author = old.author
    <3> HIDE DEF levels, old
    <3>1. QED
      BY <1>4, <1>7, <1>8 DEF PlanVersion
  <2> HIDE DEF one, levels, old, p, all
  <2>3. /\ planVersions' \in Seq(PlanVersion) /\ DOMAIN planVersions' = DOMAIN planVersions
        /\ planVersions'[plan.version] = one /\ Len(planVersions') = Len(planVersions)
        /\ ApprovedSigned' /\ TasksName' /\ RunsName'
    BY <1>1, <1>3, <2>1, <2>2, VersionPut
  <2>4. InReview'
    BY <1>8, <2>1, <2>2, <2>3 DEF InReview
  <2>5. IsApproved'
    BY <1>1, <2>1, <2>2, <2>3 DEF IsApproved
  <2>6. VersionIsLast'
    BY <1>0, <1>3, <2>1, <2>3 DEF VersionIsLast
  <2>7. PlanTyped' /\ TicketsSaw'
    BY <1>0, <1>1, <1>9, <2>1, <2>3 DEF PlanTyped, TicketsSaw, PlansInv
  <2>8. QED
    BY <2>3, <2>4, <2>5, <2>6, <2>7 DEF PlansInv
<1>11. CASE ~(Schemes!Open(levels) # {})
  <2>1. planVersions' = [n \in DOMAIN planVersions |-> IF n = plan.version THEN all ELSE planVersions[n]]
        /\ Schemes!Changed(p)
    BY <1>2, <1>3, <1>11, Zenon
  <2>2. p \in PlanRow /\ p.version = plan.version /\ p.approval = "approved" /\ p.rv = plan.rv
        /\ p.body = plan.body
    BY <1>0 DEF PlanRow
  <2>3. /\ all \in PlanVersion /\ all.state = "approved" /\ all.levels = levels
        /\ all.author = old.author /\ all.body = plan.body
    <3> HIDE DEF levels, old
    <3>1. QED
      BY <1>4, <1>5, <1>8 DEF PlanVersion
  <2>4. Concluded(levels)
    <3> HIDE DEF levels
    <3>1. QED
      BY <1>11 DEF Concluded, Schemes!Open
  <2> HIDE DEF one, levels, old, p, all
  <2>5. VersionSigned(all)
    BY <1>8, <2>3, <2>4 DEF VersionSigned
  <2>6. /\ plan' \in PlanRow /\ plan'.rv = plan.rv + 1 /\ plan'.version = plan.version
        /\ plan'.approval = "approved" /\ plan'.body = plan.body
    <3>1. PlanTyped /\ Schemes!Changed(p) /\ p \in PlanRow
      BY <1>0, <2>1, <2>2
    <3>2. QED
      BY <2>2, <3>1, PlanWritten
  <2>7. /\ planVersions' \in Seq(PlanVersion) /\ DOMAIN planVersions' = DOMAIN planVersions
        /\ planVersions'[plan.version] = all /\ Len(planVersions') = Len(planVersions)
        /\ ApprovedSigned' /\ TasksName' /\ RunsName'
    BY <1>1, <1>3, <2>1, <2>3, <2>5, VersionPut
  <2>8. InReview' /\ IsApproved'
    BY <2>3, <2>6, <2>7 DEF InReview, IsApproved
  <2>9. plan'.version = Len(planVersions') /\ plan'.version > 0
    BY <1>0, <1>3, <2>6, <2>7
  <2>10. QED
    BY <1>0, <1>1, <1>9, <2>6, <2>7, <2>8, <2>9, PlanMoved
<1>12. QED
  BY <1>10, <1>11

(* A signature is on the plan as it stands.                                 *)
LEMMA PlanTickets ==
  ASSUME PlansInv
  PROVE  /\ \A user \in Signer : Schemes!SignPlan(user) => PlansInv'
         /\ \A k \in planTicket : Schemes!DropTicket(k) => PlansInv'
<1>1. ASSUME planTicket' \in SUBSET [user : Signer, rv : Nat \cup {None}, saw : Body \cup {None}], TicketsSaw',
             UNCHANGED <<plan, planVersions, planTasks, planRuns, planEdits>>
      PROVE  PlansInv'
  <2>1. PlanTyped' /\ VersionIsLast' /\ InReview'
    BY <1>1 DEF PlansInv, PlanTyped, VersionIsLast, InReview
  <2>2. IsApproved' /\ ApprovedSigned' /\ TasksName' /\ RunsName'
    BY <1>1 DEF PlansInv, IsApproved, ApprovedSigned, TasksName, RunsName
  <2>3. QED
    BY <1>1, <2>1, <2>2 DEF PlansInv
<1>2. PlanTyped /\ TicketsSaw
  BY DEF PlansInv
<1>3. ASSUME NEW user \in Signer, Schemes!SignPlan(user) PROVE PlansInv'
  BY <1>1, <1>2, <1>3 DEF Schemes!SignPlan, PlanTyped, TicketsSaw
<1>4. ASSUME NEW k \in planTicket, Schemes!DropTicket(k) PROVE PlansInv'
  BY <1>1, <1>2, <1>4 DEF Schemes!DropTicket, PlanTyped, TicketsSaw
<1>5. QED
  BY <1>3, <1>4

(* The latest approved version is an approved version, and where the plan   *)
(* itself is approved it is the current one.                                *)
LEMMA LatestIsApproved ==
  ASSUME PlansInv
  PROVE  /\ Schemes!LatestApproved # None =>
              /\ Schemes!LatestApproved \in DOMAIN planVersions
              /\ planVersions[Schemes!LatestApproved].state = "approved"
         /\ plan.approval = "approved" =>
              Schemes!LatestApproved = plan.version
<1> DEFINE ok == {v \in DOMAIN planVersions : planVersions[v].state = "approved"}
<1>1. planVersions \in Seq(PlanVersion) /\ Len(planVersions) \in Nat
      /\ DOMAIN planVersions = 1..Len(planVersions)
  BY DEF PlansInv, PlanTyped
<1>2. ok \in SUBSET (0..Len(planVersions))
  BY <1>1
<1>3. Schemes!LatestApproved = IF ok = {} THEN None ELSE CHOOSE v \in ok : \A w \in ok : w <= v
  BY Zenon DEF Schemes!LatestApproved
<1>4. ASSUME ok # {} PROVE Schemes!LatestApproved \in ok
                           /\ \A w \in ok : w <= Schemes!LatestApproved
  <2> HIDE DEF ok
  <2>1. \E v \in ok : \A w \in ok : w <= v
    BY <1>1, <1>2, <1>4, GreatestOne
  <2>2. QED
    BY <1>3, <1>4, <2>1, Zenon
<1>5. ASSUME plan.approval = "approved" PROVE Schemes!LatestApproved = plan.version
  <2>1. plan.version = Len(planVersions) /\ plan.version \in DOMAIN planVersions
    BY <1>1, <1>5 DEF PlansInv, VersionIsLast
  <2>2. plan.version \in ok
    BY <1>5, <2>1 DEF PlansInv, IsApproved
  <2>3. Schemes!LatestApproved \in ok /\ plan.version <= Schemes!LatestApproved
    BY <1>4, <2>2
  <2>4. Schemes!LatestApproved \in 1..Len(planVersions)
    BY <1>1, <2>3
  <2>5. QED
    BY <1>1, <2>1, <2>3, <2>4
<1>6. QED
  BY <1>3, <1>4, <1>5

(* What is made of a plan names an approved version, and says what it says. *)
LEMMA PlanUsed ==
  ASSUME PlansInv
  PROVE  /\ Schemes!GiveTask => PlansInv'
         /\ \A n \in DOMAIN planTasks : Schemes!PinnedRun(n) => PlansInv'
         /\ Schemes!FreeRun => PlansInv'
<1>0. /\ PlanTyped /\ planTasks \in Seq(Nat) /\ planRuns \in Seq([version : Nat, body : Body])
      /\ planVersions \in Seq(PlanVersion) /\ plan \in PlanRow /\ TasksName /\ RunsName
  BY DEF PlansInv, PlanTyped, PlanRow
<1>1. ASSUME planTasks' \in Seq(Nat), planRuns' \in Seq([version : Nat, body : Body]),
             TasksName', RunsName',
             UNCHANGED <<plan, planVersions, planTicket, planEdits>>
      PROVE  PlansInv'
  <2>1. PlanTyped' /\ VersionIsLast' /\ InReview'
    BY <1>1 DEF PlansInv, PlanTyped, VersionIsLast, InReview
  <2>2. IsApproved' /\ ApprovedSigned' /\ TicketsSaw'
    BY <1>1 DEF PlansInv, IsApproved, ApprovedSigned, TicketsSaw
  <2>3. QED
    BY <1>1, <2>1, <2>2 DEF PlansInv
<1>2. ASSUME NEW v \in DOMAIN planVersions, planVersions[v].state = "approved", NEW body \in Body,
             planVersions[v].body = body,
             planRuns' = Append(planRuns, [version |-> v, body |-> body]),
             UNCHANGED <<plan, planVersions, planTasks, planTicket, planEdits>>
      PROVE  PlansInv'
  <2> DEFINE made == [version |-> v, body |-> body]
  <2>1. made \in [version : Nat, body : Body] /\ made.version = v /\ made.body = body
    BY <1>0
  <2>2. planRuns' = Append(planRuns, made)
    BY <1>2
  <2> HIDE DEF made
  <2>3. planRuns' \in Seq([version : Nat, body : Body])
    BY <1>0, <2>1, <2>2
  <2>4. \A n \in DOMAIN planRuns' : 
          planRuns'[n] = made \/ (n \in DOMAIN planRuns /\ planRuns'[n] = planRuns[n])
    <3>1. \A n \in DOMAIN Append(planRuns, made) :
            n \in DOMAIN planRuns \/ Append(planRuns, made)[n] = made
      BY <1>0, <2>1, Appended
    <3>2. \A n \in DOMAIN planRuns : Append(planRuns, made)[n] = planRuns[n]
      BY <1>0, <2>1, Appended
    <3>3. QED
      BY <2>2, <3>1, <3>2
  <2>5. RunsName'
    <3>1. UNCHANGED planVersions /\ RunsName
      BY <1>0, <1>2
    <3>2. ASSUME NEW n \in DOMAIN planRuns'
          PROVE  /\ planRuns'[n].version \in DOMAIN planVersions
                 /\ planVersions[planRuns'[n].version].state = "approved"
                 /\ planVersions[planRuns'[n].version].body = planRuns'[n].body
      <4>1. CASE planRuns'[n] = made
        BY <1>2, <2>1, <4>1
      <4>2. CASE n \in DOMAIN planRuns /\ planRuns'[n] = planRuns[n]
        BY <3>1, <4>2 DEF RunsName
      <4>3. QED
        BY <2>4, <4>1, <4>2
    <3>3. QED
      BY <3>1, <3>2 DEF RunsName
  <2>6. TasksName' /\ planTasks' \in Seq(Nat)
    BY <1>0, <1>2 DEF TasksName
  <2>7. QED
    BY <1>1, <1>2, <2>3, <2>5, <2>6
<1>3. ASSUME Schemes!GiveTask PROVE PlansInv'
  <2> DEFINE l == Schemes!LatestApproved
  <2>1. l \in DOMAIN planVersions
    BY <1>3, LatestIsApproved DEF Schemes!GiveTask
  <2>2. /\ planTasks' = Append(planTasks, l)
        /\ UNCHANGED <<plan, planVersions, planRuns, planTicket, planEdits>>
    BY <1>3, Zenon DEF Schemes!GiveTask
  <2> HIDE DEF l
  <2>3. l \in Nat
    BY <1>0, <2>1
  <2>4. planTasks' \in Seq(Nat)
    BY <1>0, <2>2, <2>3
  <2>5. \A n \in DOMAIN planTasks' : 
          planTasks'[n] = l \/ (n \in DOMAIN planTasks /\ planTasks'[n] = planTasks[n])
    <3>1. \A n \in DOMAIN Append(planTasks, l) :
            n \in DOMAIN planTasks \/ Append(planTasks, l)[n] = l
      BY <1>0, <2>3, Appended
    <3>2. \A n \in DOMAIN planTasks : Append(planTasks, l)[n] = planTasks[n]
      BY <1>0, <2>3, Appended
    <3>3. QED
      BY <2>2, <3>1, <3>2
  <2>6. TasksName' /\ RunsName'
    BY <1>0, <2>1, <2>2, <2>5 DEF TasksName, RunsName
  <2>7. QED
    BY <1>0, <1>1, <2>2, <2>4, <2>6
<1>4. ASSUME NEW n \in DOMAIN planTasks, Schemes!PinnedRun(n) PROVE PlansInv'
  <2>1. planTasks[n] \in DOMAIN planVersions
    BY <1>0 DEF TasksName
  <2>2. planVersions[planTasks[n]] \in PlanVersion
    BY <1>0, <2>1
  <2>3. planVersions[planTasks[n]].body \in Body
    BY <2>2 DEF PlanVersion
  <2>4. /\ planVersions[planTasks[n]].state = "approved"
        /\ planRuns' = Append(planRuns, [version |-> planTasks[n], body |-> planVersions[planTasks[n]].body])
        /\ UNCHANGED <<plan, planVersions, planTasks, planTicket, planEdits>>
    BY <1>4, Zenon DEF Schemes!PinnedRun
  <2>5. QED
    BY <1>2, <2>1, <2>3, <2>4
<1>5. ASSUME Schemes!FreeRun PROVE PlansInv'
  <2>1. /\ plan.approval = "approved"
        /\ planRuns' = Append(planRuns, [version |-> IF Schemes!LatestApproved # None
                                           THEN Schemes!LatestApproved ELSE plan.version,
                                         body |-> plan.body])
        /\ UNCHANGED <<plan, planVersions, planTasks, planTicket, planEdits>>
    BY <1>5, Zenon DEF Schemes!FreeRun
  <2>2. Schemes!LatestApproved = plan.version
    BY <2>1, LatestIsApproved
  <2>3. (IF Schemes!LatestApproved # None THEN Schemes!LatestApproved ELSE plan.version) = plan.version
    BY <2>2
  <2>4. planRuns' = Append(planRuns, [version |-> plan.version, body |-> plan.body])
    BY <2>1, <2>3, Zenon
  <2>5. plan.version \in DOMAIN planVersions
    BY <1>0, <2>1 DEF PlansInv, VersionIsLast
  <2>6. planVersions[plan.version].state = "approved" /\ planVersions[plan.version].body = plan.body
    BY <2>1, <2>5 DEF PlansInv, IsApproved
  <2>7. plan.body \in Body
    BY <1>0 DEF PlanRow
  <2>8. QED
    BY <1>2, <2>1, <2>4, <2>5, <2>6, <2>7
<1>6. QED
  BY <1>3, <1>4, <1>5

(* Every step of the plans keeps their invariant.                           *)
LEMMA PlansStep == ASSUME PlansInv, Schemes!PlanNext PROVE PlansInv'
<1>1. CASE \E body \in Body : Schemes!PatchPlan(body)
  BY <1>1, PlanEdits
<1>2. CASE Schemes!Lock \/ Schemes!Unlock
  BY <1>2, PlanEdits
<1>3. CASE Schemes!Withdraw
  BY <1>3, PlanWithdrawn
<1>4. CASE Schemes!GiveTask \/ Schemes!FreeRun
  BY <1>4, PlanUsed
<1>5. CASE \E user \in Planner : Schemes!RevisePlan(user) \/ \E asked \in Levels : Schemes!SubmitPlan(user, asked)
  BY <1>5, PlanRevised, PlanSubmitted
<1>6. CASE \E user \in Signer : Schemes!SignPlan(user)
  BY <1>6, PlanTickets
<1>7. CASE \E user \in Signer : Schemes!RejectPlan(user)
  BY <1>7, PlanRejected
<1>8. CASE \E user \in Signer : \E k \in planTicket : Schemes!ApproveLevel(user, k)
  BY <1>8, PlanLevelApproved
<1>9. CASE \E k \in planTicket : Schemes!DropTicket(k)
  BY <1>9, PlanTickets
<1>10. CASE \E v \in DOMAIN planVersions : Schemes!RestorePlan(v)
  BY <1>10, PlanEdits
<1>11. CASE \E n \in DOMAIN planTasks : Schemes!PinnedRun(n)
  BY <1>11, PlanUsed
<1>12. QED
  BY <1>1, <1>2, <1>3, <1>4, <1>5, <1>6, <1>7, <1>8, <1>9, <1>10, <1>11 DEF Schemes!PlanNext

(* Where the invariant holds, a plan runs as it was signed.                 *)
LEMMA PlansStand == ASSUME PlansInv PROVE SignaturesStand
<1>1. Schemes!RunsAsSigned
  BY DEF PlansInv, Schemes!RunsAsSigned, RunsName, ApprovedSigned, VersionSigned, LevelsSigned, Concluded
<1>2. Schemes!SignedByAll
  BY DEF PlansInv, Schemes!SignedByAll, ApprovedSigned, VersionSigned, LevelsSigned, Concluded
<1>3. QED
  BY <1>1, <1>2 DEF SignaturesStand, Schemes!SignaturesStand

-----------------------------------------------------------------------------
(* Access.  A matrix that was checked keeps nothing that is for the         *)
(* administrators, and what the last one took is known not to be given.     *)

AccountUpdate == [kind : {"account"}, of : Person, field : {"state", "member", "roles"},
                  value : {"active", "disabled", "revoked"} \cup SUBSET (Role \cup {"admin"})]
MatrixUpdate == [kind : {"matrix"}, ticket : Nat, matrix : [Role -> SUBSET Permission], row : Nat,
                 first : BOOLEAN]
Ticket == [by : Person, version : Nat, used : BOOLEAN, old : BOOLEAN]
AccessTyped ==
  /\ accounts \in [Person -> Accounts \cup {None}] /\ tokens \subseteq Person
  /\ roleSet \in RoleSets \cup {None} /\ shipped \in SUBSET Permission
  /\ acc_tickets \in Seq(Ticket)
  /\ pending \in [Slot -> AccountUpdate \cup MatrixUpdate \cup {None}]
  /\ service \in [state : {"active", "disabled"}, secret : Nat, scopes : SUBSET Served,
                  heard : SUBSET [secret : Nat, station : Served]]
  /\ taken \in SUBSET (Role \X Permission)
UpdateOf(s) == pending[s] # None /\ pending[s].kind = "account"
SavingOf(s) == pending[s] # None /\ pending[s].kind = "matrix"
ValuesFit ==
  \A s \in Slot : UpdateOf(s) => pending[s].value \in Allowed!Values(pending[s].field)
UpdatesChecked == \A s \in Slot : UpdateOf(s) => accounts[pending[s].of] # None
NothingKept ==
  /\ roleSet # None => \A r \in Role : roleSet.matrix[r] \cap AdminOnly = {}
  /\ \A s \in Slot : SavingOf(s) => \A r \in Role : pending[s].matrix[r] \cap AdminOnly = {}
TakenKnown ==
  \A t \in taken : roleSet # None /\ t[2] \in roleSet.known /\ t[2] \notin roleSet.matrix[t[1]]
TicketsThere == \A s \in Slot : SavingOf(s) => pending[s].ticket \in DOMAIN acc_tickets
AccountsInv == ValuesFit /\ UpdatesChecked
MatrixInv == NothingKept /\ TakenKnown /\ TicketsThere
AccessInv == AccessTyped /\ AccountsInv /\ MatrixInv /\ Allowed!ServiceKept


(* The invariant of the access holds at the start.                          *)
LEMMA AccessStart == ASSUME Allowed!AccessInit PROVE AccessInv
<1> USE DEF Allowed!AccessInit
<1>1. PICK lab \in AccessScenarios : accounts = lab.accounts /\ tokens = lab.tokens
  OBVIOUS
<1>2. AccessTyped
  <2>1. accounts \in [Person -> Accounts \cup {None}] /\ tokens \subseteq Person
    BY <1>1, LaboratoriesAreRun
  <2>2. shipped \in SUBSET Permission
    BY Zenon DEF Permission, AdminOnly, Allowed!AdminOnly
  <2>3. QED
    BY <2>1, <2>2 DEF AccessTyped
<1>4. AccountsInv
  BY DEF AccountsInv, ValuesFit, UpdatesChecked, UpdateOf
<1>5. MatrixInv
  BY DEF MatrixInv, NothingKept, TakenKnown, TicketsThere, SavingOf
<1>6. Allowed!ServiceKept
  BY DEF Allowed!ServiceKept
<1>7. QED
  BY <1>2, <1>4, <1>5, <1>6 DEF AccessInv

(* What keeps the accounts there are leaves what was checked of them.       *)
LEMMA AccountsGoOn ==
  ASSUME AccessInv,
         \A u \in Person : accounts[u] # None => accounts'[u] # None,
         \A s \in Slot : pending'[s] = pending[s] \/ ~UpdateOf(s)'
  PROVE  AccountsInv'
<1> USE DEF AccessInv, AccountsInv
<1>1. \A s \in Slot : UpdateOf(s)' => UpdateOf(s) /\ pending'[s] = pending[s]
  BY DEF UpdateOf
<1>2. ValuesFit'
  <2>1. \A f : Allowed!Values(f)' = Allowed!Values(f)
    BY DEF Allowed!Values
  <2>2. QED
    BY <1>1, <2>1 DEF ValuesFit
<1>3. \A s \in Slot : UpdateOf(s) => pending[s].of \in Person
  BY DEF AccessTyped, UpdateOf, AccountUpdate, MatrixUpdate
<1>4. UpdatesChecked'
  BY <1>1, <1>3 DEF UpdatesChecked
<1>5. QED
  BY <1>2, <1>4

(* What leaves the matrix and the signatures alone leaves what was checked  *)
(* of them.                                                                 *)
LEMMA MatrixGoesOn ==
  ASSUME AccessInv, UNCHANGED <<roleSet, acc_tickets, taken>>,
         \A s \in Slot : pending'[s] = pending[s] \/ ~SavingOf(s)'
  PROVE  MatrixInv'
<1> USE DEF AccessInv, MatrixInv
<1>1. \A s \in Slot : SavingOf(s)' => SavingOf(s) /\ pending'[s] = pending[s]
  BY DEF SavingOf
<1>2. QED
  BY <1>1 DEF NothingKept, TakenKnown, TicketsThere

(* Who logs in, and who changes or is given a password.                     *)
LEMMA PasswordSteps ==
  ASSUME AccessInv, NEW u \in Person, accounts[u] # None
  PROVE  /\ Allowed!Login(u) => AccessInv'
         /\ Allowed!ChangePassword(u) => AccessInv'
         /\ \A actor \in tokens : Allowed!ResetPassword(actor, u) => AccessInv'
<1>1. ASSUME Allowed!Login(u) PROVE AccessInv'
  <2>1. AccessTyped'
    BY <1>1 DEF AccessInv, AccessTyped, Allowed!Login
  <2>2. UNCHANGED <<accounts, roleSet, acc_tickets, pending, service, taken>>
    BY <1>1 DEF Allowed!Login
  <2>3. Allowed!ServiceKept'
    BY <2>2 DEF AccessInv, Allowed!ServiceKept
  <2>4. QED
    BY <2>1, <2>2, <2>3, AccountsGoOn, MatrixGoesOn DEF AccessInv
<1>2. ASSUME NEW t \in BOOLEAN, accounts' = [accounts EXCEPT ![u].temporary = t],
             UNCHANGED <<tokens, roleSet, shipped, acc_tickets, pending, service, taken>>
      PROVE  AccessInv'
  <2> DEFINE now == [accounts[u] EXCEPT !.temporary = t]
  <2>1. accounts \in [Person -> Accounts \cup {None}] /\ accounts[u] \in Accounts
    BY DEF AccessInv, AccessTyped
  <2>2. now \in Accounts /\ now.state = accounts[u].state /\ now.member = accounts[u].member
        /\ now.roles = accounts[u].roles
    BY <2>1 DEF Accounts
  <2>3. accounts' = [v \in Person |-> IF v = u THEN now ELSE accounts[v]]
    BY <1>2, <2>1, Zenon
  <2> HIDE DEF now
  <2>4. AccessTyped'
    BY <1>2, <2>1, <2>2, <2>3 DEF AccessInv, AccessTyped
  <2>5. now # None
    BY <2>2, NoneIsNothing
  <2>6. \A v \in Person : accounts[v] # None => accounts'[v] # None
    BY <2>3, <2>5
  <2>7. AccountsInv' /\ MatrixInv'
    BY <1>2, <2>6, AccountsGoOn, MatrixGoesOn
  <2>8. QED
    BY <1>2, <2>4, <2>7 DEF AccessInv, Allowed!ServiceKept
<1>3. Allowed!ChangePassword(u) => AccessInv'
  BY <1>2 DEF Allowed!ChangePassword
<1>4. ASSUME NEW actor \in tokens, Allowed!ResetPassword(actor, u) PROVE AccessInv'
  BY <1>2, <1>4 DEF Allowed!ResetPassword
<1>5. QED
  BY <1>1, <1>3, <1>4

(* A new account takes nothing from the others.                             *)
LEMMA AccountCreated ==
  ASSUME AccessInv, NEW actor \in tokens, NEW u \in Person, NEW r \in Role \cup {"admin"},
         Allowed!CreateAccount(actor, u, {r})
  PROVE  AccessInv'
<1> DEFINE now == [state |-> "active", member |-> "active", roles |-> {r}, temporary |-> TRUE]
<1>1. /\ accounts' = [accounts EXCEPT ![u] = now] /\ accounts[u] = None
      /\ UNCHANGED <<tokens, roleSet, shipped, acc_tickets, pending, service, taken>>
  BY Zenon DEF Allowed!CreateAccount
<1>2. now \in Accounts
  BY DEF Accounts
<1> HIDE DEF now
<1>3. accounts \in [Person -> Accounts \cup {None}]
  BY DEF AccessInv, AccessTyped
<1>4. AccessTyped'
  BY <1>1, <1>2, <1>3 DEF AccessInv, AccessTyped
<1>5. \A v \in Person : v # u => accounts'[v] = accounts[v]
  BY <1>1, <1>3
<1>6. \A v \in Person : accounts[v] # None => accounts'[v] # None
  BY <1>1, <1>5
<1>7. AccountsInv' /\ MatrixInv'
  BY <1>1, <1>6, AccountsGoOn, MatrixGoesOn
<1>8. QED
  BY <1>1, <1>4, <1>7 DEF AccessInv, Allowed!ServiceKept

(* The account after an update of one of its fields is an account.          *)
LEMMA AccountChanged ==
  ASSUME NEW acc \in Accounts, NEW f \in {"state", "member", "roles"}, NEW v \in Allowed!Values(f)
  PROVE  Allowed!Changed(acc, f, v) \in Accounts
<1>1. CASE f = "state"
  <2>1. v \in {"active", "disabled"}
    BY <1>1 DEF Allowed!Values
  <2>2. Allowed!Changed(acc, f, v) = [acc EXCEPT !.state = v]
    BY <1>1, Zenon DEF Allowed!Changed
  <2>3. QED
    BY <2>1, <2>2 DEF Accounts
<1>2. CASE f = "member"
  <2>1. v \in {"active", "revoked"}
    BY <1>2 DEF Allowed!Values
  <2>2. Allowed!Changed(acc, f, v) = [acc EXCEPT !.member = v]
    BY <1>2 DEF Allowed!Changed
  <2>3. QED
    BY <2>1, <2>2 DEF Accounts
<1>3. CASE f = "roles"
  <2>1. v \in SUBSET (Role \cup {"admin"})
    BY <1>3 DEF Allowed!Values
  <2>2. Allowed!Changed(acc, f, v) = [acc EXCEPT !.roles = v]
    BY <1>3 DEF Allowed!Changed
  <2>3. QED
    BY <2>1, <2>2 DEF Accounts
<1>4. QED
  BY <1>1, <1>2, <1>3

(* An update is checked: it is of an account there is.                      *)
LEMMA UpdateChecked ==
  ASSUME AccessInv, NEW s \in Slot, NEW actor \in tokens, NEW u \in Person,
         NEW f \in {"state", "member", "roles"}, NEW v \in Allowed!Values(f),
         Allowed!CheckUpdate(s, actor, u, f, v)
  PROVE  AccessInv'
<1> DEFINE update == [kind |-> "account", of |-> u, field |-> f, value |-> v]
<1>1. /\ pending' = [pending EXCEPT ![s] = update] /\ accounts[u] # None
      /\ UNCHANGED <<accounts, tokens, roleSet, shipped, acc_tickets, service, taken>>
  BY Zenon DEF Allowed!CheckUpdate
<1>2. AccessTyped /\ pending \in [Slot -> AccountUpdate \cup MatrixUpdate \cup {None}]
  BY DEF AccessInv, AccessTyped
<1>3. v \in {"active", "disabled", "revoked"} \cup SUBSET (Role \cup {"admin"})
  BY DEF Allowed!Values
<1>4. /\ update \in AccountUpdate /\ update.of = u /\ update.value = v
      /\ update.field = f /\ update.kind = "account"
  BY <1>3 DEF AccountUpdate
<1> HIDE DEF update
<1>5. /\ pending' \in [Slot -> AccountUpdate \cup MatrixUpdate \cup {None}]
      /\ \A t \in Slot : pending'[t] = IF t = s THEN update ELSE pending[t]
  BY <1>1, <1>2, <1>4
<1>6. AccessTyped'
  BY <1>1, <1>2, <1>5 DEF AccessTyped
<1>7. ValuesFit'
  <2>1. \A t \in Slot : Allowed!Values(pending[t].field)' = Allowed!Values(pending'[t].field)
    BY DEF Allowed!Values
  <2>2. ASSUME NEW t \in Slot, UpdateOf(t)' PROVE pending'[t].value \in Allowed!Values(pending'[t].field)
    <3>1. CASE t = s
      BY <1>4, <1>5, <3>1
    <3>2. CASE t # s
      BY <1>5, <2>2, <3>2 DEF AccessInv, AccountsInv, ValuesFit, UpdateOf
    <3>3. QED
      BY <3>1, <3>2
  <2>3. QED
    BY <2>1, <2>2 DEF ValuesFit
<1>8. UpdatesChecked'
  BY <1>1, <1>4, <1>5 DEF AccessInv, AccountsInv, UpdatesChecked, UpdateOf
<1>9. MatrixInv'
  <2>1. \A t \in Slot : pending'[t] = pending[t] \/ ~SavingOf(t)'
    BY <1>4, <1>5 DEF SavingOf
  <2>2. QED
    BY <1>1, <2>1, MatrixGoesOn
<1>10. QED
  BY <1>1, <1>6, <1>7, <1>8, <1>9 DEF AccessInv, AccountsInv, Allowed!ServiceKept

(* An update is committed to the account as it stands then.                 *)
LEMMA UpdateCommitted ==
  ASSUME AccessInv, NEW s \in Slot, Allowed!CommitUpdate(s)
  PROVE  AccessInv'
<1> DEFINE u == pending[s].of
           after == Allowed!Changed(accounts[u], pending[s].field, pending[s].value)
<1>1. AccessTyped /\ UpdateOf(s)
  BY DEF AccessInv, Allowed!CommitUpdate, UpdateOf
<1>2. pending[s] \in AccountUpdate
  BY <1>1 DEF AccessTyped, UpdateOf, MatrixUpdate
<1>3. u \in Person /\ accounts[u] # None /\ accounts[u] \in Accounts
  BY <1>1, <1>2 DEF AccessTyped, AccountUpdate, AccessInv, AccountsInv, UpdatesChecked
<1>4. after \in Accounts
  BY <1>1, <1>2, <1>3, AccountChanged DEF AccountUpdate, AccessInv, AccountsInv, ValuesFit
<1>5. after # None
  BY <1>4, NoneIsNothing
<1>6. /\ accounts' = [accounts EXCEPT ![u] = after] /\ pending' = [pending EXCEPT ![s] = None]
      /\ UNCHANGED <<tokens, roleSet, shipped, acc_tickets, service, chances, taken>>
  BY Zenon DEF Allowed!CommitUpdate
<1>7. accounts \in [Person -> Accounts \cup {None}] /\ pending \in [Slot -> AccountUpdate \cup MatrixUpdate \cup {None}]
  BY <1>1 DEF AccessTyped
<1> HIDE DEF after
<1>8. /\ accounts' \in [Person -> Accounts \cup {None}]
      /\ \A v \in Person : accounts'[v] = IF v = u THEN after ELSE accounts[v]
  BY <1>3, <1>4, <1>6, <1>7
<1>9. /\ pending' \in [Slot -> AccountUpdate \cup MatrixUpdate \cup {None}]
      /\ \A t \in Slot : pending'[t] = IF t = s THEN None ELSE pending[t]
  BY <1>6, <1>7
<1>10. \A v \in Person : accounts[v] # None => accounts'[v] # None
  BY <1>5, <1>8
<1>11. AccountsInv'
  BY <1>9, <1>10, AccountsGoOn DEF UpdateOf
<1>12. MatrixInv'
  BY <1>6, <1>9, MatrixGoesOn DEF SavingOf
<1>13. AccessTyped'
  BY <1>1, <1>6, <1>8, <1>9 DEF AccessTyped
<1>14. QED
  BY <1>6, <1>11, <1>12, <1>13 DEF AccessInv, Allowed!ServiceKept

(* A signature is given, or runs out.                                       *)
LEMMA SignatureSteps ==
  ASSUME AccessInv
  PROVE  /\ \A u \in tokens, version \in Nat : Allowed!Sign(u, version) => AccessInv'
         /\ \A n \in DOMAIN acc_tickets : Allowed!OutOfTime(n) => AccessInv'
<1>1. ASSUME acc_tickets' \in Seq(Ticket), DOMAIN acc_tickets \subseteq DOMAIN acc_tickets',
             UNCHANGED <<accounts, tokens, roleSet, shipped, pending, service, taken>>
      PROVE  AccessInv'
  <2> USE <1>1 DEF AccessInv
  <2>1. AccessTyped'
    BY DEF AccessTyped
  <2>3. AccountsInv'
    BY AccountsGoOn
  <2>4. NothingKept' /\ TakenKnown' /\ TicketsThere'
    BY DEF MatrixInv, NothingKept, TakenKnown, TicketsThere, SavingOf
  <2>7. MatrixInv'
    BY <2>4 DEF MatrixInv
  <2>8. QED
    BY <2>1, <2>3, <2>7 DEF Allowed!ServiceKept
<1>2. acc_tickets \in Seq(Ticket) /\ tokens \subseteq Person
  BY DEF AccessInv, AccessTyped
<1>3. ASSUME NEW u \in tokens, NEW version \in Nat, Allowed!Sign(u, version) PROVE AccessInv'
  <2> DEFINE made == [by |-> u, version |-> version, used |-> FALSE, old |-> FALSE]
  <2>1. made \in Ticket
    BY <1>2 DEF Ticket
  <2>2. /\ acc_tickets' = Append(acc_tickets, made)
        /\ UNCHANGED <<accounts, tokens, roleSet, shipped, pending, service, taken>>
    BY <1>3, Zenon DEF Allowed!Sign
  <2> HIDE DEF made
  <2>3. /\ acc_tickets' \in Seq(Ticket) /\ DOMAIN acc_tickets \subseteq DOMAIN acc_tickets'
    BY <1>2, <2>1, <2>2
  <2>4. QED
    BY <1>1, <2>2, <2>3
<1>4. ASSUME NEW n \in DOMAIN acc_tickets, Allowed!OutOfTime(n) PROVE AccessInv'
  <2> DEFINE made == [acc_tickets[n] EXCEPT !.old = TRUE]
  <2>1. acc_tickets[n] \in Ticket
    BY <1>2
  <2>2. made \in Ticket
    BY <2>1 DEF Ticket
  <2>3. /\ acc_tickets' = [m \in DOMAIN acc_tickets |-> IF m = n THEN made ELSE acc_tickets[m]]
        /\ UNCHANGED <<accounts, tokens, roleSet, shipped, pending, service, taken>>
    BY <1>4, Zenon DEF Allowed!OutOfTime
  <2> HIDE DEF made
  <2>4. /\ acc_tickets' \in Seq(Ticket) /\ DOMAIN acc_tickets \subseteq DOMAIN acc_tickets'
    BY <1>2, <2>2, <2>3
  <2>5. QED
    BY <1>1, <2>3, <2>4
<1>5. QED
  BY <1>3, <1>4

(* A matrix is checked: it keeps nothing that is for the administrators.    *)
LEMMA MatrixChecked ==
  ASSUME AccessInv, NEW s \in Slot, NEW actor \in tokens, NEW n \in DOMAIN acc_tickets,
         NEW matrix \in [Role -> SUBSET shipped], Allowed!CheckMatrix(s, actor, n, matrix)
  PROVE  AccessInv'
<1> DEFINE saving == [kind |-> "matrix", ticket |-> n, matrix |-> matrix, row |-> Allowed!Row,
                      first |-> roleSet = None]
<1>0. AccessTyped /\ acc_tickets \in Seq(Ticket)
      /\ pending \in [Slot -> AccountUpdate \cup MatrixUpdate \cup {None}]
  BY DEF AccessInv, AccessTyped
<1>1. /\ pending' = [pending EXCEPT ![s] = saving] /\ Allowed!Normalized(matrix)
      /\ UNCHANGED <<accounts, tokens, roleSet, shipped, acc_tickets, service, taken>>
  BY Zenon DEF Allowed!CheckMatrix
<1>2. Allowed!Row \in Nat
  BY <1>0 DEF AccessTyped, Allowed!Row, RoleSets
<1>3. matrix \in [Role -> SUBSET Permission]
  BY <1>0 DEF AccessTyped
<1>4. /\ saving \in MatrixUpdate /\ saving.kind = "matrix" /\ saving.ticket = n /\ saving.matrix = matrix
      /\ saving.row = Allowed!Row
  BY <1>0, <1>2, <1>3 DEF MatrixUpdate
<1> HIDE DEF saving
<1>5. /\ pending' \in [Slot -> AccountUpdate \cup MatrixUpdate \cup {None}]
      /\ \A t \in Slot : pending'[t] = IF t = s THEN saving ELSE pending[t]
  BY <1>0, <1>1, <1>4
<1>6. AccessTyped'
  BY <1>0, <1>1, <1>5 DEF AccessTyped
<1>7. AccountsInv'
  <2>1. \A t \in Slot : pending'[t] = pending[t] \/ ~UpdateOf(t)'
    BY <1>4, <1>5 DEF UpdateOf
  <2>2. QED
    BY <1>1, <2>1, AccountsGoOn
<1>8. \A r \in Role : matrix[r] \cap AdminOnly = {}
  BY <1>1 DEF Allowed!Normalized, Allowed!AdminOnly, AdminOnly
<1>9. NothingKept' /\ TakenKnown' /\ TicketsThere'
  BY <1>1, <1>4, <1>5, <1>8 DEF AccessInv, MatrixInv, NothingKept, TakenKnown, TicketsThere, SavingOf
<1>12. MatrixInv'
  BY <1>1, <1>9 DEF AccessInv, MatrixInv
<1>13. QED
  BY <1>1, <1>6, <1>7, <1>12 DEF AccessInv, Allowed!ServiceKept

(* A matrix is committed with all it takes, over whatever came before it.   *)
LEMMA MatrixCommitted ==
  ASSUME AccessInv, NEW s \in Slot, Allowed!CommitMatrix(s)
  PROVE  AccessInv'
<1> DEFINE p == pending[s]
           over == [matrix |-> p.matrix, known |-> shipped, row |-> p.row + 1]
           spent == [acc_tickets[p.ticket] EXCEPT !.used = TRUE]
           took == {t \in Role \X shipped : t[2] \notin p.matrix[t[1]]}
<1>0. /\ AccessTyped /\ SavingOf(s) /\ acc_tickets \in Seq(Ticket)
      /\ pending \in [Slot -> AccountUpdate \cup MatrixUpdate \cup {None}]
      /\ roleSet \in RoleSets \cup {None} /\ shipped \in SUBSET Permission
  BY DEF AccessInv, AccessTyped, Allowed!CommitMatrix, SavingOf
<1>1. /\ roleSet' = over /\ acc_tickets' = [acc_tickets EXCEPT ![p.ticket].used = TRUE]
      /\ taken' = took
      /\ pending' = [pending EXCEPT ![s] = None]
      /\ UNCHANGED <<accounts, tokens, shipped, service, chances>>
  BY Zenon DEF Allowed!CommitMatrix
<1>2. /\ p \in MatrixUpdate /\ p.ticket \in DOMAIN acc_tickets /\ p.ticket \in Nat /\ p.row \in Nat
      /\ p.matrix \in [Role -> SUBSET Permission] /\ \A r \in Role : p.matrix[r] \cap AdminOnly = {}
  <2>1. p \in MatrixUpdate
    BY <1>0 DEF SavingOf, AccountUpdate
  <2>2. p.ticket \in DOMAIN acc_tickets /\ \A r \in Role : p.matrix[r] \cap AdminOnly = {}
    BY <1>0 DEF AccessInv, MatrixInv, TicketsThere, NothingKept
  <2>3. QED
    BY <2>1, <2>2 DEF MatrixUpdate
<1> HIDE DEF p
<1>3. /\ over \in RoleSets /\ over.matrix = p.matrix /\ over.known = shipped /\ over.row = p.row + 1
  BY <1>0, <1>2 DEF RoleSets
<1>4. spent \in Ticket /\ spent.used
  <2>1. acc_tickets[p.ticket] \in Ticket
    BY <1>0, <1>2
  <2>2. QED
    BY <2>1 DEF Ticket
<1>5. acc_tickets' = [m \in DOMAIN acc_tickets |-> IF m = p.ticket THEN spent ELSE acc_tickets[m]]
  BY <1>1, <1>2, Zenon
<1>6. took \in SUBSET (Role \X Permission)
  BY <1>0, <1>2
<1>7. \A t \in took : t[2] \in shipped /\ t[2] \notin p.matrix[t[1]]
  OBVIOUS
<1> HIDE DEF over, spent, took
<1>10. /\ acc_tickets' \in Seq(Ticket) /\ DOMAIN acc_tickets' = DOMAIN acc_tickets
  <2>0. acc_tickets \in Seq(Ticket) /\ spent \in Ticket
    BY <1>0, <1>4
  <2>1. QED
    BY <1>5, <2>0
<1>11. /\ pending' \in [Slot -> AccountUpdate \cup MatrixUpdate \cup {None}]
       /\ \A t \in Slot : pending'[t] = IF t = s THEN None ELSE pending[t]
  BY <1>0, <1>1
<1>12. AccessTyped'
  BY <1>0, <1>1, <1>3, <1>6, <1>10, <1>11 DEF AccessTyped
<1>13. roleSet' # None
  BY <1>1, <1>3, NoneIsNothing
<1>14. \A t \in Slot : SavingOf(t)' => t # s /\ SavingOf(t) /\ pending'[t] = pending[t]
  BY <1>11 DEF SavingOf
<1>15. AccountsInv'
  <2>1. \A t \in Slot : pending'[t] = pending[t] \/ ~UpdateOf(t)'
    BY <1>11 DEF UpdateOf
  <2>2. QED
    BY <1>1, <2>1, AccountsGoOn
<1>16. NothingKept'
  BY <1>1, <1>2, <1>3, <1>14 DEF NothingKept, AccessInv, MatrixInv
<1>17. TakenKnown'
  BY <1>1, <1>3, <1>7, <1>13 DEF TakenKnown
<1>18. TicketsThere'
  BY <1>10, <1>14 DEF TicketsThere, AccessInv, MatrixInv
<1>19. QED
  BY <1>1, <1>12, <1>15, <1>16, <1>17, <1>18 DEF AccessInv, MatrixInv, Allowed!ServiceKept

(* Nothing is changed but what is under way: requests fail, or the program  *)
(* is replaced by one that knows more permissions.                          *)
LEMMA RequestsEnd ==
  ASSUME AccessInv
  PROVE  /\ \A s \in Slot : Allowed!Fail(s) => AccessInv'
         /\ Allowed!Upgrade => AccessInv'
<1>1. ASSUME shipped' \in SUBSET Permission,
             pending' \in [Slot -> AccountUpdate \cup MatrixUpdate \cup {None}],
             \A t \in Slot : pending'[t] = pending[t] \/ pending'[t] = None,
             UNCHANGED <<accounts, tokens, roleSet, acc_tickets, service, taken>>
      PROVE  AccessInv'
  <2>1. AccessTyped'
    BY <1>1 DEF AccessInv, AccessTyped
  <2>3. AccountsInv'
    BY <1>1, AccountsGoOn DEF UpdateOf
  <2>4. MatrixInv'
    BY <1>1, MatrixGoesOn DEF SavingOf
  <2>5. QED
    BY <1>1, <2>1, <2>3, <2>4 DEF AccessInv, Allowed!ServiceKept
<1>2. /\ pending \in [Slot -> AccountUpdate \cup MatrixUpdate \cup {None}]
      /\ shipped \in SUBSET Permission
  BY DEF AccessInv, AccessTyped
<1>3. ASSUME NEW s \in Slot, Allowed!Fail(s) PROVE AccessInv'
  BY <1>1, <1>2, <1>3 DEF Allowed!Fail
<1>4. ASSUME Allowed!Upgrade PROVE AccessInv'
  <2>1. shipped' \in SUBSET Permission
    <3>1. shipped' = shipped \cup Later
      BY <1>4, Zenon DEF Allowed!Upgrade
    <3>2. Later \subseteq Permission
      BY DEF Permission
    <3>3. QED
      BY <1>2, <3>1, <3>2
  <2>2. /\ pending' = [t \in Slot |-> None]
        /\ UNCHANGED <<accounts, tokens, roleSet, acc_tickets, service, taken>>
    BY <1>4 DEF Allowed!Upgrade
  <2>3. QED
    BY <1>1, <2>1, <2>2
<1>5. QED
  BY <1>3, <1>4

(* What a service did is forgotten when it is changed, and else it only     *)
(* does what it may.                                                        *)
LEMMA ServiceSteps == ASSUME AccessInv, Allowed!ServiceNext PROVE AccessInv'
<1> DEFINE Service == [state : {"active", "disabled"}, secret : Nat, scopes : SUBSET Served,
                       heard : SUBSET [secret : Nat, station : Served]]
<1>0. service \in Service /\ Allowed!ServiceKept
  BY DEF AccessInv, AccessTyped
<1>1. ASSUME service' \in Service, Allowed!ServiceKept',
             UNCHANGED <<accounts, tokens, roleSet, shipped, acc_tickets, pending, taken>>
      PROVE  AccessInv'
  <2>1. AccessTyped'
    BY <1>1 DEF AccessInv, AccessTyped
  <2>3. AccountsInv' /\ MatrixInv'
    BY <1>1, AccountsGoOn, MatrixGoesOn
  <2>4. QED
    BY <1>1, <2>1, <2>3 DEF AccessInv
<1>2. ASSUME NEW actor \in tokens, Allowed!RotateService(actor) PROVE AccessInv'
  <2> DEFINE next == service.secret + 1
  <2>1. /\ service' = [service EXCEPT !.secret = next, !.heard = {}]
        /\ UNCHANGED <<accounts, tokens, roleSet, shipped, acc_tickets, pending, taken>>
    BY <1>2, Zenon DEF Allowed!RotateService
  <2>0. next \in Nat
    BY <1>0
  <2> HIDE DEF next
  <2>2. service' \in Service /\ service'.heard = {}
    BY <1>0, <2>0, <2>1
  <2>3. Allowed!ServiceKept'
    BY <2>2 DEF Allowed!ServiceKept
  <2>4. QED
    BY <1>1, <2>1, <2>2, <2>3
<1>3. ASSUME NEW actor \in tokens, NEW scopes \in Allowed!ScopesGiven, Allowed!UpdateService(actor, scopes)
      PROVE  AccessInv'
  <2>1. /\ service' = [service EXCEPT !.scopes = scopes, !.heard = {}]
        /\ UNCHANGED <<accounts, tokens, roleSet, shipped, acc_tickets, pending, taken>>
    BY <1>3, Zenon DEF Allowed!UpdateService
  <2>2. service' \in Service /\ service'.heard = {}
    BY <1>0, <2>1 DEF Allowed!ScopesGiven
  <2>3. Allowed!ServiceKept'
    BY <2>2 DEF Allowed!ServiceKept
  <2>4. QED
    BY <1>1, <2>1, <2>2, <2>3
<1>4. ASSUME NEW actor \in tokens, NEW state \in {"active", "disabled"},
             Allowed!SetServiceState(actor, state)
      PROVE  AccessInv'
  <2>1. /\ service' = [service EXCEPT !.state = state, !.heard = {}]
        /\ UNCHANGED <<accounts, tokens, roleSet, shipped, acc_tickets, pending, taken>>
    BY <1>4, Zenon DEF Allowed!SetServiceState
  <2>2. service' \in Service /\ service'.heard = {}
    BY <1>0, <2>1
  <2>3. Allowed!ServiceKept'
    BY <2>2 DEF Allowed!ServiceKept
  <2>4. QED
    BY <1>1, <2>1, <2>2, <2>3
<1>5. ASSUME NEW secret \in 1..service.secret, NEW station \in Served,
             Allowed!ServiceCall(secret, station)
      PROVE  AccessInv'
  <2> DEFINE call == [secret |-> secret, station |-> station]
             all == service.heard \cup {call}
  <2>1. /\ service' = [service EXCEPT !.heard = all]
        /\ secret = service.secret /\ service.state = "active" /\ station \in service.scopes
        /\ UNCHANGED <<accounts, tokens, roleSet, shipped, acc_tickets, pending, taken>>
    BY <1>5, Zenon DEF Allowed!ServiceCall, Allowed!Known, Allowed!Authorized
  <2>2. call \in [secret : Nat, station : Served] /\ call.secret = secret /\ call.station = station
    BY <1>0
  <2>3. all \in SUBSET [secret : Nat, station : Served] /\ \A h \in all : h \in service.heard \/ h = call
    BY <1>0, <2>2
  <2> HIDE DEF all, call
  <2>4. service' \in Service /\ service'.heard = all /\ service'.state = service.state
        /\ service'.secret = service.secret /\ service'.scopes = service.scopes
    BY <1>0, <2>1, <2>3
  <2>5. Allowed!ServiceKept'
    BY <1>0, <2>1, <2>2, <2>3, <2>4 DEF Allowed!ServiceKept
  <2>6. QED
    BY <1>1, <2>1, <2>4, <2>5
<1>6. QED
  BY <1>2, <1>3, <1>4, <1>5 DEF Allowed!ServiceNext

(* Every step of the access keeps its invariant.                            *)
LEMMA AccessStep == ASSUME AccessInv, Allowed!AccessNext PROVE AccessInv'
<1>1. CASE Allowed!AccountNext
  <2>1. CASE \E u \in Person : accounts[u] # None /\ (Allowed!Login(u) \/ Allowed!ChangePassword(u))
    BY <2>1, PasswordSteps
  <2>2. ASSUME NEW actor \in tokens, NEW u \in Person, Allowed!ResetPassword(actor, u) PROVE AccessInv'
    <3>1. accounts[u] # None
      BY <2>2 DEF Allowed!ResetPassword
    <3>2. QED
      BY <2>2, <3>1, PasswordSteps
  <2>3. ASSUME NEW actor \in tokens, NEW u \in Person, NEW r \in Role \cup {"admin"},
               Allowed!CreateAccount(actor, u, {r})
        PROVE  AccessInv'
    BY <2>3, AccountCreated
  <2>4. ASSUME NEW actor \in tokens, NEW u \in Person, NEW s \in Slot,
               NEW f \in {"state", "member", "roles"}, NEW v \in Allowed!Values(f),
               Allowed!CheckUpdate(s, actor, u, f, v)
        PROVE  AccessInv'
    BY <2>4, UpdateChecked
  <2>5. ASSUME NEW s \in Slot, Allowed!CommitUpdate(s) PROVE AccessInv'
    BY <2>5, UpdateCommitted
  <2>6. QED
    BY <1>1, <2>1, <2>2, <2>3, <2>4, <2>5, Zenon DEF Allowed!AccountNext
<1>2. CASE Allowed!MatrixNext
  <2>1. ASSUME NEW u \in tokens, NEW version \in 0..2, Allowed!Sign(u, version) PROVE AccessInv'
    BY <2>1, SignatureSteps
  <2>2. ASSUME NEW n \in DOMAIN acc_tickets, Allowed!OutOfTime(n) PROVE AccessInv'
    BY <2>2, SignatureSteps
  <2>3. ASSUME NEW s \in Slot, NEW actor \in tokens, NEW n \in DOMAIN acc_tickets,
               NEW matrix \in [Role -> SUBSET shipped], Allowed!CheckMatrix(s, actor, n, matrix)
        PROVE  AccessInv'
    BY <2>3, MatrixChecked
  <2>4. ASSUME NEW s \in Slot, Allowed!CommitMatrix(s) PROVE AccessInv'
    BY <2>4, MatrixCommitted
  <2>5. ASSUME NEW s \in Slot, Allowed!Fail(s) PROVE AccessInv'
    BY <2>5, RequestsEnd
  <2>6. CASE Allowed!Upgrade
    BY <2>6, RequestsEnd
  <2>7. QED
    BY <1>2, <2>1, <2>2, <2>3, <2>4, <2>5, <2>6, Zenon DEF Allowed!MatrixNext
<1>3. QED
  BY <1>1, <1>2, ServiceSteps DEF Allowed!AccessNext

(* Where the invariant holds, whoever may decide is one of those who may.   *)
LEMMA AccessStands == ASSUME AccessInv PROVE Allowed!AccessHolds
<1> USE DEF AccessInv
<1>1. \A r \in Role : Allowed!Matrix[r] \cap AdminOnly = {}
  <2>1. CASE roleSet = None
    BY <2>1, RolesAreOthers DEF Allowed!Matrix
  <2>2. CASE roleSet # None
    <3>1. Allowed!Matrix = [r \in Role |-> (roleSet.matrix[r] \cup (Default[r] \ roleSet.known)) \cap shipped]
      BY <2>2, Zenon DEF Allowed!Matrix, Allowed!Merged
    <3>2. \A r \in Role : roleSet.matrix[r] \cap AdminOnly = {}
      BY <2>2 DEF MatrixInv, NothingKept
    <3>3. QED
      BY <3>1, <3>2, RolesAreOthers
  <2>3. QED
    BY <2>1, <2>2
<1>2. Allowed!KeptForAdministrators
  <2>1. SUFFICES ASSUME NEW u \in Person, accounts[u] # None, "admin" \notin accounts[u].roles
                 PROVE  Allowed!Permissions(u) \cap AdminOnly = {}
    BY DEF Allowed!KeptForAdministrators, Allowed!AdminOnly, AdminOnly
  <2>2. accounts[u] \in Accounts
    BY <2>1 DEF AccessTyped
  <2>3. accounts[u].roles \subseteq Role
    BY <2>1, <2>2 DEF Accounts
  <2>4. Allowed!Permissions(u) = UNION {Allowed!Matrix[r] : r \in accounts[u].roles}
    BY <2>1, Zenon DEF Allowed!Permissions
  <2>5. QED
    BY <1>1, <2>3, <2>4
<1>3. Allowed!TakenStaysAway
  <2>1. SUFFICES ASSUME NEW t \in taken PROVE t[2] \notin Allowed!Matrix[t[1]]
    BY DEF Allowed!TakenStaysAway
  <2>2. roleSet # None /\ t[2] \in roleSet.known /\ t[2] \notin roleSet.matrix[t[1]]
    BY <2>1 DEF MatrixInv, TakenKnown
  <2>3. t[1] \in Role
    BY <2>1 DEF AccessTyped
  <2>4. Allowed!Matrix = [r \in Role |-> (roleSet.matrix[r] \cup (Default[r] \ roleSet.known)) \cap shipped]
    BY <2>2, Zenon DEF Allowed!Matrix, Allowed!Merged
  <2>5. QED
    BY <2>2, <2>3, <2>4
<1>4. QED
  BY <1>2, <1>3 DEF Allowed!AccessHolds

-----------------------------------------------------------------------------
(* Staff.  Work is with somebody who is on duty and qualified at both ends  *)
(* of its window, unless something was taken from this person since.        *)

StaffMoment == 0..MaxMoment
Qualification == [of : Worker, for : Need, from : StaffMoment, expires : StaffMoment \cup {None},
                  revoked : StaffMoment \cup {None}]
Job == [worker : Worker, from : StaffMoment, to : StaffMoment,
        state : {"pending_accept", "accepted", "running", "paused"}, steady : BOOLEAN]
Employee == [account : {"active", "disabled"}, employment : {"on_duty", "leave", "left"}]
Employed == [account |-> "active", employment |-> "on_duty"]
StaffTyped ==
  /\ moment \in StaffMoment
  /\ person \in [Worker -> Employee \cup {None}]
  /\ qualifications \in Seq(Qualification)
  /\ jobs \in Seq(Job)

\* Among these qualifications of a person, everything needed is in force at this moment.
Covers(held, u, at) ==
  \A need \in Need : \E n \in DOMAIN held :
    held[n].of = u /\ held[n].for = need /\ Crew!InForce(held[n], at)
Ready(people, held, job) ==
  /\ people[job.worker] # None /\ people[job.worker] = Employed
  /\ Covers(held, job.worker, job.from) /\ Covers(held, job.worker, job.to)
WorkCovered ==
  \A j \in DOMAIN jobs : /\ jobs[j].from < jobs[j].to
                         /\ jobs[j].steady => Ready(person, qualifications, jobs[j])
StaffInv == StaffTyped /\ WorkCovered

(* The invariant of the staff holds at the start.                           *)
LEMMA StaffStart == ASSUME Crew!StaffInit PROVE StaffInv
<1>1. jobs = <<>> /\ qualifications = <<>> /\ moment = 0 /\ person = [u \in Worker |-> None]
  BY DEF Crew!StaffInit
<1>2. StaffTyped
  BY <1>1, MomentsAreTime DEF StaffTyped, StaffMoment
<1>3. WorkCovered
  BY <1>1 DEF WorkCovered
<1>4. QED
  BY <1>2, <1>3 DEF StaffInv

(* Whoever is fit is on duty, and everything needed is in force.            *)
LEMMA FitCovers ==
  ASSUME StaffTyped, NEW u \in Worker, NEW at \in StaffMoment, Crew!Fit(u, at)
  PROVE  person[u] # None /\ person[u] = Employed /\ Covers(qualifications, u, at)
<1>1. person[u] # None /\ person[u] = Employed
  <2>1. person[u] # None /\ person[u].account = "active" /\ person[u].employment = "on_duty"
    BY Zenon DEF Crew!Fit, Crew!Employable
  <2>2. person[u] \in Employee
    BY <2>1 DEF StaffTyped
  <2>3. QED
    BY <2>1, <2>2 DEF Employed, Employee
<1>2. ASSUME NEW need \in Need
      PROVE  \E n \in DOMAIN qualifications :
               /\ qualifications[n].of = u /\ qualifications[n].for = need
               /\ Crew!InForce(qualifications[n], at)
  <2>1. PICK n \in Crew!HeldBy(u, need) : Crew!ValidAt(qualifications[n], at)
    BY Zenon DEF Crew!Fit
  <2>2. n \in DOMAIN qualifications /\ qualifications[n].of = u /\ qualifications[n].for = need
    BY DEF Crew!HeldBy
  <2>3. qualifications[n] \in Qualification
    BY <2>2 DEF StaffTyped
  <2>4. Crew!InForce(qualifications[n], at)
    BY <2>1, <2>3, MomentsAreTime, NoneIsNothing DEF Crew!InForce, Crew!ValidAt, Qualification, StaffMoment
  <2>5. QED
    BY <2>2, <2>4
<1>3. QED
  BY <1>1, <1>2 DEF Covers

(* Whoever is fit for a window is ready for work in it.                     *)
LEMMA FitReady ==
  ASSUME StaffTyped, NEW job \in Job, job.from < job.to,
         Crew!FitForWindow(job.worker, job.from, job.to)
  PROVE  Ready(person, qualifications, job)
<1>1. job.worker \in Worker /\ job.from \in StaffMoment /\ job.to \in StaffMoment /\ job.to > job.from
  BY MomentsAreTime DEF Job, StaffMoment
<1>2. Crew!Fit(job.worker, job.from) /\ Crew!Fit(job.worker, job.to)
  BY <1>1 DEF Crew!FitForWindow
<1>3. QED
  BY <1>1, <1>2, FitCovers DEF Ready

(* What a person is qualified for stays when nothing is taken from it.      *)
LEMMA CoversStays ==
  ASSUME NEW held, NEW now, NEW u, NEW at, Covers(held, u, at),
         \A n \in DOMAIN held : held[n].of = u => n \in DOMAIN now /\ now[n] = held[n]
  PROVE  Covers(now, u, at)
BY DEF Covers

(* Work of which nothing is taken, and of whose worker nothing is taken,    *)
(* stays covered; work that is not steady promises nothing.                 *)
LEMMA WorkGoesOn ==
  ASSUME StaffInv, StaffTyped', DOMAIN jobs' = DOMAIN jobs,
         \A j \in DOMAIN jobs :
           /\ jobs'[j].from = jobs[j].from /\ jobs'[j].to = jobs[j].to
           /\ jobs'[j].steady =>
                /\ jobs[j].steady /\ jobs'[j].worker = jobs[j].worker
                /\ person[jobs[j].worker] = Employed =>
                     person'[jobs[j].worker] = person[jobs[j].worker]
                /\ \A n \in DOMAIN qualifications : qualifications[n].of = jobs[j].worker =>
                     n \in DOMAIN qualifications' /\ qualifications'[n] = qualifications[n]
  PROVE  StaffInv'
<1>1. ASSUME NEW j \in DOMAIN jobs, jobs'[j].steady
      PROVE  Ready(person', qualifications', jobs'[j])
  <2>1. Ready(person, qualifications, jobs[j])
    BY <1>1 DEF StaffInv, WorkCovered
  <2>2. /\ Covers(qualifications', jobs[j].worker, jobs[j].from)
        /\ Covers(qualifications', jobs[j].worker, jobs[j].to)
    BY <1>1, <2>1, CoversStays DEF Ready
  <2>3. QED
    BY <1>1, <2>1, <2>2 DEF Ready
<1>2. QED
  BY <1>1 DEF StaffInv, WorkCovered

(* A job changes as its worker loses something: it is not steady any more.  *)
LEMMA UnsteadyWork ==
  ASSUME StaffTyped, NEW u \in Worker, jobs' = Crew!Unsteady(u)
  PROVE  /\ jobs' \in Seq(Job) /\ DOMAIN jobs' = DOMAIN jobs
         /\ \A j \in DOMAIN jobs :
              /\ jobs'[j].from = jobs[j].from /\ jobs'[j].to = jobs[j].to
              /\ jobs'[j].worker = jobs[j].worker
              /\ jobs'[j].steady => jobs[j].steady /\ jobs[j].worker # u
<1> DEFINE lost(j) == [jobs[j] EXCEPT !.steady = FALSE]
<1>1. jobs' = [j \in DOMAIN jobs |-> IF jobs[j].worker = u THEN lost(j) ELSE jobs[j]]
  BY Zenon DEF Crew!Unsteady
<1>2. \A j \in DOMAIN jobs : jobs[j] \in Job
  BY DEF StaffTyped
<1>3. ASSUME NEW j \in DOMAIN jobs
      PROVE  /\ lost(j) \in Job /\ lost(j).from = jobs[j].from /\ lost(j).to = jobs[j].to
             /\ lost(j).worker = jobs[j].worker /\ lost(j).steady = FALSE
  BY <1>2, <1>3 DEF Job
<1> HIDE DEF lost
<1>4. \A j \in DOMAIN jobs : jobs'[j] = IF jobs[j].worker = u THEN lost(j) ELSE jobs[j]
  BY <1>1
<1>5. DOMAIN jobs' = DOMAIN jobs /\ jobs' \in Seq(Job)
  <2>1. Len(jobs) \in Nat /\ DOMAIN jobs = 1..Len(jobs)
    BY DEF StaffTyped
  <2>2. \A j \in DOMAIN jobs : (IF jobs[j].worker = u THEN lost(j) ELSE jobs[j]) \in Job
    BY <1>2, <1>3
  <2>3. jobs' \in [1..Len(jobs) -> Job]
    BY <1>1, <2>1, <2>2, Zenon
  <2>4. QED
    BY <1>1, <2>1, <2>3, SeqOfFunction
<1>6. QED
  BY <1>3, <1>4, <1>5

(* People come and go; what they lose, their work feels.                    *)
LEMMA PeopleSteps ==
  ASSUME StaffInv, NEW u \in Worker
  PROVE  /\ Crew!CreatePerson(u) => StaffInv'
         /\ \A e \in {"on_duty", "leave", "left"} : Crew!UpdatePerson(u, e) => StaffInv'
         /\ \A state \in {"active", "disabled"} : Crew!SetAccount(u, state) => StaffInv'
<1>0. StaffTyped
  BY DEF StaffInv
<1>1. ASSUME NEW new \in Employee, person' = [person EXCEPT ![u] = new],
             UNCHANGED <<moment, qualifications>>,
             \/ UNCHANGED jobs /\ (person[u] = Employed => new = Employed)
             \/ jobs' = Crew!Unsteady(u)
      PROVE  StaffInv'
  <2>1. /\ person' \in [Worker -> Employee \cup {None}]
        /\ \A w \in Worker : w # u => person'[w] = person[w]
        /\ person'[u] = new
    BY <1>0, <1>1 DEF StaffTyped
  <2>2. /\ jobs' \in Seq(Job) /\ DOMAIN jobs' = DOMAIN jobs
        /\ \A j \in DOMAIN jobs :
             /\ jobs'[j].from = jobs[j].from /\ jobs'[j].to = jobs[j].to
             /\ jobs'[j].worker = jobs[j].worker /\ jobs[j].worker \in Worker
             /\ jobs'[j].steady => /\ jobs[j].steady
                                   /\ \/ jobs[j].worker # u
                                      \/ person[u] = Employed => new = Employed
    <3>1. \A j \in DOMAIN jobs : jobs[j].worker \in Worker
      <4>1. \A j \in DOMAIN jobs : jobs[j] \in Job
        BY <1>0 DEF StaffTyped
      <4>2. QED
        BY <4>1 DEF Job
    <3>2. CASE jobs' = jobs /\ (person[u] = Employed => new = Employed)
      BY <1>0, <3>1, <3>2 DEF StaffTyped
    <3>3. CASE jobs' = Crew!Unsteady(u)
      BY <1>0, <3>1, <3>3, UnsteadyWork
    <3>4. QED
      BY <1>1, <3>2, <3>3
  <2>3. StaffTyped'
    BY <1>0, <1>1, <2>1, <2>2 DEF StaffTyped
  <2>4. QED
    BY <1>1, <2>1, <2>2, <2>3, WorkGoesOn
<1>2. ASSUME Crew!CreatePerson(u) PROVE StaffInv'
  <2>1. /\ person[u] = None /\ person' = [person EXCEPT ![u] = Employed]
        /\ UNCHANGED <<moment, qualifications, jobs>>
    BY <1>2, Zenon DEF Crew!CreatePerson, Employed
  <2>2. Employed \in Employee
    BY DEF Employed, Employee
  <2>3. QED
    BY <1>1, <2>1, <2>2
<1>3. ASSUME NEW e \in {"on_duty", "leave", "left"}, Crew!UpdatePerson(u, e) PROVE StaffInv'
  <2> DEFINE new == [person[u] EXCEPT !.employment = e]
  <2>1. /\ person[u] # None /\ person' = [person EXCEPT ![u] = new]
        /\ jobs' = (IF e = "on_duty" THEN jobs ELSE Crew!Unsteady(u))
        /\ UNCHANGED <<moment, qualifications>>
    BY <1>3, Zenon DEF Crew!UpdatePerson
  <2>2. person[u] \in Employee
    BY <1>0, <2>1 DEF StaffTyped
  <2>3. new \in Employee /\ (e = "on_duty" /\ person[u] = Employed => new = Employed)
    BY <2>2 DEF Employee, Employed
  <2> HIDE DEF new
  <2>4. QED
    BY <1>1, <2>1, <2>3
<1>4. ASSUME NEW state \in {"active", "disabled"}, Crew!SetAccount(u, state) PROVE StaffInv'
  <2> DEFINE new == [person[u] EXCEPT !.account = state]
  <2>1. /\ person[u] # None /\ person' = [person EXCEPT ![u] = new]
        /\ jobs' = (IF state = "active" THEN jobs ELSE Crew!Unsteady(u))
        /\ UNCHANGED <<moment, qualifications>>
    BY <1>4, Zenon DEF Crew!SetAccount
  <2>2. person[u] \in Employee
    BY <1>0, <2>1 DEF StaffTyped
  <2>3. new \in Employee /\ (state = "active" /\ person[u] = Employed => new = Employed)
    BY <2>2 DEF Employee, Employed
  <2> HIDE DEF new
  <2>4. QED
    BY <1>1, <2>1, <2>3
<1>5. QED
  BY <1>2, <1>3, <1>4

(* A qualification that is granted takes nothing; one that is revoked is    *)
(* felt by the work of its owner.                                           *)
LEMMA QualificationSteps ==
  ASSUME StaffInv
  PROVE  /\ \A u \in Worker, need \in Need, from \in StaffMoment, expires \in StaffMoment \cup {None} :
              Crew!Grant(u, need, from, expires) => StaffInv'
         /\ \A n \in DOMAIN qualifications : Crew!Revoke(n) => StaffInv'
<1>0. StaffTyped /\ qualifications \in Seq(Qualification) /\ jobs \in Seq(Job)
  BY DEF StaffInv, StaffTyped
<1>1. ASSUME NEW u \in Worker, NEW need \in Need, NEW from \in StaffMoment,
             NEW expires \in StaffMoment \cup {None}, Crew!Grant(u, need, from, expires)
      PROVE  StaffInv'
  <2> DEFINE new == [of |-> u, for |-> need, from |-> from, expires |-> expires, revoked |-> None]
  <2>1. qualifications' = Append(qualifications, new) /\ UNCHANGED <<moment, person, jobs>>
    BY <1>1 DEF Crew!Grant
  <2>2. new \in Qualification
    BY DEF Qualification
  <2> HIDE DEF new
  <2>3. /\ qualifications' \in Seq(Qualification)
        /\ \A n \in DOMAIN qualifications :
             n \in DOMAIN qualifications' /\ qualifications'[n] = qualifications[n]
    BY <1>0, <2>1, <2>2, Appended
  <2>4. StaffTyped'
    BY <1>0, <2>1, <2>3 DEF StaffTyped
  <2>5. QED
    BY <2>1, <2>3, <2>4, WorkGoesOn
<1>2. ASSUME NEW n \in DOMAIN qualifications, Crew!Revoke(n) PROVE StaffInv'
  <2> DEFINE u == qualifications[n].of
             new == [qualifications[n] EXCEPT !.revoked = moment]
  <2>0. qualifications[n] \in Qualification /\ moment \in StaffMoment
    BY <1>0 DEF StaffTyped
  <2>1. u \in Worker /\ moment \in StaffMoment
    BY <2>0 DEF Qualification
  <2>2. new \in Qualification
    BY <2>0 DEF Qualification
  <2>3. /\ qualifications' = [m \in DOMAIN qualifications |-> IF m = n THEN new ELSE qualifications[m]]
        /\ jobs' = Crew!Unsteady(u) /\ UNCHANGED <<moment, person>>
    BY <1>2, Zenon DEF Crew!Revoke
  <2> HIDE DEF new
  <2>4. qualifications' \in Seq(Qualification)
    BY <1>0, <2>2, <2>3
  <2>5. \A m \in DOMAIN qualifications : qualifications[m].of # u =>
          m \in DOMAIN qualifications' /\ qualifications'[m] = qualifications[m]
    BY <2>3
  <2>6. /\ jobs' \in Seq(Job) /\ DOMAIN jobs' = DOMAIN jobs
        /\ \A j \in DOMAIN jobs :
             /\ jobs'[j].from = jobs[j].from /\ jobs'[j].to = jobs[j].to
             /\ jobs'[j].worker = jobs[j].worker
             /\ jobs'[j].steady => jobs[j].steady /\ jobs[j].worker # u
    BY <1>0, <2>1, <2>3, UnsteadyWork
  <2>7. StaffTyped'
    BY <1>0, <2>3, <2>4, <2>6 DEF StaffTyped
  <2> HIDE DEF u
  <2>8. QED
    BY <2>3, <2>5, <2>6, <2>7, WorkGoesOn
<1>3. QED
  BY <1>1, <1>2

(* Work is given to whoever is ready for it, to begin with or instead of    *)
(* somebody else.                                                           *)
LEMMA WorkGiven ==
  ASSUME StaffInv, NEW u \in Worker
  PROVE  /\ \A w \in Crew!Periods : Crew!Assign(u, w) => StaffInv'
         /\ \A j \in DOMAIN jobs : Crew!Reassign(j, u) => StaffInv'
<1>0. StaffTyped /\ jobs \in Seq(Job)
  BY DEF StaffInv, StaffTyped
<1>1. ASSUME NEW w \in Crew!Periods, Crew!Assign(u, w) PROVE StaffInv'
  <2> DEFINE job == [worker |-> u, from |-> w.from, to |-> w.to, state |-> "pending_accept", steady |-> TRUE]
  <2>1. jobs' = Append(jobs, job) /\ UNCHANGED <<moment, person, qualifications>>
    BY <1>1 DEF Crew!Assign
  <2>2. job \in Job /\ job.from < job.to /\ Crew!FitForWindow(job.worker, job.from, job.to)
    <3>1. w.from \in StaffMoment /\ w.to \in StaffMoment /\ w.from < w.to
      BY DEF Crew!Periods, Crew!Moments, StaffMoment
    <3>2. Crew!FitForWindow(u, w.from, w.to)
      BY <1>1 DEF Crew!Assign
    <3>3. QED
      BY <3>1, <3>2 DEF Job
  <2>3. Ready(person, qualifications, job)
    BY <1>0, <2>2, FitReady
  <2> HIDE DEF job
  <2>4. /\ jobs' \in Seq(Job)
        /\ \A j \in DOMAIN jobs' : jobs'[j] = job \/ (j \in DOMAIN jobs /\ jobs'[j] = jobs[j])
    BY <1>0, <2>1, <2>2
  <2>5. StaffTyped'
    BY <1>0, <2>1, <2>4 DEF StaffTyped
  <2>6. WorkCovered'
    BY <2>1, <2>2, <2>3, <2>4 DEF StaffInv, WorkCovered
  <2>7. QED
    BY <2>5, <2>6 DEF StaffInv
<1>2. ASSUME NEW j \in DOMAIN jobs, Crew!Reassign(j, u) PROVE StaffInv'
  <2> DEFINE job == [jobs[j] EXCEPT !.worker = u, !.state = "pending_accept", !.steady = TRUE]
  <2>1. jobs' = [k \in DOMAIN jobs |-> IF k = j THEN job ELSE jobs[k]]
    BY <1>2, Zenon DEF Crew!Reassign
  <2>2. /\ UNCHANGED <<moment, person, qualifications>>
        /\ Crew!FitForWindow(u, jobs[j].from, jobs[j].to)
    BY <1>2, Zenon DEF Crew!Reassign
  <2>3. jobs[j] \in Job /\ jobs[j].from < jobs[j].to
    BY <1>0 DEF StaffInv, WorkCovered
  <2>4. job \in Job /\ job.from = jobs[j].from /\ job.to = jobs[j].to /\ job.worker = u
    BY <2>3 DEF Job
  <2> HIDE DEF job
  <2>5. Ready(person, qualifications, job)
    BY <1>0, <2>2, <2>3, <2>4, FitReady
  <2>6. jobs' \in Seq(Job)
    BY <1>0, <2>1, <2>4
  <2>7. StaffTyped'
    BY <1>0, <2>2, <2>6 DEF StaffTyped
  <2>8. WorkCovered'
    BY <2>1, <2>2, <2>3, <2>4, <2>5 DEF StaffInv, WorkCovered
  <2>9. QED
    BY <2>7, <2>8 DEF StaffInv
<1>3. QED
  BY <1>1, <1>2

(* Work that is taken, started, held or resumed stays with its person.      *)
LEMMA WorkDone ==
  ASSUME StaffInv, NEW j \in DOMAIN jobs,
         Crew!Accept(j) \/ Crew!Dispatch(j) \/ Crew!Hold(j) \/ Crew!Recover(j)
  PROVE  StaffInv'
<1>0. StaffTyped /\ jobs \in Seq(Job) /\ jobs[j] \in Job
  BY DEF StaffInv, StaffTyped
<1>1. ASSUME NEW new \in {"accepted", "running", "paused"},
             jobs' = [jobs EXCEPT ![j].state = new], UNCHANGED <<moment, person, qualifications>>
      PROVE  StaffInv'
  <2> DEFINE job == [jobs[j] EXCEPT !.state = new]
  <2>1. jobs' = [k \in DOMAIN jobs |-> IF k = j THEN job ELSE jobs[k]]
    BY <1>1, Zenon
  <2>2. /\ job \in Job /\ job.from = jobs[j].from /\ job.to = jobs[j].to
        /\ job.worker = jobs[j].worker /\ job.steady = jobs[j].steady
    BY <1>0 DEF Job
  <2> HIDE DEF job
  <2>3. jobs' \in Seq(Job)
    BY <1>0, <2>1, <2>2
  <2>4. StaffTyped'
    BY <1>0, <1>1, <2>3 DEF StaffTyped
  <2>5. QED
    BY <1>1, <2>1, <2>2, <2>4, WorkGoesOn
<1>2. CASE Crew!Accept(j)
  BY <1>1, <1>2 DEF Crew!Accept
<1>3. CASE Crew!Dispatch(j)
  BY <1>1, <1>3 DEF Crew!Dispatch
<1>4. CASE Crew!Hold(j)
  BY <1>1, <1>4 DEF Crew!Hold
<1>5. CASE Crew!Recover(j)
  BY <1>1, <1>5 DEF Crew!Recover
<1>6. QED
  BY <1>2, <1>3, <1>4, <1>5

(* Every step of the staff keeps its invariant.                             *)
LEMMA StaffStep == ASSUME StaffInv, Crew!StaffNext PROVE StaffInv'
<1>1. ASSUME NEW u \in Worker,
             \/ Crew!CreatePerson(u)
             \/ \E e \in {"on_duty", "leave", "left"} : Crew!UpdatePerson(u, e)
             \/ \E state \in {"active", "disabled"} : Crew!SetAccount(u, state)
      PROVE  StaffInv'
  BY <1>1, PeopleSteps
<1>2. ASSUME NEW u \in Worker,
             \E need \in Need, from \in Crew!Moments, expires \in Crew!Moments \cup {None} :
               Crew!Grant(u, need, from, expires)
      PROVE  StaffInv'
  BY <1>2, QualificationSteps DEF Crew!Moments, StaffMoment
<1>3. ASSUME NEW n \in DOMAIN qualifications, Crew!Revoke(n) PROVE StaffInv'
  BY <1>3, QualificationSteps
<1>4. ASSUME NEW u \in Worker,
             (\E w \in Crew!Periods : Crew!Assign(u, w)) \/ (\E j \in DOMAIN jobs : Crew!Reassign(j, u))
      PROVE  StaffInv'
  BY <1>4, WorkGiven
<1>5. ASSUME NEW j \in DOMAIN jobs, Crew!Accept(j) \/ Crew!Dispatch(j) \/ Crew!Hold(j) \/ Crew!Recover(j)
      PROVE  StaffInv'
  BY <1>5, WorkDone
<1>6. CASE Crew!Pass
  <2>1. moment < MaxMoment /\ moment' = moment + 1 /\ UNCHANGED <<person, qualifications, jobs>>
    BY <1>6 DEF Crew!Pass
  <2>2. moment \in StaffMoment
    BY DEF StaffInv, StaffTyped
  <2>3. moment' \in StaffMoment
    BY <2>1, <2>2, MomentsAreTime DEF StaffMoment
  <2>4. QED
    BY <2>1, <2>3 DEF StaffInv, StaffTyped, WorkCovered
<1>7. QED
  BY <1>1, <1>2, <1>3, <1>4, <1>5, <1>6, Zenon DEF Crew!StaffNext

(* Where the invariant holds, steady work is with somebody who may do it,   *)
(* and who is not refused it in its window.                                 *)
LEMMA StaffStands == ASSUME StaffInv PROVE Crew!StaffHolds
<1>1. ASSUME NEW j \in DOMAIN jobs, jobs[j].steady
      PROVE  /\ Crew!OnDuty(jobs[j].worker)
             /\ \A need \in Need, at \in {jobs[j].from, jobs[j].to} :
                  \E n \in Crew!HeldBy(jobs[j].worker, need) : Crew!InForce(qualifications[n], at)
  <2>1. Ready(person, qualifications, jobs[j])
    BY <1>1 DEF StaffInv, WorkCovered
  <2>2. QED
    BY <2>1 DEF Ready, Covers, Employed, Crew!OnDuty, Crew!HeldBy
<1>2. Crew!GivenIsCovered
  BY <1>1 DEF Crew!GivenIsCovered
<1>3. ASSUME NEW j \in DOMAIN jobs, jobs[j].steady, Crew!Unbroken(j),
             NEW at \in jobs[j].from..jobs[j].to
      PROVE  Crew!Fit(jobs[j].worker, at)
  <2>1. person[jobs[j].worker] # None /\ person[jobs[j].worker] = Employed
    BY <1>3 DEF StaffInv, WorkCovered, Ready
  <2>2. Crew!Employable(jobs[j].worker)
    BY <2>1 DEF Crew!Employable, Employed
  <2>3. ASSUME NEW need \in Need
        PROVE  \E n \in Crew!HeldBy(jobs[j].worker, need) : Crew!ValidAt(qualifications[n], at)
    <3>1. PICK n \in Crew!HeldBy(jobs[j].worker, need) :
            qualifications[n].revoked = None /\ Crew!InForce(qualifications[n], at)
      BY <1>3, Zenon DEF Crew!Unbroken
    <3>2. n \in DOMAIN qualifications
      BY DEF Crew!HeldBy
    <3>3. qualifications[n] \in Qualification
      BY <3>2 DEF StaffInv, StaffTyped
    <3>4. at \in Int
      OBVIOUS
    <3>5. Crew!ValidAt(qualifications[n], at)
      BY <3>1, <3>3, <3>4, MomentsAreTime, NoneIsNothing
         DEF Crew!InForce, Crew!ValidAt, Qualification, StaffMoment
    <3>6. QED
      BY <3>5
  <2>4. QED
    BY <2>2, <2>3 DEF Crew!Fit
<1>4. \A j \in DOMAIN jobs : jobs[j].from \in Int /\ jobs[j].to \in Int /\ jobs[j].from < jobs[j].to
  <2>1. \A j \in DOMAIN jobs : jobs[j] \in Job
    BY DEF StaffInv, StaffTyped
  <2>2. QED
    BY <2>1, MomentsAreTime DEF Job, StaffMoment, StaffInv, WorkCovered
<1>5. Crew!GivenIsKept
  BY <1>3, <1>4 DEF Crew!GivenIsKept, Crew!FitForWindow
<1>6. QED
  BY <1>2, <1>5 DEF Crew!StaffHolds

-----------------------------------------------------------------------------
(* Definitions.  A row that was released says what was approved, or what an *)
(* update under way at the approval writes; what refers to it has the same. *)

DefRow == [version : Nat, state : {"draft", "active", "released", "retired", "gone"}, by : Writer,
           editors : SUBSET Writer, content : Wording, rv : Nat]
Submission == [row : Nat, content : Wording, by : Writer, hands : SUBSET Writer, rv : Nat]
RecipeUser == [state : {"draft", "released", "retired"}, ref : Nat \cup {None},
               seen : SUBSET Wording, made : SUBSET Wording]
AdapterUser == [template : Nat \cup {None}, connection : Connection,
                config : (Wording \X Connection) \cup {None}]
ValueUser == [ref : Nat, contents : SUBSET Wording]
RowsTyped ==
  /\ rows \in Seq(DefRow)
  /\ approved \in Seq(Approvals \cup {None}) /\ Len(approved) = Len(rows)
  /\ \E n \in Nat : \A i \in DOMAIN rows : rows[i].version <= n
UsersTyped ==
  /\ catalogue = "method" => users \in [User -> RecipeUser]
  /\ catalogue = "template" => users \in [User -> AdapterUser]
  /\ catalogue = "metric" => users \in [User -> ValueUser \cup {None}]

OneReleasedRow ==
  \A m, n \in DOMAIN rows : rows[m].state = "released" /\ rows[n].state = "released" => m = n
\* The row as it was approved, by somebody who did not start it, and of a template not by its authors.
AsApproved(r, a) ==
  /\ r.state \notin {"draft", "gone"} /\ r.content \in a.contents
  /\ a.by # r.by \/ a.by \in SelfApprovers
  /\ catalogue = "template" => a.by \notin a.hands \/ a.by \in SelfApprovers
RowsApproved ==
  catalogue # "metric" => \A i \in DOMAIN rows :
    /\ rows[i].state = "released" => approved[i] # None
    /\ approved[i] # None => AsApproved(rows[i], approved[i])
\* What an update writes was known when the row was approved.
WritesKnown ==
  /\ writing \in SUBSET Submission
  /\ \A w \in writing :
       /\ w.row \in DOMAIN rows
       /\ catalogue # "metric" /\ approved[w.row] # None => w.content \in approved[w.row].contents
\* The row says something of the set, and so will every update of it that is under way.
SaysOf(i, set) == rows[i].content \in set /\ \A w \in writing : w.row = i => w.content \in set
RecipeStands(u) ==
  /\ u.state # "retired" /\ u.ref # None => u.ref \in DOMAIN rows /\ rows[u.ref].state # "gone"
  /\ u.state = "draft" => u.made = {}
  /\ u.state # "draft" => u.made \subseteq u.seen
  /\ u.state = "released" => u.ref # None /\ rows[u.ref].state # "draft" /\ SaysOf(u.ref, u.seen)
AdapterStands(u) ==
  u.template # None =>
    /\ u.template \in DOMAIN rows /\ rows[u.template].state # "gone" /\ approved[u.template] # None
    /\ \E c \in approved[u.template].contents : u.config = <<c, u.connection>>
ValueStands(u) == u # None => u.ref \in DOMAIN rows /\ SaysOf(u.ref, u.contents)
UsersStand ==
  /\ catalogue = "method" => \A u \in User : RecipeStands(users[u])
  /\ catalogue = "template" => \A u \in User : AdapterStands(users[u])
  /\ catalogue = "metric" => \A u \in User : ValueStands(users[u])
CatalogueInv ==
  /\ catalogue \in {"method", "template", "layout", "metric"}
  /\ RowsTyped /\ UsersTyped /\ OneReleasedRow /\ RowsApproved /\ WritesKnown /\ UsersStand

(* The invariant of the definitions holds at the start.                     *)
LEMMA CatalogueStart == ASSUME Catalogue!DefinitionInit PROVE CatalogueInv
<1>1. /\ catalogue \in {"method", "template", "layout", "metric"}
      /\ rows = <<>> /\ approved = <<>> /\ writing = {}
      /\ users = [u \in User |-> Catalogue!NewUser]
  BY DEF Catalogue!DefinitionInit
<1>2. RowsTyped
  <2>1. \A i \in DOMAIN rows : rows[i].version <= 0
    BY <1>1
  <2>2. QED
    BY <1>1, <2>1 DEF RowsTyped
<1>3. OneReleasedRow /\ RowsApproved /\ WritesKnown
  BY <1>1 DEF OneReleasedRow, RowsApproved, WritesKnown
<1>4. \A u \in User : users[u] = Catalogue!NewUser
  BY <1>1
<1>5. ASSUME catalogue = "method" PROVE users \in [User -> RecipeUser] /\ \A u \in User : RecipeStands(users[u])
  <2>1. Catalogue!NewUser = [state |-> "draft", ref |-> None, seen |-> {}, made |-> {}]
    BY <1>5 DEF Catalogue!NewUser
  <2>2. Catalogue!NewUser \in RecipeUser /\ RecipeStands(Catalogue!NewUser)
    BY <2>1 DEF RecipeUser, RecipeStands
  <2>3. QED
    BY <1>1, <1>4, <2>2
<1>6. ASSUME catalogue = "template" PROVE users \in [User -> AdapterUser] /\ \A u \in User : AdapterStands(users[u])
  <2> DEFINE place == CHOOSE d \in Connection : TRUE
  <2>1. Catalogue!NewUser = [template |-> None, connection |-> place, config |-> None]
    BY <1>6 DEF Catalogue!NewUser
  <2>2. place \in Connection
    BY AdaptersAreReached
  <2> HIDE DEF place
  <2>3. Catalogue!NewUser \in AdapterUser /\ AdapterStands(Catalogue!NewUser)
    BY <2>1, <2>2 DEF AdapterUser, AdapterStands
  <2>4. QED
    BY <1>1, <1>4, <2>3
<1>7. ASSUME catalogue = "metric" PROVE users \in [User -> ValueUser \cup {None}] /\ \A u \in User : ValueStands(users[u])
  <2>1. Catalogue!NewUser = None
    BY <1>7 DEF Catalogue!NewUser
  <2>2. QED
    BY <1>1, <1>4, <2>1 DEF ValueStands
<1>8. QED
  BY <1>1, <1>2, <1>3, <1>5, <1>6, <1>7 DEF CatalogueInv, UsersTyped, UsersStand

(* What a row says and will come to say.                                     *)
LEMMA SayingsKnown ==
  ASSUME CatalogueInv, NEW i \in DOMAIN rows
  PROVE  SaysOf(i, Catalogue!Sayings(i)) /\ Catalogue!Sayings(i) \in SUBSET Wording
<1>1. rows[i] \in DefRow /\ writing \in SUBSET Submission
  BY DEF CatalogueInv, RowsTyped, WritesKnown
<1>2. rows[i].content \in Wording /\ \A w \in writing : w.content \in Wording
  BY <1>1 DEF DefRow, Submission
<1>3. QED
  BY <1>2 DEF SaysOf, Catalogue!Sayings

(* What refers to a row still stands after a step on the rows: they say what *)
(* they said or what was being written, only drafts and metrics without a   *)
(* value begin to be changed, and none that is referred to is deleted.      *)
LEMMA UsersGoOn ==
  ASSUME CatalogueInv, UNCHANGED <<catalogue, users>>,
         \A n \in DOMAIN rows :
           /\ n \in DOMAIN rows'
           /\ approved[n] # None => approved'[n] = approved[n]
           /\ rows[n].state \notin {"draft", "gone"} /\ catalogue # "metric" =>
                rows'[n].state \notin {"draft", "gone"}
           /\ rows'[n].content = rows[n].content \/ \E w \in writing : w.row = n /\ w.content = rows'[n].content
           /\ catalogue = "method" /\ rows[n].state # "gone" /\ rows'[n].state = "gone" =>
                Catalogue!MethodUsers(n) = {},
         \A w \in writing' :
           \/ w \in writing
           \/ catalogue = "metric" /\ Catalogue!ValuesOf(w.row) = {}
           \/ catalogue # "metric" /\ rows[w.row].state = "draft"
  PROVE  UsersTyped' /\ UsersStand'
<1>1. UsersTyped'
  BY DEF CatalogueInv, UsersTyped
<1>2. ASSUME catalogue = "method", NEW u \in User PROVE RecipeStands(users[u])'
  <2>1. RecipeStands(users[u])
    BY <1>2 DEF CatalogueInv, UsersStand
  <2>2. users[u].state # "retired" /\ users[u].ref # None =>
          users[u].ref \in DOMAIN rows' /\ rows'[users[u].ref].state # "gone"
    <3>1. SUFFICES ASSUME users[u].state # "retired", users[u].ref # None
                   PROVE  users[u].ref \in DOMAIN rows' /\ rows'[users[u].ref].state # "gone"
      OBVIOUS
    <3>2. users[u].ref \in DOMAIN rows /\ rows[users[u].ref].state # "gone"
      BY <2>1, <3>1 DEF RecipeStands
    <3>3. u \in Catalogue!MethodUsers(users[u].ref)
      BY <3>1 DEF Catalogue!MethodUsers
    <3>4. QED
      BY <1>2, <3>2, <3>3
  <2>3. ASSUME users[u].state = "released"
        PROVE  /\ users[u].ref # None /\ rows'[users[u].ref].state # "draft"
               /\ SaysOf(users[u].ref, users[u].seen)'
    <3> DEFINE n == users[u].ref
    <3>1. n # None /\ n \in DOMAIN rows /\ rows[n].state \notin {"draft", "gone"} /\ SaysOf(n, users[u].seen)
      BY <2>1, <2>3 DEF RecipeStands
    <3>2. rows'[n].state # "draft" /\ rows'[n].content \in users[u].seen
      BY <1>2, <3>1 DEF SaysOf
    <3>3. \A w \in writing' : w.row = n => w \in writing
      BY <1>2, <3>1
    <3>4. QED
      BY <3>1, <3>2, <3>3 DEF SaysOf
  <2>4. QED
    BY <2>1, <2>2, <2>3 DEF RecipeStands
<1>3. ASSUME catalogue = "template", NEW u \in User PROVE AdapterStands(users[u])'
  <2>1. AdapterStands(users[u]) /\ RowsApproved
    BY <1>3 DEF CatalogueInv, UsersStand
  <2>2. QED
    BY <1>3, <2>1 DEF AdapterStands, RowsApproved, AsApproved
<1>4. ASSUME catalogue = "metric", NEW u \in User PROVE ValueStands(users[u])'
  <2>1. SUFFICES ASSUME users[u] # None
                 PROVE  users[u].ref \in DOMAIN rows' /\ SaysOf(users[u].ref, users[u].contents)'
    BY DEF ValueStands
  <2>2. users[u].ref \in DOMAIN rows /\ SaysOf(users[u].ref, users[u].contents)
    BY <1>4, <2>1 DEF CatalogueInv, UsersStand, ValueStands
  <2>3. u \in Catalogue!ValuesOf(users[u].ref)
    BY <2>1 DEF Catalogue!ValuesOf
  <2>4. \A w \in writing' : w.row = users[u].ref => w \in writing
    BY <1>4, <2>3
  <2>5. QED
    BY <2>2, <2>4 DEF SaysOf
<1>5. QED
  BY <1>1, <1>2, <1>3, <1>4 DEF UsersStand

(* The newest version is a number, and what comes after it is too.          *)
LEMMA NewestIsNumber ==
  ASSUME RowsTyped
  PROVE  Catalogue!NewestVersion \in Nat
<1> DEFINE versions == {rows[i].version : i \in Catalogue!Kept}
<1>1. CASE Catalogue!Kept = {}
  BY <1>1 DEF Catalogue!NewestVersion
<1>2. CASE Catalogue!Kept # {}
  <2>1. PICK n \in Nat : \A i \in DOMAIN rows : rows[i].version <= n
    BY DEF RowsTyped
  <2>2. \A i \in Catalogue!Kept : i \in DOMAIN rows /\ rows[i] \in DefRow
    BY DEF RowsTyped, Catalogue!Kept
  <2>3. \A i \in Catalogue!Kept : rows[i].version \in 0..n
    BY <2>1, <2>2 DEF DefRow
  <2>4. versions \in SUBSET (0..n) /\ versions # {}
    BY <1>2, <2>3
  <2>5. PICK v \in versions : \A w \in versions : w <= v
    BY <2>1, <2>4, GreatestOne
  <2>6. \A i \in Catalogue!Kept : rows[i].version <= v
    BY <2>5
  <2>7. Catalogue!NewestVersion \in versions
    BY <1>2, <2>6, Zenon DEF Catalogue!NewestVersion
  <2>8. QED
    BY <2>4, <2>7
<1>3. QED
  BY <1>1, <1>2

(* A row that is added is a draft, or a metric, and nobody approved it yet. *)
LEMMA RowAdded ==
  ASSUME CatalogueInv, NEW new \in DefRow, Catalogue!Added(new), Catalogue!Untouched,
         new.state = "draft" \/ (new.state = "active" /\ catalogue = "metric")
  PROVE  CatalogueInv'
<1>1. /\ rows' = Append(rows, new) /\ approved' = Append(approved, None)
      /\ UNCHANGED <<catalogue, users, writing>>
  BY DEF Catalogue!Added, Catalogue!Untouched
<1>2. rows \in Seq(DefRow) /\ approved \in Seq(Approvals \cup {None}) /\ Len(approved) = Len(rows)
  BY DEF CatalogueInv, RowsTyped
<1>3. /\ rows' \in Seq(DefRow) /\ approved' \in Seq(Approvals \cup {None}) /\ Len(approved') = Len(rows')
      /\ \A n \in DOMAIN rows : n \in DOMAIN rows' /\ rows'[n] = rows[n] /\ approved'[n] = approved[n]
      /\ \A n \in DOMAIN rows' : n \in DOMAIN rows \/ (rows'[n] = new /\ approved'[n] = None)
  BY <1>1, <1>2
<1>4. RowsTyped'
  <2>1. PICK v \in Nat : \A i \in DOMAIN rows : rows[i].version <= v
    BY DEF CatalogueInv, RowsTyped
  <2>2. new.version \in Nat /\ \A i \in DOMAIN rows : rows[i].version \in Nat
    <3>1. \A i \in DOMAIN rows : rows[i] \in DefRow
      BY <1>2
    <3>2. QED
      BY <3>1 DEF DefRow
  <2>3. \E w \in Nat : \A i \in DOMAIN rows' : rows'[i].version <= w
    <3>1. \A i \in DOMAIN rows' : rows'[i].version <= v + new.version
      BY <1>3, <2>1, <2>2
    <3>2. v + new.version \in Nat
      BY <2>1, <2>2
    <3>3. QED
      BY <3>1, <3>2
  <2>4. QED
    BY <1>3, <2>3 DEF RowsTyped
<1>5. OneReleasedRow'
  BY <1>3 DEF CatalogueInv, OneReleasedRow
<1>6. RowsApproved'
  BY <1>1, <1>3 DEF CatalogueInv, RowsApproved, AsApproved
<1>7. WritesKnown'
  BY <1>1, <1>3 DEF CatalogueInv, WritesKnown
<1>8. UsersTyped' /\ UsersStand'
  BY <1>1, <1>3, UsersGoOn
<1>9. QED
  BY <1>1, <1>4, <1>5, <1>6, <1>7, <1>8 DEF CatalogueInv

(* One row is put in the place of another.                                  *)
LEMMA RowPut ==
  ASSUME RowsTyped, NEW i \in DOMAIN rows, NEW new \in DefRow, new.version = rows[i].version,
         rows' = [n \in DOMAIN rows |-> IF n = i THEN new ELSE rows[n]], Len(approved') = Len(approved),
         approved' \in Seq(Approvals \cup {None})
  PROVE  /\ RowsTyped' /\ DOMAIN rows' = DOMAIN rows /\ rows'[i] = new
         /\ \A n \in DOMAIN rows : n # i => rows'[n] = rows[n]
<1>1. rows \in Seq(DefRow) /\ Len(approved) = Len(rows)
  BY DEF RowsTyped
<1>2. rows' \in Seq(DefRow) /\ DOMAIN rows' = DOMAIN rows /\ Len(rows') = Len(rows)
  BY <1>1
<1>3. rows'[i] = new /\ \A n \in DOMAIN rows : n # i => rows'[n] = rows[n]
  OBVIOUS
<1>4. PICK v \in Nat : \A n \in DOMAIN rows : rows[n].version <= v
  BY DEF RowsTyped
<1>5. \A n \in DOMAIN rows' : rows'[n].version <= v
  BY <1>2, <1>3, <1>4
<1>6. RowsTyped'
  BY <1>1, <1>2, <1>4, <1>5 DEF RowsTyped
<1>7. QED
  BY <1>2, <1>3, <1>6

(* An update of a draft, or of a metric without a value, is under way.      *)
LEMMA UpdateSubmitted ==
  ASSUME CatalogueInv, NEW i \in DOMAIN rows, NEW c \in Wording, NEW p \in Writer, NEW n \in Nat,
         Catalogue!Submit(i, c, p, n),
         \/ catalogue = "metric" /\ Catalogue!ValuesOf(i) = {}
         \/ catalogue # "metric" /\ rows[i].state = "draft"
  PROVE  CatalogueInv'
<1> DEFINE new == [row |-> i, content |-> c, by |-> p, hands |-> rows[i].editors, rv |-> n]
<1>1. writing' = writing \cup {new} /\ UNCHANGED <<catalogue, rows, users, approved>>
  BY DEF Catalogue!Submit
<1>2. rows[i] \in DefRow /\ i \in Nat
  BY DEF CatalogueInv, RowsTyped
<1>3. new \in Submission /\ new.row = i
  BY <1>2 DEF Submission, DefRow
<1> HIDE DEF new
<1>4. catalogue # "metric" => approved[i] = None
  BY DEF CatalogueInv, RowsApproved, AsApproved
<1>5. WritesKnown'
  BY <1>1, <1>3, <1>4 DEF CatalogueInv, WritesKnown
<1>6. RowsTyped' /\ OneReleasedRow' /\ RowsApproved'
  BY <1>1 DEF CatalogueInv, RowsTyped, OneReleasedRow, RowsApproved, AsApproved
<1>7. UsersTyped' /\ UsersStand'
  BY <1>1, <1>3, UsersGoOn
<1>8. QED
  BY <1>1, <1>5, <1>6, <1>7 DEF CatalogueInv

(* An update is committed, whatever became of the row.                      *)
LEMMA WriteCommitted ==
  ASSUME CatalogueInv, NEW w \in writing, Catalogue!Commit(w)
  PROVE  CatalogueInv'
<1> DEFINE i == w.row
           new == Catalogue!Written(w)
<1>1. writing' = writing \ {w} /\ UNCHANGED <<catalogue, users, approved>>
  BY DEF Catalogue!Commit
<1>2. /\ i \in DOMAIN rows /\ w \in Submission /\ rows[i] \in DefRow
      /\ catalogue # "metric" /\ approved[i] # None => w.content \in approved[i].contents
  BY DEF CatalogueInv, RowsTyped, WritesKnown
<1>3. /\ new \in DefRow /\ new.state = rows[i].state /\ new.version = rows[i].version
      /\ new.by = rows[i].by /\ new.content = w.content
  BY <1>2 DEF Catalogue!Written, DefRow, Submission
<1>4. RowsTyped /\ approved \in Seq(Approvals \cup {None})
  BY DEF CatalogueInv, RowsTyped
<1>5. \/ rows' = rows
      \/ rows' = [n \in DOMAIN rows |-> IF n = i THEN new ELSE rows[n]]
  BY Zenon DEF Catalogue!Commit
<1> HIDE DEF new
<1>6. /\ RowsTyped' /\ DOMAIN rows' = DOMAIN rows
      /\ \A n \in DOMAIN rows : rows'[n] = rows[n] \/ (n = i /\ rows'[n] = new)
  <2>1. CASE rows' = rows
    BY <1>1, <1>4, <2>1 DEF RowsTyped
  <2>2. CASE rows' = [n \in DOMAIN rows |-> IF n = i THEN new ELSE rows[n]]
    BY <1>1, <1>2, <1>3, <1>4, <2>2, RowPut
  <2>3. QED
    BY <1>5, <2>1, <2>2
<1>7. \A n \in DOMAIN rows : /\ rows'[n].state = rows[n].state /\ rows'[n].by = rows[n].by
                             /\ rows'[n].content = rows[n].content \/ (n = i /\ rows'[n].content = w.content)
  BY <1>3, <1>6
<1>8. OneReleasedRow'
  BY <1>6, <1>7 DEF CatalogueInv, OneReleasedRow
<1>9. RowsApproved'
  BY <1>1, <1>2, <1>6, <1>7 DEF CatalogueInv, RowsApproved, AsApproved
<1>10. WritesKnown'
  BY <1>1, <1>6 DEF CatalogueInv, WritesKnown
<1>11. UsersTyped' /\ UsersStand'
  BY <1>1, <1>6, <1>7, UsersGoOn
<1>12. QED
  BY <1>1, <1>6, <1>8, <1>9, <1>10, <1>11 DEF CatalogueInv

(* A row is taken out of force, or a draft out of the catalogue.            *)
LEMMA RowEnded ==
  ASSUME CatalogueInv, NEW i \in DOMAIN rows, NEW new \in DefRow, rows[i].state # "gone",
         \/ new.state = "retired"
         \/ /\ rows[i].state = "draft" /\ new.state = "gone"
            /\ catalogue = "method" => Catalogue!MethodUsers(i) = {},
         new.version = rows[i].version,
         new.content = rows[i].content, new.by = rows[i].by,
         rows' = [n \in DOMAIN rows |-> IF n = i THEN new ELSE rows[n]],
         UNCHANGED <<catalogue, users, writing, approved>>
  PROVE  CatalogueInv'
<1>1. /\ RowsTyped' /\ DOMAIN rows' = DOMAIN rows /\ rows'[i] = new
      /\ \A n \in DOMAIN rows : n # i => rows'[n] = rows[n]
  <2>1. RowsTyped /\ approved \in Seq(Approvals \cup {None})
    BY DEF CatalogueInv, RowsTyped
  <2>2. QED
    BY <2>1, RowPut
<1>2. catalogue # "metric" /\ rows[i].state = "draft" => approved[i] = None
  BY DEF CatalogueInv, RowsApproved, AsApproved
<1>3. OneReleasedRow'
  BY <1>1 DEF CatalogueInv, OneReleasedRow
<1>4. RowsApproved'
  BY <1>1, <1>2 DEF CatalogueInv, RowsApproved, AsApproved
<1>5. WritesKnown'
  BY <1>1 DEF CatalogueInv, WritesKnown
<1>6. UsersTyped' /\ UsersStand'
  BY <1>1, UsersGoOn
<1>7. QED
  BY <1>1, <1>3, <1>4, <1>5, <1>6 DEF CatalogueInv

(* A draft is released by somebody who may, and takes the place of the      *)
(* version that was in force.                                               *)
LEMMA RowReleased ==
  ASSUME CatalogueInv, NEW i \in DOMAIN rows, NEW a \in Approvals, rows[i].state = "draft",
         catalogue # "metric", rows' = Catalogue!Released(i), approved' = [approved EXCEPT ![i] = a],
         SaysOf(i, a.contents), a.by # rows[i].by \/ a.by \in SelfApprovers,
         catalogue = "template" => a.by \notin a.hands \/ a.by \in SelfApprovers,
         UNCHANGED <<catalogue, users, writing>>
  PROVE  CatalogueInv'
<1> DEFINE up(n) == rows[n].rv + 1
           first == [rows[i] EXCEPT !.state = "released", !.rv = up(i)]
           last(n) == [rows[n] EXCEPT !.state = "retired", !.rv = up(n)]
<1>0. /\ rows \in Seq(DefRow) /\ approved \in Seq(Approvals \cup {None}) /\ Len(approved) = Len(rows)
      /\ \A n \in DOMAIN rows : rows[n] \in DefRow
  BY DEF CatalogueInv, RowsTyped
<1>1. rows' = [n \in DOMAIN rows |-> IF n = i THEN first
                                     ELSE IF rows[n].state = "released" THEN last(n) ELSE rows[n]]
  BY Zenon DEF Catalogue!Released
<1>2. \A n \in DOMAIN rows : up(n) \in Nat /\ up(n) > rows[n].rv /\ rows[n].rv \in Nat
  BY <1>0 DEF DefRow
<1> HIDE DEF up
<1>3. /\ first \in DefRow /\ first.state = "released" /\ first.rv > rows[i].rv /\ first.by = rows[i].by
      /\ first.content = rows[i].content /\ first.version = rows[i].version
  BY <1>0, <1>2 DEF DefRow
<1>4. \A n \in DOMAIN rows :
        /\ last(n) \in DefRow /\ last(n).state = "retired" /\ last(n).rv > rows[n].rv
        /\ last(n).by = rows[n].by /\ last(n).content = rows[n].content /\ last(n).version = rows[n].version
  BY <1>0, <1>2 DEF DefRow
<1> HIDE DEF first, last
<1>5. DOMAIN rows' = DOMAIN rows /\ rows'[i] = first
  BY <1>1
<1>6. \A n \in DOMAIN rows : n # i =>
        \/ rows[n].state = "released" /\ rows'[n] = last(n)
        \/ rows[n].state # "released" /\ rows'[n] = rows[n]
  BY <1>1
<1>7. \A n \in DOMAIN rows :
        /\ rows'[n] \in DefRow /\ rows'[n].version = rows[n].version /\ rows'[n].by = rows[n].by
        /\ rows'[n].content = rows[n].content /\ rows'[n].rv >= rows[n].rv /\ rows'[n].rv \in Nat
        /\ n # i => rows'[n].state # "released" /\ (rows'[n].state = rows[n].state \/ rows'[n].state = "retired")
  <2>1. ASSUME NEW n \in DOMAIN rows
        PROVE  /\ rows'[n] \in DefRow /\ rows'[n].version = rows[n].version /\ rows'[n].by = rows[n].by
               /\ rows'[n].content = rows[n].content /\ rows'[n].rv >= rows[n].rv
               /\ n # i => /\ rows'[n].state # "released"
                          /\ (rows'[n].state = rows[n].state \/ rows'[n].state = "retired")
    <3>1. CASE n = i
      <4>1. first.rv \in Nat /\ rows[i].rv \in Nat
        BY <1>2, <1>3 DEF DefRow
      <4>2. QED
        BY <1>3, <1>5, <3>1, <4>1
    <3>2. CASE n # i /\ rows[n].state = "released"
      <4>1. last(n).rv \in Nat /\ rows[n].rv \in Nat
        BY <1>2, <1>4 DEF DefRow
      <4>2. QED
        BY <1>4, <1>6, <3>2, <4>1
    <3>3. CASE n # i /\ rows[n].state # "released"
      BY <1>0, <1>2, <1>6, <3>3
    <3>4. QED
      BY <3>1, <3>2, <3>3
  <2>2. \A n \in DOMAIN rows : rows'[n].rv \in Nat
    BY <2>1 DEF DefRow
  <2>3. QED
    BY <2>1, <2>2
<1>8. /\ approved' \in Seq(Approvals \cup {None}) /\ Len(approved') = Len(approved) /\ approved'[i] = a
      /\ \A n \in DOMAIN rows : n # i => approved'[n] = approved[n]
  BY <1>0
<1>9. RowsTyped'
  <2>1. Len(rows) \in Nat /\ DOMAIN rows = 1..Len(rows)
    BY <1>0
  <2>2. rows' \in [1..Len(rows) -> DefRow]
    BY <1>1, <1>5, <1>7, <2>1
  <2>3. rows' \in Seq(DefRow) /\ Len(rows') = Len(rows)
    BY <2>1, <2>2
  <2>4. PICK v \in Nat : \A n \in DOMAIN rows : rows[n].version <= v
    BY DEF CatalogueInv, RowsTyped
  <2>5. \A n \in DOMAIN rows' : rows'[n].version <= v
    BY <1>5, <1>7, <2>4
  <2>6. QED
    BY <1>0, <1>8, <2>3, <2>4, <2>5 DEF RowsTyped
<1>10. OneReleasedRow'
  BY <1>5, <1>7 DEF OneReleasedRow
<1>11. approved[i] = None
  BY DEF CatalogueInv, RowsApproved, AsApproved
<1>12. RowsApproved'
  <2>1. ASSUME NEW n \in DOMAIN rows
        PROVE  /\ rows'[n].state = "released" => approved'[n] # None
               /\ approved'[n] # None => AsApproved(rows'[n], approved'[n])
    <3>1. CASE n = i
      BY <1>3, <1>5, <1>8, <3>1, NoneIsNothing DEF AsApproved, SaysOf
    <3>2. CASE n # i
      <4>1. approved'[n] = approved[n] /\ rows'[n].state # "released"
        BY <1>7, <1>8, <3>2
      <4>2. approved[n] # None => AsApproved(rows[n], approved[n])
        BY DEF CatalogueInv, RowsApproved
      <4>3. QED
        BY <1>7, <3>2, <4>1, <4>2 DEF AsApproved
    <3>3. QED
      BY <3>1, <3>2
  <2>2. QED
    BY <1>5, <2>1 DEF RowsApproved, AsApproved
<1>13. WritesKnown'
  BY <1>5, <1>8 DEF CatalogueInv, WritesKnown, SaysOf
<1>14. UsersTyped' /\ UsersStand'
  BY <1>3, <1>5, <1>7, <1>8, <1>11, UsersGoOn
<1>15. QED
  BY <1>9, <1>10, <1>12, <1>13, <1>14 DEF CatalogueInv

(* A recipe refers to a method, is released, makes batches and retires.     *)
LEMMA MethodUsed ==
  ASSUME CatalogueInv, catalogue = "method", NEW u \in User, Catalogue!UseMethod(u)
  PROVE  CatalogueInv'
<1> DEFINE content == rows[users[u].ref].content
           refers(i) == [users[u] EXCEPT !.ref = i]
           sayings == Catalogue!Sayings(users[u].ref)
           takes == [users[u] EXCEPT !.state = "released", !.seen = sayings]
           ends == [users[u] EXCEPT !.state = "retired"]
           makes == [users[u] EXCEPT !.made = users[u].made \cup {content}]
<1>0. /\ users \in [User -> RecipeUser] /\ users[u] \in RecipeUser /\ RecipeStands(users[u])
      /\ \A n \in DOMAIN rows : rows[n] \in DefRow
  BY DEF CatalogueInv, UsersTyped, UsersStand, RowsTyped
<1>1. UNCHANGED <<catalogue, rows, writing, approved>>
  BY Zenon DEF Catalogue!UseMethod
<1>2. ASSUME NEW new \in RecipeUser, RecipeStands(new),
             users' = [w \in DOMAIN users |-> IF w = u THEN new ELSE users[w]]
      PROVE  CatalogueInv'
  <2>1. users' \in [User -> RecipeUser] /\ \A w \in User : users'[w] = IF w = u THEN new ELSE users[w]
    BY <1>0, <1>2
  <2>2. \A w \in User : RecipeStands(users'[w])
    BY <1>2, <2>1 DEF CatalogueInv, UsersStand
  <2>3. UsersTyped' /\ UsersStand'
    BY <1>1, <2>1, <2>2 DEF UsersTyped, UsersStand, RecipeStands, SaysOf
  <2>4. RowsTyped' /\ OneReleasedRow' /\ RowsApproved' /\ WritesKnown'
    BY <1>1 DEF CatalogueInv, RowsTyped, OneReleasedRow, RowsApproved, AsApproved, WritesKnown
  <2>5. QED
    BY <1>1, <2>3, <2>4 DEF CatalogueInv
<1>3. CASE users[u].state = "draft" /\ \E i \in Catalogue!Kept : users' = [users EXCEPT ![u].ref = i]
  <2>1. PICK i \in Catalogue!Kept : users' = [w \in DOMAIN users |-> IF w = u THEN refers(i) ELSE users[w]]
    BY <1>3, Zenon
  <2>2. i \in DOMAIN rows /\ rows[i].state # "gone" /\ i \in Nat
    BY <1>0, <2>1 DEF Catalogue!Kept, CatalogueInv, RowsTyped
  <2>3. refers(i) \in RecipeUser
    BY <1>0, <2>2 DEF RecipeUser
  <2>4. RecipeStands(refers(i))
    BY <1>0, <1>3, <2>2 DEF RecipeUser, RecipeStands
  <2> HIDE DEF refers
  <2>5. QED
    BY <1>2, <2>1, <2>3, <2>4
<1>4. CASE /\ users[u].state = "draft" /\ users[u].ref # None /\ ~Catalogue!StepProblems(users[u].ref)
           /\ users' = [users EXCEPT ![u].state = "released", ![u].seen = Catalogue!Sayings(users[u].ref)]
  <2>1. users' = [w \in DOMAIN users |-> IF w = u THEN takes ELSE users[w]]
    BY <1>4, Zenon
  <2>2. users[u].ref \in DOMAIN rows /\ rows[users[u].ref].state = "released" /\ users[u].made = {}
    BY <1>0, <1>4 DEF RecipeStands, Catalogue!StepProblems
  <2>3. sayings \in SUBSET Wording /\ SaysOf(users[u].ref, sayings)
    BY <2>2, SayingsKnown
  <2> HIDE DEF sayings
  <2>4. /\ takes \in RecipeUser /\ takes.state = "released" /\ takes.ref = users[u].ref
        /\ takes.made = {} /\ takes.seen = sayings
    BY <1>0, <2>2, <2>3 DEF RecipeUser
  <2> HIDE DEF takes
  <2>5. RecipeStands(takes)
    BY <1>4, <2>2, <2>3, <2>4 DEF RecipeStands
  <2>6. QED
    BY <1>2, <2>1, <2>4, <2>5
<1>5. CASE users[u].state = "released" /\ users' = [users EXCEPT ![u].state = "retired"]
  <2>1. users' = [w \in DOMAIN users |-> IF w = u THEN ends ELSE users[w]]
    BY <1>5, Zenon
  <2>2. ends \in RecipeUser /\ ends.state = "retired" /\ ends.made = users[u].made /\ ends.seen = users[u].seen
    BY <1>0 DEF RecipeUser
  <2> HIDE DEF ends
  <2>3. RecipeStands(ends)
    BY <1>0, <1>5, <2>2 DEF RecipeStands
  <2>4. QED
    BY <1>2, <2>1, <2>2, <2>3
<1>6. CASE /\ users[u].state = "released" /\ ~Catalogue!StepProblems(users[u].ref)
           /\ users' = [users EXCEPT ![u].made = @ \cup {rows[users[u].ref].content}]
  <2>1. users' = [w \in DOMAIN users |-> IF w = u THEN makes ELSE users[w]]
    BY <1>6, Zenon
  <2>2. /\ users[u].ref \in DOMAIN rows /\ users[u].made \subseteq users[u].seen
        /\ content \in users[u].seen /\ rows[users[u].ref].state # "gone"
    BY <1>0, <1>6 DEF RecipeStands, SaysOf
  <2>3. content \in Wording
    BY <1>0, <2>2 DEF DefRow
  <2>4. users[u].made \cup {content} \subseteq users[u].seen
    BY <2>2
  <2>5. /\ makes \in RecipeUser /\ makes.state = users[u].state /\ makes.ref = users[u].ref
        /\ makes.made = users[u].made \cup {content} /\ makes.seen = users[u].seen
    <3> HIDE DEF content
    <3>1. QED
      BY <1>0, <2>3 DEF RecipeUser
  <2> HIDE DEF makes
  <2>6. RecipeStands(makes)
    BY <1>0, <1>6, <2>4, <2>5 DEF RecipeStands
  <2>7. QED
    BY <1>2, <2>1, <2>5, <2>6
<1>7. QED
  BY <1>3, <1>4, <1>5, <1>6, Zenon DEF Catalogue!UseMethod

(* An adapter takes what a released template says, or says it has none.     *)
LEMMA AdapterConfigured ==
  ASSUME CatalogueInv, catalogue = "template", NEW u \in User,
         NEW change \in Catalogue!AdapterChanges, Catalogue!ConfigureAdapter(u, change)
  PROVE  CatalogueInv'
<1> DEFINE a == users[u]
           named == IF change.template = None THEN a.template ELSE change.template
           place == IF change.connection = None THEN a.connection ELSE change.connection
           kept == [template |-> IF change.config = a.config THEN a.template ELSE None,
                    connection |-> a.connection, config |-> change.config]
           obtained == [template |-> named, connection |-> place,
                     config |-> Catalogue!MergeConfig(rows[named].content, place)]
           new == Catalogue!TemplateChanges(a, change)
<1>0. /\ users \in [User -> AdapterUser] /\ a \in AdapterUser /\ AdapterStands(a)
      /\ \A n \in DOMAIN rows : rows[n] \in DefRow
  BY DEF CatalogueInv, UsersTyped, UsersStand, RowsTyped
<1>1. /\ UNCHANGED <<catalogue, rows, writing, approved>>
      /\ users' = [w \in DOMAIN users |-> IF w = u THEN new ELSE users[w]]
  BY Zenon DEF Catalogue!ConfigureAdapter
<1>2. /\ change.template \in Catalogue!Kept \cup {None} /\ change.connection \in Connection \cup {None}
      /\ change.config \in (Wording \X Connection) \cup {None}
  BY DEF Catalogue!AdapterChanges, Catalogue!MergeConfig
<1>3. \/ new = kept
      \/ new = obtained /\ named # None /\ rows[named].state = "released"
      \/ new = a
  BY DEF Catalogue!TemplateChanges
<1>4. kept \in AdapterUser /\ AdapterStands(kept)
  BY <1>0, <1>2 DEF AdapterUser, AdapterStands
<1>5. ASSUME named # None, rows[named].state = "released" PROVE obtained \in AdapterUser /\ AdapterStands(obtained)
  <2>1. named \in DOMAIN rows /\ named \in Nat
    BY <1>0, <1>2, <1>5 DEF AdapterStands, Catalogue!Kept, CatalogueInv, RowsTyped
  <2>2. place \in Connection
    BY <1>0, <1>2 DEF AdapterUser
  <2>3. rows[named].content \in Wording
    BY <1>0, <2>1 DEF DefRow
  <2>4. approved[named] # None /\ rows[named].content \in approved[named].contents
    BY <1>5, <2>1 DEF CatalogueInv, RowsApproved, AsApproved
  <2> HIDE DEF named, place
  <2>5. QED
    BY <1>5, <2>1, <2>2, <2>3, <2>4 DEF AdapterUser, AdapterStands, Catalogue!MergeConfig
<1>6. new \in AdapterUser /\ AdapterStands(new)
  <2> HIDE DEF kept, obtained, new, named
  <2>1. QED
    BY <1>0, <1>3, <1>4, <1>5
<1> HIDE DEF a, new, kept, obtained, named, place
<1>7. users' \in [User -> AdapterUser] /\ \A w \in User : users'[w] = IF w = u THEN new ELSE users[w]
  BY <1>0, <1>1, <1>6
<1>8. \A w \in User : AdapterStands(users'[w])
  BY <1>6, <1>7 DEF CatalogueInv, UsersStand
<1>9. UsersTyped' /\ UsersStand'
  BY <1>1, <1>7, <1>8 DEF UsersTyped, UsersStand, AdapterStands
<1>10. RowsTyped' /\ OneReleasedRow' /\ RowsApproved' /\ WritesKnown'
  BY <1>1 DEF CatalogueInv, RowsTyped, OneReleasedRow, RowsApproved, AsApproved, WritesKnown
<1>11. QED
  BY <1>1, <1>9, <1>10 DEF CatalogueInv

(* A signature is taken.                                                    *)
LEMMA TemplateSigned ==
  ASSUME CatalogueInv, NEW i, NEW p, Catalogue!SignTemplate(i, p)
  PROVE  CatalogueInv'
<1>1. UNCHANGED <<catalogue, rows, users, writing, approved>>
  BY DEF Catalogue!SignTemplate
<1>2. QED
  BY <1>1 DEF CatalogueInv, RowsTyped, UsersTyped, OneReleasedRow, RowsApproved, AsApproved, WritesKnown, UsersStand,
     RecipeStands, AdapterStands, ValueStands, SaysOf

(* A report is made, or a value recorded, with what the row says.           *)
LEMMA ReferenceMade ==
  ASSUME CatalogueInv, NEW u \in User
  PROVE  /\ catalogue = "layout" /\ Catalogue!MakeReport(u) => CatalogueInv'
         /\ \A i \in Catalogue!Kept : catalogue = "metric" /\ Catalogue!RecordValue(u, i) => CatalogueInv'
<1>1. ASSUME UNCHANGED <<catalogue, rows, writing, approved>>, UsersTyped', UsersStand'
      PROVE  CatalogueInv'
  BY <1>1 DEF CatalogueInv, RowsTyped, OneReleasedRow, RowsApproved, AsApproved, WritesKnown
<1>2. ASSUME catalogue = "layout", Catalogue!MakeReport(u) PROVE CatalogueInv'
  <2>1. UNCHANGED <<catalogue, rows, writing, approved>>
    BY <1>2, Zenon DEF Catalogue!MakeReport
  <2>2. UsersTyped' /\ UsersStand'
    BY <1>2, <2>1 DEF UsersTyped, UsersStand
  <2>3. QED
    BY <1>1, <2>1, <2>2
<1>3. ASSUME catalogue = "metric", NEW i \in Catalogue!Kept, Catalogue!RecordValue(u, i) PROVE CatalogueInv'
  <2> DEFINE new == [ref |-> i, contents |-> Catalogue!Sayings(i)]
  <2>1. /\ users' = [users EXCEPT ![u] = new]
        /\ UNCHANGED <<catalogue, rows, writing, approved>>
    BY <1>3, Zenon DEF Catalogue!RecordValue
  <2>2. i \in DOMAIN rows /\ i \in Nat /\ rows[i] \in DefRow
    BY DEF Catalogue!Kept, CatalogueInv, RowsTyped
  <2>3. new \in ValueUser /\ new.ref = i /\ SaysOf(i, new.contents)
    <3>1. SaysOf(i, Catalogue!Sayings(i)) /\ Catalogue!Sayings(i) \in SUBSET Wording
      BY <2>2, SayingsKnown
    <3>2. QED
      BY <2>2, <3>1 DEF ValueUser
  <2> HIDE DEF new
  <2>4. /\ users' \in [User -> ValueUser \cup {None}]
        /\ \A w \in User : users'[w] = IF w = u THEN new ELSE users[w]
    BY <1>3, <2>1, <2>3 DEF CatalogueInv, UsersTyped
  <2>5. UsersTyped'
    BY <1>3, <2>1, <2>4 DEF UsersTyped
  <2>6. UsersStand'
    BY <1>3, <2>1, <2>2, <2>3, <2>4 DEF CatalogueInv, UsersStand, ValueStands, SaysOf
  <2>7. QED
    BY <1>1, <2>1, <2>5, <2>6
<1>4. QED
  BY <1>2, <1>3

(* A metric is retired.                                                     *)
LEMMA MetricRetired ==
  ASSUME CatalogueInv, NEW i \in DOMAIN rows, rows[i].state # "gone", Catalogue!RetireMetric(i)
  PROVE  CatalogueInv'
<1> DEFINE new == [rows[i] EXCEPT !.state = "retired"]
<1>1. /\ rows' = [n \in DOMAIN rows |-> IF n = i THEN new ELSE rows[n]]
      /\ UNCHANGED <<catalogue, users, writing, approved>>
  BY Zenon DEF Catalogue!RetireMetric, Catalogue!Untouched
<1>2. rows[i] \in DefRow
  BY DEF CatalogueInv, RowsTyped
<1>3. /\ new \in DefRow /\ new.version = rows[i].version /\ new.state = "retired"
      /\ new.content = rows[i].content /\ new.by = rows[i].by
  BY <1>2 DEF DefRow
<1> HIDE DEF new
<1>4. QED
  BY <1>1, <1>3, RowEnded

(* A draft that is made is a row like any other.                            *)
LEMMA DraftAdded ==
  ASSUME CatalogueInv, NEW p \in Writer, NEW c \in Wording, NEW v \in Nat,
         Catalogue!Added(Catalogue!Draft(p, c, v)), Catalogue!Untouched
  PROVE  CatalogueInv'
<1>1. Catalogue!Draft(p, c, v) \in DefRow /\ Catalogue!Draft(p, c, v).state = "draft"
  BY DEF Catalogue!Draft, DefRow
<1>2. QED
  BY <1>1, RowAdded

(* A revision starts from what a row says.                                  *)
LEMMA RevisionAdded ==
  ASSUME CatalogueInv, NEW p \in Writer, NEW c \in Wording,
         Catalogue!Added(Catalogue!Draft(p, c, Catalogue!NewestVersion + 1)), Catalogue!Untouched
  PROVE  CatalogueInv'
<1>1. Catalogue!NewestVersion + 1 \in Nat
  BY NewestIsNumber DEF CatalogueInv
<1>2. QED
  BY <1>1, DraftAdded

(* The updates of drafts.                                                   *)
LEMMA DraftEdited ==
  ASSUME CatalogueInv, catalogue # "metric", NEW i \in Catalogue!Kept, NEW c \in Wording, NEW p \in Writer,
         rows[i].state = "draft", Catalogue!Submit(i, c, p, rows[i].rv + 1)
  PROVE  CatalogueInv'
<1>1. i \in DOMAIN rows /\ rows[i] \in DefRow
  BY DEF Catalogue!Kept, CatalogueInv, RowsTyped
<1>2. rows[i].rv + 1 \in Nat
  BY <1>1 DEF DefRow
<1>3. QED
  BY <1>1, <1>2, UpdateSubmitted

(* The ways a row is taken out of force, or a draft is deleted.             *)
LEMMA RowTakenOut ==
  ASSUME CatalogueInv, NEW i \in DOMAIN rows, rows[i].state # "gone",
         UNCHANGED <<catalogue, users, writing, approved>>,
         \/ rows' = Catalogue!Retired(i)
         \/ /\ rows[i].state = "draft" /\ rows' = Catalogue!Deleted(i)
            /\ catalogue = "method" => Catalogue!MethodUsers(i) = {}
  PROVE  CatalogueInv'
<1> DEFINE up == rows[i].rv + 1
           last == [rows[i] EXCEPT !.state = "retired", !.rv = up]
           none == [rows[i] EXCEPT !.state = "gone"]
<1>1. rows[i] \in DefRow
  BY DEF CatalogueInv, RowsTyped
<1>2. up \in Nat
  BY <1>1 DEF DefRow
<1>3. \/ rows' = [n \in DOMAIN rows |-> IF n = i THEN last ELSE rows[n]]
      \/ /\ rows' = [n \in DOMAIN rows |-> IF n = i THEN none ELSE rows[n]]
         /\ rows[i].state = "draft" /\ (catalogue = "method" => Catalogue!MethodUsers(i) = {})
  BY Zenon DEF Catalogue!Retired, Catalogue!Deleted
<1> HIDE DEF up
<1>4. /\ last \in DefRow /\ last.state = "retired" /\ last.version = rows[i].version
      /\ last.content = rows[i].content /\ last.by = rows[i].by
  BY <1>1, <1>2 DEF DefRow
<1>5. /\ none \in DefRow /\ none.state = "gone" /\ none.version = rows[i].version
      /\ none.content = rows[i].content /\ none.by = rows[i].by
  BY <1>1, <1>2 DEF DefRow
<1> HIDE DEF last, none
<1>6. QED
  BY <1>3, <1>4, <1>5, RowEnded

(* Methods and report templates are released by their approval.             *)
LEMMA DraftReleased ==
  ASSUME CatalogueInv, catalogue \in {"method", "layout"}, NEW i \in DOMAIN rows, NEW p \in Writer,
         rows[i].state = "draft", rows[i].by = p => p \in SelfApprovers,
         rows' = Catalogue!Released(i), Catalogue!Approve(i, p), Catalogue!Untouched
  PROVE  CatalogueInv'
<1> DEFINE a == [by |-> p, contents |-> Catalogue!Sayings(i), hands |-> rows[i].editors]
<1>1. rows[i] \in DefRow
  BY DEF CatalogueInv, RowsTyped
<1>2. a \in Approvals
  BY <1>1, SayingsKnown DEF Approvals, DefRow
<1>3. approved' = [approved EXCEPT ![i] = a] /\ UNCHANGED <<catalogue, users, writing>>
  BY DEF Catalogue!Approve, Catalogue!Untouched
<1>4. SaysOf(i, a.contents) /\ a.by = p
  BY SayingsKnown
<1> HIDE DEF a
<1>5. QED
  BY <1>2, <1>3, <1>4, RowReleased

(* A template is released by somebody who is not recorded as its author.    *)
LEMMA TemplateReleased ==
  ASSUME CatalogueInv, catalogue = "template", NEW i \in DOMAIN rows, NEW p \in Writer, NEW seen,
         Catalogue!ReleaseTemplate(i, seen, p)
  PROVE  CatalogueInv'
<1> DEFINE a == [by |-> p, contents |-> Catalogue!Sayings(i), hands |-> rows[i].editors]
<1>1. /\ rows[i].state = "draft" /\ (p \in Catalogue!Authors(i) => p \in SelfApprovers)
      /\ rows' = Catalogue!Released(i) /\ UNCHANGED <<catalogue, users, writing>>
      /\ approved' = [approved EXCEPT ![i] = a]
  BY Zenon DEF Catalogue!ReleaseTemplate, Catalogue!Approve
<1>2. rows[i] \in DefRow
  BY DEF CatalogueInv, RowsTyped
<1>3. /\ a \in Approvals /\ a.by = p /\ SaysOf(i, a.contents) /\ a.hands = rows[i].editors
  BY <1>2, SayingsKnown DEF Approvals, DefRow
<1> HIDE DEF a
<1>4. (a.by # rows[i].by \/ a.by \in SelfApprovers) /\ (a.by \notin a.hands \/ a.by \in SelfApprovers)
  BY <1>1, <1>3 DEF Catalogue!Authors
<1>5. QED
  BY <1>1, <1>3, <1>4, RowReleased

(* Every step of the methods keeps the invariant of the definitions.        *)
LEMMA MethodStep == ASSUME CatalogueInv, Catalogue!MethodNext PROVE CatalogueInv'
<1>0. catalogue = "method" /\ \A n \in DOMAIN rows : rows[n] \in DefRow
  BY DEF Catalogue!MethodNext, CatalogueInv, RowsTyped
<1>1. ASSUME NEW p \in Writer, NEW c \in Wording, Catalogue!CreateMethod(p, c) PROVE CatalogueInv'
  BY <1>1, DraftAdded DEF Catalogue!CreateMethod
<1>2. ASSUME NEW i \in Catalogue!Kept, NEW seen, NEW c \in Wording, Catalogue!UpdateMethod(i, seen, c)
      PROVE  CatalogueInv'
  <2>1. rows[i].state = "draft" /\ Catalogue!Submit(i, c, rows[i].by, rows[i].rv + 1) /\ i \in DOMAIN rows
    BY <1>2, Zenon DEF Catalogue!UpdateMethod, Catalogue!MayEdit, Catalogue!Kept
  <2>2. rows[i].by \in Writer
    BY <1>0, <2>1 DEF DefRow
  <2>3. QED
    BY <1>0, <2>1, <2>2, DraftEdited
<1>3. ASSUME NEW i \in Catalogue!Kept, NEW p \in Writer, NEW seen, Catalogue!ReleaseMethod(i, seen, p)
      PROVE  CatalogueInv'
  BY <1>0, <1>3, DraftReleased DEF Catalogue!ReleaseMethod, Catalogue!Kept
<1>4. ASSUME NEW i \in Catalogue!Kept, NEW p \in Writer, Catalogue!ReviseMethod(i, p) PROVE CatalogueInv'
  <2>1. rows[i].content \in Wording
    BY <1>0 DEF DefRow, Catalogue!Kept
  <2>2. QED
    BY <1>4, <2>1, RevisionAdded DEF Catalogue!ReviseMethod
<1>5. ASSUME NEW i \in Catalogue!Kept, NEW seen, Catalogue!RetireMethod(i, seen) PROVE CatalogueInv'
  BY <1>5, RowTakenOut DEF Catalogue!RetireMethod, Catalogue!Kept, Catalogue!Untouched
<1>6. ASSUME NEW i \in Catalogue!Kept, Catalogue!DeleteMethod(i) PROVE CatalogueInv'
  BY <1>6, RowTakenOut DEF Catalogue!DeleteMethod, Catalogue!Kept, Catalogue!Untouched
<1>7. ASSUME NEW u \in User, Catalogue!UseMethod(u) PROVE CatalogueInv'
  BY <1>0, <1>7, MethodUsed
<1>8. QED
  BY <1>1, <1>2, <1>3, <1>4, <1>5, <1>6, <1>7, Zenon DEF Catalogue!MethodNext

(* Every step of the templates keeps the invariant of the definitions.      *)
LEMMA TemplateStep == ASSUME CatalogueInv, Catalogue!TemplateNext PROVE CatalogueInv'
<1>0. catalogue = "template" /\ \A n \in DOMAIN rows : rows[n] \in DefRow
  BY DEF Catalogue!TemplateNext, CatalogueInv, RowsTyped
<1>1. ASSUME NEW p \in Writer, NEW c \in Wording,
             Catalogue!CreateTemplate(p, c) \/ Catalogue!ImportTemplate(p, c)
      PROVE  CatalogueInv'
  BY <1>1, DraftAdded, RevisionAdded DEF Catalogue!CreateTemplate, Catalogue!ImportTemplate
<1>2. ASSUME NEW i \in Catalogue!Kept, NEW seen, NEW c \in Wording, NEW p \in Writer,
             Catalogue!UpdateTemplate(i, seen, c, p)
      PROVE  CatalogueInv'
  <2>1. rows[i].state = "draft" /\ Catalogue!Submit(i, c, p, rows[i].rv + 1)
    BY <1>2, Zenon DEF Catalogue!UpdateTemplate, Catalogue!MayEdit, Catalogue!Kept
  <2>2. QED
    BY <1>0, <2>1, DraftEdited
<1>3. ASSUME NEW i \in Catalogue!Kept, NEW p \in Writer, NEW seen, Catalogue!ReleaseTemplate(i, seen, p)
      PROVE  CatalogueInv'
  BY <1>0, <1>3, TemplateReleased DEF Catalogue!Kept
<1>4. ASSUME NEW i \in Catalogue!Kept, NEW p \in Writer,
             Catalogue!ReviseTemplate(i, p)
      PROVE  CatalogueInv'
  <2>1. rows[i].content \in Wording
    BY <1>0 DEF DefRow, Catalogue!Kept
  <2>2. QED
    BY <1>4, <2>1, RevisionAdded DEF Catalogue!ReviseTemplate, Catalogue!Kept
<1>5. ASSUME NEW i \in Catalogue!Kept, NEW seen, Catalogue!RetireTemplate(i, seen) PROVE CatalogueInv'
  BY <1>5, RowTakenOut DEF Catalogue!RetireTemplate, Catalogue!Kept, Catalogue!Untouched
<1>6. ASSUME NEW i \in Catalogue!Kept, Catalogue!DeleteTemplate(i) PROVE CatalogueInv'
  BY <1>0, <1>6, RowTakenOut DEF Catalogue!DeleteTemplate, Catalogue!Kept, Catalogue!Untouched
<1>7. ASSUME NEW u \in User, NEW change \in Catalogue!AdapterChanges, Catalogue!ConfigureAdapter(u, change)
      PROVE  CatalogueInv'
  BY <1>0, <1>7, AdapterConfigured
<1>8. QED
  BY <1>1, <1>2, <1>3, <1>4, <1>5, <1>6, <1>7, TemplateSigned, Zenon DEF Catalogue!TemplateNext

(* Every step of the report templates keeps the invariant.                  *)
LEMMA LayoutStep == ASSUME CatalogueInv, Catalogue!LayoutNext PROVE CatalogueInv'
<1>0. catalogue = "layout" /\ \A n \in DOMAIN rows : rows[n] \in DefRow
  BY DEF Catalogue!LayoutNext, CatalogueInv, RowsTyped
<1>1. ASSUME NEW p \in Writer, NEW c \in Wording, Catalogue!CreateLayout(p, c) PROVE CatalogueInv'
  BY <1>1, DraftAdded DEF Catalogue!CreateLayout
<1>2. ASSUME NEW i \in Catalogue!Kept, NEW seen, NEW c \in Wording, Catalogue!UpdateLayout(i, seen, c)
      PROVE  CatalogueInv'
  <2>1. rows[i].state = "draft" /\ Catalogue!Submit(i, c, rows[i].by, rows[i].rv + 1) /\ i \in DOMAIN rows
    BY <1>2, Zenon DEF Catalogue!UpdateLayout, Catalogue!MayEdit, Catalogue!Kept
  <2>2. rows[i].by \in Writer
    BY <1>0, <2>1 DEF DefRow
  <2>3. QED
    BY <1>0, <2>1, <2>2, DraftEdited
<1>3. ASSUME NEW i \in Catalogue!Kept, NEW p \in Writer, NEW seen, Catalogue!ReleaseLayout(i, seen, p)
      PROVE  CatalogueInv'
  BY <1>0, <1>3, DraftReleased DEF Catalogue!ReleaseLayout, Catalogue!Kept
<1>4. ASSUME NEW i \in Catalogue!Kept, NEW p \in Writer, Catalogue!ReviseLayout(i, p) PROVE CatalogueInv'
  <2>1. rows[i].content \in Wording
    BY <1>0 DEF DefRow, Catalogue!Kept
  <2>2. QED
    BY <1>4, <2>1, RevisionAdded DEF Catalogue!ReviseLayout
<1>5. ASSUME NEW i \in Catalogue!Kept, NEW seen, Catalogue!RetireLayout(i, seen) PROVE CatalogueInv'
  BY <1>5, RowTakenOut DEF Catalogue!RetireLayout, Catalogue!Kept, Catalogue!Untouched
<1>6. ASSUME NEW u \in User, Catalogue!MakeReport(u) PROVE CatalogueInv'
  BY <1>0, <1>6, ReferenceMade
<1>7. QED
  BY <1>1, <1>2, <1>3, <1>4, <1>5, <1>6, Zenon DEF Catalogue!LayoutNext

(* Every step of the metrics keeps the invariant.                           *)
LEMMA MetricStep == ASSUME CatalogueInv, Catalogue!MetricNext PROVE CatalogueInv'
<1>0. catalogue = "metric"
  BY DEF Catalogue!MetricNext
<1>1. ASSUME NEW p \in Writer, NEW c \in Wording, NEW v \in 1..MaxRows, Catalogue!CreateMetric(p, c, v)
      PROVE  CatalogueInv'
  <2> DEFINE new == [Catalogue!Draft(p, c, v) EXCEPT !.state = "active"]
  <2>1. Catalogue!Added(new) /\ Catalogue!Untouched
    BY <1>1 DEF Catalogue!CreateMetric
  <2>2. v \in Nat
    OBVIOUS
  <2>3. new \in DefRow /\ new.state = "active"
    BY <2>2 DEF Catalogue!Draft, DefRow
  <2> HIDE DEF new
  <2>4. QED
    BY <1>0, <2>1, <2>3, RowAdded
<1>2. ASSUME NEW i \in Catalogue!Kept, NEW c \in Wording, Catalogue!UpdateMetric(i, c) PROVE CatalogueInv'
  <2>1. Catalogue!Submit(i, c, rows[i].by, rows[i].rv) /\ Catalogue!ValuesOf(i) = {} /\ i \in DOMAIN rows
    BY <1>2, Zenon DEF Catalogue!UpdateMetric, Catalogue!Kept
  <2>2. rows[i] \in DefRow
    BY <2>1 DEF CatalogueInv, RowsTyped
  <2>3. rows[i].by \in Writer /\ rows[i].rv \in Nat
    BY <2>2 DEF DefRow
  <2>4. QED
    BY <1>0, <2>1, <2>3, UpdateSubmitted
<1>3. ASSUME NEW i \in Catalogue!Kept, Catalogue!RetireMetric(i) PROVE CatalogueInv'
  BY <1>3, MetricRetired DEF Catalogue!Kept
<1>4. ASSUME NEW u \in User, NEW i \in Catalogue!Kept, Catalogue!RecordValue(u, i) PROVE CatalogueInv'
  BY <1>0, <1>4, ReferenceMade
<1>5. QED
  BY <1>1, <1>2, <1>3, <1>4, Zenon DEF Catalogue!MetricNext

(* Every step of the definitions keeps their invariant.                     *)
LEMMA CatalogueStep == ASSUME CatalogueInv, Catalogue!DefinitionNext PROVE CatalogueInv'
  BY MethodStep, TemplateStep, LayoutStep, MetricStep, WriteCommitted DEF Catalogue!DefinitionNext

(* Where the invariant holds, what is in force is what was approved, and    *)
(* what refers to it finds it so.                                           *)
LEMMA CatalogueStands == ASSUME CatalogueInv PROVE DefinitionsHold
<1>1. Catalogue!Cardinality(Catalogue!In("released")) <= 1
  <2> DEFINE S == Catalogue!In("released")
  <2>1. Catalogue!Cardinality(S) = Cardinality(S)
    BY Zenon DEF Catalogue!Cardinality, Cardinality
  <2>2. \A m, n \in S : m = n
    BY DEF CatalogueInv, OneReleasedRow, Catalogue!In, Catalogue!Kept
  <2>3. S = {} \/ \E m \in S : S = {m}
    BY <2>2
  <2> HIDE DEF S
  <2>4. Cardinality(S) <= 1
    BY <2>3, FS_EmptySet, FS_Singleton
  <2>5. QED
    BY <2>1, <2>4 DEF S
<1>2. Catalogue!InForceAsApproved
  BY <1>1 DEF Catalogue!InForceAsApproved, CatalogueInv, RowsApproved, AsApproved, Catalogue!Kept
<1>3. Catalogue!MethodsStand
  BY DEF Catalogue!MethodsStand, CatalogueInv, UsersStand, RecipeStands, Catalogue!Kept
<1>4. Catalogue!TemplatesStand
  <2>1. SUFFICES ASSUME catalogue = "template", NEW u \in User, users[u].template # None
                 PROVE  /\ users[u].template \in Catalogue!Kept /\ approved[users[u].template] # None
                        /\ \E c \in approved[users[u].template].contents :
                             users[u].config = Catalogue!MergeConfig(c, users[u].connection)
                        /\ \/ approved[users[u].template].by \notin approved[users[u].template].hands
                           \/ approved[users[u].template].by \in SelfApprovers
    BY DEF Catalogue!TemplatesStand
  <2>2. AdapterStands(users[u])
    BY <2>1 DEF CatalogueInv, UsersStand
  <2>3. QED
    BY <2>1, <2>2 DEF CatalogueInv, AdapterStands, RowsApproved, AsApproved, Catalogue!Kept, Catalogue!MergeConfig
<1>5. Catalogue!MetricsStand
  BY DEF Catalogue!MetricsStand, CatalogueInv, UsersStand, ValueStands, SaysOf
<1>6. QED
  BY <1>2, <1>3, <1>4, <1>5 DEF DefinitionsHold, Catalogue!DefinitionsHold

=============================================================================
