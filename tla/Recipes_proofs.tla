--------------------------- MODULE Recipes_proofs ---------------------------
(***************************************************************************)
(* For any number of recipes, revisions and edits: from a recipe back      *)
(* through the versions it was revised from, an identifier that the system *)
(* gives names no earlier step, and in a submitted one each names one.     *)
(***************************************************************************)
EXTENDS Recipes, FiniteSetTheorems, WellFoundedInduction, TLAPS

(* Recipes and step identifiers are numbers, and None is none.              *)
RecipesAssumed == None \notin Nat

-----------------------------------------------------------------------------
(* The invariant.  What was ever an identifier in a recipe is remembered in *)
(* it and in its revisions, so that a new step never gets one of them; and  *)
(* a recipe that was revised is never edited again.                         *)

StepRow == [id : Nat, what : Nat, cap : Cap \cup {None}, sub : Nat \cup {None}, by : {"system", "editor"}]
States == {"draft", "review", "approved", "released", "retired", "deleted"}
RecipeRow == [root : Nat, parent : Nat \cup {None}, state : States, steps : SUBSET StepRow,
              used : SUBSET Nat, author : Author, submitter : Author \cup {None}, bad : BOOLEAN]

RecipeTyped == recipes \in Seq(RecipeRow) /\ recipeEdits \in Nat

\* Of the identifiers of a recipe one is the greatest.
Bounded(ids) == \E n \in Nat : \A m \in ids : m <= n
IdsBounded == \A i \in DOMAIN recipes : Bounded(StepIdsOf(recipes[i]))

\* Steps are numbered in the order they are added.
Limit == 2 * recipeEdits
StepsOld == \A i \in DOMAIN recipes : \A s \in recipes[i].steps : s.what <= Limit

SameStep(s, t) == s.id = t.id /\ s.what = t.what /\ s.by = t.by
Newest(steps) == \A s, t \in steps : s.by = "system" /\ s.id = t.id => s.what <= t.what
IdsOnce == \A i \in DOMAIN recipes : Newest(recipes[i].steps)

\* What is submitted is not edited any more.
Open == {"draft", "deleted"}
OpenOrDistinct(r) == r.state \notin Open => IdsDiffer(r.steps)
AllDistinct == \A i \in DOMAIN recipes : OpenOrDistinct(recipes[i])

\* A revision remembers what its parent used, and takes steps over as they are.
Revised == {"released", "retired"}
TakenOver(r, p) ==
  /\ StepIdsOf(p) \subseteq StepIdsOf(r)
  /\ \A s \in r.steps : s.by = "system" /\ s.id \in StepIdsOf(p) => \E t \in p.steps : SameStep(s, t)
ParentsFit ==
  \A i \in DOMAIN recipes : recipes[i].parent # None =>
    /\ recipes[i].parent \in DOMAIN recipes
    /\ recipes[recipes[i].parent].state \in Revised
    /\ TakenOver(recipes[i], recipes[recipes[i].parent])

RecipeInv == RecipeTyped /\ IdsBounded /\ StepsOld /\ IdsOnce /\ AllDistinct /\ ParentsFit

-----------------------------------------------------------------------------
(* Identifiers.                                                             *)

(* A nonempty set of numbers that are bounded has a greatest one.           *)
LEMMA BoundedHasTop ==
  ASSUME NEW S \in SUBSET Nat, S # {}, Bounded(S)
  PROVE  Top(S) \in S /\ \A m \in S : m <= Top(S)
<1>1. PICK n \in Nat : \A m \in S : m <= n
  BY DEF Bounded
<1> DEFINE T == {n - m : m \in S}
<1>2. T \in SUBSET Nat /\ T # {}
  <2>1. \A m \in S : n - m \in Nat
    BY <1>1
  <2>2. QED
    BY <2>1, Zenon
<1>3. PICK u \in T : \A t \in T : <<t, u>> \notin OpToRel(<, Nat)
  BY <1>2, NatLessThanWellFounded, WFMin, Zenon
<1>4. PICK k \in S : u = n - k
  OBVIOUS
<1>5. ASSUME NEW m \in S PROVE m <= k
  <2>1. n - m \in T /\ n - m \in Nat /\ u \in Nat
    BY <1>2
  <2>2. ~(n - m < u)
    BY <1>3, <2>1 DEF OpToRel
  <2>3. QED
    BY <1>1, <1>4, <2>1, <2>2
<1>6. QED
  BY <1>5, Zenon DEF Top

(* A number above the top is new.                                           *)
LEMMA AboveTop ==
  ASSUME NEW S \in SUBSET Nat, Bounded(S)
  PROVE  Top(S) + 1 \in Nat /\ Top(S) + 1 \notin S /\ Bounded(S \cup {Top(S) + 1})
<1>1. CASE S = {}
  <2>1. Top(S) = 0
    BY <1>1 DEF Top
  <2>2. \A m \in S \cup {1} : m <= 1
    BY <1>1
  <2>3. QED
    BY <1>1, <2>1, <2>2 DEF Bounded
<1>2. CASE S # {}
  <2>1. Top(S) \in S /\ \A m \in S : m <= Top(S)
    BY <1>2, BoundedHasTop
  <2>2. Top(S) \in Nat
    BY <2>1
  <2>3. Top(S) + 1 \notin S
    BY <2>1, <2>2
  <2>4. \A m \in S \cup {Top(S) + 1} : m <= Top(S) + 1
    BY <2>1, <2>2
  <2>5. QED
    BY <2>2, <2>3, <2>4 DEF Bounded
<1>3. QED
  BY <1>1, <1>2

(* A nonempty set of numbers has a least one.                               *)
LEMMA LeastIs ==
  ASSUME NEW S \in SUBSET Nat, S # {}
  PROVE  \E k \in S : \A m \in S : k <= m
<1>1. PICK u \in S : \A t \in S : <<t, u>> \notin OpToRel(<, Nat)
  BY NatLessThanWellFounded, WFMin, Zenon
<1>2. ASSUME NEW m \in S PROVE u <= m
  <2>1. ~(m < u)
    BY <1>1 DEF OpToRel
  <2>2. QED
    BY <2>1
<1>3. QED
  BY <1>2

\* A step an editor adds: the identifier is left to the system, or it is not.
AddedStep == [id : Nat \cup {None}, what : Nat, cap : Cap \cup {None}, sub : Nat \cup {None}, by : {"system", "editor"}]
Numbered(s, n) == [s EXCEPT !.id = n]

(* Where one step at most comes without an identifier, it gets one that was *)
(* never used and is not one of a step before it; the others stay.          *)
LEMMA IdsAssigned ==
  ASSUME RecipesAssumed, NEW old \in SUBSET StepRow, NEW added \in SUBSET AddedStep, NEW used \in SUBSET Nat,
         Bounded(used), Bounded(IdsOf(added)), \A s \in old : s.id \in used,
         \A s \in added : s.by = "system" <=> s.id = None,
         \A s, t \in added : s.id = None /\ t.id = None => s = t
  PROVE  LET given == AssignStepIds(old \cup added, used) IN
         /\ given \in SUBSET StepRow
         /\ \A s \in given : s \in old \/ \E a \in added : /\ s.what = a.what /\ (s.by = "system" => s.id \notin used)
                                                       /\ (s.by = "system" <=> a.id = None)
                                                       /\ (a.id # None => s.id = a.id)
         /\ \A s, t \in given : s \notin old /\ t \notin old /\ s.by = "system" /\ s.id = t.id => s.what <= t.what
         /\ Bounded(used \cup IdsOf(given))
<1> DEFINE steps == old \cup added
           taken(s) == used \cup IdsOf({t \in steps : t.what < s.what})
           free(s) == ((Top(used) + 1)..(Top(taken(s)) + 1)) \ taken(s)
           number(s) == CHOOSE n \in free(s) : \A m \in free(s) : n <= m
           ids == used \cup IdsOf(added)
           given == AssignStepIds(steps, used)
<1>1. /\ \A s \in old : s.id \in Nat /\ s.id # None
      /\ \A s \in added : s.id \in Nat \cup {None} /\ s.what \in Nat
  BY DEF StepRow, AddedStep, RecipesAssumed
<1>2. IdsOf(added) \in SUBSET Nat /\ ids \in SUBSET Nat
  BY <1>1 DEF IdsOf
<1>3. Bounded(ids)
  <2>1. PICK n \in Nat : \A m \in used : m <= n
    BY DEF Bounded
  <2>2. PICK k \in Nat : \A m \in IdsOf(added) : m <= k
    BY DEF Bounded
  <2>3. n + k \in Nat /\ \A m \in ids : m <= n + k
    BY <1>2, <2>1, <2>2
  <2>4. QED
    BY <2>3, Zenon DEF Bounded
<1>4. ASSUME NEW s \in added
      PROVE  /\ number(s) \in Nat /\ number(s) \notin used /\ number(s) <= Top(ids) + 1
             /\ \A t \in added : t.id # None /\ t.what < s.what => number(s) # t.id
  <2>1. used \subseteq taken(s) /\ taken(s) \subseteq ids
    BY <1>1 DEF IdsOf
  <2>2. \A t \in added : t.id # None /\ t.what < s.what => t.id \in taken(s)
    BY DEF IdsOf
  <2> HIDE DEF taken, ids
  <2>3. taken(s) \in SUBSET Nat /\ Bounded(taken(s))
    BY <1>2, <1>3, <2>1 DEF Bounded
  <2>4. /\ Top(taken(s)) + 1 \in Nat /\ Top(taken(s)) + 1 \notin taken(s)
        /\ Top(taken(s)) <= Top(ids) /\ Top(used) <= Top(taken(s)) /\ Top(used) \in Nat /\ Top(ids) \in Nat
        /\ Top(taken(s)) \in Nat
    <3>1. \A S \in SUBSET Nat : Bounded(S) => /\ Top(S) \in Nat /\ Top(S) + 1 \notin S
                                             /\ (\A m \in S : m <= Top(S)) /\ (S = {} => Top(S) = 0)
                                             /\ (S # {} => Top(S) \in S)
      <4> SUFFICES ASSUME NEW S \in SUBSET Nat, Bounded(S)
                   PROVE  /\ Top(S) \in Nat /\ Top(S) + 1 \notin S
                          /\ (\A m \in S : m <= Top(S)) /\ (S = {} => Top(S) = 0)
                          /\ (S # {} => Top(S) \in S)
        OBVIOUS
      <4>1. CASE S = {}
        BY <4>1 DEF Top
      <4>2. CASE S # {}
        <5>1. Top(S) \in S /\ \A m \in S : m <= Top(S)
          BY <4>2, BoundedHasTop
        <5>2. QED
          BY <4>2, <5>1, AboveTop
      <4>3. QED
        BY <4>1, <4>2
    <3>2. \A S, T \in SUBSET Nat : S \subseteq T /\ Bounded(S) /\ Bounded(T) => Top(S) <= Top(T)
      <4> SUFFICES ASSUME NEW S \in SUBSET Nat, NEW T \in SUBSET Nat, S \subseteq T, Bounded(S), Bounded(T)
                   PROVE  Top(S) <= Top(T)
        OBVIOUS
      <4>1. QED
        BY <3>1
    <3>3. QED
      BY <1>2, <1>3, <2>1, <2>3, <3>1, <3>2
  <2> HIDE DEF free
  <2>5. \A n : n \in free(s) <=> n \in (Top(used) + 1)..(Top(taken(s)) + 1) /\ n \notin taken(s)
    BY DEF free
  <2>6. free(s) \in SUBSET Nat /\ free(s) # {}
    BY <2>4, <2>5
  <2>7. number(s) \in free(s)
    <3>1. \E k \in free(s) : \A m \in free(s) : k <= m
      BY <2>6, LeastIs
    <3>2. QED
      BY <3>1, Zenon
  <2> HIDE DEF number
  <2>8. number(s) \notin taken(s) /\ number(s) \in Nat /\ number(s) <= Top(ids) + 1
    BY <2>4, <2>5, <2>7
  <2>9. QED
    BY <2>1, <2>2, <2>8
<1>5. given = {IF s.id = None THEN Numbered(s, number(s)) ELSE s : s \in steps}
  BY Zenon DEF AssignStepIds, Numbered
<1> DEFINE row(s) == IF s.id = None THEN Numbered(s, number(s)) ELSE s
<1>6. given = {row(s) : s \in steps}
  BY <1>5
<1> HIDE DEF given
<1>11. Top(ids) \in Nat /\ \A m \in ids : m <= Top(ids)
  <2> HIDE DEF ids
  <2>1. CASE ids = {}
    BY <2>1 DEF Top
  <2>2. CASE ids # {}
    BY <1>2, <1>3, <2>2, BoundedHasTop
  <2>3. QED
    BY <2>1, <2>2
<1> HIDE DEF number
<1>7. ASSUME NEW a \in added
      PROVE  /\ row(a) \in StepRow /\ row(a).what = a.what /\ row(a).by = a.by
             /\ a.id = None => row(a).id = number(a)
             /\ a.id # None => row(a) = a
  <2>1. CASE a.id = None
    <3>1. row(a) = Numbered(a, number(a)) /\ number(a) \in Nat
      BY <1>4, <2>1
    <3>2. QED
      BY <2>1, <3>1 DEF AddedStep, StepRow, Numbered
  <2>2. CASE a.id # None
    BY <2>2 DEF AddedStep, StepRow
  <2>3. QED
    BY <2>1, <2>2
<1>8. \A s \in old : row(s) = s
  BY <1>1
<1> HIDE DEF row, ids
<1>9. ASSUME NEW s \in given PROVE s \in old \/ \E a \in added : s = row(a)
  <2>1. PICK u \in steps : s = row(u)
    BY <1>6, <1>9
  <2>2. QED
    BY <1>8, <2>1
<1>10. given \in SUBSET StepRow
  BY <1>7, <1>9
<1>12. ASSUME NEW s \in given, s \notin old
       PROVE  \E a \in added : /\ s.what = a.what /\ (s.by = "system" => s.id \notin used) /\ (s.by = "system" <=> a.id = None)
                               /\ (a.id # None => s.id = a.id)
  <2>1. PICK a \in added : s = row(a)
    BY <1>9, <1>12
  <2>2. QED
    BY <1>4, <1>7, <2>1
<1>13. ASSUME NEW s \in given, NEW t \in given, s \notin old, t \notin old, s.by = "system", s.id = t.id
       PROVE  s.what <= t.what
  <2>1. PICK a \in added : s = row(a)
    BY <1>9, <1>13
  <2>2. PICK b \in added : t = row(b)
    BY <1>9, <1>13
  <2>3. a.id = None /\ s.what = a.what /\ t.what = b.what /\ s.id = number(a)
    BY <1>7, <1>13, <2>1, <2>2
  <2>4. CASE b.id = None
    BY <1>1, <2>1, <2>2, <2>3, <2>4
  <2>5. CASE b.id # None
    <3>1. number(a) = b.id
      BY <1>7, <1>13, <2>2, <2>3, <2>5
    <3>2. ~(b.what < a.what)
      BY <1>4, <2>5, <3>1
    <3>3. QED
      BY <1>1, <2>3, <3>2
  <2>6. QED
    BY <2>4, <2>5
<1>14. Bounded(used \cup IdsOf(given))
  <2>1. ASSUME NEW m \in IdsOf(given) PROVE m <= Top(ids) + 1
    <3>1. PICK s \in given : m = s.id
      BY DEF IdsOf
    <3>2. CASE s \in old
      <4>1. m \in ids
        BY <3>1, <3>2 DEF ids
      <4>2. QED
        BY <1>2, <1>11, <4>1
    <3>3. CASE s \notin old
      <4>1. PICK a \in added : s = row(a)
        BY <1>9, <3>3
      <4>2. CASE a.id = None
        BY <1>4, <1>7, <3>1, <4>1, <4>2
      <4>3. CASE a.id # None
        <5>1. a.id \in ids
          BY <4>3 DEF ids, IdsOf
        <5>2. m = a.id
          BY <1>7, <3>1, <4>1, <4>3
        <5>3. m \in Nat /\ m <= Top(ids)
          BY <1>2, <1>11, <5>1, <5>2
        <5>4. QED
          BY <1>11, <5>3
      <4>4. QED
        BY <4>2, <4>3
    <3>4. QED
      BY <3>2, <3>3
  <2>2. \A m \in used : m <= Top(ids) + 1
    <3>1. used \subseteq ids
      BY DEF ids
    <3>2. QED
      BY <1>2, <1>11, <3>1
  <2>3. Top(ids) + 1 \in Nat
    BY <1>11
  <2>4. \A m \in used \cup IdsOf(given) : m <= Top(ids) + 1
    BY <2>1, <2>2, Zenon
  <2>5. QED
    BY <2>3, <2>4, Zenon DEF Bounded
<1>15. QED
  BY <1>10, <1>12, <1>13, <1>14 DEF given

-----------------------------------------------------------------------------
(* The property from the invariant.                                         *)

(* What is in a recipe and in one of its ancestors is one step.             *)
LEMMA IdsSuffice == ASSUME RecipesAssumed, RecipeInv PROVE IdsNameOneStep
<1>1. ASSUME NEW i \in DOMAIN recipes
      PROVE  recipes[i] \in RecipeRow /\ \A s \in recipes[i].steps : s.id \in StepIdsOf(recipes[i])
  <2>1. recipes[i] \in RecipeRow
    BY DEF RecipeInv, RecipeTyped
  <2>2. \A s \in recipes[i].steps : s.id \in Nat
    BY <2>1 DEF RecipeRow, StepRow
  <2>3. QED
    BY <2>1, <2>2 DEF StepIdsOf, IdsOf, RecipesAssumed
<1>2. ASSUME NEW i \in DOMAIN recipes, NEW s \in recipes[i].steps, NEW t \in recipes[i].steps, s.by = "system", s.id = t.id
      PROVE  s.what <= t.what
  BY <1>2 DEF RecipeInv, IdsOnce, Newest
<1>3. ASSUME NEW i \in DOMAIN recipes, recipes[i].parent # None
      PROVE  /\ recipes[i].parent \in DOMAIN recipes
             /\ TakenOver(recipes[i], recipes[recipes[i].parent])
  BY <1>3 DEF RecipeInv, ParentsFit
<1>4. ASSUME NEW i \in DOMAIN recipes, NEW j \in Ancestors(i), NEW s \in recipes[i].steps,
             NEW t \in recipes[j].steps, s.by = "system", s.id = t.id
      PROVE  s.what <= t.what
  <2>1. CASE j = i
    BY <1>2, <1>4, <2>1
  <2>2. j # None
    <3>1. j \in DOMAIN recipes /\ DOMAIN recipes = 1..Len(recipes) /\ Len(recipes) \in Nat
      BY DEF Ancestors, RecipeInv, RecipeTyped
    <3>2. QED
      BY <3>1 DEF RecipesAssumed
  <2>3. CASE j = recipes[i].parent
    <3>1. j \in DOMAIN recipes /\ TakenOver(recipes[i], recipes[j])
      BY <1>3, <2>2, <2>3
    <3>2. PICK u \in recipes[j].steps : SameStep(s, u)
      BY <1>1, <1>4, <3>1 DEF TakenOver
    <3>3. QED
      BY <1>2, <1>4, <3>1, <3>2 DEF SameStep
  <2>4. CASE recipes[i].parent # None /\ j = recipes[recipes[i].parent].parent
    <3> DEFINE p == recipes[i].parent
    <3>1. p \in DOMAIN recipes /\ TakenOver(recipes[i], recipes[p])
      BY <1>3, <2>4
    <3>2. j \in DOMAIN recipes /\ TakenOver(recipes[p], recipes[j])
      BY <1>3, <2>2, <2>4, <3>1
    <3>3. t.id \in StepIdsOf(recipes[j]) /\ t.id \in StepIdsOf(recipes[p])
      BY <1>1, <3>2 DEF TakenOver
    <3>4. PICK u \in recipes[p].steps : SameStep(s, u)
      BY <1>4, <3>1, <3>3 DEF TakenOver, SameStep
    <3>5. PICK v \in recipes[j].steps : SameStep(u, v)
      BY <1>4, <3>2, <3>3, <3>4 DEF TakenOver, SameStep
    <3>6. QED
      BY <1>2, <1>4, <3>2, <3>4, <3>5 DEF SameStep
  <2>5. QED
    BY <2>1, <2>3, <2>4 DEF Ancestors
<1>5. \A i \in DOMAIN recipes : recipes[i].state \notin {"draft", "deleted"} => IdsDiffer(recipes[i].steps)
  BY DEF RecipeInv, AllDistinct, OpenOrDistinct, Open
<1>6. QED
  BY <1>4, <1>5 DEF IdsNameOneStep

-----------------------------------------------------------------------------
(* What the steps of the model keep.                                        *)

(* A recipe is a row, and remembers all identifiers of its steps.           *)
LEMMA RowIs ==
  ASSUME RecipesAssumed, RecipeInv, NEW i \in DOMAIN recipes
  PROVE  /\ recipes[i] \in RecipeRow /\ i \in Nat /\ i # None
         /\ StepIdsOf(recipes[i]) \in SUBSET Nat /\ Bounded(StepIdsOf(recipes[i]))
         /\ \A s \in recipes[i].steps : s \in StepRow /\ s.id \in StepIdsOf(recipes[i])
<1>1. recipes \in Seq(RecipeRow)
  BY DEF RecipeInv, RecipeTyped
<1>2. recipes[i] \in RecipeRow /\ i \in Nat /\ i # None
  BY <1>1 DEF RecipesAssumed
<1>3. \A s \in recipes[i].steps : s \in StepRow
  BY <1>2 DEF RecipeRow
<1>4. \A s \in recipes[i].steps : s.id \in Nat
  BY <1>3 DEF StepRow
<1>5. recipes[i].used \in SUBSET Nat
  BY <1>2 DEF RecipeRow
<1>6. StepIdsOf(recipes[i]) \in SUBSET Nat
  BY <1>4, <1>5 DEF StepIdsOf, IdsOf
<1>7. \A s \in recipes[i].steps : s.id \in StepIdsOf(recipes[i])
  BY <1>4 DEF StepIdsOf, IdsOf, RecipesAssumed
<1>8. QED
  BY <1>2, <1>3, <1>6, <1>7 DEF RecipeInv, IdsBounded

(* States change, and what is revised stays so; the steps stay.             *)
LEMMA RowsKept ==
  ASSUME RecipeInv, recipes' \in Seq(RecipeRow), recipeEdits' = recipeEdits, DOMAIN recipes' = DOMAIN recipes,
         \A i \in DOMAIN recipes :
           /\ recipes'[i].steps = recipes[i].steps /\ recipes'[i].used = recipes[i].used
           /\ recipes'[i].parent = recipes[i].parent
           /\ recipes[i].state \in Revised => recipes'[i].state \in Revised
           /\ OpenOrDistinct(recipes'[i])
  PROVE  RecipeInv'
<1>1. \A i \in DOMAIN recipes : StepIdsOf(recipes'[i]) = StepIdsOf(recipes[i])
  BY DEF StepIdsOf
<1>2. IdsBounded'
  BY <1>1 DEF RecipeInv, IdsBounded
<1>3. IdsOnce' /\ StepsOld' /\ AllDistinct'
  BY DEF RecipeInv, IdsOnce, StepsOld, Limit, AllDistinct
<1>4. ASSUME NEW i \in DOMAIN recipes', recipes'[i].parent # None
      PROVE  /\ recipes'[i].parent \in DOMAIN recipes'
             /\ recipes'[recipes'[i].parent].state \in Revised
             /\ TakenOver(recipes'[i], recipes'[recipes'[i].parent])
  <2> DEFINE p == recipes[i].parent
  <2>1. p \in DOMAIN recipes /\ recipes[p].state \in Revised /\ TakenOver(recipes[i], recipes[p])
    BY <1>4 DEF RecipeInv, ParentsFit
  <2>2. recipes'[i].parent = p
    OBVIOUS
  <2>3. TakenOver(recipes'[i], recipes'[p])
    BY <1>1, <2>1 DEF TakenOver
  <2>4. QED
    BY <2>1, <2>2, <2>3
<1>5. ParentsFit'
  BY <1>4 DEF ParentsFit
<1>6. QED
  BY <1>2, <1>3, <1>5 DEF RecipeInv, RecipeTyped

(* One row changes in this way.                                             *)
LEMMA RowKept ==
  ASSUME RecipeInv, NEW i \in DOMAIN recipes, NEW new \in RecipeRow,
         new.steps = recipes[i].steps, new.used = recipes[i].used, new.parent = recipes[i].parent,
         recipes[i].state \in Revised => new.state \in Revised, OpenOrDistinct(new),
         recipes' = [m \in DOMAIN recipes |-> IF m = i THEN new ELSE recipes[m]], recipeEdits' = recipeEdits
  PROVE  RecipeInv'
<1>1. recipes \in Seq(RecipeRow)
  BY DEF RecipeInv, RecipeTyped
<1>2. /\ recipes' \in Seq(RecipeRow) /\ DOMAIN recipes' = DOMAIN recipes /\ recipes'[i] = new
      /\ \A m \in DOMAIN recipes : m # i => recipes'[m] = recipes[m]
  BY <1>1
<1>3. \A m \in DOMAIN recipes :
        /\ recipes'[m].steps = recipes[m].steps /\ recipes'[m].used = recipes[m].used
        /\ recipes'[m].parent = recipes[m].parent
        /\ recipes[m].state \in Revised => recipes'[m].state \in Revised
        /\ OpenOrDistinct(recipes'[m])
  BY <1>2 DEF RecipeInv, AllDistinct
<1>4. QED
  BY <1>2, <1>3, RowsKept

(* A recipe is added: on its own, or as a revision of one that may be.      *)
LEMMA RecipeAdded ==
  ASSUME RecipesAssumed, RecipeInv, NEW new \in RecipeRow, Bounded(StepIdsOf(new)),
         Newest(new.steps), OpenOrDistinct(new), \A s \in new.steps : s.what <= 2 * recipeEdits',
         new.parent # None => /\ new.parent \in DOMAIN recipes
                              /\ recipes[new.parent].state \in Revised
                              /\ TakenOver(new, recipes[new.parent]),
         recipes' = Append(recipes, new), recipeEdits' \in Nat, recipeEdits <= recipeEdits'
  PROVE  RecipeInv'
<1>1. recipes \in Seq(RecipeRow) /\ recipeEdits \in Nat
  BY DEF RecipeInv, RecipeTyped
<1>2. /\ recipes' \in Seq(RecipeRow)
      /\ \A i \in DOMAIN recipes : i \in DOMAIN recipes' /\ recipes'[i] = recipes[i]
      /\ \A i \in DOMAIN recipes' : (i \in DOMAIN recipes /\ recipes'[i] = recipes[i]) \/ recipes'[i] = new
  BY <1>1
<1>3. IdsBounded'
  BY <1>2 DEF RecipeInv, IdsBounded
<1>4. IdsOnce' /\ AllDistinct'
  BY <1>2 DEF RecipeInv, IdsOnce, AllDistinct
<1>8. StepsOld'
  <2>1. ASSUME NEW i \in DOMAIN recipes', NEW s \in recipes'[i].steps PROVE s.what <= Limit'
    <3>1. CASE recipes'[i] = new
      BY <3>1, <2>1 DEF Limit
    <3>2. CASE i \in DOMAIN recipes /\ recipes'[i] = recipes[i]
      <4>1. s.what <= Limit /\ s.what \in Nat
        BY <2>1, <3>2, RowIs DEF RecipeInv, StepsOld, StepRow
      <4>2. QED
        BY <1>1, <4>1 DEF Limit
    <3>3. QED
      BY <1>2, <3>1, <3>2
  <2>2. QED
    BY <2>1 DEF StepsOld
<1>5. ASSUME NEW i \in DOMAIN recipes', recipes'[i].parent # None
      PROVE  /\ recipes'[i].parent \in DOMAIN recipes'
             /\ recipes'[recipes'[i].parent].state \in Revised
             /\ TakenOver(recipes'[i], recipes'[recipes'[i].parent])
  <2>1. CASE i \in DOMAIN recipes /\ recipes'[i] = recipes[i]
    <3>1. /\ recipes[i].parent \in DOMAIN recipes /\ recipes[recipes[i].parent].state \in Revised
          /\ TakenOver(recipes[i], recipes[recipes[i].parent])
      BY <1>5, <2>1 DEF RecipeInv, ParentsFit
    <3>2. QED
      BY <1>2, <2>1, <3>1
  <2>2. CASE recipes'[i] = new
    BY <1>2, <1>5, <2>2
  <2>3. QED
    BY <1>2, <2>1, <2>2
<1>6. ParentsFit'
  BY <1>5 DEF ParentsFit
<1>7. QED
  BY <1>2, <1>3, <1>4, <1>6, <1>8 DEF RecipeInv, RecipeTyped

\* The new row of an edited recipe.
EditedRow(r, given, used) == [r EXCEPT !.steps = given, !.used = used]

\* What an editor adds.
IsAddition(added) ==
  /\ added \in SUBSET AddedStep /\ Bounded(IdsOf(added))
  /\ \A s \in added : (s.by = "system" <=> s.id = None) /\ Limit < s.what /\ s.what <= Limit + 2
  /\ \A s, t \in added : s.id = None /\ t.id = None => s = t

(* One step is added, or two of which one has an identifier.                *)
LEMMA AdditionIs == ASSUME RecipesAssumed, RecipeInv, NEW added \in Additions PROVE IsAddition(added)
<1>1. recipeEdits \in Nat /\ Live \subseteq Nat
  BY RowIs DEF RecipeInv, RecipeTyped, Live
<1> DEFINE names == 1..(recipeEdits + 1)
<1>2. ASSUME NEW id \in names \cup {None}, NEW k \in {1, 2}, NEW c \in Cap \cup {None}, NEW j \in Nat \cup {None}
      PROVE  /\ NewStep(id, k, c, j) \in AddedStep /\ NewStep(id, k, c, j).id = id
             /\ (NewStep(id, k, c, j).by = "system" <=> id = None)
             /\ Limit < NewStep(id, k, c, j).what /\ NewStep(id, k, c, j).what <= Limit + 2
  BY <1>1 DEF NewStep, AddedStep, Limit
<1>3. \A ids \in SUBSET names : Bounded(ids)
  BY <1>1 DEF Bounded
<1>4. ASSUME NEW s \in AddedStep, NEW t \in AddedStep, added = {s, t}, s.id \in names \cup {None}, t.id \in names \cup {None},
             s.by = "system" <=> s.id = None, t.by = "system" <=> t.id = None, Limit < s.what, s.what <= Limit + 2,
             Limit < t.what, t.what <= Limit + 2, s.id = None /\ t.id = None => s = t
      PROVE  IsAddition(added)
  <2>1. IdsOf(added) \in SUBSET names
    BY <1>4 DEF IdsOf
  <2>2. Bounded(IdsOf(added))
    BY <1>3, <2>1
  <2>3. QED
    BY <1>4, <2>2 DEF IsAddition
<1>5. ASSUME NEW s, added = {s}, s \in AddedStep, s.id \in names \cup {None}, s.by = "system" <=> s.id = None,
             Limit < s.what, s.what <= Limit + 2
      PROVE  IsAddition(added)
  BY <1>4, <1>5
<1>6. CASE \E id \in names \cup {None}, c \in Cap : added = {NewStep(id, 1, c, None)}
  <2>1. PICK id \in names \cup {None}, c \in Cap : added = {NewStep(id, 1, c, None)}
    BY <1>6
  <2> DEFINE s == NewStep(id, 1, c, None)
  <2>2. s \in AddedStep /\ s.id = id /\ (s.by = "system" <=> id = None) /\ Limit < s.what /\ s.what <= Limit + 2
    BY <1>1 DEF NewStep, AddedStep, Limit
  <2> HIDE DEF s
  <2>3. QED
    BY <1>5, <2>1, <2>2 DEF s
<1>7. CASE \E j \in Live : added = {NewStep(None, 1, None, j)}
  <2>1. PICK j \in Live : added = {NewStep(None, 1, None, j)}
    BY <1>7
  <2> DEFINE s == NewStep(None, 1, None, j)
  <2>2. s \in AddedStep /\ s.id = None /\ (s.by = "system" <=> s.id = None) /\ Limit < s.what /\ s.what <= Limit + 2
    BY <1>1 DEF NewStep, AddedStep, Limit
  <2> HIDE DEF s
  <2>3. QED
    BY <1>5, <2>1, <2>2 DEF s
<1>8. ASSUME NEW id \in names, NEW c \in Cap, NEW i \in {1, 2}, NEW k \in {1, 2},
             added = {NewStep(id, i, c, None), NewStep(None, k, c, None)}
      PROVE  IsAddition(added)
  <2> DEFINE s == NewStep(id, i, c, None)
             t == NewStep(None, k, c, None)
  <2>1. s \in AddedStep /\ s.id = id /\ (s.by = "system" <=> id = None) /\ Limit < s.what /\ s.what <= Limit + 2
    BY <1>1 DEF NewStep, AddedStep, Limit
  <2>2. t \in AddedStep /\ t.id = None /\ (t.by = "system" <=> t.id = None) /\ Limit < t.what /\ t.what <= Limit + 2
    BY <1>1 DEF NewStep, AddedStep, Limit
  <2>3. id # None
    BY <1>1 DEF RecipesAssumed
  <2> HIDE DEF s, t
  <2>4. added = {s, t}
    BY <1>8 DEF s, t
  <2>5. QED
    BY <1>4, <2>1, <2>2, <2>3, <2>4
<1>9. \/ \E id \in names \cup {None}, c \in Cap : added = {NewStep(id, 1, c, None)}
      \/ \E j \in Live : added = {NewStep(None, 1, None, j)}
      \/ \E id \in names, c \in Cap : added = {NewStep(id, 1, c, None), NewStep(None, 2, c, None)}
      \/ \E id \in names, c \in Cap : added = {NewStep(None, 1, c, None), NewStep(id, 2, c, None)}
  BY DEF Additions
<1>10. ASSUME NEW id \in names, NEW c \in Cap, added = {NewStep(None, 1, c, None), NewStep(id, 2, c, None)}
       PROVE  IsAddition(added)
  <2>1. added = {NewStep(id, 2, c, None), NewStep(None, 1, c, None)}
    BY <1>10, Zenon
  <2>2. QED
    BY <1>8, <2>1
<1> HIDE DEF names
<1>11. CASE \E id \in names, c \in Cap : added = {NewStep(id, 1, c, None), NewStep(None, 2, c, None)}
  BY <1>8, <1>11
<1>12. CASE \E id \in names, c \in Cap : added = {NewStep(None, 1, c, None), NewStep(id, 2, c, None)}
  BY <1>10, <1>12
<1>13. QED
  BY <1>6, <1>7, <1>9, <1>11, <1>12

(* An editor keeps steps as they are, does one otherwise, and adds some.    *)
LEMMA WhatIsEdited ==
  ASSUME RecipesAssumed, RecipeInv, NEW i \in DOMAIN recipes, NEW steps \in Edited(recipes[i].steps)
  PROVE  \E old \in SUBSET StepRow, added \in SUBSET AddedStep :
           /\ steps = old \cup added /\ IsAddition(added)
           /\ \A s \in old : \E u \in recipes[i].steps : SameStep(s, u)
<1> DEFINE before == recipes[i].steps
           Goal == \E old \in SUBSET StepRow, new \in SUBSET AddedStep :
                     /\ steps = old \cup new /\ IsAddition(new)
                     /\ \A s \in old : \E u \in before : SameStep(s, u)
<1>1. before \in SUBSET StepRow /\ recipeEdits \in Nat
  BY RowIs DEF RecipeInv, RecipeTyped
<1>2. ASSUME NEW old \in SUBSET before, NEW new \in Additions, steps = old \cup new PROVE Goal
  <2>1. IsAddition(new) /\ new \in SUBSET AddedStep
    BY AdditionIs DEF IsAddition
  <2>2. \A s \in old : s \in before /\ SameStep(s, s)
    BY DEF SameStep
  <2>3. QED
    BY <1>1, <1>2, <2>1, <2>2
<1>4. ASSUME NEW old \in SUBSET StepRow, steps = old, \A s \in old : \E u \in before : SameStep(s, u) PROVE Goal
  <2>1. {} \in SUBSET AddedStep /\ steps = old \cup {} /\ IsAddition({})
    BY <1>4 DEF IsAddition, Bounded, IdsOf
  <2>2. QED
    BY <1>4, <2>1
<1>5. CASE \E new \in Additions : steps = before \cup new
  BY <1>2, <1>5
<1>6. CASE \E s \in before, new \in Additions : steps = (before \ {s}) \cup new
  <2>1. PICK s \in before, new \in Additions : steps = (before \ {s}) \cup new
    BY <1>6
  <2>2. before \ {s} \in SUBSET before
    OBVIOUS
  <2>3. QED
    BY <1>2, <2>1, <2>2
<1>7. CASE \E s \in before : steps = before \ {s}
  BY <1>1, <1>4, <1>7 DEF SameStep
<1>8. CASE \E s \in before, c \in Cap : steps = (before \ {s}) \cup {[s EXCEPT !.cap = c]}
  <2>1. PICK s \in before, c \in Cap : steps = (before \ {s}) \cup {[s EXCEPT !.cap = c]}
    BY <1>8
  <2> DEFINE other == [s EXCEPT !.cap = c]
  <2>2. other \in StepRow /\ other.id = s.id /\ other.what = s.what /\ other.by = s.by
    BY <1>1 DEF StepRow
  <2> HIDE DEF other
  <2>3. steps = (before \ {s}) \cup {other}
    BY <2>1 DEF other
  <2>4. \A t \in steps : t \in StepRow /\ \E u \in before : SameStep(t, u)
    BY <1>1, <2>2, <2>3 DEF SameStep
  <2>5. QED
    BY <1>4, <2>4
<1>9. \/ \E new \in Additions : steps = before \cup new
      \/ \E s \in before, new \in Additions : steps = (before \ {s}) \cup new
      \/ \E s \in before : steps = before \ {s}
      \/ \E s \in before, c \in Cap : steps = (before \ {s}) \cup {[s EXCEPT !.cap = c]}
  BY DEF Edited
<1>10. QED
  BY <1>5, <1>6, <1>7, <1>8, <1>9

(* A draft is edited.                                                       *)
LEMMA RecipePatched ==
  ASSUME RecipesAssumed, RecipeInv, NEW i \in DOMAIN recipes, NEW steps \in Edited(recipes[i].steps),
         Patch(i, steps)
  PROVE  RecipeInv'
<1> DEFINE used == StepIdsOf(recipes[i])
           given == AssignStepIds(steps, used)
           all == used \cup IdsOf(given)
           r == recipes[i]
           new == EditedRow(r, given, all)
<1>1. /\ recipes[i].state = "draft" /\ recipeEdits' = recipeEdits + 1
      /\ recipes' = [recipes EXCEPT ![i].steps = given, ![i].used = all]
  BY Zenon DEF Patch
<1>2. /\ recipes \in Seq(RecipeRow) /\ recipeEdits \in Nat /\ r \in RecipeRow
      /\ used \in SUBSET Nat /\ Bounded(used) /\ \A s \in r.steps : s \in StepRow /\ s.id \in used
  BY RowIs DEF RecipeInv, RecipeTyped
<1>3. recipes' = [m \in DOMAIN recipes |-> IF m = i THEN new ELSE recipes[m]]
  <2> HIDE DEF given, all
  <2>1. QED
    BY <1>1, Zenon DEF EditedRow
<1>4. PICK old \in SUBSET StepRow, added \in SUBSET AddedStep :
        /\ steps = old \cup added /\ IsAddition(added)
        /\ \A s \in old : \E u \in r.steps : SameStep(s, u)
  BY WhatIsEdited
<1>5. \A s \in old : s.id \in used
  BY <1>2, <1>4 DEF SameStep
<1>6. /\ given \in SUBSET StepRow
      /\ \A s \in given : s \in old \/ (Limit < s.what /\ s.what <= Limit + 2 /\ (s.by = "system" => s.id \notin used))
      /\ \A s, t \in given : s \notin old /\ t \notin old /\ s.by = "system" /\ s.id = t.id => s.what <= t.what
      /\ Bounded(all)
  <2> HIDE DEF used
  <2>1. given = AssignStepIds(old \cup added, used)
    BY <1>4
  <2> HIDE DEF given
  <2>2. /\ Bounded(IdsOf(added)) /\ \A s \in added : s.by = "system" <=> s.id = None
        /\ \A s, t \in added : s.id = None /\ t.id = None => s = t
        /\ \A s \in added : Limit < s.what /\ s.what <= Limit + 2
    BY <1>4 DEF IsAddition
  <2>3. /\ given \in SUBSET StepRow
        /\ \A s \in given : s \in old \/ \E a \in added : /\ s.what = a.what /\ (s.by = "system" => s.id \notin used)
                                                       /\ (s.by = "system" <=> a.id = None)
                                                       /\ (a.id # None => s.id = a.id)
        /\ \A s, t \in given : s \notin old /\ t \notin old /\ s.by = "system" /\ s.id = t.id => s.what <= t.what
        /\ Bounded(used \cup IdsOf(given))
    <3>1. used \in SUBSET Nat /\ Bounded(used)
      BY <1>2
    <3> HIDE DEF r, new, all
    <3>2. RecipesAssumed /\ old \in SUBSET StepRow /\ added \in SUBSET AddedStep
      BY <1>4
    <3>3. \A s \in added : s.by = "system" <=> s.id = None
      BY <2>2
    <3>4. \A s, t \in added : s.id = None /\ t.id = None => s = t
      BY <2>2
    <3>5. Bounded(IdsOf(added))
      BY <2>2
    <3>6. QED
      BY <1>5, <2>1, <3>1, <3>2, <3>3, <3>4, <3>5, IdsAssigned
  <2>4. QED
    BY <2>2, <2>3
<1>7. IdsOf(given) \in SUBSET Nat /\ all \in SUBSET Nat
  <2>1. \A s \in given : s.id \in Nat
    BY <1>6 DEF StepRow
  <2>2. IdsOf(given) \in SUBSET Nat
    BY <2>1 DEF IdsOf
  <2>3. QED
    BY <1>2, <2>2
<1> HIDE DEF given, used
<1>9. new \in RecipeRow /\ new.steps = given /\ new.used = all /\ new.parent = r.parent /\ new.state = r.state
  <2> HIDE DEF r, all
  <2>1. QED
    BY <1>2, <1>6, <1>7 DEF RecipeRow, EditedRow
<1>10. StepIdsOf(new) = all
  BY <1>9 DEF StepIdsOf
<1> HIDE DEF new
<1>11. /\ recipes' \in Seq(RecipeRow) /\ DOMAIN recipes' = DOMAIN recipes /\ recipes'[i] = new
       /\ \A m \in DOMAIN recipes : m # i => recipes'[m] = recipes[m]
  BY <1>2, <1>3, <1>9
<1>12. IdsBounded'
  BY <1>6, <1>10, <1>11 DEF RecipeInv, IdsBounded
<1>13. ASSUME NEW s \in given, s.by = "system", s.id \in used PROVE \E u \in r.steps : SameStep(s, u)
  BY <1>4, <1>6, <1>13
<1>20. ASSUME NEW s \in old PROVE s.what <= Limit /\ s.what \in Nat
  <2>1. PICK u \in r.steps : SameStep(s, u)
    BY <1>4
  <2>2. u.what <= Limit
    BY DEF RecipeInv, StepsOld
  <2>3. QED
    BY <2>1, <2>2 DEF SameStep, StepRow
<1>21. Limit \in Nat /\ Limit' = Limit + 2
  BY <1>1, <1>2 DEF Limit
<1>14. ASSUME NEW s \in given, NEW t \in given, s.by = "system", s.id = t.id PROVE s.what <= t.what
  <2>1. CASE s \in old /\ t \in old
    <3>1. PICK u \in r.steps : SameStep(s, u)
      BY <1>4, <2>1
    <3>2. PICK v \in r.steps : SameStep(t, v)
      BY <1>4, <2>1
    <3>3. u.what <= v.what
      BY <1>14, <3>1, <3>2 DEF RecipeInv, IdsOnce, Newest, SameStep
    <3>4. QED
      BY <3>1, <3>2, <3>3 DEF SameStep
  <2>2. CASE s \in old /\ t \notin old
    <3>1. Limit < t.what /\ t.what \in Nat
      BY <1>6, <2>2 DEF StepRow
    <3>2. QED
      BY <1>20, <1>21, <2>2, <3>1
  <2>3. CASE s \notin old /\ t \in old
    BY <1>5, <1>6, <1>14, <2>3
  <2>4. CASE s \notin old /\ t \notin old
    BY <1>6, <1>14, <2>4
  <2>5. QED
    BY <2>1, <2>2, <2>3, <2>4
<1>22. ASSUME NEW s \in given PROVE s.what <= Limit'
  <2>1. CASE s \in old
    BY <1>20, <1>21, <2>1
  <2>2. CASE s \notin old
    BY <1>6, <1>21, <2>2
  <2>3. QED
    BY <2>1, <2>2
<1>23. StepsOld'
  <2>1. ASSUME NEW k \in DOMAIN recipes', NEW s \in recipes'[k].steps PROVE s.what <= Limit'
    <3>1. CASE k = i
      BY <1>9, <1>11, <1>22, <2>1, <3>1
    <3>2. CASE k # i
      <4>1. s.what <= Limit /\ s.what \in Nat
        BY <1>11, <2>1, <3>2, RowIs DEF RecipeInv, StepsOld, StepRow
      <4>2. QED
        BY <1>21, <4>1
    <3>3. QED
      BY <3>1, <3>2
  <2>2. QED
    BY <2>1 DEF StepsOld
<1>24. AllDistinct'
  <2>1. OpenOrDistinct(new)
    BY <1>1, <1>9 DEF OpenOrDistinct, Open
  <2>2. QED
    BY <1>11, <2>1 DEF RecipeInv, AllDistinct
<1>15. IdsOnce'
  <2>1. ASSUME NEW k \in DOMAIN recipes', NEW s \in recipes'[k].steps, NEW t \in recipes'[k].steps, s.by = "system", s.id = t.id
        PROVE  s.what <= t.what
    <3>1. CASE k = i
      BY <1>9, <1>11, <1>14, <2>1, <3>1
    <3>2. CASE k # i
      BY <1>11, <2>1, <3>2 DEF RecipeInv, IdsOnce, Newest
    <3>3. QED
      BY <3>1, <3>2
  <2>2. QED
    BY <2>1 DEF IdsOnce, Newest
<1>16. ASSUME NEW k \in DOMAIN recipes', recipes'[k].parent # None
       PROVE  /\ recipes'[k].parent \in DOMAIN recipes'
              /\ recipes'[recipes'[k].parent].state \in Revised
              /\ TakenOver(recipes'[k], recipes'[recipes'[k].parent])
  <2> DEFINE p == recipes[k].parent
  <2>1. recipes'[k].parent = p
    BY <1>9, <1>11
  <2>2. p \in DOMAIN recipes /\ recipes[p].state \in Revised /\ TakenOver(recipes[k], recipes[p])
    BY <1>11, <1>16, <2>1 DEF RecipeInv, ParentsFit
  <2>3. p # i
    BY <1>1, <2>2 DEF Revised
  <2>4. recipes'[p] = recipes[p]
    BY <1>11, <2>2, <2>3
  <2>5. TakenOver(recipes'[k], recipes[p])
    <3>1. CASE k = i
      <4>1. StepIdsOf(recipes[p]) \subseteq used
        BY <2>2, <3>1 DEF TakenOver, used
      <4>2. StepIdsOf(recipes[p]) \subseteq StepIdsOf(new)
        BY <1>10, <4>1
      <4>3. ASSUME NEW s \in given, s.by = "system", s.id \in StepIdsOf(recipes[p])
            PROVE  \E t \in recipes[p].steps : SameStep(s, t)
        <5>1. PICK u \in r.steps : SameStep(s, u)
          BY <1>13, <4>1, <4>3
        <5>2. PICK t \in recipes[p].steps : SameStep(u, t)
          BY <2>2, <3>1, <4>3, <5>1 DEF TakenOver, SameStep
        <5>3. QED
          BY <5>1, <5>2 DEF SameStep
      <4>4. QED
        BY <1>9, <1>11, <3>1, <4>2, <4>3 DEF TakenOver
    <3>2. CASE k # i
      BY <1>11, <2>2, <3>2
    <3>3. QED
      BY <3>1, <3>2
  <2>6. QED
    BY <1>11, <2>1, <2>2, <2>4, <2>5
<1>17. ParentsFit'
  BY <1>16 DEF ParentsFit
<1>18. QED
  BY <1>1, <1>2, <1>11, <1>12, <1>15, <1>17, <1>23, <1>24 DEF RecipeInv, RecipeTyped

\* A recipe in another state, and one that is in order again.
InState(r, s) == [r EXCEPT !.state = s]
Submitted(r, user) == [r EXCEPT !.state = "review", !.submitter = user]
Cleared(r) == [r EXCEPT !.state = "released", !.bad = FALSE]

(* The state of a recipe is all that changes.                               *)
LEMMA StateIs ==
  ASSUME NEW r \in RecipeRow, NEW s \in States, NEW user \in Author
  PROVE  /\ InState(r, s) \in RecipeRow /\ InState(r, s).state = s
         /\ InState(r, s).steps = r.steps /\ InState(r, s).used = r.used /\ InState(r, s).parent = r.parent
         /\ Submitted(r, user) \in RecipeRow /\ Submitted(r, user).state = "review"
         /\ Submitted(r, user).steps = r.steps /\ Submitted(r, user).used = r.used
         /\ Submitted(r, user).parent = r.parent
         /\ Cleared(r) \in RecipeRow /\ Cleared(r).state = "released"
         /\ Cleared(r).steps = r.steps /\ Cleared(r).used = r.used /\ Cleared(r).parent = r.parent
<1>1. /\ InState(r, s) \in RecipeRow /\ InState(r, s).state = s
      /\ InState(r, s).steps = r.steps /\ InState(r, s).used = r.used /\ InState(r, s).parent = r.parent
  BY DEF RecipeRow, InState
<1>2. /\ Submitted(r, user) \in RecipeRow /\ Submitted(r, user).state = "review"
      /\ Submitted(r, user).steps = r.steps /\ Submitted(r, user).used = r.used
      /\ Submitted(r, user).parent = r.parent
  BY DEF RecipeRow, Submitted, States
<1>3. /\ Cleared(r) \in RecipeRow /\ Cleared(r).state = "released"
      /\ Cleared(r).steps = r.steps /\ Cleared(r).used = r.used /\ Cleared(r).parent = r.parent
  BY DEF RecipeRow, Cleared, States
<1>4. QED
  BY <1>1, <1>2, <1>3

(* A recipe goes to another state.                                          *)
LEMMA StateSet ==
  ASSUME RecipesAssumed, RecipeInv, NEW i \in DOMAIN recipes, NEW s \in States,
         recipes[i].state \in Revised => s \in Revised,
         s \notin Open => recipes[i].state \notin Open \/ IdsDiffer(recipes[i].steps),
         recipes' = [recipes EXCEPT ![i] = InState(recipes[i], s)], recipeEdits' = recipeEdits
  PROVE  RecipeInv'
<1> DEFINE new == InState(recipes[i], s)
           r == recipes[i]
<1>1. recipes' = [m \in DOMAIN recipes |-> IF m = i THEN new ELSE recipes[m]]
  BY Zenon
<1>2. r \in RecipeRow
  BY RowIs
<1>3. /\ new \in RecipeRow /\ new.state = s /\ new.steps = r.steps /\ new.used = r.used /\ new.parent = r.parent
  <2> HIDE DEF r
  <2>2. InState(r, s) \in RecipeRow /\ InState(r, s).state = s
        /\ InState(r, s).steps = r.steps /\ InState(r, s).used = r.used /\ InState(r, s).parent = r.parent
    <3>1. r.author \in Author
      BY <1>2 DEF RecipeRow
    <3>2. QED
      BY <1>2, <3>1, StateIs
  <2>3. QED
    BY <2>2 DEF r
<1> HIDE DEF new
<1>4. OpenOrDistinct(new)
  BY <1>3 DEF RecipeInv, AllDistinct, OpenOrDistinct
<1>5. QED
  BY <1>1, <1>3, <1>4, RowKept

(* A revision that is released retires its parent, if that is released.     *)
LEMMA RecipeReleased ==
  ASSUME RecipesAssumed, RecipeInv, NEW i \in DOMAIN recipes, Release(i)
  PROVE  RecipeInv'
<1> DEFINE r == recipes[i]
           new == Cleared(r)
           rows == [m \in DOMAIN recipes |-> IF m = i THEN new ELSE recipes[m]]
           p == r.parent
<1>1. recipes' = RetireParent([recipes EXCEPT ![i].state = "released", ![i].bad = FALSE], i)
      /\ recipeEdits' = recipeEdits
  BY Zenon DEF Release
<1>11. OpenOrDistinct(r)
  BY DEF RecipeInv, AllDistinct
<1>12. r.state = "approved"
  BY Zenon DEF Release
<1>2. [recipes EXCEPT ![i].state = "released", ![i].bad = FALSE] = rows
  BY Zenon DEF Cleared
<1>3. r \in RecipeRow /\ recipes \in Seq(RecipeRow) /\ \A m \in DOMAIN recipes : recipes[m] \in RecipeRow
  BY RowIs DEF RecipeInv, RecipeTyped
<1>4. /\ new \in RecipeRow /\ new.state = "released" /\ new.steps = r.steps /\ new.used = r.used
      /\ new.parent = p
  <2>1. r.author \in Author /\ "draft" \in States
    BY <1>3 DEF RecipeRow, States
  <2> HIDE DEF r
  <2>2. QED
    BY <1>3, <2>1, StateIs
<1>5. recipes' = RetireParent(rows, i)
  BY <1>1, <1>2
<1> HIDE DEF new
<1>6. /\ rows \in Seq(RecipeRow) /\ DOMAIN rows = DOMAIN recipes /\ rows[i] = new
      /\ \A m \in DOMAIN recipes : m # i => rows[m] = recipes[m]
  BY <1>3, <1>4
<1> HIDE DEF rows
<1>7. \A m \in DOMAIN recipes :
        /\ rows[m] \in RecipeRow
        /\ rows[m].steps = recipes[m].steps /\ rows[m].used = recipes[m].used /\ rows[m].parent = recipes[m].parent
        /\ recipes[m].state \in Revised => rows[m].state \in Revised
  BY <1>3, <1>4, <1>6 DEF Revised
<1>13. \A m \in DOMAIN recipes : OpenOrDistinct(rows[m])
  <2>1. OpenOrDistinct(new)
    BY <1>4, <1>11, <1>12 DEF OpenOrDistinct, Open
  <2>2. QED
    BY <1>6, <2>1 DEF RecipeInv, AllDistinct
<1>8. CASE p # None /\ rows[p].state = "released"
  <2> DEFINE old == InState(rows[p], "retired")
  <2>1. p \in DOMAIN recipes
    BY <1>8 DEF RecipeInv, ParentsFit
  <2>2. recipes' = [rows EXCEPT ![p] = old]
    BY <1>4, <1>5, <1>6, <1>8, Zenon DEF RetireParent, InState
  <2>3. /\ old \in RecipeRow /\ old.state = "retired" /\ old.steps = rows[p].steps /\ old.used = rows[p].used
        /\ old.parent = rows[p].parent
    <3> DEFINE q == rows[p]
    <3>1. q \in RecipeRow /\ r.author \in Author /\ "retired" \in States
      BY <1>3, <1>7, <2>1 DEF RecipeRow, States
    <3> HIDE DEF q
    <3>2. /\ InState(q, "retired") \in RecipeRow /\ InState(q, "retired").state = "retired"
          /\ InState(q, "retired").steps = q.steps /\ InState(q, "retired").used = q.used
          /\ InState(q, "retired").parent = q.parent
      BY <3>1, StateIs
    <3>3. QED
      BY <3>2 DEF q
  <2>4. recipes' = [m \in DOMAIN rows |-> IF m = p THEN old ELSE rows[m]]
    <3> HIDE DEF old
    <3>1. QED
      BY <2>2, Zenon
  <2> HIDE DEF old
  <2>5. /\ recipes' \in Seq(RecipeRow) /\ DOMAIN recipes' = DOMAIN recipes /\ recipes'[p] = old
        /\ \A m \in DOMAIN recipes : m # p => recipes'[m] = rows[m]
    BY <1>6, <2>1, <2>3, <2>4
  <2>6. \A m \in DOMAIN recipes :
          /\ recipes'[m].steps = recipes[m].steps /\ recipes'[m].used = recipes[m].used
          /\ recipes'[m].parent = recipes[m].parent
          /\ recipes[m].state \in Revised => recipes'[m].state \in Revised
    BY <1>7, <2>1, <2>3, <2>5 DEF Revised
  <2>8. \A m \in DOMAIN recipes : OpenOrDistinct(recipes'[m])
    BY <1>8, <1>13, <2>1, <2>3, <2>5 DEF OpenOrDistinct, Open
  <2>7. QED
    BY <1>1, <2>5, <2>6, <2>8, RowsKept
<1>9. CASE ~(p # None /\ rows[p].state = "released")
  <2>1. recipes' = rows
    BY <1>4, <1>5, <1>6, <1>9 DEF RetireParent
  <2>2. QED
    BY <1>1, <1>6, <1>7, <1>13, <2>1, RowsKept
<1>10. QED
  BY <1>8, <1>9

(* The equipment changes: recipes are marked, and stay as they are.         *)
LEMMA RecipesMarked ==
  ASSUME RecipesAssumed, RecipeInv, NEW able, StationsChange(able)
  PROVE  RecipeInv'
<1> DEFINE touched(i) == recipes[i].state = "released"
                         /\ \E s \in recipes[i].steps : s.cap \in (able \cup offered) \ (able \cap offered)
           mark(i) == ~Able(recipes[i].steps, able)
           row(i) == IF touched(i) THEN [recipes[i] EXCEPT !.bad = mark(i)] ELSE recipes[i]
<1>1. recipes' = [i \in DOMAIN recipes |-> row(i)] /\ recipeEdits' = recipeEdits
  BY Zenon DEF StationsChange
<1>2. recipes \in Seq(RecipeRow)
  BY DEF RecipeInv, RecipeTyped
<1>3. ASSUME NEW i \in DOMAIN recipes
      PROVE  /\ row(i) \in RecipeRow /\ row(i).steps = recipes[i].steps /\ row(i).used = recipes[i].used
             /\ row(i).parent = recipes[i].parent /\ row(i).state = recipes[i].state
  <2> DEFINE r == recipes[i]
             b == mark(i)
             new == [r EXCEPT !.bad = b]
  <2>1. r \in RecipeRow
    BY RowIs
  <2>2. b \in BOOLEAN
    BY DEF Able
  <2> HIDE DEF r, b
  <2>3. /\ new \in RecipeRow /\ new.steps = r.steps /\ new.used = r.used /\ new.parent = r.parent
        /\ new.state = r.state
    BY <2>1, <2>2 DEF RecipeRow
  <2>4. row(i) = new \/ row(i) = r
    BY Zenon DEF r, b
  <2> HIDE DEF new, row
  <2>5. row(i) \in RecipeRow /\ row(i).steps = r.steps /\ row(i).used = r.used /\ row(i).parent = r.parent
        /\ row(i).state = r.state
    BY <2>1, <2>3, <2>4
  <2>6. QED
    BY <2>5 DEF r
<1> HIDE DEF row
<1>4. /\ recipes' \in Seq(RecipeRow) /\ DOMAIN recipes' = DOMAIN recipes
      /\ \A i \in DOMAIN recipes : recipes'[i] = row(i)
  <2>1. DOMAIN recipes = 1..Len(recipes) /\ Len(recipes) \in Nat
    BY <1>2
  <2>2. \A i \in 1..Len(recipes) : row(i) \in RecipeRow
    BY <1>3, <2>1
  <2>3. QED
    BY <1>1, <2>1, <2>2
<1>5. \A i \in DOMAIN recipes :
        /\ recipes'[i].steps = recipes[i].steps /\ recipes'[i].used = recipes[i].used
        /\ recipes'[i].parent = recipes[i].parent
        /\ recipes[i].state \in Revised => recipes'[i].state \in Revised
        /\ OpenOrDistinct(recipes'[i])
  BY <1>3, <1>4 DEF RecipeInv, AllDistinct, OpenOrDistinct
<1>6. QED
  BY <1>1, <1>4, <1>5, RowsKept

(* Nothing is written.                                                      *)
LEMMA RecipesRest == ASSUME RecipeInv, UNCHANGED <<recipes, recipeEdits>> PROVE RecipeInv'
BY DEF RecipeInv, RecipeTyped, IdsBounded, IdsOnce, StepsOld, Limit, AllDistinct, ParentsFit

(* Every step of the model keeps the invariant.                             *)
LEMMA RecipesStep == ASSUME RecipesAssumed, RecipeInv, RecipeNext PROVE RecipeInv'
<1>1. /\ recipes \in Seq(RecipeRow) /\ recipeEdits \in Nat /\ Len(recipes) + 1 \in Nat
      /\ Live \subseteq DOMAIN recipes
  BY DEF RecipeInv, RecipeTyped, Live
\* A recipe that stands for itself.
<1>2. ASSUME NEW user \in Author, NEW steps \in SUBSET StepRow, NEW used \in SUBSET Nat,
             Bounded(used \cup IdsOf(steps)), Newest(steps), \A s \in steps : s.what <= 2 * recipeEdits',
             recipes' = Append(recipes, Recipe(Len(recipes) + 1, None, steps, used, user)), recipeEdits' \in Nat,
             recipeEdits <= recipeEdits'
      PROVE  RecipeInv'
  <2> DEFINE n == Len(recipes) + 1
             new == Recipe(n, None, steps, used, user)
  <2>1. n \in Nat
    BY <1>1
  <2> HIDE DEF n
  <2>2. /\ new \in RecipeRow /\ new.steps = steps /\ new.used = used /\ new.parent = None /\ new.state = "draft"
    BY <2>1 DEF Recipe, RecipeRow, States
  <2>6. OpenOrDistinct(new)
    BY <2>2 DEF OpenOrDistinct, Open
  <2>3. recipes' = Append(recipes, new)
    BY <1>2 DEF n
  <2> HIDE DEF new
  <2>4. Bounded(StepIdsOf(new))
    BY <1>2, <2>2 DEF StepIdsOf
  <2>5. QED
    BY <1>2, <2>2, <2>3, <2>4, <2>6, RecipeAdded
<1>3. ASSUME NEW user \in Author, NEW source \in Live \cup {None}, Create(source, user) PROVE RecipeInv'
  <2>1. recipeEdits' \in Nat /\ recipeEdits <= recipeEdits' /\ recipeEdits' = recipeEdits
    BY <1>1, <1>3 DEF Create
  <2>2. CASE source = None
    <3>1. recipes' = Append(recipes, Recipe(Len(recipes) + 1, None, {}, {}, user))
      BY <1>3, <2>2, Zenon DEF Create
    <3>2. Bounded({} \cup IdsOf({}))
      BY DEF Bounded, IdsOf
    <3>3. Newest({}) /\ \A s \in {} : s.what <= 2 * recipeEdits'
      BY DEF Newest
    <3>4. QED
      BY <1>2, <2>1, <3>1, <3>2, <3>3
  <2>3. CASE source # None
    <3> DEFINE steps == recipes[source].steps
               used == StepIdsOf(recipes[source])
    <3>1. recipes' = Append(recipes, Recipe(Len(recipes) + 1, None, steps, used, user)) /\ source \in DOMAIN recipes
      BY <1>1, <1>3, <2>3, Zenon DEF Create
    <3>2. steps \in SUBSET StepRow /\ used \in SUBSET Nat /\ Bounded(used)
      BY <3>1, RowIs
    <3>3. Newest(steps) /\ \A s \in steps : s.what <= 2 * recipeEdits'
      BY <2>1, <3>1 DEF RecipeInv, IdsOnce, StepsOld, Limit
    <3>4. used \cup IdsOf(steps) = used
      BY DEF StepIdsOf
    <3> HIDE DEF steps, used
    <3>5. QED
      BY <1>2, <2>1, <3>1, <3>2, <3>3, <3>4
  <2>4. QED
    BY <2>2, <2>3
<1>4. ASSUME NEW user \in Author, NEW cap \in Cap, CreateFromSteps(cap, user) PROVE RecipeInv'
  <2> DEFINE one == [id |-> 1, what |-> 2 * recipeEdits + 1, cap |-> cap, sub |-> None, by |-> "editor"]
  <2>1. /\ recipes' = Append(recipes, Recipe(Len(recipes) + 1, None, {one}, {1}, user))
        /\ recipeEdits' = recipeEdits + 1
    BY <1>4, Zenon DEF CreateFromSteps
  <2>2. one \in StepRow /\ one.id = 1 /\ one.what <= 2 * recipeEdits' /\ one.by = "editor"
    BY <2>1, <1>1 DEF StepRow
  <2> HIDE DEF one
  <2> DEFINE steps == {one}
             ids == {1}
  <2>3. steps \in SUBSET StepRow /\ ids \in SUBSET Nat /\ Newest(steps)
        /\ \A s \in steps : s.what <= 2 * recipeEdits'
    BY <2>2 DEF Newest
  <2>4. Bounded(ids \cup IdsOf(steps))
    <3>1. \A m \in ids \cup IdsOf(steps) : m <= 1
      BY <2>2 DEF IdsOf
    <3>2. QED
      BY <3>1 DEF Bounded
  <2>5. recipes' = Append(recipes, Recipe(Len(recipes) + 1, None, steps, ids, user))
        /\ recipeEdits' \in Nat /\ recipeEdits <= recipeEdits'
    BY <1>1, <2>1
  <2> HIDE DEF steps, ids
  <2>6. QED
    BY <1>2, <2>3, <2>4, <2>5
<1>5. ASSUME NEW user \in Author, NEW i \in Live, SubmitRecipe(i, user) PROVE RecipeInv'
  <2> DEFINE r == recipes[i]
             new == Submitted(r, user)
  <2>1. /\ recipes[i].state = "draft" /\ recipeEdits' = recipeEdits /\ i \in DOMAIN recipes
        /\ recipes' = [recipes EXCEPT ![i].state = "review", ![i].submitter = user] /\ IdsDiffer(r.steps)
    BY <1>1, <1>5, Zenon DEF SubmitRecipe, IsValid
  <2>2. recipes' = [m \in DOMAIN recipes |-> IF m = i THEN new ELSE recipes[m]]
    BY <2>1, Zenon DEF Submitted
  <2>3. r \in RecipeRow /\ "draft" \in States
    BY <2>1, RowIs DEF States
  <2> HIDE DEF r
  <2>4. new \in RecipeRow /\ new.steps = r.steps /\ new.used = r.used /\ new.parent = r.parent
    BY <2>3, StateIs
  <2> HIDE DEF new
  <2>5. r.state \notin Revised /\ OpenOrDistinct(new)
    BY <2>1, <2>4 DEF r, Revised, OpenOrDistinct
  <2>6. QED
    BY <2>1, <2>2, <2>4, <2>5, RowKept DEF r
<1>6. ASSUME NEW user \in Author, NEW i \in Live, CreateRevision(i, user) PROVE RecipeInv'
  <2> DEFINE r == recipes[i]
             used == StepIdsOf(r)
             new == Recipe(r.root, i, r.steps, used, user)
  <2>1. /\ r.state = "released" /\ recipes' = Append(recipes, new) /\ recipeEdits' = recipeEdits
        /\ i \in DOMAIN recipes
    BY <1>1, <1>6, Zenon DEF CreateRevision
  <2>2. /\ r \in RecipeRow /\ used \in SUBSET Nat /\ Bounded(used) /\ i \in Nat /\ i # None
        /\ \A s \in r.steps : s \in StepRow
    BY <2>1, RowIs
  <2>3. new \in RecipeRow /\ new.steps = r.steps /\ new.used = used /\ new.parent = i /\ new.state = "draft"
    <3> HIDE DEF r, used
    <3>1. QED
      BY <2>2 DEF Recipe, RecipeRow, States
  <2> HIDE DEF new
  <2>4. StepIdsOf(new) = used
    BY <2>3 DEF StepIdsOf
  <2>5. Newest(new.steps) /\ OpenOrDistinct(new) /\ \A s \in new.steps : s.what <= 2 * recipeEdits'
    BY <2>1, <2>3 DEF RecipeInv, IdsOnce, StepsOld, Limit, OpenOrDistinct, Open
  <2>6. TakenOver(new, r)
    BY <2>3, <2>4 DEF TakenOver, SameStep
  <2>7. QED
    BY <1>1, <2>1, <2>2, <2>3, <2>4, <2>5, <2>6, RecipeAdded DEF Revised
<1>7. ASSUME NEW i \in Live, NEW steps \in Edited(recipes[i].steps), Patch(i, steps) PROVE RecipeInv'
  BY <1>1, <1>7, RecipePatched
<1>8. ASSUME NEW i \in Live, NEW user \in Approver, ApproveRecipe(i, user) PROVE RecipeInv'
  <2>1. /\ recipes[i].state = "review" /\ recipeEdits' = recipeEdits
        /\ recipes' = [recipes EXCEPT ![i] = InState(recipes[i], "approved")]
    BY <1>8, Zenon DEF ApproveRecipe, InState
  <2>2. "approved" \in States /\ recipes[i].state \notin Revised /\ recipes[i].state \notin Open
    BY <2>1 DEF States, Revised, Open
  <2>3. QED
    BY <1>1, <2>1, <2>2, StateSet
<1>9. ASSUME NEW i \in Live, Release(i) PROVE RecipeInv'
  BY <1>1, <1>9, RecipeReleased
<1>10. ASSUME NEW i \in Live, RetireRecipe(i) PROVE RecipeInv'
  <2>1. /\ recipeEdits' = recipeEdits /\ recipes' = [recipes EXCEPT ![i] = InState(recipes[i], "retired")]
        /\ recipes[i].state = "released"
    BY <1>10, Zenon DEF RetireRecipe, InState
  <2>2. "retired" \in States /\ "retired" \in Revised /\ recipes[i].state \notin Open
    BY <2>1 DEF States, Revised, Open
  <2>3. QED
    BY <1>1, <2>1, <2>2, StateSet
<1>11. ASSUME NEW i \in Live, DeleteRecipe(i) PROVE RecipeInv'
  <2>1. /\ recipes[i].state = "draft" /\ recipeEdits' = recipeEdits
        /\ recipes' = [recipes EXCEPT ![i] = InState(recipes[i], "deleted")]
    BY <1>11, Zenon DEF DeleteRecipe, DeletableRecipe, InState
  <2>2. "deleted" \in States /\ recipes[i].state \notin Revised /\ "deleted" \in Open
    BY <2>1 DEF States, Revised, Open
  <2>3. QED
    BY <1>1, <2>1, <2>2, StateSet
<1>12. ASSUME UNCHANGED <<recipes, recipeEdits>> PROVE RecipeInv'
  BY <1>12, RecipesRest
<1>13. ASSUME NEW i \in Live, CreateRun(i) PROVE RecipeInv'
  BY <1>12, <1>13 DEF CreateRun
<1>14. ASSUME NEW i \in Live, NEW b \in DOMAIN frozenRuns, SetGoldenBatch(i, b) PROVE RecipeInv'
  BY <1>12, <1>14 DEF SetGoldenBatch
<1>15. ASSUME NEW able \in SUBSET Cap, StationsChange(able) PROVE RecipeInv'
  BY <1>15, RecipesMarked
<1>16. QED
  BY <1>3, <1>4, <1>5, <1>6, <1>7, <1>8, <1>9, <1>10, <1>11, <1>13, <1>14, <1>15 DEF RecipeNext

(* There are no recipes at the beginning.                                   *)
LEMMA RecipesStart == ASSUME RecipeInit PROVE RecipeInv
<1>1. recipes = <<>> /\ DOMAIN recipes = {} /\ recipeEdits = 0
  BY DEF RecipeInit
<1>2. RecipeTyped
  BY <1>1 DEF RecipeTyped
<1>3. QED
  BY <1>1, <1>2 DEF RecipeInv, IdsBounded, IdsOnce, StepsOld, AllDistinct, ParentsFit

(* What leaves the recipes alone keeps the invariant.                       *)
LEMMA RecipesStay == ASSUME RecipeInv, UNCHANGED recipeVars PROVE RecipeInv'
BY RecipesRest DEF recipeVars

(* For any people, stations and bounds: an identifier that the system gives  *)
(* names no step that was there before, whatever identifiers editors bring  *)
(* along, and in a submitted recipe each names one step                     *)
(* (domain/steps.py assign_step_ids, domain/recipe_rules.py:188).           *)
THEOREM RecipesHold == RecipesAssumed => (RecipeSpec => []IdsNameOneStep)
<1>1. SUFFICES ASSUME RecipesAssumed PROVE RecipeSpec => []IdsNameOneStep
  OBVIOUS
<1>2. RecipeInit => RecipeInv
  BY RecipesStart
<1>3. RecipeInv /\ [RecipeNext]_recipeVars => RecipeInv'
  BY <1>1, RecipesStep, RecipesStay
<1>4. RecipeInv => IdsNameOneStep
  BY <1>1, IdsSuffice
<1>5. QED
  BY <1>2, <1>3, <1>4, PTL DEF RecipeSpec

=============================================================================
