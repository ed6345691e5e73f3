-------------------------------- MODULE Recipes --------------------------------
(*****************************************************************************)
(* Recipes and their revisions: the steps with the identifiers that survive  *)
(* every edit, sub-flows that take another recipe whole, review, release and *)
(* retirement, the equipment that may take away what a recipe needs, and the *)
(* batches that freeze it. Every handler is one transaction. A signature is  *)
(* given on the recipe as it stands; what the procedure and the simulation   *)
(* say of a recipe is left open: an action they forbid is not taken. Of the  *)
(* steps added by one edit one at most comes without an identifier.          *)
(*****************************************************************************)
EXTENDS Integers, Sequences, FiniteSets

CONSTANTS
  None,
  Author, Approver,  \* who may write recipes, who may approve and release them
  Cap,               \* what stations can be able to do
  MaxRecipes, MaxRecipeEdits, MaxRecipeRuns, MaxUpsets,  \* bounds
  MaxDepth           \* how deep sub-flows may nest

VARIABLES
  recipes,      \* the recipes in the order of their creation: [root, parent, state, steps,
                \*   used, author, submitter, bad]; steps: set of [id, what, cap, sub, by],
                \*   what: the order in which they were added, by: who gave the identifier
  offered,      \* what the stations are able to do
  frozenRuns,   \* the batches: the recipe of each
  golden,       \* the reference batch of a recipe
  recipeEdits,  \* edits so far; they number what people add
  upsets        \* changes of the equipment so far (bound)

recipeVars == <<recipes, offered, frozenRuns, golden, recipeEdits, upsets>>

Live == {i \in DOMAIN recipes : recipes[i].state # "deleted"}

-----------------------------------------------------------------------------
(* Step identifiers.                                                        *)

IdsOf(steps) == {s.id : s \in steps} \ {None}
Top(ids) == IF ids = {} THEN 0 ELSE CHOOSE n \in ids : \A m \in ids : m <= n

StepIdsOf(r) == r.used \cup IdsOf(r.steps)

\* Only the steps that are there now are looked at.
AssignStepIds_Mut(steps, used) ==
  {IF s.id = None THEN [s EXCEPT !.id = Top(IdsOf(steps)) + 1] ELSE s : s \in steps}

\* An identifier that comes with a step is kept, whatever it has named before. A
\* step without one gets the first number above all that were ever used that no
\* step before it has taken.
AssignStepIds(steps, used) ==
  LET taken(s) == used \cup IdsOf({t \in steps : t.what < s.what})
      free(s) == ((Top(used) + 1)..(Top(taken(s)) + 1)) \ taken(s)
      number(s) == CHOOSE n \in free(s) : \A m \in free(s) : n <= m IN
  {IF s.id = None THEN [s EXCEPT !.id = number(s)] ELSE s : s \in steps}

IdsDiffer(steps) == \A s, t \in steps : s.id = t.id => s = t

-----------------------------------------------------------------------------
(* Sub-flows: another recipe, released and in order, taken in whole.        *)

Subs(i) == {s.sub : s \in recipes[i].steps} \ {None}

\* The ways from recipe i into one sub-flow after the other.
Ways(i) ==
  {p \in UNION {[1..n -> DOMAIN recipes] : n \in DOMAIN recipes} :
     p[1] = i /\ \A k \in 2..Len(p) : p[k] \in Subs(p[k - 1]) \ {p[j] : j \in 1..(k - 1)}}

Expands(i) ==
  \A p \in Ways(i) : \A j \in Subs(p[Len(p)]) :
    /\ \A k \in DOMAIN p : p[k] # j
    /\ Len(p) <= MaxDepth
    /\ recipes[j].state = "released" /\ ~recipes[j].bad /\ recipes[j].steps # {}

\* Every step can be done by some station.
Able(steps, by) == \A s \in steps : s.sub = None => s.cap \in by

IsValid(i) == IdsDiffer(recipes[i].steps) /\ Able(recipes[i].steps, offered) /\ Expands(i)

-----------------------------------------------------------------------------
Recipe(root, parent, steps, used, user) ==
  [root |-> root, parent |-> parent, state |-> "draft", steps |-> steps, used |-> used,
   author |-> user, submitter |-> None, bad |-> FALSE]

RecipeInit ==
  /\ recipes = <<>> /\ offered = Cap /\ frozenRuns = <<>> /\ golden = {}
  /\ recipeEdits = 0 /\ upsets = 0

\* A new recipe, empty or a copy of another one.
Create(source, user) ==
  /\ Len(recipes) < MaxRecipes
  /\ recipes' = Append(recipes,
       IF source = None THEN Recipe(Len(recipes) + 1, None, {}, {}, user)
       ELSE Recipe(Len(recipes) + 1, None, recipes[source].steps, StepIdsOf(recipes[source]), user))
  /\ UNCHANGED <<offered, frozenRuns, golden, recipeEdits, upsets>>

\* A recipe written elsewhere, from a procedure or from a formulation.
CreateFromSteps(cap, user) ==
  /\ Len(recipes) < MaxRecipes /\ recipeEdits < MaxRecipeEdits
  /\ recipes' = Append(recipes, Recipe(Len(recipes) + 1, None,
       {[id |-> 1, what |-> 2 * recipeEdits + 1, cap |-> cap, sub |-> None, by |-> "editor"]}, {1}, user))
  /\ recipeEdits' = recipeEdits + 1
  /\ UNCHANGED <<offered, frozenRuns, golden, upsets>>

\* A new step, the k-th of an edit, with the identifier the editor gives it or none.
NewStep(id, k, c, s) ==
  [id |-> id, what |-> 2 * recipeEdits + k, cap |-> c, sub |-> s, by |-> IF id = None THEN "system" ELSE "editor"]

\* One step more, with an identifier or without, or one of each.
Additions ==
  LET names == 1..(recipeEdits + 1) IN
  {{NewStep(id, 1, c, None)} : id \in names \cup {None}, c \in Cap}
  \cup {{NewStep(None, 1, None, j)} : j \in Live}
  \cup {{NewStep(id, 1, c, None), NewStep(None, 2, c, None)} : id \in names, c \in Cap}
  \cup {{NewStep(None, 1, c, None), NewStep(id, 2, c, None)} : id \in names, c \in Cap}

\* What an editor makes of the steps: more, one less or for others, one done otherwise.
Edited(steps) ==
  {steps \cup new : new \in Additions} \cup {steps \ {s} : s \in steps}
  \cup {(steps \ {s}) \cup new : s \in steps, new \in Additions}
  \cup UNION {{(steps \ {s}) \cup {[s EXCEPT !.cap = c]} : c \in Cap} : s \in {t \in steps : t.sub = None}}

Patch(i, steps) ==
  /\ recipes[i].state = "draft"
  /\ recipeEdits < MaxRecipeEdits /\ recipeEdits' = recipeEdits + 1
  /\ \E used \in {StepIdsOf(recipes[i])} : \E given \in {AssignStepIds(steps, used)} :
       recipes' = [recipes EXCEPT ![i].steps = given, ![i].used = used \cup IdsOf(given)]
  /\ UNCHANGED <<offered, frozenRuns, golden, upsets>>

SubmitRecipe(i, user) ==
  /\ recipes[i].state = "draft" /\ recipes[i].steps # {} /\ IsValid(i)
  /\ recipes' = [recipes EXCEPT ![i].state = "review", ![i].submitter = user]
  /\ UNCHANGED <<offered, frozenRuns, golden, recipeEdits, upsets>>

ApproveRecipe(i, user) ==
  /\ recipes[i].state = "review" /\ IsValid(i)
  /\ user \notin {recipes[i].author, recipes[i].submitter}
  /\ recipes' = [recipes EXCEPT ![i].state = "approved"]
  /\ UNCHANGED <<offered, frozenRuns, golden, recipeEdits, upsets>>

\* A revision that is released takes the place of the one it was made from, if
\* that one is released.
RetireParent(rows, i) ==
  IF rows[i].parent # None /\ rows[rows[i].parent].state = "released"
  THEN [rows EXCEPT ![rows[i].parent].state = "retired"] ELSE rows

Release(i) ==
  /\ recipes[i].state = "approved" /\ IsValid(i)
  /\ recipes' = RetireParent([recipes EXCEPT ![i].state = "released", ![i].bad = FALSE], i)
  /\ UNCHANGED <<offered, frozenRuns, golden, recipeEdits, upsets>>

RetireRecipe(i) ==
  /\ recipes[i].state = "released"
  /\ recipes' = [recipes EXCEPT ![i].state = "retired"]
  /\ UNCHANGED <<offered, frozenRuns, golden, recipeEdits, upsets>>

CreateRevision(i, user) ==
  /\ recipes[i].state = "released" /\ Len(recipes) < MaxRecipes
  /\ recipes' = Append(recipes,
       Recipe(recipes[i].root, i, recipes[i].steps, StepIdsOf(recipes[i]), user))
  /\ UNCHANGED <<offered, frozenRuns, golden, recipeEdits, upsets>>

DeletableRecipe(i) ==
  /\ recipes[i].state = "draft"
  /\ \A b \in DOMAIN frozenRuns : frozenRuns[b] # i
  /\ \A j \in Live : recipes[j].parent # i

DeleteRecipe(i) ==
  /\ DeletableRecipe(i)
  /\ recipes' = [recipes EXCEPT ![i].state = "deleted"]
  /\ UNCHANGED <<offered, frozenRuns, golden, recipeEdits, upsets>>

\* A station is changed or taken out: every recipe at or past the review that uses
\* what it could do is looked at again. Sub-flows are not followed.
StationsChange(able) ==
  /\ upsets < MaxUpsets /\ able # offered
  /\ upsets' = upsets + 1 /\ offered' = able
  /\ recipes' = [i \in DOMAIN recipes |->
       IF recipes[i].state = "released" /\ \E s \in recipes[i].steps : s.cap \in (able \cup offered) \ (able \cap offered)
       THEN [recipes[i] EXCEPT !.bad = ~Able(recipes[i].steps, able)] ELSE recipes[i]]
  /\ UNCHANGED <<frozenRuns, golden, recipeEdits>>

\* A batch freezes the steps with those of the sub-flows.
CreateRun(i) ==
  /\ recipes[i].state = "released" /\ ~recipes[i].bad /\ Expands(i)
  /\ Len(frozenRuns) < MaxRecipeRuns
  /\ frozenRuns' = Append(frozenRuns, i)
  /\ UNCHANGED <<recipes, offered, golden, recipeEdits, upsets>>

SetGoldenBatch(i, b) ==
  /\ golden' = {g \in golden : g[1] # i} \cup {<<i, b>>}
  /\ UNCHANGED <<recipes, offered, frozenRuns, recipeEdits, upsets>>

RecipeNext ==
  \/ \E user \in Author :
       \/ \E source \in Live \cup {None} : Create(source, user)
       \/ \E cap \in Cap : CreateFromSteps(cap, user)
       \/ \E i \in Live : SubmitRecipe(i, user) \/ CreateRevision(i, user)
  \/ \E i \in Live :
       \/ \E steps \in Edited(recipes[i].steps) : Patch(i, steps)
       \/ \E user \in Approver : ApproveRecipe(i, user)
       \/ Release(i) \/ RetireRecipe(i) \/ DeleteRecipe(i) \/ CreateRun(i)
       \/ \E b \in DOMAIN frozenRuns : SetGoldenBatch(i, b)
  \/ \E able \in SUBSET Cap : StationsChange(able)

RecipeSpec == RecipeInit /\ [][RecipeNext]_recipeVars

-----------------------------------------------------------------------------
(* Properties.                                                              *)

\* An identifier the system gives to a step names no other step that has been there
\* before, in the recipe or in the versions it was revised from, through every edit,
\* deletion and addition between, whatever identifiers the editors have brought
\* along (domain/steps.py assign_step_ids); and in a recipe that is submitted every
\* identifier names one step, so that batches and dependencies may go by it
\* (domain/recipe_rules.py:188).
Ancestors(i) ==
  {j \in DOMAIN recipes : recipes[j].root = recipes[i].root /\ j <= i
     /\ (j = i \/ j = recipes[i].parent
         \/ (recipes[i].parent # None /\ j = recipes[recipes[i].parent].parent))}

IdsNameOneStep ==
  \A i \in DOMAIN recipes :
    /\ \A j \in Ancestors(i) : \A s \in recipes[i].steps, t \in recipes[j].steps :
         s.by = "system" /\ s.id = t.id => s.what <= t.what
    /\ recipes[i].state \notin {"draft", "deleted"} => IdsDiffer(recipes[i].steps)

\* Of a recipe and its revisions one at most is released
\* (services/recipe_service.py:503).
OneReleased ==
  \A i, j \in DOMAIN recipes :
    recipes[i].root = recipes[j].root /\ recipes[i].state = "released" /\ recipes[j].state = "released"
    => i = j

=============================================================================
