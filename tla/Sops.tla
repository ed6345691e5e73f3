--------------------------------- MODULE Sops ---------------------------------
(*****************************************************************************)
(* The versions of one standard operating procedure, the periods for which   *)
(* they are in effect, the recipe made from one of them, and the batches     *)
(* that freeze the version in effect when they are created. A recipe keeps   *)
(* the version it was made from; its steps find their instructions in the    *)
(* version in effect by the key of the step. Every handler is one            *)
(* transaction.                                                              *)
(*****************************************************************************)
EXTENDS Integers, Sequences, FiniteSets

CONSTANTS
  None,
  Author, Approver,  \* who may write versions, who may decide on them
  Trainee,           \* who works by them
  Kind, Title,       \* kinds of steps, and what they are called
  MaxClock, MaxSops, MaxSopEdits, MaxSopBatches, MaxSopSteps  \* bounds

VARIABLES
  clock,     \* the time
  sop,       \* the versions: [state, from, to, next, file, training, steps, author]
  nextKey,   \* keys given to steps so far
  ack,       \* who has acknowledged which version
  recipe,    \* the recipe made from a version: [linked, steps]
  frozen,    \* the batches: the version each one froze, and whether it still runs
  sopEdits   \* edits so far (bound)

sopVars == <<clock, sop, nextKey, ack, recipe, frozen, sopEdits>>

Moment == 0..MaxClock

-----------------------------------------------------------------------------
(* A version is in effect in the period it was published for.               *)

Effective(v, m) ==
  v.state = "published" /\ v.from <= m /\ (v.to # None => v.to > m)

EffectiveOnes(m) == {i \in DOMAIN sop : Effective(sop[i], m)}

\* The one to use at a moment: the latest that has come into effect.
InEffect(m) ==
  IF EffectiveOnes(m) = {} THEN None
  ELSE CHOOSE i \in EffectiveOnes(m) : \A j \in EffectiveOnes(m) : sop[j].from <= sop[i].from

Status(v, m) ==
  IF v.state # "published" THEN v.state
  ELSE IF v.from > m THEN "pending"
  ELSE IF v.to # None /\ v.to <= m THEN IF v.next # None THEN "superseded" ELSE "expired"
  ELSE "effective"

WindowOk(from, to) == None \notin {from, to} => from < to

-----------------------------------------------------------------------------
(* Steps and their keys.                                                    *)

\* Steps that are new, or carry a key an earlier one of the list carries, get a
\* key of their own; the others keep theirs.
WithKeys_Mut(steps, given) == [n \in DOMAIN steps |-> [steps[n] EXCEPT !.key = given + n]]

WithKeys(steps, given) ==
  LET kept(n) == steps[n].key # None /\ \A i \in 1..(n - 1) : steps[i].key # steps[n].key
      fresh(n) == given + Cardinality({i \in 1..n : ~kept(i)}) IN
  [n \in DOMAIN steps |-> IF kept(n) THEN steps[n] ELSE [steps[n] EXCEPT !.key = fresh(n)]]

KeysGiven(steps) ==
  LET keys == {steps[n].key : n \in DOMAIN steps} IN
  IF keys = {} THEN 0 ELSE CHOOSE k \in keys : \A j \in keys : j <= k

\* Where the instructions of a recipe step are: under its key; for a recipe older
\* than the keys at its position, in the version it was made from; and otherwise
\* in the only step of its kind, or the only one of them with its title.
Guide(step, steps, made, linked) ==
  LET at(k) == {n \in DOMAIN steps : steps[n].key = k}
      kin == {n \in DOMAIN steps : steps[n].kind = step.kind}
      like == IF Cardinality(kin) > 1 THEN {n \in kin : steps[n].title = step.title} ELSE kin IN
  CASE step.key # None /\ at(step.key) # {} -> CHOOSE n \in at(step.key) : TRUE
    [] step.key = None /\ ~made /\ step.pos \in DOMAIN steps -> step.pos
    [] ~(step.key # None /\ at(step.key) # {}) /\ made /\ step.pos \in DOMAIN linked /\ at(linked[step.pos].key) # {} ->
         CHOOSE n \in at(linked[step.pos].key) : TRUE
    [] OTHER -> IF Cardinality(like) = 1 THEN CHOOSE n \in like : TRUE ELSE None

\* The guide of step n of the recipe under version i of the procedure.
GuideUnder(n, i) ==
  Guide(recipe.steps[n], sop[i].steps, i # recipe.linked, sop[recipe.linked].steps)

-----------------------------------------------------------------------------
SopInit ==
  /\ clock = 0 /\ sop = <<>> /\ nextKey = 0 /\ ack = {} /\ frozen = <<>> /\ sopEdits = 0
  /\ recipe = [linked |-> None, steps |-> <<>>]

Pass ==
  /\ clock < MaxClock /\ clock' = clock + 1
  /\ UNCHANGED <<sop, nextKey, ack, recipe, frozen, sopEdits>>

Version(user, file, steps) ==
  [state |-> "draft", from |-> None, to |-> None, next |-> None, file |-> file, training |-> Trainee # {},
   steps |-> steps, author |-> user]

\* A new version, empty or with the steps of the one in effect.
CreateVersion(user, file, copied) ==
  /\ Len(sop) < MaxSops
  /\ sop' = Append(sop, Version(user, file,
       IF copied /\ InEffect(clock) # None THEN sop[InEffect(clock)].steps ELSE <<>>))
  /\ UNCHANGED <<clock, nextKey, ack, recipe, frozen, sopEdits>>

\* Meta data, the document and the period, while it is a draft.
UpdateVersion(i, from, to, training) ==
  /\ sop[i].state = "draft" /\ WindowOk(from, to)
  /\ sopEdits < MaxSopEdits /\ sopEdits' = sopEdits + 1
  /\ sop' = [sop EXCEPT ![i].from = from, ![i].to = to, ![i].training = training, ![i].file = TRUE]
  /\ UNCHANGED <<clock, nextKey, ack, recipe, frozen>>

UpdateSteps(i, steps) ==
  /\ sop[i].state = "draft"
  /\ sopEdits < MaxSopEdits /\ sopEdits' = sopEdits + 1
  /\ \E keyed \in {WithKeys(steps, nextKey)} :
       /\ sop' = [sop EXCEPT ![i].steps = keyed]
       /\ nextKey' = IF KeysGiven(keyed) > nextKey THEN KeysGiven(keyed) ELSE nextKey
  /\ UNCHANGED <<clock, ack, recipe, frozen>>

\* What an editor makes of a list of steps: one more, one less, another order, or
\* a new list. id is the step as people know it: the edit that wrote it, and where.
NewStep(k, n) == [id |-> <<sopEdits, n>>, kind |-> k[1], title |-> k[2], key |-> None]

Rewritten(steps) ==
  {Append(steps, NewStep(k, 1)) : k \in Kind \X Title}
  \cup {[n \in 1..(Len(steps) - 1) |-> IF n < d THEN steps[n] ELSE steps[n + 1]] : d \in DOMAIN steps}
  \cup {[n \in DOMAIN steps |-> steps[Len(steps) + 1 - n]]}
  \cup {[n \in 1..MaxSopSteps |-> NewStep(f[n], n)] : f \in [1..MaxSopSteps -> Kind \X Title]}

\* Back to an earlier version: a new draft with its contents and no period.
Restore(i, user) ==
  /\ Len(sop) < MaxSops
  /\ \A j \in DOMAIN sop : sop[j].state \notin {"draft", "review"}
  /\ sop' = Append(sop, [Version(user, sop[i].file, sop[i].steps) EXCEPT !.training = sop[i].training])
  /\ UNCHANGED <<clock, nextKey, ack, recipe, frozen, sopEdits>>

SubmitVersion(i) ==
  /\ sop[i].state = "draft" /\ sop[i].file /\ WindowOk(sop[i].from, sop[i].to)
  /\ sop' = [sop EXCEPT ![i].state = "review"]
  /\ UNCHANGED <<clock, nextKey, ack, recipe, frozen, sopEdits>>

Reject(i, user) ==
  /\ sop[i].state = "review" /\ sop[i].author # user
  /\ sopEdits < MaxSopEdits /\ sopEdits' = sopEdits + 1
  /\ sop' = [sop EXCEPT ![i].state = "draft"]
  /\ UNCHANGED <<clock, nextKey, ack, recipe, frozen>>

\* No version takes effect before the one in effect now did; back in time only
\* with a reason.
FromOk(i, from, reason) ==
  /\ \A c \in {InEffect(clock)} \ {None, i} : from >= sop[c].from
  /\ from < clock => reason

\* The versions published before give way from the moment the new one takes
\* effect; the new one ends where one published for later begins.
GivesWay(o, from) == o.state = "published" /\ (o.to # None => o.to > from)

\* A version for later does not end the new one.
Published_Mut(i, from) ==
  [j \in DOMAIN sop |->
     CASE j = i -> [sop[i] EXCEPT !.state = "published", !.from = from]
       [] j # i /\ GivesWay(sop[j], from) /\ sop[j].from <= from -> [sop[j] EXCEPT !.to = from, !.next = i]
       [] OTHER -> sop[j]]

Published(i, from) ==
  LET later == {j \in DOMAIN sop \ {i} : GivesWay(sop[j], from) /\ sop[j].from > from}
      end == {sop[j].from : j \in later} \cup ({sop[i].to} \ {None})
      last == IF later = {} THEN None ELSE CHOOSE j \in later : \A k \in later : j >= k IN
  [j \in DOMAIN sop |->
     CASE j = i -> [sop[i] EXCEPT !.state = "published", !.from = from, !.next = last,
                                  !.to = IF end = {} THEN None ELSE CHOOSE e \in end : \A f \in end : e <= f]
       [] j # i /\ GivesWay(sop[j], from) /\ j \notin later -> [sop[j] EXCEPT !.to = from, !.next = i]
       [] OTHER -> sop[j]]

Approve(i, user, asked, reason) ==
  /\ sop[i].state = "review" /\ sop[i].author # user
  /\ \E from \in {IF asked # None THEN asked ELSE IF sop[i].from # None THEN sop[i].from ELSE clock} :
       /\ WindowOk(from, sop[i].to) /\ FromOk(i, from, reason)
       /\ sop' = Published(i, from)
  /\ UNCHANGED <<clock, nextKey, ack, recipe, frozen, sopEdits>>

Retire(i) ==
  /\ sop[i].state = "published"
  /\ sop' = [sop EXCEPT ![i].state = "retired"]
  /\ UNCHANGED <<clock, nextKey, ack, recipe, frozen, sopEdits>>

Acknowledge(i, user) ==
  /\ sop[i].state = "published" /\ Status(sop[i], clock) \notin {"superseded", "expired"}
  /\ <<i, user>> \notin ack
  /\ ack' = ack \cup {<<i, user>>}
  /\ UNCHANGED <<clock, sop, nextKey, recipe, frozen, sopEdits>>

\* A recipe is made from the steps of a published version and linked to it; one
\* that was made before the steps had keys names positions only.
GenerateRecipe(i, old) ==
  /\ recipe.linked = None /\ sop[i].state = "published" /\ sop[i].steps # <<>>
  /\ recipe' = [linked |-> i, steps |-> [n \in DOMAIN sop[i].steps |->
       [pos |-> n, kind |-> sop[i].steps[n].kind, title |-> sop[i].steps[n].title, id |-> sop[i].steps[n].id,
        key |-> IF old THEN None ELSE sop[i].steps[n].key]]]
  /\ UNCHANGED <<clock, sop, nextKey, ack, frozen, sopEdits>>

\* The version a new batch works by: the linked one, or what is in effect instead.
ForNewBatch(linked) == IF Effective(sop[linked], clock) THEN linked ELSE InEffect(clock)

CreateBatch ==
  /\ recipe.linked # None /\ Len(frozen) < MaxSopBatches
  /\ ForNewBatch(recipe.linked) # None
  /\ frozen' = Append(frozen, [version |-> ForNewBatch(recipe.linked), at |-> clock, state |-> "planned"])
  /\ UNCHANGED <<clock, sop, nextKey, ack, recipe, sopEdits>>

\* Who starts a batch has acknowledged the version it froze, if that asks for it.
AckBlockers(i, user) == sop[i].training /\ <<i, user>> \notin ack

AcknowledgeForBatch(b, user) ==
  /\ frozen[b].state # "done"
  /\ AckBlockers(frozen[b].version, user)
  /\ sop[frozen[b].version].state \in {"published", "retired"}
  /\ ack' = ack \cup {<<frozen[b].version, user>>}
  /\ UNCHANGED <<clock, sop, nextKey, recipe, frozen, sopEdits>>

StartBatch(b, user) ==
  /\ frozen[b].state = "planned" /\ ~AckBlockers(frozen[b].version, user)
  /\ frozen' = [frozen EXCEPT ![b].state = "running"]
  /\ UNCHANGED <<clock, sop, nextKey, ack, recipe, sopEdits>>

FinishSopBatch(b) ==
  /\ frozen[b].state = "running"
  /\ frozen' = [frozen EXCEPT ![b].state = "done"]
  /\ UNCHANGED <<clock, sop, nextKey, ack, recipe, sopEdits>>

SopNext ==
  \/ Pass
  \/ \E user \in Author, file, copied \in BOOLEAN : CreateVersion(user, file, copied)
  \/ CreateBatch
  \/ \E i \in DOMAIN sop :
       \/ \E from, to \in Moment \cup {None}, training \in {FALSE, Trainee # {}} : UpdateVersion(i, from, to, training)
       \/ \E steps \in Rewritten(sop[i].steps) : UpdateSteps(i, steps)
       \/ SubmitVersion(i) \/ Retire(i)
       \/ \E user \in Author : Restore(i, user)
       \/ \E user \in Approver :
            \/ Reject(i, user)
            \/ \E asked \in Moment \cup {None}, reason \in BOOLEAN : Approve(i, user, asked, reason)
       \/ \E user \in Trainee : Acknowledge(i, user)
       \/ \E old \in BOOLEAN : GenerateRecipe(i, old)
  \/ \E b \in DOMAIN frozen :
       \/ \E user \in Trainee : AcknowledgeForBatch(b, user) \/ StartBatch(b, user)
       \/ FinishSopBatch(b)

SopSpec == SopInit /\ [][SopNext]_sopVars

-----------------------------------------------------------------------------
(* Properties.                                                              *)

\* At no moment, past or to come, are two versions in effect, whatever the order
\* in which versions for now, for later and for earlier are approved and retired
\* (services/sop_service.py decide: the new one takes over, or ends where the
\* next begins).
OneInEffect == \A m \in Moment : Cardinality(EffectiveOnes(m)) <= 1

\* A step of the recipe that the version in effect still has is guided by that
\* step, not by another one and not by none (domain/sop_steps.py resolve_step).
GuidedByItsOwn ==
  \A n \in DOMAIN recipe.steps : \A i \in {InEffect(clock)} \ {None} :
    (\E p \in DOMAIN sop[i].steps : sop[i].steps[p].id = recipe.steps[n].id)
    => \E p \in {GuideUnder(n, i)} : p # None /\ sop[i].steps[p].id = recipe.steps[n].id

=============================================================================
