---------------------------- MODULE Sops_proofs ----------------------------
(***************************************************************************)
(* For every number of versions, edits, steps and moments: no two versions *)
(* of a procedure are in effect at a time, and a step of the recipe is     *)
(* guided by the step it was made from wherever the version in effect      *)
(* still has it.                                                           *)
(***************************************************************************)
EXTENDS Sops, FiniteSetTheorems, WellFoundedInduction, TLAPS

(* Times, positions, keys and versions are numbers, and None is none.       *)
SopsAssumed == None \notin Nat /\ MaxClock \in Nat /\ MaxSopSteps \in Nat

-----------------------------------------------------------------------------
(* The invariant.  The versions that are or will be published have windows  *)
(* that lie apart; a key belongs to one step for ever, so that equal keys   *)
(* and equal steps are the same; and the version the recipe was made from   *)
(* keeps its steps.                                                         *)

Time == Nat \cup {None}
KeyedStep == [id : Nat \X Nat, kind : Kind, title : Title, key : Nat]
SopVersion == [state : {"draft", "review", "published", "retired"}, from : Time, to : Time, next : Time,
               file : BOOLEAN, training : BOOLEAN, steps : Seq(KeyedStep), author : Author]

SopTyped ==
  /\ clock \in Nat /\ nextKey \in Nat /\ sopEdits \in Nat
  /\ sop \in Seq(SopVersion)

\* One window ends before the other begins.
Apart(v, w) == (v.to # None /\ v.to <= w.from) \/ (w.to # None /\ w.to <= v.from)
WindowsApart ==
  /\ \A i \in DOMAIN sop : sop[i].state = "published" => sop[i].from # None
  /\ \A i, j \in DOMAIN sop :
       i # j /\ sop[i].state = "published" /\ sop[j].state = "published" => Apart(sop[i], sop[j])

\* Keys and edits given out so far; equal keys are equal steps; a version has each
\* key once.
KeysGone == \A i \in DOMAIN sop : \A p \in DOMAIN sop[i].steps :
  sop[i].steps[p].key <= nextKey /\ sop[i].steps[p].id[1] < sopEdits
KeyIsStep == \A i, j \in DOMAIN sop : \A p \in DOMAIN sop[i].steps, q \in DOMAIN sop[j].steps :
  sop[i].steps[p].key = sop[j].steps[q].key <=> sop[i].steps[p].id = sop[j].steps[q].id
KeyOnce == \A i \in DOMAIN sop : \A p, q \in DOMAIN sop[i].steps :
  sop[i].steps[p].key = sop[i].steps[q].key => p = q

\* The step of the recipe that was made from a step of the version.
MadeFrom(made, step, n) == made.pos = n /\ made.id = step.id /\ made.key \in {None, step.key}
Settled == {"published", "retired"}
RecipeFits ==
  IF recipe.linked = None THEN recipe.steps = <<>>
  ELSE /\ recipe.linked \in DOMAIN sop /\ sop[recipe.linked].state \in Settled
       /\ DOMAIN recipe.steps = DOMAIN sop[recipe.linked].steps
       /\ \A n \in DOMAIN recipe.steps : MadeFrom(recipe.steps[n], sop[recipe.linked].steps[n], n)

SopInv == SopTyped /\ WindowsApart /\ KeysGone /\ KeyIsStep /\ KeyOnce /\ RecipeFits

-----------------------------------------------------------------------------
(* Numbers.                                                                 *)

(* A nonempty set of numbers has a least one.                               *)
LEMMA SmallestOne ==
  ASSUME NEW S \in SUBSET Nat, S # {}
  PROVE  \E s \in S : \A t \in S : s <= t
<1>1. PICK s \in S : \A t \in S : <<t, s>> \notin OpToRel(<, Nat)
  BY NatLessThanWellFounded, WFMin, Zenon
<1>2. ASSUME NEW t \in S PROVE s <= t
  <2>1. ~(t < s)
    BY <1>1 DEF OpToRel
  <2>2. QED
    BY <2>1
<1>3. QED
  BY <1>2

(* A nonempty set of numbers that are bounded has a greatest one.           *)
LEMMA LargestOne ==
  ASSUME NEW N \in Nat, NEW S \in SUBSET (0..N), S # {}
  PROVE  \E s \in S : \A t \in S : t <= s
<1> DEFINE T == {N - s : s \in S}
<1>1. T \in SUBSET Nat /\ T # {}
  <2>1. \A s \in S : N - s \in Nat
    OBVIOUS
  <2>2. QED
    BY <2>1, Zenon
<1>2. PICK u \in T : \A t \in T : u <= t
  BY <1>1, SmallestOne
<1>3. PICK s \in S : u = N - s
  OBVIOUS
<1>4. ASSUME NEW t \in S PROVE t <= s
  <2>1. u <= N - t
    BY <1>2
  <2>2. QED
    BY <2>1, <1>3
<1>5. QED
  BY <1>4

-----------------------------------------------------------------------------
(* What the invariant gives.                                                *)

(* Versions in effect at one moment are one.                                *)
LEMMA EffectIsOne ==
  ASSUME SopsAssumed, SopInv, NEW m \in Nat, NEW i \in EffectiveOnes(m), NEW j \in EffectiveOnes(m)
  PROVE  i = j
<1>1. /\ i \in DOMAIN sop /\ sop[i].state = "published" /\ sop[i].from <= m /\ (sop[i].to # None => sop[i].to > m)
      /\ j \in DOMAIN sop /\ sop[j].state = "published" /\ sop[j].from <= m /\ (sop[j].to # None => sop[j].to > m)
  BY DEF EffectiveOnes, Effective
<1>2. sop[i] \in SopVersion /\ sop[j] \in SopVersion
  BY <1>1 DEF SopInv, SopTyped
<1>3. /\ sop[i].from \in Nat /\ sop[j].from \in Nat
      /\ sop[i].to # None => sop[i].to \in Nat
      /\ sop[j].to # None => sop[j].to \in Nat
  BY <1>1, <1>2 DEF SopInv, WindowsApart, SopVersion, Time
<1>4. i # j => Apart(sop[i], sop[j])
  BY <1>1 DEF SopInv, WindowsApart
<1>5. ~Apart(sop[i], sop[j])
  BY <1>1, <1>3 DEF Apart
<1>6. QED
  BY <1>4, <1>5

(* What is in effect is a version.                                          *)
LEMMA InEffectIs ==
  ASSUME SopsAssumed, SopInv, InEffect(clock) # None
  PROVE  InEffect(clock) \in DOMAIN sop
<1>1. EffectiveOnes(clock) # {}
  BY DEF InEffect
<1>2. clock \in Nat
  BY DEF SopInv, SopTyped
<1>3. PICK o \in EffectiveOnes(clock) : TRUE
  BY <1>1
<1>4. \A j \in EffectiveOnes(clock) : j = o
  BY <1>2, <1>3, EffectIsOne
<1>5. o \in DOMAIN sop /\ sop[o].state = "published"
  BY <1>3 DEF EffectiveOnes, Effective
<1>6. sop[o] \in SopVersion
  BY <1>5 DEF SopInv, SopTyped
<1>7. sop[o].from \in Nat
  BY <1>5, <1>6 DEF SopInv, WindowsApart, SopVersion, Time
<1>8. \A j \in EffectiveOnes(clock) : sop[j].from <= sop[o].from
  BY <1>4, <1>7
<1>9. InEffect(clock) \in EffectiveOnes(clock)
  BY <1>1, <1>3, <1>8, Zenon DEF InEffect
<1>10. QED
  BY <1>9 DEF EffectiveOnes

(* The windows that lie apart are the property.                             *)
LEMMA WindowsSuffice == ASSUME SopsAssumed, SopInv PROVE OneInEffect
<1>1. ASSUME NEW m \in Moment PROVE Cardinality(EffectiveOnes(m)) <= 1
  <2>1. m \in Nat
    BY DEF Moment, SopsAssumed
  <2>2. CASE EffectiveOnes(m) = {}
    BY <2>2, FS_EmptySet
  <2>3. CASE EffectiveOnes(m) # {}
    <3>1. PICK i \in EffectiveOnes(m) : TRUE
      BY <2>3
    <3>2. EffectiveOnes(m) = {i}
      BY <2>1, <3>1, EffectIsOne
    <3>3. QED
      BY <3>2, FS_Singleton
  <2>4. QED
    BY <2>2, <2>3
<1>2. QED
  BY <1>1 DEF OneInEffect

(* The guide of a step, where the version still has it, is that step.       *)
LEMMA KeysSuffice == ASSUME SopsAssumed, SopInv PROVE GuidedByItsOwn
<1>1. ASSUME NEW n \in DOMAIN recipe.steps, NEW i \in {InEffect(clock)} \ {None},
             NEW p \in DOMAIN sop[i].steps, sop[i].steps[p].id = recipe.steps[n].id
      PROVE  GuideUnder(n, i) # None /\ sop[i].steps[GuideUnder(n, i)].id = recipe.steps[n].id
  <2>1. i \in DOMAIN sop
    BY InEffectIs
  <2> DEFINE step == recipe.steps[n]
             steps == sop[i].steps
             linked == sop[recipe.linked].steps
             made == i # recipe.linked
             at(k) == {q \in DOMAIN steps : steps[q].key = k}
  <2>2. /\ recipe.linked \in DOMAIN sop /\ n \in DOMAIN linked
        /\ step.pos = n /\ step.id = linked[n].id /\ step.key \in {None, linked[n].key}
    <3>1. recipe.linked # None
      BY DEF SopInv, RecipeFits
    <3>2. QED
      BY <3>1 DEF SopInv, RecipeFits, MadeFrom
  <2>3. steps[p].key = linked[n].key
    BY <1>1, <2>1, <2>2 DEF SopInv, KeyIsStep
  <2>4. p \in at(linked[n].key)
    BY <2>3
  <2>5. \A q \in at(linked[n].key) : q # None /\ steps[q].id = step.id
    <3>1. ASSUME NEW q \in DOMAIN steps, steps[q].key = linked[n].key
          PROVE  q # None /\ steps[q].id = step.id
      <4>1. steps[q].id = linked[n].id
        BY <2>1, <2>2, <3>1 DEF SopInv, KeyIsStep
      <4>2. sop[i] \in SopVersion
        BY <2>1 DEF SopInv, SopTyped
      <4>3. q \in Nat
        BY <4>2 DEF SopVersion
      <4>4. QED
        BY <2>2, <4>1, <4>3 DEF SopsAssumed
    <3>2. QED
      BY <3>1
  <2>6. (CHOOSE q \in at(linked[n].key) : TRUE) \in at(linked[n].key)
    BY <2>4, Zenon
  <2>7. CASE step.key # None
    <3>1. step.key = linked[n].key
      BY <2>2, <2>7
    <3>2. GuideUnder(n, i) = CHOOSE q \in at(linked[n].key) : TRUE
      BY <2>4, <2>7, <3>1 DEF GuideUnder, Guide
    <3>3. QED
      BY <2>5, <2>6, <3>2
  <2>8. CASE step.key = None /\ ~made
    <3>1. n \in DOMAIN steps /\ steps[n].id = step.id
      BY <2>2, <2>8
    <3>2. GuideUnder(n, i) = n
      BY <2>2, <2>8, <3>1 DEF GuideUnder, Guide
    <3>3. sop[i] \in SopVersion
      BY <2>1 DEF SopInv, SopTyped
    <3>4. n \in Nat
      BY <3>1, <3>3 DEF SopVersion
    <3>5. QED
      BY <3>1, <3>2, <3>4 DEF SopsAssumed
  <2>9. CASE step.key = None /\ made
    <3>1. GuideUnder(n, i) = CHOOSE q \in at(linked[n].key) : TRUE
      BY <2>2, <2>4, <2>9 DEF GuideUnder, Guide
    <3>2. QED
      BY <2>5, <2>6, <3>1
  <2>10. QED
    BY <2>7, <2>8, <2>9
<1>2. QED
  BY <1>1 DEF GuidedByItsOwn

-----------------------------------------------------------------------------
(* What the steps of the model keep.                                        *)

(* The facts about steps stand while the versions keep theirs, and a new    *)
(* version takes over those of another one.                                 *)
LEMMA StepsStand ==
  ASSUME SopsAssumed, SopInv, sop' \in Seq(SopVersion), nextKey' = nextKey,
         sopEdits' \in Nat, sopEdits' >= sopEdits,
         \A i \in DOMAIN sop' : sop'[i].steps = <<>> \/ \E j \in DOMAIN sop : sop'[i].steps = sop[j].steps
  PROVE  KeysGone' /\ KeyIsStep' /\ KeyOnce'
<1>1. ASSUME NEW i \in DOMAIN sop', NEW p \in DOMAIN sop'[i].steps
      PROVE  \E j \in DOMAIN sop : sop'[i].steps = sop[j].steps
  OBVIOUS
<1>2. KeysGone'
  <2>1. ASSUME NEW i \in DOMAIN sop', NEW p \in DOMAIN sop'[i].steps
        PROVE  sop'[i].steps[p].key <= nextKey' /\ sop'[i].steps[p].id[1] < sopEdits'
    <3>1. PICK j \in DOMAIN sop : sop'[i].steps = sop[j].steps
      BY <1>1
    <3>2. sop[j].steps[p].key <= nextKey /\ sop[j].steps[p].id[1] < sopEdits
      BY <3>1 DEF SopInv, KeysGone
    <3>3. sop[j] \in SopVersion
      BY DEF SopInv, SopTyped
    <3>4. sop[j].steps[p] \in KeyedStep
      BY <3>1, <3>3 DEF SopVersion
    <3>5. sop[j].steps[p].id[1] \in Nat /\ sopEdits \in Nat
      BY <3>4 DEF KeyedStep, SopInv, SopTyped
    <3>6. QED
      BY <3>1, <3>2, <3>5
  <2>2. QED
    BY <2>1 DEF KeysGone
<1>3. KeyIsStep'
  <2>1. ASSUME NEW i \in DOMAIN sop', NEW j \in DOMAIN sop',
               NEW p \in DOMAIN sop'[i].steps, NEW q \in DOMAIN sop'[j].steps
        PROVE  sop'[i].steps[p].key = sop'[j].steps[q].key <=> sop'[i].steps[p].id = sop'[j].steps[q].id
    <3>1. PICK k \in DOMAIN sop : sop'[i].steps = sop[k].steps
      BY <1>1
    <3>2. PICK l \in DOMAIN sop : sop'[j].steps = sop[l].steps
      BY <1>1
    <3>3. QED
      BY <3>1, <3>2 DEF SopInv, KeyIsStep
  <2>2. QED
    BY <2>1 DEF KeyIsStep
<1>4. KeyOnce'
  <2>1. ASSUME NEW i \in DOMAIN sop', NEW p \in DOMAIN sop'[i].steps, NEW q \in DOMAIN sop'[i].steps,
               sop'[i].steps[p].key = sop'[i].steps[q].key
        PROVE  p = q
    <3>1. PICK j \in DOMAIN sop : sop'[i].steps = sop[j].steps
      BY <1>1
    <3>2. QED
      BY <2>1, <3>1 DEF SopInv, KeyOnce
  <2>2. QED
    BY <2>1 DEF KeyOnce
<1>5. QED
  BY <1>2, <1>3, <1>4

(* The windows stand while no version is published or moved.                *)
LEMMA WindowsStand ==
  ASSUME SopInv,
         \A i \in DOMAIN sop' : sop'[i].state = "published" =>
           /\ i \in DOMAIN sop /\ sop[i].state = "published"
           /\ sop'[i].from = sop[i].from /\ sop'[i].to = sop[i].to
  PROVE  WindowsApart'
<1>1. ASSUME NEW i \in DOMAIN sop', NEW j \in DOMAIN sop', i # j, sop'[i].state = "published",
             sop'[j].state = "published"
      PROVE  Apart(sop'[i], sop'[j])
  <2>1. Apart(sop[i], sop[j])
    BY <1>1 DEF SopInv, WindowsApart
  <2>2. QED
    BY <1>1, <2>1 DEF Apart
<1>2. \A i \in DOMAIN sop' : sop'[i].state = "published" => sop'[i].from # None
  BY DEF SopInv, WindowsApart
<1>3. QED
  BY <1>1, <1>2 DEF WindowsApart

(* The recipe fits while its version stays and keeps its steps.             *)
LEMMA RecipeStands ==
  ASSUME SopInv, recipe' = recipe,
         \A i \in DOMAIN sop : sop[i].state \in Settled =>
           i \in DOMAIN sop' /\ sop'[i].state \in Settled /\ sop'[i].steps = sop[i].steps
  PROVE  RecipeFits'
BY DEF SopInv, RecipeFits

(* Nothing but a list of acknowledgements, of batches or the time changes.  *)
LEMMA SopsCalm ==
  ASSUME SopInv, UNCHANGED <<sop, nextKey, recipe, sopEdits>>, clock' \in Nat
  PROVE  SopInv'
BY DEF SopInv, SopTyped, WindowsApart, KeysGone, KeyIsStep, KeyOnce, RecipeFits

(* A draft is added, empty or with the steps of another version.            *)
LEMMA VersionAdded ==
  ASSUME SopsAssumed, SopInv, NEW new \in SopVersion, new.state = "draft",
         new.steps = <<>> \/ \E j \in DOMAIN sop : new.steps = sop[j].steps,
         sop' = Append(sop, new), UNCHANGED <<clock, nextKey, recipe, sopEdits>>
  PROVE  SopInv'
<1>1. sop \in Seq(SopVersion) /\ sopEdits \in Nat
  BY DEF SopInv, SopTyped
<1>2. /\ sop' \in Seq(SopVersion)
      /\ \A i \in DOMAIN sop : i \in DOMAIN sop' /\ sop'[i] = sop[i]
      /\ \A i \in DOMAIN sop' : (i \in DOMAIN sop /\ sop'[i] = sop[i]) \/ sop'[i] = new
  BY <1>1
<1>3. \A i \in DOMAIN sop' : sop'[i].steps = <<>> \/ \E j \in DOMAIN sop : sop'[i].steps = sop[j].steps
  BY <1>2
<1>4. KeysGone' /\ KeyIsStep' /\ KeyOnce'
  BY <1>1, <1>2, <1>3, StepsStand
<1>5. WindowsApart'
  BY <1>2, WindowsStand
<1>6. RecipeFits'
  BY <1>2, RecipeStands
<1>7. SopTyped'
  BY <1>2 DEF SopInv, SopTyped
<1>8. QED
  BY <1>4, <1>5, <1>6, <1>7 DEF SopInv

(* One version changes, but not its steps; it is not published by this, and *)
(* it stays settled if it is.                                               *)
LEMMA VersionChanged ==
  ASSUME SopsAssumed, SopInv, NEW i \in DOMAIN sop, NEW new \in SopVersion,
         new.steps = sop[i].steps, new.state # "published",
         sop[i].state \in Settled => new.state \in Settled,
         sop' = [m \in DOMAIN sop |-> IF m = i THEN new ELSE sop[m]],
         sopEdits' \in Nat, sopEdits' >= sopEdits, UNCHANGED <<clock, nextKey, recipe>>
  PROVE  SopInv'
<1>1. sop \in Seq(SopVersion)
  BY DEF SopInv, SopTyped
<1>2. /\ sop' \in Seq(SopVersion) /\ DOMAIN sop' = DOMAIN sop
      /\ \A m \in DOMAIN sop : m # i => sop'[m] = sop[m]
      /\ sop'[i] = new
  BY <1>1
<1>3. \A m \in DOMAIN sop' : sop'[m].steps = <<>> \/ \E j \in DOMAIN sop : sop'[m].steps = sop[j].steps
  BY <1>2
<1>4. KeysGone' /\ KeyIsStep' /\ KeyOnce'
  BY <1>2, <1>3, StepsStand
<1>5. WindowsApart'
  BY <1>2, WindowsStand
<1>6. RecipeFits'
  BY <1>2, RecipeStands
<1>7. SopTyped'
  BY <1>2 DEF SopInv, SopTyped
<1>8. QED
  BY <1>4, <1>5, <1>6, <1>7 DEF SopInv

(* A version that is published, and one that gives way to it.               *)
Moving(v, from, last, to) == [v EXCEPT !.state = "published", !.from = from, !.next = last, !.to = to]
Ending(v, to, next) == [v EXCEPT !.to = to, !.next = next]

(* Publishing a version sets its window and leaves its steps.               *)
LEMMA Moved ==
  ASSUME NEW v \in SopVersion, NEW from \in Time, NEW last \in Time, NEW to \in Time
  PROVE  /\ Moving(v, from, last, to) \in SopVersion /\ Moving(v, from, last, to).state = "published"
         /\ Moving(v, from, last, to).from = from /\ Moving(v, from, last, to).to = to
         /\ Moving(v, from, last, to).steps = v.steps
BY DEF SopVersion, Moving

(* A version that gives way gets its end, and nothing else.                 *)
LEMMA Ended ==
  ASSUME NEW v \in SopVersion, NEW to \in Time, NEW next \in Time
  PROVE  /\ Ending(v, to, next) \in SopVersion /\ Ending(v, to, next).state = v.state
         /\ Ending(v, to, next).from = v.from /\ Ending(v, to, next).to = to
         /\ Ending(v, to, next).steps = v.steps
BY DEF SopVersion, Ending

(* A version that is published takes over from those before it and ends     *)
(* where one published for later begins.                                    *)
LEMMA PublishedApart ==
  ASSUME SopsAssumed, SopInv, NEW i \in DOMAIN sop, NEW from \in Nat, sop[i].state = "review",
         sop' = Published(i, from), UNCHANGED <<clock, nextKey, recipe, sopEdits>>
  PROVE  SopInv'
<1> DEFINE later == {j \in DOMAIN sop \ {i} : GivesWay(sop[j], from) /\ sop[j].from > from}
           end == {sop[j].from : j \in later} \cup ({sop[i].to} \ {None})
           last == IF later = {} THEN None ELSE CHOOSE j \in later : \A k \in later : j >= k
           to == IF end = {} THEN None ELSE CHOOSE e \in end : \A f \in end : e <= f
           new == Moving(sop[i], from, last, to)
           old(j) == Ending(sop[j], from, i)
<1>1. sop' = [j \in DOMAIN sop |->
                CASE j = i -> new
                  [] j # i /\ GivesWay(sop[j], from) /\ j \notin later -> old(j)
                  [] OTHER -> sop[j]]
  BY Zenon DEF Published, Moving, Ending
<1>2. sop \in Seq(SopVersion) /\ sop[i] \in SopVersion
  BY DEF SopInv, SopTyped
<1>3. \A j \in DOMAIN sop : j \in Nat /\ sop[j] \in SopVersion /\ (sop[j].state = "published" => sop[j].from \in Nat)
  <2>1. ASSUME NEW j \in DOMAIN sop
        PROVE  j \in Nat /\ sop[j] \in SopVersion
    BY <1>2
  <2>2. ASSUME NEW j \in DOMAIN sop, sop[j].state = "published"
        PROVE  sop[j].from \in Nat
    <3>1. sop[j].from \in Time
      BY <2>1 DEF SopVersion
    <3>2. QED
      BY <2>2, <3>1 DEF SopInv, WindowsApart, Time
  <2>3. QED
    BY <2>1, <2>2
<1>4. last \in Time
  <2>1. CASE later = {}
    BY <2>1 DEF Time
  <2>2. CASE later # {}
    <3>1. later \in SUBSET (0..Len(sop)) /\ Len(sop) \in Nat
      BY <1>2
    <3>2. PICK j \in later : \A k \in later : k <= j
      BY <2>2, <3>1, LargestOne
    <3>3. \A k \in later : j >= k
      BY <3>1, <3>2
    <3>4. last \in later
      BY <2>2, <3>2, <3>3, Zenon
    <3>5. QED
      BY <3>1, <3>4 DEF Time
  <2>3. QED
    BY <2>1, <2>2
<1>5. end \in SUBSET Nat
  <2>1. \A j \in later : sop[j].from \in Nat
    BY <1>3 DEF GivesWay
  <2>2. sop[i].to \in Time
    BY <1>2 DEF SopVersion
  <2>3. QED
    BY <2>1, <2>2 DEF Time
<1>6. IF end = {} THEN to = None ELSE to \in end /\ \A f \in end : to <= f
  <2>1. CASE end = {}
    BY <2>1
  <2>2. CASE end # {}
    <3>1. \E e \in end : \A f \in end : e <= f
      BY <1>5, <2>2, SmallestOne
    <3>2. QED
      BY <2>2, <3>1, Zenon
  <2>3. QED
    BY <2>1, <2>2
<1>7. \A j \in later : to # None /\ to <= sop[j].from
  BY <1>5, <1>6 DEF SopsAssumed
<1>8. to \in Time
  BY <1>5, <1>6 DEF Time
<1> HIDE DEF last, to, end
<1>10. new \in SopVersion /\ new.state = "published" /\ new.from = from /\ new.to = to /\ new.steps = sop[i].steps
  <2>1. from \in Time
    BY DEF Time
  <2>2. QED
    BY <1>2, <1>4, <1>8, <2>1, Moved
<1>11. ASSUME NEW j \in DOMAIN sop
       PROVE  /\ old(j) \in SopVersion /\ old(j).state = sop[j].state /\ old(j).from = sop[j].from
              /\ old(j).to = from /\ old(j).steps = sop[j].steps
  <2>1. from \in Time /\ i \in Time
    BY <1>3 DEF Time
  <2>2. sop[j] \in SopVersion
    BY <1>3
  <2> DEFINE v == sop[j]
  <2> HIDE DEF v
  <2>3. v \in SopVersion
    BY <2>2 DEF v
  <2>4. /\ Ending(v, from, i) \in SopVersion /\ Ending(v, from, i).state = v.state
        /\ Ending(v, from, i).from = v.from /\ Ending(v, from, i).to = from
        /\ Ending(v, from, i).steps = v.steps
    BY <2>1, <2>3, Ended
  <2>5. QED
    BY <2>4, Zenon DEF v
<1>12. /\ DOMAIN sop' = DOMAIN sop /\ sop'[i] = new
       /\ \A j \in DOMAIN sop : j # i =>
            sop'[j] = IF GivesWay(sop[j], from) /\ j \notin later THEN old(j) ELSE sop[j]
  <2> HIDE DEF new, old, later
  <2>1. QED
    BY <1>1
<1> HIDE DEF new, old
<1>13. sop' \in Seq(SopVersion)
  <2>1. \A j \in DOMAIN sop : sop'[j] \in SopVersion
    BY <1>3, <1>10, <1>11, <1>12
  <2>2. DOMAIN sop = 1..Len(sop) /\ Len(sop) \in Nat
    BY <1>2
  <2>3. sop' = [j \in 1..Len(sop) |-> sop'[j]]
    <3> HIDE DEF later
    <3>1. QED
      BY <1>1, <2>2, Zenon
  <2>4. QED
    BY <2>1, <2>2, <2>3
<1>14. \A j \in DOMAIN sop' : sop'[j].steps = sop[j].steps
  BY <1>10, <1>11, <1>12
<1>15. KeysGone' /\ KeyIsStep' /\ KeyOnce'
  <2>1. sopEdits' \in Nat /\ sopEdits' >= sopEdits
    BY DEF SopInv, SopTyped
  <2>2. QED
    BY <1>12, <1>13, <1>14, <2>1, StepsStand
<1>16. RecipeFits'
  <2>1. \A j \in DOMAIN sop : sop[j].state \in Settled =>
          j \in DOMAIN sop' /\ sop'[j].state \in Settled /\ sop'[j].steps = sop[j].steps
    BY <1>10, <1>11, <1>12, <1>14 DEF Settled
  <2>2. QED
    BY <2>1, RecipeStands
<1>17. WindowsApart'
  <2>1. \A j \in DOMAIN sop : sop'[j].state = "published" => sop'[j].from # None
    BY <1>10, <1>11, <1>12 DEF SopsAssumed, SopInv, WindowsApart
  <2>2. ASSUME NEW j \in DOMAIN sop, j # i, sop[j].state = "published"
        PROVE  Apart(sop'[j], new)
    <3>1. sop[j].from \in Nat /\ (sop[j].to # None => sop[j].to \in Nat)
      BY <1>3, <2>2 DEF SopVersion, Time
    <3>2. CASE j \in later
      <4>1. sop'[j] = sop[j]
        BY <1>12, <2>2, <3>2
      <4>2. QED
        BY <1>7, <1>10, <3>2, <4>1 DEF Apart
    <3>3. CASE GivesWay(sop[j], from) /\ j \notin later
      <4>1. sop'[j].to = from
        BY <1>11, <1>12, <2>2, <3>3
      <4>2. QED
        BY <1>10, <4>1 DEF Apart, SopsAssumed
    <3>4. CASE ~GivesWay(sop[j], from)
      <4>1. sop'[j] = sop[j]
        BY <1>12, <2>2, <3>4
      <4>2. sop[j].to # None /\ sop[j].to <= from
        BY <2>2, <3>1, <3>4 DEF GivesWay
      <4>3. QED
        BY <1>10, <4>1, <4>2 DEF Apart
    <3>5. QED
      BY <3>2, <3>3, <3>4
  <2>3. ASSUME NEW j \in DOMAIN sop, NEW k \in DOMAIN sop, j # i, k # i, j # k,
               sop[j].state = "published", sop[k].state = "published", sop[j].to # None, sop[j].to <= sop[k].from
        PROVE  sop'[j].to # None /\ sop'[j].to <= sop'[k].from
    <3>1. sop[j].to \in Nat /\ sop[k].from \in Nat /\ sop'[k].from = sop[k].from
      <4>1. sop[j].to \in Time
        BY <1>3 DEF SopVersion
      <4>2. QED
        BY <1>3, <1>11, <1>12, <2>3, <4>1 DEF Time
    <3>2. CASE GivesWay(sop[j], from) /\ j \notin later
      <4>1. sop'[j].to = from /\ from < sop[j].to
        BY <1>11, <1>12, <2>3, <3>1, <3>2 DEF GivesWay
      <4>2. QED
        BY <2>3, <3>1, <4>1 DEF SopsAssumed
    <3>3. CASE ~(GivesWay(sop[j], from) /\ j \notin later)
      <4>1. sop'[j] = sop[j]
        BY <1>12, <2>3, <3>3
      <4>2. QED
        BY <2>3, <3>1, <4>1
    <3>4. QED
      BY <3>2, <3>3
  <2>4. \A j \in DOMAIN sop : j # i => sop'[j].state = sop[j].state
    BY <1>11, <1>12
  <2>5. ASSUME NEW j \in DOMAIN sop, NEW k \in DOMAIN sop, j # k, sop'[j].state = "published",
               sop'[k].state = "published"
        PROVE  Apart(sop'[j], sop'[k])
    <3>1. CASE j = i
      BY <1>12, <2>2, <2>4, <2>5, <3>1 DEF Apart
    <3>2. CASE k = i
      BY <1>12, <2>2, <2>4, <2>5, <3>2 DEF Apart
    <3>3. CASE j # i /\ k # i
      <4>1. Apart(sop[j], sop[k])
        BY <2>4, <2>5, <3>3 DEF SopInv, WindowsApart
      <4>2. QED
        BY <2>3, <2>4, <2>5, <3>3, <4>1 DEF Apart
    <3>4. QED
      BY <3>1, <3>2, <3>3
  <2>6. QED
    BY <1>12, <2>1, <2>5 DEF WindowsApart
<1>18. SopTyped'
  BY <1>13 DEF SopInv, SopTyped
<1>19. QED
  BY <1>15, <1>16, <1>17, <1>18 DEF SopInv

-----------------------------------------------------------------------------
(* Keys.                                                                    *)

RawStep == [id : Nat \X Nat, kind : Kind, title : Title, key : Time]

\* A step that keeps its key, and how many do not up to a place.
KeptAt(steps, n) == steps[n].key # None /\ \A i \in 1..(n - 1) : steps[i].key # steps[n].key
NotKept(steps, n) == {i \in 1..n : ~KeptAt(steps, i)}
Keyed(step, k) == [step EXCEPT !.key = k]

(* Steps without a key of their own are counted, each for itself.           *)
LEMMA NotKeptCounts ==
  ASSUME NEW steps, NEW n \in Nat, NEW m \in Nat, n \in NotKept(steps, n), m \in NotKept(steps, m)
  PROVE  /\ Cardinality(NotKept(steps, n)) \in 1..n
         /\ Cardinality(NotKept(steps, n)) = Cardinality(NotKept(steps, m)) => n = m
<1>1. ASSUME NEW k \in Nat
      PROVE  IsFiniteSet(NotKept(steps, k)) /\ Cardinality(NotKept(steps, k)) \in 0..k
  <2>1. IsFiniteSet(1..k) /\ Cardinality(1..k) = k
    BY FS_Interval
  <2>2. NotKept(steps, k) \subseteq 1..k
    BY DEF NotKept
  <2>3. IsFiniteSet(NotKept(steps, k)) /\ Cardinality(NotKept(steps, k)) <= k
    BY <2>1, <2>2, FS_Subset
  <2>4. QED
    BY <2>3, FS_CardinalityType
<1>2. Cardinality(NotKept(steps, n)) # 0
  BY <1>1, FS_EmptySet
<1>3. ASSUME NEW k \in Nat, NEW l \in Nat, k < l, l \in NotKept(steps, l)
      PROVE  Cardinality(NotKept(steps, k)) # Cardinality(NotKept(steps, l))
  <2>1. NotKept(steps, k) \subseteq NotKept(steps, l) /\ l \notin NotKept(steps, k)
    BY <1>3 DEF NotKept
  <2>2. NotKept(steps, k) # NotKept(steps, l)
    BY <1>3, <2>1
  <2>3. QED
    BY <1>1, <2>1, <2>2, FS_Subset
<1>4. QED
  BY <1>1, <1>2, <1>3

(* A list with keys has each key once: a step keeps the one it has, or gets *)
(* one that was never given.                                                *)
LEMMA KeysAreGiven ==
  ASSUME SopsAssumed, NEW steps \in Seq(RawStep), NEW given \in Nat
  PROVE  /\ WithKeys(steps, given) \in Seq(KeyedStep)
         /\ DOMAIN WithKeys(steps, given) = DOMAIN steps
         /\ \A n \in DOMAIN steps :
              IF KeptAt(steps, n) THEN WithKeys(steps, given)[n] = steps[n]
              ELSE /\ WithKeys(steps, given)[n].id = steps[n].id
                   /\ WithKeys(steps, given)[n].key \in (given + 1)..(given + Len(steps))
         /\ \A n, m \in DOMAIN steps :
              (KeptAt(steps, n) <=> KeptAt(steps, m)) /\ WithKeys(steps, given)[n].key = WithKeys(steps, given)[m].key
              => n = m
<1> DEFINE w == WithKeys(steps, given)
           k(n) == given + Cardinality(NotKept(steps, n))
<1>1. w = [n \in DOMAIN steps |-> IF KeptAt(steps, n) THEN steps[n] ELSE Keyed(steps[n], k(n))]
  BY Zenon DEF WithKeys, KeptAt, NotKept, Keyed
<1>2. DOMAIN steps = 1..Len(steps) /\ Len(steps) \in Nat /\ \A n \in DOMAIN steps : n \in Nat /\ steps[n] \in RawStep
  OBVIOUS
<1>3. ASSUME NEW n \in DOMAIN steps, ~KeptAt(steps, n) PROVE n \in NotKept(steps, n)
  <2>1. n \in 1..n
    BY <1>2
  <2>2. QED
    BY <1>3, <2>1 DEF NotKept
<1>4. ASSUME NEW n \in DOMAIN steps, ~KeptAt(steps, n) PROVE k(n) \in (given + 1)..(given + Len(steps))
  BY <1>2, <1>3, <1>4, NotKeptCounts
<1>5. ASSUME NEW n \in DOMAIN steps, NEW m \in DOMAIN steps, ~KeptAt(steps, n), ~KeptAt(steps, m), k(n) = k(m)
      PROVE  n = m
  BY <1>2, <1>3, <1>5, NotKeptCounts
<1> HIDE DEF k
<1>6. ASSUME NEW s \in RawStep, NEW j \in Nat
      PROVE  Keyed(s, j) \in KeyedStep /\ Keyed(s, j).id = s.id /\ Keyed(s, j).key = j
  BY <1>6 DEF Keyed, RawStep, KeyedStep
<1>7. ASSUME NEW n \in DOMAIN steps, ~KeptAt(steps, n)
      PROVE  w[n] \in KeyedStep /\ w[n].id = steps[n].id /\ w[n].key = k(n)
  <2>1. w[n] = Keyed(steps[n], k(n))
    BY <1>1, <1>7
  <2> HIDE DEF w
  <2>2. k(n) \in Nat /\ steps[n] \in RawStep
    BY <1>2, <1>4, <1>7
  <2>3. QED
    BY <1>6, <2>1, <2>2
<1>8. ASSUME NEW n \in DOMAIN steps, KeptAt(steps, n)
      PROVE  w[n] \in KeyedStep /\ w[n] = steps[n]
  <2>1. w[n] = steps[n]
    BY <1>1, <1>8
  <2>2. steps[n] \in KeyedStep
    <3>1. steps[n] \in RawStep /\ steps[n].key # None
      BY <1>2, <1>8 DEF KeptAt
    <3>2. QED
      BY <3>1 DEF RawStep, KeyedStep, Time
  <2> HIDE DEF w
  <2>3. QED
    BY <2>1, <2>2
<1>9. DOMAIN w = DOMAIN steps
  BY <1>1
<1>10. w \in Seq(KeyedStep)
  <2>1. w = [n \in 1..Len(steps) |-> w[n]]
    BY <1>1, <1>2, Zenon
  <2> HIDE DEF w
  <2>2. \A n \in 1..Len(steps) : w[n] \in KeyedStep
    BY <1>2, <1>7, <1>8
  <2>3. QED
    BY <1>2, <2>1, <2>2
<1> HIDE DEF w
<1>11. ASSUME NEW n \in DOMAIN steps, NEW m \in DOMAIN steps, KeptAt(steps, n), KeptAt(steps, m), w[n].key = w[m].key
       PROVE  n = m
  <2>1. steps[n].key = steps[m].key
    BY <1>8, <1>11
  <2>2. ~(n < m) /\ ~(m < n)
    BY <1>2, <1>11, <2>1 DEF KeptAt
  <2>3. QED
    BY <1>2, <2>2
<1>12. \A n \in DOMAIN steps :
         IF KeptAt(steps, n) THEN w[n] = steps[n]
         ELSE w[n].id = steps[n].id /\ w[n].key \in (given + 1)..(given + Len(steps))
  BY <1>4, <1>7, <1>8
<1>13. \A n, m \in DOMAIN steps : (KeptAt(steps, n) <=> KeptAt(steps, m)) /\ w[n].key = w[m].key => n = m
  <2>1. ASSUME NEW n \in DOMAIN steps, NEW m \in DOMAIN steps, (KeptAt(steps, n) <=> KeptAt(steps, m)),
               w[n].key = w[m].key
        PROVE  n = m
    <3>1. CASE KeptAt(steps, n)
      BY <1>11, <2>1, <3>1
    <3>2. CASE ~KeptAt(steps, n)
      BY <1>5, <1>7, <2>1, <3>2
    <3>3. QED
      BY <3>1, <3>2
  <2>2. QED
    BY <2>1
<1>14. QED
  BY <1>9, <1>10, <1>12, <1>13, Zenon DEF w

(* What an editor makes of a list: steps of it, which keep their keys, and  *)
(* new ones, each with its own identity.                                    *)
LEMMA RewrittenSteps ==
  ASSUME SopsAssumed, NEW old \in Seq(KeyedStep), sopEdits \in Nat, NEW steps \in Rewritten(old),
         \A p, q \in DOMAIN old : old[p].key = old[q].key => p = q
  PROVE  /\ steps \in Seq(RawStep)
         /\ \A n \in DOMAIN steps :
              IF KeptAt(steps, n) THEN \E p \in DOMAIN old : steps[n] = old[p]
              ELSE steps[n].id[1] = sopEdits
         /\ \A n, m \in DOMAIN steps :
              ~KeptAt(steps, n) /\ ~KeptAt(steps, m) /\ steps[n].id = steps[m].id => n = m
<1>1. DOMAIN old = 1..Len(old) /\ Len(old) \in Nat
  OBVIOUS
<1>2. ASSUME NEW p \in DOMAIN old PROVE old[p] \in RawStep /\ old[p].key # None
  <2>1. old[p] \in KeyedStep
    OBVIOUS
  <2>2. QED
    BY <2>1 DEF KeyedStep, RawStep, Time, SopsAssumed
<1>3. ASSUME NEW k \in Kind \X Title, NEW n \in Nat
      PROVE  /\ NewStep(k, n) \in RawStep /\ NewStep(k, n).key = None
             /\ NewStep(k, n).id = <<sopEdits, n>> /\ NewStep(k, n).id[1] = sopEdits
  BY DEF NewStep, RawStep, Time
\* Steps that were there before, each from a place of its own, keep their keys.
<1>4. ASSUME NEW list \in Seq(RawStep), NEW l \in Nat, l <= Len(list), NEW from \in [1..l -> DOMAIN old],
             \A n \in 1..l : list[n] = old[from[n]],
             \A n, m \in 1..l : from[n] = from[m] => n = m,
             NEW n \in 1..l
      PROVE  KeptAt(list, n) /\ \E p \in DOMAIN old : list[n] = old[p]
  <2>1. from[n] \in DOMAIN old /\ list[n] = old[from[n]]
    BY <1>4
  <2>2. list[n].key # None
    BY <1>2, <2>1
  <2>3. ASSUME NEW i \in 1..(n - 1) PROVE list[i].key # list[n].key
    <3>1. i \in 1..l /\ i # n
      BY <1>4
    <3>2. from[i] \in DOMAIN old /\ list[i] = old[from[i]] /\ from[i] # from[n]
      BY <1>4, <3>1
    <3>3. QED
      BY <2>1, <3>2
  <2>4. QED
    BY <2>1, <2>2, <2>3 DEF KeptAt
<1>5. CASE \E k \in Kind \X Title : steps = Append(old, NewStep(k, 1))
  <2>1. PICK k \in Kind \X Title : steps = Append(old, NewStep(k, 1))
    BY <1>5
  <2> DEFINE new == NewStep(k, 1)
             from == [n \in 1..Len(old) |-> n]
  <2>2. new \in RawStep /\ new.key = None /\ new.id[1] = sopEdits
    BY <1>3
  <2> HIDE DEF new
  <2>3. old \in Seq(RawStep)
    BY <1>1, <1>2
  <2>4. /\ steps \in Seq(RawStep) /\ Len(steps) = Len(old) + 1 /\ steps[Len(old) + 1] = new
        /\ \A n \in 1..Len(old) : steps[n] = old[n]
        /\ \A n \in DOMAIN steps : n \in 1..Len(old) \/ n = Len(old) + 1
    BY <1>1, <2>1, <2>2, <2>3 DEF new
  <2>5. from \in [1..Len(old) -> DOMAIN old] /\ \A n \in 1..Len(old) : from[n] = n
    BY <1>1
  <2>6. \A n \in 1..Len(old) : KeptAt(steps, n) /\ \E p \in DOMAIN old : steps[n] = old[p]
    <3> HIDE DEF from
    <3>1. /\ Len(old) <= Len(steps) /\ \A n \in 1..Len(old) : steps[n] = old[from[n]]
          /\ \A n, m \in 1..Len(old) : from[n] = from[m] => n = m
      <4>1. Len(old) <= Len(steps)
        BY <1>1, <2>4
      <4>2. \A n \in 1..Len(old) : steps[n] = old[from[n]]
        BY <2>4, <2>5
      <4>3. \A n, m \in 1..Len(old) : from[n] = from[m] => n = m
        BY <2>5
      <4>4. QED
        BY <4>1, <4>2, <4>3
    <3>2. QED
      BY <1>1, <1>4, <2>4, <2>5, <3>1
  <2>7. ~KeptAt(steps, Len(old) + 1)
    BY <2>2, <2>4 DEF KeptAt
  <2>8. QED
    BY <2>2, <2>4, <2>6, <2>7
<1>6. CASE \E d \in DOMAIN old : steps = [n \in 1..(Len(old) - 1) |-> IF n < d THEN old[n] ELSE old[n + 1]]
  <2>1. PICK d \in DOMAIN old : steps = [n \in 1..(Len(old) - 1) |-> IF n < d THEN old[n] ELSE old[n + 1]]
    BY <1>6
  <2> DEFINE l == Len(old) - 1
             from == [n \in 1..l |-> IF n < d THEN n ELSE n + 1]
  <2>2. l \in Nat /\ d \in 1..Len(old)
    BY <1>1
  <2>3. from \in [1..l -> DOMAIN old] /\ \A n \in 1..l : from[n] = IF n < d THEN n ELSE n + 1
    BY <1>1, <2>2
  <2>4. \A n, m \in 1..l : from[n] = from[m] => n = m
    BY <2>2, <2>3
  <2>5. \A n \in 1..l : steps[n] = old[from[n]]
    BY <2>1, <2>3
  <2>6. steps \in Seq(RawStep) /\ Len(steps) = l /\ DOMAIN steps = 1..l
    <3>1. \A n \in 1..l : old[from[n]] \in RawStep
      BY <1>2, <2>3
    <3>2. steps = [n \in 1..l |-> steps[n]]
      BY <2>1, Zenon
    <3> HIDE DEF l, from
    <3>3. \A n \in 1..l : steps[n] \in RawStep
      BY <2>5, <3>1
    <3>4. QED
      BY <2>2, <3>2, <3>3
  <2> HIDE DEF l, from
  <2>7. \A n \in 1..l : KeptAt(steps, n) /\ \E p \in DOMAIN old : steps[n] = old[p]
    <3>1. l <= Len(steps)
      BY <2>2, <2>6
    <3>2. from \in [1..l -> DOMAIN old] /\ steps \in Seq(RawStep)
      BY <2>3, <2>6
    <3>3. QED
      BY <1>4, <2>2, <2>4, <2>5, <3>1, <3>2
  <2>8. QED
    BY <2>6, <2>7
<1>7. CASE steps = [n \in DOMAIN old |-> old[Len(old) + 1 - n]]
  <2> DEFINE l == Len(old)
             from == [n \in 1..l |-> l + 1 - n]
  <2>3. from \in [1..l -> DOMAIN old] /\ \A n \in 1..l : from[n] = l + 1 - n
    BY <1>1
  <2>4. \A n, m \in 1..l : from[n] = from[m] => n = m
    BY <1>1, <2>3
  <2>5. \A n \in 1..l : steps[n] = old[from[n]]
    BY <1>1, <1>7, <2>3
  <2>6. steps \in Seq(RawStep) /\ Len(steps) = l /\ DOMAIN steps = 1..l
    <3>1. \A n \in 1..l : old[from[n]] \in RawStep
      BY <1>2, <2>3
    <3>2. steps = [n \in 1..l |-> steps[n]]
      BY <1>1, <1>7, Zenon
    <3>3. l \in Nat
      BY <1>1
    <3> HIDE DEF l, from
    <3>4. \A n \in 1..l : steps[n] \in RawStep
      BY <2>5, <3>1
    <3>5. QED
      BY <3>2, <3>3, <3>4
  <2>7. \A n \in 1..l : KeptAt(steps, n) /\ \E p \in DOMAIN old : steps[n] = old[p]
    <3>1. l \in Nat
      BY <1>1
    <3> HIDE DEF l, from
    <3>2. l <= Len(steps)
      BY <2>6, <3>1
    <3>3. from \in [1..l -> DOMAIN old] /\ steps \in Seq(RawStep)
      BY <2>3, <2>6
    <3>4. QED
      BY <1>4, <2>4, <2>5, <3>1, <3>2, <3>3
  <2> HIDE DEF l, from
  <2>8. QED
    BY <2>6, <2>7
<1>8. CASE \E f \in [1..MaxSopSteps -> Kind \X Title] : steps = [n \in 1..MaxSopSteps |-> NewStep(f[n], n)]
  <2>1. PICK f \in [1..MaxSopSteps -> Kind \X Title] : steps = [n \in 1..MaxSopSteps |-> NewStep(f[n], n)]
    BY <1>8
  <2>2. MaxSopSteps \in Nat
    BY DEF SopsAssumed
  <2>3. ASSUME NEW n \in 1..MaxSopSteps
        PROVE  /\ steps[n] \in RawStep /\ steps[n].key = None /\ steps[n].id = <<sopEdits, n>>
               /\ steps[n].id[1] = sopEdits
    <3>1. n \in Nat /\ f[n] \in Kind \X Title
      BY <2>2
    <3> DEFINE k == f[n]
    <3>2. steps[n] = NewStep(k, n) /\ k \in Kind \X Title
      BY <2>1, <3>1
    <3> HIDE DEF k
    <3>3. /\ NewStep(k, n) \in RawStep /\ NewStep(k, n).key = None
          /\ NewStep(k, n).id = <<sopEdits, n>> /\ NewStep(k, n).id[1] = sopEdits
      BY <1>3, <3>1, <3>2
    <3>4. QED
      BY <3>2, <3>3, Zenon
  <2>4. steps \in Seq(RawStep) /\ DOMAIN steps = 1..MaxSopSteps
    <3>1. steps = [n \in 1..MaxSopSteps |-> steps[n]]
      BY <2>1, Zenon
    <3>2. \A n \in 1..MaxSopSteps : steps[n] \in RawStep
      BY <2>3, Zenon
    <3>3. QED
      BY <2>2, <3>1, <3>2
  <2>5. \A n \in DOMAIN steps : ~KeptAt(steps, n)
    BY <2>3, <2>4 DEF KeptAt
  <2>6. \A n, m \in DOMAIN steps : steps[n].id = steps[m].id => n = m
    BY <2>3, <2>4
  <2>7. QED
    BY <2>3, <2>4, <2>5, <2>6
<1>9. QED
  BY <1>5, <1>6, <1>7, <1>8 DEF Rewritten

(* The greatest key of a list is known, and none is above it.               *)
LEMMA KeysGivenBound ==
  ASSUME NEW steps \in Seq(KeyedStep), NEW N \in Nat, \A n \in DOMAIN steps : steps[n].key <= N
  PROVE  KeysGiven(steps) \in Nat /\ \A n \in DOMAIN steps : steps[n].key <= KeysGiven(steps)
<1> DEFINE keys == {steps[n].key : n \in DOMAIN steps}
<1>1. CASE keys = {}
  <2>1. KeysGiven(steps) = 0
    BY <1>1 DEF KeysGiven
  <2>2. \A n \in DOMAIN steps : FALSE
    BY <1>1
  <2>3. QED
    BY <2>1, <2>2
<1>2. CASE keys # {}
  <2>1. ASSUME NEW n \in DOMAIN steps PROVE steps[n].key \in 0..N
    <3>1. steps[n] \in KeyedStep
      OBVIOUS
    <3>2. QED
      BY <3>1 DEF KeyedStep
  <2>2. keys \in SUBSET (0..N)
    BY <2>1
  <2>3. PICK k \in keys : \A j \in keys : j <= k
    BY <1>2, <2>2, LargestOne
  <2>4. KeysGiven(steps) \in keys /\ \A j \in keys : j <= KeysGiven(steps)
    BY <1>2, <2>3, Zenon DEF KeysGiven
  <2>5. QED
    BY <2>2, <2>4
<1>3. QED
  BY <1>1, <1>2

-----------------------------------------------------------------------------
(* The steps of the model.                                                  *)

\* What one keyed list has of the steps of a version: some of them, and new ones.
Older(step, i) == \E p \in DOMAIN sop[i].steps : step = sop[i].steps[p]
Newer(step) == step.key > nextKey /\ step.id[1] = sopEdits

(* A draft gets another list of steps.                                      *)
LEMMA StepsUpdated ==
  ASSUME SopsAssumed, SopInv, NEW i \in DOMAIN sop, NEW steps \in Rewritten(sop[i].steps), UpdateSteps(i, steps)
  PROVE  SopInv'
<1> DEFINE keyed == WithKeys(steps, nextKey)
           new == [sop[i] EXCEPT !.steps = keyed]
           old == sop[i].steps
<1>1. /\ sop[i].state = "draft" /\ sopEdits' = sopEdits + 1 /\ UNCHANGED <<clock, recipe>>
      /\ sop' = [sop EXCEPT ![i].steps = keyed]
      /\ nextKey' = IF KeysGiven(keyed) > nextKey THEN KeysGiven(keyed) ELSE nextKey
  BY Zenon DEF UpdateSteps
<1>2. /\ sop \in Seq(SopVersion) /\ sop[i] \in SopVersion /\ nextKey \in Nat /\ sopEdits \in Nat
      /\ \A j \in DOMAIN sop : sop[j] \in SopVersion
  BY DEF SopInv, SopTyped
<1>3. old \in Seq(KeyedStep) /\ \A p, q \in DOMAIN old : old[p].key = old[q].key => p = q
  BY <1>2 DEF SopVersion, SopInv, KeyOnce
<1>4. /\ steps \in Seq(RawStep)
      /\ \A n \in DOMAIN steps :
           IF KeptAt(steps, n) THEN \E p \in DOMAIN old : steps[n] = old[p] ELSE steps[n].id[1] = sopEdits
      /\ \A n, m \in DOMAIN steps :
           ~KeptAt(steps, n) /\ ~KeptAt(steps, m) /\ steps[n].id = steps[m].id => n = m
  <2> HIDE DEF old
  <2>1. steps \in Rewritten(old)
    BY DEF old
  <2>2. QED
    BY <1>2, <1>3, <2>1, RewrittenSteps
<1>5. /\ keyed \in Seq(KeyedStep) /\ DOMAIN keyed = DOMAIN steps
      /\ \A n \in DOMAIN steps :
           IF KeptAt(steps, n) THEN keyed[n] = steps[n]
           ELSE keyed[n].id = steps[n].id /\ keyed[n].key \in (nextKey + 1)..(nextKey + Len(steps))
      /\ \A n, m \in DOMAIN steps : (KeptAt(steps, n) <=> KeptAt(steps, m)) /\ keyed[n].key = keyed[m].key => n = m
  BY <1>2, <1>4, KeysAreGiven
<1>6. sop' = [m \in DOMAIN sop |-> IF m = i THEN new ELSE sop[m]]
  <2> HIDE DEF keyed
  <2>1. QED
    BY <1>1, Zenon
<1> HIDE DEF keyed
<1>7. new \in SopVersion /\ new.state = "draft" /\ new.steps = keyed
  BY <1>1, <1>2, <1>5 DEF SopVersion
<1> HIDE DEF new, old
<1>8. /\ sop' \in Seq(SopVersion) /\ DOMAIN sop' = DOMAIN sop /\ sop'[i] = new
      /\ \A m \in DOMAIN sop : m # i => sop'[m] = sop[m]
  BY <1>2, <1>6, <1>7
<1>9. ASSUME NEW n \in DOMAIN keyed
      PROVE  IF KeptAt(steps, n) THEN Older(keyed[n], i) ELSE Newer(keyed[n])
  <2>1. CASE KeptAt(steps, n)
    <3>1. keyed[n] = steps[n] /\ \E p \in DOMAIN old : steps[n] = old[p]
      BY <1>4, <1>5, <2>1
    <3>2. QED
      BY <2>1, <3>1 DEF Older, old
  <2>2. CASE ~KeptAt(steps, n)
    <3>1. /\ keyed[n].id = steps[n].id /\ steps[n].id[1] = sopEdits
          /\ keyed[n].key \in (nextKey + 1)..(nextKey + Len(steps))
      BY <1>4, <1>5, <2>2
    <3>2. Len(steps) \in Nat
      BY <1>4
    <3>3. keyed[n].key > nextKey
      BY <1>2, <3>1, <3>2
    <3>4. keyed[n].id[1] = sopEdits
      BY <3>1, Zenon
    <3>5. QED
      BY <2>2, <3>3, <3>4 DEF Newer
  <2>3. QED
    BY <2>1, <2>2
\* Of what a version has now, and of what is new.
<1>10. ASSUME NEW s, Older(s, i)
       PROVE  /\ s \in KeyedStep /\ s.key <= nextKey /\ s.id[1] < sopEdits
              /\ \A j \in DOMAIN sop : \A q \in DOMAIN sop[j].steps :
                   s.key = sop[j].steps[q].key <=> s.id = sop[j].steps[q].id
  <2>1. PICK p \in DOMAIN sop[i].steps : s = sop[i].steps[p]
    BY <1>10 DEF Older
  <2>2. s \in KeyedStep
    BY <1>2, <2>1 DEF SopVersion
  <2>3. QED
    BY <2>1, <2>2 DEF SopInv, KeysGone, KeyIsStep
<1>11. ASSUME NEW j \in DOMAIN sop, NEW q \in DOMAIN sop[j].steps
       PROVE  /\ sop[j].steps[q] \in KeyedStep /\ sop[j].steps[q].key <= nextKey /\ sop[j].steps[q].id[1] < sopEdits
              /\ sop[j].steps[q].key \in Nat /\ sop[j].steps[q].id[1] \in Nat
  <2>1. sop[j].steps[q] \in KeyedStep
    BY <1>2 DEF SopVersion
  <2>2. sop[j].steps[q].key <= nextKey /\ sop[j].steps[q].id[1] < sopEdits
    BY DEF SopInv, KeysGone
  <2>3. QED
    BY <2>1, <2>2 DEF KeyedStep
<1>12. ASSUME NEW n \in DOMAIN keyed, NEW j \in DOMAIN sop, NEW q \in DOMAIN sop[j].steps
       PROVE  keyed[n].key = sop[j].steps[q].key <=> keyed[n].id = sop[j].steps[q].id
  <2>1. CASE KeptAt(steps, n)
    BY <1>9, <1>10, <2>1
  <2>2. CASE ~KeptAt(steps, n)
    <3>1. keyed[n].key > nextKey /\ keyed[n].id[1] = sopEdits
      BY <1>9, <2>2 DEF Newer
    <3>2. keyed[n].key # sop[j].steps[q].key
      <4>1. keyed[n] \in KeyedStep
        BY <1>5
      <4>2. keyed[n].key \in Nat
        BY <4>1 DEF KeyedStep
      <4>3. QED
        BY <1>2, <1>11, <3>1, <4>2
    <3>3. keyed[n].id[1] # sop[j].steps[q].id[1]
      BY <1>2, <1>11, <3>1
    <3>4. QED
      BY <3>2, <3>3, Zenon
  <2>3. QED
    BY <2>1, <2>2
<1>13. ASSUME NEW n \in DOMAIN keyed, NEW m \in DOMAIN keyed
       PROVE  /\ keyed[n].key = keyed[m].key => n = m
              /\ keyed[n].id = keyed[m].id => keyed[n].key = keyed[m].key
  <2>1. CASE KeptAt(steps, m)
    <3>1. PICK p \in DOMAIN sop[i].steps : keyed[m] = sop[i].steps[p]
      BY <1>9, <2>1 DEF Older
    <3>2. keyed[n].key = keyed[m].key <=> keyed[n].id = keyed[m].id
      BY <1>12, <3>1
    <3>3. CASE KeptAt(steps, n)
      BY <1>5, <2>1, <3>2, <3>3
    <3>4. CASE ~KeptAt(steps, n)
      <4>1. keyed[n].key > nextKey /\ keyed[m].key <= nextKey /\ keyed[m].key \in Nat
        BY <1>9, <1>11, <3>1, <3>4 DEF Newer
      <4>2. keyed[n] \in KeyedStep
        BY <1>5
      <4>3. keyed[n].key \in Nat
        BY <4>2 DEF KeyedStep
      <4>4. keyed[n].key # keyed[m].key
        BY <1>2, <4>1, <4>3
      <4>5. QED
        BY <3>2, <4>4
    <3>5. QED
      BY <3>3, <3>4
  <2>2. CASE ~KeptAt(steps, m) /\ KeptAt(steps, n)
    <3>1. PICK p \in DOMAIN sop[i].steps : keyed[n] = sop[i].steps[p]
      BY <1>9, <2>2 DEF Older
    <3>2. keyed[m].key = keyed[n].key <=> keyed[m].id = keyed[n].id
      BY <1>12, <3>1
    <3>3. keyed[m].key > nextKey /\ keyed[n].key <= nextKey /\ keyed[n].key \in Nat
      BY <1>9, <1>11, <2>2, <3>1 DEF Newer
    <3>4. keyed[m] \in KeyedStep
      BY <1>5
    <3>5. keyed[m].key \in Nat
      BY <3>4 DEF KeyedStep
    <3>6. keyed[n].key # keyed[m].key
      BY <1>2, <3>3, <3>5
    <3>7. QED
      BY <3>2, <3>6
  <2>3. CASE ~KeptAt(steps, m) /\ ~KeptAt(steps, n)
    <3>1. keyed[n].id = steps[n].id /\ keyed[m].id = steps[m].id
      BY <1>5, <2>3
    <3>2. keyed[n].id = keyed[m].id => n = m
      BY <1>4, <1>5, <2>3, <3>1
    <3>3. keyed[n].key = keyed[m].key => n = m
      BY <1>5, <2>3
    <3>4. QED
      BY <3>2, <3>3
  <2>4. QED
    BY <2>1, <2>2, <2>3
<1>14. nextKey' \in Nat /\ nextKey' >= nextKey /\ \A n \in DOMAIN keyed : keyed[n].key <= nextKey'
  <2>1. Len(steps) \in Nat
    BY <1>4
  <2>2. ASSUME NEW n \in DOMAIN keyed PROVE keyed[n].key \in Nat /\ keyed[n].key <= nextKey + Len(steps)
    <3>1. keyed[n] \in KeyedStep
      BY <1>5
    <3>2. keyed[n].key \in Nat
      BY <3>1 DEF KeyedStep
    <3>3. CASE KeptAt(steps, n)
      BY <1>2, <1>9, <1>10, <2>1, <3>2, <3>3
    <3>4. CASE ~KeptAt(steps, n)
      BY <1>2, <1>5, <2>1, <3>2, <3>4
    <3>5. QED
      BY <3>2, <3>3, <3>4
  <2> DEFINE N == nextKey + Len(steps)
  <2>3. N \in Nat /\ \A n \in DOMAIN keyed : keyed[n].key <= N
    BY <1>2, <2>1, <2>2
  <2> HIDE DEF N
  <2>4. KeysGiven(keyed) \in Nat /\ \A n \in DOMAIN keyed : keyed[n].key <= KeysGiven(keyed)
    BY <1>5, <2>3, KeysGivenBound
  <2>5. QED
    BY <1>1, <1>2, <2>2, <2>4
<1>15. KeysGone'
  <2>1. ASSUME NEW j \in DOMAIN sop', NEW q \in DOMAIN sop'[j].steps
        PROVE  sop'[j].steps[q].key <= nextKey' /\ sop'[j].steps[q].id[1] < sopEdits'
    <3>1. CASE j = i
      <4>1. sop'[j].steps = keyed
        BY <1>7, <1>8, <3>1
      <4>2. keyed[q].key <= nextKey'
        BY <1>14, <2>1, <4>1
      <4>3. keyed[q].id[1] \in Nat /\ keyed[q].id[1] <= sopEdits
        <5>1. keyed[q] \in KeyedStep
          BY <1>5, <2>1, <4>1
        <5>2. keyed[q].id[1] \in Nat
          BY <5>1 DEF KeyedStep
        <5>3. CASE KeptAt(steps, q)
          BY <1>2, <1>9, <1>10, <2>1, <4>1, <5>2, <5>3
        <5>4. CASE ~KeptAt(steps, q)
          BY <1>2, <1>9, <2>1, <4>1, <5>2, <5>4 DEF Newer
        <5>5. QED
          BY <5>2, <5>3, <5>4
      <4>4. QED
        BY <1>1, <1>2, <4>1, <4>2, <4>3
    <3>2. CASE j # i
      <4>1. j \in DOMAIN sop /\ sop'[j].steps = sop[j].steps
        BY <1>8, <3>2
      <4>2. sop[j].steps[q].key <= nextKey /\ sop[j].steps[q].id[1] < sopEdits
            /\ sop[j].steps[q].key \in Nat /\ sop[j].steps[q].id[1] \in Nat
        BY <1>11, <2>1, <4>1
      <4>3. QED
        BY <1>1, <1>2, <1>14, <4>1, <4>2
    <3>3. QED
      BY <3>1, <3>2
  <2>2. QED
    BY <2>1 DEF KeysGone
<1>16. KeyIsStep'
  <2>1. ASSUME NEW j \in DOMAIN sop', NEW k \in DOMAIN sop', NEW p \in DOMAIN sop'[j].steps,
               NEW q \in DOMAIN sop'[k].steps
        PROVE  sop'[j].steps[p].key = sop'[k].steps[q].key <=> sop'[j].steps[p].id = sop'[k].steps[q].id
    <3>1. sop'[i].steps = keyed /\ \A m \in DOMAIN sop : m # i => sop'[m].steps = sop[m].steps
      BY <1>7, <1>8
    <3>2. CASE j = i /\ k = i
      <4>1. p \in DOMAIN keyed /\ q \in DOMAIN keyed
        BY <2>1, <3>1, <3>2
      <4>2. keyed[p].key = keyed[q].key <=> keyed[p].id = keyed[q].id
        BY <1>13, <4>1
      <4>3. QED
        BY <3>1, <3>2, <4>2
    <3>3. CASE j = i /\ k # i
      BY <1>8, <1>12, <3>1, <3>3
    <3>4. CASE j # i /\ k = i
      BY <1>8, <1>12, <3>1, <3>4
    <3>5. CASE j # i /\ k # i
      BY <1>8, <3>1, <3>5 DEF SopInv, KeyIsStep
    <3>6. QED
      BY <3>2, <3>3, <3>4, <3>5
  <2>2. QED
    BY <2>1 DEF KeyIsStep
<1>17. KeyOnce'
  <2>1. ASSUME NEW j \in DOMAIN sop', NEW p \in DOMAIN sop'[j].steps, NEW q \in DOMAIN sop'[j].steps,
               sop'[j].steps[p].key = sop'[j].steps[q].key
        PROVE  p = q
    <3>1. CASE j = i
      BY <1>7, <1>8, <1>13, <2>1, <3>1
    <3>2. CASE j # i
      BY <1>8, <2>1, <3>2 DEF SopInv, KeyOnce
    <3>3. QED
      BY <3>1, <3>2
  <2>2. QED
    BY <2>1 DEF KeyOnce
<1>18. WindowsApart'
  BY <1>7, <1>8, WindowsStand
<1>19. RecipeFits'
  <2>1. \A j \in DOMAIN sop : sop[j].state \in Settled =>
          j \in DOMAIN sop' /\ sop'[j].state \in Settled /\ sop'[j].steps = sop[j].steps
    BY <1>1, <1>8 DEF Settled
  <2>2. QED
    BY <1>1, <2>1, RecipeStands
<1>20. SopTyped'
  BY <1>1, <1>2, <1>8, <1>14 DEF SopInv, SopTyped
<1>21. QED
  BY <1>15, <1>16, <1>17, <1>18, <1>19, <1>20 DEF SopInv

(* A recipe is made from the steps of a published version.                  *)
LEMMA RecipeGenerated ==
  ASSUME SopInv, NEW i \in DOMAIN sop, NEW aged \in BOOLEAN, GenerateRecipe(i, aged), SopsAssumed
  PROVE  SopInv'
<1> DEFINE steps == sop[i].steps
           list == [n \in DOMAIN steps |->
                     [pos |-> n, kind |-> steps[n].kind, title |-> steps[n].title, id |-> steps[n].id,
                      key |-> IF aged THEN None ELSE steps[n].key]]
<1>1. /\ sop[i].state = "published" /\ recipe' = [linked |-> i, steps |-> list]
      /\ UNCHANGED <<clock, sop, nextKey, sopEdits>>
  BY Zenon DEF GenerateRecipe
<1>2. recipe'.linked = i /\ recipe'.steps = list
  BY <1>1
<1>3. DOMAIN list = DOMAIN steps /\ \A n \in DOMAIN steps : MadeFrom(list[n], steps[n], n)
  BY DEF MadeFrom
<1> HIDE DEF list
<1>4. i # None
  <2>1. DOMAIN sop = 1..Len(sop) /\ Len(sop) \in Nat
    BY DEF SopInv, SopTyped
  <2>2. QED
    BY <2>1 DEF SopsAssumed
<1>5. RecipeFits'
  BY <1>1, <1>2, <1>3, <1>4 DEF RecipeFits, Settled
<1>6. QED
  BY <1>1, <1>5 DEF SopInv, SopTyped, WindowsApart, KeysGone, KeyIsStep, KeyOnce

(* Every step of the model keeps the invariant.                             *)
LEMMA SopsStep == ASSUME SopsAssumed, SopInv, SopNext PROVE SopInv'
<1>1. /\ sop \in Seq(SopVersion) /\ sopEdits \in Nat /\ clock \in Nat
      /\ \A i \in DOMAIN sop : sop[i] \in SopVersion
      /\ Moment \subseteq Nat
  BY DEF SopInv, SopTyped, Moment, SopsAssumed
<1>2. sopEdits' = sopEdits \/ sopEdits' = sopEdits + 1 => sopEdits' \in Nat /\ sopEdits' >= sopEdits
  BY <1>1
<1>3. CASE Pass
  BY <1>1, <1>3, SopsCalm DEF Pass
<1>4. ASSUME NEW user \in Author, NEW file \in BOOLEAN, NEW copied \in BOOLEAN, CreateVersion(user, file, copied)
      PROVE  SopInv'
  <2> DEFINE steps == IF copied /\ InEffect(clock) # None THEN sop[InEffect(clock)].steps ELSE <<>>
             new == Version(user, file, steps)
  <2>1. sop' = Append(sop, new) /\ UNCHANGED <<clock, nextKey, recipe, sopEdits>>
    BY <1>4, Zenon DEF CreateVersion
  <2>2. steps = <<>> \/ \E j \in DOMAIN sop : steps = sop[j].steps
    <3>1. CASE copied /\ InEffect(clock) # None
      <4>1. InEffect(clock) \in DOMAIN sop
        BY <1>1, <3>1, InEffectIs
      <4>2. QED
        BY <3>1, <4>1
    <3>2. CASE ~(copied /\ InEffect(clock) # None)
      BY <3>2
    <3>3. QED
      BY <3>1, <3>2
  <2>3. steps \in Seq(KeyedStep)
    <3> HIDE DEF steps
    <3>1. \A j \in DOMAIN sop : sop[j].steps \in Seq(KeyedStep)
      BY <1>1 DEF SopVersion
    <3>2. <<>> \in Seq(KeyedStep)
      OBVIOUS
    <3>3. QED
      BY <2>2, <3>1, <3>2, Zenon
  <2> HIDE DEF steps
  <2>4. new \in SopVersion /\ new.state = "draft" /\ new.steps = steps
    BY <2>3 DEF Version, SopVersion, Time
  <2> HIDE DEF new
  <2>5. QED
    BY <2>1, <2>2, <2>4, VersionAdded
<1>5. CASE CreateBatch
  BY <1>1, <1>5, SopsCalm DEF CreateBatch
<1>6. ASSUME NEW i \in DOMAIN sop, NEW new \in SopVersion, new.steps = sop[i].steps, new.state # "published",
             sop[i].state \in Settled => new.state \in Settled,
             sop' = [m \in DOMAIN sop |-> IF m = i THEN new ELSE sop[m]],
             sopEdits' = sopEdits \/ sopEdits' = sopEdits + 1, UNCHANGED <<clock, nextKey, recipe>>
      PROVE  SopInv'
  BY <1>2, <1>6, VersionChanged
<1>7. ASSUME NEW i \in DOMAIN sop, NEW from \in Moment \cup {None}, NEW to \in Moment \cup {None},
             NEW training \in {FALSE, Trainee # {}}, UpdateVersion(i, from, to, training)
      PROVE  SopInv'
  <2> DEFINE v == sop[i]
             new == [v EXCEPT !.from = from, !.to = to, !.training = training, !.file = TRUE]
  <2>1. /\ sop[i].state = "draft" /\ sopEdits' = sopEdits + 1 /\ UNCHANGED <<clock, nextKey, recipe>>
        /\ sop' = [sop EXCEPT ![i] = new]
    BY <1>7, Zenon DEF UpdateVersion
  <2>2. sop' = [m \in DOMAIN sop |-> IF m = i THEN new ELSE sop[m]]
    <3> HIDE DEF new
    <3>1. QED
      BY <2>1, Zenon
  <2>3. v \in SopVersion /\ v.state = "draft" /\ from \in Time /\ to \in Time /\ training \in BOOLEAN
    BY <1>1, <2>1 DEF Time
  <2> HIDE DEF v
  <2>4. new \in SopVersion /\ new.state = "draft" /\ new.steps = v.steps
    BY <2>3 DEF SopVersion
  <2> HIDE DEF new
  <2>5. QED
    BY <1>6, <2>1, <2>2, <2>4 DEF v, Settled
<1>8. ASSUME NEW i \in DOMAIN sop, NEW steps \in Rewritten(sop[i].steps), UpdateSteps(i, steps)
      PROVE  SopInv'
  BY <1>8, StepsUpdated
<1>9. ASSUME NEW i \in DOMAIN sop, NEW s \in {"draft", "review", "retired"},
             sop' = [sop EXCEPT ![i].state = s], sop[i].state \in Settled => s \in Settled,
             sopEdits' = sopEdits \/ sopEdits' = sopEdits + 1, UNCHANGED <<clock, nextKey, recipe>>
      PROVE  SopInv'
  <2> DEFINE v == sop[i]
             new == [v EXCEPT !.state = s]
  <2>1. sop' = [m \in DOMAIN sop |-> IF m = i THEN new ELSE sop[m]]
    <3>1. sop' = [sop EXCEPT ![i] = new]
      BY <1>9, Zenon
    <3> HIDE DEF new
    <3>2. QED
      BY <3>1, Zenon
  <2>2. v \in SopVersion
    BY <1>1
  <2> HIDE DEF v
  <2>3. new \in SopVersion /\ new.state = s /\ new.steps = v.steps
    BY <2>2 DEF SopVersion
  <2> HIDE DEF new
  <2>4. QED
    BY <1>6, <1>9, <2>1, <2>3 DEF v
<1>10. ASSUME NEW i \in DOMAIN sop, SubmitVersion(i) PROVE SopInv'
  <2>1. /\ sop[i].state = "draft" /\ sop' = [sop EXCEPT ![i].state = "review"] /\ sopEdits' = sopEdits
        /\ UNCHANGED <<clock, nextKey, recipe>>
    BY <1>10, Zenon DEF SubmitVersion
  <2>2. sop[i].state \notin Settled
    BY <2>1 DEF Settled
  <2>3. QED
    BY <1>9, <2>1, <2>2
<1>11. ASSUME NEW i \in DOMAIN sop, Retire(i) PROVE SopInv'
  <2>1. sop' = [sop EXCEPT ![i].state = "retired"] /\ sopEdits' = sopEdits /\ UNCHANGED <<clock, nextKey, recipe>>
    BY <1>11, Zenon DEF Retire
  <2>2. "retired" \in Settled
    BY DEF Settled
  <2>3. QED
    BY <1>9, <2>1, <2>2
<1>12. ASSUME NEW i \in DOMAIN sop, NEW user \in Author, Restore(i, user) PROVE SopInv'
  <2> DEFINE v == Version(user, sop[i].file, sop[i].steps)
             training == sop[i].training
             new == [v EXCEPT !.training = training]
  <2>1. sop' = Append(sop, new) /\ UNCHANGED <<clock, nextKey, recipe, sopEdits>>
    BY <1>12, Zenon DEF Restore
  <2>2. sop[i].file \in BOOLEAN /\ sop[i].steps \in Seq(KeyedStep) /\ sop[i].training \in BOOLEAN
    BY <1>1 DEF SopVersion
  <2>3. v \in SopVersion /\ v.state = "draft" /\ v.steps = sop[i].steps
    BY <2>2 DEF Version, SopVersion, Time
  <2> HIDE DEF v
  <2>4. new \in SopVersion /\ new.state = "draft" /\ new.steps = v.steps
    BY <2>2, <2>3 DEF SopVersion
  <2> HIDE DEF new
  <2>5. QED
    BY <2>1, <2>3, <2>4, VersionAdded
<1>13. ASSUME NEW i \in DOMAIN sop, NEW user \in Approver, Reject(i, user) PROVE SopInv'
  <2>1. /\ sop[i].state = "review" /\ sop' = [sop EXCEPT ![i].state = "draft"] /\ sopEdits' = sopEdits + 1
        /\ UNCHANGED <<clock, nextKey, recipe>>
    BY <1>13, Zenon DEF Reject
  <2>2. sop[i].state \notin Settled
    BY <2>1 DEF Settled
  <2>3. QED
    BY <1>9, <2>1, <2>2
<1>14. ASSUME NEW i \in DOMAIN sop, NEW user \in Approver, NEW asked \in Moment \cup {None},
              NEW reason \in BOOLEAN, Approve(i, user, asked, reason)
       PROVE  SopInv'
  <2> DEFINE from == IF asked # None THEN asked ELSE IF sop[i].from # None THEN sop[i].from ELSE clock
  <2>1. /\ sop[i].state = "review" /\ sop' = Published(i, from)
        /\ UNCHANGED <<clock, nextKey, recipe, sopEdits>>
    BY <1>14, Zenon DEF Approve
  <2>2. from \in Nat
    BY <1>1 DEF SopVersion, Time
  <2> HIDE DEF from
  <2>3. QED
    BY <2>1, <2>2, PublishedApart
<1>15. ASSUME NEW i \in DOMAIN sop, NEW user \in Trainee, Acknowledge(i, user) PROVE SopInv'
  BY <1>1, <1>15, SopsCalm DEF Acknowledge
<1>16. ASSUME NEW i \in DOMAIN sop, NEW aged \in BOOLEAN, GenerateRecipe(i, aged) PROVE SopInv'
  BY <1>16, RecipeGenerated
<1>17. ASSUME NEW b \in DOMAIN frozen, NEW user \in Trainee, AcknowledgeForBatch(b, user) \/ StartBatch(b, user)
       PROVE  SopInv'
  BY <1>1, <1>17, SopsCalm DEF AcknowledgeForBatch, StartBatch
<1>18. ASSUME NEW b \in DOMAIN frozen, FinishSopBatch(b) PROVE SopInv'
  BY <1>1, <1>18, SopsCalm DEF FinishSopBatch
<1>19. QED
  BY <1>3, <1>4, <1>5, <1>7, <1>8, <1>10, <1>11, <1>12, <1>13, <1>14, <1>15, <1>16, <1>17, <1>18 DEF SopNext

(* Nothing is written yet at the beginning.                                 *)
LEMMA SopsStart == ASSUME SopInit PROVE SopInv
<1>1. sop = <<>> /\ DOMAIN sop = {} /\ clock = 0 /\ nextKey = 0 /\ sopEdits = 0
  BY DEF SopInit
<1>2. recipe.linked = None /\ recipe.steps = <<>>
  BY DEF SopInit
<1>3. SopTyped
  BY <1>1 DEF SopTyped
<1>4. QED
  BY <1>1, <1>2, <1>3 DEF SopInv, WindowsApart, KeysGone, KeyIsStep, KeyOnce, RecipeFits

(* What none of the variables of the versions changes, keeps the invariant. *)
LEMMA SopsStay == ASSUME SopInv, UNCHANGED sopVars PROVE SopInv'
<1>1. UNCHANGED <<sop, nextKey, recipe, sopEdits, clock>>
  BY DEF sopVars
<1>2. clock' \in Nat
  BY <1>1 DEF SopInv, SopTyped
<1>3. QED
  BY <1>1, <1>2, SopsCalm

(* For any people, any kinds of steps and any bounds: no two versions of a   *)
(* procedure are in effect at a time, and a step of the recipe is guided by *)
(* the step it was made from (services/sop_service.py decide,               *)
(* domain/sop_steps.py resolve_step).                                       *)
THEOREM SopsHold == SopsAssumed => (SopSpec => [](OneInEffect /\ GuidedByItsOwn))
<1>1. SUFFICES ASSUME SopsAssumed PROVE SopSpec => [](OneInEffect /\ GuidedByItsOwn)
  OBVIOUS
<1>2. SopInit => SopInv
  BY SopsStart
<1>3. SopInv /\ [SopNext]_sopVars => SopInv'
  BY <1>1, SopsStep, SopsStay
<1>4. SopInv => OneInEffect /\ GuidedByItsOwn
  BY <1>1, WindowsSuffice, KeysSuffice
<1>5. QED
  BY <1>2, <1>3, <1>4, PTL DEF SopSpec

=============================================================================
