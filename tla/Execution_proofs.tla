-------------------------- MODULE Execution_proofs --------------------------
(***************************************************************************)
(* Execution is typed, and implements Handover, for every plan, policy and *)
(* bound.  First, what the readings and the partial effects of module      *)
(* Commands do to a well-formed table of commands; last, why a device      *)
(* takes an action command up at most once, only after the books say that  *)
(* it may have been sent, and never once they say it was not.              *)
(***************************************************************************)
EXTENDS Execution, TLAPS, FiniteSetTheorems, WellFoundedInduction

(* A nonempty set of numbers has a least one: CHOOSE finds it.              *)
LEMMA LeastExists ==
  ASSUME NEW S \in SUBSET Nat, S # {}
  PROVE  \E s \in S : \A t \in S : s <= t
<1>1. \E s \in S : \A t \in S : <<t, s>> \notin OpToRel(<, Nat)
  BY NatLessThanWellFounded, WFMin, Zenon
<1>2. PICK s \in S : \A t \in S : <<t, s>> \notin OpToRel(<, Nat)
  BY <1>1
<1>3. ASSUME NEW t \in S PROVE s <= t
  <2>1. t \in Nat /\ s \in Nat
    OBVIOUS
  <2>2. ~(t < s)
    BY <1>2, <2>1 DEF OpToRel
  <2>3. QED
    BY <2>1, <2>2
<1>4. QED
  BY <1>3

(* A function on 1..n with values in S is a sequence over S.                *)
LEMMA SeqOfFunction ==
  ASSUME NEW S, NEW n \in Nat, NEW f \in [1..n -> S]
  PROVE  f \in Seq(S)
OBVIOUS

(* The new rows are rows, queued, and the old ones stay.                    *)
LEMMA IssueAdds ==
  ASSUME NEW cs, NEW new, CanIssue(cs, DOMAIN new)
  PROVE  /\ Issue(cs, new) = [c \in DOMAIN Issue(cs, new) |-> Issue(cs, new)[c]]
         /\ DOMAIN cs \subseteq DOMAIN Issue(cs, new)
         /\ DOMAIN Issue(cs, new) \subseteq DOMAIN cs \cup CmdId
         /\ \A c \in DOMAIN cs : Issue(cs, new)[c] = cs[c]
         /\ \A c \in DOMAIN Issue(cs, new) \ DOMAIN cs :
              \E n \in DOMAIN new : Issue(cs, new)[c] = new[n]
<1> DEFINE id == CHOOSE f \in Injection(DOMAIN new, FreeIds(cs)) : TRUE
           for(n) == CHOOSE t \in DOMAIN new : id[t] = n
           all == [n \in DOMAIN cs \cup Range(id) |-> IF n \in DOMAIN cs THEN cs[n] ELSE new[for(n)]]
<1>1. id \in [DOMAIN new -> FreeIds(cs)]
  BY DEF CanIssue, Injection
<1>2. Issue(cs, new) = all
  BY DEF Issue
<1>3. Range(id) \subseteq FreeIds(cs)
  BY <1>1 DEF Range
<1>4. ASSUME NEW n \in Range(id) PROVE for(n) \in DOMAIN new
  <2>1. \E t \in DOMAIN new : id[t] = n
    BY <1>1 DEF Range
  <2>2. QED
    BY <2>1
<1> HIDE DEF id, for
<1>5. DOMAIN all = DOMAIN cs \cup Range(id)
  OBVIOUS
<1>6. /\ \A c \in DOMAIN cs : all[c] = cs[c]
      /\ \A c \in Range(id) \ DOMAIN cs : all[c] = new[for(c)]
  OBVIOUS
<1>7. all = [c \in DOMAIN all |-> all[c]]
  OBVIOUS
<1> HIDE DEF all
<1>8. QED
  BY <1>2, <1>3, <1>4, <1>5, <1>6, <1>7 DEF FreeIds

-----------------------------------------------------------------------------
(* A well-formed table: rows are rows, and a target is an issued command.   *)
Books(cs) ==
  /\ DOMAIN cs \subseteq CmdId /\ cs \in [DOMAIN cs -> Command]
  /\ \A c \in DOMAIN cs : cs[c].target \in DOMAIN cs \cup {NoCmd}

(* From cs to ds no row is lost, what it is about never changes, only the   *)
(* rows in S are delivered otherwise than before or taken in flight, and    *)
(* new rows are queued.                                                     *)
Evolves(cs, ds, S) ==
  /\ Books(ds) /\ DOMAIN cs \subseteq DOMAIN ds
  /\ \A c \in DOMAIN cs :
       /\ ds[c].type = cs[c].type /\ ds[c].step = cs[c].step
       /\ ds[c].attempt = cs[c].attempt /\ ds[c].target = cs[c].target
       /\ c \notin S => /\ ds[c].delivery = cs[c].delivery
                        /\ InFlight(ds[c]) => InFlight(cs[c])
  /\ \A c \in DOMAIN ds \ DOMAIN cs : ds[c].delivery = "queued" /\ ~InFlight(ds[c])

Landed == CommandState \ {"accepted", "running"}

(* A row whose fields are given by an EXCEPT is still a row.                *)
WithState(r, v)    == [r EXCEPT !.state = v]
WithDelivery(r, v) == [r EXCEPT !.delivery = v]
WithOutcome(r, v)  == [r EXCEPT !.outcome = v]
WithStarted(r, v)  == [r EXCEPT !.started = v]
Marked(r, v, d)    == [r EXCEPT !.state = v, !.delivery = d]

(* Another state: still a row, everything else as before.                   *)
LEMMA RowState ==
  ASSUME NEW r \in Command, NEW v \in CommandState
  PROVE  LET q == WithState(r, v)
         IN /\ q \in Command /\ q.state = v
            /\ q.type = r.type /\ q.step = r.step /\ q.attempt = r.attempt /\ q.target = r.target
            /\ q.delivery = r.delivery /\ q.outcome = r.outcome /\ q.started = r.started
BY DEF Command, WithState

(* Another delivery: still a row, everything else as before.                *)
LEMMA RowDelivery ==
  ASSUME NEW r \in Command, NEW v \in Delivery
  PROVE  LET q == WithDelivery(r, v)
         IN /\ q \in Command /\ q.delivery = v
            /\ q.type = r.type /\ q.step = r.step /\ q.attempt = r.attempt /\ q.target = r.target
            /\ q.state = r.state /\ q.outcome = r.outcome /\ q.started = r.started
BY DEF Command, WithDelivery

(* Another outcome: still a row, everything else as before.                 *)
LEMMA RowOutcome ==
  ASSUME NEW r \in Command, NEW v \in Outcome
  PROVE  LET q == WithOutcome(r, v)
         IN /\ q \in Command /\ q.outcome = v
            /\ q.type = r.type /\ q.step = r.step /\ q.attempt = r.attempt /\ q.target = r.target
            /\ q.state = r.state /\ q.delivery = r.delivery /\ q.started = r.started
BY DEF Command, WithOutcome

(* Another started mark: still a row, everything else as before.            *)
LEMMA RowStarted ==
  ASSUME NEW r \in Command, NEW v \in BOOLEAN
  PROVE  LET q == WithStarted(r, v)
         IN /\ q \in Command /\ q.started = v
            /\ q.type = r.type /\ q.step = r.step /\ q.attempt = r.attempt /\ q.target = r.target
            /\ q.state = r.state /\ q.delivery = r.delivery /\ q.outcome = r.outcome
BY DEF Command, WithStarted

(* Another state and delivery: still a row, the rest as before.             *)
LEMMA RowMarked ==
  ASSUME NEW r \in Command, NEW v \in CommandState, NEW d \in Delivery
  PROVE  LET q == Marked(r, v, d)
         IN /\ q \in Command /\ q.state = v /\ q.delivery = d
            /\ q.type = r.type /\ q.step = r.step /\ q.attempt = r.attempt /\ q.target = r.target
            /\ q.outcome = r.outcome /\ q.started = r.started
<1> DEFINE p == WithState(r, v)
           q == WithDelivery(p, d)
<1>1. /\ p \in Command /\ p.state = v
      /\ p.type = r.type /\ p.step = r.step /\ p.attempt = r.attempt /\ p.target = r.target
      /\ p.outcome = r.outcome /\ p.started = r.started
  BY RowState
<1> HIDE DEF p
<1>2. /\ q \in Command /\ q.state = v /\ q.delivery = d
      /\ q.type = r.type /\ q.step = r.step /\ q.attempt = r.attempt /\ q.target = r.target
      /\ q.outcome = r.outcome /\ q.started = r.started
  BY <1>1, RowDelivery
<1> HIDE DEF q
<1>3. q = Marked(r, v, d)
  BY Zenon DEF p, q, Marked, WithState, WithDelivery
<1>4. QED
  BY <1>2, <1>3

(* issue_command writes a row that is queued and not in flight.             *)
LEMMA NewCommandIsRow ==
  ASSUME NEW type \in DISPATCHING \cup Control, NEW step \in Step,
         NEW attempt \in Nat \ {0}, NEW target \in CmdId \cup {NoCmd}
  PROVE  /\ NewCommand(type, step, attempt, target) \in Command
         /\ NewCommand(type, step, attempt, target).target = target
         /\ NewCommand(type, step, attempt, target).delivery = "queued"
         /\ ~InFlight(NewCommand(type, step, attempt, target))
BY DEF NewCommand, Command, CommandState, Delivery, Outcome, InFlight

(* A well-formed table evolves to itself.                                   *)
LEMMA EvolvesRefl ==
  ASSUME NEW cs, Books(cs), NEW S
  PROVE  Evolves(cs, cs, S)
BY DEF Evolves

(* One evolution after another is an evolution.                             *)
LEMMA EvolvesTrans ==
  ASSUME NEW cs, NEW ds, NEW es, NEW S, NEW T, S \subseteq DOMAIN cs, T \subseteq DOMAIN cs,
         Evolves(cs, ds, S), Evolves(ds, es, T)
  PROVE  Evolves(cs, es, S \cup T)
BY DEF Evolves

(* Issuing queued rows changes none of the rows there were.                 *)
LEMMA IssueEvolves ==
  ASSUME NEW cs, NEW new, Books(cs), CanIssue(cs, DOMAIN new),
         \A n \in DOMAIN new : /\ new[n] \in Command /\ new[n].delivery = "queued"
                               /\ ~InFlight(new[n])
                               /\ new[n].target \in DOMAIN cs \cup {NoCmd}
  PROVE  Evolves(cs, Issue(cs, new), {})
<1> DEFINE ds == Issue(cs, new)
<1>1. /\ ds = [c \in DOMAIN ds |-> ds[c]]
      /\ DOMAIN cs \subseteq DOMAIN ds /\ DOMAIN ds \subseteq DOMAIN cs \cup CmdId
      /\ \A c \in DOMAIN cs : ds[c] = cs[c]
      /\ \A c \in DOMAIN ds \ DOMAIN cs : \E n \in DOMAIN new : ds[c] = new[n]
  BY IssueAdds
<1> HIDE DEF ds
<1>2. \A c \in DOMAIN ds : ds[c] \in Command /\ ds[c].target \in DOMAIN ds \cup {NoCmd}
  BY <1>1 DEF Books
<1>3. Books(ds)
  BY <1>1, <1>2 DEF Books
<1>4. QED
  BY <1>1, <1>3 DEF Evolves, ds

(* Rows rewritten in place.                                                 *)
LEMMA RowsRewritten ==
  ASSUME NEW cs, NEW ds, NEW S, Books(cs), ds = [c \in DOMAIN cs |-> ds[c]],
         \A c \in DOMAIN cs :
           /\ ds[c] \in Command
           /\ ds[c].type = cs[c].type /\ ds[c].step = cs[c].step
           /\ ds[c].attempt = cs[c].attempt /\ ds[c].target = cs[c].target
           /\ c \notin S => /\ ds[c].delivery = cs[c].delivery
                            /\ InFlight(ds[c]) => InFlight(cs[c])
  PROVE  Evolves(cs, ds, S) /\ DOMAIN ds = DOMAIN cs
<1>1. DOMAIN ds = DOMAIN cs
  OBVIOUS
<1>2. Books(ds)
  BY <1>1 DEF Books
<1>3. QED
  BY <1>1, <1>2 DEF Evolves

(* Rows put to a state out of flight are delivered as before.               *)
LEMMA StatesRewritten ==
  ASSUME NEW cs, NEW ds, Books(cs), ds = [c \in DOMAIN cs |-> ds[c]],
         \A c \in DOMAIN cs :
           ds[c] = cs[c] \/ \E v \in Landed : ds[c] = WithState(cs[c], v)
  PROVE  Evolves(cs, ds, {}) /\ DOMAIN ds = DOMAIN cs
<1>1. ASSUME NEW c \in DOMAIN cs
      PROVE  /\ ds[c] \in Command
             /\ ds[c].type = cs[c].type /\ ds[c].step = cs[c].step
             /\ ds[c].attempt = cs[c].attempt /\ ds[c].target = cs[c].target
             /\ ds[c].delivery = cs[c].delivery
             /\ InFlight(ds[c]) => InFlight(cs[c])
  BY RowState DEF Books, Landed, InFlight
<1>2. QED
  BY <1>1, RowsRewritten

Put(cs, c, q) == [cs EXCEPT ![c] = q]

(* One row replaced by one that is about the same, outside flight.          *)
LEMMA OneRewritten ==
  ASSUME NEW cs, Books(cs), NEW c \in DOMAIN cs, NEW q \in Command,
         q.type = cs[c].type, q.step = cs[c].step,
         q.attempt = cs[c].attempt, q.target = cs[c].target
  PROVE  LET ds == Put(cs, c, q)
         IN /\ Evolves(cs, ds, {c}) /\ DOMAIN ds = DOMAIN cs /\ ds[c] = q
            /\ \A d \in DOMAIN cs \ {c} : ds[d] = cs[d]
            /\ (q.delivery = cs[c].delivery /\ (InFlight(q) => InFlight(cs[c])))
                 => Evolves(cs, ds, {})
<1> DEFINE ds == Put(cs, c, q)
<1>1. /\ ds = [d \in DOMAIN cs |-> ds[d]] /\ ds[c] = q
      /\ \A d \in DOMAIN cs \ {c} : ds[d] = cs[d]
  BY DEF Books, Put
<1> HIDE DEF ds
<1>2. \A d \in DOMAIN cs : cs[d] \in Command
  BY DEF Books
<1>3. Evolves(cs, ds, {c}) /\ DOMAIN ds = DOMAIN cs
  BY <1>1, <1>2, RowsRewritten
<1>4. (q.delivery = cs[c].delivery /\ (InFlight(q) => InFlight(cs[c]))) => Evolves(cs, ds, {})
  BY <1>1, <1>2, RowsRewritten
<1>5. QED
  BY <1>1, <1>3, <1>4 DEF ds

(* What a hold or an abort takes out of the queue.                          *)
LEMMA WithdrawQueuedEvolves ==
  ASSUME NEW cs, Books(cs), NEW b
  PROVE  LET W == {c \in BatchCmds(cs, b) : Queued(cs[c])}
         IN /\ Evolves(cs, WithdrawQueued(cs, b), W)
            /\ DOMAIN WithdrawQueued(cs, b) = DOMAIN cs
            /\ \A c \in W : /\ WithdrawQueued(cs, b)[c].delivery = "not_sent"
                           /\ ~InFlight(WithdrawQueued(cs, b)[c])
<1> DEFINE ds == WithdrawQueued(cs, b)
<1>1. \A c \in DOMAIN cs :
         /\ ds[c] \in Command
         /\ ds[c].type = cs[c].type /\ ds[c].step = cs[c].step
         /\ ds[c].attempt = cs[c].attempt /\ ds[c].target = cs[c].target
         /\ IF c \in BatchCmds(cs, b) /\ Queued(cs[c])
              THEN ds[c].delivery = "not_sent" /\ ~InFlight(ds[c])
              ELSE ds[c].delivery = cs[c].delivery /\ (InFlight(ds[c]) => InFlight(cs[c]))
  <2> SUFFICES ASSUME NEW c \in DOMAIN cs
               PROVE  /\ ds[c] \in Command
                      /\ ds[c].type = cs[c].type /\ ds[c].step = cs[c].step
                      /\ ds[c].attempt = cs[c].attempt /\ ds[c].target = cs[c].target
                      /\ IF c \in BatchCmds(cs, b) /\ Queued(cs[c])
                           THEN ds[c].delivery = "not_sent" /\ ~InFlight(ds[c])
                           ELSE ds[c].delivery = cs[c].delivery /\ (InFlight(ds[c]) => InFlight(cs[c]))
    OBVIOUS
  <2>1. cs[c] \in Command
    BY DEF Books
  <2>2. ds[c] = IF c \in BatchCmds(cs, b) /\ Queued(cs[c])
                  THEN [cs[c] EXCEPT !.state = "cancelled", !.delivery = "not_sent"] ELSE cs[c]
    BY DEF WithdrawQueued
  <2> HIDE DEF ds
  <2>3. QED
    <3> DEFINE q == Marked(cs[c], "cancelled", "not_sent")
    <3>1. /\ q \in Command /\ q.delivery = "not_sent" /\ ~InFlight(q)
          /\ q.type = cs[c].type /\ q.step = cs[c].step
          /\ q.attempt = cs[c].attempt /\ q.target = cs[c].target
      BY <2>1, RowMarked DEF CommandState, Delivery, InFlight
    <3>2. ds[c] = IF c \in BatchCmds(cs, b) /\ Queued(cs[c]) THEN q ELSE cs[c]
      BY <2>2, Zenon DEF Marked
    <3> HIDE DEF q
    <3>3. QED
      BY <2>1, <3>1, <3>2
<1>2. ds = [c \in DOMAIN cs |-> ds[c]] /\ DOMAIN ds = DOMAIN cs
  BY DEF WithdrawQueued
<1> HIDE DEF ds
<1>3. Evolves(cs, ds, {c \in BatchCmds(cs, b) : Queued(cs[c])})
  BY <1>1, <1>2, RowsRewritten
<1>4. \A c \in BatchCmds(cs, b) : c \in DOMAIN cs
  BY DEF BatchCmds
<1>5. QED
  BY <1>1, <1>2, <1>3, <1>4 DEF ds

(* One field of one row, or two, changed.                                   *)
LEMMA StateSetEvolves ==
  ASSUME NEW cs, Books(cs), NEW c \in DOMAIN cs, NEW v \in CommandState
  PROVE  LET ds == [cs EXCEPT ![c].state = v]
         IN /\ Evolves(cs, ds, {c}) /\ DOMAIN ds = DOMAIN cs
            /\ ds[c].delivery = cs[c].delivery
            /\ v \in Landed => Evolves(cs, ds, {})
<1> DEFINE q == WithState(cs[c], v)
           ds == Put(cs, c, q)
<1>1. cs[c] \in Command
  BY DEF Books
<1>2. /\ q \in Command /\ q.state = v
      /\ q.type = cs[c].type /\ q.step = cs[c].step
      /\ q.attempt = cs[c].attempt /\ q.target = cs[c].target
      /\ q.delivery = cs[c].delivery
  BY <1>1, RowState
<1>3. [cs EXCEPT ![c].state = v] = ds
  BY Zenon DEF WithState, Put
<1> HIDE DEF q
<1>4. v \in Landed => ~InFlight(q)
  BY <1>2 DEF Landed, InFlight
<1>5. /\ Evolves(cs, ds, {c}) /\ DOMAIN ds = DOMAIN cs /\ ds[c] = q
      /\ v \in Landed => Evolves(cs, ds, {})
  BY <1>1, <1>2, <1>4, OneRewritten
<1>6. ds[c].delivery = cs[c].delivery
  BY <1>2, <1>5
<1>7. QED
  BY <1>3, <1>5, <1>6, Zenon

(* One row given another state and delivery.                                *)
LEMMA MarkedEvolves ==
  ASSUME NEW cs, Books(cs), NEW c \in DOMAIN cs, NEW v \in CommandState, NEW d \in Delivery
  PROVE  /\ Evolves(cs, Put(cs, c, Marked(cs[c], v, d)), {c})
         /\ DOMAIN Put(cs, c, Marked(cs[c], v, d)) = DOMAIN cs
         /\ Put(cs, c, Marked(cs[c], v, d))[c].delivery = d
         /\ v \in Landed => ~InFlight(Put(cs, c, Marked(cs[c], v, d))[c])
<1> DEFINE q == Marked(cs[c], v, d)
<1>1. cs[c] \in Command
  BY DEF Books
<1>2. /\ q \in Command /\ q.delivery = d /\ q.state = v
      /\ q.type = cs[c].type /\ q.step = cs[c].step
      /\ q.attempt = cs[c].attempt /\ q.target = cs[c].target
  BY <1>1, RowMarked
<1> HIDE DEF q
<1>3. /\ Evolves(cs, Put(cs, c, q), {c}) /\ DOMAIN Put(cs, c, q) = DOMAIN cs
      /\ Put(cs, c, q)[c] = q
  BY <1>1, <1>2, OneRewritten
<1>4. v \in Landed => ~InFlight(q)
  BY <1>2 DEF Landed, InFlight
<1>5. QED
  BY <1>2, <1>3, <1>4 DEF q

(* One row given another delivery.                                          *)
LEMMA DeliverySetEvolves ==
  ASSUME NEW cs, Books(cs), NEW c \in DOMAIN cs, NEW v \in Delivery
  PROVE  LET ds == [cs EXCEPT ![c].delivery = v]
         IN /\ Evolves(cs, ds, {c}) /\ DOMAIN ds = DOMAIN cs /\ ds[c].delivery = v
<1> DEFINE q == WithDelivery(cs[c], v)
<1>1. cs[c] \in Command
  BY DEF Books
<1>2. /\ q \in Command /\ q.delivery = v
      /\ q.type = cs[c].type /\ q.step = cs[c].step
      /\ q.attempt = cs[c].attempt /\ q.target = cs[c].target
  BY <1>1, RowDelivery
<1>3. [cs EXCEPT ![c].delivery = v] = Put(cs, c, q)
  BY Zenon DEF WithDelivery, Put
<1> HIDE DEF q
<1>4. Evolves(cs, Put(cs, c, q), {c}) /\ DOMAIN Put(cs, c, q) = DOMAIN cs /\ Put(cs, c, q)[c] = q
  BY <1>1, <1>2, OneRewritten
<1>5. Put(cs, c, q)[c].delivery = v
  BY <1>2, <1>4
<1>6. QED
  BY <1>3, <1>4, <1>5, Zenon

(* One row given another outcome.                                           *)
LEMMA OutcomeSetEvolves ==
  ASSUME NEW cs, Books(cs), NEW c \in DOMAIN cs, NEW v \in Outcome
  PROVE  LET ds == [cs EXCEPT ![c].outcome = v]
         IN /\ Evolves(cs, ds, {}) /\ DOMAIN ds = DOMAIN cs /\ ds[c].outcome = v
<1> DEFINE q == WithOutcome(cs[c], v)
<1>1. cs[c] \in Command
  BY DEF Books
<1>2. /\ q \in Command /\ q.outcome = v
      /\ q.type = cs[c].type /\ q.step = cs[c].step
      /\ q.attempt = cs[c].attempt /\ q.target = cs[c].target
      /\ q.delivery = cs[c].delivery /\ q.state = cs[c].state
  BY <1>1, RowOutcome
<1>3. [cs EXCEPT ![c].outcome = v] = Put(cs, c, q)
  BY Zenon DEF WithOutcome, Put
<1> HIDE DEF q
<1>4. Evolves(cs, Put(cs, c, q), {}) /\ DOMAIN Put(cs, c, q) = DOMAIN cs /\ Put(cs, c, q)[c] = q
  BY <1>1, <1>2, OneRewritten DEF InFlight
<1>5. Put(cs, c, q)[c].outcome = v
  BY <1>2, <1>4
<1>6. QED
  BY <1>3, <1>4, <1>5, Zenon

(* One row given another started mark.                                      *)
LEMMA StartedSetEvolves ==
  ASSUME NEW cs, Books(cs), NEW c \in DOMAIN cs, NEW v \in BOOLEAN
  PROVE  LET ds == [cs EXCEPT ![c].started = v]
         IN /\ Evolves(cs, ds, {}) /\ DOMAIN ds = DOMAIN cs
<1> DEFINE q == WithStarted(cs[c], v)
<1>1. cs[c] \in Command
  BY DEF Books
<1>2. /\ q \in Command
      /\ q.type = cs[c].type /\ q.step = cs[c].step
      /\ q.attempt = cs[c].attempt /\ q.target = cs[c].target
      /\ q.delivery = cs[c].delivery /\ q.state = cs[c].state
  BY <1>1, RowStarted
<1>3. [cs EXCEPT ![c].started = v] = Put(cs, c, q)
  BY Zenon DEF WithStarted, Put
<1> HIDE DEF q
<1>4. Evolves(cs, Put(cs, c, q), {}) /\ DOMAIN Put(cs, c, q) = DOMAIN cs
  BY <1>1, <1>2, OneRewritten DEF InFlight
<1>5. QED
  BY <1>3, <1>4, Zenon

(* A claim: three fields at once.                                           *)
LEMMA ClaimedEvolves ==
  ASSUME NEW cs, Books(cs), NEW c \in DOMAIN cs
  PROVE  LET ds == [cs EXCEPT ![c].state = "accepted", ![c].delivery = "maybe_sent", ![c].started = TRUE]
         IN /\ Evolves(cs, ds, {c}) /\ DOMAIN ds = DOMAIN cs /\ ds[c].delivery = "maybe_sent"
<1> DEFINE ds == [cs EXCEPT ![c].state = "accepted", ![c].delivery = "maybe_sent", ![c].started = TRUE]
           p == Marked(cs[c], "accepted", "maybe_sent")
           q == WithStarted(p, TRUE)
<1>1. cs[c] \in Command
  BY DEF Books
<1>2. /\ p \in Command /\ p.delivery = "maybe_sent"
      /\ p.type = cs[c].type /\ p.step = cs[c].step
      /\ p.attempt = cs[c].attempt /\ p.target = cs[c].target
  BY <1>1, RowMarked DEF CommandState, Delivery
<1> HIDE DEF p
<1>3. /\ q \in Command /\ q.delivery = "maybe_sent"
      /\ q.type = cs[c].type /\ q.step = cs[c].step
      /\ q.attempt = cs[c].attempt /\ q.target = cs[c].target
  BY <1>2, RowStarted
<1> HIDE DEF q
<1>4. ds = Put(cs, c, q)
  <2>1. ds = [cs EXCEPT ![c] = [[[cs[c] EXCEPT !.state = "accepted"] EXCEPT !.delivery = "maybe_sent"]
                                 EXCEPT !.started = TRUE]]
    BY DEF Books
  <2>2. QED
    BY <2>1, Zenon DEF p, q, Marked, WithStarted, Put
<1> HIDE DEF ds
<1>5. Evolves(cs, Put(cs, c, q), {c}) /\ DOMAIN Put(cs, c, q) = DOMAIN cs /\ Put(cs, c, q)[c] = q
  BY <1>1, <1>3, OneRewritten
<1>6. QED
  BY <1>3, <1>4, <1>5 DEF ds

(* Everything queued is withdrawn, then commands are issued.                *)
LEMMA WithdrawThenIssue ==
  ASSUME NEW cs, Books(cs), NEW b, NEW new, CanIssue(cs, DOMAIN new),
         \A n \in DOMAIN new : /\ new[n] \in Command /\ new[n].delivery = "queued"
                               /\ ~InFlight(new[n])
                               /\ new[n].target \in DOMAIN cs \cup {NoCmd}
  PROVE  LET W  == {c \in BatchCmds(cs, b) : Queued(cs[c])}
             ds == Issue(WithdrawQueued(cs, b), new)
         IN Evolves(cs, ds, W) /\ \A c \in W : ds[c].delivery = "not_sent" /\ ~InFlight(ds[c])
<1> DEFINE W  == {c \in BatchCmds(cs, b) : Queued(cs[c])}
           ws == WithdrawQueued(cs, b)
<1>1. /\ Evolves(cs, ws, W) /\ DOMAIN ws = DOMAIN cs /\ W \subseteq DOMAIN cs
      /\ \A c \in W : ws[c].delivery = "not_sent" /\ ~InFlight(ws[c])
  BY WithdrawQueuedEvolves DEF BatchCmds
<1> HIDE DEF W, ws
<1>2. Evolves(ws, Issue(ws, new), {})
  <2>1. Books(ws) /\ CanIssue(ws, DOMAIN new)
    BY <1>1 DEF Evolves, CanIssue, FreeIds
  <2>2. QED
    BY <1>1, <2>1, IssueEvolves
<1>3. Evolves(cs, Issue(ws, new), W)
  BY <1>1, <1>2, EvolvesTrans
<1>4. \A c \in W : Issue(ws, new)[c].delivery = "not_sent" /\ ~InFlight(Issue(ws, new)[c])
  BY <1>1, <1>2 DEF Evolves
<1>5. QED
  BY <1>3, <1>4 DEF W, ws

-----------------------------------------------------------------------------
(* The inductive form of TypeOK: targets are issued commands, the step a    *)
(* batch is at is one of its own, a busy worker is busy with an issued      *)
(* command of its own station.                                              *)
Runs(rs)    == rs \in [Step -> Seq(RunState)]
CurrentOwn  == \A b \in Batch : current[b] \in StepsOf(b)
BusyWithOwn == \A st \in Station : job[st].phase # "idle" =>
                 job[st].cmd \in DOMAIN cmd /\ StationOfCmd(job[st].cmd) = st
TypeInv == TypeOK /\ Books(cmd) /\ CurrentOwn /\ BusyWithOwn

-----------------------------------------------------------------------------
(* Step runs *)

(* A sequence rewritten entry by entry is a sequence.                       *)
LEMMA SeqRewritten ==
  ASSUME NEW S, NEW q \in Seq(S), NEW f, f = [i \in DOMAIN q |-> f[i]],
         \A i \in DOMAIN q : f[i] \in S
  PROVE  f \in Seq(S)
<1>1. DOMAIN q = 1..Len(q) /\ Len(q) \in Nat
  OBVIOUS
<1>2. f \in [1..Len(q) -> S]
  BY <1>1
<1>3. QED
  BY <1>1, <1>2, SeqOfFunction

(* Putting one attempt to a state keeps the runs typed.                     *)
LEMMA PutRunTyped ==
  ASSUME NEW rs, Runs(rs), NEW s, NEW a, NEW v \in RunState
  PROVE  Runs(PutRun(rs, s, a, v))
<1> DEFINE ss == PutRun(rs, s, a, v)
<1>1. ASSUME NEW t \in Step PROVE ss[t] \in Seq(RunState)
  <2>1. rs[t] \in Seq(RunState)
    BY DEF Runs
  <2>2. ss[t] = [i \in DOMAIN rs[t] |-> IF t = s /\ i = a THEN v ELSE rs[t][i]]
    BY DEF PutRun
  <2>3. \A i \in DOMAIN rs[t] : ss[t][i] \in RunState
    BY <2>1, <2>2
  <2>4. QED
    BY <2>1, <2>2, <2>3, SeqRewritten
<1>2. ss = [t \in Step |-> ss[t]]
  BY DEF PutRun
<1>3. QED
  BY <1>1, <1>2 DEF Runs

(* An open attempt turned unknown keeps the runs typed (fault).             *)
LEMMA RunUnknownTyped ==
  ASSUME NEW rs, Runs(rs), NEW r
  PROVE  Runs(RunUnknown(rs, r))
BY PutRunTyped DEF RunUnknown, RunState

(* The first of some steps is one of them.                                  *)
LEMMA MinStepOf ==
  ASSUME NEW S \in SUBSET Step, S # {}
  PROVE  MinStep(S) \in S
<1>1. \E s \in S : \A t \in S : s <= t
  BY LeastExists, StepAssumption
<1>2. QED
  BY <1>1 DEF MinStep

(* The first open attempt at a step with one is open, and an index.         *)
LEMMA FirstOpenOf ==
  ASSUME NEW rs, Runs(rs), NEW s \in Step, OpenAttempts(rs, s) # {}
  PROVE  FirstOpen(rs, s) \in OpenAttempts(rs, s) /\ FirstOpen(rs, s) \in Nat \ {0}
<1>1. \A a \in OpenAttempts(rs, s) : a \in Nat \ {0}
  BY DEF Runs, OpenAttempts
<1>2. \E a \in OpenAttempts(rs, s) : \A o \in OpenAttempts(rs, s) : a <= o
  BY <1>1, LeastExists
<1>3. QED
  BY <1>1, <1>2 DEF FirstOpen

-----------------------------------------------------------------------------
(* Partial effects on the command table *)

(* _take_over delivers nothing and takes nothing in flight.                 *)
LEMMA TakeOverEvolves ==
  ASSUME NEW cs, Books(cs), NEW c \in DOMAIN cs
  PROVE  Evolves(cs, TakeOver(cs, c), {}) /\ DOMAIN TakeOver(cs, c) = DOMAIN cs
<1> DEFINE t == cs[c].target
           q == WithState(cs[t], "superseded")
<1>1. CASE cs[c].type \in DISPATCHING /\ t # NoCmd /\ Engaged(cs[t])
  <2>1. t \in DOMAIN cs /\ cs[t] \in Command
    BY <1>1 DEF Books
  <2>2. /\ q \in Command
        /\ q.type = cs[t].type /\ q.step = cs[t].step
        /\ q.attempt = cs[t].attempt /\ q.target = cs[t].target /\ q.delivery = cs[t].delivery
        /\ ~InFlight(q)
    BY <2>1, RowState DEF CommandState, InFlight
  <2>3. TakeOver(cs, c) = Put(cs, t, q)
    BY <1>1, Zenon DEF TakeOver, WithState, Put
  <2> HIDE DEF t, q
  <2>4. Evolves(cs, Put(cs, t, q), {}) /\ DOMAIN Put(cs, t, q) = DOMAIN cs
    BY <2>1, <2>2, OneRewritten
  <2>5. QED
    BY <2>3, <2>4
<1>2. CASE ~(cs[c].type \in DISPATCHING /\ t # NoCmd /\ Engaged(cs[t]))
  BY <1>2, EvolvesRefl DEF TakeOver
<1>3. QED
  BY <1>1, <1>2

(* complete_device_step delivers nothing and starts nothing.                *)
LEMMA CompleteStepEvolves ==
  ASSUME NEW cs, Books(cs), NEW c \in DOMAIN cs
  PROVE  Evolves(cs, CompleteStep(cs, c), {}) /\ DOMAIN CompleteStep(cs, c) = DOMAIN cs
<1> DEFINE ds == [cs EXCEPT ![c].state = "done"]
           es == TakeOver(ds, c)
           fs == CompleteStep(cs, c)
<1>1. Evolves(cs, ds, {}) /\ DOMAIN ds = DOMAIN cs
  BY StateSetEvolves DEF CommandState, Landed
<1> HIDE DEF ds
<1>2. Evolves(ds, es, {}) /\ DOMAIN es = DOMAIN cs
  BY <1>1, TakeOverEvolves DEF Evolves
<1>3. fs = [d \in DOMAIN cs |->
              IF /\ d # c /\ es[d].state = "held"
                 /\ es[d].step = cs[c].step /\ es[d].attempt = cs[c].attempt
                THEN WithState(es[d], "superseded") ELSE es[d]]
  BY Zenon DEF CompleteStep, ds, WithState
<1> HIDE DEF es, fs
<1>4. \A d \in DOMAIN es : fs[d] = es[d] \/ \E v \in Landed : fs[d] = WithState(es[d], v)
  BY <1>2, <1>3 DEF CommandState, Landed
<1>5. fs = [d \in DOMAIN es |-> fs[d]]
  BY <1>2, <1>3
<1>6. Evolves(es, fs, {}) /\ DOMAIN fs = DOMAIN cs
  BY <1>2, <1>4, <1>5, StatesRewritten DEF Evolves
<1>7. QED
  BY <1>1, <1>2, <1>6, EvolvesTrans DEF fs

(* Closing what lacks a verdict delivers nothing (_finalize_abort).         *)
LEMMA CloseUnknownEvolves ==
  ASSUME NEW cs, Books(cs), NEW b, NEW own
  PROVE  Evolves(cs, CloseUnknown(cs, b, own), {}) /\ DOMAIN CloseUnknown(cs, b, own) = DOMAIN cs
<1> DEFINE ds == CloseUnknown(cs, b, own)
<1>1. ds = [c \in DOMAIN cs |-> IF c \in BatchCmds(cs, b) \ {own} /\ cs[c].state = "unknown"
                                 THEN WithState(cs[c], "cancelled") ELSE cs[c]]
  BY Zenon DEF CloseUnknown, WithState
<1> HIDE DEF ds
<1>2. QED
  BY <1>1, StatesRewritten DEF CommandState, Landed, ds

(* _finalize_abort writes states only, and a batch state.                   *)
LEMMA FinalizeAbortEvolves ==
  ASSUME NEW cs, Books(cs), NEW b, NEW own, batch \in [Batch -> BatchState],
         FinalizeAbort(cs, b, own)
  PROVE  /\ Evolves(cs, cmd', {}) /\ DOMAIN cmd' = DOMAIN cs
         /\ batch' \in [Batch -> BatchState]
BY CloseUnknownEvolves, EvolvesRefl DEF FinalizeAbort, BatchState

(* _confirm_abort writes states only, and a batch state.                    *)
LEMMA ConfirmAbortEvolves ==
  ASSUME NEW cs, Books(cs), NEW c \in DOMAIN cs, NEW stopped, batch \in [Batch -> BatchState],
         ConfirmAbort(cs, c, stopped)
  PROVE  /\ Evolves(cs, cmd', {}) /\ DOMAIN cmd' = DOMAIN cs
         /\ batch' \in [Batch -> BatchState]
<1> DEFINE b == BatchOf[cs[c].step]
           ds == [d \in DOMAIN cs |-> IF d \in stopped THEN WithState(cs[d], "cancelled") ELSE cs[d]]
<1>1. IF batch[b] \in BatchEnded THEN cmd' = ds /\ UNCHANGED batch ELSE FinalizeAbort(ds, b, c)
  BY Zenon DEF ConfirmAbort, WithState
<1>2. Evolves(cs, ds, {}) /\ DOMAIN ds = DOMAIN cs
  <2>1. \A d \in DOMAIN cs : ds[d] = cs[d] \/ \E v \in Landed : ds[d] = WithState(cs[d], v)
    BY DEF CommandState, Landed
  <2>2. ds = [d \in DOMAIN cs |-> ds[d]]
    OBVIOUS
  <2> HIDE DEF ds
  <2>3. QED
    BY <2>1, <2>2, StatesRewritten
<1> HIDE DEF ds
<1>3. CASE batch[b] \in BatchEnded
  BY <1>1, <1>2, <1>3
<1>4. CASE batch[b] \notin BatchEnded
  <2>1. Evolves(ds, cmd', {}) /\ DOMAIN cmd' = DOMAIN ds /\ batch' \in [Batch -> BatchState]
    BY <1>1, <1>2, <1>4, FinalizeAbortEvolves DEF Evolves
  <2>2. QED
    BY <1>2, <2>1, EvolvesTrans
<1>5. QED
  BY <1>3, <1>4

(* What a fault leaves: the command marked with the delivery given, and     *)
(* possibly a fresh command in its place.                                   *)
FaultLeaves(cs, c, delivery) ==
  /\ Evolves(cs, cmd', {c}) /\ cmd'[c].delivery = delivery /\ ~InFlight(cmd'[c])
  /\ Runs(run')
  /\ batch' \in [Batch -> BatchState]
  /\ current' \in [Batch -> Step] /\ CurrentOwn'

(* An automatic retry leaves the books as a fault may leave them.           *)
LEMMA AutoRetriedLeaves ==
  ASSUME NEW cs, Books(cs), NEW c \in DOMAIN cs, NEW rs, Runs(rs),
         batch \in [Batch -> BatchState], NEW faulted \in [Batch -> BatchState],
         cs[c].type \in DISPATCHING, AutoRetried(c, cs, rs, faulted)
  PROVE  /\ Evolves(cs, cmd', {}) /\ Runs(run') /\ batch' \in [Batch -> BatchState]
<1> DEFINE r     == cs[c]
           b     == BatchOf[r.step]
           kind  == IF r.type = "resume" /\ ~EverDelivered(cs, r.step, r.attempt)
                      THEN "dispatch" ELSE r.type
           fresh == NewCommand(kind, r.step, r.attempt, IF kind = "dispatch" THEN NoCmd ELSE r.target)
           old   == [cs EXCEPT ![c].state = "not_executed"]
           new   == [x \in {c} |-> fresh]
<1>1. /\ CanIssue(cs, {c}) /\ cmd' = Issue(old, new)
      /\ run' = rs \/ run' = PutRun(rs, r.step, r.attempt, "ready")
      /\ batch' = faulted \/ batch' = [batch EXCEPT ![b] = "running"]
  BY Zenon DEF AutoRetried
<1>2. /\ r \in Command /\ r.type \in DISPATCHING /\ r.step \in Step /\ r.attempt \in Nat \ {0}
      /\ r.target \in CmdId \cup {NoCmd} /\ r.target \in DOMAIN cs \cup {NoCmd}
  BY DEF Books, Command
<1>3. kind \in DISPATCHING \cup Control
  BY <1>2 DEF DISPATCHING
<1>4. /\ fresh \in Command /\ fresh.delivery = "queued"
      /\ fresh.target \in DOMAIN cs \cup {NoCmd} /\ ~InFlight(fresh)
  <2> HIDE DEF kind, r
  <2>1. QED
    BY <1>2, <1>3, NewCommandIsRow
<1>5. Evolves(cs, old, {}) /\ DOMAIN old = DOMAIN cs
  BY StateSetEvolves DEF CommandState, Landed
<1> HIDE DEF fresh, old
<1>6. DOMAIN new = {c} /\ new[c] = fresh
  OBVIOUS
<1> HIDE DEF new
<1>7. Evolves(old, Issue(old, new), {})
  <2>1. Books(old) /\ CanIssue(old, DOMAIN new)
    BY <1>1, <1>5, <1>6 DEF Evolves, CanIssue, FreeIds
  <2>2. \A n \in DOMAIN new : /\ new[n] \in Command /\ new[n].delivery = "queued"
                              /\ ~InFlight(new[n])
                              /\ new[n].target \in DOMAIN old \cup {NoCmd}
    BY <1>4, <1>5, <1>6
  <2>3. QED
    BY <2>1, <2>2, IssueEvolves
<1>8. Evolves(cs, cmd', {})
  BY <1>1, <1>5, <1>7, EvolvesTrans
<1>9. Runs(run')
  <2>1. "ready" \in RunState
    BY DEF RunState, OpenRun
  <2>2. QED
    BY <1>1, <2>1, PutRunTyped
<1>10. batch' \in [Batch -> BatchState]
  BY <1>1 DEF BatchState
<1>11. QED
  BY <1>8, <1>9, <1>10

(* fault, retried automatically or not, writes only its command.            *)
LEMMA FaultEffect ==
  ASSUME NEW cs, Books(cs), NEW c \in DOMAIN cs, NEW rs, Runs(rs),
         NEW delivery \in Delivery, NEW snap,
         batch \in [Batch -> BatchState], current \in [Batch -> Step], CurrentOwn,
         Fault(c, delivery, snap, cs, rs)
  PROVE  FaultLeaves(cs, c, delivery)
<1> DEFINE r   == cs[c]
           b   == BatchOf[r.step]
           cs1 == MarkUnknown(cs, c, delivery)
           rs1 == RunUnknown(rs, r)
           live == snap.batch \notin BatchEnded
           faulted == IF live /\ snap.batch # "fault" THEN [batch EXCEPT ![b] = "fault"] ELSE batch
<1>1. /\ current' = IF live /\ r.type \in DISPATCHING /\ snap.current # r.step
                      THEN [current EXCEPT ![b] = r.step] ELSE current
      /\ \/ NeverLeft(cs1[c]) /\ AutoRetried(c, cs1, rs1, faulted)
         \/ cmd' = cs1 /\ run' = rs1 /\ batch' = faulted
  BY Zenon DEF Fault
<1>2. r.step \in Step /\ b \in Batch /\ BatchOf[r.step] = b
  BY PlanAssumption DEF Books, Command
<1>3. faulted \in [Batch -> BatchState]
  BY DEF BatchState
<1>4. Runs(rs1)
  BY RunUnknownTyped
<1>5. cs1 = Put(cs, c, Marked(cs[c], "unknown", delivery))
  BY Zenon DEF MarkUnknown, Put, Marked
<1> HIDE DEF cs1
<1>6. /\ Evolves(cs, cs1, {c}) /\ DOMAIN cs1 = DOMAIN cs
      /\ cs1[c].delivery = delivery /\ ~InFlight(cs1[c])
  <2> DEFINE ds == Put(cs, c, Marked(cs[c], "unknown", delivery))
  <2>1. "unknown" \in CommandState /\ "unknown" \in Landed
    BY DEF CommandState, Landed
  <2>2. /\ Evolves(cs, ds, {c}) /\ DOMAIN ds = DOMAIN cs
        /\ ds[c].delivery = delivery /\ ~InFlight(ds[c])
    BY <2>1, MarkedEvolves
  <2>3. QED
    BY <1>5, <2>2, Zenon
<1>7. current' \in [Batch -> Step] /\ CurrentOwn'
  BY <1>1, <1>2 DEF CurrentOwn, StepsOf
<1> HIDE DEF rs1, faulted
<1>8. /\ Evolves(cs, cmd', {c}) /\ cmd'[c].delivery = delivery /\ ~InFlight(cmd'[c])
      /\ Runs(run') /\ batch' \in [Batch -> BatchState]
  <2>1. CASE NeverLeft(cs1[c]) /\ AutoRetried(c, cs1, rs1, faulted)
    <3>1. cs1[c].type \in DISPATCHING
      BY <2>1 DEF NeverLeft
    <3>2. Evolves(cs1, cmd', {}) /\ Runs(run') /\ batch' \in [Batch -> BatchState]
      BY <1>3, <1>4, <1>6, <2>1, <3>1, AutoRetriedLeaves DEF Evolves
    <3>3. cmd'[c].delivery = delivery /\ ~InFlight(cmd'[c])
      BY <1>6, <3>2 DEF Evolves
    <3>4. Evolves(cs, cmd', {c})
      BY <1>6, <3>2, EvolvesTrans
    <3>5. QED
      BY <3>2, <3>3, <3>4
  <2>2. CASE cmd' = cs1 /\ run' = rs1 /\ batch' = faulted
    BY <1>3, <1>4, <1>6, <2>2
  <2>3. QED
    BY <1>1, <2>1, <2>2
<1>9. QED
  BY <1>7, <1>8 DEF FaultLeaves

-----------------------------------------------------------------------------
(* What the actions write into the books: the deliveries of the commands in *)
(* S become one of D, and a command that D bars is not in flight.           *)
Given  == {"maybe_sent", "delivered"}
AckMap == [CmdId -> {"none", "pending", "processed", "rejected"}]
Writes(S, D) ==
  /\ Evolves(cmd, cmd', S)
  /\ \A c \in S : /\ cmd'[c].delivery \in D
                  /\ InFlight(cmd'[c]) => D \cap Given # {}
  /\ Runs(run')
  /\ batch' \in [Batch -> BatchState]
  /\ current' \in [Batch -> Step] /\ CurrentOwn'
  /\ ack' \in AckMap
  /\ acur' \in [Station -> CmdId \cup {NoCmd}]

(* Every batch has steps, and a first one among any of them.                *)
LEMMA StepsOfOwn ==
  ASSUME NEW b \in Batch
  PROVE  /\ StepsOf(b) \in SUBSET Step /\ StepsOf(b) # {}
         /\ \A S \in SUBSET StepsOf(b) : S # {} => MinStep(S) \in S /\ MinStep(S) \in StepsOf(b)
<1>1. StepsOf(b) \in SUBSET Step /\ StepsOf(b) # {}
  BY PlanAssumption DEF StepsOf
<1>2. QED
  BY <1>1, MinStepOf

(* current stays typed when it moves to one of the batch's own steps.       *)
LEMMA CurrentMoves ==
  ASSUME NEW b \in Batch, NEW s \in StepsOf(b), current \in [Batch -> Step], CurrentOwn,
         current' = [current EXCEPT ![b] = s]
  PROVE  current' \in [Batch -> Step] /\ CurrentOwn'
BY DEF CurrentOwn, StepsOf

(* What dispatch writes: nothing about commands issued before.              *)
LEMMA DispatchWrites ==
  ASSUME TypeInv, NEW b \in Batch, Dispatch(b)
  PROVE  Writes({}, {})
<1> DEFINE new == [s \in StepsOf(b) |-> NewCommand("dispatch", s, Len(run[s]) + 1, NoCmd)]
<1>1. Books(cmd) /\ Runs(run) /\ CanIssue(cmd, DOMAIN new) /\ cmd' = Issue(cmd, new)
  BY DEF Dispatch, TypeInv, TypeOK, Runs
<1>2. ASSUME NEW s \in StepsOf(b)
      PROVE  /\ new[s] \in Command /\ new[s].delivery = "queued" /\ ~InFlight(new[s])
             /\ new[s].target = NoCmd
  <2>1. s \in Step /\ Len(run[s]) + 1 \in Nat \ {0}
    BY <1>1 DEF StepsOf, Runs
  <2>2. "dispatch" \in DISPATCHING \cup Control /\ NoCmd \in CmdId \cup {NoCmd}
    BY DEF DISPATCHING
  <2>3. new[s] = NewCommand("dispatch", s, Len(run[s]) + 1, NoCmd)
    OBVIOUS
  <2> HIDE DEF new
  <2>4. QED
    BY <2>1, <2>2, <2>3, NewCommandIsRow
<1>3. DOMAIN new = StepsOf(b)
  OBVIOUS
<1> HIDE DEF new
<1>4. Evolves(cmd, cmd', {})
  BY <1>1, <1>2, <1>3, IssueEvolves
<1>5. Runs(run')
  <2>1. run' = [s \in Step |-> IF s \in StepsOf(b) THEN Append(run[s], "ready") ELSE run[s]]
    BY DEF Dispatch
  <2>2. QED
    BY <1>1, <2>1 DEF Runs, RunState, OpenRun
<1>6. current' \in [Batch -> Step] /\ CurrentOwn'
  <2>1. MinStep(StepsOf(b)) \in StepsOf(b)
    BY StepsOfOwn
  <2>2. QED
    BY <2>1, CurrentMoves DEF Dispatch, TypeInv, TypeOK
<1>7. batch' \in [Batch -> BatchState]
  BY DEF Dispatch, TypeInv, TypeOK, BatchState
<1>8. ack' \in AckMap /\ acur' \in [Station -> CmdId \cup {NoCmd}]
  BY DEF Dispatch, TypeInv, TypeOK, AckMap
<1>9. QED
  BY <1>4, <1>5, <1>6, <1>7, <1>8 DEF Writes

(* The commands that a hold or an abort takes out of the queue.             *)
InQueue(b) == {c \in BatchCmds(cmd, b) : Queued(cmd[c])}

(* What hold writes: what is queued is not sent.                            *)
LEMMA HoldWrites ==
  ASSUME TypeInv, NEW b \in Batch, Hold(b)
  PROVE  Writes(InQueue(b), {"not_sent"})
<1> DEFINE acting == ActingInBatch(cmd, b)
           adrift == {s \in StepsOf(b) : run[s] # << >> /\ run[s][Len(run[s])] = "running"}
           steps  == IF acting # {} THEN {cmd[c].step : c \in acting} ELSE adrift
           holdOf == [c \in acting |-> NewCommand("hold", cmd[c].step, cmd[c].attempt, c)]
           holdAt == [s \in adrift |-> NewCommand("hold", s, Len(run[s]), NoCmd)]
           new    == IF acting # {} THEN holdOf ELSE holdAt
<1>1. Books(cmd) /\ Runs(run)
  BY DEF TypeInv, TypeOK, Runs
<1>2. /\ cmd' = Issue(WithdrawQueued(cmd, b), new)
      /\ CanIssue(cmd, IF acting # {} THEN acting ELSE adrift)
      /\ batch' = [batch EXCEPT ![b] = "paused"]
      /\ current' = IF steps # {} THEN [current EXCEPT ![b] = MinStep(steps)] ELSE current
      /\ UNCHANGED <<run, ack, acur>>
  BY Zenon DEF Hold
<1>3. ASSUME NEW c \in acting
      PROVE  /\ cmd[c] \in Command /\ c \in DOMAIN cmd /\ c \in CmdId
             /\ cmd[c].step \in StepsOf(b)
  BY <1>1 DEF ActingInBatch, Actions, BatchCmds, Books, Command, StepsOf
<1>4. ASSUME NEW s \in adrift PROVE s \in Step /\ Len(run[s]) \in Nat \ {0}
  BY <1>1 DEF StepsOf, Runs
<1>5. steps \in SUBSET StepsOf(b)
  BY <1>3
<1>6. "hold" \in DISPATCHING \cup Control /\ NoCmd \in CmdId \cup {NoCmd}
  BY DEF Control
<1>7. \A n \in DOMAIN new : /\ new[n] \in Command /\ new[n].delivery = "queued"
                            /\ ~InFlight(new[n])
                            /\ new[n].target \in DOMAIN cmd \cup {NoCmd}
  <2>1. ASSUME NEW c \in acting
        PROVE  LET n == NewCommand("hold", cmd[c].step, cmd[c].attempt, c)
               IN /\ n \in Command /\ n.delivery = "queued" /\ ~InFlight(n)
                  /\ n.target \in DOMAIN cmd
    <3>1. /\ cmd[c].step \in Step /\ cmd[c].attempt \in Nat \ {0} /\ c \in CmdId \cup {NoCmd}
          /\ c \in DOMAIN cmd
      BY <1>3 DEF Command
    <3>2. QED
      BY <1>6, <3>1, NewCommandIsRow
  <2>2. ASSUME NEW s \in adrift
        PROVE  LET n == NewCommand("hold", s, Len(run[s]), NoCmd)
               IN n \in Command /\ n.delivery = "queued" /\ ~InFlight(n) /\ n.target = NoCmd
    <3>1. s \in Step /\ Len(run[s]) \in Nat \ {0}
      BY <1>4
    <3>2. QED
      BY <1>6, <3>1, NewCommandIsRow
  <2> HIDE DEF acting, adrift
  <2>3. QED
    BY <2>1, <2>2
<1>8. DOMAIN new = IF acting # {} THEN acting ELSE adrift
  OBVIOUS
<1> HIDE DEF new, steps
<1>9. /\ Evolves(cmd, cmd', InQueue(b))
      /\ \A c \in InQueue(b) : cmd'[c].delivery = "not_sent" /\ ~InFlight(cmd'[c])
  BY <1>1, <1>2, <1>7, <1>8, WithdrawThenIssue DEF InQueue
<1>10. current' \in [Batch -> Step] /\ CurrentOwn'
  <2>1. CASE steps # {}
    <3>1. MinStep(steps) \in StepsOf(b)
      BY <1>5, <2>1, StepsOfOwn
    <3>2. QED
      BY <1>2, <2>1, <3>1, CurrentMoves DEF TypeInv, TypeOK
  <2>2. CASE steps = {}
    BY <1>2, <2>2 DEF TypeInv, TypeOK, CurrentOwn
  <2>3. QED
    BY <2>1, <2>2
<1>11. /\ Runs(run') /\ batch' \in [Batch -> BatchState] /\ ack' \in AckMap
       /\ acur' \in [Station -> CmdId \cup {NoCmd}]
  BY <1>1, <1>2 DEF TypeInv, TypeOK, BatchState, AckMap
<1>12. QED
  BY <1>9, <1>10, <1>11 DEF Writes

(* What abort writes: what is queued is not sent, if dispatched.            *)
LEMMA AbortWrites ==
  ASSUME TypeInv, NEW b \in Batch, Abort(b)
  PROVE  Writes({}, {}) \/ Writes(InQueue(b), {"not_sent"})
<1> DEFINE acting  == PossiblyActing(cmd, b)
           abortOf == [c \in acting |-> NewCommand("abort", cmd[c].step, cmd[c].attempt, c)]
           dispatched == batch[b] # "scheduled"
<1>1. Books(cmd) /\ Runs(run)
  BY DEF TypeInv, TypeOK, Runs
<1>2. /\ cmd' = IF dispatched THEN Issue(WithdrawQueued(cmd, b), abortOf) ELSE cmd
      /\ CanIssue(cmd, acting)
      /\ batch' = [batch EXCEPT ![b] = IF dispatched /\ acting # {} THEN "aborting" ELSE "aborted"]
      /\ run' = [s \in Step |-> IF s \in StepsOf(b)
                   THEN [a \in DOMAIN run[s] |-> IF run[s][a] \in OpenRun THEN "cancelled" ELSE run[s][a]]
                   ELSE run[s]]
      /\ ack' = [c \in CmdId |-> IF c \in BatchCmds(cmd, b) /\ ack[c] = "pending" THEN "rejected" ELSE ack[c]]
      /\ UNCHANGED <<current, acur>>
  BY Zenon DEF Abort
<1>3. ASSUME NEW c \in acting
      PROVE  LET n == NewCommand("abort", cmd[c].step, cmd[c].attempt, c)
             IN /\ n \in Command /\ n.delivery = "queued" /\ ~InFlight(n)
                /\ n.target \in DOMAIN cmd
  <2>1. /\ cmd[c].step \in Step /\ cmd[c].attempt \in Nat \ {0} /\ c \in CmdId \cup {NoCmd}
        /\ c \in DOMAIN cmd
    BY <1>1 DEF PossiblyActing, Actions, BatchCmds, Books, Command
  <2>2. "abort" \in DISPATCHING \cup Control
    BY DEF Control
  <2>3. QED
    BY <2>1, <2>2, NewCommandIsRow
<1> HIDE DEF acting
<1>4. \A n \in DOMAIN abortOf : /\ abortOf[n] \in Command /\ abortOf[n].delivery = "queued"
                                /\ ~InFlight(abortOf[n])
                                /\ abortOf[n].target \in DOMAIN cmd \cup {NoCmd}
  BY <1>3
<1>5. DOMAIN abortOf = acting
  OBVIOUS
<1> HIDE DEF abortOf
<1>6. \/ Evolves(cmd, cmd', {})
      \/ /\ Evolves(cmd, cmd', InQueue(b))
         /\ \A c \in InQueue(b) : cmd'[c].delivery = "not_sent" /\ ~InFlight(cmd'[c])
  <2>1. CASE dispatched
    BY <1>1, <1>2, <1>4, <1>5, <2>1, WithdrawThenIssue DEF InQueue
  <2>2. CASE ~dispatched
    BY <1>1, <1>2, <2>2, EvolvesRefl
  <2>3. QED
    BY <2>1, <2>2
<1>7. Runs(run')
  <2>1. ASSUME NEW s \in Step PROVE run'[s] \in Seq(RunState)
    <3>1. run[s] \in Seq(RunState)
      BY <1>1 DEF Runs
    <3>2. CASE s \in StepsOf(b)
      <4>1. run'[s] = [a \in DOMAIN run[s] |-> IF run[s][a] \in OpenRun THEN "cancelled" ELSE run[s][a]]
        BY <1>2, <3>2
      <4>2. \A a \in DOMAIN run[s] : run'[s][a] \in RunState
        BY <3>1, <4>1 DEF RunState, VoidRun
      <4>3. run'[s] = [a \in DOMAIN run[s] |-> run'[s][a]]
        BY <4>1
      <4>4. QED
        BY <3>1, <4>2, <4>3, SeqRewritten
    <3>3. CASE s \notin StepsOf(b)
      BY <1>2, <3>1, <3>3
    <3>4. QED
      BY <3>2, <3>3
  <2>2. QED
    BY <1>2, <2>1 DEF Runs
<1>8. batch' \in [Batch -> BatchState] /\ ack' \in AckMap
  BY <1>2 DEF TypeInv, TypeOK, BatchState, AckMap
<1>9. current' \in [Batch -> Step] /\ CurrentOwn' /\ acur' \in [Station -> CmdId \cup {NoCmd}]
  BY <1>2 DEF TypeInv, TypeOK, CurrentOwn
<1>10. QED
  BY <1>6, <1>7, <1>8, <1>9 DEF Writes

(* Concluding a hanging abort delivers nothing.                             *)
LEMMA FinishAbortsWrites ==
  ASSUME TypeInv, NEW b \in Batch, FinishAborts(b)
  PROVE  Writes({}, {})
<1>1. /\ Evolves(cmd, cmd', {}) /\ batch' \in [Batch -> BatchState]
  BY FinalizeAbortEvolves DEF FinishAborts, TypeInv, TypeOK
<1>2. QED
  BY <1>1 DEF FinishAborts, TypeInv, TypeOK, Writes, Runs, CurrentOwn, AckMap

(* The station's current command: one of the table, or none.                *)
LEMMA ReleaseTyped ==
  ASSUME acur \in [Station -> CmdId \cup {NoCmd}], NEW st, NEW S
  PROVE  Release(st, S) \in [Station -> CmdId \cup {NoCmd}]
BY DEF Release

(* The verdict executed: the command was delivered.                         *)
LEMMA VerifyExecutedWrites ==
  ASSUME TypeInv, NEW c \in DOMAIN cmd, VerifyExecuted(c)
  PROVE  Writes({c}, {"delivered"})
<1> DEFINE seen == [cmd EXCEPT ![c].delivery = "delivered"]
           done == [seen EXCEPT ![c].state = "done"]
           about == ControlTargets(cmd, c)
<1>1. /\ Books(cmd) /\ Runs(run) /\ ack \in AckMap /\ acur \in [Station -> CmdId \cup {NoCmd}]
      /\ batch \in [Batch -> BatchState] /\ current \in [Batch -> Step] /\ CurrentOwn
  BY DEF TypeInv, TypeOK, Runs, AckMap
<1>2. /\ UNCHANGED <<current, run>> /\ cmd[c].state = "unknown"
      /\ \/ cmd' = CompleteStep(seen, c) /\ ack' = AckEmitted(c) /\ UNCHANGED batch
         \/ /\ cmd' = [d \in DOMAIN cmd |-> IF d \in about /\ InFlight(cmd[d])
                                             THEN WithState(done[d], "held") ELSE done[d]]
            /\ UNCHANGED <<batch, ack>>
         \/ ConfirmAbort(done, c, about) /\ UNCHANGED ack
      /\ \E S : acur' = Release(StationOfCmd(c), S)
  BY Zenon DEF VerifyExecuted, WithState
<1>3. /\ Evolves(cmd, seen, {c}) /\ DOMAIN seen = DOMAIN cmd /\ seen[c].delivery = "delivered"
  BY <1>1, DeliverySetEvolves DEF Delivery
<1> HIDE DEF seen
<1>4. Evolves(seen, done, {}) /\ DOMAIN done = DOMAIN cmd
  <2>1. Books(seen) /\ c \in DOMAIN seen
    BY <1>3 DEF Evolves
  <2>2. QED
    BY <1>3, <2>1, StateSetEvolves DEF CommandState, Landed
<1>5. Evolves(cmd, done, {c}) /\ done[c].delivery = "delivered"
  <2>1. done[c].delivery = "delivered"
    BY <1>3, <1>4 DEF Evolves
  <2>2. QED
    BY <1>3, <1>4, <2>1, EvolvesTrans
<1> HIDE DEF done, about
<1>6. /\ Evolves(cmd, cmd', {c}) /\ cmd'[c].delivery = "delivered"
      /\ batch' \in [Batch -> BatchState] /\ ack' \in AckMap
  <2>1. CASE cmd' = CompleteStep(seen, c) /\ ack' = AckEmitted(c) /\ UNCHANGED batch
    <3>1. Evolves(seen, cmd', {})
      BY <1>3, <2>1, CompleteStepEvolves DEF Evolves
    <3>2. cmd'[c].delivery = "delivered"
      BY <1>3, <3>1 DEF Evolves
    <3>3. ack' \in AckMap
      BY <1>1, <2>1 DEF AckEmitted, AckMap
    <3>4. QED
      BY <1>1, <1>3, <2>1, <3>1, <3>2, <3>3, EvolvesTrans
  <2>2. CASE /\ cmd' = [d \in DOMAIN cmd |-> IF d \in about /\ InFlight(cmd[d])
                                               THEN WithState(done[d], "held") ELSE done[d]]
             /\ UNCHANGED <<batch, ack>>
    <3>1. Evolves(done, cmd', {})
      <4>1. \A d \in DOMAIN done : cmd'[d] = done[d] \/ \E v \in Landed : cmd'[d] = WithState(done[d], v)
        BY <1>4, <2>2 DEF Landed, CommandState
      <4>2. cmd' = [d \in DOMAIN done |-> cmd'[d]]
        BY <1>4, <2>2
      <4>3. QED
        BY <1>5, <4>1, <4>2, StatesRewritten DEF Evolves
    <3>2. cmd'[c].delivery = "delivered"
      BY <1>4, <1>5, <3>1 DEF Evolves
    <3>3. QED
      BY <1>1, <1>5, <2>2, <3>1, <3>2, EvolvesTrans
  <2>3. CASE ConfirmAbort(done, c, about) /\ UNCHANGED ack
    <3>1. Evolves(done, cmd', {}) /\ batch' \in [Batch -> BatchState]
      BY <1>1, <1>4, <1>5, <2>3, ConfirmAbortEvolves DEF Evolves
    <3>2. cmd'[c].delivery = "delivered"
      BY <1>4, <1>5, <3>1 DEF Evolves
    <3>3. QED
      BY <1>1, <1>5, <2>3, <3>1, <3>2, EvolvesTrans
  <2>4. QED
    BY <1>2, <2>1, <2>2, <2>3
<1>7. Runs(run') /\ current' \in [Batch -> Step] /\ CurrentOwn'
  BY <1>1, <1>2 DEF Runs, CurrentOwn
<1>8. acur' \in [Station -> CmdId \cup {NoCmd}]
  BY <1>1, <1>2, ReleaseTyped
<1>9. QED
  BY <1>6, <1>7, <1>8 DEF Writes, Given

(* An unknown attempt turned failed keeps the runs typed.                   *)
LEMMA RunFailedTyped ==
  ASSUME Runs(run), NEW r
  PROVE  Runs(RunFailed(r))
BY PutRunTyped DEF RunFailed, RunState

(* _reattach_acting keeps the runs typed.                                   *)
LEMMA ReattachTyped ==
  ASSUME NEW rs, Runs(rs), NEW cs, NEW acting
  PROVE  Runs(Reattach(rs, cs, acting))
<1> DEFINE ss == Reattach(rs, cs, acting)
           P(s, a) == /\ rs[s][a] = "unknown"
                      /\ \E c \in acting : cs[c].step = s /\ cs[c].attempt = a
<1>1. ss = [s \in Step |-> [a \in DOMAIN rs[s] |-> IF P(s, a) THEN "running" ELSE rs[s][a]]]
  BY Zenon DEF Reattach
<1> HIDE DEF ss, P
<1>2. ASSUME NEW s \in Step PROVE ss[s] \in Seq(RunState)
  <2>1. rs[s] \in Seq(RunState)
    BY DEF Runs
  <2>2. ss[s] = [a \in DOMAIN rs[s] |-> IF P(s, a) THEN "running" ELSE rs[s][a]]
    BY <1>1
  <2>3. \A a \in DOMAIN rs[s] : ss[s][a] \in RunState
    BY <2>1, <2>2 DEF RunState, OpenRun
  <2>4. ss[s] = [a \in DOMAIN rs[s] |-> ss[s][a]]
    BY <2>2
  <2>5. QED
    BY <2>1, <2>3, <2>4, SeqRewritten
<1>3. QED
  BY <1>1, <1>2 DEF Runs, ss

(* The verdict not_executed leaves the delivery as it is.                   *)
LEMMA VerifyNotExecutedWrites ==
  ASSUME TypeInv, NEW c \in DOMAIN cmd, VerifyNotExecuted(c)
  PROVE  Writes({}, {})
<1> DEFINE ds == [cmd EXCEPT ![c].state = "not_executed"]
<1>1. /\ Books(cmd) /\ Runs(run) /\ ack \in AckMap /\ acur \in [Station -> CmdId \cup {NoCmd}]
      /\ batch \in [Batch -> BatchState] /\ current \in [Batch -> Step] /\ CurrentOwn
  BY DEF TypeInv, TypeOK, Runs, AckMap
<1>2. /\ cmd' = ds /\ acur' = Release(StationOfCmd(c), {c})
      /\ UNCHANGED <<current, ack>>
      /\ \/ run' = RunFailed(cmd[c])
         \/ \E T : run' = Reattach(run, cmd, T)
      /\ batch' = batch \/ batch' = [batch EXCEPT ![BatchOfCmd(c)] = "fault"]
  BY Zenon DEF VerifyNotExecuted
<1>3. Evolves(cmd, ds, {})
  BY <1>1, StateSetEvolves DEF CommandState, Landed
<1> HIDE DEF ds
<1>4. Runs(run')
  BY <1>1, <1>2, RunFailedTyped, ReattachTyped
<1>5. batch' \in [Batch -> BatchState]
  BY <1>1, <1>2 DEF BatchState
<1>6. /\ current' \in [Batch -> Step] /\ CurrentOwn' /\ ack' \in AckMap
  BY <1>1, <1>2 DEF CurrentOwn
<1>7. acur' \in [Station -> CmdId \cup {NoCmd}]
  BY <1>1, <1>2, ReleaseTyped
<1>8. QED
  BY <1>2, <1>3, <1>4, <1>5, <1>6, <1>7 DEF Writes

(* The verdict partial leaves the delivery as it is.                        *)
LEMMA VerifyPartialWrites ==
  ASSUME TypeInv, NEW c \in DOMAIN cmd, VerifyPartial(c)
  PROVE  Writes({}, {})
<1> DEFINE ds == [cmd EXCEPT ![c].state = "partial"]
<1>1. /\ Books(cmd) /\ Runs(run) /\ ack \in AckMap /\ acur \in [Station -> CmdId \cup {NoCmd}]
      /\ batch \in [Batch -> BatchState] /\ current \in [Batch -> Step] /\ CurrentOwn
  BY DEF TypeInv, TypeOK, Runs, AckMap
<1>2. /\ cmd' = ds /\ acur' = Release(StationOfCmd(c), {c})
      /\ UNCHANGED <<batch, current, ack>>
      /\ run' = RunFailed(cmd[c]) \/ run' = run
  BY Zenon DEF VerifyPartial
<1>3. Evolves(cmd, ds, {})
  BY <1>1, StateSetEvolves DEF CommandState, Landed
<1> HIDE DEF ds
<1>4. Runs(run')
  BY <1>1, <1>2, RunFailedTyped
<1>5. /\ batch' \in [Batch -> BatchState] /\ current' \in [Batch -> Step] /\ CurrentOwn'
      /\ ack' \in AckMap
  BY <1>1, <1>2 DEF CurrentOwn
<1>6. acur' \in [Station -> CmdId \cup {NoCmd}]
  BY <1>1, <1>2, ReleaseTyped
<1>7. QED
  BY <1>2, <1>3, <1>4, <1>5, <1>6 DEF Writes

(* A fault of a command whose table is cs by then.                          *)
LEMMA FaultWrites ==
  ASSUME TypeInv, NEW c \in DOMAIN cmd, NEW cs, Evolves(cmd, cs, {c}), DOMAIN cs = DOMAIN cmd,
         NEW rs, Runs(rs), NEW delivery \in Delivery, NEW snap,
         Fault(c, delivery, snap, cs, rs),
         ack' \in AckMap, acur' \in [Station -> CmdId \cup {NoCmd}]
  PROVE  Writes({c}, {delivery})
<1>1. Books(cs) /\ c \in DOMAIN cs
  BY DEF Evolves
<1>2. FaultLeaves(cs, c, delivery)
  BY <1>1, FaultEffect DEF TypeInv, TypeOK
<1>3. Evolves(cmd, cmd', {c})
  BY <1>1, <1>2, EvolvesTrans DEF FaultLeaves
<1>4. QED
  BY <1>2, <1>3 DEF FaultLeaves, Writes

(* A fault raised before any call writes the delivery it names.             *)
LEMMA ServeFaultWrites ==
  ASSUME TypeInv, NEW c \in DOMAIN cmd, NEW delivery \in Delivery,
         Fault(c, delivery, Fresh(c), cmd, run), UNCHANGED <<ack, acur>>
  PROVE  Writes({c}, {delivery})
<1>1. /\ Books(cmd) /\ Runs(run) /\ ack' \in AckMap /\ acur' \in [Station -> CmdId \cup {NoCmd}]
  BY DEF TypeInv, TypeOK, Runs, AckMap
<1>2. Evolves(cmd, cmd, {c})
  BY <1>1, EvolvesRefl
<1>3. QED
  BY <1>1, <1>2, FaultWrites

(* A withdrawn command is not sent.                                         *)
LEMMA WithdrawWrites ==
  ASSUME TypeInv, NEW c \in DOMAIN cmd, Withdraw(c)
  PROVE  Writes({c}, {"not_sent"})
<1>1. Books(cmd) /\ cmd' = Put(cmd, c, Marked(cmd[c], "cancelled", "not_sent"))
  BY Zenon DEF Withdraw, TypeInv, Put, Marked
<1>2. "cancelled" \in CommandState /\ "cancelled" \in Landed /\ "not_sent" \in Delivery
  BY DEF CommandState, Landed, Delivery
<1>3. Evolves(cmd, cmd', {c}) /\ cmd'[c].delivery = "not_sent" /\ ~InFlight(cmd'[c])
  BY <1>1, <1>2, MarkedEvolves
<1>4. QED
  BY <1>3 DEF Withdraw, Writes, TypeInv, TypeOK, Runs, AckMap, CurrentOwn

(* A claimed command may have been sent.                                    *)
LEMMA ClaimWrites ==
  ASSUME TypeInv, NEW c \in DOMAIN cmd, Claim(c)
  PROVE  Writes({c}, {"maybe_sent"})
<1>1. Books(cmd) /\ c \in CmdId
  BY DEF TypeInv, Books
<1>2. cmd' = [cmd EXCEPT ![c].state = "accepted", ![c].delivery = "maybe_sent", ![c].started = TRUE]
  BY Zenon DEF Claim
<1>3. Evolves(cmd, cmd', {c}) /\ cmd'[c].delivery = "maybe_sent"
  BY <1>1, <1>2, ClaimedEvolves
<1>4. acur' \in [Station -> CmdId \cup {NoCmd}]
  <2>1. acur' = acur \/ acur' = [acur EXCEPT ![StationOfCmd(c)] = c]
    BY DEF Claim
  <2>2. QED
    BY <1>1, <2>1 DEF TypeInv, TypeOK
<1>5. UNCHANGED <<batch, current, run, ack>>
  BY DEF Claim
<1>6. QED
  BY <1>3, <1>4, <1>5 DEF Writes, Given, TypeInv, TypeOK, Runs, AckMap, CurrentOwn

(* A step that leaves the books alone.                                      *)
LEMMA NothingWritten ==
  ASSUME TypeInv, UNCHANGED books
  PROVE  Writes({}, {})
<1>1. UNCHANGED <<batch, current, cmd, run, ack, acur>>
  BY DEF books
<1>2. Evolves(cmd, cmd', {})
  BY <1>1, EvolvesRefl DEF TypeInv
<1>3. QED
  BY <1>1, <1>2 DEF Writes, TypeInv, TypeOK, Runs, AckMap, CurrentOwn

(* An action refused after its claim was unreachable.                       *)
LEMMA BeginRefusedWrites ==
  ASSUME TypeInv, NEW st \in Station, BeginRefused(st)
  PROVE  job[st].cmd \in DOMAIN cmd /\ Writes({job[st].cmd}, {"unreachable"})
<1> DEFINE c == job[st].cmd
           ds == [cmd EXCEPT ![c].started = FALSE]
<1>1. /\ c \in DOMAIN cmd /\ Books(cmd) /\ Runs(run)
      /\ Fault(c, "unreachable", Fresh(c), ds, run)
      /\ acur' = Release(st, {c}) /\ UNCHANGED ack
  BY DEF BeginRefused, TypeInv, TypeOK, BusyWithOwn, Runs
<1>2. Evolves(cmd, ds, {}) /\ DOMAIN ds = DOMAIN cmd
  BY <1>1, StartedSetEvolves
<1> HIDE DEF ds, c
<1>3. Evolves(cmd, ds, {c})
  BY <1>2 DEF Evolves
<1>4. ack' \in AckMap /\ acur' \in [Station -> CmdId \cup {NoCmd}]
  BY <1>1, ReleaseTyped DEF TypeInv, TypeOK, AckMap
<1>5. "unreachable" \in Delivery
  BY DEF Delivery
<1>6. Writes({c}, {"unreachable"})
  BY <1>1, <1>2, <1>3, <1>4, <1>5, FaultWrites
<1>7. QED
  BY <1>1, <1>6 DEF c

(* A control command whose target has ended is not sent.                    *)
LEMMA BeginMootWrites ==
  ASSUME TypeInv, NEW st \in Station, BeginMoot(st)
  PROVE  job[st].cmd \in DOMAIN cmd /\ Writes({job[st].cmd}, {"not_sent"})
<1> DEFINE c == job[st].cmd
           done == Put(cmd, c, Marked(cmd[c], "done", "not_sent"))
<1>1. c \in DOMAIN cmd /\ Books(cmd) /\ batch \in [Batch -> BatchState]
  BY DEF BeginMoot, TypeInv, TypeOK, BusyWithOwn
<1>2. /\ ConfirmAbort(done, c, {}) \/ (cmd' = done /\ UNCHANGED batch)
      /\ UNCHANGED <<current, run, ack, acur>>
  BY Zenon DEF BeginMoot, Put, Marked
<1>3. "done" \in CommandState /\ "done" \in Landed /\ "not_sent" \in Delivery
  BY DEF CommandState, Landed, Delivery
<1>4. /\ Evolves(cmd, done, {c}) /\ DOMAIN done = DOMAIN cmd
      /\ done[c].delivery = "not_sent" /\ ~InFlight(done[c])
  BY <1>1, <1>3, MarkedEvolves
<1> HIDE DEF done, c
<1>5. /\ Evolves(cmd, cmd', {c}) /\ cmd'[c].delivery = "not_sent" /\ ~InFlight(cmd'[c])
      /\ batch' \in [Batch -> BatchState]
  <2>1. CASE ConfirmAbort(done, c, {})
    <3>1. Evolves(done, cmd', {}) /\ batch' \in [Batch -> BatchState]
      BY <1>1, <1>4, <2>1, ConfirmAbortEvolves DEF Evolves
    <3>2. cmd'[c].delivery = "not_sent" /\ ~InFlight(cmd'[c])
      BY <1>1, <1>4, <3>1 DEF Evolves
    <3>3. QED
      BY <1>1, <1>4, <3>1, <3>2, EvolvesTrans
  <2>2. CASE cmd' = done /\ UNCHANGED batch
    BY <1>1, <1>4, <2>2
  <2>3. QED
    BY <1>2, <2>1, <2>2
<1>6. Writes({c}, {"not_sent"})
  BY <1>2, <1>5 DEF Writes, TypeInv, TypeOK, Runs, AckMap, CurrentOwn
<1>7. QED
  BY <1>1, <1>6 DEF c

(* A control command the adapter cannot do counts as delivered.             *)
LEMMA BeginUnsupportedWrites ==
  ASSUME TypeInv, NEW st \in Station, BeginUnsupported(st)
  PROVE  job[st].cmd \in DOMAIN cmd /\ Writes({job[st].cmd}, {"delivered"})
<1>1. job[st].cmd \in DOMAIN cmd /\ "delivered" \in Delivery
  BY DEF BeginUnsupported, TypeInv, BusyWithOwn, Delivery
<1>2. QED
  BY <1>1, ServeFaultWrites DEF BeginUnsupported

(* What a settlement starts from: the command delivered, its run running.   *)
LEMMA SeenEvolves ==
  ASSUME TypeInv, NEW st \in Station, job[st].phase = "answered"
  PROVE  /\ Mine(st) \in DOMAIN cmd
         /\ Evolves(cmd, Seen(st), {Mine(st)}) /\ DOMAIN Seen(st) = DOMAIN cmd
         /\ Seen(st)[Mine(st)].delivery \in {"delivered", cmd[Mine(st)].delivery}
         /\ Runs(RunSeen(st))
<1> DEFINE c == Mine(st)
<1>1. c \in DOMAIN cmd /\ Books(cmd) /\ Runs(run)
  BY DEF Mine, TypeInv, TypeOK, BusyWithOwn, Runs
<1>2. /\ Evolves(cmd, Seen(st), {c}) /\ DOMAIN Seen(st) = DOMAIN cmd
      /\ Seen(st)[c].delivery \in {"delivered", cmd[c].delivery}
  <2> DEFINE ds == [cmd EXCEPT ![c].delivery = "delivered"]
  <2>1. CASE job[st].kind = "poll"
    BY <1>1, <2>1, EvolvesRefl DEF Seen
  <2>2. CASE job[st].kind # "poll"
    <3>1. Seen(st) = ds
      BY <2>2 DEF Seen
    <3>2. Evolves(cmd, ds, {c}) /\ DOMAIN ds = DOMAIN cmd /\ ds[c].delivery = "delivered"
      BY <1>1, DeliverySetEvolves DEF Delivery
    <3> HIDE DEF ds
    <3>3. QED
      BY <3>1, <3>2
  <2>3. QED
    BY <2>1, <2>2
<1>3. Runs(RunSeen(st))
  BY <1>1, PutRunTyped DEF RunSeen, RunState, OpenRun
<1>4. QED
  BY <1>1, <1>2, <1>3

(* A settled answer gives the command away, or leaves it as it was given.   *)
SettledAs(st) == {"delivered", cmd[Mine(st)].delivery}

(* A settled answer: its command was delivered, or is as before.            *)
LEMMA SettleWrites ==
  ASSUME TypeInv, NEW st \in Station, job[st].phase = "answered",
         Evolves(Seen(st), cmd', {}),
         run' \in {run, RunSeen(st)}, UNCHANGED current,
         batch' \in [Batch -> BatchState], ack' \in AckMap,
         acur' \in [Station -> CmdId \cup {NoCmd}]
  PROVE  Writes({Mine(st)}, SettledAs(st))
<1> DEFINE c == Mine(st)
<1>1. /\ c \in DOMAIN cmd /\ Evolves(cmd, Seen(st), {c}) /\ DOMAIN Seen(st) = DOMAIN cmd
      /\ Seen(st)[c].delivery \in SettledAs(st) /\ Runs(RunSeen(st))
  BY SeenEvolves DEF SettledAs
<1>2. cmd'[c].delivery \in SettledAs(st)
  BY <1>1 DEF Evolves
<1>3. Evolves(cmd, cmd', {c})
  BY <1>1, EvolvesTrans
<1>4. Runs(run') /\ current' \in [Batch -> Step] /\ CurrentOwn'
  BY <1>1 DEF TypeInv, TypeOK, Runs, CurrentOwn
<1>5. "delivered" \in SettledAs(st) \cap Given
  BY DEF SettledAs, Given
<1>6. QED
  BY <1>2, <1>3, <1>4, <1>5 DEF Writes

(* The answer running.                                                      *)
LEMMA SettleRunningWrites ==
  ASSUME TypeInv, NEW st \in Station, SettleRunning(st)
  PROVE  Writes({Mine(st)}, SettledAs(st))
<1> DEFINE c == Mine(st)
           state == IF job[st].snap.cmd = "running" THEN cmd[c].state ELSE "running"
           ds == [Seen(st) EXCEPT ![c].state = state]
<1>1. /\ job[st].phase = "answered" /\ cmd' = TakeOver(ds, c) /\ run' = RunSeen(st)
      /\ UNCHANGED <<batch, current, ack, acur>>
  BY Zenon DEF SettleRunning, Settles
<1>2. /\ c \in DOMAIN cmd /\ Evolves(cmd, Seen(st), {c}) /\ DOMAIN Seen(st) = DOMAIN cmd
      /\ Seen(st)[c].delivery \in SettledAs(st) /\ Runs(RunSeen(st))
  BY <1>1, SeenEvolves DEF SettledAs
<1>3. Books(Seen(st)) /\ c \in DOMAIN Seen(st) /\ state \in CommandState
  BY <1>2 DEF Evolves, TypeInv, Books, Command, CommandState
<1> HIDE DEF state
<1>4. Evolves(Seen(st), ds, {c}) /\ DOMAIN ds = DOMAIN cmd /\ ds[c].delivery = Seen(st)[c].delivery
  BY <1>2, <1>3, StateSetEvolves
<1> HIDE DEF ds
<1>5. Evolves(ds, cmd', {})
  BY <1>1, <1>2, <1>4, TakeOverEvolves, SMTT(30) DEF Evolves
<1>6. cmd'[c].delivery \in SettledAs(st)
  BY <1>2, <1>4, <1>5 DEF Evolves
<1>7. Evolves(cmd, cmd', {c})
  <2>1. Evolves(cmd, ds, {c})
    BY <1>2, <1>4, EvolvesTrans
  <2>2. QED
    BY <1>2, <1>5, <2>1, EvolvesTrans
<1>8. "delivered" \in SettledAs(st) \cap Given
  BY DEF SettledAs, Given
<1>9. QED
  BY <1>1, <1>2, <1>6, <1>7, <1>8 DEF Writes, TypeInv, TypeOK, Runs, AckMap, CurrentOwn

(* The answer done, of an action.                                           *)
LEMMA SettleActionDoneWrites ==
  ASSUME TypeInv, NEW st \in Station, SettleActionDone(st)
  PROVE  Writes({Mine(st)}, SettledAs(st))
<1> DEFINE c == Mine(st)
<1>1. /\ job[st].phase = "answered" /\ cmd' = CompleteStep(Seen(st), c) /\ run' = RunSeen(st)
      /\ ack' = AckEmitted(c) /\ acur' = Release(st, {c}) /\ UNCHANGED <<batch, current>>
  BY Zenon DEF SettleActionDone, Settles
<1>2. Books(Seen(st)) /\ c \in DOMAIN Seen(st)
  BY <1>1, SeenEvolves DEF Evolves
<1>3. Evolves(Seen(st), cmd', {})
  BY <1>1, <1>2, CompleteStepEvolves
<1>4. ack' \in AckMap
  BY <1>1 DEF AckEmitted, AckMap, TypeInv, TypeOK
<1>5. acur' \in [Station -> CmdId \cup {NoCmd}] /\ batch' \in [Batch -> BatchState]
  BY <1>1, ReleaseTyped DEF TypeInv, TypeOK
<1>6. QED
  BY <1>1, <1>3, <1>4, <1>5, SettleWrites

(* The answer done, of a hold.                                              *)
LEMMA SettleHoldDoneWrites ==
  ASSUME TypeInv, NEW st \in Station, SettleHoldDone(st)
  PROVE  Writes({Mine(st)}, SettledAs(st))
<1> DEFINE c == Mine(st)
           done == [Seen(st) EXCEPT ![c].state = "done"]
<1>1. /\ job[st].phase = "answered"
      /\ cmd' = [d \in DOMAIN cmd |-> IF d \in TargetsSeen(st) /\ TargetMoves(st, d)
                                        THEN WithState(done[d], "held") ELSE done[d]]
      /\ UNCHANGED <<batch, current, run, ack, acur>>
  BY Zenon DEF SettleHoldDone, Settles, WithState
<1>2. /\ c \in DOMAIN cmd /\ DOMAIN Seen(st) = DOMAIN cmd /\ Evolves(cmd, Seen(st), {c})
  BY <1>1, SeenEvolves
<1>3. Books(Seen(st)) /\ c \in DOMAIN Seen(st)
  BY <1>2 DEF Evolves
<1>4. Evolves(Seen(st), done, {}) /\ DOMAIN done = DOMAIN cmd
  BY <1>2, <1>3, StateSetEvolves DEF CommandState, Landed
<1> HIDE DEF done
<1>5. Evolves(done, cmd', {})
  <2>1. \A d \in DOMAIN done : cmd'[d] = done[d] \/ \E v \in Landed : cmd'[d] = WithState(done[d], v)
    BY <1>1, <1>4 DEF Landed, CommandState
  <2>2. cmd' = [d \in DOMAIN done |-> cmd'[d]]
    BY <1>1, <1>4
  <2>3. QED
    BY <1>4, <2>1, <2>2, StatesRewritten DEF Evolves
<1>6. Evolves(Seen(st), cmd', {})
  BY <1>4, <1>5, EvolvesTrans
<1>7. /\ batch' \in [Batch -> BatchState] /\ ack' \in AckMap
      /\ acur' \in [Station -> CmdId \cup {NoCmd}]
  BY <1>1 DEF TypeInv, TypeOK, AckMap
<1>8. QED
  BY <1>1, <1>6, <1>7, SettleWrites

(* The answer done, of an abort.                                            *)
LEMMA SettleAbortDoneWrites ==
  ASSUME TypeInv, NEW st \in Station, SettleAbortDone(st)
  PROVE  Writes({Mine(st)}, SettledAs(st))
<1> DEFINE c == Mine(st)
           done == [Seen(st) EXCEPT ![c].state = "done"]
<1>1. /\ job[st].phase = "answered" /\ ConfirmAbort(done, c, TargetsSeen(st))
      /\ acur' = Release(st, TargetsSeen(st)) /\ UNCHANGED <<current, run, ack>>
  BY Zenon DEF SettleAbortDone, Settles
<1>2. /\ c \in DOMAIN cmd /\ DOMAIN Seen(st) = DOMAIN cmd /\ Evolves(cmd, Seen(st), {c})
  BY <1>1, SeenEvolves
<1>3. Books(Seen(st)) /\ c \in DOMAIN Seen(st)
  BY <1>2 DEF Evolves
<1>4. Evolves(Seen(st), done, {}) /\ DOMAIN done = DOMAIN cmd
  BY <1>2, <1>3, StateSetEvolves DEF CommandState, Landed
<1> HIDE DEF done
<1>5. Evolves(done, cmd', {}) /\ batch' \in [Batch -> BatchState]
  BY <1>1, <1>2, <1>4, ConfirmAbortEvolves DEF Evolves, TypeInv, TypeOK
<1>6. Evolves(Seen(st), cmd', {})
  BY <1>4, <1>5, EvolvesTrans
<1>7. ack' \in AckMap /\ acur' \in [Station -> CmdId \cup {NoCmd}]
  BY <1>1, ReleaseTyped DEF TypeInv, TypeOK, AckMap
<1>8. QED
  BY <1>1, <1>5, <1>6, <1>7, SettleWrites

(* The answer failed, or that the device does not know.                     *)
LEMMA SettleFailedWrites ==
  ASSUME TypeInv, NEW st \in Station, SettleFailed(st)
  PROVE  Writes({Mine(st)}, {"delivered"})
<1> DEFINE c == Mine(st)
           v == IF job[st].reply = "failed" THEN "failed" ELSE "unknown"
           ds == [Seen(st) EXCEPT ![c].outcome = v]
<1>1. /\ job[st].phase = "answered"
      /\ Fault(c, "delivered", job[st].snap, ds, RunSeen(st))
      /\ acur' = Release(st, {c}) \/ acur' = acur
      /\ UNCHANGED ack
  BY Zenon DEF SettleFailed, Settles
<1>2. /\ c \in DOMAIN cmd /\ DOMAIN Seen(st) = DOMAIN cmd /\ Evolves(cmd, Seen(st), {c})
      /\ Runs(RunSeen(st))
  BY <1>1, SeenEvolves
<1>3. Books(Seen(st)) /\ c \in DOMAIN Seen(st) /\ v \in Outcome
  BY <1>2 DEF Evolves, Outcome
<1> HIDE DEF v
<1>4. Evolves(Seen(st), ds, {}) /\ DOMAIN ds = DOMAIN cmd
  BY <1>2, <1>3, OutcomeSetEvolves
<1> HIDE DEF ds
<1>5. Evolves(cmd, ds, {c})
  BY <1>2, <1>4, EvolvesTrans
<1>6. /\ ack' \in AckMap /\ acur' \in [Station -> CmdId \cup {NoCmd}] /\ "delivered" \in Delivery
  BY <1>1, ReleaseTyped DEF TypeInv, TypeOK, AckMap, Delivery
<1> HIDE DEF c
<1>7. Writes({c}, {"delivered"})
  BY <1>1, <1>2, <1>4, <1>5, <1>6, FaultWrites
<1>8. QED
  BY <1>7 DEF c

(* No answer: the command may have been sent, or is asked again.            *)
LEMMA SettleLostWrites ==
  ASSUME TypeInv, NEW st \in Station, SettleLost(st)
  PROVE  Writes({}, {}) \/ Writes({Mine(st)}, {"maybe_sent"})
<1> DEFINE c == Mine(st)
<1>1. /\ job[st].phase = "answered" /\ UNCHANGED <<ack, acur>>
      /\ \/ UNCHANGED <<batch, current, cmd, run>>
         \/ Fault(c, "maybe_sent", job[st].snap, cmd, RunSeen(st))
  BY Zenon DEF SettleLost, Settles
<1>2. CASE UNCHANGED <<batch, current, cmd, run>>
  BY <1>1, <1>2, NothingWritten DEF books
<1>3. CASE Fault(c, "maybe_sent", job[st].snap, cmd, RunSeen(st))
  <2>1. /\ c \in DOMAIN cmd /\ Runs(RunSeen(st)) /\ "maybe_sent" \in Delivery
        /\ ack' \in AckMap /\ acur' \in [Station -> CmdId \cup {NoCmd}]
    BY <1>1, SeenEvolves DEF TypeInv, TypeOK, AckMap, Delivery
  <2>2. Evolves(cmd, cmd, {c})
    BY EvolvesRefl DEF TypeInv
  <2> HIDE DEF c
  <2>3. Writes({c}, {"maybe_sent"})
    BY <1>3, <2>1, <2>2, FaultWrites
  <2>4. QED
    BY <2>3 DEF c
<1>4. QED
  BY <1>1, <1>2, <1>3

-----------------------------------------------------------------------------
(* Recovery and the advance of a step issue commands for attempts they have *)
(* just found or opened.                                                    *)

(* Appending to a sequence, or replacing an entry, keeps it one.            *)
LEMMA SeqPut ==
  ASSUME NEW S, NEW q \in Seq(S), NEW i, NEW v \in S
  PROVE  [q EXCEPT ![i] = v] \in Seq(S)
<1> DEFINE f == [q EXCEPT ![i] = v]
<1>1. f = [j \in DOMAIN q |-> f[j]] /\ \A j \in DOMAIN q : f[j] \in S
  OBVIOUS
<1> HIDE DEF f
<1>2. QED
  BY <1>1, SeqRewritten DEF f

(* The open steps of a batch are its own, each with an open attempt.        *)
LEMMA OpenStepsOwn ==
  ASSUME NEW rs, Runs(rs), NEW b
  PROVE  /\ OpenSteps(rs, b) \subseteq StepsOf(b) /\ OpenSteps(rs, b) \subseteq Step
         /\ \A s \in OpenSteps(rs, b) :
              /\ FirstOpen(rs, s) \in OpenAttempts(rs, s)
              /\ FirstOpen(rs, s) \in Nat \ {0}
BY FirstOpenOf DEF OpenSteps, StepsOf

(* A nonempty set of command ids has a greatest member.                     *)
LEMMA GreatestExists ==
  ASSUME NEW S \in SUBSET CmdId, S # {}
  PROVE  \E c \in S : \A d \in S : d <= c
<1> DEFINE T == {MaxCmd - c : c \in S}
<1>1. \A c \in S : c \in Nat /\ MaxCmd - c \in Nat
  BY BoundAssumption DEF CmdId
<1>2. T \in SUBSET Nat /\ T # {}
  BY <1>1
<1>3. PICK t \in T : \A u \in T : t <= u
  BY <1>2, LeastExists
<1>4. PICK c \in S : t = MaxCmd - c
  BY <1>3
<1>5. ASSUME NEW d \in S PROVE d <= c
  <2>1. MaxCmd - c <= MaxCmd - d
    BY <1>3, <1>4
  <2>2. QED
    BY <1>1, <2>1, BoundAssumption
<1>6. QED
  BY <1>5

(* _reissue makes a queued row whose target is an issued command.           *)
LEMMA ReissuedTyped ==
  ASSUME NEW cs, Books(cs), NEW s \in Step, NEW a \in Nat \ {0}, NEW strategy \in DISPATCHING
  PROVE  LET n == Reissued(cs, s, a, strategy)
         IN /\ n \in Command /\ n.delivery = "queued" /\ ~InFlight(n)
            /\ n.target \in DOMAIN cs \cup {NoCmd}
<1> DEFINE held == {c \in Actions(cs) : cs[c].step = s /\ cs[c].state = "held"}
           type == IF strategy = "resume" /\ held = {} /\ ~EverDelivered(cs, s, a)
                     THEN "dispatch" ELSE strategy
           target == IF held = {} THEN NoCmd ELSE CHOOSE c \in held : \A d \in held : d <= c
<1>1. Reissued(cs, s, a, strategy) = NewCommand(type, s, a, target)
  BY DEF Reissued
<1>2. held \subseteq DOMAIN cs /\ held \subseteq CmdId
  BY DEF Actions, Books
<1>3. type \in DISPATCHING \cup Control
  BY DEF DISPATCHING
<1> HIDE DEF type, held
<1>4. target \in DOMAIN cs \cup {NoCmd} /\ target \in CmdId \cup {NoCmd}
  <2>1. CASE held = {}
    BY <2>1
  <2>2. CASE held # {}
    <3>1. \E c \in held : \A d \in held : d <= c
      BY <1>2, <2>2, GreatestExists
    <3>2. target \in held
      BY <2>2, <3>1
    <3> HIDE DEF target
    <3>3. QED
      BY <1>2, <3>2
  <2>3. QED
    BY <2>1, <2>2
<1> HIDE DEF target
<1>5. QED
  BY <1>1, <1>3, <1>4, NewCommandIsRow

(* The attempt a retry supersedes keeps the runs typed.                     *)
LEMMA SupersededTyped ==
  ASSUME NEW rs, Runs(rs), NEW b
  PROVE  Runs(Superseded(b, rs))
<1>1. "superseded" \in RunState
  BY DEF RunState, VoidRun
<1>2. Superseded(b, rs) = rs \/ \E s, a : Superseded(b, rs) = PutRun(rs, s, a, "superseded")
  BY Zenon DEF Superseded
<1>3. QED
  BY <1>1, <1>2, PutRunTyped

(* The step a recovery is about is one of the batch's; its attempt is to be *)
(* opened (0), is open, or every step has completed.                        *)
LEMMA MainStepOf ==
  ASSUME NEW rs, Runs(rs), NEW b \in Batch, current[b] \in StepsOf(b),
         NEW strategy \in {"resume", "retry"}
  PROVE  LET main == MainStep(b, rs, strategy)
         IN /\ main.step \in StepsOf(b)
            /\ \/ main.attempt = 0
               \/ /\ strategy = "resume" /\ main.step \in OpenSteps(rs, b)
                  /\ main.attempt \in Nat \ {0}
               \/ /\ strategy = "resume" /\ OpenSteps(rs, b) = {}
                  /\ DoneSteps(rs, b) = StepsOf(b)
<1> DEFINE cur    == current[b]
           done   == DoneSteps(rs, b)
           open   == OpenSteps(rs, b)
           fresh  == Unopened(rs, b)
           target == IF cur \in done /\ open = {} /\ fresh # {} THEN MinStep(fresh) ELSE cur
           undone == StepsOf(b) \ done
           main   == MainStep(b, rs, strategy)
<1>1. main = IF strategy = "retry" THEN [step |-> target, attempt |-> 0]
             ELSE IF cur \in open THEN [step |-> cur, attempt |-> FirstOpen(rs, cur)]
             ELSE IF cur \in done /\ open # {}
               THEN [step |-> MinStep(open), attempt |-> FirstOpen(rs, MinStep(open))]
             ELSE IF target \notin done THEN [step |-> target, attempt |-> 0]
             ELSE IF undone # {} THEN [step |-> MinStep(undone), attempt |-> 0]
             ELSE [step |-> cur, attempt |-> 1]
  BY Zenon DEF MainStep
<1>2. /\ open \subseteq StepsOf(b) /\ fresh \subseteq StepsOf(b) /\ undone \subseteq StepsOf(b)
      /\ done \subseteq StepsOf(b)
      /\ \A s \in open : FirstOpen(rs, s) \in Nat \ {0}
  BY OpenStepsOwn DEF Unopened, DoneSteps
<1> HIDE DEF main, open, fresh, done
<1>3. \A S \in SUBSET StepsOf(b) : S # {} => MinStep(S) \in S /\ MinStep(S) \in StepsOf(b)
  BY StepsOfOwn
<1>4. target \in StepsOf(b) /\ (target \in done => cur \in done)
  BY <1>2, <1>3
<1> HIDE DEF target
<1>5. CASE strategy = "retry"
  BY <1>1, <1>4, <1>5 DEF main
<1>6. CASE strategy = "resume" /\ cur \in open
  BY <1>1, <1>2, <1>6 DEF main, open
<1>7. CASE strategy = "resume" /\ cur \notin open /\ cur \in done /\ open # {}
  <2>1. MinStep(open) \in open
    BY <1>2, <1>3, <1>7
  <2>2. main = [step |-> MinStep(open), attempt |-> FirstOpen(rs, MinStep(open))]
    BY <1>1, <1>7
  <2>3. QED
    BY <1>2, <1>7, <2>1, <2>2 DEF main, open
<1>8. CASE /\ strategy = "resume" /\ cur \notin open /\ ~(cur \in done /\ open # {})
           /\ target \notin done
  BY <1>1, <1>4, <1>8 DEF main
<1>9. CASE /\ strategy = "resume" /\ cur \notin open /\ ~(cur \in done /\ open # {})
           /\ target \in done /\ undone # {}
  <2>1. MinStep(undone) \in StepsOf(b)
    BY <1>2, <1>3, <1>9
  <2>2. main = [step |-> MinStep(undone), attempt |-> 0]
    BY <1>1, <1>9
  <2>3. QED
    BY <2>1, <2>2 DEF main
<1>10. CASE /\ strategy = "resume" /\ cur \notin open /\ ~(cur \in done /\ open # {})
            /\ target \in done /\ undone = {}
  <2>1. main = [step |-> cur, attempt |-> 1]
    BY <1>1, <1>10
  <2>2. open = {} /\ done = StepsOf(b)
    BY <1>2, <1>4, <1>10
  <2>3. main.step = cur
    BY <2>1
  <2>4. main.step \in StepsOf(b)
    BY <2>3
  <2>5. QED
    BY <1>10, <2>2, <2>4 DEF main, open, done
<1>11. QED
  BY <1>5, <1>6, <1>7, <1>8, <1>9, <1>10

(* What recover writes: fresh commands, old ones untouched.                 *)
LEMMA RecoverWrites ==
  ASSUME TypeInv, NEW b \in Batch, NEW strategy \in {"resume", "retry"}, Recover(b, strategy)
  PROVE  Writes({}, {})
<1> DEFINE acting  == ActingInBatch(cmd, b)
           moving  == {cmd[c].step : c \in acting}
           rs1     == Reattach(run, cmd, acting)
           main    == MainStep(b, rs1, strategy)
           ends    == strategy = "resume" /\ OpenSteps(rs1, b) = {} /\ DoneSteps(rs1, b) = StepsOf(b)
           opens   == main.attempt = 0
           rs2     == IF strategy = "retry" THEN Superseded(b, rs1) ELSE rs1
           rs3     == IF opens THEN [rs2 EXCEPT ![main.step] = Append(@, "ready")] ELSE rs2
           attempt == [s \in OpenSteps(rs3, b) |->
                         IF s # main.step THEN FirstOpen(rs3, s)
                         ELSE IF opens THEN Len(rs3[s]) ELSE main.attempt]
           others  == {s \in OpenSteps(rs3, b) \ {main.step} : ~HasLive(cmd, s, attempt[s])}
           again   == others \cup ({main.step} \ moving)
           rs4     == [s \in Step |-> IF s \in again THEN [rs3[s] EXCEPT ![attempt[s]] = "ready"] ELSE rs3[s]]
           new     == [s \in again |-> Reissued(cmd, s, attempt[s], IF s = main.step THEN strategy ELSE "resume")]
<1>1. /\ Books(cmd) /\ Runs(run) /\ batch \in [Batch -> BatchState]
      /\ current \in [Batch -> Step] /\ CurrentOwn /\ current[b] \in StepsOf(b)
  BY DEF TypeInv, TypeOK, Runs, CurrentOwn
<1>2. UNCHANGED <<ack, acur>>
  BY DEF Recover
<1>3. IF ends
        THEN batch' = [batch EXCEPT ![b] = "done"] /\ UNCHANGED <<current, run, cmd>>
        ELSE /\ CanIssue(cmd, again)
             /\ batch' = [batch EXCEPT ![b] = "running"]
             /\ current' = IF opens THEN [current EXCEPT ![b] = main.step] ELSE current
             /\ run' = rs4
             /\ cmd' = Issue(cmd, new)
  BY Zenon DEF Recover
<1>4. /\ batch' \in [Batch -> BatchState] /\ ack' \in AckMap
      /\ acur' \in [Station -> CmdId \cup {NoCmd}]
  <2>1. batch' = [batch EXCEPT ![b] = "done"] \/ batch' = [batch EXCEPT ![b] = "running"]
    BY <1>3, Zenon
  <2>2. QED
    BY <1>1, <1>2, <2>1 DEF BatchState, TypeInv, TypeOK, AckMap
<1>5. CASE ends
  <2>1. UNCHANGED <<current, run, cmd>>
    BY <1>3, <1>5
  <2>2. Evolves(cmd, cmd', {})
    BY <1>1, <2>1, EvolvesRefl
  <2>3. QED
    BY <1>1, <1>4, <2>1, <2>2 DEF Writes, CurrentOwn, Runs
<1>6. CASE ~ends
  <2>1. Runs(rs1) /\ Runs(rs2)
    BY <1>1, ReattachTyped, SupersededTyped
  <2>2. /\ main.step \in StepsOf(b)
        /\ \/ main.attempt = 0
           \/ /\ strategy = "resume" /\ main.step \in OpenSteps(rs1, b)
              /\ main.attempt \in Nat \ {0}
           \/ ends
    <3> HIDE DEF rs1
    <3>1. QED
      BY <1>1, <2>1, MainStepOf
  <2>3. main.step \in Step
    BY <2>2 DEF StepsOf
  <2> HIDE DEF acting, rs1, main, ends
  <2>4. Runs(rs3) /\ main.step \in OpenSteps(rs3, b)
    <3>1. CASE opens
      <4>1. rs2[main.step] \in Seq(RunState) /\ "ready" \in RunState
        BY <2>1, <2>3 DEF Runs, RunState, OpenRun
      <4> DEFINE q == Append(rs2[main.step], "ready")
      <4>2. /\ q \in Seq(RunState) /\ Len(rs2[main.step]) + 1 \in DOMAIN q
            /\ q[Len(rs2[main.step]) + 1] = "ready"
        BY <4>1
      <4>3. rs3 = [rs2 EXCEPT ![main.step] = q]
        BY <3>1
      <4> HIDE DEF q, rs2, rs3
      <4>4. Runs(rs3) /\ rs3[main.step] = q
        BY <2>1, <2>3, <4>2, <4>3 DEF Runs
      <4>5. QED
        BY <2>2, <4>2, <4>4 DEF OpenSteps, OpenAttempts, OpenRun
    <3>2. CASE ~opens
      <4>1. rs3 = rs1
        BY <1>6, <2>2, <3>2
      <4>2. QED
        BY <1>6, <2>1, <2>2, <3>2, <4>1
    <3>3. QED
      BY <3>1, <3>2
  <2>5. opens => Len(rs3[main.step]) \in Nat \ {0}
    <3> HIDE DEF rs3
    <3>1. rs3[main.step] \in Seq(RunState) /\ OpenAttempts(rs3, main.step) # {}
      BY <2>3, <2>4 DEF Runs, OpenSteps
    <3>2. QED
      BY <3>1 DEF OpenAttempts
  <2>6. ~opens => main.attempt \in Nat \ {0}
    BY <1>6, <2>2
  <2> HIDE DEF rs3, opens
  <2>7. again \subseteq OpenSteps(rs3, b) /\ again \subseteq Step
    BY <2>3, <2>4, OpenStepsOwn
  <2>8. ASSUME NEW s \in again PROVE attempt[s] \in Nat \ {0}
    <3>1. /\ s \in OpenSteps(rs3, b)
          /\ attempt[s] = IF s # main.step THEN FirstOpen(rs3, s)
                          ELSE IF opens THEN Len(rs3[s]) ELSE main.attempt
      BY <2>7
    <3>2. FirstOpen(rs3, s) \in Nat \ {0}
      BY <2>4, <3>1, OpenStepsOwn
    <3>3. QED
      BY <2>5, <2>6, <3>1, <3>2
  <2> HIDE DEF attempt, again
  <2>9. \A n \in DOMAIN new : /\ new[n] \in Command /\ new[n].delivery = "queued"
                              /\ ~InFlight(new[n])
                              /\ new[n].target \in DOMAIN cmd \cup {NoCmd}
    <3> SUFFICES ASSUME NEW s \in again
                 PROVE  /\ new[s] \in Command /\ new[s].delivery = "queued"
                        /\ ~InFlight(new[s])
                        /\ new[s].target \in DOMAIN cmd \cup {NoCmd}
      OBVIOUS
    <3> DEFINE how == IF s = main.step THEN strategy ELSE "resume"
    <3>1. s \in Step /\ attempt[s] \in Nat \ {0} /\ how \in DISPATCHING
      BY <2>7, <2>8 DEF DISPATCHING
    <3>2. new[s] = Reissued(cmd, s, attempt[s], how)
      OBVIOUS
    <3> HIDE DEF new, how
    <3>3. QED
      BY <1>1, <3>1, <3>2, ReissuedTyped
  <2>10. DOMAIN new = again
    OBVIOUS
  <2> HIDE DEF new
  <2>11. Evolves(cmd, cmd', {})
    BY <1>1, <1>3, <1>6, <2>9, <2>10, IssueEvolves
  <2>12. Runs(run')
    <3>1. ASSUME NEW s \in Step PROVE rs4[s] \in Seq(RunState)
      <4>1. rs3[s] \in Seq(RunState) /\ "ready" \in RunState
        BY <2>4 DEF Runs, RunState, OpenRun
      <4>2. [rs3[s] EXCEPT ![attempt[s]] = "ready"] \in Seq(RunState)
        BY <4>1, SeqPut
      <4>3. QED
        BY <4>1, <4>2
    <3>2. run' = rs4
      BY <1>3, <1>6
    <3>3. QED
      BY <3>1, <3>2 DEF Runs
  <2>13. current' \in [Batch -> Step] /\ CurrentOwn'
    <3>1. current' = current \/ current' = [current EXCEPT ![b] = main.step]
      BY <1>3, <1>6
    <3>2. QED
      BY <1>1, <2>2, <3>1, CurrentMoves DEF CurrentOwn
  <2>14. QED
    BY <1>4, <2>11, <2>12, <2>13 DEF Writes
<1>7. QED
  BY <1>5, <1>6

(* What a receipt writes: fresh commands, old ones untouched.               *)
LEMMA ProcessAckWrites ==
  ASSUME TypeInv, NEW c \in DOMAIN cmd, ProcessAck(c)
  PROVE  Writes({}, {})
<1> DEFINE r == cmd[c]
           b == BatchOfCmd(c)
           rs1     == PutRun(run, r.step, r.attempt, "completed")
           waiting == {s \in OpenSteps(rs1, b) : rs1[s][FirstOpen(rs1, s)] = "pending"}
           over    == AllResolved(rs1, b)
           opened  == IF over THEN {} ELSE Unopened(rs1, b)
           issued  == IF batch[b] = "running" THEN waiting \cup opened ELSE {}
           first   == IF batch[b] = "running" THEN "ready" ELSE "pending"
           rs2     == [s \in Step |-> IF s \in opened THEN Append(rs1[s], first)
                                     ELSE IF s \in issued THEN [rs1[s] EXCEPT ![FirstOpen(rs1, s)] = "ready"]
                                     ELSE rs1[s]]
           new     == [s \in issued |->
                        NewCommand("dispatch", s, IF s \in opened THEN Len(rs2[s]) ELSE FirstOpen(rs1, s), NoCmd)]
<1>1. /\ Books(cmd) /\ Runs(run) /\ batch \in [Batch -> BatchState] /\ ack \in AckMap
      /\ current \in [Batch -> Step] /\ CurrentOwn /\ acur \in [Station -> CmdId \cup {NoCmd}]
  BY DEF TypeInv, TypeOK, Runs, AckMap
<1>2. b \in Batch
  BY <1>1, PlanAssumption DEF BatchOfCmd, Books, Command
<1>3. /\ UNCHANGED acur
      /\ ack' = [ack EXCEPT ![c] = "rejected"] \/ ack' = [ack EXCEPT ![c] = "processed"]
      /\ \/ UNCHANGED <<batch, current, cmd, run>>
         \/ run' = rs1 /\ UNCHANGED <<batch, current, cmd>>
         \/ /\ CanIssue(cmd, issued) /\ run' = rs2 /\ cmd' = Issue(cmd, new)
            /\ batch' = [batch EXCEPT ![b] = "done"] \/ batch' = batch
            /\ \/ /\ OpenSteps(rs2, b) # {}
                  /\ current' = [current EXCEPT ![b] = MinStep(OpenSteps(rs2, b))]
               \/ current' = current
  BY Zenon DEF ProcessAck
<1>4. ack' \in AckMap /\ acur' \in [Station -> CmdId \cup {NoCmd}]
  BY <1>1, <1>3 DEF AckMap
<1>5. Runs(rs1)
  BY <1>1, PutRunTyped DEF RunState
<1>6. CASE \/ UNCHANGED <<batch, current, cmd, run>>
           \/ run' = rs1 /\ UNCHANGED <<batch, current, cmd>>
  <2>1. Evolves(cmd, cmd', {})
    BY <1>1, <1>6, EvolvesRefl
  <2>2. Runs(run')
    BY <1>1, <1>5, <1>6 DEF Runs
  <2>3. QED
    BY <1>1, <1>4, <1>6, <2>1, <2>2 DEF Writes, CurrentOwn
<1>7. CASE /\ CanIssue(cmd, issued) /\ run' = rs2 /\ cmd' = Issue(cmd, new)
           /\ batch' = [batch EXCEPT ![b] = "done"] \/ batch' = batch
           /\ \/ /\ OpenSteps(rs2, b) # {}
                 /\ current' = [current EXCEPT ![b] = MinStep(OpenSteps(rs2, b))]
              \/ current' = current
  <2> HIDE DEF rs1, over
  <2>1. /\ opened \subseteq Step /\ issued \subseteq Step
        /\ \A s \in issued \ opened : FirstOpen(rs1, s) \in Nat \ {0}
    BY <1>5, OpenStepsOwn DEF Unopened, StepsOf
  <2>2. first \in RunState /\ "ready" \in RunState
    BY DEF RunState, OpenRun
  <2> HIDE DEF opened, issued, first
  <2>3. ASSUME NEW s \in Step
        PROVE  rs2[s] \in Seq(RunState) /\ (s \in opened => Len(rs2[s]) \in Nat \ {0})
    <3>1. rs1[s] \in Seq(RunState)
      BY <1>5 DEF Runs
    <3>2. /\ Append(rs1[s], first) \in Seq(RunState) /\ Len(Append(rs1[s], first)) \in Nat \ {0}
          /\ [rs1[s] EXCEPT ![FirstOpen(rs1, s)] = "ready"] \in Seq(RunState)
      BY <2>2, <3>1, SeqPut
    <3>3. rs2[s] = IF s \in opened THEN Append(rs1[s], first)
                   ELSE IF s \in issued THEN [rs1[s] EXCEPT ![FirstOpen(rs1, s)] = "ready"]
                   ELSE rs1[s]
      OBVIOUS
    <3> HIDE DEF rs2
    <3>4. QED
      BY <3>1, <3>2, <3>3
  <2>4. Runs(rs2)
    BY <2>3 DEF Runs
  <2> HIDE DEF rs2
  <2>5. \A n \in DOMAIN new : /\ new[n] \in Command /\ new[n].delivery = "queued"
                              /\ ~InFlight(new[n])
                              /\ new[n].target \in DOMAIN cmd \cup {NoCmd}
    <3> SUFFICES ASSUME NEW s \in issued
                 PROVE  /\ new[s] \in Command /\ new[s].delivery = "queued"
                        /\ ~InFlight(new[s]) /\ new[s].target = NoCmd
      OBVIOUS
    <3> DEFINE a == IF s \in opened THEN Len(rs2[s]) ELSE FirstOpen(rs1, s)
    <3>1. s \in Step /\ a \in Nat \ {0} /\ "dispatch" \in DISPATCHING \cup Control
          /\ NoCmd \in CmdId \cup {NoCmd}
      BY <2>1, <2>3 DEF DISPATCHING
    <3>2. new[s] = NewCommand("dispatch", s, a, NoCmd)
      OBVIOUS
    <3> HIDE DEF new, a
    <3>3. QED
      BY <3>1, <3>2, NewCommandIsRow
  <2>6. DOMAIN new = issued
    OBVIOUS
  <2> HIDE DEF new
  <2>7. Evolves(cmd, cmd', {})
    BY <1>1, <1>7, <2>5, <2>6, IssueEvolves
  <2>8. current' \in [Batch -> Step] /\ CurrentOwn'
    <3>1. CASE /\ OpenSteps(rs2, b) # {}
               /\ current' = [current EXCEPT ![b] = MinStep(OpenSteps(rs2, b))]
      <4>1. MinStep(OpenSteps(rs2, b)) \in StepsOf(b)
        BY <1>2, <2>4, <3>1, OpenStepsOwn, StepsOfOwn
      <4>2. QED
        BY <1>1, <1>2, <3>1, <4>1, CurrentMoves
    <3>2. CASE current' = current
      BY <1>1, <3>2 DEF CurrentOwn
    <3>3. QED
      BY <1>7, <3>1, <3>2
  <2>9. batch' \in [Batch -> BatchState]
    BY <1>1, <1>7 DEF BatchState
  <2>10. Runs(run')
    BY <1>7, <2>4
  <2>11. QED
    BY <1>4, <2>7, <2>8, <2>9, <2>10 DEF Writes
<1>8. QED
  BY <1>3, <1>6, <1>7

-----------------------------------------------------------------------------
(* The workers' memory *)

(* A worker's memory built from typed parts is typed.                       *)
LEMMA WorkingTyped ==
  ASSUME NEW phase \in {"idle", "claimed", "calling", "answered"},
         NEW kind \in {"submit", "poll", "reconcile"}, NEW c \in CmdId \cup {NoCmd},
         NEW locks \in BOOLEAN, NEW reply \in Reply \cup {""}, NEW snap \in Snap
  PROVE  Working(phase, kind, c, locks, reply, snap) \in Job
BY DEF Job, Working

(* The empty snapshot is a snapshot.                                        *)
LEMMA NoSnapTyped == NoSnap \in Snap
BY DEF NoSnap, Snap, BatchState, CommandState

(* An idle worker is typed and idle.                                        *)
LEMMA IdleTyped == Idle \in Job /\ Idle.phase = "idle" /\ Idle.kind = "submit"
<1>1. /\ "idle" \in {"idle", "claimed", "calling", "answered"}
      /\ "submit" \in {"submit", "poll", "reconcile"}
      /\ NoCmd \in CmdId \cup {NoCmd} /\ "" \in Reply \cup {""} /\ FALSE \in BOOLEAN
  OBVIOUS
<1>2. Idle \in Job
  BY <1>1, NoSnapTyped, WorkingTyped, Zenon DEF Idle
<1>3. Idle.phase = "idle" /\ Idle.kind = "submit"
  BY DEF Idle, Working
<1>4. QED
  BY <1>2, <1>3

(* What a transaction reads of the books is a snapshot.                     *)
LEMMA FreshTyped ==
  ASSUME TypeInv, NEW c \in DOMAIN cmd
  PROVE  Fresh(c) \in Snap
<1>1. /\ cmd[c] \in Command /\ cmd[c].target \in DOMAIN cmd \cup {NoCmd}
      /\ \A d \in DOMAIN cmd : cmd[d].state \in CommandState
  BY DEF TypeInv, Books, Command
<1>2. BatchOfCmd(c) \in Batch
  BY <1>1, PlanAssumption DEF BatchOfCmd, Command
<1>3. batch[BatchOfCmd(c)] \in BatchState /\ current[BatchOfCmd(c)] \in Step
  BY <1>2 DEF TypeInv, TypeOK
<1>4. (IF cmd[c].target = NoCmd THEN "sent" ELSE cmd[cmd[c].target].state) \in CommandState
  BY <1>1 DEF CommandState
<1>5. cmd[c].state \in CommandState
  BY <1>1
<1>6. QED
  BY <1>3, <1>4, <1>5 DEF Fresh, Snap

(* Once one worker's memory has changed: it is idle, or still busy with the *)
(* same command, or newly busy with a command of its station.               *)
JobMoves(st) ==
  /\ job' \in [Station -> Job]
  /\ \A t \in Station \ {st} : job'[t] = job[t]
  /\ \/ job'[st].phase = "idle"
     \/ job[st].phase # "idle" /\ job'[st].cmd = job[st].cmd
     \/ job'[st].cmd \in DOMAIN cmd /\ StationOfCmd(job'[st].cmd) = st

(* One worker's memory replaced by another one about its station.           *)
LEMMA JobSet ==
  ASSUME TypeInv, NEW st \in Station, NEW j \in Job, job' = [job EXCEPT ![st] = j],
         \/ j.phase = "idle"
         \/ job[st].phase # "idle" /\ j.cmd = job[st].cmd
         \/ j.cmd \in DOMAIN cmd /\ StationOfCmd(j.cmd) = st
  PROVE  JobMoves(st) /\ job'[st] = j
<1>1. job \in [Station -> Job]
  BY DEF TypeInv, TypeOK
<1>2. job' \in [Station -> Job] /\ job'[st] = j /\ \A t \in Station \ {st} : job'[t] = job[t]
  BY <1>1
<1>3. QED
  BY <1>2 DEF JobMoves

(* A worker whose task has ended is idle.                                   *)
LEMMA BackToIdle ==
  ASSUME TypeInv, NEW st \in Station, job' = [job EXCEPT ![st] = Idle]
  PROVE  JobMoves(st) /\ job'[st].phase = "idle"
BY IdleTyped, JobSet

(* An issued command has an id, a row, a station and a batch.               *)
LEMMA CmdOwn ==
  ASSUME TypeInv, NEW c \in DOMAIN cmd
  PROVE  /\ c \in CmdId /\ cmd[c] \in Command
         /\ StationOfCmd(c) \in Station /\ BatchOfCmd(c) \in Batch
BY PlanAssumption DEF StationOfCmd, BatchOfCmd, TypeInv, Books, Command

(* A claim makes the worker busy with the command.                          *)
LEMMA ClaimMoves ==
  ASSUME TypeInv, NEW c \in DOMAIN cmd, Claim(c)
  PROVE  /\ JobMoves(StationOfCmd(c))
         /\ job'[StationOfCmd(c)].cmd = c /\ job'[StationOfCmd(c)].phase = "claimed"
<1> DEFINE st == StationOfCmd(c)
           j  == Working("claimed", "submit", c, FALSE, "", NoSnap)
<1>1. st \in Station /\ c \in CmdId
  BY CmdOwn
<1>2. j \in Job
  BY <1>1, WorkingTyped, NoSnapTyped
<1>3. j.cmd = c /\ j.phase = "claimed"
  BY DEF Working
<1>4. job' = [job EXCEPT ![st] = j]
  BY Zenon DEF Claim
<1> HIDE DEF j
<1>5. QED
  BY <1>1, <1>2, <1>3, <1>4, JobSet

(* A query makes the worker busy with the command.                          *)
LEMMA AskMoves ==
  ASSUME TypeInv, NEW c \in DOMAIN cmd, NEW kind \in {"poll", "reconcile"}, Ask(c, kind)
  PROVE  /\ JobMoves(StationOfCmd(c))
         /\ job'[StationOfCmd(c)].cmd = c
         /\ job'[StationOfCmd(c)].phase = "calling" /\ job'[StationOfCmd(c)].kind # "submit"
<1> DEFINE st == StationOfCmd(c)
           j  == Working("calling", kind, c, FALSE, "", Fresh(c))
<1>1. st \in Station /\ c \in CmdId
  BY CmdOwn
<1>2. j \in Job
  BY <1>1, WorkingTyped, FreshTyped
<1>3. j.cmd = c /\ j.phase = "calling" /\ j.kind = kind
  BY DEF Working
<1>4. job' = [job EXCEPT ![st] = j]
  BY Zenon DEF Ask
<1> HIDE DEF j
<1>5. QED
  BY <1>1, <1>2, <1>3, <1>4, JobSet

(* A busy worker is busy with an issued command of its station.             *)
LEMMA BusyOwn ==
  ASSUME TypeInv, NEW st \in Station, job[st].phase # "idle"
  PROVE  /\ job[st].cmd \in DOMAIN cmd /\ StationOfCmd(job[st].cmd) = st
         /\ job[st] \in Job /\ job[st].cmd \in CmdId
BY CmdOwn DEF TypeInv, TypeOK, BusyWithOwn

(* The call of a claimed command begins.                                    *)
LEMMA BeginMoves ==
  ASSUME TypeInv, NEW st \in Station, Begin(st)
  PROVE  /\ JobMoves(st) /\ job[st].phase = "claimed"
         /\ job'[st].cmd = job[st].cmd /\ job'[st].phase = "calling"
<1> DEFINE c == job[st].cmd
           l == cmd[c].type \in DISPATCHING /\ run[cmd[c].step][cmd[c].attempt] = "ready"
           j == Working("calling", "submit", c, l, "", Fresh(c))
<1>1. job[st].phase = "claimed"
  BY DEF Begin
<1>2. c \in DOMAIN cmd /\ c \in CmdId
  BY <1>1, BusyOwn
<1>3. Fresh(c) \in Snap
  BY <1>2, FreshTyped
<1>4. l \in BOOLEAN
  OBVIOUS
<1>5. job' = [job EXCEPT ![st] = j]
  BY Zenon DEF Begin
<1> HIDE DEF l
<1>6. j \in Job
  BY <1>2, <1>3, <1>4, WorkingTyped
<1>7. j.cmd = c /\ j.phase = "calling"
  BY DEF Working
<1> HIDE DEF j
<1>8. QED
  BY <1>1, <1>5, <1>6, <1>7, JobSet

(* The call returns; the worker keeps its command.                          *)
LEMMA AnsweredMoves ==
  ASSUME TypeInv, NEW st \in Station, job[st].phase = "calling", NEW reply \in Reply, NEW expected,
         Answered(st, reply, expected)
  PROVE  /\ JobMoves(st)
         /\ job'[st].cmd = job[st].cmd /\ job'[st].phase = "answered"
<1> DEFINE j == Working("answered", job[st].kind, job[st].cmd, job[st].locks, reply, job[st].snap)
<1>1. /\ job[st].kind \in {"submit", "poll", "reconcile"} /\ job[st].cmd \in CmdId
      /\ job[st].snap \in Snap
  BY BusyOwn DEF Job
<1>2. job[st].locks \in BOOLEAN
  BY BusyOwn, Zenon DEF Job
<1>3. j \in Job
  BY <1>1, <1>2, WorkingTyped
<1>4. j.cmd = job[st].cmd /\ j.phase = "answered"
  BY DEF Working
<1>5. job' = [job EXCEPT ![st] = j]
  BY Zenon DEF Answered
<1> HIDE DEF j
<1>6. QED
  BY <1>3, <1>4, <1>5, JobSet
-----------------------------------------------------------------------------
(* Typing                                                                  *)

JobsMove == job' = job \/ \E st \in Station : JobMoves(st)
TroubleOK == trouble' \in 0..MaxTrouble

(* Typed writes, workers and devices keep the invariant.                    *)
LEMMA KeepsTypes ==
  ASSUME TypeInv, NEW S, NEW D, Writes(S, D), JobsMove,
         phys' \in [CmdId -> Phys], trouble' \in 0..MaxTrouble
  PROVE  TypeInv'
<1>1. /\ Books(cmd') /\ DOMAIN cmd \subseteq DOMAIN cmd'
      /\ \A c \in DOMAIN cmd : cmd'[c].step = cmd[c].step
  BY DEF Writes, Evolves
<1>2. job \in [Station -> Job] /\ BusyWithOwn
  BY DEF TypeInv, TypeOK
<1>3. job' \in [Station -> Job]
  BY <1>2 DEF JobsMove, JobMoves
<1>4. \A c \in DOMAIN cmd : c \in DOMAIN cmd' /\ StationOf[cmd'[c].step] = StationOfCmd(c)
  BY <1>1 DEF StationOfCmd
<1>5. ASSUME NEW t \in Station, job'[t].phase # "idle"
      PROVE  job'[t].cmd \in DOMAIN cmd /\ StationOfCmd(job'[t].cmd) = t
  BY <1>2, <1>5 DEF JobsMove, JobMoves, BusyWithOwn
<1>6. BusyWithOwn'
  BY <1>4, <1>5 DEF BusyWithOwn, StationOfCmd
<1>7. TypeOK'
  BY <1>1, <1>3 DEF Writes, TypeOK, Books, Runs, AckMap
<1>8. QED
  BY <1>1, <1>6, <1>7 DEF TypeInv, Writes

(* Trouble is counted within its bound.                                     *)
LEMMA TroubleTyped ==
  ASSUME TypeInv, Trouble \/ UNCHANGED trouble
  PROVE  trouble' \in 0..MaxTrouble
BY PolicyAssumption DEF TypeInv, TypeOK, Trouble

(* What a device makes of a command stays typed.                            *)
LEMMA PhysTyped ==
  ASSUME TypeInv
  PROVE  /\ phys \in [CmdId -> Phys]
         /\ phys' = phys => phys' \in [CmdId -> Phys]
         /\ \A c \in CmdId, t \in CmdId \cup {NoCmd} : Obeyed(phys, c, t) \in [CmdId -> Phys]
         /\ \A c : \A p \in Phys : [phys EXCEPT ![c] = p] \in [CmdId -> Phys]
<1>1. phys \in [CmdId -> Phys]
  BY DEF TypeInv, TypeOK
<1>2. /\ \A c : \A p \in Phys : [phys EXCEPT ![c] = p] \in [CmdId -> Phys]
      /\ "done" \in Phys /\ "held" \in Phys /\ "stopped" \in Phys /\ "continued" \in Phys
  BY <1>1 DEF Phys
<1>3. ASSUME NEW c \in CmdId, NEW t \in CmdId \cup {NoCmd}
      PROVE  Obeyed(phys, c, t) \in [CmdId -> Phys]
  BY <1>1, <1>2 DEF Obeyed
<1>4. QED
  BY <1>1, <1>2, <1>3

(* A step that leaves the workers and the devices alone. *)
LEMMA BooksStepTyped ==
  ASSUME TypeInv, NEW S, NEW D, Writes(S, D), UNCHANGED <<job, phys>>, Trouble \/ UNCHANGED trouble
  PROVE  TypeInv'
BY KeepsTypes, PhysTyped, TroubleTyped DEF JobsMove

(* A step that ends a worker's task. *)
LEMMA TaskEndTyped ==
  ASSUME TypeInv, NEW S, NEW D, Writes(S, D), NEW st \in Station, job' = [job EXCEPT ![st] = Idle],
         UNCHANGED phys, Trouble \/ UNCHANGED trouble
  PROVE  TypeInv'
BY KeepsTypes, BackToIdle, PhysTyped, TroubleTyped DEF JobsMove

(* The operator's services keep the invariant.                              *)
LEMMA OperatorTyped ==
  ASSUME TypeInv, NEW b \in Batch, Operator(b) \/ FinishAborts(b)
  PROVE  TypeInv'
<1>1. CASE Dispatch(b)
  BY <1>1, DispatchWrites, BooksStepTyped DEF Dispatch
<1>2. CASE Hold(b)
  BY <1>2, HoldWrites, BooksStepTyped DEF Hold
<1>3. CASE Abort(b)
  BY <1>3, AbortWrites, BooksStepTyped DEF Abort
<1>4. CASE \E strategy \in {"resume", "retry"} : Recover(b, strategy)
  <2>1. PICK strategy \in {"resume", "retry"} : Recover(b, strategy)
    BY <1>4
  <2>2. UNCHANGED <<job, phys, trouble>>
    BY <2>1, Zenon DEF Recover
  <2>3. QED
    BY <2>1, <2>2, RecoverWrites, BooksStepTyped
<1>5. CASE FinishAborts(b)
  BY <1>5, FinishAbortsWrites, BooksStepTyped DEF FinishAborts
<1>6. QED
  BY <1>1, <1>2, <1>3, <1>4, <1>5 DEF Operator

(* A person's verdict keeps the invariant.                                  *)
LEMMA VerifyTyped ==
  ASSUME TypeInv, NEW c \in DOMAIN cmd, Verify(c)
  PROVE  TypeInv'
<1>1. c \in CmdId /\ phys \in [CmdId -> Phys] /\ "stopped" \in Phys
  BY CmdOwn, PhysTyped DEF Phys
<1>2. CASE VerifyExecuted(c)
  <2>1. phys' \in [CmdId -> Phys]
    <3> DEFINE about == ControlTargets(cmd, c)
               stop == [d \in CmdId |-> IF d \in about /\ phys[d] \in Physical THEN "stopped" ELSE phys[d]]
    <3>1. phys' = phys \/ phys' = stop
      BY <1>2, Zenon DEF VerifyExecuted
    <3>2. stop \in [CmdId -> Phys]
      BY <1>1
    <3>3. QED
      BY <1>1, <3>1, <3>2
  <2>2. UNCHANGED <<job, trouble>>
    BY <1>2, Zenon DEF VerifyExecuted
  <2>3. QED
    BY <1>2, <2>1, <2>2, VerifyExecutedWrites, KeepsTypes, TroubleTyped DEF JobsMove
<1>3. CASE VerifyNotExecuted(c)
  BY <1>3, VerifyNotExecutedWrites, BooksStepTyped DEF VerifyNotExecuted
<1>4. CASE VerifyPartial(c)
  <2>1. UNCHANGED <<job, trouble>> /\ (phys' = phys \/ phys' = [phys EXCEPT ![c] = "stopped"])
    BY <1>4, Zenon DEF VerifyPartial
  <2>2. phys' \in [CmdId -> Phys]
    BY <1>1, <2>1
  <2>3. QED
    BY <1>4, <2>1, <2>2, VerifyPartialWrites, KeepsTypes, TroubleTyped DEF JobsMove
<1>5. QED
  BY <1>2, <1>3, <1>4 DEF Verify

(* A worker's passes over its station keep the invariant.                   *)
LEMMA ServeTyped ==
  ASSUME TypeInv, NEW c \in DOMAIN cmd, Serve(c)
  PROVE  TypeInv'
<1>1. "unreachable" \in Delivery /\ "maybe_sent" \in Delivery
  BY DEF Delivery
<1>2. CASE Withdraw(c)
  BY <1>2, WithdrawWrites, BooksStepTyped DEF Withdraw
<1>3. CASE Refuse(c)
  BY <1>1, <1>3, ServeFaultWrites, BooksStepTyped DEF Refuse
<1>4. CASE Claim(c)
  <2>1. UNCHANGED <<phys, trouble>>
    BY <1>4, Zenon DEF Claim
  <2>2. JobsMove
    BY <1>4, ClaimMoves, CmdOwn DEF JobsMove
  <2>3. QED
    BY <1>4, <2>1, <2>2, ClaimWrites, KeepsTypes, PhysTyped, TroubleTyped
<1>5. CASE \E kind \in {"poll", "reconcile"} : Ask(c, kind)
  <2>1. UNCHANGED <<books, phys, trouble>>
    BY <1>5, Zenon DEF Ask
  <2>2. JobsMove
    BY <1>5, AskMoves, CmdOwn DEF JobsMove
  <2>3. QED
    BY <2>1, <2>2, NothingWritten, KeepsTypes, PhysTyped, TroubleTyped
<1>6. CASE ReconcileBlind(c)
  BY <1>1, <1>6, ServeFaultWrites, BooksStepTyped DEF ReconcileBlind
<1>7. CASE ReconcileMismatch(c)
  BY <1>1, <1>7, ServeFaultWrites, BooksStepTyped DEF ReconcileMismatch
<1>8. CASE Timeout(c)
  BY <1>1, <1>8, ServeFaultWrites, BooksStepTyped DEF Timeout
<1>9. QED
  BY <1>2, <1>3, <1>4, <1>5, <1>6, <1>7, <1>8 DEF Serve

(* The start of a call keeps the invariant.                                 *)
LEMMA PerformTyped ==
  ASSUME TypeInv, NEW st \in Station, Perform(st)
  PROVE  TypeInv'
<1>1. CASE Begin(st)
  <2>1. UNCHANGED <<books, phys, trouble>>
    BY <1>1, Zenon DEF Begin
  <2>2. JobsMove
    BY <1>1, BeginMoves DEF JobsMove
  <2>3. QED
    BY <2>1, <2>2, NothingWritten, KeepsTypes, PhysTyped, TroubleTyped
<1>2. CASE BeginRefused(st)
  BY <1>2, BeginRefusedWrites, TaskEndTyped DEF BeginRefused
<1>3. CASE BeginMoot(st)
  BY <1>3, BeginMootWrites, TaskEndTyped DEF BeginMoot
<1>4. CASE BeginUnsupported(st)
  BY <1>4, BeginUnsupportedWrites, TaskEndTyped DEF BeginUnsupported
<1>5. QED
  BY <1>1, <1>2, <1>3, <1>4 DEF Perform

(* What a device reports is a reply.                                        *)
LEMMA AnswersAreReplies ==
  /\ \A p : Report(p) \cup Refused(p) \cup {"absent"} \subseteq Reply \/ p \notin Phys
BY DEF Report, Refused, Reply, Phys, Physical

(* A call that returns keeps the invariant.                                 *)
LEMMA AnsweredTyped ==
  ASSUME TypeInv, NEW st \in Station, job[st].phase = "calling", NEW reply \in Reply, NEW expected,
         Answered(st, reply, expected), UNCHANGED books, phys' \in [CmdId -> Phys]
  PROVE  TypeInv'
<1>1. Trouble \/ UNCHANGED trouble
  BY Zenon DEF Answered
<1>2. JobsMove
  BY AnsweredMoves DEF JobsMove
<1>3. QED
  BY <1>1, <1>2, NothingWritten, KeepsTypes, TroubleTyped

(* What a submitted action or control command makes of the devices.         *)
LEMMA DeliverActionEffect ==
  ASSUME TypeInv, NEW st \in Station, DeliverAction(st)
  PROVE  /\ job[st].phase = "calling" /\ job[st].kind = "submit" /\ UNCHANGED books
         /\ cmd[job[st].cmd].type \in DISPATCHING
         /\ phys' \in [CmdId -> Phys]
         /\ \A d \in CmdId \ {job[st].cmd} : phys'[d] = "none" <=> phys[d] = "none"
         /\ \E reply \in Reply : Answered(st, reply, {"running", "done"})
<1> DEFINE c == job[st].cmd
           t == cmd[c].target
           after(p) == [d \in CmdId |-> IF d = c THEN p
                                        ELSE IF d = t /\ p # "none" /\ phys[d] \in Physical
                                          THEN "continued" ELSE phys[d]]
<1>1. /\ job[st].phase = "calling" /\ job[st].kind = "submit" /\ UNCHANGED books
      /\ cmd[c].type \in DISPATCHING
      /\ \E p \in {"none", "acting", "done", "stopped"} :
           /\ phys' = after(p)
           /\ \E reply \in Report(p) \cup Refused(p) : Answered(st, reply, {"running", "done"})
  BY Zenon DEF DeliverAction
<1>2. PICK p \in {"none", "acting", "done", "stopped"} :
         /\ phys' = after(p)
         /\ \E reply \in Report(p) \cup Refused(p) : Answered(st, reply, {"running", "done"})
  BY <1>1
<1>3. p \in Phys /\ phys \in [CmdId -> Phys] /\ "continued" \in Phys
  BY PhysTyped DEF Phys
<1>4. \E reply \in Reply : Answered(st, reply, {"running", "done"})
  BY <1>2, <1>3, AnswersAreReplies
<1>5. phys' \in [CmdId -> Phys]
  BY <1>2, <1>3
<1>6. \A d \in CmdId \ {c} : phys'[d] = "none" <=> phys[d] = "none"
  BY <1>2, <1>3 DEF Physical
<1>7. QED
  BY <1>1, <1>4, <1>5, <1>6

(* What a control command aims at is a command, or none.                    *)
LEMMA AimTyped ==
  ASSUME TypeInv, NEW c \in DOMAIN cmd
  PROVE  Aim(c) \in CmdId \cup {NoCmd}
<1>1. DOMAIN cmd \subseteq CmdId /\ cmd[c].target \in DOMAIN cmd \cup {NoCmd}
  BY DEF TypeInv, Books
<1> DEFINE near == {d \in ActingInBatch(cmd, BatchOfCmd(c)) : StationOfCmd(d) = StationOfCmd(c)}
<1>2. near \subseteq CmdId
  BY <1>1 DEF ActingInBatch, Actions
<1>3. Aim(c) = IF cmd[c].target # NoCmd \/ near = {} THEN cmd[c].target ELSE CHOOSE d \in near : TRUE
  BY Zenon DEF Aim
<1> HIDE DEF near
<1>4. QED
  BY <1>1, <1>2, <1>3

(* What a submitted hold or abort makes of the devices.                     *)
LEMMA DeliverControlEffect ==
  ASSUME TypeInv, NEW st \in Station, DeliverControl(st)
  PROVE  /\ job[st].phase = "calling" /\ job[st].kind = "submit" /\ UNCHANGED books
         /\ cmd[job[st].cmd].type \in Control
         /\ phys' \in [CmdId -> Phys]
         /\ \A d \in CmdId \ {job[st].cmd} : phys'[d] = "none" <=> phys[d] = "none"
         /\ \E reply \in Reply : Answered(st, reply, {"running", "done"})
<1> DEFINE c == job[st].cmd
           t == Aim(c)
<1>1. /\ job[st].phase = "calling" /\ job[st].kind = "submit" /\ UNCHANGED books
      /\ cmd[c].type \in Control
      /\ \E p \in {"none", "acting", "done", "stopped"} :
           /\ phys' = IF p = "done" THEN Obeyed(phys, c, t) ELSE [phys EXCEPT ![c] = p]
           /\ \E reply \in Report(p) \cup Refused(p) : Answered(st, reply, {"running", "done"})
  BY Zenon DEF DeliverControl
<1>2. PICK p \in {"none", "acting", "done", "stopped"} :
         /\ phys' = IF p = "done" THEN Obeyed(phys, c, t) ELSE [phys EXCEPT ![c] = p]
         /\ \E reply \in Report(p) \cup Refused(p) : Answered(st, reply, {"running", "done"})
  BY <1>1
<1>3. p \in Phys /\ phys \in [CmdId -> Phys] /\ c \in CmdId /\ t \in CmdId \cup {NoCmd}
  BY <1>1, PhysTyped, BusyOwn, AimTyped DEF Phys
<1>4. \E reply \in Reply : Answered(st, reply, {"running", "done"})
  BY <1>2, <1>3, AnswersAreReplies
<1>5. phys' \in [CmdId -> Phys]
  BY <1>2, <1>3, PhysTyped
<1>6. \A d \in CmdId \ {c} : phys'[d] = "none" <=> phys[d] = "none"
  BY <1>2, <1>3 DEF Physical, Obeyed
<1>7. QED
  BY <1>1, <1>4, <1>5, <1>6

(* What a query changes: only what its worker knows.                        *)
LEMMA AnswerEffect ==
  ASSUME TypeInv, NEW st \in Station, Answer(st)
  PROVE  /\ job[st].phase = "calling" /\ job[st].kind # "submit" /\ UNCHANGED <<books, phys>>
         /\ \E reply \in Reply : \E expected : Answered(st, reply, expected)
<1> DEFINE p == phys[job[st].cmd]
           truth == IF p = "none" THEN {"absent"} ELSE Report(p) \ {"unclear", "lost"}
<1>1. /\ job[st].phase = "calling" /\ job[st].kind \in {"poll", "reconcile"} /\ UNCHANGED <<books, phys>>
      /\ \E reply \in Report(p) \cup {"absent"} : Answered(st, reply, truth)
  BY Zenon DEF Answer
<1>2. p \in Phys
  BY <1>1, BusyOwn, PhysTyped
<1>3. Report(p) \cup {"absent"} \subseteq Reply
  BY <1>2, AnswersAreReplies
<1> HIDE DEF truth, p
<1>4. QED
  BY <1>1, <1>3

(* The devices keep the invariant.                                          *)
LEMMA DeviceTyped ==
  ASSUME TypeInv, NEW st \in Station, Device(st)
  PROVE  TypeInv'
<1>1. CASE DeliverAction(st)
  BY <1>1, DeliverActionEffect, AnsweredTyped
<1>2. CASE DeliverControl(st)
  BY <1>2, DeliverControlEffect, AnsweredTyped
<1>3. CASE Answer(st)
  BY <1>3, AnswerEffect, AnsweredTyped, PhysTyped
<1>4. QED
  BY <1>1, <1>2, <1>3 DEF Device

(* An acting device comes to an end.                                        *)
LEMMA DeviceFinishEffect ==
  ASSUME TypeInv, NEW c \in DOMAIN cmd, DeviceFinish(c)
  PROVE  /\ UNCHANGED <<books, job>> /\ phys' \in [CmdId -> Phys]
         /\ Trouble \/ UNCHANGED trouble
         /\ \A d \in CmdId : phys'[d] = "none" <=> phys[d] = "none"
<1>1. c \in CmdId /\ phys \in [CmdId -> Phys] /\ Aim(c) \in CmdId \cup {NoCmd}
  BY CmdOwn, PhysTyped, AimTyped
<1>2. /\ UNCHANGED <<books, job>> /\ phys[c] = "acting"
      /\ Trouble \/ UNCHANGED trouble
      /\ \/ phys' = [phys EXCEPT ![c] = "done"] \/ phys' = [phys EXCEPT ![c] = "stopped"]
         \/ phys' = Obeyed(phys, c, Aim(c))
  BY Zenon DEF DeviceFinish
<1>3. "done" \in Phys /\ "stopped" \in Phys
  BY DEF Phys
<1>4. phys' \in [CmdId -> Phys]
  <2>1. CASE phys' = Obeyed(phys, c, Aim(c))
    BY <1>1, <2>1, PhysTyped
  <2>2. CASE phys' = [phys EXCEPT ![c] = "done"] \/ phys' = [phys EXCEPT ![c] = "stopped"]
    BY <1>1, <1>3, <2>2
  <2>3. QED
    BY <1>2, <2>1, <2>2
<1>5. \A d \in CmdId : phys'[d] = "none" <=> phys[d] = "none"
  BY <1>1, <1>2 DEF Obeyed, Physical
<1>6. QED
  BY <1>2, <1>4, <1>5

(* Settling an answer keeps the invariant.                                  *)
LEMMA SettleTyped ==
  ASSUME TypeInv, NEW st \in Station, Settle(st)
  PROVE  TypeInv'
<1>1. ASSUME NEW replies, Settles(st, replies)
      PROVE  job' = [job EXCEPT ![st] = Idle] /\ UNCHANGED <<phys, trouble>>
  BY <1>1, Zenon DEF Settles
<1>2. CASE SettleRunning(st)
  BY <1>1, <1>2, SettleRunningWrites, TaskEndTyped DEF SettleRunning
<1>3. CASE SettleActionDone(st)
  BY <1>1, <1>3, SettleActionDoneWrites, TaskEndTyped DEF SettleActionDone
<1>4. CASE SettleHoldDone(st)
  BY <1>1, <1>4, SettleHoldDoneWrites, TaskEndTyped DEF SettleHoldDone
<1>5. CASE SettleAbortDone(st)
  BY <1>1, <1>5, SettleAbortDoneWrites, TaskEndTyped DEF SettleAbortDone
<1>6. CASE SettleFailed(st)
  BY <1>1, <1>6, SettleFailedWrites, TaskEndTyped DEF SettleFailed
<1>7. CASE SettleLost(st)
  BY <1>1, <1>7, SettleLostWrites, TaskEndTyped DEF SettleLost
<1>8. QED
  BY <1>2, <1>3, <1>4, <1>5, <1>6, <1>7 DEF Settle

(* Every step keeps the invariant.                                          *)
LEMMA TypeStep == TypeInv /\ [Next]_vars => TypeInv'
<1> SUFFICES ASSUME TypeInv, [Next]_vars PROVE TypeInv'
  OBVIOUS
<1>1. ASSUME NEW b \in Batch, Operator(b) \/ FinishAborts(b) PROVE TypeInv'
  BY <1>1, OperatorTyped
<1>2. ASSUME NEW c \in DOMAIN cmd, Verify(c) \/ Serve(c) \/ ProcessAck(c) \/ DeviceFinish(c)
      PROVE  TypeInv'
  <2>1. CASE Verify(c)
    BY <2>1, VerifyTyped
  <2>2. CASE Serve(c)
    BY <2>2, ServeTyped
  <2>3. CASE ProcessAck(c)
    <3>1. UNCHANGED <<job, phys, trouble>>
      BY <2>3, Zenon DEF ProcessAck
    <3>2. QED
      BY <2>3, <3>1, ProcessAckWrites, BooksStepTyped
  <2>4. CASE DeviceFinish(c)
    BY <2>4, DeviceFinishEffect, NothingWritten, KeepsTypes, TroubleTyped DEF JobsMove
  <2>5. QED
    BY <1>2, <2>1, <2>2, <2>3, <2>4
<1>3. ASSUME NEW st \in Station, Perform(st) \/ Device(st) \/ Settle(st) \/ Interrupt(st)
      PROVE  TypeInv'
  <2>1. CASE Interrupt(st)
    BY <2>1, NothingWritten, TaskEndTyped DEF Interrupt
  <2>2. QED
    BY <1>3, <2>1, PerformTyped, DeviceTyped, SettleTyped
<1>4. CASE UNCHANGED vars
  BY <1>4, NothingWritten, BooksStepTyped DEF vars
<1>5. QED
  BY <1>1, <1>2, <1>3, <1>4 DEF Next

(* It holds initially.                                                      *)
LEMMA TypeInit == Init => TypeInv
<1> SUFFICES ASSUME Init PROVE TypeInv
  OBVIOUS
<1>1. \A b \in Batch : MinStep(StepsOf(b)) \in StepsOf(b) /\ MinStep(StepsOf(b)) \in Step
  BY StepsOfOwn
<1>2. CurrentOwn /\ current \in [Batch -> Step]
  BY <1>1 DEF Init, CurrentOwn
<1>3. cmd = << >> /\ DOMAIN cmd = {}
  BY DEF Init
<1>4. Books(cmd)
  BY <1>3 DEF Books
<1>5. job \in [Station -> Job] /\ BusyWithOwn
  BY IdleTyped DEF Init, BusyWithOwn
<1>6. run \in [Step -> Seq(RunState)]
  BY DEF Init
<1>7. trouble \in 0..MaxTrouble
  BY PolicyAssumption DEF Init
<1>8. /\ batch \in [Batch -> BatchState] /\ phys \in [CmdId -> Phys]
      /\ ack \in [CmdId -> {"none", "pending", "processed", "rejected"}]
      /\ acur \in [Station -> CmdId \cup {NoCmd}]
  BY DEF Init, BatchState, Phys
<1>9. TypeOK
  BY <1>2, <1>4, <1>5, <1>6, <1>7, <1>8 DEF TypeOK, Books
<1>10. QED
  BY <1>2, <1>4, <1>5, <1>9 DEF TypeInv

(* The inductive invariant: see TypeInv.                                    *)
THEOREM TypeInvariant == Spec => []TypeInv
BY TypeInit, TypeStep, PTL DEF Spec

(* In every reachable state, of every instance, the books, the workers'     *)
(* memory and the devices are typed (TypeOK).                               *)
THEOREM TypeCorrect == Spec => []TypeOK
<1>1. TypeInv => TypeOK
  BY DEF TypeInv
<1>2. QED
  BY <1>1, TypeInvariant, PTL

-----------------------------------------------------------------------------
(* Why it holds.  What a device has taken up, what a worker is busy with    *)
(* and what is in flight has been given in the books; and until its call    *)
(* returns, no device has taken up what a worker submits.                   *)
PhysGiven   == \A c \in CmdId : phys[c] # "none" => c \in DOMAIN cmd /\ cmd[c].delivery \in Given
BusyGiven   == \A t \in Station : job[t].phase # "idle" => cmd[job[t].cmd].delivery \in Given
FlightGiven == \A c \in DOMAIN cmd : InFlight(cmd[c]) => cmd[c].delivery \in Given
Submitting(t) == job[t].phase = "claimed" \/ (job[t].phase = "calling" /\ job[t].kind = "submit")
NotYetTaken == \A t \in Station : Submitting(t) => phys[job[t].cmd] = "none"
HandInv     == PhysGiven /\ BusyGiven /\ FlightGiven /\ NotYetTaken

Barring  == {"not_sent", "unreachable"}
Fates    == [c \in CmdId |-> Fate(c)]
HandStep == [Promise!Next]_<<Fates, Taken>>

(* No device takes anything up, or forgets it. *)
PhysSame  == \A c \in CmdId : phys'[c] = "none" <=> phys[c] = "none"
(* No worker turns to anything new. *)
JobsCalm  == \A t \in Station : job'[t] = job[t] \/ job'[t].phase = "idle"
(* A command no worker goes on with and no device has taken up. *)
Abandoned(c) == phys[c] = "none" /\ \A t \in Station : job'[t].phase # "idle" => job'[t].cmd # c

-----------------------------------------------------------------------------
(* What the books say of a command, before and after                       *)

(* A command a step does not deliver has the fate it had.                   *)
LEMMA FateKept ==
  ASSUME TypeInv, NEW S, NEW D, Writes(S, D), NEW c \in CmdId \ S
  PROVE  Fate(c)' = Fate(c)
<1>1. /\ DOMAIN cmd \subseteq DOMAIN cmd'
      /\ c \in DOMAIN cmd => cmd'[c].type = cmd[c].type /\ cmd'[c].delivery = cmd[c].delivery
      /\ c \in DOMAIN cmd' \ DOMAIN cmd => cmd'[c].delivery = "queued"
  BY DEF Writes, Evolves
<1>2. QED
  BY <1>1 DEF Fate, Actions

(* The fate of the commands a step delivers.                                *)
LEMMA FateWritten ==
  ASSUME TypeInv, NEW S \in SUBSET DOMAIN cmd, NEW D, Writes(S, D), NEW c \in S
  PROVE  /\ c \notin Actions(cmd) => Fate(c)' = "open" /\ Fate(c) = "open"
         /\ c \in Actions(cmd) /\ D \in SUBSET Barring => Fate(c)' = "barred"
         /\ c \in Actions(cmd) /\ D \in SUBSET Given => Fate(c)' = "given"
<1>1. /\ c \in DOMAIN cmd /\ c \in DOMAIN cmd' /\ cmd'[c].type = cmd[c].type
      /\ cmd'[c].delivery \in D
  BY DEF Writes, Evolves
<1>2. QED
  BY <1>1 DEF Fate, Actions, Barring, Given

(* A step in which no device takes anything up.                             *)
LEMMA TakenKept ==
  ASSUME TypeInv, PhysGiven, NEW S, NEW D, Writes(S, D), PhysSame
  PROVE  Taken' = Taken
<1>1. /\ DOMAIN cmd \subseteq DOMAIN cmd' /\ DOMAIN cmd' \subseteq CmdId
      /\ \A c \in DOMAIN cmd : cmd'[c].type = cmd[c].type
  BY DEF Writes, Evolves, Books
<1>2. \A c \in CmdId \ DOMAIN cmd : phys'[c] = "none"
  BY DEF PhysGiven, PhysSame
<1>3. \A c : c \in Taken' <=> c \in Taken
  BY <1>1, <1>2 DEF Taken, Actions, PhysSame
<1>4. QED
  BY <1>3

(* Nothing is decided. *)
LEMMA NothingStep ==
  ASSUME TypeInv, PhysGiven, NEW D, Writes({}, D), PhysSame
  PROVE  HandStep
<1>1. Fates' = Fates
  BY FateKept DEF Fates
<1>2. QED
  BY <1>1, TakenKept DEF HandStep

(* Commands no device has taken up are barred together. *)
LEMMA BarStep ==
  ASSUME TypeInv, PhysGiven, NEW S \in SUBSET DOMAIN cmd, NEW D \in SUBSET Barring, Writes(S, D),
         PhysSame, \A c \in S : phys[c] = "none"
  PROVE  HandStep
<1> DEFINE A == S \cap Actions(cmd)
<1>1. A \in SUBSET CmdId
  BY DEF TypeInv, Books
<1>2. A \cap Taken = {}
  BY DEF Taken
<1>3. ASSUME NEW c \in CmdId
      PROVE  Fate(c)' = IF c \in A THEN "barred" ELSE Fate(c)
  BY FateKept, FateWritten
<1>4. Fates' = [c \in CmdId |-> IF c \in A THEN "barred" ELSE Fates[c]]
  BY <1>3 DEF Fates
<1>5. Taken' = Taken
  BY TakenKept
<1> HIDE DEF A
<1>6. Promise!Bar(A)
  BY <1>2, <1>4, <1>5 DEF Promise!Bar, Fates
<1>7. QED
  BY <1>1, <1>6 DEF HandStep, Promise!Next

(* One command is given, now or before. *)
LEMMA GiveStep ==
  ASSUME TypeInv, PhysGiven, NEW c \in DOMAIN cmd, NEW D \in SUBSET Given, Writes({c}, D),
         PhysSame, c \in Actions(cmd) => cmd[c].delivery \in Given \cup {"queued"}
  PROVE  HandStep
<1>1. c \in CmdId
  BY CmdOwn
<1>2. Taken' = Taken
  BY TakenKept
<1>3. \A d \in CmdId \ {c} : Fate(d)' = Fate(d)
  BY FateKept
<1>4. CASE Fate(c)' = Fate(c)
  <2>1. Fates' = Fates
    BY <1>3, <1>4 DEF Fates
  <2>2. QED
    BY <1>2, <2>1 DEF HandStep
<1>5. CASE Fate(c)' # Fate(c)
  <2>1. c \in Actions(cmd) /\ Fate(c)' = "given"
    BY <1>5, FateWritten
  <2>2. Fate(c) = "open"
    BY <1>5, <2>1 DEF Fate, Given
  <2>3. Fates[c] = "open" /\ Fates' = [Fates EXCEPT ![c] = "given"]
    BY <1>1, <1>3, <2>1, <2>2 DEF Fates
  <2>4. Promise!Give(c)
    BY <1>2, <2>3 DEF Promise!Give, Fates
  <2>5. QED
    BY <1>1, <2>4 DEF HandStep, Promise!Next
<1>6. QED
  BY <1>4, <1>5

-----------------------------------------------------------------------------
(* The invariant, over a step that writes the books                        *)

(* Commands are given, or barred once nobody goes on with them.             *)
LEMMA HandBooks ==
  ASSUME TypeInv, HandInv, NEW S \in SUBSET DOMAIN cmd, NEW D, Writes(S, D), PhysSame,
         \/ D \in SUBSET Given
         \/ D \in SUBSET Barring /\ \A c \in S : Abandoned(c)
  PROVE  /\ PhysGiven' /\ FlightGiven'
         /\ \A t \in Station :
              job'[t].phase # "idle" /\ job[t].phase # "idle" /\ job'[t].cmd = job[t].cmd
                => cmd'[job'[t].cmd].delivery \in Given
<1>1. /\ DOMAIN cmd \subseteq DOMAIN cmd'
      /\ \A c \in DOMAIN cmd \ S : /\ cmd'[c].delivery = cmd[c].delivery
                                   /\ InFlight(cmd'[c]) => InFlight(cmd[c])
      /\ \A c \in DOMAIN cmd' \ DOMAIN cmd : ~InFlight(cmd'[c])
      /\ \A c \in S : cmd'[c].delivery \in D /\ (InFlight(cmd'[c]) => D \cap Given # {})
  BY DEF Writes, Evolves
<1>2. PhysGiven'
  <2> SUFFICES ASSUME NEW c \in CmdId, phys'[c] # "none"
               PROVE  c \in DOMAIN cmd' /\ cmd'[c].delivery \in Given
    BY DEF PhysGiven
  <2>1. phys[c] # "none" /\ c \in DOMAIN cmd /\ cmd[c].delivery \in Given
    BY DEF PhysSame, HandInv, PhysGiven
  <2>2. c \in S => D \in SUBSET Given
    BY <2>1 DEF Abandoned
  <2>3. QED
    BY <1>1, <2>1, <2>2
<1>3. FlightGiven'
  <2> SUFFICES ASSUME NEW c \in DOMAIN cmd', InFlight(cmd'[c])
               PROVE  cmd'[c].delivery \in Given
    BY DEF FlightGiven, InFlight
  <2>1. c \in S => D \in SUBSET Given
    BY <1>1 DEF Barring, Given
  <2>2. QED
    BY <1>1, <2>1 DEF HandInv, FlightGiven
<1>4. ASSUME NEW t \in Station, job'[t].phase # "idle", job[t].phase # "idle", job'[t].cmd = job[t].cmd
      PROVE  cmd'[job'[t].cmd].delivery \in Given
  <2>1. job[t].cmd \in DOMAIN cmd /\ cmd[job[t].cmd].delivery \in Given
    BY <1>4, BusyOwn DEF HandInv, BusyGiven
  <2>2. job[t].cmd \in S => D \in SUBSET Given
    BY <1>4 DEF Abandoned
  <2>3. QED
    BY <1>1, <1>4, <2>1, <2>2
<1>5. QED
  BY <1>2, <1>3, <1>4

(* So a step that starts no call keeps the invariant.                       *)
LEMMA HandCalm ==
  ASSUME TypeInv, HandInv, NEW S \in SUBSET DOMAIN cmd, NEW D, Writes(S, D), PhysSame, JobsCalm,
         \/ D \in SUBSET Given
         \/ D \in SUBSET Barring /\ \A c \in S : Abandoned(c)
  PROVE  HandInv'
<1>1. /\ PhysGiven' /\ FlightGiven'
      /\ \A t \in Station :
           job'[t].phase # "idle" /\ job[t].phase # "idle" /\ job'[t].cmd = job[t].cmd
             => cmd'[job'[t].cmd].delivery \in Given
  BY HandBooks
<1>2. BusyGiven'
  BY <1>1 DEF BusyGiven, JobsCalm
<1>3. NotYetTaken'
  <2> SUFFICES ASSUME NEW t \in Station, Submitting(t)'
               PROVE  phys'[job'[t].cmd] = "none"
    BY DEF NotYetTaken
  <2>1. job'[t] = job[t]
    BY DEF JobsCalm, Submitting
  <2>2. Submitting(t) /\ job[t].phase # "idle"
    BY <2>1 DEF Submitting
  <2>3. phys[job[t].cmd] = "none" /\ job[t].cmd \in CmdId
    BY <2>2, BusyOwn DEF HandInv, NotYetTaken
  <2>4. QED
    BY <2>1, <2>3 DEF PhysSame
<1>4. QED
  BY <1>1, <1>2, <1>3 DEF HandInv

(* The three ways a step that starts no call keeps the promise.             *)
LEMMA CalmNothing ==
  ASSUME TypeInv, HandInv, Writes({}, {}), PhysSame, JobsCalm
  PROVE  HandInv' /\ HandStep
BY HandCalm, NothingStep DEF HandInv

(* It gives one command,                                                    *)
LEMMA CalmGive ==
  ASSUME TypeInv, HandInv, NEW c \in DOMAIN cmd, NEW D \in SUBSET Given, Writes({c}, D), PhysSame,
         JobsCalm, c \in Actions(cmd) => cmd[c].delivery \in Given \cup {"queued"}
  PROVE  HandInv' /\ HandStep
BY HandCalm, GiveStep DEF HandInv

(* or bars some that no device has taken up.                                *)
LEMMA CalmBar ==
  ASSUME TypeInv, HandInv, NEW S \in SUBSET DOMAIN cmd, NEW D \in SUBSET Barring, Writes(S, D),
         PhysSame, JobsCalm, \A c \in S : Abandoned(c)
  PROVE  HandInv' /\ HandStep
BY HandCalm, BarStep DEF HandInv, Abandoned

(* Steps of the books alone change no device and no worker.                 *)
LEMMA Still ==
  /\ UNCHANGED phys => PhysSame
  /\ UNCHANGED job => JobsCalm
BY DEF PhysSame, JobsCalm

(* What is in the queue has neither been taken up nor is worked on.         *)
LEMMA QueuedAbandoned ==
  ASSUME TypeInv, HandInv, UNCHANGED job, NEW c \in DOMAIN cmd, Queued(cmd[c])
  PROVE  Abandoned(c)
<1>1. cmd[c].delivery \notin Given /\ c \in CmdId
  BY CmdOwn DEF Queued, Given
<1>2. QED
  BY <1>1 DEF Abandoned, HandInv, PhysGiven, BusyGiven

(* The command of a task that ends is worked on by nobody else.             *)
LEMMA TaskEnds ==
  ASSUME TypeInv, NEW st \in Station, job[st].phase # "idle", job' = [job EXCEPT ![st] = Idle]
  PROVE  /\ JobsCalm
         /\ \A t \in Station : job'[t].phase # "idle" => job'[t].cmd # job[st].cmd
<1>1. /\ job'[st].phase = "idle" /\ \A t \in Station \ {st} : job'[t] = job[t]
  BY BackToIdle DEF JobMoves
<1>2. \A t \in Station \ {st} : job[t].phase # "idle" => job[t].cmd # job[st].cmd
  BY BusyOwn
<1>3. QED
  BY <1>1, <1>2 DEF JobsCalm
-----------------------------------------------------------------------------
(* Each action keeps the invariant and the promise                         *)

(* The operator's services: a hold or an abort bars the queue.              *)
LEMMA HandOperator ==
  ASSUME TypeInv, HandInv, NEW b \in Batch, Operator(b) \/ FinishAborts(b)
  PROVE  HandInv' /\ HandStep
<1>1. UNCHANGED <<job, phys>>
  <2>1. CASE Dispatch(b)
    BY <2>1, Zenon DEF Dispatch
  <2>2. CASE Hold(b)
    BY <2>2, Zenon DEF Hold
  <2>3. CASE Abort(b)
    BY <2>3, Zenon DEF Abort
  <2>4. CASE \E strategy \in {"resume", "retry"} : Recover(b, strategy)
    BY <2>4, ZenonT(60) DEF Recover
  <2>5. CASE FinishAborts(b)
    BY <2>5, Zenon DEF FinishAborts
  <2>6. QED
    BY <2>1, <2>2, <2>3, <2>4, <2>5 DEF Operator
<1>2. PhysSame /\ JobsCalm
  BY <1>1, Still
<1>3. Writes({}, {}) \/ Writes(InQueue(b), {"not_sent"})
  BY DispatchWrites, HoldWrites, AbortWrites, RecoverWrites, FinishAbortsWrites DEF Operator
<1>4. CASE Writes({}, {})
  BY <1>2, <1>4, CalmNothing
<1>5. CASE Writes(InQueue(b), {"not_sent"})
  <2>1. InQueue(b) \in SUBSET DOMAIN cmd /\ \A c \in InQueue(b) : Queued(cmd[c])
    BY DEF InQueue, BatchCmds
  <2>2. \A c \in InQueue(b) : Abandoned(c)
    BY <1>1, <2>1, QueuedAbandoned
  <2>3. {"not_sent"} \in SUBSET Barring
    BY DEF Barring
  <2>4. QED
    BY <1>2, <1>5, <2>1, <2>2, <2>3, CalmBar
<1>6. QED
  BY <1>3, <1>4, <1>5

(* A person's verdict: what was really executed had been given. *)
LEMMA HandVerify ==
  ASSUME TypeInv, HandInv, NEW c \in DOMAIN cmd, Verify(c)
  PROVE  HandInv' /\ HandStep
<1>1. c \in CmdId /\ phys \in [CmdId -> Phys]
  BY CmdOwn, PhysTyped
<1>2. CASE VerifyExecuted(c)
  <2> DEFINE about == ControlTargets(cmd, c)
             stop == [d \in CmdId |-> IF d \in about /\ phys[d] \in Physical THEN "stopped" ELSE phys[d]]
  <2>1. UNCHANGED job /\ (phys' = phys \/ phys' = stop)
    BY <1>2, Zenon DEF VerifyExecuted
  <2>2. PhysSame /\ JobsCalm
    BY <1>1, <2>1 DEF PhysSame, JobsCalm, Physical
  <2>3. cmd[c].type \in DISPATCHING => phys[c] = "done"
    BY <1>2, Zenon DEF VerifyExecuted, DISPATCHING
  <2>4. c \in Actions(cmd) => cmd[c].delivery \in Given
    BY <1>1, <2>3 DEF Actions, HandInv, PhysGiven
  <2>5. {"delivered"} \in SUBSET Given
    BY DEF Given
  <2>6. QED
    BY <1>2, <2>2, <2>4, <2>5, VerifyExecutedWrites, CalmGive
<1>3. CASE VerifyNotExecuted(c)
  <2>1. UNCHANGED <<job, phys>>
    BY <1>3, Zenon DEF VerifyNotExecuted
  <2>2. QED
    BY <1>3, <2>1, Still, VerifyNotExecutedWrites, CalmNothing
<1>4. CASE VerifyPartial(c)
  <2>1. UNCHANGED job /\ (phys' = phys \/ (phys[c] \in Physical /\ phys' = [phys EXCEPT ![c] = "stopped"]))
    BY <1>4, Zenon DEF VerifyPartial
  <2>2. PhysSame /\ JobsCalm
    BY <1>1, <2>1 DEF PhysSame, JobsCalm, Physical
  <2>3. QED
    BY <1>4, <2>2, VerifyPartialWrites, CalmNothing
<1>5. QED
  BY <1>2, <1>3, <1>4 DEF Verify

(* What is in flight, or has been claimed by an executor, is faulted as     *)
(* maybe sent.                                                              *)
LEMMA HandFault ==
  ASSUME TypeInv, HandInv, NEW c \in DOMAIN cmd, cmd[c].delivery \in Given,
         Fault(c, "maybe_sent", Fresh(c), cmd, run), UNCHANGED <<ack, acur, job, phys>>
  PROVE  HandInv' /\ HandStep
<1>1. "maybe_sent" \in Delivery /\ {"maybe_sent"} \in SUBSET Given
  BY DEF Delivery, Given
<1>2. Writes({c}, {"maybe_sent"})
  BY <1>1, ServeFaultWrites
<1>3. QED
  BY <1>1, <1>2, Still, CalmGive

(* A claim gives its command before the call.                               *)
LEMMA HandClaim ==
  ASSUME TypeInv, HandInv, NEW c \in DOMAIN cmd, Claim(c)
  PROVE  HandInv' /\ HandStep
<1> DEFINE st == StationOfCmd(c)
<1>1. c \in CmdId /\ st \in Station
  BY CmdOwn
<1>2. Writes({c}, {"maybe_sent"}) /\ {"maybe_sent"} \in SUBSET Given
  BY ClaimWrites DEF Given
<1>3. UNCHANGED phys /\ Queued(cmd[c])
  BY Zenon DEF Claim
<1>4. /\ PhysSame /\ cmd[c].delivery = "queued" /\ phys[c] = "none"
  BY <1>1, <1>3, Still DEF Queued, HandInv, PhysGiven, Given
<1>5. /\ job'[st].cmd = c /\ job'[st].phase = "claimed"
      /\ \A t \in Station \ {st} : job'[t] = job[t]
  BY ClaimMoves DEF JobMoves
<1>6. /\ PhysGiven' /\ FlightGiven'
      /\ \A t \in Station :
           job'[t].phase # "idle" /\ job[t].phase # "idle" /\ job'[t].cmd = job[t].cmd
             => cmd'[job'[t].cmd].delivery \in Given
  BY <1>2, <1>4, HandBooks
<1>7. cmd'[c].delivery \in Given
  BY <1>2 DEF Writes
<1>8. BusyGiven'
  BY <1>5, <1>6, <1>7 DEF BusyGiven
<1>9. NotYetTaken'
  <2> SUFFICES ASSUME NEW t \in Station, Submitting(t)'
               PROVE  phys'[job'[t].cmd] = "none"
    BY DEF NotYetTaken
  <2>1. CASE t = st
    BY <1>3, <1>4, <1>5, <2>1
  <2>2. CASE t # st
    BY <1>3, <1>5, <2>2 DEF Submitting, HandInv, NotYetTaken
  <2>3. QED
    BY <2>1, <2>2
<1>10. HandStep
  BY <1>2, <1>4, GiveStep DEF HandInv
<1>11. QED
  BY <1>6, <1>8, <1>9, <1>10 DEF HandInv

(* A call begins or returns: the books stay as they are, and so does what   *)
(* the devices have taken up.                                               *)
LEMMA HandCall ==
  ASSUME TypeInv, HandInv, UNCHANGED books, PhysSame, NEW st \in Station, JobMoves(st),
         job'[st].cmd \in DOMAIN cmd, cmd[job'[st].cmd].delivery \in Given,
         Submitting(st)' => Submitting(st) /\ job'[st].cmd = job[st].cmd
  PROVE  HandInv' /\ HandStep
<1>1. \A t \in Station \ {st} : job'[t] = job[t]
  BY DEF JobMoves
<1>2. cmd' = cmd /\ Writes({}, {})
  BY NothingWritten DEF books
<1>3. PhysGiven' /\ FlightGiven'
  BY <1>2, HandBooks
<1>4. BusyGiven'
  BY <1>1, <1>2 DEF HandInv, BusyGiven
<1>5. NotYetTaken'
  <2> SUFFICES ASSUME NEW t \in Station, Submitting(t)'
               PROVE  phys'[job'[t].cmd] = "none"
    BY DEF NotYetTaken
  <2>1. Submitting(t) /\ job'[t].cmd = job[t].cmd
    BY <1>1 DEF Submitting
  <2>2. phys[job[t].cmd] = "none" /\ job[t].cmd \in CmdId
    BY <2>1, BusyOwn DEF HandInv, NotYetTaken, Submitting
  <2>3. QED
    BY <2>1, <2>2 DEF PhysSame
<1>6. HandStep
  BY <1>2, NothingStep DEF HandInv
<1>7. QED
  BY <1>3, <1>4, <1>5, <1>6 DEF HandInv

(* A worker's passes over its station.                                      *)
LEMMA HandServe ==
  ASSUME TypeInv, HandInv, NEW c \in DOMAIN cmd, Serve(c)
  PROVE  HandInv' /\ HandStep
<1>1. CASE Withdraw(c)
  <2>1. Queued(cmd[c]) /\ UNCHANGED <<job, phys>>
    BY <1>1, Zenon DEF Withdraw
  <2>2. {"not_sent"} \in SUBSET Barring
    BY DEF Barring
  <2>3. Writes({c}, {"not_sent"}) /\ \A d \in {c} : Abandoned(d)
    BY <1>1, <2>1, WithdrawWrites, QueuedAbandoned
  <2>4. QED
    BY <2>1, <2>2, <2>3, Still, CalmBar
<1>2. CASE Refuse(c)
  <2>1. /\ Queued(cmd[c]) /\ UNCHANGED <<ack, acur, job, phys>>
        /\ Fault(c, "unreachable", Fresh(c), cmd, run)
    BY <1>2, Zenon DEF Refuse
  <2>2. "unreachable" \in Delivery /\ {"unreachable"} \in SUBSET Barring
    BY DEF Delivery, Barring
  <2>3. Writes({c}, {"unreachable"})
    BY <2>1, <2>2, ServeFaultWrites
  <2>4. QED
    BY <2>1, <2>2, <2>3, QueuedAbandoned, Still, CalmBar
<1>3. CASE Claim(c)
  BY <1>3, HandClaim
<1>4. CASE \E kind \in {"poll", "reconcile"} : Ask(c, kind)
  <2>1. PICK kind \in {"poll", "reconcile"} : Ask(c, kind)
    BY <1>4
  <2>2. UNCHANGED <<books, phys>> /\ InFlight(cmd[c])
    BY <2>1, Zenon DEF Ask
  <2>0. PICK st \in Station : st = StationOfCmd(c)
    BY CmdOwn
  <2>3. /\ JobMoves(st) /\ job'[st].cmd = c
        /\ job'[st].phase = "calling" /\ job'[st].kind # "submit"
    BY <2>0, <2>1, AskMoves
  <2>4. cmd[c].delivery \in Given
    BY <2>2 DEF HandInv, FlightGiven
  <2>5. ~Submitting(st)'
    BY <2>3 DEF Submitting
  <2>6. QED
    BY <2>2, <2>3, <2>4, <2>5, Still, HandCall
<1>5. CASE ReconcileBlind(c)
  <2>1. /\ cmd[c].delivery = "maybe_sent" /\ UNCHANGED <<ack, acur, job, phys>>
        /\ Fault(c, "maybe_sent", Fresh(c), cmd, run)
    BY <1>5, Zenon DEF ReconcileBlind, Unconfirmed
  <2>2. QED
    BY <2>1, HandFault DEF Given
<1>6. CASE ReconcileMismatch(c)
  <2>1. /\ InFlight(cmd[c]) /\ UNCHANGED <<ack, acur, job, phys>>
        /\ Fault(c, "maybe_sent", Fresh(c), cmd, run)
    BY <1>6, Zenon DEF ReconcileMismatch, Mismatched
  <2>2. QED
    BY <2>1, HandFault DEF HandInv, FlightGiven
<1>7. CASE Timeout(c)
  <2>1. /\ InFlight(cmd[c]) /\ UNCHANGED <<ack, acur, job, phys>>
        /\ Fault(c, "maybe_sent", Fresh(c), cmd, run)
    BY <1>7, Zenon DEF Timeout
  <2>2. QED
    BY <2>1, HandFault DEF HandInv, FlightGiven
<1>8. QED
  BY <1>1, <1>2, <1>3, <1>4, <1>5, <1>6, <1>7 DEF Serve

(* A claimed action that is not sent after all is barred before any call.   *)
LEMMA HandPerform ==
  ASSUME TypeInv, HandInv, NEW st \in Station, Perform(st)
  PROVE  HandInv' /\ HandStep
<1> DEFINE c == job[st].cmd
<1>1. job[st].phase = "claimed"
  <2>1. CASE Begin(st)
    BY <2>1, Zenon DEF Begin
  <2>2. CASE BeginRefused(st)
    BY <2>2, Zenon DEF BeginRefused
  <2>3. CASE BeginMoot(st)
    BY <2>3, Zenon DEF BeginMoot
  <2>4. CASE BeginUnsupported(st)
    BY <2>4, Zenon DEF BeginUnsupported
  <2>5. QED
    BY <2>1, <2>2, <2>3, <2>4 DEF Perform
<1>2. c \in DOMAIN cmd /\ cmd[c].delivery \in Given /\ phys[c] = "none"
  BY <1>1, BusyOwn DEF HandInv, BusyGiven, NotYetTaken, Submitting
<1>3. CASE Begin(st)
  <2>1. UNCHANGED <<books, phys>>
    BY <1>3, Zenon DEF Begin
  <2>2. /\ JobMoves(st) /\ job'[st].cmd = c
    BY <1>3, BeginMoves
  <2>3. Submitting(st)
    BY <1>1 DEF Submitting
  <2>4. QED
    BY <1>2, <2>1, <2>2, <2>3, Still, HandCall
<1>4. ASSUME UNCHANGED phys, job' = [job EXCEPT ![st] = Idle],
             NEW D, D \in SUBSET Barring, Writes({c}, D)
      PROVE  HandInv' /\ HandStep
  <2>1. JobsCalm /\ Abandoned(c)
    BY <1>1, <1>2, <1>4, TaskEnds DEF Abandoned
  <2>2. QED
    BY <1>2, <1>4, <2>1, Still, CalmBar
<1>5. CASE BeginRefused(st)
  <2>1. UNCHANGED phys /\ job' = [job EXCEPT ![st] = Idle]
    BY <1>5, Zenon DEF BeginRefused
  <2>2. {"unreachable"} \in SUBSET Barring
    BY DEF Barring
  <2>3. QED
    BY <1>4, <1>5, <2>1, <2>2, BeginRefusedWrites
<1>6. CASE BeginMoot(st)
  <2>1. UNCHANGED phys /\ job' = [job EXCEPT ![st] = Idle]
    BY <1>6, Zenon DEF BeginMoot
  <2>2. {"not_sent"} \in SUBSET Barring
    BY DEF Barring
  <2>3. QED
    BY <1>4, <1>6, <2>1, <2>2, BeginMootWrites
<1>7. CASE BeginUnsupported(st)
  <2>1. UNCHANGED phys /\ job' = [job EXCEPT ![st] = Idle]
    BY <1>7, Zenon DEF BeginUnsupported
  <2>2. {"delivered"} \in SUBSET Given
    BY DEF Given
  <2>3. QED
    BY <1>1, <1>2, <1>7, <2>1, <2>2, BeginUnsupportedWrites, TaskEnds, Still, CalmGive
<1>8. QED
  BY <1>3, <1>5, <1>6, <1>7 DEF Perform

(* The call of a submit is where a device takes an action up.               *)
LEMMA HandDeliverAction ==
  ASSUME TypeInv, HandInv, NEW st \in Station, DeliverAction(st)
  PROVE  HandInv' /\ HandStep
<1> DEFINE c == job[st].cmd
<1>1. /\ job[st].phase = "calling" /\ job[st].kind = "submit" /\ UNCHANGED books
      /\ cmd[c].type \in DISPATCHING /\ phys' \in [CmdId -> Phys]
      /\ \A d \in CmdId \ {c} : phys'[d] = "none" <=> phys[d] = "none"
      /\ \E reply \in Reply : Answered(st, reply, {"running", "done"})
  BY DeliverActionEffect
<1>2. /\ c \in DOMAIN cmd /\ c \in CmdId /\ cmd[c].delivery \in Given /\ phys[c] = "none"
      /\ cmd' = cmd /\ DOMAIN cmd \subseteq CmdId
  BY <1>1, BusyOwn, CmdOwn DEF HandInv, BusyGiven, NotYetTaken, Submitting, books
<1>3. /\ JobMoves(st) /\ job'[st].cmd = c /\ job'[st].phase = "answered"
  BY <1>1, AnsweredMoves
<1>4. CASE phys'[c] = "none"
  <2>1. PhysSame
    BY <1>1, <1>2, <1>4 DEF PhysSame
  <2>2. ~Submitting(st)'
    BY <1>3 DEF Submitting
  <2>3. QED
    BY <1>1, <1>2, <1>3, <2>1, <2>2, HandCall
<1>5. CASE phys'[c] # "none"
  <2>1. PhysGiven'
    BY <1>1, <1>2 DEF HandInv, PhysGiven
  <2>2. FlightGiven'
    BY <1>2 DEF HandInv, FlightGiven, InFlight
  <2>3. BusyGiven'
    BY <1>2, <1>3 DEF HandInv, BusyGiven, JobMoves
  <2>4. NotYetTaken'
    <3> SUFFICES ASSUME NEW t \in Station, Submitting(t)'
                 PROVE  phys'[job'[t].cmd] = "none"
      BY DEF NotYetTaken
    <3>1. t # st /\ job'[t] = job[t]
      BY <1>3 DEF Submitting, JobMoves
    <3>2. Submitting(t) /\ job[t].phase # "idle"
      BY <3>1 DEF Submitting
    <3>3. phys[job[t].cmd] = "none" /\ job[t].cmd \in CmdId /\ job[t].cmd # c
      BY <1>1, <3>1, <3>2, BusyOwn DEF HandInv, NotYetTaken
    <3>4. QED
      BY <1>1, <3>1, <3>3
  <2>5. Fates' = Fates
    BY <1>2 DEF Fates, Fate, Actions
  <2>6. Fates[c] = "given" /\ c \notin Taken /\ Taken' = Taken \cup {c}
    BY <1>1, <1>2, <1>5 DEF Fates, Fate, Actions, Taken, Given
  <2>7. Promise!Take(c)
    BY <2>5, <2>6 DEF Promise!Take, Fates
  <2>8. HandStep
    BY <1>2, <2>7 DEF HandStep, Promise!Next
  <2>9. QED
    BY <2>1, <2>2, <2>3, <2>4, <2>8 DEF HandInv
<1>6. QED
  BY <1>4, <1>5

(* A hold or abort is not among the commands the promise is about.          *)
LEMMA HandDeliverControl ==
  ASSUME TypeInv, HandInv, NEW st \in Station, DeliverControl(st)
  PROVE  HandInv' /\ HandStep
<1> DEFINE c == job[st].cmd
<1>1. /\ job[st].phase = "calling" /\ job[st].kind = "submit" /\ UNCHANGED books
      /\ cmd[c].type \in Control /\ phys' \in [CmdId -> Phys]
      /\ \A d \in CmdId \ {c} : phys'[d] = "none" <=> phys[d] = "none"
      /\ \E reply \in Reply : Answered(st, reply, {"running", "done"})
  BY DeliverControlEffect
<1>2. /\ c \in DOMAIN cmd /\ c \in CmdId /\ cmd[c].delivery \in Given
      /\ cmd' = cmd /\ DOMAIN cmd \subseteq CmdId
  BY <1>1, BusyOwn, CmdOwn DEF HandInv, BusyGiven, books
<1>3. /\ JobMoves(st) /\ job'[st].cmd = c /\ job'[st].phase = "answered"
  BY <1>1, AnsweredMoves
<1>4. PhysGiven'
  BY <1>1, <1>2 DEF HandInv, PhysGiven
<1>5. FlightGiven'
  BY <1>2 DEF HandInv, FlightGiven, InFlight
<1>6. BusyGiven'
  BY <1>2, <1>3 DEF HandInv, BusyGiven, JobMoves
<1>7. NotYetTaken'
  <2> SUFFICES ASSUME NEW t \in Station, Submitting(t)'
               PROVE  phys'[job'[t].cmd] = "none"
    BY DEF NotYetTaken
  <2>1. t # st /\ job'[t] = job[t]
    BY <1>3 DEF Submitting, JobMoves
  <2>2. Submitting(t) /\ job[t].phase # "idle"
    BY <2>1 DEF Submitting
  <2>3. phys[job[t].cmd] = "none" /\ job[t].cmd \in CmdId /\ job[t].cmd # c
    BY <1>1, <2>1, <2>2, BusyOwn DEF HandInv, NotYetTaken
  <2>4. QED
    BY <1>1, <2>1, <2>3
<1>8. c \notin Actions(cmd) /\ Fates' = Fates
  BY <1>1, <1>2 DEF Fates, Fate, Actions, DISPATCHING, Control
<1>9. Taken' = Taken
  BY <1>1, <1>2, <1>8 DEF Taken, Actions
<1>10. HandStep
  BY <1>8, <1>9 DEF HandStep
<1>11. QED
  BY <1>4, <1>5, <1>6, <1>7, <1>10 DEF HandInv

(* The devices take up what was given, once.                                *)
LEMMA HandDevice ==
  ASSUME TypeInv, HandInv, NEW st \in Station, Device(st)
  PROVE  HandInv' /\ HandStep
<1>1. CASE DeliverAction(st)
  BY <1>1, HandDeliverAction
<1>2. CASE DeliverControl(st)
  BY <1>2, HandDeliverControl
<1>3. CASE Answer(st)
  <2>1. /\ job[st].phase = "calling" /\ UNCHANGED <<books, phys>>
        /\ \E reply \in Reply : \E expected : Answered(st, reply, expected)
    BY <1>3, AnswerEffect
  <2>2. JobMoves(st) /\ job'[st].cmd = job[st].cmd /\ job'[st].phase = "answered"
    BY <2>1, AnsweredMoves
  <2>3. job[st].cmd \in DOMAIN cmd /\ cmd[job[st].cmd].delivery \in Given
    BY <2>1, BusyOwn DEF HandInv, BusyGiven
  <2>4. ~Submitting(st)'
    BY <2>2 DEF Submitting
  <2>5. QED
    BY <2>1, <2>2, <2>3, <2>4, Still, HandCall
<1>4. QED
  BY <1>1, <1>2, <1>3 DEF Device

(* An answer concerns a command that was given.                             *)
LEMMA HandSettle ==
  ASSUME TypeInv, HandInv, NEW st \in Station, Settle(st)
  PROVE  HandInv' /\ HandStep
<1>1. ASSUME NEW replies, Settles(st, replies)
      PROVE  job[st].phase = "answered" /\ job' = [job EXCEPT ![st] = Idle] /\ UNCHANGED phys
  BY <1>1, Zenon DEF Settles
<1>2. job[st].phase = "answered" /\ job' = [job EXCEPT ![st] = Idle] /\ UNCHANGED phys
  <2>1. CASE SettleRunning(st)
    BY <1>1, <2>1, Zenon DEF SettleRunning
  <2>2. CASE SettleActionDone(st)
    BY <1>1, <2>2, Zenon DEF SettleActionDone
  <2>3. CASE SettleHoldDone(st)
    BY <1>1, <2>3, Zenon DEF SettleHoldDone
  <2>4. CASE SettleAbortDone(st)
    BY <1>1, <2>4, Zenon DEF SettleAbortDone
  <2>5. CASE SettleFailed(st)
    BY <1>1, <2>5, Zenon DEF SettleFailed
  <2>6. CASE SettleLost(st)
    BY <1>1, <2>6, Zenon DEF SettleLost
  <2>7. QED
    BY <2>1, <2>2, <2>3, <2>4, <2>5, <2>6 DEF Settle
<1>3. /\ Mine(st) \in DOMAIN cmd /\ cmd[Mine(st)].delivery \in Given
  BY <1>2, BusyOwn DEF HandInv, BusyGiven, Mine
<1>4. SettledAs(st) \in SUBSET Given /\ {"delivered"} \in SUBSET Given /\ {"maybe_sent"} \in SUBSET Given
  BY <1>3 DEF SettledAs, Given
<1>5. Writes({}, {}) \/ \E D \in SUBSET Given : Writes({Mine(st)}, D)
  BY <1>4, SettleRunningWrites, SettleActionDoneWrites, SettleHoldDoneWrites,
     SettleAbortDoneWrites, SettleFailedWrites, SettleLostWrites DEF Settle
<1>6. JobsCalm /\ PhysSame
  BY <1>2, TaskEnds, Still
<1>7. QED
  BY <1>3, <1>5, <1>6, CalmNothing, CalmGive

(* Every step keeps the invariant and the promise.                          *)
LEMMA HandNext ==
  TypeInv /\ HandInv /\ [Next]_vars => HandInv' /\ HandStep
<1> SUFFICES ASSUME TypeInv, HandInv, [Next]_vars PROVE HandInv' /\ HandStep
  OBVIOUS
<1>1. ASSUME NEW b \in Batch, Operator(b) \/ FinishAborts(b) PROVE HandInv' /\ HandStep
  BY <1>1, HandOperator
<1>2. ASSUME NEW c \in DOMAIN cmd, Verify(c) \/ Serve(c) \/ ProcessAck(c) \/ DeviceFinish(c)
      PROVE  HandInv' /\ HandStep
  <2>1. CASE ProcessAck(c)
    <3>1. UNCHANGED <<job, phys>>
      BY <2>1, Zenon DEF ProcessAck
    <3>2. QED
      BY <2>1, <3>1, ProcessAckWrites, Still, CalmNothing
  <2>2. CASE DeviceFinish(c)
    <3>1. UNCHANGED <<books, job>> /\ PhysSame
      BY <2>2, DeviceFinishEffect DEF PhysSame
    <3>2. QED
      BY <3>1, NothingWritten, Still, CalmNothing
  <2>3. QED
    BY <1>2, <2>1, <2>2, HandVerify, HandServe
<1>3. ASSUME NEW st \in Station, Perform(st) \/ Device(st) \/ Settle(st) \/ Interrupt(st)
      PROVE  HandInv' /\ HandStep
  <2>1. CASE Interrupt(st)
    <3>1. UNCHANGED <<books, phys>> /\ job' = [job EXCEPT ![st] = Idle]
      BY <2>1, Zenon DEF Interrupt
    <3>2. JobsCalm
      BY <3>1, BackToIdle DEF JobMoves, JobsCalm
    <3>3. QED
      BY <3>1, <3>2, NothingWritten, Still, CalmNothing
  <2>2. QED
    BY <1>3, <2>1, HandPerform, HandDevice, HandSettle
<1>4. CASE UNCHANGED vars
  BY <1>4, NothingWritten, Still, CalmNothing DEF vars
<1>5. QED
  BY <1>1, <1>2, <1>3, <1>4 DEF Next

(* Initially nothing has been issued or taken up.                           *)
LEMMA HandInit == Init => HandInv /\ Promise!Init
<1> SUFFICES ASSUME Init PROVE HandInv /\ Promise!Init
  OBVIOUS
<1>1. /\ phys = [c \in CmdId |-> "none"] /\ DOMAIN cmd = {}
      /\ \A st \in Station : job[st].phase = "idle" /\ job[st].kind = "submit"
  BY IdleTyped DEF Init
<1>2. HandInv
  BY <1>1 DEF HandInv, PhysGiven, BusyGiven, FlightGiven, NotYetTaken, Submitting
<1>3. Promise!Init
  BY <1>1 DEF Promise!Init, Fate, Taken, Actions
<1>4. QED
  BY <1>2, <1>3

(* In every reachable state what a device has taken up is given in the      *)
(* books, and a submit under way has not been taken up yet (HandInv).       *)
THEOREM HandInvariant == Spec => []HandInv
<1>1. Init => HandInv
  BY HandInit
<1>2. TypeInv /\ HandInv /\ [Next]_vars => HandInv'
  BY HandNext
<1>3. QED
  BY <1>1, <1>2, TypeInvariant, PTL DEF Spec

(* The executor, the operator's services, crashes, lost answers and on-site *)
(* verdicts keep the promise of the command queue: each action command is   *)
(* taken up by a device at most once, only after the books say that it may  *)
(* have been sent, and never once they say that it was not (Handover).      *)
THEOREM ImplementsHandover == Spec => KeepsPromise
<1>1. Init => Promise!Init
  BY HandInit
<1>2. TypeInv /\ HandInv /\ [Next]_vars => [Promise!Next]_<<[c \in CmdId |-> Fate(c)], Taken>>
  BY HandNext DEF HandStep, Fates
<1>3. QED
  BY <1>1, <1>2, TypeInvariant, HandInvariant, PTL DEF Spec, KeepsPromise, Promise!Spec

-----------------------------------------------------------------------------
(***************************************************************************)
(* What the books say of the devices is true, whatever crashes, is lost or *)
(* is settled from a stale reading: a held action stands still, and, where *)
(* every station has one channel, no moving device is out of sight, an     *)
(* aborted batch has stopped, no step is driven twice and no channel is    *)
(* shared.                                                                 *)
(*                                                                         *)
(* First, what the actions of Execution make of the command table.  Of one *)
(* row of it: every step that changes the books takes each row one of nine *)
(* ways (Row), adds rows of a known shape (NewRow) and moves the batches as *)
(* BatchMoves says.  Then, every action but the claim of a command is a    *)
(* step of the books (BookStep) or a call (CallStep): one lemma per action, *)
(* from the facts that hold between steps (Basis).  What follows concludes *)
(* from these alone (NextMoves), and from what the steps make of the       *)
(* attempts (RunNext).                                                     *)
(***************************************************************************)


Tgt(x)     == cmd[x].target
InHands(x) == \E t \in Station : job[t].phase # "idle" /\ job[t].cmd = x
Called(t)  == job[t].phase \in {"calling", "answered"}

(* The command is on its way: the books or the worker that is calling take  *)
(* it for accepted and not yet running.                                     *)
Unsettled(x) ==
  \/ cmd[x].state = "accepted"
  \/ \E t \in Station : Called(t) /\ job[t].cmd = x /\ job[t].snap.cmd = "accepted"

(* A worker in the middle of a call read that the action it is about moves. *)
Watched(x) ==
  \E t \in Station : /\ Called(t) /\ cmd[job[t].cmd].target = x
                     /\ job[t].snap.target \in {"accepted", "running"}
Up(x) == StillOccupying(cmd[x]) \/ InHands(x) \/ Watched(x)

AtRest == {"held", "continued", "stopped"}

(* A hold sent to a station without naming an action, not yet answered.     *)
Adrift(h) == cmd[h].type = "hold" /\ Tgt(h) = NoCmd /\ cmd[h].state \in {"sent", "accepted", "running"}

-----------------------------------------------------------------------------
(* What holds of the books and the workers between any two steps           *)

(* A target is an action of the same step that has left the queue.          *)
TargetsFit ==
  \A x \in DOMAIN cmd :
    /\ Tgt(x) # NoCmd => /\ Tgt(x) \in Actions(cmd) /\ Tgt(x) # x
                         /\ cmd[Tgt(x)].step = cmd[x].step /\ cmd[Tgt(x)].state # "sent"
    /\ cmd[x].type = "abort" => Tgt(x) # NoCmd

(* State and delivery go together, and only actions are held.               *)
StatesFit ==
  \A x \in DOMAIN cmd :
    /\ cmd[x].state = "sent" => cmd[x].delivery = "queued"
    /\ cmd[x].state = "accepted" => cmd[x].delivery = "maybe_sent"
    /\ cmd[x].state = "running" => cmd[x].delivery = "delivered"
    /\ cmd[x].state \in {"held", "superseded"} => x \in Actions(cmd)

(* At a station one command at most is claimed or in a worker's hands.      *)
Alone(x) == cmd[x].state = "accepted" \/ InHands(x)
OneAtATime ==
  \A x, y \in DOMAIN cmd : x # y /\ StationOfCmd(x) = StationOfCmd(y) => ~(Alone(x) /\ Alone(y))

SubmitsAccepted == \A t \in Station : Submitting(t) => cmd[job[t].cmd].state = "accepted"

(* What a worker read before its call, against what the books say now.      *)
CallsRemember ==
  \A t \in Station : Called(t) =>
    /\ job[t].snap.cmd = IF job[t].kind = "poll" THEN "running" ELSE "accepted"
    /\ cmd[job[t].cmd].state # "sent"
    /\ job[t].snap.cmd = "accepted" => cmd[job[t].cmd].state \in {"accepted", "held", "superseded"}
    /\ job[t].snap.cmd = "running" => cmd[job[t].cmd].state # "accepted"

(* A command that names a target is not sent before the target is settled.  *)
TargetsFirst ==
  \A d \in DOMAIN cmd : Tgt(d) # NoCmd /\ Unsettled(Tgt(d)) =>
    cmd[d].delivery \in {"queued", "not_sent"} /\ cmd[d].state # "unknown"

(* Nobody else decides on a hold or an abort while a worker is busy with it. *)
ControlsStand ==
  \A t \in Station :
    job[t].phase # "idle" /\ cmd[job[t].cmd].type \in Control => InFlight(cmd[job[t].cmd])

NotYetDispatched == \A b \in Batch : batch[b] = "scheduled" => BatchCmds(cmd, b) = {}

(* An answer that has not been settled yet still describes the device.      *)
AnswersTrue ==
  \A t \in Station : job[t].phase = "answered" =>
    /\ job[t].reply \in {"running", "done"} => phys[job[t].cmd] # "none"
    /\ job[t].reply = "done" => phys[job[t].cmd] = "done"
    /\ job[t].reply = "failed" => phys[job[t].cmd] \in {"none", "stopped"}

(* The action a resume or retry names stands still, and the device lets go  *)
(* of it when it takes up the new command.                                  *)
ResumedAtRest == \A c \in Actions(cmd) : Tgt(c) # NoCmd => phys[Tgt(c)] \in AtRest
ResumedLetGo  ==
  \A c \in Actions(cmd) : Tgt(c) # NoCmd /\ phys[c] # "none" => phys[Tgt(c)] \notin Physical

(* A device that has done an abort or a hold has stopped its target.        *)
AbortsStop ==
  \A c \in DOMAIN cmd : cmd[c].type = "abort" /\ phys[c] = "done" => phys[Tgt(c)] \notin Physical
HoldsStop  ==
  \A c \in DOMAIN cmd :
    cmd[c].type = "hold" /\ Tgt(c) # NoCmd /\ phys[c] = "done" => phys[Tgt(c)] \in AtRest

(* What the books call held or taken over does not move.                    *)
HeldAtRest == \A c \in Actions(cmd) : cmd[c].state \in {"held", "superseded"} => phys[c] \in AtRest

(* While a hold is adrift, nothing of its batch starts or moves.            *)
HoldsWait ==
  \A h \in DOMAIN cmd : Adrift(h) =>
    /\ batch[BatchOfCmd(h)] # "running"
    /\ \A c \in Actions(cmd) \cap BatchCmds(cmd, BatchOfCmd(h)) :
         ~Queued(cmd[c]) /\ (InFlight(cmd[c]) => phys[c] \in AtRest)

BookInv == /\ TargetsFit /\ StatesFit /\ OneAtATime /\ SubmitsAccepted /\ CallsRemember
           /\ TargetsFirst /\ ControlsStand /\ NotYetDispatched
DeviceInv == /\ AnswersTrue /\ ResumedAtRest /\ ResumedLetGo /\ AbortsStop /\ HoldsStop
             /\ HeldAtRest /\ HoldsWait
Basis == TypeInv /\ HandInv /\ BookInv /\ DeviceInv

-----------------------------------------------------------------------------
(* The ways a step takes a row                                             *)

Free(x)   == Tgt(x) # NoCmd => ~Unsettled(Tgt(x))
Leaves(x) == \A t \in Station : job'[t].phase # "idle" => job'[t].cmd # x
Only(r, q, v) == q.state = v /\ q.delivery = r.delivery /\ q.outcome = r.outcome

RowKept(x) == Only(cmd[x], cmd'[x], cmd[x].state)
RowWithdrawn(x) == Queued(cmd[x]) /\ cmd'[x].state = "cancelled" /\ cmd'[x].delivery = "not_sent"
RowFaulted(x) ==
  /\ cmd'[x].state = "unknown" /\ Leaves(x) /\ Free(x)
  /\ phys[x] \in Physical \cup {"done"} => OutcomeUnknown(cmd'[x])
  /\ OutcomeUnknown(cmd'[x]) => Up(x)
RowVoided(x) ==
  /\ cmd'[x].state \in {"not_executed", "partial"}
  /\ cmd[x].state = "unknown" \/ Leaves(x)
  /\ Free(x) /\ (x \in Actions(cmd) => phys'[x] \notin Physical)
RowRuns(x) ==
  /\ cmd'[x].state = "running" /\ cmd'[x].delivery = "delivered"
  /\ InHands(x) /\ Leaves(x) /\ cmd[x].state \in {"accepted", "held", "superseded"}
RowDone(x) ==
  /\ cmd'[x].state = "done" /\ Free(x)
  /\ cmd[x].state = "unknown" \/ Leaves(x)
  /\ x \in Actions(cmd) => phys[x] = "done"
Displaces(y, x) ==
  /\ y \in Actions(cmd) /\ y # x /\ cmd[y].step = cmd[x].step
  /\ \/ Tgt(y) = x /\ phys[y] # "none"
     \/ cmd[x].state = "held" /\ phys[y] = "done" /\ (InHands(y) \/ cmd[y].state = "unknown")
RowTakenOver(x) ==
  /\ x \in Actions(cmd) /\ Only(cmd[x], cmd'[x], "superseded")
  /\ phys[x] \in AtRest /\ \E y \in DOMAIN cmd : Displaces(y, x)
RowHeld(x) ==
  /\ x \in Actions(cmd) /\ Only(cmd[x], cmd'[x], "held")
  /\ phys[x] \in AtRest /\ Up(x)
RowCancelled(x) ==
  /\ Only(cmd[x], cmd'[x], "cancelled")
  /\ Leaves(x) \/ ~Unsettled(x)
  /\ x \notin Actions(cmd) => cmd[x].state = "unknown"
  /\ x \in Actions(cmd) => \/ phys'[x] \notin Physical
                           \/ cmd[x].state = "unknown" /\ ~OutcomeUnknown(cmd[x])

Row(x) == \/ RowKept(x) \/ RowWithdrawn(x) \/ RowFaulted(x) \/ RowVoided(x) \/ RowRuns(x)
          \/ RowDone(x) \/ RowTakenOver(x) \/ RowHeld(x) \/ RowCancelled(x)

(* A row the step adds.                                                     *)
NewRow(n) ==
  LET q == cmd'[n]  b == BatchOf[cmd'[n].step] IN
  /\ q.state = "sent"
  /\ q.target # NoCmd => /\ q.target \in Actions(cmd) /\ cmd[q.target].step = q.step
                         /\ cmd'[q.target].state # "sent"
                         /\ q.type \in DISPATCHING => phys[q.target] \in AtRest
  /\ q.type = "abort" => q.target # NoCmd
  /\ batch'[b] # "scheduled"
  /\ q.type \in DISPATCHING => \A h \in DOMAIN cmd : Adrift(h) => BatchOfCmd(h) # b
  /\ q.type = "hold" /\ q.target = NoCmd =>
       /\ batch'[b] # "running"
       /\ \A c \in DOMAIN cmd' : cmd'[c].type \in DISPATCHING /\ BatchOf[cmd'[c].step] = b =>
            ~Queued(cmd'[c]) /\ ~InFlight(cmd'[c])

BatchMoves ==
  \A b \in Batch :
    /\ batch'[b] = "scheduled" => batch[b] = "scheduled"
    /\ batch'[b] = "running" /\ batch[b] # "running" =>
         \A h \in DOMAIN cmd : Adrift(h) => BatchOfCmd(h) # b
    /\ batch'[b] = "aborted" /\ batch[b] # "aborted" =>
         \A c \in Actions(cmd) \cap BatchCmds(cmd, b) : ~StillOccupying(cmd'[c])

(* In a step of the books a device changes only where a person stops it.    *)
PhysCalm == \A d \in CmdId : phys'[d] = phys[d] \/ (phys[d] \in Physical /\ phys'[d] = "stopped")

BookStep ==
  /\ \E S : Evolves(cmd, cmd', S)
  /\ \A x \in DOMAIN cmd : Row(x)
  /\ \A n \in DOMAIN cmd' \ DOMAIN cmd : NewRow(n)
  /\ BatchMoves /\ JobsCalm /\ PhysCalm

-----------------------------------------------------------------------------
(* The calls: the books stay, devices and workers move                     *)

(* What a device may make of one command while it is called or finishes.    *)
PhysMove(d) ==
  \/ phys'[d] = phys[d]
  \/ phys[d] \in Physical /\ phys'[d] \in AtRest
  \/ phys[d] = "acting" /\ phys'[d] = "done"
  \/ phys[d] = "none" /\ \E st \in Station : Submitting(st) /\ job[st].cmd = d

(* With a new command the device lets go of the action it names, and what   *)
(* is done of a hold or abort is done to the action it names.               *)
Obeys(c) ==
  Tgt(c) # NoCmd =>
    /\ c \in Actions(cmd) /\ phys[c] = "none" /\ phys'[c] # "none" => phys'[Tgt(c)] \notin Physical
    /\ cmd[c].type = "abort" /\ phys[c] # "done" /\ phys'[c] = "done" => phys'[Tgt(c)] \notin Physical
    /\ cmd[c].type = "hold" /\ phys[c] # "done" /\ phys'[c] = "done" => phys'[Tgt(c)] \in AtRest

(* A worker begins to call, asks, or is answered.                           *)
ReadsFresh(t) == LET c == job'[t].cmd IN
  /\ job'[t].phase = "calling" /\ c \in DOMAIN cmd
  /\ job'[t].snap.cmd = cmd[c].state
  /\ Tgt(c) # NoCmd => job'[t].snap.target = cmd[Tgt(c)].state
  /\ Tgt(c) = NoCmd => job'[t].snap.target = "sent"
Begins(t) ==
  /\ job[t].phase = "claimed" /\ job'[t].cmd = job[t].cmd /\ job'[t].kind = "submit"
  /\ ReadsFresh(t)
Asks(t) == LET c == job'[t].cmd IN
  /\ job[t].phase = "idle" /\ ReadsFresh(t) /\ StationOfCmd(c) = t
  /\ \/ job'[t].kind = "poll" /\ cmd[c].state = "running"
     \/ job'[t].kind = "reconcile" /\ cmd[c].state = "accepted"
  /\ \A y \in DOMAIN cmd : y # c /\ StationOfCmd(y) = t => ~Alone(y)
IsAnswered(t) ==
  /\ job[t].phase = "calling" /\ job'[t].phase = "answered"
  /\ job'[t].cmd = job[t].cmd /\ job'[t].kind = job[t].kind /\ job'[t].snap = job[t].snap
  /\ job'[t].reply \in {"running", "done"} => phys'[job[t].cmd] # "none"
  /\ job'[t].reply = "done" => phys'[job[t].cmd] = "done"
  /\ job'[t].reply = "failed" => phys'[job[t].cmd] \in {"none", "stopped"}

CallStep ==
  /\ UNCHANGED books
  /\ \A d \in CmdId : PhysMove(d)
  /\ \A c \in DOMAIN cmd : Obeys(c)
  /\ \A t \in Station : job'[t] = job[t] \/ Begins(t) \/ Asks(t) \/ IsAnswered(t)

-----------------------------------------------------------------------------
(* Partial effects, row by row                                             *)

(* Another state, or another delivery, of one row of a table.               *)
LEMMA StateSetRows ==
  ASSUME NEW cs, Books(cs), NEW c \in DOMAIN cs, NEW v \in CommandState
  PROVE  LET ds == [cs EXCEPT ![c].state = v]
         IN /\ Books(ds) /\ DOMAIN ds = DOMAIN cs /\ Only(cs[c], ds[c], v)
            /\ ds[c].type = cs[c].type /\ ds[c].step = cs[c].step /\ ds[c].target = cs[c].target
            /\ ds[c].attempt = cs[c].attempt
            /\ \A d \in DOMAIN cs \ {c} : ds[d] = cs[d]
<1> DEFINE q == WithState(cs[c], v)
           ds == Put(cs, c, q)
<1>1. cs[c] \in Command
  BY DEF Books
<1>2. /\ q \in Command /\ Only(cs[c], q, v) /\ q.type = cs[c].type /\ q.step = cs[c].step
      /\ q.attempt = cs[c].attempt /\ q.target = cs[c].target
  BY <1>1, RowState DEF Only
<1>3. [cs EXCEPT ![c].state = v] = ds
  BY Zenon DEF WithState, Put
<1> HIDE DEF q
<1>4. Evolves(cs, ds, {c}) /\ DOMAIN ds = DOMAIN cs /\ ds[c] = q /\ \A d \in DOMAIN cs \ {c} : ds[d] = cs[d]
  BY <1>1, <1>2, OneRewritten DEF Only
<1>5. Books(ds)
  BY <1>4 DEF Evolves
<1> HIDE DEF ds
<1>6. /\ Books(ds) /\ DOMAIN ds = DOMAIN cs /\ Only(cs[c], ds[c], v)
      /\ ds[c].type = cs[c].type /\ ds[c].step = cs[c].step /\ ds[c].target = cs[c].target
      /\ ds[c].attempt = cs[c].attempt
      /\ \A d \in DOMAIN cs \ {c} : ds[d] = cs[d]
  BY <1>2, <1>4, <1>5
<1>7. QED
  BY <1>3, <1>6, Zenon

(* The same for the delivery.                                               *)
LEMMA DeliverySetRows ==
  ASSUME NEW cs, Books(cs), NEW c \in DOMAIN cs, NEW v \in Delivery
  PROVE  LET ds == [cs EXCEPT ![c].delivery = v]
         IN /\ Books(ds) /\ DOMAIN ds = DOMAIN cs
            /\ ds[c].state = cs[c].state /\ ds[c].delivery = v /\ ds[c].outcome = cs[c].outcome
            /\ ds[c].type = cs[c].type /\ ds[c].step = cs[c].step /\ ds[c].target = cs[c].target
            /\ ds[c].attempt = cs[c].attempt
            /\ \A d \in DOMAIN cs \ {c} : ds[d] = cs[d]
<1> DEFINE q == WithDelivery(cs[c], v)
           ds == Put(cs, c, q)
<1>1. cs[c] \in Command
  BY DEF Books
<1>2. /\ q \in Command /\ q.state = cs[c].state /\ q.delivery = v /\ q.outcome = cs[c].outcome
      /\ q.type = cs[c].type /\ q.step = cs[c].step
      /\ q.attempt = cs[c].attempt /\ q.target = cs[c].target
  BY <1>1, RowDelivery
<1>3. [cs EXCEPT ![c].delivery = v] = ds
  BY Zenon DEF WithDelivery, Put
<1> HIDE DEF q
<1>4. Evolves(cs, ds, {c}) /\ DOMAIN ds = DOMAIN cs /\ ds[c] = q /\ \A d \in DOMAIN cs \ {c} : ds[d] = cs[d]
  BY <1>1, <1>2, OneRewritten
<1>5. Books(ds)
  BY <1>4 DEF Evolves
<1> HIDE DEF ds
<1>6. /\ Books(ds) /\ DOMAIN ds = DOMAIN cs
      /\ ds[c].state = cs[c].state /\ ds[c].delivery = v /\ ds[c].outcome = cs[c].outcome
      /\ ds[c].type = cs[c].type /\ ds[c].step = cs[c].step /\ ds[c].target = cs[c].target
      /\ ds[c].attempt = cs[c].attempt
      /\ \A d \in DOMAIN cs \ {c} : ds[d] = cs[d]
  BY <1>2, <1>4, <1>5
<1>7. QED
  BY <1>3, <1>6, Zenon

(* The same for the outcome.                                                *)
LEMMA OutcomeSetRows ==
  ASSUME NEW cs, Books(cs), NEW c \in DOMAIN cs, NEW v \in Outcome
  PROVE  LET ds == [cs EXCEPT ![c].outcome = v]
         IN /\ Books(ds) /\ DOMAIN ds = DOMAIN cs
            /\ ds[c].state = cs[c].state /\ ds[c].delivery = cs[c].delivery /\ ds[c].outcome = v
            /\ ds[c].type = cs[c].type /\ ds[c].step = cs[c].step /\ ds[c].target = cs[c].target
            /\ ds[c].attempt = cs[c].attempt
            /\ \A d \in DOMAIN cs \ {c} : ds[d] = cs[d]
<1> DEFINE q == WithOutcome(cs[c], v)
           ds == Put(cs, c, q)
<1>1. cs[c] \in Command
  BY DEF Books
<1>2. /\ q \in Command /\ q.state = cs[c].state /\ q.delivery = cs[c].delivery /\ q.outcome = v
      /\ q.type = cs[c].type /\ q.step = cs[c].step
      /\ q.attempt = cs[c].attempt /\ q.target = cs[c].target
  BY <1>1, RowOutcome
<1>3. [cs EXCEPT ![c].outcome = v] = ds
  BY Zenon DEF WithOutcome, Put
<1> HIDE DEF q
<1>4. Evolves(cs, ds, {c}) /\ DOMAIN ds = DOMAIN cs /\ ds[c] = q /\ \A d \in DOMAIN cs \ {c} : ds[d] = cs[d]
  BY <1>1, <1>2, OneRewritten, SMTT(30)
<1>5. Books(ds)
  BY <1>4 DEF Evolves
<1> HIDE DEF ds
<1>6. /\ Books(ds) /\ DOMAIN ds = DOMAIN cs
      /\ ds[c].state = cs[c].state /\ ds[c].delivery = cs[c].delivery /\ ds[c].outcome = v
      /\ ds[c].type = cs[c].type /\ ds[c].step = cs[c].step /\ ds[c].target = cs[c].target
      /\ ds[c].attempt = cs[c].attempt
      /\ \A d \in DOMAIN cs \ {c} : ds[d] = cs[d]
  BY <1>2, <1>4, <1>5
<1>7. QED
  BY <1>3, <1>6, Zenon

(* The same for the started mark.                                           *)
LEMMA StartedSetRows ==
  ASSUME NEW cs, Books(cs), NEW c \in DOMAIN cs, NEW v \in BOOLEAN
  PROVE  LET ds == [cs EXCEPT ![c].started = v]
         IN /\ Books(ds) /\ DOMAIN ds = DOMAIN cs
            /\ Only(cs[c], ds[c], cs[c].state)
            /\ ds[c].type = cs[c].type /\ ds[c].step = cs[c].step /\ ds[c].target = cs[c].target
            /\ \A d \in DOMAIN cs \ {c} : ds[d] = cs[d]
<1> DEFINE q == WithStarted(cs[c], v)
           ds == Put(cs, c, q)
<1>1. cs[c] \in Command
  BY DEF Books
<1>2. /\ q \in Command /\ Only(cs[c], q, cs[c].state)
      /\ q.type = cs[c].type /\ q.step = cs[c].step
      /\ q.attempt = cs[c].attempt /\ q.target = cs[c].target
  BY <1>1, RowStarted DEF Only
<1>3. [cs EXCEPT ![c].started = v] = ds
  BY Zenon DEF WithStarted, Put
<1> HIDE DEF q
<1>4. Evolves(cs, ds, {c}) /\ DOMAIN ds = DOMAIN cs /\ ds[c] = q /\ \A d \in DOMAIN cs \ {c} : ds[d] = cs[d]
  BY <1>1, <1>2, OneRewritten
<1>5. Books(ds)
  BY <1>4 DEF Evolves
<1> HIDE DEF ds
<1>6. /\ Books(ds) /\ DOMAIN ds = DOMAIN cs /\ Only(cs[c], ds[c], cs[c].state)
      /\ ds[c].type = cs[c].type /\ ds[c].step = cs[c].step /\ ds[c].target = cs[c].target
      /\ \A d \in DOMAIN cs \ {c} : ds[d] = cs[d]
  BY <1>2, <1>4, <1>5
<1>7. QED
  BY <1>3, <1>6, Zenon

(* State and delivery of one row at once.                                   *)
LEMMA MarkedRows ==
  ASSUME NEW cs, Books(cs), NEW c \in DOMAIN cs, NEW v \in CommandState, NEW w \in Delivery
  PROVE  LET ds == Put(cs, c, Marked(cs[c], v, w))
         IN /\ Books(ds) /\ DOMAIN ds = DOMAIN cs
            /\ ds[c].state = v /\ ds[c].delivery = w /\ ds[c].outcome = cs[c].outcome
            /\ ds[c].type = cs[c].type /\ ds[c].step = cs[c].step /\ ds[c].target = cs[c].target
            /\ ds[c].attempt = cs[c].attempt
            /\ \A d \in DOMAIN cs \ {c} : ds[d] = cs[d]
<1> DEFINE q == Marked(cs[c], v, w)
<1>1. cs[c] \in Command
  BY DEF Books
<1>2. /\ q \in Command /\ q.state = v /\ q.delivery = w /\ q.outcome = cs[c].outcome
      /\ q.type = cs[c].type /\ q.step = cs[c].step
      /\ q.attempt = cs[c].attempt /\ q.target = cs[c].target
  BY <1>1, RowMarked
<1> HIDE DEF q
<1>3. LET ds == Put(cs, c, q)
      IN /\ Evolves(cs, ds, {c}) /\ DOMAIN ds = DOMAIN cs /\ ds[c] = q
         /\ \A d \in DOMAIN cs \ {c} : ds[d] = cs[d]
  BY <1>1, <1>2, OneRewritten
<1>4. QED
  BY <1>2, <1>3 DEF Evolves, q

(* _take_over: the target of an action is superseded if it was engaged.     *)
LEMMA TakeOverRows ==
  ASSUME NEW cs, Books(cs), NEW c \in DOMAIN cs
  PROVE  LET ds == TakeOver(cs, c)
         IN /\ Books(ds) /\ DOMAIN ds = DOMAIN cs
            /\ \A d \in DOMAIN cs :
                 \/ ds[d] = cs[d]
                 \/ /\ Only(cs[d], ds[d], "superseded") /\ ds[d].step = cs[d].step
                    /\ ds[d].attempt = cs[d].attempt /\ ds[d].type = cs[d].type
                    /\ cs[c].type \in DISPATCHING /\ d = cs[c].target /\ d # NoCmd
<1> DEFINE t == cs[c].target
<1>1. CASE cs[c].type \in DISPATCHING /\ t # NoCmd /\ Engaged(cs[t])
  <2>1. t \in DOMAIN cs /\ "superseded" \in CommandState
    BY <1>1 DEF Books, CommandState
  <2>2. TakeOver(cs, c) = [cs EXCEPT ![t].state = "superseded"]
    BY <1>1, Zenon DEF TakeOver
  <2> HIDE DEF t
  <2> DEFINE ds == [cs EXCEPT ![t].state = "superseded"]
  <2>3. /\ Books(ds) /\ DOMAIN ds = DOMAIN cs /\ Only(cs[t], ds[t], "superseded")
        /\ ds[t].type = cs[t].type /\ ds[t].step = cs[t].step /\ ds[t].attempt = cs[t].attempt
        /\ \A d \in DOMAIN cs \ {t} : ds[d] = cs[d]
    BY <2>1, StateSetRows
  <2> HIDE DEF ds
  <2>4. QED
    BY <1>1, <2>2, <2>3 DEF ds, t
<1>2. CASE ~(cs[c].type \in DISPATCHING /\ t # NoCmd /\ Engaged(cs[t]))
  BY <1>2 DEF TakeOver
<1>3. QED
  BY <1>1, <1>2

(* complete_device_step: the command is done, what it displaces superseded. *)
LEMMA CompleteStepRows ==
  ASSUME NEW cs, Books(cs), NEW c \in DOMAIN cs, cs[c].target # c
  PROVE  LET ds == CompleteStep(cs, c)
         IN /\ DOMAIN ds = DOMAIN cs /\ Only(cs[c], ds[c], "done")
            /\ \A d \in DOMAIN cs \ {c} :
                 \/ ds[d] = cs[d]
                 \/ /\ Only(cs[d], ds[d], "superseded")
                    /\ \/ cs[c].type \in DISPATCHING /\ d = cs[c].target /\ d # NoCmd
                       \/ cs[d].state = "held" /\ cs[d].step = cs[c].step
<1> DEFINE ds == [cs EXCEPT ![c].state = "done"]
           es == TakeOver(ds, c)
           fs == CompleteStep(cs, c)
<1>1. "done" \in CommandState /\ "superseded" \in CommandState
  BY DEF CommandState
<1>2. /\ Books(ds) /\ DOMAIN ds = DOMAIN cs /\ Only(cs[c], ds[c], "done")
      /\ ds[c].type = cs[c].type /\ ds[c].step = cs[c].step /\ ds[c].target = cs[c].target
      /\ \A d \in DOMAIN cs \ {c} : ds[d] = cs[d]
  BY <1>1, StateSetRows
<1> HIDE DEF ds
<1>3. /\ Books(es) /\ DOMAIN es = DOMAIN cs
      /\ \A d \in DOMAIN cs :
           \/ es[d] = ds[d]
           \/ /\ Only(ds[d], es[d], "superseded") /\ es[d].step = ds[d].step
              /\ cs[c].type \in DISPATCHING /\ d = cs[c].target /\ d # NoCmd
  BY <1>2, TakeOverRows
<1>4. fs = [d \in DOMAIN cs |->
              IF /\ d # c /\ es[d].state = "held"
                 /\ es[d].step = cs[c].step /\ es[d].attempt = cs[c].attempt
                THEN WithState(es[d], "superseded") ELSE es[d]]
  BY Zenon DEF CompleteStep, ds, WithState
<1> HIDE DEF es, fs
<1>5. DOMAIN fs = DOMAIN cs
  BY <1>4
<1>6. Only(cs[c], fs[c], "done")
  BY <1>2, <1>3, <1>4
<1>7. ASSUME NEW d \in DOMAIN cs \ {c}
      PROVE  \/ fs[d] = cs[d]
             \/ /\ Only(cs[d], fs[d], "superseded")
                /\ \/ cs[c].type \in DISPATCHING /\ d = cs[c].target /\ d # NoCmd
                   \/ cs[d].state = "held" /\ cs[d].step = cs[c].step
  <2>1. es[d] \in Command /\ ds[d] = cs[d]
    BY <1>2, <1>3 DEF Books
  <2>2. Only(es[d], WithState(es[d], "superseded"), "superseded")
    BY <1>1, <2>1, RowState DEF Only
  <2>3. CASE fs[d] = es[d]
    BY <1>3, <2>1, <2>3
  <2>4. CASE fs[d] = WithState(es[d], "superseded") /\ es[d].state = "held" /\ es[d].step = cs[c].step
    BY <1>3, <2>1, <2>2, <2>4 DEF Only
  <2>5. QED
    BY <1>4, <2>3, <2>4
<1>8. QED
  BY <1>5, <1>6, <1>7 DEF fs

(* What a hold or an abort takes out of the queue is cancelled, not sent.   *)
LEMMA WithdrawQueuedRows ==
  ASSUME NEW cs, Books(cs), NEW b
  PROVE  LET ds == WithdrawQueued(cs, b)
         IN /\ Books(ds) /\ DOMAIN ds = DOMAIN cs
            /\ \A d \in DOMAIN cs :
                 /\ ds[d].type = cs[d].type /\ ds[d].step = cs[d].step
                 /\ ds[d].target = cs[d].target
                 /\ \/ ds[d] = cs[d] /\ ~(BatchOf[cs[d].step] = b /\ Queued(cs[d]))
                    \/ /\ Queued(cs[d]) /\ BatchOf[cs[d].step] = b
                       /\ ds[d].state = "cancelled" /\ ds[d].delivery = "not_sent"
<1> DEFINE ds == WithdrawQueued(cs, b)
<1>1. Books(ds) /\ DOMAIN ds = DOMAIN cs
  BY WithdrawQueuedEvolves DEF Evolves
<1>2. ASSUME NEW d \in DOMAIN cs
      PROVE  /\ ds[d].type = cs[d].type /\ ds[d].step = cs[d].step /\ ds[d].target = cs[d].target
             /\ \/ ds[d] = cs[d] /\ ~(BatchOf[cs[d].step] = b /\ Queued(cs[d]))
                \/ /\ Queued(cs[d]) /\ BatchOf[cs[d].step] = b
                   /\ ds[d].state = "cancelled" /\ ds[d].delivery = "not_sent"
  <2> DEFINE q == Marked(cs[d], "cancelled", "not_sent")
  <2>1. cs[d] \in Command /\ "cancelled" \in CommandState /\ "not_sent" \in Delivery
    BY DEF Books, CommandState, Delivery
  <2>2. /\ q.state = "cancelled" /\ q.delivery = "not_sent"
        /\ q.type = cs[d].type /\ q.step = cs[d].step /\ q.target = cs[d].target
    BY <2>1, RowMarked
  <2>3. ds[d] = IF d \in BatchCmds(cs, b) /\ Queued(cs[d]) THEN q ELSE cs[d]
    BY Zenon DEF WithdrawQueued, Marked
  <2> HIDE DEF q, ds
  <2>4. d \in BatchCmds(cs, b) <=> BatchOf[cs[d].step] = b
    BY DEF BatchCmds
  <2>5. QED
    BY <2>2, <2>3, <2>4
<1> HIDE DEF ds
<1>3. QED
  BY <1>1, <1>2 DEF ds

(* _finalize_abort: with the last station confirmed, what lacks a verdict   *)
(* in the batch is closed, and none of its actions is left engaged.         *)
LEMMA FinalizeAbortRows ==
  ASSUME NEW cs, Books(cs), NEW b, NEW own, FinalizeAbort(cs, b, own)
  PROVE  /\ DOMAIN cmd' = DOMAIN cs
         /\ \A d \in DOMAIN cs :
              \/ cmd'[d] = cs[d]
              \/ /\ Only(cs[d], cmd'[d], "cancelled") /\ cs[d].state = "unknown" /\ d # own
                 /\ cs[d].type \in DISPATCHING => ~OutcomeUnknown(cs[d])
         /\ \/ batch' = batch
            \/ /\ batch' = [batch EXCEPT ![b] = "aborted"]
               /\ \A d \in DOMAIN cs : cs[d].type \in DISPATCHING /\ BatchOf[cs[d].step] = b
                    => ~StillOccupying(cmd'[d])
<1>1. CASE StillWaiting(cs, b, own)
  BY <1>1 DEF FinalizeAbort
<1>2. CASE ~StillWaiting(cs, b, own)
  <2>1. cmd' = CloseUnknown(cs, b, own) /\ batch' = [batch EXCEPT ![b] = "aborted"]
    BY <1>2 DEF FinalizeAbort
  <2>2. \A d \in DOMAIN cs : cs[d].type \in DISPATCHING /\ BatchOf[cs[d].step] = b
                               => ~StillOccupying(cs[d])
    BY <1>2 DEF StillWaiting, PossiblyActing, Actions, BatchCmds
  <2>3. cmd' = [d \in DOMAIN cs |-> IF d \in BatchCmds(cs, b) \ {own} /\ cs[d].state = "unknown"
                                      THEN WithState(cs[d], "cancelled") ELSE cs[d]]
    BY <2>1, Zenon DEF CloseUnknown, WithState
  <2>4. ASSUME NEW d \in DOMAIN cs
        PROVE  /\ \/ cmd'[d] = cs[d]
                  \/ /\ Only(cs[d], cmd'[d], "cancelled") /\ cs[d].state = "unknown" /\ d # own
                     /\ BatchOf[cs[d].step] = b
    <3>1. cs[d] \in Command /\ "cancelled" \in CommandState
      BY DEF Books, CommandState
    <3>2. Only(cs[d], WithState(cs[d], "cancelled"), "cancelled")
      BY <3>1, RowState DEF Only
    <3>3. CASE d \in BatchCmds(cs, b) \ {own} /\ cs[d].state = "unknown"
      <4>1. cmd'[d] = WithState(cs[d], "cancelled")
        BY <2>3, <3>3
      <4>2. QED
        BY <3>2, <3>3, <4>1 DEF BatchCmds
    <3>4. CASE ~(d \in BatchCmds(cs, b) \ {own} /\ cs[d].state = "unknown")
      BY <2>3, <3>4
    <3>5. QED
      BY <3>3, <3>4
  <2>5. \A d \in DOMAIN cs : cs[d].type \in DISPATCHING /\ BatchOf[cs[d].step] = b
                               => ~StillOccupying(cmd'[d])
    BY <2>2, <2>4 DEF StillOccupying, Engaged, OutcomeUnknown, Only
  <2>6. \A d \in DOMAIN cs : BatchOf[cs[d].step] = b /\ cs[d].type \in DISPATCHING => ~OutcomeUnknown(cs[d])
    BY <2>2 DEF StillOccupying
  <2>7. DOMAIN cmd' = DOMAIN cs
    BY <2>3
  <2>8. QED
    BY <2>1, <2>4, <2>5, <2>6, <2>7
<1>3. QED
  BY <1>1, <1>2

(* _confirm_abort: what has stopped is cancelled; the rest as above.        *)
LEMMA ConfirmAbortRows ==
  ASSUME NEW cs, Books(cs), NEW c \in DOMAIN cs, NEW stopped, c \notin stopped,
         ConfirmAbort(cs, c, stopped)
  PROVE  LET b == BatchOf[cs[c].step]
         IN /\ DOMAIN cmd' = DOMAIN cs /\ cmd'[c] = cs[c]
            /\ \A d \in DOMAIN cs :
                 \/ d \in stopped /\ Only(cs[d], cmd'[d], "cancelled")
                 \/ d \notin stopped /\ cmd'[d] = cs[d]
                 \/ /\ Only(cs[d], cmd'[d], "cancelled") /\ cs[d].state = "unknown"
                    /\ d \notin stopped
                    /\ cs[d].type \in DISPATCHING => ~OutcomeUnknown(cs[d])
            /\ \/ batch' = batch
               \/ /\ batch' = [batch EXCEPT ![b] = "aborted"]
                  /\ \A d \in DOMAIN cs : cs[d].type \in DISPATCHING /\ BatchOf[cs[d].step] = b
                       => ~StillOccupying(cmd'[d])
<1> DEFINE b == BatchOf[cs[c].step]
           ds == [d \in DOMAIN cs |-> IF d \in stopped THEN WithState(cs[d], "cancelled") ELSE cs[d]]
<1>1. IF batch[b] \in BatchEnded THEN cmd' = ds /\ UNCHANGED batch ELSE FinalizeAbort(ds, b, c)
  BY Zenon DEF ConfirmAbort, WithState
<1>2. Books(ds) /\ DOMAIN ds = DOMAIN cs
  <2>1. \A d \in DOMAIN cs : ds[d] = cs[d] \/ \E v \in Landed : ds[d] = WithState(cs[d], v)
    BY DEF CommandState, Landed
  <2>2. ds = [d \in DOMAIN cs |-> ds[d]]
    OBVIOUS
  <2> HIDE DEF ds
  <2>3. QED
    BY <2>1, <2>2, StatesRewritten DEF Evolves
<1>3. ASSUME NEW d \in DOMAIN cs
      PROVE  /\ ds[d].type = cs[d].type /\ ds[d].step = cs[d].step
             /\ d \notin stopped => ds[d] = cs[d]
             /\ d \in stopped => Only(cs[d], ds[d], "cancelled")
  <2>1. cs[d] \in Command /\ "cancelled" \in CommandState
    BY DEF Books, CommandState
  <2>2. /\ Only(cs[d], WithState(cs[d], "cancelled"), "cancelled")
        /\ WithState(cs[d], "cancelled").type = cs[d].type
        /\ WithState(cs[d], "cancelled").step = cs[d].step
    BY <2>1, RowState DEF Only
  <2>3. ds[d] = IF d \in stopped THEN WithState(cs[d], "cancelled") ELSE cs[d]
    OBVIOUS
  <2> HIDE DEF ds
  <2>4. QED
    BY <2>2, <2>3
<1> HIDE DEF ds
<1>4. CASE batch[b] \in BatchEnded
  BY <1>1, <1>2, <1>3, <1>4
<1>5. CASE batch[b] \notin BatchEnded
  <2>1. FinalizeAbort(ds, b, c)
    BY <1>1, <1>5
  <2>2. /\ DOMAIN cmd' = DOMAIN ds
        /\ \A d \in DOMAIN ds :
              \/ cmd'[d] = ds[d]
              \/ /\ Only(ds[d], cmd'[d], "cancelled") /\ ds[d].state = "unknown" /\ d # c
                 /\ ds[d].type \in DISPATCHING => ~OutcomeUnknown(ds[d])
        /\ \/ batch' = batch
           \/ /\ batch' = [batch EXCEPT ![b] = "aborted"]
              /\ \A d \in DOMAIN ds : ds[d].type \in DISPATCHING /\ BatchOf[ds[d].step] = b
                   => ~StillOccupying(cmd'[d])
    BY <1>2, <2>1, FinalizeAbortRows
  <2>3. ASSUME NEW d \in DOMAIN cs
        PROVE  \/ d \in stopped /\ Only(cs[d], cmd'[d], "cancelled")
               \/ d \notin stopped /\ cmd'[d] = cs[d]
               \/ /\ Only(cs[d], cmd'[d], "cancelled") /\ cs[d].state = "unknown" /\ d # c
                  /\ d \notin stopped
                  /\ cs[d].type \in DISPATCHING => ~OutcomeUnknown(cs[d])
    <3>1. CASE d \in stopped
      <4>1. ds[d].state = "cancelled"
        BY <1>3, <3>1 DEF Only
      <4>2. cmd'[d] = ds[d]
        BY <1>2, <2>2, <4>1
      <4>3. QED
        BY <1>3, <3>1, <4>2
    <3>2. CASE d \notin stopped
      BY <1>2, <1>3, <2>2, <3>2
    <3>3. QED
      BY <3>1, <3>2
  <2>4. \/ batch' = batch
        \/ /\ batch' = [batch EXCEPT ![b] = "aborted"]
           /\ \A d \in DOMAIN cs : cs[d].type \in DISPATCHING /\ BatchOf[cs[d].step] = b
                => ~StillOccupying(cmd'[d])
    BY <1>2, <1>3, <2>2
  <2>5. cmd'[c] = cs[c]
    BY <2>3
  <2>6. QED
    BY <1>2, <2>2, <2>3, <2>4, <2>5
<1>6. QED
  BY <1>4, <1>5

(* issue_command: the row it writes.                                        *)
LEMMA NewCommandFields ==
  ASSUME NEW type, NEW step, NEW attempt, NEW target
  PROVE  LET q == NewCommand(type, step, attempt, target)
         IN /\ q.type = type /\ q.step = step /\ q.attempt = attempt /\ q.target = target
            /\ q.state = "sent" /\ q.delivery = "queued"
BY DEF NewCommand

-----------------------------------------------------------------------------
(* One lemma per action.                                                    *)

Moves == /\ \A x \in DOMAIN cmd : Row(x)
         /\ \A n \in DOMAIN cmd' \ DOMAIN cmd : NewRow(n)
         /\ BatchMoves

(* The rows moved as they may, and what was written evolves the table.      *)
LEMMA BooksMoved ==
  ASSUME NEW S, NEW D, Writes(S, D), Moves, JobsCalm, PhysCalm
  PROVE  BookStep
BY DEF BookStep, Writes, Moves

(* A row that is as before was kept.                                        *)
LEMMA SameRow ==
  ASSUME NEW x, cmd'[x] = cmd[x]
  PROVE  Row(x)
BY DEF Row, RowKept, Only

(* Devices that stay as they are, are calm.                                 *)
LEMMA StillCalm ==
  ASSUME UNCHANGED phys
  PROVE  PhysCalm
BY DEF PhysCalm

(* What has been sent, or lacks a verdict, no longer waits for its target.  *)
LEMMA SentIsFree ==
  ASSUME Basis, NEW x \in DOMAIN cmd,
         cmd[x].delivery \notin {"queued", "not_sent"} \/ cmd[x].state = "unknown"
  PROVE  Free(x)
BY DEF Basis, BookInv, TargetsFirst, Free

(* A command that moves, is worked on or has reached its device was given.  *)
LEMMA GivenIsFree ==
  ASSUME Basis, NEW x \in DOMAIN cmd, InFlight(cmd[x]) \/ InHands(x) \/ phys[x] # "none"
  PROVE  cmd[x].delivery \in Given /\ Free(x)
<1>1. cmd[x].delivery \in Given
  <2>1. x \in CmdId
    BY CmdOwn DEF Basis
  <2>2. QED
    BY <2>1 DEF Basis, HandInv, FlightGiven, BusyGiven, PhysGiven, InHands
<1>2. QED
  BY <1>1, SentIsFree DEF Given

(* What was never given is on no device and in no worker's hands.           *)
LEMMA NotGiven ==
  ASSUME Basis, NEW x \in DOMAIN cmd, cmd[x].delivery \notin Given
  PROVE  ~InHands(x) /\ phys[x] = "none" /\ (JobsCalm => Leaves(x))
<1>1. ~InHands(x) /\ phys[x] = "none"
  BY GivenIsFree
<1>2. QED
  BY <1>1 DEF JobsCalm, Leaves, InHands

(* The batch of a command is one, and it was dispatched.                    *)
LEMMA BatchOfRow ==
  ASSUME Basis, NEW c \in DOMAIN cmd
  PROVE  /\ BatchOfCmd(c) \in Batch /\ batch[BatchOfCmd(c)] # "scheduled"
         /\ cmd[c] \in Command /\ cmd[c].step \in Step /\ c \in CmdId /\ StationOfCmd(c) \in Station
         /\ Tgt(c) \in DOMAIN cmd \cup {NoCmd}
<1>1. cmd[c] \in Command /\ cmd[c].step \in Step /\ c \in CmdId /\ StationOfCmd(c) \in Station
  BY CmdOwn DEF Basis, TypeInv, Books, Command
<1>2. BatchOfCmd(c) \in Batch
  BY <1>1, PlanAssumption DEF BatchOfCmd
<1>3. batch[BatchOfCmd(c)] # "scheduled"
  BY <1>2 DEF Basis, BookInv, NotYetDispatched, BatchCmds, BatchOfCmd
<1>4. QED
  BY <1>1, <1>2, <1>3 DEF Basis, TypeInv, Books, Tgt

(* One batch put to another state.                                          *)
LEMMA OneBatchMoves ==
  ASSUME Basis, NEW b \in Batch, NEW v, batch' = [batch EXCEPT ![b] = v], v # "scheduled",
         v = "running" => \A h \in DOMAIN cmd : Adrift(h) => BatchOfCmd(h) # b,
         v = "aborted" => \A c \in Actions(cmd) \cap BatchCmds(cmd, b) : ~StillOccupying(cmd'[c])
  PROVE  BatchMoves
<1>1. batch \in [Batch -> BatchState]
  BY DEF Basis, TypeInv, TypeOK
<1>2. batch'[b] = v /\ \A a \in Batch \ {b} : batch'[a] = batch[a]
  BY <1>1
<1>3. QED
  BY <1>2 DEF BatchMoves

(* No batch moves.                                                          *)
LEMMA NoBatchMoves ==
  ASSUME batch' = batch
  PROVE  BatchMoves
BY DEF BatchMoves

-----------------------------------------------------------------------------
(* The operator                                                             *)

(* What is queued is withdrawn, then commands are issued.                   *)
LEMMA WithdrawnThenIssued ==
  ASSUME Basis, NEW b, NEW new, CanIssue(cmd, DOMAIN new),
         cmd' = Issue(WithdrawQueued(cmd, b), new)
  PROVE  /\ \A x \in DOMAIN cmd :
              /\ Row(x) /\ cmd'[x].type = cmd[x].type /\ cmd'[x].step = cmd[x].step
              /\ \/ cmd'[x] = cmd[x] /\ ~(BatchOfCmd(x) = b /\ Queued(cmd[x]))
                 \/ Queued(cmd[x]) /\ cmd'[x].state = "cancelled"
         /\ \A n \in DOMAIN cmd' \ DOMAIN cmd : \E m \in DOMAIN new : cmd'[n] = new[m]
<1> DEFINE ws == WithdrawQueued(cmd, b)
<1>1. Books(cmd)
  BY DEF Basis, TypeInv
<1>2. /\ DOMAIN ws = DOMAIN cmd
      /\ \A d \in DOMAIN cmd :
           /\ ws[d].type = cmd[d].type /\ ws[d].step = cmd[d].step
           /\ \/ ws[d] = cmd[d] /\ ~(BatchOfCmd(d) = b /\ Queued(cmd[d]))
              \/ Queued(cmd[d]) /\ ws[d].state = "cancelled" /\ ws[d].delivery = "not_sent"
  BY <1>1, WithdrawQueuedRows DEF BatchOfCmd
<1> HIDE DEF ws
<1>3. CanIssue(ws, DOMAIN new) /\ cmd' = Issue(ws, new)
  BY <1>2 DEF CanIssue, FreeIds, ws
<1>4. /\ \A x \in DOMAIN cmd : cmd'[x] = ws[x]
      /\ \A n \in DOMAIN cmd' \ DOMAIN cmd : \E m \in DOMAIN new : cmd'[n] = new[m]
  BY <1>2, <1>3, IssueAdds
<1>5. \A x \in DOMAIN cmd : Row(x)
  BY <1>2, <1>4, SameRow DEF Row, RowWithdrawn
<1>6. QED
  BY <1>2, <1>4, <1>5

(* dispatch: the batch had no commands before.                              *)
LEMMA DispatchMoves ==
  ASSUME Basis, NEW b \in Batch, Dispatch(b)
  PROVE  BookStep
<1> DEFINE new == [s \in StepsOf(b) |-> NewCommand("dispatch", s, Len(run[s]) + 1, NoCmd)]
<1>1. /\ batch[b] = "scheduled" /\ CanIssue(cmd, DOMAIN new) /\ cmd' = Issue(cmd, new)
      /\ batch' = [batch EXCEPT ![b] = "running"] /\ UNCHANGED <<job, phys>>
  BY Zenon DEF Dispatch
<1>2. \A h \in DOMAIN cmd : BatchOfCmd(h) # b
  BY <1>1 DEF Basis, BookInv, NotYetDispatched, BatchCmds, BatchOfCmd
<1>3. batch'[b] = "running"
  BY <1>1 DEF Basis, TypeInv, TypeOK
<1>4. ASSUME NEW m \in DOMAIN new
      PROVE  /\ new[m].type = "dispatch" /\ new[m].step = m /\ new[m].target = NoCmd
             /\ new[m].state = "sent" /\ BatchOf[m] = b
  BY <1>4, NewCommandFields DEF StepsOf
<1> HIDE DEF new
<1>5. /\ \A x \in DOMAIN cmd : cmd'[x] = cmd[x]
      /\ \A n \in DOMAIN cmd' \ DOMAIN cmd : \E m \in DOMAIN new : cmd'[n] = new[m]
  BY <1>1, IssueAdds
<1>6. \A n \in DOMAIN cmd' \ DOMAIN cmd : NewRow(n)
  BY <1>2, <1>3, <1>4, <1>5 DEF NewRow
<1>7. BatchMoves
  BY <1>1, <1>2, OneBatchMoves
<1>8. Moves
  BY <1>5, <1>6, <1>7, SameRow DEF Moves
<1>9. Writes({}, {})
  BY DispatchWrites DEF Basis
<1>10. QED
  BY <1>1, <1>8, <1>9, BooksMoved, StillCalm, Still

(* hold: to the actions in flight; to a station without naming one only     *)
(* when none is, and the batch is paused by then.                           *)
LEMMA HoldMoves ==
  ASSUME Basis, NEW b \in Batch, Hold(b)
  PROVE  BookStep
<1> DEFINE acting == ActingInBatch(cmd, b)
           adrift == {s \in StepsOf(b) : run[s] # << >> /\ run[s][Len(run[s])] = "running"}
           holdOf == [c \in acting |-> NewCommand("hold", cmd[c].step, cmd[c].attempt, c)]
           holdAt == [s \in adrift |-> NewCommand("hold", s, Len(run[s]), NoCmd)]
           new    == IF acting # {} THEN holdOf ELSE holdAt
<1>1. /\ cmd' = Issue(WithdrawQueued(cmd, b), new)
      /\ CanIssue(cmd, IF acting # {} THEN acting ELSE adrift)
      /\ batch' = [batch EXCEPT ![b] = "paused"] /\ UNCHANGED <<job, phys>>
  BY Zenon DEF Hold
<1>2. DOMAIN new = IF acting # {} THEN acting ELSE adrift
  OBVIOUS
<1>3. ASSUME NEW m \in DOMAIN new
      PROVE  /\ new[m].type = "hold" /\ new[m].state = "sent"
             /\ \/ /\ m \in acting /\ new[m].step = cmd[m].step /\ new[m].target = m
                \/ acting = {} /\ new[m].target = NoCmd /\ BatchOf[new[m].step] = b
  <2>1. CASE acting # {}
    <3>1. m \in acting /\ new[m] = NewCommand("hold", cmd[m].step, cmd[m].attempt, m)
      BY <2>1
    <3> HIDE DEF acting, new
    <3>2. QED
      BY <3>1, NewCommandFields
  <2>2. CASE acting = {}
    <3>1. m \in adrift /\ new[m] = NewCommand("hold", m, Len(run[m]), NoCmd)
      BY <2>2
    <3>2. BatchOf[m] = b
      BY <3>1 DEF StepsOf
    <3> HIDE DEF acting, adrift, new
    <3>3. QED
      BY <2>2, <3>1, <3>2, NewCommandFields
  <2>3. QED
    BY <2>1, <2>2
<1>4. \A c \in acting : c \in Actions(cmd) /\ InFlight(cmd[c]) /\ BatchOfCmd(c) = b
  BY DEF ActingInBatch, BatchCmds, BatchOfCmd
<1>5. acting = {} => \A c \in Actions(cmd) : BatchOfCmd(c) = b => ~InFlight(cmd[c])
  BY DEF ActingInBatch, BatchCmds, BatchOfCmd, Actions
<1> HIDE DEF new, acting
<1>6. /\ \A x \in DOMAIN cmd :
           /\ Row(x) /\ cmd'[x].type = cmd[x].type /\ cmd'[x].step = cmd[x].step
           /\ \/ cmd'[x] = cmd[x] /\ ~(BatchOfCmd(x) = b /\ Queued(cmd[x]))
              \/ Queued(cmd[x]) /\ cmd'[x].state = "cancelled"
      /\ \A n \in DOMAIN cmd' \ DOMAIN cmd : \E m \in DOMAIN new : cmd'[n] = new[m]
  BY <1>1, <1>2, WithdrawnThenIssued
<1>7. batch'[b] = "paused"
  BY <1>1 DEF Basis, TypeInv, TypeOK
<1>8. ASSUME NEW n \in DOMAIN cmd' \ DOMAIN cmd PROVE NewRow(n)
  <2>1. PICK m \in DOMAIN new : cmd'[n] = new[m]
    BY <1>6
  <2>2. CASE m \in acting /\ new[m].step = cmd[m].step /\ new[m].target = m
    <3>1. /\ m \in Actions(cmd) /\ m \in DOMAIN cmd /\ InFlight(cmd[m]) /\ BatchOfCmd(m) = b
      BY <1>4, <2>2 DEF Actions
    <3>2. m # NoCmd /\ cmd'[m].state # "sent"
      BY <1>6, <3>1, BatchOfRow, BoundAssumption DEF Queued, InFlight, CmdId, NoCmd
    <3>3. QED
      BY <1>3, <1>7, <2>1, <2>2, <3>1, <3>2 DEF NewRow, DISPATCHING, BatchOfCmd
  <2>3. CASE acting = {} /\ new[m].target = NoCmd /\ BatchOf[new[m].step] = b
    <3>1. ASSUME NEW c \in DOMAIN cmd', cmd'[c].type \in DISPATCHING, BatchOf[cmd'[c].step] = b
          PROVE  ~Queued(cmd'[c]) /\ ~InFlight(cmd'[c])
      <4>1. c \in DOMAIN cmd
        BY <1>3, <1>6, <3>1 DEF DISPATCHING
      <4>2. c \in Actions(cmd) /\ BatchOfCmd(c) = b
        BY <1>6, <3>1, <4>1 DEF Actions, BatchOfCmd
      <4>3. QED
        BY <1>5, <1>6, <2>3, <4>1, <4>2 DEF Queued, InFlight
    <3>2. QED
      BY <1>3, <1>7, <2>1, <2>3, <3>1 DEF NewRow, DISPATCHING
  <2>4. QED
    BY <1>3, <2>2, <2>3
<1>9. BatchMoves
  BY <1>1, OneBatchMoves
<1>10. Moves
  BY <1>6, <1>8, <1>9 DEF Moves
<1>11. Writes(InQueue(b), {"not_sent"})
  BY HoldWrites DEF Basis
<1>12. QED
  BY <1>1, <1>10, <1>11, BooksMoved, StillCalm, Still

(* abort: to everything that may be acting; a batch that has nothing such   *)
(* is aborted at once.                                                      *)
LEMMA AbortMoves ==
  ASSUME Basis, NEW b \in Batch, Abort(b)
  PROVE  BookStep
<1> DEFINE acting  == PossiblyActing(cmd, b)
           new     == [c \in acting |-> NewCommand("abort", cmd[c].step, cmd[c].attempt, c)]
           dispatched == batch[b] # "scheduled"
           v == IF dispatched /\ acting # {} THEN "aborting" ELSE "aborted"
<1>1. /\ cmd' = IF dispatched THEN Issue(WithdrawQueued(cmd, b), new) ELSE cmd
      /\ CanIssue(cmd, acting)
      /\ batch' = [batch EXCEPT ![b] = v] /\ UNCHANGED <<job, phys>>
  BY Zenon DEF Abort
<1>2. DOMAIN new = acting
  OBVIOUS
<1>3. ASSUME NEW m \in acting
      PROVE  /\ new[m].type = "abort" /\ new[m].state = "sent"
             /\ new[m].step = cmd[m].step /\ new[m].target = m
  <2>1. new[m] = NewCommand("abort", cmd[m].step, cmd[m].attempt, m)
    OBVIOUS
  <2> HIDE DEF new, acting
  <2>2. QED
    BY <2>1, NewCommandFields
<1>4. \A c \in acting : c \in Actions(cmd) /\ StillOccupying(cmd[c]) /\ BatchOfCmd(c) = b
  BY DEF PossiblyActing, BatchCmds, BatchOfCmd
<1>5. acting = {} => \A c \in Actions(cmd) \cap BatchCmds(cmd, b) : ~StillOccupying(cmd[c])
  BY DEF PossiblyActing
<1> HIDE DEF new, acting
<1>6. Moves
  <2>1. CASE ~dispatched
    <3>1. BatchCmds(cmd, b) = {}
      BY <2>1 DEF Basis, BookInv, NotYetDispatched
    <3>2. cmd' = cmd /\ batch' = [batch EXCEPT ![b] = "aborted"]
      BY <1>1, <2>1
    <3>3. BatchMoves
      BY <3>1, <3>2, OneBatchMoves
    <3>4. QED
      BY <3>2, <3>3, SameRow DEF Moves
  <2>2. CASE dispatched
    <3>1. /\ \A x \in DOMAIN cmd :
               /\ Row(x) /\ cmd'[x].type = cmd[x].type /\ cmd'[x].step = cmd[x].step
               /\ \/ cmd'[x] = cmd[x] /\ ~(BatchOfCmd(x) = b /\ Queued(cmd[x]))
                  \/ Queued(cmd[x]) /\ cmd'[x].state = "cancelled"
          /\ \A n \in DOMAIN cmd' \ DOMAIN cmd : \E m \in DOMAIN new : cmd'[n] = new[m]
      BY <1>1, <1>2, <2>2, WithdrawnThenIssued
    <3>2. batch'[b] = v
      BY <1>1 DEF Basis, TypeInv, TypeOK
    <3>3. ASSUME NEW n \in DOMAIN cmd' \ DOMAIN cmd PROVE NewRow(n)
      <4>1. PICK m \in acting : cmd'[n] = new[m]
        BY <1>2, <3>1
      <4>2. /\ m \in Actions(cmd) /\ m \in DOMAIN cmd /\ StillOccupying(cmd[m]) /\ BatchOfCmd(m) = b
        BY <1>4 DEF Actions
      <4>3. m # NoCmd /\ cmd'[m].state # "sent"
        BY <3>1, <4>2, BatchOfRow, BoundAssumption
           DEF Queued, StillOccupying, Engaged, OutcomeUnknown, CmdId, NoCmd
      <4>4. QED
        BY <1>3, <3>2, <4>1, <4>2, <4>3 DEF NewRow, DISPATCHING, BatchOfCmd
    <3>4. acting = {} => \A c \in Actions(cmd) \cap BatchCmds(cmd, b) : ~StillOccupying(cmd'[c])
      <4> SUFFICES ASSUME acting = {}, NEW c \in Actions(cmd) \cap BatchCmds(cmd, b)
                   PROVE  ~StillOccupying(cmd'[c])
        OBVIOUS
      <4>1. c \in DOMAIN cmd
        BY DEF Actions
      <4>2. QED
        BY <1>5, <3>1, <4>1 DEF StillOccupying, Engaged, OutcomeUnknown
    <3>5. BatchMoves
      BY <1>1, <2>2, <3>4, OneBatchMoves
    <3>6. QED
      BY <3>1, <3>3, <3>5 DEF Moves
  <2>3. QED
    BY <2>1, <2>2
<1>7. \E S, D : Writes(S, D)
  BY AbortWrites DEF Basis
<1>8. QED
  BY <1>1, <1>6, <1>7, BooksMoved, StillCalm, Still

(* _reissue: a dispatching row for the step, taking over an action that is  *)
(* held there or none.                                                      *)
LEMMA ReissuedRow ==
  ASSUME NEW cs, Books(cs), NEW s, NEW a, NEW strategy \in DISPATCHING
  PROVE  LET q == Reissued(cs, s, a, strategy)
         IN /\ q.type \in DISPATCHING /\ q.step = s /\ q.state = "sent"
            /\ \/ q.target = NoCmd
               \/ /\ q.target \in Actions(cs) /\ cs[q.target].step = s
                  /\ cs[q.target].state = "held"
<1> DEFINE held == {c \in Actions(cs) : cs[c].step = s /\ cs[c].state = "held"}
           type == IF strategy = "resume" /\ held = {} /\ ~EverDelivered(cs, s, a)
                     THEN "dispatch" ELSE strategy
           target == IF held = {} THEN NoCmd ELSE CHOOSE c \in held : \A d \in held : d <= c
<1>1. Reissued(cs, s, a, strategy) = NewCommand(type, s, a, target)
  BY DEF Reissued
<1>2. held \subseteq CmdId
  BY DEF Actions, Books
<1>3. type \in DISPATCHING
  BY DEF DISPATCHING
<1>4. target = NoCmd \/ target \in held
  <2> HIDE DEF held
  <2>1. CASE held # {}
    <3>1. \E c \in held : \A d \in held : d <= c
      BY <1>2, <2>1, GreatestExists
    <3>2. QED
      BY <2>1, <3>1
  <2>2. QED
    BY <2>1
<1>5. target \in held => target \in Actions(cs) /\ cs[target].step = s /\ cs[target].state = "held"
  OBVIOUS
<1> HIDE DEF type, held, target
<1>6. QED
  BY <1>1, <1>3, <1>4, <1>5, NewCommandFields

(* recover: nothing of the batch is adrift, and what is resumed stands still. *)
LEMMA RecoverMoves ==
  ASSUME Basis, NEW b \in Batch, NEW strategy \in {"resume", "retry"}, Recover(b, strategy)
  PROVE  BookStep
<1> DEFINE acting  == ActingInBatch(cmd, b)
           moving  == {cmd[c].step : c \in acting}
           rs1     == Reattach(run, cmd, acting)
           main    == MainStep(b, rs1, strategy)
           ends    == strategy = "resume" /\ OpenSteps(rs1, b) = {} /\ DoneSteps(rs1, b) = StepsOf(b)
           opens   == main.attempt = 0
           rs2     == IF strategy = "retry" THEN Superseded(b, rs1) ELSE rs1
           rs3     == IF opens THEN [rs2 EXCEPT ![main.step] = Append(@, "ready")] ELSE rs2
           attempt == [s \in OpenSteps(rs3, b) |->
                         IF s # main.step THEN FirstOpen(rs3, s)
                         ELSE IF opens THEN Len(rs3[s]) ELSE main.attempt]
           others  == {s \in OpenSteps(rs3, b) \ {main.step} : ~HasLive(cmd, s, attempt[s])}
           again   == others \cup ({main.step} \ moving)
           new     == [s \in again |-> Reissued(cmd, s, attempt[s], IF s = main.step THEN strategy ELSE "resume")]
<1>1. /\ Books(cmd) /\ Runs(run) /\ current[b] \in StepsOf(b)
  BY DEF Basis, TypeInv, TypeOK, Runs, CurrentOwn
<1>2. MayDrive(b, strategy) /\ UNCHANGED <<job, phys>>
  BY Zenon DEF Recover
<1>3. IF ends
        THEN batch' = [batch EXCEPT ![b] = "done"] /\ UNCHANGED cmd
        ELSE /\ CanIssue(cmd, again)
             /\ batch' = [batch EXCEPT ![b] = "running"]
             /\ cmd' = Issue(cmd, new)
  BY Zenon DEF Recover
<1>4. \A h \in DOMAIN cmd : Adrift(h) => BatchOfCmd(h) # b
  BY <1>2 DEF MayDrive, Adrift, BatchCmds, BatchOfCmd
<1>5. again \subseteq StepsOf(b)
  <2>1. others \subseteq StepsOf(b)
    BY DEF OpenSteps
  <2>2. Runs(rs1)
    BY <1>1, ReattachTyped
  <2> HIDE DEF rs1, others
  <2>3. main.step \in StepsOf(b)
    BY <1>1, <2>2, MainStepOf
  <2> HIDE DEF main
  <2>4. QED
    BY <2>1, <2>3
<1>6. ASSUME NEW s \in again
      PROVE  /\ new[s].type \in DISPATCHING /\ new[s].step = s /\ new[s].state = "sent"
             /\ \/ new[s].target = NoCmd
                \/ /\ new[s].target \in Actions(cmd) /\ cmd[new[s].target].step = s
                   /\ cmd[new[s].target].state = "held"
  <2> DEFINE how == IF s = main.step THEN strategy ELSE "resume"
  <2>1. how \in DISPATCHING
    BY DEF DISPATCHING
  <2>2. new[s] = Reissued(cmd, s, attempt[s], how)
    OBVIOUS
  <2> HIDE DEF new, how, attempt
  <2>3. QED
    BY <1>1, <2>1, <2>2, ReissuedRow
<1>7. DOMAIN new = again
  OBVIOUS
<1> HIDE DEF new, again, ends
<1>8. Moves
  <2>1. CASE ends
    <3>1. batch' = [batch EXCEPT ![b] = "done"] /\ cmd' = cmd
      BY <1>3, <2>1
    <3>2. BatchMoves
      BY <3>1, OneBatchMoves
    <3>3. QED
      BY <3>1, <3>2, SameRow DEF Moves
  <2>2. CASE ~ends
    <3>1. CanIssue(cmd, again) /\ batch' = [batch EXCEPT ![b] = "running"] /\ cmd' = Issue(cmd, new)
      BY <1>3, <2>2
    <3>2. BatchMoves
      BY <1>4, <3>1, OneBatchMoves
    <3>3. batch'[b] = "running"
      BY <3>1 DEF Basis, TypeInv, TypeOK
    <3>4. /\ \A x \in DOMAIN cmd : cmd'[x] = cmd[x]
          /\ \A n \in DOMAIN cmd' \ DOMAIN cmd : \E m \in DOMAIN new : cmd'[n] = new[m]
      BY <1>7, <3>1, IssueAdds
    <3>5. ASSUME NEW n \in DOMAIN cmd' \ DOMAIN cmd PROVE NewRow(n)
      <4>1. PICK s \in again : cmd'[n] = new[s]
        BY <1>7, <3>4
      <4>2. BatchOf[s] = b
        BY <1>5 DEF StepsOf
      <4>3. \A t \in Actions(cmd) : t \in DOMAIN cmd /\ (cmd[t].state = "held" => phys[t] \in AtRest)
        BY DEF Basis, DeviceInv, HeldAtRest, Actions
      <4>4. /\ cmd'[n].type \in DISPATCHING /\ cmd'[n].step = s /\ cmd'[n].state = "sent"
            /\ \/ cmd'[n].target = NoCmd
               \/ /\ cmd'[n].target \in Actions(cmd) /\ cmd[cmd'[n].target].step = s
                  /\ cmd[cmd'[n].target].state = "held"
        BY <1>6, <4>1
      <4>5. QED
        BY <1>4, <3>3, <3>4, <4>2, <4>3, <4>4 DEF NewRow, DISPATCHING
    <3>6. QED
      BY <3>2, <3>4, <3>5, SameRow DEF Moves
  <2>3. QED
    BY <2>1, <2>2
<1>9. Writes({}, {})
  BY RecoverWrites DEF Basis
<1>10. QED
  BY <1>2, <1>8, <1>9, BooksMoved, StillCalm, Still

(* A command without a verdict is nobody's to settle any more.              *)
LEMMA UnknownIsSettled ==
  ASSUME Basis, NEW x \in DOMAIN cmd, cmd[x].state = "unknown"
  PROVE  ~Unsettled(x)
BY DEF Basis, BookInv, CallsRemember, Unsettled

(* finish_hanging_aborts: what lacks a verdict is closed.                   *)
LEMMA FinishAbortsMoves ==
  ASSUME Basis, NEW b \in Batch, FinishAborts(b)
  PROVE  BookStep
<1>1. FinalizeAbort(cmd, b, NoCmd) /\ UNCHANGED <<job, phys>>
  BY Zenon DEF FinishAborts
<1>2. Books(cmd)
  BY DEF Basis, TypeInv
<1>3. /\ DOMAIN cmd' = DOMAIN cmd
      /\ \A d \in DOMAIN cmd :
           \/ cmd'[d] = cmd[d]
           \/ /\ Only(cmd[d], cmd'[d], "cancelled") /\ cmd[d].state = "unknown"
              /\ cmd[d].type \in DISPATCHING => ~OutcomeUnknown(cmd[d])
      /\ \/ batch' = batch
         \/ /\ batch' = [batch EXCEPT ![b] = "aborted"]
            /\ \A d \in DOMAIN cmd : cmd[d].type \in DISPATCHING /\ BatchOf[cmd[d].step] = b
                 => ~StillOccupying(cmd'[d])
  BY <1>1, <1>2, FinalizeAbortRows
<1>4. \A x \in DOMAIN cmd : Row(x)
  BY <1>3, SameRow, UnknownIsSettled DEF Row, RowCancelled, Actions
<1>5. BatchMoves
  <2>1. CASE batch' = batch
    BY <2>1, NoBatchMoves
  <2>2. CASE batch' = [batch EXCEPT ![b] = "aborted"]
    <3>1. \A c \in Actions(cmd) \cap BatchCmds(cmd, b) : ~StillOccupying(cmd'[c]) \/ batch' = batch
      BY <1>3 DEF Actions, BatchCmds
    <3>2. QED
      BY <2>1, <2>2, <3>1, OneBatchMoves
  <2>3. QED
    BY <1>3, <2>1, <2>2
<1>6. Moves
  BY <1>3, <1>4, <1>5 DEF Moves
<1>7. Writes({}, {})
  BY FinishAbortsWrites DEF Basis
<1>8. QED
  BY <1>1, <1>6, <1>7, BooksMoved, StillCalm, Still

-----------------------------------------------------------------------------
(* Verdicts and settlements: the table the worker or person has in hand     *)

(* A table that differs from the books at c at most, and not in what c is.  *)
Differs(cs, c) ==
  /\ Books(cs) /\ DOMAIN cs = DOMAIN cmd
  /\ cs[c].type = cmd[c].type /\ cs[c].step = cmd[c].step /\ cs[c].target = cmd[c].target
  /\ \A d \in DOMAIN cmd \ {c} : cs[d] = cmd[d]

(* complete_device_step of an action its device has done.                   *)
LEMMA CompleteMoves ==
  ASSUME Basis, NEW c \in Actions(cmd), phys[c] = "done",
         cmd[c].state = "unknown" \/ (InHands(c) /\ Leaves(c)),
         NEW cs, Differs(cs, c), cmd' = CompleteStep(cs, c)
  PROVE  DOMAIN cmd' = DOMAIN cmd /\ \A x \in DOMAIN cmd : Row(x)
<1>1. /\ c \in DOMAIN cmd /\ c \in CmdId /\ Free(c) /\ Tgt(c) # c
      /\ Tgt(c) # NoCmd => Tgt(c) \in Actions(cmd) /\ phys[Tgt(c)] \in AtRest
                           /\ cmd[Tgt(c)].step = cmd[c].step
  <2>1. c \in DOMAIN cmd
    BY DEF Actions
  <2>2. c \in CmdId /\ Free(c)
    BY <2>1, BatchOfRow, GivenIsFree
  <2>3. c # NoCmd
    BY <2>2, BoundAssumption DEF CmdId, NoCmd
  <2>4. QED
    BY <2>1, <2>2, <2>3 DEF Basis, BookInv, TargetsFit, DeviceInv, ResumedAtRest
<1>2. /\ DOMAIN cmd' = DOMAIN cmd /\ Only(cs[c], cmd'[c], "done")
      /\ \A d \in DOMAIN cmd \ {c} :
           \/ cmd'[d] = cmd[d]
           \/ /\ Only(cmd[d], cmd'[d], "superseded")
              /\ \/ d = Tgt(c) /\ d # NoCmd
                 \/ cmd[d].state = "held" /\ cmd[d].step = cmd[c].step
  <2>1. /\ Books(cs) /\ DOMAIN cs = DOMAIN cmd /\ cs[c].step = cmd[c].step /\ cs[c].target = Tgt(c)
        /\ \A d \in DOMAIN cmd \ {c} : cs[d] = cmd[d]
    BY DEF Differs, Tgt
  <2>2. /\ DOMAIN cmd' = DOMAIN cs /\ Only(cs[c], cmd'[c], "done")
        /\ \A d \in DOMAIN cs \ {c} :
             \/ cmd'[d] = cs[d]
             \/ /\ Only(cs[d], cmd'[d], "superseded")
                /\ \/ cs[c].type \in DISPATCHING /\ d = cs[c].target /\ d # NoCmd
                   \/ cs[d].state = "held" /\ cs[d].step = cs[c].step
    BY <1>1, <2>1, CompleteStepRows
  <2>3. QED
    BY <2>1, <2>2
<1>3. RowDone(c)
  BY <1>1, <1>2 DEF RowDone, Only
<1>4. ASSUME NEW d \in DOMAIN cmd \ {c} PROVE Row(d)
  <2>1. CASE cmd'[d] = cmd[d]
    BY <2>1, SameRow
  <2>2. CASE Only(cmd[d], cmd'[d], "superseded") /\ d = Tgt(c) /\ d # NoCmd
    <3>1. Displaces(c, d) /\ d \in Actions(cmd) /\ phys[d] \in AtRest
      BY <1>1, <2>2 DEF Displaces
    <3>2. QED
      BY <1>1, <2>2, <3>1 DEF Row, RowTakenOver
  <2>3. CASE /\ Only(cmd[d], cmd'[d], "superseded")
             /\ cmd[d].state = "held" /\ cmd[d].step = cmd[c].step
    <3>1. d \in Actions(cmd) /\ phys[d] \in AtRest
      BY <2>3 DEF Basis, BookInv, StatesFit, DeviceInv, HeldAtRest
    <3>2. Displaces(c, d)
      BY <2>3 DEF Displaces
    <3>3. QED
      BY <1>1, <2>3, <3>1, <3>2 DEF Row, RowTakenOver
  <2>4. QED
    BY <1>2, <2>1, <2>2, <2>3
<1>5. QED
  BY <1>2, <1>3, <1>4 DEF Row

(* confirm_hold: the hold is done and the actions H are held.               *)
LEMMA HoldConfirmedMoves ==
  ASSUME Basis, NEW c \in DOMAIN cmd, cmd[c].type = "hold", Free(c),
         cmd[c].state = "unknown" \/ Leaves(c),
         NEW cs, Differs(cs, c), cs[c].state = "done",
         NEW H, \A d \in H \cap DOMAIN cmd : d \in Actions(cmd) /\ Up(d) /\ phys[d] \in AtRest,
         cmd' = [d \in DOMAIN cmd |-> IF d \in H THEN WithState(cs[d], "held") ELSE cs[d]]
  PROVE  \A x \in DOMAIN cmd : Row(x)
<1>1. c \notin Actions(cmd) /\ c \notin H
  BY DEF Actions, DISPATCHING
<1>2. RowDone(c)
  BY <1>1 DEF RowDone
<1>3. ASSUME NEW d \in DOMAIN cmd \ {c} PROVE Row(d)
  <2>1. cs[d] = cmd[d] /\ cmd[d] \in Command /\ "held" \in CommandState
    BY DEF Differs, Basis, TypeInv, Books, CommandState
  <2>2. Only(cmd[d], WithState(cmd[d], "held"), "held")
    BY <2>1, RowState DEF Only
  <2>3. CASE d \in H
    <3>1. cmd'[d] = WithState(cmd[d], "held")
      BY <2>1, <2>3
    <3>2. QED
      BY <2>2, <2>3, <3>1 DEF Row, RowHeld
  <2>4. CASE d \notin H
    BY <2>1, <2>4, SameRow
  <2>5. QED
    BY <2>3, <2>4
<1>4. QED
  BY <1>2, <1>3 DEF Row

(* _confirm_abort: the abort is done and what it stopped is cancelled.      *)
LEMMA AbortConfirmedMoves ==
  ASSUME Basis, NEW c \in DOMAIN cmd, cmd[c].type = "abort", Free(c),
         cmd[c].state = "unknown" \/ Leaves(c),
         NEW cs, Differs(cs, c), cs[c].state = "done",
         NEW stopped,
         \A d \in stopped : d \in Actions(cmd) /\ ~Unsettled(d) /\ phys'[d] \notin Physical,
         ConfirmAbort(cs, c, stopped)
  PROVE  DOMAIN cmd' = DOMAIN cmd /\ (\A x \in DOMAIN cmd : Row(x)) /\ BatchMoves
<1>1. c \notin Actions(cmd) /\ c \notin stopped
  BY DEF Actions, DISPATCHING
<1> DEFINE b == BatchOfCmd(c)
<1>2. b \in Batch /\ BatchOf[cs[c].step] = b
  BY BatchOfRow DEF Differs, BatchOfCmd
<1>3. /\ DOMAIN cmd' = DOMAIN cmd /\ cmd'[c] = cs[c]
      /\ \A d \in DOMAIN cmd \ {c} :
           \/ d \in stopped /\ Only(cmd[d], cmd'[d], "cancelled")
           \/ cmd'[d] = cmd[d]
           \/ /\ Only(cmd[d], cmd'[d], "cancelled") /\ cmd[d].state = "unknown"
              /\ cmd[d].type \in DISPATCHING => ~OutcomeUnknown(cmd[d])
      /\ \/ batch' = batch
         \/ /\ batch' = [batch EXCEPT ![b] = "aborted"]
            /\ \A d \in DOMAIN cmd \ {c} : cmd[d].type \in DISPATCHING /\ BatchOf[cmd[d].step] = b
                 => ~StillOccupying(cmd'[d])
  <2>1. /\ Books(cs) /\ DOMAIN cs = DOMAIN cmd /\ \A d \in DOMAIN cmd \ {c} : cs[d] = cmd[d]
    BY DEF Differs
  <2>2. /\ DOMAIN cmd' = DOMAIN cs /\ cmd'[c] = cs[c]
        /\ \A d \in DOMAIN cs :
             \/ d \in stopped /\ Only(cs[d], cmd'[d], "cancelled")
             \/ d \notin stopped /\ cmd'[d] = cs[d]
             \/ /\ Only(cs[d], cmd'[d], "cancelled") /\ cs[d].state = "unknown"
                /\ d \notin stopped
                /\ cs[d].type \in DISPATCHING => ~OutcomeUnknown(cs[d])
        /\ \/ batch' = batch
           \/ /\ batch' = [batch EXCEPT ![b] = "aborted"]
              /\ \A d \in DOMAIN cs : cs[d].type \in DISPATCHING /\ BatchOf[cs[d].step] = b
                   => ~StillOccupying(cmd'[d])
    BY <1>1, <1>2, <2>1, ConfirmAbortRows
  <2> HIDE DEF b
  <2>3. QED
    BY <2>1, <2>2
<1>4. RowDone(c)
  BY <1>1, <1>3 DEF RowDone
<1>5. ASSUME NEW d \in DOMAIN cmd \ {c} PROVE Row(d)
  <2>1. CASE d \in stopped /\ Only(cmd[d], cmd'[d], "cancelled")
    BY <2>1 DEF Row, RowCancelled
  <2>2. CASE cmd'[d] = cmd[d]
    BY <2>2, SameRow
  <2>3. CASE /\ Only(cmd[d], cmd'[d], "cancelled") /\ cmd[d].state = "unknown"
             /\ cmd[d].type \in DISPATCHING => ~OutcomeUnknown(cmd[d])
    BY <2>3, UnknownIsSettled DEF Row, RowCancelled, Actions
  <2>4. QED
    BY <1>3, <2>1, <2>2, <2>3
<1>6. BatchMoves
  <2>1. CASE batch' = batch
    BY <2>1, NoBatchMoves
  <2>2. CASE /\ batch' = [batch EXCEPT ![b] = "aborted"]
             /\ \A d \in DOMAIN cmd \ {c} : cmd[d].type \in DISPATCHING /\ BatchOf[cmd[d].step] = b
                  => ~StillOccupying(cmd'[d])
    <3>1. \A d \in Actions(cmd) \cap BatchCmds(cmd, b) : ~StillOccupying(cmd'[d])
      BY <1>1, <2>2 DEF Actions, BatchCmds
    <3>2. QED
      BY <1>2, <2>2, <3>1, OneBatchMoves
  <2>3. QED
    BY <1>3, <2>1, <2>2
<1>7. QED
  BY <1>3, <1>4, <1>5, <1>6 DEF Row

(* The actions a hold or abort is about may be acting; if it names one, it  *)
(* is about that one.                                                       *)
LEMMA ControlTargetsOf ==
  ASSUME NEW cs, NEW c
  PROVE  /\ \A d \in ControlTargets(cs, c) : d \in Actions(cs) /\ StillOccupying(cs[d])
         /\ cs[c].target # NoCmd => ControlTargets(cs, c) \subseteq {cs[c].target}
         /\ cs[c].target = NoCmd => ControlTargets(cs, c) \subseteq BatchCmds(cs, BatchOf[cs[c].step])
BY DEF ControlTargets, PossiblyActing

(* The books themselves, and one row of such a table in another state.      *)
LEMMA StateSetDiffers ==
  ASSUME Basis, NEW c \in DOMAIN cmd, NEW cs, Differs(cs, c), NEW v \in CommandState
  PROVE  LET ds == [cs EXCEPT ![c].state = v]
         IN Differs(ds, c) /\ Only(cs[c], ds[c], v)
<1> DEFINE ds == [cs EXCEPT ![c].state = v]
<1>1. Books(cs) /\ c \in DOMAIN cs
  BY DEF Differs
<1>2. /\ Books(ds) /\ DOMAIN ds = DOMAIN cs /\ Only(cs[c], ds[c], v)
      /\ ds[c].type = cs[c].type /\ ds[c].step = cs[c].step /\ ds[c].target = cs[c].target
      /\ \A d \in DOMAIN cs \ {c} : ds[d] = cs[d]
  BY <1>1, StateSetRows
<1> HIDE DEF ds
<1>3. Differs(ds, c) /\ Only(cs[c], ds[c], v)
  BY <1>2 DEF Differs
<1>4. QED
  BY <1>3 DEF ds

(* The books differ from themselves in nothing.                             *)
LEMMA BooksDiffer ==
  ASSUME Basis, NEW c
  PROVE  Differs(cmd, c)
BY DEF Differs, Basis, TypeInv

(* The books with one command delivered.                                    *)
LEMMA DeliveredDiffers ==
  ASSUME Basis, NEW c \in DOMAIN cmd
  PROVE  LET ds == [cmd EXCEPT ![c].delivery = "delivered"]
         IN /\ Differs(ds, c) /\ ds[c].delivery = "delivered"
            /\ ds[c].state = cmd[c].state /\ ds[c].outcome = cmd[c].outcome
<1> DEFINE ds == [cmd EXCEPT ![c].delivery = "delivered"]
<1>1. Books(cmd) /\ "delivered" \in Delivery
  BY DEF Basis, TypeInv, Delivery
<1>2. /\ Books(ds) /\ DOMAIN ds = DOMAIN cmd
      /\ ds[c].state = cmd[c].state /\ ds[c].delivery = "delivered"
      /\ ds[c].outcome = cmd[c].outcome
      /\ ds[c].type = cmd[c].type /\ ds[c].step = cmd[c].step /\ ds[c].target = cmd[c].target
      /\ \A d \in DOMAIN cmd \ {c} : ds[d] = cmd[d]
  BY <1>1, DeliverySetRows
<1> HIDE DEF ds
<1>3. QED
  BY <1>2 DEF Differs, ds

(* What a worker settles on: the books, with its command delivered unless   *)
(* it polled.                                                               *)
LEMMA SeenDiffers ==
  ASSUME Basis, NEW st \in Station, NEW c \in DOMAIN cmd, c = Mine(st)
  PROVE  /\ Differs(Seen(st), c)
         /\ Seen(st)[c].state = cmd[c].state /\ Seen(st)[c].outcome = cmd[c].outcome
         /\ job[st].kind # "poll" => Seen(st)[c].delivery = "delivered"
         /\ job[st].kind = "poll" => Seen(st)[c].delivery = cmd[c].delivery
<1>1. CASE job[st].kind = "poll"
  BY <1>1, BooksDiffer DEF Seen
<1>2. CASE job[st].kind # "poll"
  <2> DEFINE ds == [cmd EXCEPT ![c].delivery = "delivered"]
  <2>1. Seen(st) = ds
    BY <1>2 DEF Seen
  <2>2. /\ Differs(ds, c) /\ ds[c].delivery = "delivered"
        /\ ds[c].state = cmd[c].state /\ ds[c].outcome = cmd[c].outcome
    BY DeliveredDiffers
  <2> HIDE DEF ds
  <2>3. QED
    BY <1>2, <2>1, <2>2
<1>3. QED
  BY <1>1, <1>2

-----------------------------------------------------------------------------
(* A person's verdict                                                       *)

(* executed: of an action that is done, of a hold whose actions stand, of   *)
(* an abort whose device the person has stopped.                            *)
LEMMA VerifyExecutedMoves ==
  ASSUME Basis, NEW c \in DOMAIN cmd, VerifyExecuted(c)
  PROVE  BookStep
<1> DEFINE seen  == [cmd EXCEPT ![c].delivery = "delivered"]
           done  == [seen EXCEPT ![c].state = "done"]
           about == ControlTargets(cmd, c)
           H     == {d \in about : InFlight(cmd[d])}
           stop  == [d \in CmdId |-> IF d \in about /\ phys[d] \in Physical THEN "stopped" ELSE phys[d]]
<1>1. /\ cmd[c].state = "unknown" /\ UNCHANGED job
      /\ \/ /\ cmd[c].type \in DISPATCHING /\ phys[c] = "done"
            /\ cmd' = CompleteStep(seen, c) /\ UNCHANGED <<batch, phys>>
         \/ /\ cmd[c].type = "hold" /\ \A t \in about : phys[t] = "held"
            /\ cmd' = [d \in DOMAIN cmd |-> IF d \in about /\ InFlight(cmd[d])
                                             THEN WithState(done[d], "held") ELSE done[d]]
            /\ UNCHANGED <<batch, phys>>
         \/ /\ cmd[c].type = "abort" /\ ConfirmAbort(done, c, about) /\ phys' = stop
  BY Zenon DEF VerifyExecuted, WithState
<1>2. /\ Differs(seen, c) /\ Differs(done, c) /\ done[c].state = "done"
  <2>1. Differs(seen, c) /\ "done" \in CommandState
    BY DeliveredDiffers DEF CommandState
  <2> HIDE DEF seen
  <2>2. Differs(done, c) /\ Only(seen[c], done[c], "done")
    BY <2>1, StateSetDiffers
  <2>3. QED
    BY <2>1, <2>2 DEF Only
<1>3. Free(c) /\ phys \in [CmdId -> Phys]
  BY <1>1, SentIsFree DEF Basis, TypeInv, TypeOK
<1>4. \A d \in about : d \in Actions(cmd) /\ StillOccupying(cmd[d]) /\ d \in DOMAIN cmd /\ d \in CmdId
  BY ControlTargetsOf, CmdOwn DEF Actions, Basis
<1> HIDE DEF seen, done
<1>5. CASE /\ cmd[c].type \in DISPATCHING /\ phys[c] = "done"
           /\ cmd' = CompleteStep(seen, c) /\ UNCHANGED <<batch, phys>>
  <2>1. c \in Actions(cmd)
    BY <1>5 DEF Actions
  <2>2. DOMAIN cmd' = DOMAIN cmd /\ \A x \in DOMAIN cmd : Row(x)
    BY <1>1, <1>2, <1>5, <2>1, CompleteMoves
  <2>3. Moves /\ PhysCalm
    BY <1>5, <2>2, NoBatchMoves, StillCalm DEF Moves
  <2>4. QED
    BY <1>1, <2>3, BooksMoved, Still, VerifyExecutedWrites DEF Basis
<1>6. CASE /\ cmd[c].type = "hold" /\ \A t \in about : phys[t] = "held"
           /\ cmd' = [d \in DOMAIN cmd |-> IF d \in about /\ InFlight(cmd[d])
                                             THEN WithState(done[d], "held") ELSE done[d]]
           /\ UNCHANGED <<batch, phys>>
  <2>1. \A d \in H \cap DOMAIN cmd : d \in Actions(cmd) /\ Up(d) /\ phys[d] \in AtRest
    BY <1>4, <1>6 DEF Up, AtRest
  <2>2. cmd' = [d \in DOMAIN cmd |-> IF d \in H THEN WithState(done[d], "held") ELSE done[d]]
    BY <1>6
  <2> HIDE DEF H
  <2>3. \A x \in DOMAIN cmd : Row(x)
    BY <1>1, <1>2, <1>3, <1>6, <2>1, <2>2, HoldConfirmedMoves, ZenonT(60)
  <2>4. Moves /\ PhysCalm
    BY <1>6, <2>2, <2>3, NoBatchMoves, StillCalm DEF Moves
  <2>5. QED
    BY <1>1, <2>4, BooksMoved, Still, VerifyExecutedWrites DEF Basis
<1>7. CASE cmd[c].type = "abort" /\ ConfirmAbort(done, c, about) /\ phys' = stop
  <2>1. PhysCalm /\ \A d \in about : phys'[d] \notin Physical
    BY <1>3, <1>4, <1>7 DEF PhysCalm, Physical
  <2>2. Tgt(c) # NoCmd /\ about \subseteq {Tgt(c)}
    BY <1>7, ControlTargetsOf DEF Basis, BookInv, TargetsFit, Tgt
  <2>3. \A d \in about : d \in Actions(cmd) /\ ~Unsettled(d) /\ phys'[d] \notin Physical
    BY <1>3, <1>4, <2>1, <2>2 DEF Free
  <2> HIDE DEF about, stop
  <2>4. DOMAIN cmd' = DOMAIN cmd /\ (\A x \in DOMAIN cmd : Row(x)) /\ BatchMoves
    BY <1>1, <1>2, <1>3, <1>7, <2>3, AbortConfirmedMoves
  <2>5. Moves
    BY <2>4 DEF Moves
  <2>6. QED
    BY <1>1, <2>1, <2>5, BooksMoved, Still, VerifyExecutedWrites DEF Basis
<1>8. QED
  BY <1>1, <1>5, <1>6, <1>7

(* not executed, or in part: nothing of it goes on at the device.           *)
LEMMA VerdictMoves ==
  ASSUME Basis, NEW c \in DOMAIN cmd, cmd[c].state = "unknown",
         NEW v \in {"not_executed", "partial"}, cmd' = [cmd EXCEPT ![c].state = v],
         c \in Actions(cmd) => phys'[c] \notin Physical
  PROVE  DOMAIN cmd' = DOMAIN cmd /\ \A x \in DOMAIN cmd : Row(x)
<1>1. Books(cmd) /\ v \in CommandState
  BY DEF Basis, TypeInv, CommandState
<1>2. /\ DOMAIN cmd' = DOMAIN cmd /\ Only(cmd[c], cmd'[c], v)
      /\ \A d \in DOMAIN cmd \ {c} : cmd'[d] = cmd[d]
  BY <1>1, StateSetRows
<1>3. RowVoided(c)
  BY <1>2, SentIsFree DEF RowVoided, Only
<1>4. QED
  BY <1>2, <1>3, SameRow DEF Row

(* not executed: the device never took the action, or the hold or abort     *)
(* did not stop it.                                                         *)
LEMMA VerifyNotExecutedMoves ==
  ASSUME Basis, NEW c \in DOMAIN cmd, VerifyNotExecuted(c)
  PROVE  BookStep
<1> DEFINE b == BatchOfCmd(c)
<1>1. /\ cmd[c].state = "unknown" /\ cmd' = [cmd EXCEPT ![c].state = "not_executed"]
      /\ cmd[c].type \in DISPATCHING => phys[c] = "none"
      /\ batch' = batch \/ batch' = [batch EXCEPT ![b] = "fault"]
      /\ UNCHANGED <<job, phys>>
  <2>1. /\ cmd[c].state = "unknown" /\ cmd' = [cmd EXCEPT ![c].state = "not_executed"]
        /\ \/ cmd[c].type \in DISPATCHING /\ phys[c] = "none" /\ UNCHANGED batch
           \/ /\ cmd[c].type \in Control
              /\ batch' = batch \/ batch' = [batch EXCEPT ![b] = "fault"]
        /\ UNCHANGED <<job, phys>>
    BY Zenon DEF VerifyNotExecuted
  <2>2. QED
    BY <2>1 DEF Control, DISPATCHING
<1>2. DOMAIN cmd' = DOMAIN cmd /\ \A x \in DOMAIN cmd : Row(x)
  BY <1>1, VerdictMoves DEF Actions, Physical
<1>3. BatchMoves
  BY <1>1, BatchOfRow, NoBatchMoves, OneBatchMoves
<1>4. Moves
  BY <1>2, <1>3 DEF Moves
<1>5. QED
  BY <1>1, <1>4, BooksMoved, Still, StillCalm, VerifyNotExecutedWrites DEF Basis

(* partial: the person stops what is left of the action.                    *)
LEMMA VerifyPartialMoves ==
  ASSUME Basis, NEW c \in DOMAIN cmd, VerifyPartial(c)
  PROVE  BookStep
<1>1. /\ cmd[c].state = "unknown" /\ cmd' = [cmd EXCEPT ![c].state = "partial"]
      /\ UNCHANGED <<job, batch>>
      /\ \/ /\ cmd[c].type \in DISPATCHING
            /\ phys' = IF phys[c] \in Physical THEN [phys EXCEPT ![c] = "stopped"] ELSE phys
         \/ cmd[c].type = "abort" /\ phys' = phys
  BY Zenon DEF VerifyPartial
<1>2. c \in CmdId /\ phys \in [CmdId -> Phys]
  BY CmdOwn DEF Basis, TypeInv, TypeOK
<1>3. PhysCalm /\ (c \in Actions(cmd) => phys'[c] \notin Physical)
  BY <1>1, <1>2 DEF PhysCalm, Actions, DISPATCHING, Physical
<1>4. DOMAIN cmd' = DOMAIN cmd /\ \A x \in DOMAIN cmd : Row(x)
  BY <1>1, <1>3, VerdictMoves
<1>5. Moves
  BY <1>1, <1>4, NoBatchMoves DEF Moves
<1>6. QED
  BY <1>1, <1>3, <1>5, BooksMoved, Still, VerifyPartialWrites DEF Basis

-----------------------------------------------------------------------------
(* A fault                                                                  *)

(* fault: the command is left without a verdict, or settled as not sent and *)
(* sent afresh.  Who faults a command must have let go of it, must know     *)
(* that its device is engaged only if the verdict says so, and may take     *)
(* back only what no device and no hold still waits for.                    *)
LEMMA FaultMoves ==
  ASSUME Basis, NEW c \in DOMAIN cmd, NEW cs, Differs(cs, c), NEW rs, NEW snap,
         NEW delivery \in Delivery, Fault(c, delivery, snap, cs, rs),
         Leaves(c), Free(c), phys' = phys,
         phys[c] \in Physical \cup {"done"} =>
           delivery = "maybe_sent" \/ (delivery = "delivered" /\ cs[c].outcome = "unknown"),
         delivery \in Given => Up(c),
         delivery = "unreachable" /\ c \in Actions(cmd) =>
           phys[c] = "none" /\ \A h \in DOMAIN cmd : Adrift(h) => BatchOfCmd(h) # BatchOfCmd(c)
  PROVE  Moves
<1> DEFINE r   == cs[c]
           b   == BatchOf[r.step]
           cs1 == MarkUnknown(cs, c, delivery)
           rs1 == RunUnknown(rs, r)
           live == snap.batch \notin BatchEnded
           faulted == IF live /\ snap.batch # "fault" THEN [batch EXCEPT ![b] = "fault"] ELSE batch
<1>1. \/ NeverLeft(cs1[c]) /\ AutoRetried(c, cs1, rs1, faulted)
      \/ cmd' = cs1 /\ batch' = faulted
  BY Zenon DEF Fault
<1>2. /\ b = BatchOfCmd(c) /\ b \in Batch /\ batch[b] # "scheduled" /\ Books(cs) /\ c \in DOMAIN cs
  BY BatchOfRow DEF Differs, BatchOfCmd
<1>3. faulted = batch \/ faulted = [batch EXCEPT ![b] = "fault"]
  OBVIOUS
<1>4. /\ Books(cs1) /\ DOMAIN cs1 = DOMAIN cmd /\ cs1[c].state = "unknown"
      /\ cs1[c].delivery = delivery /\ cs1[c].outcome = cs[c].outcome
      /\ cs1[c].type = cmd[c].type /\ cs1[c].step = cmd[c].step /\ cs1[c].target = cmd[c].target
      /\ \A d \in DOMAIN cmd \ {c} : cs1[d] = cmd[d]
  <2> DEFINE ds == Put(cs, c, Marked(cs[c], "unknown", delivery))
  <2>1. cs1 = ds
    BY Zenon DEF MarkUnknown, Put, Marked
  <2>2. "unknown" \in CommandState
    BY DEF CommandState
  <2>3. /\ Books(ds) /\ DOMAIN ds = DOMAIN cs
        /\ ds[c].state = "unknown" /\ ds[c].delivery = delivery /\ ds[c].outcome = cs[c].outcome
        /\ ds[c].type = cs[c].type /\ ds[c].step = cs[c].step /\ ds[c].target = cs[c].target
        /\ \A d \in DOMAIN cs \ {c} : ds[d] = cs[d]
    BY <1>2, <2>2, MarkedRows
  <2> HIDE DEF ds, cs1
  <2>4. QED
    BY <2>1, <2>3 DEF Differs
<1> HIDE DEF cs1, rs1, faulted, b
<1>5. CASE cmd' = cs1 /\ batch' = faulted
  <2>1. RowFaulted(c)
    BY <1>4, <1>5 DEF RowFaulted, OutcomeUnknown, Given
  <2>2. BatchMoves
    BY <1>2, <1>3, <1>5, NoBatchMoves, OneBatchMoves
  <2>3. QED
    BY <1>4, <1>5, <2>1, <2>2, SameRow DEF Moves, Row
<1>6. CASE NeverLeft(cs1[c]) /\ AutoRetried(c, cs1, rs1, faulted)
  <2> DEFINE kind  == IF cs1[c].type = "resume" /\ ~EverDelivered(cs1, cs1[c].step, cs1[c].attempt)
                        THEN "dispatch" ELSE cs1[c].type
             fresh == NewCommand(kind, cs1[c].step, cs1[c].attempt,
                                 IF kind = "dispatch" THEN NoCmd ELSE cs1[c].target)
             old   == [cs1 EXCEPT ![c].state = "not_executed"]
             new   == [x \in {c} |-> fresh]
  <2>1. /\ CanIssue(cs1, {c}) /\ cmd' = Issue(old, new)
        /\ batch' = faulted \/ batch' = [batch EXCEPT ![BatchOf[cs1[c].step]] = "running"]
    BY <1>6, Zenon DEF AutoRetried
  <2>2. /\ delivery = "unreachable" /\ cmd[c].type \in DISPATCHING /\ c \in Actions(cmd)
        /\ phys[c] = "none" /\ \A h \in DOMAIN cmd : Adrift(h) => BatchOfCmd(h) # b
    BY <1>2, <1>4, <1>6 DEF NeverLeft, Actions
  <2>3. /\ DOMAIN old = DOMAIN cmd /\ old[c].state = "not_executed"
        /\ \A d \in DOMAIN cmd \ {c} : old[d] = cmd[d]
    <3>1. c \in DOMAIN cs1 /\ "not_executed" \in CommandState
      BY <1>4 DEF CommandState
    <3>2. /\ DOMAIN old = DOMAIN cs1 /\ Only(cs1[c], old[c], "not_executed")
          /\ \A d \in DOMAIN cs1 \ {c} : old[d] = cs1[d]
      BY <1>4, <3>1, StateSetRows
    <3> HIDE DEF old
    <3>3. QED
      BY <1>4, <3>2 DEF Only
  <2>4. /\ new[c].type \in DISPATCHING /\ new[c].step = cmd[c].step /\ new[c].state = "sent"
        /\ new[c].target \in {NoCmd, Tgt(c)}
    <3>1. kind \in DISPATCHING
      BY <1>4, <2>2 DEF DISPATCHING
    <3>2. new[c] = fresh
      OBVIOUS
    <3> HIDE DEF kind, new
    <3>3. QED
      BY <1>4, <3>1, <3>2, NewCommandFields DEF Tgt
  <2>5. DOMAIN new = {c}
    OBVIOUS
  <2> HIDE DEF old, new
  <2>6. CanIssue(old, DOMAIN new)
    BY <1>4, <2>1, <2>3, <2>5 DEF CanIssue, FreeIds
  <2>7. /\ \A x \in DOMAIN cmd : cmd'[x] = old[x]
        /\ \A n \in DOMAIN cmd' \ DOMAIN cmd : cmd'[n] = new[c]
    <3>1. /\ \A x \in DOMAIN old : cmd'[x] = old[x]
          /\ \A n \in DOMAIN cmd' \ DOMAIN old : \E m \in DOMAIN new : cmd'[n] = new[m]
      BY <2>1, <2>6, IssueAdds
    <3>2. QED
      BY <2>3, <2>5, <3>1
  <2>8. RowVoided(c)
    BY <2>2, <2>3, <2>7 DEF RowVoided, Physical
  <2>9. batch' = batch \/ batch' = [batch EXCEPT ![b] = "fault"] \/ batch' = [batch EXCEPT ![b] = "running"]
    BY <1>2, <1>3, <1>4, <2>1 DEF BatchOfCmd
  <2>10. BatchMoves
    BY <1>2, <2>2, <2>9, NoBatchMoves, OneBatchMoves
  <2>11. batch'[b] # "scheduled"
    BY <1>2, <2>9 DEF Basis, TypeInv, TypeOK
  <2>12. Tgt(c) # NoCmd => /\ Tgt(c) \in Actions(cmd) /\ Tgt(c) # c /\ Tgt(c) \in DOMAIN cmd
                           /\ cmd[Tgt(c)].step = cmd[c].step /\ cmd[Tgt(c)].state # "sent"
                           /\ phys[Tgt(c)] \in AtRest
    BY <2>2 DEF Basis, BookInv, TargetsFit, DeviceInv, ResumedAtRest, Actions
  <2>13. \A n \in DOMAIN cmd' \ DOMAIN cmd : NewRow(n)
    <3> SUFFICES ASSUME NEW n \in DOMAIN cmd' \ DOMAIN cmd PROVE NewRow(n)
      OBVIOUS
    <3>1. /\ cmd'[n].type \in DISPATCHING /\ cmd'[n].step = cmd[c].step /\ cmd'[n].state = "sent"
          /\ cmd'[n].target \in {NoCmd, Tgt(c)}
      BY <2>4, <2>7
    <3>2. BatchOf[cmd'[n].step] = b
      BY <1>2, <3>1 DEF BatchOfCmd
    <3>3. Tgt(c) # NoCmd => cmd'[Tgt(c)].state # "sent"
      BY <2>3, <2>7, <2>12
    <3>4. QED
      BY <2>2, <2>11, <2>12, <3>1, <3>2, <3>3 DEF NewRow, DISPATCHING
  <2>14. QED
    BY <2>3, <2>7, <2>8, <2>10, <2>13, SameRow DEF Moves, Row
<1>7. QED
  BY <1>1, <1>5, <1>6

-----------------------------------------------------------------------------
(* What a pass over a station does without a call                           *)

(* What is queued has not been given to anybody.                            *)
LEMMA QueuedIsLoose ==
  ASSUME Basis, NEW c \in DOMAIN cmd, Queued(cmd[c]), UNCHANGED job
  PROVE  phys[c] = "none" /\ Leaves(c) /\ JobsCalm
BY NotGiven, Still DEF Queued, Given

(* A worker that is idle lets go of the commands of its station.            *)
LEMMA QuietLeaves ==
  ASSUME Basis, NEW c \in DOMAIN cmd, Quiet(StationOfCmd(c)), UNCHANGED job
  PROVE  Leaves(c) /\ JobsCalm
<1>1. job[StationOfCmd(c)].phase = "idle"
  BY IdleTyped DEF Quiet
<1>2. QED
  BY <1>1, BusyOwn, Still DEF Leaves, Basis

(* A station that is ready has nothing on its way.                          *)
LEMMA ReadyIsFree ==
  ASSUME Basis, NEW x \in DOMAIN cmd, Ready(StationOfCmd(x))
  PROVE  ~Unsettled(x) /\ ~Alone(x)
<1> DEFINE st == StationOfCmd(x)
<1>1. job[st].phase = "idle" /\ Unconfirmed(st) = {}
  BY IdleTyped DEF Ready, Quiet
<1>2. \A t \in Station : job[t].phase # "idle" => job[t].cmd # x
  BY <1>1, BusyOwn DEF Basis
<1>3. cmd[x].state # "accepted"
  BY <1>1 DEF Unconfirmed, StationCmds, StationOfCmd, InFlight, Basis, BookInv, StatesFit
<1>4. QED
  BY <1>2, <1>3 DEF Unsettled, Alone, InHands, Called

(* While a batch runs, no hold in it is adrift.                             *)
LEMMA NoneAdrift ==
  ASSUME Basis, NEW b, batch[b] = "running"
  PROVE  \A h \in DOMAIN cmd : Adrift(h) => BatchOfCmd(h) # b
BY DEF Basis, DeviceInv, HoldsWait

(* The batch stopped before the action was claimed.                         *)
LEMMA WithdrawMoves ==
  ASSUME Basis, NEW c \in DOMAIN cmd, Withdraw(c)
  PROVE  BookStep
<1>1. /\ cmd' = Put(cmd, c, Marked(cmd[c], "cancelled", "not_sent"))
      /\ Queued(cmd[c]) /\ UNCHANGED <<batch, job, phys>>
  BY Zenon DEF Withdraw, Put, Marked
<1>2. Books(cmd) /\ "cancelled" \in CommandState /\ "not_sent" \in Delivery
  BY DEF Basis, TypeInv, CommandState, Delivery
<1>3. /\ DOMAIN cmd' = DOMAIN cmd /\ cmd'[c].state = "cancelled" /\ cmd'[c].delivery = "not_sent"
      /\ \A d \in DOMAIN cmd \ {c} : cmd'[d] = cmd[d]
  BY <1>1, <1>2, MarkedRows
<1>4. Moves
  BY <1>1, <1>3, SameRow, NoBatchMoves DEF Moves, Row, RowWithdrawn
<1>5. QED
  BY <1>1, <1>4, BooksMoved, Still, StillCalm, WithdrawWrites DEF Basis

(* The command is refused before it is claimed: its target is settled, or   *)
(* the station would not be ready.                                          *)
LEMMA RefuseMoves ==
  ASSUME Basis, NEW c \in DOMAIN cmd, Refuse(c)
  PROVE  BookStep
<1>1. /\ Queued(cmd[c]) /\ Ready(StationOfCmd(c))
      /\ cmd[c].type \in DISPATCHING => batch[BatchOfCmd(c)] = "running"
      /\ Fault(c, "unreachable", Fresh(c), cmd, run) /\ UNCHANGED <<ack, acur, job, phys>>
  BY Zenon DEF Refuse
<1>2. phys[c] = "none" /\ Leaves(c) /\ JobsCalm /\ "unreachable" \in Delivery
  BY <1>1, QueuedIsLoose DEF Delivery
<1>3. Free(c)
  <2> SUFFICES ASSUME Tgt(c) # NoCmd PROVE ~Unsettled(Tgt(c))
    BY DEF Free
  <2>1. Tgt(c) \in DOMAIN cmd /\ StationOfCmd(Tgt(c)) = StationOfCmd(c)
    BY DEF Basis, BookInv, TargetsFit, Actions, StationOfCmd
  <2>2. QED
    BY <1>1, <2>1, ReadyIsFree
<1>4. c \in Actions(cmd) => \A h \in DOMAIN cmd : Adrift(h) => BatchOfCmd(h) # BatchOfCmd(c)
  BY <1>1, NoneAdrift DEF Actions
<1>5. Moves
  <2>1. "unreachable" \notin Given /\ phys[c] \notin Physical \cup {"done"}
    BY <1>2 DEF Given, Physical
  <2>2. QED
    BY <1>1, <1>2, <1>3, <1>4, <2>1, BooksDiffer, FaultMoves
<1>6. Writes({c}, {"unreachable"})
  BY <1>1, <1>2, ServeFaultWrites DEF Basis
<1>7. QED
  BY <1>1, <1>2, <1>5, <1>6, BooksMoved, StillCalm

(* A command in flight is given up: it may have been sent.                  *)
LEMMA GivenUpMoves ==
  ASSUME Basis, NEW c \in DOMAIN cmd, InFlight(cmd[c]), Quiet(StationOfCmd(c)),
         Fault(c, "maybe_sent", Fresh(c), cmd, run), UNCHANGED <<ack, acur, job, phys>>
  PROVE  BookStep
<1>1. Free(c) /\ Leaves(c) /\ JobsCalm /\ Up(c) /\ "maybe_sent" \in Delivery
  BY GivenIsFree, QuietLeaves DEF Up, StillOccupying, Engaged, InFlight, Delivery
<1>2. Moves
  BY <1>1, BooksDiffer, FaultMoves
<1>3. Writes({c}, {"maybe_sent"})
  BY <1>1, ServeFaultWrites DEF Basis
<1>4. QED
  BY <1>1, <1>2, <1>3, BooksMoved, StillCalm

(* reconcile without a query, reconcile of another than the station names,  *)
(* check_timeouts.                                                          *)
LEMMA ServeFaultMoves ==
  ASSUME Basis, NEW c \in DOMAIN cmd, ReconcileBlind(c) \/ ReconcileMismatch(c) \/ Timeout(c)
  PROVE  BookStep
<1>1. CASE ReconcileBlind(c)
  <2>1. /\ c \in Unconfirmed(StationOfCmd(c)) /\ Quiet(StationOfCmd(c))
        /\ Fault(c, "maybe_sent", Fresh(c), cmd, run) /\ UNCHANGED <<ack, acur, job, phys>>
    BY <1>1, Zenon DEF ReconcileBlind
  <2>2. QED
    BY <2>1, GivenUpMoves DEF Unconfirmed
<1>2. CASE ReconcileMismatch(c)
  <2>1. /\ InFlight(cmd[c]) /\ Ready(StationOfCmd(c))
        /\ Fault(c, "maybe_sent", Fresh(c), cmd, run) /\ UNCHANGED <<ack, acur, job, phys>>
    BY <1>2, Zenon DEF ReconcileMismatch, Mismatched
  <2>2. QED
    BY <2>1, GivenUpMoves DEF Ready
<1>3. CASE Timeout(c)
  <2>1. /\ InFlight(cmd[c]) /\ Ready(StationOfCmd(c))
        /\ Fault(c, "maybe_sent", Fresh(c), cmd, run) /\ UNCHANGED <<ack, acur, job, phys>>
    BY <1>3, Zenon DEF Timeout
  <2>2. QED
    BY <2>1, GivenUpMoves DEF Ready
<1>4. QED
  BY <1>1, <1>2, <1>3

(* process_event: steps are opened only while the batch runs, and nothing   *)
(* in it is adrift then.                                                    *)
LEMMA ProcessAckMoves ==
  ASSUME Basis, NEW c \in DOMAIN cmd, ProcessAck(c)
  PROVE  BookStep
<1> DEFINE r == cmd[c]
           b == BatchOfCmd(c)
           rs1     == PutRun(run, r.step, r.attempt, "completed")
           waiting == {s \in OpenSteps(rs1, b) : rs1[s][FirstOpen(rs1, s)] = "pending"}
           over    == AllResolved(rs1, b)
           opened  == IF over THEN {} ELSE Unopened(rs1, b)
           issued  == IF batch[b] = "running" THEN waiting \cup opened ELSE {}
           first   == IF batch[b] = "running" THEN "ready" ELSE "pending"
           rs2     == [s \in Step |-> IF s \in opened THEN Append(rs1[s], first)
                                     ELSE IF s \in issued THEN [rs1[s] EXCEPT ![FirstOpen(rs1, s)] = "ready"]
                                     ELSE rs1[s]]
           new     == [s \in issued |->
                        NewCommand("dispatch", s, IF s \in opened THEN Len(rs2[s]) ELSE FirstOpen(rs1, s), NoCmd)]
<1>1. /\ UNCHANGED <<job, phys>>
      /\ \/ cmd' = cmd /\ batch' = batch
         \/ /\ CanIssue(cmd, issued) /\ cmd' = Issue(cmd, new)
            /\ batch' = [batch EXCEPT ![b] = "done"] \/ batch' = batch
  BY Zenon DEF ProcessAck
<1>2. issued \subseteq StepsOf(b) /\ (issued # {} => batch[b] = "running")
  BY DEF OpenSteps, Unopened
<1>3. DOMAIN new = issued
  OBVIOUS
<1>4. ASSUME NEW s \in issued
      PROVE  /\ new[s].type = "dispatch" /\ new[s].step = s /\ new[s].state = "sent"
             /\ new[s].target = NoCmd
  <2>1. new[s] = NewCommand("dispatch", s, IF s \in opened THEN Len(rs2[s]) ELSE FirstOpen(rs1, s), NoCmd)
    OBVIOUS
  <2> HIDE DEF new, issued, opened, rs1, rs2
  <2>2. QED
    BY <2>1, NewCommandFields
<1> HIDE DEF new, issued
<1>5. b \in Batch
  BY BatchOfRow
<1>6. Moves
  <2>1. CASE cmd' = cmd /\ batch' = batch
    BY <2>1, SameRow, NoBatchMoves DEF Moves
  <2>2. CASE /\ CanIssue(cmd, issued) /\ cmd' = Issue(cmd, new)
             /\ batch' = [batch EXCEPT ![b] = "done"] \/ batch' = batch
    <3>1. BatchMoves
      BY <1>5, <2>2, OneBatchMoves, NoBatchMoves
    <3>2. /\ \A x \in DOMAIN cmd : cmd'[x] = cmd[x]
          /\ \A n \in DOMAIN cmd' \ DOMAIN cmd : \E m \in DOMAIN new : cmd'[n] = new[m]
      BY <1>3, <2>2, IssueAdds
    <3>3. ASSUME NEW n \in DOMAIN cmd' \ DOMAIN cmd PROVE NewRow(n)
      <4>1. PICK s \in issued : cmd'[n] = new[s]
        BY <1>3, <3>2
      <4>2. BatchOf[s] = b /\ batch[b] = "running"
        BY <1>2 DEF StepsOf
      <4>3. batch'[b] # "scheduled"
        BY <1>5, <2>2, <4>2 DEF Basis, TypeInv, TypeOK
      <4>4. /\ cmd'[n].type = "dispatch" /\ cmd'[n].step = s /\ cmd'[n].state = "sent"
            /\ cmd'[n].target = NoCmd
        BY <1>4, <4>1
      <4>5. QED
        BY <4>2, <4>3, <4>4, NoneAdrift DEF NewRow
    <3>4. QED
      BY <3>1, <3>2, <3>3, SameRow DEF Moves
  <2>3. QED
    BY <1>1, <2>1, <2>2
<1>7. Writes({}, {})
  BY ProcessAckWrites DEF Basis
<1>8. QED
  BY <1>1, <1>6, <1>7, BooksMoved, StillCalm, Still

(* A worker dies: the books and the devices stay.                           *)
LEMMA InterruptMoves ==
  ASSUME Basis, NEW st \in Station, Interrupt(st)
  PROVE  BookStep
<1>1. UNCHANGED <<books, phys>> /\ job' = [job EXCEPT ![st] = Idle]
  BY Zenon DEF Interrupt
<1>2. JobsCalm
  BY <1>1, BackToIdle DEF JobsCalm, JobMoves, Basis
<1>3. Moves
  BY <1>1, SameRow, NoBatchMoves DEF Moves, books
<1>4. Writes({}, {})
  BY <1>1, NothingWritten DEF Basis
<1>5. QED
  BY <1>1, <1>2, <1>3, <1>4, BooksMoved, StillCalm

-----------------------------------------------------------------------------
(* What a worker does with its command                                      *)

(* The command of a task: one of its station, given to it.                  *)
LEMMA MineOwn ==
  ASSUME Basis, NEW st \in Station, job[st].phase # "idle"
  PROVE  LET c == job[st].cmd
         IN /\ c \in DOMAIN cmd /\ c \in CmdId /\ StationOfCmd(c) = st
            /\ InHands(c) /\ Up(c) /\ Free(c)
            /\ job' = [job EXCEPT ![st] = Idle] => JobsCalm /\ Leaves(c)
<1> DEFINE c == job[st].cmd
<1>1. c \in DOMAIN cmd /\ c \in CmdId /\ StationOfCmd(c) = st /\ InHands(c)
  BY BusyOwn DEF Basis, InHands
<1>2. Up(c) /\ Free(c)
  BY <1>1, GivenIsFree DEF Up
<1>3. job' = [job EXCEPT ![st] = Idle] => JobsCalm /\ Leaves(c)
  BY TaskEnds DEF Leaves, Basis
<1>4. QED
  BY <1>1, <1>2, <1>3

(* The action is refused after its claim: its device never saw it, so       *)
(* nothing adrift waits for it.                                             *)
LEMMA BeginRefusedMoves ==
  ASSUME Basis, NEW st \in Station, BeginRefused(st)
  PROVE  BookStep
<1> DEFINE c == job[st].cmd
           ds == [cmd EXCEPT ![c].started = FALSE]
<1>1. /\ job[st].phase = "claimed" /\ cmd[c].type \in DISPATCHING
      /\ Fault(c, "unreachable", Fresh(c), ds, run)
      /\ job' = [job EXCEPT ![st] = Idle] /\ UNCHANGED phys
  BY Zenon DEF BeginRefused
<1>2. c \in DOMAIN cmd /\ c \in CmdId /\ Free(c) /\ JobsCalm /\ Leaves(c)
  BY <1>1, MineOwn
<1>3. phys[c] = "none" /\ cmd[c].state = "accepted"
  BY <1>1 DEF Basis, HandInv, NotYetTaken, BookInv, SubmitsAccepted, Submitting
<1>4. ASSUME NEW h \in DOMAIN cmd, Adrift(h), BatchOfCmd(h) = BatchOfCmd(c) PROVE FALSE
  <2>1. c \in Actions(cmd) \cap BatchCmds(cmd, BatchOfCmd(h)) /\ InFlight(cmd[c])
    BY <1>1, <1>2, <1>3, <1>4 DEF Actions, BatchCmds, BatchOfCmd, InFlight
  <2>2. phys[c] \in AtRest
    BY <1>4, <2>1 DEF Basis, DeviceInv, HoldsWait
  <2>3. QED
    BY <1>3, <2>2 DEF AtRest
<1>5. Differs(ds, c)
  <2>1. Books(cmd) /\ FALSE \in BOOLEAN
    BY DEF Basis, TypeInv
  <2> HIDE DEF c
  <2>2. /\ Books(ds) /\ DOMAIN ds = DOMAIN cmd
        /\ ds[c].type = cmd[c].type /\ ds[c].step = cmd[c].step /\ ds[c].target = cmd[c].target
        /\ \A d \in DOMAIN cmd \ {c} : ds[d] = cmd[d]
    BY <1>2, <2>1, StartedSetRows
  <2> HIDE DEF ds
  <2>3. QED
    BY <2>2 DEF Differs
<1>6. Writes({c}, {"unreachable"})
  BY BeginRefusedWrites DEF Basis
<1> HIDE DEF ds, c
<1>7. Moves
  <2>1. "unreachable" \notin Given /\ phys[c] \notin Physical \cup {"done"} /\ "unreachable" \in Delivery
    BY <1>3 DEF Given, Physical, Delivery
  <2>2. QED
    BY <1>1, <1>2, <1>3, <1>4, <1>5, <2>1, FaultMoves
<1>8. QED
  BY <1>1, <1>2, <1>6, <1>7, BooksMoved, StillCalm

(* The device cannot hold or abort, and was not called.                     *)
LEMMA BeginUnsupportedMoves ==
  ASSUME Basis, NEW st \in Station, BeginUnsupported(st)
  PROVE  BookStep
<1> DEFINE c == job[st].cmd
<1>1. /\ job[st].phase = "claimed" /\ <<st, cmd[c].type>> \in Unsupported
      /\ Fault(c, "delivered", Fresh(c), cmd, run)
      /\ job' = [job EXCEPT ![st] = Idle] /\ UNCHANGED phys
  BY Zenon DEF BeginUnsupported
<1>2. c \in DOMAIN cmd /\ c \in CmdId /\ Up(c) /\ Free(c) /\ JobsCalm /\ Leaves(c)
  BY <1>1, MineOwn
<1>3. phys[c] = "none"
  BY <1>1 DEF Basis, HandInv, NotYetTaken, Submitting
<1>4. Writes({c}, {"delivered"})
  BY BeginUnsupportedWrites DEF Basis
<1> HIDE DEF c
<1>5. Moves
  <2>1. phys[c] \notin Physical \cup {"done"} /\ "delivered" \in Delivery
    BY <1>3 DEF Physical, Delivery
  <2>2. QED
    BY <1>1, <1>2, <2>1, BooksDiffer, FaultMoves
<1>6. QED
  BY <1>1, <1>2, <1>4, <1>5, BooksMoved, StillCalm

(* The action to hold or abort has ended, so the command counts as done.    *)
LEMMA BeginMootMoves ==
  ASSUME Basis, NEW st \in Station, BeginMoot(st)
  PROVE  BookStep
<1> DEFINE c == job[st].cmd
           done == Put(cmd, c, Marked(cmd[c], "done", "not_sent"))
<1>1. /\ job[st].phase = "claimed" /\ cmd[c].type \in Control
      /\ \/ cmd[c].type = "abort" /\ ConfirmAbort(done, c, {})
         \/ cmd[c].type # "abort" /\ cmd' = done /\ UNCHANGED batch
      /\ job' = [job EXCEPT ![st] = Idle] /\ UNCHANGED phys
  BY Zenon DEF BeginMoot, Put, Marked
<1>2. c \in DOMAIN cmd /\ c \in CmdId /\ Free(c) /\ JobsCalm /\ Leaves(c)
  BY <1>1, MineOwn
<1>3. Writes({c}, {"not_sent"})
  BY BeginMootWrites DEF Basis
<1> HIDE DEF c
<1>4. Differs(done, c) /\ done[c].state = "done"
  <2>1. Books(cmd) /\ "done" \in CommandState /\ "not_sent" \in Delivery
    BY DEF Basis, TypeInv, CommandState, Delivery
  <2>2. /\ Books(done) /\ DOMAIN done = DOMAIN cmd /\ done[c].state = "done"
        /\ done[c].type = cmd[c].type /\ done[c].step = cmd[c].step /\ done[c].target = cmd[c].target
        /\ \A d \in DOMAIN cmd \ {c} : done[d] = cmd[d]
    BY <1>2, <2>1, MarkedRows
  <2> HIDE DEF done
  <2>3. QED
    BY <2>2 DEF Differs
<1> HIDE DEF done
<1>5. Moves
  <2>1. CASE cmd[c].type = "abort" /\ ConfirmAbort(done, c, {})
    <3>1. DOMAIN cmd' = DOMAIN cmd /\ (\A x \in DOMAIN cmd : Row(x)) /\ BatchMoves
      BY <1>2, <1>4, <2>1, AbortConfirmedMoves
    <3>2. QED
      BY <3>1 DEF Moves
  <2>2. CASE cmd[c].type # "abort" /\ cmd' = done /\ UNCHANGED batch
    <3>1. RowDone(c)
      BY <1>1, <1>2, <1>4, <2>2 DEF RowDone, Actions, Control, DISPATCHING
    <3>2. \A d \in DOMAIN cmd \ {c} : Row(d)
      BY <1>4, <2>2, SameRow DEF Differs
    <3>3. QED
      BY <1>4, <2>2, <3>1, <3>2, NoBatchMoves DEF Moves, Row, Differs
  <2>3. QED
    BY <1>1, <2>1, <2>2
<1>6. QED
  BY <1>1, <1>2, <1>3, <1>5, BooksMoved, StillCalm

-----------------------------------------------------------------------------
(* After the call                                                           *)

(* What a settlement starts from.                                           *)
LEMMA SettlesOwn ==
  ASSUME Basis, NEW st \in Station, NEW replies, Settles(st, replies)
  PROVE  LET c == Mine(st)
         IN /\ job[st].phase = "answered" /\ job[st].reply \in replies
            /\ c \in DOMAIN cmd /\ c \in CmdId /\ StationOfCmd(c) = st
            /\ InHands(c) /\ Up(c) /\ Free(c) /\ Leaves(c) /\ JobsCalm /\ PhysCalm /\ phys' = phys
            /\ Differs(Seen(st), c)
            /\ Seen(st)[c].state = cmd[c].state /\ Seen(st)[c].outcome = cmd[c].outcome
            /\ job[st].kind # "poll" => Seen(st)[c].delivery = "delivered"
            /\ job[st].kind = "poll" => Seen(st)[c].delivery = cmd[c].delivery
            /\ job[st].reply \in {"running", "done"} => phys[c] # "none"
            /\ job[st].reply = "done" => phys[c] = "done"
            /\ job[st].reply = "failed" => phys[c] \in {"none", "stopped"}
<1>1. /\ job[st].phase = "answered" /\ job[st].reply \in replies
      /\ job' = [job EXCEPT ![st] = Idle] /\ phys' = phys
  BY DEF Settles
<1>2. /\ Mine(st) \in DOMAIN cmd /\ Mine(st) \in CmdId /\ StationOfCmd(Mine(st)) = st
      /\ InHands(Mine(st)) /\ Up(Mine(st)) /\ Free(Mine(st)) /\ Leaves(Mine(st)) /\ JobsCalm
  BY <1>1, MineOwn DEF Mine
<1>3. /\ Differs(Seen(st), Mine(st))
      /\ Seen(st)[Mine(st)].state = cmd[Mine(st)].state
      /\ Seen(st)[Mine(st)].outcome = cmd[Mine(st)].outcome
      /\ job[st].kind # "poll" => Seen(st)[Mine(st)].delivery = "delivered"
      /\ job[st].kind = "poll" => Seen(st)[Mine(st)].delivery = cmd[Mine(st)].delivery
  BY <1>2, SeenDiffers
<1>4. /\ job[st].reply \in {"running", "done"} => phys[Mine(st)] # "none"
      /\ job[st].reply = "done" => phys[Mine(st)] = "done"
      /\ job[st].reply = "failed" => phys[Mine(st)] \in {"none", "stopped"}
  BY <1>1 DEF Basis, DeviceInv, AnswersTrue, Mine
<1>5. QED
  BY <1>1, <1>2, <1>3, <1>4, StillCalm

(* The device has taken the command up: it runs, unless it was polled, and  *)
(* what it continues ends.                                                  *)
LEMMA SettleRunningMoves ==
  ASSUME Basis, NEW st \in Station, SettleRunning(st)
  PROVE  BookStep
<1> DEFINE c == Mine(st)
           state == IF job[st].snap.cmd = "running" THEN cmd[c].state ELSE "running"
           cs == [Seen(st) EXCEPT ![c].state = state]
<1>1. Settles(st, {"running"}) /\ cmd' = TakeOver(cs, c) /\ UNCHANGED batch
  BY Zenon DEF SettleRunning
<1>2. /\ job[st].phase = "answered" /\ c \in DOMAIN cmd /\ c \in CmdId /\ InHands(c) /\ Leaves(c)
      /\ JobsCalm /\ PhysCalm /\ Differs(Seen(st), c) /\ phys[c] # "none"
      /\ Seen(st)[c].outcome = cmd[c].outcome
      /\ job[st].kind # "poll" => Seen(st)[c].delivery = "delivered"
      /\ job[st].kind = "poll" => Seen(st)[c].delivery = cmd[c].delivery
  BY <1>1, SettlesOwn
<1>3. Writes({c}, SettledAs(st))
  BY SettleRunningWrites DEF Basis
<1>4. /\ job[st].kind = "poll" <=> job[st].snap.cmd = "running"
      /\ job[st].kind # "poll" => cmd[c].state \in {"accepted", "held", "superseded"}
  <2>1. /\ job[st].snap.cmd = IF job[st].kind = "poll" THEN "running" ELSE "accepted"
        /\ job[st].snap.cmd = "accepted" => cmd[c].state \in {"accepted", "held", "superseded"}
    BY <1>2 DEF Basis, BookInv, CallsRemember, Called, Mine
  <2>2. QED
    BY <2>1
<1>5. state \in CommandState
  BY <1>2 DEF Basis, TypeInv, Books, Command, CommandState
<1> HIDE DEF c, state
<1>6. Differs(cs, c) /\ Only(Seen(st)[c], cs[c], state)
  BY <1>2, <1>5, StateSetDiffers
<1> HIDE DEF cs
<1>7. /\ DOMAIN cmd' = DOMAIN cmd
      /\ \A d \in DOMAIN cmd :
           \/ cmd'[d] = cs[d]
           \/ /\ Only(cs[d], cmd'[d], "superseded")
              /\ cmd[c].type \in DISPATCHING /\ d = Tgt(c) /\ d # NoCmd
  <2>1. Books(cs) /\ c \in DOMAIN cs /\ cs[c].type = cmd[c].type /\ cs[c].target = Tgt(c)
        /\ DOMAIN cs = DOMAIN cmd
    BY <1>2, <1>6 DEF Differs, Tgt
  <2>2. /\ DOMAIN cmd' = DOMAIN cs
        /\ \A d \in DOMAIN cs :
             \/ cmd'[d] = cs[d]
             \/ /\ Only(cs[d], cmd'[d], "superseded") /\ cmd'[d].step = cs[d].step
                /\ cs[c].type \in DISPATCHING /\ d = cs[c].target /\ d # NoCmd
    <3>1. cmd' = TakeOver(cs, c)
      BY <1>1 DEF cs
    <3>2. QED
      BY <2>1, <3>1, TakeOverRows
  <2>3. QED
    BY <2>1, <2>2
<1>8. Tgt(c) # NoCmd => /\ Tgt(c) # c /\ Tgt(c) \in Actions(cmd) /\ cmd[Tgt(c)].step = cmd[c].step
                        /\ c \in Actions(cmd) => phys[Tgt(c)] \in AtRest
  BY <1>2 DEF Basis, BookInv, TargetsFit, DeviceInv, ResumedAtRest
<1>9. ASSUME NEW d \in DOMAIN cmd PROVE Row(d)
  <2>1. CASE d = c
    <3>1. cmd'[c] = cs[c]
      BY <1>2, <1>7, <1>8
    <3>2. CASE job[st].kind = "poll"
      <4>1. state = cmd[c].state
        BY <1>4, <3>2 DEF state
      <4>2. RowKept(c)
        BY <1>2, <1>6, <3>1, <3>2, <4>1 DEF RowKept, Only
      <4>3. QED
        BY <2>1, <4>2 DEF Row
    <3>3. CASE job[st].kind # "poll"
      <4>1. state = "running"
        BY <1>4, <3>3 DEF state
      <4>2. RowRuns(c)
        BY <1>2, <1>4, <1>6, <3>1, <3>3, <4>1 DEF RowRuns, Only
      <4>3. QED
        BY <2>1, <4>2 DEF Row
    <3>4. QED
      BY <3>2, <3>3
  <2>2. CASE d # c
    <3>1. cs[d] = cmd[d]
      BY <1>6, <2>2 DEF Differs
    <3>2. CASE cmd'[d] = cs[d]
      BY <3>1, <3>2, SameRow
    <3>3. CASE /\ Only(cs[d], cmd'[d], "superseded")
               /\ cmd[c].type \in DISPATCHING /\ d = Tgt(c) /\ d # NoCmd
      <4>1. c \in Actions(cmd)
        BY <1>2, <3>3 DEF Actions
      <4>2. Displaces(c, d)
        BY <1>2, <1>8, <2>2, <3>3, <4>1 DEF Displaces
      <4>3. RowTakenOver(d)
        BY <1>2, <1>8, <3>1, <3>3, <4>1, <4>2 DEF RowTakenOver
      <4>4. QED
        BY <4>3 DEF Row
    <3>4. QED
      BY <1>7, <3>2, <3>3
  <2>3. QED
    BY <2>1, <2>2
<1>10. Moves
  BY <1>1, <1>7, <1>9, NoBatchMoves DEF Moves
<1>11. QED
  BY <1>2, <1>3, <1>10, BooksMoved

(* The device has done the action: its step is completed.                   *)
LEMMA SettleActionDoneMoves ==
  ASSUME Basis, NEW st \in Station, SettleActionDone(st)
  PROVE  BookStep
<1> DEFINE c == Mine(st)
<1>1. /\ Settles(st, {"done"}) /\ cmd[c].type \in DISPATCHING
      /\ cmd' = CompleteStep(Seen(st), c) /\ UNCHANGED batch
  BY Zenon DEF SettleActionDone
<1>2. /\ c \in DOMAIN cmd /\ InHands(c) /\ Leaves(c) /\ JobsCalm /\ PhysCalm
      /\ Differs(Seen(st), c) /\ phys[c] = "done"
  BY <1>1, SettlesOwn
<1>3. Writes({c}, SettledAs(st))
  BY SettleActionDoneWrites DEF Basis
<1> HIDE DEF c
<1>4. c \in Actions(cmd)
  BY <1>1, <1>2 DEF Actions
<1>5. DOMAIN cmd' = DOMAIN cmd /\ \A x \in DOMAIN cmd : Row(x)
  BY <1>1, <1>2, <1>4, CompleteMoves
<1>6. Moves
  BY <1>1, <1>5, NoBatchMoves DEF Moves
<1>7. QED
  BY <1>2, <1>3, <1>6, BooksMoved

(* The actions a confirmed hold puts to held stand still: the one it names  *)
(* was stopped with it, and one that it does not name has waited since the  *)
(* hold was sent.                                                           *)
LEMMA HeldOnConfirmation ==
  ASSUME Basis, NEW st \in Station, NEW c \in DOMAIN cmd, c = Mine(st), job[st].phase = "answered",
         cmd[c].type = "hold", phys[c] = "done",
         NEW d \in DOMAIN cmd, d \in TargetsSeen(st), TargetMoves(st, d)
  PROVE  d \in Actions(cmd) /\ Up(d) /\ phys[d] \in AtRest
<1>1. CASE StaleTarget(st)
  <2>1. d = Tgt(c) /\ Tgt(c) # NoCmd /\ job[st].snap.target \in {"accepted", "running"}
    BY <1>1 DEF StaleTarget, TargetsSeen, TargetMoves, Tgt
  <2>2. Watched(d)
    BY <2>1 DEF Watched, Called, Mine, Tgt
  <2>3. d \in Actions(cmd) /\ phys[d] \in AtRest
    BY <2>1 DEF Basis, BookInv, TargetsFit, DeviceInv, HoldsStop
  <2>4. QED
    BY <2>2, <2>3 DEF Up
<1>2. CASE ~StaleTarget(st)
  <2>1. d \in ControlTargets(cmd, c) /\ InFlight(cmd[d])
    BY <1>2 DEF TargetsSeen, TargetMoves
  <2>2. d \in Actions(cmd) /\ StillOccupying(cmd[d])
    BY <2>1, ControlTargetsOf
  <2>3. CASE Tgt(c) # NoCmd
    <3>1. d = Tgt(c)
      BY <2>1, <2>3, ControlTargetsOf DEF Tgt
    <3>2. QED
      BY <2>2, <2>3, <3>1 DEF Up, Basis, DeviceInv, HoldsStop
  <2>4. CASE Tgt(c) = NoCmd
    <3>1. InFlight(cmd[c])
      BY DEF Basis, BookInv, ControlsStand, Mine, Control
    <3>2. Adrift(c)
      BY <2>4, <3>1 DEF Adrift, InFlight
    <3>3. d \in BatchCmds(cmd, BatchOfCmd(c))
      BY <2>1, <2>4, ControlTargetsOf DEF Tgt, BatchOfCmd
    <3>4. phys[d] \in AtRest
      BY <2>1, <2>2, <3>2, <3>3 DEF Basis, DeviceInv, HoldsWait
    <3>5. QED
      BY <2>2, <3>4 DEF Up
  <2>5. QED
    BY <2>3, <2>4
<1>3. QED
  BY <1>1, <1>2

(* The device has held its action.                                          *)
LEMMA SettleHoldDoneMoves ==
  ASSUME Basis, NEW st \in Station, SettleHoldDone(st)
  PROVE  BookStep
<1> DEFINE c  == Mine(st)
           cs == [Seen(st) EXCEPT ![c].state = "done"]
           H  == {d \in DOMAIN cmd : d \in TargetsSeen(st) /\ TargetMoves(st, d)}
<1>1. /\ Settles(st, {"done"}) /\ cmd[c].type = "hold" /\ UNCHANGED batch
      /\ cmd' = [d \in DOMAIN cmd |-> IF d \in TargetsSeen(st) /\ TargetMoves(st, d)
                                        THEN WithState(cs[d], "held") ELSE cs[d]]
  BY Zenon DEF SettleHoldDone, WithState
<1>2. /\ job[st].phase = "answered" /\ c \in DOMAIN cmd /\ Free(c) /\ Leaves(c)
      /\ JobsCalm /\ PhysCalm /\ Differs(Seen(st), c) /\ phys[c] = "done"
  BY <1>1, SettlesOwn
<1>3. Writes({c}, SettledAs(st))
  BY SettleHoldDoneWrites DEF Basis
<1>4. Differs(cs, c) /\ cs[c].state = "done"
  <2>1. "done" \in CommandState
    BY DEF CommandState
  <2> HIDE DEF c
  <2>2. Differs(cs, c) /\ Only(Seen(st)[c], cs[c], "done")
    BY <1>2, <2>1, StateSetDiffers
  <2> HIDE DEF cs
  <2>3. QED
    BY <2>2 DEF Only
<1>5. \A d \in H \cap DOMAIN cmd : d \in Actions(cmd) /\ Up(d) /\ phys[d] \in AtRest
  BY <1>1, <1>2, HeldOnConfirmation
<1> HIDE DEF cs, c
<1>6. cmd' = [d \in DOMAIN cmd |-> IF d \in H THEN WithState(cs[d], "held") ELSE cs[d]]
  BY <1>1
<1> HIDE DEF H
<1>7. \A x \in DOMAIN cmd : Row(x)
  BY <1>1, <1>2, <1>4, <1>5, <1>6, HoldConfirmedMoves, ZenonT(60)
<1>8. DOMAIN cmd' = DOMAIN cmd
  BY <1>6
<1>9. Moves
  BY <1>1, <1>7, <1>8, NoBatchMoves DEF Moves
<1>10. QED
  BY <1>2, <1>3, <1>9, BooksMoved

(* The device has stopped the action the abort names.                       *)
LEMMA SettleAbortDoneMoves ==
  ASSUME Basis, NEW st \in Station, SettleAbortDone(st)
  PROVE  BookStep
<1> DEFINE c  == Mine(st)
           cs == [Seen(st) EXCEPT ![c].state = "done"]
<1>1. /\ Settles(st, {"done"}) /\ cmd[c].type = "abort" /\ ConfirmAbort(cs, c, TargetsSeen(st))
  BY Zenon DEF SettleAbortDone
<1>2. /\ c \in DOMAIN cmd /\ Free(c) /\ Leaves(c) /\ phys' = phys
      /\ JobsCalm /\ PhysCalm /\ Differs(Seen(st), c) /\ phys[c] = "done"
  BY <1>1, SettlesOwn
<1>3. Writes({c}, SettledAs(st))
  BY SettleAbortDoneWrites DEF Basis
<1>4. Differs(cs, c) /\ cs[c].state = "done"
  <2>1. "done" \in CommandState
    BY DEF CommandState
  <2> HIDE DEF c
  <2>2. Differs(cs, c) /\ Only(Seen(st)[c], cs[c], "done")
    BY <1>2, <2>1, StateSetDiffers
  <2> HIDE DEF cs
  <2>3. QED
    BY <2>2 DEF Only
<1>5. Tgt(c) # NoCmd /\ Tgt(c) \in Actions(cmd) /\ ~Unsettled(Tgt(c)) /\ phys[Tgt(c)] \notin Physical
  BY <1>1, <1>2 DEF Basis, BookInv, TargetsFit, Free, DeviceInv, AbortsStop
<1>6. TargetsSeen(st) \subseteq {Tgt(c)}
  BY <1>5, ControlTargetsOf DEF TargetsSeen, Tgt
<1> HIDE DEF cs, c
<1>7. DOMAIN cmd' = DOMAIN cmd /\ (\A x \in DOMAIN cmd : Row(x)) /\ BatchMoves
  BY <1>1, <1>2, <1>4, <1>5, <1>6, AbortConfirmedMoves
<1>8. Moves
  BY <1>7 DEF Moves
<1>9. QED
  BY <1>2, <1>3, <1>8, BooksMoved

(* The device failed, or cannot say: an action it may still be doing is     *)
(* left in doubt.                                                           *)
LEMMA SettleFailedMoves ==
  ASSUME Basis, NEW st \in Station, SettleFailed(st)
  PROVE  BookStep
<1> DEFINE c  == Mine(st)
           v  == IF job[st].reply = "failed" THEN "failed" ELSE "unknown"
           cs == [Seen(st) EXCEPT ![c].outcome = v]
<1>1. Settles(st, {"failed", "unclear"}) /\ Fault(c, "delivered", job[st].snap, cs, RunSeen(st))
  BY Zenon DEF SettleFailed
<1>2. /\ c \in DOMAIN cmd /\ Free(c) /\ Leaves(c) /\ Up(c) /\ phys' = phys
      /\ JobsCalm /\ PhysCalm /\ Differs(Seen(st), c)
      /\ job[st].reply = "failed" => phys[c] \in {"none", "stopped"}
  BY <1>1, SettlesOwn
<1>3. Writes({c}, {"delivered"})
  BY SettleFailedWrites DEF Basis
<1>4. v \in Outcome /\ (v = "unknown" \/ job[st].reply = "failed")
  BY DEF Outcome
<1> HIDE DEF c, v
<1>5. Differs(cs, c) /\ cs[c].outcome = v
  <2>1. Books(Seen(st)) /\ c \in DOMAIN Seen(st)
    BY <1>2 DEF Differs
  <2>2. /\ Books(cs) /\ DOMAIN cs = DOMAIN Seen(st) /\ cs[c].outcome = v
        /\ cs[c].type = Seen(st)[c].type /\ cs[c].step = Seen(st)[c].step
        /\ cs[c].target = Seen(st)[c].target
        /\ \A d \in DOMAIN Seen(st) \ {c} : cs[d] = Seen(st)[d]
    BY <1>4, <2>1, OutcomeSetRows
  <2> HIDE DEF cs
  <2>3. QED
    BY <1>2, <2>2 DEF Differs
<1> HIDE DEF cs
<1>6. Moves
  <2>1. phys[c] \in Physical \cup {"done"} => cs[c].outcome = "unknown"
    BY <1>2, <1>4, <1>5 DEF Physical
  <2>2. "delivered" \in Delivery
    BY DEF Delivery
  <2>3. QED
    BY <1>1, <1>2, <1>5, <2>1, <2>2, FaultMoves
<1>7. QED
  BY <1>2, <1>3, <1>6, BooksMoved

(* No answer, or none that helps: the command may have been sent.           *)
LEMMA SettleLostMoves ==
  ASSUME Basis, NEW st \in Station, SettleLost(st)
  PROVE  BookStep
<1> DEFINE c == Mine(st)
<1>1. /\ Settles(st, {"lost", "absent"})
      /\ \/ UNCHANGED <<batch, current, cmd, run>>
         \/ Fault(c, "maybe_sent", job[st].snap, cmd, RunSeen(st))
  BY Zenon DEF SettleLost
<1>2. /\ c \in DOMAIN cmd /\ Free(c) /\ Leaves(c) /\ Up(c) /\ phys' = phys
      /\ JobsCalm /\ PhysCalm
  BY <1>1, SettlesOwn
<1>3. PICK S, D : Writes(S, D)
  BY SettleLostWrites DEF Basis
<1> HIDE DEF c
<1>4. Moves
  <2>1. CASE UNCHANGED <<batch, current, cmd, run>>
    BY <2>1, SameRow, NoBatchMoves DEF Moves
  <2>2. CASE Fault(c, "maybe_sent", job[st].snap, cmd, RunSeen(st))
    <3>1. "maybe_sent" \in Delivery
      BY DEF Delivery
    <3>2. QED
      BY <1>2, <2>2, <3>1, BooksDiffer, FaultMoves
  <2>3. QED
    BY <1>1, <2>1, <2>2
<1>5. QED
  BY <1>2, <1>3, <1>4, BooksMoved

-----------------------------------------------------------------------------
(* The calls                                                                *)

(* Devices that stay as they are, obey.                                     *)
LEMMA DevicesRest ==
  ASSUME phys' = phys
  PROVE  (\A d \in CmdId : PhysMove(d)) /\ (\A c \in DOMAIN cmd : Obeys(c))
BY DEF PhysMove, Obeys

(* What a transaction reads of a command and of the one it names.           *)
LEMMA FreshReads ==
  ASSUME NEW c
  PROVE  /\ Fresh(c).cmd = cmd[c].state
         /\ Tgt(c) # NoCmd => Fresh(c).target = cmd[Tgt(c)].state
         /\ Tgt(c) = NoCmd => Fresh(c).target = "sent"
BY DEF Fresh, Tgt

(* The call of a claimed command begins.                                    *)
LEMMA BeginCalls ==
  ASSUME Basis, NEW st \in Station, Begin(st)
  PROVE  CallStep
<1> DEFINE c == job[st].cmd
           l == cmd[c].type \in DISPATCHING /\ run[cmd[c].step][cmd[c].attempt] = "ready"
           j == Working("calling", "submit", c, l, "", Fresh(c))
<1>1. job[st].phase = "claimed" /\ job' = [job EXCEPT ![st] = j] /\ UNCHANGED <<books, phys>>
  BY Zenon DEF Begin
<1>2. c \in DOMAIN cmd
  BY <1>1, MineOwn
<1>3. j.cmd = c /\ j.phase = "calling" /\ j.kind = "submit" /\ j.snap = Fresh(c)
  BY DEF Working
<1>4. job \in [Station -> Job]
  BY DEF Basis, TypeInv, TypeOK
<1> HIDE DEF j
<1>5. job'[st] = j /\ \A t \in Station \ {st} : job'[t] = job[t]
  BY <1>1, <1>4
<1>6. Begins(st)
  BY <1>1, <1>2, <1>3, <1>5, FreshReads DEF Begins, ReadsFresh
<1>7. QED
  BY <1>1, <1>5, <1>6, DevicesRest DEF CallStep

(* A query begins: nothing else at the station is on its way.               *)
LEMMA AskCalls ==
  ASSUME Basis, NEW c \in DOMAIN cmd, NEW kind \in {"poll", "reconcile"}, Ask(c, kind)
  PROVE  CallStep
<1> DEFINE st == StationOfCmd(c)
           j  == Working("calling", kind, c, FALSE, "", Fresh(c))
<1>1. /\ InFlight(cmd[c]) /\ Quiet(st)
      /\ \/ kind = "reconcile" /\ cmd[c].delivery = "maybe_sent"
         \/ kind = "poll" /\ cmd[c].delivery = "delivered" /\ Unconfirmed(st) = {}
      /\ job' = [job EXCEPT ![st] = j] /\ UNCHANGED <<books, phys>>
  BY Zenon DEF Ask
<1>2. st \in Station /\ job[st].phase = "idle"
  BY <1>1, CmdOwn, IdleTyped DEF Quiet, Basis
<1>3. j.cmd = c /\ j.phase = "calling" /\ j.kind = kind /\ j.snap = Fresh(c)
  BY DEF Working
<1>4. job \in [Station -> Job]
  BY DEF Basis, TypeInv, TypeOK
<1> HIDE DEF j
<1>5. job'[st] = j /\ \A t \in Station \ {st} : job'[t] = job[t]
  BY <1>1, <1>2, <1>4
<1>6. \/ kind = "poll" /\ cmd[c].state = "running"
      \/ kind = "reconcile" /\ cmd[c].state = "accepted"
  <2>1. /\ cmd[c].state = "accepted" => cmd[c].delivery = "maybe_sent"
        /\ cmd[c].state = "running" => cmd[c].delivery = "delivered"
    BY DEF Basis, BookInv, StatesFit
  <2> HIDE DEF st, j
  <2>2. QED
    BY <1>1, <2>1 DEF InFlight
<1>7. ASSUME NEW y \in DOMAIN cmd, y # c, StationOfCmd(y) = st PROVE ~Alone(y)
  <2>1. ~InHands(y)
    BY <1>2, <1>7, BusyOwn DEF InHands, Basis
  <2>2. CASE kind = "poll"
    <3>1. Unconfirmed(st) = {}
      BY <1>1, <2>2
    <3>2. cmd[y].state # "accepted"
      BY <1>7, <3>1 DEF Unconfirmed, StationCmds, StationOfCmd, InFlight, Basis, BookInv, StatesFit
    <3>3. QED
      BY <2>1, <3>2 DEF Alone
  <2>3. CASE kind = "reconcile"
    <3>1. Alone(c)
      BY <1>6, <2>3 DEF Alone
    <3>2. QED
      BY <1>7, <3>1 DEF Basis, BookInv, OneAtATime
  <2>4. QED
    BY <2>2, <2>3
<1>8. Asks(st)
  BY <1>2, <1>3, <1>5, <1>6, <1>7, FreshReads DEF Asks, ReadsFresh
<1>9. QED
  BY <1>1, <1>5, <1>8, DevicesRest DEF CallStep

(* What an honest device reports of an action is so.                        *)
LEMMA ReportsTrue ==
  ASSUME NEW p \in Phys, NEW reply \in Report(p) \cup Refused(p) \cup {"absent"}
  PROVE  /\ reply \in {"running", "done"} => p # "none"
         /\ reply = "done" => p = "done"
         /\ reply = "failed" => p \in {"none", "stopped"}
BY DEF Report, Refused, Phys, Physical

(* The call returns with a report of what the device makes of the command.  *)
LEMMA AnsweredCalls ==
  ASSUME Basis, NEW st \in Station, job[st].phase = "calling", NEW p \in Phys, phys'[job[st].cmd] = p,
         NEW reply \in Report(p) \cup Refused(p) \cup {"absent"}, NEW expected,
         Answered(st, reply, expected)
  PROVE  IsAnswered(st) /\ \A t \in Station \ {st} : job'[t] = job[t]
<1> DEFINE j == Working("answered", job[st].kind, job[st].cmd, job[st].locks, reply, job[st].snap)
<1>1. job' = [job EXCEPT ![st] = j]
  BY Zenon DEF Answered
<1>2. /\ j.cmd = job[st].cmd /\ j.phase = "answered" /\ j.kind = job[st].kind
      /\ j.snap = job[st].snap /\ j.reply = reply
  BY DEF Working
<1>3. job \in [Station -> Job]
  BY DEF Basis, TypeInv, TypeOK
<1> HIDE DEF j
<1>4. job'[st] = j /\ \A t \in Station \ {st} : job'[t] = job[t]
  BY <1>1, <1>3
<1>5. /\ reply \in {"running", "done"} => p # "none"
      /\ reply = "done" => p = "done"
      /\ reply = "failed" => p \in {"none", "stopped"}
  BY ReportsTrue
<1>6. QED
  BY <1>2, <1>4, <1>5 DEF IsAnswered

(* A submitted action arrives or not; the device lets go of what it         *)
(* continues.                                                               *)
LEMMA DeliverActionCalls ==
  ASSUME Basis, NEW st \in Station, DeliverAction(st)
  PROVE  CallStep
<1> DEFINE c == job[st].cmd
           t == cmd[c].target
           after(p) == [d \in CmdId |-> IF d = c THEN p
                                        ELSE IF d = t /\ p # "none" /\ phys[d] \in Physical
                                          THEN "continued" ELSE phys[d]]
<1>1. /\ job[st].phase = "calling" /\ job[st].kind = "submit" /\ UNCHANGED books
      /\ cmd[c].type \in DISPATCHING
      /\ \E p \in {"none", "acting", "done", "stopped"} :
           /\ phys' = after(p)
           /\ \E reply \in Report(p) \cup Refused(p) : Answered(st, reply, {"running", "done"})
  BY Zenon DEF DeliverAction
<1>2. PICK p \in {"none", "acting", "done", "stopped"} :
         /\ phys' = after(p)
         /\ \E reply \in Report(p) \cup Refused(p) : Answered(st, reply, {"running", "done"})
  BY <1>1
<1>3. p \in Phys
  BY DEF Phys
<1>4. c \in DOMAIN cmd /\ c \in CmdId
  BY <1>1, MineOwn
<1>5. Submitting(st) /\ phys[c] = "none"
  BY <1>1 DEF Basis, HandInv, NotYetTaken, Submitting
<1>6. /\ phys'[c] = p
      /\ \A d \in CmdId \ {c} : phys'[d] = IF d = t /\ p # "none" /\ phys[d] \in Physical
                                             THEN "continued" ELSE phys[d]
  BY <1>2, <1>4
<1>7. t # NoCmd => t # c /\ t \in CmdId
  <2>1. t # NoCmd => t # c /\ t \in Actions(cmd)
    BY <1>4 DEF Basis, BookInv, TargetsFit, Tgt
  <2>2. QED
    BY <2>1, CmdOwn DEF Actions, Basis
<1>8. IsAnswered(st) /\ \A s \in Station \ {st} : job'[s] = job[s]
  BY <1>1, <1>2, <1>3, <1>6, AnsweredCalls
<1>9. Tgt(c) = t
  BY DEF Tgt
<1> HIDE DEF c, t, after
<1>10. \A d \in CmdId : PhysMove(d)
  <2>1. PhysMove(c)
    BY <1>5 DEF PhysMove, c
  <2>2. \A d \in CmdId \ {c} : PhysMove(d)
    BY <1>6 DEF PhysMove, AtRest
  <2>3. QED
    BY <2>1, <2>2
<1>11. \A x \in DOMAIN cmd : Obeys(x)
  <2>1. Obeys(c)
    BY <1>1, <1>4, <1>6, <1>7, <1>9 DEF Obeys, Physical, DISPATCHING
  <2>2. ASSUME NEW x \in DOMAIN cmd, x # c PROVE Obeys(x)
    <3>1. x \in CmdId
      BY CmdOwn DEF Basis
    <3>2. (phys'[x] = "none" <=> phys[x] = "none") /\ (phys'[x] = "done" => phys[x] = "done")
      BY <1>6, <2>2, <3>1 DEF Physical
    <3>3. QED
      BY <3>2 DEF Obeys
  <2>3. QED
    BY <2>1, <2>2
<1>12. QED
  BY <1>1, <1>8, <1>10, <1>11 DEF CallStep

(* A hold or abort that names an action is aimed at it.                     *)
LEMMA AimsAtNamed ==
  ASSUME NEW c, Tgt(c) # NoCmd
  PROVE  Aim(c) = Tgt(c)
BY DEF Aim, Tgt

(* The device obeys a hold or abort: what it names no longer moves.         *)
LEMMA ObeyedCalls ==
  ASSUME Basis, NEW c \in DOMAIN cmd, cmd[c].type \in Control, CanObey(c, Aim(c)),
         phys' = Obeyed(phys, c, Aim(c)),
         phys[c] = "acting" \/ \E st \in Station : Submitting(st) /\ job[st].cmd = c /\ phys[c] = "none"
  PROVE  /\ \A d \in CmdId : PhysMove(d)
         /\ \A x \in DOMAIN cmd : Obeys(x)
<1> DEFINE t == Aim(c)
<1>1. c \in CmdId
  BY CmdOwn DEF Basis
<1>2. /\ phys'[c] = "done"
      /\ \A d \in CmdId \ {c} :
           phys'[d] = IF d = t /\ phys[d] \in Physical
                        THEN (IF cmd[c].type = "hold" THEN "held" ELSE "stopped") ELSE phys[d]
  BY <1>1 DEF Obeyed
<1>3. Tgt(c) # NoCmd => t = Tgt(c) /\ t # c /\ t \in CmdId
  <2>1. Tgt(c) # NoCmd => Tgt(c) # c /\ Tgt(c) \in Actions(cmd)
    BY DEF Basis, BookInv, TargetsFit
  <2>2. QED
    BY <2>1, AimsAtNamed, CmdOwn DEF Actions, Basis
<1>4. c \notin Actions(cmd)
  BY DEF Actions, Control, DISPATCHING
<1>5. cmd[c].type = "hold" /\ Tgt(c) # NoCmd => phys[t] \in Physical
  BY <1>3 DEF CanObey
<1> HIDE DEF t
<1>6. \A d \in CmdId : PhysMove(d)
  <2>1. PhysMove(c)
    BY <1>2 DEF PhysMove
  <2>2. \A d \in CmdId \ {c} : PhysMove(d)
    BY <1>2 DEF PhysMove, AtRest
  <2>3. QED
    BY <2>1, <2>2
<1>7. ASSUME NEW x \in DOMAIN cmd PROVE Obeys(x)
  <2>1. CASE x = c
    BY <1>2, <1>3, <1>4, <1>5, <2>1 DEF Obeys, Physical, AtRest
  <2>2. CASE x # c
    <3>1. x \in CmdId
      BY CmdOwn DEF Basis
    <3>2. (phys'[x] = "none" <=> phys[x] = "none") /\ (phys'[x] = "done" => phys[x] = "done")
      BY <1>2, <2>2, <3>1 DEF Physical
    <3>3. QED
      BY <3>2 DEF Obeys
  <2>3. QED
    BY <2>1, <2>2
<1>8. QED
  BY <1>6, <1>7

(* A hold or abort arrives, is obeyed or not, or is lost.                   *)
LEMMA DeliverControlCalls ==
  ASSUME Basis, NEW st \in Station, DeliverControl(st)
  PROVE  CallStep
<1> DEFINE c == job[st].cmd
           t == Aim(c)
<1>1. /\ job[st].phase = "calling" /\ job[st].kind = "submit" /\ UNCHANGED books
      /\ cmd[c].type \in Control
      /\ \E p \in {"none", "acting", "done", "stopped"} :
           /\ p = "done" => CanObey(c, t)
           /\ phys' = IF p = "done" THEN Obeyed(phys, c, t) ELSE [phys EXCEPT ![c] = p]
           /\ \E reply \in Report(p) \cup Refused(p) : Answered(st, reply, {"running", "done"})
  BY Zenon DEF DeliverControl
<1>2. PICK p \in {"none", "acting", "done", "stopped"} :
         /\ p = "done" => CanObey(c, t)
         /\ phys' = IF p = "done" THEN Obeyed(phys, c, t) ELSE [phys EXCEPT ![c] = p]
         /\ \E reply \in Report(p) \cup Refused(p) : Answered(st, reply, {"running", "done"})
  BY <1>1
<1>3. p \in Phys
  BY DEF Phys
<1>4. c \in DOMAIN cmd /\ c \in CmdId
  BY <1>1, MineOwn
<1>5. Submitting(st) /\ phys[c] = "none"
  BY <1>1 DEF Basis, HandInv, NotYetTaken, Submitting
<1>6. phys \in [CmdId -> Phys]
  BY PhysTyped DEF Basis
<1>7. /\ phys'[c] = p
      /\ \A d \in CmdId : PhysMove(d)
      /\ \A x \in DOMAIN cmd : Obeys(x)
  <2>1. CASE p = "done"
    <3>1. phys'[c] = p
      BY <1>2, <1>4, <2>1 DEF Obeyed
    <3>2. QED
      BY <1>1, <1>2, <1>4, <1>5, <2>1, <3>1, ObeyedCalls
  <2>2. CASE p # "done"
    <3>1. phys'[c] = p /\ \A d \in CmdId \ {c} : phys'[d] = phys[d]
      BY <1>2, <1>4, <1>6, <2>2
    <3>2. \A d \in CmdId : PhysMove(d)
      BY <1>5, <3>1 DEF PhysMove
    <3>3. c \notin Actions(cmd)
      BY <1>1 DEF Actions, Control, DISPATCHING
    <3>4. ASSUME NEW x \in DOMAIN cmd PROVE Obeys(x)
      <4>1. x \in CmdId
        BY CmdOwn DEF Basis
      <4>2. QED
        BY <2>2, <3>1, <3>3, <4>1 DEF Obeys
    <3>5. QED
      BY <3>1, <3>2, <3>4
  <2>3. QED
    BY <2>1, <2>2
<1>8. IsAnswered(st) /\ \A s \in Station \ {st} : job'[s] = job[s]
  BY <1>1, <1>2, <1>3, <1>7, AnsweredCalls
<1>9. QED
  BY <1>1, <1>7, <1>8 DEF CallStep

(* A query is answered; no device moves.                                    *)
LEMMA AnswerCalls ==
  ASSUME Basis, NEW st \in Station, Answer(st)
  PROVE  CallStep
<1> DEFINE p == phys[job[st].cmd]
           truth == IF p = "none" THEN {"absent"} ELSE Report(p) \ {"unclear", "lost"}
<1>1. /\ job[st].phase = "calling" /\ UNCHANGED <<books, phys>>
      /\ \E reply \in Report(p) \cup {"absent"} : Answered(st, reply, truth)
  BY Zenon DEF Answer
<1>2. p \in Phys
  BY <1>1, MineOwn, PhysTyped DEF Basis
<1>3. phys'[job[st].cmd] = p
  BY <1>1
<1> HIDE DEF truth, p
<1>4. IsAnswered(st) /\ \A s \in Station \ {st} : job'[s] = job[s]
  BY <1>1, <1>2, <1>3, AnsweredCalls
<1>5. QED
  BY <1>1, <1>4, DevicesRest DEF CallStep

(* A device comes to an end of its own.                                     *)
LEMMA DeviceFinishCalls ==
  ASSUME Basis, NEW c \in DOMAIN cmd, DeviceFinish(c)
  PROVE  CallStep
<1>1. /\ phys[c] = "acting" /\ UNCHANGED <<books, job>>
      /\ \/ cmd[c].type \in DISPATCHING /\ phys' = [phys EXCEPT ![c] = "done"]
         \/ cmd[c].type \in Control /\ CanObey(c, Aim(c)) /\ phys' = Obeyed(phys, c, Aim(c))
         \/ phys' = [phys EXCEPT ![c] = "stopped"]
  BY Zenon DEF DeviceFinish
<1>2. c \in CmdId /\ phys \in [CmdId -> Phys]
  BY CmdOwn, PhysTyped DEF Basis
<1>3. (\A d \in CmdId : PhysMove(d)) /\ (\A x \in DOMAIN cmd : Obeys(x))
  <2>1. CASE cmd[c].type \in Control /\ CanObey(c, Aim(c)) /\ phys' = Obeyed(phys, c, Aim(c))
    BY <1>1, <2>1, ObeyedCalls
  <2>2. CASE \/ cmd[c].type \in DISPATCHING /\ phys' = [phys EXCEPT ![c] = "done"]
             \/ phys' = [phys EXCEPT ![c] = "stopped"]
    <3>1. /\ (phys'[c] = "done" /\ cmd[c].type \in DISPATCHING) \/ phys'[c] = "stopped"
          /\ \A d \in CmdId \ {c} : phys'[d] = phys[d]
      BY <1>2, <2>2
    <3>2. \A d \in CmdId : PhysMove(d)
      BY <1>1, <3>1 DEF PhysMove, Physical, AtRest
    <3>3. ASSUME NEW x \in DOMAIN cmd PROVE Obeys(x)
      <4>1. x \in CmdId
        BY CmdOwn DEF Basis
      <4>2. QED
        BY <1>1, <3>1, <4>1 DEF Obeys, DISPATCHING
    <3>4. QED
      BY <3>2, <3>3
  <2>3. QED
    BY <1>1, <2>1, <2>2
<1>4. QED
  BY <1>1, <1>3 DEF CallStep

-----------------------------------------------------------------------------
(* The claim                                                                *)

(* A claimed command is accepted and in the hands of its station's worker;  *)
(* nothing else at the station is on its way.                               *)
LEMMA ClaimEffect ==
  ASSUME Basis, NEW c \in DOMAIN cmd, Claim(c)
  PROVE  /\ StationOfCmd(c) \in Station /\ c \in CmdId /\ Queued(cmd[c])
         /\ batch' = batch /\ phys' = phys /\ phys[c] = "none"
         /\ DOMAIN cmd' = DOMAIN cmd /\ \A d \in DOMAIN cmd \ {c} : cmd'[d] = cmd[d]
         /\ cmd'[c].state = "accepted" /\ cmd'[c].delivery = "maybe_sent"
         /\ cmd'[c].type = cmd[c].type /\ cmd'[c].step = cmd[c].step
         /\ cmd'[c].target = cmd[c].target
         /\ job[StationOfCmd(c)].phase = "idle" /\ job'[StationOfCmd(c)].phase = "claimed"
         /\ job'[StationOfCmd(c)].cmd = c
         /\ \A t \in Station \ {StationOfCmd(c)} : job'[t] = job[t]
         /\ \A y \in DOMAIN cmd : StationOfCmd(y) = StationOfCmd(c) => ~Alone(y) /\ ~Unsettled(y)
         /\ c \in Actions(cmd) => batch[BatchOfCmd(c)] = "running"
<1> DEFINE st == StationOfCmd(c)
           p  == Marked(cmd[c], "accepted", "maybe_sent")
           q  == WithStarted(p, TRUE)
<1>1. /\ Queued(cmd[c]) /\ Ready(st)
      /\ cmd[c].type \in DISPATCHING => batch[BatchOfCmd(c)] = "running"
      /\ cmd' = [cmd EXCEPT ![c].state = "accepted", ![c].delivery = "maybe_sent", ![c].started = TRUE]
      /\ UNCHANGED <<batch, phys>>
  BY Zenon DEF Claim
<1>2. Books(cmd) /\ cmd[c] \in Command
  BY DEF Basis, TypeInv, Books
<1>3. /\ p \in Command /\ p.delivery = "maybe_sent" /\ p.state = "accepted"
      /\ p.type = cmd[c].type /\ p.step = cmd[c].step
      /\ p.attempt = cmd[c].attempt /\ p.target = cmd[c].target
  BY <1>2, RowMarked DEF CommandState, Delivery
<1> HIDE DEF p
<1>4. /\ q \in Command /\ q.delivery = "maybe_sent" /\ q.state = "accepted"
      /\ q.type = cmd[c].type /\ q.step = cmd[c].step
      /\ q.attempt = cmd[c].attempt /\ q.target = cmd[c].target
  BY <1>3, RowStarted
<1> HIDE DEF q
<1>5. cmd' = Put(cmd, c, q)
  <2>1. cmd' = [cmd EXCEPT ![c] = [[[cmd[c] EXCEPT !.state = "accepted"] EXCEPT !.delivery = "maybe_sent"]
                                   EXCEPT !.started = TRUE]]
    BY <1>1, <1>2 DEF Books
  <2>2. QED
    BY <2>1, Zenon DEF p, q, Marked, WithStarted, Put
<1>6. DOMAIN cmd' = DOMAIN cmd /\ cmd'[c] = q /\ \A d \in DOMAIN cmd \ {c} : cmd'[d] = cmd[d]
  <2>1. /\ DOMAIN Put(cmd, c, q) = DOMAIN cmd /\ Put(cmd, c, q)[c] = q
        /\ \A d \in DOMAIN cmd \ {c} : Put(cmd, c, q)[d] = cmd[d]
    BY DEF Put
  <2>2. QED
    BY <1>5, <2>1
<1>7. /\ job'[st].phase = "claimed" /\ job'[st].cmd = c /\ \A t \in Station \ {st} : job'[t] = job[t]
      /\ job[st].phase = "idle"
  BY <1>1, ClaimMoves, IdleTyped DEF JobMoves, Ready, Quiet, Basis
<1>8. st \in Station /\ c \in CmdId /\ phys[c] = "none"
  BY <1>1, CmdOwn, NotGiven DEF Basis, Queued, Given
<1>9. \A y \in DOMAIN cmd : StationOfCmd(y) = st => ~Alone(y) /\ ~Unsettled(y)
  BY <1>1, ReadyIsFree
<1>10. c \in Actions(cmd) => batch[BatchOfCmd(c)] = "running"
  BY <1>1 DEF Actions
<1> HIDE DEF st
<1>11. QED
  BY <1>1, <1>4, <1>6, <1>7, <1>8, <1>9, <1>10 DEF st

-----------------------------------------------------------------------------
(* Together                                                                 *)

(* What the operator does is a step of the books.                           *)
LEMMA OperatorMoves ==
  ASSUME Basis, NEW b \in Batch, Operator(b) \/ FinishAborts(b)
  PROVE  BookStep
<1>1. CASE \E strategy \in {"resume", "retry"} : Recover(b, strategy)
  BY <1>1, RecoverMoves
<1>2. CASE Dispatch(b) \/ Hold(b) \/ Abort(b) \/ FinishAborts(b)
  BY <1>2, DispatchMoves, HoldMoves, AbortMoves, FinishAbortsMoves
<1>3. QED
  BY <1>1, <1>2 DEF Operator

(* A pass over a station claims a command, asks about one, or writes.       *)
LEMMA ServeMoves ==
  ASSUME Basis, NEW c \in DOMAIN cmd, Serve(c)
  PROVE  BookStep \/ CallStep \/ Claim(c)
<1>1. CASE \E kind \in {"poll", "reconcile"} : Ask(c, kind)
  BY <1>1, AskCalls
<1>2. CASE Withdraw(c) \/ Refuse(c) \/ ReconcileBlind(c) \/ ReconcileMismatch(c) \/ Timeout(c)
  BY <1>2, WithdrawMoves, RefuseMoves, ServeFaultMoves
<1>3. QED
  BY <1>1, <1>2 DEF Serve

(* A worker at its command writes or calls.                                 *)
LEMMA WorkerMoves ==
  ASSUME Basis, NEW st \in Station, Perform(st) \/ Device(st) \/ Settle(st) \/ Interrupt(st)
  PROVE  BookStep \/ CallStep
<1>1. CASE Perform(st)
  BY <1>1, BeginCalls, BeginRefusedMoves, BeginMootMoves, BeginUnsupportedMoves DEF Perform
<1>2. CASE Device(st)
  BY <1>2, DeliverActionCalls, DeliverControlCalls, AnswerCalls DEF Device
<1>3. CASE Settle(st)
  BY <1>3, SettleRunningMoves, SettleActionDoneMoves, SettleHoldDoneMoves, SettleAbortDoneMoves,
     SettleFailedMoves, SettleLostMoves DEF Settle
<1>4. CASE Interrupt(st)
  BY <1>4, InterruptMoves
<1>5. QED
  BY <1>1, <1>2, <1>3, <1>4

(* Every step of Execution is a step of the books, a call or a claim.       *)
LEMMA NextMoves ==
  ASSUME Basis, [Next]_vars
  PROVE  BookStep \/ CallStep \/ \E c \in DOMAIN cmd : Claim(c)
<1>1. CASE \E b \in Batch : Operator(b) \/ FinishAborts(b)
  BY <1>1, OperatorMoves
<1>2. ASSUME NEW c \in DOMAIN cmd, Verify(c) \/ Serve(c) \/ ProcessAck(c) \/ DeviceFinish(c)
      PROVE  BookStep \/ CallStep \/ Claim(c)
  <2>1. CASE Verify(c)
    BY <2>1, VerifyExecutedMoves, VerifyNotExecutedMoves, VerifyPartialMoves DEF Verify
  <2>2. QED
    BY <1>2, <2>1, ServeMoves, ProcessAckMoves, DeviceFinishCalls
<1>3. CASE \E st \in Station : Perform(st) \/ Device(st) \/ Settle(st) \/ Interrupt(st)
  BY <1>3, WorkerMoves
<1>4. CASE UNCHANGED vars
  <2>1. UNCHANGED <<books, job, phys>>
    BY <1>4 DEF vars
  <2>2. Moves
    BY <2>1, SameRow, NoBatchMoves DEF Moves, books
  <2>3. Writes({}, {}) /\ JobsCalm /\ PhysCalm
    BY <2>1, NothingWritten, Still, StillCalm DEF Basis
  <2>4. QED
    BY <2>2, <2>3, BooksMoved
<1>5. QED
  BY <1>1, <1>2, <1>3, <1>4 DEF Next

-----------------------------------------------------------------------------
(* What a step of the books leaves as it is.                                *)
LEMMA Stays ==
  ASSUME Basis, BookStep
  PROVE  /\ DOMAIN cmd \subseteq DOMAIN cmd' /\ DOMAIN cmd \subseteq CmdId /\ DOMAIN cmd' \subseteq CmdId
         /\ \A x \in DOMAIN cmd :
              /\ cmd'[x].type = cmd[x].type /\ cmd'[x].step = cmd[x].step
              /\ cmd'[x].target = cmd[x].target
              /\ cmd[x].target \in DOMAIN cmd \cup {NoCmd}
              /\ cmd[x] \in Command /\ x \in CmdId
         /\ \A n \in DOMAIN cmd' \ DOMAIN cmd :
              /\ cmd'[n].delivery = "queued" /\ cmd'[n].state = "sent"
              /\ phys[n] = "none" /\ phys'[n] = "none"
         /\ \A n \in DOMAIN cmd' : cmd'[n] \in Command /\ n \in CmdId
                                   /\ cmd'[n].target \in DOMAIN cmd' \cup {NoCmd}
<1>1. PICK S : Evolves(cmd, cmd', S)
  BY DEF BookStep
<1>2. /\ DOMAIN cmd \subseteq DOMAIN cmd' /\ DOMAIN cmd' \subseteq CmdId
      /\ \A n \in DOMAIN cmd' : cmd'[n] \in Command /\ cmd'[n].target \in DOMAIN cmd' \cup {NoCmd}
      /\ \A n \in DOMAIN cmd' \ DOMAIN cmd : cmd'[n].delivery = "queued"
  BY <1>1 DEF Evolves, Books
<1>3. \A x \in DOMAIN cmd : /\ cmd'[x].type = cmd[x].type /\ cmd'[x].step = cmd[x].step
                            /\ cmd'[x].target = cmd[x].target
                            /\ cmd[x].target \in DOMAIN cmd \cup {NoCmd} /\ cmd[x] \in Command
  BY <1>1 DEF Evolves, Basis, TypeInv, Books
<1>4. ASSUME NEW n \in DOMAIN cmd' \ DOMAIN cmd
      PROVE  phys[n] = "none" /\ phys'[n] = "none" /\ cmd'[n].state = "sent"
  <2>1. phys[n] = "none"
    BY <1>2 DEF Basis, HandInv, PhysGiven
  <2>2. QED
    BY <1>2, <2>1 DEF BookStep, PhysCalm, Physical, NewRow
<1>5. QED
  BY <1>2, <1>3, <1>4

(* No command comes into a worker's hands, or up, in a step of the books.   *)
LEMMA Shrinks ==
  ASSUME Basis, BookStep, NEW x \in DOMAIN cmd
  PROVE  /\ InHands(x)' => InHands(x)
         /\ Unsettled(x)' => Unsettled(x)
         /\ Watched(x)' => Watched(x)
         /\ Up(x)' => Up(x)
         /\ cmd'[x].state = "accepted" => cmd[x].state = "accepted"
<1>1. \A t \in Station : job'[t].phase # "idle" =>
        job'[t] = job[t] /\ job[t].phase # "idle" /\ job[t].cmd \in DOMAIN cmd
  BY BusyOwn DEF BookStep, JobsCalm, Basis
<1>2. InHands(x)' => InHands(x)
  BY <1>1 DEF InHands
<1>3. Row(x)
  BY DEF BookStep
<1>4. cmd'[x].state = "accepted" => cmd[x].state = "accepted"
  BY <1>3 DEF Row, RowKept, RowWithdrawn, RowFaulted, RowVoided, RowRuns, RowDone, RowTakenOver,
              RowHeld, RowCancelled, Only
<1>5. Unsettled(x)' => Unsettled(x)
  BY <1>1, <1>4 DEF Unsettled, Called
<1>6. Watched(x)' => Watched(x)
  <2> SUFFICES ASSUME NEW t \in Station, Called(t)', cmd'[job'[t].cmd].target = x,
                      job'[t].snap.target \in {"accepted", "running"}
               PROVE  Watched(x)
    BY DEF Watched
  <2>1. job'[t] = job[t] /\ job[t].cmd \in DOMAIN cmd
    BY <1>1 DEF Called
  <2>2. QED
    BY <2>1, Stays DEF Watched, Called
<1>7. StillOccupying(cmd'[x]) => Up(x)
  <2>1. CASE RowKept(x)
    BY <2>1 DEF RowKept, Only, StillOccupying, Engaged, OutcomeUnknown, Up
  <2>2. CASE RowFaulted(x)
    BY <2>2 DEF RowFaulted, StillOccupying, Engaged
  <2>3. CASE RowRuns(x)
    BY <2>3 DEF RowRuns, Up
  <2>4. CASE RowHeld(x)
    BY <2>4 DEF RowHeld
  <2>5. QED
    BY <1>3, <2>1, <2>2, <2>3, <2>4 DEF Row, RowWithdrawn, RowVoided, RowDone, RowTakenOver,
       RowCancelled, Only, StillOccupying, Engaged, OutcomeUnknown
<1>8. Up(x)' => Up(x)
  BY <1>2, <1>6, <1>7 DEF Up
<1>9. QED
  BY <1>2, <1>4, <1>5, <1>6, <1>8

(* A target stays an action of the same step that has left the queue.       *)
LEMMA TargetsFitStep ==
  ASSUME Basis, BookStep
  PROVE  TargetsFit'
<1> SUFFICES ASSUME NEW x \in DOMAIN cmd'
             PROVE  /\ Tgt(x)' # NoCmd =>
                         /\ Tgt(x)' \in Actions(cmd)' /\ Tgt(x)' # x
                         /\ cmd'[Tgt(x)'].step = cmd'[x].step /\ cmd'[Tgt(x)'].state # "sent"
                    /\ cmd'[x].type = "abort" => Tgt(x)' # NoCmd
  BY DEF TargetsFit, Tgt
<1>1. CASE x \in DOMAIN cmd
  <2>1. /\ cmd'[x].target = cmd[x].target /\ cmd'[x].type = cmd[x].type /\ cmd'[x].step = cmd[x].step
        /\ cmd[x].type = "abort" => cmd[x].target # NoCmd
    BY <1>1, Stays DEF Basis, BookInv, TargetsFit, Tgt
  <2>2. ASSUME cmd[x].target # NoCmd, NEW t \in DOMAIN cmd, t = cmd[x].target
        PROVE  /\ t \in Actions(cmd') /\ t # x /\ cmd'[t].step = cmd'[x].step /\ cmd'[t].state # "sent"
    <3>1. t \in Actions(cmd) /\ t # x /\ cmd[t].step = cmd[x].step /\ cmd[t].state # "sent"
      BY <1>1, <2>2 DEF Basis, BookInv, TargetsFit, Tgt
    <3>2. cmd'[t].state # "sent"
      BY <3>1 DEF BookStep, Row, RowKept, RowWithdrawn, RowFaulted, RowVoided, RowRuns, RowDone,
                  RowTakenOver, RowHeld, RowCancelled, Only
    <3>3. QED
      BY <2>1, <3>1, <3>2, Stays DEF Actions
  <2>3. cmd[x].target # NoCmd => cmd[x].target \in DOMAIN cmd
    BY <1>1, Stays
  <2>4. QED
    BY <2>1, <2>2, <2>3 DEF Tgt, Actions
<1>2. CASE x \notin DOMAIN cmd
  <2>1. NewRow(x)
    BY <1>2 DEF BookStep
  <2>2. QED
    BY <1>2, <2>1, Stays DEF NewRow, Tgt, Actions
<1>3. QED
  BY <1>1, <1>2

(* State and delivery still go together.                                    *)
LEMMA StatesFitStep ==
  ASSUME Basis, BookStep
  PROVE  StatesFit'
<1> SUFFICES ASSUME NEW x \in DOMAIN cmd'
             PROVE  /\ cmd'[x].state = "sent" => cmd'[x].delivery = "queued"
                    /\ cmd'[x].state = "accepted" => cmd'[x].delivery = "maybe_sent"
                    /\ cmd'[x].state = "running" => cmd'[x].delivery = "delivered"
                    /\ cmd'[x].state \in {"held", "superseded"} => x \in Actions(cmd')
  BY DEF StatesFit, Actions
<1>1. CASE x \in DOMAIN cmd
  <2>1. /\ cmd[x].state = "sent" => cmd[x].delivery = "queued"
        /\ cmd[x].state = "accepted" => cmd[x].delivery = "maybe_sent"
        /\ cmd[x].state = "running" => cmd[x].delivery = "delivered"
        /\ cmd[x].state \in {"held", "superseded"} => x \in Actions(cmd)
    BY <1>1 DEF Basis, BookInv, StatesFit
  <2>2. x \in Actions(cmd) => x \in Actions(cmd')
    BY <1>1, Stays DEF Actions
  <2>3. Row(x)
    BY <1>1 DEF BookStep
  <2>4. QED
    BY <2>1, <2>2, <2>3 DEF Row, RowKept, RowWithdrawn, RowFaulted, RowVoided, RowRuns, RowDone,
                RowTakenOver, RowHeld, RowCancelled, Only
<1>2. CASE x \notin DOMAIN cmd
  BY <1>2, Stays
<1>3. QED
  BY <1>1, <1>2

(* Nobody comes to stand beside the one command of a station.               *)
LEMMA OneAtATimeStep ==
  ASSUME Basis, BookStep
  PROVE  OneAtATime'
<1>1. ASSUME NEW x \in DOMAIN cmd', Alone(x)'
      PROVE  x \in DOMAIN cmd /\ Alone(x) /\ StationOfCmd(x)' = StationOfCmd(x)
  <2>1. x \in DOMAIN cmd
    <3>1. CASE cmd'[x].state = "accepted"
      BY <3>1, Stays
    <3>2. CASE InHands(x)'
      BY <3>2, BusyOwn DEF InHands, BookStep, JobsCalm, Basis
    <3>3. QED
      BY <1>1, <3>1, <3>2 DEF Alone
  <2>2. QED
    BY <1>1, <2>1, Shrinks, Stays DEF Alone, StationOfCmd
<1>2. QED
  BY <1>1 DEF OneAtATime, Basis, BookInv

(* What a worker has in hands changes only as the worker allows for.        *)
LEMMA HandsStep ==
  ASSUME Basis, BookStep
  PROVE  SubmitsAccepted' /\ CallsRemember' /\ ControlsStand'
<1>1. ASSUME NEW t \in Station, job'[t].phase # "idle"
      PROVE  /\ job'[t] = job[t] /\ job[t].phase # "idle" /\ job[t].cmd \in DOMAIN cmd
             /\ Row(job[t].cmd) /\ ~Leaves(job[t].cmd)
  BY <1>1, BusyOwn DEF BookStep, JobsCalm, Basis, Leaves
<1>2. ASSUME NEW t \in Station, Submitting(t)'
      PROVE  cmd'[job'[t].cmd].state = "accepted"
  <2> DEFINE c == job[t].cmd
  <2>1. /\ job'[t] = job[t] /\ c \in DOMAIN cmd /\ Row(c) /\ ~Leaves(c) /\ Submitting(t)
    BY <1>1, <1>2 DEF Submitting
  <2>2. cmd[c].state = "accepted" /\ phys[c] = "none" /\ Unsettled(c)
    BY <2>1 DEF Basis, BookInv, SubmitsAccepted, HandInv, NotYetTaken, Unsettled
  <2>3. QED
    BY <2>1, <2>2 DEF Row, RowKept, RowWithdrawn, Queued, RowFaulted, RowVoided, RowRuns, RowDone,
                RowTakenOver, RowHeld, RowCancelled, Only, AtRest
<1>3. ASSUME NEW t \in Station, Called(t)'
      PROVE  /\ job'[t].snap.cmd = IF job'[t].kind = "poll" THEN "running" ELSE "accepted"
             /\ cmd'[job'[t].cmd].state # "sent"
             /\ job'[t].snap.cmd = "accepted" => cmd'[job'[t].cmd].state \in {"accepted", "held", "superseded"}
             /\ job'[t].snap.cmd = "running" => cmd'[job'[t].cmd].state # "accepted"
  <2> DEFINE c == job[t].cmd
  <2>1. /\ job'[t] = job[t] /\ c \in DOMAIN cmd /\ Row(c) /\ ~Leaves(c) /\ Called(t)
    BY <1>1, <1>3 DEF Called
  <2>2. /\ job[t].snap.cmd = IF job[t].kind = "poll" THEN "running" ELSE "accepted"
        /\ cmd[c].state # "sent"
        /\ job[t].snap.cmd = "accepted" => cmd[c].state \in {"accepted", "held", "superseded"} /\ Unsettled(c)
        /\ job[t].snap.cmd = "running" => cmd[c].state # "accepted"
    BY <2>1 DEF Basis, BookInv, CallsRemember, Unsettled
  <2>3. QED
    BY <2>1, <2>2 DEF Row, RowKept, RowWithdrawn, Queued, RowFaulted, RowVoided, RowRuns, RowDone,
                RowTakenOver, RowHeld, RowCancelled, Only
<1>4. ASSUME NEW t \in Station, job'[t].phase # "idle", cmd'[job'[t].cmd].type \in Control
      PROVE  InFlight(cmd'[job'[t].cmd])
  <2> DEFINE c == job[t].cmd
  <2>1. job'[t] = job[t] /\ c \in DOMAIN cmd /\ Row(c) /\ ~Leaves(c) /\ job[t].phase # "idle"
    BY <1>1, <1>4
  <2>2. cmd[c].type \in Control /\ InFlight(cmd[c]) /\ c \notin Actions(cmd)
    BY <1>4, <2>1, Stays DEF Basis, BookInv, ControlsStand, Actions, Control, DISPATCHING
  <2>3. QED
    BY <2>1, <2>2 DEF Row, RowKept, RowWithdrawn, Queued, RowFaulted, RowVoided, RowRuns, RowDone,
                RowTakenOver, RowHeld, RowCancelled, Only, InFlight
<1>5. QED
  BY <1>2, <1>3, <1>4 DEF SubmitsAccepted, CallsRemember, ControlsStand

(* In a step of the books devices only come to rest.                        *)
LEMMA Settling ==
  ASSUME PhysCalm, NEW d \in CmdId
  PROVE  /\ phys'[d] \in Physical => phys[d] \in Physical
         /\ phys[d] \in AtRest => phys'[d] \in AtRest
         /\ phys'[d] = "none" <=> phys[d] = "none"
         /\ phys'[d] = "done" <=> phys[d] = "done"
         /\ phys[d] = "stopped" => phys'[d] = "stopped"
BY DEF PhysCalm, Physical, AtRest

(* The order of a command and its target is kept.                           *)
LEMMA TargetsFirstStep ==
  ASSUME Basis, BookStep
  PROVE  TargetsFirst'
<1> SUFFICES ASSUME NEW d \in DOMAIN cmd', Tgt(d)' # NoCmd, Unsettled(Tgt(d))'
             PROVE  cmd'[d].delivery \in {"queued", "not_sent"} /\ cmd'[d].state # "unknown"
  BY DEF TargetsFirst
<1>1. CASE d \notin DOMAIN cmd
  BY <1>1, Stays
<1>2. CASE d \in DOMAIN cmd
  <2>1. PICK t \in DOMAIN cmd : t = cmd[d].target
    BY <1>2, Stays DEF Tgt
  <2>2. Tgt(d)' = t /\ Tgt(d) = t /\ t # NoCmd
    BY <1>2, <2>1, Stays DEF Tgt
  <2>3. Unsettled(t)'
    BY <2>2 DEF Unsettled, Called
  <2>4. Unsettled(t)
    BY <2>3, Shrinks
  <2>5. ~Free(d) /\ cmd[d].delivery \in {"queued", "not_sent"} /\ cmd[d].state # "unknown"
    BY <1>2, <2>2, <2>4 DEF Free, Basis, BookInv, TargetsFirst
  <2>6. ~InHands(d)
    <3>1. Alone(t) \/ ~InHands(d)
      BY <1>2, <2>1, <2>4, BusyOwn DEF Unsettled, Alone, InHands, Called, Basis
    <3>2. StationOfCmd(t) = StationOfCmd(d) /\ t # d
      BY <1>2, <2>2 DEF Basis, BookInv, TargetsFit, StationOfCmd
    <3>3. QED
      BY <1>2, <2>1, <3>1, <3>2 DEF Basis, BookInv, OneAtATime, Alone
  <2>7. Row(d)
    BY <1>2 DEF BookStep
  <2>8. QED
    BY <2>5, <2>6, <2>7 DEF Row, RowKept, RowWithdrawn, RowFaulted, RowVoided, RowRuns, RowDone,
                RowTakenOver, RowHeld, RowCancelled, Only
<1>3. QED
  BY <1>1, <1>2

(* No command is issued for a batch that has not been dispatched.           *)
LEMMA NotYetDispatchedStep ==
  ASSUME Basis, BookStep
  PROVE  NotYetDispatched'
<1> SUFFICES ASSUME NEW b \in Batch, batch'[b] = "scheduled", NEW n \in DOMAIN cmd',
                    BatchOf[cmd'[n].step] = b
             PROVE  FALSE
  BY DEF NotYetDispatched, BatchCmds
<1>1. batch[b] = "scheduled" /\ BatchCmds(cmd, b) = {}
  BY DEF BookStep, BatchMoves, Basis, BookInv, NotYetDispatched
<1>2. n \notin DOMAIN cmd
  BY <1>1, Stays DEF BatchCmds
<1>3. QED
  BY <1>2 DEF BookStep, NewRow

(* What the workers have yet to settle still describes the devices.         *)
LEMMA AnswersTrueStep ==
  ASSUME Basis, BookStep
  PROVE  AnswersTrue'
<1> SUFFICES ASSUME NEW t \in Station, job'[t].phase = "answered"
             PROVE  /\ job'[t].reply \in {"running", "done"} => phys'[job'[t].cmd] # "none"
                    /\ job'[t].reply = "done" => phys'[job'[t].cmd] = "done"
                    /\ job'[t].reply = "failed" => phys'[job'[t].cmd] \in {"none", "stopped"}
  BY DEF AnswersTrue
<1>1. job'[t] = job[t] /\ job[t].phase # "idle" /\ job[t].cmd \in CmdId
  BY BusyOwn DEF BookStep, JobsCalm, Basis
<1>2. QED
  BY <1>1, Settling DEF Basis, DeviceInv, AnswersTrue, BookStep

(* Targets stay at rest, or are let go of, and what is held stays at rest.  *)
LEMMA RestStep ==
  ASSUME Basis, BookStep
  PROVE  ResumedAtRest' /\ ResumedLetGo' /\ AbortsStop' /\ HoldsStop' /\ HeldAtRest'
<1>1. PhysCalm
  BY DEF BookStep
<1>2. ASSUME NEW c \in DOMAIN cmd', cmd'[c].target # NoCmd
      PROVE  cmd'[c].target \in CmdId
  BY <1>2, Stays
<1>3. ASSUME NEW c \in DOMAIN cmd', cmd'[c].type \in DISPATCHING, cmd'[c].target # NoCmd
      PROVE  phys'[cmd'[c].target] \in AtRest
  <2>1. phys[cmd'[c].target] \in AtRest
    <3>1. CASE c \in DOMAIN cmd
      BY <1>3, <3>1, Stays DEF Basis, DeviceInv, ResumedAtRest, Actions, Tgt
    <3>2. CASE c \notin DOMAIN cmd
      BY <1>3, <3>2 DEF BookStep, NewRow
    <3>3. QED
      BY <3>1, <3>2
  <2>2. QED
    BY <1>1, <1>2, <1>3, <2>1, Settling
<1>4. ASSUME NEW c \in DOMAIN cmd', phys'[c] # "none"
      PROVE  /\ c \in DOMAIN cmd /\ c \in CmdId /\ phys[c] # "none"
             /\ phys'[c] = "done" => phys[c] = "done"
             /\ cmd'[c].target = cmd[c].target /\ cmd'[c].type = cmd[c].type
  BY <1>1, <1>4, Stays, Settling
<1>5. ResumedAtRest'
  BY <1>3 DEF ResumedAtRest, Actions, Tgt
<1>6. ResumedLetGo'
  <2> SUFFICES ASSUME NEW c \in DOMAIN cmd', cmd'[c].type \in DISPATCHING, cmd'[c].target # NoCmd,
                      phys'[c] # "none"
               PROVE  phys'[cmd'[c].target] \notin Physical
    BY DEF ResumedLetGo, Actions, Tgt
  <2>1. phys[cmd'[c].target] \notin Physical
    BY <1>4 DEF Basis, DeviceInv, ResumedLetGo, Actions, Tgt
  <2>2. QED
    BY <1>1, <1>2, <2>1, Settling
<1>7. AbortsStop'
  <2> SUFFICES ASSUME NEW c \in DOMAIN cmd', cmd'[c].type = "abort", phys'[c] = "done"
               PROVE  phys'[cmd'[c].target] \notin Physical
    BY DEF AbortsStop, Tgt
  <2>1. phys[cmd'[c].target] \notin Physical /\ cmd'[c].target # NoCmd
    BY <1>4 DEF Basis, DeviceInv, BookInv, TargetsFit, AbortsStop, Tgt
  <2>2. QED
    BY <1>1, <1>2, <2>1, Settling
<1>8. HoldsStop'
  <2> SUFFICES ASSUME NEW c \in DOMAIN cmd', cmd'[c].type = "hold", cmd'[c].target # NoCmd, phys'[c] = "done"
               PROVE  phys'[cmd'[c].target] \in AtRest
    BY DEF HoldsStop, Tgt
  <2>1. phys[cmd'[c].target] \in AtRest
    BY <1>4 DEF Basis, DeviceInv, HoldsStop, Tgt
  <2>2. QED
    BY <1>1, <1>2, <2>1, Settling
<1>9. HeldAtRest'
  <2> SUFFICES ASSUME NEW c \in DOMAIN cmd', cmd'[c].type \in DISPATCHING,
                      cmd'[c].state \in {"held", "superseded"}
               PROVE  phys'[c] \in AtRest
    BY DEF HeldAtRest, Actions
  <2>1. c \in DOMAIN cmd /\ c \in CmdId
    BY Stays
  <2>2. c \in Actions(cmd) /\ Row(c)
    BY <2>1, Stays DEF Actions, BookStep
  <2>3. phys[c] \in AtRest
    BY <2>2 DEF Row, RowKept, RowWithdrawn, RowFaulted, RowVoided, RowRuns, RowDone,
                RowTakenOver, RowHeld, RowCancelled, Only, Basis, DeviceInv, HeldAtRest
  <2>4. QED
    BY <1>1, <2>1, <2>3, Settling
<1>10. QED
  BY <1>5, <1>6, <1>7, <1>8, <1>9

(* Where a hold is adrift nothing starts.                                   *)
LEMMA HoldsWaitStep ==
  ASSUME Basis, BookStep
  PROVE  HoldsWait'
<1> SUFFICES ASSUME NEW h \in DOMAIN cmd', Adrift(h)', NEW b, b = BatchOf[cmd'[h].step]
             PROVE  /\ batch'[b] # "running"
                    /\ \A c \in DOMAIN cmd' : cmd'[c].type \in DISPATCHING /\ BatchOf[cmd'[c].step] = b =>
                         ~Queued(cmd'[c]) /\ (InFlight(cmd'[c]) => phys'[c] \in AtRest)
  BY DEF HoldsWait, Actions, BatchCmds, BatchOfCmd, Queued, InFlight
<1>1. CASE h \notin DOMAIN cmd
  <2>1. NewRow(h) /\ cmd'[h].type = "hold" /\ cmd'[h].target = NoCmd
    BY <1>1 DEF BookStep, Adrift, Tgt
  <2>2. QED
    BY <2>1 DEF NewRow
<1>2. CASE h \in DOMAIN cmd
  <2>1. /\ cmd[h].type = "hold" /\ Tgt(h) = NoCmd /\ cmd'[h].state \in {"sent", "accepted", "running"}
        /\ b = BatchOfCmd(h) /\ b \in Batch /\ Row(h)
    BY <1>2, Stays, CmdOwn DEF Adrift, Tgt, BatchOfCmd, BookStep, Basis
  <2>2. cmd[h].state \in {"sent", "accepted", "running"}
    <3>1. cmd[h].state \notin {"held", "superseded"}
      BY <1>2, <2>1 DEF Basis, BookInv, StatesFit, Actions, DISPATCHING
    <3>2. QED
      BY <2>1, <3>1 DEF Row, RowKept, RowWithdrawn, RowFaulted, RowVoided, RowRuns, RowDone,
                RowTakenOver, RowHeld, RowCancelled, Only
  <2>3. Adrift(h)
    BY <2>1, <2>2 DEF Adrift
  <2>4. /\ batch[b] # "running"
        /\ \A c \in Actions(cmd) \cap BatchCmds(cmd, b) :
             ~Queued(cmd[c]) /\ (InFlight(cmd[c]) => phys[c] \in AtRest)
    BY <1>2, <2>1, <2>3 DEF Basis, DeviceInv, HoldsWait
  <2>5. batch'[b] # "running"
    BY <1>2, <2>1, <2>3, <2>4 DEF BookStep, BatchMoves
  <2>6. ASSUME NEW c \in DOMAIN cmd', cmd'[c].type \in DISPATCHING, BatchOf[cmd'[c].step] = b
        PROVE  ~Queued(cmd'[c]) /\ (InFlight(cmd'[c]) => phys'[c] \in AtRest)
    <3>1. c \in DOMAIN cmd
      BY <1>2, <2>1, <2>3, <2>6 DEF BookStep, NewRow
    <3>2. c \in Actions(cmd) \cap BatchCmds(cmd, b) /\ Row(c)
      BY <2>6, <3>1, Stays DEF Actions, BatchCmds, BookStep
    <3>3. /\ ~Queued(cmd[c]) /\ (InFlight(cmd[c]) => phys[c] \in AtRest)
          /\ cmd[c].state \in {"held", "superseded"} => phys[c] \in AtRest
      BY <2>4, <3>2 DEF Basis, DeviceInv, HeldAtRest
    <3>4. ~Queued(cmd'[c]) /\ (InFlight(cmd'[c]) => phys[c] \in AtRest)
      BY <3>2, <3>3 DEF Row, RowKept, RowWithdrawn, RowFaulted, RowVoided, RowRuns, RowDone,
                RowTakenOver, RowHeld, RowCancelled, Only, Queued, InFlight
    <3>5. QED
      BY <3>1, <3>4, Stays, Settling DEF BookStep
  <2>7. QED
    BY <2>5, <2>6
<1>3. QED
  BY <1>1, <1>2

(* The last unlisted parts under one name.                                  *)
LEMMA BasisStep ==
  ASSUME Basis, BookStep
  PROVE  BookInv' /\ DeviceInv'
BY TargetsFitStep, StatesFitStep, OneAtATimeStep, HandsStep, TargetsFirstStep, NotYetDispatchedStep,
   AnswersTrueStep, RestStep, HoldsWaitStep DEF BookInv, DeviceInv

-----------------------------------------------------------------------------
(* Why the books cover the devices, at stations with one channel           *)

(* An action without a verdict that the device has done is not forgotten.   *)
DoneIsKnown ==
  \A c \in Actions(cmd) : cmd[c].state = "unknown" /\ phys[c] = "done" => OutcomeUnknown(cmd[c])

(* Of two actions on a step that are up, one takes over the other.          *)
OneUp ==
  \A c, d \in Actions(cmd) :
    c # d /\ cmd[c].step = cmd[d].step /\ Up(c) /\ Up(d) => Tgt(c) = d \/ Tgt(d) = c

(* Nothing acts or is about to act for a batch that was aborted.            *)
AbortedIsOver ==
  \A b \in Batch : batch[b] = "aborted" =>
    \A c \in Actions(cmd) \cap BatchCmds(cmd, b) : phys[c] \notin Physical /\ cmd[c].state # "accepted"

CoverInv == BooksCoverDevice /\ DoneIsKnown /\ OneUp /\ AbortedIsOver

(* What one action displaces is not engaged any more.                       *)
LEMMA DisplacedLetGo ==
  ASSUME Basis, CoverInv, NEW x \in Actions(cmd), NEW y, Displaces(y, x)
  PROVE  phys[x] \notin Physical
<1>1. CASE Tgt(y) = x /\ phys[y] # "none"
  <2>1. x # NoCmd
    BY BoundAssumption DEF Basis, TypeInv, Books, Actions, CmdId, NoCmd
  <2>2. QED
    BY <1>1, <2>1 DEF Displaces, Basis, DeviceInv, ResumedLetGo
<1>2. CASE cmd[x].state = "held" /\ phys[y] = "done" /\ (InHands(y) \/ cmd[y].state = "unknown")
  <2>1. Up(x)
    BY <1>2 DEF Up, StillOccupying, Engaged
  <2>2. Up(y)
    BY <1>2 DEF Up, StillOccupying, CoverInv, DoneIsKnown, Displaces
  <2>3. Tgt(x) = y \/ Tgt(y) = x
    BY <2>1, <2>2 DEF CoverInv, OneUp, Displaces
  <2>4. Tgt(x) # y
    <3>1. y # NoCmd
      BY BoundAssumption DEF Basis, TypeInv, Books, Actions, CmdId, NoCmd, Displaces
    <3>2. QED
      BY <1>2, <3>1 DEF Basis, DeviceInv, ResumedAtRest, AtRest
  <2>5. x # NoCmd
    BY BoundAssumption DEF Basis, TypeInv, Books, Actions, CmdId, NoCmd
  <2>6. QED
    BY <1>2, <2>3, <2>4, <2>5 DEF Displaces, Basis, DeviceInv, ResumedLetGo
<1>3. QED
  BY <1>1, <1>2 DEF Displaces

(* In a step of the books no moving device gets out of sight.               *)
LEMMA CoverStep ==
  ASSUME Basis, CoverInv, BookStep
  PROVE  CoverInv'
<1>1. PhysCalm
  BY DEF BookStep
<1>2. ASSUME NEW c \in DOMAIN cmd', cmd'[c].type \in DISPATCHING, phys'[c] # "none"
      PROVE  /\ c \in Actions(cmd) /\ c \in DOMAIN cmd /\ c \in CmdId /\ phys[c] # "none" /\ Row(c)
             /\ cmd[c].delivery \in Given
             /\ phys'[c] \in Physical => phys[c] \in Physical /\ StillOccupying(cmd[c])
             /\ phys'[c] = "done" => phys[c] = "done"
  <2>1. c \in DOMAIN cmd /\ c \in CmdId /\ phys[c] # "none"
    BY <1>1, <1>2, Stays, Settling
  <2>2. c \in Actions(cmd)
    BY <1>2, <2>1, Stays DEF Actions
  <2>3. Row(c) /\ cmd[c].delivery \in Given
    BY <2>1 DEF BookStep, Basis, HandInv, PhysGiven
  <2>4. QED
    BY <1>1, <2>1, <2>2, <2>3, Settling DEF CoverInv, BooksCoverDevice
<1>3. BooksCoverDevice'
  <2> SUFFICES ASSUME NEW c \in DOMAIN cmd', cmd'[c].type \in DISPATCHING, phys'[c] \in Physical
               PROVE  StillOccupying(cmd'[c])
    BY DEF BooksCoverDevice, Actions
  <2>1. /\ c \in Actions(cmd) /\ Row(c) /\ cmd[c].delivery \in Given
        /\ phys[c] \in Physical /\ StillOccupying(cmd[c])
    BY <1>2 DEF Physical
  <2>2. ~Queued(cmd[c]) /\ phys[c] # "done"
    BY <2>1 DEF Queued, Given, Physical
  <2>3. ~RowTakenOver(c)
    BY <2>1, DisplacedLetGo DEF RowTakenOver
  <2>4. ~RowCancelled(c)
    BY <2>1 DEF RowCancelled, StillOccupying, Engaged
  <2>5. QED
    BY <2>1, <2>2, <2>3, <2>4 DEF Row, RowKept, RowWithdrawn, RowFaulted, RowVoided, RowRuns, RowDone,
                RowHeld, Only, StillOccupying, Engaged, OutcomeUnknown
<1>4. DoneIsKnown'
  <2> SUFFICES ASSUME NEW c \in DOMAIN cmd', cmd'[c].type \in DISPATCHING, phys'[c] = "done",
                      cmd'[c].state = "unknown"
               PROVE  OutcomeUnknown(cmd'[c])
    BY DEF DoneIsKnown, Actions
  <2>1. c \in Actions(cmd) /\ Row(c) /\ phys[c] = "done"
    BY <1>2
  <2>2. QED
    BY <2>1 DEF Row, RowKept, RowWithdrawn, RowFaulted, RowVoided, RowRuns, RowDone, RowTakenOver,
                RowHeld, RowCancelled, Only, OutcomeUnknown, CoverInv, DoneIsKnown
<1>5. ASSUME NEW c \in DOMAIN cmd', Up(c)'
      PROVE  c \in DOMAIN cmd /\ Up(c)
  <2>1. c \in DOMAIN cmd
    <3> SUFFICES ASSUME c \notin DOMAIN cmd PROVE FALSE
      OBVIOUS
    <3>1. \A t \in Station : job'[t].phase # "idle" =>
            job'[t] = job[t] /\ job[t].cmd \in DOMAIN cmd
      BY BusyOwn DEF BookStep, JobsCalm, Basis
    <3>2. ~InHands(c)'
      BY <3>1 DEF InHands
    <3>3. ~Watched(c)'
      <4>1. c # NoCmd
        BY Stays, BoundAssumption DEF CmdId, NoCmd
      <4>2. QED
        BY <3>1, <4>1, Stays DEF Watched, Called
    <3>4. ~StillOccupying(cmd'[c])
      BY Stays DEF StillOccupying, Engaged, OutcomeUnknown
    <3>5. QED
      BY <1>5, <3>2, <3>3, <3>4 DEF Up
  <2>2. QED
    BY <1>5, <2>1, Shrinks
<1>6. OneUp'
  <2> SUFFICES ASSUME NEW c \in DOMAIN cmd', NEW d \in DOMAIN cmd', c # d,
                      cmd'[c].type \in DISPATCHING, cmd'[d].type \in DISPATCHING,
                      cmd'[c].step = cmd'[d].step, Up(c)', Up(d)'
               PROVE  cmd'[c].target = d \/ cmd'[d].target = c
    BY DEF OneUp, Actions, Tgt
  <2>1. c \in DOMAIN cmd /\ d \in DOMAIN cmd /\ Up(c) /\ Up(d)
    BY <1>5
  <2>2. QED
    BY <2>1, Stays DEF CoverInv, OneUp, Actions, Tgt
<1>7. AbortedIsOver'
  <2> SUFFICES ASSUME NEW b \in Batch, batch'[b] = "aborted", NEW c \in DOMAIN cmd',
                      cmd'[c].type \in DISPATCHING, BatchOf[cmd'[c].step] = b
               PROVE  phys'[c] \notin Physical /\ cmd'[c].state # "accepted"
    BY DEF AbortedIsOver, Actions, BatchCmds
  <2>1. CASE c \notin DOMAIN cmd
    BY <2>1, Stays DEF Physical
  <2>2. CASE c \in DOMAIN cmd
    <3>1. c \in Actions(cmd) \cap BatchCmds(cmd, b) /\ c \in CmdId
      BY <2>2, Stays DEF Actions, BatchCmds
    <3>2. CASE batch[b] = "aborted"
      BY <1>1, <2>2, <3>1, <3>2, Shrinks, Settling DEF CoverInv, AbortedIsOver
    <3>3. CASE batch[b] # "aborted"
      <4>1. ~StillOccupying(cmd'[c])
        BY <3>1, <3>3 DEF BookStep, BatchMoves
      <4>2. QED
        BY <1>3, <4>1 DEF BooksCoverDevice, Actions, StillOccupying, Engaged
    <3>4. QED
      BY <3>2, <3>3
  <2>3. QED
    BY <2>1, <2>2
<1>8. QED
  BY <1>3, <1>4, <1>6, <1>7 DEF CoverInv

-----------------------------------------------------------------------------
(* The calls                                                               *)

(* What a call does to a command in a device.                               *)
LEMMA Moving ==
  ASSUME Basis, CallStep, NEW d \in CmdId
  PROVE  /\ phys[d] \in AtRest => phys'[d] \in AtRest
         /\ phys[d] \notin Physical \cup {"none"} => phys'[d] = phys[d]
         /\ phys[d] # "none" => phys'[d] # "none"
         /\ phys'[d] \in Physical /\ phys[d] \notin Physical =>
              d \in DOMAIN cmd /\ cmd[d].state = "accepted"
         /\ phys'[d] = "done" /\ phys[d] # "done" =>
              phys[d] \in Physical \/ (d \in DOMAIN cmd /\ cmd[d].state = "accepted")
         /\ phys'[d] # phys[d] /\ phys[d] = "none" =>
              \E st \in Station : Submitting(st) /\ job[st].cmd = d
<1>1. PhysMove(d)
  BY DEF CallStep
<1>2. (\E st \in Station : Submitting(st) /\ job[st].cmd = d) => d \in DOMAIN cmd /\ cmd[d].state = "accepted"
  BY BusyOwn DEF Submitting, Basis, BookInv, SubmitsAccepted
<1>3. QED
  BY <1>1, <1>2 DEF PhysMove, Physical, AtRest

(* The hands of the workers in a call.                                      *)
LEMMA Calling ==
  ASSUME Basis, CallStep, NEW x \in DOMAIN cmd
  PROVE  /\ Unsettled(x)' => Unsettled(x)
         /\ Up(x)' => Up(x)
         /\ InHands(x)' => InHands(x) \/ \E t \in Station : Asks(t) /\ job'[t].cmd = x
<1>0. cmd' = cmd
  BY DEF CallStep, books
<1>1. ASSUME NEW t \in Station
      PROVE  job'[t] = job[t] \/ Begins(t) \/ Asks(t) \/ IsAnswered(t)
  BY DEF CallStep
<1>2. ASSUME NEW t \in Station, Begins(t)
      PROVE  job[t].cmd \in DOMAIN cmd /\ cmd[job[t].cmd].state = "accepted"
  BY <1>2, BusyOwn DEF Begins, Submitting, Basis, BookInv, SubmitsAccepted
<1>3. Unsettled(x)' => Unsettled(x)
  <2> SUFFICES ASSUME NEW t \in Station, Called(t)', job'[t].cmd = x, job'[t].snap.cmd = "accepted"
               PROVE  Unsettled(x)
    BY <1>0 DEF Unsettled, Called
  <2>1. QED
    BY <1>1, <1>2 DEF Unsettled, Called, Begins, Asks, ReadsFresh, IsAnswered
<1>4. InHands(x)' => InHands(x) \/ \E t \in Station : Asks(t) /\ job'[t].cmd = x
  <2> SUFFICES ASSUME NEW t \in Station, job'[t].phase # "idle", job'[t].cmd = x
               PROVE  InHands(x) \/ Asks(t)
    BY DEF InHands
  <2>1. QED
    BY <1>1 DEF InHands, Begins, IsAnswered
<1>5. InHands(x)' => InHands(x) \/ StillOccupying(cmd[x])
  BY <1>4 DEF Asks, StillOccupying, Engaged
<1>6. Watched(x)' => Watched(x) \/ StillOccupying(cmd[x])
  <2> SUFFICES ASSUME NEW t \in Station, Called(t)', cmd[job'[t].cmd].target = x,
                      job'[t].snap.target \in {"accepted", "running"}
               PROVE  Watched(x) \/ StillOccupying(cmd[x])
    BY <1>0 DEF Watched, Called
  <2>1. CASE job'[t] = job[t] \/ IsAnswered(t)
    BY <2>1 DEF Watched, Called, IsAnswered
  <2>2. CASE Begins(t) \/ Asks(t)
    BY <2>2 DEF Begins, Asks, ReadsFresh, StillOccupying, Engaged, Tgt
  <2>3. QED
    BY <1>1, <2>1, <2>2
<1>7. QED
  BY <1>0, <1>3, <1>4, <1>5, <1>6 DEF Up

(* A call leaves the books sound.                                           *)
LEMMA CallBooks ==
  ASSUME Basis, CallStep
  PROVE  BookInv'
<1>0. cmd' = cmd /\ batch' = batch
  BY DEF CallStep, books
<1>1. ASSUME NEW t \in Station
      PROVE  job'[t] = job[t] \/ Begins(t) \/ Asks(t) \/ IsAnswered(t)
  BY DEF CallStep
<1>2. TargetsFit' /\ StatesFit' /\ NotYetDispatched'
  BY <1>0 DEF Basis, BookInv, TargetsFit, StatesFit, NotYetDispatched, Tgt, Actions, BatchCmds
<1>3. SubmitsAccepted'
  BY <1>0, <1>1 DEF Basis, BookInv, SubmitsAccepted, Submitting, Begins, Asks, IsAnswered, ReadsFresh
<1>4. CallsRemember'
  <2> SUFFICES ASSUME NEW t \in Station, Called(t)'
               PROVE  /\ job'[t].snap.cmd = IF job'[t].kind = "poll" THEN "running" ELSE "accepted"
                      /\ cmd[job'[t].cmd].state # "sent"
                      /\ job'[t].snap.cmd = "accepted" =>
                           cmd[job'[t].cmd].state \in {"accepted", "held", "superseded"}
                      /\ job'[t].snap.cmd = "running" => cmd[job'[t].cmd].state # "accepted"
    BY <1>0 DEF CallsRemember
  <2>1. CASE job'[t] = job[t] \/ IsAnswered(t)
    BY <2>1 DEF Basis, BookInv, CallsRemember, Called, IsAnswered
  <2>2. CASE Begins(t)
    BY <2>2 DEF Basis, BookInv, SubmitsAccepted, Submitting, Begins, ReadsFresh
  <2>3. CASE Asks(t)
    BY <2>3 DEF Asks, ReadsFresh
  <2>4. QED
    BY <1>1, <2>1, <2>2, <2>3
<1>5. TargetsFirst'
  <2> SUFFICES ASSUME NEW d \in DOMAIN cmd, Tgt(d)' # NoCmd, Unsettled(Tgt(d))'
               PROVE  cmd[d].delivery \in {"queued", "not_sent"} /\ cmd[d].state # "unknown"
    BY <1>0 DEF TargetsFirst
  <2>1. PICK t \in DOMAIN cmd : t = Tgt(d)' /\ t = Tgt(d)
    BY <1>0 DEF Basis, TypeInv, Books, Tgt
  <2>2. Unsettled(t)'
    BY <2>1 DEF Unsettled, Called
  <2>3. Unsettled(Tgt(d))
    BY <2>1, <2>2, Calling
  <2>4. Tgt(d) # NoCmd
    BY <2>1
  <2>5. QED
    BY <2>3, <2>4 DEF Basis, BookInv, TargetsFirst
<1>6. ControlsStand'
  BY <1>0, <1>1 DEF Basis, BookInv, ControlsStand, Begins, Asks, IsAnswered, ReadsFresh, InFlight
<1>7. OneAtATime'
  <2> SUFFICES ASSUME NEW x \in DOMAIN cmd, NEW y \in DOMAIN cmd, x # y,
                      StationOfCmd(x) = StationOfCmd(y), Alone(x)', Alone(y)'
               PROVE  FALSE
    BY <1>0 DEF OneAtATime, StationOfCmd
  <2>1. ASSUME NEW z \in DOMAIN cmd, Alone(z)'
        PROVE  Alone(z) \/ \E t \in Station : Asks(t) /\ job'[t].cmd = z
    BY <1>0, <2>1, Calling DEF Alone
  <2>2. ASSUME NEW z \in DOMAIN cmd, NEW w \in DOMAIN cmd, z # w, StationOfCmd(z) = StationOfCmd(w),
               NEW t \in Station, Asks(t), job'[t].cmd = z, Alone(w)'
        PROVE  FALSE
    <3>1. ~Alone(w) /\ StationOfCmd(w) = t
      BY <2>2 DEF Asks
    <3>2. PICK u \in Station : Asks(u) /\ job'[u].cmd = w
      BY <2>1, <2>2, <3>1
    <3>3. u = t
      BY <3>1, <3>2 DEF Asks
    <3>4. QED
      BY <2>2, <3>2, <3>3
  <2>3. QED
    BY <2>1, <2>2 DEF Basis, BookInv, OneAtATime
<1>8. QED
  BY <1>2, <1>3, <1>4, <1>5, <1>6, <1>7 DEF BookInv

(* A call leaves what the books say of the devices true.                    *)
LEMMA CallDevices ==
  ASSUME Basis, CallStep
  PROVE  DeviceInv'
<1>0. cmd' = cmd /\ batch' = batch /\ DOMAIN cmd \subseteq CmdId
      /\ \A c \in DOMAIN cmd : Tgt(c) \in DOMAIN cmd \cup {NoCmd}
  BY DEF CallStep, books, Basis, TypeInv, Books, Tgt
<1>1. AnswersTrue'
  <2> SUFFICES ASSUME NEW t \in Station, job'[t].phase = "answered"
               PROVE  /\ job'[t].reply \in {"running", "done"} => phys'[job'[t].cmd] # "none"
                      /\ job'[t].reply = "done" => phys'[job'[t].cmd] = "done"
                      /\ job'[t].reply = "failed" => phys'[job'[t].cmd] \in {"none", "stopped"}
    BY DEF AnswersTrue
  <2>1. CASE job'[t] = job[t]
    <3> DEFINE c == job[t].cmd
    <3>1. /\ job[t].phase = "answered" /\ c \in CmdId /\ StationOfCmd(c) = t
          /\ \A u \in Station : job[u].phase # "idle" /\ job[u].cmd = c => u = t
      BY <2>1, BusyOwn DEF Basis
    <3>2. ~\E st \in Station : Submitting(st) /\ job[st].cmd = c
      BY <3>1 DEF Submitting
    <3>3. /\ job[t].reply \in {"running", "done"} => phys[c] # "none"
          /\ job[t].reply = "done" => phys[c] = "done"
          /\ job[t].reply = "failed" => phys[c] \in {"none", "stopped"}
      BY <3>1 DEF Basis, DeviceInv, AnswersTrue
    <3>4. QED
      BY <2>1, <3>1, <3>2, <3>3, Moving DEF Physical
  <2>2. CASE job'[t] # job[t]
    BY <2>2 DEF CallStep, Begins, Asks, ReadsFresh, IsAnswered
  <2>3. QED
    BY <2>1, <2>2
<1>2. ResumedAtRest'
  BY <1>0, Moving DEF Basis, DeviceInv, ResumedAtRest, Actions, Tgt
<1>3. ResumedLetGo'
  <2> SUFFICES ASSUME NEW c \in Actions(cmd), Tgt(c) # NoCmd, phys'[c] # "none"
               PROVE  phys'[Tgt(c)] \notin Physical
    BY <1>0 DEF ResumedLetGo, Actions, Tgt
  <2>1. CASE phys[c] = "none"
    BY <2>1 DEF CallStep, Obeys, Actions
  <2>2. CASE phys[c] # "none"
    <3>1. phys[Tgt(c)] \notin Physical \cup {"none"} /\ Tgt(c) \in CmdId
      BY <1>0, <2>2 DEF Basis, DeviceInv, ResumedLetGo, ResumedAtRest, AtRest, Actions
    <3>2. QED
      BY <3>1, Moving
  <2>3. QED
    BY <2>1, <2>2
<1>4. AbortsStop'
  <2> SUFFICES ASSUME NEW c \in DOMAIN cmd, cmd[c].type = "abort", phys'[c] = "done"
               PROVE  phys'[Tgt(c)] \notin Physical
    BY <1>0 DEF AbortsStop, Tgt
  <2>0. Tgt(c) # NoCmd /\ Tgt(c) \in DOMAIN cmd /\ Tgt(c) \in CmdId /\ c \in CmdId
    BY <1>0 DEF Basis, BookInv, TargetsFit
  <2>1. CASE phys[c] # "done"
    BY <2>0, <2>1 DEF CallStep, Obeys
  <2>2. CASE phys[c] = "done"
    <3>1. phys[Tgt(c)] \notin Physical /\ cmd[c].delivery \in Given
      BY <2>0, <2>2 DEF Basis, DeviceInv, AbortsStop, HandInv, PhysGiven
    <3>2. cmd[Tgt(c)].state # "accepted"
      BY <2>0, <3>1 DEF Basis, BookInv, TargetsFirst, Unsettled, Given
    <3>3. QED
      BY <2>0, <3>1, <3>2, Moving
  <2>3. QED
    BY <2>1, <2>2
<1>5. HoldsStop'
  <2> SUFFICES ASSUME NEW c \in DOMAIN cmd, cmd[c].type = "hold", Tgt(c) # NoCmd, phys'[c] = "done"
               PROVE  phys'[Tgt(c)] \in AtRest
    BY <1>0 DEF HoldsStop, Tgt
  <2>1. CASE phys[c] # "done"
    BY <2>1 DEF CallStep, Obeys
  <2>2. CASE phys[c] = "done"
    BY <1>0, <2>2, Moving DEF Basis, DeviceInv, HoldsStop
  <2>3. QED
    BY <2>1, <2>2
<1>6. HeldAtRest'
  BY <1>0, Moving DEF Basis, DeviceInv, HeldAtRest, Actions
<1>7. HoldsWait'
  <2>1. ASSUME NEW c \in Actions(cmd), InFlight(cmd[c]) => phys[c] \in AtRest
        PROVE  InFlight(cmd[c]) => phys'[c] \in AtRest
    BY <1>0, <2>1, Moving DEF Actions
  <2>2. \A h \in DOMAIN cmd : Adrift(h)' <=> Adrift(h)
    BY <1>0 DEF Adrift, Tgt
  <2>3. QED
    BY <1>0, <2>1, <2>2 DEF Basis, DeviceInv, HoldsWait, Actions, BatchCmds, BatchOfCmd
<1>8. QED
  BY <1>1, <1>2, <1>3, <1>4, <1>5, <1>6, <1>7 DEF DeviceInv

(* In a call no moving device gets out of sight.                            *)
LEMMA CallCover ==
  ASSUME Basis, CoverInv, CallStep
  PROVE  CoverInv'
<1>0. cmd' = cmd /\ batch' = batch /\ \A c \in Actions(cmd) : c \in CmdId /\ c \in DOMAIN cmd
  BY DEF CallStep, books, Basis, TypeInv, Books, Actions
<1>1. BooksCoverDevice'
  <2> SUFFICES ASSUME NEW c \in Actions(cmd), phys'[c] \in Physical PROVE StillOccupying(cmd[c])
    BY <1>0 DEF BooksCoverDevice, Actions
  <2>1. QED
    BY <1>0, Moving DEF CoverInv, BooksCoverDevice, StillOccupying, Engaged
<1>2. DoneIsKnown'
  <2> SUFFICES ASSUME NEW c \in Actions(cmd), cmd[c].state = "unknown", phys'[c] = "done"
               PROVE  OutcomeUnknown(cmd[c])
    BY <1>0 DEF DoneIsKnown, Actions
  <2>1. QED
    BY <1>0, Moving DEF CoverInv, BooksCoverDevice, DoneIsKnown, StillOccupying, Engaged
<1>3. OneUp'
  <2> SUFFICES ASSUME NEW c \in Actions(cmd), NEW d \in Actions(cmd), c # d,
                      cmd[c].step = cmd[d].step, Up(c)', Up(d)'
               PROVE  Tgt(c) = d \/ Tgt(d) = c
    BY <1>0 DEF OneUp, Actions, Tgt
  <2>1. QED
    BY <1>0, Calling DEF CoverInv, OneUp
<1>4. AbortedIsOver'
  <2> SUFFICES ASSUME NEW b \in Batch, batch[b] = "aborted", NEW c \in Actions(cmd) \cap BatchCmds(cmd, b)
               PROVE  phys'[c] \notin Physical /\ cmd[c].state # "accepted"
    BY <1>0 DEF AbortedIsOver, Actions, BatchCmds
  <2>1. QED
    BY <1>0, Moving DEF CoverInv, AbortedIsOver
<1>5. QED
  BY <1>1, <1>2, <1>3, <1>4 DEF CoverInv

-----------------------------------------------------------------------------
(* The claim                                                                *)

(* What a worker other than the claiming one is busy with.                  *)
LEMMA OthersBusy ==
  ASSUME Basis, NEW c \in DOMAIN cmd, Claim(c), NEW t \in Station, job'[t].phase # "idle",
         t # StationOfCmd(c)
  PROVE  /\ job'[t] = job[t] /\ job[t].cmd \in DOMAIN cmd /\ job[t].cmd # c
         /\ cmd'[job[t].cmd] = cmd[job[t].cmd]
<1>1. job'[t] = job[t]
  BY ClaimEffect
<1>2. job[t].cmd \in DOMAIN cmd /\ StationOfCmd(job[t].cmd) = t
  BY <1>1, BusyOwn DEF Basis
<1>3. QED
  BY <1>1, <1>2, ClaimEffect

(* A claim leaves the books sound.                                          *)
LEMMA ClaimBooks ==
  ASSUME Basis, NEW c \in DOMAIN cmd, Claim(c)
  PROVE  BookInv'
<1>0. /\ c \in CmdId /\ Queued(cmd[c]) /\ batch' = batch /\ StationOfCmd(c) \in Station
      /\ DOMAIN cmd' = DOMAIN cmd /\ \A d \in DOMAIN cmd \ {c} : cmd'[d] = cmd[d]
      /\ cmd'[c].state = "accepted" /\ cmd'[c].delivery = "maybe_sent"
      /\ cmd'[c].type = cmd[c].type /\ cmd'[c].step = cmd[c].step /\ cmd'[c].target = cmd[c].target
      /\ job'[StationOfCmd(c)].phase = "claimed" /\ job'[StationOfCmd(c)].cmd = c
      /\ \A y \in DOMAIN cmd : StationOfCmd(y) = StationOfCmd(c) => ~Alone(y) /\ ~Unsettled(y)
  BY ClaimEffect
<1>1. \A d \in DOMAIN cmd : /\ cmd'[d].type = cmd[d].type /\ cmd'[d].step = cmd[d].step
                            /\ cmd'[d].target = cmd[d].target
  BY <1>0
<1>2. TargetsFit'
  BY <1>0, <1>1 DEF Basis, BookInv, TargetsFit, Tgt, Actions
<1>3. StatesFit'
  BY <1>0, <1>1 DEF Basis, BookInv, StatesFit, Actions
<1>4. ASSUME NEW t \in Station, job'[t].phase # "idle"
      PROVE  \/ t = StationOfCmd(c) /\ job'[t].cmd = c /\ job'[t].phase = "claimed"
             \/ /\ job'[t] = job[t] /\ job[t].cmd \in DOMAIN cmd /\ job[t].cmd # c
                /\ cmd'[job[t].cmd] = cmd[job[t].cmd]
  BY <1>0, <1>4, OthersBusy
<1>5. OneAtATime'
  <2>1. ASSUME NEW x \in DOMAIN cmd, Alone(x)' PROVE x = c \/ Alone(x)
    BY <1>0, <1>4, <2>1 DEF Alone, InHands
  <2>2. QED
    BY <1>0, <1>1, <2>1 DEF Basis, BookInv, OneAtATime, StationOfCmd
<1>6. SubmitsAccepted'
  BY <1>0, <1>4 DEF Basis, BookInv, SubmitsAccepted, Submitting
<1>7. CallsRemember'
  BY <1>0, <1>4 DEF Basis, BookInv, CallsRemember, Called
<1>8. TargetsFirst'
  <2> SUFFICES ASSUME NEW d \in DOMAIN cmd, Tgt(d)' # NoCmd, Unsettled(Tgt(d))'
               PROVE  cmd'[d].delivery \in {"queued", "not_sent"} /\ cmd'[d].state # "unknown"
    BY <1>0 DEF TargetsFirst
  <2>1. PICK x \in DOMAIN cmd : x = Tgt(d)' /\ x = Tgt(d) /\ x # c /\ x # NoCmd
    BY <1>0, <1>1 DEF Basis, BookInv, TargetsFit, Tgt, Actions, Queued
  <2>2. Unsettled(x)'
    BY <2>1
  <2>3. Unsettled(x)
    BY <1>0, <1>4, <2>1, <2>2 DEF Unsettled, Called
  <2>4. d # c
    <3>1. cmd[x].step = cmd[d].step
      BY <2>1 DEF Basis, BookInv, TargetsFit
    <3>2. QED
      BY <1>0, <2>3, <3>1 DEF StationOfCmd
  <2>5. Tgt(d) # NoCmd /\ Unsettled(Tgt(d))
    BY <2>1, <2>3
  <2>6. QED
    BY <1>0, <2>4, <2>5 DEF Basis, BookInv, TargetsFirst
<1>9. ControlsStand'
  BY <1>0, <1>4 DEF Basis, BookInv, ControlsStand, InFlight
<1>10. NotYetDispatched'
  BY <1>0, <1>1 DEF Basis, BookInv, NotYetDispatched, BatchCmds
<1>11. QED
  BY <1>2, <1>3, <1>5, <1>6, <1>7, <1>8, <1>9, <1>10 DEF BookInv

(* A claim moves no device.                                                 *)
LEMMA ClaimDevices ==
  ASSUME Basis, NEW c \in DOMAIN cmd, Claim(c)
  PROVE  DeviceInv'
<1>0. /\ Queued(cmd[c]) /\ batch' = batch /\ phys' = phys
      /\ DOMAIN cmd' = DOMAIN cmd /\ \A d \in DOMAIN cmd \ {c} : cmd'[d] = cmd[d]
      /\ cmd'[c].state = "accepted"
      /\ cmd'[c].type = cmd[c].type /\ cmd'[c].step = cmd[c].step /\ cmd'[c].target = cmd[c].target
      /\ c \in Actions(cmd) => batch[BatchOfCmd(c)] = "running"
      /\ job'[StationOfCmd(c)].phase = "claimed"
  BY ClaimEffect
<1>1. \A d \in DOMAIN cmd : /\ cmd'[d].type = cmd[d].type /\ cmd'[d].step = cmd[d].step
                            /\ cmd'[d].target = cmd[d].target
  BY <1>0
<1>2. AnswersTrue'
  <2> SUFFICES ASSUME NEW t \in Station, job'[t].phase = "answered"
               PROVE  /\ job'[t].reply \in {"running", "done"} => phys'[job'[t].cmd] # "none"
                      /\ job'[t].reply = "done" => phys'[job'[t].cmd] = "done"
                      /\ job'[t].reply = "failed" => phys'[job'[t].cmd] \in {"none", "stopped"}
    BY DEF AnswersTrue
  <2>1. job'[t] = job[t]
    BY <1>0, OthersBusy
  <2>2. QED
    BY <1>0, <2>1 DEF Basis, DeviceInv, AnswersTrue
<1>3. Actions(cmd') = Actions(cmd) /\ \A d \in DOMAIN cmd : Tgt(d)' = Tgt(d)
  BY <1>0, <1>1 DEF Actions, Tgt
<1>4. ResumedAtRest' /\ ResumedLetGo'
  BY <1>0, <1>3 DEF Basis, DeviceInv, ResumedAtRest, ResumedLetGo, Actions
<1>5. AbortsStop' /\ HoldsStop'
  BY <1>0, <1>1, <1>3 DEF Basis, DeviceInv, AbortsStop, HoldsStop
<1>6. HeldAtRest'
  BY <1>0, <1>3 DEF Basis, DeviceInv, HeldAtRest, Actions
<1>7. HoldsWait'
  <2> SUFFICES ASSUME NEW h \in DOMAIN cmd, Adrift(h)'
               PROVE  /\ batch[BatchOfCmd(h)] # "running"
                      /\ \A d \in Actions(cmd) : BatchOfCmd(d) = BatchOfCmd(h) =>
                           ~Queued(cmd'[d]) /\ (InFlight(cmd'[d]) => phys[d] \in AtRest)
    BY <1>0, <1>1, <1>3 DEF HoldsWait, BatchCmds, BatchOfCmd, Actions
  <2>1. Adrift(h)
    BY <1>0, <1>1, <1>3 DEF Adrift, Queued
  <2>2. /\ batch[BatchOfCmd(h)] # "running"
        /\ \A d \in Actions(cmd) : BatchOfCmd(d) = BatchOfCmd(h) =>
             ~Queued(cmd[d]) /\ (InFlight(cmd[d]) => phys[d] \in AtRest)
    BY <2>1 DEF Basis, DeviceInv, HoldsWait, BatchCmds, BatchOfCmd, Actions
  <2>3. QED
    BY <1>0, <2>2 DEF Actions
<1>8. QED
  BY <1>2, <1>4, <1>5, <1>6, <1>7 DEF DeviceInv

(* Every station has one channel, as the schema's default has it.           *)
SingleChannel == \A st \in Station : Channels[st] = 1

(* At a station with one channel nothing but the target of a claimed        *)
(* action can be going on.                                                  *)
LEMMA ChannelIsFree ==
  ASSUME Basis, SingleChannel, NEW c \in Actions(cmd), Claim(c)
  PROVE  Occupying(cmd, batch, StationOfCmd(c)) \subseteq {Tgt(c)}
<1> DEFINE st == StationOfCmd(c)
           O  == Occupying(cmd, batch, st) \ {Tgt(c)}
<1>1. c \in DOMAIN cmd
  BY DEF Actions
<1>2. st \in Station /\ Cardinality(O) < 1
  <2>1. cmd[c].type \in DISPATCHING => Cardinality(Occupying(cmd, batch, st) \ {Tgt(c)}) < Channels[st]
    BY Zenon DEF Claim, Tgt
  <2>2. st \in Station /\ cmd[c].type \in DISPATCHING
    BY <1>1, ClaimEffect DEF Actions
  <2> HIDE DEF st
  <2>3. QED
    BY <2>1, <2>2 DEF SingleChannel
<1>3. O \subseteq 1..MaxCmd
  BY CmdOwn DEF Occupying, Actions, CmdId, Basis
<1> HIDE DEF O, st
<1>4. IsFiniteSet(O)
  <2>1. IsFiniteSet(1..MaxCmd)
    BY FS_Interval, BoundAssumption
  <2>2. QED
    BY <1>3, <2>1, FS_Subset
<1>5. Cardinality(O) \in Nat
  BY <1>4, FS_CardinalityType
<1>6. O = {}
  BY <1>2, <1>4, <1>5, FS_EmptySet
<1>7. QED
  BY <1>6 DEF O, st

(* A claim lets no moving device out of sight, and brings no second action  *)
(* up at a step.                                                            *)
LEMMA ClaimCover ==
  ASSUME Basis, CoverInv, SingleChannel, NEW c \in DOMAIN cmd, Claim(c)
  PROVE  CoverInv'
<1>0. /\ Queued(cmd[c]) /\ batch' = batch /\ phys' = phys /\ phys[c] = "none"
      /\ DOMAIN cmd' = DOMAIN cmd /\ \A d \in DOMAIN cmd \ {c} : cmd'[d] = cmd[d]
      /\ cmd'[c].state = "accepted"
      /\ cmd'[c].type = cmd[c].type /\ cmd'[c].step = cmd[c].step /\ cmd'[c].target = cmd[c].target
      /\ c \in Actions(cmd) => batch[BatchOfCmd(c)] = "running"
      /\ StationOfCmd(c) \in Station
      /\ job[StationOfCmd(c)].phase = "idle" /\ job'[StationOfCmd(c)].phase = "claimed"
      /\ job'[StationOfCmd(c)].cmd = c
  BY ClaimEffect
<1>1. \A d \in DOMAIN cmd : /\ cmd'[d].type = cmd[d].type /\ cmd'[d].step = cmd[d].step
                            /\ cmd'[d].target = cmd[d].target
  BY <1>0
<1>2. Actions(cmd') = Actions(cmd) /\ \A d \in DOMAIN cmd : Tgt(d)' = Tgt(d)
  BY <1>0, <1>1 DEF Actions, Tgt
<1>3. BooksCoverDevice' /\ DoneIsKnown'
  BY <1>0, <1>2 DEF CoverInv, BooksCoverDevice, DoneIsKnown, StillOccupying, Engaged, Actions
<1>4. AbortedIsOver'
  <2> SUFFICES ASSUME NEW b \in Batch, batch[b] = "aborted", NEW d \in Actions(cmd), BatchOfCmd(d) = b
               PROVE  phys[d] \notin Physical /\ cmd'[d].state # "accepted"
    BY <1>0, <1>1, <1>2 DEF AbortedIsOver, BatchCmds, BatchOfCmd, Actions
  <2>1. phys[d] \notin Physical /\ cmd[d].state # "accepted"
    BY DEF CoverInv, AbortedIsOver, BatchCmds, BatchOfCmd, Actions
  <2>2. d # c
    BY <1>0
  <2>3. QED
    BY <1>0, <2>1, <2>2 DEF Actions
<1>5. ASSUME NEW d \in DOMAIN cmd, d # c, Up(d)' PROVE Up(d)
  <2>1. ASSUME NEW t \in Station, job'[t].phase # "idle", t # StationOfCmd(c)
        PROVE  job'[t] = job[t] /\ job[t].cmd \in DOMAIN cmd
    BY <2>1, OthersBusy
  <2>2. InHands(d)' => InHands(d)
    BY <1>0, <1>5, <2>1 DEF InHands
  <2>3. Watched(d)' => Watched(d)
    BY <1>0, <1>1, <2>1 DEF Watched, Called
  <2>4. QED
    BY <1>0, <1>5, <2>2, <2>3 DEF Up
<1>6. ASSUME NEW d \in Actions(cmd), d # c, c \in Actions(cmd), cmd[d].step = cmd[c].step, Up(d)
      PROVE  Tgt(c) = d
  <2>1. d \in DOMAIN cmd /\ StationOfCmd(d) = StationOfCmd(c) /\ BatchOfCmd(d) = BatchOfCmd(c)
    BY <1>6 DEF Actions, StationOfCmd, BatchOfCmd
  <2>2. ~InHands(d)
    BY <1>0, <2>1, BusyOwn DEF InHands, Basis
  <2>3. ~Watched(d)
    <3> SUFFICES ASSUME NEW t \in Station, Called(t), cmd[job[t].cmd].target = d PROVE FALSE
      BY DEF Watched
    <3>1. job[t].cmd \in DOMAIN cmd /\ StationOfCmd(job[t].cmd) = t
      BY BusyOwn DEF Called, Basis
    <3>2. d # NoCmd
      BY <2>1, CmdOwn, BoundAssumption DEF Basis, CmdId, NoCmd
    <3>3. cmd[d].step = cmd[job[t].cmd].step
      BY <3>1, <3>2 DEF Basis, BookInv, TargetsFit, Tgt
    <3>4. t = StationOfCmd(c)
      BY <2>1, <3>1, <3>3 DEF StationOfCmd
    <3>5. QED
      BY <1>0, <3>4 DEF Called
  <2>4. StillOccupying(cmd[d])
    BY <1>6, <2>2, <2>3 DEF Up
  <2>5. d \in Occupying(cmd, batch, StationOfCmd(c))
    BY <1>0, <1>6, <2>1, <2>4 DEF Occupying, StationCmds, StationOfCmd, BatchOfCmd, BatchEnded, StillOccupying
  <2>6. QED
    BY <1>6, <2>5, ChannelIsFree
<1>7. OneUp'
  <2> SUFFICES ASSUME NEW x \in Actions(cmd), NEW y \in Actions(cmd), x # y,
                      cmd[x].step = cmd[y].step, Up(x)', Up(y)'
               PROVE  Tgt(x) = y \/ Tgt(y) = x
    BY <1>1, <1>2 DEF OneUp, Actions
  <2>1. x \in DOMAIN cmd /\ y \in DOMAIN cmd
    BY DEF Actions
  <2>2. CASE x # c /\ y # c
    BY <1>5, <2>1, <2>2 DEF CoverInv, OneUp
  <2>3. CASE x = c
    BY <1>5, <1>6, <2>1, <2>3
  <2>4. CASE y = c
    BY <1>5, <1>6, <2>1, <2>4
  <2>5. QED
    BY <2>2, <2>3, <2>4
<1>8. QED
  BY <1>3, <1>4, <1>7 DEF CoverInv

-----------------------------------------------------------------------------
(* The invariants                                                           *)

(* At first nothing has been issued.                                        *)
LEMMA SafetyInit == Init => BookInv /\ DeviceInv /\ CoverInv
<1> SUFFICES ASSUME Init PROVE BookInv /\ DeviceInv /\ CoverInv
  OBVIOUS
<1>1. /\ phys = [c \in CmdId |-> "none"] /\ DOMAIN cmd = {}
      /\ batch = [b \in Batch |-> "scheduled"]
      /\ \A st \in Station : job[st].phase = "idle"
  BY IdleTyped DEF Init
<1>2. BookInv
  BY <1>1 DEF BookInv, TargetsFit, StatesFit, OneAtATime, SubmitsAccepted, Submitting, CallsRemember,
              Called, TargetsFirst, ControlsStand, NotYetDispatched, BatchCmds
<1>3. DeviceInv
  BY <1>1 DEF DeviceInv, AnswersTrue, ResumedAtRest, ResumedLetGo, AbortsStop, HoldsStop, HeldAtRest,
              HoldsWait, Actions
<1>4. CoverInv
  BY <1>1 DEF CoverInv, BooksCoverDevice, DoneIsKnown, OneUp, AbortedIsOver, Actions
<1>5. QED
  BY <1>2, <1>3, <1>4

(* Every step keeps what the workers and the devices rest on.               *)
LEMMA BasisNext == Basis /\ [Next]_vars => Basis'
<1> SUFFICES ASSUME Basis, [Next]_vars PROVE Basis'
  OBVIOUS
<1>1. TypeInv' /\ HandInv'
  BY TypeStep, HandNext DEF Basis
<1>2. BookInv' /\ DeviceInv'
  BY NextMoves, BasisStep, CallBooks, CallDevices, ClaimBooks, ClaimDevices
<1>3. QED
  BY <1>1, <1>2 DEF Basis

(* In every reachable state the books, the workers' memory and the devices  *)
(* fit together as Basis says: targets and their order, one command at a    *)
(* time at a station, stale readings, and what stands still.                *)
THEOREM BasisInvariant == Spec => []Basis
<1>1. Init => Basis
  BY TypeInit, HandInit, SafetyInit DEF Basis
<1>2. Basis /\ [Next]_vars => Basis'
  BY BasisNext
<1>3. QED
  BY <1>1, <1>2, PTL DEF Spec

(* An action the books call held does not move, at any number of channels   *)
(* (HeldMeansStill; confirm_hold): a hold that names its action has stopped *)
(* it, and one that does not lets nothing of its batch start.               *)
THEOREM HeldStandsStill == Spec => []HeldMeansStill
<1>1. Basis => HeldMeansStill
  BY DEF Basis, DeviceInv, HeldAtRest, AtRest, HeldMeansStill
<1>2. QED
  BY <1>1, BasisInvariant, PTL

(* Every step keeps the cover.                                              *)
LEMMA CoverNext == SingleChannel /\ Basis /\ CoverInv /\ [Next]_vars => CoverInv'
BY NextMoves, CoverStep, CallCover, ClaimCover

(* At stations with one channel the books cover the devices (CoverInv).     *)
THEOREM CoverInvariant ==
  ASSUME SingleChannel
  PROVE  Spec => []CoverInv
<1>1. Init => CoverInv
  BY SafetyInit
<1>2. Basis /\ CoverInv /\ [Next]_vars => CoverInv'
  BY CoverNext
<1>3. QED
  BY <1>1, <1>2, BasisInvariant, PTL DEF Spec

(* Whatever a device is doing for a command, the books count as possibly    *)
(* acting (BooksCoverDevice; still_occupying).                              *)
THEOREM NothingMovesUnseen ==
  ASSUME SingleChannel
  PROVE  Spec => []BooksCoverDevice
<1>1. CoverInv => BooksCoverDevice
  BY DEF CoverInv
<1>2. QED
  BY <1>1, CoverInvariant, PTL

(* A batch is declared aborted only when no device is acting for it         *)
(* (AbortedMeansStopped; _finalize_abort).                                  *)
THEOREM AbortStopsAll ==
  ASSUME SingleChannel
  PROVE  Spec => []AbortedMeansStopped
<1>1. CoverInv => AbortedMeansStopped
  BY DEF CoverInv, AbortedIsOver, AbortedMeansStopped
<1>2. QED
  BY <1>1, CoverInvariant, PTL

(* Two commands never drive the same step at the same time (SingleAction;   *)
(* _refuse_second_action, _take_over).                                      *)
THEOREM StepDrivenOnce ==
  ASSUME SingleChannel
  PROVE  Spec => []SingleAction
<1>1. Basis /\ CoverInv => SingleAction
  <2> SUFFICES ASSUME Basis, CoverInv, NEW c \in Actions(cmd), NEW d \in Actions(cmd), c # d,
                      cmd[c].step = cmd[d].step, phys[c] \in Physical, phys[d] \in Physical
               PROVE  FALSE
    BY DEF SingleAction
  <2>1. Up(c) /\ Up(d)
    BY DEF CoverInv, BooksCoverDevice, Up
  <2>2. Tgt(c) = d \/ Tgt(d) = c
    BY <2>1 DEF CoverInv, OneUp
  <2>3. c # NoCmd /\ d # NoCmd
    BY BoundAssumption DEF Basis, TypeInv, Books, Actions, CmdId, NoCmd
  <2>4. QED
    BY <2>2, <2>3 DEF Basis, DeviceInv, ResumedLetGo, Physical
<1>2. QED
  BY <1>1, BasisInvariant, CoverInvariant, PTL

-----------------------------------------------------------------------------
(* The attempts that have completed stay so                                 *)

Finished(rs, s) == {a \in DOMAIN rs[s] : rs[s][a] = "completed"}
Same(rs, ss)    == \A s \in Step : Finished(ss, s) = Finished(rs, s)

(* A batch that is done has had every one of its steps completed, and what  *)
(* a worker turns running when it commits has not completed meanwhile.      *)
DoneIsComplete == \A b \in Batch : batch[b] = "done" => \A s \in StepsOf(b) : Finished(run, s) # {}
LockHolds ==
  \A t \in Station : job[t].phase # "idle" /\ job[t].locks =>
    cmd[job[t].cmd].attempt \notin Finished(run, cmd[job[t].cmd].step)
DoneInv == DoneIsComplete /\ LockHolds

(* No batch becomes done. *)
NoneEnds == \A b \in Batch : batch'[b] = "done" => batch[b] = "done"

(* An attempt that has not completed is put to something else.              *)
LEMMA PutRunSame ==
  ASSUME NEW rs, NEW s, NEW a, NEW v, v # "completed",
         s \in Step => a \notin Finished(rs, s)
  PROVE  Same(rs, PutRun(rs, s, a, v))
<1> DEFINE ss == PutRun(rs, s, a, v)
<1>1. ASSUME NEW t \in Step PROVE Finished(ss, t) = Finished(rs, t)
  <2>1. ss[t] = [i \in DOMAIN rs[t] |-> IF t = s /\ i = a THEN v ELSE rs[t][i]]
    BY DEF PutRun
  <2>2. DOMAIN ss[t] = DOMAIN rs[t]
        /\ \A i \in DOMAIN rs[t] : ss[t][i] = IF t = s /\ i = a THEN v ELSE rs[t][i]
    BY <2>1
  <2> HIDE DEF ss
  <2>3. QED
    BY <2>2 DEF Finished
<1>2. QED
  BY <1>1 DEF Same

(* An attempt is added at a step.                                           *)
LEMMA EntryAdded ==
  ASSUME NEW rs, Runs(rs), NEW ss, NEW t \in Step, NEW v \in RunState, v # "completed",
         ss[t] = Append(rs[t], v)
  PROVE  Finished(ss, t) = Finished(rs, t)
<1> DEFINE q == Append(rs[t], v)
<1>1. rs[t] \in Seq(RunState)
  BY DEF Runs
<1>2. /\ DOMAIN q = 1..(Len(rs[t]) + 1) /\ DOMAIN rs[t] = 1..Len(rs[t]) /\ Len(rs[t]) \in Nat
      /\ \A i \in 1..Len(rs[t]) : q[i] = rs[t][i]
      /\ q[Len(rs[t]) + 1] = v
  BY <1>1
<1>3. ss[t] = q
  OBVIOUS
<1> HIDE DEF q
<1>4. QED
  BY <1>2, <1>3 DEF Finished

(* An attempt that has not completed is rewritten.                          *)
LEMMA EntryPut ==
  ASSUME NEW rs, NEW ss, NEW t, NEW i, NEW v, v # "completed", i \notin Finished(rs, t),
         ss[t] = [rs[t] EXCEPT ![i] = v]
  PROVE  Finished(ss, t) = Finished(rs, t)
BY DEF Finished

(* The same attempts stay completed through two changes.                    *)
LEMMA SameTrans ==
  ASSUME NEW rs, NEW ss, NEW ts, Same(rs, ss), Same(ss, ts)
  PROVE  Same(rs, ts)
BY DEF Same

(* A fault makes no attempt completed and none of the completed another     *)
(* thing, and no batch done.                                                *)
LEMMA FaultSame ==
  ASSUME NEW cs, NEW c, cs[c].step \in Step, NEW rs, Runs(rs), NEW snap, NEW delivery,
         batch \in [Batch -> BatchState], Fault(c, delivery, snap, cs, rs)
  PROVE  Same(rs, run') /\ NoneEnds
<1> DEFINE r   == cs[c]
           b   == BatchOf[r.step]
           cs1 == MarkUnknown(cs, c, delivery)
           rs1 == RunUnknown(rs, r)
           live == snap.batch \notin BatchEnded
           faulted == IF live /\ snap.batch # "fault" THEN [batch EXCEPT ![b] = "fault"] ELSE batch
<1>1. \/ AutoRetried(c, cs1, rs1, faulted)
      \/ cmd' = cs1 /\ run' = rs1 /\ batch' = faulted
  BY Zenon DEF Fault
<1>2. Same(rs, rs1)
  <2>1. CASE rs[r.step][r.attempt] \in OpenRun
    <3>1. r.attempt \notin Finished(rs, r.step)
      BY <2>1 DEF Finished, OpenRun
    <3>2. rs1 = PutRun(rs, r.step, r.attempt, "unknown")
      BY <2>1 DEF RunUnknown
    <3>3. QED
      BY <3>1, <3>2, PutRunSame
  <2>2. CASE rs[r.step][r.attempt] \notin OpenRun
    BY <2>2 DEF RunUnknown, Same
  <2>3. QED
    BY <2>1, <2>2
<1>3. \A x \in Batch : faulted[x] \in {batch[x], "fault"}
  OBVIOUS
<1>4. CASE cmd' = cs1 /\ run' = rs1 /\ batch' = faulted
  BY <1>2, <1>3, <1>4 DEF NoneEnds
<1>5. CASE AutoRetried(c, cs1, rs1, faulted)
  <2> DEFINE q == cs1[c]
  <2>1. /\ run' = IF rs1[q.step][q.attempt] \in {"unknown", "failed"}
                    THEN PutRun(rs1, q.step, q.attempt, "ready") ELSE rs1
        /\ batch' = faulted \/ batch' = [batch EXCEPT ![BatchOf[q.step]] = "running"]
    BY <1>5, Zenon DEF AutoRetried
  <2> HIDE DEF q, faulted
  <2>2. NoneEnds
    BY <1>3, <2>1 DEF NoneEnds
  <2>3. Same(rs1, run')
    <3>1. CASE rs1[q.step][q.attempt] \in {"unknown", "failed"}
      <4>1. q.attempt \notin Finished(rs1, q.step)
        BY <3>1 DEF Finished
      <4>2. QED
        BY <2>1, <3>1, <4>1, PutRunSame
    <3>2. CASE rs1[q.step][q.attempt] \notin {"unknown", "failed"}
      BY <2>1, <3>2 DEF Same
    <3>3. QED
      BY <3>1, <3>2
  <2>4. QED
    BY <1>2, <2>2, <2>3, SameTrans
<1>6. QED
  BY <1>1, <1>4, <1>5

(* Entries are rewritten in place, none of them to or from completed.       *)
LEMMA RewrittenSame ==
  ASSUME NEW rs, NEW ss,
         \A t \in Step : /\ DOMAIN ss[t] = DOMAIN rs[t]
                         /\ \A a \in DOMAIN rs[t] : \/ ss[t][a] = rs[t][a]
                                                    \/ ss[t][a] # "completed" /\ rs[t][a] # "completed"
  PROVE  Same(rs, ss)
BY DEF Same, Finished

(* The actions a control command never reached are running after all.       *)
LEMMA ReattachSame ==
  ASSUME NEW rs, NEW cs, NEW acting
  PROVE  Same(rs, Reattach(rs, cs, acting))
<1> DEFINE ss == Reattach(rs, cs, acting)
<1>1. ASSUME NEW t \in Step
      PROVE  /\ DOMAIN ss[t] = DOMAIN rs[t]
             /\ \A a \in DOMAIN rs[t] : \/ ss[t][a] = rs[t][a]
                                        \/ ss[t][a] # "completed" /\ rs[t][a] # "completed"
  <2>1. ss[t] = [a \in DOMAIN rs[t] |->
                   IF rs[t][a] = "unknown" /\ \E c \in acting : cs[c].step = t /\ cs[c].attempt = a
                     THEN "running" ELSE rs[t][a]]
    BY DEF Reattach
  <2> HIDE DEF ss
  <2>2. QED
    BY <2>1
<1> HIDE DEF ss
<1>2. QED
  BY <1>1, RewrittenSame DEF ss

(* The attempts stay as they are, and no batch becomes done.                *)
RunsStand == Same(run, run') /\ NoneEnds

(* Attempts that are not touched stand.                                     *)
LEMMA RunKept ==
  ASSUME run' = run, batch \in [Batch -> BatchState],
         batch' = batch \/ \E b, v : v # "done" /\ batch' = [batch EXCEPT ![b] = v]
  PROVE  RunsStand
BY DEF RunsStand, Same, NoneEnds

(* Concluding an abort makes no batch done.                                 *)
LEMMA AbortEnds ==
  ASSUME batch \in [Batch -> BatchState], NEW cs, NEW c, NEW stopped, NEW b, NEW own,
         ConfirmAbort(cs, c, stopped) \/ FinalizeAbort(cs, b, own)
  PROVE  batch' = batch \/ \E x, v : v # "done" /\ batch' = [batch EXCEPT ![x] = v]
<1>1. ASSUME NEW ds, NEW x, NEW o, FinalizeAbort(ds, x, o)
      PROVE  batch' = batch \/ batch' = [batch EXCEPT ![x] = "aborted"]
  BY <1>1, Zenon DEF FinalizeAbort
<1>2. CASE ConfirmAbort(cs, c, stopped)
  <2> DEFINE cs1 == [d \in DOMAIN cs |-> IF d \in stopped THEN [cs[d] EXCEPT !.state = "cancelled"] ELSE cs[d]]
  <2>1. batch' = batch \/ FinalizeAbort(cs1, BatchOf[cs[c].step], c)
    BY <1>2, Zenon DEF ConfirmAbort
  <2> HIDE DEF cs1
  <2>2. QED
    BY <1>1, <2>1
<1>3. QED
  BY <1>1, <1>2

(* The operator's dispatch, hold and abort, and the end of a hanging abort. *)
LEMMA OperatorSame ==
  ASSUME Basis, NEW b \in Batch, Dispatch(b) \/ Hold(b) \/ Abort(b) \/ FinishAborts(b)
  PROVE  RunsStand
<1>1. batch \in [Batch -> BatchState] /\ Runs(run)
  BY DEF Basis, TypeInv, TypeOK, Runs
<1>2. CASE Dispatch(b)
  <2>1. /\ batch' = [batch EXCEPT ![b] = "running"]
        /\ run' = [s \in Step |-> IF s \in StepsOf(b) THEN Append(run[s], "ready") ELSE run[s]]
    BY <1>2, Zenon DEF Dispatch
  <2>2. "ready" \in RunState /\ "ready" # "completed"
    BY DEF RunState, OpenRun
  <2>3. \A t \in Step : run'[t] = run[t] \/ run'[t] = Append(run[t], "ready")
    BY <2>1
  <2>4. Same(run, run')
    BY <1>1, <2>2, <2>3, EntryAdded DEF Same, Finished
  <2>5. QED
    BY <1>1, <2>1, <2>4 DEF RunsStand, NoneEnds
<1>3. CASE Hold(b)
  <2>1. run' = run /\ batch' = [batch EXCEPT ![b] = "paused"]
    BY <1>3, Zenon DEF Hold
  <2>2. QED
    BY <1>1, <2>1, RunKept
<1>4. CASE Abort(b)
  <2>1. /\ run' = [s \in Step |-> IF s \in StepsOf(b)
                     THEN [a \in DOMAIN run[s] |-> IF run[s][a] \in OpenRun THEN "cancelled" ELSE run[s][a]]
                     ELSE run[s]]
        /\ \/ batch' = [batch EXCEPT ![b] = "aborting"]
           \/ batch' = [batch EXCEPT ![b] = "aborted"]
    BY <1>4, Zenon DEF Abort
  <2>2. ASSUME NEW t \in Step
        PROVE  /\ DOMAIN run'[t] = DOMAIN run[t]
               /\ \A a \in DOMAIN run[t] : \/ run'[t][a] = run[t][a]
                                           \/ run'[t][a] # "completed" /\ run[t][a] # "completed"
    <3>1. \/ run'[t] = run[t]
          \/ run'[t] = [a \in DOMAIN run[t] |-> IF run[t][a] \in OpenRun THEN "cancelled" ELSE run[t][a]]
      BY <2>1
    <3>2. QED
      BY <3>1 DEF OpenRun
  <2>3. Same(run, run')
    BY <2>2, RewrittenSame
  <2>4. QED
    BY <1>1, <2>1, <2>3 DEF RunsStand, NoneEnds
<1>5. CASE FinishAborts(b)
  <2>1. run' = run /\ FinalizeAbort(cmd, b, NoCmd)
    BY <1>5 DEF FinishAborts
  <2>2. QED
    BY <1>1, <2>1, AbortEnds, RunKept
<1>6. QED
  BY <1>2, <1>3, <1>4, <1>5

(* A person's verdict.                                                      *)
LEMMA VerifySame ==
  ASSUME Basis, NEW c \in DOMAIN cmd, Verify(c)
  PROVE  RunsStand
<1>1. batch \in [Batch -> BatchState] /\ Runs(run) /\ cmd[c].step \in Step
  BY DEF Basis, TypeInv, TypeOK, Runs, Books, Command
<1>2. CASE VerifyExecuted(c)
  <2> DEFINE seen  == [cmd EXCEPT ![c].delivery = "delivered"]
             done  == [seen EXCEPT ![c].state = "done"]
             about == ControlTargets(cmd, c)
  <2>1. run' = run /\ (batch' = batch \/ ConfirmAbort(done, c, about))
    BY <1>2, Zenon DEF VerifyExecuted
  <2> HIDE DEF done, about
  <2>2. QED
    BY <1>1, <2>1, AbortEnds, RunKept
<1>3. Same(run, RunFailed(cmd[c]))
  <2> DEFINE r == cmd[c]
  <2>1. CASE run[r.step][r.attempt] = "unknown"
    <3>1. r.attempt \notin Finished(run, r.step)
      BY <2>1 DEF Finished
    <3>2. QED
      BY <2>1, <3>1, PutRunSame DEF RunFailed
  <2>2. CASE run[r.step][r.attempt] # "unknown"
    BY <2>2 DEF RunFailed, Same
  <2>3. QED
    BY <2>1, <2>2
<1>4. CASE VerifyNotExecuted(c)
  <2>1. /\ \/ run' = RunFailed(cmd[c])
           \/ \E acting : run' = Reattach(run, cmd, acting)
        /\ batch' = batch \/ batch' = [batch EXCEPT ![BatchOfCmd(c)] = "fault"]
    BY <1>4, Zenon DEF VerifyNotExecuted
  <2>2. Same(run, run')
    BY <1>3, <2>1, ReattachSame
  <2>3. QED
    BY <1>1, <2>1, <2>2 DEF RunsStand, NoneEnds
<1>5. CASE VerifyPartial(c)
  <2>1. (run' = RunFailed(cmd[c]) \/ run' = run) /\ batch' = batch
    BY <1>5, Zenon DEF VerifyPartial
  <2>2. QED
    BY <1>3, <2>1 DEF RunsStand, NoneEnds, Same
<1>6. QED
  BY <1>2, <1>4, <1>5 DEF Verify

(* A pass over a station, whatever it does with a command.                  *)
LEMMA ServeSame ==
  ASSUME Basis, NEW c \in DOMAIN cmd, Serve(c)
  PROVE  RunsStand
<1>1. batch \in [Batch -> BatchState] /\ Runs(run) /\ cmd[c].step \in Step
  BY DEF Basis, TypeInv, TypeOK, Runs, Books, Command
<1>2. CASE Withdraw(c) \/ Claim(c) \/ \E kind \in {"poll", "reconcile"} : Ask(c, kind)
  <2>1. run' = run /\ batch' = batch
    BY <1>2 DEF Withdraw, Claim, Ask, books
  <2>2. QED
    BY <1>1, <2>1, RunKept
<1>3. ASSUME NEW delivery, Fault(c, delivery, Fresh(c), cmd, run)
      PROVE  RunsStand
  BY <1>1, <1>3, FaultSame DEF RunsStand
<1>4. CASE Refuse(c) \/ ReconcileBlind(c) \/ ReconcileMismatch(c) \/ Timeout(c)
  BY <1>3, <1>4 DEF Refuse, ReconcileBlind, ReconcileMismatch, Timeout
<1>5. QED
  BY <1>2, <1>4 DEF Serve

(* A worker between its claim and its call.                                 *)
LEMMA PerformSame ==
  ASSUME Basis, NEW st \in Station, Perform(st)
  PROVE  RunsStand
<1> DEFINE c  == job[st].cmd
           ds == [cmd EXCEPT ![c].started = FALSE]
           done == [cmd EXCEPT ![c].state = "done", ![c].delivery = "not_sent"]
<1>1. job[st].phase = "claimed"
  BY DEF Perform, Begin, BeginRefused, BeginMoot, BeginUnsupported
<1>2. batch \in [Batch -> BatchState] /\ Runs(run) /\ c \in DOMAIN cmd /\ cmd[c].step \in Step
  BY <1>1, BusyOwn DEF Basis, TypeInv, TypeOK, Runs, Books, Command
<1>3. CASE Begin(st)
  BY <1>2, <1>3, RunKept DEF Begin, books
<1>4. CASE BeginRefused(st)
  <2>1. Fault(c, "unreachable", Fresh(c), ds, run)
    BY <1>4, Zenon DEF BeginRefused
  <2>2. Evolves(cmd, ds, {}) /\ DOMAIN ds = DOMAIN cmd
    BY <1>2, StartedSetEvolves DEF Basis, TypeInv
  <2>3. ds[c].step \in Step
    BY <1>2, <2>2 DEF Evolves, Books, Command
  <2> HIDE DEF ds, c
  <2>4. QED
    BY <1>2, <2>1, <2>3, FaultSame DEF RunsStand
<1>5. CASE BeginMoot(st)
  <2>1. run' = run /\ (batch' = batch \/ ConfirmAbort(done, c, {}))
    BY <1>5, Zenon DEF BeginMoot
  <2> HIDE DEF done, c
  <2>2. QED
    BY <1>2, <2>1, AbortEnds, RunKept
<1>6. CASE BeginUnsupported(st)
  <2>1. Fault(c, "delivered", Fresh(c), cmd, run)
    BY <1>6 DEF BeginUnsupported
  <2> HIDE DEF c
  <2>2. QED
    BY <1>2, <2>1, FaultSame DEF RunsStand
<1>7. QED
  BY <1>3, <1>4, <1>5, <1>6 DEF Perform

(* The run a worker commits with its answer has not completed meanwhile.    *)
LEMMA SeenSame ==
  ASSUME Basis, LockHolds, NEW st \in Station, job[st].phase = "answered"
  PROVE  Same(run, RunSeen(st))
<1> DEFINE r == cmd[Mine(st)]
<1>1. CASE job[st].locks
  <2>1. r.attempt \notin Finished(run, r.step)
    BY <1>1 DEF LockHolds, Mine
  <2>2. RunSeen(st) = PutRun(run, r.step, r.attempt, "running")
    BY <1>1 DEF RunSeen
  <2>3. QED
    BY <2>1, <2>2, PutRunSame
<1>2. CASE ~job[st].locks
  BY <1>2 DEF RunSeen, Same
<1>3. QED
  BY <1>1, <1>2

(* A worker after its call.                                                 *)
LEMMA SettleSame ==
  ASSUME Basis, LockHolds, NEW st \in Station, Settle(st)
  PROVE  RunsStand
<1> DEFINE c == Mine(st)
           done == [Seen(st) EXCEPT ![c].state = "done"]
           v == IF job[st].reply = "failed" THEN "failed" ELSE "unknown"
           ds == [Seen(st) EXCEPT ![c].outcome = v]
<1>1. job[st].phase = "answered"
  BY DEF Settle, SettleRunning, SettleActionDone, SettleHoldDone, SettleAbortDone, SettleFailed, SettleLost,
         Settles
<1>2. /\ batch \in [Batch -> BatchState] /\ c \in DOMAIN cmd /\ cmd[c].step \in Step
      /\ Runs(RunSeen(st)) /\ Same(run, RunSeen(st))
      /\ DOMAIN Seen(st) = DOMAIN cmd /\ Books(Seen(st))
  BY <1>1, SeenEvolves, SeenSame DEF Basis, TypeInv, TypeOK, Books, Command, Evolves
<1>3. Seen(st)[c].step \in Step
  BY <1>2 DEF Books, Command
<1>4. ASSUME NEW cs, cs[c].step \in Step, NEW delivery, NEW snap, Fault(c, delivery, snap, cs, RunSeen(st))
      PROVE  RunsStand
  BY <1>2, <1>4, FaultSame, SameTrans DEF RunsStand
<1>5. CASE SettleRunning(st) \/ SettleActionDone(st)
  <2>1. run' = RunSeen(st) /\ batch' = batch
    BY <1>5, Zenon DEF SettleRunning, SettleActionDone
  <2>2. QED
    BY <1>2, <2>1 DEF RunsStand, NoneEnds
<1>6. CASE SettleHoldDone(st) \/ SettleAbortDone(st)
  <2>1. run' = run /\ (batch' = batch \/ ConfirmAbort(done, c, TargetsSeen(st)))
    BY <1>6, Zenon DEF SettleHoldDone, SettleAbortDone
  <2> HIDE DEF done, c
  <2>2. QED
    BY <1>2, <2>1, AbortEnds, RunKept
<1>7. CASE SettleFailed(st)
  <2>1. Fault(c, "delivered", job[st].snap, ds, RunSeen(st))
    BY <1>7, Zenon DEF SettleFailed
  <2>2. ds[c].step \in Step
    BY <1>2, <1>3
  <2> HIDE DEF ds, c
  <2>3. QED
    BY <1>4, <2>1, <2>2
<1>8. CASE SettleLost(st)
  <2>1. \/ run' = run /\ batch' = batch
        \/ Fault(c, "maybe_sent", job[st].snap, cmd, RunSeen(st))
    BY <1>8, Zenon DEF SettleLost
  <2> HIDE DEF c
  <2>2. QED
    BY <1>2, <1>4, <2>1, RunKept
<1>9. QED
  BY <1>5, <1>6, <1>7, <1>8 DEF Settle

(* A batch becomes done only once every step of it has been completed.      *)
EndsComplete ==
  \A b \in Batch : batch'[b] = "done" =>
    batch[b] = "done" \/ \A s \in StepsOf(b) : Finished(run', s) # {}

(* What a retry supersedes had not completed.                               *)
LEMMA SupersededSame ==
  ASSUME NEW rs, NEW b
  PROVE  Same(rs, Superseded(b, rs))
<1> DEFINE open == OpenSteps(rs, b)
           s == IF current[b] \in open THEN current[b] ELSE MinStep(open)
           a == FirstOpen(rs, s)
<1>1. \/ Superseded(b, rs) = rs
      \/ rs[s][a] \in {"ready", "running"} /\ Superseded(b, rs) = PutRun(rs, s, a, "superseded")
  BY Zenon DEF Superseded
<1> HIDE DEF a, s
<1>2. CASE rs[s][a] \in {"ready", "running"} /\ Superseded(b, rs) = PutRun(rs, s, a, "superseded")
  <2>1. a \notin Finished(rs, s)
    BY <1>2 DEF Finished
  <2>2. QED
    BY <1>2, <2>1, PutRunSame
<1>3. CASE Superseded(b, rs) = rs
  BY <1>3 DEF Same
<1>4. QED
  BY <1>1, <1>2, <1>3

(* recover opens and turns attempts; a batch it finds complete is done.     *)
LEMMA RecoverSame ==
  ASSUME Basis, NEW b \in Batch, NEW strategy \in {"resume", "retry"}, Recover(b, strategy)
  PROVE  Same(run, run') /\ EndsComplete
<1> DEFINE acting  == ActingInBatch(cmd, b)
           moving  == {cmd[c].step : c \in acting}
           rs1     == Reattach(run, cmd, acting)
           main    == MainStep(b, rs1, strategy)
           ends    == strategy = "resume" /\ OpenSteps(rs1, b) = {} /\ DoneSteps(rs1, b) = StepsOf(b)
           opens   == main.attempt = 0
           rs2     == IF strategy = "retry" THEN Superseded(b, rs1) ELSE rs1
           rs3     == IF opens THEN [rs2 EXCEPT ![main.step] = Append(@, "ready")] ELSE rs2
           attempt == [s \in OpenSteps(rs3, b) |->
                         IF s # main.step THEN FirstOpen(rs3, s)
                         ELSE IF opens THEN Len(rs3[s]) ELSE main.attempt]
           others  == {s \in OpenSteps(rs3, b) \ {main.step} : ~HasLive(cmd, s, attempt[s])}
           again   == others \cup ({main.step} \ moving)
           rs4     == [s \in Step |-> IF s \in again THEN [rs3[s] EXCEPT ![attempt[s]] = "ready"] ELSE rs3[s]]
<1>1. /\ Runs(run) /\ batch \in [Batch -> BatchState] /\ current[b] \in StepsOf(b)
  BY DEF Basis, TypeInv, TypeOK, Runs, CurrentOwn
<1>2. \/ ends /\ batch' = [batch EXCEPT ![b] = "done"] /\ run' = run
      \/ /\ \A s \in again : OpenAttempts(rs3, s) = {attempt[s]}
         /\ batch' = [batch EXCEPT ![b] = "running"] /\ run' = rs4
  BY Zenon DEF Recover, OnlyOpen
<1>3. Same(run, rs1)
  BY ReattachSame
<1>4. CASE ends /\ batch' = [batch EXCEPT ![b] = "done"] /\ run' = run
  <2> HIDE DEF rs1
  <2>1. \A s \in StepsOf(b) : s \in Step /\ Finished(rs1, s) # {}
    BY <1>4 DEF DoneSteps, Finished, StepsOf
  <2>2. \A s \in StepsOf(b) : Finished(run', s) # {}
    BY <1>3, <1>4, <2>1 DEF Same
  <2>3. QED
    BY <1>1, <1>4, <2>2 DEF EndsComplete, Same
<1>5. CASE /\ \A s \in again : OpenAttempts(rs3, s) = {attempt[s]}
           /\ batch' = [batch EXCEPT ![b] = "running"] /\ run' = rs4
  <2>1. EndsComplete
    BY <1>1, <1>5 DEF EndsComplete
  <2>2. Runs(rs1) /\ Runs(rs2) /\ Same(rs1, rs2)
    BY <1>1, ReattachTyped, SupersededTyped, SupersededSame DEF Same
  <2>3. main.step \in Step
    <3> HIDE DEF rs1
    <3>1. main.step \in StepsOf(b)
      BY <1>1, <2>2, MainStepOf
    <3>2. QED
      BY <3>1 DEF StepsOf
  <2> HIDE DEF main, acting, rs1
  <2>4. "ready" \in RunState /\ "ready" # "completed"
    BY DEF RunState, OpenRun
  <2>5. Runs(rs3) /\ Same(rs2, rs3)
    <3> HIDE DEF rs2
    <3>1. CASE opens
      <4> DEFINE q == Append(rs2[main.step], "ready")
      <4>1. rs3 = [rs2 EXCEPT ![main.step] = q]
        BY <3>1
      <4>2. rs2[main.step] \in Seq(RunState)
        BY <2>2, <2>3 DEF Runs
      <4>3. q \in Seq(RunState)
        BY <2>4, <4>2
      <4> HIDE DEF rs3
      <4>4. \A t \in Step : rs3[t] = rs2[t] \/ rs3[t] = Append(rs2[t], "ready")
        BY <2>2, <4>1 DEF Runs
      <4>5. Same(rs2, rs3)
        BY <2>2, <2>4, <4>4, EntryAdded DEF Same, Finished
      <4>6. Runs(rs3)
        <5> HIDE DEF q
        <5>1. QED
          BY <2>2, <2>3, <4>1, <4>3 DEF Runs
      <4>7. QED
        BY <4>5, <4>6
    <3>2. CASE ~opens
      BY <2>2, <3>2 DEF Same
    <3>3. QED
      BY <3>1, <3>2
  <2>6. Same(rs3, rs4)
    <3>1. ASSUME NEW s \in Step
          PROVE  rs4[s] = IF s \in again THEN [rs3[s] EXCEPT ![attempt[s]] = "ready"] ELSE rs3[s]
      OBVIOUS
    <3> HIDE DEF rs4, again, attempt, rs3
    <3>2. ASSUME NEW s \in Step, s \in again PROVE attempt[s] \notin Finished(rs3, s)
      <4>1. attempt[s] \in OpenAttempts(rs3, s)
        BY <1>5, <3>2
      <4>2. QED
        BY <4>1 DEF OpenAttempts, OpenRun, Finished
    <3>3. ASSUME NEW s \in Step PROVE Finished(rs4, s) = Finished(rs3, s)
      <4>1. CASE s \in again
        <5> DEFINE i == attempt[s]
        <5>1. rs4[s] = [rs3[s] EXCEPT ![i] = "ready"] /\ i \notin Finished(rs3, s)
          BY <3>1, <3>2, <4>1
        <5> HIDE DEF i
        <5>2. QED
          BY <2>4, <5>1, EntryPut
      <4>2. CASE s \notin again
        BY <3>1, <4>2 DEF Finished
      <4>3. QED
        BY <4>1, <4>2
    <3>4. QED
      BY <3>3 DEF Same
  <2>7. Same(run, run')
    <3> HIDE DEF rs2, rs3, rs4
    <3>1. Same(run, rs2)
      BY <1>3, <2>2, SameTrans
    <3>2. Same(run, rs3)
      BY <2>5, <3>1, SameTrans
    <3>3. QED
      BY <1>5, <2>6, <3>2, SameTrans
  <2>8. QED
    BY <2>1, <2>7
<1>6. QED
  BY <1>2, <1>4, <1>5

(* A receipt completes its own attempt at its own step and no other.        *)
LEMMA ReceiptCompletes ==
  ASSUME Basis, NEW c \in DOMAIN cmd, ProcessAck(c)
  PROVE  /\ EndsComplete /\ ~RunLocked(cmd[c].step, cmd[c].attempt)
         /\ \A s \in Step :
              /\ Finished(run, s) \subseteq Finished(run', s)
              /\ \A a \in Finished(run', s) \ Finished(run, s) : s = cmd[c].step /\ a = cmd[c].attempt
<1> DEFINE r == cmd[c]
           b == BatchOfCmd(c)
           rs1     == PutRun(run, r.step, r.attempt, "completed")
           waiting == {s \in OpenSteps(rs1, b) : rs1[s][FirstOpen(rs1, s)] = "pending"}
           over    == AllResolved(rs1, b)
           opened  == IF over THEN {} ELSE Unopened(rs1, b)
           issued  == IF batch[b] = "running" THEN waiting \cup opened ELSE {}
           first   == IF batch[b] = "running" THEN "ready" ELSE "pending"
           rs2     == [s \in Step |-> IF s \in opened THEN Append(rs1[s], first)
                                     ELSE IF s \in issued THEN [rs1[s] EXCEPT ![FirstOpen(rs1, s)] = "ready"]
                                     ELSE rs1[s]]
<1>1. Runs(run) /\ batch \in [Batch -> BatchState]
  BY DEF Basis, TypeInv, TypeOK, Runs
<1>2. /\ ~RunLocked(r.step, r.attempt)
      /\ \/ UNCHANGED <<batch, run>>
         \/ run' = rs1 /\ UNCHANGED batch
         \/ /\ run' = rs2
            /\ (over /\ batch' = [batch EXCEPT ![b] = "done"]) \/ batch' = batch
  BY Zenon DEF ProcessAck
<1>3. Runs(rs1)
  BY <1>1, PutRunTyped DEF RunState
<1>4. \A s \in Step : /\ Finished(run, s) \subseteq Finished(rs1, s)
                      /\ \A a \in Finished(rs1, s) \ Finished(run, s) : s = r.step /\ a = r.attempt
  <2> SUFFICES ASSUME NEW s \in Step
               PROVE  /\ Finished(run, s) \subseteq Finished(rs1, s)
                      /\ \A a \in Finished(rs1, s) \ Finished(run, s) : s = r.step /\ a = r.attempt
    OBVIOUS
  <2>1. rs1[s] = [i \in DOMAIN run[s] |-> IF s = r.step /\ i = r.attempt THEN "completed" ELSE run[s][i]]
    BY DEF PutRun
  <2> HIDE DEF rs1, r
  <2>2. QED
    BY <2>1 DEF Finished
<1> HIDE DEF rs1
<1>5. Same(rs1, rs2)
  <2>1. ASSUME NEW s \in Step
        PROVE  rs2[s] = IF s \in opened THEN Append(rs1[s], first)
                        ELSE IF s \in issued THEN [rs1[s] EXCEPT ![FirstOpen(rs1, s)] = "ready"]
                        ELSE rs1[s]
    OBVIOUS
  <2>2. first \in RunState /\ first # "completed" /\ "ready" # "completed"
    BY DEF RunState, OpenRun
  <2>3. ASSUME NEW s \in issued, s \notin opened
        PROVE  FirstOpen(rs1, s) \notin Finished(rs1, s)
    BY <2>3 DEF Finished
  <2> HIDE DEF rs2, opened, issued, first
  <2>4. ASSUME NEW s \in Step PROVE Finished(rs2, s) = Finished(rs1, s)
    <3>1. CASE s \in opened
      BY <1>3, <2>1, <2>2, <3>1, EntryAdded
    <3>2. CASE s \notin opened /\ s \in issued
      <4> DEFINE i == FirstOpen(rs1, s)
      <4>1. rs2[s] = [rs1[s] EXCEPT ![i] = "ready"] /\ i \notin Finished(rs1, s)
        BY <2>1, <2>3, <3>2
      <4> HIDE DEF i
      <4>2. QED
        BY <2>2, <4>1, EntryPut
    <3>3. CASE s \notin opened /\ s \notin issued
      BY <2>1, <3>3 DEF Finished
    <3>4. QED
      BY <3>1, <3>2, <3>3
  <2>5. QED
    BY <2>4 DEF Same
<1> HIDE DEF rs2
<1>6. /\ run' = run \/ Same(rs1, run')
      /\ batch' = batch \/ (over /\ Same(rs1, run') /\ batch' = [batch EXCEPT ![b] = "done"])
  BY <1>2, <1>5 DEF Same
<1>7. EndsComplete
  <2>1. CASE over /\ Same(rs1, run') /\ batch' = [batch EXCEPT ![b] = "done"]
    <3>1. \A s \in StepsOf(b) : s \in Step /\ Finished(rs1, s) # {}
      BY <2>1 DEF AllResolved, Finished, StepsOf
    <3>2. \A s \in StepsOf(b) : Finished(run', s) # {}
      BY <2>1, <3>1 DEF Same
    <3> HIDE DEF b
    <3>3. QED
      BY <1>1, <2>1, <3>2 DEF EndsComplete
  <2>2. CASE batch' = batch
    BY <2>2 DEF EndsComplete
  <2>3. QED
    BY <1>6, <2>1, <2>2
<1>8. CASE Same(rs1, run')
  BY <1>2, <1>4, <1>7, <1>8 DEF Same
<1>9. CASE run' = run
  BY <1>2, <1>7, <1>9
<1>10. QED
  BY <1>6, <1>8, <1>9

(* A worker that holds a run row locked after a step held it before, or has *)
(* just found it ready.                                                     *)
LocksMove(t) ==
  job'[t].phase # "idle" /\ job'[t].locks =>
    \/ job[t].phase # "idle" /\ job[t].locks /\ job'[t].cmd = job[t].cmd
    \/ /\ run' = run /\ cmd' = cmd
       /\ run[cmd[job'[t].cmd].step][cmd[job'[t].cmd].attempt] = "ready"

(* One worker's memory is replaced by one that locks nothing anew.          *)
LEMMA LocksSet ==
  ASSUME Basis, NEW st \in Station, NEW j, job' = [job EXCEPT ![st] = j],
         j.phase # "idle" /\ j.locks =>
           \/ job[st].phase # "idle" /\ job[st].locks /\ j.cmd = job[st].cmd
           \/ /\ run' = run /\ cmd' = cmd
              /\ run[cmd[j.cmd].step][cmd[j.cmd].attempt] = "ready"
  PROVE  \A t \in Station : LocksMove(t)
<1>1. job'[st] = j /\ \A t \in Station \ {st} : job'[t] = job[t]
  BY DEF Basis, TypeInv, TypeOK
<1>2. QED
  BY <1>1 DEF LocksMove

(* Only a call that begins locks a run row.                                 *)
LEMMA LocksNext ==
  ASSUME Basis, [Next]_vars
  PROVE  \A t \in Station : LocksMove(t)
<1>1. CASE job' = job
  BY <1>1 DEF LocksMove
<1>2. ASSUME NEW st \in Station, job' = [job EXCEPT ![st] = Idle]
      PROVE  \A t \in Station : LocksMove(t)
  BY <1>2, IdleTyped, LocksSet
<1>3. ASSUME NEW st \in Station, NEW phase, NEW kind, NEW c, NEW reply, NEW snap,
             job' = [job EXCEPT ![st] = Working(phase, kind, c, FALSE, reply, snap)]
      PROVE  \A t \in Station : LocksMove(t)
  <2> DEFINE j == Working(phase, kind, c, FALSE, reply, snap)
  <2>1. ~j.locks
    BY DEF Working
  <2> HIDE DEF j
  <2>2. job' = [job EXCEPT ![st] = j]
    BY <1>3 DEF j
  <2>3. QED
    BY <2>1, <2>2, LocksSet
<1>4. ASSUME NEW b \in Batch, Operator(b) \/ FinishAborts(b)
      PROVE  job' = job
  BY <1>4, ZenonT(60) DEF Operator, Dispatch, Hold, Abort, Recover, FinishAborts
<1>5. ASSUME NEW c \in DOMAIN cmd, Verify(c) \/ ProcessAck(c) \/ DeviceFinish(c)
      PROVE  job' = job
  BY <1>5, Zenon DEF Verify, VerifyExecuted, VerifyNotExecuted, VerifyPartial, ProcessAck, DeviceFinish
<1>6. ASSUME NEW c \in DOMAIN cmd, Serve(c)
      PROVE  \A t \in Station : LocksMove(t)
  <2>1. StationOfCmd(c) \in Station
    BY CmdOwn DEF Basis
  <2>2. \/ job' = job
        \/ job' = [job EXCEPT ![StationOfCmd(c)] = Working("claimed", "submit", c, FALSE, "", NoSnap)]
        \/ \E kind : job' = [job EXCEPT ![StationOfCmd(c)] = Working("calling", kind, c, FALSE, "", Fresh(c))]
    BY <1>6, Zenon DEF Serve, Withdraw, Refuse, Claim, Ask, ReconcileBlind, ReconcileMismatch, Timeout
  <2> DEFINE st == StationOfCmd(c)
  <2> HIDE DEF st
  <2>3. CASE job' = [job EXCEPT ![st] = Working("claimed", "submit", c, FALSE, "", NoSnap)]
    BY <1>3, <2>1, <2>3 DEF st
  <2>4. ASSUME NEW kind, job' = [job EXCEPT ![st] = Working("calling", kind, c, FALSE, "", Fresh(c))]
        PROVE  \A t \in Station : LocksMove(t)
    BY <1>3, <2>1, <2>4 DEF st
  <2>5. QED
    BY <1>1, <2>2, <2>3, <2>4 DEF st
<1>7. ASSUME NEW st \in Station, Begin(st)
      PROVE  \A t \in Station : LocksMove(t)
  <2> DEFINE c == job[st].cmd
             l == cmd[c].type \in DISPATCHING /\ run[cmd[c].step][cmd[c].attempt] = "ready"
             j == Working("calling", "submit", c, l, "", Fresh(c))
  <2>1. job' = [job EXCEPT ![st] = j] /\ run' = run /\ cmd' = cmd
    BY <1>7, Zenon DEF Begin, books
  <2>2. j.cmd = c /\ (j.locks => l)
    BY DEF Working
  <2> HIDE DEF j
  <2>3. QED
    BY <2>1, <2>2, LocksSet
<1>8. ASSUME NEW st \in Station, BeginRefused(st) \/ BeginMoot(st) \/ BeginUnsupported(st) \/ Settle(st)
                                 \/ Interrupt(st)
      PROVE  job' = [job EXCEPT ![st] = Idle]
  BY <1>8, Zenon DEF BeginRefused, BeginMoot, BeginUnsupported, Interrupt, Settle, SettleRunning,
     SettleActionDone, SettleHoldDone, SettleAbortDone, SettleFailed, SettleLost, Settles
<1>9. ASSUME NEW st \in Station, Device(st)
      PROVE  \A t \in Station : LocksMove(t)
  <2>1. /\ job[st].phase = "calling"
        /\ \E reply : job' = [job EXCEPT ![st] =
             Working("answered", job[st].kind, job[st].cmd, job[st].locks, reply, job[st].snap)]
    BY <1>9, Zenon DEF Device, DeliverAction, DeliverControl, Answer, Answered
  <2>2. PICK reply : job' = [job EXCEPT ![st] =
             Working("answered", job[st].kind, job[st].cmd, job[st].locks, reply, job[st].snap)]
    BY <2>1
  <2> DEFINE j == Working("answered", job[st].kind, job[st].cmd, job[st].locks, reply, job[st].snap)
  <2>3. j.cmd = job[st].cmd /\ j.locks = job[st].locks
    BY DEF Working
  <2> HIDE DEF j
  <2>4. job' = [job EXCEPT ![st] = j]
    BY <2>2 DEF j
  <2>5. QED
    BY <2>1, <2>3, <2>4, LocksSet
<1>10. CASE UNCHANGED vars
  BY <1>1, <1>10 DEF vars
<1>11. QED
  BY <1>1, <1>2, <1>4, <1>5, <1>6, <1>7, <1>8, <1>9, <1>10 DEF Next, Perform

(* What a step makes of the attempts: those that have completed stay so,    *)
(* and only a receipt completes one, whose row no worker has locked.        *)
LEMMA RunNext ==
  ASSUME Basis, LockHolds, [Next]_vars
  PROVE  /\ EndsComplete
         /\ \A s \in Step : Finished(run, s) \subseteq Finished(run', s)
         /\ \/ Same(run, run')
            \/ \E c \in DOMAIN cmd :
                 /\ ~RunLocked(cmd[c].step, cmd[c].attempt)
                 /\ \A s \in Step : \A a \in Finished(run', s) \ Finished(run, s) :
                      s = cmd[c].step /\ a = cmd[c].attempt
<1>1. RunsStand => EndsComplete /\ Same(run, run')
  BY DEF RunsStand, NoneEnds, EndsComplete
<1>2. Same(run, run') => \A s \in Step : Finished(run, s) \subseteq Finished(run', s)
  BY DEF Same
<1>3. ASSUME NEW b \in Batch, Operator(b) \/ FinishAborts(b)
      PROVE  EndsComplete /\ Same(run, run')
  BY <1>1, <1>3, OperatorSame, RecoverSame DEF Operator
<1>4. ASSUME NEW c \in DOMAIN cmd, Verify(c) \/ Serve(c)
      PROVE  EndsComplete /\ Same(run, run')
  BY <1>1, <1>4, VerifySame, ServeSame
<1>5. ASSUME run' = run /\ batch' = batch
      PROVE  EndsComplete /\ Same(run, run')
  BY <1>5 DEF EndsComplete, Same
<1>6. ASSUME NEW c \in DOMAIN cmd, DeviceFinish(c)
      PROVE  EndsComplete /\ Same(run, run')
  BY <1>5, <1>6 DEF DeviceFinish, books
<1>7. ASSUME NEW st \in Station, Perform(st) \/ Device(st) \/ Settle(st) \/ Interrupt(st)
      PROVE  EndsComplete /\ Same(run, run')
  <2>1. CASE Perform(st) \/ Settle(st)
    BY <1>1, <2>1, PerformSame, SettleSame
  <2>2. CASE Device(st) \/ Interrupt(st)
    BY <1>5, <2>2 DEF Device, DeliverAction, DeliverControl, Answer, Interrupt, books
  <2>3. QED
    BY <1>7, <2>1, <2>2
<1>8. CASE UNCHANGED vars
  BY <1>5, <1>8 DEF vars, books
<1>9. ASSUME NEW c \in DOMAIN cmd, ProcessAck(c)
      PROVE  /\ EndsComplete /\ ~RunLocked(cmd[c].step, cmd[c].attempt)
             /\ \A s \in Step :
                  /\ Finished(run, s) \subseteq Finished(run', s)
                  /\ \A a \in Finished(run', s) \ Finished(run, s) : s = cmd[c].step /\ a = cmd[c].attempt
  BY <1>9, ReceiptCompletes
<1>10. QED
  BY <1>2, <1>3, <1>4, <1>6, <1>7, <1>8, <1>9 DEF Next

(* The rows of the command table keep step and attempt.                     *)
LEMMA RowsStay ==
  ASSUME Basis, [Next]_vars, NEW x \in DOMAIN cmd
  PROVE  /\ x \in DOMAIN cmd' /\ cmd'[x].type = cmd[x].type /\ cmd'[x].step = cmd[x].step
         /\ cmd'[x].attempt = cmd[x].attempt /\ cmd'[x].target = cmd[x].target
<1>1. CASE BookStep
  BY <1>1 DEF BookStep, Evolves
<1>2. CASE CallStep
  BY <1>2 DEF CallStep, books
<1>3. ASSUME NEW c \in DOMAIN cmd, Claim(c)
      PROVE  \E S : Evolves(cmd, cmd', S)
  BY <1>3, ClaimWrites DEF Writes, Basis
<1>4. QED
  BY <1>1, <1>2, <1>3, NextMoves DEF Evolves

(* A batch that is done stays complete, and a run row locked by a worker is *)
(* not completed behind its back.                                           *)
LEMMA DoneNext == Basis /\ DoneInv /\ [Next]_vars => DoneInv'
<1> SUFFICES ASSUME Basis, DoneInv, [Next]_vars PROVE DoneInv'
  OBVIOUS
<1>1. \A b \in Batch : \A s \in StepsOf(b) : s \in Step
  BY DEF StepsOf
<1>2. DoneIsComplete'
  BY <1>1, RunNext DEF DoneInv, DoneIsComplete, EndsComplete
<1>3. LockHolds'
  <2> SUFFICES ASSUME NEW t \in Station, job'[t].phase # "idle", job'[t].locks
               PROVE  cmd'[job'[t].cmd].attempt \notin Finished(run', cmd'[job'[t].cmd].step)
    BY DEF LockHolds
  <2> DEFINE c == job'[t].cmd
  <2>1. CASE job[t].phase # "idle" /\ job[t].locks /\ job'[t].cmd = job[t].cmd
    <3>1. /\ c \in DOMAIN cmd /\ cmd'[c].step = cmd[c].step /\ cmd'[c].attempt = cmd[c].attempt
          /\ cmd[c].step \in Step
      BY <2>1, BusyOwn, RowsStay DEF Basis, TypeInv, Books, Command
    <3>2. cmd[c].attempt \notin Finished(run, cmd[c].step)
      BY <2>1 DEF DoneInv, LockHolds
    <3>3. RunLocked(cmd[c].step, cmd[c].attempt)
      BY <2>1 DEF RunLocked
    <3>4. LockHolds
      BY DEF DoneInv
    <3> HIDE DEF c
    <3>5. \/ Same(run, run')
          \/ \E d \in DOMAIN cmd :
               /\ ~RunLocked(cmd[d].step, cmd[d].attempt)
               /\ \A s \in Step : \A a \in Finished(run', s) \ Finished(run, s) :
                    s = cmd[d].step /\ a = cmd[d].attempt
      BY <3>4, RunNext
    <3>6. cmd[c].attempt \notin Finished(run', cmd[c].step)
      BY <3>1, <3>2, <3>3, <3>5 DEF Same
    <3>7. QED
      BY <3>1, <3>6 DEF c
  <2>2. CASE /\ run' = run /\ cmd' = cmd
             /\ run[cmd[job'[t].cmd].step][cmd[job'[t].cmd].attempt] = "ready"
    BY <2>2 DEF Finished
  <2>3. QED
    BY <2>1, <2>2, LocksNext DEF LocksMove
<1>4. QED
  BY <1>2, <1>3 DEF DoneInv

-----------------------------------------------------------------------------
(* The channels                                                             *)

(* An action engages its station, or may at any moment. *)
Live(c)   == phys[c] \in Physical \/ cmd[c].state = "accepted"
Undone(c) == Finished(run, cmd[c].step) = {}

(* Two steps that have not completed never engage the same station: what    *)
(* OneActionPerChannel says where there is one channel, with the commands   *)
(* counted whose call is under way.                                         *)
ChannelInv ==
  \A c, d \in Actions(cmd) :
    /\ StationOfCmd(c) = StationOfCmd(d) /\ cmd[c].step # cmd[d].step
    /\ Undone(c) /\ Undone(d)
    => ~(Live(c) /\ Live(d))

(* Outside its claim an action does not come to engage its station.         *)
LEMMA LiveShrinks ==
  ASSUME Basis, BookStep \/ CallStep, NEW c \in DOMAIN cmd', Live(c)'
  PROVE  c \in DOMAIN cmd /\ Live(c)
<1>1. CASE CallStep
  <2>1. cmd' = cmd /\ c \in CmdId
    BY <1>1, CmdOwn DEF CallStep, books, Basis
  <2>2. QED
    BY <1>1, <2>1, Moving DEF Live
<1>2. CASE BookStep
  <2>1. c \in DOMAIN cmd
    BY <1>2, Stays DEF Live, Physical
  <2>2. phys'[c] \in Physical => phys[c] \in Physical
    BY <1>2, <2>1, Stays DEF BookStep, PhysCalm, Physical
  <2>3. QED
    BY <1>2, <2>1, <2>2, Shrinks DEF Live
<1>3. QED
  BY <1>1, <1>2

(* What is going on at a station with one channel when another action is    *)
(* claimed there is of a step that has completed, or its target.            *)
LEMMA ClaimedAlone ==
  ASSUME Basis, CoverInv, DoneInv, SingleChannel, NEW c \in Actions(cmd), Claim(c),
         NEW d \in Actions(cmd), StationOfCmd(c) = StationOfCmd(d), cmd[c].step # cmd[d].step, Undone(d)
  PROVE  ~Live(d)
<1>1. SUFFICES ASSUME Live(d) PROVE FALSE
  OBVIOUS
<1>2. c \in DOMAIN cmd /\ d \in DOMAIN cmd /\ BatchOfCmd(d) \in Batch
  BY CmdOwn DEF Actions, Basis
<1>3. cmd[d].state # "accepted"
  BY <1>2, ClaimEffect DEF Alone
<1>4. phys[d] \in Physical /\ StillOccupying(cmd[d])
  BY <1>1, <1>3 DEF Live, CoverInv, BooksCoverDevice
<1>5. batch[BatchOfCmd(d)] \notin BatchEnded
  <2>1. batch[BatchOfCmd(d)] # "aborted"
    BY <1>2, <1>4 DEF CoverInv, AbortedIsOver, BatchCmds, BatchOfCmd
  <2>2. cmd[d].step \in StepsOf(BatchOfCmd(d))
    BY <1>2 DEF StepsOf, BatchOfCmd, Basis, TypeInv, Books, Command
  <2>3. batch[BatchOfCmd(d)] # "done"
    BY <1>2, <2>2 DEF DoneInv, DoneIsComplete, Undone
  <2>4. QED
    BY <2>1, <2>3 DEF BatchEnded
<1>6. d \in Occupying(cmd, batch, StationOfCmd(c))
  BY <1>2, <1>4, <1>5 DEF Occupying, StationCmds, StationOfCmd, BatchOfCmd, StillOccupying
<1>7. d = Tgt(c) /\ d # NoCmd
  BY <1>2, <1>6, ChannelIsFree, CmdOwn, BoundAssumption DEF Basis, CmdId, NoCmd
<1>8. QED
  BY <1>2, <1>7 DEF Basis, BookInv, TargetsFit

(* Every step keeps the channels.                                           *)
LEMMA ChannelNext ==
  SingleChannel /\ Basis /\ CoverInv /\ DoneInv /\ ChannelInv /\ [Next]_vars => ChannelInv'
<1> SUFFICES ASSUME SingleChannel, Basis, CoverInv, DoneInv, ChannelInv, [Next]_vars,
                    NEW c \in Actions(cmd'), NEW d \in Actions(cmd'),
                    StationOfCmd(c)' = StationOfCmd(d)', cmd'[c].step # cmd'[d].step,
                    Undone(c)', Undone(d)', Live(c)', Live(d)'
             PROVE  FALSE
  BY DEF ChannelInv, Actions
<1>1. ASSUME NEW x \in Actions(cmd'), x \in DOMAIN cmd
      PROVE  /\ x \in Actions(cmd) /\ StationOfCmd(x)' = StationOfCmd(x) /\ cmd'[x].step = cmd[x].step
             /\ cmd[x].step \in Step
  BY <1>1, RowsStay DEF Actions, StationOfCmd, Basis, TypeInv, Books, Command
<1>2. ASSUME NEW x \in Actions(cmd'), x \in DOMAIN cmd, Undone(x)'
      PROVE  Undone(x)
  BY <1>1, <1>2, RunNext DEF Undone, DoneInv
<1>3. c \in DOMAIN cmd' /\ d \in DOMAIN cmd'
  BY DEF Actions
<1>4. CASE BookStep \/ CallStep
  <2>1. c \in DOMAIN cmd /\ d \in DOMAIN cmd /\ Live(c) /\ Live(d)
    BY <1>3, <1>4, LiveShrinks
  <2>2. QED
    BY <1>1, <1>2, <2>1 DEF ChannelInv
<1>5. ASSUME NEW x \in DOMAIN cmd, Claim(x) PROVE FALSE
  <2>1. /\ DOMAIN cmd' = DOMAIN cmd /\ phys' = phys /\ \A y \in DOMAIN cmd \ {x} : cmd'[y] = cmd[y]
    BY <1>5, ClaimEffect
  <2>2. c \in DOMAIN cmd /\ d \in DOMAIN cmd
    BY <1>3, <2>1
  <2>3. /\ c # x => Live(c)
        /\ d # x => Live(d)
    BY <2>1, <2>2 DEF Live
  <2>4. c # x \/ d # x
    BY DEF Actions
  <2>5. QED
    BY <1>1, <1>2, <1>5, <2>2, <2>3, <2>4, ClaimedAlone DEF ChannelInv
<1>6. QED
  BY <1>4, <1>5, NextMoves

(* At first nothing has been driven or completed.                           *)
LEMMA ChannelInit == Init => DoneInv /\ ChannelInv
BY IdleTyped DEF Init, DoneInv, DoneIsComplete, LockHolds, ChannelInv, Actions

(* A batch that is done has had every step of it completed, and no worker   *)
(* commits over a step that has completed (DoneInv).                        *)
THEOREM DoneInvariant == Spec => []DoneInv
<1>1. Basis /\ DoneInv /\ [Next]_vars => DoneInv'
  BY DoneNext
<1>2. Init => DoneInv
  BY ChannelInit
<1>3. QED
  BY <1>1, <1>2, BasisInvariant, PTL DEF Spec

(* At stations with one channel two actions never share it, the repetition  *)
(* of a step that has completed set aside (OneActionPerChannel; execute).   *)
THEOREM ChannelsAreKept ==
  ASSUME SingleChannel
  PROVE  Spec => []OneActionPerChannel
<1>1. Init => ChannelInv
  BY ChannelInit
<1>2. Basis /\ CoverInv /\ DoneInv /\ ChannelInv /\ [Next]_vars => ChannelInv'
  BY ChannelNext
<1>3. TypeInv /\ ChannelInv /\ SingleAction => OneActionPerChannel
  <2> SUFFICES ASSUME TypeInv, ChannelInv, SingleAction, NEW st \in Station
               PROVE  Cardinality({c \in Actions(cmd) \cap StationCmds(cmd, st) :
                        phys[c] \in Physical /\ cmd[c].step \notin DoneSteps(run, BatchOfCmd(c))}) <= Channels[st]
    BY DEF OneActionPerChannel
  <2> DEFINE S == {c \in Actions(cmd) \cap StationCmds(cmd, st) :
                     phys[c] \in Physical /\ cmd[c].step \notin DoneSteps(run, BatchOfCmd(c))}
  <2>1. ASSUME NEW c \in S
        PROVE  c \in Actions(cmd) /\ StationOfCmd(c) = st /\ Undone(c) /\ phys[c] \in Physical
    <3>1. c \in DOMAIN cmd /\ cmd[c].step \in Step
      BY DEF Actions, TypeInv, Books, Command
    <3>2. QED
      BY <3>1 DEF StationCmds, StationOfCmd, BatchOfCmd, DoneSteps, StepsOf, Undone, Finished
  <2> HIDE DEF S
  <2>2. \A c, d \in S : c = d
    BY <2>1 DEF ChannelInv, Live, SingleAction
  <2>3. Cardinality(S) <= 1
    <3>1. CASE S = {}
      BY <3>1, FS_EmptySet
    <3>2. ASSUME NEW c \in S PROVE Cardinality(S) = 1
      <4>1. S = {c}
        BY <2>2
      <4>2. QED
        BY <4>1, FS_Singleton
    <3>3. QED
      BY <3>1, <3>2
  <2>4. QED
    BY <2>3 DEF SingleChannel, S
<1>4. Basis => TypeInv
  BY DEF Basis
<1>5. QED
  BY <1>1, <1>2, <1>3, <1>4, BasisInvariant, CoverInvariant, DoneInvariant, StepDrivenOnce, PTL DEF Spec

=============================================================================
