--------------------------- MODULE Workflow_proofs ---------------------------
(***************************************************************************)
(* What the advancer promises about the instances of a flow, for every set *)
(* of sound flows, every set of signals and any number of troubles: a      *)
(* conclusion is never rewritten, and no step goes on waiting for a signal *)
(* that has come.  A step of the flow is never reasoned about by itself:    *)
(* what an action does to an instance is one of the ways RowTame allows,    *)
(* and an invariant about the agenda says which instances a transaction    *)
(* may still write.                                                         *)
(***************************************************************************)
EXTENDS Workflow, FiniteSetTheorems, WellFoundedInduction, TLAPS

-----------------------------------------------------------------------------
(* The operators the rules of a flow are built from.                        *)

(* Every set of numbers has a least one.                                    *)
LEMMA LeastOne ==
  ASSUME NEW S, S \subseteq Nat, S # {}
  PROVE  \E x \in S : \A y \in S : x <= y
<1>1. IsWellFoundedOn(OpToRel(<, Nat), Nat)
  BY NatLessThanWellFounded
<1>2. PICK x \in S : \A y \in S : ~(<<y, x>> \in OpToRel(<, Nat))
  BY <1>1, WFMin, Zenon
<1>3. ASSUME NEW y \in S PROVE x <= y
  <2>1. x \in Nat /\ y \in Nat
    OBVIOUS
  <2>2. ~(y < x)
    BY <1>2, <2>1 DEF OpToRel
  <2>3. QED
    BY <2>1, <2>2
<1>4. QED
  BY <1>3

(* The largest number of a set that has any is one of them.                 *)
LEMMA LargestIn ==
  ASSUME NEW n \in Nat, NEW S, S \subseteq 1..n, S # {}
  PROVE  Largest(S) \in S /\ \A y \in S : y <= Largest(S)
<1> DEFINE Above == {m \in Nat : \A y \in S : y <= m}
<1>1. Above \subseteq Nat /\ n \in Above
  OBVIOUS
<1>2. PICK m \in Above : \A k \in Above : m <= k
  BY <1>1, LeastOne
<1>3. m \in S
  <2>1. SUFFICES ASSUME m \notin S PROVE FALSE
    OBVIOUS
  <2>2. PICK z \in S : TRUE
    OBVIOUS
  <2>3. m \in Nat /\ z \in Nat /\ 1 <= z /\ z <= m
    BY <1>2, <2>2
  <2>4. m - 1 \in Above
    <3>1. ASSUME NEW y \in S PROVE y <= m - 1
      <4>1. y \in Nat /\ y <= m /\ y # m
        BY <1>2, <2>1
      <4>2. QED
        BY <4>1, <2>3
    <3>2. QED
      BY <2>3, <3>1
  <2>5. QED
    BY <1>2, <2>3, <2>4
<1>4. \A y \in S : y <= m
  BY <1>2
<1>5. QED
  BY <1>3, <1>4 DEF Largest

(* So it is a step of the list, or none.                                    *)
LEMMA LargestWithin ==
  ASSUME NEW n \in Nat, NEW S, S \subseteq 1..n
  PROVE  Largest(S) \in S \cup {0}
<1>1. CASE S = {}
  BY <1>1 DEF Largest
<1>2. CASE S # {}
  BY <1>2, LargestIn
<1>3. QED
  BY <1>1, <1>2

(* A set of steps one after the other has each of its members in its place. *)
LEMMA OrderedFits ==
  ASSUME NEW n \in Nat, NEW S, S \subseteq 1..n
  PROVE  Ordered(S) \in Seq(S)
<1> DEFINE Below(m) == {j \in S : j < m}
<1>1. IsFiniteSet(S) /\ Cardinality(S) \in Nat
  <2>1. IsFiniteSet(1..n)
    BY FS_Interval
  <2>2. IsFiniteSet(S)
    BY <2>1, FS_Subset
  <2>3. QED
    BY <2>2, FS_CardinalityType
<1>0. \A j \in S : j \in Nat /\ j < n + 1 /\ ~(j < 0)
  OBVIOUS
<1>2. \A m \in Nat : IsFiniteSet(Below(m)) /\ Cardinality(Below(m)) \in Nat
  <2>1. ASSUME NEW m \in Nat PROVE IsFiniteSet(Below(m)) /\ Cardinality(Below(m)) \in Nat
    <3>1. IsFiniteSet(Below(m))
      BY <1>1, FS_Subset
    <3>2. QED
      BY <3>1, FS_CardinalityType
  <2>2. QED
    BY <2>1
<1>3. ASSUME NEW k \in 1..Cardinality(S) PROVE \E i \in S : Cardinality(Below(i)) = k - 1
  <2> DEFINE Enough == {m \in Nat : Cardinality(Below(m)) >= k}
  <2>1. n + 1 \in Enough
    <3>1. Below(n + 1) = S
      BY <1>0
    <3>2. Cardinality(S) >= k
      BY <1>1
    <3>3. n + 1 \in Nat
      OBVIOUS
    <3>4. QED
      BY <3>1, <3>2, <3>3
  <2>2. PICK m \in Enough : \A j \in Enough : m <= j
    <3>1. Enough \subseteq Nat /\ Enough # {}
      BY <2>1
    <3>2. QED
      BY <3>1, LeastOne
  <2>3. m \in Nat /\ m # 0
    <3>1. Below(0) = {}
      BY <1>0
    <3>2. Cardinality(Below(0)) = 0
      BY <3>1, FS_EmptySet
    <3>3. QED
      BY <3>2, <2>2
  <2>4. Cardinality(Below(m - 1)) < k
    <3>1. m - 1 \in Nat /\ m - 1 \notin Enough
      BY <2>2, <2>3
    <3>2. ~(Cardinality(Below(m - 1)) >= k)
      BY <3>1
    <3>3. Cardinality(Below(m - 1)) \in Nat
      BY <3>1, <1>2
    <3>4. QED
      BY <3>2, <3>3
  <2>5. m - 1 \in S /\ Cardinality(Below(m)) = Cardinality(Below(m - 1)) + 1
    <3>0. \A j \in S : j < m <=> j < m - 1 \/ j = m - 1
      BY <2>3, <1>0
    <3>1. CASE m - 1 \notin S
      <4>1. Below(m) = Below(m - 1)
        BY <3>0, <3>1, Zenon
      <4>2. QED
        BY <4>1, <2>2, <2>4, <1>2, <2>3
    <3>2. CASE m - 1 \in S
      <4>1. Below(m) = Below(m - 1) \cup {m - 1} /\ m - 1 \notin Below(m - 1)
        <5>1. ~(m - 1 < m - 1)
          BY <2>3
        <5>2. QED
          BY <3>0, <3>2, <5>1, Zenon
      <4>2. IsFiniteSet(Below(m - 1))
        BY <1>2, <2>3
      <4>3. QED
        BY <3>2, <4>1, <4>2, FS_AddElement, Zenon
    <3>3. QED
      BY <3>1, <3>2
  <2>6. Cardinality(Below(m - 1)) = k - 1
    <3>1. Cardinality(Below(m)) >= k /\ Cardinality(Below(m - 1)) \in Nat
      <4>1. m \in Enough /\ m - 1 \in Nat
        BY <2>2, <2>3
      <4>2. QED
        BY <4>1, <1>2
    <3>2. QED
      BY <3>1, <2>4, <2>5
  <2>7. QED
    BY <2>5, <2>6
<1>4. Ordered(S) \in [1..Cardinality(S) -> S]
  BY <1>3 DEF Ordered
<1>5. QED
  BY <1>1, <1>4

-----------------------------------------------------------------------------
(* The invariant.  Flows are a parameter of its parts, so that a part says  *)
(* the same of the next state as long as the flow stays.                    *)

RowState   == Undecided \cup Resolved \cup Void \cup {"failed"}
DevState   == Live \cup {"none", "over"}
BatchState == {"scheduled", "running", "paused", "fault"} \cup Ended
EventType  == {"manual_submit", "review_decision", "wait_due", "timeout", "signal", "device_ack"}
EventState == {"pending", "processing", "processed", "rejected"}
EventArg   == {"", "approved", "rejected", "done", "failed", "skip", "fail"}
Reason     == {"", "gate", "branch", "split", "scrap", "review", "failed"}

ExitKeys(f)   == UNION {Exits(f[i]) : i \in DOMAIN f}
EventNames(f) == {f[i].event : i \in DOMAIN f} \ {""}

RowRec(f) ==
  [step : DOMAIN f, state : RowState, redo : BOOLEAN, exits : SUBSET ExitKeys(f),
   signal : Signals \cup {""}, late : BOOLEAN, dev : DevState]
BatchRec(f) ==
  [state : BatchState, why : Reason, note : BOOLEAN, current : DOMAIN f, redone : SUBSET (DOMAIN f),
   left : SUBSET Nat]
EventRec(n)     == [type : EventType, run : 1..n, arg : EventArg, state : EventState, tries : Nat]
SignalRec(f, n) == [name : EventNames(f), by : 0..n]
TaskRec ==
  [op : {"open", "enter", "advance", "tail"}, run : Nat, step : Nat, epoch : Nat, pruned : BOOLEAN, opened : BOOLEAN]

(* A wait that is not decided is waiting: nobody drives it or holds it back. *)
WaitsOpen(f, row) == f[row.step].kind = "wait" /\ row.state \in Undecided => row.state = "waiting"
RowsFit(f, rs)    == rs \in Seq(RowRec(f)) /\ \A r \in DOMAIN rs : WaitsOpen(f, rs[r])

(* A signal that woke an instance is the one this instance took, and none   *)
(* waits for one that has woken nobody.                                     *)
Awaits(f, row, name) ==
  f[row.step].kind = "wait" /\ f[row.step].event = name /\ row.state = "waiting" /\ row.signal = ""
SignalsFit(f, sg, rs) ==
  /\ sg \in [DOMAIN sg -> SignalRec(f, Len(rs))] /\ DOMAIN sg \subseteq Signals
  /\ \A s \in DOMAIN sg : sg[s].by # 0 => rs[sg[s].by].signal = s
  /\ \A s \in DOMAIN sg : sg[s].by = 0 => \A r \in DOMAIN rs : ~Awaits(f, rs[r], sg[s].name)

(* What is being processed is an event of an instance.                      *)
EventsFit(es, n) == es \subseteq EventRec(n)
TxFits(ts, es) ==
  /\ ts \subseteq [type : EventType, run : Nat, seen : BatchState]
  /\ \A t \in ts : \E e \in es : e.type = t.type /\ e.run = t.run

(* A transaction opens steps of the flow and advances past its instances;   *)
(* it enters only the instance it has just opened, which nobody has decided. *)
TaskFits(f, t, n) ==
  /\ t \in TaskRec
  /\ t.op = "open" => t.step \in DOMAIN f
  /\ t.op \in {"enter", "advance"} => t.run \in 1..n
Planned(f, ts, n) == ts \in Seq(TaskRec) /\ \A k \in DOMAIN ts : TaskFits(f, ts[k], n) /\ ts[k].op # "enter"
AgendaFits(f, a, rs) ==
  /\ a \in Seq(TaskRec)
  /\ \A k \in DOMAIN a : /\ TaskFits(f, a[k], Len(rs))
                         /\ a[k].op = "enter" => k = 1 /\ rs[a[k].run].state \in Undecided

(* What would be left of the transaction if it were refused is as sound as  *)
(* what it found.                                                           *)
WorkFits(f, w, ts) ==
  /\ w = [view |-> w.view, batch |-> w.batch, runs |-> w.runs, events |-> w.events, claims |-> w.claims,
          alarms |-> w.alarms, signals |-> w.signals]
  /\ w.view \in BatchState /\ w.batch \in BatchRec(f) /\ RowsFit(f, w.runs)
  /\ EventsFit(w.events, Len(w.runs)) /\ TxFits(ts, w.events) /\ SignalsFit(f, w.signals, w.runs)

FlowInv ==
  /\ steps \in Flows /\ Sound(steps)
  /\ batch \in BatchRec(steps)
  /\ RowsFit(steps, runs)
  /\ EventsFit(events, Len(runs)) /\ TxFits(tx, events)
  /\ SignalsFit(steps, signals, runs)
  /\ AgendaFits(steps, agenda, runs)
  /\ agenda # << >> => work # << >> /\ WorkFits(steps, work, tx)

-----------------------------------------------------------------------------
(* What a step may make of the instances: conclusions stand or are voided,  *)
(* nobody begins to wait, a signal is kept.                                 *)

RowTame(f, a, b) ==
  /\ b \in RowRec(f) /\ WaitsOpen(f, b)
  /\ b.step = a.step /\ b.signal = a.signal
  /\ a.state \notin Undecided => b.state \in {a.state, "superseded"}
  /\ b.state = "waiting" => a.state = "waiting"
Evolves(f, rs, new) ==
  /\ RowsFit(f, new) /\ Len(new) >= Len(rs)
  /\ \A r \in DOMAIN rs : RowTame(f, rs[r], new[r])
  /\ \A r \in DOMAIN new \ DOMAIN rs : new[r].state # "waiting"
Keeps(rs, new) ==
  /\ Len(new) >= Len(rs)
  /\ \A r \in DOMAIN rs : rs[r].state \notin Undecided => new[r].state \in {rs[r].state, "superseded"}

(* The rows of a fitting table.                                             *)
LEMMA RowsTyped ==
  ASSUME NEW f, NEW rs, RowsFit(f, rs)
  PROVE  /\ Len(rs) \in Nat /\ DOMAIN rs = 1..Len(rs)
         /\ \A r \in DOMAIN rs : rs[r] \in RowRec(f) /\ WaitsOpen(f, rs[r])
  BY DEF RowsFit

(* A table evolves when each of its rows does.                              *)
LEMMA EvolvesByRow ==
  ASSUME NEW f, NEW rs, RowsFit(f, rs), NEW new \in [DOMAIN rs -> RowRec(f)],
         \A r \in DOMAIN rs : RowTame(f, rs[r], new[r])
  PROVE  Evolves(f, rs, new) /\ Len(new) = Len(rs) /\ DOMAIN new = DOMAIN rs
<1>1. Len(rs) \in Nat /\ DOMAIN rs = 1..Len(rs)
  BY RowsTyped
<1>2. DOMAIN new = 1..Len(rs)
  BY <1>1
<1>3. \A r \in 1..Len(rs) : new[r] \in RowRec(f) /\ WaitsOpen(f, new[r])
  BY <1>1 DEF RowTame
<1>4. new \in Seq(RowRec(f)) /\ Len(new) = Len(rs)
  <2>1. new \in [1..Len(rs) -> RowRec(f)]
    BY <1>1, <1>3
  <2>2. QED
    BY <1>1, <2>1
<1>5. QED
  BY <1>1, <1>2, <1>3, <1>4 DEF Evolves, RowsFit

(* Nothing changes.                                                         *)
LEMMA EvolvesSame ==
  ASSUME NEW f, NEW rs, RowsFit(f, rs)
  PROVE  Evolves(f, rs, rs)
<1>1. Len(rs) \in Nat
  BY RowsTyped
<1>2. \A r \in DOMAIN rs : RowTame(f, rs[r], rs[r])
  BY RowsTyped DEF RowTame
<1>3. QED
  BY <1>1, <1>2 DEF Evolves

(* One change after the other.                                              *)
LEMMA EvolvesOn ==
  ASSUME NEW f, NEW rs, NEW mid, NEW new, RowsFit(f, rs), Evolves(f, rs, mid), Evolves(f, mid, new)
  PROVE  Evolves(f, rs, new)
<1>1. /\ RowsFit(f, mid) /\ RowsFit(f, new)
      /\ Len(rs) \in Nat /\ Len(mid) \in Nat /\ Len(new) \in Nat
      /\ DOMAIN rs = 1..Len(rs) /\ DOMAIN mid = 1..Len(mid) /\ DOMAIN new = 1..Len(new)
  BY RowsTyped DEF Evolves
<1>2. Len(new) >= Len(rs) /\ DOMAIN rs \subseteq DOMAIN mid /\ DOMAIN mid \subseteq DOMAIN new
  BY <1>1 DEF Evolves
<1>3. ASSUME NEW r \in DOMAIN rs PROVE RowTame(f, rs[r], new[r])
  <2>1. RowTame(f, rs[r], mid[r]) /\ RowTame(f, mid[r], new[r])
    BY <1>2 DEF Evolves
  <2>2. QED
    BY <2>1 DEF RowTame, Undecided
<1>4. ASSUME NEW r \in DOMAIN new \ DOMAIN rs PROVE new[r].state # "waiting"
  <2>1. CASE r \in DOMAIN mid
    BY <2>1, <1>4 DEF Evolves, RowTame
  <2>2. CASE r \notin DOMAIN mid
    BY <2>2 DEF Evolves
  <2>3. QED
    BY <2>1, <2>2
<1>5. QED
  BY <1>1, <1>2, <1>3, <1>4 DEF Evolves

(* Instances are added that nobody waits at.                                *)
LEMMA EvolvesMore ==
  ASSUME NEW f, NEW rs, RowsFit(f, rs), NEW more \in Seq(RowRec(f)),
         \A k \in DOMAIN more : more[k].state \notin Undecided
  PROVE  Evolves(f, rs, rs \o more)
<1>1. /\ Len(rs) \in Nat /\ DOMAIN rs = 1..Len(rs) /\ rs \in Seq(RowRec(f))
      /\ Len(more) \in Nat /\ DOMAIN more = 1..Len(more)
  BY RowsTyped DEF RowsFit
<1>2. /\ rs \o more \in Seq(RowRec(f)) /\ Len(rs \o more) = Len(rs) + Len(more)
      /\ DOMAIN (rs \o more) = 1..(Len(rs) + Len(more))
  BY <1>1
<1>3. \A r \in DOMAIN rs : (rs \o more)[r] = rs[r]
  BY <1>1
<1>4. ASSUME NEW r \in DOMAIN (rs \o more) \ DOMAIN rs PROVE (rs \o more)[r].state \notin Undecided
  <2>1. r - Len(rs) \in DOMAIN more /\ (rs \o more)[r] = more[r - Len(rs)]
    BY <1>1, <1>2
  <2>2. QED
    BY <2>1
<1>5. \A r \in DOMAIN rs : RowTame(f, rs[r], rs[r])
  BY RowsTyped DEF RowTame
<1>6. \A r \in DOMAIN (rs \o more) : WaitsOpen(f, (rs \o more)[r])
  <2>1. ASSUME NEW r \in DOMAIN (rs \o more) PROVE WaitsOpen(f, (rs \o more)[r])
    <3>1. CASE r \in DOMAIN rs
      BY <3>1, <1>3, RowsTyped
    <3>2. CASE r \notin DOMAIN rs
      BY <3>2, <1>4 DEF WaitsOpen
    <3>3. QED
      BY <3>1, <3>2
  <2>2. QED
    BY <2>1
<1>7. RowsFit(f, rs \o more)
  BY <1>2, <1>6 DEF RowsFit
<1>8. \A r \in DOMAIN (rs \o more) \ DOMAIN rs : (rs \o more)[r].state # "waiting"
  BY <1>4 DEF Undecided
<1>9. QED
  BY <1>1, <1>2, <1>3, <1>5, <1>7, <1>8 DEF Evolves

(* What evolves keeps its conclusions, and the signals still fit.           *)
LEMMA EvolvesKeeps ==
  ASSUME NEW f, NEW rs, NEW new, Evolves(f, rs, new)
  PROVE  Keeps(rs, new)
  BY DEF Evolves, Keeps, RowTame

(* The signals fit the instances still when these evolve.                   *)
LEMMA SignalsStillFit ==
  ASSUME NEW f, NEW rs, NEW new, NEW sg, RowsFit(f, rs), Evolves(f, rs, new), SignalsFit(f, sg, rs)
  PROVE  SignalsFit(f, sg, new)
<1>1. /\ Len(rs) \in Nat /\ DOMAIN rs = 1..Len(rs) /\ Len(new) \in Nat /\ DOMAIN new = 1..Len(new)
      /\ Len(new) >= Len(rs)
  BY RowsTyped DEF Evolves
<1>2. sg \in [DOMAIN sg -> SignalRec(f, Len(new))]
  <2>1. 0..Len(rs) \subseteq 0..Len(new)
    BY <1>1
  <2>2. SignalRec(f, Len(rs)) \subseteq SignalRec(f, Len(new))
    BY <2>1 DEF SignalRec
  <2>3. QED
    BY <2>2 DEF SignalsFit
<1>3. ASSUME NEW s \in DOMAIN sg, sg[s].by # 0 PROVE new[sg[s].by].signal = s
  <2>1. sg[s].by \in DOMAIN rs
    BY <1>1, <1>3 DEF SignalsFit, SignalRec
  <2>2. rs[sg[s].by].signal = s
    BY <1>3 DEF SignalsFit
  <2>3. QED
    BY <2>1, <2>2 DEF Evolves, RowTame
<1>4. ASSUME NEW s \in DOMAIN sg, sg[s].by = 0, NEW r \in DOMAIN new PROVE ~Awaits(f, new[r], sg[s].name)
  <2>1. CASE r \in DOMAIN rs
    <3>1. ~Awaits(f, rs[r], sg[s].name)
      BY <1>4, <2>1 DEF SignalsFit
    <3>2. QED
      BY <3>1, <2>1 DEF Evolves, RowTame, Awaits
  <2>2. CASE r \notin DOMAIN rs
    BY <2>2 DEF Evolves, Awaits
  <2>3. QED
    BY <2>1, <2>2
<1>5. QED
  BY <1>2, <1>3, <1>4 DEF SignalsFit

(* A row is written.                                                        *)
LEMMA RowWritten ==
  ASSUME NEW f, NEW rs, RowsFit(f, rs), NEW r \in DOMAIN rs, NEW row, RowTame(f, rs[r], row)
  PROVE  LET new == [rs EXCEPT ![r] = row]
         IN Evolves(f, rs, new) /\ Len(new) = Len(rs) /\ DOMAIN new = DOMAIN rs
<1> DEFINE new == [rs EXCEPT ![r] = row]
<1>1. new \in [DOMAIN rs -> RowRec(f)]
  <2>1. rs \in [DOMAIN rs -> RowRec(f)]
    BY RowsTyped DEF RowsFit
  <2>2. row \in RowRec(f)
    BY DEF RowTame
  <2>3. QED
    BY <2>1, <2>2
<1>2. ASSUME NEW q \in DOMAIN rs PROVE RowTame(f, rs[q], new[q])
  <2>1. CASE q = r
    BY <2>1
  <2>2. CASE q # r
    <3>1. new[q] = rs[q]
      BY <2>2
    <3>2. QED
      BY <3>1, RowsTyped DEF RowTame
  <2>3. QED
    BY <2>1, <2>2
<1> HIDE DEF new
<1>3. Evolves(f, rs, new) /\ Len(new) = Len(rs) /\ DOMAIN new = DOMAIN rs
  BY <1>1, <1>2, EvolvesByRow
<1>4. QED
  BY <1>3 DEF new

(* An instance nobody has decided on gets another state.                    *)
LEMMA RowClosed ==
  ASSUME NEW f, NEW rs, RowsFit(f, rs), NEW r \in DOMAIN rs, rs[r].state \in Undecided,
         NEW v \in RowState, v # "waiting", f[rs[r].step].kind = "wait" => v \notin Undecided
  PROVE  /\ RowTame(f, rs[r], [rs[r] EXCEPT !.state = v])
         /\ Evolves(f, rs, Closed(rs, r, v)) /\ Len(Closed(rs, r, v)) = Len(rs)
         /\ DOMAIN Closed(rs, r, v) = DOMAIN rs
<1>1. rs[r] \in RowRec(f)
  BY RowsTyped
<1>2. RowTame(f, rs[r], [rs[r] EXCEPT !.state = v])
  BY <1>1 DEF RowTame, RowRec, WaitsOpen
<1>3. Closed(rs, r, v) = [rs EXCEPT ![r] = [rs[r] EXCEPT !.state = v]]
  BY DEF Closed
<1>4. LET new == [rs EXCEPT ![r] = [rs[r] EXCEPT !.state = v]]
      IN Evolves(f, rs, new) /\ Len(new) = Len(rs) /\ DOMAIN new = DOMAIN rs
  BY <1>2, RowWritten
<1>5. QED
  BY <1>2, <1>3, <1>4

-----------------------------------------------------------------------------
(* Events and transactions.                                                 *)

(* A longer table fits what a shorter one did.                              *)
LEMMA EventsFitMore ==
  ASSUME NEW n \in Nat, NEW m \in Nat, n <= m, NEW es, EventsFit(es, n)
  PROVE  EventsFit(es, m)
<1>1. 1..n \subseteq 1..m
  OBVIOUS
<1>2. EventRec(n) \subseteq EventRec(m)
  BY <1>1 DEF EventRec
<1>3. QED
  BY <1>2 DEF EventsFit

(* Another event of an instance.                                            *)
LEMMA EventEmitted ==
  ASSUME NEW n \in Nat, NEW es, EventsFit(es, n), NEW ts, TxFits(ts, es),
         NEW type \in EventType, NEW r \in 1..n, NEW arg \in EventArg
  PROVE  EventsFit(Emit(es, type, r, arg), n) /\ TxFits(ts, Emit(es, type, r, arg))
<1>1. [type |-> type, run |-> r, arg |-> arg, state |-> "pending", tries |-> 0] \in EventRec(n)
  BY DEF EventRec, EventState
<1>2. EventsFit(Emit(es, type, r, arg), n)
  BY <1>1 DEF Emit, EventsFit
<1>3. es \subseteq Emit(es, type, r, arg)
  BY DEF Emit
<1>4. QED
  BY <1>2, <1>3 DEF TxFits

(* An event is written.                                                     *)
LEMMA EventWritten ==
  ASSUME NEW n \in Nat, NEW es, EventsFit(es, n), NEW ts, TxFits(ts, es),
         NEW e \in es, NEW d \in EventRec(n), d.type = e.type, d.run = e.run
  PROVE  EventsFit((es \ {e}) \cup {d}, n) /\ TxFits(ts, (es \ {e}) \cup {d})
<1>1. EventsFit((es \ {e}) \cup {d}, n)
  BY DEF EventsFit
<1>2. ASSUME NEW t \in ts PROVE \E x \in (es \ {e}) \cup {d} : x.type = t.type /\ x.run = t.run
  <2>1. PICK x \in es : x.type = t.type /\ x.run = t.run
    BY DEF TxFits
  <2>2. QED
    BY <2>1
<1>3. QED
  BY <1>1, <1>2 DEF TxFits

-----------------------------------------------------------------------------
(* What makes a step: the invariant holds after it, and the conclusions     *)
(* stand, unless the transaction is refused.                                *)

FlowStep == FlowInv' /\ ((work # << >> /\ runs' = work.runs) \/ Keeps(runs, runs'))
AgendaNext ==
  /\ AgendaFits(steps, agenda', runs')
  /\ agenda' # << >> => work' # << >> /\ WorkFits(steps, work', tx')
EventsNext == EventsFit(events', Len(runs')) /\ TxFits(tx', events')

(* What the invariant says of the lengths.                                  *)
LEMMA FlowTyped ==
  ASSUME FlowInv
  PROVE  /\ Len(steps) \in Nat /\ DOMAIN steps = 1..Len(steps) /\ 1 \in DOMAIN steps
         /\ Len(runs) \in Nat /\ DOMAIN runs = 1..Len(runs) /\ Row = DOMAIN runs
         /\ \A r \in Row : /\ runs[r] \in RowRec(steps) /\ WaitsOpen(steps, runs[r])
                           /\ runs[r].step \in DOMAIN steps /\ runs[r].state \in RowState
<1>1. steps \in Flows /\ RowsFit(steps, runs)
  BY DEF FlowInv
<1>2. Len(steps) \in Nat \ {0} /\ DOMAIN steps = 1..Len(steps)
  BY <1>1, FlowsAssumption
<1>3. Len(runs) \in Nat /\ DOMAIN runs = 1..Len(runs) /\ \A r \in DOMAIN runs : runs[r] \in RowRec(steps) /\ WaitsOpen(steps, runs[r])
  BY <1>1, RowsTyped
<1>4. \A r \in DOMAIN runs : runs[r].step \in DOMAIN steps /\ runs[r].state \in RowState
  BY <1>3 DEF RowRec
<1>5. QED
  BY <1>2, <1>3, <1>4 DEF Row

(* The instances evolve, no signal comes.                                   *)
LEMMA StepTaken ==
  ASSUME FlowInv, UNCHANGED <<steps, signals>>, batch' \in BatchRec(steps), Evolves(steps, runs, runs'),
         EventsNext, AgendaNext
  PROVE  FlowStep
<1>1. RowsFit(steps, runs) /\ SignalsFit(steps, signals, runs)
  BY DEF FlowInv
<1>2. SignalsFit(steps, signals, runs')
  BY <1>1, SignalsStillFit
<1>3. Keeps(runs, runs') /\ RowsFit(steps, runs')
  BY EvolvesKeeps DEF Evolves
<1>4. steps' = steps /\ signals' = signals
  OBVIOUS
<1>5. FlowInv'
  BY <1>2, <1>3, <1>4, Zenon DEF FlowInv, EventsNext, AgendaNext
<1>6. QED
  BY <1>3, <1>5 DEF FlowStep

(* No event is written.                                                     *)
LEMMA EventsStand ==
  ASSUME FlowInv, UNCHANGED <<events, tx>>, Len(runs') \in Nat, Len(runs') >= Len(runs)
  PROVE  EventsNext
<1>1. Len(runs) \in Nat /\ EventsFit(events, Len(runs)) /\ TxFits(tx, events)
  BY FlowTyped DEF FlowInv
<1>2. QED
  BY <1>1, EventsFitMore DEF EventsNext

(* Nobody writes, before or after.                                          *)
LEMMA StaysQuiet ==
  ASSUME Quiet, UNCHANGED agenda
  PROVE  AgendaNext
<1>1. agenda' = << >>
  BY DEF Quiet
<1>2. QED
  BY <1>1 DEF AgendaNext, AgendaFits

(* A task of the agenda fits a longer table.                                *)
LEMMA TaskFitsMore ==
  ASSUME NEW f, NEW n \in Nat, NEW m \in Nat, n <= m, NEW t, TaskFits(f, t, n)
  PROVE  TaskFits(f, t, m)
  BY DEF TaskFits

(* The tail of the agenda has no instance to enter.                         *)
LEMMA TailPlanned ==
  ASSUME FlowInv, agenda # << >>, NEW n \in Nat, Len(runs) <= n
  PROVE  Planned(steps, Tail(agenda), n) /\ Head(agenda) = agenda[1] /\ 1 \in DOMAIN agenda
<1>1. agenda \in Seq(TaskRec) /\ Len(agenda) \in Nat /\ Len(agenda) > 0 /\ DOMAIN agenda = 1..Len(agenda)
  BY DEF FlowInv, AgendaFits
<1>2. Tail(agenda) \in Seq(TaskRec) /\ Len(Tail(agenda)) = Len(agenda) - 1
  BY <1>1
<1>3. ASSUME NEW k \in DOMAIN Tail(agenda)
      PROVE  TaskFits(steps, Tail(agenda)[k], n) /\ Tail(agenda)[k].op # "enter"
  <2>1. k \in Nat /\ k + 1 \in DOMAIN agenda /\ k + 1 # 1 /\ Tail(agenda)[k] = agenda[k + 1]
    BY <1>1, <1>2
  <2>2. TaskFits(steps, agenda[k + 1], Len(runs)) /\ agenda[k + 1].op # "enter"
    BY <2>1 DEF FlowInv, AgendaFits
  <2>3. QED
    BY <2>1, <2>2, FlowTyped, TaskFitsMore
<1>4. QED
  BY <1>1, <1>2, <1>3 DEF Planned

(* Tasks one after the other.                                               *)
LEMMA PlannedBoth ==
  ASSUME NEW f, NEW n, NEW ts, NEW us, Planned(f, ts, n), Planned(f, us, n)
  PROVE  Planned(f, ts \o us, n)
<1>1. /\ ts \in Seq(TaskRec) /\ us \in Seq(TaskRec) /\ Len(ts) \in Nat /\ Len(us) \in Nat
      /\ DOMAIN ts = 1..Len(ts) /\ DOMAIN us = 1..Len(us)
  BY DEF Planned
<1>2. ts \o us \in Seq(TaskRec) /\ DOMAIN (ts \o us) = 1..(Len(ts) + Len(us))
  BY <1>1
<1>3. ASSUME NEW k \in DOMAIN (ts \o us) PROVE TaskFits(f, (ts \o us)[k], n) /\ (ts \o us)[k].op # "enter"
  <2>1. CASE k <= Len(ts)
    <3>1. k \in DOMAIN ts /\ (ts \o us)[k] = ts[k]
      BY <1>1, <1>2, <2>1
    <3>2. QED
      BY <3>1 DEF Planned
  <2>2. CASE ~(k <= Len(ts))
    <3>1. k - Len(ts) \in DOMAIN us /\ (ts \o us)[k] = us[k - Len(ts)]
      BY <1>1, <1>2, <2>2
    <3>2. QED
      BY <3>1 DEF Planned
  <2>3. QED
    BY <2>1, <2>2
<1>4. QED
  BY <1>2, <1>3 DEF Planned

(* What is planned is an agenda.                                            *)
LEMMA PlannedFits ==
  ASSUME NEW f, NEW rs, NEW ts, Planned(f, ts, Len(rs))
  PROVE  AgendaFits(f, ts, rs)
  BY DEF Planned, AgendaFits

(* The transaction goes on with other tasks.                                *)
LEMMA AgendaGoesOn ==
  ASSUME FlowInv, agenda # << >>, UNCHANGED tx, Len(runs') \in Nat, Len(runs') >= Len(runs),
         NEW ts, Planned(steps, ts, Len(runs')), NEW v \in BatchState, Seeing(v, ts)
  PROVE  AgendaNext
<1>1. Planned(steps, Tail(agenda), Len(runs'))
  BY FlowTyped, TailPlanned
<1>2. AgendaFits(steps, agenda', runs')
  <2>1. agenda' = ts \o Tail(agenda)
    BY DEF Seeing
  <2>2. QED
    BY <1>1, <2>1, PlannedBoth, PlannedFits
<1>3. ASSUME agenda' # << >> PROVE work' # << >> /\ WorkFits(steps, work', tx')
  <2>1. work' = [work EXCEPT !.view = v]
    BY <1>3 DEF Seeing
  <2>2. WorkFits(steps, work, tx)
    BY DEF FlowInv
  <2>3. WorkFits(steps, work', tx')
    BY <2>1, <2>2 DEF WorkFits
  <2>4. DOMAIN work' # {}
    BY <2>1, <2>2 DEF WorkFits
  <2>5. QED
    BY <2>3, <2>4
<1>4. QED
  BY <1>2, <1>3 DEF AgendaNext

(* A transaction begins to write.                                           *)
LEMMA AgendaOpens ==
  ASSUME FlowInv, NEW ts, Planned(steps, ts, Len(runs')), NEW v \in BatchState,
         NEW es, EventsFit(es, Len(runs)), TxFits(tx', es), NEW as, Opens(v, ts, es, as)
  PROVE  AgendaNext
<1>1. AgendaFits(steps, agenda', runs')
  BY PlannedFits DEF Opens
<1>2. work' = [view |-> v, batch |-> batch, runs |-> runs, events |-> es, claims |-> claims,
               alarms |-> as, signals |-> signals]
  BY DEF Opens
<1>3. WorkFits(steps, work', tx')
  BY <1>2 DEF WorkFits, FlowInv
<1>4. DOMAIN work' # {}
  BY <1>2
<1>5. QED
  BY <1>1, <1>3, <1>4 DEF AgendaNext

(* A request's transaction begins to write.                                 *)
LEMMA RequestOpens ==
  ASSUME FlowInv, UNCHANGED tx, NEW ts, Planned(steps, ts, Len(runs')), NEW v \in BatchState, Request(v, ts)
  PROVE  AgendaNext
<1>1. EventsFit(events, Len(runs)) /\ TxFits(tx', events) /\ Opens(v, ts, events, alarms)
  BY DEF FlowInv, Request
<1>2. QED
  BY <1>1, AgendaOpens

(* One task.                                                                *)
LEMMA OneTask ==
  ASSUME NEW f, NEW n \in Nat, NEW op \in {"open", "advance", "tail"}, NEW r \in Nat, NEW i \in Nat, NEW k \in Nat,
         op = "open" => i \in DOMAIN f, op = "advance" => r \in 1..n
  PROVE  Planned(f, <<Task(op, r, i, k)>>, n)
<1>1. Task(op, r, i, k) \in TaskRec
  BY DEF Task, TaskRec
<1>2. TaskFits(f, Task(op, r, i, k), n) /\ Task(op, r, i, k).op # "enter"
  BY <1>1 DEF TaskFits, Task
<1>3. QED
  BY <1>1, <1>2 DEF Planned

(* The transaction is refused.                                              *)
LEMMA Refusal ==
  ASSUME FlowInv, agenda # << >>, RolledBack, UNCHANGED <<steps, tx>>
  PROVE  FlowStep
<1>1. work # << >> /\ WorkFits(steps, work, tx)
  BY DEF FlowInv
<1>2. /\ batch' \in BatchRec(steps) /\ RowsFit(steps, runs') /\ EventsFit(events', Len(runs'))
      /\ TxFits(tx', events') /\ SignalsFit(steps, signals', runs')
  BY <1>1 DEF WorkFits, RolledBack
<1>3. agenda' = << >> /\ AgendaFits(steps, agenda', runs')
  BY DEF RolledBack, AgendaFits
<1>4. runs' = work.runs
  BY DEF RolledBack
<1>5. QED
  BY <1>1, <1>2, <1>3, <1>4, Zenon DEF FlowStep, FlowInv

(* The instances evolve while the transaction goes on.                      *)
LEMMA GoesOnWriting ==
  ASSUME FlowInv, agenda # << >>, UNCHANGED <<steps, events, signals, tx>>, batch' \in BatchRec(steps),
         Evolves(steps, runs, runs'), NEW ts, Planned(steps, ts, Len(runs')), NEW v \in BatchState, Seeing(v, ts)
  PROVE  FlowStep
<1>1. Len(runs') \in Nat /\ Len(runs') >= Len(runs)
  BY RowsTyped DEF Evolves
<1>2. EventsNext
  BY <1>1, EventsStand
<1>3. AgendaNext
  BY <1>1, AgendaGoesOn
<1>4. QED
  BY <1>2, <1>3, StepTaken

(* The instances evolve in one transaction, or in the first part of one.    *)
LEMMA WritesAtOnce ==
  ASSUME FlowInv, UNCHANGED <<steps, events, signals, tx>>, batch' \in BatchRec(steps),
         Evolves(steps, runs, runs'), AgendaNext
  PROVE  FlowStep
<1>1. Len(runs') \in Nat /\ Len(runs') >= Len(runs)
  BY RowsTyped DEF Evolves
<1>2. EventsNext
  BY <1>1, EventsStand
<1>3. QED
  BY <1>2, StepTaken

(* No task is an agenda.                                                    *)
LEMMA NoTask ==
  ASSUME NEW f, NEW n
  PROVE  Planned(f, << >>, n)
  BY DEF Planned

(* The batch is put to another state, unless it seems to be in it.          *)
LEMMA TurnedFits ==
  ASSUME NEW f, NEW b \in BatchRec(f), NEW v \in BatchState
  PROVE  Turned(b, v) \in BatchRec(f)
  BY DEF Turned, BatchRec

-----------------------------------------------------------------------------
(* A new flow.                                                              *)

(* The invariant holds at the start.                                        *)
LEMMA FlowStart ==
  ASSUME Init
  PROVE  FlowInv
<1>1. /\ steps \in {f \in Flows : Sound(f)}
      /\ batch = [state |-> "scheduled", why |-> "", note |-> FALSE, current |-> 1, redone |-> {}, left |-> {}]
      /\ runs = << >> /\ events = {} /\ tx = {} /\ agenda = << >> /\ signals = [s \in {} |-> ""]
  BY Zenon DEF Init
<1>2. Len(steps) \in Nat \ {0} /\ DOMAIN steps = 1..Len(steps)
  BY <1>1, FlowsAssumption
<1>3. batch \in BatchRec(steps)
  <2>1. 1 \in DOMAIN steps
    BY <1>2
  <2>2. QED
    BY <1>1, <2>1 DEF BatchRec, BatchState, Reason
<1>4. RowsFit(steps, runs) /\ Len(runs) = 0
  <2>1. RowsFit(steps, << >>)
    BY DEF RowsFit
  <2>2. QED
    BY <1>1, <2>1
<1>5. EventsFit(events, Len(runs)) /\ TxFits(tx, events)
  BY <1>1 DEF EventsFit, TxFits
<1>6. SignalsFit(steps, signals, runs)
  BY <1>1 DEF SignalsFit
<1>7. AgendaFits(steps, agenda, runs)
  <2>1. AgendaFits(steps, << >>, runs)
    BY NoTask, PlannedFits
  <2>2. QED
    BY <1>1, <2>1
<1>8. QED
  BY <1>1, <1>3, <1>4, <1>5, <1>6, <1>7 DEF FlowInv

-----------------------------------------------------------------------------
(* The tasks of a transaction: entering an instance.                        *)

(* Whoever enters an instance finds it undecided.                           *)
LEMMA EntersOpen ==
  ASSUME FlowInv, NEW kinds, Entering(kinds)
  PROVE  /\ agenda # << >> /\ work.view \in BatchState
         /\ R \in Row /\ R \in DOMAIN runs /\ R \in Nat /\ runs[R].state \in Undecided /\ Kind(R) \in kinds
         /\ runs[R].step \in DOMAIN steps /\ runs[R] \in RowRec(steps)
<1>1. agenda # << >> /\ Head(agenda).op = "enter" /\ Kind(R) \in kinds
  BY DEF Entering, Todo, R
<1>2. Head(agenda) = agenda[1] /\ 1 \in DOMAIN agenda
  BY <1>1 DEF FlowInv, AgendaFits
<1>3. /\ TaskFits(steps, agenda[1], Len(runs)) /\ agenda[1].op = "enter"
      /\ runs[agenda[1].run].state \in Undecided
  BY <1>1, <1>2 DEF FlowInv, AgendaFits
<1>4. R = agenda[1].run /\ R \in 1..Len(runs)
  BY <1>2, <1>3 DEF TaskFits, R
<1>5. work.view \in BatchState
  BY <1>1 DEF FlowInv, WorkFits
<1>6. QED
  BY <1>1, <1>3, <1>4, <1>5, FlowTyped

(* An instance that is entered is concluded and the flow advances past it.  *)
LEMMA ConcludesEntered ==
  ASSUME FlowInv, NEW kinds, Entering(kinds), UNCHANGED <<steps, batch, events, signals, tx>>,
         Evolves(steps, runs, runs'), Then(<<Task("advance", R, 0, 0)>>)
  PROVE  FlowStep
<1>1. agenda # << >> /\ work.view \in BatchState /\ R \in 1..Len(runs)
  BY EntersOpen, FlowTyped
<1>2. Len(runs') \in Nat /\ Len(runs') >= Len(runs) /\ Len(runs) \in Nat
  BY FlowTyped, RowsTyped DEF Evolves
<1>3. Planned(steps, <<Task("advance", R, 0, 0)>>, Len(runs'))
  <2>1. R \in 1..Len(runs') /\ R \in Nat
    BY <1>1, <1>2
  <2>2. QED
    BY <1>2, <2>1, OneTask
<1>4. batch' \in BatchRec(steps)
  BY DEF FlowInv
<1>5. QED
  BY <1>1, <1>3, <1>4, GoesOnWriting DEF Then

(* An instance that is entered is left to somebody else.                    *)
LEMMA LeavesEntered ==
  ASSUME FlowInv, NEW kinds, Entering(kinds), UNCHANGED <<steps, batch, events, signals, tx>>,
         Evolves(steps, runs, runs'), Then(<< >>)
  PROVE  FlowStep
<1>1. agenda # << >> /\ work.view \in BatchState
  BY EntersOpen
<1>2. batch' \in BatchRec(steps)
  BY DEF FlowInv
<1>3. QED
  BY <1>1, <1>2, NoTask, GoesOnWriting DEF Then

(* Nothing happens to the rows.                                             *)
LEMMA RunsStand ==
  ASSUME FlowInv, UNCHANGED runs
  PROVE  Evolves(steps, runs, runs')
  BY EvolvesSame DEF FlowInv

(* People, time and signals conclude these.                                 *)
LEMMA EnterTodoStep == ASSUME FlowInv, EnterTodo PROVE FlowStep
  BY RunsStand, LeavesEntered DEF EnterTodo

(* A row the transaction has entered is closed.                             *)
LEMMA EnteredClosed ==
  ASSUME FlowInv, NEW kinds, Entering(kinds), NEW v \in {"completed", "skipped", "failed"}, runs' = Closed(runs, R, v)
  PROVE  Evolves(steps, runs, runs')
<1>1. v \in RowState /\ v # "waiting" /\ v \notin Undecided
  BY DEF RowState, Resolved, Passed, Undecided
<1>2. RowsFit(steps, runs) /\ R \in DOMAIN runs /\ runs[R].state \in Undecided
  BY EntersOpen DEF FlowInv
<1>3. QED
  BY <1>1, <1>2, RowClosed

(* Notifications and merges.                                                *)
LEMMA EnterAtOnceStep == ASSUME FlowInv, EnterAtOnce PROVE FlowStep
  BY EnteredClosed, ConcludesEntered DEF EnterAtOnce

(* A device step is driven or waits.                                        *)
LEMMA EnterDeviceStep == ASSUME FlowInv, EnterDevice PROVE FlowStep
<1> DEFINE rs == IF Waits(R) THEN Closed(runs, R, "pending") ELSE [runs EXCEPT ![R] = Driven(@)]
<1>1. /\ Entering({"device"}) /\ UNCHANGED <<steps, tx>>
      /\ IF Clash(rs) THEN RolledBack ELSE runs' = rs /\ Then(<< >>) /\ UNCHANGED <<batch, events, signals>>
  BY DEF EnterDevice
<1>2. /\ agenda # << >> /\ RowsFit(steps, runs) /\ R \in DOMAIN runs /\ runs[R].state \in Undecided
      /\ steps[runs[R].step].kind = "device" /\ runs[R] \in RowRec(steps)
  BY <1>1, EntersOpen DEF FlowInv, Kind
<1>3. Evolves(steps, runs, rs)
  <2>1. CASE Waits(R)
    <3>1. "pending" \in RowState /\ steps[runs[R].step].kind # "wait"
      BY <1>2 DEF RowState, Undecided
    <3>2. QED
      BY <1>2, <2>1, <3>1, RowClosed
  <2>2. CASE ~Waits(R)
    <3>1. RowTame(steps, runs[R], Driven(runs[R]))
      BY <1>2 DEF RowTame, Driven, RowRec, WaitsOpen, RowState, DevState, Live, Undecided
    <3>2. rs = [runs EXCEPT ![R] = Driven(runs[R])]
      BY <2>2
    <3>3. QED
      BY <1>2, <3>1, <3>2, RowWritten
  <2>3. QED
    BY <2>1, <2>2
<1>4. CASE Clash(rs)
  BY <1>1, <1>2, <1>4, Refusal
<1>5. CASE ~Clash(rs)
  BY <1>1, <1>3, <1>5, LeavesEntered
<1>6. QED
  BY <1>4, <1>5

(* No sample is covered.                                                    *)
LEMMA EnterUncoveredStep == ASSUME FlowInv, EnterUncovered PROVE FlowStep
  BY EnteredClosed, ConcludesEntered DEF EnterUncovered

(* A node that cannot be decided pauses the batch.                          *)
LEMMA HangStep ==
  ASSUME FlowInv, NEW kinds, Entering(kinds), NEW why \in {"split", "gate", "branch"}, Hang(R, why)
  PROVE  FlowStep
<1>1. /\ agenda # << >> /\ runs[R].step \in DOMAIN steps /\ "paused" \in BatchState
      /\ why \in Reason
  BY EntersOpen DEF BatchState, Reason
<1>2. batch' \in BatchRec(steps)
  <2>1. Turned(batch, "paused") \in BatchRec(steps)
    BY <1>1, TurnedFits DEF FlowInv
  <2>2. batch' = NodePaused(batch, R, why)
    BY DEF Hang
  <2>3. QED
    BY <1>1, <2>1, <2>2 DEF NodePaused, BatchRec
<1>3. Evolves(steps, runs, runs')
  BY RunsStand DEF Hang
<1>4. QED
  BY <1>1, <1>2, <1>3, NoTask, GoesOnWriting DEF Hang

(* Splits and merges.                                                       *)
LEMMA EnterSplitEmptyStep == ASSUME FlowInv, EnterSplitEmpty PROVE FlowStep
  BY HangStep DEF EnterSplitEmpty

(* A split waits for a person, or concludes at once.                        *)
LEMMA EnterSplitStep == ASSUME FlowInv, EnterSplit PROVE FlowStep
<1>1. CASE StepOf(R).physical
  BY <1>1, RunsStand, LeavesEntered DEF EnterSplit
<1>2. CASE ~StepOf(R).physical
  BY <1>2, EnteredClosed, ConcludesEntered DEF EnterSplit
<1>3. QED
  BY <1>1, <1>2

-----------------------------------------------------------------------------
(* Gates and branches.                                                      *)

(* Voiding is always tame.                                                  *)
LEMMA VoidedEvolves ==
  ASSUME NEW f, NEW rs, RowsFit(f, rs), NEW region, NEW states
  PROVE  /\ Evolves(f, rs, Voided(rs, region, states))
         /\ Len(Voided(rs, region, states)) = Len(rs) /\ DOMAIN Voided(rs, region, states) = DOMAIN rs
<1> DEFINE new == Voided(rs, region, states)
<1>1. ASSUME NEW r \in DOMAIN rs PROVE RowTame(f, rs[r], new[r])
  <2>1. rs[r] \in RowRec(f) /\ WaitsOpen(f, rs[r])
    BY RowsTyped
  <2>2. new[r] = IF rs[r].step \in region /\ rs[r].state \in states
                 THEN [rs[r] EXCEPT !.state = "superseded"] ELSE rs[r]
    BY Zenon DEF Voided
  <2>3. QED
    BY <2>1, <2>2 DEF RowTame, RowRec, WaitsOpen, RowState, Void, Undecided
<1>2. new \in [DOMAIN rs -> RowRec(f)]
  <2>1. \A r \in DOMAIN rs : new[r] \in RowRec(f)
    BY <1>1 DEF RowTame
  <2>2. new = [r \in DOMAIN rs |-> new[r]]
    BY Zenon DEF Voided
  <2>3. QED
    BY <2>1, <2>2
<1> HIDE DEF new
<1>3. Evolves(f, rs, new) /\ Len(new) = Len(rs) /\ DOMAIN new = DOMAIN rs
  BY <1>1, <1>2, EvolvesByRow
<1>4. QED
  BY <1>3 DEF new

(* A branch that has decided keeps its exits.                               *)
LEMMA BranchDecided ==
  ASSUME NEW f, NEW rs, RowsFit(f, rs), NEW r \in DOMAIN rs, rs[r].state \in Undecided,
         NEW exits \in SUBSET ExitKeys(f)
  PROVE  /\ Evolves(f, rs, [rs EXCEPT ![r].state = "completed", ![r].exits = exits])
         /\ [Closed(rs, r, "completed") EXCEPT ![r].exits = exits]
              = [rs EXCEPT ![r].state = "completed", ![r].exits = exits]
<1> DEFINE row == [rs[r] EXCEPT !.state = "completed", !.exits = exits]
<1>1. rs[r] \in RowRec(f) /\ rs \in [DOMAIN rs -> RowRec(f)]
  BY RowsTyped DEF RowsFit
<1>2. RowTame(f, rs[r], row)
  BY <1>1 DEF RowTame, RowRec, WaitsOpen, RowState, Resolved, Passed, Undecided
<1>3. [rs EXCEPT ![r].state = "completed", ![r].exits = exits] = [rs EXCEPT ![r] = row]
  BY <1>1
<1>4. LET new == [rs EXCEPT ![r] = row] IN Evolves(f, rs, new)
  BY <1>2, RowWritten
<1>5. [Closed(rs, r, "completed") EXCEPT ![r].exits = exits]
        = [rs EXCEPT ![r].state = "completed", ![r].exits = exits]
  BY Zenon DEF Closed
<1>6. QED
  BY <1>3, <1>4, <1>5

(* A sound flow goes back only to steps of its own.                         *)
LEMMA LoopGoesBack ==
  ASSUME FlowInv, NEW r \in Row, Kind(r) = "branch", NEW exit \in Exits(StepOf(r)), LoopOf(StepOf(r), exit) # 0
  PROVE  LoopOf(StepOf(r), exit) \in DOMAIN steps
<1> DEFINE b == runs[r].step
           s == steps[b]
           k == CHOOSE k \in DOMAIN s.exits : s.exits[k].key = exit
<1>1. b \in DOMAIN steps /\ s.kind = "branch" /\ DOMAIN steps = 1..Len(steps) /\ Len(steps) \in Nat
  BY FlowTyped DEF Kind
<1>2. BranchSound(steps, b)
  BY <1>1 DEF FlowInv, Sound
<1>3. k \in DOMAIN s.exits
  BY DEF Exits, StepOf
<1>4. s.exits[k].loop # 0 /\ LoopOf(StepOf(r), exit) = s.exits[k].loop
  BY DEF LoopOf, StepOf
<1>5. s.exits[k].loop \in Loops(s)
  BY <1>3, <1>4 DEF Loops
<1>6. s.exits[k].loop \in 1..(b - 1)
  BY <1>2, <1>5 DEF BranchSound
<1> DEFINE loop == s.exits[k].loop
<1> HIDE DEF loop, k, s, b
<1>7. b \in 1..Len(steps) /\ loop \in 1..(b - 1)
  BY <1>1, <1>6 DEF loop
<1>8. loop \in DOMAIN steps
  BY <1>1, <1>7
<1>9. QED
  BY <1>4, <1>8 DEF loop

(* A rework goes back to a step of the flow.                                *)
LEMMA ReworkGoesBack ==
  ASSUME FlowInv, NEW r \in Row, Kind(r) = "gate", StepOf(r).onFail = "rework"
  PROVE  StepOf(r).reworkTo \in DOMAIN steps
<1> DEFINE g == runs[r].step
<1>1. g \in DOMAIN steps /\ steps[g].kind = "gate" /\ DOMAIN steps = 1..Len(steps) /\ Len(steps) \in Nat
  BY FlowTyped DEF Kind
<1>2. GateSound(steps, g)
  BY <1>1 DEF FlowInv, Sound
<1>3. steps[g].source \in 1..(g - 1) /\ steps[g].reworkTo \in 1..steps[g].source
  BY <1>2 DEF GateSound, StepOf
<1>4. QED
  BY <1>1, <1>3 DEF StepOf

(* A gate that passes or that nobody can decide.                            *)
LEMMA GatePassesStep == ASSUME FlowInv, GatePasses PROVE FlowStep
  BY EnteredClosed, ConcludesEntered DEF GatePasses

(* A gate without a reading asks for a person.                              *)
LEMMA GateUndecidedStep == ASSUME FlowInv, GateUndecided PROVE FlowStep
  BY HangStep DEF GateUndecided

(* A gate that fails has steps redone, holds or scraps the batch.           *)
LEMMA GateFailsStep == ASSUME FlowInv, GateFails PROVE FlowStep
<1> DEFINE g == StepOf(R)
           region == LoopBody(steps, runs[R].step, g.reworkTo)
           mid == Voided(runs, region, {"completed", "not_taken"})
<1>1. /\ Entering({"gate"})
      /\ \/ /\ g.onFail = "rework"
            /\ runs' = [mid EXCEPT ![R].state = "failed", ![R].redo = TRUE]
            /\ Then(<<Task("open", 0, g.reworkTo, 0)>>)
            /\ UNCHANGED <<steps, batch, events, signals, tx>>
         \/ Hang(R, "gate")
         \/ /\ runs' = Closed(runs, R, "failed")
            /\ batch' = [Turned(batch, "fault") EXCEPT !.why = "scrap"]
            /\ Seeing("fault", << >>)
            /\ UNCHANGED <<steps, events, signals, tx>>
  BY Zenon DEF GateFails
<1>2. /\ agenda # << >> /\ work.view \in BatchState /\ R \in Row /\ R \in DOMAIN runs /\ runs[R].state \in Undecided
      /\ Kind(R) = "gate" /\ RowsFit(steps, runs) /\ batch \in BatchRec(steps)
  BY <1>1, EntersOpen DEF FlowInv
<1>3. CASE Hang(R, "gate")
  BY <1>1, <1>3, HangStep
<1>4. ASSUME g.onFail = "rework", runs' = [mid EXCEPT ![R].state = "failed", ![R].redo = TRUE],
             Then(<<Task("open", 0, g.reworkTo, 0)>>), UNCHANGED <<steps, batch, events, signals, tx>>
      PROVE  FlowStep
  <2>1. Evolves(steps, runs, mid) /\ DOMAIN mid = DOMAIN runs /\ RowsFit(steps, mid)
    BY <1>2, VoidedEvolves DEF Evolves
  <2>2. RowTame(steps, runs[R], mid[R]) /\ mid[R] \in RowRec(steps) /\ mid \in [DOMAIN runs -> RowRec(steps)]
    BY <1>2, <2>1, RowsTyped DEF Evolves, RowsFit
  <2>3. mid[R].state \in Undecided
    <3>1. mid[R] = runs[R]
      BY <1>2 DEF Voided, Undecided
    <3>2. QED
      BY <1>2, <3>1
  <2> DEFINE row == [mid[R] EXCEPT !.state = "failed", !.redo = TRUE]
  <2>4. RowTame(steps, mid[R], row)
    BY <2>2, <2>3 DEF RowTame, RowRec, WaitsOpen, RowState, Undecided
  <2> HIDE DEF mid
  <2>5. [mid EXCEPT ![R].state = "failed", ![R].redo = TRUE] = [mid EXCEPT ![R] = row]
    BY <1>2, <2>1, <2>2
  <2>6. LET new == [mid EXCEPT ![R] = row] IN Evolves(steps, mid, new)
    BY <1>2, <2>1, <2>4, RowWritten
  <2>7. Evolves(steps, mid, runs')
    BY <1>4, <2>5, <2>6
  <2>8. Evolves(steps, runs, runs')
    BY <1>2, <2>1, <2>7, EvolvesOn
  <2>9. g.reworkTo \in DOMAIN steps /\ g.reworkTo \in Nat
    BY <1>2, <1>4, ReworkGoesBack, FlowTyped
  <2>10. Planned(steps, <<Task("open", 0, g.reworkTo, 0)>>, Len(runs'))
    <3>1. Len(runs') \in Nat
      BY <2>8, RowsTyped DEF Evolves
    <3>2. QED
      BY <2>9, <3>1, OneTask
  <2>11. QED
    BY <1>2, <1>4, <2>8, <2>10, GoesOnWriting DEF Then
<1>5. ASSUME runs' = Closed(runs, R, "failed"), batch' = [Turned(batch, "fault") EXCEPT !.why = "scrap"],
             Seeing("fault", << >>), UNCHANGED <<steps, events, signals, tx>>
      PROVE  FlowStep
  <2>1. "fault" \in BatchState
    BY DEF BatchState
  <2>2. batch' \in BatchRec(steps)
    <3>1. Turned(batch, "fault") \in BatchRec(steps)
      BY <1>2, <2>1, TurnedFits
    <3>2. QED
      BY <1>5, <3>1 DEF BatchRec, Reason
  <2>3. Evolves(steps, runs, runs')
    BY <1>1, <1>5, EnteredClosed
  <2>4. QED
    BY <1>2, <1>5, <2>1, <2>2, <2>3, NoTask, GoesOnWriting
<1>6. QED
  BY <1>1, <1>3, <1>4, <1>5

(* A branch waits for a person, or for one who can decide.                  *)
LEMMA BranchAsksStep == ASSUME FlowInv, BranchAsks PROVE FlowStep
  BY RunsStand, LeavesEntered DEF BranchAsks

(* A branch without a reading asks for a person.                            *)
LEMMA BranchUndecidedStep == ASSUME FlowInv, BranchUndecided PROVE FlowStep
  BY HangStep DEF BranchUndecided

(* Taking an exit: the rows evolve, and what is to be done next fits.       *)
LEMMA ExitTaken ==
  ASSUME FlowInv, NEW r \in Row, Kind(r) = "branch", runs[r].state \in Undecided, NEW exit \in Exits(StepOf(r)),
         \/ /\ LoopOf(StepOf(r), exit) = 0
            /\ runs' = [Closed(runs, r, "completed") EXCEPT ![r].exits = {exit}]
         \/ /\ LoopOf(StepOf(r), exit) # 0
            /\ \E body : runs' = Voided([runs EXCEPT ![r].state = "completed", ![r].exits = {exit}], body, Resolved)
  PROVE  /\ Evolves(steps, runs, runs')
         /\ LoopOf(StepOf(r), exit) = 0 => Planned(steps, <<Task("advance", r, 0, 0)>>, Len(runs'))
         /\ LoopOf(StepOf(r), exit) # 0 => Planned(steps, <<Task("open", 0, LoopOf(StepOf(r), exit), 0)>>, Len(runs'))
<1> DEFINE mid == [runs EXCEPT ![r].state = "completed", ![r].exits = {exit}]
<1>1. RowsFit(steps, runs) /\ r \in DOMAIN runs /\ r \in Nat /\ r \in 1..Len(runs) /\ Len(runs) \in Nat
  BY FlowTyped DEF FlowInv
<1>2. {exit} \in SUBSET ExitKeys(steps)
  BY FlowTyped DEF ExitKeys, StepOf
<1>0. Evolves(steps, runs, mid) /\ [Closed(runs, r, "completed") EXCEPT ![r].exits = {exit}] = mid
  <2>1. \A x \in SUBSET ExitKeys(steps) :
          /\ Evolves(steps, runs, [runs EXCEPT ![r].state = "completed", ![r].exits = x])
          /\ [Closed(runs, r, "completed") EXCEPT ![r].exits = x]
               = [runs EXCEPT ![r].state = "completed", ![r].exits = x]
    BY <1>1, BranchDecided
  <2>2. QED
    BY <1>2, <2>1
<1>3. Evolves(steps, runs, mid) /\ RowsFit(steps, mid) /\ [Closed(runs, r, "completed") EXCEPT ![r].exits = {exit}] = mid
  BY <1>0, Zenon DEF Evolves
<1> HIDE DEF mid
<1>4. Evolves(steps, runs, runs')
  <2>1. CASE LoopOf(StepOf(r), exit) = 0
    BY <1>3, <2>1
  <2>2. CASE LoopOf(StepOf(r), exit) # 0
    <3>1. PICK body : runs' = Voided(mid, body, Resolved)
      BY <2>2 DEF mid
    <3>2. Evolves(steps, mid, runs')
      BY <1>3, <3>1, VoidedEvolves
    <3>3. QED
      BY <1>1, <1>3, <3>2, EvolvesOn
  <2>3. QED
    BY <2>1, <2>2
<1>5. Len(runs') \in Nat /\ r \in 1..Len(runs')
  BY <1>1, <1>4, RowsTyped DEF Evolves
<1>6. LoopOf(StepOf(r), exit) = 0 => Planned(steps, <<Task("advance", r, 0, 0)>>, Len(runs'))
  BY <1>1, <1>5, OneTask
<1>7. ASSUME LoopOf(StepOf(r), exit) # 0
      PROVE  Planned(steps, <<Task("open", 0, LoopOf(StepOf(r), exit), 0)>>, Len(runs'))
  <2>1. LoopOf(StepOf(r), exit) \in DOMAIN steps /\ LoopOf(StepOf(r), exit) \in Nat
    BY <1>7, LoopGoesBack, FlowTyped
  <2>2. QED
    BY <1>5, <2>1, OneTask
<1>8. QED
  BY <1>4, <1>6, <1>7

(* A branch follows its reading.                                            *)
LEMMA BranchTakesStep == ASSUME FlowInv, BranchTakes PROVE FlowStep
<1>1. PICK exit \in Exits(StepOf(R)) :
        \/ Take(R, exit, Then) /\ UNCHANGED <<steps, batch, events, signals, tx>>
        \/ Hang(R, "branch")
  BY DEF BranchTakes
<1>2. /\ Entering({"branch"}) /\ agenda # << >> /\ work.view \in BatchState /\ R \in Row
      /\ runs[R].state \in Undecided /\ Kind(R) = "branch" /\ batch \in BatchRec(steps)
  BY EntersOpen DEF BranchTakes, FlowInv
<1>3. CASE Hang(R, "branch")
  BY <1>2, <1>3, HangStep
<1>4. ASSUME Take(R, exit, Then), UNCHANGED <<steps, batch, events, signals, tx>> PROVE FlowStep
  <2>1. CASE LoopOf(StepOf(R), exit) = 0
    <3>1. runs' = [Closed(runs, R, "completed") EXCEPT ![R].exits = {exit}] /\ Then(<<Task("advance", R, 0, 0)>>)
      BY <1>4, <2>1 DEF Take
    <3>2. QED
      BY <1>2, <1>4, <2>1, <3>1, ExitTaken, GoesOnWriting DEF Then
  <2>2. CASE LoopOf(StepOf(R), exit) # 0
    <3>1. /\ \E body : runs' = Voided([runs EXCEPT ![R].state = "completed", ![R].exits = {exit}], body, Resolved)
          /\ Then(<<Task("open", 0, LoopOf(StepOf(R), exit), 0)>>)
      BY <1>4, <2>2 DEF Take
    <3>2. QED
      BY <1>2, <1>4, <2>2, <3>1, ExitTaken, GoesOnWriting DEF Then
  <2>3. QED
    BY <2>1, <2>2
<1>5. QED
  BY <1>1, <1>3, <1>4

(* A branch routes the samples.                                             *)
LEMMA BranchRoutesStep == ASSUME FlowInv, BranchRoutes PROVE FlowStep
<1>1. PICK exits \in SUBSET Exits(StepOf(R)) \ {{}} :
        runs' = [Closed(runs, R, "completed") EXCEPT ![R].exits = exits]
  BY DEF BranchRoutes
<1>2. Entering({"branch"}) /\ Then(<<Task("advance", R, 0, 0)>>) /\ UNCHANGED <<steps, batch, events, signals, tx>>
  BY DEF BranchRoutes
<1>3. RowsFit(steps, runs) /\ R \in DOMAIN runs /\ runs[R].state \in Undecided /\ runs[R].step \in DOMAIN steps
  BY <1>2, EntersOpen DEF FlowInv
<1>4. exits \in SUBSET ExitKeys(steps)
  BY <1>3 DEF ExitKeys, StepOf
<1>5. Evolves(steps, runs, runs')
  BY <1>1, <1>3, <1>4, BranchDecided
<1>6. QED
  BY <1>2, <1>5, ConcludesEntered

-----------------------------------------------------------------------------
(* Opening an instance.                                                     *)

(* Conclusions kept by one change after the other are kept.                 *)
LEMMA KeepsOn ==
  ASSUME NEW f, NEW rs, NEW mid, NEW new, RowsFit(f, rs), RowsFit(f, mid), RowsFit(f, new),
         Keeps(rs, mid), Keeps(mid, new)
  PROVE  Keeps(rs, new)
<1>1. /\ Len(rs) \in Nat /\ DOMAIN rs = 1..Len(rs) /\ Len(mid) \in Nat /\ DOMAIN mid = 1..Len(mid)
      /\ Len(new) \in Nat /\ Len(mid) >= Len(rs) /\ Len(new) >= Len(mid)
  BY RowsTyped DEF Keeps
<1>2. Len(new) >= Len(rs) /\ DOMAIN rs \subseteq DOMAIN mid
  BY <1>1
<1>3. ASSUME NEW r \in DOMAIN rs, rs[r].state \notin Undecided PROVE new[r].state \in {rs[r].state, "superseded"}
  <2>1. mid[r].state \in {rs[r].state, "superseded"} /\ "superseded" \notin Undecided
    BY <1>3 DEF Keeps, Undecided
  <2>2. QED
    BY <1>2, <1>3, <2>1 DEF Keeps
<1>4. QED
  BY <1>2, <1>3 DEF Keeps

(* A new instance, with the signal it takes.                                *)
Opening(i, s) == [NewRun(i) EXCEPT !.signal = s]

(* What a new instance is.                                                  *)
LEMMA NewRunFits ==
  ASSUME FlowInv, NEW i \in DOMAIN steps
  PROVE  /\ NewRun(i) \in RowRec(steps) /\ NewRun(i).step = i /\ NewRun(i).state = InitialState(steps[i])
         /\ InitialState(steps[i]) \in Undecided
         /\ steps[i].kind = "wait" => InitialState(steps[i]) = "waiting"
<1>1. /\ InitialState(steps[i]) \in Undecided /\ InitialState(steps[i]) \in RowState
      /\ (steps[i].kind = "wait" => InitialState(steps[i]) = "waiting") /\ "none" \in DevState
  BY DEF InitialState, Undecided, RowState, DevState
<1>2. QED
  BY <1>1 DEF NewRun, RowRec

(* What a new instance is when it has taken a signal.                       *)
LEMMA OpeningRow ==
  ASSUME FlowInv, NEW i \in DOMAIN steps, NEW s \in Takes(i)
  PROVE  /\ Opening(i, s) \in RowRec(steps) /\ WaitsOpen(steps, Opening(i, s))
         /\ Opening(i, s).step = i /\ Opening(i, s).signal = s /\ Opening(i, s).state = InitialState(steps[i])
         /\ Opening(i, s).state \in Undecided
<1>1. s \in Signals \cup {""}
  <2>1. DOMAIN signals \subseteq Signals
    BY Zenon DEF FlowInv, SignalsFit
  <2>2. QED
    BY <2>1, Zenon DEF Takes, EarlySignal
<1>2. /\ Opening(i, s) \in RowRec(steps) /\ Opening(i, s).step = i /\ Opening(i, s).signal = s
      /\ Opening(i, s).state = InitialState(steps[i])
  <2> DEFINE row == NewRun(i)
  <2>1. row \in RowRec(steps) /\ row.step = i /\ row.state = InitialState(steps[i])
    BY NewRunFits
  <2>2. Opening(i, s) = [row EXCEPT !.signal = s]
    BY DEF Opening
  <2> HIDE DEF row
  <2>3. QED
    <3> DEFINE out == [row EXCEPT !.signal = s]
    <3>1. out \in RowRec(steps) /\ out.signal = s /\ out.step = row.step /\ out.state = row.state
      BY <1>1, <2>1 DEF RowRec
    <3> HIDE DEF out
    <3>2. Opening(i, s) = out
      BY <2>2 DEF out
    <3>3. QED
      BY <2>1, <3>1, <3>2
<1>3. QED
  BY <1>2, NewRunFits DEF WaitsOpen

(* The signals received, after an instance has taken this one.              *)
TakenBy(s, r) == IF s = "" THEN signals ELSE [signals EXCEPT ![s].by = r]

(* A signal is given to an instance.                                        *)
LEMMA SignalGiven ==
  ASSUME NEW f, NEW n, NEW m \in Nat, NEW g \in SignalRec(f, n)
  PROVE  /\ [g EXCEPT !.by = m] \in SignalRec(f, m) /\ [g EXCEPT !.by = m].by = m
         /\ [g EXCEPT !.by = m].name = g.name
  BY DEF SignalRec

(* An instance is opened; if a signal has come early, it wakes this one.    *)
LEMMA OpeningFits ==
  ASSUME FlowInv, NEW rs, RowsFit(steps, rs), SignalsFit(steps, signals, rs),
         NEW i \in DOMAIN steps, NEW s \in Takes(i)
  PROVE  /\ RowsFit(steps, Append(rs, Opening(i, s))) /\ Len(Append(rs, Opening(i, s))) = Len(rs) + 1
         /\ Keeps(rs, Append(rs, Opening(i, s)))
         /\ SignalsFit(steps, TakenBy(s, Len(rs) + 1), Append(rs, Opening(i, s)))
<1> DEFINE row == Opening(i, s)
           new == Append(rs, row)
           n == Len(rs) + 1
           sg == TakenBy(s, n)
<1>1. /\ row \in RowRec(steps) /\ WaitsOpen(steps, row) /\ row.step = i /\ row.signal = s
      /\ row.state \in Undecided
  BY OpeningRow
<1>2. rs \in Seq(RowRec(steps)) /\ Len(rs) \in Nat /\ DOMAIN rs = 1..Len(rs) /\ n \in Nat
  BY RowsTyped DEF RowsFit
<1> HIDE DEF row, sg
<1>3. new \in Seq(RowRec(steps)) /\ Len(new) = n /\ DOMAIN new = 1..n /\ new[n] = row
  BY <1>1, <1>2
<1>4. \A r \in DOMAIN rs : new[r] = rs[r]
  BY <1>1, <1>2
<1>5. \A r \in DOMAIN new : r = n \/ r \in DOMAIN rs
  BY <1>2, <1>3
<1>6. RowsFit(steps, new)
  BY <1>1, <1>3, <1>4, <1>5, RowsTyped DEF RowsFit
<1>7. Keeps(rs, new)
  BY <1>2, <1>3, <1>4 DEF Keeps
<1>8. /\ signals \in [DOMAIN signals -> SignalRec(steps, Len(rs))] /\ DOMAIN signals \subseteq Signals
      /\ "" \notin DOMAIN signals
  BY SignalsAssumption DEF SignalsFit
<1>9. \A x \in DOMAIN signals : signals[x] \in SignalRec(steps, Len(rs)) /\ signals[x].by \in 0..Len(rs)
  BY <1>8 DEF SignalRec
<1>10. SignalRec(steps, Len(rs)) \subseteq SignalRec(steps, n)
  <2>1. 0..Len(rs) \subseteq 0..n
    BY <1>2
  <2>2. QED
    BY <2>1 DEF SignalRec
<1>11. \A x \in DOMAIN signals : signals[x].by # 0 => new[signals[x].by].signal = x
  BY <1>2, <1>4, <1>9 DEF SignalsFit
<1>12. \A x \in DOMAIN signals : signals[x].by = 0 => \A r \in DOMAIN rs : ~Awaits(steps, new[r], signals[x].name)
  BY <1>4 DEF SignalsFit
<1>13. CASE s = ""
  <2>1. sg = signals
    BY <1>13 DEF TakenBy, sg
  <2>2. ASSUME NEW x \in DOMAIN signals, signals[x].by = 0, Awaits(steps, row, signals[x].name) PROVE FALSE
    <3>1. signals[x].name # "" /\ steps[i].kind = "wait" /\ steps[i].event = signals[x].name
      BY <1>1, <1>9, <2>2 DEF SignalRec, EventNames, Awaits
    <3>2. x \in EarlySignal(i) /\ WaitsForSignal(i)
      BY <2>2, <3>1 DEF EarlySignal, WaitsForSignal
    <3>3. s \in EarlySignal(i)
      BY <3>2 DEF Takes
    <3>4. QED
      BY <1>8, <1>13, <3>3 DEF EarlySignal
  <2>3. sg \in [DOMAIN sg -> SignalRec(steps, n)]
    BY <1>8, <1>10, <2>1
  <2> HIDE DEF new
  <2>4. \A x \in DOMAIN sg : sg[x].by = 0 => \A r \in DOMAIN new : ~Awaits(steps, new[r], sg[x].name)
    BY <1>3, <1>5, <1>12, <2>1, <2>2
  <2>5. SignalsFit(steps, sg, new)
    BY <1>3, <1>8, <1>11, <2>1, <2>3, <2>4 DEF SignalsFit
  <2>6. QED
    BY <1>3, <1>6, <1>7, <2>5 DEF new, row, sg
<1>14. CASE s # ""
  <2>1. sg = [signals EXCEPT ![s] = [signals[s] EXCEPT !.by = n]]
    BY <1>14, Zenon DEF TakenBy, sg
  <2>2. s \in DOMAIN signals /\ signals[s].by = 0
    BY <1>14 DEF Takes, EarlySignal
  <2>3. /\ DOMAIN sg = DOMAIN signals /\ sg[s].by = n /\ sg[s] \in SignalRec(steps, n)
        /\ \A x \in DOMAIN signals \ {s} : sg[x] = signals[x]
    <3>1. signals[s] \in SignalRec(steps, n) /\ n \in 0..n
      BY <1>2, <1>9, <1>10, <2>2
    <3>2. [signals[s] EXCEPT !.by = n] \in SignalRec(steps, n) /\ [signals[s] EXCEPT !.by = n].by = n
      BY <1>2, <3>1, SignalGiven
    <3> DEFINE g == [signals[s] EXCEPT !.by = n]
    <3> HIDE DEF g
    <3>3. sg = [signals EXCEPT ![s] = g] /\ g \in SignalRec(steps, n) /\ g.by = n
      BY <2>1, <3>2 DEF g
    <3> HIDE DEF n
    <3>4. QED
      BY <1>8, <2>2, <3>3
  <2>4. \A x \in DOMAIN sg : sg[x] \in SignalRec(steps, n)
    BY <1>9, <1>10, <2>3
  <2>5. sg \in [DOMAIN sg -> SignalRec(steps, n)]
    <3>1. sg = [x \in DOMAIN sg |-> sg[x]]
      BY <2>1, Zenon
    <3>2. QED
      BY <2>4, <3>1
  <2>6. n # 0
    BY <1>2
  <2> HIDE DEF new, n
  <2>7. \A x \in DOMAIN sg : sg[x].by # 0 => new[sg[x].by].signal = x
    BY <1>1, <1>3, <1>11, <2>3
  <2>8. \A x \in DOMAIN sg : sg[x].by = 0 => \A r \in DOMAIN new : ~Awaits(steps, new[r], sg[x].name)
    <3>1. ASSUME NEW x \in DOMAIN sg, sg[x].by = 0, NEW r \in DOMAIN new PROVE ~Awaits(steps, new[r], sg[x].name)
      <4>1. x # s
        BY <2>3, <2>6, <3>1
      <4>2. sg[x] = signals[x] /\ x \in DOMAIN signals
        BY <2>3, <3>1, <4>1
      <4>3. CASE r = n
        BY <1>1, <1>3, <1>14, <4>3 DEF Awaits
      <4>4. CASE r # n
        BY <1>5, <1>12, <3>1, <4>2, <4>4
      <4>5. QED
        BY <4>3, <4>4
    <3>2. QED
      BY <3>1
  <2>9. SignalsFit(steps, sg, new)
    BY <1>3, <1>8, <2>3, <2>5, <2>7, <2>8 DEF SignalsFit
  <2>10. QED
    BY <1>3, <1>6, <1>7, <2>9 DEF new, row, n, sg
<1>15. QED
  BY <1>13, <1>14

(* An instance is opened in the middle of what else happens to the rows.    *)
LEMMA OpenedStep ==
  ASSUME FlowInv, UNCHANGED <<steps, tx>>, batch' \in BatchRec(steps), NEW rs, Evolves(steps, runs, rs),
         NEW i \in DOMAIN steps, NEW s \in Takes(i), Evolves(steps, Append(rs, Opening(i, s)), runs'),
         Taken(s, Len(rs) + 1), AgendaNext
  PROVE  FlowStep
<1> DEFINE mid == Append(rs, Opening(i, s))
           n == Len(rs) + 1
<1>1. /\ RowsFit(steps, runs) /\ RowsFit(steps, rs) /\ SignalsFit(steps, signals, rs) /\ RowsFit(steps, runs')
      /\ Evolves(steps, mid, runs')
  BY SignalsStillFit DEF FlowInv, Evolves
<1>2. RowsFit(steps, mid) /\ Len(mid) = n /\ Keeps(rs, mid) /\ SignalsFit(steps, TakenBy(s, n), mid)
  BY <1>1, OpeningFits
<1>3. /\ Len(runs) \in Nat /\ Len(rs) \in Nat /\ Len(runs') \in Nat
      /\ Len(rs) >= Len(runs) /\ Len(runs') >= n
  BY <1>1, <1>2, RowsTyped DEF Evolves
<1> HIDE DEF mid
<1>4. Keeps(runs, runs')
  <2>1. Keeps(runs, rs) /\ Keeps(mid, runs')
    BY <1>1, EvolvesKeeps
  <2>2. QED
    BY <1>1, <1>2, <2>1, KeepsOn
<1>5. SignalsFit(steps, signals', runs')
  <2>1. signals' = TakenBy(s, n)
    BY DEF Taken, TakenBy
  <2>2. QED
    BY <1>1, <1>2, <2>1, SignalsStillFit
<1>6. EventsFit(events', Len(runs')) /\ TxFits(tx', events')
  <2>1. EventsFit(events, Len(runs')) /\ TxFits(tx, events)
    BY <1>3, EventsFitMore DEF FlowInv
  <2>2. CASE s = ""
    BY <2>1, <2>2 DEF Taken
  <2>3. CASE s # ""
    <3>1. events' = Emit(events, "signal", n, "")
      BY <2>3 DEF Taken
    <3>2. n \in 1..Len(runs') /\ "signal" \in EventType /\ "" \in EventArg
      BY <1>3 DEF EventType, EventArg
    <3>3. QED
      BY <1>3, <2>1, <3>1, <3>2, EventEmitted
  <2>4. QED
    BY <2>2, <2>3
<1>7. steps' = steps
  OBVIOUS
<1>8. FlowInv'
  BY <1>1, <1>5, <1>6, <1>7, Zenon DEF FlowInv, AgendaNext
<1>9. QED
  BY <1>4, <1>8 DEF FlowStep

(* What is planned stays so when a tail is told of an opening.              *)
LEMMA MarkedPlanned ==
  ASSUME NEW f, NEW n, NEW ts, Planned(f, ts, n)
  PROVE  Planned(f, MarkOpened(ts), n)
<1> DEFINE x == CHOOSE k \in {k \in DOMAIN ts : ts[k].op = "tail"} :
                  \A j \in {m \in DOMAIN ts : ts[m].op = "tail"} : k <= j
           us == [ts EXCEPT ![x].opened = TRUE]
<1>1. MarkOpened(ts) = ts \/ MarkOpened(ts) = us
  BY Zenon DEF MarkOpened
<1> HIDE DEF x
<1>2. ts \in Seq(TaskRec)
  BY DEF Planned
<1>3. ASSUME NEW k \in DOMAIN ts
      PROVE  /\ us[k] \in TaskRec /\ us[k].op = ts[k].op /\ us[k].step = ts[k].step /\ us[k].run = ts[k].run
  <2>1. ts[k] \in TaskRec
    BY <1>2
  <2>2. us[k] = ts[k] \/ us[k] = [ts[k] EXCEPT !.opened = TRUE]
    BY <1>2
  <2>3. QED
    BY <2>1, <2>2 DEF TaskRec
<1>4. DOMAIN us = DOMAIN ts
  BY <1>2
<1>5. us \in Seq(TaskRec)
  <2>1. Len(ts) \in Nat /\ DOMAIN ts = 1..Len(ts)
    BY <1>2
  <2>2. us \in [1..Len(ts) -> TaskRec]
    <3>1. us = [j \in DOMAIN ts |-> us[j]]
      BY Zenon
    <3> HIDE DEF us
    <3>2. QED
      BY <1>3, <2>1, <3>1
  <2> HIDE DEF us
  <2>3. QED
    BY <2>1, <2>2
<1> HIDE DEF us
<1>6. Planned(f, us, n)
  BY <1>3, <1>4, <1>5 DEF Planned, TaskFits
<1>7. QED
  BY <1>1, <1>6

(* The instance that has just been opened is entered next.                  *)
LEMMA EntersFirst ==
  ASSUME NEW f, NEW rs, NEW ts, Len(rs) \in Nat, Planned(f, ts, Len(rs)),
         NEW r \in 1..Len(rs), rs[r].state \in Undecided, NEW i \in Nat
  PROVE  AgendaFits(f, <<Task("enter", r, i, 0)>> \o ts, rs)
<1> DEFINE t == Task("enter", r, i, 0)
           a == <<t>> \o ts
<1>1. t \in TaskRec /\ t.op = "enter" /\ t.run = r
  BY DEF Task, TaskRec
<1>2. TaskFits(f, t, Len(rs))
  BY <1>1 DEF TaskFits
<1> HIDE DEF t
<1>3. ts \in Seq(TaskRec) /\ Len(ts) \in Nat /\ DOMAIN ts = 1..Len(ts)
  BY DEF Planned
<1>4. a \in Seq(TaskRec) /\ DOMAIN a = 1..(Len(ts) + 1) /\ a[1] = t
  BY <1>1, <1>3
<1>5. ASSUME NEW k \in DOMAIN a
      PROVE  TaskFits(f, a[k], Len(rs)) /\ (a[k].op = "enter" => k = 1 /\ rs[a[k].run].state \in Undecided)
  <2>1. CASE k = 1
    BY <1>1, <1>2, <1>4, <2>1
  <2>2. CASE k # 1
    <3>1. k - 1 \in DOMAIN ts /\ a[k] = ts[k - 1]
      BY <1>1, <1>3, <1>4, <2>2
    <3>2. QED
      BY <3>1 DEF Planned
  <2>3. QED
    BY <2>1, <2>2
<1> HIDE DEF a
<1>6. AgendaFits(f, a, rs)
  BY <1>4, <1>5 DEF AgendaFits
<1>7. QED
  BY <1>6 DEF a, t

(* What the head of the agenda asks for.                                    *)
LEMMA HeadFits ==
  ASSUME FlowInv, NEW op, Todo(op)
  PROVE  /\ agenda # << >> /\ TaskFits(steps, Head(agenda), Len(runs)) /\ Head(agenda).op = op
         /\ Head(agenda).step \in Nat /\ Head(agenda).run \in Nat /\ Head(agenda).epoch \in Nat
         /\ work.view \in BatchState /\ WorkFits(steps, work, tx) /\ work # << >>
<1>1. agenda # << >> /\ Head(agenda).op = op
  BY DEF Todo
<1>2. Head(agenda) = agenda[1] /\ 1 \in DOMAIN agenda
  BY <1>1 DEF FlowInv, AgendaFits
<1>3. TaskFits(steps, agenda[1], Len(runs))
  BY <1>2 DEF FlowInv, AgendaFits
<1>4. WorkFits(steps, work, tx) /\ work # << >>
  BY <1>1 DEF FlowInv
<1>5. Head(agenda).step \in Nat /\ Head(agenda).run \in Nat /\ Head(agenda).epoch \in Nat
  BY <1>2, <1>3 DEF TaskFits, TaskRec
<1>6. QED
  BY <1>1, <1>2, <1>3, <1>4, <1>5 DEF WorkFits

(* A step is opened.                                                        *)
LEMMA OpenStepStep == ASSUME FlowInv, OpenStep PROVE FlowStep
<1> DEFINE i == Head(agenda).step
           n == Head(agenda).epoch
           r == Len(runs) + 1
<1>1. /\ agenda # << >> /\ i \in DOMAIN steps /\ i \in Nat /\ work.view \in BatchState
      /\ WorkFits(steps, work, tx) /\ work # << >>
  BY HeadFits DEF OpenStep, TaskFits
<1>2. UNCHANGED <<steps, tx>> /\ batch \in BatchRec(steps) /\ RowsFit(steps, runs)
  BY DEF OpenStep, FlowInv
<1>3. CASE n # 0 /\ Joined(i, n) \in claims
  <2>1. Then(<< >>) /\ UNCHANGED <<batch, runs, events, claims, signals>>
    BY <1>3 DEF OpenStep
  <2>2. QED
    BY <1>1, <1>2, <2>1, RunsStand, NoTask, GoesOnWriting DEF Then
<1>4. CASE ~(n # 0 /\ Joined(i, n) \in claims)
  <2>1. /\ batch' = [batch EXCEPT !.current = i]
        /\ agenda' = <<Task("enter", r, i, 0)>> \o MarkOpened(Tail(agenda))
        /\ work' = IF WaitsForSignal(i) THEN [work EXCEPT !.view = batch.state] ELSE work
        /\ \E s \in Takes(i) : runs' = Append(runs, [NewRun(i) EXCEPT !.signal = s]) /\ Taken(s, r)
    BY <1>4, Zenon DEF OpenStep
  <2>2. PICK s \in Takes(i) : runs' = Append(runs, Opening(i, s)) /\ Taken(s, r)
    BY <2>1, Zenon DEF Opening
  <2>3. batch' \in BatchRec(steps) /\ batch.state \in BatchState
    BY <1>1, <1>2, <2>1 DEF BatchRec
  <2>4. SignalsFit(steps, signals, runs)
    BY DEF FlowInv
  <2>5. RowsFit(steps, runs') /\ Len(runs') = r
    BY <1>1, <1>2, <2>2, <2>4, OpeningFits
  <2>6. Len(runs) \in Nat /\ r \in 1..Len(runs') /\ Len(runs') \in Nat
    BY <1>2, <2>5, RowsTyped
  <2>7. runs'[r].state \in Undecided
    <3>1. Opening(i, s).state \in Undecided /\ Opening(i, s) \in RowRec(steps) /\ runs \in Seq(RowRec(steps))
      BY <1>1, <1>2, OpeningRow DEF RowsFit
    <3> DEFINE row == Opening(i, s)
    <3> HIDE DEF row
    <3>2. runs' = Append(runs, row) /\ row.state \in Undecided /\ row \in RowRec(steps)
      BY <2>2, <3>1 DEF row
    <3>3. runs'[r] = row
      BY <2>6, <3>1, <3>2
    <3>4. QED
      BY <3>2, <3>3
  <2>8. AgendaFits(steps, agenda', runs')
    <3>1. Planned(steps, MarkOpened(Tail(agenda)), Len(runs'))
      BY <1>1, <2>5, <2>6, TailPlanned, MarkedPlanned
    <3> HIDE DEF r, i
    <3>2. QED
      BY <1>1, <2>1, <2>6, <2>7, <3>1, EntersFirst
  <2>9. AgendaNext
    <3>1. WorkFits(steps, work', tx') /\ work' # << >>
      <4>1. CASE WaitsForSignal(i)
        <5>1. work' = [work EXCEPT !.view = batch.state]
          BY <2>1, <4>1
        <5>2. WorkFits(steps, work', tx')
          BY <1>1, <1>2, <2>3, <5>1 DEF WorkFits
        <5>3. DOMAIN work' # {}
          BY <1>1, <5>1 DEF WorkFits
        <5>4. QED
          BY <5>2, <5>3
      <4>2. CASE ~WaitsForSignal(i)
        BY <1>1, <1>2, <2>1, <4>2
      <4>3. QED
        BY <4>1, <4>2
    <3>2. QED
      BY <2>8, <3>1 DEF AgendaNext
  <2>10. Evolves(steps, runs, runs) /\ Evolves(steps, Append(runs, Opening(i, s)), runs')
    BY <1>2, <2>2, <2>5, EvolvesSame
  <2>11. QED
    BY <1>1, <1>2, <2>2, <2>3, <2>9, <2>10, OpenedStep
<1>5. QED
  BY <1>3, <1>4

-----------------------------------------------------------------------------
(* Advancing past an instance that has concluded.                           *)

(* The next step of the list is one of the flow's, or none.                 *)
LEMMA NextOpenFits ==
  ASSUME FlowInv, NEW from
  PROVE  NextOpen(from) \in DOMAIN steps \cup {0}
<1> DEFINE open == {i \in DOMAIN steps : i > from /\ \A r \in RowsOf(runs, i) : runs[r].state \notin
                      (IF GraphMode(steps) THEN Resolved ELSE Passed)}
<1>1. NextOpen(from) = IF open = {} THEN 0 ELSE CHOOSE i \in open : \A j \in open : i <= j
  BY Zenon DEF NextOpen
<1>2. open \subseteq DOMAIN steps
  OBVIOUS
<1> HIDE DEF open
<1>3. open \subseteq Nat
  BY <1>2, FlowTyped
<1>4. CASE open = {}
  BY <1>1, <1>4
<1>5. CASE open # {}
  BY <1>1, <1>2, <1>3, <1>5, LeastOne
<1>6. QED
  BY <1>4, <1>5

(* The least step of the instances that are open.                           *)
LEMMA LeastStepFits ==
  ASSUME FlowInv, OpenRows(runs) # {}
  PROVE  LeastStep(runs) \in DOMAIN steps
<1> DEFINE S == {runs[r].step : r \in OpenRows(runs)}
<1>1. LeastStep(runs) = CHOOSE i \in S : \A j \in S : i <= j
  BY Zenon DEF LeastStep
<1>2. S # {} /\ S \subseteq DOMAIN steps
  BY FlowTyped DEF OpenRows
<1> HIDE DEF S
<1>3. S \subseteq Nat
  BY <1>2, FlowTyped
<1>4. QED
  BY <1>1, <1>2, <1>3, LeastOne

(* The current step follows the instances.                                  *)
LEMMA SyncedFits ==
  ASSUME FlowInv
  PROVE  Synced(batch) \in BatchRec(steps)
<1>1. batch \in BatchRec(steps)
  BY DEF FlowInv
<1>2. CASE OpenRows(runs) = {}
  BY <1>1, <1>2 DEF Synced
<1>3. CASE OpenRows(runs) # {}
  <2>1. LeastStep(runs) \in DOMAIN steps
    BY <1>3, LeastStepFits
  <2>2. QED
    BY <1>1, <1>3, <2>1 DEF Synced, BatchRec
<1>4. QED
  BY <1>2, <1>3

(* The batch is done.                                                       *)
LEMMA FinishedFits ==
  ASSUME NEW f, NEW b \in BatchRec(f)
  PROVE  Finished(b) \in BatchRec(f)
<1>1. Turned(b, "done") \in BatchRec(f)
  BY TurnedFits DEF BatchState, Ended
<1>2. QED
  BY <1>1 DEF Finished, BatchRec

(* Nothing happens to the instances, and the transaction goes on.           *)
LEMMA RowsStandStep ==
  ASSUME FlowInv, agenda # << >>, UNCHANGED <<steps, runs, events, signals, tx>>, batch' \in BatchRec(steps),
         NEW ts, Planned(steps, ts, Len(runs)), NEW v \in BatchState, Seeing(v, ts)
  PROVE  FlowStep
  BY RunsStand, GoesOnWriting

(* Without a graph.                                                         *)
LEMMA AdvanceLinearStep ==
  ASSUME FlowInv, Todo("advance"), AdvanceLinear, UNCHANGED <<steps, tx>>
  PROVE  FlowStep
<1> DEFINE next == NextOpen(runs[R].step)
<1>1. /\ agenda # << >> /\ work.view \in BatchState /\ runs[R].step \in DOMAIN steps
      /\ batch \in BatchRec(steps) /\ Len(runs) \in Nat
  BY HeadFits, FlowTyped DEF TaskFits, R, FlowInv
<1>2. UNCHANGED <<steps, runs, events, signals, tx>>
  BY DEF AdvanceLinear
<1>3. \/ batch' = [batch EXCEPT !.current = runs[R].step] /\ Then(<< >>)
      \/ batch' = batch /\ Then(<< >>)
      \/ batch' = [Finished(batch) EXCEPT !.current = runs[R].step] /\ Seeing("done", << >>)
      \/ next # 0 /\ batch' = batch /\ Then(<<Task("open", 0, next, 0)>>)
  BY Zenon DEF AdvanceLinear
<1> HIDE DEF next
<1>4. CASE batch' = [batch EXCEPT !.current = runs[R].step] /\ Then(<< >>)
  <2>1. batch' \in BatchRec(steps)
    BY <1>1, <1>4 DEF BatchRec
  <2>2. QED
    BY <1>1, <1>2, <1>4, <2>1, NoTask, RowsStandStep DEF Then
<1>5. CASE batch' = batch /\ Then(<< >>)
  BY <1>1, <1>2, <1>5, NoTask, RowsStandStep DEF Then
<1>6. CASE batch' = [Finished(batch) EXCEPT !.current = runs[R].step] /\ Seeing("done", << >>)
  <2>1. Finished(batch) \in BatchRec(steps)
    BY <1>1, FinishedFits
  <2>2. batch' \in BatchRec(steps) /\ "done" \in BatchState
    BY <1>1, <1>6, <2>1 DEF BatchRec, BatchState, Ended
  <2>3. QED
    BY <1>1, <1>2, <1>6, <2>2, NoTask, RowsStandStep
<1>7. CASE next # 0 /\ batch' = batch /\ Then(<<Task("open", 0, next, 0)>>)
  <2>1. next \in DOMAIN steps /\ next \in Nat
    BY <1>7, NextOpenFits, FlowTyped DEF next
  <2>2. Planned(steps, <<Task("open", 0, next, 0)>>, Len(runs))
    BY <1>1, <2>1, OneTask
  <2>3. QED
    BY <1>1, <1>2, <1>7, <2>2, RowsStandStep DEF Then
<1>8. QED
  BY <1>3, <1>4, <1>5, <1>6, <1>7

(* Devices that waited for a plate are driven.                              *)
LEMMA ReleasedEvolves ==
  ASSUME NEW rs, RowsFit(steps, rs)
  PROVE  Evolves(steps, rs, Released(rs))
<1> DEFINE waiting == {r \in DOMAIN rs : rs[r].state = "pending" /\ steps[rs[r].step].kind = "device"}
           go == FirstOnPlate(rs, {r \in waiting : ~PlateBusy(rs, r)})
           new == [r \in DOMAIN rs |-> IF r \in go THEN Driven(rs[r]) ELSE rs[r]]
<1>1. Released(rs) = new
  BY Zenon DEF Released
<1>2. go \subseteq waiting
  BY Zenon DEF FirstOnPlate
<1>3. ASSUME NEW r \in DOMAIN rs PROVE RowTame(steps, rs[r], new[r])
  <2>1. rs[r] \in RowRec(steps) /\ WaitsOpen(steps, rs[r])
    BY RowsTyped
  <2>2. CASE r \in go
    <3>1. rs[r].state = "pending" /\ steps[rs[r].step].kind = "device"
      BY <1>2, <2>2
    <3> HIDE DEF go
    <3>2. new[r] = Driven(rs[r])
      BY <2>2
    <3>3. RowTame(steps, rs[r], Driven(rs[r]))
      BY <2>1, <3>1 DEF RowTame, Driven, RowRec, WaitsOpen, RowState, DevState, Live, Undecided
    <3>4. QED
      BY <3>2, <3>3
  <2>3. CASE r \notin go
    <3> HIDE DEF go
    <3>1. new[r] = rs[r]
      BY <2>3
    <3>2. QED
      BY <2>1, <3>1 DEF RowTame
  <2>4. QED
    BY <2>2, <2>3
<1> HIDE DEF go
<1>4. new \in [DOMAIN rs -> RowRec(steps)]
  BY <1>3 DEF RowTame
<1> HIDE DEF new
<1>5. QED
  BY <1>1, <1>3, <1>4, EvolvesByRow

(* The steps that may be opened or pruned are steps of the flow.            *)
LEMMA FrontierWithin ==
  ASSUME NEW f, NEW status, NEW chosen
  PROVE  /\ Frontier(f, status, chosen).open \subseteq DOMAIN f
         /\ Frontier(f, status, chosen).prune \subseteq DOMAIN f
  BY DEF Frontier

(* The number of an opening is one.                                         *)
LEMMA EpochFits ==
  ASSUME NEW f, NEW rs, RowsFit(f, rs), NEW i
  PROVE  Epoch(rs, i) \in Nat
<1>1. Len(rs) \in Nat /\ DOMAIN rs = 1..Len(rs)
  BY RowsTyped
<1>2. IsFiniteSet(1..Len(rs)) /\ RowsOf(rs, i) \subseteq 1..Len(rs)
  BY <1>1, FS_Interval DEF RowsOf
<1>3. Cardinality(RowsOf(rs, i)) \in Nat
  BY <1>2, FS_Subset, FS_CardinalityType
<1>4. QED
  BY <1>3 DEF Epoch

(* Steps of the flow are opened one after the other.                        *)
LEMMA OpeningsPlanned ==
  ASSUME FlowInv, NEW n \in Nat, NEW open \in Seq(DOMAIN steps), NEW ts, ts = [k \in DOMAIN open |-> ts[k]],
         \A k \in DOMAIN open : \E m \in Nat : ts[k] = Task("open", 0, open[k], m)
  PROVE  Planned(steps, ts, n)
<1>1. Len(open) \in Nat /\ DOMAIN open = 1..Len(open)
  OBVIOUS
<1>2. ASSUME NEW k \in DOMAIN open PROVE TaskFits(steps, ts[k], n) /\ ts[k].op # "enter" /\ ts[k] \in TaskRec
  <2>1. open[k] \in DOMAIN steps /\ open[k] \in Nat
    BY <1>1, FlowTyped
  <2>2. PICK m \in Nat : ts[k] = Task("open", 0, open[k], m)
    OBVIOUS
  <2>3. ts[k] \in TaskRec /\ ts[k].op = "open" /\ ts[k].step = open[k]
    <3> DEFINE x == Task("open", 0, open[k], m)
    <3>1. x \in TaskRec /\ x.op = "open" /\ x.step = open[k]
      BY <2>1 DEF Task, TaskRec
    <3> HIDE DEF x
    <3>2. ts[k] = x
      BY <2>2 DEF x
    <3>3. QED
      BY <3>1, <3>2
  <2>4. QED
    BY <2>1, <2>3 DEF TaskFits
<1>3. ts \in Seq(TaskRec) /\ DOMAIN ts = DOMAIN open
  BY <1>1, <1>2
<1>4. QED
  BY <1>2, <1>3 DEF Planned

(* A set of steps is opened in its order.                                   *)
LEMMA OrderedSteps ==
  ASSUME FlowInv, NEW S, S \subseteq DOMAIN steps
  PROVE  Ordered(S) \in Seq(DOMAIN steps)
<1>1. Ordered(S) \in Seq(S)
  BY FlowTyped, OrderedFits
<1> DEFINE o == Ordered(S)
<1> HIDE DEF o
<1>2. o \in Seq(S)
  BY <1>1 DEF o
<1>3. o \in Seq(DOMAIN steps)
  BY <1>2
<1>4. QED
  BY <1>3 DEF o

(* The end of an advance: what had been pruned is noted.                    *)
LEMMA TailNoted ==
  ASSUME FlowInv, NEW n \in Nat, NEW r \in Nat, NEW b \in BOOLEAN
  PROVE  Planned(steps, <<[Task("tail", r, 0, 0) EXCEPT !.pruned = b]>>, n)
<1> DEFINE t == [Task("tail", r, 0, 0) EXCEPT !.pruned = b]
<1>1. t \in TaskRec /\ t.op = "tail"
  BY DEF Task, TaskRec
<1> HIDE DEF t
<1>2. Planned(steps, <<t>>, n)
  BY <1>1 DEF Planned, TaskFits
<1>3. QED
  BY <1>2 DEF t

(* With a graph: waiting devices are driven, dead paths pruned, steps opened. *)
LEMMA AdvanceGraphStep ==
  ASSUME FlowInv, Todo("advance"), AdvanceGraph, UNCHANGED <<steps, tx>>
  PROVE  FlowStep
<1> DEFINE rs == IF batch.state = "running" THEN Released(runs) ELSE runs
           f  == Frontier(steps, Status(rs), Chosen(rs))
           dead == Ordered({i \in f.prune : Joined(i, Epoch(rs, i)) \notin claims})
           open == Ordered(f.open)
           more == [k \in DOMAIN dead |-> [NewRun(dead[k]) EXCEPT !.state = "not_taken"]]
           todo == [k \in DOMAIN open |-> Task("open", 0, open[k], Epoch(rs, open[k]))]
           tail == <<[Task("tail", R, 0, 0) EXCEPT !.pruned = dead # << >>]>>
<1>1. \/ RolledBack
      \/ /\ runs' = rs /\ FinishGraph(R) /\ UNCHANGED <<events, signals>>
      \/ /\ runs' = rs \o more /\ UNCHANGED <<batch, events, signals>>
         /\ Seeing(batch.state, todo \o tail)
  BY Zenon DEF AdvanceGraph
<1>2. /\ agenda # << >> /\ R \in Nat /\ batch \in BatchRec(steps) /\ batch.state \in BatchState
      /\ RowsFit(steps, runs)
  BY HeadFits DEF FlowInv, BatchRec, R
<1>3. Evolves(steps, runs, rs)
  BY <1>2, ReleasedEvolves, EvolvesSame
<1>4. f.open \subseteq DOMAIN steps /\ f.prune \subseteq DOMAIN steps
  BY FrontierWithin
<1> HIDE DEF rs, f
<1>5. CASE RolledBack
  BY <1>2, <1>5, Refusal
<1>6. ASSUME runs' = rs, FinishGraph(R), UNCHANGED <<events, signals>> PROVE FlowStep
  <2>1. \/ batch' = batch /\ Seeing(batch.state, << >>)
        \/ batch' = [batch EXCEPT !.state = "done"] /\ Seeing("done", << >>)
    BY <1>6 DEF FinishGraph
  <2>2. /\ "done" \in BatchState /\ [batch EXCEPT !.state = "done"] \in BatchRec(steps)
    BY <1>2 DEF BatchState, Ended, BatchRec
  <2>3. Evolves(steps, runs, runs')
    BY <1>3, <1>6
  <2>4. QED
    BY <1>2, <1>6, <2>1, <2>2, <2>3, NoTask, GoesOnWriting
<1>7. ASSUME runs' = rs \o more, UNCHANGED <<batch, events, signals>>, Seeing(batch.state, todo \o tail)
      PROVE  FlowStep
  <2>1. dead \in Seq(DOMAIN steps) /\ open \in Seq(DOMAIN steps)
    <3>1. {i \in f.prune : Joined(i, Epoch(rs, i)) \notin claims} \subseteq DOMAIN steps
      BY <1>4
    <3>2. QED
      BY <1>4, <3>1, OrderedSteps
  <2> HIDE DEF dead, open
  <2>2. more \in Seq(RowRec(steps)) /\ \A k \in DOMAIN more : more[k].state \notin Undecided
    <3>1. ASSUME NEW k \in DOMAIN dead PROVE more[k] \in RowRec(steps) /\ more[k].state \notin Undecided
      <4>1. NewRun(dead[k]) \in RowRec(steps)
        BY <2>1, NewRunFits
      <4> DEFINE row == NewRun(dead[k])
      <4> HIDE DEF row
      <4>2. [row EXCEPT !.state = "not_taken"] \in RowRec(steps)
            /\ [row EXCEPT !.state = "not_taken"].state \notin Undecided
        BY <4>1 DEF row, RowRec, RowState, Resolved, Undecided
      <4>3. QED
        BY <4>2 DEF row
    <3>2. Len(dead) \in Nat /\ DOMAIN dead = 1..Len(dead) /\ DOMAIN more = DOMAIN dead
          /\ more = [k \in DOMAIN dead |-> more[k]]
      BY <2>1
    <3> HIDE DEF more
    <3>3. more \in [1..Len(dead) -> RowRec(steps)]
      BY <3>1, <3>2
    <3>4. QED
      BY <3>1, <3>2, <3>3
  <2>3. RowsFit(steps, rs)
    BY <1>3 DEF Evolves
  <2> HIDE DEF more
  <2>4. Evolves(steps, rs, runs')
    BY <1>7, <2>2, <2>3, EvolvesMore
  <2>5. Evolves(steps, runs, runs')
    BY <1>2, <1>3, <2>4, EvolvesOn
  <2>6. Len(runs') \in Nat
    BY <2>5, RowsTyped DEF Evolves
  <2>7. Planned(steps, todo, Len(runs'))
    <3>1. \A k \in DOMAIN open : Epoch(rs, open[k]) \in Nat /\ todo[k] = Task("open", 0, open[k], Epoch(rs, open[k]))
      BY <2>3, EpochFits
    <3>2. todo = [k \in DOMAIN open |-> todo[k]]
      OBVIOUS
    <3> HIDE DEF todo
    <3>3. \A k \in DOMAIN open : \E m \in Nat : todo[k] = Task("open", 0, open[k], m)
      BY <3>1
    <3>4. QED
      BY <2>1, <2>6, <3>2, <3>3, OpeningsPlanned
  <2>8. Planned(steps, tail, Len(runs'))
    <3>1. (dead # << >>) \in BOOLEAN
      OBVIOUS
    <3>2. QED
      BY <1>2, <2>6, <3>1, TailNoted
  <2> HIDE DEF todo, tail
  <2>9. Planned(steps, todo \o tail, Len(runs'))
    BY <2>7, <2>8, PlannedBoth
  <2>10. QED
    BY <1>2, <1>7, <2>5, <2>9, GoesOnWriting
<1>8. QED
  BY <1>1, <1>5, <1>6, <1>7

(* Advancing.                                                               *)
LEMMA AdvanceStep == ASSUME FlowInv, Advance PROVE FlowStep
<1>1. Todo("advance") /\ UNCHANGED <<steps, tx>> /\ agenda # << >> /\ work.view \in BatchState
  BY HeadFits DEF Advance
<1>2. CASE work.view \in Ended
  <2>1. Then(<< >>) /\ UNCHANGED <<batch, runs, events, signals>> /\ batch \in BatchRec(steps)
    BY <1>2 DEF Advance, FlowInv
  <2>2. QED
    BY <1>1, <2>1, NoTask, RowsStandStep DEF Then
<1>3. CASE work.view \notin Ended
  BY <1>1, <1>3, AdvanceGraphStep, AdvanceLinearStep DEF Advance
<1>4. QED
  BY <1>2, <1>3

(* After the openings.                                                      *)
LEMMA AdvanceTailStep == ASSUME FlowInv, AdvanceTail PROVE FlowStep
<1>1. /\ agenda # << >> /\ work.view \in BatchState /\ UNCHANGED <<steps, runs, events, signals, tx>>
      /\ "done" \in BatchState
  BY HeadFits DEF AdvanceTail, BatchState, Ended
<1>2. \/ batch' = Finished(Synced(batch)) /\ Seeing("done", << >>)
      \/ batch' = Synced(batch) /\ Then(<< >>)
  BY Zenon DEF AdvanceTail
<1>3. Synced(batch) \in BatchRec(steps) /\ Finished(Synced(batch)) \in BatchRec(steps)
  BY SyncedFits, FinishedFits
<1>4. QED
  BY <1>1, <1>2, <1>3, NoTask, RowsStandStep DEF Then

(* The work of a transaction.                                               *)
LEMMA AgendaStep == ASSUME FlowInv, Agenda PROVE FlowStep
  BY OpenStepStep, EnterTodoStep, EnterAtOnceStep, EnterDeviceStep, EnterUncoveredStep, EnterSplitEmptyStep,
     EnterSplitStep, GatePassesStep, GateUndecidedStep, GateFailsStep, BranchAsksStep, BranchUndecidedStep,
     BranchTakesStep, BranchRoutesStep, AdvanceStep, AdvanceTailStep DEF Agenda

-----------------------------------------------------------------------------
(* Events and the transactions that process them.                           *)

(* Something happens between two transactions that write.                   *)
LEMMA OutsideStep ==
  ASSUME FlowInv, UNCHANGED <<steps, signals>>, batch' \in BatchRec(steps), Evolves(steps, runs, runs'),
         EventsFit(events', Len(runs)), TxFits(tx', events'), AgendaNext
  PROVE  FlowStep
<1>1. Len(runs) \in Nat /\ Len(runs') \in Nat /\ Len(runs') >= Len(runs)
  BY FlowTyped, RowsTyped DEF Evolves
<1>2. EventsNext
  BY <1>1, EventsFitMore DEF EventsNext
<1>3. QED
  BY <1>2, StepTaken

(* Only events and transactions change.                                     *)
LEMMA EventsOnlyStep ==
  ASSUME FlowInv, Quiet, UNCHANGED <<steps, batch, runs, signals, agenda>>,
         EventsFit(events', Len(runs)), TxFits(tx', events')
  PROVE  FlowStep
<1>1. batch' \in BatchRec(steps) /\ AgendaNext
  BY StaysQuiet DEF FlowInv
<1>2. QED
  BY <1>1, RunsStand, OutsideStep

(* Only the instances change, and the batch.                                *)
LEMMA RowsOnlyStep ==
  ASSUME FlowInv, Quiet, UNCHANGED <<steps, events, signals, tx, agenda>>, batch' \in BatchRec(steps),
         Evolves(steps, runs, runs')
  PROVE  FlowStep
  BY StaysQuiet, WritesAtOnce

(* Fewer transactions fit as well.                                          *)
LEMMA TxFewer ==
  ASSUME NEW ts, NEW es, TxFits(ts, es), NEW us, us \subseteq ts
  PROVE  TxFits(us, es)
  BY DEF TxFits

(* An event in another state.                                               *)
LEMMA EventTurned ==
  ASSUME NEW n, NEW e \in EventRec(n), NEW v \in EventState
  PROVE  /\ [e EXCEPT !.state = v] \in EventRec(n) /\ [e EXCEPT !.state = v].type = e.type
         /\ [e EXCEPT !.state = v].run = e.run
  BY DEF EventRec

(* Settling an event leaves an event.                                       *)
LEMMA SettledFits ==
  ASSUME FlowInv, NEW e \in events, NEW v \in EventState
  PROVE  EventsFit(Settled(e, v), Len(runs)) /\ TxFits(tx, Settled(e, v))
<1>1. EventsFit(events, Len(runs)) /\ TxFits(tx, events) /\ Len(runs) \in Nat /\ e \in EventRec(Len(runs))
  BY FlowTyped DEF FlowInv, EventsFit
<1>2. /\ [e EXCEPT !.state = v] \in EventRec(Len(runs)) /\ [e EXCEPT !.state = v].type = e.type
      /\ [e EXCEPT !.state = v].run = e.run
  BY <1>1, EventTurned
<1> DEFINE d == [e EXCEPT !.state = v]
<1>3. Settled(e, v) = (events \ {e}) \cup {d}
  BY Zenon DEF Settled
<1> HIDE DEF d
<1>4. d \in EventRec(Len(runs)) /\ d.type = e.type /\ d.run = e.run
  BY <1>2 DEF d
<1>5. QED
  BY <1>1, <1>3, <1>4, EventWritten

(* What is processed is an event of an instance.                            *)
LEMMA EventOfFits ==
  ASSUME FlowInv, NEW t \in tx
  PROVE  /\ EventOf(t) \in events /\ EventOf(t).type = t.type /\ EventOf(t).run = t.run
         /\ EventOf(t) \in EventRec(Len(runs)) /\ t.run \in Row /\ t.seen \in BatchState
<1>1. \E e \in events : e.type = t.type /\ e.run = t.run
  BY DEF FlowInv, TxFits
<1>2. EventOf(t) \in events /\ EventOf(t).type = t.type /\ EventOf(t).run = t.run
  BY <1>1 DEF EventOf
<1>3. EventOf(t) \in EventRec(Len(runs))
  BY <1>2 DEF FlowInv, EventsFit
<1>4. t.seen \in BatchState
  BY DEF FlowInv, TxFits
<1>5. QED
  BY <1>2, <1>3, <1>4 DEF EventRec, Row

(* An event is claimed.                                                     *)
LEMMA BeginStep == ASSUME FlowInv, NEW e \in events, Begin(e) PROVE FlowStep
<1> DEFINE t == [type |-> e.type, run |-> e.run, seen |-> batch.state]
<1>1. /\ Quiet /\ UNCHANGED <<steps, batch, runs, signals, agenda>>
      /\ events' = Settled(e, "processing") /\ tx' = tx \cup {t}
  BY Zenon DEF Begin, Settled
<1>2. EventsFit(events', Len(runs)) /\ TxFits(tx, events')
  BY <1>1, SettledFits DEF EventState
<1>3. e \in EventRec(Len(runs)) /\ batch \in BatchRec(steps) /\ Len(runs) \in Nat
  BY FlowTyped DEF FlowInv, EventsFit
<1>4. t \in [type : EventType, run : Nat, seen : BatchState]
  BY <1>3 DEF EventRec, BatchRec
<1>5. \E x \in events' : x.type = t.type /\ x.run = t.run
  <2> DEFINE d == [e EXCEPT !.state = "processing"]
  <2>1. d \in events'
    BY <1>1 DEF Settled
  <2>2. d.type = e.type /\ d.run = e.run
    BY <1>3 DEF EventRec
  <2> HIDE DEF d
  <2>3. QED
    BY <2>1, <2>2
<1> HIDE DEF t
<1>6. TxFits(tx', events')
  BY <1>1, <1>2, <1>4, <1>5 DEF TxFits
<1>7. QED
  BY <1>1, <1>2, <1>6, EventsOnlyStep

(* What was refused is processed once more.                                 *)
LEMMA ResubmitStep == ASSUME FlowInv, NEW e \in events, Resubmit(e) PROVE FlowStep
<1> DEFINE t == [type |-> e.type, run |-> e.run, seen |-> batch.state]
<1>1. /\ Quiet /\ UNCHANGED <<steps, batch, runs, signals, agenda, events>>
      /\ tx' = tx \cup {t}
  BY Zenon DEF Resubmit
<1>2. EventsFit(events', Len(runs)) /\ TxFits(tx, events')
  BY <1>1 DEF FlowInv
<1>3. e \in EventRec(Len(runs)) /\ batch \in BatchRec(steps) /\ Len(runs) \in Nat
  BY FlowTyped DEF FlowInv, EventsFit
<1>4. t \in [type : EventType, run : Nat, seen : BatchState]
  BY <1>3 DEF EventRec, BatchRec
<1>5. \E x \in events' : x.type = t.type /\ x.run = t.run
  BY <1>1
<1> HIDE DEF t
<1>6. TxFits(tx', events')
  BY <1>1, <1>2, <1>4, <1>5 DEF TxFits
<1>7. QED
  BY <1>1, <1>2, <1>6, EventsOnlyStep

(* A transition of a step starts from a state nobody has decided.           *)
LEMMA TransitionsStartOpen ==
  ASSUME NEW kind, NEW from, NEW to, CanTransition(kind, from, to)
  PROVE  from \in Undecided \cup {"unknown"}
<1>1. <<from, to>> \in Allowed(kind)
  BY DEF CanTransition
<1>2. CASE kind = "device"
  BY <1>1, <1>2 DEF Allowed, Undecided
<1>3. CASE kind = "manual"
  BY <1>1, <1>3 DEF Allowed, Undecided
<1>4. CASE kind = "wait"
  BY <1>1, <1>4 DEF Allowed, Undecided
<1>5. CASE kind = "review"
  BY <1>1, <1>5 DEF Allowed, Undecided
<1>6. CASE kind \in {"branch", "gate"}
  BY <1>1, <1>6 DEF Allowed, Undecided
<1>7. CASE kind \notin {"device", "manual", "wait", "review", "branch", "gate"}
  BY <1>1, <1>7 DEF Allowed, Undecided
<1>8. QED
  BY <1>2, <1>3, <1>4, <1>5, <1>6, <1>7

(* What an event makes of its step.                                         *)
LEMMA TargetFits ==
  ASSUME NEW n, NEW e \in EventRec(n)
  PROVE  Target(e) \in {"completed", "failed", "skipped"}
<1>1. e.type \in EventType
  BY DEF EventRec
<1>2. QED
  BY <1>1 DEF Target, EventType

(* The manual step a rejected review falls back to.                         *)
LEMMA NearestManualFits ==
  ASSUME FlowInv, NEW i
  PROVE  NearestManual(steps, i) \in DOMAIN steps \cup {0}
<1>1. \E last : NearestManual(steps, i) = Largest({p \in DOMAIN steps : p \in last /\ steps[p].kind = "manual"})
  BY Zenon DEF NearestManual
<1>2. PICK last : NearestManual(steps, i) = Largest({p \in DOMAIN steps : p \in last /\ steps[p].kind = "manual"})
  BY <1>1
<1> DEFINE S == {p \in DOMAIN steps : p \in last /\ steps[p].kind = "manual"}
<1>3. S \subseteq DOMAIN steps
  OBVIOUS
<1> HIDE DEF S
<1>4. Largest(S) \in S \cup {0}
  BY <1>3, FlowTyped, LargestWithin
<1>5. QED
  BY <1>2, <1>3, <1>4 DEF S

(* An instance fails and is to be assessed again.                           *)
LEMMA FailedAgain ==
  ASSUME NEW f, NEW rs, RowsFit(f, rs), NEW r \in DOMAIN rs, rs[r].state \in Undecided
  PROVE  Evolves(f, rs, [Closed(rs, r, "failed") EXCEPT ![r].redo = TRUE])
<1> DEFINE row == [rs[r] EXCEPT !.state = "failed", !.redo = TRUE]
<1>1. rs[r] \in RowRec(f) /\ rs \in [DOMAIN rs -> RowRec(f)]
  BY RowsTyped DEF RowsFit
<1>2. RowTame(f, rs[r], row)
  BY <1>1 DEF RowTame, RowRec, WaitsOpen, RowState, Undecided
<1>3. [Closed(rs, r, "failed") EXCEPT ![r].redo = TRUE] = [rs EXCEPT ![r].state = "failed", ![r].redo = TRUE]
  BY Zenon DEF Closed
<1>4. [rs EXCEPT ![r].state = "failed", ![r].redo = TRUE] = [rs EXCEPT ![r] = row]
  BY <1>1
<1>5. LET new == [rs EXCEPT ![r] = row] IN Evolves(f, rs, new)
  BY <1>2, RowWritten
<1>6. QED
  BY <1>3, <1>4, <1>5

(* A transaction takes what it processes to its end.                        *)
LEMMA ApplyStep == ASSUME FlowInv, NEW t \in tx, Apply(t) PROVE FlowStep
<1> DEFINE e == EventOf(t)
           r == t.run
           target == Target(e)
           back == NearestManual(steps, runs[r].step)
<1>1. Quiet /\ tx' = tx \ {t}
  BY DEF Apply
<1>2. /\ e \in events /\ r \in Row /\ t.seen \in BatchState
      /\ target \in {"completed", "failed", "skipped"}
  BY EventOfFits, TargetFits
<1>3. /\ RowsFit(steps, runs) /\ batch \in BatchRec(steps) /\ r \in DOMAIN runs /\ r \in 1..Len(runs)
      /\ Len(runs) \in Nat /\ r \in Nat /\ runs[r].step \in DOMAIN steps
  BY <1>2, FlowTyped DEF FlowInv
<1>4. \/ Refused(e, t)
      \/ /\ CanTransition(Kind(r), runs[r].state, target) /\ events' = Settled(e, "processed")
         /\ UNCHANGED <<steps, signals>>
         /\ \/ Returned(r, t)
            \/ /\ runs' = Closed(runs, r, "failed") /\ UNCHANGED agenda
               /\ batch' = [batch EXCEPT !.state = IF t.seen = "fault" THEN @ ELSE "fault",
                                         !.why = "failed", !.current = runs[r].step]
            \/ /\ runs' = Closed(runs, r, target) /\ Processing(t, <<Task("advance", r, 0, 0)>>) /\ UNCHANGED batch
  BY Zenon DEF Apply
<1>5. /\ EventsFit(Settled(e, "processed"), Len(runs)) /\ TxFits(tx', Settled(e, "processed"))
      /\ EventsFit(Settled(e, "rejected"), Len(runs)) /\ TxFits(tx', Settled(e, "rejected"))
  <2>1. \A v \in EventState : EventsFit(Settled(e, v), Len(runs)) /\ TxFits(tx, Settled(e, v))
    BY <1>2, SettledFits
  <2>2. tx' \subseteq tx /\ "processed" \in EventState /\ "rejected" \in EventState
    BY <1>1 DEF EventState
  <2>3. QED
    BY <2>1, <2>2, TxFewer
<1> HIDE DEF e, r, target, back
<1>6. CASE Refused(e, t)
  BY <1>1, <1>5, <1>6, EventsOnlyStep DEF Refused
<1>7. ASSUME CanTransition(Kind(r), runs[r].state, target), events' = Settled(e, "processed"), UNCHANGED <<steps, signals>>
      PROVE  /\ runs[r].state \in Undecided
             /\ \A v \in {"completed", "failed", "skipped"} :
                  Evolves(steps, runs, Closed(runs, r, v)) /\ Len(Closed(runs, r, v)) = Len(runs)
             /\ Evolves(steps, runs, [Closed(runs, r, "failed") EXCEPT ![r].redo = TRUE])
             /\ EventsFit(events', Len(runs)) /\ TxFits(tx', events')
  <2>1. runs[r].state \in Undecided
    <3>1. runs[r].state \in Undecided \cup {"unknown"}
      BY <1>7, TransitionsStartOpen
    <3>2. runs[r].state \in RowState
      BY <1>2, FlowTyped
    <3>3. QED
      BY <3>1, <3>2 DEF RowState, Resolved, Passed, Void, Undecided
  <2>2. \A v \in {"completed", "failed", "skipped"} : v \in RowState /\ v # "waiting" /\ v \notin Undecided
    BY DEF RowState, Resolved, Passed, Undecided
  <2>3. QED
    BY <1>3, <1>5, <1>7, <2>1, <2>2, RowClosed, FailedAgain
<1>8. ASSUME CanTransition(Kind(r), runs[r].state, target), events' = Settled(e, "processed"), UNCHANGED <<steps, signals>>,
             Returned(r, t)
      PROVE  FlowStep
  <2>0. back = NearestManual(steps, runs[r].step) /\ e = EventOf(t)
    BY DEF back, e
  <2>1. CASE back = 0
    <3>1. /\ batch' = [batch EXCEPT !.state = IF t.seen = "paused" THEN @ ELSE "paused", !.why = "review"]
          /\ runs' = Closed(runs, r, "failed") /\ UNCHANGED agenda
      BY <1>8, <2>0, <2>1 DEF Returned
    <3>2. batch' \in BatchRec(steps)
      BY <1>3, <3>1 DEF BatchRec, BatchState, Reason
    <3>3. QED
      BY <1>1, <1>7, <1>8, <3>1, <3>2, StaysQuiet, OutsideStep
  <2>2. CASE back # 0
    <3>1. /\ runs' = [Closed(runs, r, "failed") EXCEPT ![r].redo = TRUE] /\ UNCHANGED batch
          /\ Opens(t.seen, <<Task("open", 0, back, 0)>>, Settled(e, "rejected"), alarms \cup Stuck(t))
      BY <1>8, <2>0, <2>2, Zenon DEF Returned, Processing
    <3>2. Evolves(steps, runs, runs')
      BY <1>7, <1>8, <3>1
    <3>3. Len(runs') \in Nat
      BY <3>2, RowsTyped DEF Evolves
    <3>4. back \in DOMAIN steps /\ back \in Nat
      BY <2>0, <2>2, NearestManualFits, FlowTyped
    <3>5. Planned(steps, <<Task("open", 0, back, 0)>>, Len(runs'))
      BY <3>3, <3>4, OneTask
    <3>6. AgendaNext
      BY <1>2, <1>5, <3>1, <3>5, AgendaOpens
    <3>7. batch' \in BatchRec(steps)
      BY <1>3, <3>1
    <3>8. QED
      BY <1>7, <1>8, <3>2, <3>6, <3>7, OutsideStep
  <2>3. QED
    BY <2>1, <2>2
<1>9. ASSUME CanTransition(Kind(r), runs[r].state, target), events' = Settled(e, "processed"), UNCHANGED <<steps, signals>>,
             runs' = Closed(runs, r, "failed"), UNCHANGED agenda,
             batch' = [batch EXCEPT !.state = IF t.seen = "fault" THEN @ ELSE "fault",
                                    !.why = "failed", !.current = runs[r].step]
      PROVE  FlowStep
  <2>1. batch' \in BatchRec(steps)
    BY <1>3, <1>9 DEF BatchRec, BatchState, Reason
  <2>2. Evolves(steps, runs, runs') /\ EventsFit(events', Len(runs)) /\ TxFits(tx', events')
    BY <1>7, <1>9
  <2>3. QED
    BY <1>1, <1>9, <2>1, <2>2, StaysQuiet, OutsideStep
<1>10. ASSUME CanTransition(Kind(r), runs[r].state, target), events' = Settled(e, "processed"), UNCHANGED <<steps, signals>>,
              runs' = Closed(runs, r, target), Processing(t, <<Task("advance", r, 0, 0)>>), UNCHANGED batch
       PROVE  FlowStep
  <2>1. Evolves(steps, runs, runs') /\ EventsFit(events', Len(runs)) /\ TxFits(tx', events') /\ Len(runs') = Len(runs)
    BY <1>2, <1>7, <1>10
  <2>2. Planned(steps, <<Task("advance", r, 0, 0)>>, Len(runs'))
    BY <1>3, <2>1, OneTask
  <2>3. Opens(t.seen, <<Task("advance", r, 0, 0)>>, Settled(e, "rejected"), alarms \cup Stuck(t))
    BY <1>10, Zenon DEF Processing, e
  <2>4. AgendaNext
    BY <1>2, <1>5, <2>2, <2>3, AgendaOpens
  <2>5. batch' \in BatchRec(steps)
    BY <1>3, <1>10
  <2>6. QED
    BY <1>10, <2>1, <2>4, <2>5, OutsideStep
<1>11. QED
  BY <1>4, <1>6, <1>8, <1>9, <1>10

(* Processing is tried again, up to a limit.                                *)
LEMMA RetryStep == ASSUME FlowInv, NEW t \in tx, Retry(t) PROVE FlowStep
<1> DEFINE e == EventOf(t)
           n == e.tries + 1
<1>1. /\ Quiet /\ tx' = tx \ {t} /\ UNCHANGED <<steps, batch, runs, signals, agenda>>
      /\ \/ events' = (events \ {e}) \cup {[e EXCEPT !.state = "rejected", !.tries = n]}
         \/ events' = (events \ {e}) \cup {[e EXCEPT !.state = "pending", !.tries = n]}
  BY DEF Retry
<1>2. e \in events /\ e \in EventRec(Len(runs)) /\ Len(runs) \in Nat
  BY EventOfFits, FlowTyped
<1>3. EventsFit(events, Len(runs)) /\ TxFits(tx', events)
  BY <1>1, TxFewer DEF FlowInv
<1>4. \E d \in EventRec(Len(runs)) : d.type = e.type /\ d.run = e.run /\ events' = (events \ {e}) \cup {d}
  <2>1. \A v \in EventState :
          /\ [e EXCEPT !.state = v, !.tries = n] \in EventRec(Len(runs))
          /\ [e EXCEPT !.state = v, !.tries = n].type = e.type
          /\ [e EXCEPT !.state = v, !.tries = n].run = e.run
    <3>1. n \in Nat
      BY <1>2 DEF EventRec
    <3> HIDE DEF e, n
    <3>2. QED
      BY <1>2, <3>1 DEF EventRec
  <2>2. "rejected" \in EventState /\ "pending" \in EventState
    BY DEF EventState
  <2>3. QED
    BY <1>1, <2>1, <2>2, Zenon
<1> HIDE DEF e
<1>5. EventsFit(events', Len(runs)) /\ TxFits(tx', events')
  BY <1>2, <1>3, <1>4, EventWritten
<1>6. QED
  BY <1>1, <1>5, EventsOnlyStep

(* The process dies, its row lock is gone.                                  *)
LEMMA CrashStep == ASSUME FlowInv, NEW t \in tx, Crash(t) PROVE FlowStep
<1>1. /\ Quiet /\ tx' = tx \ {t} /\ UNCHANGED <<steps, batch, runs, events, signals, agenda>>
  BY DEF Crash
<1>2. EventsFit(events', Len(runs)) /\ TxFits(tx', events')
  BY <1>1, TxFewer DEF FlowInv
<1>3. QED
  BY <1>1, <1>2, EventsOnlyStep

(* A claim is queued again.                                                 *)
LEMMA RequeueStep == ASSUME FlowInv, NEW e \in events, Requeue(e) PROVE FlowStep
<1>1. Quiet /\ events' = Settled(e, "pending") /\ UNCHANGED <<steps, batch, runs, signals, tx, agenda>>
  BY DEF Requeue
<1>2. EventsFit(events', Len(runs)) /\ TxFits(tx', events')
  BY <1>1, SettledFits DEF EventState
<1>3. QED
  BY <1>1, <1>2, EventsOnlyStep

-----------------------------------------------------------------------------
(* What concludes a step from outside.                                      *)

(* An event is emitted.                                                     *)
LEMMA EmitStep ==
  ASSUME FlowInv, Quiet, UNCHANGED <<steps, batch, runs, signals, tx, agenda>>, NEW r \in Row,
         NEW type \in EventType, NEW arg \in EventArg, events' = Emit(events, type, r, arg)
  PROVE  FlowStep
<1>1. EventsFit(events, Len(runs)) /\ TxFits(tx, events) /\ Len(runs) \in Nat /\ r \in 1..Len(runs)
  BY FlowTyped DEF FlowInv, Row
<1>2. EventsFit(events', Len(runs)) /\ TxFits(tx', events')
  BY <1>1, EventEmitted
<1>3. QED
  BY <1>2, EventsOnlyStep

(* Somebody submits, decides, or the time is up.                            *)
LEMMA SubmitManualStep == ASSUME FlowInv, NEW r \in Row, SubmitManual(r) PROVE FlowStep
  BY EmitStep DEF SubmitManual, EventType, EventArg

(* A review is approved or rejected.                                        *)
LEMMA DecideReviewStep == ASSUME FlowInv, NEW r \in Row, DecideReview(r) PROVE FlowStep
<1>1. /\ Quiet /\ UNCHANGED <<steps, batch, runs, signals, tx, agenda>>
      /\ \E arg \in {"approved", "rejected"} : events' = Emit(events, "review_decision", r, arg)
  BY DEF DecideReview
<1>2. QED
  BY <1>1, EmitStep DEF EventType, EventArg

(* The time a wait was for has come.                                        *)
LEMMA WaitDueStep == ASSUME FlowInv, NEW r \in Row, WaitDue(r) PROVE FlowStep
  BY EmitStep DEF WaitDue, EventType, EventArg

(* A deadline is missed.                                                    *)
LEMMA TimeoutStep == ASSUME FlowInv, NEW r \in Row, Timeout(r) PROVE FlowStep
<1>1. /\ Quiet /\ UNCHANGED <<steps, batch, signals, tx, agenda>> /\ runs' = [runs EXCEPT ![r].late = TRUE]
      /\ \/ events' = events
         \/ \E arg \in {"skip", "fail"} : events' = Emit(events, "timeout", r, arg)
  BY DEF Timeout
<1>2. /\ RowsFit(steps, runs) /\ r \in DOMAIN runs /\ runs[r] \in RowRec(steps) /\ WaitsOpen(steps, runs[r])
      /\ batch \in BatchRec(steps) /\ Len(runs) \in Nat /\ r \in 1..Len(runs)
      /\ EventsFit(events, Len(runs)) /\ TxFits(tx, events)
  BY FlowTyped DEF FlowInv
<1>3. Evolves(steps, runs, runs')
  <2> DEFINE row == [runs[r] EXCEPT !.late = TRUE]
  <2>1. RowTame(steps, runs[r], row)
    BY <1>2 DEF RowTame, RowRec, WaitsOpen
  <2>2. runs' = [runs EXCEPT ![r] = row]
    BY <1>1
  <2>3. LET new == [runs EXCEPT ![r] = row] IN Evolves(steps, runs, new)
    BY <1>2, <2>1, RowWritten
  <2>4. QED
    BY <2>2, <2>3
<1>4. EventsFit(events', Len(runs)) /\ TxFits(tx', events')
  <2>1. CASE events' = events
    BY <1>1, <1>2, <2>1
  <2>2. CASE \E arg \in {"skip", "fail"} : events' = Emit(events, "timeout", r, arg)
    BY <1>1, <1>2, <2>2, EventEmitted DEF EventType, EventArg
  <2>3. QED
    BY <1>1, <2>1, <2>2
<1>5. QED
  BY <1>1, <1>2, <1>3, <1>4, StaysQuiet, OutsideStep

(* A signal comes: the first instance that waits for it takes it, or nobody  *)
(* waits for it.                                                            *)
LEMMA SignalTaker ==
  ASSUME FlowInv, NEW name, NEW by,
         LET first == {r \in WaitsFor(name) : \A q \in WaitsFor(name) : r <= q}
         IN by = IF first = {} THEN 0 ELSE CHOOSE r \in first : TRUE
  PROVE  (by = 0 /\ WaitsFor(name) = {}) \/ (by # 0 /\ by \in WaitsFor(name))
<1> DEFINE W == WaitsFor(name)
           first == {r \in W : \A q \in W : r <= q}
<1>1. by = IF first = {} THEN 0 ELSE CHOOSE r \in first : TRUE
  OBVIOUS
<1>2. first \subseteq W /\ (\E x \in W : \A y \in W : x <= y) => first # {}
  OBVIOUS
<1>3. W \subseteq Row /\ Row \subseteq Nat /\ 0 \notin Row
  <2>1. W \subseteq Row
    BY Zenon DEF WaitsFor
  <2> HIDE DEF W, first
  <2>2. QED
    BY <2>1, FlowTyped
<1> HIDE DEF W, first
<1>4. CASE W = {}
  <2>1. first = {}
    BY <1>4 DEF first
  <2>2. QED
    BY <1>1, <1>4, <2>1 DEF W
<1>5. CASE W # {}
  <2>1. \E x \in W : \A y \in W : x <= y
    BY <1>3, <1>5, LeastOne
  <2>2. first # {} /\ first \subseteq W
    <3>1. PICK x \in W : \A y \in W : x <= y
      BY <2>1
    <3>2. QED
      BY <3>1 DEF first
  <2>3. by \in W
    BY <1>1, <2>2
  <2>4. QED
    BY <1>3, <2>3 DEF W
<1>6. QED
  BY <1>4, <1>5

(* A signal comes: an instance takes it, or it is kept.                     *)
LEMMA SignalStep ==
  ASSUME FlowInv, NEW s \in Signals, NEW name \in EventNames(steps), Signal(s, name)
  PROVE  FlowStep
<1> DEFINE first == {r \in WaitsFor(name) : \A q \in WaitsFor(name) : r <= q}
           by == IF first = {} THEN 0 ELSE CHOOSE r \in first : TRUE
           n == Len(runs)
           given == [name |-> name, by |-> by]
<1>1. /\ Quiet /\ s \notin DOMAIN signals /\ UNCHANGED <<steps, batch, tx, agenda>>
      /\ signals' = [x \in DOMAIN signals \cup {s} |-> IF x = s THEN given ELSE signals[x]]
      /\ by = 0 => UNCHANGED <<runs, events>>
      /\ by # 0 => runs' = [runs EXCEPT ![by].signal = s] /\ events' = Emit(events, "signal", by, "")
  BY Zenon DEF Signal
<1>2. (by = 0 /\ WaitsFor(name) = {}) \/ (by # 0 /\ by \in WaitsFor(name))
  BY SignalTaker
<1>3. /\ s # "" /\ n \in Nat /\ n = Len(runs) /\ Row = 1..n /\ DOMAIN runs = 1..n
      /\ RowsFit(steps, runs) /\ SignalsFit(steps, signals, runs) /\ batch \in BatchRec(steps)
      /\ EventsFit(events, n) /\ TxFits(tx, events)
  BY FlowTyped, SignalsAssumption DEF FlowInv
<1>0. n \in Nat /\ n = Len(runs) /\ DOMAIN runs = 1..n
  BY <1>3
<1>4. /\ signals \in [DOMAIN signals -> SignalRec(steps, n)] /\ DOMAIN signals \subseteq Signals /\ "" \notin DOMAIN signals
      /\ \A x \in DOMAIN signals : signals[x] \in SignalRec(steps, n) /\ signals[x].by \in 0..n
      /\ \A x \in DOMAIN signals : signals[x].by # 0 => runs[signals[x].by].signal = x
      /\ \A x \in DOMAIN signals : signals[x].by = 0 => \A r \in 1..n : ~Awaits(steps, runs[r], signals[x].name)
  BY <1>3, SignalsAssumption DEF SignalsFit, SignalRec
<1>5. /\ \A r \in 1..n : r \in WaitsFor(name) <=> Awaits(steps, runs[r], name)
      /\ WaitsFor(name) \subseteq 1..n
  BY <1>3 DEF WaitsFor, Awaits, Kind, StepOf
<1> HIDE DEF first, by, n
<1>6. given \in SignalRec(steps, n) /\ given.name = name /\ given.by = by
  <2>1. by \in 0..n
    BY <1>0, <1>2, <1>5
  <2>2. QED
    BY <1>3, <2>1 DEF SignalRec
<1> HIDE DEF given
<1>7. /\ DOMAIN signals' = DOMAIN signals \cup {s} /\ signals'[s] = given
      /\ \A x \in DOMAIN signals : signals'[x] = signals[x]
      /\ signals' = [x \in DOMAIN signals' |-> signals'[x]]
  BY <1>1
<1>8. signals' \in [DOMAIN signals' -> SignalRec(steps, n)] /\ DOMAIN signals' \subseteq Signals
  BY <1>4, <1>6, <1>7
<1>9. CASE by = 0
  <2>1. UNCHANGED <<runs, events>> /\ WaitsFor(name) = {}
    BY <1>1, <1>2, <1>9
  <2>2. \A x \in DOMAIN signals' : signals'[x].by # 0 => runs[signals'[x].by].signal = x
    BY <1>4, <1>6, <1>7, <1>9
  <2>3. \A x \in DOMAIN signals' : signals'[x].by = 0 => \A r \in 1..n : ~Awaits(steps, runs[r], signals'[x].name)
    BY <1>4, <1>5, <1>6, <1>7, <1>9, <2>1
  <2>4. SignalsFit(steps, signals', runs)
    BY <1>3, <1>8, <2>2, <2>3 DEF SignalsFit
  <2>5. FlowInv' /\ Keeps(runs, runs')
    <3>1. Keeps(runs, runs')
      BY <1>3, <2>1, RunsStand, EvolvesKeeps
    <3>2. AgendaNext
      BY <1>1, StaysQuiet
    <3>3. steps' = steps /\ batch' = batch /\ runs' = runs /\ events' = events /\ tx' = tx
      BY <1>1, <2>1
    <3>4. QED
      BY <2>4, <3>1, <3>2, <3>3, Zenon DEF FlowInv, AgendaNext
  <2>6. QED
    BY <2>5 DEF FlowStep
<1>10. CASE by # 0
  <2>0. runs' = [runs EXCEPT ![by].signal = s]
    BY <1>1, <1>10
  <2>1. /\ events' = Emit(events, "signal", by, "")
        /\ by \in 1..n /\ Awaits(steps, runs[by], name) /\ runs[by].signal = ""
    <3>1. events' = Emit(events, "signal", by, "") /\ by \in WaitsFor(name)
      BY <1>1, <1>2, <1>10
    <3>2. by \in 1..n /\ Awaits(steps, runs[by], name)
      BY <1>5, <3>1
    <3>3. QED
      BY <3>1, <3>2 DEF Awaits
  <2>2. runs[by] \in RowRec(steps) /\ WaitsOpen(steps, runs[by]) /\ runs \in Seq(RowRec(steps))
    BY <1>3, <2>1, RowsTyped DEF RowsFit
  <2> DEFINE row == [runs[by] EXCEPT !.signal = s]
  <2>3. /\ row \in RowRec(steps) /\ row.signal = s /\ row.step = runs[by].step /\ row.state = runs[by].state
    BY <2>2 DEF RowRec
  <2>4. runs' = [runs EXCEPT ![by] = row]
    BY <2>0
  <2> HIDE DEF row
  <2>5. /\ runs' \in Seq(RowRec(steps)) /\ Len(runs') = n /\ DOMAIN runs' = 1..n /\ runs'[by] = row
        /\ \A r \in 1..n : r # by => runs'[r] = runs[r]
    <3>1. by \in 1..n /\ row \in RowRec(steps)
      BY <2>1, <2>3
    <3>2. runs \in [1..n -> RowRec(steps)]
      BY <1>0, <2>2
    <3>3. runs' \in [1..n -> RowRec(steps)] /\ runs'[by] = row /\ \A r \in 1..n : r # by => runs'[r] = runs[r]
      BY <2>4, <3>1, <3>2
    <3>4. runs' \in Seq(RowRec(steps)) /\ Len(runs') = n /\ DOMAIN runs' = 1..n
      BY <1>0, <3>3
    <3>5. QED
      BY <3>3, <3>4
  <2>6. RowsFit(steps, runs')
    <3>1. WaitsOpen(steps, row)
      BY <2>2, <2>3 DEF WaitsOpen
    <3>2. QED
      BY <1>3, <2>5, <3>1, RowsTyped DEF RowsFit
  <2>7. Keeps(runs, runs')
    BY <1>0, <2>3, <2>5 DEF Keeps
  <2>8. \A x \in DOMAIN signals' : signals'[x].by # 0 => runs'[signals'[x].by].signal = x
    <3>1. ASSUME NEW x \in DOMAIN signals, signals[x].by # 0 PROVE runs'[signals[x].by].signal = x
      <4>1. signals[x].by \in 1..n /\ runs[signals[x].by].signal = x
        <5>1. signals[x].by \in 0..n /\ runs[signals[x].by].signal = x
          BY <1>4, <3>1
        <5>2. QED
          BY <1>0, <3>1, <5>1
      <4>2. signals[x].by # by
        BY <1>4, <2>1, <4>1
      <4>3. QED
        BY <2>5, <4>1, <4>2
    <3>2. QED
      BY <1>6, <1>7, <2>3, <2>5, <3>1
  <2>9. \A x \in DOMAIN signals' : signals'[x].by = 0 => \A r \in 1..n : ~Awaits(steps, runs'[r], signals'[x].name)
    <3>1. \A x : ~Awaits(steps, runs'[by], x)
      BY <1>3, <2>3, <2>5 DEF Awaits
    <3>2. ASSUME NEW x \in DOMAIN signals, signals[x].by = 0, NEW r \in 1..n
          PROVE  ~Awaits(steps, runs'[r], signals[x].name)
      <4>1. CASE r = by
        BY <3>1, <4>1
      <4>2. CASE r # by
        BY <1>4, <2>5, <3>2, <4>2
      <4>3. QED
        BY <4>1, <4>2
    <3>3. signals'[s].by # 0
      BY <1>6, <1>7, <1>10
    <3>4. QED
      BY <1>7, <3>2, <3>3
  <2>10. SignalsFit(steps, signals', runs')
    BY <1>8, <2>5, <2>8, <2>9 DEF SignalsFit
  <2>11. EventsFit(events', Len(runs')) /\ TxFits(tx', events')
    BY <1>1, <1>3, <2>1, <2>5, EventEmitted DEF EventType, EventArg
  <2>12. AgendaNext
    BY <1>1, StaysQuiet
  <2>13. steps' = steps /\ batch' = batch
    BY <1>1
  <2>14. FlowInv'
    BY <1>3, <2>6, <2>10, <2>11, <2>12, <2>13, Zenon DEF FlowInv, AgendaNext
  <2>15. QED
    BY <2>7, <2>14 DEF FlowStep
<1>11. QED
  BY <1>9, <1>10

-----------------------------------------------------------------------------
(* The device side.                                                         *)

(* What a device does never concludes an instance by itself.                *)
LEMMA DevWritten ==
  ASSUME FlowInv, NEW r \in Row, NEW d \in DevState
  PROVE  Evolves(steps, runs, [runs EXCEPT ![r].dev = d])
<1> DEFINE row == [runs[r] EXCEPT !.dev = d]
<1>1. RowsFit(steps, runs) /\ r \in DOMAIN runs /\ runs[r] \in RowRec(steps) /\ WaitsOpen(steps, runs[r])
  BY FlowTyped DEF FlowInv
<1>2. RowTame(steps, runs[r], row)
  BY <1>1 DEF RowTame, RowRec, WaitsOpen
<1>3. [runs EXCEPT ![r].dev = d] = [runs EXCEPT ![r] = row]
  BY <1>1
<1>4. LET new == [runs EXCEPT ![r] = row] IN Evolves(steps, runs, new)
  BY <1>1, <1>2, RowWritten
<1>5. QED
  BY <1>3, <1>4

(* An abort that is under way may be over with it.                          *)
LEMMA ConcludedFits ==
  ASSUME FlowInv, NEW rs
  PROVE  Concluded(rs) \in BatchRec(steps)
<1>1. batch \in BatchRec(steps)
  BY DEF FlowInv
<1>2. [batch EXCEPT !.state = "aborted"] \in BatchRec(steps)
  BY <1>1 DEF BatchRec, BatchState, Ended
<1>3. QED
  BY <1>1, <1>2 DEF Concluded

(* A command is delivered.                                                  *)
LEMMA DeliverStep == ASSUME FlowInv, NEW r \in Row, Deliver(r) PROVE FlowStep
<1> DEFINE row == [runs[r] EXCEPT !.dev = "acting", !.state = IF @ = "ready" THEN "running" ELSE @]
<1>1. /\ Quiet /\ UNCHANGED <<steps, batch, events, signals, tx, agenda>>
      /\ runs' = [runs EXCEPT ![r].dev = "acting", ![r].state = IF @ = "ready" THEN "running" ELSE @]
  BY DEF Deliver
<1>2. /\ RowsFit(steps, runs) /\ r \in DOMAIN runs /\ runs[r] \in RowRec(steps) /\ WaitsOpen(steps, runs[r])
      /\ batch' \in BatchRec(steps)
  BY <1>1, FlowTyped DEF FlowInv
<1>3. RowTame(steps, runs[r], row)
  BY <1>2 DEF RowTame, RowRec, WaitsOpen, RowState, Undecided, DevState, Live
<1>4. runs' = [runs EXCEPT ![r] = row]
  BY <1>1, <1>2
<1>5. LET new == [runs EXCEPT ![r] = row] IN Evolves(steps, runs, new)
  BY <1>2, <1>3, RowWritten
<1>6. QED
  BY <1>1, <1>2, <1>4, <1>5, RowsOnlyStep

(* A device tells how its action has ended.                                 *)
LEMMA ReceiptStep ==
  ASSUME FlowInv, Quiet, UNCHANGED <<steps, signals, tx, agenda>>, NEW r \in Row,
         runs' = [runs EXCEPT ![r].dev = "over"], batch' \in BatchRec(steps),
         NEW arg \in {"done", "failed"}, events' = Emit(events, "device_ack", r, arg)
  PROVE  FlowStep
<1>1. "over" \in DevState /\ "device_ack" \in EventType /\ arg \in EventArg
  BY DEF DevState, EventType, EventArg
<1>2. Evolves(steps, runs, runs')
  BY <1>1, DevWritten
<1>3. EventsFit(events, Len(runs)) /\ TxFits(tx, events) /\ Len(runs) \in Nat /\ r \in 1..Len(runs)
  BY FlowTyped DEF FlowInv
<1>4. EventsFit(events', Len(runs)) /\ TxFits(tx', events')
  BY <1>1, <1>3, EventEmitted
<1>5. QED
  BY <1>2, <1>4, StaysQuiet, OutsideStep

(* A device has done its action.                                            *)
LEMMA DeviceDoneStep == ASSUME FlowInv, NEW r \in Row, DeviceDone(r) PROVE FlowStep
  BY ConcludedFits, ReceiptStep DEF DeviceDone

(* A device has failed: the batch is in fault, or what ends ends.           *)
LEMMA DeviceFailsStep == ASSUME FlowInv, NEW r \in Row, DeviceFails(r) PROVE FlowStep
<1>1. /\ Quiet /\ UNCHANGED <<steps, signals, tx, agenda>> /\ runs' = [runs EXCEPT ![r].dev = "over"]
      /\ events' = Emit(events, "device_ack", r, "failed")
      /\ \/ batch' = Concluded(runs')
         \/ batch' = [batch EXCEPT !.state = "fault", !.why = "failed", !.current = runs[r].step]
  BY DEF DeviceFails
<1>2. batch \in BatchRec(steps) /\ runs[r].step \in DOMAIN steps
  BY FlowTyped DEF FlowInv
<1>3. [batch EXCEPT !.state = "fault", !.why = "failed", !.current = runs[r].step] \in BatchRec(steps)
  BY <1>2 DEF BatchRec, BatchState, Reason
<1>4. batch' \in BatchRec(steps)
  BY <1>1, <1>3, ConcludedFits
<1>5. QED
  BY <1>1, <1>4, ReceiptStep

(* A hold or an abort is confirmed.                                         *)
LEMMA HoldConfirmedStep == ASSUME FlowInv, NEW r \in Row, HoldConfirmed(r) PROVE FlowStep
<1>1. /\ Quiet /\ UNCHANGED <<steps, batch, events, signals, tx, agenda>> /\ runs' = [runs EXCEPT ![r].dev = "held"]
  BY DEF HoldConfirmed
<1>2. Evolves(steps, runs, runs') /\ batch' \in BatchRec(steps)
  BY <1>1, DevWritten DEF DevState, Live, FlowInv
<1>3. QED
  BY <1>1, <1>2, RowsOnlyStep

(* A device has confirmed the abort.                                        *)
LEMMA AbortConfirmedStep == ASSUME FlowInv, NEW r \in Row, AbortConfirmed(r) PROVE FlowStep
<1>1. /\ Quiet /\ UNCHANGED <<steps, events, signals, tx, agenda>> /\ runs' = [runs EXCEPT ![r].dev = "over"]
      /\ batch' = Concluded(runs')
  BY DEF AbortConfirmed
<1>2. Evolves(steps, runs, runs') /\ batch' \in BatchRec(steps)
  BY <1>1, DevWritten, ConcludedFits DEF DevState
<1>3. QED
  BY <1>1, <1>2, RowsOnlyStep

-----------------------------------------------------------------------------
(* The operator.                                                            *)

(* A request decides on one instance, and the transaction goes on from it.  *)
LEMMA RequestStep ==
  ASSUME FlowInv, UNCHANGED <<steps, events, signals, tx>>, batch' \in BatchRec(steps), Evolves(steps, runs, runs'),
         NEW ts, Planned(steps, ts, Len(runs')), NEW v \in BatchState, Request(v, ts)
  PROVE  FlowStep
  BY RequestOpens, WritesAtOnce

(* The batch is started: the steps without a predecessor are opened.        *)
LEMMA StartStep == ASSUME FlowInv, Start PROVE FlowStep
<1> DEFINE first == IF GraphMode(steps) THEN Ordered(Frontier(steps, << >>, << >>).open) ELSE <<1>>
           todo == [k \in DOMAIN first |-> Task("open", 0, first[k], IF GraphMode(steps) THEN 1 ELSE 0)]
           tail == <<Task("tail", 0, 0, 0)>>
<1>1. /\ Request("running", todo \o tail) /\ batch' = [batch EXCEPT !.state = "running"]
      /\ UNCHANGED <<steps, runs, events, signals, tx>>
  BY Zenon DEF Start
<1>2. batch \in BatchRec(steps) /\ Len(runs) \in Nat /\ "running" \in BatchState /\ runs' = runs
  BY <1>1, FlowTyped DEF FlowInv, BatchState
<1>3. batch' \in BatchRec(steps)
  BY <1>1, <1>2 DEF BatchRec
<1>4. first \in Seq(DOMAIN steps)
  <2>1. Ordered(Frontier(steps, << >>, << >>).open) \in Seq(DOMAIN steps)
    BY FrontierWithin, OrderedSteps
  <2>2. <<1>> \in Seq(DOMAIN steps)
    BY FlowTyped
  <2>3. QED
    BY <2>1, <2>2
<1> HIDE DEF first
<1>5. Planned(steps, todo, Len(runs'))
  <2>1. todo = [k \in DOMAIN first |-> todo[k]]
    OBVIOUS
  <2>2. \A k \in DOMAIN first : \E m \in Nat : todo[k] = Task("open", 0, first[k], m)
    <3>1. \A k \in DOMAIN first : todo[k] = Task("open", 0, first[k], IF GraphMode(steps) THEN 1 ELSE 0)
      OBVIOUS
    <3>2. (IF GraphMode(steps) THEN 1 ELSE 0) \in Nat
      OBVIOUS
    <3> HIDE DEF todo
    <3>3. QED
      BY <3>1, <3>2, Zenon
  <2> HIDE DEF todo
  <2>3. QED
    BY <1>2, <1>4, <2>1, <2>2, OpeningsPlanned
<1>6. Planned(steps, tail, Len(runs'))
  BY <1>2, OneTask
<1> HIDE DEF todo, tail
<1>7. QED
  BY <1>1, <1>2, <1>3, <1>5, <1>6, PlannedBoth, RunsStand, RequestStep

(* The batch runs again.                                                    *)
LEMMA RestoredFits ==
  ASSUME NEW f, NEW b \in BatchRec(f)
  PROVE  Restored(b) \in BatchRec(f)
  BY DEF Restored, BatchRec, BatchState, Reason

(* An instance that is ready may be closed with any verdict.                *)
LEMMA ReadyIsOpen ==
  ASSUME FlowInv, NEW r \in Row, runs[r].state = "ready"
  PROVE  /\ RowsFit(steps, runs) /\ r \in DOMAIN runs /\ runs[r].state \in Undecided /\ batch \in BatchRec(steps)
         /\ r \in 1..Len(runs) /\ r \in Nat /\ Len(runs) \in Nat
         /\ \A v \in {"completed", "failed", "skipped"} :
              Evolves(steps, runs, Closed(runs, r, v)) /\ Len(Closed(runs, r, v)) = Len(runs)
<1>1. RowsFit(steps, runs) /\ r \in DOMAIN runs /\ r \in 1..Len(runs) /\ r \in Nat /\ Len(runs) \in Nat
      /\ batch \in BatchRec(steps)
  BY FlowTyped DEF FlowInv
<1>2. runs[r].state \in Undecided
  BY DEF Undecided
<1>3. \A v \in {"completed", "failed", "skipped"} : v \in RowState /\ v # "waiting" /\ v \notin Undecided
  BY DEF RowState, Resolved, Passed, Undecided
<1>4. ASSUME NEW v \in {"completed", "failed", "skipped"}
      PROVE  Evolves(steps, runs, Closed(runs, r, v)) /\ Len(Closed(runs, r, v)) = Len(runs)
  <2>1. v \in RowState /\ v # "waiting" /\ v \notin Undecided
    BY <1>3
  <2>2. QED
    BY <1>1, <1>2, <2>1, RowClosed
<1>5. QED
  BY <1>1, <1>2, <1>4

(* QA decides a gate.                                                       *)
LEMMA DecideGateStep == ASSUME FlowInv, NEW r \in Row, DecideGate(r) PROVE FlowStep
<1>1. /\ Quiet /\ runs[r].state = "ready" /\ UNCHANGED <<steps, events, signals, tx>>
      /\ \/ /\ runs' = Closed(runs, r, "completed") /\ (batch' = Restored(batch) \/ batch' = batch)
            /\ Request(batch'.state, <<Task("advance", r, 0, 0)>>)
         \/ /\ runs' = Closed(runs, r, "failed") /\ UNCHANGED agenda
            /\ batch' = [batch EXCEPT !.state = "fault", !.why = "scrap"]
  BY Zenon DEF DecideGate, Free
<1>2. /\ r \in 1..Len(runs) /\ r \in Nat /\ Len(runs) \in Nat /\ batch \in BatchRec(steps)
      /\ \A v \in {"completed", "failed", "skipped"} :
           Evolves(steps, runs, Closed(runs, r, v)) /\ Len(Closed(runs, r, v)) = Len(runs)
  BY <1>1, ReadyIsOpen
<1>3. ASSUME runs' = Closed(runs, r, "completed"), batch' = Restored(batch) \/ batch' = batch,
             Request(batch'.state, <<Task("advance", r, 0, 0)>>)
      PROVE  FlowStep
  <2>1. batch' \in BatchRec(steps)
    BY <1>2, <1>3, RestoredFits
  <2>2. batch'.state \in BatchState
    BY <2>1 DEF BatchRec
  <2>3. Evolves(steps, runs, runs') /\ Len(runs') = Len(runs)
    BY <1>2, <1>3
  <2>4. Planned(steps, <<Task("advance", r, 0, 0)>>, Len(runs'))
    BY <1>2, <2>3, OneTask
  <2>5. QED
    BY <1>1, <1>3, <2>1, <2>2, <2>3, <2>4, RequestStep
<1>4. ASSUME runs' = Closed(runs, r, "failed"), UNCHANGED agenda,
             batch' = [batch EXCEPT !.state = "fault", !.why = "scrap"]
      PROVE  FlowStep
  <2>1. batch' \in BatchRec(steps)
    BY <1>2, <1>4 DEF BatchRec, BatchState, Reason
  <2>2. QED
    BY <1>1, <1>2, <1>4, <2>1, RowsOnlyStep
<1>5. QED
  BY <1>1, <1>3, <1>4

(* A person chooses the exit of a branch.                                   *)
LEMMA DecideBranchStep == ASSUME FlowInv, NEW r \in Row, DecideBranch(r) PROVE FlowStep
<1> DEFINE b == IF batch.state = "paused" /\ batch.why = "branch" /\ ~OthersHeld(r) THEN Restored(batch) ELSE batch
<1>1. /\ runs[r].state = "ready" /\ Kind(r) = "branch" /\ UNCHANGED <<steps, events, signals, tx>> /\ batch' = b
  BY Zenon DEF DecideBranch
<1>2. \/ \E exits \in SUBSET Exits(StepOf(r)) \ {{}} :
           /\ runs' = [Closed(runs, r, "completed") EXCEPT ![r].exits = exits]
           /\ Request(b.state, <<Task("advance", r, 0, 0)>>)
      \/ \E exit \in Exits(StepOf(r)) :
           IF LoopOf(StepOf(r), exit) = 0
           THEN /\ runs' = [Closed(runs, r, "completed") EXCEPT ![r].exits = {exit}]
                /\ Request(b.state, <<Task("advance", r, 0, 0)>>)
           ELSE /\ \E body : runs' = Voided([runs EXCEPT ![r].state = "completed", ![r].exits = {exit}], body, Resolved)
                /\ Request(b.state, <<Task("open", 0, LoopOf(StepOf(r), exit), 0)>>)
  BY Zenon DEF DecideBranch, Take
<1>3. /\ RowsFit(steps, runs) /\ r \in DOMAIN runs /\ r \in 1..Len(runs) /\ r \in Nat /\ Len(runs) \in Nat
      /\ batch \in BatchRec(steps) /\ runs[r].state \in Undecided /\ runs[r].step \in DOMAIN steps
  BY <1>1, ReadyIsOpen, FlowTyped
<1>4. b \in BatchRec(steps)
  BY <1>3, RestoredFits
<1> HIDE DEF b
<1>5. b.state \in BatchState /\ batch' \in BatchRec(steps)
  BY <1>1, <1>4 DEF BatchRec
<1>6. ASSUME NEW exits \in SUBSET Exits(StepOf(r)) \ {{}},
             runs' = [Closed(runs, r, "completed") EXCEPT ![r].exits = exits],
             Request(b.state, <<Task("advance", r, 0, 0)>>)
      PROVE  FlowStep
  <2>1. exits \in SUBSET ExitKeys(steps)
    BY <1>3 DEF ExitKeys, StepOf
  <2>2. Evolves(steps, runs, runs')
    BY <1>3, <1>6, <2>1, BranchDecided
  <2>3. Len(runs') \in Nat /\ r \in 1..Len(runs')
    BY <1>3, <2>2, RowsTyped DEF Evolves
  <2>4. Planned(steps, <<Task("advance", r, 0, 0)>>, Len(runs'))
    BY <1>3, <2>3, OneTask
  <2>5. QED
    BY <1>1, <1>5, <1>6, <2>2, <2>4, RequestStep
<1>7. ASSUME NEW exit \in Exits(StepOf(r)),
             IF LoopOf(StepOf(r), exit) = 0
             THEN /\ runs' = [Closed(runs, r, "completed") EXCEPT ![r].exits = {exit}]
                  /\ Request(b.state, <<Task("advance", r, 0, 0)>>)
             ELSE /\ \E body : runs' = Voided([runs EXCEPT ![r].state = "completed", ![r].exits = {exit}], body, Resolved)
                  /\ Request(b.state, <<Task("open", 0, LoopOf(StepOf(r), exit), 0)>>)
      PROVE  FlowStep
  <2>1. CASE LoopOf(StepOf(r), exit) = 0
    <3>1. /\ runs' = [Closed(runs, r, "completed") EXCEPT ![r].exits = {exit}]
          /\ Request(b.state, <<Task("advance", r, 0, 0)>>)
      BY <1>7, <2>1
    <3>2. Evolves(steps, runs, runs') /\ Planned(steps, <<Task("advance", r, 0, 0)>>, Len(runs'))
      BY <1>1, <1>3, <2>1, <3>1, ExitTaken
    <3>3. QED
      BY <1>1, <1>5, <3>1, <3>2, RequestStep
  <2>2. CASE LoopOf(StepOf(r), exit) # 0
    <3>1. /\ \E body : runs' = Voided([runs EXCEPT ![r].state = "completed", ![r].exits = {exit}], body, Resolved)
          /\ Request(b.state, <<Task("open", 0, LoopOf(StepOf(r), exit), 0)>>)
      BY <1>7, <2>2
    <3>2. Evolves(steps, runs, runs') /\ Planned(steps, <<Task("open", 0, LoopOf(StepOf(r), exit), 0)>>, Len(runs'))
      BY <1>1, <1>3, <2>2, <3>1, ExitTaken
    <3>3. QED
      BY <1>1, <1>5, <3>1, <3>2, RequestStep
  <2>3. QED
    BY <2>1, <2>2
<1>8. QED
  BY <1>2, <1>6, <1>7

(* A person confirms a split into real vessels.                             *)
LEMMA ConfirmSplitStep == ASSUME FlowInv, NEW r \in Row, ConfirmSplit(r) PROVE FlowStep
<1>1. /\ runs[r].state = "ready" /\ UNCHANGED <<steps, batch, events, signals, tx>>
      /\ runs' = Closed(runs, r, "completed") /\ Request("running", <<Task("advance", r, 0, 0)>>)
  BY DEF ConfirmSplit
<1>2. /\ r \in 1..Len(runs) /\ r \in Nat /\ Len(runs) \in Nat /\ batch' \in BatchRec(steps)
      /\ Evolves(steps, runs, runs') /\ Len(runs') = Len(runs)
  BY <1>1, ReadyIsOpen
<1>3. Planned(steps, <<Task("advance", r, 0, 0)>>, Len(runs')) /\ "running" \in BatchState
  BY <1>2, OneTask DEF BatchState
<1>4. QED
  BY <1>1, <1>2, <1>3, RequestStep

(* An alarm is cleared.                                                     *)
LEMMA ClearAlarmStep == ASSUME FlowInv, NEW a, ClearAlarm(a) PROVE FlowStep
<1>1. Quiet /\ UNCHANGED <<steps, batch, runs, events, signals, tx, agenda>>
  BY DEF ClearAlarm
<1>2. EventsFit(events', Len(runs)) /\ TxFits(tx', events')
  BY <1>1 DEF FlowInv
<1>3. QED
  BY <1>1, <1>2, EventsOnlyStep

(* Devices do other things, conclusions stand.                              *)
LEMMA DevicesEvolve ==
  ASSUME NEW f, NEW rs, RowsFit(f, rs), NEW new, new = [r \in DOMAIN rs |-> new[r]],
         \A r \in DOMAIN rs : new[r] = rs[r] \/ \E d \in DevState : new[r] = [rs[r] EXCEPT !.dev = d]
  PROVE  Evolves(f, rs, new) /\ Len(new) = Len(rs) /\ DOMAIN new = DOMAIN rs
<1>1. ASSUME NEW r \in DOMAIN rs PROVE RowTame(f, rs[r], new[r])
  <2>1. rs[r] \in RowRec(f) /\ WaitsOpen(f, rs[r])
    BY RowsTyped
  <2>2. CASE new[r] = rs[r]
    BY <2>1, <2>2 DEF RowTame
  <2>3. ASSUME NEW d \in DevState, new[r] = [rs[r] EXCEPT !.dev = d] PROVE RowTame(f, rs[r], new[r])
    BY <2>1, <2>3 DEF RowTame, RowRec, WaitsOpen
  <2>4. QED
    BY <2>2, <2>3
<1>2. new \in [DOMAIN rs -> RowRec(f)]
  BY <1>1 DEF RowTame
<1>3. QED
  BY <1>1, <1>2, EvolvesByRow

(* Commands that wait in the queue are withdrawn.                           *)
LEMMA WithdrawnEvolves ==
  ASSUME NEW f, NEW rs, RowsFit(f, rs)
  PROVE  Evolves(f, rs, Withdrawn(rs)) /\ Len(Withdrawn(rs)) = Len(rs) /\ DOMAIN Withdrawn(rs) = DOMAIN rs
<1> DEFINE new == Withdrawn(rs)
<1>1. new = [r \in DOMAIN rs |-> new[r]]
  BY Zenon DEF Withdrawn
<1>2. \A r \in DOMAIN rs : new[r] = rs[r] \/ new[r] = [rs[r] EXCEPT !.dev = "none"]
  BY Zenon DEF Withdrawn
<1>3. "none" \in DevState
  BY DEF DevState
<1> HIDE DEF new
<1>4. \A r \in DOMAIN rs : new[r] = rs[r] \/ \E d \in DevState : new[r] = [rs[r] EXCEPT !.dev = d]
  BY <1>2, <1>3, Zenon
<1>5. Evolves(f, rs, new) /\ Len(new) = Len(rs) /\ DOMAIN new = DOMAIN rs
  BY <1>1, <1>4, DevicesEvolve
<1>6. QED
  BY <1>5 DEF new

(* The operator holds the batch.                                            *)
LEMMA HoldStep == ASSUME FlowInv, Hold PROVE FlowStep
<1> DEFINE c == IF Acting = {} THEN batch.current ELSE runs[CHOOSE r \in Acting : \A q \in Acting : r <= q].step
<1>1. /\ Quiet /\ UNCHANGED <<steps, events, signals, tx, agenda>>
      /\ runs' = [r \in Row |-> IF runs[r].dev = "acting" THEN [runs[r] EXCEPT !.dev = "holding"]
                                ELSE Withdrawn(runs)[r]]
      /\ batch' = [batch EXCEPT !.state = "paused", !.note = TRUE, !.current = c]
  BY DEF Hold
<1>2. RowsFit(steps, runs) /\ batch \in BatchRec(steps) /\ Row = DOMAIN runs /\ Row \subseteq Nat
      /\ \A r \in Row : runs[r].step \in DOMAIN steps
  BY FlowTyped DEF FlowInv
<1>3. c \in DOMAIN steps
  <2>1. CASE Acting = {}
    BY <1>2, <2>1 DEF BatchRec
  <2>2. CASE Acting # {}
    <3>1. Acting \subseteq Row
      BY DEF Acting
    <3>2. PICK x \in Acting : \A y \in Acting : x <= y
      BY <1>2, <2>2, <3>1, LeastOne
    <3>3. (CHOOSE r \in Acting : \A q \in Acting : r <= q) \in Acting
      BY <3>2
    <3>4. QED
      BY <1>2, <2>2, <3>1, <3>3
  <2>3. QED
    BY <2>1, <2>2
<1> HIDE DEF c
<1>4. batch' \in BatchRec(steps)
  BY <1>1, <1>2, <1>3 DEF BatchRec, BatchState
<1>5. Evolves(steps, runs, runs')
  <2>1. runs' = [r \in DOMAIN runs |-> runs'[r]]
    BY <1>1, <1>2, Zenon
  <2>2. \A r \in DOMAIN runs : \/ runs'[r] = runs[r] \/ runs'[r] = [runs[r] EXCEPT !.dev = "holding"]
                               \/ runs'[r] = [runs[r] EXCEPT !.dev = "none"]
    BY <1>1, <1>2, Zenon DEF Withdrawn
  <2>3. "holding" \in DevState /\ "none" \in DevState
    BY DEF DevState, Live
  <2>4. \A r \in DOMAIN runs : runs'[r] = runs[r] \/ \E d \in DevState : runs'[r] = [runs[r] EXCEPT !.dev = d]
    BY <2>2, <2>3, Zenon
  <2>5. QED
    BY <1>2, <2>1, <2>4, DevicesEvolve
<1>6. QED
  BY <1>1, <1>4, <1>5, RowsOnlyStep

(* The batch is aborted: what nobody has decided is cancelled, what has not  *)
(* been processed is refused.                                               *)
LEMMA AbortStep == ASSUME FlowInv, Abort PROVE FlowStep
<1> DEFINE closed == [r \in Row |-> IF r \in OpenRows(runs) THEN [runs[r] EXCEPT !.state = "cancelled"] ELSE runs[r]]
           Turn(e) == [e EXCEPT !.state = IF @ = "pending" THEN "rejected" ELSE @]
<1>1. /\ Quiet /\ UNCHANGED <<steps, signals, tx, agenda>> /\ runs' = Withdrawn(closed)
      /\ \/ batch' = [batch EXCEPT !.state = "aborted"]
         \/ batch' = [batch EXCEPT !.state = "aborting"]
      /\ events' = {Turn(e) : e \in events}
  BY DEF Abort, Free
<1>2. /\ RowsFit(steps, runs) /\ batch \in BatchRec(steps) /\ Row = DOMAIN runs
      /\ EventsFit(events, Len(runs)) /\ TxFits(tx, events)
      /\ \A r \in Row : runs[r] \in RowRec(steps) /\ WaitsOpen(steps, runs[r])
  BY FlowTyped DEF FlowInv
<1>3. batch' \in BatchRec(steps)
  BY <1>1, <1>2 DEF BatchRec, BatchState, Ended
<1>4. Evolves(steps, runs, closed)
  <2>1. ASSUME NEW r \in Row PROVE RowTame(steps, runs[r], closed[r])
    <3>1. CASE r \in OpenRows(runs)
      <4>1. runs[r].state \in Undecided /\ closed[r] = [runs[r] EXCEPT !.state = "cancelled"]
        BY <3>1 DEF OpenRows
      <4>2. RowTame(steps, runs[r], [runs[r] EXCEPT !.state = "cancelled"])
        BY <1>2, <4>1 DEF RowTame, RowRec, WaitsOpen, RowState, Void, Undecided
      <4>3. QED
        BY <4>1, <4>2
    <3>2. CASE r \notin OpenRows(runs)
      <4>1. closed[r] = runs[r]
        BY <3>2
      <4>2. QED
        BY <1>2, <4>1 DEF RowTame
    <3>3. QED
      BY <3>1, <3>2
  <2>2. closed \in [DOMAIN runs -> RowRec(steps)]
    BY <1>2, <2>1 DEF RowTame
  <2> HIDE DEF closed
  <2>3. QED
    BY <1>2, <2>1, <2>2, EvolvesByRow
<1> HIDE DEF closed
<1>5. Evolves(steps, runs, runs')
  <2>1. RowsFit(steps, closed)
    BY <1>4 DEF Evolves
  <2>2. Evolves(steps, closed, runs')
    BY <1>1, <2>1, WithdrawnEvolves
  <2>3. QED
    BY <1>2, <1>4, <2>2, EvolvesOn
<1>6. \A e \in events : Turn(e) \in EventRec(Len(runs)) /\ Turn(e).type = e.type /\ Turn(e).run = e.run
  BY <1>2 DEF EventsFit, EventRec, EventState
<1> HIDE DEF Turn
<1>7. EventsFit(events', Len(runs)) /\ TxFits(tx', events')
  <2>1. EventsFit(events', Len(runs))
    BY <1>1, <1>6 DEF EventsFit
  <2>2. ASSUME NEW t \in tx PROVE \E x \in events' : x.type = t.type /\ x.run = t.run
    <3>1. PICK e \in events : e.type = t.type /\ e.run = t.run
      BY <1>2 DEF TxFits
    <3>2. Turn(e) \in events'
      BY <1>1
    <3>3. QED
      BY <1>6, <3>1, <3>2
  <2>3. QED
    BY <1>1, <1>2, <2>1, <2>2 DEF TxFits
<1>8. QED
  BY <1>1, <1>3, <1>5, <1>7, StaysQuiet, OutsideStep

(* A step and what follows from it are done over again.                     *)
LEMMA RerunFromStep == ASSUME FlowInv, NEW i \in DOMAIN steps, RerunFrom(i) PROVE FlowStep
<1> DEFINE scope == {i} \cup Descendants(steps, i)
<1>1. /\ UNCHANGED <<steps, events, signals, tx>> /\ Request("running", <<Task("open", 0, i, 0)>>)
      /\ batch' = [Restored(batch) EXCEPT !.note = FALSE, !.current = i, !.redone = @ \cup scope]
      /\ runs' = [r \in Row |->
                    IF runs[r].step \in scope /\ runs[r].state \in Undecided
                    THEN [runs[r] EXCEPT !.state = "cancelled", !.dev = IF @ = "queued" THEN "none" ELSE @]
                    ELSE IF runs[r].step \in scope /\ runs[r].state \in Resolved \cup {"failed"}
                    THEN [runs[r] EXCEPT !.state = "superseded"] ELSE runs[r]]
  BY Zenon DEF RerunFrom
<1>2. scope \subseteq DOMAIN steps
  BY Zenon DEF Descendants
<1> HIDE DEF scope
<1>3. /\ RowsFit(steps, runs) /\ batch \in BatchRec(steps) /\ Row = DOMAIN runs /\ i \in Nat
      /\ \A r \in Row : runs[r] \in RowRec(steps) /\ WaitsOpen(steps, runs[r])
  BY FlowTyped DEF FlowInv
<1>4. batch' \in BatchRec(steps)
  <2>1. Restored(batch) \in BatchRec(steps)
    BY <1>3, RestoredFits
  <2>2. QED
    BY <1>1, <1>2, <2>1 DEF BatchRec
<1>5. Evolves(steps, runs, runs')
  <2>1. ASSUME NEW r \in Row PROVE RowTame(steps, runs[r], runs'[r])
    <3>1. runs[r] \in RowRec(steps) /\ WaitsOpen(steps, runs[r])
      BY <1>3
    <3>2. \/ runs[r].state \in Undecided
             /\ runs'[r] = [runs[r] EXCEPT !.state = "cancelled", !.dev = IF @ = "queued" THEN "none" ELSE @]
          \/ runs'[r] = [runs[r] EXCEPT !.state = "superseded"]
          \/ runs'[r] = runs[r]
      BY <1>1, Zenon
    <3>3. CASE runs[r].state \in Undecided
               /\ runs'[r] = [runs[r] EXCEPT !.state = "cancelled", !.dev = IF @ = "queued" THEN "none" ELSE @]
      BY <3>1, <3>3 DEF RowTame, RowRec, WaitsOpen, RowState, Void, Undecided, DevState
    <3>4. CASE runs'[r] = [runs[r] EXCEPT !.state = "superseded"]
      BY <3>1, <3>4 DEF RowTame, RowRec, WaitsOpen, RowState, Void, Undecided
    <3>5. CASE runs'[r] = runs[r]
      BY <3>1, <3>5 DEF RowTame
    <3>6. QED
      BY <3>2, <3>3, <3>4, <3>5
  <2>2. runs' = [r \in DOMAIN runs |-> runs'[r]]
    BY <1>1, <1>3, Zenon
  <2>3. runs' \in [DOMAIN runs -> RowRec(steps)]
    BY <1>3, <2>1, <2>2 DEF RowTame
  <2>4. QED
    BY <1>3, <2>1, <2>3, EvolvesByRow
<1>6. Planned(steps, <<Task("open", 0, i, 0)>>, Len(runs')) /\ "running" \in BatchState
  <2>1. Len(runs') \in Nat
    BY <1>5, RowsTyped DEF Evolves
  <2>2. QED
    BY <1>3, <2>1, OneTask DEF BatchState
<1>7. QED
  BY <1>1, <1>4, <1>5, <1>6, RequestStep

(* A step is skipped.                                                       *)
LEMMA SkipStep == ASSUME FlowInv, NEW i \in DOMAIN steps, Skip(i) PROVE FlowStep
<1> DEFINE live == {r \in RowsOf(runs, i) : runs[r].state \notin Void}
           r == Largest(live)
           b == IF batch.state = "running" THEN batch ELSE [Restored(batch) EXCEPT !.note = FALSE]
           row == [NewRun(i) EXCEPT !.state = "skipped"]
<1>1. /\ live # {} /\ UNCHANGED <<steps, events, signals, tx>>
      /\ \/ /\ runs[r].state \in Undecided
            /\ runs' = [runs EXCEPT ![r].state = "skipped", ![r].dev = "none"]
            /\ Request("running", <<Task("advance", r, 0, 0)>>) /\ batch' = b
         \/ /\ runs' = Append(runs, row)
            /\ Request("running", <<Task("advance", Len(runs) + 1, 0, 0)>>)
            /\ batch' = [b EXCEPT !.current = i]
  BY Zenon DEF Skip
<1>2. /\ RowsFit(steps, runs) /\ batch \in BatchRec(steps) /\ Row = DOMAIN runs /\ Len(runs) \in Nat
      /\ DOMAIN runs = 1..Len(runs)
      /\ \A q \in Row : runs[q] \in RowRec(steps) /\ WaitsOpen(steps, runs[q])
  BY FlowTyped DEF FlowInv
<1>3. r \in 1..Len(runs) /\ r \in Row /\ r \in Nat
  <2>1. live \subseteq 1..Len(runs)
    BY <1>2 DEF RowsOf
  <2> HIDE DEF live
  <2>2. r \in live
    BY <1>1, <1>2, <2>1, LargestIn
  <2> HIDE DEF r
  <2>3. r \in 1..Len(runs)
    BY <2>1, <2>2
  <2>4. QED
    BY <1>2, <2>3
<1> HIDE DEF live, r
<1>4. b \in BatchRec(steps)
  <2>1. Restored(batch) \in BatchRec(steps)
    BY <1>2, RestoredFits
  <2>2. [Restored(batch) EXCEPT !.note = FALSE] \in BatchRec(steps)
    BY <2>1 DEF BatchRec
  <2>3. QED
    BY <1>2, <2>2
<1> HIDE DEF b
<1>5. [b EXCEPT !.current = i] \in BatchRec(steps) /\ "running" \in BatchState
  BY <1>4 DEF BatchRec, BatchState
<1>6. ASSUME runs[r].state \in Undecided, runs' = [runs EXCEPT ![r].state = "skipped", ![r].dev = "none"],
             Request("running", <<Task("advance", r, 0, 0)>>), batch' = b
      PROVE  FlowStep
  <2> DEFINE new == [runs[r] EXCEPT !.state = "skipped", !.dev = "none"]
  <2>1. RowTame(steps, runs[r], new)
    BY <1>2, <1>3, <1>6 DEF RowTame, RowRec, WaitsOpen, RowState, Resolved, Passed, Undecided, DevState
  <2>2. runs' = [runs EXCEPT ![r] = new]
    BY <1>2, <1>3, <1>6
  <2> HIDE DEF new
  <2>3. LET rs == [runs EXCEPT ![r] = new] IN Evolves(steps, runs, rs) /\ Len(rs) = Len(runs)
    <3>1. r \in DOMAIN runs /\ RowsFit(steps, runs)
      BY <1>2, <1>3
    <3>2. QED
      BY <2>1, <3>1, RowWritten
  <2>4. Evolves(steps, runs, runs') /\ Len(runs') = Len(runs)
    BY <2>2, <2>3
  <2>5. Planned(steps, <<Task("advance", r, 0, 0)>>, Len(runs'))
    BY <1>2, <1>3, <2>4, OneTask
  <2>6. QED
    BY <1>1, <1>4, <1>5, <1>6, <2>4, <2>5, RequestStep
<1>7. ASSUME runs' = Append(runs, row), Request("running", <<Task("advance", Len(runs) + 1, 0, 0)>>),
             batch' = [b EXCEPT !.current = i]
      PROVE  FlowStep
  <2>1. row \in RowRec(steps) /\ row.state \notin Undecided
    <3>1. NewRun(i) \in RowRec(steps)
      BY NewRunFits
    <3> DEFINE old == NewRun(i)
    <3> HIDE DEF old
    <3>2. [old EXCEPT !.state = "skipped"] \in RowRec(steps) /\ [old EXCEPT !.state = "skipped"].state \notin Undecided
      BY <3>1 DEF old, RowRec, RowState, Resolved, Passed, Undecided
    <3>3. QED
      BY <3>2 DEF old
  <2> HIDE DEF row
  <2>2. <<row>> \in Seq(RowRec(steps)) /\ (\A k \in DOMAIN <<row>> : <<row>>[k].state \notin Undecided)
    BY <2>1
  <2>3. Append(runs, row) = runs \o <<row>>
    <3>1. runs \in Seq(RowRec(steps))
      BY <1>2 DEF RowsFit
    <3>2. QED
      BY <2>1, <3>1
  <2>4. Evolves(steps, runs, runs')
    BY <1>2, <1>7, <2>2, <2>3, EvolvesMore
  <2>5. Len(runs') = Len(runs) + 1
    <3>1. runs \in Seq(RowRec(steps))
      BY <1>2 DEF RowsFit
    <3>2. QED
      BY <1>7, <2>1, <3>1
  <2>6. Planned(steps, <<Task("advance", Len(runs) + 1, 0, 0)>>, Len(runs'))
    <3> DEFINE n == Len(runs) + 1
    <3>1. n \in Nat /\ n \in 1..Len(runs') /\ Len(runs') \in Nat
      BY <1>2, <2>5
    <3> HIDE DEF n
    <3>2. Planned(steps, <<Task("advance", n, 0, 0)>>, Len(runs'))
      BY <3>1, OneTask
    <3>3. QED
      BY <3>2 DEF n
  <2>7. QED
    BY <1>1, <1>5, <1>7, <2>4, <2>6, RequestStep
<1>8. QED
  BY <1>1, <1>6, <1>7

(* What is driven anew goes on from where it was.                           *)
LEMMA ReissuedTame ==
  ASSUME NEW row \in RowRec(steps), WaitsOpen(steps, row), row.state \in Undecided
  PROVE  RowTame(steps, row, Reissued(row))
<1>1. CASE steps[row.step].kind = "wait"
  <2>1. Reissued(row) = [row EXCEPT !.state = "waiting"] /\ row.state = "waiting"
    BY <1>1 DEF Reissued, WaitsOpen, RowRec
  <2>2. QED
    BY <2>1 DEF RowTame, RowRec, RowState, WaitsOpen, Undecided
<1>2. CASE steps[row.step].kind = "device"
  BY <1>2 DEF Reissued, RowTame, RowRec, RowState, DevState, Live, WaitsOpen, Undecided
<1>3. CASE steps[row.step].kind \notin {"wait", "device"}
  BY <1>3 DEF Reissued, RowTame, RowRec, RowState, WaitsOpen, Undecided
<1>4. QED
  BY <1>1, <1>2, <1>3

(* Instances that are under way go on; what they take over from is over.    *)
LEMMA GoOnEvolves ==
  ASSUME NEW rs, RowsFit(steps, rs), NEW S, \A r \in DOMAIN rs : r \in S => rs[r].state \in Undecided
  PROVE  /\ Evolves(steps, rs, GoOn(rs, S)) /\ Len(GoOn(rs, S)) = Len(rs) /\ DOMAIN GoOn(rs, S) = DOMAIN rs
<1> DEFINE new == GoOn(rs, S)
<1>1. new = [r \in DOMAIN rs |-> new[r]]
  BY Zenon DEF GoOn
<1>2. \A r \in DOMAIN rs :
        \/ r \in S /\ new[r] = Reissued(rs[r])
        \/ new[r] = [rs[r] EXCEPT !.dev = "over"]
        \/ new[r] = rs[r]
  BY Zenon DEF GoOn
<1> HIDE DEF new
<1>3. ASSUME NEW r \in DOMAIN rs PROVE RowTame(steps, rs[r], new[r])
  <2>1. rs[r] \in RowRec(steps) /\ WaitsOpen(steps, rs[r])
    BY RowsTyped
  <2>2. CASE r \in S /\ new[r] = Reissued(rs[r])
    BY <2>1, <2>2, ReissuedTame
  <2>3. CASE new[r] = [rs[r] EXCEPT !.dev = "over"]
    BY <2>1, <2>3 DEF RowTame, RowRec, WaitsOpen, DevState
  <2>4. CASE new[r] = rs[r]
    BY <2>1, <2>4 DEF RowTame
  <2>5. QED
    BY <1>2, <2>2, <2>3, <2>4
<1>4. new \in [DOMAIN rs -> RowRec(steps)]
  BY <1>1, <1>3 DEF RowTame
<1>5. Evolves(steps, rs, new) /\ Len(new) = Len(rs) /\ DOMAIN new = DOMAIN rs
  BY <1>3, <1>4, EvolvesByRow
<1>6. QED
  BY <1>5 DEF new

(* The other branches go on with it.                                        *)
LEMMA OthersEvolve ==
  ASSUME NEW rs, RowsFit(steps, rs), NEW main
  PROVE  Evolves(steps, rs, OthersResumed(rs, main))
<1> DEFINE others == {r \in DOMAIN rs \ {main} : /\ steps[rs[r].step].kind = "device"
                                                 /\ rs[r].dev \notin {"queued", "acting"}}
           waiting == {r \in others : rs[r].state = "pending" /\ ~PlateBusy(rs, r)}
           go == {r \in others : rs[r].state \in {"ready", "running"}} \cup FirstOnPlate(rs, waiting)
<1>1. OthersResumed(rs, main) \in {GoOn(rs, go), rs}
  BY Zenon DEF OthersResumed
<1>2. \A r \in go : rs[r].state \in {"ready", "running", "pending"}
  BY Zenon DEF FirstOnPlate
<1> HIDE DEF go
<1>3. \A r \in go : rs[r].state \in Undecided
  BY <1>2 DEF Undecided
<1>4. Evolves(steps, rs, GoOn(rs, go)) /\ Evolves(steps, rs, rs)
  BY <1>3, GoOnEvolves, EvolvesSame
<1>5. QED
  BY <1>1, <1>4, Zenon

(* What a retry gives up.                                                   *)
LEMMA GivenUpEvolves ==
  ASSUME NEW f, NEW rs, RowsFit(f, rs), NEW main
  PROVE  Evolves(f, rs, [r \in DOMAIN rs |-> IF r \in main THEN GivenUp(rs[r]) ELSE rs[r]])
<1> DEFINE new == [r \in DOMAIN rs |-> IF r \in main THEN GivenUp(rs[r]) ELSE rs[r]]
<1>1. new = [r \in DOMAIN rs |-> new[r]]
  BY Zenon
<1>2. \A r \in DOMAIN rs :
        \/ rs[r].state \in {"ready", "running"} /\ new[r] = [rs[r] EXCEPT !.state = "superseded", !.dev = "over"]
        \/ new[r] = rs[r]
  BY Zenon DEF GivenUp
<1> HIDE DEF new
<1>3. ASSUME NEW r \in DOMAIN rs PROVE RowTame(f, rs[r], new[r])
  <2>1. rs[r] \in RowRec(f) /\ WaitsOpen(f, rs[r])
    BY RowsTyped
  <2>2. CASE rs[r].state \in {"ready", "running"} /\ new[r] = [rs[r] EXCEPT !.state = "superseded", !.dev = "over"]
    BY <2>1, <2>2 DEF RowTame, RowRec, RowState, Void, WaitsOpen, DevState, Undecided
  <2>3. CASE new[r] = rs[r]
    BY <2>1, <2>3 DEF RowTame
  <2>4. QED
    BY <1>2, <2>2, <2>3
<1>4. new \in [DOMAIN rs -> RowRec(f)]
  BY <1>1, <1>3 DEF RowTame
<1>5. Evolves(f, rs, new)
  BY <1>3, <1>4, EvolvesByRow
<1>6. QED
  BY <1>5 DEF new

(* The last of a table is under way, as it has just been opened.            *)
LEMMA OpenedGoesOn ==
  ASSUME FlowInv, NEW rs, RowsFit(steps, rs), SignalsFit(steps, signals, rs), NEW i \in DOMAIN steps, NEW s \in Takes(i)
  PROVE  LET mid == Append(rs, Opening(i, s))
             r == Len(rs) + 1
         IN Evolves(steps, mid, OthersResumed(GoOn(mid, {r}), r))
<1> DEFINE mid == Append(rs, Opening(i, s))
           r == Len(rs) + 1
           more == GoOn(mid, {r})
<1>1. RowsFit(steps, mid) /\ Len(mid) = r
  BY OpeningFits
<1>2. mid[r].state \in Undecided
  <2>1. Opening(i, s) \in RowRec(steps) /\ Opening(i, s).state \in Undecided
    BY OpeningRow
  <2>2. rs \in Seq(RowRec(steps))
    BY DEF RowsFit
  <2>3. QED
    BY <2>1, <2>2
<1> HIDE DEF mid, r
<1>3. Evolves(steps, mid, more)
  BY <1>1, <1>2, GoOnEvolves
<1> HIDE DEF more
<1>4. RowsFit(steps, more)
  BY <1>3 DEF Evolves
<1>5. Evolves(steps, more, OthersResumed(more, r))
  BY <1>4, OthersEvolve
<1>6. Evolves(steps, mid, OthersResumed(more, r))
  BY <1>1, <1>3, <1>5, EvolvesOn
<1>7. QED
  BY <1>6 DEF mid, r, more

(* Recovery goes on with a step, or opens one, or ends the flow.            *)
LEMMA RecoverStep == ASSUME FlowInv, NEW strategy, Recover(strategy) PROVE FlowStep
<1> DEFINE open == OpenRows(runs)
           done == {runs[r].step : r \in {r \in Row : runs[r].state = "completed"}}
           tried == {runs[r].step : r \in {r \in Row : runs[r].state \notin {"completed"} \cup Void}}
           own == FirstOpen({r \in open : runs[r].step = batch.current})
           main == IF ~GraphMode(steps) \/ (own = {} /\ batch.current \in done) THEN FirstOpen(open) ELSE own
           ready == IF GraphMode(steps) /\ main = {} /\ batch.current \in done
                    THEN ReadyAfter(steps, done, tried) ELSE {}
           current == IF ready = {} THEN batch.current ELSE CHOOSE i \in ready : \A j \in ready : i <= j
           pending == GraphMode(steps) /\ main = {} /\ current \notin done
           next == NextOpen(0)
           b == [Restored(batch) EXCEPT !.note = FALSE, !.current = current]
           left == {r \in main : strategy = "retry" /\ runs[r].state \notin {"ready", "running"}}
           End(rs, i) ==
             LET r == Len(rs) + 1 IN
             /\ \E s \in Takes(i) :
                  /\ runs' = OthersResumed(GoOn(Append(rs, Opening(i, s)), {r}), r)
                  /\ Taken(s, r)
             /\ batch' = [b EXCEPT !.current = i, !.left = @ \cup left]
           given == [r \in Row |-> IF r \in main THEN GivenUp(runs[r]) ELSE runs[r]]
           m == CHOOSE r \in main : TRUE
<1>1. Quiet /\ UNCHANGED <<steps, tx, agenda>>
  BY Zenon DEF Recover, Free
<1>2. \/ next = 0 /\ batch' = [b EXCEPT !.state = "done"] /\ UNCHANGED <<runs, events, signals>>
      \/ next # 0 /\ End(runs, next)
      \/ End(given, current)
      \/ /\ main # {} /\ batch' = b /\ UNCHANGED <<events, signals>>
         /\ runs' = OthersResumed(IF runs[m].dev = "acting" THEN runs ELSE GoOn(runs, {m}), m)
  BY Zenon DEF Recover, Opening
<1>3. /\ RowsFit(steps, runs) /\ SignalsFit(steps, signals, runs) /\ Row = DOMAIN runs /\ DOMAIN runs \subseteq Nat
      /\ DOMAIN steps \subseteq Nat /\ batch \in BatchRec(steps) /\ batch.current \in DOMAIN steps
  BY FlowTyped DEF FlowInv, BatchRec
<1>4. main \subseteq DOMAIN runs /\ \A r \in main : runs[r].state \in Undecided
  BY Zenon DEF FirstOpen, OpenRows
<1>5. current \in DOMAIN steps
  <2>1. ready \subseteq DOMAIN steps
    BY FrontierWithin DEF ReadyAfter
  <2> HIDE DEF ready
  <2>2. ASSUME ready # {} PROVE (CHOOSE i \in ready : \A j \in ready : i <= j) \in ready
    <3>1. \E i \in ready : \A j \in ready : i <= j
      BY <1>3, <2>1, <2>2, LeastOne
    <3>2. QED
      BY <3>1, Zenon
  <2>3. QED
    BY <1>3, <2>1, <2>2
<1>6. left \subseteq Nat
  BY <1>3, <1>4
<1> HIDE DEF main, current, left
<1>7. b \in BatchRec(steps)
  <2>1. Restored(batch) \in BatchRec(steps)
    BY <1>3, RestoredFits
  <2>2. QED
    BY <1>5, <2>1 DEF BatchRec
<1> HIDE DEF b
<1>8. AgendaNext
  BY <1>1, StaysQuiet
<1>9. ASSUME NEW rs, Evolves(steps, runs, rs), NEW i \in DOMAIN steps, End(rs, i) PROVE FlowStep
  <2>1. batch' = [b EXCEPT !.current = i, !.left = @ \cup left]
    BY <1>9, Zenon
  <2>2. batch' \in BatchRec(steps)
    BY <1>6, <1>7, <2>1 DEF BatchRec
  <2>3. PICK s \in Takes(i) : runs' = OthersResumed(GoOn(Append(rs, Opening(i, s)), {Len(rs) + 1}), Len(rs) + 1)
                              /\ Taken(s, Len(rs) + 1)
    BY <1>9, Zenon
  <2>4. RowsFit(steps, rs) /\ SignalsFit(steps, signals, rs)
    BY <1>3, <1>9, SignalsStillFit DEF Evolves
  <2>5. Evolves(steps, Append(rs, Opening(i, s)), runs')
    BY <2>3, <2>4, OpenedGoesOn
  <2>6. QED
    BY <1>1, <1>8, <1>9, <2>2, <2>3, <2>5, OpenedStep
<1>10. CASE next = 0 /\ batch' = [b EXCEPT !.state = "done"] /\ UNCHANGED <<runs, events, signals>>
  <2>1. batch' \in BatchRec(steps)
    BY <1>7, <1>10 DEF BatchRec, BatchState, Ended
  <2>2. Evolves(steps, runs, runs')
    BY <1>10, RunsStand
  <2>3. UNCHANGED <<steps, events, signals, tx>>
    BY <1>1, <1>10
  <2>4. QED
    BY <1>8, <2>1, <2>2, <2>3, WritesAtOnce
<1>11. CASE next # 0 /\ End(runs, next)
  <2>1. next \in DOMAIN steps
    BY <1>11, NextOpenFits
  <2>2. Evolves(steps, runs, runs)
    BY <1>3, EvolvesSame
  <2>3. QED
    BY <1>9, <1>11, <2>1, <2>2
<1>12. CASE End(given, current)
  <2>1. Evolves(steps, runs, given)
    BY <1>3, GivenUpEvolves
  <2>2. QED
    BY <1>5, <1>9, <1>12, <2>1
<1>13. CASE /\ main # {} /\ batch' = b /\ UNCHANGED <<events, signals>>
            /\ runs' = OthersResumed(IF runs[m].dev = "acting" THEN runs ELSE GoOn(runs, {m}), m)
  <2> DEFINE mid == IF runs[m].dev = "acting" THEN runs ELSE GoOn(runs, {m})
  <2>1. m \in main
    BY <1>13
  <2>2. Evolves(steps, runs, GoOn(runs, {m})) /\ Evolves(steps, runs, runs)
    BY <1>3, <1>4, <2>1, GoOnEvolves, EvolvesSame
  <2>3. Evolves(steps, runs, mid)
    BY <2>2
  <2> HIDE DEF mid, m
  <2>4. Evolves(steps, mid, OthersResumed(mid, m))
    BY <2>3, OthersEvolve DEF Evolves
  <2>5. Evolves(steps, runs, OthersResumed(mid, m))
    BY <1>3, <2>3, <2>4, EvolvesOn
  <2>6. runs' = OthersResumed(mid, m)
    BY <1>13 DEF mid
  <2>7. Evolves(steps, runs, runs') /\ batch' \in BatchRec(steps) /\ UNCHANGED <<steps, events, signals, tx>>
    BY <1>1, <1>7, <1>13, <2>5, <2>6
  <2>8. QED
    BY <1>8, <2>7, WritesAtOnce
<1>14. QED
  BY <1>2, <1>10, <1>11, <1>12, <1>13

-----------------------------------------------------------------------------
(* Every step keeps the invariant and every conclusion.                     *)

(* What the advancer does by itself.                                        *)
LEMMA AdvancerStep == ASSUME FlowInv, Advancer PROVE FlowStep
  BY BeginStep, RequeueStep, ApplyStep, RetryStep, CrashStep, WaitDueStep, TimeoutStep DEF Advancer

(* What people ask for.                                                     *)
LEMMA PeopleStep == ASSUME FlowInv, People PROVE FlowStep
<1>1. ASSUME NEW s \in Signals, NEW i \in DOMAIN steps, steps[i].event # "", Signal(s, steps[i].event) PROVE FlowStep
  <2>1. steps[i].event \in EventNames(steps)
    BY <1>1 DEF EventNames
  <2>2. QED
    BY <1>1, <2>1, SignalStep
<1>2. RerunTargets \subseteq DOMAIN steps
  BY DEF RerunTargets
<1>3. QED
  BY <1>1, <1>2, StartStep, HoldStep, AbortStep, SubmitManualStep, DecideReviewStep, ResubmitStep, DecideGateStep,
     DecideBranchStep, ConfirmSplitStep, ClearAlarmStep, RecoverStep, SkipStep, RerunFromStep DEF People

(* What devices report.                                                     *)
LEMMA DevicesStep == ASSUME FlowInv, Devices PROVE FlowStep
  BY DeliverStep, DeviceDoneStep, DeviceFailsStep, HoldConfirmedStep, AbortConfirmedStep DEF Devices

(* Every step, whoever takes it.                                            *)
LEMMA NextStep == ASSUME FlowInv, [Next]_vars PROVE FlowStep
<1>1. CASE Next
  BY <1>1, AgendaStep, AdvancerStep, PeopleStep, DevicesStep DEF Next
<1>2. CASE UNCHANGED vars
  <2>1. UNCHANGED <<steps, batch, runs, events, signals, tx, agenda, work>>
    BY <1>2 DEF vars
  <2>2. FlowInv'
    BY <2>1 DEF FlowInv
  <2>3. Keeps(runs, runs')
    <3>1. Len(runs) \in Nat
      BY FlowTyped
    <3>2. QED
      BY <2>1, <3>1 DEF Keeps
  <2>4. QED
    BY <2>2, <2>3 DEF FlowStep
<1>3. QED
  BY <1>1, <1>2

(* What the tables of a flow, the agenda of its transaction and what is left *)
(* of it when it is refused always are, for every flow that is sound.       *)
THEOREM FlowInvariant == Spec => []FlowInv
<1>1. FlowInv /\ [Next]_vars => FlowInv'
  BY NextStep DEF FlowStep
<1>2. QED
  BY <1>1, FlowStart, PTL DEF Spec

(* Every variable of the advancer has the type its columns give it          *)
(* (services/workflow_service.py, services/batch_service.py).               *)
THEOREM FlowTypes == Spec => []TypeOK
<1>1. FlowInv => TypeOK
  <2> SUFFICES ASSUME FlowInv PROVE TypeOK
    OBVIOUS
  <2>1. batch.state \in BatchState /\ batch.current \in DOMAIN steps
    BY DEF FlowInv, BatchRec
  <2>2. \A r \in Row : /\ runs[r].step \in DOMAIN steps /\ runs[r].state \in RowState /\ runs[r].dev \in DevState
    BY FlowTyped DEF RowRec
  <2>3. \A e \in events : e.run \in Row /\ e.state \in EventState
    BY DEF FlowInv, EventsFit, EventRec, Row
  <2>4. \A t \in tx : t.run \in Row
    BY <2>3 DEF FlowInv, TxFits
  <2>5. \A s \in DOMAIN signals : signals[s].by \in 0..Len(runs)
    BY DEF FlowInv, SignalsFit, SignalRec
  <2>6. QED
    BY <2>1, <2>2, <2>3, <2>4, <2>5 DEF TypeOK, BatchState, RowState, DevState, EventState, Ended
<1>2. QED
  BY <1>1, FlowInvariant, PTL

(* can_transition, VOID_STATES: whatever is retried, redone, reworked or    *)
(* repeated, and whichever transaction fails half way, what a person or a   *)
(* device concluded is only ever marked as void.                            *)
THEOREM ConclusionsHold == Spec => ConclusionsStand
<1>1. FlowInv /\ [Next]_vars =>
        [(work # << >> /\ runs' = work.runs) \/ \A r \in Row :
           runs[r].state \notin Undecided /\ r \in DOMAIN runs' => runs'[r].state \in {runs[r].state, "superseded"}]_vars
  <2> SUFFICES ASSUME FlowInv, [Next]_vars
               PROVE  (work # << >> /\ runs' = work.runs) \/ \A r \in Row :
                        runs[r].state \notin Undecided /\ r \in DOMAIN runs'
                          => runs'[r].state \in {runs[r].state, "superseded"}
    OBVIOUS
  <2>1. FlowStep /\ Row = DOMAIN runs
    BY NextStep, FlowTyped
  <2>2. QED
    BY <2>1 DEF FlowStep, Keeps
<1>2. QED
  BY <1>1, FlowInvariant, PTL DEF Spec, ConclusionsStand

(* signal, _consume_early_signal: a signal wakes one waiting step, and no   *)
(* step goes on waiting for a signal that has come and woken nobody,        *)
(* whichever of the two is first and however many steps wait.               *)
THEOREM NoSignalIsMissed == Spec => []NoMissedSignal
<1>1. FlowInv => NoMissedSignal
  <2> SUFFICES ASSUME FlowInv PROVE NoMissedSignal
    OBVIOUS
  <2>1. /\ \A s \in DOMAIN signals : signals[s].by # 0 => runs[signals[s].by].signal = s
        /\ \A s \in DOMAIN signals : signals[s].by = 0 => \A r \in DOMAIN runs : ~Awaits(steps, runs[r], signals[s].name)
    BY DEF FlowInv, SignalsFit
  <2>2. \A s, u \in DOMAIN signals : signals[s].by = signals[u].by /\ signals[s].by # 0 => s = u
    BY <2>1
  <2>3. \A s \in DOMAIN signals : signals[s].by = 0 => WaitsFor(signals[s].name) = {}
    BY <2>1, FlowTyped DEF WaitsFor, Awaits, Kind, StepOf
  <2>4. QED
    BY <2>2, <2>3 DEF NoMissedSignal
<1>2. QED
  BY <1>1, FlowInvariant, PTL

=============================================================================
