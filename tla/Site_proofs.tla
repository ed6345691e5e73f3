---------------------------- MODULE Site_proofs ----------------------------
(***************************************************************************)
(* The safety of what runs beside the flow of the batches, for any number  *)
(* of replicas, commands, requests, deliveries, plates and places and any  *)
(* bound on what goes wrong: one process works at a time (Leadership), one *)
(* key has one effect (Requests), no event gets lost (Outbox) and the      *)
(* plates are where the books say (Transfers).  Each part has an inductive *)
(* invariant; the parts share no state, so a step of another part leaves   *)
(* it alone.                                                               *)
(***************************************************************************)
EXTENDS MCSite, FiniteSets, TLAPS

-----------------------------------------------------------------------------
(* Leadership.  Of two replicas that have got the lock at some time and are *)
(* still there, one is in its grace period and the other has lost the lock: *)
(* what is left of the grace outlasts what the watchdog of the other needs. *)

Jobs == {"submitted", "may_claim", "claimed", "called", "may_settle"}
LeaderTyped ==
  /\ holder \in Replica \cup {None}
  /\ proc \in [Replica -> {"down", "standby", "grace", "leading"}]
  /\ age \in [Replica -> Nat] /\ wait \in [Replica -> Nat]
  /\ job \in [Replica -> [cmd : Command \cup {None}, at : Jobs \cup {"none"}]]
  /\ cmds \in [Command -> {"queued", "maybe", "done", "unknown"}]
  /\ taken \in [Command -> Nat]
HasLed(n) == proc[n] \in {"grace", "leading"}
HolderHasLed == holder # None => HasLed(holder)
Noticed == \A n \in Replica : HasLed(n) =>
  IF holder = n THEN age[n] = 0 ELSE age[n] <= Executor!LeaseCheck
WaitsFor(n, m) ==
  proc[n] = "grace" /\ holder # m /\ wait[n] >= Executor!TakeoverGrace - age[m]
GraceOutlasts == \A n, m \in Replica : n # m /\ HasLed(n) /\ HasLed(m) =>
  WaitsFor(n, m) \/ WaitsFor(m, n)
WorksAsLeader == \A n \in Replica :
  job[n] # Executor!NoJob => proc[n] = "leading" /\ job[n].cmd \in Command /\ job[n].at \in Jobs
CommandOf == \A n \in Replica :
  /\ job[n].at \in {"submitted", "may_claim"} => cmds[job[n].cmd] = "queued"
  /\ job[n].at = "claimed" => cmds[job[n].cmd] = "maybe" /\ taken[job[n].cmd] = 0
TakenAfterMark == \A c \in Command :
  /\ taken[c] <= 1
  /\ cmds[c] = "queued" => taken[c] = 0
LeaderInv ==
  /\ LeaderTyped /\ HolderHasLed /\ Noticed /\ GraceOutlasts
  /\ WorksAsLeader /\ CommandOf /\ TakenAfterMark

(* It holds at the start.                                                   *)
LEMMA LeaderStart == ASSUME Executor!Init PROVE LeaderInv
<1> USE DEF Executor!Init, Executor!NoJob
<1>1. LeaderTyped
  BY DEF LeaderTyped
<1>2. \A n \in Replica : ~HasLed(n) /\ job[n] = Executor!NoJob
  BY DEF HasLed
<1>3. QED
  BY <1>1, <1>2 DEF LeaderInv, HolderHasLed, Noticed, GraceOutlasts, WorksAsLeader, CommandOf,
     TakenAfterMark

(* Where the invariant holds, the jobs are those of the one replica that    *)
(* leads, and no other has led before it.                                   *)
LEMMA OneWorks ==
  ASSUME LeaderInv, NEW n \in Replica, NEW m \in Replica, n # m, proc[n] = "leading"
  PROVE  job[m] = Executor!NoJob
<1>1. ~(proc[m] = "leading")
  BY DEF LeaderInv, GraceOutlasts, HasLed, WaitsFor
<1>2. QED
  BY <1>1 DEF LeaderInv, WorksAsLeader

(* The steps of a job leave the leadership alone.                           *)
LEMMA LeaderKeepsOn ==
  ASSUME LeaderInv, UNCHANGED <<holder, proc, age, wait>>
  PROVE  HolderHasLed' /\ Noticed' /\ GraceOutlasts'
  BY DEF LeaderInv, HolderHasLed, Noticed, GraceOutlasts, HasLed, WaitsFor

(* The steps that change who leads leave the jobs alone, but for those of a *)
(* process that ends.                                                       *)
LEMMA JobsGoOn ==
  ASSUME LeaderInv, LeaderTyped', UNCHANGED <<cmds, taken>>,
         \A n \in Replica : \/ job'[n] = job[n] /\ (proc[n] = "leading" => proc'[n] = "leading")
                            \/ job'[n] = Executor!NoJob
  PROVE  WorksAsLeader' /\ CommandOf' /\ TakenAfterMark'
  BY DEF LeaderInv, WorksAsLeader, CommandOf, TakenAfterMark, Executor!NoJob

(* A process that ends frees the lock it held.                              *)
LEMMA ProcessEnds ==
  ASSUME LeaderInv, NEW n \in Replica, Executor!Exits(n), UNCHANGED <<age, wait, cmds, taken>>
  PROVE  LeaderInv'
<1> USE NoneIsNothing DEF Executor!Exits, Executor!FreedBy, Executor!NoJob, LeaderInv
<1>1. LeaderTyped'
  BY DEF LeaderTyped
<1>2. HolderHasLed' /\ Noticed'
  BY DEF LeaderTyped, HolderHasLed, Noticed, HasLed
<1>3. GraceOutlasts'
  BY DEF LeaderTyped, GraceOutlasts, WaitsFor, HasLed
<1>4. WorksAsLeader' /\ CommandOf' /\ TakenAfterMark'
  BY <1>1, JobsGoOn DEF LeaderTyped
<1>5. QED
  BY <1>1, <1>2, <1>3, <1>4

(* Every step keeps the invariant of the leadership.                        *)
LEMMA LeaderStep == ASSUME LeaderInv, Executor!Next PROVE LeaderInv'
<1> USE NoneIsNothing DEF LeaderInv
<1>1. CASE Executor!Tick
  <2> USE DEF Executor!Tick, Executor!Former, Executor!LeaseCheck
  <2>1. LeaderTyped'
    BY <1>1 DEF LeaderTyped
  <2>2. HolderHasLed' /\ Noticed'
    BY <1>1 DEF LeaderTyped, HolderHasLed, Noticed, HasLed
  <2>3. GraceOutlasts'
    BY <1>1 DEF LeaderTyped, Noticed, GraceOutlasts, WaitsFor, HasLed, Executor!TakeoverGrace
  <2>4. QED
    BY <1>1, <2>1, <2>2, <2>3, JobsGoOn
<1>2. ASSUME NEW n \in Replica, Executor!Acquire(n) PROVE LeaderInv'
  <2> USE <1>2 DEF Executor!Acquire, Executor!LeaseCheck
  <2>1. LeaderTyped'
    BY DEF LeaderTyped, Executor!TakeoverGrace
  <2>2. HolderHasLed' /\ Noticed'
    BY DEF LeaderTyped, HolderHasLed, Noticed, HasLed
  <2>3. GraceOutlasts'
    BY DEF LeaderTyped, GraceOutlasts, WaitsFor, HasLed, Executor!TakeoverGrace
  <2>4. QED
    BY <2>1, <2>2, <2>3, JobsGoOn DEF LeaderTyped
<1>3. ASSUME NEW n \in Replica, Executor!TakeOver(n) PROVE LeaderInv'
  <2> USE <1>3 DEF Executor!TakeOver
  <2>1. LeaderTyped'
    BY DEF LeaderTyped
  <2>2. HolderHasLed' /\ Noticed'
    BY DEF LeaderTyped, HolderHasLed, Noticed, HasLed
  <2>3. GraceOutlasts'
    BY DEF LeaderTyped, GraceOutlasts, Noticed, WaitsFor, HasLed, Executor!TakeoverGrace,
       Executor!LeaseCheck
  <2>4. QED
    BY <2>1, <2>2, <2>3, JobsGoOn DEF LeaderTyped
<1>4. ASSUME NEW n \in Replica, Executor!LoseLock(n) PROVE LeaderInv'
  <2> USE <1>4 DEF Executor!LoseLock
  <2>1. LeaderTyped'
    BY DEF LeaderTyped
  <2>2. HolderHasLed' /\ Noticed'
    BY DEF LeaderTyped, HolderHasLed, Noticed, HasLed, Executor!LeaseCheck
  <2>3. GraceOutlasts'
    BY DEF LeaderTyped, GraceOutlasts, WaitsFor, HasLed
  <2>4. QED
    BY <2>1, <2>2, <2>3, JobsGoOn DEF LeaderTyped
<1>5. ASSUME NEW n \in Replica, Executor!Watch(n) \/ Executor!Crash(n) PROVE LeaderInv'
  BY <1>5, ProcessEnds DEF Executor!Watch, Executor!Crash
<1>6. ASSUME NEW n \in Replica, Executor!Restart(n) PROVE LeaderInv'
  <2> USE <1>6 DEF Executor!Restart
  <2>1. LeaderTyped'
    BY DEF LeaderTyped
  <2>2. HolderHasLed' /\ Noticed'
    BY DEF LeaderTyped, HolderHasLed, Noticed, HasLed
  <2>3. GraceOutlasts'
    BY DEF LeaderTyped, GraceOutlasts, WaitsFor, HasLed
  <2>4. QED
    BY <2>1, <2>2, <2>3, JobsGoOn DEF LeaderTyped
<1>7. ASSUME NEW n \in Replica, NEW c \in Command, Executor!Submit(n, c) PROVE LeaderInv'
  <2> USE <1>7 DEF Executor!Submit
  <2>1. LeaderTyped'
    BY DEF LeaderTyped, Jobs
  <2>2. WorksAsLeader' /\ CommandOf' /\ TakenAfterMark'
    BY DEF LeaderTyped, WorksAsLeader, CommandOf, TakenAfterMark, Executor!NoJob, Jobs
  <2>3. QED
    BY <2>1, <2>2, LeaderKeepsOn
<1>8. ASSUME NEW n \in Replica, Executor!BeforeClaim(n) \/ Executor!BeforeReceipt(n) PROVE LeaderInv'
  <2> USE <1>8 DEF Executor!BeforeClaim, Executor!BeforeReceipt, Executor!Verify, Executor!NoJob, Jobs
  <2>1. LeaderTyped'
    BY DEF LeaderTyped
  <2>2. WorksAsLeader' /\ CommandOf' /\ TakenAfterMark'
    BY DEF LeaderTyped, WorksAsLeader, CommandOf, TakenAfterMark
  <2>3. QED
    BY <2>1, <2>2, LeaderKeepsOn
<1>9. ASSUME NEW n \in Replica, Executor!Claim(n) \/ Executor!Call(n) \/ Executor!Settle(n)
      PROVE  LeaderInv'
  <2> USE <1>9 DEF Executor!Claim, Executor!Call, Executor!Settle, Executor!Marked, Executor!NoJob, Jobs
  <2>1. job[n] # Executor!NoJob /\ job[n].cmd \in Command /\ proc[n] = "leading"
    BY DEF WorksAsLeader
  <2>2. \A m \in Replica : m # n => job[m] = Executor!NoJob
    BY <2>1, OneWorks
  <2>3. LeaderTyped'
    <3>1. CASE Executor!Claim(n)
      BY <2>1, <3>1 DEF LeaderTyped
    <3>2. CASE Executor!Call(n)
      BY <2>1, <3>2 DEF LeaderTyped
    <3>3. CASE Executor!Settle(n)
      BY <2>1, <3>3 DEF LeaderTyped
    <3>4. QED
      BY <3>1, <3>2, <3>3
  <2>4. WorksAsLeader' /\ CommandOf' /\ TakenAfterMark'
    BY <2>1, <2>2 DEF LeaderTyped, WorksAsLeader, CommandOf, TakenAfterMark
  <2>5. QED
    BY <2>3, <2>4, LeaderKeepsOn
<1>10. ASSUME NEW n \in Replica, NEW c \in Command, Executor!Reconcile(n, c) PROVE LeaderInv'
  <2> USE <1>10 DEF Executor!Reconcile
  <2>1. \A m \in Replica : job[m] = Executor!NoJob
    BY OneWorks
  <2>2. LeaderTyped'
    BY DEF LeaderTyped
  <2>3. WorksAsLeader' /\ CommandOf' /\ TakenAfterMark'
    BY <2>1 DEF LeaderTyped, WorksAsLeader, CommandOf, TakenAfterMark, Executor!NoJob
  <2>4. QED
    BY <2>2, <2>3, LeaderKeepsOn
<1>11. QED
  BY <1>1, <1>2, <1>3, <1>4, <1>5, <1>6, <1>7, <1>8, <1>9, <1>10 DEF Executor!Next

-----------------------------------------------------------------------------
(* Requests.  What a request has done so far is as whole as its place in   *)
(* the sequence of steps says, its commits are held back until the record  *)
(* is written, and an answer is what the record says.                      *)

Main(nested)  == [what |-> "main", nested |-> nested]
Inner(nested) == [what |-> "inner", nested |-> nested]
Stages == {"idle", "known", "waits", "locked", "working", "served", "nested", "ready", "ending"}
DoneAt(r) ==
  CASE r.at = "served" -> r.work = {Main(FALSE)}
    [] r.at = "nested" -> r.work = {Main(FALSE), Inner(TRUE)}
    [] r.at = "ready"  -> r.work \in {{Main(FALSE)}, {Main(FALSE), Inner(FALSE)}}
    [] OTHER -> r.work = {}
Entries == [what : {"main", "inner"}, nested : BOOLEAN]
Served  == [at : Stages, body : Body \cup {None}, conns : Nat, defer : BOOLEAN,
            work : SUBSET Entries, events : SUBSET Entries, reply : Body \cup {None}]
HeldBack(r) ==
  /\ DoneAt(r) /\ r.events = r.work
  /\ r.at \in {"working", "served", "nested", "ready"} => r.defer
  /\ r.at # "idle" => r.body \in Body
Agrees(r) == r.reply # None => r.reply = record /\ r.body = record
RequestTyped == req \in [Handler -> Served] /\ record \in Body \cup {None}
                /\ request_answers \subseteq [asked : Body, told : Body]
WorkHeldBack == \A h \in Handler : HeldBack(req[h])
RepliesAgree == \A h \in Handler : Agrees(req[h])
OneCommit ==
  /\ outbox = changes
  /\ record = None => changes = <<>>
  /\ record # None => changes \in {<<{Main(FALSE)}>>, <<{Main(FALSE), Inner(FALSE)}>>}
RequestInv ==
  RequestTyped /\ WorkHeldBack /\ RepliesAgree /\ OneCommit /\ Request!AnswersAgree

(* It holds at the start.                                                   *)
LEMMA RequestStart == ASSUME Request!Init PROVE RequestInv
<1> USE NoneIsNothing DEF Request!Init, Request!Idle
<1>1. RequestTyped
  BY DEF RequestTyped, Served, Stages
<1>2. WorkHeldBack /\ RepliesAgree
  BY DEF WorkHeldBack, HeldBack, DoneAt, RepliesAgree, Agrees
<1>3. OneCommit /\ Request!AnswersAgree
  BY DEF OneCommit, Request!AnswersAgree
<1>4. QED
  BY <1>1, <1>2, <1>3 DEF RequestInv

(* One request moves on and nothing is committed: what is to be shown is    *)
(* about this request.                                                      *)
LEMMA OneMovesOn ==
  ASSUME RequestInv, UNCHANGED <<record, changes, outbox, request_answers>>,
         NEW h \in Handler, NEW r \in Served, req' = [req EXCEPT ![h] = r], HeldBack(r), Agrees(r)
  PROVE  RequestInv'
<1> USE DEF RequestInv
<1>1. /\ \A g \in Handler : req'[g] = IF g = h THEN r ELSE req[g]
      /\ RequestTyped'
  BY DEF RequestTyped
<1>2. ASSUME NEW g \in Handler PROVE HeldBack(req[g])' /\ Agrees(req[g])'
  <2>1. CASE g = h
    BY <1>1, <2>1 DEF HeldBack, DoneAt, Agrees
  <2>2. CASE g # h
    BY <1>1, <2>2 DEF WorkHeldBack, RepliesAgree, HeldBack, DoneAt, Agrees
  <2>3. QED
    BY <2>1, <2>2
<1>3. OneCommit' /\ Request!AnswersAgree'
  BY DEF OneCommit, Request!AnswersAgree
<1>4. QED
  BY <1>1, <1>2, <1>3 DEF WorkHeldBack, RepliesAgree

(* What the invariant says of one request.                                  *)
LEMMA RequestNow ==
  ASSUME RequestInv, NEW h \in Handler
  PROVE  req[h] \in Served /\ HeldBack(req[h]) /\ Agrees(req[h])
BY DEF RequestInv, RequestTyped, WorkHeldBack, RepliesAgree

(* What a request may have done.                                            *)
LEMMA WorkTyped ==
  /\ {Main(FALSE)} \in SUBSET Entries
  /\ {Main(FALSE), Inner(TRUE)} \in SUBSET Entries
  /\ {Main(FALSE), Inner(FALSE)} \in SUBSET Entries
BY DEF Entries, Main, Inner

(* A request at a stage of its work, with what it has done until then.      *)
Stage(r, at, work, before) ==
  /\ r.at = at /\ r.work = work /\ r.events = work /\ r.defer
  /\ r.body = before.body /\ r.reply = before.reply

(* What it has done is still held back.                                     *)
LEMMA StageHolds ==
  ASSUME NEW before \in Served, HeldBack(before), Agrees(before), before.at # "idle",
         NEW r, NEW at, NEW work, Stage(r, at, work, before),
         \/ at = "served" /\ work = {Main(FALSE)}
         \/ at = "nested" /\ work = {Main(FALSE), Inner(TRUE)}
         \/ at = "ready" /\ work \in {{Main(FALSE)}, {Main(FALSE), Inner(FALSE)}}
  PROVE  HeldBack(r) /\ Agrees(r)
BY DEF Stage, HeldBack, DoneAt, Agrees

(* A request has ended, whatever has become of it.                          *)
LEMMA BackToWaiting ==
  ASSUME RequestInv, UNCHANGED <<record, changes, outbox>>, NEW h \in Handler,
         req' = [req EXCEPT ![h] = Request!Idle], Request!AnswersAgree',
         request_answers' \subseteq [asked : Body, told : Body]
  PROVE  RequestInv'
<1> USE NoneIsNothing
<1>1. Request!Idle \in Served /\ HeldBack(Request!Idle) /\ Agrees(Request!Idle)
  BY DEF Request!Idle, Served, Stages, HeldBack, DoneAt, Agrees
<1>2. req \in [Handler -> Served] /\ record \in Body \cup {None}
  BY DEF RequestInv, RequestTyped
<1>3. RequestTyped' /\ \A g \in Handler : req'[g] = IF g = h THEN Request!Idle ELSE req[g]
  BY <1>1, <1>2 DEF RequestTyped
<1>4. ASSUME NEW g \in Handler PROVE HeldBack(req[g])' /\ Agrees(req[g])'
  <2>1. CASE g = h
    BY <1>1, <1>3, <2>1 DEF HeldBack, DoneAt, Agrees
  <2>2. CASE g # h
    BY <1>3, <2>2, ZenonT(60) DEF RequestInv, WorkHeldBack, RepliesAgree, HeldBack, DoneAt, Agrees
  <2>3. QED
    BY <2>1, <2>2
<1>5. OneCommit'
  BY DEF RequestInv, OneCommit
<1>6. QED
  BY <1>3, <1>4, <1>5 DEF RequestInv, WorkHeldBack, RepliesAgree

(* Every step keeps the invariant of the requests.                          *)
LEMMA RequestStep == ASSUME RequestInv, Request!Next PROVE RequestInv'
<1> USE NoneIsNothing
<1>1. ASSUME NEW h \in Handler, NEW b \in Body, Request!Arrive(h, b) PROVE RequestInv'
  <2> DEFINE r == [Request!Idle EXCEPT !.at = "known", !.body = b, !.conns = 1]
  <2>1. req[h] \in Served /\ HeldBack(req[h]) /\ Agrees(req[h])
    BY RequestNow
  <2>2. r \in Served /\ HeldBack(r) /\ Agrees(r)
    BY <1>1, <2>1 DEF Request!Arrive, Request!Step, Request!Idle, Served, Entries, Stages, HeldBack, DoneAt, Agrees, Main, Inner
  <2>3. QED
    BY <1>1, <2>1, <2>2, OneMovesOn DEF Request!Arrive, Request!Step, Request!Idle, Request!Same
<1>2. ASSUME NEW h \in Handler, Request!Connect(h) PROVE RequestInv'
  <2> DEFINE r == [req[h] EXCEPT !.at = "waits", !.conns = 2]
  <2>1. req[h] \in Served /\ HeldBack(req[h]) /\ Agrees(req[h])
    BY RequestNow
  <2>2. r \in Served /\ HeldBack(r) /\ Agrees(r)
    BY <1>2, <2>1 DEF Request!Connect, Request!Step, Served, Entries, Stages, HeldBack, DoneAt, Agrees, Main, Inner
  <2>3. QED
    BY <1>2, <2>1, <2>2, OneMovesOn DEF Request!Connect, Request!Step, Request!Same
<1>3. ASSUME NEW h \in Handler, Request!PoolTimeout(h) PROVE RequestInv'
  <2> DEFINE r == [req[h] EXCEPT !.at = "ending"]
  <2>1. req[h] \in Served /\ HeldBack(req[h]) /\ Agrees(req[h])
    BY RequestNow
  <2>2. r \in Served /\ HeldBack(r) /\ Agrees(r)
    BY <1>3, <2>1 DEF Request!PoolTimeout, Request!GivesUp, Served, Entries, Stages, HeldBack, DoneAt, Agrees, Main, Inner
  <2>3. QED
    BY <1>3, <2>1, <2>2, OneMovesOn DEF Request!PoolTimeout, Request!GivesUp, Request!Same
<1>4. ASSUME NEW h \in Handler, Request!AcquireLock(h) PROVE RequestInv'
  <2> DEFINE r == [req[h] EXCEPT !.at = "locked"]
  <2>1. req[h] \in Served /\ HeldBack(req[h]) /\ Agrees(req[h])
    BY RequestNow
  <2>2. r \in Served /\ HeldBack(r) /\ Agrees(r)
    BY <1>4, <2>1 DEF Request!AcquireLock, Request!Step, Served, Entries, Stages, HeldBack, DoneAt, Agrees, Main, Inner
  <2>3. QED
    BY <1>4, <2>1, <2>2, OneMovesOn DEF Request!AcquireLock, Request!Step, Request!Same
<1>5. ASSUME NEW h \in Handler, Request!Replay(h) PROVE RequestInv'
  <2> DEFINE r == IF record = None THEN [req[h] EXCEPT !.at = "working", !.defer = TRUE]
                  ELSE [req[h] EXCEPT !.at = "ending",
                                      !.reply = IF Request!Conflicts(h) THEN None ELSE record]
  <2>1. req[h] \in Served /\ HeldBack(req[h]) /\ Agrees(req[h]) /\ record \in Body \cup {None}
    BY RequestNow DEF RequestInv, RequestTyped
  <2>2. r \in Served /\ HeldBack(r) /\ Agrees(r)
    BY <1>5, <2>1 DEF Request!Replay, Request!Step, Request!Conflicts, Served, Entries, Stages,
       HeldBack, DoneAt, Agrees
  <2>3. QED
    BY <1>5, <2>1, <2>2, OneMovesOn DEF Request!Replay, Request!Step, Request!Same
<1>6. ASSUME NEW h \in Handler, Request!Serve(h) PROVE RequestInv'
  <2> DEFINE r == [Request!Did(req[h], "main", FALSE) EXCEPT !.at = "served"]
  <2>1. req[h] \in Served /\ HeldBack(req[h]) /\ Agrees(req[h])
    BY RequestNow
  <2>2. req[h].defer /\ req[h].work = {} /\ req[h].events = {} /\ req[h].at = "working"
    BY <1>6, <2>1 DEF Request!Serve, HeldBack, DoneAt
  <2>3. r \in Served /\ Stage(r, "served", {Main(FALSE)}, req[h])
    <3>1. Request!Did(req[h], "main", FALSE)
            = [req[h] EXCEPT !.work = {Main(FALSE)}, !.events = {Main(FALSE)}]
      <4>1. /\ {Main(FALSE)} = req[h].work \cup {[what |-> "main", nested |-> FALSE]}
            /\ {Main(FALSE)} = req[h].events \cup {[what |-> "main", nested |-> FALSE]}
        BY <2>2 DEF Main
      <4>2. QED
        BY <2>1, <4>1 DEF Request!Did, Served
    <3>2. QED
      BY <2>1, <2>2, <3>1, WorkTyped DEF Stage, Served, Stages
  <2>4. HeldBack(r) /\ Agrees(r)
    BY <2>1, <2>2, <2>3, StageHolds
  <2>5. QED
    BY <1>6, <2>3, <2>4, OneMovesOn DEF Request!Serve, Request!ServiceCommit, Request!Same, Stage
<1>7. ASSUME NEW h \in Handler, Request!OpenSavepoint(h) PROVE RequestInv'
  <2> DEFINE r == [Request!Did(req[h], "inner", TRUE) EXCEPT !.at = "nested"]
  <2>1. req[h] \in Served /\ HeldBack(req[h]) /\ Agrees(req[h])
    BY RequestNow
  <2>2. /\ req[h].at = "served" /\ req[h].work = {Main(FALSE)} /\ req[h].events = {Main(FALSE)}
        /\ req[h].defer
    BY <1>7, <2>1 DEF Request!OpenSavepoint, Request!Step, HeldBack, DoneAt
  <2>3. r \in Served /\ Stage(r, "nested", {Main(FALSE), Inner(TRUE)}, req[h])
    <3>1. Request!Did(req[h], "inner", TRUE)
            = [req[h] EXCEPT !.work = {Main(FALSE), Inner(TRUE)}, !.events = {Main(FALSE), Inner(TRUE)}]
      <4>1. /\ {Main(FALSE), Inner(TRUE)} = req[h].work \cup {[what |-> "inner", nested |-> TRUE]}
            /\ {Main(FALSE), Inner(TRUE)} = req[h].events \cup {[what |-> "inner", nested |-> TRUE]}
        BY <2>2 DEF Inner
      <4>2. QED
        BY <2>1, <4>1 DEF Request!Did, Served
    <3>2. QED
      BY <2>1, <2>2, <3>1, WorkTyped DEF Stage, Served, Stages
  <2>8. HeldBack(r) /\ Agrees(r)
    BY <2>1, <2>2, <2>3, StageHolds
  <2>9. QED
    BY <1>7, <2>1, <2>3, <2>8, OneMovesOn DEF Request!OpenSavepoint, Request!Step, Request!Same
<1>8. ASSUME NEW h \in Handler, Request!RollbackSavepoint(h) PROVE RequestInv'
  <2> DEFINE r == [req[h] EXCEPT !.at = "ready", !.work = {e \in @ : ~e.nested},
                               !.events = Request!Discarded(@)]
  <2>1. req[h] \in Served /\ HeldBack(req[h]) /\ Agrees(req[h])
    BY RequestNow
  <2>2. /\ req[h].at = "nested" /\ req[h].work = {Main(FALSE), Inner(TRUE)}
        /\ req[h].events = {Main(FALSE), Inner(TRUE)} /\ req[h].defer
    BY <1>8, <2>1 DEF Request!RollbackSavepoint, Request!Step, HeldBack, DoneAt
  <2>3. {e \in {Main(FALSE), Inner(TRUE)} : ~e.nested} = {Main(FALSE)}
    BY DEF Main, Inner
  <2>4. r \in Served /\ Stage(r, "ready", {Main(FALSE)}, req[h])
    BY <2>1, <2>2, <2>3 DEF Request!Discarded, Stage, Served, Entries, Stages, Main
  <2>8. HeldBack(r) /\ Agrees(r)
    BY <2>1, <2>2, <2>4, StageHolds
  <2>9. QED
    BY <1>8, <2>1, <2>4, <2>8, OneMovesOn DEF Request!RollbackSavepoint, Request!Step, Request!Discarded, Request!Same
<1>9. ASSUME NEW h \in Handler, Request!ReleaseSavepoint(h) PROVE RequestInv'
  <2> DEFINE r == [req[h] EXCEPT !.at = "ready", !.work = Request!Outer(@),
                               !.events = Request!Outer(@)]
  <2>1. req[h] \in Served /\ HeldBack(req[h]) /\ Agrees(req[h])
    BY RequestNow
  <2>2. /\ req[h].at = "nested" /\ req[h].work = {Main(FALSE), Inner(TRUE)}
        /\ req[h].events = {Main(FALSE), Inner(TRUE)} /\ req[h].defer
    BY <1>9, <2>1 DEF Request!ReleaseSavepoint, Request!Step, HeldBack, DoneAt
  <2>3. Request!Outer({Main(FALSE), Inner(TRUE)}) = {Main(FALSE), Inner(FALSE)}
    BY DEF Request!Outer, Main, Inner
  <2>4. r \in Served /\ Stage(r, "ready", {Main(FALSE), Inner(FALSE)}, req[h])
    BY <2>1, <2>2, <2>3, WorkTyped DEF Stage, Served, Stages
  <2>8. HeldBack(r) /\ Agrees(r)
    BY <2>1, <2>2, <2>4, StageHolds
  <2>9. QED
    BY <1>9, <2>1, <2>4, <2>8, OneMovesOn DEF Request!ReleaseSavepoint, Request!Step, Request!Same
<1>10. ASSUME NEW h \in Handler, Request!Abort(h) PROVE RequestInv'
  <2> DEFINE r == Request!Rollback(req[h])
  <2>1. req[h] \in Served /\ HeldBack(req[h]) /\ Agrees(req[h])
    BY RequestNow
  <2>2. r \in Served /\ HeldBack(r) /\ Agrees(r)
    BY <1>10, <2>1 DEF Request!Abort, Request!Rollback, Served, Entries, Stages, HeldBack, DoneAt, Agrees, Main, Inner
  <2>3. QED
    BY <1>10, <2>1, <2>2, OneMovesOn DEF Request!Abort, Request!Rollback, Request!Same
<1>11. ASSUME NEW h \in Handler, Request!Remember(h) PROVE RequestInv'
  <2> DEFINE r == [Request!Rollback(req[h]) EXCEPT !.reply = req[h].body]
  <2>1. req[h] \in Served /\ HeldBack(req[h]) /\ Agrees(req[h])
    BY RequestNow
  <2>2. CASE record # None
    <3>1. Request!Rollback(req[h]) \in Served /\ HeldBack(Request!Rollback(req[h]))
          /\ Agrees(Request!Rollback(req[h]))
      BY <1>11, <2>1 DEF Request!Remember, Request!Rollback, Served, Entries, Stages, HeldBack, DoneAt, Agrees
    <3>2. QED
      BY <1>11, <2>2, <3>1, OneMovesOn DEF Request!Remember
  <2>3. CASE record = None
    <3> USE <1>11, <2>3 DEF Request!Remember
    <3>1. /\ req[h].body \in Body /\ req[h].events = req[h].work
          /\ req[h].work \in {{Main(FALSE)}, {Main(FALSE), Inner(FALSE)}}
      BY <2>1 DEF HeldBack, DoneAt
    <3>2. r \in Served /\ HeldBack(r) /\ r.reply = req[h].body /\ r.body = req[h].body
      BY <2>1, <3>1 DEF Request!Rollback, Served, Stages, HeldBack, DoneAt
    <3>3. /\ req \in [Handler -> Served] /\ req' = [req EXCEPT ![h] = r]
          /\ record' = req[h].body /\ record' # None
      BY <3>1 DEF RequestInv, RequestTyped
    <3>4. \A g \in Handler : req'[g] = IF g = h THEN r ELSE req[g]
      BY <3>3
    <3>5. RequestTyped'
      BY <3>1, <3>2, <3>3 DEF RequestInv, RequestTyped
    <3>6. ASSUME NEW g \in Handler PROVE HeldBack(req[g])' /\ Agrees(req[g])'
      <4>1. CASE g = h
        BY <3>2, <3>3, <3>4, <4>1 DEF HeldBack, DoneAt, Agrees
      <4>2. CASE g # h
        BY <3>3, <3>4, <4>2 DEF RequestInv, WorkHeldBack, RepliesAgree, HeldBack, DoneAt, Agrees,
           RequestTyped, Served
      <4>3. QED
        BY <4>1, <4>2
    <3>7. OneCommit'
      <4>1. changes = <<>> /\ outbox = <<>>
        BY DEF RequestInv, OneCommit
      <4>2. changes' = <<req[h].work>> /\ outbox' = changes'
        BY <3>1, <4>1
      <4>3. QED
        BY <3>1, <3>3, <4>2 DEF OneCommit
    <3>8. Request!AnswersAgree'
      <4>1. request_answers = {}
        BY DEF RequestInv, RequestTyped, Request!AnswersAgree
      <4>2. QED
        BY <4>1 DEF Request!AnswersAgree
    <3>9. QED
      BY <3>5, <3>6, <3>7, <3>8 DEF RequestInv, WorkHeldBack, RepliesAgree
  <2>4. QED
    BY <2>2, <2>3
<1>12. ASSUME NEW h \in Handler, NEW arrives \in BOOLEAN, Request!Answer(h, arrives)
       PROVE  RequestInv'
  <2> USE <1>12 DEF Request!Answer, Request!Step
  <2>1. req[h] \in Served /\ HeldBack(req[h]) /\ Agrees(req[h])
    BY RequestNow
  <2>2. \A a \in request_answers' \ request_answers :
          a \in [asked : Body, told : Body] /\ a.asked = record /\ a.told = record
    BY <2>1 DEF Agrees, HeldBack, Served
  <2>3. Request!AnswersAgree' /\ request_answers' \subseteq [asked : Body, told : Body]
    BY <2>2 DEF Request!AnswersAgree, RequestInv, RequestTyped
  <2>4. QED
    BY <2>3, BackToWaiting
<1>13. ASSUME NEW h \in Handler, Request!LoseLock(h) PROVE RequestInv'
  BY <1>13 DEF Request!LoseLock, RequestInv, RequestTyped, WorkHeldBack, RepliesAgree, OneCommit,
     HeldBack, DoneAt, Agrees, Request!AnswersAgree
<1>14. ASSUME NEW h \in Handler, Request!Die(h) PROVE RequestInv'
  BY <1>14, BackToWaiting DEF Request!Die, RequestInv, RequestTyped, Request!AnswersAgree
<1>15. QED
  BY <1>1, <1>2, <1>3, <1>4, <1>5, <1>6, <1>7, <1>8, <1>9, <1>10, <1>11, <1>12, <1>13, <1>14
     DEF Request!Next, Request!Work

-----------------------------------------------------------------------------
(* Outbox.  The row in hand is pending all the while, and what its sending *)
(* has come to is true of it.                                              *)

Row == [state : {"none", "pending", "delivered", "dead"}, attempts : Nat, wait : Int]
SendingTyped ==
  /\ row \in [Delivery -> Row]
  /\ hand \in Delivery \cup {None} /\ todo \subseteq Delivery /\ webhook_seen \in Nat
  /\ sending \in {"none", "checked", "unsound", "taken", "refused"}
  /\ received \in [Delivery -> Nat]
InHand ==
  /\ hand = None <=> sending = "none"
  /\ hand # None => row[hand].state = "pending"
  /\ sending = "taken" => received[hand] > 0
  /\ sending = "unsound" => hand \in excused
OutboxInv == SendingTyped /\ InHand /\ Webhook!NothingLost

(* It holds at the start.                                                   *)
LEMMA OutboxStart == ASSUME Webhook!Init PROVE OutboxInv
<1> USE NoneIsNothing DEF Webhook!Init
<1>1. SendingTyped /\ InHand
  BY DEF SendingTyped, Row, InHand
<1>2. QED
  BY <1>1 DEF OutboxInv, Webhook!NothingLost

(* What an attempt makes of a row is a row.                                 *)
LEMMA SettledTyped ==
  ASSUME NEW r \in Row, webhook_seen \in Nat
  PROVE  Webhook!Settled(r) \in Row
<1> DEFINE n == webhook_seen + 1
<1>1. n \in Nat
  OBVIOUS
<1>2. /\ [r EXCEPT !.attempts = n, !.state = "delivered"] \in Row
      /\ [r EXCEPT !.attempts = n, !.state = "dead"] \in Row
  BY <1>1 DEF Row
<1>3. ASSUME NEW b \in Int PROVE [r EXCEPT !.attempts = n, !.wait = b] \in Row
  BY <1>1 DEF Row
<1>4. Webhook!Backoff \in Int
  BY DEF Webhook!Backoff
<1>5. QED
  BY <1>2, <1>3, <1>4 DEF Webhook!Settled

(* Every step keeps the invariant of the outbox.                            *)
LEMMA OutboxStep == ASSUME OutboxInv, Webhook!Next PROVE OutboxInv'
<1> USE NoneIsNothing, LeaseIsTime DEF OutboxInv
<1>1. ASSUME NEW d \in Delivery, Webhook!Queue(d) PROVE OutboxInv'
  <2> USE <1>1 DEF Webhook!Queue
  <2>1. SendingTyped' /\ InHand'
    BY DEF SendingTyped, Row, InHand
  <2>2. Webhook!NothingLost'
    BY DEF SendingTyped, Row, Webhook!NothingLost
  <2>3. QED
    BY <2>1, <2>2
<1>2. ASSUME NEW d \in Delivery, Webhook!Redeliver(d) PROVE OutboxInv'
  <2> USE <1>2 DEF Webhook!Redeliver
  <2>1. SendingTyped' /\ InHand'
    BY DEF SendingTyped, Row, InHand
  <2>2. Webhook!NothingLost'
    BY DEF SendingTyped, Row, Webhook!NothingLost
  <2>3. QED
    BY <2>1, <2>2
<1>3. ASSUME NEW d \in Delivery, Webhook!TakeUp(d) PROVE OutboxInv'
  <2> USE <1>3 DEF Webhook!TakeUp, Webhook!StillPending
  <2>1. SendingTyped' /\ InHand'
    BY DEF SendingTyped, Row, InHand
  <2>2. Webhook!NothingLost'
    BY DEF SendingTyped, Row, Webhook!NothingLost
  <2>3. QED
    BY <2>1, <2>2
<1>4. CASE Webhook!Update \/ Webhook!Crash
  <2>1. CASE Webhook!Update
    BY <2>1 DEF Webhook!Update, SendingTyped, InHand, Webhook!NothingLost
  <2>2. CASE Webhook!Crash
    BY <2>2 DEF Webhook!Crash, SendingTyped, InHand, Webhook!NothingLost
  <2>3. QED
    BY <1>4, <2>1, <2>2
<1>5. CASE Webhook!Tick
  <2> USE <1>5 DEF Webhook!Tick
  <2>1. SendingTyped' /\ InHand'
    BY SMTT(30) DEF SendingTyped, Row, InHand
  <2>2. Webhook!NothingLost'
    BY DEF SendingTyped, Row, Webhook!NothingLost
  <2>3. QED
    BY <2>1, <2>2
<1>6. CASE Webhook!Claim
  <2> USE <1>6 DEF Webhook!Claim, Webhook!Due, Webhook!Leased
  <2>1. SendingTyped' /\ InHand'
    BY DEF SendingTyped, Row, InHand
  <2>2. Webhook!NothingLost'
    BY DEF SendingTyped, Row, Webhook!NothingLost
  <2>3. QED
    BY <2>1, <2>2
<1>7. CASE Webhook!Send
  <2> USE <1>7 DEF Webhook!Send
  <2>1. SendingTyped' /\ InHand'
    BY DEF SendingTyped, Row, InHand
  <2>2. Webhook!NothingLost'
    BY DEF SendingTyped, Row, Webhook!NothingLost
  <2>3. QED
    BY <2>1, <2>2
<1>8. CASE Webhook!Settle
  <2> USE <1>8 DEF Webhook!Settle, Webhook!Settled, Webhook!LastAttempt, Webhook!Backoff
  <2>1. hand \in Delivery /\ row[hand].state = "pending"
    BY DEF SendingTyped, Row, InHand
  <2>2. Webhook!Settled(row[hand]) \in Row
    BY <2>1, SettledTyped DEF SendingTyped
  <2>3. SendingTyped' /\ InHand'
    BY <2>1, <2>2 DEF SendingTyped, Row, InHand
  <2>4. Webhook!NothingLost'
    BY <2>1 DEF SendingTyped, Row, InHand, Webhook!NothingLost
  <2>5. QED
    BY <2>3, <2>4
<1>9. QED
  BY <1>1, <1>2, <1>3, <1>4, <1>5, <1>6, <1>7, <1>8 DEF Webhook!Next

-----------------------------------------------------------------------------
(* Transfers.  While a plate is in transit its books stay at the place it  *)
(* is to be taken from.  Before the carrier has it, it is where its log     *)
(* says, which need not be that place; after, in the air or where it goes.  *)

PlateTyped ==
  /\ labware_plate \in [Plate -> [loc : Place \cup {None}, state : {"idle", "lost"},
                                  batch : Batch \cup {None}]]
  /\ labware_at \in [Plate -> Place \cup {None}] /\ logged \in [Plate -> Place \cup {None}]
  /\ xfer \in [Plate -> [state : {"none", "sent", "moving", "arrived", "unknown"},
                         from : Place \cup {None}, to : Place \cup {None}]]
  /\ labware_scan \in [Person -> [plate : Plate \cup {None}, to : Place \cup {None},
                                  read : Place \cup {None}, state : {"idle", "lost", None}]]
Route(p) == LET x == xfer[p] IN
  IF x.state = "none" THEN x.to = None
  ELSE /\ x.to \in Place /\ x.from \in Place /\ x.to # x.from
       /\ labware_plate[p].loc = x.from
Found(p) == logged[p] # None => labware_at[p] = logged[p]
OnTheWay(p) == LET x == xfer[p] IN
  /\ x.state \in {"none", "sent"} => Found(p)
  /\ x.state = "moving" => labware_at[p] = None
  /\ x.state = "arrived" => labware_at[p] = x.to
  /\ x.state = "unknown" => Found(p) \/ labware_at[p] \in {None, x.to}
Apart(p, q) ==
  /\ labware_plate[p].loc = None \/ labware_plate[p].loc # labware_plate[q].loc
  /\ xfer[p].to = None \/ xfer[p].to \notin {labware_plate[q].loc, xfer[q].to}
  /\ xfer[q].to = None \/ xfer[q].to # labware_plate[p].loc
PlateInv ==
  /\ PlateTyped
  /\ \A p \in Plate : Route(p) /\ OnTheWay(p)
  /\ \A p, q \in Plate : p # q => Apart(p, q)

(* It holds at the start.                                                   *)
LEMMA PlateStart == ASSUME Labware!Init PROVE PlateInv
<1> USE NoneIsNothing DEF Labware!Init, Labware!NoTransfer, Labware!NoScan
<1>1. PlateTyped
  BY DEF PlateTyped
<1>2. ASSUME NEW p \in Plate PROVE Route(p) /\ OnTheWay(p)
  BY DEF Route, OnTheWay, Found
<1>3. ASSUME NEW p \in Plate, NEW q \in Plate PROVE Apart(p, q)
  BY DEF Apart
<1>4. QED
  BY <1>1, <1>2, <1>3 DEF PlateInv

(* What the invariant says of a plate is about its place, its log, its      *)
(* transfer and where it is.                                                *)
LEMMA OnePlateMoves ==
  ASSUME PlateInv, PlateTyped', NEW p \in Plate,
         \A q \in Plate \ {p} :
           /\ xfer'[q] = xfer[q] /\ labware_at'[q] = labware_at[q] /\ logged'[q] = logged[q]
           /\ labware_plate'[q].loc = labware_plate[q].loc,
         (Route(p) /\ OnTheWay(p))',
         \A q \in Plate \ {p} :
           /\ \/ labware_plate'[p].loc = None
              \/ labware_plate'[p].loc \notin {labware_plate[q].loc, xfer[q].to}
           /\ xfer'[p].to = None \/ xfer'[p].to \notin {labware_plate[q].loc, xfer[q].to}
  PROVE  PlateInv'
<1>1. ASSUME NEW q \in Plate, q # p PROVE (Route(q) /\ OnTheWay(q))'
  BY <1>1 DEF PlateInv, Route, OnTheWay, Found
<1>2. ASSUME NEW q \in Plate, q # p PROVE Apart(p, q)' /\ Apart(q, p)'
  BY <1>2 DEF Apart
<1>3. ASSUME NEW q1 \in Plate, NEW q2 \in Plate, q1 # q2, q1 # p, q2 # p PROVE Apart(q1, q2)'
  BY <1>3 DEF PlateInv, Apart
<1>4. QED
  BY <1>1, <1>2, <1>3 DEF PlateInv

(* Steps that bind plates, release, end or begin an action leave the places *)
(* alone.                                                                   *)
LEMMA PlacesStay ==
  ASSUME PlateInv, PlateTyped', UNCHANGED <<labware_at, logged, xfer>>,
         \A q \in Plate : labware_plate'[q].loc = labware_plate[q].loc
  PROVE  PlateInv'
<1>1. ASSUME NEW q \in Plate PROVE (Route(q) /\ OnTheWay(q))'
  BY DEF PlateInv, Route, OnTheWay, Found
<1>2. ASSUME NEW p \in Plate, NEW q \in Plate, p # q PROVE Apart(p, q)'
  BY <1>2 DEF PlateInv, Apart
<1>3. QED
  BY <1>1, <1>2 DEF PlateInv

(* What a plate is given: a place, a state and an entry of its log.          *)
Shelved == [loc : Place \cup {None}, state : {"idle", "lost"}, batch : Batch \cup {None}]
Given(p, l, e) ==
  /\ labware_plate' \in [Plate -> Shelved] /\ logged' \in [Plate -> Place \cup {None}]
  /\ labware_plate'[p].loc = l /\ logged'[p] = e
  /\ \A q \in Plate \ {p} : labware_plate'[q] = labware_plate[q] /\ logged'[q] = logged[q]
LEMMA PlateWritten ==
  ASSUME PlateTyped, NEW p \in Plate,
         NEW l \in Place \cup {None}, NEW s \in {"idle", "lost"}, NEW e \in Place \cup {None},
         labware_plate' = [labware_plate EXCEPT ![p].loc = l, ![p].state = s],
         logged' = [logged EXCEPT ![p] = e]
  PROVE  Given(p, l, e)
<1>1. labware_plate \in [Plate -> Shelved]
  BY DEF PlateTyped, Shelved
<1>2. ASSUME NEW x \in Shelved
      PROVE  [x EXCEPT !.loc = l, !.state = s] \in Shelved /\ [x EXCEPT !.loc = l, !.state = s].loc = l
  BY DEF Shelved
<1>3. labware_plate' = [labware_plate EXCEPT ![p] = [labware_plate[p] EXCEPT !.loc = l, !.state = s]]
  OBVIOUS
<1>4. /\ [labware_plate[p] EXCEPT !.loc = l, !.state = s] \in Shelved
      /\ [labware_plate[p] EXCEPT !.loc = l, !.state = s].loc = l
  BY <1>1, <1>2
<1>5. \A y \in Shelved : /\ [labware_plate EXCEPT ![p] = y] \in [Plate -> Shelved]
                         /\ [labware_plate EXCEPT ![p] = y][p] = y
                         /\ \A q \in Plate \ {p} : [labware_plate EXCEPT ![p] = y][q] = labware_plate[q]
  BY <1>1
<1>6. /\ labware_plate' \in [Plate -> Shelved] /\ labware_plate'[p].loc = l
      /\ \A q \in Plate \ {p} : labware_plate'[q] = labware_plate[q]
  BY <1>3, <1>4, <1>5
<1>7. /\ logged' \in [Plate -> Place \cup {None}] /\ logged'[p] = e
      /\ \A q \in Plate \ {p} : logged'[q] = logged[q]
  BY DEF PlateTyped
<1>8. QED
  BY <1>6, <1>7 DEF Given

(* A transfer of p is over, and p is on the books where it went, nowhere if  *)
(* nobody can say.                                                          *)
LEMMA PlateArrives ==
  ASSUME PlateInv, NEW p \in Plate, xfer' = [xfer EXCEPT ![p] = Labware!NoTransfer],
         UNCHANGED <<labware_at, labware_scan>>,
         NEW l \in Place \cup {None}, Given(p, l, l),
         l # None => l = xfer[p].to /\ labware_at[p] = l
  PROVE  PlateInv'
<1>1. /\ xfer' \in [Plate -> [state : {"none", "sent", "moving", "arrived", "unknown"},
                             from : Place \cup {None}, to : Place \cup {None}]]
      /\ xfer'[p] = Labware!NoTransfer /\ \A q \in Plate \ {p} : xfer'[q] = xfer[q]
  BY DEF PlateInv, PlateTyped, Labware!NoTransfer
<1>2. PlateTyped'
  BY <1>1 DEF PlateInv, PlateTyped, Given, Shelved
<1>3. (Route(p) /\ OnTheWay(p))'
  BY <1>1 DEF Labware!NoTransfer, Route, OnTheWay, Found, Given
<1>4. \A q \in Plate \ {p} : l = None \/ l \notin {labware_plate[q].loc, xfer[q].to}
  BY DEF PlateInv, Apart
<1>5. QED
  BY <1>1, <1>2, <1>3, <1>4, OnePlateMoves DEF Given, Labware!NoTransfer

(* A transfer of p is over and p is where its log says.                      *)
LEMMA PlateStands ==
  ASSUME PlateInv, NEW p \in Plate, xfer' = [xfer EXCEPT ![p] = Labware!NoTransfer],
         UNCHANGED <<labware_plate, logged, labware_at, labware_scan>>, Found(p)
  PROVE  PlateInv'
<1>1. /\ PlateTyped' /\ xfer'[p] = Labware!NoTransfer /\ \A q \in Plate \ {p} : xfer'[q] = xfer[q]
  BY DEF PlateInv, PlateTyped, Labware!NoTransfer
<1>2. (Route(p) /\ OnTheWay(p))'
  BY <1>1 DEF Labware!NoTransfer, Route, OnTheWay, Found
<1>3. \A q \in Plate \ {p} :
        labware_plate[p].loc = None \/ labware_plate[p].loc \notin {labware_plate[q].loc, xfer[q].to}
  BY DEF PlateInv, Apart
<1>4. QED
  BY <1>1, <1>2, <1>3, OnePlateMoves DEF Labware!NoTransfer

(* Every step keeps the invariant of the plates.                            *)
LEMMA PlateStep == ASSUME PlateInv, Labware!Next PROVE PlateInv'
<1> USE NoneIsNothing
<1>0. /\ PlateTyped
      /\ \A p \in Plate : Route(p) /\ OnTheWay(p)
      /\ \A p, q \in Plate : p # q => Apart(p, q)
  BY DEF PlateInv
<1>1. ASSUME NEW b \in Batch, Labware!Release(b) \/ Labware!Act(b) \/ Labware!ActEnds(b) \/ Labware!Finish(b)
      PROVE  PlateInv'
  <2>1. UNCHANGED <<labware_plate, labware_at, logged, xfer, labware_scan>>
    BY <1>1 DEF Labware!Release, Labware!Act, Labware!ActEnds, Labware!Finish
  <2>2. PlateTyped'
    BY <1>0, <2>1 DEF PlateTyped
  <2>3. QED
    BY <2>1, <2>2, PlacesStay
<1>2. ASSUME NEW b \in Batch, NEW p \in Plate, Labware!Bind(b, p) \/ Labware!Unbind(b, p) PROVE PlateInv'
  <2>1. /\ PlateTyped' /\ UNCHANGED <<labware_at, logged, xfer>>
        /\ \A q \in Plate : labware_plate'[q].loc = labware_plate[q].loc
    <3>1. CASE Labware!Bind(b, p)
      BY <1>0, <3>1 DEF Labware!Bind, PlateTyped
    <3>2. CASE Labware!Unbind(b, p)
      BY <1>0, <3>2 DEF Labware!Unbind, PlateTyped
    <3>3. QED
      BY <1>2, <3>1, <3>2
  <2>2. QED
    BY <2>1, PlacesStay
<1>3. ASSUME NEW b \in Batch, NEW p \in Plate, NEW s \in Station, Labware!Prepare(b, p, s) PROVE PlateInv'
  <2>1. CASE UNCHANGED xfer
    <3>1. PlateTyped'
      BY <1>0, <1>3, <2>1 DEF Labware!Prepare, PlateTyped
    <3>2. QED
      BY <1>3, <2>1, <3>1, PlacesStay DEF Labware!Prepare
  <2>2. ASSUME NEW l \in Labware!Free(s),
               xfer' = [xfer EXCEPT ![p] = [state |-> "sent", from |-> labware_plate[p].loc, to |-> l]]
        PROVE  PlateInv'
    <3>1. /\ UNCHANGED <<labware_plate, labware_at, logged, labware_scan>> /\ xfer[p].state = "none"
          /\ labware_plate[p].loc # None
      BY <1>3 DEF Labware!Prepare, Labware!InTransit
    <3>2. l \in Place /\ l # labware_plate[p].loc
          /\ \A q \in Plate : l # labware_plate[q].loc /\ l # xfer[q].to
      BY <1>0, <3>1 DEF Labware!Free, Labware!Occupied, Labware!Standing, Labware!Bound, Labware!InTransit, Route
    <3>3. PlateTyped' /\ labware_plate[p].loc \in Place
      BY <1>0, <2>2, <3>1, <3>2 DEF PlateTyped
    <3>4. (Route(p) /\ OnTheWay(p))'
      BY <1>0, <2>2, <3>1, <3>2, <3>3 DEF PlateTyped, Route, OnTheWay, Found
    <3>5. QED
      BY <1>0, <2>2, <3>1, <3>2, <3>3, <3>4, OnePlateMoves DEF Apart, PlateTyped
  <2>3. QED
    BY <1>3, <2>1, <2>2 DEF Labware!Prepare
<1>4. ASSUME NEW p \in Plate, Labware!PickUp(p) \/ Labware!SetDown(p) \/ Labware!GoesUnknown(p) PROVE PlateInv'
  <2>1. /\ UNCHANGED <<labware_plate, logged, labware_scan>> /\ PlateTyped'
        /\ xfer[p].state # "none" /\ xfer'[p].to = xfer[p].to /\ xfer'[p].from = xfer[p].from
        /\ \A q \in Plate \ {p} : xfer'[q] = xfer[q] /\ labware_at'[q] = labware_at[q]
    <3>1. CASE Labware!PickUp(p)
      BY <1>0, <3>1 DEF Labware!PickUp, PlateTyped
    <3>2. CASE Labware!SetDown(p)
      BY <1>0, <3>2, ZenonT(60) DEF Labware!SetDown, PlateTyped
    <3>3. CASE Labware!GoesUnknown(p)
      BY <1>0, <3>3, ZenonT(60) DEF Labware!GoesUnknown, PlateTyped
    <3>4. QED
      BY <1>4, <3>1, <3>2, <3>3
  <2>2. (Route(p) /\ OnTheWay(p))'
    BY <1>0, <1>4, <2>1 DEF Labware!PickUp, Labware!SetDown, Labware!GoesUnknown, PlateTyped,
       Route, OnTheWay, Found
  <2>3. QED
    BY <1>0, <2>1, <2>2, OnePlateMoves DEF Apart
<1>5. ASSUME NEW p \in Plate, Labware!Complete(p) PROVE PlateInv'
  <2> DEFINE l == IF Labware!Elsewhere(p, xfer[p].to) THEN None ELSE xfer[p].to
  <2>1. /\ xfer[p].state = "arrived" /\ xfer[p].to \in Place /\ xfer' = [xfer EXCEPT ![p] = Labware!NoTransfer]
        /\ UNCHANGED <<labware_at, labware_scan>>
    BY <1>0, <1>5 DEF Labware!Complete, Route
  <2>2. Given(p, l, l)
    <3>1. CASE Labware!Elsewhere(p, xfer[p].to)
      BY <1>0, <1>5, <3>1, PlateWritten DEF Labware!Complete, Labware!Lost, Labware!Moved
    <3>2. CASE ~Labware!Elsewhere(p, xfer[p].to)
      BY <1>0, <1>5, <2>1, <3>2, PlateWritten DEF Labware!Complete, Labware!Moved
    <3>3. QED
      BY <3>1, <3>2
  <2>3. l \in {None, xfer[p].to}
    OBVIOUS
  <2> HIDE DEF l
  <2>4. QED
    BY <1>0, <2>1, <2>2, <2>3, PlateArrives DEF OnTheWay
<1>6. ASSUME NEW p \in Plate, Labware!Verify(p) PROVE PlateInv'
  <2>1. /\ xfer[p].state = "unknown" /\ xfer[p].to \in Place /\ xfer' = [xfer EXCEPT ![p] = Labware!NoTransfer]
        /\ UNCHANGED <<labware_at, labware_scan>> /\ xfer[p].from \in Place /\ xfer[p].from # xfer[p].to
    BY <1>0, <1>6 DEF Labware!Verify, Labware!Verifiable, Route
  <2>2. CASE labware_at[p] = xfer[p].from /\ UNCHANGED <<labware_plate, logged>>
    <3>1. Found(p)
      BY <1>0, <2>1, <2>2, NoneIsNothing DEF OnTheWay
    <3>2. QED
      BY <1>0, <2>1, <2>2, <3>1, PlateStands
  <2>3. CASE labware_at[p] = xfer[p].to /\ Labware!Moved(p, xfer[p].to, "idle")
    <3>1. Given(p, xfer[p].to, xfer[p].to)
      BY <1>0, <2>1, <2>3, PlateWritten DEF Labware!Moved
    <3>2. QED
      BY <1>0, <2>1, <2>3, <3>1, PlateArrives
  <2>4. CASE Labware!Lost(p)
    <3>1. Given(p, None, None)
      BY <1>0, <2>4, PlateWritten DEF Labware!Lost, Labware!Moved
    <3>2. QED
      BY <1>0, <2>1, <3>1, PlateArrives
  <2>5. QED
    BY <1>6, <2>2, <2>3, <2>4 DEF Labware!Verify
<1>7. ASSUME NEW b \in Batch, NEW p \in Plate, Labware!Abort(b, p) PROVE PlateInv'
  <2>1. xfer' = [xfer EXCEPT ![p] = Labware!NoTransfer] /\ UNCHANGED <<labware_at, labware_scan>>
    BY <1>7 DEF Labware!Abort
  <2>2. CASE xfer[p].state \in {"moving", "arrived", "unknown"}
    <3>1. Given(p, None, None)
      BY <1>0, <1>7, <2>2, PlateWritten DEF Labware!Abort, Labware!Dropped, Labware!Lost, Labware!Moved
    <3>2. QED
      BY <1>0, <2>1, <3>1, PlateArrives
  <2>3. CASE xfer[p].state \in {"none", "sent"}
    <3>1. UNCHANGED <<labware_plate, logged>> /\ Found(p)
      BY <1>0, <1>7, <2>3 DEF Labware!Abort, OnTheWay
    <3>2. QED
      BY <1>0, <2>1, <3>1, PlateStands
  <2>4. QED
    BY <1>0, <2>2, <2>3 DEF PlateTyped
<1>8. ASSUME NEW u \in Person, Labware!Placed(u) PROVE PlateInv'
  <2>1. PICK p \in Plate, l \in Place \cup {None} :
          p = labware_scan[u].plate /\ l = labware_scan[u].to /\ xfer' = xfer
    BY <1>0, <1>8 DEF Labware!Placed, PlateTyped
  <2>2. labware_scan' = [labware_scan EXCEPT ![u] = Labware!NoScan]
    BY <1>8 DEF Labware!Placed
  <2>3. labware_scan' \in [Person -> [plate : Plate \cup {None}, to : Place \cup {None},
                                     read : Place \cup {None}, state : {"idle", "lost", None}]]
    BY <1>0, <2>2 DEF PlateTyped, Labware!NoScan
  <2>4. CASE ~Labware!Allowed(p, l)
    <3>1. PlateTyped' /\ UNCHANGED <<labware_plate, labware_at, logged>>
      BY <1>0, <1>8, <2>1, <2>3, <2>4 DEF Labware!Placed, PlateTyped
    <3>2. QED
      BY <2>1, <3>1, PlacesStay
  <2>5. CASE Labware!Allowed(p, l)
    <3> DEFINE r == IF l = labware_scan[u].read THEN labware_plate[p].loc ELSE l
               s == IF labware_scan[u].state = "lost" THEN "idle" ELSE labware_plate[p].state
    <3>1. r \in Place \cup {None} /\ s \in {"idle", "lost"} /\ r \in {labware_plate[p].loc, l}
      BY <1>0 DEF PlateTyped
    <3>2. /\ labware_plate' = [labware_plate EXCEPT ![p].loc = r, ![p].state = s]
          /\ logged' = [logged EXCEPT ![p] = l] /\ labware_at' = [labware_at EXCEPT ![p] = l]
      BY <1>8, <2>1, <2>5 DEF Labware!Placed
    <3> HIDE DEF r, s
    <3>3. Given(p, r, l)
      BY <1>0, <2>1, <3>1, <3>2, PlateWritten
    <3>4. /\ labware_at' \in [Plate -> Place \cup {None}] /\ labware_at'[p] = l
          /\ \A q \in Plate \ {p} : labware_at'[q] = labware_at[q]
      BY <1>0, <2>1, <3>2 DEF PlateTyped
    <3>5. PlateTyped'
      BY <1>0, <2>1, <2>3, <3>3, <3>4 DEF PlateTyped, Given, Shelved
    <3>6. /\ xfer[p].state = "none" /\ xfer[p].to = None
          /\ \A q \in Plate \ {p} : l # None => l # labware_plate[q].loc /\ l # xfer[q].to
      BY <1>0, <2>1, <2>5 DEF Labware!Allowed, Labware!InTransit, Labware!Bound, Route, PlateTyped
    <3>7. (Route(p) /\ OnTheWay(p))'
      BY <2>1, <3>3, <3>4, <3>6 DEF Route, OnTheWay, Found, Given
    <3>8. \A q \in Plate \ {p} : r = None \/ r \notin {labware_plate[q].loc, xfer[q].to}
      BY <1>0, <3>1, <3>6 DEF Apart
    <3>9. QED
      BY <2>1, <3>3, <3>4, <3>5, <3>6, <3>7, <3>8, OnePlateMoves DEF Given
  <2>6. QED
    BY <2>4, <2>5
<1>9. ASSUME NEW u \in Person, NEW p \in Plate, NEW l \in Place \cup {None}, Labware!Scan(u, p, l)
      PROVE  PlateInv'
  <2>1. PlateTyped' /\ UNCHANGED <<labware_plate, labware_at, logged, xfer>>
    BY <1>0, <1>9 DEF Labware!Scan, PlateTyped
  <2>2. QED
    BY <2>1, PlacesStay
<1>10. ASSUME NEW l \in Place, Labware!SetActive(l) PROVE PlateInv'
  <2>1. PlateTyped' /\ UNCHANGED <<labware_plate, labware_at, logged, xfer>>
    BY <1>0, <1>10 DEF Labware!SetActive, PlateTyped
  <2>2. QED
    BY <2>1, PlacesStay
<1>11. QED
  BY <1>1, <1>2, <1>3, <1>4, <1>5, <1>6, <1>7, <1>8, <1>9, <1>10 DEF Labware!Next

-----------------------------------------------------------------------------
(* The parts together: a step of one leaves the others alone.               *)

SiteInv == LeaderInv /\ RequestInv /\ OutboxInv /\ PlateInv

(* What a part knows of itself does not depend on the others.               *)
LEMMA OthersStay ==
  /\ LeaderInv /\ UNCHANGED executorVars => LeaderInv'
  /\ RequestInv /\ UNCHANGED requestVars => RequestInv'
  /\ OutboxInv /\ UNCHANGED outboxVars => OutboxInv'
  /\ PlateInv /\ UNCHANGED plateVars => PlateInv'
<1>1. LeaderInv /\ UNCHANGED executorVars => LeaderInv'
  BY DEF executorVars, LeaderInv, LeaderTyped, HolderHasLed, Noticed, GraceOutlasts, HasLed, WaitsFor,
     WorksAsLeader, CommandOf, TakenAfterMark
<1>2. RequestInv /\ UNCHANGED requestVars => RequestInv'
  BY DEF requestVars, RequestInv, RequestTyped, WorkHeldBack, RepliesAgree, HeldBack, DoneAt, Agrees,
     OneCommit, Request!AnswersAgree
<1>3. OutboxInv /\ UNCHANGED outboxVars => OutboxInv'
  BY DEF outboxVars, OutboxInv, SendingTyped, InHand, Webhook!NothingLost
<1>4. PlateInv /\ UNCHANGED plateVars => PlateInv'
  <2>1. PlateTyped /\ UNCHANGED plateVars => PlateTyped'
    BY DEF plateVars, PlateTyped
  <2>2. QED
    BY <2>1, PlacesStay DEF plateVars, PlateInv
<1>5. QED
  BY <1>1, <1>2, <1>3, <1>4

(* What the parts' invariants say holds of the site all the time, for any   *)
(* number of replicas, commands, handlers, bodies, rows, plates and places. *)
THEOREM SiteInvariant == Spec => []SiteInv
<1>1. Init => SiteInv
  BY LeaderStart, RequestStart, OutboxStart, PlateStart DEF Init, SiteInv
<1>2. SiteInv /\ [Next]_vars => SiteInv'
  <2> SUFFICES ASSUME SiteInv, [Next]_vars PROVE SiteInv'
    OBVIOUS
  <2>1. Executor!Next \/ UNCHANGED executorVars
    BY DEF Next, vars
  <2>2. Request!Next \/ UNCHANGED requestVars
    BY DEF Next, vars
  <2>3. Webhook!Next \/ UNCHANGED outboxVars
    BY DEF Next, vars
  <2>4. Labware!Next \/ UNCHANGED plateVars
    BY DEF Next, vars
  <2>5. QED
    BY <2>1, <2>2, <2>3, <2>4, LeaderStep, RequestStep, OutboxStep, PlateStep, OthersStay DEF SiteInv
<1>3. QED
  BY <1>1, <1>2, PTL DEF Spec

(* services/leadership.py: only one executor acts.  Never does a replica    *)
(* take work up while the jobs of another can still reach a device, and the *)
(* device takes each command up at most once, however locks are lost and    *)
(* processes die and come back.                                             *)
THEOREM OneActs == Spec => []OneHandAtATime
<1>1. SiteInv => OneHandAtATime
  <2>1. LeaderInv => Executor!OneAtWork
    BY OneWorks DEF Executor!OneAtWork
  <2>2. LeaderInv => Executor!TakenOnce
    BY DEF LeaderInv, TakenAfterMark, Executor!TakenOnce
  <2>3. QED
    BY <2>1, <2>2 DEF SiteInv, OneHandAtATime, Executor!OneHandAtATime
<1>2. QED
  BY <1>1, SiteInvariant, PTL

(* api/deps.py: what is asked for under an idempotency key happens once and *)
(* whole, its events leave with it, and whoever asks again is told the same,*)
(* also when the lock of the key breaks in the middle of the work.          *)
THEOREM KeyHasOneEffect == Spec => []OnceAndTold
<1>1. OneCommit => Request!AllOrNothing
  <2>1. /\ Request!Whole({Main(FALSE)}) = {"main"}
        /\ Request!Whole({Main(FALSE), Inner(FALSE)}) = {"main", "inner"}
    BY DEF Request!Whole, Main, Inner
  <2>2. /\ Request!What(<<{Main(FALSE)}>>) = <<{"main"}>>
        /\ Request!What(<<{Main(FALSE), Inner(FALSE)}>>) = <<{"main", "inner"}>>
    <3>1. ASSUME NEW c PROVE Request!What(<<c>>) = <<Request!Whole(c)>>
      BY DEF Request!What
    <3>2. QED
      BY <2>1, <3>1
  <2>3. QED
    BY <2>2 DEF OneCommit, Request!AllOrNothing
<1>2. SiteInv => OnceAndTold
  BY <1>1 DEF SiteInv, RequestInv, OnceAndTold, Request!OnceAndTold
<1>3. QED
  BY <1>2, SiteInvariant, PTL

(* services/integration_service.py: a delivery is called delivered only     *)
(* after the receiver took it, and dead only after all its attempts or for  *)
(* want of a usable subscription, whatever an administrator changes while   *)
(* it is in hand and whenever the pass dies.                                *)
THEOREM DeliveriesAreKept == Spec => []NothingLost
<1>1. SiteInv => NothingLost
  BY DEF SiteInv, OutboxInv, NothingLost
<1>2. QED
  BY <1>1, SiteInvariant, PTL

(* services/transfer_service.py: no two plates are booked in one place or on *)
(* the way to one, and a plate is where the log of its moves says, whichever *)
(* of scan, ride, verdict and stop read the plate before the other commits.  *)
THEOREM PlatesAreAccountedFor == Spec => []PlatesAccountedFor
<1>1. SiteInv => PlatesAccountedFor
  <2>1. PlateInv => Labware!OnePlateAPlace
    BY DEF PlateInv, Apart, Labware!OnePlateAPlace
  <2>2. PlateInv => Labware!LogTellsTheTruth
    BY DEF PlateInv, OnTheWay, Found, Labware!LogTellsTheTruth, Labware!InTransit
  <2>3. QED
    BY <2>1, <2>2 DEF SiteInv, PlatesAccountedFor, Labware!PlatesAccountedFor
<1>2. QED
  BY <1>1, SiteInvariant, PTL

=============================================================================
