------------------------------ MODULE Acceptance ------------------------------
(*****************************************************************************)
(* The registration of one device, the acceptance it owes after a change,    *)
(* and what the executor's worker of that station does in one pass: it runs  *)
(* the acceptance runs that are due, the manual point write, the probe and   *)
(* the delivery. People change the registration, ask for runs, waive them    *)
(* and approve a changed driver meanwhile, the device's own driver may be    *)
(* replaced, and the executor may die between any two commits.               *)
(*                                                                           *)
(* A command is one action of a batch, as much of it as the acceptance sees: *)
(* Commands and Execution have the rest.                                     *)
(*****************************************************************************)
EXTENDS Integers

CONSTANTS
  None,
  Conf,     \* registrations: [kind, driver, tasks, simulated, address]
  Driver,   \* what the device may report of its own driver: [plugin, digest]
  Budgets   \* bounds: how often people, the device and the executor do what

VARIABLES
  adapter,  \* [conf, enabled, version, required, approved, info, approval, up]
  installed,  \* the driver at the device
  runs,     \* the acceptance runs somebody asks for: those that are due, and of the others the
            \* last of a version if it passed; a set of [level, state, version, signed]
  write,    \* the point write: [state, version, made]; made is a ghost
  command,  \* [state, conf]
  worker,   \* [at, run, conf, version, saw, ok, left], run the run in hand as it was claimed
  line,     \* a device coming back: the row the handler has read, or None
  signature,\* a signature not used yet: [version, conf], or None
  proved,   \* ghost: [conf, driver] the device was last seen to work with, forgotten with a
            \* change, an incident and what the probe takes for news
  vouched,  \* ghost: the drivers somebody answers for
  moves     \* what may still happen (bounds)

acceptanceVars == <<adapter, installed, runs, write, command, worker, line, signature, proved, vouched, moves>>
people == <<line, signature>>

Spent(what) == moves[what] > 0 /\ moves' = [moves EXCEPT ![what] = @ - 1]

-----------------------------------------------------------------------------
(* What is owed.                                                            *)

Active(rs) == {run \in rs : run.state \in {"queued", "running"}}
RunningPhysical(rs) == {run \in Active(rs) : run.level = "physical"}
Running == {run \in runs : run.state = "running"}
Acting == command.state \in {"acting", "unknown"}

\* The level a change of the registration asks for.
Requirement(before, after, pending) ==
  IF after.kind # "real" THEN None
  ELSE IF ~after.tasks THEN "readonly"
  ELSE IF before.kind # "real" \/ before.driver # after.driver \/ ~before.tasks \/ pending = "physical"
  THEN "physical" ELSE "readonly"

\* A readonly run does for a simulator.
Satisfies_Mut(required, level, simulator) == TRUE

Satisfies(required, level, simulator) == required = "physical" => level = "physical" \/ simulator

Drift(a, reported) ==
  IF a.approved = None \/ reported = None THEN None
  ELSE IF a.approved.plugin # reported.plugin THEN "physical"
  ELSE IF a.approved.digest # reported.digest THEN "readonly" ELSE None

Awaiting(a, reported) == Drift(a, reported) # None /\ a.approval # reported

NewRun(a, level, signed) == [level |-> level, state |-> "queued", version |-> a.version, signed |-> signed]

Cancelled(rs) == {run \in rs : run.state # "queued"}

\* With a new run of a version, the last of it is no longer the one that passed.
Queued(rs, new) == {run \in rs : run.state = "passed" => run.version # new.version} \cup {new}

\* The run in hand ends: nobody asks for it any more, unless it passed.
Closed(state) ==
  (runs \ Running) \cup {[run EXCEPT !.state = state] : run \in {other \in Running : state = "passed"}}

\* Nothing is queued again for a version whose last run passed.
Requeued(a, rs) ==
  LET passed == \E run \in rs : run.version = a.version /\ run.state = "passed"
  IN  IF a.conf.kind = "real" /\ a.required # None /\ Active(rs) = {} /\ ~Awaiting(a, a.info) /\ ~passed
      THEN Queued(rs, NewRun(a, "readonly", None)) ELSE rs

\* What the queue makes of a command that moves something.
DispatchHold(a, rs) ==
  IF RunningPhysical(rs) # {} THEN "wait"
  ELSE IF a.conf.kind = "real" /\ a.required # None THEN IF Active(rs) # {} THEN "wait" ELSE "refuse"
  ELSE "go"

RequirePhysical(a) == IF a.conf.kind = "real" THEN [a EXCEPT !.required = "physical"] ELSE a

-----------------------------------------------------------------------------
Idle == [at |-> "accept", run |-> None, conf |-> None, version |-> 0, saw |-> None, ok |-> FALSE, left |-> FALSE]

AcceptanceInit ==
  /\ \E conf \in Conf, driver \in Driver :
       /\ installed = driver
       /\ adapter = [conf |-> conf, enabled |-> TRUE, version |-> 1, approved |-> None, info |-> None,
                     approval |-> None, up |-> FALSE,
                     required |-> Requirement([kind |-> "", driver |-> "", tasks |-> TRUE], conf, None)]
       /\ runs = IF adapter.required = None THEN {} ELSE {NewRun(adapter, "readonly", None)}
  /\ write = [state |-> "none", version |-> 0, made |-> 0] /\ command = [state |-> "none", conf |-> None]
  /\ worker = Idle /\ line = None /\ signature = None
  /\ proved = [conf |-> None, driver |-> None] /\ vouched = {}
  /\ moves \in Budgets

-----------------------------------------------------------------------------
(* People.                                                                  *)

\* Whoever signs sees the registration as it stands.
Sign ==
  /\ signature # None => signature.version # adapter.version
  /\ moves.asked > 0
  /\ signature' = [version |-> adapter.version, conf |-> adapter.conf]
  /\ UNCHANGED <<adapter, installed, runs, write, command, worker, line, proved, vouched, moves>>

\* The signature is for the version of the registration that is changed or run.
SignatureHolds_Mut == signature # None

SignatureHolds == signature # None /\ signature.version = adapter.version

Ask(level) ==
  /\ Spent("asked")
  /\ adapter.enabled /\ Active(runs) = {}
  /\ level = "physical" => SignatureHolds
  /\ signature' = IF level = "physical" THEN None ELSE signature
  /\ runs' = Queued(runs, NewRun(adapter, level, IF level = "physical" THEN signature.conf ELSE None))
  /\ UNCHANGED <<adapter, installed, write, command, worker, line, proved, vouched>>

CancelRun(run) ==
  /\ run.state = "queued"
  /\ Spent("changes")
  /\ runs' = runs \ {run}
  /\ UNCHANGED <<adapter, installed, write, command, worker, people, proved, vouched>>

\* A person answers for what the checklist cannot show.
Waive ==
  /\ adapter.conf.kind = "real" /\ adapter.required # None /\ Active(runs) = {} /\ ~Awaiting(adapter, adapter.info)
  /\ SignatureHolds /\ Spent("asked")
  /\ runs' = Queued(runs, [NewRun(adapter, adapter.required, signature.conf) EXCEPT !.state = "passed"])
  /\ adapter' = [adapter EXCEPT !.required = None,
                                !.approved = IF Drift(adapter, adapter.info) # None THEN adapter.info ELSE @]
  /\ proved' = [conf |-> signature.conf,
                driver |-> IF adapter.required = "physical" THEN signature.conf.driver ELSE proved.driver]
  /\ vouched' = vouched \cup {adapter.info}
  /\ signature' = None
  /\ UNCHANGED <<installed, write, command, worker, line>>

ApproveDriver ==
  /\ Awaiting(adapter, adapter.info) /\ SignatureHolds
  /\ Spent("asked")
  /\ adapter' = [adapter EXCEPT !.approval = adapter.info]
  /\ vouched' = vouched \cup {adapter.info}
  /\ runs' = IF Active(runs) = {} THEN Queued(runs, NewRun(adapter, "readonly", None)) ELSE runs
  /\ signature' = None
  /\ UNCHANGED <<installed, write, command, worker, line, proved>>

\* A change of the connection waits for the commands that may be acting.
QuietFor(conf) == conf # adapter.conf => ~Acting

\* A change that touches neither the connection nor whether it is in use keeps what
\* was proved of it; any other one starts from nothing.
AfterChange(a, conf, enabled) ==
  IF conf = a.conf /\ enabled = a.enabled
  THEN [a EXCEPT !.version = @ + 1, !.required = IF conf.kind = "real" THEN @ ELSE None]
  ELSE [a EXCEPT !.conf = conf, !.enabled = enabled, !.version = @ + 1, !.up = FALSE, !.approved = None,
                 !.required = Requirement(a.conf, conf, @)]

UpdateAdapter(conf, enabled) ==
  LET light == conf = adapter.conf /\ enabled = adapter.enabled
      same == conf.kind = adapter.conf.kind /\ conf.driver = adapter.conf.driver /\ adapter.conf.tasks
  IN  /\ Spent("changes") /\ QuietFor(conf)
      /\ adapter' = AfterChange(adapter, conf, enabled)
      /\ runs' = IF adapter'.required = None THEN Cancelled(runs)
                 ELSE Queued(Cancelled(runs), NewRun(adapter', "readonly", None))
      /\ proved' = IF light THEN proved ELSE [conf |-> None, driver |-> IF same THEN proved.driver ELSE None]
      /\ vouched' = IF light THEN vouched ELSE {adapter.approval} \ {None}
      /\ UNCHANGED <<installed, write, command, worker, people>>

\* The device reports back by itself, or is reconnected by hand: the row is read,
\* and written with the run it may owe.
ComingBack ==
  /\ line = None /\ ~adapter.up /\ adapter.enabled /\ Spent("returns")
  /\ line' = adapter
  /\ UNCHANGED <<adapter, installed, runs, write, command, worker, signature, proved, vouched>>

CameBack ==
  /\ line # None /\ line' = None
  /\ adapter' = [adapter EXCEPT !.up = TRUE]
  /\ runs' = Requeued(line, runs)
  /\ UNCHANGED <<installed, write, command, worker, signature, proved, vouched, moves>>

GoesDown ==
  /\ adapter.up /\ Spent("swaps")
  /\ adapter' = [adapter EXCEPT !.up = FALSE]
  /\ UNCHANGED <<installed, runs, write, command, worker, people, proved, vouched>>

\* The driver at the device is replaced or set back; nobody here is told.
Swap(driver) ==
  /\ driver # installed /\ Spent("swaps")
  /\ installed' = driver
  /\ UNCHANGED <<adapter, runs, write, command, worker, people, proved, vouched>>

-----------------------------------------------------------------------------
(* The worker: acceptance runs.                                             *)

\* A physical run starts on an idle, connected device.
MayStart(run) == run.level = "physical" => ~Acting /\ adapter.up

\* A run of a registration that has changed since, or is out of use, is given up.
ClaimRun(run) ==
  /\ worker.at = "accept" /\ run.state = "queued" /\ MayStart(run)
  /\ IF ~adapter.enabled \/ run.version # adapter.version
     THEN runs' = runs \ {run} /\ worker' = worker
     ELSE /\ runs' = (runs \ {run}) \cup {[run EXCEPT !.state = "running"]}
          /\ worker' = [Idle EXCEPT !.at = "check", !.run = run, !.conf = adapter.conf, !.version = adapter.version]
  /\ UNCHANGED <<adapter, installed, write, command, people, proved, vouched, moves>>

\* Only actions can be left over: what could be neither ended nor settled.
MayLeave(level) == level = "physical"

Verdicts(level) == {v \in [ok : BOOLEAN, left : BOOLEAN] : v.left => MayLeave(level) /\ ~v.ok}

Simulates(conf) == conf.kind # "real" \/ conf.simulated

\* The checklist on the device, with the configuration as it was claimed.
CheckDevice(verdict) ==
  /\ worker' = [worker EXCEPT !.at = "close", !.saw = installed, !.ok = verdict.ok, !.left = verdict.left]
  /\ proved' = IF verdict.ok
               THEN [conf |-> worker.conf,
                     driver |-> IF worker.run.level = "physical" \/ Simulates(worker.conf) THEN worker.conf.driver
                                ELSE proved.driver]
               ELSE proved
  /\ UNCHANGED <<adapter, installed, runs, write, command, people, vouched, moves>>

CheckRaises ==
  /\ worker.at = "check" /\ worker' = [worker EXCEPT !.at = "raised"]
  /\ UNCHANGED <<adapter, installed, runs, write, command, people, proved, vouched, moves>>

CloseRun ==
  /\ worker.at \in {"close", "raised"}
  /\ runs' = Closed(IF worker.at = "raised" THEN "error" ELSE IF worker.ok THEN "passed" ELSE "failed")
  /\ worker' = IF worker.at = "close" THEN [worker EXCEPT !.at = "settle"]
               ELSE IF worker.run.level = "physical" THEN [worker EXCEPT !.at = "require"] ELSE Idle
  /\ UNCHANGED <<adapter, installed, write, command, people, proved, vouched, moves>>

RequireAgain ==
  /\ worker.at = "require" /\ adapter' = RequirePhysical(adapter) /\ worker' = Idle
  /\ proved' = [proved EXCEPT !.driver = None]
  /\ UNCHANGED <<installed, runs, write, command, people, vouched, moves>>

\* The report counts for the configuration it was made with.
Counts_Mut(w, a) == w.ok

Counts(w, a) == w.ok /\ a.version = w.version

\* The driver the run has seen must be the one that is approved, not the one the
\* last probe has seen.
Opens_Mut(w, a) == ~Awaiting(a, a.info)

Opens(w, a) == ~Awaiting(a, w.saw)

SettleGate ==
  LET level == worker.run.level
      clears == adapter.required = None \/ Satisfies(adapter.required, level, Simulates(worker.conf))
      opened == Counts(worker, adapter) /\ Opens(worker, adapter) /\ clears
  IN  /\ worker.at = "settle"
      /\ adapter' = IF worker.left THEN RequirePhysical(adapter)
                    ELSE IF opened THEN [adapter EXCEPT !.required = None, !.approved = worker.saw] ELSE adapter
      /\ vouched' = IF ~worker.left /\ opened /\ adapter.approved = None THEN vouched \cup {worker.saw} ELSE vouched
      /\ proved' = IF worker.left THEN [proved EXCEPT !.driver = None] ELSE proved
      /\ worker' = Idle
      /\ UNCHANGED <<installed, runs, write, command, people, moves>>

-----------------------------------------------------------------------------
(* The worker: point writes, probe, delivery.                               *)

RequestWrite ==
  /\ write.state \notin {"queued", "running"} /\ Spent("writes")
  /\ adapter.enabled /\ adapter.conf.kind = "real" /\ ~Awaiting(adapter, adapter.info)
  /\ write' = [state |-> "queued", version |-> adapter.version, made |-> 0]
  /\ UNCHANGED <<adapter, installed, runs, command, worker, people, proved, vouched>>

CancelWrite ==
  /\ write.state = "queued" /\ write' = [write EXCEPT !.state = "cancelled"]
  /\ UNCHANGED <<adapter, installed, runs, command, worker, people, proved, vouched, moves>>

ToPoint ==
  /\ worker.at = "accept"
  /\ IF write.state # "queued" THEN worker' = [worker EXCEPT !.at = "probe"] /\ write' = write
     ELSE IF ~adapter.enabled \/ adapter.conf.kind # "real" \/ adapter.version # write.version
             \/ Awaiting(adapter, adapter.info) \/ Acting
     THEN worker' = [worker EXCEPT !.at = "probe"] /\ write' = [write EXCEPT !.state = "failed"]
     ELSE worker' = [worker EXCEPT !.at = "writing"] /\ write' = [write EXCEPT !.state = "running"]
  /\ UNCHANGED <<adapter, installed, runs, command, people, proved, vouched, moves>>

\* The device may be written although the answer is lost.
WritePoint(reaches) ==
  /\ worker.at = "writing" /\ worker' = [worker EXCEPT !.at = "written"]
  /\ write' = [write EXCEPT !.made = IF reaches THEN @ + 1 ELSE @]
  /\ UNCHANGED <<adapter, installed, runs, command, people, proved, vouched, moves>>

CloseWrite(state) ==
  /\ worker.at = "written"
  /\ write.made = 0 => state = "failed"
  /\ worker' = [worker EXCEPT !.at = "probe"] /\ write' = [write EXCEPT !.state = state]
  /\ UNCHANGED <<adapter, installed, runs, command, people, proved, vouched, moves>>

\* A changed driver is a change of the registration: a new version, a closed gate,
\* and nothing that was queued for the old one is run.
DriverChanged(a, level) ==
  [a EXCEPT !.version = @ + 1, !.required = IF "physical" \in {level, @} THEN "physical" ELSE level]

\* A report is news when it differs from the last one. A run that sees another driver
\* in between does not change what the last one was.
News_Mut(a, reported) == FALSE

News(a, reported) == Drift(a, reported) # None /\ a.info # reported

ProbeDevice ==
  LET seen == [adapter EXCEPT !.info = installed, !.up = TRUE]
      news == News(adapter, installed)
      tracked == IF news THEN DriverChanged(seen, Drift(adapter, installed)) ELSE seen
      kept == IF news THEN Cancelled(runs) ELSE runs
  IN  /\ worker.at = "probe" /\ worker' = [worker EXCEPT !.at = "deliver"]
      /\ IF adapter.conf.kind = "real" /\ adapter.enabled
         THEN /\ adapter' = tracked
              /\ runs' = IF adapter.up THEN kept ELSE Requeued(tracked, kept)
              /\ command' = IF news /\ Acting THEN [command EXCEPT !.state = "unknown"] ELSE command
              /\ proved' = IF Drift(adapter, installed) = None \/ adapter.info = installed THEN proved
                           ELSE [conf |-> None,
                                 driver |-> IF Drift(adapter, installed) = "physical" THEN None ELSE proved.driver]
         ELSE UNCHANGED <<adapter, runs, command, proved>>
      /\ UNCHANGED <<installed, write, people, vouched, moves>>

ProbeSilent ==
  /\ worker.at = "probe" /\ adapter.conf.kind = "real" /\ adapter.enabled
  /\ worker' = [worker EXCEPT !.at = "deliver"] /\ adapter' = [adapter EXCEPT !.up = FALSE]
  /\ UNCHANGED <<installed, runs, write, command, people, proved, vouched, moves>>

Deliver ==
  /\ worker.at = "deliver" /\ worker' = Idle
  /\ command' = IF command.state # "queued" \/ (adapter.up /\ DispatchHold(adapter, runs) = "wait") THEN command
                ELSE IF ~adapter.up \/ DispatchHold(adapter, runs) = "refuse" THEN [state |-> "none", conf |-> None]
                ELSE [state |-> "acting", conf |-> adapter.conf]
  /\ UNCHANGED <<adapter, installed, runs, write, people, proved, vouched, moves>>

-----------------------------------------------------------------------------
(* Commands, and the executor's end.                                        *)

Enqueue ==
  /\ command.state = "none" /\ Spent("commands")
  /\ command' = [state |-> "queued", conf |-> None]
  /\ UNCHANGED <<adapter, installed, runs, write, worker, people, proved, vouched>>

\* A receipt, a reconciliation or a person's verdict settles the action.
Ends(state) ==
  /\ Acting
  /\ command.state = "unknown" => state = "none"
  /\ command' = [state |-> state, conf |-> IF state = "none" THEN None ELSE command.conf]
  /\ UNCHANGED <<adapter, installed, runs, write, worker, people, proved, vouched, moves>>

Crash ==
  /\ worker.at # "down" /\ Spent("crashes")
  /\ worker' = [Idle EXCEPT !.at = "down"]
  /\ UNCHANGED <<adapter, installed, runs, write, command, people, proved, vouched>>

\* What a run that was interrupted leaves behind.
Orphaned_Mut(a, level) == a

Orphaned(a, level) == IF level = "physical" THEN RequirePhysical(a) ELSE a

\* A write that was under way is never made again.
Undecided_Mut(state) == IF state = "running" THEN "queued" ELSE state

Undecided(state) == IF state = "running" THEN "unknown" ELSE state

Restart ==
  LET ended == Closed("error")
      again == /\ \E run \in Running : run.level = "readonly"
               /\ adapter.conf.kind = "real" /\ adapter.required # None /\ adapter.enabled /\ Active(ended) = {}
  IN  /\ worker.at = "down" /\ worker' = Idle
      /\ adapter' = IF Running = {} THEN adapter ELSE Orphaned(adapter, (CHOOSE run \in Running : TRUE).level)
      /\ runs' = IF again THEN Queued(ended, NewRun(adapter, "readonly", None)) ELSE ended
      /\ write' = [write EXCEPT !.state = Undecided(@)]
      /\ proved' = IF \E run \in Running : run.level = "physical" THEN [proved EXCEPT !.driver = None] ELSE proved
      /\ UNCHANGED <<installed, command, people, vouched, moves>>

AcceptanceNext ==
  \/ Sign \/ Waive \/ ApproveDriver
  \/ \E level \in {"readonly", "physical"} : Ask(level)
  \/ \E run \in runs : CancelRun(run) \/ ClaimRun(run)
  \/ \E conf \in Conf, enabled \in BOOLEAN : UpdateAdapter(conf, enabled)
  \/ ComingBack \/ CameBack \/ GoesDown
  \/ \E driver \in Driver : Swap(driver)
  \/ worker.at = "check" /\ \E verdict \in Verdicts(worker.run.level) : CheckDevice(verdict)
  \/ CheckRaises \/ CloseRun \/ RequireAgain \/ SettleGate
  \/ RequestWrite \/ CancelWrite \/ ToPoint
  \/ \E reaches \in BOOLEAN : WritePoint(reaches)
  \/ \E state \in {"done", "failed", "unknown"} : CloseWrite(state)
  \/ ProbeDevice \/ ProbeSilent \/ Deliver
  \/ Enqueue \/ \E state \in {"none", "unknown"} : Ends(state)
  \/ Crash \/ Restart

-----------------------------------------------------------------------------
(* A command goes out only to a device whose present registration has passed *)
(* an acceptance or was answered for, and has moved under one if its actions *)
(* are used, since its last change, its last incident and the last report of *)
(* its driver that was news. Nothing is said of a driver that was reported   *)
(* before an acceptance saw another one and comes back after it: it is no    *)
(* news (execution_service.py:1818), so nothing is asked for, although       *)
(* acceptance_service.py:719 has every change since the acceptance accepted  *)
(* anew.                                                                     *)
WorksAsAccepted ==
  worker.at = "deliver" /\ DispatchHold(adapter, runs) = "go" /\ adapter.conf.kind = "real" =>
    proved.conf = adapter.conf /\ (adapter.conf.tasks => proved.driver = adapter.conf.driver)

(* The driver that counts as approved is the one the first acceptance saw,   *)
(* or one that was reported when somebody answered for it; the last driver   *)
(* that was approved by name stays so, also when the connection changes.     *)
DriverVouched == adapter.approved # None => adapter.approved \in vouched

(* A physical run moves the device with the connection its signer saw, and   *)
(* while no command may be acting there; a command's connection stays while  *)
(* it may be acting.                                                         *)
MovedAsSigned ==
  /\ worker.at = "check" /\ worker.run.level = "physical" => worker.run.signed = worker.conf /\ ~Acting
  /\ Acting => command.conf = adapter.conf

(* acceptance_service.py, point_service.py, station_service.py: the gate in  *)
(* front of a changed device holds through every order of changes, runs,     *)
(* waivers, driver swaps, crashes and late writers, and a manual write is    *)
(* made at most once.                                                        *)
GateHolds == WorksAsAccepted /\ DriverVouched /\ MovedAsSigned /\ write.made <= 1

=============================================================================
