----------------------------- MODULE Leadership -----------------------------
(***************************************************************************)
(* Which executor process may act (services/leadership.py,                 *)
(* services/executor_runtime.py, executor/main.py).  The replicas compete   *)
(* for a session lock of the database; the one that gets it waits out a     *)
(* grace period, then takes up commands through jobs of its thread pool.    *)
(* When the connection that holds the lock breaks, the lock is free at      *)
(* once, while the jobs of the old process go on until its watchdog has     *)
(* noticed and ends the process.  Time passes in watchdog intervals: a live *)
(* process finds out within one of them.                                    *)
(***************************************************************************)
EXTENDS Integers, FiniteSets

CONSTANTS
  Replica,    \* executor processes
  Command,    \* commands for one station, in the queue at the start
  None,       \* no replica, no command
  MaxUpsets   \* bound: lost locks, crashes and stops

LeaseCheck    == 1                 \* LEASE_CHECK_SEC, in watchdog intervals
TakeoverGrace_Mut == LeaseCheck
TakeoverGrace == 3 * LeaseCheck    \* TAKEOVER_GRACE_SEC

VARIABLES
  holder,   \* whose connection holds the advisory lock
  proc,     \* "down", "standby", "grace" (has the lock, waits), "leading"
  age,      \* intervals since the replica lost the lock
  wait,     \* intervals of grace left
  fenced,   \* the lost flag: no new work is begun
  job,      \* the job of the station: [cmd, at]
  cmds,     \* "queued", "maybe" (sent perhaps), "done", "unknown"
  taken,    \* how often the device has taken the command up
  upsets

vars == <<holder, proc, age, wait, fenced, job, cmds, taken, upsets>>

NoJob == [cmd |-> None, at |-> "none"]
Alive(n) == proc[n] \in {"standby", "grace", "leading"}
Former(n) == proc[n] \in {"grace", "leading"} /\ holder # n

Init ==
  /\ holder = None /\ proc = [n \in Replica |-> "standby"]
  /\ age = [n \in Replica |-> 0] /\ wait = [n \in Replica |-> 0]
  /\ fenced = [n \in Replica |-> FALSE] /\ job = [n \in Replica |-> NoJob]
  /\ cmds = [c \in Command |-> "queued"] /\ taken = [c \in Command |-> 0]
  /\ upsets = 0

Upset == upsets < MaxUpsets /\ upsets' = upsets + 1

(* The end of a process: its threads and its connections are gone with it.  *)
FreedBy_Mut(n) == holder
FreedBy(n) == IF holder = n THEN None ELSE holder
Exits(n) ==
  /\ proc' = [proc EXCEPT ![n] = "down"]
  /\ job' = [job EXCEPT ![n] = NoJob]
  /\ holder' = FreedBy(n)
  /\ fenced' = [fenced EXCEPT ![n] = FALSE]

-----------------------------------------------------------------------------
(* Becoming the one that acts.                                              *)

Acquire(n) ==
  /\ proc[n] = "standby" /\ holder = None
  /\ holder' = n /\ proc' = [proc EXCEPT ![n] = "grace"]
  /\ wait' = [wait EXCEPT ![n] = TakeoverGrace]
  /\ age' = [age EXCEPT ![n] = 0]
  /\ UNCHANGED <<fenced, job, cmds, taken, upsets>>

TakeOver(n) ==
  /\ proc[n] = "grace" /\ wait[n] = 0
  /\ proc' = [proc EXCEPT ![n] = "leading"]
  /\ UNCHANGED <<holder, age, wait, fenced, job, cmds, taken, upsets>>

LoseLock(n) ==
  /\ holder = n /\ Upset /\ holder' = None
  /\ UNCHANGED <<proc, age, wait, fenced, job, cmds, taken>>

(* The watchdog finds the lock gone, or the flag raised by a job: the       *)
(* process ends without waiting for the jobs that run.                      *)
Watch(n) ==
  /\ Former(n) \/ (Alive(n) /\ fenced[n])
  /\ Exits(n)
  /\ UNCHANGED <<age, wait, cmds, taken, upsets>>

Tick ==
  /\ \A n \in Replica : Former(n) => age[n] < LeaseCheck
  /\ \E n \in Replica : Former(n) \/ (proc[n] = "grace" /\ wait[n] > 0)
  /\ age'  = [n \in Replica |-> IF Former(n) THEN age[n] + 1 ELSE age[n]]
  /\ wait' = [n \in Replica |-> IF proc[n] = "grace" /\ wait[n] > 0 THEN wait[n] - 1 ELSE wait[n]]
  /\ UNCHANGED <<holder, proc, fenced, job, cmds, taken, upsets>>

(* The process dies or is stopped (then its jobs have been drained).         *)
Crash(n) ==
  /\ Alive(n) /\ Upset /\ Exits(n)
  /\ UNCHANGED <<age, wait, cmds, taken>>

Restart(n) ==
  /\ proc[n] = "down" /\ proc' = [proc EXCEPT ![n] = "standby"]
  /\ UNCHANGED <<holder, age, wait, fenced, job, cmds, taken, upsets>>

-----------------------------------------------------------------------------
(* The jobs.  Every claim and every receipt asks, in its own transaction,   *)
(* whether this process still has the lock; the answer may be out of date   *)
(* when the transaction commits.                                            *)

Submit(n, c) ==
  /\ proc[n] = "leading" /\ ~fenced[n] /\ job[n] = NoJob /\ cmds[c] = "queued"
  /\ job' = [job EXCEPT ![n] = [cmd |-> c, at |-> "submitted"]]
  /\ UNCHANGED <<holder, proc, age, wait, fenced, cmds, taken, upsets>>

Verify(n, from, to) ==
  /\ job[n].at = from
  /\ IF fenced[n] \/ holder # n
     THEN fenced' = [fenced EXCEPT ![n] = TRUE] /\ job' = [job EXCEPT ![n] = NoJob]
     ELSE job' = [job EXCEPT ![n].at = to] /\ UNCHANGED fenced
  /\ UNCHANGED <<holder, proc, age, wait, cmds, taken, upsets>>

BeforeClaim(n)   == Verify(n, "submitted", "may_claim")
BeforeReceipt(n) == Verify(n, "called", "may_settle")

(* Possibly sent, committed before the device is called.                    *)
Marked_Mut(c) == cmds
Marked(c) == [cmds EXCEPT ![c] = "maybe"]
Claim(n) ==
  /\ job[n].at = "may_claim"
  /\ cmds' = Marked(job[n].cmd) /\ job' = [job EXCEPT ![n].at = "claimed"]
  /\ UNCHANGED <<holder, proc, age, wait, fenced, taken, upsets>>

Call(n) ==
  /\ job[n].at = "claimed"
  /\ taken' = [taken EXCEPT ![job[n].cmd] = @ + 1] /\ job' = [job EXCEPT ![n].at = "called"]
  /\ UNCHANGED <<holder, proc, age, wait, fenced, cmds, upsets>>

Settle(n) ==
  /\ job[n].at = "may_settle"
  /\ cmds' = [cmds EXCEPT ![job[n].cmd] = "done"] /\ job' = [job EXCEPT ![n] = NoJob]
  /\ UNCHANGED <<holder, proc, age, wait, fenced, taken, upsets>>

(* What an earlier process left half sent: the device is asked, and what it *)
(* does not know of is left to a person.                                    *)
Reconcile(n, c) ==
  /\ proc[n] = "leading" /\ ~fenced[n] /\ holder = n /\ job[n] = NoJob /\ cmds[c] = "maybe"
  /\ cmds' = [cmds EXCEPT ![c] = IF taken[c] > 0 THEN "done" ELSE "unknown"]
  /\ UNCHANGED <<holder, proc, age, wait, fenced, job, taken, upsets>>

Next ==
  \/ Tick
  \/ \E n \in Replica :
       \/ Acquire(n) \/ TakeOver(n) \/ LoseLock(n) \/ Watch(n) \/ Crash(n) \/ Restart(n)
       \/ BeforeClaim(n) \/ Claim(n) \/ Call(n) \/ BeforeReceipt(n) \/ Settle(n)
       \/ \E c \in Command : Submit(n, c) \/ Reconcile(n, c)

Spec == Init /\ [][Next]_vars

(* Containers are restarted, watchdogs and time go on, a waiting replica    *)
(* keeps trying for the lock.                                               *)
Fairness ==
  /\ WF_vars(Tick)
  /\ \A n \in Replica : WF_vars(Watch(n)) /\ WF_vars(TakeOver(n)) /\ WF_vars(Restart(n))
  /\ WF_vars(\E n \in Replica : Acquire(n))
  /\ \A n \in Replica : WF_vars(BeforeClaim(n) \/ Claim(n) \/ Call(n) \/ BeforeReceipt(n) \/ Settle(n))
  /\ \A c \in Command : WF_vars(\E n \in Replica : Submit(n, c) \/ Reconcile(n, c))

-----------------------------------------------------------------------------

(* No replica starts to reconcile and to deliver while the jobs of another  *)
(* can still reach a device or write a receipt.                             *)
OneAtWork ==
  \A n, m \in Replica : n # m /\ proc[n] = "leading" => job[m] = NoJob

(* A command is taken up by the device once, whoever delivers it.           *)
TakenOnce == \A c \in Command : taken[c] <= 1

(* Somebody always comes to lead again, and in the end every command has    *)
(* its verdict.                                                             *)
AllSettled == <>[](\A c \in Command : cmds[c] \in {"done", "unknown"})

(* Two replicas never work at a time, and no command is driven by both.     *)
OneHandAtATime == OneAtWork /\ TakenOnce

=============================================================================
