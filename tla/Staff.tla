---------------------------------- MODULE Staff ----------------------------------
(*****************************************************************************)
(* The people and what they are qualified for, against the work they are     *)
(* given: work is assigned ahead, for the window it is scheduled in, and     *)
(* taken up later, when everything about the person may have changed.        *)
(*****************************************************************************)
EXTENDS Integers, Sequences, FiniteSets

CONSTANTS
  None,
  Worker,     \* the accounts work can be given to
  Need,       \* what the steps of a piece of work need: capabilities, SOPs, safety classes
  MaxMoment, MaxQualifications, MaxJobs, MaxUpsetsOfStaff  \* bounds

VARIABLES
  moment,
  person,          \* [account, employment] of the person of an account, or None
  qualifications,  \* [of, for, from, expires, revoked]
  jobs,            \* [worker, from, to, state, steady], steady a ghost: nothing was taken from
                   \* whoever has it since it was given
  upsetsOfStaff    \* bound

staffVars == <<moment, person, qualifications, jobs, upsetsOfStaff>>

Moments == 0..MaxMoment
Periods == {w \in [from : Moments, to : Moments] : w.from < w.to}

-----------------------------------------------------------------------------
(* Who is qualified.                                                        *)

ValidAt_Mut(q, at) == q.from <= at /\ (q.expires # None => at <= q.expires)

ValidAt(q, at) ==
  /\ q.revoked # None => at < q.revoked
  /\ q.from <= at
  /\ q.expires # None => at <= q.expires

Employable_Mut(u) == person[u] # None /\ person[u].employment # "left"

Employable(u) ==
  /\ person[u] # None
  /\ person[u].account = "active"
  /\ person[u].employment = "on_duty"

HeldBy(u, need) == {n \in DOMAIN qualifications : qualifications[n].of = u /\ qualifications[n].for = need}

\* Nothing stands in the way of this account doing the work at this moment.
Fit(u, at) ==
  /\ Employable(u)
  /\ \A need \in Need : \E n \in HeldBy(u, need) : ValidAt(qualifications[n], at)

\* One look at the beginning of the window, and one at its end.
FitForWindow_Mut(u, from, to) == Fit(u, from)

FitForWindow(u, from, to) == Fit(u, from) /\ (to > from => Fit(u, to))

-----------------------------------------------------------------------------
(* The people.                                                              *)

CreatePerson(u) ==
  /\ person[u] = None
  /\ person' = [person EXCEPT ![u] = [account |-> "active", employment |-> "on_duty"]]
  /\ UNCHANGED <<moment, qualifications, jobs, upsetsOfStaff>>

\* Whoever has work feels what is taken from them.
Unsteady(u) == [j \in DOMAIN jobs |-> IF jobs[j].worker = u THEN [jobs[j] EXCEPT !.steady = FALSE] ELSE jobs[j]]

UpdatePerson(u, employment) ==
  /\ upsetsOfStaff < MaxUpsetsOfStaff
  /\ person[u] # None
  /\ person' = [person EXCEPT ![u].employment = employment]
  /\ jobs' = IF employment = "on_duty" THEN jobs ELSE Unsteady(u)
  /\ upsetsOfStaff' = upsetsOfStaff + 1
  /\ UNCHANGED <<moment, qualifications>>

SetAccount(u, state) ==
  /\ upsetsOfStaff < MaxUpsetsOfStaff
  /\ person[u] # None
  /\ person' = [person EXCEPT ![u].account = state]
  /\ jobs' = IF state = "active" THEN jobs ELSE Unsteady(u)
  /\ upsetsOfStaff' = upsetsOfStaff + 1
  /\ UNCHANGED <<moment, qualifications>>

\* A qualification may begin later than it is granted, or earlier.
Grant(u, need, from, expires) ==
  /\ Len(qualifications) < MaxQualifications
  /\ person[u] # None
  /\ expires # None => expires > from
  /\ qualifications' = Append(qualifications, [of |-> u, for |-> need, from |-> from, expires |-> expires, revoked |-> None])
  /\ UNCHANGED <<moment, person, jobs, upsetsOfStaff>>

\* At once; what runs on a device goes on.
Revoke(n) ==
  /\ upsetsOfStaff < MaxUpsetsOfStaff
  /\ qualifications[n].revoked = None
  /\ qualifications' = [qualifications EXCEPT ![n].revoked = moment]
  /\ jobs' = Unsteady(qualifications[n].of)
  /\ upsetsOfStaff' = upsetsOfStaff + 1
  /\ UNCHANGED <<moment, person>>

-----------------------------------------------------------------------------
(* The work.                                                                *)

Assign(u, w) ==
  /\ Len(jobs) < MaxJobs
  /\ FitForWindow(u, w.from, w.to)
  /\ jobs' = Append(jobs, [worker |-> u, from |-> w.from, to |-> w.to, state |-> "pending_accept", steady |-> TRUE])
  /\ UNCHANGED <<moment, person, qualifications, upsetsOfStaff>>

\* Given to somebody else, it has to be taken again.
Reassign(j, u) ==
  /\ jobs[j].worker # u
  /\ jobs[j].state \in {"pending_accept", "accepted"}
  /\ FitForWindow(u, jobs[j].from, jobs[j].to)
  /\ jobs' = [jobs EXCEPT ![j].worker = u, ![j].state = "pending_accept", ![j].steady = TRUE]
  /\ UNCHANGED <<moment, person, qualifications, upsetsOfStaff>>

Accept(j) ==
  /\ jobs[j].state = "pending_accept"
  /\ Fit(jobs[j].worker, moment)
  /\ jobs' = [jobs EXCEPT ![j].state = "accepted"]
  /\ UNCHANGED <<moment, person, qualifications, upsetsOfStaff>>

\* The batch starts or goes on: whoever has it is looked at again, for what is left of the window.
Begins(j) == FitForWindow(jobs[j].worker, jobs[j].from, jobs[j].to)
GoesOn(j) == FitForWindow(jobs[j].worker, moment, jobs[j].to)

Dispatch(j) ==
  /\ jobs[j].state = "accepted"
  /\ Begins(j)
  /\ jobs' = [jobs EXCEPT ![j].state = "running"]
  /\ UNCHANGED <<moment, person, qualifications, upsetsOfStaff>>

Hold(j) ==
  /\ jobs[j].state = "running"
  /\ jobs' = [jobs EXCEPT ![j].state = "paused"]
  /\ UNCHANGED <<moment, person, qualifications, upsetsOfStaff>>

Recover(j) ==
  /\ jobs[j].state = "paused"
  /\ GoesOn(j)
  /\ jobs' = [jobs EXCEPT ![j].state = "running"]
  /\ UNCHANGED <<moment, person, qualifications, upsetsOfStaff>>

Pass ==
  /\ moment < MaxMoment
  /\ moment' = moment + 1
  /\ UNCHANGED <<person, qualifications, jobs, upsetsOfStaff>>

-----------------------------------------------------------------------------
StaffInit ==
  /\ moment = 0
  /\ person = [u \in Worker |-> None]
  /\ qualifications = <<>>
  /\ jobs = <<>>
  /\ upsetsOfStaff = 0

StaffNext ==
  \/ \E u \in Worker :
       \/ CreatePerson(u)
       \/ \E employment \in {"on_duty", "leave", "left"} : UpdatePerson(u, employment)
       \/ \E state \in {"active", "disabled"} : SetAccount(u, state)
       \/ \E need \in Need, from \in Moments, expires \in Moments \cup {None} : Grant(u, need, from, expires)
       \/ \E w \in Periods : Assign(u, w)
       \/ \E j \in DOMAIN jobs : Reassign(j, u)
  \/ \E n \in DOMAIN qualifications : Revoke(n)
  \/ \E j \in DOMAIN jobs : Accept(j) \/ Dispatch(j) \/ Hold(j) \/ Recover(j)
  \/ Pass

StaffSpec == StaffInit /\ [][StaffNext]_staffVars

-----------------------------------------------------------------------------
\* At this moment the qualification has begun, has not run out and was not taken back.
InForce(q, at) ==
  /\ at \in q.from..(IF q.expires = None THEN MaxMoment ELSE q.expires)
  /\ q.revoked \in {None} \cup (at + 1)..MaxMoment

OnDuty(u) == person[u] # None /\ person[u] = [account |-> "active", employment |-> "on_duty"]

\* For everything one qualification covers the whole window.
Unbroken(j) ==
  \A need \in Need : \E n \in HeldBy(jobs[j].worker, need) :
    qualifications[n].revoked = None /\ \A at \in jobs[j].from..jobs[j].to : InForce(qualifications[n], at)

(* Work is only given to somebody on duty, and for a window whose two ends   *)
(* are covered by what this person is qualified for; and as long as nothing  *)
(* is taken from this person it is not refused to take it up, to start it or *)
(* to go on with it in its window, unless two qualifications leave a gap     *)
(* between the two moments that are looked at.                               *)
GivenIsCovered ==
  \A j \in DOMAIN jobs : jobs[j].steady =>
    /\ OnDuty(jobs[j].worker)
    /\ \A need \in Need, at \in {jobs[j].from, jobs[j].to} :
         \E n \in HeldBy(jobs[j].worker, need) : InForce(qualifications[n], at)

GivenIsKept ==
  \A j \in DOMAIN jobs :
    jobs[j].steady /\ Unbroken(j) =>
      \A at \in jobs[j].from..jobs[j].to : Fit(jobs[j].worker, at) /\ FitForWindow(jobs[j].worker, at, jobs[j].to)

StaffHolds == GivenIsKept /\ GivenIsCovered
================================================================================
