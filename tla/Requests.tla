------------------------------ MODULE Requests ------------------------------
(***************************************************************************)
(* A write request from its arrival to its answer (api/deps.py, core/db.py, *)
(* core/events.py).  The guard takes a lock for the idempotency key on a    *)
(* connection of its own, answers from the record of an earlier request, or *)
(* lets the service work with its commits held back, and commits the        *)
(* business change, the record of the key and the events for the outside    *)
(* world together.  Clients repeat a request whose answer they have lost.   *)
(***************************************************************************)
EXTENDS Integers, Sequences, Functions

CONSTANTS
  Handler,   \* threads of the API processes, one request each
  Body,      \* what a client may send under the one key of the model
  None,      \* no body, no holder
  PoolSize,  \* connections of the pool
  MaxBreaks  \* bound: broken connections and processes that die

VARIABLES
  req,     \* [Handler -> what it serves, how far it is, what it has done]
  lock,    \* who holds the advisory lock of the key
  record,  \* the body remembered under the key, None without a record
  changes, \* the business changes of every commit, in order
  outbox,  \* the events of every commit, in order
  answers, \* what clients asked for under the key and were told
  breaks

rvars == <<req, lock, record, changes, outbox, answers, breaks>>

Idle == [at |-> "idle", body |-> None, conns |-> 0, defer |-> FALSE,
         work |-> {}, events |-> {}, reply |-> None]
Used == FoldFunction(+, 0, [h \in Handler |-> req[h].conns])
Free == PoolSize - Used

Init ==
  /\ req = [h \in Handler |-> Idle] /\ lock = None /\ record = None
  /\ changes = <<>> /\ outbox = <<>> /\ answers = {} /\ breaks = 0

Step(h, from, r) == req[h].at = from /\ req' = [req EXCEPT ![h] = r]
Same == UNCHANGED <<lock, record, changes, outbox, answers, breaks>>

-----------------------------------------------------------------------------
(* Two connections for one request: the session's, open since the token was *)
(* checked, and the guard's.  Who finds the pool empty gives up in the end;  *)
(* who finds it empty on arrival has done nothing and is not in the model.   *)

Arrive(h, b) ==
  /\ Free > 0 /\ Step(h, "idle", [Idle EXCEPT !.at = "known", !.body = b, !.conns = 1]) /\ Same

Connect(h) ==
  /\ Free > 0 /\ Step(h, "known", [req[h] EXCEPT !.at = "waits", !.conns = 2]) /\ Same

GivesUp_Mut(h) == req[h].at = "arrived"
GivesUp(h) == req[h].at = "known"
PoolTimeout(h) ==
  /\ Free = 0 /\ GivesUp(h) /\ req' = [req EXCEPT ![h].at = "ending"] /\ Same

AcquireLock(h) ==
  /\ lock = None /\ Step(h, "waits", [req[h] EXCEPT !.at = "locked"]) /\ lock' = h
  /\ UNCHANGED <<record, changes, outbox, answers, breaks>>

(* The answer of the first request, a refusal when the body is another one, *)
(* or the start of the work.                                                *)
Conflicts_Mut(h) == FALSE
Conflicts(h) == record # req[h].body
Replay(h) ==
  /\ Step(h, "locked",
          IF record = None THEN [req[h] EXCEPT !.at = "working", !.defer = TRUE]
          ELSE [req[h] EXCEPT !.at = "ending", !.reply = IF Conflicts(h) THEN None ELSE record])
  /\ Same

-----------------------------------------------------------------------------
(* The service.  Its commit only flushes; an event is kept with the chain   *)
(* of transactions it was registered in.                                    *)

Did(r, what, nested) ==
  [r EXCEPT !.work   = @ \cup {[what |-> what, nested |-> nested]},
            !.events = @ \cup {[what |-> what, nested |-> nested]}]

ServiceCommit_Mut(h, r) ==
  /\ req' = [req EXCEPT ![h] = [r EXCEPT !.work = {}, !.events = {}]]
  /\ changes' = Append(changes, r.work) /\ outbox' = Append(outbox, r.events)
  /\ UNCHANGED <<lock, record, answers, breaks>>
ServiceCommit(h, r) ==
  IF r.defer
  THEN req' = [req EXCEPT ![h] = r] /\ Same
  ELSE /\ req' = [req EXCEPT ![h] = [r EXCEPT !.work = {}, !.events = {}]]
       /\ changes' = Append(changes, r.work) /\ outbox' = Append(outbox, r.events)
       /\ UNCHANGED <<lock, record, answers, breaks>>

Serve(h) ==
  /\ req[h].at = "working"
  /\ ServiceCommit(h, [Did(req[h], "main", FALSE) EXCEPT !.at = "served"])

OpenSavepoint(h) ==
  /\ Step(h, "served", [Did(req[h], "inner", TRUE) EXCEPT !.at = "nested"]) /\ Same

Discarded_Mut(events) == {}
Discarded(events) == {e \in events : ~e.nested}
RollbackSavepoint(h) ==
  /\ Step(h, "nested", [req[h] EXCEPT !.at = "ready", !.work = {e \in @ : ~e.nested},
                                      !.events = Discarded(@)])
  /\ Same

Outer(s) == {[e EXCEPT !.nested = FALSE] : e \in s}
ReleaseSavepoint(h) ==
  /\ Step(h, "nested", [req[h] EXCEPT !.at = "ready", !.work = Outer(@), !.events = Outer(@)])
  /\ Same

-----------------------------------------------------------------------------
(* The end.  The record of a key is unique: who comes second, because the   *)
(* lock was lost with its connection, fails and rolls back.                  *)

Rollback(r) == [r EXCEPT !.at = "ending", !.work = {}, !.events = {}, !.defer = FALSE]

Remember(h) ==
  /\ req[h].at \in {"served", "ready"}
  /\ IF record = None
     THEN /\ req' = [req EXCEPT ![h] = [Rollback(req[h]) EXCEPT !.reply = req[h].body]]
          /\ record' = req[h].body
          /\ changes' = Append(changes, req[h].work) /\ outbox' = Append(outbox, req[h].events)
     ELSE /\ req' = [req EXCEPT ![h] = Rollback(req[h])]
          /\ UNCHANGED <<record, changes, outbox>>
  /\ UNCHANGED <<lock, answers, breaks>>

Abort(h) ==
  /\ req[h].at \in {"working", "served", "nested", "ready"}
  /\ req' = [req EXCEPT ![h] = Rollback(req[h])] /\ Same

Unlock(h) == lock' = IF lock = h THEN None ELSE lock

Answer(h, arrives) ==
  /\ Step(h, "ending", Idle) /\ Unlock(h)
  /\ answers' = IF arrives /\ req[h].reply # None THEN answers \cup {[asked |-> req[h].body, told |-> req[h].reply]} ELSE answers
  /\ UNCHANGED <<record, changes, outbox, breaks>>

Break == breaks < MaxBreaks /\ breaks' = breaks + 1

LoseLock(h) ==
  /\ lock = h /\ Break /\ lock' = None
  /\ UNCHANGED <<req, record, changes, outbox, answers>>

Die(h) ==
  /\ req[h].at # "idle" /\ Break /\ req' = [req EXCEPT ![h] = Idle] /\ Unlock(h)
  /\ UNCHANGED <<record, changes, outbox, answers>>

Work(h) == Serve(h) \/ RollbackSavepoint(h) \/ ReleaseSavepoint(h) \/ Remember(h)
Next ==
  \E h \in Handler :
    \/ \E b \in Body : Arrive(h, b)
    \/ Connect(h) \/ PoolTimeout(h) \/ AcquireLock(h) \/ Replay(h)
    \/ OpenSavepoint(h) \/ Work(h) \/ Abort(h)
    \/ \E arrives \in BOOLEAN : Answer(h, arrives)
    \/ LoseLock(h) \/ Die(h)

(* A thread goes on while it can; the lock and the pool serve who waits.     *)
Fairness == \A h \in Handler :
  /\ WF_rvars(PoolTimeout(h) \/ Connect(h) \/ Replay(h) \/ Work(h))
  /\ SF_rvars(AcquireLock(h))
  /\ WF_rvars(\E arrives \in BOOLEAN : Answer(h, arrives))

-----------------------------------------------------------------------------
Whole(s) == {e.what : e \in s}
What(log) == [i \in DOMAIN log |-> Whole(log[i])]

(* A key has at most one record, its business change is in the database     *)
(* once, whole, exactly when the record is, and the events the outside       *)
(* world will get are those of the changes that were kept.                    *)
AllOrNothing ==
  /\ What(outbox) = What(changes)
  /\ record = None => changes = <<>>
  /\ record # None => What(changes) \in {<<{"main"}>>, <<{"main", "inner"}>>}

(* Whatever a client has been told under the key is what was committed and  *)
(* what this client had asked for: no answer of another request, and no      *)
(* answer of a change that was rolled back.                                   *)
AnswersAgree == \A a \in answers : a.asked = record /\ a.told = record

(* No request hangs: not on the pool that other requests with one           *)
(* connection each have drained, and not on the lock of its key.              *)
EveryRequestEnds == \A h \in Handler : []<>(req[h].at = "idle")

(* What one key asks for happens once and whole, and that is what everybody *)
(* is told (idempotency guard in api/deps.py over core/db.py).              *)
OnceAndTold == AllOrNothing /\ AnswersAgree

=============================================================================
