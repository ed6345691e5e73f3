------------------------------- MODULE MCSite -------------------------------
(*****************************************************************************)
(* What runs beside the flow of the batches, explored part by part: which    *)
(* executor leads, a request under its key, the outbox, the pages that       *)
(* watch, and the plates on their way. The parts share no state, so one run  *)
(* explores them one after another: focus says which of them moves.          *)
(*****************************************************************************)
EXTENDS Integers, Sequences

CONSTANTS
  Parts,    \* the parts this run explores
  None,
  Replica, Command, MaxLeaderUpsets,                              \* Leadership
  Handler, Body, PoolSize, MaxBreaks,                             \* Requests
  Delivery, MaxAttempts, Lease, MaxEdits, MaxSendUpsets,          \* Outbox
  Browser, QueueLimit, MaxChanges, MaxPageUpsets,                 \* Stream
  Person, Plate, Batch, Place, NestOf, Station, MaxScans, MaxTroubles \* Transfers

(* No thing of a part is the mark for its absence.                           *)
ASSUME NoneIsNothing ==
  None \notin Replica \cup Command \cup Handler \cup Body \cup Delivery \cup Batch \cup Place

(* What a pass takes is left alone for a number of time-outs.                *)
ASSUME LeaseIsTime == Lease \in Nat

(* The places of the run: a nest at the station and a hotel beside it.       *)
Nests == [l \in {"hotel", "nest"} |-> IF l = "nest" THEN "station" ELSE None]

VARIABLES
  focus,  \* the part at work
  holder, proc, age, wait, fenced, job, cmds, taken, executor_upsets,
  req, lock, record, changes, outbox, request_answers, breaks,
  row, sub, todo, hand, webhook_seen, sending, received, excused, edits, webhook_upsets,
  version, hub, connected, notes, live, queue, stale, asked, page_answers, page_seen,
  page_upsets,
  labware_plate, labware_at, logged, xfer, batch, act, active, labware_scan, scans, troubles

executorVars == <<holder, proc, age, wait, fenced, job, cmds, taken, executor_upsets>>
requestVars == <<req, lock, record, changes, outbox, request_answers, breaks>>
outboxVars == <<row, sub, todo, hand, webhook_seen, sending, received, excused, edits,
                webhook_upsets>>
pageVars == <<version, hub, connected, notes, live, queue, stale, asked, page_answers,
              page_seen, page_upsets>>
plateVars == <<labware_plate, labware_at, logged, xfer, batch, act, active, labware_scan,
               scans, troubles>>
vars == <<focus, executorVars, requestVars, outboxVars, pageVars, plateVars>>

Executor == INSTANCE Leadership WITH MaxUpsets <- MaxLeaderUpsets, upsets <- executor_upsets
Request == INSTANCE Requests WITH answers <- request_answers
Webhook == INSTANCE Outbox WITH MaxUpsets <- MaxSendUpsets, seen <- webhook_seen,
                                upsets <- webhook_upsets
Page == INSTANCE Stream WITH MaxUpsets <- MaxPageUpsets, answers <- page_answers,
                             seen <- page_seen, upsets <- page_upsets
Labware == INSTANCE Transfers WITH plate <- labware_plate, at <- labware_at,
                                   scan <- labware_scan

Init ==
  /\ focus \in Parts
  /\ Executor!Init
  /\ Request!Init
  /\ Webhook!Init
  /\ Page!Init
  /\ Labware!Init

Next ==
  /\ focus' = focus
  /\ \/ focus = "executor" /\ Executor!Next
        /\ UNCHANGED <<requestVars, outboxVars, pageVars, plateVars>>
     \/ focus = "request" /\ Request!Next
        /\ UNCHANGED <<executorVars, outboxVars, pageVars, plateVars>>
     \/ focus = "outbox" /\ Webhook!Next
        /\ UNCHANGED <<executorVars, requestVars, pageVars, plateVars>>
     \/ focus = "page" /\ Page!Next
        /\ UNCHANGED <<executorVars, requestVars, outboxVars, plateVars>>
     \/ focus = "plate" /\ Labware!Next
        /\ UNCHANGED <<executorVars, requestVars, outboxVars, pageVars>>

Spec == Init /\ [][Next]_vars

-----------------------------------------------------------------------------
(* Two replicas never work at a time, and no command is driven by both      *)
(* (Leadership).                                                            *)
OneHandAtATime == Executor!OneHandAtATime

(* Somebody always comes to lead again and every command gets its verdict.  *)
AllSettled == (focus = "executor" /\ Executor!Fairness) => Executor!AllSettled

(* What one key asks for happens once and whole, and that is what everybody *)
(* is told (Requests).                                                      *)
OnceAndTold == Request!OnceAndTold

(* No request hangs on the connection pool or on the lock of its key.       *)
EveryRequestEnds == (focus = "request" /\ Request!Fairness) => Request!EveryRequestEnds

(* An event that is delivered was received, and one given up for dead was   *)
(* tried often enough (Outbox).                                             *)
NothingLost == Webhook!NothingLost

(* Every event is delivered or given up in the end.                         *)
EveryDeliverySettles == (focus = "outbox" /\ Webhook!Fairness) => Webhook!EveryDeliverySettles

(* Every page shows the last version once nothing changes (Stream).         *)
PagesCatchUp == (focus = "page" /\ Page!Fairness) => Page!PagesCatchUp

(* web/src/shared/stream.ts: the changes of a break are made good by the    *)
(* fetch after it.                                                          *)
BreaksAreMadeGood == focus = "page" => Page!BreaksAreMadeGood

(* Each plate has a place of its own and is where its log says (Transfers).  *)
PlatesAccountedFor == Labware!PlatesAccountedFor

=============================================================================
