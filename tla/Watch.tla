---------------------------------- MODULE Watch ----------------------------------
(*****************************************************************************)
(* What the system notices by itself: the monitor that turns the state of a  *)
(* station into alarms, each of a condition while it lasts; the persons      *)
(* who acknowledge, shelve, clear and close them; and the exception engine,  *)
(* which writes down what happened and, where a rule says so, handles a      *)
(* failed action without asking anybody.                                     *)
(*                                                                           *)
(* One station and the batch that uses it. A station is judged by the monitor's *)
(* pass and by the transaction of a device's report, which run at the same   *)
(* time: each looks at the open alarms and writes what follows from that.    *)
(* Nothing is locked between the look and the write, so both may raise an    *)
(* alarm of one condition, and one may take back what the other just found.  *)
(*****************************************************************************)
EXTENDS Integers, Sequences, FiniteSets, SequencesExt

CONSTANTS
  None,
  Windows,                 \* the windows booked on the station, still to begin
  Skippable,               \* may the step of the batch be left out?
  WatchScenarios,          \* [probed, rules, may]: who asks, the rules by priority, and how much may happen
  StaleAfter, Grace, Delay,
  MaxWatchTime, MaxAlarms  \* bounds

VARIABLES
  hour,
  device,      \* the device itself: [reach, interlock]
  row,         \* what is known of it: [probed, enabled, connected, interlock, beat, awaiting]
  retired,     \* is the station?
  looks,       \* the evaluations under way: [row, found, upset], or None; upset a ghost: meanwhile somebody
               \* cleared a condition, or an evaluation of other contents of the row came to its end
  alarms,      \* [key, state, active]
  events,      \* [source, of, category, auto, state]
  windows,     \* where each window is and whether its step was opened
  rules,       \* [category, action, limit, enabled], first one first
  batch, run,  \* the batch, and its step
  actions,     \* the commands of the step: [type, state, delivery, started, got, auto], got a ghost: the device has it
  judged,      \* ghost: the row as the last evaluation left it, while nothing has happened since
  may         \* bounds

watchVars == <<hour, device, row, retired, looks, alarms, events, windows, rules, batch, run, actions, judged, may>>

Names == {"interlock", "disconnected", "heartbeat_stale"}
Position == [interlock |-> 1, disconnected |-> 2, heartbeat_stale |-> 3]
Keys == <<"first", "second", "third">>   \* the alarm of each action
Evaluators == {"monitor", "report"}
NewAlarm(key) == [key |-> key, state |-> "active", active |-> TRUE]
Spend(what) == may[what] > 0 /\ may' = [may EXCEPT ![what] = @ - 1]

-----------------------------------------------------------------------------
(* The conditions of a station.                                             *)

AwaitingHandshake(r) == r.awaiting # None /\ ~r.connected /\ hour - r.awaiting < Grace

RecentlyLost_Mut(r) == r.probed /\ ~r.connected /\ r.beat # None

RecentlyLost(r) ==
  /\ r.probed /\ ~r.connected /\ r.awaiting = None
  /\ r.beat # None
  /\ hour - r.beat < Delay

Stale(r) == IF r.beat = None THEN TRUE ELSE hour - r.beat > StaleAfter

Holds(r, name) ==
  CASE name = "interlock" -> r.interlock
    [] name = "disconnected" -> r.enabled /\ ~r.connected
    [] OTHER -> r.enabled /\ r.connected /\ Stale(r)

\* A device just reconfigured, or just lost, is not reported yet, nor is its alarm taken back.
Undecided(r, name) == name = "disconnected" /\ Holds(r, name) /\ (AwaitingHandshake(r) \/ RecentlyLost(r))

OpenBy_Mut(key) == {n \in DOMAIN alarms : alarms[n].key = key /\ alarms[n].active /\ alarms[n].state = "active"}

OpenBy(key) == {n \in DOMAIN alarms : alarms[n].key = key /\ alarms[n].active /\ alarms[n].state # "closed"}

-----------------------------------------------------------------------------
(* The rules of the exception engine.                                       *)

Classify(name) == IF name = "interlock" THEN "safety" ELSE "communication"

Driving == {"retry", "reroute", "skip"}

\* How often this step was driven again without asking.
Attempts_Mut == Cardinality({n \in DOMAIN events : events[n].of = "step" /\ events[n].auto = "retry"})

Attempts == Cardinality({n \in DOMAIN events : events[n].of = "step" /\ events[n].auto \in {"retry", "reroute"}})

Matching(category) == SelectSeq(rules, LAMBDA r : r.enabled /\ r.category = category)

Decide_Mut(category, neverSent, skippable, attempts) ==
  LET rule == Matching(category)[1]
  IN IF category = "safety" \/ Matching(category) = <<>> THEN "hold"
     ELSE IF rule.action \in {"retry", "reroute"} /\ attempts >= rule.limit THEN "hold"
     ELSE rule.action

Decide(category, neverSent, skippable, attempts) ==
  LET rule == Matching(category)[1]
  IN IF \/ category = "safety"
        \/ Matching(category) = <<>>
        \/ rule.action \in Driving /\ ~neverSent
        \/ rule.action = "skip" /\ ~skippable
        \/ rule.action \in {"retry", "reroute"} /\ attempts >= rule.limit
     THEN "hold" ELSE rule.action

Event(source, of, category) ==
  [source |-> source, of |-> of, category |-> category, auto |-> None, state |-> "open"]

-----------------------------------------------------------------------------
(* A condition of the station: the windows that may go elsewhere go there,  *)
(* or a proposal is made.                                                   *)

Movable == {w \in Windows : windows[w].here /\ windows[w].begins > hour}

\* What is booked here and has not begun: moved, if its step was not opened and another station has room.
RerouteFutureWindows(room) == {w \in Movable : ~windows[w].opened /\ w \in room}

\* Without a rule whatever is not safety is proposed to be rescheduled, if the station has windows at all.
Proposed_Mut(category) == Matching(category) = <<>> \/ Decide(category, TRUE, FALSE, 0) = "reschedule"

Proposed(category) ==
  IF Matching(category) = <<>> THEN category # "safety"
  ELSE Decide(category, TRUE, FALSE, 0) = "reschedule"

OnStationCondition(name, room) ==
  LET e == Event("station", name, Classify(name))
  IN IF Decide(e.category, TRUE, FALSE, 0) = "reroute"
     THEN [e EXCEPT !.auto = "reroute",
                    !.state = IF Movable # {} /\ RerouteFutureWindows(room) = Movable THEN "auto_resolved" ELSE @]
     ELSE IF Proposed(e.category) /\ \E w \in Windows : windows[w].here THEN [e EXCEPT !.auto = "reschedule"]
     ELSE e

-----------------------------------------------------------------------------
(* An evaluation: the look, and what is written.                            *)

Look(r) == [row |-> r, upset |-> FALSE, found |-> [name \in Names |-> IF OpenBy(name) = {} THEN None ELSE CHOOSE n \in OpenBy(name) : TRUE]]

\* Those conditions for which there is nothing to be found are told; those that are over are taken back.
Raised(l) == {name \in Names : Holds(l.row, name) /\ ~Undecided(l.row, name) /\ l.found[name] = None}
Cleared(l) == {name \in Names : ~Holds(l.row, name) /\ l.found[name] # None}

\* Ghost: whose look is upset by a condition that is cleared, or by the end of an evaluation of the row r.
Upset(by(_)) == [e \in Evaluators |-> IF looks[e] = None THEN None ELSE [looks[e] EXCEPT !.upset = @ \/ by(looks[e].row)]]

Begin(e, r) ==
  /\ looks[e] = None
  /\ looks' = [looks EXCEPT ![e] = Look(r)]
  /\ UNCHANGED <<hour, device, row, alarms, events, windows, rules, batch, run, actions, judged>>

StationsPass == ~retired /\ Begin("monitor", row) /\ UNCHANGED <<retired, may>>

\* The device reports: what it says is what is known of it, once the transaction is through.
Heartbeat(connected) ==
  /\ ~row.probed /\ device.reach /\ row.enabled
  /\ Spend("reports")
  /\ Begin("report", [row EXCEPT !.connected = connected, !.interlock = device.interlock, !.beat = hour,
                                 !.awaiting = IF connected THEN None ELSE @])
  /\ UNCHANGED retired

\* A person asks for a new handshake.
ReconnectAdapter ==
  /\ device.reach /\ row.enabled
  /\ Spend("reports")
  /\ Begin("report", [row EXCEPT !.connected = TRUE, !.beat = hour, !.awaiting = None])
  /\ UNCHANGED retired

Settled(event) == IF event.state \in {"open", "manual"} THEN [event EXCEPT !.state = "resolved"] ELSE event

\* One condition that is over settles whatever is open of the station, those told just before included.
SettleStation(es, l) == [n \in DOMAIN es |->
  IF /\ es[n].source = "station"
     /\ \E name \in Cleared(l) : n <= Len(events) \/ Position[es[n].of] < Position[name]
  THEN Settled(es[n]) ELSE es[n]]

EvaluateStation(e, room) ==
  /\ looks[e] # None
  /\ \E l \in {looks[e]} : \E names \in {IF retired THEN <<>> ELSE SetToSeq(Raised(l))} :
       /\ Len(alarms) + Len(names) <= MaxAlarms
       /\ alarms' = [n \in DOMAIN alarms |->
                       IF \E name \in Cleared(l) : l.found[name] = n /\ ~retired THEN [alarms[n] EXCEPT !.active = FALSE] ELSE alarms[n]]
                      \o [i \in DOMAIN names |-> NewAlarm(names[i])]
       /\ \E told \in {[i \in DOMAIN names |-> OnStationCondition(names[i], room)]} :
            events' = IF retired THEN events ELSE SettleStation(events \o told, l)
       /\ windows' = IF \E i \in DOMAIN names : Decide(Classify(names[i]), TRUE, FALSE, 0) = "reroute"
                     THEN [w \in Windows |-> [windows[w] EXCEPT !.here = @ /\ w \notin RerouteFutureWindows(room)]]
                     ELSE windows
       /\ row' = IF e = "report" THEN l.row ELSE row
       /\ judged' = IF ~retired /\ ~l.upset THEN [row |-> l.row, at |-> hour] ELSE None
       /\ looks' = [Upset(LAMBDA r : r # l.row) EXCEPT ![e] = None]
  /\ UNCHANGED <<hour, device, retired, rules, batch, run, actions, may>>

-----------------------------------------------------------------------------
(* What happens to the device and to its row meanwhile.                     *)

Tick == hour < MaxWatchTime /\ hour' = hour + 1
        /\ UNCHANGED <<device, row, retired, looks, alarms, events, windows, rules, batch, run, actions, judged, may>>

DeviceChanges(reach, interlock) ==
  /\ Spend("troubles")
  /\ device' = [reach |-> reach, interlock |-> interlock] /\ device' # device
  /\ UNCHANGED <<hour, row, retired, looks, alarms, events, windows, rules, batch, run, actions, judged>>

\* The row is free: a report under way holds it until it is through.
SetRow(r) ==
  /\ looks["report"] = None
  /\ row' = r
  /\ UNCHANGED <<hour, device, looks, alarms, events, windows, rules, batch, run, actions, judged>>

ProbeDevices ==
  /\ row.probed /\ row.enabled
  /\ row.connected /\ row.beat # None => hour > row.beat
  /\ SetRow(IF device.reach
            THEN [row EXCEPT !.connected = TRUE, !.beat = hour, !.awaiting = None, !.interlock = device.interlock]
            ELSE [row EXCEPT !.connected = FALSE])
  /\ UNCHANGED <<retired, may>>

\* A new configuration is to be shaken hands on.
UpdateAdapter(enabled) ==
  /\ Spend("changes")
  /\ SetRow([row EXCEPT !.enabled = enabled, !.connected = FALSE, !.awaiting = hour])
  /\ UNCHANGED retired

SetStationRetired(value) ==
  /\ Spend("changes")
  /\ value => \A w \in Windows : ~windows[w].here
  /\ retired' = value
  /\ SetRow(row)

OpenStep(w) ==
  /\ Spend("opened")
  /\ windows[w].here /\ ~windows[w].opened
  /\ windows' = [windows EXCEPT ![w].opened = TRUE]
  /\ UNCHANGED <<hour, device, row, retired, looks, alarms, events, rules, batch, run, actions, judged>>

-----------------------------------------------------------------------------
(* The persons.                                                             *)

SetAlarm(n, alarm) ==
  /\ Spend("persons")
  /\ alarms' = [alarms EXCEPT ![n] = alarm]
  /\ UNCHANGED <<hour, device, row, retired, events, windows, rules, batch, run, actions>>

SetState(n, state) == SetAlarm(n, [alarms[n] EXCEPT !.state = state]) /\ UNCHANGED <<looks, judged>>

Ack(n) == alarms[n].state = "active" /\ SetState(n, "acked")
Shelve(n) == alarms[n].state # "closed" /\ SetState(n, "shelved")
Close_Mut(n) == alarms[n].state = "acked" /\ SetState(n, "closed")
Close(n) == ~alarms[n].active /\ SetState(n, "closed")

\* Signed for by a person; if it is not over, the next look finds nothing and tells it anew.
ClearCondition(n) ==
  /\ alarms[n].active
  /\ SetAlarm(n, [alarms[n] EXCEPT !.active = FALSE])
  /\ looks' = Upset(LAMBDA r : TRUE)
  /\ judged' = None

SetEvents(es) ==
  /\ events' = es
  /\ UNCHANGED <<hour, device, row, retired, looks, alarms, windows, rules, batch, run, actions, judged>>

Handle(n, state) ==
  /\ Spend("persons")
  /\ events[n].state \notin {"resolved", "closed"}
  /\ SetEvents([events EXCEPT ![n].state = state])

\* A rule is switched on or off, or allows for more.
SaveRule(i, enabled, limit) ==
  /\ Spend("rules")
  /\ rules' = [rules EXCEPT ![i].enabled = enabled, ![i].limit = limit]
  /\ UNCHANGED <<hour, device, row, retired, looks, alarms, events, windows, batch, run, actions, judged>>

-----------------------------------------------------------------------------
(* The step of the batch, whose action fails and may be handled.            *)

World == [batch |-> batch, run |-> run, actions |-> actions, alarms |-> alarms, events |-> events]

Become(w) ==
  /\ batch' = w.batch /\ run' = w.run /\ actions' = w.actions /\ alarms' = w.alarms /\ events' = w.events
  /\ UNCHANGED <<hour, device, row, retired, looks, windows, rules, judged>>

Dispatching == {"dispatch", "resume", "retry"}

Action(type) == [type |-> type, state |-> "sent", delivery |-> "queued", started |-> FALSE, got |-> FALSE, auto |-> None]

\* It was never handed to the adapter, or taken back before it was.
NeverLeftSystem(a) == a.type \in Dispatching /\ ~a.started /\ a.delivery = "unreachable"

\* Everything a failed action changes before it is decided what to do.
Fault(w, n, delivery, category) ==
  LET ended == w.batch = "aborted"
      known == {m \in DOMAIN w.alarms : w.alarms[m].key = Keys[n] /\ w.alarms[m].active /\ w.alarms[m].state # "closed"}
  IN [w EXCEPT !.actions[n].state = "unknown", !.actions[n].delivery = delivery,
               !.batch = IF ended THEN @ ELSE "fault",
               !.run = IF @ \in {"ready", "running"} THEN "unknown" ELSE @,
               !.alarms = IF known = {} THEN Append(@, NewAlarm(Keys[n])) ELSE @,
               !.events = IF ended THEN @ ELSE Append(@, Event("command", "step", category))]

\* What became of the old action, and of the batch that waited for somebody.
Resumed(w, n) ==
  [w EXCEPT !.actions[n].state = "not_executed",
            !.batch = IF /\ @ = "fault"
                         /\ \A m \in DOMAIN w.actions \ {n} : w.actions[m].state \notin {"unknown", "manual"}
                      THEN "running" ELSE @,
            !.alarms = [m \in DOMAIN @ |-> IF @[m].key = Keys[n] THEN [@[m] EXCEPT !.active = FALSE] ELSE @[m]]]

\* A fresh action; one that cannot be sent is a fault of its own, which nobody handles here.
Reissued(w, n, auto, sent) ==
  LET again == [w EXCEPT !.run = "ready", !.actions = Append([@ EXCEPT ![n].auto = auto], Action(w.actions[n].type))]
  IN IF sent THEN again ELSE Fault(again, Len(again.actions), "unreachable", "schedule")

Noted(w, e, auto, ok) ==
  [w EXCEPT !.events[e].auto = auto, !.events[e].state = IF ok THEN "auto_resolved" ELSE @]

\* One of the actions of the policy, in the transaction of whoever found the fault.
Handled(w, n, action, sent) ==
  LET e == Len(w.events)
  IN CASE action = "retry" -> Noted(Reissued(Resumed(w, n), n, "retry", sent), e, "retry", sent)
       [] action = "reroute" -> IF sent THEN Noted(Reissued(Resumed(w, n), n, "reroute", TRUE), e, "reroute", TRUE)
                                ELSE Noted(w, e, "reroute", FALSE)
       [] action = "skip" -> Noted([Resumed(w, n) EXCEPT !.run = "skipped", !.actions[n].auto = "skip"], e, "skip", TRUE)
       [] action = "reschedule" -> Noted(w, e, "reschedule", FALSE)
       [] OTHER -> w

\* A command that holds the device is never handled without asking.
OnCommandFault(n, delivery, category, a, sent) ==
  /\ Len(alarms) + 1 < MaxAlarms /\ Len(actions) < Len(Keys)
  /\ \E w \in {Fault([World EXCEPT !.actions[n] = a], n, delivery, category)} :
       Become(IF w.batch = "aborted" \/ a.type \notin Dispatching THEN w
              ELSE Handled(w, n, Decide(category, NeverLeftSystem(w.actions[n]), Skippable, Attempts), sent))

Deliverable(n) == actions[n].type \in Dispatching => batch = "running"

\* Refused before it is claimed, or claimed and found unfit before the device is called: then the claim is taken back.
Unreachable(n, sent) ==
  /\ \/ actions[n].state = "sent" /\ Deliverable(n)
     \/ actions[n].state = "accepted" /\ actions[n].type \in Dispatching
  /\ OnCommandFault(n, "unreachable", "communication", [actions[n] EXCEPT !.started = FALSE], sent)
  /\ UNCHANGED may

Claim(n) ==
  /\ actions[n].state = "sent" /\ Deliverable(n)
  /\ Become([World EXCEPT !.actions[n] = [@ EXCEPT !.state = "accepted", !.delivery = "maybe_sent", !.started = TRUE]])
  /\ UNCHANGED may

\* The answer is lost, and who knows what the device does; it says no to what it had begun.
MaybeSent(n, got, sent) ==
  /\ actions[n].state = "accepted"
  /\ OnCommandFault(n, "maybe_sent", "communication", [actions[n] EXCEPT !.got = got], sent)
  /\ UNCHANGED may

Broken(n, category, sent) ==
  /\ actions[n].state = "running"
  /\ OnCommandFault(n, "delivered", category, actions[n], sent)
  /\ UNCHANGED may

Deliver(n) ==
  /\ actions[n].state = "accepted"
  /\ Become([World EXCEPT !.actions[n].state = "running", !.actions[n].got = TRUE,
                          !.run = IF actions[n].type \in Dispatching THEN "running" ELSE @])
  /\ UNCHANGED may

\* What is queued is withdrawn; what the device does is to be held by a command of its own.
Hold ==
  /\ batch = "running" /\ Spend("recoveries")
  /\ Len(actions) < Len(Keys)
  /\ Become([World EXCEPT !.batch = "paused",
               !.actions = LET left == [n \in DOMAIN @ |-> IF @[n].state = "sent" THEN [@[n] EXCEPT !.state = "cancelled"] ELSE @[n]]
                           IN IF \E n \in DOMAIN left : left[n].state \in {"accepted", "running"} THEN Append(left, Action("hold")) ELSE left])

SettleBatch(es) == [n \in DOMAIN es |-> IF es[n].source = "command" THEN Settled(es[n]) ELSE es[n]]

\* A person makes up their mind what became of the action, and has it done again.
Recover ==
  /\ batch = "fault" /\ Spend("recoveries")
  /\ Len(actions) < Len(Keys)
  /\ Become([World EXCEPT !.batch = "running", !.run = "ready", !.events = SettleBatch(@),
               !.actions = Append([n \in DOMAIN @ |-> IF @[n].state = "unknown" THEN [@[n] EXCEPT !.state = "not_executed"] ELSE @[n]],
                                  Action("retry"))])

\* What is under way when the batch is ended goes on for a while, and may fail.
EndBatch ==
  /\ batch \in {"running", "paused", "fault"} /\ Spend("recoveries")
  /\ Become([World EXCEPT !.batch = "aborted", !.events = SettleBatch(@),
               !.actions = [n \in DOMAIN @ |-> IF @[n].state = "sent" THEN [@[n] EXCEPT !.state = "cancelled"] ELSE @[n]]])

-----------------------------------------------------------------------------
NewRow(probed) ==
  [probed |-> probed, enabled |-> TRUE, connected |-> FALSE, interlock |-> FALSE, beat |-> None, awaiting |-> 0]

WatchInit ==
  \E s \in WatchScenarios :
    /\ hour = 0 /\ retired = FALSE
    /\ device = [reach |-> TRUE, interlock |-> FALSE]
    /\ row = NewRow(s.probed)
    /\ looks = [e \in Evaluators |-> None]
    /\ alarms = <<>> /\ events = <<>>
    /\ windows = [w \in Windows |-> [here |-> TRUE, opened |-> FALSE, begins |-> 2]]
    /\ rules = s.rules /\ may = s.may
    /\ batch = "running" /\ run = "ready" /\ actions = <<Action("dispatch")>>
    /\ judged = None

StationStep ==
  \/ may.hours > 0 /\ (Tick \/ StationsPass \/ ProbeDevices)
  \/ \E b \in BOOLEAN : Heartbeat(b) \/ UpdateAdapter(b) \/ SetStationRetired(b)
  \/ ReconnectAdapter
  \/ \E reach, interlock \in BOOLEAN : DeviceChanges(reach, interlock)
  \/ \E e \in Evaluators, room \in SUBSET Windows : EvaluateStation(e, room)
  \/ \E w \in Windows : OpenStep(w)

PersonStep ==
  \/ \E n \in DOMAIN alarms : Ack(n) \/ Shelve(n) \/ Close(n) \/ ClearCondition(n)
  \/ \E n \in DOMAIN events, state \in {"manual", "resolved", "closed"} : Handle(n, state)
  \/ \E i \in DOMAIN rules, enabled \in BOOLEAN, more \in 0..1 : SaveRule(i, enabled, rules[i].limit + more)

BatchStep ==
  \/ \E n \in DOMAIN actions, got, sent \in BOOLEAN, category \in {"communication", "safety"} :
       may.faults > 0 /\ (Unreachable(n, sent) \/ MaybeSent(n, got, sent) \/ Broken(n, category, sent) \/ Claim(n) \/ Deliver(n))
  \/ Recover \/ Hold \/ EndBatch

WatchNext == StationStep \/ PersonStep \/ BatchStep

-----------------------------------------------------------------------------
Told(name) == Cardinality({n \in DOMAIN alarms : alarms[n].key = name /\ alarms[n].active /\ alarms[n].state # "closed"})

\* Right after an evaluation of what is in the row now.
JustJudged == /\ judged = [row |-> row, at |-> hour]
              /\ ~retired

\* Is one told that the connection is gone? Not of a device that was just reconfigured, or just lost.
Missed ==
  /\ row.enabled /\ ~row.connected
  /\ row.awaiting # None => hour - row.awaiting >= Grace
  /\ (row.probed /\ row.awaiting = None /\ row.beat # None) => hour - row.beat >= Delay

Silent == row.enabled /\ row.connected /\ (row.beat # None => hour - row.beat > StaleAfter)

(* An evaluation leaves no condition of the row it judged without an alarm, *)
(* whatever persons did with the alarms before, and also when the monitor   *)
(* and a report judged the same contents of the row at the same time. Not   *)
(* so, until the next evaluation, when meanwhile a person cleared a         *)
(* condition or an evaluation of other contents ended                       *)
(* (monitoring_service.py, evaluate_station).                               *)
ConditionsAreTold ==
  JustJudged =>
    /\ row.interlock => Told("interlock") > 0
    /\ Missed => Told("disconnected") > 0
    /\ Silent => Told("heartbeat_stale") > 0

(* However the monitor and the reports interleave with each other and with  *)
(* persons, a condition has at no time more alarms than there are           *)
(* evaluators: two, not one, for both may find none and raise their own     *)
(* (alarm_service.py, raise_alarm).                                         *)
OneAlarmEach == \A name \in Names : Told(name) <= Cardinality(Evaluators)

(* No action that the device may have got is done again, or left out,       *)
(* without somebody saying so, and no two actions of the step are at the    *)
(* device with nobody knowing what became of either (exception_service.py). *)
NothingIsDrivenTwice ==
  /\ \A n \in DOMAIN actions : actions[n].auto # None => ~actions[n].got
  /\ \A m, n \in {k \in DOMAIN actions : /\ actions[k].type \in Dispatching /\ actions[k].got
                                          /\ actions[k].state \in {"running", "unknown"}} : m = n

(* The rules together handle a step no more often than the one that allows  *)
(* most of it, a retry and another station counting alike (_attempts).      *)
HandlingEnds ==
  LET Handlings == {n \in DOMAIN events : events[n].source = "command" /\ events[n].auto \in {"retry", "reroute"}}
  IN Handlings # {} => \E i \in DOMAIN rules : Cardinality(Handlings) <= rules[i].limit

(* Where safety is concerned nothing is handled, and nothing proposed       *)
(* (domain/exceptions.py, MANUAL_ONLY).                                     *)
SafetyIsForPersons == \A n \in DOMAIN events : events[n].category = "safety" => events[n].auto = None

(* A batch that was ended leaves nothing open behind, whatever fails later  *)
(* (settle_batch).                                                          *)
EndedIsSettled == batch = "aborted" => \A n \in DOMAIN events : events[n].source = "command" => events[n].state # "open"

WatchHolds ==
  ConditionsAreTold /\ OneAlarmEach /\ NothingIsDrivenTwice /\ HandlingEnds /\ SafetyIsForPersons /\ EndedIsSettled

=============================================================================
