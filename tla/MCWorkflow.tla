----------------------------- MODULE MCWorkflow -----------------------------
(***************************************************************************)
(* Flows small enough to be explored, and between them every kind of step. *)
(***************************************************************************)
EXTENDS Workflow

Device == Plain("device")
After(s, S) == [s EXCEPT !.declares = TRUE, !.after = S]
Forward(key) == [key |-> key, loop |-> 0]
Back(key, to) == [key |-> key, loop |-> to]

\* two branches that come together: a person who may be too late, and a signal
Join ==
  << After([Device EXCEPT !.plate = 1], {}),
     After([Plain("manual") EXCEPT !.timeout = "skip", !.skippable = TRUE], {1}),
     After([Plain("wait") EXCEPT !.event = "ready"], {1}),
     After([Device EXCEPT !.plate = 1], {2, 3}) >>

\* a reading chooses one of two paths or sends the flow back once
Choice(other) ==
  << After(Device, {}),
     After([Plain("branch") EXCEPT !.source = 1, !.maxLoops = 1,
              !.exits = <<Forward("x"), Forward("y"), Back("again", 1)>>], {1}),
     After([Plain("manual") EXCEPT !.when = (2 :> "x")], {2}),
     After([other EXCEPT !.when = (2 :> "y")], {2}),
     After(Plain("merge"), {3, 4}) >>

\* a list: a gate that sends the device step back once, a review, a split on paper
List ==
  << Plain("manual"), Device,
     [Plain("gate") EXCEPT !.source = 2, !.onFail = "rework", !.reworkTo = 2, !.maxRework = 1],
     Plain("review"), Plain("split") >>

\* two device steps that want the same plate, with a deadline and a split
Plate ==
  << After([Plain("split") EXCEPT !.physical = TRUE], {}),
     After([Device EXCEPT !.plate = 1, !.timeout = "alarm"], {1}),
     After([Device EXCEPT !.plate = 1, !.skippable = TRUE], {1}),
     After(Plain("wait"), {2, 3}) >>

\* a gate and a branch at work at the same time
Held ==
  << After(Device, {}),
     After([Plain("gate") EXCEPT !.source = 1], {1}),
     After([Plain("branch") EXCEPT !.source = 1, !.exits = <<Forward("x"), Forward("y")>>], {1}),
     After([Plain("manual") EXCEPT !.when = (3 :> "x")], {3}),
     After([Device EXCEPT !.when = (3 :> "y")], {2, 3}) >>

\* samples go their own ways, a person chooses on one of them
Route ==
  << After([Device EXCEPT !.skippable = TRUE], {}),
     After([Plain("branch") EXCEPT !.source = 1, !.perSample = TRUE, !.exits = <<Forward("x"), Forward("y")>>], {1}),
     After([Plain("branch") EXCEPT !.asks = TRUE, !.exits = <<Forward("u"), Forward("v")>>, !.when = (2 :> "y")], {2}),
     After([Plain("notify") EXCEPT !.when = (2 :> "x")], {2}) >>

\* a gate that scraps the batch
Scrap == << Device, [Plain("gate") EXCEPT !.source = 1, !.onFail = "scrap"] >>

ASSUME \A f \in {Join, Choice(Plain("notify")), Choice(Device), List, Plate, Held, Route, Scrap} : Sound(f)

AllFlows == {Join, Choice(Plain("notify")), List, Plate, Route, Scrap}
ChoiceOnly == {Choice(Device)}
HeldOnly == {Held}
PlateOnly == {Plate}
=============================================================================
