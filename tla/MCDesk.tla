------------------------------- MODULE MCDesk -------------------------------
(*****************************************************************************)
(* What people decide beside the runs, explored part by part: the values     *)
(* that are measured, reviewed and reported, the periods and the guides of   *)
(* SOPs, recipes and their sub-flows, plans and their signatures. The parts  *)
(* share no state, so one run explores them one after another: focus says    *)
(* which of them moves.                                                      *)
(*****************************************************************************)
EXTENDS Integers, Sequences, FiniteSets

CONSTANTS
  Parts,  \* the parts this run explores
  None,
  Metric, Curve, DerivedOf, Peak, Value, Odd, Rules, Analyst, StepOf, MaxTasks, MaxEvents, MaxValues,
  MaxTickets, ReportMetric, ReportValue, Reviewer, MaxReported, MaxVersions, MaxEdits,  \* of Records
  Author, Approver,  \* of Sops and Recipes
  Trainee, Kind, Title, MaxClock, MaxPeriods, MaxPeriodEdits, MaxSops, MaxSopSteps, MaxSopEdits,
  MaxSopBatches,  \* of Sops
  Cap, MaxRecipes, MaxRecipeEdits, MaxRecipeRuns, MaxUpsets, MaxSiblings, MaxSiblingEdits,
  MaxDepth,  \* of Recipes
  Planner, Signer, Body, SoundBody, Levels, MaxPlanVersions, MaxPlanEdits, MaxPlanRuns,
  MaxPlanTickets,  \* of Plans
  Person, Role, Default, Later, Served, Slot, AccessScenarios,  \* of Access
  Worker, Need, MaxMoment, MaxQualifications, MaxJobs, MaxUpsetsOfStaff,  \* of Staff
  Writer, SelfApprovers, Wording, SoundContent, User, Connection, MaxRows, MaxDefEdits,
  MaxDefTickets,  \* of Definitions
  AssetCapacity, Scope, MaxUpkeepTime, MaxPermitTime, MaxBookings, MaxOrders, MaxCalibrations,
  MaxOwnHand,  \* of Upkeep
  Conf, Driver, Budgets,  \* of Acceptance
  Asset, Station, Procedure, Model, Setting, RecipeStep, MaxWindows, Equipped,
  RegisterChances  \* of Stations

(* A chain of approval asks signers, or leaves a level to whoever may sign.  *)
ASSUME LevelsAreChains == Levels \subseteq Seq(Signer \cup {None})

\* The accounts and the saved matrices of the roles.
AdminOnly == {"org.admin", "service.manage"}
Permission == (UNION {Default[r] : r \in Role}) \cup AdminOnly \cup Later
Accounts == [state : {"active", "disabled"}, member : {"active", "revoked"},
             roles : SUBSET (Role \cup {"admin"}), temporary : BOOLEAN]
RoleSets == [matrix : [Role -> SUBSET Permission], known : SUBSET Permission, row : Nat]
\* Who released a version of a definition, what it said, and who wrote it.
Approvals == [by : Writer, contents : SUBSET Wording, hands : SUBSET Writer]

(* No thing of a part, and no answer, is the mark for its absence.           *)
ASSUME NoneIsNothing ==
  /\ None \notin Signer \cup Planner \cup {"approved", "rejected", "active", "maintenance", "retired", "readonly", "physical"}
  /\ None \notin Body /\ None \notin Nat
  /\ None \notin Accounts /\ None \notin RoleSets /\ None \notin Approvals

(* domain/permissions.py: what is kept for the administrators comes with no   *)
(* other role.                                                               *)
ASSUME RolesAreOthers ==
  /\ "admin" \notin Role
  /\ \A r \in Role : Default[r] \cap AdminOnly = {}

(* seed: a laboratory starts with people, and with an administrator.         *)
ASSUME LaboratoriesAreRun ==
  /\ IsFiniteSet(Person)
  /\ \A lab \in AccessScenarios :
       /\ lab.accounts \in [Person -> Accounts \cup {None}] /\ lab.tokens \subseteq Person
       /\ \E u \in Person : /\ lab.accounts[u] # None
                            /\ lab.accounts[u].state = "active"
                            /\ lab.accounts[u].member = "active"
                            /\ "admin" \in lab.accounts[u].roles

ASSUME MomentsAreTime ==
  MaxClock \in Nat /\ MaxMoment \in Nat /\ MaxUpkeepTime \in Nat /\ MaxPermitTime \in Nat

(* A version of an SOP has so many steps.                                    *)
ASSUME SopsAreShort == MaxSopSteps \in Nat

(* An asset is used by so many at a time.                                    *)
ASSUME AssetsAreUsed == AssetCapacity \in Nat

(* The driver of a device is named by its plugin and the digest of its      *)
(* configuration.                                                            *)
ASSUME DriversAreNamed ==
  /\ \A c \in Conf : c.tasks \in BOOLEAN /\ c.simulated \in BOOLEAN
  /\ \A d, e \in Driver : d.plugin = e.plugin /\ d.digest = e.digest => d = e
  /\ None \notin Driver

(* An adapter is reached somewhere.                                          *)
ASSUME AdaptersAreReached == Connection # {}

\* The rows of the register, and the steps of its recipes.
AssetRows == [state : {"active", "retired"}, capacity : Nat, model : Model \cup {None}]
LimitSets == UNION {[caps -> SUBSET Setting] : caps \in SUBSET Cap}
StationRows == [asset : Asset \cup {None}, channels : Nat, unit : {"batch", "sample"}, model : Model \cup {None}, limits : LimitSets,
                retired : BOOLEAN, status : {"idle", "running", "offline"}]
AbilityRows == [kind : {"number", "enum", "gone"}, options : SUBSET Setting, retired : BOOLEAN]
WindowRows == [station : Station, cap : Cap, asset : Asset \cup {None}, unit : {"batch", "sample"}]
RecipeSteps == [how : {"device", "hand"}, cap : Cap, kind : {"number", "enum"}, value : Setting,
                model : Model \cup {None}, given : BOOLEAN]

(* What is registered to begin with fits together; None is no row of it.     *)
ASSUME EquipmentIsRegistered ==
  /\ \A a \in Asset \cap DOMAIN Equipped.asset : Equipped.asset[a] \in AssetRows
  /\ \A s \in Station \cap DOMAIN Equipped.station :
       /\ Equipped.station[s] \in StationRows
       /\ Equipped.station[s].asset # None =>
            /\ Equipped.station[s].asset \in DOMAIN Equipped.asset
            /\ Equipped.station[s].channels <= Equipped.asset[Equipped.station[s].asset].capacity
  /\ \A r \in Procedure : RecipeStep[r] \in RecipeSteps
  /\ None \notin Asset /\ None \notin AssetRows /\ None \notin StationRows
  /\ None \notin AbilityRows /\ None \notin WindowRows

\* The chains of approval of the run: nobody asked, one signer and then anybody.
Chains == {<<>>, <<"quinn", None>>}

\* A result that is being settled is not reported on in the same part, and the
\* sample of a report is at rest.
Curves == [c \in {"curve"} |-> {"peak"}]
Peaks == <<1, 2>>
OddPeaks == {<<"peak", 2>>}
DeviceSteps == <<1, 1, 2>>

\* The registrations of a device, its drivers, and how much may happen to it.
Wired(driver, tasks, simulated) == [kind |-> "real", driver |-> driver, tasks |-> tasks, simulated |-> simulated]
Plain == Wired("d1", TRUE, FALSE)
Registrations == {Plain, Wired("d1", FALSE, FALSE), Wired("d1", TRUE, TRUE), [Plain EXCEPT !.kind = "simulation"]}
DeviceDrivers == {[plugin |-> plugin, digest |-> 1] : plugin \in {"p", "q"}}
Quiet == [m \in {"changes", "swaps", "asked", "returns", "writes", "crashes", "commands"} |-> 0]
GateBudgets == {[Quiet EXCEPT !.swaps = 2, !.asked = 2],
                [Quiet EXCEPT !.asked = 2, !.writes = 1, !.crashes = 1],
                [Quiet EXCEPT !.changes = 1, !.asked = 1, !.returns = 1],
                [Quiet EXCEPT !.changes = 1, !.asked = 1, !.commands = 1]}

\* Two stations of one asset, and what is sent to change them.
Registered(row) == [asset |-> [a \in {"a"} |-> [state |-> "active", capacity |-> 2, model |-> "x"]],
                    station |-> [s \in {"s"} |-> row]]
Bench == [asset |-> "a", channels |-> 1, unit |-> "batch", model |-> None, limits |-> [c \in {"mix"} |-> {1, 2}],
          retired |-> FALSE, status |-> "idle"]
Furnished == Registered(Bench)
Unchanged == [w \in {"windows", "stations", "limits", "assets", "abilities"} |-> 0]
RegisterScenarios == {[Unchanged EXCEPT !.windows = 1, !.stations = 2],
                      [Unchanged EXCEPT !.windows = 1, !.stations = 1, !.assets = 1],
                      [Unchanged EXCEPT !.windows = 1, !.limits = 1, !.abilities = 1],
                      [Unchanged EXCEPT !.limits = 1, !.abilities = 2],
                      [Unchanged EXCEPT !.stations = 1, !.assets = 2]}
PlainStep == [how |-> "device", cap |-> "mix", kind |-> "number", value |-> 2, model |-> None, given |-> TRUE]
RegisterSteps == [plain |-> PlainStep, method |-> [PlainStep EXCEPT !.model = "x"],
                  default |-> [PlainStep EXCEPT !.model = "x", !.given = FALSE], hand |-> [PlainStep EXCEPT !.how = "hand"]]

\* The accounts of a laboratory, and how much may be changed of them.
Account(roles, member) == [state |-> "active", member |-> member, roles |-> roles, temporary |-> FALSE]
Laboratory == [root |-> Account({"admin"}, "active"), ann |-> Account({"admin"}, "active"), new |-> None]
Office == [root |-> Account({"admin"}, "active"), ann |-> Account({"qa"}, "active"), new |-> None]
Chances == [w \in {"accounts", "tickets", "upgrades", "services"} |-> 0]
Laboratories ==
  {[accounts |-> Laboratory, tokens |-> {"root", "ann"}, chances |-> [Chances EXCEPT !.accounts = 3]],
   [accounts |-> Office, tokens |-> {"root", "ann"}, chances |-> [Chances EXCEPT !.tickets = 2, !.upgrades = 1]],
   [accounts |-> Office, tokens |-> {"root"}, chances |-> [Chances EXCEPT !.services = 3]]}
RoleDefaults == [r \in {"qa"} |-> {"audit.read", "template.release"}]

\* Two recipes, two plans, two tasks and two batches with what belongs to them.
Row(kind, state, refs) == [kind |-> kind, state |-> state, refs |-> {[col |-> r[1], to |-> r[2]] : r \in refs}]
Belongings ==
  [cap |-> Row("capability", "on", {}), method |-> Row("method", "on", {<<"method.capability", "cap">>}),
   first |-> Row("recipe", "on", {<<"recipe.method", "method">>}), second |-> Row("recipe", "on", {}),
   plan |-> Row("plan", "on", {<<"plan.recipe", "first">>, <<"plan.samples", "vial">>}), task |-> Row("task", "on", {<<"task.plan", "plan">>}),
   child |-> Row("task", "on", {<<"task.batch", "batch">>}),
   batch |-> Row("batch", "scheduled", {<<"batch.recipe", "second">>}), other |-> Row("batch", "completed", {<<"batch.plan", "plan">>}),
   asset |-> Row("asset", "on", {}), station |-> Row("station", "on", {<<"station.asset", "asset">>, <<"station.limit", "cap">>}),
   lot |-> Row("lot", "on", {}), held |-> Row("reservation", "on", {<<"reservation.lot", "lot">>, <<"reservation.batch", "batch">>}),
   line |-> Row("line", "on", {<<"line.lot", "lot">>, <<"line.batch", "batch">>, <<"line.event", "event">>}), event |-> Row("inventory", "on", {}),
   sample |-> Row("sample", "on", {<<"sample.batch", "batch">>, <<"sample.physical", "vial">>}), vial |-> Row("physical", "generated", {}),
   analysis |-> Row("analysis", "on", {<<"analysis.sample", "sample">>, <<"analysis.physical", "vial">>}), value |-> Row("value", "on", {<<"value.analysis", "analysis">>}),
   spot |-> Row("transfer", "on", {<<"transfer.physical", "vial">>}), aid |-> Row("command", "settled", {<<"command.batch", "other">>}),
   command |-> Row("command", "settled", {<<"command.batch", "batch">>}), adapter |-> Row("adapter", "on", {<<"adapter.station", "station">>, <<"adapter.command", "command">>}),
   shift |-> Row("proposal", "on", {<<"proposal.batch", "batch">>, <<"proposal.batch", "other">>}), new |-> None]
\* What may link them besides.
Links == {<<"second", "recipe.parent", "first">>, <<"second", "recipe.flow", "first">>, <<"child", "task.parent", "task">>, <<"child", "task.depends", "task">>,
          <<"batch", "batch.task", "task">>, <<"batch", "batch.station", "station">>, <<"aid", "command.assist", "station">>,
          <<"value", "value.station", "station">>}
Linked(links) == [i \in DOMAIN Belongings |->
  IF Belongings[i] = None THEN None
  ELSE [Belongings[i] EXCEPT !.refs = @ \cup {[col |-> l[2], to |-> l[3]] : l \in {k \in links : k[1] = i}}]]
Registered2(world) == [world EXCEPT !["vial"].state = "registered"]
Used(world) == [world EXCEPT !["command"].state = "sent"]
Nothing == [i \in DOMAIN Belongings |-> None]
Worlds == {Linked({l}) : l \in Links} \cup {Linked({}), Linked(Links)}
            \cup {Nothing, Registered2(Linked({})), Used(Linked({<<"batch", "batch.task", "task">>}))}
Arrivals == {[id |-> "new", row |-> Row("task", "on", {<<"task.plan", "plan">>})],
             [id |-> "new", row |-> Row("sample", "on", {<<"sample.batch", "other">>, <<"sample.physical", "vial">>})]}

\* How a station is watched, and what handles a failed step.
HandledBy(category, action) == [category |-> category, action |-> action, limit |-> 1, enabled |-> TRUE]
Rest == [w \in {"hours", "reports", "troubles", "changes", "persons", "rules", "recoveries", "faults", "opened"} |-> 0]
Watched(probed, rules, w) == [probed |-> probed, rules |-> rules, may |-> w]
WatchScenarios ==
  {Watched(FALSE, <<>>, [Rest EXCEPT !.hours = 1, !.reports = 2, !.persons = 1]),
   Watched(FALSE, <<HandledBy("communication", "reroute")>>, [Rest EXCEPT !.hours = 1, !.reports = 1, !.opened = 1]),
   Watched(TRUE, <<>>, [Rest EXCEPT !.hours = 1, !.troubles = 2]),
   Watched(TRUE, <<HandledBy("communication", "reroute")>>, [Rest EXCEPT !.hours = 1, !.changes = 2]),
   Watched(TRUE, <<>>, [Rest EXCEPT !.hours = 1, !.persons = 2]),
   Watched(FALSE, <<HandledBy("communication", "retry"), HandledBy("communication", "reroute"), HandledBy("communication", "skip")>>,
           [Rest EXCEPT !.faults = 1, !.rules = 2, !.recoveries = 1])}

VARIABLES
  focus,  \* the part at work
  sample, looked, analysis, event, values, ticket, report, edits,
  clock, sop, nextKey, ack, recipe, frozen, sopEdits,
  recipes, offered, frozenRuns, golden, recipeEdits, upsets,
  plan, planVersions, planTasks, planRuns, planTicket, planEdits,
  adapter, installed, runs, write, command, worker, line, signature, proved, vouched, moves,
  assets, stations, abilities, flows, reg_windows, placed, left,
  upkeepClock, condition, bookings, orders, ordering, calibrations, ownHand,
  catalogue, rows, users, writing, def_tickets, defEdits, approved,
  accounts, tokens, roleSet, shipped, acc_tickets, pending, service, chances, taken,
  moment, person, qualifications, jobs, upsetsOfStaff,
  db, removal, removals, story,
  hour, device, row, retired, looks, alarms, events, wat_windows, rules, batch, wat_run,
  actions, judged, may

resultsVars == <<sample, looked, analysis, event, values, ticket, report, edits>>
periodsVars == <<clock, sop, nextKey, ack, recipe, frozen, sopEdits>>
flowsVars == <<recipes, offered, frozenRuns, golden, recipeEdits, upsets>>
plansVars == <<plan, planVersions, planTasks, planRuns, planTicket, planEdits>>
gateVars == <<adapter, installed, runs, write, command, worker, line, signature, proved,
              vouched, moves>>
registerVars == <<assets, stations, abilities, flows, reg_windows, placed, left>>
upkeepVars == <<upkeepClock, condition, bookings, orders, ordering, calibrations, ownHand>>
catalogueVars == <<catalogue, rows, users, writing, def_tickets, defEdits, approved>>
accessVars == <<accounts, tokens, roleSet, shipped, acc_tickets, pending, service, chances,
                taken>>
staffVars == <<moment, person, qualifications, jobs, upsetsOfStaff>>
removalVars == <<db, removal, removals, story>>
watchVars == <<hour, device, row, retired, looks, alarms, events, wat_windows, rules, batch,
               wat_run, actions, judged, may>>
vars == <<focus, resultsVars, periodsVars, flowsVars, plansVars, gateVars, registerVars, upkeepVars, catalogueVars, accessVars, staffVars, removalVars, watchVars>>

Results == INSTANCE Records WITH Person <- Analyst, MaxVersions <- 0, MaxEdits <- 0
Reports == INSTANCE Records WITH Metric <- ReportMetric, Value <- ReportValue,
                                 Person <- Reviewer, StepOf <- <<>>, MaxTasks <- MaxReported,
                                 MaxEvents <- MaxReported, MaxValues <- MaxReported
Periods == INSTANCE Sops WITH Trainee <- {}, Kind <- {}, MaxSops <- MaxPeriods,
                              MaxSopSteps <- 0, MaxSopEdits <- MaxPeriodEdits
Guides == INSTANCE Sops WITH MaxClock <- 0
Flows == INSTANCE Recipes
Siblings == INSTANCE Recipes WITH MaxRecipes <- MaxSiblings, MaxRecipeEdits <- MaxSiblingEdits,
                                  MaxRecipeRuns <- 0, MaxUpsets <- 0
Schemes == INSTANCE Plans WITH Sound <- SoundBody
Gate == INSTANCE Acceptance
Register == INSTANCE Stations WITH Recipe <- Procedure, Value <- Setting, StepOf <- RecipeStep,
                                   Present <- Equipped, Scenarios <- RegisterChances, windows <- reg_windows
Models == INSTANCE Stations WITH Asset <- {"a"}, Station <- {"s", "t"}, Cap <- {"mix"},
                                 Recipe <- {"method", "default", "hand"}, Model <- {"x", "y"},
                                 Value <- {1, 2}, StepOf <- RegisterSteps, MaxWindows <- 1,
                                 Present <- Furnished,
                                 Scenarios <- {[Unchanged EXCEPT !.assets = 1, !.limits = 1]},
                                 windows <- reg_windows
Upkept == INSTANCE Upkeep WITH Capacity <- AssetCapacity, Covered <- Scope,
                               MaxTime <- MaxUpkeepTime, MaxCalibrations <- 0
Permitted == INSTANCE Upkeep WITH Capacity <- AssetCapacity, Covered <- Scope,
                                  MaxTime <- MaxPermitTime, MaxBookings <- 0, MaxOrders <- 0,
                                  MaxOwnHand <- 0
Catalogue == INSTANCE Definitions WITH Catalogues <- {"method", "template", "layout", "metric"},
                                       Person <- Writer, Content <- Wording,
                                       Sound <- SoundContent, tickets <- def_tickets
Allowed == INSTANCE Access WITH Station <- Served, tickets <- acc_tickets
Crew == INSTANCE Staff
Removed == INSTANCE Removal WITH Id <- DOMAIN Belongings, MaxRemovals <- 1
Watching == INSTANCE Watch WITH Windows <- {"w"}, Skippable <- TRUE,
                                WatchScenarios <- WatchScenarios, StaleAfter <- 1, Grace <- 1,
                                Delay <- 2, MaxWatchTime <- 2, MaxAlarms <- 3,
                                windows <- wat_windows, run <- wat_run

Init ==
  /\ focus \in Parts
  /\ IF focus = "reports" THEN Reports!RecordsInit ELSE Results!RecordsInit
  /\ IF focus = "guides" THEN Guides!SopInit ELSE Periods!SopInit
  /\ IF focus = "siblings" THEN Siblings!RecipeInit ELSE Flows!RecipeInit
  /\ Schemes!PlanInit
  /\ focus # "plans" => plan.body = 1
  /\ Gate!AcceptanceInit
  /\ adapter.conf = Plain /\ installed.plugin = "p"
  /\ focus # "gate" => moves.swaps = 2
  /\ IF focus = "models" THEN Models!RegisterInit ELSE Register!RegisterInit
  /\ focus \notin {"register", "models"} => left.windows = 0 /\ left.limits = 0
  /\ IF focus = "permits" THEN Permitted!UpkeepInit ELSE Upkept!UpkeepInit
  /\ Catalogue!DefinitionInit
  /\ focus # "catalogue" => catalogue = "metric"
  /\ Allowed!AccessInit
  /\ focus # "access" => chances.services = 3
  /\ Crew!StaffInit
  /\ Removed!RemovalInit
  /\ focus # "removal" => db = Nothing
  /\ Watching!WatchInit
  /\ focus # "watch" => may.faults = 1

Next ==
  /\ focus' = focus
  /\ \/ focus = "results" /\ Results!ResultsNext
        /\ UNCHANGED <<periodsVars, flowsVars, plansVars, gateVars, registerVars, upkeepVars,
                       catalogueVars, accessVars, staffVars, removalVars, watchVars>>
     \/ focus = "reports" /\ Reports!RecordsNext /\ UNCHANGED <<sample, looked>>
        /\ UNCHANGED <<periodsVars, flowsVars, plansVars, gateVars, registerVars, upkeepVars,
                       catalogueVars, accessVars, staffVars, removalVars, watchVars>>
     \/ focus = "periods" /\ Periods!SopNext
        /\ UNCHANGED <<resultsVars, flowsVars, plansVars, gateVars, registerVars, upkeepVars,
                       catalogueVars, accessVars, staffVars, removalVars, watchVars>>
     \/ focus = "guides" /\ Guides!SopNext
        /\ UNCHANGED <<resultsVars, flowsVars, plansVars, gateVars, registerVars, upkeepVars,
                       catalogueVars, accessVars, staffVars, removalVars, watchVars>>
     \/ focus = "flows" /\ Flows!RecipeNext
        /\ UNCHANGED <<resultsVars, periodsVars, plansVars, gateVars, registerVars, upkeepVars,
                       catalogueVars, accessVars, staffVars, removalVars, watchVars>>
     \/ focus = "siblings" /\ Siblings!RecipeNext
        /\ UNCHANGED <<resultsVars, periodsVars, plansVars, gateVars, registerVars, upkeepVars,
                       catalogueVars, accessVars, staffVars, removalVars, watchVars>>
     \/ focus = "plans" /\ Schemes!PlanNext
        /\ UNCHANGED <<resultsVars, periodsVars, flowsVars, gateVars, registerVars, upkeepVars,
                       catalogueVars, accessVars, staffVars, removalVars, watchVars>>
     \/ focus = "gate" /\ Gate!AcceptanceNext
        /\ UNCHANGED <<resultsVars, periodsVars, flowsVars, plansVars, registerVars,
                       upkeepVars, catalogueVars, accessVars, staffVars, removalVars, watchVars>>
     \/ focus = "register" /\ Register!StationNext
        /\ UNCHANGED <<resultsVars, periodsVars, flowsVars, plansVars, gateVars, upkeepVars,
                       catalogueVars, accessVars, staffVars, removalVars, watchVars>>
     \/ focus = "models" /\ Models!StationNext
        /\ UNCHANGED <<resultsVars, periodsVars, flowsVars, plansVars, gateVars, upkeepVars,
                       catalogueVars, accessVars, staffVars, removalVars, watchVars>>
     \/ focus = "upkeep" /\ Upkept!UpkeepNext
        /\ UNCHANGED <<resultsVars, periodsVars, flowsVars, plansVars, gateVars, registerVars,
                       catalogueVars, accessVars, staffVars, removalVars, watchVars>>
     \/ focus = "permits" /\ Permitted!UpkeepNext
        /\ UNCHANGED <<resultsVars, periodsVars, flowsVars, plansVars, gateVars, registerVars,
                       catalogueVars, accessVars, staffVars, removalVars, watchVars>>
     \/ focus = "catalogue" /\ Catalogue!DefinitionNext
        /\ UNCHANGED <<resultsVars, periodsVars, flowsVars, plansVars, gateVars, registerVars,
                       upkeepVars, accessVars, staffVars, removalVars, watchVars>>
     \/ focus = "access" /\ Allowed!AccessNext
        /\ UNCHANGED <<resultsVars, periodsVars, flowsVars, plansVars, gateVars, registerVars,
                       upkeepVars, catalogueVars, staffVars, removalVars, watchVars>>
     \/ focus = "staff" /\ Crew!StaffNext
        /\ UNCHANGED <<resultsVars, periodsVars, flowsVars, plansVars, gateVars, registerVars,
                       upkeepVars, catalogueVars, accessVars, removalVars, watchVars>>
     \/ focus = "removal" /\ Removed!RemovalNext
        /\ UNCHANGED <<resultsVars, periodsVars, flowsVars, plansVars, gateVars, registerVars,
                       upkeepVars, catalogueVars, accessVars, staffVars, watchVars>>
     \/ focus = "watch" /\ Watching!WatchNext
        /\ UNCHANGED <<resultsVars, periodsVars, flowsVars, plansVars, gateVars, registerVars,
                       upkeepVars, catalogueVars, accessVars, staffVars, removalVars>>

Spec == Init /\ [][Next]_vars

-----------------------------------------------------------------------------
(* A sample is done only when its batch is and its values are all there      *)
(* (Records).                                                               *)
SettledOnlyWhole ==
  IF focus = "results" THEN Results!SettledOnlyWhole ELSE Reports!SettledOnlyWhole

(* The published report is one, the last, and what its signers saw          *)
(* (Records).                                                               *)
ReportsStand == Reports!ReportsStand

(* No two versions of an SOP are in effect at a time, a run is guided by    *)
(* the SOP step its own step was made from (Sops), and an id the system     *)
(* gave to a step of a recipe names no step before it (Recipes).            *)
DocumentsHold ==
  CASE focus = "guides" -> Guides!OneInEffect /\ Guides!GuidedByItsOwn
    [] focus = "periods" -> Periods!OneInEffect /\ Periods!GuidedByItsOwn
    [] OTHER -> Flows!IdsNameOneStep

(* services/recipe_service.py:503: no recipe is released in two revisions   *)
(* at a time (Recipes).                                                     *)
OneReleased == Siblings!OneReleased

(* A plan that runs was approved by everybody it was to be approved by, and *)
(* as it runs by everybody whose signature names a version (Plans).         *)
SignaturesStand == Schemes!SignaturesStand

(* A device is used only as it was accepted since the last change of it     *)
(* that was news (Acceptance).                                              *)
GateHolds == Gate!GateHolds

(* The open windows, the channels and the released recipes agree with the   *)
(* register of the equipment, however it is changed by one request after    *)
(* the other (Stations).                                                    *)
RegisterHolds == focus # "models" => Register!RegisterHolds

(* services/asset_service.py:287: the recipes whose device method no longer *)
(* fits the model are marked (Stations).                                    *)
ModelsAreTold == Models!ModelsAreTold

(* An asset is promised no more often than it can be used, and no step has  *)
(* a window for which a calibration is missing or failed (Upkeep).          *)
UpkeepHolds == Upkept!UpkeepHolds /\ Permitted!PassedThroughout

(* What is in force, and what refers to it, says what was approved, or what  *)
(* an update under way at the approval writes into it (Definitions).         *)
DefinitionsHold == Catalogue!DefinitionsHold

(* What only an administrator may have stays with administrators, what was   *)
(* taken from a role stays away, and a service keeps what it was given       *)
(* (Access); whoever is given work can do it throughout (Staff).             *)
AccessHolds == Allowed!AccessHolds /\ Crew!StaffHolds

(* A removal takes nothing along that somebody else uses, and leaves rows   *)
(* behind that refer to what went only where its columns are not followed,  *)
(* or where they came between the look and the deletion (Removal).          *)
RemovalHolds == Removed!RemovalHolds

(* What is wrong is told, and handled only where it can do no harm (Watch).  *)
WatchHolds == Watching!WatchHolds

=============================================================================
