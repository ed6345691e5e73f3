-------------------------------- MODULE Stations --------------------------------
(*****************************************************************************)
(* The register of the equipment: assets, the stations they are used as, the *)
(* capabilities stations declare with the limits they keep them in, and the  *)
(* released recipes that depend on all of it. People change the register at  *)
(* any time; the schedule opens windows on stations and closes them. One     *)
(* request follows the other here, and what is said below is said of such    *)
(* histories: the code takes no lock between the check of a handler and its  *)
(* write (station_service.py:958, :973, :1095, asset_service.py:272), so two *)
(* requests at the same time, or a booking that commits in between, can      *)
(* leave what each of them alone would have refused. A capability has one    *)
(* parameter; what a driver reports of its programs is left out.             *)
(*****************************************************************************)
EXTENDS Integers, FiniteSets

CONSTANTS
  None,
  Asset, Station, Cap, Recipe,
  Model,       \* models of instruments
  Value,       \* values of the parameter
  StepOf,      \* the step of a recipe: [how, cap, kind, value, model, given], how "device" or
               \* "hand"; model and, unless given, the value come of its device method
  MaxWindows,  \* bound: windows of the schedule open at a time
  Present,     \* what is registered to begin with: [asset, station], a row for each
  Scenarios    \* bounds: [what people do -> how often]

VARIABLES
  assets,     \* asset -> [state, capacity, model] or None
  stations,   \* station -> [asset, channels, unit, model, limits, retired, status] or None
  abilities,  \* capability -> [kind, options, retired] or None
  flows,      \* recipe -> [state, needs]
  windows,    \* the open windows: slot -> [station, cap, asset, unit] or None
  placed,     \* what the schedule has ever used: assets and stations
  left        \* what people may still do (bound)

stationVars == <<assets, stations, abilities, flows, windows, placed, left>>

May(what) == left[what] > 0 /\ left' = [left EXCEPT ![what] = @ - 1]

Unregistered == [kind |-> "number", options |-> Value, retired |-> FALSE]

\* A field as it was sent, or as it is; and the limits sent over those there are.
Sent(change, row, field) == IF field \in DOMAIN change THEN change[field] ELSE row[field]
Over(sent, limits) ==
  [c \in DOMAIN sent \cup DOMAIN limits |-> IF c \in DOMAIN sent THEN sent[c] ELSE limits[c]]

-----------------------------------------------------------------------------
(* Who can do what.                                                         *)

Registered == {s \in Station : stations[s] # None}

\* The asset says the model; a station without one says it itself.
StationModel(row, as) == IF row.asset = None THEN row.model ELSE as[row.asset].model

StationFits(row, as, step) ==
  /\ ~row.retired
  /\ step.cap \in DOMAIN row.limits
  /\ step.how = "device" => step.model \in {None, StationModel(row, as)}
  /\ step.how = "device" => step.value \in row.limits[step.cap]

DeviceIssues(ab, step) ==
  \/ ab = None
  \/ ab # None /\ (ab.retired \/ ab.kind # step.kind \/ step.value \notin ab.options)
  \/ ~step.given

\* A step as it is written, and with what its device method adds (flow_expansion).
Raw(step) == [step EXCEPT !.model = None]
Resolved(step) == [step EXCEPT !.given = TRUE]

\* What the stations, the assets and the capabilities as they are make of a step.
ValidateStep(step, ss, as, abs) ==
  /\ step.how = "device" => ~DeviceIssues(abs[step.cap], step)
  /\ \E s \in Station : ss[s] # None /\ StationFits(ss[s], as, step)

IsValid(r, ss, as, abs) == ValidateStep(Resolved(StepOf[r]), ss, as, abs)

\* Without capabilities named, every recipe is looked at. A step by hand names the
\* capability of its station elsewhere than a device step and is passed over. The
\* steps are taken as they are written, without their methods.
Concerned_Mut(r, caps) == caps = {}

Concerned(r, caps) == caps = {} \/ (StepOf[r].how = "device" /\ StepOf[r].cap \in caps)

RevalidateRecipes(caps, ss, as, abs) ==
  [r \in Recipe |-> IF flows[r].state = "released" /\ Concerned(r, caps)
                    THEN [flows[r] EXCEPT !.needs = ~ValidateStep(Raw(StepOf[r]), ss, as, abs)] ELSE flows[r]]

RevalidateForStations(rows, ss, as) ==
  LET caps == UNION {DOMAIN row.limits : row \in rows} IN
  IF caps = {} THEN flows ELSE RevalidateRecipes(caps, ss, as, abilities)

OpenAt_Mut(s) == {}

OpenAt(s) == {n \in DOMAIN windows : windows[n] # None /\ windows[n].station = s}

ChannelsFit_Mut(channels, a) == assets[a] # None

ChannelsFit(channels, a) ==
  /\ assets[a] # None
  /\ channels <= assets[a].capacity

LimitProblems(limits) ==
  \E c \in DOMAIN limits : LET ab == IF abilities[c] = None THEN Unregistered ELSE abilities[c] IN
    limits[c] = {} \/ ~(limits[c] \subseteq ab.options)

\* A station comes to an asset: whose model stands.
AdoptAssetModel(own, of) ==
  CASE own = None \/ own = of -> [station |-> None, asset |-> of]
    [] of = None /\ own # None -> [station |-> None, asset |-> own]
    [] OTHER -> [station |-> own, asset |-> of]

\* The rows after the station came to asset a.
Adopted(row, a) ==
  LET models == AdoptAssetModel(row.model, assets[a].model) IN
  [row |-> [row EXCEPT !.asset = a, !.model = models.station],
   assets |-> [assets EXCEPT ![a].model = models.asset]]

-----------------------------------------------------------------------------
(* The schedule and the runs, as far as the register sees them.             *)

Allocate(s, c) ==
  \E n \in DOMAIN windows :
    /\ windows[n] = None
    /\ s \in Registered
    /\ ~stations[s].retired /\ stations[s].status # "offline" /\ c \in DOMAIN stations[s].limits
    /\ windows' = [windows EXCEPT ![n] = [station |-> s, cap |-> c, asset |-> stations[s].asset, unit |-> stations[s].unit]]
    /\ placed' = placed \cup {s, stations[s].asset}
    /\ May("windows")
    /\ UNCHANGED <<assets, stations, abilities, flows>>

Release(n) ==
  /\ windows[n] # None
  /\ windows' = [windows EXCEPT ![n] = None]
  /\ UNCHANGED <<assets, stations, abilities, flows, placed, left>>

ReleaseRecipe(r) ==
  /\ flows[r].state = "approved"
  /\ IsValid(r, stations, assets, abilities)
  /\ flows' = [flows EXCEPT ![r] = [state |-> "released", needs |-> FALSE]]
  /\ UNCHANGED <<assets, stations, abilities, windows, placed, left>>

-----------------------------------------------------------------------------
(* Stations.                                                                *)

CreateStation(s, row) ==
  /\ stations[s] = None
  /\ row.asset # None => ChannelsFit(row.channels, row.asset)
  /\ ~LimitProblems(row.limits)
  /\ \E new \in {IF row.asset = None THEN [row |-> row, assets |-> assets] ELSE Adopted(row, row.asset)} :
       /\ stations' = [stations EXCEPT ![s] = new.row]
       /\ assets' = new.assets
       /\ flows' = RevalidateRecipes(DOMAIN row.limits, stations', assets', abilities)
  /\ May("stations")
  /\ UNCHANGED <<abilities, windows, placed>>

\* The rows after a change of a station; change has the fields that are sent.
Changed(row, change, to) ==
  CASE "model" \in DOMAIN change /\ to.asset # None -> [row |-> [to EXCEPT !.model = None], assets |-> assets]
    [] "asset" \in DOMAIN change /\ "model" \notin DOMAIN change /\ to.asset # None /\ to.asset # row.asset -> Adopted(to, to.asset)
    [] "asset" \in DOMAIN change /\ "model" \notin DOMAIN change /\ to.asset = None /\ row.asset # None /\ row.model = None ->
         [row |-> [to EXCEPT !.model = assets[row.asset].model], assets |-> assets]
    [] OTHER -> [row |-> to, assets |-> assets]

StationSent(change, row) ==
  [row EXCEPT !.asset = Sent(change, row, "asset"), !.channels = Sent(change, row, "channels"),
              !.unit = Sent(change, row, "unit"), !.model = Sent(change, row, "model")]

UpdateStation(s, change) ==
  /\ s \in Registered
  /\ \E to \in {StationSent(change, stations[s])} :
       /\ to.asset # None => assets[to.asset] # None
       /\ "model" \in DOMAIN change /\ to.asset # None => to.model \in {None, assets[to.asset].model}
       /\ to.asset # stations[s].asset => OpenAt(s) = {}
       /\ {"channels", "asset"} \cap DOMAIN change # {} /\ to.asset # None => ChannelsFit(to.channels, to.asset)
       /\ to.unit # stations[s].unit => OpenAt(s) = {}
       /\ \E new \in {Changed(stations[s], change, to)} :
            /\ stations' = [stations EXCEPT ![s] = new.row]
            /\ assets' = new.assets
            /\ flows' = IF {"model", "asset"} \cap DOMAIN change = {} THEN flows
                        ELSE RevalidateRecipes(DOMAIN to.limits, stations', assets', abilities)
  /\ May("stations")
  /\ UNCHANGED <<abilities, windows, placed>>

UpdateLimits_Mut(s, limits, remove) ==
  /\ s \in Registered
  /\ ~LimitProblems(limits)
  /\ remove \cap DOMAIN limits = {} /\ remove \subseteq DOMAIN stations[s].limits
  /\ \E kept \in {[c \in DOMAIN stations[s].limits \ remove |-> stations[s].limits[c]]} :
       stations' = [stations EXCEPT ![s].limits = Over(limits, kept)]
  /\ flows' = RevalidateRecipes(remove \cup DOMAIN limits, stations', assets, abilities)
  /\ May("limits")
  /\ UNCHANGED <<assets, abilities, windows, placed>>

UpdateLimits(s, limits, remove) ==
  /\ s \in Registered
  /\ ~LimitProblems(limits)
  /\ remove \cap DOMAIN limits = {} /\ remove \subseteq DOMAIN stations[s].limits
  /\ {windows[n].cap : n \in OpenAt(s)} \cap remove = {}
  /\ \E kept \in {[c \in DOMAIN stations[s].limits \ remove |-> stations[s].limits[c]]} :
       stations' = [stations EXCEPT ![s].limits = Over(limits, kept)]
  /\ flows' = RevalidateRecipes(remove \cup DOMAIN limits, stations', assets, abilities)
  /\ May("limits")
  /\ UNCHANGED <<assets, abilities, windows, placed>>

SetStationRetired(s, retired) ==
  /\ s \in Registered
  /\ retired => stations[s].status # "running" /\ OpenAt(s) = {}
  /\ stations' = [stations EXCEPT ![s].retired = retired, ![s].status = IF retired THEN "offline" ELSE "idle"]
  /\ flows' = RevalidateRecipes(DOMAIN stations[s].limits, stations', assets, abilities)
  /\ May("stations")
  /\ UNCHANGED <<assets, abilities, windows, placed>>

DeleteStation(s) ==
  /\ s \in Registered
  /\ stations[s].retired /\ s \notin placed
  /\ stations' = [stations EXCEPT ![s] = None]
  /\ flows' = IF DOMAIN stations[s].limits = {} THEN flows
              ELSE RevalidateRecipes(DOMAIN stations[s].limits, stations', assets, abilities)
  /\ May("stations")
  /\ UNCHANGED <<assets, abilities, windows, placed>>

-----------------------------------------------------------------------------
(* Assets.                                                                  *)

CreateAsset(a, row) ==
  /\ assets[a] = None
  /\ assets' = [assets EXCEPT ![a] = row]
  /\ May("assets")
  /\ UNCHANGED <<stations, abilities, flows, windows, placed>>

Mapped(a) == {s \in Registered : stations[s].asset = a}

AssetSent(change, row) ==
  [row EXCEPT !.state = Sent(change, row, "state"), !.capacity = Sent(change, row, "capacity"),
              !.model = Sent(change, row, "model")]

UpdateAsset_Mut(a, change) ==
  /\ assets[a] # None
  /\ \E to \in {AssetSent(change, assets[a])} :
       /\ assets' = [assets EXCEPT ![a] = to]
       /\ IF to.model = assets[a].model THEN UNCHANGED <<stations, flows>>
          ELSE /\ stations' = [s \in Station |-> IF s \in Mapped(a) /\ stations[s].model \in {assets[a].model, to.model}
                                                 THEN [stations[s] EXCEPT !.model = None] ELSE stations[s]]
               /\ flows' = RevalidateForStations({stations[s] : s \in Mapped(a)}, stations', assets')
  /\ May("assets")
  /\ UNCHANGED <<abilities, windows, placed>>

UpdateAsset(a, change) ==
  /\ assets[a] # None
  /\ "capacity" \in DOMAIN change => \A s \in Mapped(a) : stations[s].channels <= change.capacity
  /\ \E to \in {AssetSent(change, assets[a])} :
       /\ assets' = [assets EXCEPT ![a] = to]
       /\ IF to.model = assets[a].model THEN UNCHANGED <<stations, flows>>
          ELSE /\ stations' = [s \in Station |-> IF s \in Mapped(a) /\ stations[s].model \in {assets[a].model, to.model}
                                                 THEN [stations[s] EXCEPT !.model = None] ELSE stations[s]]
               /\ flows' = RevalidateForStations({stations[s] : s \in Mapped(a)}, stations', assets')
  /\ May("assets")
  /\ UNCHANGED <<abilities, windows, placed>>

LinkStation(a, s, move) ==
  /\ assets[a] # None /\ s \in Registered
  /\ stations[s].asset # a
  /\ stations[s].asset # None => move
  /\ OpenAt(s) = {}
  /\ stations[s].channels <= assets[a].capacity
  /\ \E own \in {IF stations[s].asset # None /\ stations[s].model = None THEN assets[stations[s].asset].model ELSE stations[s].model} :
     \E new \in {Adopted([stations[s] EXCEPT !.model = own], a)} :
       /\ stations' = [stations EXCEPT ![s] = new.row]
       /\ assets' = new.assets
       /\ flows' = RevalidateForStations({new.row}, stations', assets')
  /\ May("assets")
  /\ UNCHANGED <<abilities, windows, placed>>

UnlinkStation(a, s) ==
  /\ assets[a] # None /\ s \in Registered
  /\ stations[s].asset = a
  /\ OpenAt(s) = {}
  /\ stations' = [stations EXCEPT ![s].asset = None, ![s].model = IF @ = None THEN assets[a].model ELSE @]
  /\ flows' = RevalidateForStations({stations'[s]}, stations', assets)
  /\ May("assets")
  /\ UNCHANGED <<assets, abilities, windows, placed>>

DeleteAsset(a) ==
  /\ assets[a] # None
  /\ assets[a].state = "retired" /\ Mapped(a) = {} /\ a \notin placed
  /\ assets' = [assets EXCEPT ![a] = None]
  /\ May("assets")
  /\ UNCHANGED <<stations, abilities, flows, windows, placed>>

-----------------------------------------------------------------------------
(* Capabilities.                                                            *)

RegisterCapability(c, kind, options, at) ==
  /\ abilities[c] = None
  /\ abilities' = [abilities EXCEPT ![c] = [kind |-> kind, options |-> options, retired |-> FALSE]]
  /\ stations' = [s \in Station |-> IF s \in Registered \cap at
                                    THEN [stations[s] EXCEPT !.limits = Over([x \in {c} |-> options], @)] ELSE stations[s]]
  /\ May("abilities")
  /\ UNCHANGED <<assets, flows, windows, placed>>

\* What is left of a window: a parameter that is gone or of another kind has none, an
\* option that is gone is no longer allowed.
Narrowed(window, before, after) ==
  IF after.kind = "gone" \/ after.kind # before.kind THEN {}
  ELSE IF after.kind = "enum" THEN window \cap after.options ELSE window

UpdateCapability(c, kind, options) ==
  /\ abilities[c] # None
  /\ \E to \in {[abilities[c] EXCEPT !.kind = kind, !.options = options]} :
       /\ abilities' = [abilities EXCEPT ![c] = to]
       /\ stations' = [s \in Station |-> IF s \in Registered /\ c \in DOMAIN stations[s].limits
                                         THEN [stations[s] EXCEPT !.limits[c] = Narrowed(@, abilities[c], to)] ELSE stations[s]]
  /\ flows' = RevalidateRecipes({c}, stations', assets, abilities')
  /\ May("abilities")
  /\ UNCHANGED <<assets, windows, placed>>

SetCapabilityRetired(c, retired) ==
  /\ abilities[c] # None
  /\ abilities' = [abilities EXCEPT ![c].retired = retired]
  /\ May("abilities")
  /\ UNCHANGED <<assets, stations, flows, windows, placed>>

DeleteCapability(c) ==
  /\ abilities[c] # None
  /\ \A s \in Registered : c \notin DOMAIN stations[s].limits
  /\ \A r \in Recipe : ~(StepOf[r].how = "device" /\ StepOf[r].cap = c)
  /\ abilities' = [abilities EXCEPT ![c] = None]
  /\ May("abilities")
  /\ UNCHANGED <<assets, stations, flows, windows, placed>>

-----------------------------------------------------------------------------
(* What is sent.                                                            *)

Limit(c) == [{c} -> SUBSET Value \ {{}}]
AnyLimits == {<<>>} \cup UNION {Limit(c) : c \in Cap}

StationChanges ==
  {[asset |-> a] : a \in Asset \cup {None}} \cup {[channels |-> n] : n \in 1..2} \cup {[unit |-> u] : u \in {"batch", "sample"}}
  \cup {[model |-> m] : m \in Model \cup {None}} \cup {[asset |-> a, channels |-> n] : a \in Asset, n \in 1..2}

AssetChanges ==
  {[capacity |-> n] : n \in 1..2} \cup {[model |-> m] : m \in Model} \cup {[state |-> "retired"]}

NewStations ==
  [asset : Asset \cup {None}, channels : 1..2, unit : {"batch"}, model : Model \cup {None}, limits : AnyLimits,
   retired : {FALSE}, status : {"idle"}]

Definitions == {<<"gone", {}>>} \cup ({"number"} \X {Value}) \cup ({"enum"} \X (SUBSET Value \ {{}}))

RegisterInit ==
  /\ assets = [a \in Asset |-> IF a \in DOMAIN Present.asset THEN Present.asset[a] ELSE None]
  /\ stations = [s \in Station |-> IF s \in DOMAIN Present.station THEN Present.station[s] ELSE None]
  /\ abilities = [c \in Cap |-> [kind |-> "number", options |-> Value, retired |-> FALSE]]
  /\ \E r \in Recipe : flows = [q \in Recipe |-> [state |-> IF q = r THEN "approved" ELSE "retired", needs |-> FALSE]]
  /\ windows = [n \in 1..MaxWindows |-> None]
  /\ placed = {}
  /\ left \in Scenarios

StationNext ==
  \/ \E s \in Station :
       \/ \E row \in NewStations : CreateStation(s, row)
       \/ \E change \in StationChanges : UpdateStation(s, change)
       \/ \E limits \in AnyLimits, remove \in SUBSET Cap : UpdateLimits(s, limits, remove)
       \/ \E retired \in BOOLEAN : SetStationRetired(s, retired)
       \/ DeleteStation(s)
       \/ \E c \in Cap : Allocate(s, c)
  \/ \E a \in Asset :
       \/ \E n \in 1..2, m \in Model \cup {None} : CreateAsset(a, [state |-> "active", capacity |-> n, model |-> m])
       \/ \E change \in AssetChanges : UpdateAsset(a, change)
       \/ \E s \in Station, move \in BOOLEAN : LinkStation(a, s, move)
       \/ \E s \in Station : UnlinkStation(a, s)
       \/ DeleteAsset(a)
  \/ \E c \in Cap :
       \/ \E d \in Definitions : \/ d[1] # "gone" /\ \E at \in SUBSET Station : RegisterCapability(c, d[1], d[2], at)
                                 \/ UpdateCapability(c, d[1], d[2])
       \/ \E retired \in BOOLEAN : SetCapabilityRetired(c, retired)
       \/ DeleteCapability(c)
  \/ \E n \in DOMAIN windows : Release(n)
  \/ \E r \in Recipe : ReleaseRecipe(r)

-----------------------------------------------------------------------------
(* Properties.                                                              *)

\* After any requests in any order, one at a time: a window that is open is on a
\* station that is in use, is the same device and counts the same way as when it was
\* opened, and is still able to do the step (station_service.py:361, :958, :972,
\* :1095, asset_service.py:313).
WindowsKeepTheirStation ==
  \A n \in DOMAIN windows : windows[n] # None =>
    LET row == stations[windows[n].station] IN
    /\ row # None
    /\ ~row.retired /\ row.asset = windows[n].asset /\ row.unit = windows[n].unit
    /\ windows[n].cap \in DOMAIN row.limits

\* After any requests in any order, one at a time: no station is split into more
\* channels than its asset has, and none is of an asset that is gone, though four
\* handlers of two services change the pair (station_service.py:1011,
\* asset_service.py:272, :339).
ChannelsWithinAsset ==
  \A s \in Registered : stations[s].asset # None =>
    /\ assets[stations[s].asset] # None
    /\ stations[s].channels <= assets[stations[s].asset].capacity

\* After any requests in any order, one at a time: a released recipe no station can
\* carry out any longer is marked, so that no batch
\* is made from it (station_service.py:389). Device steps that use no device method
\* and a capability in use: the steps are looked at without their methods, a step by
\* hand is passed over, and retiring a capability looks at no recipe.
RevisionIsTold ==
  \A r \in Recipe :
    (/\ flows[r].state = "released" /\ ~flows[r].needs
     /\ StepOf[r].how = "device" /\ StepOf[r].model = None
     /\ ~abilities[StepOf[r].cap].retired)
    => IsValid(r, stations, assets, abilities)

RegisterHolds == WindowsKeepTheirStation /\ ChannelsWithinAsset /\ RevisionIsTold

\* services/asset_service.py:287: the model of an asset decides whether a device
\* method fits its stations, so the recipes are looked at when it changes. A released
\* recipe whose method fits no station any longer is marked.
ModelsAreTold ==
  \A r \in Recipe :
    (flows[r].state = "released" /\ ~flows[r].needs /\ StepOf[r].model # None)
    => \E s \in Registered : StepOf[r].cap \in DOMAIN stations[s].limits /\ StationModel(stations[s], assets) = StepOf[r].model
=============================================================================
