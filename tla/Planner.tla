------------------------------ MODULE Planner ------------------------------
(***************************************************************************)
(* The step scheduler of api/app/domain/scheduling.py: plan_steps places   *)
(* the steps of one batch, in list order, into the free windows of the     *)
(* station timeline.  Times are minutes.  A window is                      *)
(*   [b, i, s, k, from, to, u]: batch, step, station, kind ("work",        *)
(*   "transfer", "clean", "assist"), start, end, channels it takes.        *)
(* A step is [able, dur, pre, hold, assist, gap, role]: the stations that  *)
(* can take it ({} when it needs none), its minutes, its predecessors,     *)
(* whether it is a wait that keeps its predecessor's station, the sets of  *)
(* stations for each assisting capability, its hard gap (None without),    *)
(* and the labware role of its plate.                                      *)
(***************************************************************************)
EXTENDS Integers, Sequences, FiniteSets, SequencesExt, FiniteSetsExt

CONSTANTS
    Channels,    \* station -> channels that work at the same time
    PerSample,   \* stations whose channels are counted by sample
    AssetOf,     \* station -> asset
    Capacity,    \* asset -> capacity
    Booked,      \* [a, from, to, u]: maintenance, calibration, manual bookings
    Carriers,    \* the transfer stations
    TransferMin, CleanMin,
    Expiry,      \* station -> the end of its calibration
    Samples,     \* samples of a batch
    MaxTries,    \* bound: attempts to find main station and helpers together (500)
    None

Work == "work"
Overlapping(w, from, to) == w.from < to /\ w.to > from
SumU(rows) == MapThenSumSet(LAMBDA r : r.u, rows)
UnitsOn(s) == IF s \in PerSample THEN Samples ELSE 1

\* The largest number of units held at one moment of the window.
PeakLoad(rows, from, to) ==
    LET at(t) == SumU({r \in rows : r.from <= t /\ t < r.to})
        moments == {from} \cup {r.from : r \in {x \in rows : Overlapping(x, from, to) /\ x.from > from}}
    IN  Max({at(t) : t \in moments})

OnAsset(busy, a) ==
    {r \in busy : AssetOf[r.s] = a} \cup {r \in Booked : r.a = a}

\* The station counts every window that touches the span (an upper bound),
\* the asset what is held at one moment.
Fits(busy, s, from, to) ==
    LET rows == {r \in busy : r.s = s /\ Overlapping(r, from, to)}
    IN  /\ SumU(rows) + UnitsOn(s) <= Channels[s]
        /\ PeakLoad(OnAsset(busy, AssetOf[s]), from, to) + UnitsOn(s) <= Capacity[AssetOf[s]]

CanEver(s) == UnitsOn(s) <= Channels[s] /\ UnitsOn(s) <= Capacity[AssetOf[s]]

\* Room appears only where a window ends, so the earliest start is the
\* requested moment or one of those ends.
EarliestFree(busy, s, notBefore, span) ==
    Min({t \in {notBefore} \cup {r.to : r \in OnAsset(busy, AssetOf[s]) \cup {x \in busy : x.s = s}} :
            t >= notBefore /\ Fits(busy, s, t, t + span)})

Row(b, i, s, k, from, span) ==
    [b |-> b, i |-> i, s |-> s, k |-> k, from |-> from, to |-> from + span,
     u |-> IF k = "transfer" THEN 1 ELSE UnitsOn(s)]

\* Stations that can take the step now: able, not held by a stopped batch,
\* not unavailable.
Candidates(steps, i, shut) == {s \in steps[i].able \ shut : CanEver(s)}

\* The wait that keeps step i's station.
HoldAfter(steps, i) == {w \in DOMAIN steps : steps[w].hold /\ steps[w].pre = {i} /\ steps[i].able # {}}
HoldMin(steps, i) == IF HoldAfter(steps, i) = {} THEN 0 ELSE steps[CHOOSE w \in HoldAfter(steps, i) : TRUE].dur

\* The predecessor that ends last; the tail stands for those before the range.
Anchor(p, st, i) ==
    LET known == p.steps[i].pre \cap DOMAIN st.ends
        last == CHOOSE k \in known : \A j \in known :
                    st.ends[j] < st.ends[k] \/ (st.ends[j] = st.ends[k] /\ j <= k)
    IN  IF known = {} THEN [end |-> p.begin, at |-> None]
        ELSE [end |-> IF known = p.steps[i].pre THEN st.ends[last] ELSE Max({st.ends[last], p.begin}),
              at |-> st.where[last]]

\* The clean window this batch left on s; the search for a takeover ignores
\* every window with the same start and end there.
Twins(st, s) ==
    IF st.clean[s] = None THEN {}
    ELSE {r \in st.busy : r.s = s /\ r.from = st.clean[s].from /\ r.to = st.clean[s].to}

\* One candidate station: when the step could begin there, on the room that is
\* left (keep) or taking over this batch's clean window (reuse).
Bid(st, s, needs, keep, reuse) ==
    LET take == st.clean[s] # None /\ ~needs /\ reuse < st.clean[s].to
    IN  [s |-> s, needs |-> needs, takes |-> take, begin |-> IF take THEN reuse ELSE keep]
Offer(p, st, s, span, prev, ready) ==
    LET needs == prev # None /\ s # prev
        at    == Max({p.begin, ready + (IF needs THEN TransferMin ELSE 0)})
    IN  Bid(st, s, needs, EarliestFree(st.busy, s, at, span + CleanMin),
            EarliestFree(st.busy \ Twins(st, s), s, at, span + CleanMin))
Best(offers, rank) == CHOOSE o \in offers : \A x \in offers :
                          o.begin < x.begin \/ (o.begin = x.begin /\ rank[o.s] <= rank[x.s])

\* The ride to the station, on the carrier that is free first.
Carrier(busy, ready, rank) ==
    LET ride(c) == EarliestFree(busy, c, ready, TransferMin)
    IN  CHOOSE c \in Carriers : \A x \in Carriers :
            ride(c) < ride(x) \/ (ride(c) = ride(x) /\ rank[c] <= rank[x])
Trip(p, i, busy, ready, needs) ==
    {Row(p.b, i, c, "transfer", EarliestFree(busy, c, ready, TransferMin), TransferMin) :
        c \in IF needs /\ Carriers # {} THEN {Carrier(busy, ready, p.rank)} ELSE {}}

\* The main station and one station of each assisting capability, free at the
\* same time: the helpers are chosen in the order of the capabilities with the
\* main slot and the helpers chosen so far entered for the attempt.
RECURSIVE TogetherFrom(_, _, _, _, _, _)
TogetherFrom(p, busy, i, main, begin, tries) ==
    LET dur  == p.steps[i].dur
        slot(s) == [Row(p.b, i, s, "assist", begin, dur) EXCEPT !.k = "tentative"]
        pick(acc, able) ==
            LET free == {s \in able \ p.shut : CanEver(s) /\ s # main /\ s \notin Range(acc.chosen)}
                when(s) == EarliestFree(acc.busy, s, begin, dur)
                best == CHOOSE s \in free : \A x \in free : when(s) <= when(x)
            IN  IF free = {} \/ acc.latest = None THEN [acc EXCEPT !.latest = None]
                ELSE [chosen |-> Append(acc.chosen, best), latest |-> Max({acc.latest, when(best)}),
                      busy |-> acc.busy \cup {slot(best)}]
        all  == FoldLeft(pick, [chosen |-> <<>>, latest |-> begin, busy |-> busy \cup {slot(main)}],
                         p.steps[i].assist)
    IN  IF all.latest = None \/ tries = 0 THEN [begin |-> None, helpers |-> {}]
        ELSE IF all.latest = begin THEN [begin |-> begin, helpers |-> Range(all.chosen)]
        ELSE TogetherFrom(p, busy, i, main, EarliestFree(busy, main, all.latest, dur + CleanMin), tries - 1)

NextPlate_Mut(st, role) == None
NextPlate(st, role) == IF role \in DOMAIN st.plate THEN st.plate[role] ELSE None

Fail(st, i) == [st EXCEPT !.err = i]

\* A wait whose device step is not planned now: the sample is in that device.
PlaceHeld(p, st, i, anchor) ==
    LET row == Row(p.b, i, anchor.at, Work, anchor.end, p.steps[i].dur)
    IN  IF anchor.at = None \/ ~Fits(st.busy, anchor.at, anchor.end, anchor.end + p.steps[i].dur)
        THEN Fail(st, i)
        ELSE [st EXCEPT !.busy = @ \cup {row}, !.ends = (i :> row.to) @@ @, !.where = (i :> anchor.at) @@ @]

\* The step enters its windows: the work, the wait that keeps the station, the
\* clean-up after both, the helpers.
Enter(p, st, i, s, busy, both) ==
    LET hold  == HoldMin(p.steps, i)
        work  == Row(p.b, i, s, Work, both.begin, p.steps[i].dur)
        off   == work.to + hold
        clean == Row(p.b, i, s, "clean", off, CleanMin)
        role  == p.steps[i].role
    IN  [st EXCEPT
            !.busy  = busy \cup {work, clean} \cup {Row(p.b, w, s, Work, work.to, hold) : w \in HoldAfter(p.steps, i)}
                      \cup {Row(p.b, i, h, "assist", both.begin, p.steps[i].dur) : h \in both.helpers},
            !.ends  = [w \in HoldAfter(p.steps, i) |-> off] @@ (i :> work.to) @@ @,
            !.where = [w \in HoldAfter(p.steps, i) |-> s] @@ (i :> s) @@ @,
            !.clean = [@ EXCEPT ![s] = clean],
            !.plate = IF role \in p.roles THEN (role :> [free |-> off, at |-> s]) @@ @ ELSE @]

\* A begin, with helpers where the step asks for some, not later than its gap.
PlaceTogether(p, st, i, end, s, busy, both) ==
    IF both.begin = None \/ (p.steps[i].gap # None /\ both.begin - end > p.steps[i].gap) THEN Fail(st, i)
    ELSE Enter(p, st, i, s, busy, both)
PlaceFrom(p, st, i, end, s, busy, begin) ==
    PlaceTogether(p, st, i, end, s, busy,
                  IF p.steps[i].assist = <<>> THEN [begin |-> begin, helpers |-> {}]
                  ELSE TogetherFrom(p, busy, i, s, begin, MaxTries))

\* On the chosen station, after the ride there.
PlaceAfter(p, st, i, end, best, busy, trip) ==
    PlaceFrom(p, st, i, end, best.s, busy \cup trip,
              IF \E r \in trip : r.to > best.begin
              THEN EarliestFree(busy \cup trip, best.s, Max({r.to : r \in trip}),
                                p.steps[i].dur + HoldMin(p.steps, i) + CleanMin)
              ELSE best.begin)
PlaceAt(p, st, i, end, ready, best) ==
    LET busy == IF best.takes THEN st.busy \ {st.clean[best.s]} ELSE st.busy
    IN  PlaceAfter(p, st, i, end, best, busy, Trip(p, i, busy, ready, best.needs))

PlaceReady(p, st, i, end, prev, ready) ==
    LET span   == p.steps[i].dur + HoldMin(p.steps, i)
        offers == {o \in {Offer(p, st, s, span, prev, ready) : s \in Candidates(p.steps, i, p.shut)} :
                       o.begin + span <= Expiry[o.s]}
    IN  IF offers = {} THEN Fail(st, i) ELSE PlaceAt(p, st, i, end, ready, Best(offers, p.rank))

\* Where the sample comes from, and when: its plate may still be needed elsewhere.
PlaceDevice(p, st, i, anchor) ==
    LET role    == p.steps[i].role
        onPlate == role \in p.roles
        plate   == NextPlate(st, role)
    IN  IF onPlate /\ plate # None THEN PlaceReady(p, st, i, anchor.end, plate.at, Max({anchor.end, plate.free}))
        ELSE PlaceReady(p, st, i, anchor.end, IF onPlate /\ role # "" THEN None ELSE anchor.at, anchor.end)

\* One turn of the loop of plan_steps.
PlaceAnchored(p, st, i, anchor) ==
        IF st.err # None \/ i \in DOMAIN st.ends THEN st
        ELSE IF p.steps[i].hold THEN PlaceHeld(p, st, i, anchor)
        ELSE IF p.steps[i].able = {}
        THEN [st EXCEPT !.ends = (i :> Max({anchor.end, p.begin}) + p.steps[i].dur) @@ @,
                        !.where = (i :> anchor.at) @@ @]
        ELSE PlaceDevice(p, st, i, anchor)
Place(p, st, i) == PlaceAnchored(p, st, i, Anchor(p, st, i))

\* plan_steps: p is [b, steps, begin, roles, shut, rank]; the timeline and what
\* is known of the steps that are not planned (ends, where, plate) come in tail.
Outcome(last, busy) == [err |-> last.err, rows |-> last.busy \ busy, ends |-> last.ends]
PlanSteps(p, busy, tail) ==
    LET start == [busy |-> busy, ends |-> tail.ends, where |-> tail.where, plate |-> tail.plate,
                  clean |-> [s \in DOMAIN Channels |-> None], err |-> None]
        todo  == SetToSortSeq(DOMAIN p.steps \ DOMAIN tail.ends, <)
    IN  Outcome(FoldLeft(LAMBDA st, i : Place(p, st, i), start, todo), busy)

NoTail == [ends |-> <<>>, where |-> <<>>, plate |-> <<>>]
============================================================================
