--------------------------------- MODULE Upkeep ---------------------------------
(*****************************************************************************)
(* One asset between use and maintenance: the bookings that keep it free,    *)
(* the maintenance orders that take it out of use and give it back, and the  *)
(* calibrations that permit its use. A handler is one transaction, but an    *)
(* order is made in two: its booking is committed first.                     *)
(*****************************************************************************)
EXTENDS Integers, Sequences, FiniteSets

CONSTANTS
  None,
  Capacity,   \* what the asset can do at a time
  Covered,    \* the capabilities a calibration may be for
  MaxTime, MaxBookings, MaxOrders, MaxCalibrations, MaxOwnHand  \* bounds

VARIABLES
  upkeepClock,
  condition,     \* the state of the asset: "active", "maintenance" or "retired"
  bookings,      \* [from, to, state, kind]
  orders,        \* [state, before, booking], before the state of the asset when the work began
  ordering,      \* the booking of an order that is being made, or None
  calibrations,  \* [from, expires, result, scope]
  ownHand        \* how often people set the state of the asset themselves (bound)

upkeepVars == <<upkeepClock, condition, bookings, orders, ordering, calibrations, ownHand>>

Times == 0..MaxTime
Windows == {w \in [from : Times, to : Times] : w.from < w.to}
LiveBooking == {"pending", "confirmed"}

Overlaps(v, w) == v.from < w.to /\ v.to > w.from

-----------------------------------------------------------------------------
(* What a window may be used for.                                           *)

\* Every booking that overlaps counts, those that do not meet each other too.
BookingBlockers_Mut(w) ==
  Cardinality({n \in DOMAIN bookings : bookings[n].state \in LiveBooking /\ Overlaps(bookings[n], w)}) > Capacity

BookingBlockers(w) ==
  Cardinality({n \in DOMAIN bookings : bookings[n].state \in LiveBooking /\ Overlaps(bookings[n], w)}) >= Capacity

Covers(c, cap) == c.scope = {} \/ cap \in c.scope

\* The calibration that counts at a moment: the latest in effect, a failed one first.
Governing_Mut(cap, at) ==
  LET prior == {n \in DOMAIN calibrations : Covers(calibrations[n], cap) /\ calibrations[n].from <= at /\ calibrations[n].result = "pass"} IN
  IF prior = {} THEN None
  ELSE calibrations[CHOOSE n \in prior : \A m \in prior : calibrations[m].from <= calibrations[n].from]

Governing(cap, at) ==
  LET prior == {n \in DOMAIN calibrations : Covers(calibrations[n], cap) /\ calibrations[n].from <= at}
      latest == {n \in prior : \A m \in prior : calibrations[m].from <= calibrations[n].from}
      failed == {n \in latest : calibrations[n].result # "pass"} IN
  CASE prior = {} -> None
    [] failed # {} -> calibrations[CHOOSE n \in failed : TRUE]
    [] OTHER -> calibrations[CHOOSE n \in latest : \A m \in latest : n <= m]

\* The asset is permitted for a capability over a window.
Calibrated(cap, w) ==
  /\ condition = "active"
  /\ \A n \in DOMAIN calibrations :
       ~(Covers(calibrations[n], cap) /\ calibrations[n].result # "pass" /\ w.from < calibrations[n].from /\ calibrations[n].from < w.to)
  /\ \E c \in {Governing(cap, w.from)} :
       c # None /\ c.result = "pass" /\ c.expires # None /\ c.expires >= w.to

-----------------------------------------------------------------------------
(* Bookings and calibrations.                                               *)

Booking(w, kind) == [from |-> w.from, to |-> w.to, state |-> "confirmed", kind |-> kind]

\* The asset's row is locked while the windows are compared.
CreateBooking(w, kind) ==
  /\ Len(bookings) < MaxBookings
  /\ ~BookingBlockers(w)
  /\ bookings' = Append(bookings, Booking(w, kind))
  /\ UNCHANGED <<upkeepClock, condition, orders, ordering, calibrations, ownHand>>

CancelBooking(n) ==
  /\ bookings[n].state \notin {"cancelled", "done"}
  /\ bookings[n].kind # "schedule"
  /\ bookings' = [bookings EXCEPT ![n].state = "cancelled"]
  /\ UNCHANGED <<upkeepClock, condition, orders, ordering, calibrations, ownHand>>

AddCalibration(from, expires, result, scope) ==
  /\ Len(calibrations) < MaxCalibrations
  /\ result = "pass" => expires # None
  /\ expires # None => expires > from
  /\ calibrations' = Append(calibrations, [from |-> from, expires |-> expires, result |-> result, scope |-> scope])
  /\ UNCHANGED <<upkeepClock, condition, bookings, orders, ordering, ownHand>>

\* People set the state of the asset (update_asset), whatever is worked on.
SetCondition(state) ==
  /\ ownHand < MaxOwnHand
  /\ state # condition
  /\ condition' = state
  /\ ownHand' = ownHand + 1
  /\ UNCHANGED <<upkeepClock, bookings, orders, ordering, calibrations>>

-----------------------------------------------------------------------------
(* Maintenance orders.                                                      *)

Book(w) ==
  /\ ordering = None
  /\ Len(orders) < MaxOrders /\ Len(bookings) < MaxBookings
  /\ condition # "retired"
  /\ ~BookingBlockers(w)
  /\ bookings' = Append(bookings, Booking(w, "maintenance"))
  /\ ordering' = Len(bookings')
  /\ UNCHANGED <<upkeepClock, condition, orders, calibrations, ownHand>>

\* The process dies between the two commits: the booking stays, the order does not come.
Order(survives) ==
  /\ ordering # None
  /\ orders' = IF survives THEN Append(orders, [state |-> "planned", before |-> None, booking |-> ordering]) ELSE orders
  /\ ordering' = None
  /\ UNCHANGED <<upkeepClock, condition, bookings, calibrations, ownHand>>

\* A booking that is done early ends now.
CloseBooking(n, state) ==
  LET b == bookings[n] IN
  IF b.state \notin LiveBooking THEN bookings
  ELSE [bookings EXCEPT ![n].state = state, ![n].to = IF state = "done" /\ b.to > upkeepClock THEN upkeepClock ELSE @]

Start(n) ==
  /\ orders[n].state = "planned"
  /\ orders' = [orders EXCEPT ![n].state = "in_progress", ![n].before = condition]
  /\ condition' = "maintenance"
  /\ UNCHANGED <<upkeepClock, bookings, ordering, calibrations, ownHand>>

\* What failed stays out of use.
Complete(n, result) ==
  /\ orders[n].state = "in_progress"
  /\ condition' = IF result = "fail" THEN condition
                  ELSE IF orders[n].before = "maintenance" THEN "active" ELSE orders[n].before
  /\ bookings' = CloseBooking(orders[n].booking, "done")
  /\ orders' = [orders EXCEPT ![n].state = "done"]
  /\ UNCHANGED <<upkeepClock, ordering, calibrations, ownHand>>

CancelOrder_Mut(n) ==
  /\ orders[n].state \in {"planned", "in_progress"}
  /\ condition' = IF orders[n].state = "in_progress" THEN orders[n].before ELSE condition
  /\ bookings' = bookings
  /\ orders' = [orders EXCEPT ![n].state = "cancelled"]
  /\ UNCHANGED <<upkeepClock, ordering, calibrations, ownHand>>

CancelOrder(n) ==
  /\ orders[n].state \in {"planned", "in_progress"}
  /\ condition' = IF orders[n].state = "in_progress" THEN orders[n].before ELSE condition
  /\ bookings' = CloseBooking(orders[n].booking, "cancelled")
  /\ orders' = [orders EXCEPT ![n].state = "cancelled"]
  /\ UNCHANGED <<upkeepClock, ordering, calibrations, ownHand>>

UpkeepTick ==
  /\ upkeepClock < MaxTime
  /\ upkeepClock' = upkeepClock + 1
  /\ UNCHANGED <<condition, bookings, orders, ordering, calibrations, ownHand>>

UpkeepInit ==
  /\ upkeepClock = 0
  /\ condition = "active"
  /\ bookings = <<>> /\ orders = <<>> /\ ordering = None
  /\ calibrations = <<>>
  /\ ownHand = 0

UpkeepNext ==
  \/ UpkeepTick
  \/ \E w \in Windows : CreateBooking(w, "manual") \/ Book(w)
  \/ \E n \in DOMAIN bookings : CancelBooking(n)
  \/ \E survives \in BOOLEAN : Order(survives)
  \/ \E n \in DOMAIN orders :
       \/ Start(n)
       \/ \E result \in {"pass", "fail"} : Complete(n, result)
       \/ CancelOrder(n)
  \/ \E state \in {"active", "retired"} : SetCondition(state)
  \/ \E from \in Times, expires \in Times \cup {None}, result \in {"pass", "fail"}, scope \in SUBSET Covered :
       AddCalibration(from, expires, result, scope)

-----------------------------------------------------------------------------
(* Properties.                                                              *)

\* At no moment is the asset promised more often than the capacity it has allows
\* (domain/resources.py:108: counts the bookings that overlap the window, asset_service.py:484).
\* A capacity that people lower (asset_service.py:272) is not held against the bookings there are.
NeverOverbooked ==
  \A t \in Times :
    Cardinality({n \in DOMAIN bookings : bookings[n].state \in LiveBooking /\ bookings[n].from <= t /\ t < bookings[n].to}) <= Capacity

\* What has ended keeps no time (maintenance_service.py:204).
EndedKeepsNoTime ==
  \A n \in DOMAIN orders : orders[n].state \in {"done", "cancelled"} => bookings[orders[n].booking].state \notin LiveBooking

\* Whenever the check lets a step have a window, the last calibration in effect is a
\* passed one at every moment of it (domain/resources.py:58, :69).
PassedThroughout ==
  \A w \in Windows, cap \in Covered : Calibrated(cap, w) =>
    \A t \in w.from..(w.to - 1) :
      LET known == {n \in DOMAIN calibrations : Covers(calibrations[n], cap) /\ calibrations[n].from <= t} IN
      /\ known # {}
      /\ \A n \in known : (\A m \in known : calibrations[m].from <= calibrations[n].from) => calibrations[n].result = "pass"

UpkeepHolds == NeverOverbooked /\ EndedKeepsNoTime /\ PassedThroughout
=============================================================================
