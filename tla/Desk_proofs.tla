---------------------------- MODULE Desk_proofs ----------------------------
(***************************************************************************)
(* The safety of what people decide beside the runs, for any people, any   *)
(* content and any bound: the assets, the gate of the devices, documents,  *)
(* results, the register of the equipment, and the parts of Office_proofs. *)
(* Each part has an inductive invariant; the parts share no state, so a    *)
(* step of another part leaves it alone.                                   *)
(***************************************************************************)
EXTENDS Office_proofs

-----------------------------------------------------------------------------
(* Upkeep.  No booking comes back to life, and work that is under way knows *)
(* the state it took the asset from.                                        *)

AssetState == {"active", "maintenance", "retired"}
BookingRow == [from : Nat, to : Nat, state : {"confirmed", "cancelled", "done"}, kind : {"manual", "maintenance"}]
OrderRow == [state : {"planned", "in_progress", "done", "cancelled"}, before : AssetState \cup {None}, booking : Nat]
CalibrationRow == [from : Nat, expires : Nat \cup {None}, result : {"pass", "fail"}, scope : SUBSET Scope]
UpkeepTyped ==
  /\ upkeepClock \in Nat /\ condition \in AssetState
  /\ bookings \in Seq(BookingRow) /\ orders \in Seq(OrderRow) /\ ordering \in Nat \cup {None}
  /\ calibrations \in Seq(CalibrationRow)

\* The bookings of a list that hold a moment, and those that hold it never more than allowed.
HoldsAt(list, t) ==
  {n \in DOMAIN list : list[n].state \in {"pending", "confirmed"} /\ list[n].from <= t /\ t < list[n].to}
FitsAlways(list) == \A t \in Nat : Cardinality(HoldsAt(list, t)) <= AssetCapacity

OrdersBooked ==
  /\ ordering # None => ordering \in DOMAIN bookings
  /\ \A n \in DOMAIN orders : orders[n].booking \in DOMAIN bookings
EndedIsFree ==
  \A n \in DOMAIN orders :
    orders[n].state \in {"done", "cancelled"} => bookings[orders[n].booking].state \in {"cancelled", "done"}
WorksRun == \A n \in DOMAIN orders : orders[n].state = "in_progress" => orders[n].before # None
UpkeepInv == UpkeepTyped /\ FitsAlways(bookings) /\ OrdersBooked /\ EndedIsFree /\ WorksRun

(* An asset starts free, and in use.                                        *)
LEMMA UpkeepStart == ASSUME Upkept!UpkeepInit \/ Permitted!UpkeepInit PROVE UpkeepInv
<1>1. /\ upkeepClock = 0 /\ condition = "active" /\ bookings = <<>> /\ orders = <<>> /\ ordering = None
      /\ calibrations = <<>>
  BY DEF Upkept!UpkeepInit, Permitted!UpkeepInit
<1>2. UpkeepTyped
  BY <1>1 DEF UpkeepTyped, AssetState
<1>3. FitsAlways(bookings)
  <2>1. \A t \in Nat : HoldsAt(bookings, t) = {}
    BY <1>1 DEF HoldsAt
  <2>2. Cardinality({}) = 0
    BY FS_EmptySet
  <2>3. QED
    BY <2>1, <2>2, AssetsAreUsed DEF FitsAlways
<1>4. OrdersBooked /\ EndedIsFree /\ WorksRun
  BY <1>1 DEF OrdersBooked, EndedIsFree, WorksRun
<1>5. QED
  BY <1>2, <1>3, <1>4 DEF UpkeepInv

(* A list of bookings is finite, and so is every part of it.                *)
LEMMA BookingsFinite ==
  ASSUME NEW list \in Seq(BookingRow), NEW S \in SUBSET (DOMAIN list)
  PROVE  IsFiniteSet(S) /\ Cardinality(S) \in Nat
<1>1. IsFiniteSet(1..Len(list))
  BY FS_Interval
<1>2. DOMAIN list = 1..Len(list)
  OBVIOUS
<1>3. IsFiniteSet(S)
  BY <1>1, <1>2, FS_Subset
<1>4. QED
  BY <1>3, FS_CardinalityType

(* A booking where the window is free leaves no moment with too many.       *)
LEMMA BookingFits ==
  ASSUME NEW list \in Seq(BookingRow), NEW new \in BookingRow, FitsAlways(list),
         Cardinality({n \in DOMAIN list : list[n].state \in {"pending", "confirmed"}
                                          /\ list[n].from < new.to /\ list[n].to > new.from}) < AssetCapacity
  PROVE  FitsAlways(Append(list, new))
<1> DEFINE Near == {n \in DOMAIN list : list[n].state \in {"pending", "confirmed"}
                                        /\ list[n].from < new.to /\ list[n].to > new.from}
           k == Len(list) + 1
<1> SUFFICES ASSUME NEW t \in Nat PROVE Cardinality(HoldsAt(Append(list, new), t)) <= AssetCapacity
  BY DEF FitsAlways
<1>1. /\ DOMAIN Append(list, new) = DOMAIN list \cup {k} /\ k \notin DOMAIN list
      /\ Append(list, new)[k] = new /\ \A n \in DOMAIN list : Append(list, new)[n] = list[n]
  OBVIOUS
<1>2. /\ new.from \in Nat /\ new.to \in Nat
      /\ \A n \in DOMAIN list : list[n].from \in Nat /\ list[n].to \in Nat
  <2>1. \A n \in DOMAIN list : list[n] \in BookingRow
    OBVIOUS
  <2>2. QED
    BY <2>1 DEF BookingRow
<1>3. CASE new.from <= t /\ t < new.to
  <2>1. HoldsAt(Append(list, new), t) \subseteq Near \cup {k}
    BY <1>1, <1>2, <1>3 DEF HoldsAt
  <2>2. IsFiniteSet(Near) /\ Cardinality(Near) \in Nat
    BY BookingsFinite
  <2>3. IsFiniteSet(Near \cup {k}) /\ Cardinality(Near \cup {k}) = Cardinality(Near) + 1
    <3>1. k \notin Near
      BY <1>1
    <3>2. QED
      BY <2>2, <3>1, FS_AddElement
  <2>4. Cardinality(HoldsAt(Append(list, new), t)) <= Cardinality(Near \cup {k})
    BY <2>1, <2>3, FS_Subset
  <2>5. IsFiniteSet(HoldsAt(Append(list, new), t))
    BY <2>1, <2>3, FS_Subset
  <2>6. Cardinality(HoldsAt(Append(list, new), t)) \in Nat
    BY <2>5, FS_CardinalityType
  <2>7. Cardinality(Near) + 1 <= AssetCapacity
    BY <2>2, AssetsAreUsed
  <2>8. QED
    BY <2>2, <2>3, <2>4, <2>6, <2>7, AssetsAreUsed
<1>4. CASE ~(new.from <= t /\ t < new.to)
  <2>1. HoldsAt(Append(list, new), t) = HoldsAt(list, t)
    BY <1>1, <1>2, <1>4 DEF HoldsAt
  <2>2. QED
    BY <2>1 DEF FitsAlways
<1>5. QED
  BY <1>3, <1>4

(* Bookings that end, or end earlier, leave no moment with more.            *)
LEMMA FewerFit ==
  ASSUME NEW list \in Seq(BookingRow), NEW less \in Seq(BookingRow), FitsAlways(list),
         \A t \in Nat : HoldsAt(less, t) \subseteq HoldsAt(list, t)
  PROVE  FitsAlways(less)
<1> SUFFICES ASSUME NEW t \in Nat PROVE Cardinality(HoldsAt(less, t)) <= AssetCapacity
  BY DEF FitsAlways
<1>1. IsFiniteSet(HoldsAt(list, t)) /\ Cardinality(HoldsAt(list, t)) \in Nat
  BY BookingsFinite DEF HoldsAt
<1>2. IsFiniteSet(HoldsAt(less, t)) /\ Cardinality(HoldsAt(less, t)) \in Nat
  BY BookingsFinite DEF HoldsAt
<1>3. Cardinality(HoldsAt(less, t)) <= Cardinality(HoldsAt(list, t))
  BY <1>1, FS_Subset
<1>4. QED
  BY <1>1, <1>2, <1>3, AssetsAreUsed DEF FitsAlways

(* A booking that ends early is free for ever; the others stay.             *)
LEMMA BookingCloses ==
  ASSUME UpkeepInv, NEW b \in DOMAIN bookings, NEW end \in {"done", "cancelled"},
         NEW list, list = Upkept!CloseBooking(b, end)
  PROVE  /\ list \in Seq(BookingRow) /\ DOMAIN list = DOMAIN bookings /\ FitsAlways(list)
         /\ list[b].state \in {"cancelled", "done"}
         /\ \A m \in DOMAIN bookings : bookings[m].state \in {"cancelled", "done"} => list[m].state \in {"cancelled", "done"}
<1> DEFINE last == IF end = "done" /\ bookings[b].to > upkeepClock THEN upkeepClock ELSE bookings[b].to
           new == [from |-> bookings[b].from, to |-> last, state |-> end, kind |-> bookings[b].kind]
<1>1. bookings \in Seq(BookingRow) /\ upkeepClock \in Nat
  BY DEF UpkeepInv, UpkeepTyped
<1>2. bookings[b] \in BookingRow
  BY <1>1
<1>3. bookings[b].from \in Nat /\ bookings[b].to \in Nat /\ bookings[b].kind \in {"manual", "maintenance"}
  BY <1>2 DEF BookingRow
<1>4. new \in BookingRow
  BY <1>1, <1>3 DEF BookingRow
<1>5. CASE bookings[b].state \notin {"pending", "confirmed"}
  <2>1. list = bookings
    BY <1>5, Zenon DEF Upkept!CloseBooking, Upkept!LiveBooking
  <2>2. bookings[b].state \in {"cancelled", "done"}
    BY <1>2, <1>5 DEF BookingRow
  <2>3. QED
    BY <1>1, <2>1, <2>2 DEF UpkeepInv
<1>6. CASE bookings[b].state \in {"pending", "confirmed"}
  <2>1. list = [[bookings EXCEPT ![b].state = end] EXCEPT ![b].to = IF end = "done" /\ bookings[b].to > upkeepClock THEN upkeepClock ELSE @]
    BY <1>6, Zenon DEF Upkept!CloseBooking, Upkept!LiveBooking
  <2>2. list = [m \in DOMAIN bookings |-> IF m = b THEN new ELSE bookings[m]]
    BY <1>2, <2>1 DEF BookingRow
  <2> HIDE DEF new
  <2>3. list \in Seq(BookingRow) /\ DOMAIN list = DOMAIN bookings
    <3>1. list \in [1..Len(bookings) -> BookingRow]
      BY <1>1, <1>4, <2>2
    <3>2. QED
      BY <1>1, <3>1, SeqOfFunction
  <2>4. new.state \in {"cancelled", "done"}
    BY DEF new
  <2>5. \A t \in Nat : HoldsAt(list, t) \subseteq HoldsAt(bookings, t)
    BY <2>2, <2>4 DEF HoldsAt
  <2>6. FitsAlways(list)
    BY <1>1, <2>3, <2>5, FewerFit DEF UpkeepInv
  <2>7. QED
    BY <2>2, <2>3, <2>4, <2>6
<1>7. QED
  BY <1>5, <1>6

(* The asset is booked where its window is free.                            *)
LEMMA BookingMade ==
  ASSUME UpkeepInv, NEW w \in [from : Nat, to : Nat], NEW kind \in {"manual", "maintenance"},
         ~Upkept!BookingBlockers(w), bookings' = Append(bookings, Upkept!Booking(w, kind)),
         ordering' = ordering \/ ordering' = Len(bookings'),
         UNCHANGED <<upkeepClock, condition, orders, calibrations>>
  PROVE  UpkeepInv'
<1> DEFINE new == Upkept!Booking(w, kind)
<1>1. bookings \in Seq(BookingRow)
  BY DEF UpkeepInv, UpkeepTyped
<1>2. new \in BookingRow /\ new.from = w.from /\ new.to = w.to
  BY DEF Upkept!Booking, BookingRow
<1> DEFINE near == {n \in DOMAIN bookings : bookings[n].state \in {"pending", "confirmed"}
                                            /\ bookings[n].from < new.to /\ bookings[n].to > new.from}
<1>3. Cardinality(near) < AssetCapacity
  <2>1. Upkept!Cardinality(near) = Cardinality(near)
    BY Zenon DEF Upkept!Cardinality, Cardinality
  <2>2. near = {n \in DOMAIN bookings : bookings[n].state \in Upkept!LiveBooking /\ Upkept!Overlaps(bookings[n], w)}
    BY <1>2, Zenon DEF Upkept!LiveBooking, Upkept!Overlaps
  <2>3. ~(Upkept!Cardinality(near) >= AssetCapacity)
    BY <2>2, Zenon DEF Upkept!BookingBlockers
  <2>4. Cardinality(near) \in Nat
    BY <1>1, BookingsFinite
  <2>5. QED
    BY <2>1, <2>3, <2>4, AssetsAreUsed
<1>4. FitsAlways(bookings')
  BY <1>1, <1>2, <1>3, BookingFits DEF UpkeepInv
<1> HIDE DEF new
<1>5. /\ bookings' \in Seq(BookingRow) /\ DOMAIN bookings \subseteq DOMAIN bookings'
      /\ \A n \in DOMAIN bookings : bookings'[n] = bookings[n]
      /\ Len(bookings') \in DOMAIN bookings'
  BY <1>1, <1>2, Appended DEF new
<1>6. UpkeepTyped'
  BY <1>5 DEF UpkeepInv, UpkeepTyped
<1>7. OrdersBooked'
  BY <1>5 DEF UpkeepInv, OrdersBooked
<1>8. EndedIsFree'
  BY <1>5 DEF UpkeepInv, EndedIsFree, OrdersBooked
<1>9. WorksRun'
  BY DEF UpkeepInv, WorksRun
<1>10. QED
  BY <1>4, <1>6, <1>7, <1>8, <1>9 DEF UpkeepInv

(* A booking is cancelled by whoever made it.                               *)
LEMMA BookingCancelled ==
  ASSUME UpkeepInv, NEW b \in DOMAIN bookings, Upkept!CancelBooking(b)
  PROVE  UpkeepInv'
<1> DEFINE new == [bookings[b] EXCEPT !.state = "cancelled"]
<1>1. bookings \in Seq(BookingRow) /\ bookings[b] \in BookingRow
  BY DEF UpkeepInv, UpkeepTyped
<1>2. new \in BookingRow /\ new.state = "cancelled"
  BY <1>1 DEF BookingRow
<1>3. bookings' = [m \in DOMAIN bookings |-> IF m = b THEN new ELSE bookings[m]]
  BY Zenon DEF Upkept!CancelBooking
<1>4. UNCHANGED <<upkeepClock, condition, orders, ordering, calibrations>>
  BY Zenon DEF Upkept!CancelBooking
<1> HIDE DEF new
<1>5. bookings' \in Seq(BookingRow) /\ DOMAIN bookings' = DOMAIN bookings
  <2>1. bookings' \in [1..Len(bookings) -> BookingRow]
    BY <1>1, <1>2, <1>3
  <2>2. QED
    BY <1>1, <2>1, SeqOfFunction
<1>6. FitsAlways(bookings')
  <2>1. \A t \in Nat : HoldsAt(bookings', t) \subseteq HoldsAt(bookings, t)
    BY <1>2, <1>3 DEF HoldsAt
  <2>2. QED
    BY <1>1, <1>5, <2>1, FewerFit DEF UpkeepInv
<1>7. UpkeepTyped' /\ OrdersBooked' /\ EndedIsFree'
  BY <1>2, <1>3, <1>4, <1>5 DEF UpkeepInv, UpkeepTyped, OrdersBooked, EndedIsFree
<1>8. WorksRun'
  BY <1>4 DEF UpkeepInv, WorksRun
<1>9. QED
  BY <1>6, <1>7, <1>8 DEF UpkeepInv

(* An order is made for the booking that was committed before it, or never. *)
LEMMA OrderMade ==
  ASSUME UpkeepInv, NEW survives \in BOOLEAN, Upkept!Order(survives)
  PROVE  UpkeepInv'
<1> DEFINE new == [state |-> "planned", before |-> None, booking |-> ordering]
<1>1. /\ ordering # None /\ orders' = (IF survives THEN Append(orders, new) ELSE orders)
      /\ ordering' = None /\ UNCHANGED <<upkeepClock, condition, bookings, calibrations>>
  BY Zenon DEF Upkept!Order
<1>2. orders \in Seq(OrderRow) /\ ordering \in DOMAIN bookings /\ ordering \in Nat
  BY <1>1 DEF UpkeepInv, UpkeepTyped, OrdersBooked
<1>3. new \in OrderRow /\ new.state = "planned" /\ new.booking \in DOMAIN bookings
  BY <1>2 DEF OrderRow
<1> HIDE DEF new
<1>4. /\ orders' \in Seq(OrderRow) /\ DOMAIN orders \subseteq DOMAIN orders'
      /\ \A n \in DOMAIN orders : orders'[n] = orders[n]
      /\ \A n \in DOMAIN orders' : n \in DOMAIN orders \/ orders'[n] = new
  <2>1. CASE survives
    BY <1>1, <1>2, <1>3, <2>1, Appended
  <2>2. CASE ~survives
    BY <1>1, <1>2, <2>2
  <2>3. QED
    BY <2>1, <2>2
<1>5. UpkeepTyped' /\ OrdersBooked' /\ EndedIsFree' /\ FitsAlways(bookings)'
  BY <1>1, <1>3, <1>4 DEF UpkeepInv, UpkeepTyped, OrdersBooked, EndedIsFree, FitsAlways
<1>7. WorksRun'
  BY <1>3, <1>4 DEF UpkeepInv, WorksRun
<1>8. QED
  BY <1>5, <1>7 DEF UpkeepInv

(* One order changes; the others stay as they are.                          *)
LEMMA OrderPut ==
  ASSUME NEW list \in Seq(OrderRow), NEW n \in DOMAIN list, NEW new \in OrderRow,
         NEW next, next = [m \in DOMAIN list |-> IF m = n THEN new ELSE list[m]]
  PROVE  /\ next \in Seq(OrderRow) /\ DOMAIN next = DOMAIN list /\ next[n] = new
         /\ \A m \in DOMAIN list : m # n => next[m] = list[m]
<1>1. next \in [1..Len(list) -> OrderRow]
  OBVIOUS
<1>2. next \in Seq(OrderRow)
  BY <1>1, SeqOfFunction
<1>3. QED
  BY <1>2

(* Work on an order keeps the state it took the asset from.                 *)
LEMMA OrderStarted ==
  ASSUME UpkeepInv, NEW n \in DOMAIN orders, Upkept!Start(n)
  PROVE  UpkeepInv'
<1> DEFINE new == [state |-> "in_progress", before |-> condition, booking |-> orders[n].booking]
<1>1. /\ orders[n].state = "planned"
      /\ orders' = [[orders EXCEPT ![n].state = "in_progress"] EXCEPT ![n].before = condition]
      /\ condition' = "maintenance"
      /\ UNCHANGED <<upkeepClock, bookings, ordering, calibrations>>
  BY Zenon DEF Upkept!Start
<1>2. orders \in Seq(OrderRow) /\ orders[n] \in OrderRow /\ condition \in AssetState
  BY DEF UpkeepInv, UpkeepTyped
<1>3. new \in OrderRow /\ new.before \in AssetState /\ new.booking = orders[n].booking
  BY <1>2 DEF OrderRow
<1>4. orders' = [m \in DOMAIN orders |-> IF m = n THEN new ELSE orders[m]]
  <2> DEFINE begun == [orders[n] EXCEPT !.state = "in_progress"]
             mid == [orders EXCEPT ![n].state = "in_progress"]
  <2>1. mid = [m \in DOMAIN orders |-> IF m = n THEN begun ELSE orders[m]]
    BY Zenon
  <2>2. [begun EXCEPT !.before = condition] = new
    <3>1. begun = [state |-> "in_progress", before |-> orders[n].before, booking |-> orders[n].booking]
      BY <1>2 DEF OrderRow
    <3> HIDE DEF begun
    <3>2. QED
      BY <3>1
  <2>3. orders' = [mid EXCEPT ![n].before = condition]
    BY <1>1
  <2> HIDE DEF mid, begun, new
  <2>4. orders' = [m \in DOMAIN mid |-> IF m = n THEN [mid[n] EXCEPT !.before = condition] ELSE mid[m]]
    BY <2>3, Zenon
  <2>5. mid[n] = begun /\ DOMAIN mid = DOMAIN orders /\ \A m \in DOMAIN orders : m # n => mid[m] = orders[m]
    BY <2>1
  <2>6. [mid[n] EXCEPT !.before = condition] = new
    BY <2>2, <2>5, Zenon
  <2>7. QED
    BY <2>4, <2>5, <2>6, Zenon
<1>5. new.state = "in_progress" /\ new.before = condition
  OBVIOUS
<1> HIDE DEF new
<1>6. /\ orders' \in Seq(OrderRow) /\ DOMAIN orders' = DOMAIN orders /\ orders'[n] = new
      /\ \A m \in DOMAIN orders : m # n => orders'[m] = orders[m]
  <2>1. orders \in Seq(OrderRow) /\ new \in OrderRow
    BY <1>2, <1>3
  <2>2. QED
    BY <1>4, <2>1, OrderPut
<1>9. UpkeepTyped'
  BY <1>1, <1>6 DEF UpkeepInv, UpkeepTyped, AssetState
<1>10. OrdersBooked'
  BY <1>1, <1>3, <1>6 DEF UpkeepInv, OrdersBooked
<1>11. EndedIsFree'
  BY <1>1, <1>5, <1>6 DEF UpkeepInv, EndedIsFree
<1>12. WorksRun'
  <2>1. condition # None
    BY <1>2, NoneIsNothing DEF AssetState
  <2>2. QED
    BY <1>5, <1>6, <2>1 DEF UpkeepInv, WorksRun
<1>13. FitsAlways(bookings)'
  BY <1>1 DEF UpkeepInv, FitsAlways
<1>14. QED
  BY <1>9, <1>10, <1>11, <1>12, <1>13 DEF UpkeepInv

\* An order ends.
EndsAs(n, end) == orders' = [orders EXCEPT ![n].state = end]

(* An order that ends gives its booking back; the other orders stay.        *)
LEMMA OrderEnded ==
  ASSUME UpkeepInv, NEW n \in DOMAIN orders, NEW end \in {"done", "cancelled"},
         EndsAs(n, end),
         bookings' = Upkept!CloseBooking(orders[n].booking, end),
         UNCHANGED <<upkeepClock, ordering, calibrations>>, condition' \in AssetState
  PROVE  /\ UpkeepTyped' /\ FitsAlways(bookings)' /\ OrdersBooked' /\ EndedIsFree' /\ WorksRun'
<1> DEFINE new == [orders[n] EXCEPT !.state = end]
           b == orders[n].booking
<1>1. orders \in Seq(OrderRow) /\ orders[n] \in OrderRow /\ b \in DOMAIN bookings
  BY DEF UpkeepInv, UpkeepTyped, OrdersBooked
<1>2. new \in OrderRow /\ new.state = end /\ new.booking = b
  <2>1. orders[n] \in OrderRow
    BY <1>1
  <2>2. QED
    BY <2>1 DEF OrderRow
<1>3. orders' = [m \in DOMAIN orders |-> IF m = n THEN new ELSE orders[m]]
  BY Zenon DEF EndsAs
<1> HIDE DEF new
<1>4. /\ orders' \in Seq(OrderRow) /\ DOMAIN orders' = DOMAIN orders /\ orders'[n] = new
      /\ \A m \in DOMAIN orders : m # n => orders'[m] = orders[m]
  <2>1. orders \in Seq(OrderRow) /\ new \in OrderRow
    BY <1>1, <1>2
  <2>2. QED
    BY <1>3, <2>1, OrderPut
<1>5. /\ bookings' \in Seq(BookingRow) /\ DOMAIN bookings' = DOMAIN bookings /\ FitsAlways(bookings')
      /\ bookings'[b].state \in {"cancelled", "done"}
      /\ \A m \in DOMAIN bookings : bookings[m].state \in {"cancelled", "done"} => bookings'[m].state \in {"cancelled", "done"}
  <2>1. bookings' = Upkept!CloseBooking(b, end)
    OBVIOUS
  <2> HIDE DEF b
  <2>2. QED
    BY <1>1, <2>1, BookingCloses
<1> HIDE DEF b
<1>6. UpkeepTyped'
  BY <1>4, <1>5 DEF UpkeepInv, UpkeepTyped
<1>7. OrdersBooked'
  BY <1>1, <1>2, <1>4, <1>5 DEF UpkeepInv, OrdersBooked
<1>8. EndedIsFree'
  <2>1. ASSUME NEW m \in DOMAIN orders', orders'[m].state \in {"done", "cancelled"}
        PROVE  bookings'[orders'[m].booking].state \in {"cancelled", "done"}
    <3>1. CASE m = n
      BY <1>2, <1>4, <1>5, <3>1
    <3>2. CASE m # n
      <4>1. orders'[m] = orders[m] /\ orders[m].booking \in DOMAIN bookings
        BY <1>4, <3>2 DEF UpkeepInv, OrdersBooked
      <4>2. bookings[orders[m].booking].state \in {"cancelled", "done"}
        BY <1>4, <2>1, <4>1 DEF UpkeepInv, EndedIsFree
      <4>3. QED
        BY <1>5, <4>1, <4>2
    <3>3. QED
      BY <3>1, <3>2
  <2>2. QED
    BY <2>1 DEF EndedIsFree
<1>9. WorksRun'
  BY <1>2, <1>4 DEF UpkeepInv, WorksRun
<1>10. QED
  BY <1>5, <1>6, <1>7, <1>8, <1>9

(* An order that is done leaves the asset in one of its states.             *)
LEMMA OrderCompleted ==
  ASSUME UpkeepInv, NEW n \in DOMAIN orders, NEW result \in {"pass", "fail"}, Upkept!Complete(n, result)
  PROVE  UpkeepInv'
<1>1. /\ orders[n].state = "in_progress"
      /\ condition' = (IF result = "fail" THEN condition
                       ELSE IF orders[n].before = "maintenance" THEN "active" ELSE orders[n].before)
      /\ bookings' = Upkept!CloseBooking(orders[n].booking, "done")
      /\ EndsAs(n, "done")
      /\ UNCHANGED <<upkeepClock, ordering, calibrations>>
  BY Zenon DEF Upkept!Complete, EndsAs
<1>2. orders[n] \in OrderRow /\ condition \in AssetState
  BY DEF UpkeepInv, UpkeepTyped
<1>3. orders[n].before \in AssetState
  <2>1. orders[n].before \in AssetState \cup {None}
    BY <1>2 DEF OrderRow
  <2>2. orders[n].before # None
    BY <1>1 DEF UpkeepInv, WorksRun
  <2>3. QED
    BY <2>1, <2>2
<1>4. condition' \in AssetState
  BY <1>1, <1>2, <1>3 DEF AssetState
<1>5. QED
  BY <1>1, <1>4, OrderEnded DEF UpkeepInv

(* A cancelled order puts the asset back to a state it had.                 *)
LEMMA OrderCancelled ==
  ASSUME UpkeepInv, NEW n \in DOMAIN orders, Upkept!CancelOrder(n)
  PROVE  UpkeepInv'
<1>1. /\ orders[n].state \in {"planned", "in_progress"}
      /\ condition' = (IF orders[n].state = "in_progress" THEN orders[n].before ELSE condition)
      /\ bookings' = Upkept!CloseBooking(orders[n].booking, "cancelled")
      /\ EndsAs(n, "cancelled")
      /\ UNCHANGED <<upkeepClock, ordering, calibrations>>
  BY Zenon DEF Upkept!CancelOrder, EndsAs
<1>2. orders[n] \in OrderRow /\ condition \in AssetState
  BY DEF UpkeepInv, UpkeepTyped
<1>3. orders[n].state = "in_progress" => orders[n].before \in AssetState
  <2>1. orders[n].before \in AssetState \cup {None}
    BY <1>2 DEF OrderRow
  <2>2. orders[n].state = "in_progress" => orders[n].before # None
    BY DEF UpkeepInv, WorksRun
  <2>3. QED
    BY <2>1, <2>2
<1>4. condition' \in AssetState
  BY <1>1, <1>2, <1>3
<1>5. QED
  BY <1>1, <1>4, OrderEnded DEF UpkeepInv

(* A person sets the state of the asset.                                    *)
LEMMA ConditionSet ==
  ASSUME UpkeepInv, NEW state \in {"active", "retired"}, condition' = state,
         UNCHANGED <<upkeepClock, bookings, orders, ordering, calibrations>>
  PROVE  UpkeepInv'
BY DEF UpkeepInv, UpkeepTyped, AssetState, FitsAlways, OrdersBooked, EndedIsFree, WorksRun

(* A calibration is recorded, or the time goes on: nothing else moves.      *)
LEMMA CalibrationsGoOn ==
  ASSUME UpkeepInv, UNCHANGED <<condition, bookings, orders, ordering>>,
         upkeepClock' \in Nat, calibrations' \in Seq(CalibrationRow)
  PROVE  UpkeepInv'
BY DEF UpkeepInv, UpkeepTyped, FitsAlways, OrdersBooked, EndedIsFree, WorksRun

(* A calibration is of a time, a result and what it is for.                 *)
LEMMA CalibrationAdded ==
  ASSUME UpkeepInv, NEW from \in Nat, NEW expires \in Nat \cup {None}, NEW result \in {"pass", "fail"},
         NEW scope \in SUBSET Scope,
         Upkept!AddCalibration(from, expires, result, scope) \/ Permitted!AddCalibration(from, expires, result, scope)
  PROVE  UpkeepInv'
<1> DEFINE new == [from |-> from, expires |-> expires, result |-> result, scope |-> scope]
<1>1. /\ calibrations' = Append(calibrations, new)
      /\ UNCHANGED <<upkeepClock, condition, bookings, orders, ordering>>
  BY Zenon DEF Upkept!AddCalibration, Permitted!AddCalibration
<1>2. calibrations \in Seq(CalibrationRow) /\ new \in CalibrationRow /\ upkeepClock \in Nat
  BY DEF UpkeepInv, UpkeepTyped, CalibrationRow
<1> HIDE DEF new
<1>3. calibrations' \in Seq(CalibrationRow) /\ upkeepClock' \in Nat
  BY <1>1, <1>2, Appended
<1>4. QED
  BY <1>1, <1>3, CalibrationsGoOn

(* Every step of the upkeep, whatever is explored of it.                    *)
LEMMA UpkeepStep == ASSUME UpkeepInv, Upkept!UpkeepNext \/ Permitted!UpkeepNext PROVE UpkeepInv'
<1>1. /\ Upkept!Times \subseteq Nat /\ Permitted!Times \subseteq Nat
      /\ Upkept!Windows \subseteq [from : Nat, to : Nat] /\ Permitted!Windows \subseteq [from : Nat, to : Nat]
  BY MomentsAreTime DEF Upkept!Times, Permitted!Times, Upkept!Windows, Permitted!Windows
<1>2. upkeepClock \in Nat /\ calibrations \in Seq(CalibrationRow) /\ bookings \in Seq(BookingRow) /\ orders \in Seq(OrderRow)
  BY DEF UpkeepInv, UpkeepTyped
<1>3. ASSUME Upkept!UpkeepTick \/ Permitted!UpkeepTick PROVE UpkeepInv'
  <2>1. upkeepClock' = upkeepClock + 1 /\ UNCHANGED <<condition, bookings, orders, ordering, calibrations>>
    BY <1>3 DEF Upkept!UpkeepTick, Permitted!UpkeepTick
  <2>2. QED
    BY <1>2, <2>1, CalibrationsGoOn
<1>4. ASSUME NEW w \in [from : Nat, to : Nat], Upkept!CreateBooking(w, "manual") \/ Upkept!Book(w) PROVE UpkeepInv'
  <2>1. \E kind \in {"manual", "maintenance"} :
          /\ ~Upkept!BookingBlockers(w) /\ bookings' = Append(bookings, Upkept!Booking(w, kind))
          /\ (ordering' = ordering \/ ordering' = Len(bookings'))
          /\ UNCHANGED <<upkeepClock, condition, orders, calibrations>>
    BY <1>4, Zenon DEF Upkept!CreateBooking, Upkept!Book
  <2>2. QED
    BY <2>1, BookingMade
<1>5. ASSUME NEW w \in [from : Nat, to : Nat], Permitted!CreateBooking(w, "manual") \/ Permitted!Book(w) PROVE UpkeepInv'
  <2>1. Len(bookings) < 0
    BY <1>5 DEF Permitted!CreateBooking, Permitted!Book
  <2>2. QED
    BY <1>2, <2>1
<1>6. ASSUME NEW n \in DOMAIN bookings, Upkept!CancelBooking(n) \/ Permitted!CancelBooking(n) PROVE UpkeepInv'
  <2>1. Upkept!CancelBooking(n)
    BY <1>6, Zenon DEF Upkept!CancelBooking, Permitted!CancelBooking
  <2>2. QED
    BY <2>1, BookingCancelled
<1>7. ASSUME NEW survives \in BOOLEAN, Upkept!Order(survives) \/ Permitted!Order(survives) PROVE UpkeepInv'
  <2>1. Upkept!Order(survives)
    BY <1>7, Zenon DEF Upkept!Order, Permitted!Order
  <2>2. QED
    BY <2>1, OrderMade
<1>8. ASSUME NEW n \in DOMAIN orders, Upkept!Start(n) \/ Permitted!Start(n) PROVE UpkeepInv'
  <2>1. Upkept!Start(n)
    BY <1>8, Zenon DEF Upkept!Start, Permitted!Start
  <2>2. QED
    BY <2>1, OrderStarted
<1>9. ASSUME NEW n \in DOMAIN orders, NEW result \in {"pass", "fail"},
             Upkept!Complete(n, result) \/ Permitted!Complete(n, result)
      PROVE  UpkeepInv'
  <2>1. Upkept!Complete(n, result)
    BY <1>9, Zenon DEF Upkept!Complete, Permitted!Complete, Upkept!CloseBooking, Permitted!CloseBooking,
       Upkept!LiveBooking, Permitted!LiveBooking
  <2>2. QED
    BY <2>1, OrderCompleted
<1>10. ASSUME NEW n \in DOMAIN orders, Upkept!CancelOrder(n) \/ Permitted!CancelOrder(n) PROVE UpkeepInv'
  <2>1. Upkept!CancelOrder(n)
    BY <1>10, Zenon DEF Upkept!CancelOrder, Permitted!CancelOrder, Upkept!CloseBooking, Permitted!CloseBooking,
       Upkept!LiveBooking, Permitted!LiveBooking
  <2>2. QED
    BY <2>1, OrderCancelled
<1>11. ASSUME NEW state \in {"active", "retired"}, Upkept!SetCondition(state) \/ Permitted!SetCondition(state)
       PROVE  UpkeepInv'
  <2>1. /\ condition' = state
        /\ UNCHANGED <<upkeepClock, bookings, orders, ordering, calibrations>>
    BY <1>11, Zenon DEF Upkept!SetCondition, Permitted!SetCondition
  <2>2. QED
    BY <2>1, ConditionSet
<1>12. CASE Upkept!UpkeepNext
  BY <1>1, <1>3, <1>4, <1>6, <1>7, <1>8, <1>9, <1>10, <1>11, <1>12, CalibrationAdded DEF Upkept!UpkeepNext
<1>13. CASE Permitted!UpkeepNext
  BY <1>1, <1>3, <1>5, <1>6, <1>7, <1>8, <1>9, <1>10, <1>11, <1>13, CalibrationAdded DEF Permitted!UpkeepNext
<1>14. QED
  BY <1>12, <1>13

\* The calibrations in effect at a moment, and the last of some.
KnownAt(cap, at) ==
  {n \in DOMAIN calibrations :
     (calibrations[n].scope = {} \/ cap \in calibrations[n].scope) /\ calibrations[n].from <= at}
LatestOf(S) == {n \in S : \A m \in S : calibrations[m].from <= calibrations[n].from}
PassedAt(cap, at) ==
  /\ KnownAt(cap, at) # {}
  /\ \A n \in LatestOf(KnownAt(cap, at)) : calibrations[n].result = "pass"

(* The last calibrations when a window begins passed, and none fails within *)
(* it: whichever is the last at a moment of the window has passed.          *)
LEMMA PermitHolds ==
  ASSUME UpkeepTyped, NEW w \in [from : Nat, to : Nat], NEW cap \in Scope, NEW t \in w.from..(w.to - 1),
         PassedAt(cap, w.from),
         \A n \in DOMAIN calibrations :
           ~((calibrations[n].scope = {} \/ cap \in calibrations[n].scope) /\ calibrations[n].result # "pass"
             /\ w.from < calibrations[n].from /\ calibrations[n].from < w.to)
  PROVE  PassedAt(cap, t)
<1>1. /\ w.from \in Nat /\ w.to \in Nat /\ t \in Nat /\ w.from <= t /\ t < w.to
      /\ \A n \in DOMAIN calibrations : calibrations[n].from \in Nat
  <2>1. \A n \in DOMAIN calibrations : calibrations[n] \in CalibrationRow
    BY DEF UpkeepTyped
  <2>2. QED
    BY <2>1 DEF CalibrationRow
<1>2. KnownAt(cap, w.from) \subseteq KnownAt(cap, t)
  BY <1>1 DEF KnownAt
<1>3. ASSUME NEW n \in LatestOf(KnownAt(cap, t)) PROVE calibrations[n].result = "pass"
  <2>1. n \in KnownAt(cap, t) /\ \A m \in KnownAt(cap, t) : calibrations[m].from <= calibrations[n].from
    BY DEF LatestOf
  <2>2. CASE calibrations[n].from <= w.from
    <3>1. n \in KnownAt(cap, w.from)
      BY <2>1, <2>2 DEF KnownAt
    <3>2. n \in LatestOf(KnownAt(cap, w.from))
      BY <1>2, <2>1, <3>1 DEF LatestOf
    <3>3. QED
      BY <3>2 DEF PassedAt
  <2>3. CASE ~(calibrations[n].from <= w.from)
    BY <1>1, <2>1, <2>3 DEF KnownAt
  <2>4. QED
    BY <2>2, <2>3
<1>4. QED
  BY <1>2, <1>3 DEF PassedAt

(* Whenever the check lets a window pass, a passed calibration covers it.   *)
LEMMA PermitsStand == ASSUME UpkeepTyped PROVE Upkept!PassedThroughout /\ Permitted!PassedThroughout
<1>1. /\ Upkept!Windows \subseteq [from : Nat, to : Nat] /\ Permitted!Windows \subseteq [from : Nat, to : Nat]
  BY MomentsAreTime DEF Upkept!Times, Permitted!Times, Upkept!Windows, Permitted!Windows
<1>2. ASSUME NEW w \in Upkept!Windows, NEW cap \in Scope, Upkept!Calibrated(cap, w), NEW t \in w.from..(w.to - 1)
      PROVE  PassedAt(cap, t)
  <2>1. w \in [from : Nat, to : Nat]
    BY <1>1
  <2> DEFINE governing == Upkept!Governing(cap, w.from)
             prior == KnownAt(cap, w.from)
             failed == {n \in LatestOf(prior) : calibrations[n].result # "pass"}
  <2>2. governing # None /\ governing.result = "pass"
    BY <1>2 DEF Upkept!Calibrated
  <2>3. /\ prior = {} => governing = None
        /\ prior # {} /\ failed # {} => governing = calibrations[CHOOSE n \in failed : TRUE]
    BY Zenon DEF Upkept!Governing, Upkept!Covers, KnownAt, LatestOf
  <2>4. failed # {} => calibrations[CHOOSE n \in failed : TRUE].result # "pass"
    <3>1. failed # {} => (CHOOSE n \in failed : TRUE) \in failed
      BY Zenon
    <3>2. QED
      BY <3>1
  <2> HIDE DEF governing
  <2>5. PassedAt(cap, w.from)
    BY <2>2, <2>3, <2>4 DEF PassedAt
  <2>6. \A n \in DOMAIN calibrations :
           ~((calibrations[n].scope = {} \/ cap \in calibrations[n].scope) /\ calibrations[n].result # "pass"
             /\ w.from < calibrations[n].from /\ calibrations[n].from < w.to)
    BY <1>2 DEF Upkept!Calibrated, Upkept!Covers
  <2>7. QED
    BY <2>1, <2>5, <2>6, PermitHolds
<1>3. ASSUME NEW w \in Permitted!Windows, NEW cap \in Scope, Permitted!Calibrated(cap, w), NEW t \in w.from..(w.to - 1)
      PROVE  PassedAt(cap, t)
  <2>1. w \in [from : Nat, to : Nat]
    BY <1>1
  <2> DEFINE governing == Permitted!Governing(cap, w.from)
             prior == KnownAt(cap, w.from)
             failed == {n \in LatestOf(prior) : calibrations[n].result # "pass"}
  <2>2. governing # None /\ governing.result = "pass"
    BY <1>3 DEF Permitted!Calibrated
  <2>3. /\ prior = {} => governing = None
        /\ prior # {} /\ failed # {} => governing = calibrations[CHOOSE n \in failed : TRUE]
    BY Zenon DEF Permitted!Governing, Permitted!Covers, KnownAt, LatestOf
  <2>4. failed # {} => calibrations[CHOOSE n \in failed : TRUE].result # "pass"
    <3>1. failed # {} => (CHOOSE n \in failed : TRUE) \in failed
      BY Zenon
    <3>2. QED
      BY <3>1
  <2> HIDE DEF governing
  <2>5. PassedAt(cap, w.from)
    BY <2>2, <2>3, <2>4 DEF PassedAt
  <2>6. \A n \in DOMAIN calibrations :
           ~((calibrations[n].scope = {} \/ cap \in calibrations[n].scope) /\ calibrations[n].result # "pass"
             /\ w.from < calibrations[n].from /\ calibrations[n].from < w.to)
    BY <1>3 DEF Permitted!Calibrated, Permitted!Covers
  <2>7. QED
    BY <2>1, <2>5, <2>6, PermitHolds
<1>4. Upkept!PassedThroughout
  <2> SUFFICES ASSUME NEW w \in Upkept!Windows, NEW cap \in Scope, Upkept!Calibrated(cap, w), NEW t \in w.from..(w.to - 1)
               PROVE  LET known == {n \in DOMAIN calibrations : Upkept!Covers(calibrations[n], cap) /\ calibrations[n].from <= t}
                      IN  /\ known # {}
                          /\ \A n \in known : (\A m \in known : calibrations[m].from <= calibrations[n].from)
                                               => calibrations[n].result = "pass"
    BY Zenon DEF Upkept!PassedThroughout
  <2>1. PassedAt(cap, t)
    BY <1>2
  <2>2. {n \in DOMAIN calibrations : Upkept!Covers(calibrations[n], cap) /\ calibrations[n].from <= t} = KnownAt(cap, t)
    BY Zenon DEF KnownAt, Upkept!Covers
  <2>3. QED
    BY <2>1, <2>2 DEF PassedAt, LatestOf
<1>5. Permitted!PassedThroughout
  <2> SUFFICES ASSUME NEW w \in Permitted!Windows, NEW cap \in Scope, Permitted!Calibrated(cap, w), NEW t \in w.from..(w.to - 1)
               PROVE  LET known == {n \in DOMAIN calibrations : Permitted!Covers(calibrations[n], cap) /\ calibrations[n].from <= t}
                      IN  /\ known # {}
                          /\ \A n \in known : (\A m \in known : calibrations[m].from <= calibrations[n].from)
                                               => calibrations[n].result = "pass"
    BY Zenon DEF Permitted!PassedThroughout
  <2>1. PassedAt(cap, t)
    BY <1>3
  <2>2. {n \in DOMAIN calibrations : Permitted!Covers(calibrations[n], cap) /\ calibrations[n].from <= t} = KnownAt(cap, t)
    BY Zenon DEF KnownAt, Permitted!Covers
  <2>3. QED
    BY <2>1, <2>2 DEF PassedAt, LatestOf
<1>6. QED
  BY <1>4, <1>5

(* What upkeep needs is enough for what it promises.                        *)
LEMMA UpkeepStands == ASSUME UpkeepInv PROVE UpkeepHolds
<1>2. Upkept!NeverOverbooked
  <2>1. Upkept!Times \subseteq Nat
    BY MomentsAreTime DEF Upkept!Times
  <2>2. ASSUME NEW t \in Upkept!Times PROVE Upkept!Cardinality(HoldsAt(bookings, t)) <= AssetCapacity
    <3>1. Upkept!Cardinality(HoldsAt(bookings, t)) = Cardinality(HoldsAt(bookings, t))
      BY Zenon DEF Upkept!Cardinality, Cardinality
    <3>2. QED
      BY <2>1, <3>1 DEF UpkeepInv, FitsAlways
  <2>3. QED
    BY <2>2, Zenon DEF Upkept!NeverOverbooked, HoldsAt, Upkept!LiveBooking
<1>3. Upkept!EndedKeepsNoTime
  BY DEF UpkeepInv, EndedIsFree, Upkept!EndedKeepsNoTime, Upkept!LiveBooking
<1>4. Upkept!PassedThroughout /\ Permitted!PassedThroughout
  BY PermitsStand DEF UpkeepInv
<1>5. QED
  BY <1>2, <1>3, <1>4 DEF UpkeepHolds, Upkept!UpkeepHolds

-----------------------------------------------------------------------------
(* Acceptance.  What the gate lets through is what was proved last, or will *)
(* be by the run in hand, of the registration as it stands.                 *)

RunRow == [level : {"readonly", "physical"}, state : {"queued", "running", "passed"}, version : Nat, signed : Conf \cup {None}]
AdapterRow == [conf : Conf, enabled : BOOLEAN, version : Nat, required : {None, "readonly", "physical"},
               approved : Driver \cup {None}, info : Driver \cup {None}, approval : Driver \cup {None}, up : BOOLEAN]
WorkerRow == [at : {"accept", "check", "raised", "close", "settle", "require", "writing", "written", "probe", "deliver", "down"},
              run : RunRow \cup {None}, conf : Conf \cup {None}, version : Nat, saw : Driver \cup {None},
              ok : BOOLEAN, left : BOOLEAN]
WriteRow == [state : {"none", "queued", "running", "done", "failed", "unknown", "cancelled"}, version : Nat, made : Nat]
DriverNames == {c.driver : c \in Conf} \cup {None}
GateTyped ==
  /\ adapter \in AdapterRow /\ installed \in Driver /\ runs \in SUBSET RunRow /\ write \in WriteRow
  /\ command \in [state : {"none", "queued", "acting", "unknown"}, conf : Conf \cup {None}]
  /\ worker \in WorkerRow /\ line \in AdapterRow \cup {None}
  /\ signature \in [version : Nat, conf : Conf] \cup {None}
  /\ proved \in [conf : Conf \cup {None}, driver : DriverNames] /\ vouched \in SUBSET (Driver \cup {None})

\* The worker of the station has one run in hand, which is under way until it is closed.
RunInHand ==
  /\ \A run, other \in Gate!Running : run = other
  /\ Gate!Running # {} => worker.at \in {"check", "close", "raised", "down"}
  /\ worker.at \in {"check", "close", "raised"} => Gate!Running # {}
  /\ worker.at \in {"check", "close", "raised", "settle"} =>
       /\ worker.run \in RunRow /\ worker.conf \in Conf /\ worker.version <= adapter.version
       /\ worker.version = adapter.version => worker.conf = adapter.conf
  /\ worker.at \in {"close", "settle"} => worker.saw \in Driver
\* What was signed, or is to be run, is of a version of the registration up to the present one.
SignedFor ==
  /\ signature # None =>
       signature.version <= adapter.version /\ (signature.version = adapter.version => signature.conf = adapter.conf)
  /\ \A run \in runs :
       /\ run.version <= adapter.version
       /\ run.level = "physical" /\ run.state = "queued" /\ run.version = adapter.version => run.signed = adapter.conf
  /\ line # None => line.version <= adapter.version
OpenIsProved ==
  adapter.conf.kind = "real" =>
    /\ adapter.required = None => proved.conf = adapter.conf
    /\ adapter.required # "physical" /\ adapter.conf.tasks => proved.driver = adapter.conf.driver
\* A run in hand of another registration proves that of this one which is not owed.
CheckIsFor ==
  worker.at = "check" /\ adapter.conf.kind = "real" =>
    /\ adapter.required = None => worker.conf = adapter.conf
    /\ adapter.required # "physical" /\ adapter.conf.tasks => worker.conf.driver = adapter.conf.driver
ReportIsProof ==
  worker.at \in {"close", "settle"} /\ worker.ok /\ worker.version = adapter.version =>
    /\ proved.conf = adapter.conf
    /\ worker.run.level = "physical" \/ Gate!Simulates(worker.conf) => proved.driver = adapter.conf.driver
Answered ==
  /\ adapter.approved # None => adapter.approved \in vouched
  /\ adapter.approval # None => adapter.approval \in vouched
WrittenOnce ==
  /\ write.made <= 1
  /\ write.state = "queued" \/ worker.at = "writing" => write.made = 0
  /\ worker.at = "writing" => write.state = "running"
GateCore == RunInHand /\ SignedFor /\ OpenIsProved /\ CheckIsFor /\ ReportIsProof /\ Answered
GateInv == GateTyped /\ GateCore /\ Gate!MovedAsSigned /\ WrittenOnce

(* The first registration owes an acceptance, which is due.                 *)
LEMMA GateStart == ASSUME Gate!AcceptanceInit PROVE GateInv
<1>1. PICK conf \in Conf, driver \in Driver :
        /\ installed = driver
        /\ adapter = [conf |-> conf, enabled |-> TRUE, version |-> 1, approved |-> None, info |-> None,
                      approval |-> None, up |-> FALSE,
                      required |-> Gate!Requirement([kind |-> "", driver |-> "", tasks |-> TRUE], conf, None)]
        /\ runs = (IF adapter.required = None THEN {} ELSE {Gate!NewRun(adapter, "readonly", None)})
  BY Zenon DEF Gate!AcceptanceInit
<1>2. /\ write = [state |-> "none", version |-> 0, made |-> 0] /\ command = [state |-> "none", conf |-> None]
      /\ worker = Gate!Idle /\ line = None /\ signature = None
      /\ proved = [conf |-> None, driver |-> None] /\ vouched = {}
  BY Zenon DEF Gate!AcceptanceInit
<1>3. None \notin {"readonly", "physical"}
  BY NoneIsNothing
<1>4. /\ Gate!Requirement([kind |-> "", driver |-> "", tasks |-> TRUE], conf, None) \in {None, "readonly", "physical"}
      /\ conf.kind = "real" =>
           /\ Gate!Requirement([kind |-> "", driver |-> "", tasks |-> TRUE], conf, None) # None
           /\ conf.tasks => Gate!Requirement([kind |-> "", driver |-> "", tasks |-> TRUE], conf, None) = "physical"
  BY <1>3 DEF Gate!Requirement
<1>5. /\ adapter \in AdapterRow /\ adapter.version = 1 /\ adapter.conf = conf /\ adapter.approved = None /\ adapter.approval = None
      /\ conf.kind = "real" => adapter.required # None /\ (conf.tasks => adapter.required = "physical")
  BY <1>1, <1>4 DEF AdapterRow
<1>6. runs \in SUBSET RunRow /\ \A run \in runs : run.level = "readonly" /\ run.state = "queued" /\ run.version = 1
  <2> DEFINE first == Gate!NewRun(adapter, "readonly", None)
  <2>1. adapter.version = 1 /\ runs = (IF adapter.required = None THEN {} ELSE {first})
    BY <1>1, <1>5
  <2>2. first \in RunRow /\ first.level = "readonly" /\ first.state = "queued" /\ first.version = 1
    BY <2>1 DEF Gate!NewRun, RunRow
  <2> HIDE DEF first
  <2>3. QED
    BY <2>1, <2>2
<1>7. worker \in WorkerRow /\ worker.at = "accept"
  BY <1>2 DEF Gate!Idle, WorkerRow
<1>8. /\ write \in WriteRow /\ command \in [state : {"none", "queued", "acting", "unknown"}, conf : Conf \cup {None}]
      /\ proved \in [conf : Conf \cup {None}, driver : DriverNames] /\ write.made = 0 /\ command.state = "none"
  BY <1>2 DEF WriteRow, DriverNames
<1>9. GateTyped
  BY <1>1, <1>2, <1>5, <1>6, <1>7, <1>8 DEF GateTyped
<1>10. Gate!Running = {}
  BY <1>6 DEF Gate!Running
<1>11. GateCore
  BY <1>2, <1>5, <1>6, <1>7, <1>10 DEF GateCore, RunInHand, SignedFor, OpenIsProved, CheckIsFor, ReportIsProof, Answered
<1>12. Gate!MovedAsSigned /\ WrittenOnce
  BY <1>7, <1>8 DEF Gate!MovedAsSigned, Gate!Acting, WrittenOnce
<1>13. QED
  BY <1>9, <1>11, <1>12 DEF GateInv

(* A step that leaves alone the registration, the run in hand and what is   *)
(* proved leaves alone what the gate relies on.                             *)
LEMMA CoreGoesOn ==
  ASSUME GateTyped, GateCore,
         adapter'.conf = adapter.conf, adapter'.version = adapter.version, adapter'.required = adapter.required,
         adapter'.approved = adapter.approved, adapter'.approval = adapter.approval \/ adapter'.approval \in vouched',
         proved' = proved, vouched \subseteq vouched', Gate!Running' = Gate!Running,
         \A run \in runs' : \/ run \in runs
                            \/ /\ run.version <= adapter.version
                               /\ run.level = "physical" => run.signed = adapter.conf,
         \/ signature' = signature \/ signature' = None
         \/ signature'.version = adapter.version /\ signature'.conf = adapter.conf,
         line' = None \/ line'.version = adapter.version \/ line' = line,
         \/ worker' = worker
         \/ /\ worker.at \notin {"check", "close", "raised"} /\ Gate!Running = {}
            /\ worker'.at \notin {"check", "close", "raised", "settle"}
         \/ worker'.at = "down"
  PROVE  GateCore'
<1>1. adapter.version \in Nat
  BY DEF GateTyped, AdapterRow
<1>2. RunInHand'
  BY DEF GateCore, RunInHand
<1>3. SignedFor'
  BY <1>1 DEF GateCore, SignedFor
<1>4. OpenIsProved'
  BY DEF GateCore, OpenIsProved
<1>5. CheckIsFor'
  BY DEF GateCore, CheckIsFor
<1>6. ReportIsProof'
  BY DEF GateCore, ReportIsProof, Gate!Simulates
<1>7. Answered'
  BY DEF GateCore, Answered
<1>8. QED
  BY <1>2, <1>3, <1>4, <1>5, <1>6, <1>7 DEF GateCore

(* The worker between its rounds has no run in hand.                        *)
LEMMA NoneInHand ==
  ASSUME GateCore, worker.at \notin {"check", "close", "raised", "down"}
  PROVE  Gate!Running = {}
BY DEF GateCore, RunInHand

(* Whoever signs has seen the registration as it stands.                    *)
LEMMA SignStep == ASSUME GateInv, Gate!Sign PROVE GateInv'
<1>1. /\ signature' = [version |-> adapter.version, conf |-> adapter.conf]
      /\ UNCHANGED <<adapter, installed, runs, write, command, worker, line, proved, vouched>>
  BY Zenon DEF Gate!Sign
<1>2. GateTyped /\ GateCore /\ adapter.version \in Nat /\ adapter.conf \in Conf
  BY DEF GateInv, GateTyped, AdapterRow
<1>3. GateTyped'
  BY <1>1, <1>2 DEF GateTyped
<1>4. signature'.version = adapter.version /\ signature'.conf = adapter.conf
  BY <1>1
<1>5. Gate!Running' = Gate!Running
  BY <1>1 DEF Gate!Running
<1>6. GateCore'
  BY <1>1, <1>2, <1>4, <1>5, CoreGoesOn
<1>7. Gate!MovedAsSigned' /\ WrittenOnce'
  BY <1>1 DEF GateInv, Gate!MovedAsSigned, Gate!Acting, WrittenOnce
<1>8. QED
  BY <1>3, <1>6, <1>7 DEF GateInv

(* A run is new: it is due, and for the registration as it is.              *)
LEMMA RunQueued ==
  ASSUME GateTyped, NEW rs \in SUBSET RunRow, NEW new \in RunRow, new.state # "running"
  PROVE  /\ Gate!Queued(rs, new) \in SUBSET RunRow
         /\ \A run \in Gate!Queued(rs, new) : run = new \/ run \in rs
         /\ {run \in Gate!Queued(rs, new) : run.state = "running"} = {run \in rs : run.state = "running"}
BY DEF Gate!Queued

(* Nothing else changes while runs are asked for, begun again or cancelled. *)
LEMMA RunsGoOn ==
  ASSUME GateInv, runs' \in SUBSET RunRow,
         {run \in runs' : run.state = "running"} = {run \in runs : run.state = "running"},
         \A run \in runs' : \/ run \in runs
                            \/ /\ run.version <= adapter.version
                               /\ run.level = "physical" => run.signed = adapter.conf,
         adapter' \in AdapterRow,
         adapter'.conf = adapter.conf, adapter'.version = adapter.version, adapter'.required = adapter.required,
         adapter'.approved = adapter.approved, adapter'.approval = adapter.approval \/ adapter'.approval \in vouched',
         vouched \subseteq vouched', vouched' \in SUBSET (Driver \cup {None}),
         signature' = signature \/ signature' = None, line' = line \/ line' = None,
         UNCHANGED <<installed, write, command, worker, proved>>
  PROVE  GateInv'
<1>1. GateTyped /\ GateCore
  BY DEF GateInv
<1>2. GateTyped'
  BY <1>1 DEF GateTyped
<1>3. Gate!Running' = Gate!Running
  BY DEF Gate!Running
<1>4. GateCore'
  BY <1>1, <1>3, CoreGoesOn
<1>5. Gate!MovedAsSigned' /\ WrittenOnce'
  BY DEF GateInv, Gate!MovedAsSigned, Gate!Acting, WrittenOnce
<1>6. QED
  BY <1>2, <1>4, <1>5 DEF GateInv

(* A new run of the registration, or of what was read of it.                *)
LEMMA NewRunTyped ==
  ASSUME NEW a \in AdapterRow, NEW level \in {"readonly", "physical"}, NEW signed \in Conf \cup {None}
  PROVE  /\ Gate!NewRun(a, level, signed) \in RunRow /\ Gate!NewRun(a, level, signed).state = "queued"
         /\ Gate!NewRun(a, level, signed).version = a.version /\ Gate!NewRun(a, level, signed).level = level
         /\ Gate!NewRun(a, level, signed).signed = signed
BY DEF Gate!NewRun, RunRow, AdapterRow

(* A run is asked for; one that moves the device is signed for.             *)
LEMMA AskStep == ASSUME GateInv, NEW level \in {"readonly", "physical"}, Gate!Ask(level) PROVE GateInv'
<1> DEFINE signed == IF level = "physical" THEN signature.conf ELSE None
           new == Gate!NewRun(adapter, level, signed)
<1>1. /\ level = "physical" => Gate!SignatureHolds
      /\ signature' = (IF level = "physical" THEN None ELSE signature)
      /\ runs' = Gate!Queued(runs, new)
      /\ UNCHANGED <<adapter, installed, write, command, worker, line, proved, vouched>>
  BY Zenon DEF Gate!Ask
<1>2. GateTyped /\ adapter \in AdapterRow /\ runs \in SUBSET RunRow /\ vouched \in SUBSET (Driver \cup {None})
      /\ adapter.version \in Nat /\ adapter.conf \in Conf
  BY DEF GateInv, GateTyped, AdapterRow
<1>3. level = "physical" => signature.conf = adapter.conf
  BY <1>1 DEF GateInv, GateCore, SignedFor, Gate!SignatureHolds
<1>4. signed \in Conf \cup {None} /\ (level = "physical" => signed = adapter.conf)
  BY <1>2, <1>3
<1> HIDE DEF signed
<1>5. new \in RunRow /\ new.state = "queued" /\ new.version = adapter.version /\ new.level = level /\ new.signed = signed
  BY <1>2, <1>4, NewRunTyped
<1> HIDE DEF new
<1>6. /\ runs' \in SUBSET RunRow /\ \A run \in runs' : run = new \/ run \in runs
      /\ {run \in runs' : run.state = "running"} = {run \in runs : run.state = "running"}
  BY <1>1, <1>2, <1>5, RunQueued
<1>7. \A run \in runs' : \/ run \in runs
                         \/ /\ run.version <= adapter.version
                            /\ run.level = "physical" => run.signed = adapter.conf
  BY <1>2, <1>4, <1>5, <1>6
<1>8. QED
  BY <1>1, <1>2, <1>6, <1>7, RunsGoOn

(* A run that is due is taken back, or given up.                            *)
LEMMA RunTakenBack ==
  ASSUME GateInv, NEW run \in runs, run.state = "queued", runs' = runs \ {run},
         UNCHANGED <<adapter, installed, write, command, worker, line, signature, proved, vouched>>
  PROVE  GateInv'
<1>1. adapter \in AdapterRow /\ runs \in SUBSET RunRow /\ vouched \in SUBSET (Driver \cup {None})
  BY DEF GateInv, GateTyped
<1>2. {other \in runs' : other.state = "running"} = {other \in runs : other.state = "running"}
  OBVIOUS
<1>3. \A other \in runs' : other \in runs
  OBVIOUS
<1>4. QED
  BY <1>1, <1>2, <1>3, RunsGoOn

(* What is due again is read-only, and of the version that was read.        *)
LEMMA RunRequeued ==
  ASSUME GateTyped, NEW a \in AdapterRow, NEW rs \in SUBSET RunRow
  PROVE  /\ Gate!Requeued(a, rs) \in SUBSET RunRow
         /\ \A run \in Gate!Requeued(a, rs) : run \in rs \/ (run.level = "readonly" /\ run.version = a.version)
         /\ {run \in Gate!Requeued(a, rs) : run.state = "running"} = {run \in rs : run.state = "running"}
<1> DEFINE new == Gate!NewRun(a, "readonly", None)
<1>1. new \in RunRow /\ new.state = "queued" /\ new.version = a.version /\ new.level = "readonly"
  BY NewRunTyped
<1>2. Gate!Requeued(a, rs) = rs \/ Gate!Requeued(a, rs) = Gate!Queued(rs, new)
  BY DEF Gate!Requeued
<1> HIDE DEF new
<1>3. /\ Gate!Queued(rs, new) \in SUBSET RunRow
      /\ \A run \in Gate!Queued(rs, new) : run = new \/ run \in rs
      /\ {run \in Gate!Queued(rs, new) : run.state = "running"} = {run \in rs : run.state = "running"}
  BY <1>1, RunQueued
<1>4. QED
  BY <1>1, <1>2, <1>3

(* A device comes back: the row that was read may owe a run.                *)
LEMMA CameBackStep == ASSUME GateInv, Gate!CameBack PROVE GateInv'
<1>1. /\ line # None /\ line' = None /\ adapter' = [adapter EXCEPT !.up = TRUE] /\ runs' = Gate!Requeued(line, runs)
      /\ UNCHANGED <<installed, write, command, worker, signature, proved, vouched>>
  BY Zenon DEF Gate!CameBack
<1>2. GateTyped /\ adapter \in AdapterRow /\ line \in AdapterRow /\ runs \in SUBSET RunRow /\ vouched \in SUBSET (Driver \cup {None})
      /\ line.version <= adapter.version
  BY <1>1 DEF GateInv, GateCore, GateTyped, SignedFor
<1>3. /\ adapter' \in AdapterRow /\ adapter'.conf = adapter.conf /\ adapter'.version = adapter.version
      /\ adapter'.required = adapter.required /\ adapter'.approved = adapter.approved /\ adapter'.approval = adapter.approval
  BY <1>1, <1>2 DEF AdapterRow
<1>4. /\ runs' \in SUBSET RunRow
      /\ \A run \in runs' : run \in runs \/ (run.level = "readonly" /\ run.version = line.version)
      /\ {run \in runs' : run.state = "running"} = {run \in runs : run.state = "running"}
  BY <1>1, <1>2, RunRequeued
<1>5. \A run \in runs' : \/ run \in runs
                         \/ /\ run.version <= adapter.version
                            /\ run.level = "physical" => run.signed = adapter.conf
  BY <1>2, <1>4
<1>6. QED
  BY <1>1, <1>2, <1>3, <1>4, <1>5, RunsGoOn

(* A person approves the driver that was reported.                          *)
LEMMA ApproveStep == ASSUME GateInv, Gate!ApproveDriver PROVE GateInv'
<1> DEFINE new == Gate!NewRun(adapter, "readonly", None)
<1>1. /\ adapter' = [adapter EXCEPT !.approval = adapter.info] /\ vouched' = vouched \cup {adapter.info}
      /\ runs' = (IF Gate!Active(runs) = {} THEN Gate!Queued(runs, new) ELSE runs) /\ signature' = None
      /\ UNCHANGED <<installed, write, command, worker, line, proved>>
  BY Zenon DEF Gate!ApproveDriver
<1>2. GateTyped /\ adapter \in AdapterRow /\ runs \in SUBSET RunRow /\ vouched \in SUBSET (Driver \cup {None})
      /\ adapter.version \in Nat /\ adapter.info \in Driver \cup {None}
  BY DEF GateInv, GateTyped, AdapterRow
<1>3. /\ adapter' \in AdapterRow /\ adapter'.conf = adapter.conf /\ adapter'.version = adapter.version
      /\ adapter'.required = adapter.required /\ adapter'.approved = adapter.approved /\ adapter'.approval = adapter.info
  BY <1>1, <1>2 DEF AdapterRow
<1>4. new \in RunRow /\ new.state = "queued" /\ new.version = adapter.version /\ new.level = "readonly"
  BY <1>2, NewRunTyped
<1> HIDE DEF new
<1>5. /\ Gate!Queued(runs, new) \in SUBSET RunRow
      /\ \A run \in Gate!Queued(runs, new) : run = new \/ run \in runs
      /\ {run \in Gate!Queued(runs, new) : run.state = "running"} = {run \in runs : run.state = "running"}
  BY <1>2, <1>4, RunQueued
<1>6. /\ runs' \in SUBSET RunRow
      /\ \A run \in runs' : \/ run \in runs
                            \/ /\ run.version <= adapter.version
                               /\ run.level = "physical" => run.signed = adapter.conf
      /\ {run \in runs' : run.state = "running"} = {run \in runs : run.state = "running"}
  BY <1>1, <1>2, <1>4, <1>5
<1>7. vouched \subseteq vouched' /\ vouched' \in SUBSET (Driver \cup {None}) /\ adapter'.approval \in vouched'
  BY <1>1, <1>2, <1>3
<1>8. QED
  BY <1>1, <1>3, <1>6, <1>7, RunsGoOn

(* A person answers for what the acceptance would have shown.               *)
LEMMA WaiveStep == ASSUME GateInv, Gate!Waive PROVE GateInv'
<1> DEFINE new == [Gate!NewRun(adapter, adapter.required, signature.conf) EXCEPT !.state = "passed"]
           answer == IF Gate!Drift(adapter, adapter.info) # None THEN adapter.info ELSE adapter.approved
           driver == IF adapter.required = "physical" THEN signature.conf.driver ELSE proved.driver
<1>1. /\ adapter.required # None /\ Gate!Active(runs) = {} /\ Gate!SignatureHolds
      /\ runs' = Gate!Queued(runs, new)
      /\ adapter' = [[adapter EXCEPT !.required = None] EXCEPT !.approved = answer]
      /\ proved' = [conf |-> signature.conf, driver |-> driver]
      /\ vouched' = vouched \cup {adapter.info} /\ signature' = None
      /\ UNCHANGED <<installed, write, command, worker, line>>
  BY Zenon DEF Gate!Waive
<1>2. /\ GateTyped /\ GateCore /\ adapter \in AdapterRow /\ runs \in SUBSET RunRow /\ vouched \in SUBSET (Driver \cup {None})
      /\ proved \in [conf : Conf \cup {None}, driver : DriverNames]
  BY DEF GateInv, GateTyped
<1>3. /\ adapter.version \in Nat /\ adapter.info \in Driver \cup {None} /\ adapter.required \in {"readonly", "physical"}
      /\ adapter.approved \in Driver \cup {None} /\ adapter.conf \in Conf
  BY <1>1, <1>2 DEF AdapterRow
<1>4. signature.conf = adapter.conf
  BY <1>1, <1>2 DEF GateCore, SignedFor, Gate!SignatureHolds
<1>5. answer \in Driver \cup {None} /\ (answer = adapter.approved \/ answer = adapter.info)
  BY <1>3
<1> HIDE DEF answer
<1>6. /\ adapter' \in AdapterRow /\ adapter'.conf = adapter.conf /\ adapter'.version = adapter.version
      /\ adapter'.required = None /\ adapter'.approved = answer /\ adapter'.approval = adapter.approval
  BY <1>1, <1>2, <1>5 DEF AdapterRow
<1>7. new \in RunRow /\ new.state = "passed" /\ new.version = adapter.version
  <2>1. /\ Gate!NewRun(adapter, adapter.required, signature.conf) \in RunRow
        /\ Gate!NewRun(adapter, adapter.required, signature.conf).version = adapter.version
    BY <1>2, <1>3, <1>4, NewRunTyped
  <2> DEFINE fresh == Gate!NewRun(adapter, adapter.required, signature.conf)
  <2> HIDE DEF fresh
  <2>2. fresh \in RunRow /\ fresh.version = adapter.version
    BY <2>1 DEF fresh
  <2>3. new = [fresh EXCEPT !.state = "passed"]
    BY DEF fresh
  <2> HIDE DEF new
  <2>4. QED
    BY <2>2, <2>3 DEF RunRow
<1> HIDE DEF new
<1>8. /\ runs' \in SUBSET RunRow /\ \A run \in runs' : run = new \/ run \in runs
      /\ {run \in runs' : run.state = "running"} = {run \in runs : run.state = "running"}
  BY <1>1, <1>2, <1>7, RunQueued
<1>9. Gate!Running = {} /\ Gate!Running' = {}
  BY <1>1, <1>8 DEF Gate!Running, Gate!Active
<1>10. worker.at \notin {"check", "close", "raised"}
  BY <1>2, <1>9 DEF GateCore, RunInHand
<1>11. driver \in DriverNames /\ (adapter.conf.kind = "real" /\ adapter.conf.tasks => driver = adapter.conf.driver)
       /\ (driver = adapter.conf.driver \/ driver = proved.driver)
  <2>1. adapter.conf.driver \in DriverNames /\ proved.driver \in DriverNames
    BY <1>2, <1>3 DEF DriverNames
  <2>2. adapter.required # "physical" /\ adapter.conf.kind = "real" /\ adapter.conf.tasks => proved.driver = adapter.conf.driver
    BY <1>2 DEF GateCore, OpenIsProved
  <2>3. QED
    BY <1>4, <2>1, <2>2
<1> HIDE DEF driver
<1>12. proved'.conf = adapter.conf /\ proved'.driver = driver /\ proved' \in [conf : Conf \cup {None}, driver : DriverNames]
  BY <1>1, <1>3, <1>4, <1>11
<1>13. GateTyped'
  BY <1>1, <1>2, <1>3, <1>6, <1>8, <1>12 DEF GateTyped
<1>14. RunInHand'
  BY <1>1, <1>2, <1>6, <1>9, <1>10 DEF GateCore, RunInHand
<1>15. SignedFor'
  BY <1>1, <1>2, <1>3, <1>6, <1>7, <1>8 DEF GateCore, SignedFor
<1>16. OpenIsProved' /\ CheckIsFor'
  BY <1>1, <1>6, <1>10, <1>11, <1>12 DEF OpenIsProved, CheckIsFor
<1>17. ReportIsProof'
  BY <1>1, <1>2, <1>6, <1>11, <1>12 DEF GateCore, ReportIsProof, Gate!Simulates
<1>18. Answered'
  BY <1>1, <1>2, <1>5, <1>6 DEF GateCore, Answered
<1>19. Gate!MovedAsSigned' /\ WrittenOnce'
  BY <1>1, <1>6, <1>10 DEF GateInv, Gate!MovedAsSigned, Gate!Acting, WrittenOnce
<1>20. QED
  BY <1>13, <1>14, <1>15, <1>16, <1>17, <1>18, <1>19 DEF GateInv, GateCore

(* What is changed of the registration starts from nothing, unless it       *)
(* touches neither the connection nor whether it is in use.                 *)
LEMMA RegistrationChanged ==
  ASSUME NEW a \in AdapterRow, NEW conf \in Conf, NEW enabled \in BOOLEAN,
         NEW after, after = Gate!AfterChange(a, conf, enabled)
  PROVE  /\ after \in AdapterRow /\ after.conf = conf /\ after.version = a.version + 1 /\ after.approval = a.approval
         /\ after.approved = a.approved \/ after.approved = None
         /\ IF conf = a.conf /\ enabled = a.enabled
            THEN after.approved = a.approved /\ (conf.kind = "real" => after.required = a.required)
            ELSE /\ after.approved = None
                 /\ conf.kind = "real" => after.required # None
                 /\ conf.kind = "real" /\ conf.tasks /\ after.required # "physical" =>
                      a.conf.kind = "real" /\ a.conf.driver = conf.driver /\ a.conf.tasks /\ a.required # "physical"
<1> DEFINE required == Gate!Requirement(a.conf, conf, a.required)
           kept == IF conf.kind = "real" THEN a.required ELSE None
<1>1. a.version \in Nat /\ a.required \in {None, "readonly", "physical"}
  BY DEF AdapterRow
<1>2. None \notin {"readonly", "physical"}
  BY NoneIsNothing
<1>3. required \in {None, "readonly", "physical"} /\ kept \in {None, "readonly", "physical"}
  BY <1>1 DEF Gate!Requirement
<1>4. /\ conf.kind = "real" => required # None
      /\ conf.kind = "real" /\ conf.tasks /\ required # "physical" =>
           a.conf.kind = "real" /\ a.conf.driver = conf.driver /\ a.conf.tasks /\ a.required # "physical"
  BY <1>2 DEF Gate!Requirement
<1>5. CASE conf = a.conf /\ enabled = a.enabled
  <2>1. after = [[a EXCEPT !.version = @ + 1] EXCEPT !.required = IF conf.kind = "real" THEN @ ELSE None]
    BY <1>5, Zenon DEF Gate!AfterChange
  <2>2. after = [conf |-> a.conf, enabled |-> a.enabled, version |-> a.version + 1, required |-> kept, approved |-> a.approved,
                 info |-> a.info, approval |-> a.approval, up |-> a.up]
    BY <2>1 DEF AdapterRow
  <2> HIDE DEF required, kept
  <2>3. after \in AdapterRow
    BY <1>1, <1>3, <2>2 DEF AdapterRow
  <2>4. conf.kind = "real" => kept = a.required
    BY DEF kept
  <2>5. QED
    BY <1>5, <2>2, <2>3, <2>4
<1>6. CASE ~(conf = a.conf /\ enabled = a.enabled)
  <2>1. after = [[[[[[a EXCEPT !.conf = conf] EXCEPT !.enabled = enabled] EXCEPT !.version = @ + 1] EXCEPT !.up = FALSE]
                  EXCEPT !.approved = None] EXCEPT !.required = Gate!Requirement(a.conf, conf, @)]
    BY <1>6, Zenon DEF Gate!AfterChange
  <2>2. after = [conf |-> conf, enabled |-> enabled, version |-> a.version + 1, required |-> required, approved |-> None,
                 info |-> a.info, approval |-> a.approval, up |-> FALSE]
    BY <2>1 DEF AdapterRow
  <2> HIDE DEF required, kept
  <2>3. after \in AdapterRow
    BY <1>1, <1>3, <2>2 DEF AdapterRow
  <2>4. QED
    BY <1>4, <1>6, <2>2, <2>3
<1>7. QED
  BY <1>5, <1>6

(* The registration is changed: a new version, which owes what it changed.  *)
LEMMA UpdateAdapterStep ==
  ASSUME GateInv, NEW conf \in Conf, NEW enabled \in BOOLEAN, Gate!UpdateAdapter(conf, enabled)
  PROVE  GateInv'
<1> DEFINE light == conf = adapter.conf /\ enabled = adapter.enabled
           same == conf.kind = adapter.conf.kind /\ conf.driver = adapter.conf.driver /\ adapter.conf.tasks
           new == Gate!NewRun(adapter', "readonly", None)
           after == adapter'
<1>1. /\ Gate!QuietFor(conf) /\ adapter' = Gate!AfterChange(adapter, conf, enabled)
      /\ runs' = (IF adapter'.required = None THEN Gate!Cancelled(runs) ELSE Gate!Queued(Gate!Cancelled(runs), new))
      /\ proved' = (IF light THEN proved ELSE [conf |-> None, driver |-> IF same THEN proved.driver ELSE None])
      /\ vouched' = (IF light THEN vouched ELSE {adapter.approval} \ {None})
      /\ UNCHANGED <<installed, write, command, worker, line, signature>>
  BY Zenon DEF Gate!UpdateAdapter, Gate!people
<1>2. /\ GateTyped /\ GateCore /\ adapter \in AdapterRow /\ runs \in SUBSET RunRow /\ vouched \in SUBSET (Driver \cup {None})
      /\ proved \in [conf : Conf \cup {None}, driver : DriverNames]
  BY DEF GateInv, GateTyped
<1>3. adapter.version \in Nat /\ adapter.approval \in Driver \cup {None}
  BY <1>2 DEF AdapterRow
<1>4. /\ after \in AdapterRow /\ after.conf = conf /\ after.version = adapter.version + 1 /\ after.approval = adapter.approval
      /\ IF light
         THEN after.approved = adapter.approved /\ (conf.kind = "real" => after.required = adapter.required)
         ELSE /\ after.approved = None
              /\ conf.kind = "real" => after.required # None
              /\ conf.kind = "real" /\ conf.tasks /\ after.required # "physical" =>
                   adapter.conf.kind = "real" /\ adapter.conf.driver = conf.driver /\ adapter.conf.tasks /\ adapter.required # "physical"
  <2>1. after = Gate!AfterChange(adapter, conf, enabled)
    BY <1>1
  <2>2. adapter \in AdapterRow
    BY <1>2
  <2> HIDE DEF after
  <2>3. QED
    BY <2>1, <2>2, RegistrationChanged
<1>5. new \in RunRow /\ new.state = "queued" /\ new.version = after.version /\ new.level = "readonly"
  BY <1>4, NewRunTyped
<1> HIDE DEF new
<1>6. /\ runs' \in SUBSET RunRow
      /\ \A run \in runs' : run = new \/ (run \in runs /\ run.state # "queued")
      /\ {run \in runs' : run.state = "running"} = {run \in runs : run.state = "running"}
  <2> DEFINE rest == Gate!Cancelled(runs)
  <2>1. /\ rest \in SUBSET RunRow /\ \A run \in rest : run \in runs /\ run.state # "queued"
        /\ {run \in rest : run.state = "running"} = {run \in runs : run.state = "running"}
    BY <1>2 DEF Gate!Cancelled
  <2> HIDE DEF rest
  <2>2. /\ Gate!Queued(rest, new) \in SUBSET RunRow
        /\ \A run \in Gate!Queued(rest, new) : run = new \/ run \in rest
        /\ {run \in Gate!Queued(rest, new) : run.state = "running"} = {run \in rest : run.state = "running"}
    BY <1>2, <1>5, <2>1, RunQueued
  <2>3. runs' = rest \/ runs' = Gate!Queued(rest, new)
    BY <1>1 DEF rest
  <2>4. QED
    BY <2>1, <2>2, <2>3
<1>7. Gate!Running' = Gate!Running
  BY <1>6 DEF Gate!Running
<1>8. proved' \in [conf : Conf \cup {None}, driver : DriverNames] /\ vouched' \in SUBSET (Driver \cup {None})
  <2>1. proved.driver \in DriverNames /\ None \in DriverNames
    BY <1>2 DEF DriverNames
  <2>2. QED
    BY <1>1, <1>2, <1>3, <2>1
<1>9. /\ ~light => (proved'.driver = IF same THEN proved.driver ELSE None)
      /\ light => proved' = proved
  BY <1>1
<1>10. GateTyped'
  BY <1>1, <1>2, <1>4, <1>6, <1>8 DEF GateTyped
<1>11. RunInHand'
  BY <1>1, <1>2, <1>3, <1>4, <1>7 DEF GateCore, RunInHand, WorkerRow, GateTyped
<1>12. SignedFor'
  <2>1. \A run \in runs : run.version \in Nat /\ run.version <= adapter.version
    BY <1>2 DEF GateCore, SignedFor, RunRow
  <2>2. \A run \in runs' : /\ run.version <= after.version
                           /\ run.level = "physical" /\ run.state = "queued" /\ run.version = after.version => run.signed = after.conf
    BY <1>3, <1>4, <1>5, <1>6, <2>1
  <2>3. signature # None => signature.version \in Nat /\ signature.version <= adapter.version
    BY <1>2 DEF GateCore, SignedFor, GateTyped
  <2>4. line # None => line.version \in Nat /\ line.version <= adapter.version
    BY <1>2 DEF GateCore, SignedFor, GateTyped, AdapterRow
  <2>5. QED
    BY <1>1, <1>3, <1>4, <2>2, <2>3, <2>4 DEF SignedFor
<1>13. OpenIsProved'
  BY <1>2, <1>4, <1>9 DEF GateCore, OpenIsProved
<1>14. CheckIsFor'
  BY <1>1, <1>2, <1>4 DEF GateCore, CheckIsFor
<1>15. ReportIsProof'
  <2>1. worker.at \in {"close", "settle"} => worker.version <= adapter.version /\ worker.version \in Nat
    BY <1>2 DEF GateCore, RunInHand, GateTyped, WorkerRow
  <2>2. QED
    BY <1>1, <1>3, <1>4, <2>1 DEF ReportIsProof
<1>16. Answered'
  BY <1>1, <1>2, <1>4 DEF GateCore, Answered
<1>17. Gate!MovedAsSigned'
  <2>1. Gate!Acting => command.conf = conf
    BY <1>1 DEF GateInv, Gate!MovedAsSigned, Gate!QuietFor
  <2>2. QED
    BY <1>1, <1>4, <2>1 DEF GateInv, Gate!MovedAsSigned, Gate!Acting
<1>18. WrittenOnce'
  BY <1>1 DEF GateInv, WrittenOnce
<1>19. QED
  BY <1>10, <1>11, <1>12, <1>13, <1>14, <1>15, <1>16, <1>17, <1>18 DEF GateInv, GateCore

(* A run is claimed with the registration as it stands, or given up.        *)
LEMMA ClaimStep == ASSUME GateInv, NEW run \in runs, Gate!ClaimRun(run) PROVE GateInv'
<1> DEFINE now == [run EXCEPT !.state = "running"]
<1>1. /\ worker.at = "accept" /\ run.state = "queued" /\ Gate!MayStart(run)
      /\ UNCHANGED <<adapter, installed, write, command, line, signature, proved, vouched>>
  BY Zenon DEF Gate!ClaimRun, Gate!people
<1>2. CASE ~adapter.enabled \/ run.version # adapter.version
  <2>1. runs' = runs \ {run} /\ worker' = worker
    BY <1>2 DEF Gate!ClaimRun
  <2>2. QED
    BY <1>1, <2>1, RunTakenBack
<1>3. CASE ~(~adapter.enabled \/ run.version # adapter.version)
  <2>1. /\ runs' = (runs \ {run}) \cup {now}
        /\ worker' = [Gate!Idle EXCEPT !.at = "check", !.run = run, !.conf = adapter.conf, !.version = adapter.version]
    BY <1>3, Zenon DEF Gate!ClaimRun
  <2>2. /\ GateTyped /\ GateCore /\ adapter \in AdapterRow /\ runs \in SUBSET RunRow /\ run \in RunRow
    BY DEF GateInv, GateTyped
  <2>3. adapter.version \in Nat /\ adapter.conf \in Conf
    BY <2>2 DEF AdapterRow
  <2>4. now \in RunRow /\ now.state = "running" /\ now.version = run.version
    BY <2>2 DEF RunRow
  <2> HIDE DEF now
  <2>5. worker' = [at |-> "check", run |-> run, conf |-> adapter.conf, version |-> adapter.version, saw |-> None, ok |-> FALSE, left |-> FALSE]
    BY <2>1 DEF Gate!Idle
  <2>6. /\ worker' \in WorkerRow /\ worker'.at = "check" /\ worker'.run = run /\ worker'.conf = adapter.conf
        /\ worker'.version = adapter.version
    BY <2>2, <2>3, <2>5 DEF WorkerRow
  <2>7. Gate!Running = {}
    BY <1>1, <2>2 DEF GateCore, RunInHand
  <2>8. Gate!Running' = {now}
    BY <1>1, <2>1, <2>4, <2>7 DEF Gate!Running
  <2>9. GateTyped'
    BY <1>1, <2>1, <2>2, <2>4, <2>6 DEF GateTyped
  <2>10. RunInHand'
    BY <1>1, <2>2, <2>3, <2>6, <2>8 DEF RunInHand
  <2>11. SignedFor'
    BY <1>1, <2>1, <2>2, <2>4 DEF GateCore, SignedFor
  <2>12. OpenIsProved' /\ Answered' /\ CheckIsFor' /\ ReportIsProof'
    BY <1>1, <2>2, <2>6 DEF GateCore, OpenIsProved, Answered, CheckIsFor, ReportIsProof
  <2>13. Gate!MovedAsSigned'
    <3>1. run.level = "physical" => run.signed = adapter.conf
      BY <1>1, <1>3, <2>2 DEF GateCore, SignedFor
    <3>2. QED
      BY <1>1, <2>6, <3>1 DEF GateInv, Gate!MovedAsSigned, Gate!Acting, Gate!MayStart
  <2>14. WrittenOnce'
    BY <1>1, <2>6 DEF GateInv, WrittenOnce
  <2>15. QED
    BY <2>9, <2>10, <2>11, <2>12, <2>13, <2>14 DEF GateInv, GateCore
<1>4. QED
  BY <1>2, <1>3

(* A step that leaves alone the registration, the run in hand and what is   *)
(* proved, whatever else becomes of the worker, the write and the command.  *)
LEMMA GateGoesOn ==
  ASSUME GateInv, runs' \in SUBSET RunRow, Gate!Running' = Gate!Running,
         \A run \in runs' : \/ run \in runs
                            \/ /\ run.version <= adapter.version
                               /\ run.level = "physical" => run.signed = adapter.conf,
         adapter' \in AdapterRow,
         adapter'.conf = adapter.conf, adapter'.version = adapter.version, adapter'.required = adapter.required,
         adapter'.approved = adapter.approved, adapter'.approval = adapter.approval,
         installed' \in Driver, write' \in WriteRow, worker' \in WorkerRow,
         command' \in [state : {"none", "queued", "acting", "unknown"}, conf : Conf \cup {None}],
         Gate!Acting' => command'.conf = adapter.conf /\ (Gate!Acting \/ worker'.at # "check"),
         line' = line \/ line' = adapter,
         \/ worker' = worker
         \/ /\ worker.at \notin {"check", "close", "raised"} /\ Gate!Running = {}
            /\ worker'.at \notin {"check", "close", "raised", "settle"}
         \/ worker'.at = "down",
         WrittenOnce', UNCHANGED <<signature, proved, vouched>>
  PROVE  GateInv'
<1>1. /\ GateTyped /\ GateCore /\ adapter \in AdapterRow /\ Gate!MovedAsSigned
  BY DEF GateInv, GateTyped
<1>2. GateTyped'
  BY <1>1 DEF GateTyped
<1>3. GateCore'
  BY <1>1, CoreGoesOn
<1>4. Gate!MovedAsSigned'
  BY <1>1 DEF Gate!MovedAsSigned, Gate!Acting
<1>5. QED
  BY <1>2, <1>3, <1>4 DEF GateInv

(* The worker goes on to another part of its round.                         *)
LEMMA WorkerAt ==
  ASSUME worker \in WorkerRow,
         NEW at \in {"accept", "check", "raised", "close", "settle", "require", "writing", "written", "probe", "deliver", "down"}
  PROVE  /\ [worker EXCEPT !.at = at] \in WorkerRow /\ [worker EXCEPT !.at = at].at = at
         /\ [Gate!Idle EXCEPT !.at = at] \in WorkerRow /\ [Gate!Idle EXCEPT !.at = at].at = at
BY DEF WorkerRow, Gate!Idle

LEMMA IdleIs == Gate!Idle \in WorkerRow /\ Gate!Idle.at = "accept"
BY DEF WorkerRow, Gate!Idle

(* A write is asked for, and cancelled again while it is due.               *)
LEMMA WriteAsked == ASSUME GateInv, Gate!RequestWrite \/ Gate!CancelWrite PROVE GateInv'
<1>1. /\ GateTyped /\ adapter \in AdapterRow /\ worker \in WorkerRow /\ write \in WriteRow /\ Gate!MovedAsSigned
      /\ WrittenOnce
  BY DEF GateInv, GateTyped
<1>2. UNCHANGED <<adapter, installed, runs, command, worker, line, signature, proved, vouched>>
  BY Zenon DEF Gate!RequestWrite, Gate!CancelWrite, Gate!people
<1>3. adapter.version \in Nat
  BY <1>1 DEF AdapterRow
<1>4. write' \in WriteRow /\ WrittenOnce'
  <2>1. CASE Gate!RequestWrite
    <3>1. write' = [state |-> "queued", version |-> adapter.version, made |-> 0] /\ write.state # "running"
      BY <2>1 DEF Gate!RequestWrite
    <3>2. worker.at # "writing"
      BY <1>1, <3>1 DEF WrittenOnce
    <3>3. QED
      BY <1>2, <1>3, <3>1, <3>2 DEF WriteRow, WrittenOnce
  <2>2. CASE Gate!CancelWrite
    <3>1. write' = [write EXCEPT !.state = "cancelled"] /\ write.state = "queued"
      BY <2>2, Zenon DEF Gate!CancelWrite
    <3>2. worker.at # "writing"
      BY <1>1, <3>1 DEF WrittenOnce
    <3>3. QED
      BY <1>1, <1>2, <3>1, <3>2 DEF WriteRow, WrittenOnce
  <2>3. QED
    BY <2>1, <2>2
<1>5. Gate!Acting' => command'.conf = adapter.conf /\ Gate!Acting
  BY <1>1, <1>2 DEF Gate!Acting, Gate!MovedAsSigned
<1>6. Gate!Running' = Gate!Running
  BY <1>2 DEF Gate!Running
<1>7. QED
  BY <1>1, <1>2, <1>4, <1>5, <1>6, GateGoesOn DEF GateTyped

(* The worker takes a write that is due in its turn, makes it once and      *)
(* closes it.                                                               *)
LEMMA WriteMade ==
  ASSUME GateInv, \/ Gate!ToPoint \/ \E reaches \in BOOLEAN : Gate!WritePoint(reaches)
                  \/ \E state \in {"done", "failed", "unknown"} : Gate!CloseWrite(state)
  PROVE  GateInv'
<1>1. /\ GateTyped /\ GateCore /\ adapter \in AdapterRow /\ worker \in WorkerRow /\ write \in WriteRow /\ Gate!MovedAsSigned
      /\ WrittenOnce
  BY DEF GateInv, GateTyped
<1>2. UNCHANGED <<adapter, installed, runs, command, line, signature, proved, vouched>>
  BY Zenon DEF Gate!ToPoint, Gate!WritePoint, Gate!CloseWrite, Gate!people
<1>3. /\ worker.at \in {"accept", "writing", "written"} /\ write' \in WriteRow /\ WrittenOnce'
      /\ worker' \in WorkerRow /\ worker'.at \in {"probe", "writing", "written"}
  <2>1. CASE Gate!ToPoint
    <3>1. /\ worker.at = "accept"
          /\ \/ worker' = [worker EXCEPT !.at = "probe"] /\ (write' = write \/ write' = [write EXCEPT !.state = "failed"])
             \/ /\ write.state = "queued"
                /\ worker' = [worker EXCEPT !.at = "writing"] /\ write' = [write EXCEPT !.state = "running"]
      BY <2>1, Zenon DEF Gate!ToPoint
    <3>2. /\ worker' \in WorkerRow /\ worker'.at \in {"probe", "writing"}
          /\ worker'.at = "writing" => write.state = "queued" /\ write'.state = "running"
      <4>1. [write EXCEPT !.state = "running"].state = "running"
        BY <1>1 DEF WriteRow
      <4>2. /\ [worker EXCEPT !.at = "probe"] \in WorkerRow /\ [worker EXCEPT !.at = "probe"].at = "probe"
            /\ [worker EXCEPT !.at = "writing"] \in WorkerRow /\ [worker EXCEPT !.at = "writing"].at = "writing"
        BY <1>1, WorkerAt
      <4>3. CASE worker' = [worker EXCEPT !.at = "probe"]
        BY <4>2, <4>3
      <4>4. CASE /\ write.state = "queued" /\ worker' = [worker EXCEPT !.at = "writing"]
                 /\ write' = [write EXCEPT !.state = "running"]
        BY <4>1, <4>2, <4>4
      <4>5. QED
        BY <3>1, <4>3, <4>4, Zenon
    <3>3. write' \in WriteRow /\ write'.made = write.made /\ (write'.state = "queued" => write.state = "queued")
      BY <1>1, <3>1 DEF WriteRow
    <3>4. QED
      BY <1>1, <3>1, <3>2, <3>3 DEF WrittenOnce
  <2>2. ASSUME NEW reaches \in BOOLEAN, Gate!WritePoint(reaches) PROVE <1>3
    <3> DEFINE made == IF reaches THEN write.made + 1 ELSE write.made
    <3>1. /\ worker.at = "writing" /\ worker' = [worker EXCEPT !.at = "written"]
          /\ write' = [write EXCEPT !.made = made]
      BY <2>2, Zenon DEF Gate!WritePoint
    <3>2. worker' \in WorkerRow /\ worker'.at = "written"
      BY <1>1, <3>1, WorkerAt
    <3>3. made \in {0, 1} /\ write.state \in {"none", "queued", "running", "done", "failed", "unknown", "cancelled"}
      BY <1>1, <3>1 DEF WrittenOnce, WriteRow
    <3>4. write.state # "queued" \/ write.made = 0
      BY <1>1 DEF WrittenOnce
    <3> HIDE DEF made
    <3>5. write' = [state |-> write.state, version |-> write.version, made |-> made] /\ write.version \in Nat
      BY <1>1, <3>1 DEF WriteRow
    <3>6. QED
      BY <1>1, <3>1, <3>2, <3>3, <3>4, <3>5 DEF WrittenOnce, WriteRow
  <2>3. ASSUME NEW state \in {"done", "failed", "unknown"}, Gate!CloseWrite(state) PROVE <1>3
    <3>1. /\ worker.at = "written" /\ worker' = [worker EXCEPT !.at = "probe"]
          /\ write' = [write EXCEPT !.state = state]
      BY <2>3, Zenon DEF Gate!CloseWrite
    <3>2. worker' \in WorkerRow /\ worker'.at = "probe"
      BY <1>1, <3>1, WorkerAt
    <3>3. QED
      BY <1>1, <3>1, <3>2 DEF WrittenOnce, WriteRow
  <2>4. QED
    BY <2>1, <2>2, <2>3
<1>4. Gate!Running = {}
  BY <1>1, <1>3, NoneInHand
<1>5. Gate!Acting' => command'.conf = adapter.conf /\ Gate!Acting
  BY <1>1, <1>2 DEF Gate!Acting, Gate!MovedAsSigned
<1>6. Gate!Running' = Gate!Running
  BY <1>2 DEF Gate!Running
<1>7. QED
  BY <1>1, <1>2, <1>3, <1>4, <1>5, <1>6, GateGoesOn DEF GateTyped

(* The device goes down, changes its driver or begins to come back.         *)
LEMMA DeviceOnItsOwn ==
  ASSUME GateInv, Gate!GoesDown \/ Gate!ComingBack \/ \E driver \in Driver : Gate!Swap(driver)
  PROVE  GateInv'
<1>1. /\ GateTyped /\ adapter \in AdapterRow /\ Gate!MovedAsSigned /\ installed \in Driver /\ WrittenOnce
  BY DEF GateInv, GateTyped
<1>2. /\ UNCHANGED <<runs, write, command, worker, signature, proved, vouched>>
      /\ adapter' = adapter \/ adapter' = [adapter EXCEPT !.up = FALSE]
      /\ installed' \in Driver /\ (line' = line \/ line' = adapter)
  BY <1>1, Zenon DEF Gate!GoesDown, Gate!ComingBack, Gate!Swap, Gate!people
<1>3. /\ adapter' \in AdapterRow /\ adapter'.conf = adapter.conf /\ adapter'.version = adapter.version
      /\ adapter'.required = adapter.required /\ adapter'.approved = adapter.approved /\ adapter'.approval = adapter.approval
  BY <1>1, <1>2 DEF AdapterRow
<1>4. Gate!Acting' => command'.conf = adapter.conf /\ Gate!Acting
  BY <1>1, <1>2 DEF Gate!Acting, Gate!MovedAsSigned
<1>5. Gate!Running' = Gate!Running /\ WrittenOnce'
  BY <1>1, <1>2 DEF Gate!Running, WrittenOnce
<1>6. QED
  BY <1>1, <1>2, <1>3, <1>4, <1>5, GateGoesOn DEF GateTyped

(* A command is queued, goes out, or is settled.                            *)
LEMMA CommandStep ==
  ASSUME GateInv, Gate!Enqueue \/ Gate!Deliver \/ \E state \in {"none", "unknown"} : Gate!Ends(state)
  PROVE  GateInv'
<1> DEFINE Commands == [state : {"none", "queued", "acting", "unknown"}, conf : Conf \cup {None}]
<1>1. /\ GateTyped /\ GateCore /\ adapter \in AdapterRow /\ command \in Commands /\ Gate!MovedAsSigned
      /\ worker \in WorkerRow /\ WrittenOnce
  BY DEF GateInv, GateTyped
<1>2. UNCHANGED <<adapter, installed, runs, write, line, signature, proved, vouched>>
  BY Zenon DEF Gate!Enqueue, Gate!Deliver, Gate!Ends, Gate!people
<1>3. adapter.conf \in Conf /\ command.state \in {"none", "queued", "acting", "unknown"} /\ command.conf \in Conf \cup {None}
  BY <1>1 DEF AdapterRow
<1>4. /\ command' \in Commands
      /\ Gate!Acting' => command'.conf = adapter.conf /\ (Gate!Acting \/ worker'.at # "check")
      /\ worker' = worker \/ (worker.at = "deliver" /\ worker' = Gate!Idle)
  <2>1. CASE Gate!Enqueue
    <3>1. command' = [state |-> "queued", conf |-> None] /\ worker' = worker
      BY <2>1, Zenon DEF Gate!Enqueue
    <3>2. QED
      BY <3>1 DEF Gate!Acting
  <2>2. CASE Gate!Deliver
    <3>1. /\ worker.at = "deliver" /\ worker' = Gate!Idle
          /\ \/ command' = command
             \/ command' = [state |-> "none", conf |-> None]
             \/ command' = [state |-> "acting", conf |-> adapter.conf]
      BY <2>2, Zenon DEF Gate!Deliver
    <3>2. QED
      BY <1>1, <1>3, <3>1, IdleIs DEF Gate!Acting, Gate!MovedAsSigned
  <2>3. ASSUME NEW state \in {"none", "unknown"}, Gate!Ends(state) PROVE <1>4
    <3>1. /\ Gate!Acting /\ worker' = worker
          /\ command' = [state |-> state, conf |-> IF state = "none" THEN None ELSE command.conf]
      BY <2>3, Zenon DEF Gate!Ends
    <3>2. QED
      BY <1>1, <1>3, <3>1 DEF Gate!Acting, Gate!MovedAsSigned
  <2>4. QED
    BY <2>1, <2>2, <2>3
<1>5. /\ worker' \in WorkerRow
      /\ worker' = worker \/ (worker.at = "deliver" /\ worker'.at = "accept" /\ Gate!Running = {})
  BY <1>1, <1>4, IdleIs, NoneInHand
<1>6. Gate!Running' = Gate!Running /\ WrittenOnce'
  BY <1>1, <1>2, <1>5 DEF Gate!Running, WrittenOnce
<1>7. QED
  BY <1>1, <1>2, <1>4, <1>5, <1>6, GateGoesOn DEF GateTyped

(* The executor ends; the run in hand stays as it was under way.            *)
LEMMA CrashStep == ASSUME GateInv, Gate!Crash PROVE GateInv'
<1>1. /\ GateTyped /\ adapter \in AdapterRow /\ Gate!MovedAsSigned /\ worker \in WorkerRow /\ WrittenOnce
  BY DEF GateInv, GateTyped
<1>2. /\ worker' = [Gate!Idle EXCEPT !.at = "down"]
      /\ UNCHANGED <<adapter, installed, runs, write, command, line, signature, proved, vouched>>
  BY Zenon DEF Gate!Crash, Gate!people
<1>3. worker' \in WorkerRow /\ worker'.at = "down"
  BY <1>1, <1>2, WorkerAt
<1>4. Gate!Acting' => command'.conf = adapter.conf /\ Gate!Acting
  BY <1>1, <1>2 DEF Gate!Acting, Gate!MovedAsSigned
<1>5. Gate!Running' = Gate!Running /\ WrittenOnce'
  BY <1>1, <1>2, <1>3 DEF Gate!Running, WrittenOnce
<1>6. QED
  BY <1>1, <1>2, <1>3, <1>4, <1>5, GateGoesOn DEF GateTyped

(* The checklist is run with the configuration that was claimed: what it    *)
(* proves is that of the present registration which is not owed.            *)
LEMMA CheckStep ==
  ASSUME GateInv, worker.at = "check",
         Gate!CheckRaises \/ \E verdict \in Gate!Verdicts(worker.run.level) : Gate!CheckDevice(verdict)
  PROVE  GateInv'
<1>1. /\ GateTyped /\ GateCore /\ adapter \in AdapterRow /\ worker \in WorkerRow /\ installed \in Driver
      /\ proved \in [conf : Conf \cup {None}, driver : DriverNames] /\ Gate!MovedAsSigned /\ WrittenOnce
  BY DEF GateInv, GateTyped
<1>2. UNCHANGED <<adapter, installed, runs, write, command, line, signature, vouched>>
  BY Zenon DEF Gate!CheckRaises, Gate!CheckDevice, Gate!people
<1>3. worker.run \in RunRow /\ worker.conf \in Conf /\ (worker.version = adapter.version => worker.conf = adapter.conf)
  BY <1>1 DEF GateCore, RunInHand
<1>4. Gate!Running' = Gate!Running
  BY <1>2 DEF Gate!Running
<1>5. SignedFor' /\ Answered'
  BY <1>1, <1>2 DEF GateCore, SignedFor, Answered
<1>6. /\ worker' \in WorkerRow /\ worker'.at \in {"close", "raised"} /\ worker'.run = worker.run
      /\ worker'.conf = worker.conf /\ worker'.version = worker.version
      /\ worker'.at = "close" => worker'.saw = installed
      /\ proved' \in [conf : Conf \cup {None}, driver : DriverNames]
      /\ \/ proved' = proved /\ (worker'.at = "close" => ~worker'.ok)
         \/ /\ proved'.conf = worker.conf
            /\ proved'.driver = (IF worker.run.level = "physical" \/ Gate!Simulates(worker.conf) THEN worker.conf.driver
                                 ELSE proved.driver)
  <2>1. CASE Gate!CheckRaises
    <3>1. worker' = [worker EXCEPT !.at = "raised"] /\ proved' = proved
      BY <2>1, Zenon DEF Gate!CheckRaises
    <3>2. QED
      BY <1>1, <3>1 DEF WorkerRow
  <2>2. ASSUME NEW verdict \in Gate!Verdicts(worker.run.level), Gate!CheckDevice(verdict) PROVE <1>6
    <3> DEFINE driver == IF worker.run.level = "physical" \/ Gate!Simulates(worker.conf) THEN worker.conf.driver
                         ELSE proved.driver
    <3>1. /\ worker' = [[[[worker EXCEPT !.at = "close"] EXCEPT !.saw = installed] EXCEPT !.ok = verdict.ok]
                         EXCEPT !.left = verdict.left]
          /\ proved' = (IF verdict.ok THEN [conf |-> worker.conf, driver |-> driver] ELSE proved)
      BY <2>2, Zenon DEF Gate!CheckDevice
    <3>2. verdict.ok \in BOOLEAN /\ verdict.left \in BOOLEAN
      BY DEF Gate!Verdicts
    <3>3. worker' = [at |-> "close", run |-> worker.run, conf |-> worker.conf, version |-> worker.version, saw |-> installed,
                     ok |-> verdict.ok, left |-> verdict.left]
      BY <1>1, <3>1 DEF WorkerRow
    <3>4. driver \in DriverNames
      BY <1>1, <1>3 DEF DriverNames
    <3> HIDE DEF driver
    <3>5. worker' \in WorkerRow
      BY <1>1, <3>2, <3>3 DEF WorkerRow
    <3>6. QED
      BY <1>1, <1>3, <3>1, <3>2, <3>3, <3>4, <3>5 DEF driver
  <2>3. QED
    BY <2>1, <2>2
<1>7. GateTyped'
  BY <1>1, <1>2, <1>6 DEF GateTyped
<1>8. RunInHand'
  BY <1>1, <1>2, <1>4, <1>6 DEF GateCore, RunInHand
<1>9. OpenIsProved'
  BY <1>1, <1>2, <1>6 DEF GateCore, OpenIsProved, CheckIsFor
<1>10. CheckIsFor'
  BY <1>6 DEF CheckIsFor
<1>11. ReportIsProof'
  <2>1. ASSUME worker'.at = "close", worker'.ok, worker'.version = adapter'.version
        PROVE  /\ proved'.conf = adapter'.conf
               /\ worker'.run.level = "physical" \/ Gate!Simulates(worker'.conf) => proved'.driver = adapter'.conf.driver
    <3>1. worker.conf = adapter.conf
      BY <1>2, <1>3, <1>6, <2>1
    <3>2. /\ proved'.conf = worker.conf
          /\ worker.run.level = "physical" \/ Gate!Simulates(worker.conf) => proved'.driver = worker.conf.driver
      BY <1>6, <2>1
    <3>3. QED
      BY <1>2, <1>6, <3>1, <3>2
  <2>2. QED
    BY <1>6, <2>1 DEF ReportIsProof, Gate!Simulates
<1>12. Gate!MovedAsSigned' /\ WrittenOnce'
  BY <1>1, <1>2, <1>6 DEF Gate!MovedAsSigned, Gate!Acting, WrittenOnce
<1>13. QED
  BY <1>5, <1>7, <1>8, <1>9, <1>10, <1>11, <1>12 DEF GateInv, GateCore

(* A run that is closed is no longer asked for, unless it passed.           *)
LEMMA RunsClosed ==
  ASSUME GateTyped, NEW state \in {"passed", "failed", "error"}
  PROVE  /\ Gate!Closed(state) \in SUBSET RunRow
         /\ \A run \in Gate!Closed(state) : run.state # "running"
         /\ \A run \in Gate!Closed(state) : run.state = "queued" => run \in runs
         /\ \A run \in Gate!Closed(state) : \E other \in runs : run.version = other.version
<1>1. \A run \in runs : run \in RunRow
  BY DEF GateTyped
<1>2. ASSUME NEW run \in Gate!Closed(state)
      PROVE  \/ run \in runs /\ run.state # "running"
             \/ run \in RunRow /\ run.state = "passed" /\ \E other \in runs : run.version = other.version
  <2>1. CASE run \in runs \ Gate!Running
    BY <2>1 DEF Gate!Running
  <2>2. CASE run \notin runs \ Gate!Running
    <3>1. PICK other \in Gate!Running : state = "passed" /\ run = [other EXCEPT !.state = state]
      BY <2>2 DEF Gate!Closed
    <3>2. other \in runs /\ other \in RunRow
      BY <1>1 DEF Gate!Running
    <3>3. run \in RunRow /\ run.state = "passed" /\ run.version = other.version
      BY <3>1, <3>2 DEF RunRow
    <3>4. QED
      BY <3>2, <3>3
  <2>3. QED
    BY <2>1, <2>2
<1>3. QED
  BY <1>1, <1>2

(* The run in hand is closed; its report waits to be taken to the gate.     *)
LEMMA CloseStep == ASSUME GateInv, Gate!CloseRun PROVE GateInv'
<1> DEFINE state == IF worker.at = "raised" THEN "error" ELSE IF worker.ok THEN "passed" ELSE "failed"
<1>1. /\ GateTyped /\ GateCore /\ adapter \in AdapterRow /\ worker \in WorkerRow /\ Gate!MovedAsSigned /\ WrittenOnce
  BY DEF GateInv, GateTyped
<1>2. /\ worker.at \in {"close", "raised"} /\ runs' = Gate!Closed(state)
      /\ \/ worker.at = "close" /\ worker' = [worker EXCEPT !.at = "settle"]
         \/ worker' = [worker EXCEPT !.at = "require"] \/ worker' = Gate!Idle
      /\ UNCHANGED <<adapter, installed, write, command, line, signature, proved, vouched>>
  BY Zenon DEF Gate!CloseRun, Gate!people
<1>3. /\ runs' \in SUBSET RunRow /\ \A run \in runs' : run.state # "running"
      /\ \A run \in runs' : run.state = "queued" => run \in runs
      /\ \A run \in runs' : \E other \in runs : run.version = other.version
  <2>1. state \in {"passed", "failed", "error"}
    OBVIOUS
  <2> HIDE DEF state
  <2>2. QED
    BY <1>1, <1>2, <2>1, RunsClosed
<1>4. /\ worker' \in WorkerRow /\ worker'.at \in {"settle", "require", "accept"}
      /\ worker'.at = "settle" => /\ worker.at = "close" /\ worker'.run = worker.run /\ worker'.conf = worker.conf
                                  /\ worker'.version = worker.version /\ worker'.saw = worker.saw /\ worker'.ok = worker.ok
  <2>1. CASE worker.at = "close" /\ worker' = [worker EXCEPT !.at = "settle"]
    BY <1>1, <2>1 DEF WorkerRow
  <2>2. CASE worker' = [worker EXCEPT !.at = "require"]
    BY <1>1, <2>2 DEF WorkerRow
  <2>3. CASE worker' = Gate!Idle
    BY <2>3, IdleIs
  <2>4. QED
    BY <1>2, <2>1, <2>2, <2>3
<1>5. Gate!Running' = {}
  BY <1>3 DEF Gate!Running
<1>6. GateTyped'
  BY <1>1, <1>2, <1>3, <1>4 DEF GateTyped
<1>7. RunInHand'
  BY <1>1, <1>2, <1>4, <1>5 DEF GateCore, RunInHand
<1>8. SignedFor'
  BY <1>1, <1>2, <1>3 DEF GateCore, SignedFor
<1>9. OpenIsProved' /\ CheckIsFor' /\ Answered'
  BY <1>1, <1>2, <1>4 DEF GateCore, OpenIsProved, CheckIsFor, Answered
<1>10. ReportIsProof'
  BY <1>1, <1>2, <1>4 DEF GateCore, ReportIsProof, Gate!Simulates
<1>11. Gate!MovedAsSigned' /\ WrittenOnce'
  BY <1>1, <1>2, <1>4 DEF Gate!MovedAsSigned, Gate!Acting, WrittenOnce
<1>12. QED
  BY <1>6, <1>7, <1>8, <1>9, <1>10, <1>11 DEF GateInv, GateCore

(* What could not be ended owes a physical acceptance.                      *)
LEMMA PhysicalIs ==
  ASSUME NEW a \in AdapterRow
  PROVE  /\ Gate!RequirePhysical(a) \in AdapterRow /\ Gate!RequirePhysical(a).conf = a.conf
         /\ Gate!RequirePhysical(a).version = a.version /\ Gate!RequirePhysical(a).approved = a.approved
         /\ Gate!RequirePhysical(a).approval = a.approval
         /\ a.conf.kind = "real" => Gate!RequirePhysical(a).required = "physical"
<1>1. CASE a.conf.kind = "real"
  BY <1>1 DEF Gate!RequirePhysical, AdapterRow
<1>2. CASE a.conf.kind # "real"
  BY <1>2 DEF Gate!RequirePhysical
<1>3. QED
  BY <1>1, <1>2

(* The worker has done with a run: the gate is opened for what was proved,  *)
(* stays as it is, or owes a physical acceptance.                           *)
LEMMA GateIsLeft ==
  ASSUME GateInv, worker.at \in {"settle", "require"}, worker' = Gate!Idle,
         adapter' \in AdapterRow, adapter'.conf = adapter.conf, adapter'.version = adapter.version,
         proved' \in [conf : Conf \cup {None}, driver : DriverNames], vouched' \in SUBSET (Driver \cup {None}),
         OpenIsProved', Answered', UNCHANGED <<installed, runs, write, command, line, signature>>
  PROVE  GateInv'
<1>1. /\ GateTyped /\ GateCore /\ adapter \in AdapterRow /\ Gate!MovedAsSigned /\ WrittenOnce
  BY DEF GateInv, GateTyped
<1>2. worker' \in WorkerRow /\ worker'.at = "accept"
  BY IdleIs
<1>3. Gate!Running' = {}
  BY <1>1, NoneInHand DEF Gate!Running
<1>4. GateTyped'
  BY <1>1, <1>2 DEF GateTyped
<1>5. RunInHand' /\ CheckIsFor' /\ ReportIsProof'
  BY <1>2, <1>3 DEF RunInHand, CheckIsFor, ReportIsProof
<1>6. SignedFor'
  BY <1>1 DEF GateCore, SignedFor
<1>7. Gate!MovedAsSigned' /\ WrittenOnce'
  BY <1>1, <1>2 DEF Gate!MovedAsSigned, Gate!Acting, WrittenOnce
<1>8. QED
  BY <1>4, <1>5, <1>6, <1>7 DEF GateInv, GateCore

(* A run that raised, if it moves the device, leaves a physical acceptance  *)
(* to be made.                                                              *)
LEMMA RequireStep == ASSUME GateInv, Gate!RequireAgain PROVE GateInv'
<1>1. /\ worker.at = "require" /\ adapter' = Gate!RequirePhysical(adapter) /\ worker' = Gate!Idle
      /\ proved' = [proved EXCEPT !.driver = None]
      /\ UNCHANGED <<installed, runs, write, command, line, signature, vouched>>
  BY Zenon DEF Gate!RequireAgain, Gate!people
<1>2. /\ adapter \in AdapterRow /\ proved \in [conf : Conf \cup {None}, driver : DriverNames]
      /\ GateCore /\ vouched \in SUBSET (Driver \cup {None})
  BY DEF GateInv, GateTyped
<1>3. /\ adapter' \in AdapterRow /\ adapter'.conf = adapter.conf /\ adapter'.version = adapter.version
      /\ adapter'.approved = adapter.approved /\ adapter'.approval = adapter.approval
      /\ adapter.conf.kind = "real" => adapter'.required = "physical"
  BY <1>1, <1>2, PhysicalIs
<1>4. proved' \in [conf : Conf \cup {None}, driver : DriverNames]
  BY <1>1, <1>2 DEF DriverNames
<1>5. OpenIsProved' /\ Answered'
  BY <1>1, <1>2, <1>3, NoneIsNothing DEF OpenIsProved, Answered, GateCore
<1>6. QED
  BY <1>1, <1>2, <1>3, <1>4, <1>5, GateIsLeft

(* The driver of a report that opens the gate is the approved one, one that *)
(* somebody answers for, or the first that an acceptance saw.               *)
LEMMA SeenIsAnswered ==
  ASSUME GateTyped, Answered, NEW saw \in Driver, ~Gate!Awaiting(adapter, saw), adapter.approved # None
  PROVE  saw \in vouched
<1>1. adapter.approved \in Driver /\ saw # None
  BY NoneIsNothing, DriversAreNamed DEF GateTyped, AdapterRow
<1>2. CASE Gate!Drift(adapter, saw) = None
  <2>1. adapter.approved.plugin = saw.plugin /\ adapter.approved.digest = saw.digest
    BY <1>1, <1>2, NoneIsNothing DEF Gate!Drift
  <2>2. adapter.approved = saw
    BY <1>1, <2>1, DriversAreNamed
  <2>3. QED
    BY <1>1, <2>2 DEF Answered
<1>3. CASE Gate!Drift(adapter, saw) # None
  BY <1>1, <1>3 DEF Gate!Awaiting, Answered
<1>4. QED
  BY <1>2, <1>3

(* The report is taken to the gate as it stands now.                        *)
LEMMA SettleStep == ASSUME GateInv, Gate!SettleGate PROVE GateInv'
<1> DEFINE clears == adapter.required = None \/ Gate!Satisfies(adapter.required, worker.run.level, Gate!Simulates(worker.conf))
           opened == Gate!Counts(worker, adapter) /\ Gate!Opens(worker, adapter) /\ clears
<1>1. /\ worker.at = "settle" /\ worker' = Gate!Idle
      /\ adapter' = (IF worker.left THEN Gate!RequirePhysical(adapter)
                     ELSE IF opened THEN [[adapter EXCEPT !.required = None] EXCEPT !.approved = worker.saw] ELSE adapter)
      /\ vouched' = (IF ~worker.left /\ opened /\ adapter.approved = None THEN vouched \cup {worker.saw} ELSE vouched)
      /\ proved' = (IF worker.left THEN [proved EXCEPT !.driver = None] ELSE proved)
      /\ UNCHANGED <<installed, runs, write, command, line, signature>>
  BY Zenon DEF Gate!SettleGate, Gate!people
<1>2. /\ adapter \in AdapterRow /\ proved \in [conf : Conf \cup {None}, driver : DriverNames]
      /\ GateTyped /\ GateCore /\ vouched \in SUBSET (Driver \cup {None}) /\ OpenIsProved /\ Answered
  BY DEF GateInv, GateCore, GateTyped
<1>3. worker.saw \in Driver /\ worker.run \in RunRow
  BY <1>1, <1>2 DEF GateCore, RunInHand
<1> HIDE DEF opened
<1>4. CASE worker.left
  <2>1. /\ adapter' \in AdapterRow /\ adapter'.conf = adapter.conf /\ adapter'.version = adapter.version
        /\ adapter'.approved = adapter.approved /\ adapter'.approval = adapter.approval
        /\ adapter.conf.kind = "real" => adapter'.required = "physical"
    BY <1>1, <1>2, <1>4, PhysicalIs
  <2>2. proved' \in [conf : Conf \cup {None}, driver : DriverNames] /\ vouched' = vouched
    BY <1>1, <1>2, <1>4 DEF DriverNames
  <2>3. OpenIsProved' /\ Answered'
    BY <1>2, <2>1, <2>2, NoneIsNothing DEF OpenIsProved, Answered
  <2>4. QED
    BY <1>1, <1>2, <2>1, <2>2, <2>3, GateIsLeft
<1>5. CASE ~worker.left /\ opened
  <2>1. adapter' = [[adapter EXCEPT !.required = None] EXCEPT !.approved = worker.saw] /\ proved' = proved
    BY <1>1, <1>5
  <2>2. adapter' = [conf |-> adapter.conf, enabled |-> adapter.enabled, version |-> adapter.version, required |-> None,
                    approved |-> worker.saw, info |-> adapter.info, approval |-> adapter.approval, up |-> adapter.up]
    BY <1>2, <2>1 DEF AdapterRow
  <2>3. /\ adapter' \in AdapterRow /\ adapter'.conf = adapter.conf /\ adapter'.version = adapter.version
        /\ adapter'.approved = worker.saw /\ adapter'.approval = adapter.approval /\ adapter'.required = None
    BY <1>2, <1>3, <2>2 DEF AdapterRow
  <2>4. vouched' \in SUBSET (Driver \cup {None}) /\ vouched \subseteq vouched' /\ (adapter.approved = None => worker.saw \in vouched')
    BY <1>1, <1>2, <1>3, <1>5
  <2>5. adapter.approved # None => worker.saw \in vouched
    BY <1>2, <1>3, <1>5, SeenIsAnswered DEF opened, Gate!Opens
  <2>6. Answered'
    BY <1>2, <2>3, <2>4, <2>5 DEF Answered
  <2>7. worker.ok /\ adapter.version = worker.version
    BY <1>5 DEF opened, Gate!Counts
  <2>8. /\ proved.conf = adapter.conf
        /\ worker.run.level = "physical" \/ Gate!Simulates(worker.conf) => proved.driver = adapter.conf.driver
    BY <1>1, <1>2, <2>7 DEF GateCore, ReportIsProof
  <2>9. adapter.required # "physical" \/ worker.run.level = "physical" \/ Gate!Simulates(worker.conf)
    BY <1>5, NoneIsNothing DEF opened, Gate!Satisfies
  <2>10. OpenIsProved'
    BY <1>2, <2>1, <2>3, <2>8, <2>9 DEF OpenIsProved
  <2>11. QED
    BY <1>1, <1>2, <2>1, <2>3, <2>4, <2>6, <2>10, GateIsLeft
<1>6. CASE ~worker.left /\ ~opened
  <2>1. adapter' = adapter /\ vouched' = vouched /\ proved' = proved
    BY <1>1, <1>6
  <2>2. OpenIsProved' /\ Answered'
    BY <1>2, <2>1 DEF OpenIsProved, Answered
  <2>3. QED
    BY <1>1, <1>2, <2>1, <2>2, GateIsLeft
<1>7. QED
  BY <1>4, <1>5, <1>6

(* A probe: either nothing is new of the driver, or the registration gets a *)
(* new version that owes what changed, and nothing due for the old one is   *)
(* run.                                                                     *)
LEMMA ProbeIs ==
  ASSUME GateTyped, Gate!ProbeDevice
  PROVE  /\ worker.at = "probe" /\ worker' \in WorkerRow /\ worker'.at = "deliver"
         /\ UNCHANGED <<installed, write, line, signature, vouched>>
         /\ adapter' \in AdapterRow /\ adapter'.conf = adapter.conf
         /\ adapter'.approved = adapter.approved /\ adapter'.approval = adapter.approval
         /\ runs' \in SUBSET RunRow /\ Gate!Running' = Gate!Running
         /\ \/ /\ adapter'.version = adapter.version /\ adapter'.required = adapter.required
               /\ command' = command /\ proved' = proved
               /\ \A run \in runs' : run \in runs \/ (run.version = adapter.version /\ run.level = "readonly")
            \/ /\ adapter'.version = adapter.version + 1
               /\ \A run \in runs' : \/ run \in runs /\ run.state # "queued"
                                     \/ run.level = "readonly" /\ run.version = adapter'.version
               /\ command' = command \/ (command' = [command EXCEPT !.state = "unknown"] /\ Gate!Acting)
               /\ \/ adapter'.required = "physical" /\ (proved' = [conf |-> None, driver |-> None]
                                                        \/ proved' = [conf |-> None, driver |-> proved.driver])
                  \/ /\ adapter.required # "physical" /\ adapter'.required = "readonly"
                     /\ proved' = [conf |-> None, driver |-> proved.driver]
<1> DEFINE drift == Gate!Drift(adapter, installed)
           news == Gate!News(adapter, installed)
           seen == [[adapter EXCEPT !.info = installed] EXCEPT !.up = TRUE]
           required == IF "physical" \in {drift, adapter.required} THEN "physical" ELSE drift
           tracked == IF news THEN Gate!DriverChanged(seen, drift) ELSE seen
           kept == IF news THEN Gate!Cancelled(runs) ELSE runs
<1>1. /\ adapter \in AdapterRow /\ worker \in WorkerRow /\ runs \in SUBSET RunRow /\ installed \in Driver
  BY DEF GateTyped
<1>2. /\ worker.at = "probe" /\ worker' = [worker EXCEPT !.at = "deliver"]
      /\ UNCHANGED <<installed, write, line, signature, vouched>>
  BY Zenon DEF Gate!ProbeDevice, Gate!people
<1>3. worker' \in WorkerRow /\ worker'.at = "deliver"
  BY <1>1, <1>2, WorkerAt
<1>4. CASE ~(adapter.conf.kind = "real" /\ adapter.enabled)
  <2>1. UNCHANGED <<adapter, runs, command, proved>>
    BY <1>4, Zenon DEF Gate!ProbeDevice
  <2>2. QED
    BY <1>1, <1>2, <1>3, <2>1 DEF Gate!Running
<1>5. CASE adapter.conf.kind = "real" /\ adapter.enabled
  <2>1. /\ adapter' = tracked
        /\ runs' = kept \/ runs' = Gate!Requeued(tracked, kept)
        /\ command' = (IF news /\ Gate!Acting THEN [command EXCEPT !.state = "unknown"] ELSE command)
        /\ proved' = (IF drift = None \/ adapter.info = installed THEN proved
                      ELSE [conf |-> None, driver |-> IF drift = "physical" THEN None ELSE proved.driver])
    BY <1>5, Zenon DEF Gate!ProbeDevice
  <2>2. seen = [conf |-> adapter.conf, enabled |-> adapter.enabled, version |-> adapter.version, required |-> adapter.required,
                approved |-> adapter.approved, info |-> installed, approval |-> adapter.approval, up |-> TRUE]
    <3>1. seen = [[adapter EXCEPT !.info = installed] EXCEPT !.up = TRUE]
      OBVIOUS
    <3> HIDE DEF seen
    <3>2. QED
      BY <1>1, <3>1 DEF AdapterRow
  <2> HIDE DEF seen
  <2>3. adapter.version \in Nat /\ adapter.required \in {None, "readonly", "physical"} /\ drift \in {None, "readonly", "physical"}
    BY <1>1 DEF AdapterRow, Gate!Drift
  <2>4. /\ kept \in SUBSET RunRow /\ \A run \in kept : run \in runs /\ (news => run.state # "queued")
        /\ {run \in kept : run.state = "running"} = Gate!Running
    BY <1>1 DEF Gate!Cancelled, Gate!Running
  <2>5. news <=> ~(drift = None \/ adapter.info = installed)
    BY DEF Gate!News
  <2> HIDE DEF drift, news, kept
  <2>6. /\ tracked \in AdapterRow /\ tracked.conf = adapter.conf /\ tracked.approved = adapter.approved
        /\ tracked.approval = adapter.approval
        /\ tracked.version = (IF news THEN adapter.version + 1 ELSE adapter.version)
        /\ tracked.required = (IF news THEN required ELSE adapter.required)
    <3>1. CASE ~news
      <4>1. tracked = seen
        BY <3>1
      <4> HIDE DEF tracked
      <4>2. QED
        BY <1>1, <2>2, <3>1, <4>1 DEF AdapterRow
    <3>2. CASE news
      <4>1. tracked = [[seen EXCEPT !.version = @ + 1] EXCEPT !.required = IF "physical" \in {drift, @} THEN "physical" ELSE drift]
        BY <3>2, Zenon DEF Gate!DriverChanged
      <4> HIDE DEF tracked
      <4>2. tracked = [conf |-> adapter.conf, enabled |-> adapter.enabled, version |-> adapter.version + 1, required |-> required,
                       approved |-> adapter.approved, info |-> installed, approval |-> adapter.approval, up |-> TRUE]
        BY <2>2, <4>1
      <4>3. required \in {None, "readonly", "physical"}
        BY <2>3
      <4> HIDE DEF required
      <4>4. tracked \in AdapterRow
        BY <1>1, <2>3, <4>2, <4>3 DEF AdapterRow
      <4>5. QED
        BY <3>2, <4>2, <4>4 DEF required
    <3>3. QED
      BY <3>1, <3>2
  <2> HIDE DEF tracked
  <2>7. /\ runs' \in SUBSET RunRow /\ {run \in runs' : run.state = "running"} = Gate!Running
        /\ \A run \in runs' : run \in kept \/ (run.level = "readonly" /\ run.version = tracked.version)
    BY <2>1, <2>4, <2>6, RunRequeued
  <2>8. Gate!Running' = Gate!Running
    BY <2>7 DEF Gate!Running
  <2>9. CASE ~news
    BY <1>2, <1>3, <2>1, <2>4, <2>5, <2>6, <2>7, <2>8, <2>9
  <2>10. CASE news
    <3>1. /\ command' = command \/ (command' = [command EXCEPT !.state = "unknown"] /\ Gate!Acting)
          /\ proved' = [conf |-> None, driver |-> IF drift = "physical" THEN None ELSE proved.driver]
      <4>1. command' = command \/ (command' = [command EXCEPT !.state = "unknown"] /\ Gate!Acting)
        BY <2>1, Zenon
      <4>2. ~(drift = None \/ adapter.info = installed)
        BY <2>5, <2>10
      <4>3. proved' = [conf |-> None, driver |-> IF drift = "physical" THEN None ELSE proved.driver]
        BY <2>1, <4>2, Zenon
      <4>4. QED
        BY <4>1, <4>3
    <3>2. /\ adapter'.version = adapter.version + 1 /\ adapter'.required = required
          /\ adapter' \in AdapterRow /\ adapter'.conf = adapter.conf
          /\ adapter'.approved = adapter.approved /\ adapter'.approval = adapter.approval
      BY <2>1, <2>6, <2>10
    <3>3. \A run \in runs' : \/ run \in runs /\ run.state # "queued"
                             \/ run.level = "readonly" /\ run.version = adapter'.version
      BY <2>1, <2>4, <2>7, <2>10
    <3>4. \/ adapter'.required = "physical" /\ (proved' = [conf |-> None, driver |-> None]
                                                \/ proved' = [conf |-> None, driver |-> proved.driver])
          \/ /\ adapter.required # "physical" /\ adapter'.required = "readonly"
             /\ proved' = [conf |-> None, driver |-> proved.driver]
      <4>1. drift # None
        BY <2>5, <2>10
      <4>2. CASE "physical" \in {drift, adapter.required}
        BY <3>1, <3>2, <4>2
      <4>3. CASE "physical" \notin {drift, adapter.required}
        BY <2>3, <3>1, <3>2, <4>1, <4>3
      <4>4. QED
        BY <4>2, <4>3
    <3>5. QED
      BY <1>2, <1>3, <2>7, <2>8, <3>1, <3>2, <3>3, <3>4
  <2>11. QED
    BY <2>9, <2>10
<1>6. QED
  BY <1>4, <1>5

(* A device that answers the probe keeps the gate as it is, or closes it.   *)
LEMMA ProbeStep == ASSUME GateInv, Gate!ProbeDevice PROVE GateInv'
<1> DEFINE Commands == [state : {"none", "queued", "acting", "unknown"}, conf : Conf \cup {None}]
<1>1. /\ GateTyped /\ GateCore /\ adapter \in AdapterRow /\ command \in Commands /\ Gate!MovedAsSigned /\ WrittenOnce
      /\ proved \in [conf : Conf \cup {None}, driver : DriverNames] /\ runs \in SUBSET RunRow
  BY DEF GateInv, GateTyped
<1>2. /\ worker.at = "probe" /\ worker' \in WorkerRow /\ worker'.at = "deliver"
      /\ UNCHANGED <<installed, write, line, signature, vouched>>
      /\ adapter' \in AdapterRow /\ adapter'.conf = adapter.conf
      /\ adapter'.approved = adapter.approved /\ adapter'.approval = adapter.approval
      /\ runs' \in SUBSET RunRow /\ Gate!Running' = Gate!Running
  BY <1>1, ProbeIs
<1>3. Gate!Running = {}
  BY <1>1, <1>2, NoneInHand
<1>4. adapter.version \in Nat
  BY <1>1 DEF AdapterRow
<1>5. WrittenOnce'
  BY <1>1, <1>2 DEF WrittenOnce
<1>6. CASE /\ adapter'.version = adapter.version /\ adapter'.required = adapter.required
           /\ command' = command /\ proved' = proved
           /\ \A run \in runs' : run \in runs \/ (run.version = adapter.version /\ run.level = "readonly")
  <2>1. \A run \in runs' : run \in runs \/ (run.version <= adapter.version /\ (run.level = "physical" => run.signed = adapter.conf))
    BY <1>4, <1>6
  <2>2. Gate!Acting' => command'.conf = adapter.conf /\ Gate!Acting
    BY <1>1, <1>6 DEF Gate!Acting, Gate!MovedAsSigned
  <2>3. QED
    BY <1>1, <1>2, <1>3, <1>5, <1>6, <2>1, <2>2, GateGoesOn DEF GateTyped
<1>7. CASE /\ adapter'.version = adapter.version + 1
           /\ \A run \in runs' : \/ run \in runs /\ run.state # "queued"
                                 \/ run.level = "readonly" /\ run.version = adapter'.version
           /\ command' = command \/ (command' = [command EXCEPT !.state = "unknown"] /\ Gate!Acting)
           /\ \/ adapter'.required = "physical" /\ (proved' = [conf |-> None, driver |-> None]
                                                    \/ proved' = [conf |-> None, driver |-> proved.driver])
              \/ /\ adapter.required # "physical" /\ adapter'.required = "readonly"
                 /\ proved' = [conf |-> None, driver |-> proved.driver]
  <2>1. command' \in Commands /\ command'.conf = command.conf /\ (Gate!Acting' => Gate!Acting)
    BY <1>1, <1>7 DEF Gate!Acting
  <2>2. proved' \in [conf : Conf \cup {None}, driver : DriverNames]
    BY <1>1, <1>7 DEF DriverNames
  <2>3. GateTyped'
    BY <1>1, <1>2, <2>1, <2>2 DEF GateTyped
  <2>4. RunInHand' /\ CheckIsFor' /\ ReportIsProof'
    BY <1>2, <1>3 DEF RunInHand, CheckIsFor, ReportIsProof
  <2>5. SignedFor'
    <3>1. \A run \in runs' : /\ run.version <= adapter'.version
                             /\ ~(run.level = "physical" /\ run.state = "queued")
      <4>1. TAKE run \in runs'
      <4>2. CASE run \in runs /\ run.state # "queued"
        <5>1. run.version \in Nat /\ run.version <= adapter.version
          BY <1>1, <4>2 DEF GateCore, SignedFor, RunRow
        <5>2. QED
          BY <1>4, <1>7, <4>2, <5>1
      <4>3. CASE run.level = "readonly" /\ run.version = adapter'.version
        BY <1>4, <1>7, <4>3
      <4>4. QED
        BY <1>7, <4>2, <4>3
    <3>2. signature # None => signature.version \in Nat /\ signature.version <= adapter.version
      BY <1>1 DEF GateCore, SignedFor, GateTyped
    <3>3. line # None => line.version \in Nat /\ line.version <= adapter.version
      BY <1>1 DEF GateCore, SignedFor, GateTyped, AdapterRow
    <3>4. QED
      BY <1>2, <1>4, <1>7, <3>1, <3>2, <3>3 DEF SignedFor
  <2>6. OpenIsProved'
    <3>1. adapter'.required # None
      BY <1>7, NoneIsNothing
    <3>2. adapter'.required # "physical" => adapter.required # "physical" /\ proved'.driver = proved.driver
      BY <1>7
    <3>3. QED
      BY <1>1, <1>2, <3>1, <3>2 DEF GateCore, OpenIsProved
  <2>7. Answered'
    BY <1>1, <1>2 DEF GateCore, Answered
  <2>8. Gate!MovedAsSigned'
    BY <1>1, <1>2, <2>1 DEF Gate!MovedAsSigned
  <2>9. QED
    BY <1>5, <2>3, <2>4, <2>5, <2>6, <2>7, <2>8 DEF GateInv, GateCore
<1>8. QED
  BY <1>1, <1>6, <1>7, ProbeIs

(* A device that does not answer is down.                                   *)
LEMMA SilentStep == ASSUME GateInv, Gate!ProbeSilent PROVE GateInv'
<1>1. /\ GateTyped /\ GateCore /\ adapter \in AdapterRow /\ worker \in WorkerRow /\ Gate!MovedAsSigned /\ WrittenOnce
  BY DEF GateInv, GateTyped
<1>2. /\ worker.at = "probe" /\ worker' = [worker EXCEPT !.at = "deliver"] /\ adapter' = [adapter EXCEPT !.up = FALSE]
      /\ UNCHANGED <<installed, runs, write, command, line, signature, proved, vouched>>
  BY Zenon DEF Gate!ProbeSilent, Gate!people
<1>3. worker' \in WorkerRow /\ worker'.at = "deliver" /\ Gate!Running = {}
  BY <1>1, <1>2, WorkerAt, NoneInHand
<1>4. /\ adapter' \in AdapterRow /\ adapter'.conf = adapter.conf /\ adapter'.version = adapter.version
      /\ adapter'.required = adapter.required /\ adapter'.approved = adapter.approved /\ adapter'.approval = adapter.approval
  BY <1>1, <1>2 DEF AdapterRow
<1>5. Gate!Acting' => command'.conf = adapter.conf /\ Gate!Acting
  BY <1>1, <1>2 DEF Gate!Acting, Gate!MovedAsSigned
<1>6. Gate!Running' = Gate!Running /\ WrittenOnce'
  BY <1>1, <1>2, <1>3 DEF Gate!Running, WrittenOnce
<1>7. QED
  BY <1>1, <1>2, <1>3, <1>4, <1>5, <1>6, GateGoesOn DEF GateTyped

(* Recovery closes the run that was in hand: one that moved the device      *)
(* leaves a physical acceptance to be made.                                 *)
LEMMA RestartStep == ASSUME GateInv, Gate!Restart PROVE GateInv'
<1> DEFINE ended == Gate!Closed("error")
           new == Gate!NewRun(adapter, "readonly", None)
           orphan == CHOOSE run \in Gate!Running : TRUE
<1>1. /\ GateTyped /\ GateCore /\ adapter \in AdapterRow /\ Gate!MovedAsSigned /\ WrittenOnce /\ write \in WriteRow
      /\ proved \in [conf : Conf \cup {None}, driver : DriverNames]
  BY DEF GateInv, GateTyped
<1>2. /\ worker.at = "down" /\ worker' = Gate!Idle
      /\ adapter' = (IF Gate!Running = {} THEN adapter ELSE Gate!Orphaned(adapter, orphan.level))
      /\ runs' = ended \/ runs' = Gate!Queued(ended, new)
      /\ write' = [write EXCEPT !.state = Gate!Undecided(@)]
      /\ proved' = (IF \E run \in Gate!Running : run.level = "physical" THEN [proved EXCEPT !.driver = None] ELSE proved)
      /\ UNCHANGED <<installed, command, line, signature, vouched>>
  BY Zenon DEF Gate!Restart, Gate!people
<1>3. worker' \in WorkerRow /\ worker'.at = "accept"
  BY <1>2, IdleIs
<1>4. \/ adapter' = adapter /\ proved' = proved
      \/ adapter' = Gate!RequirePhysical(adapter) /\ proved' = [proved EXCEPT !.driver = None]
  <2>1. Gate!Running # {} => orphan \in Gate!Running
    OBVIOUS
  <2> HIDE DEF orphan
  <2>2. \A run, other \in Gate!Running : run = other
    BY <1>1 DEF GateCore, RunInHand
  <2>3. Gate!Running # {} => ((\E run \in Gate!Running : run.level = "physical") <=> orphan.level = "physical")
    BY <2>1, <2>2
  <2>4. QED
    BY <1>2, <2>3 DEF Gate!Orphaned
<1>5. /\ adapter' \in AdapterRow /\ adapter'.conf = adapter.conf /\ adapter'.version = adapter.version
      /\ adapter'.approved = adapter.approved /\ adapter'.approval = adapter.approval
      /\ proved' \in [conf : Conf \cup {None}, driver : DriverNames]
      /\ \/ adapter'.required = adapter.required /\ proved' = proved
         \/ adapter.conf.kind = "real" => adapter'.required = "physical"
  <2>1. [proved EXCEPT !.driver = None] \in [conf : Conf \cup {None}, driver : DriverNames]
    BY <1>1 DEF DriverNames
  <2>2. QED
    BY <1>1, <1>4, <2>1, PhysicalIs
<1>6. adapter.version \in Nat
  BY <1>1 DEF AdapterRow
<1>7. /\ ended \in SUBSET RunRow
      /\ \A run \in ended : run.state # "running"
      /\ \A run \in ended : run.state = "queued" => run \in runs
      /\ \A run \in ended : \E other \in runs : run.version = other.version
  BY <1>1, RunsClosed
<1> HIDE DEF ended
<1>8. new \in RunRow /\ new.state = "queued" /\ new.version = adapter.version /\ new.level = "readonly"
  BY <1>1, NewRunTyped
<1> HIDE DEF new
<1>9. runs' \in SUBSET RunRow /\ \A run \in runs' : run = new \/ run \in ended
  <2>1. Gate!Queued(ended, new) \in SUBSET RunRow /\ \A run \in Gate!Queued(ended, new) : run = new \/ run \in ended
    BY <1>1, <1>7, <1>8, RunQueued
  <2>2. QED
    BY <1>2, <1>7, <2>1
<1>10. Gate!Running' = {}
  BY <1>7, <1>8, <1>9 DEF Gate!Running
<1>11. write' \in WriteRow /\ write'.made = write.made /\ (write'.state = "queued" => write.state = "queued")
  BY <1>1, <1>2 DEF WriteRow, Gate!Undecided
<1>12. GateTyped'
  BY <1>1, <1>2, <1>3, <1>5, <1>9, <1>11 DEF GateTyped
<1>13. RunInHand' /\ CheckIsFor' /\ ReportIsProof'
  BY <1>3, <1>10 DEF RunInHand, CheckIsFor, ReportIsProof
<1>14. SignedFor'
  <2>1. \A run \in runs' : /\ run.version <= adapter.version
                           /\ run.level = "physical" /\ run.state = "queued" /\ run.version = adapter.version => run.signed = adapter.conf
    BY <1>1, <1>6, <1>7, <1>8, <1>9 DEF GateCore, SignedFor
  <2>2. QED
    BY <1>1, <1>2, <1>5, <2>1 DEF GateCore, SignedFor
<1>15. OpenIsProved' /\ Answered'
  BY <1>1, <1>2, <1>5, NoneIsNothing DEF GateCore, OpenIsProved, Answered
<1>16. Gate!MovedAsSigned' /\ WrittenOnce'
  BY <1>1, <1>2, <1>3, <1>5, <1>11 DEF Gate!MovedAsSigned, Gate!Acting, WrittenOnce
<1>17. QED
  BY <1>12, <1>13, <1>14, <1>15, <1>16 DEF GateInv, GateCore

(* Every step keeps the gate's invariant.                                   *)
LEMMA GateStep == ASSUME GateInv, Gate!AcceptanceNext PROVE GateInv'
<1>1. CASE Gate!Sign \/ Gate!Waive \/ Gate!ApproveDriver
  BY <1>1, SignStep, WaiveStep, ApproveStep
<1>2. CASE \E level \in {"readonly", "physical"} : Gate!Ask(level)
  BY <1>2, AskStep
<1>3. ASSUME NEW run \in runs, Gate!CancelRun(run) PROVE GateInv'
  <2>1. /\ run.state = "queued" /\ runs' = runs \ {run}
        /\ UNCHANGED <<adapter, installed, write, command, worker, line, signature, proved, vouched>>
    BY <1>3, Zenon DEF Gate!CancelRun, Gate!people
  <2>2. QED
    BY <2>1, RunTakenBack
<1>4. CASE \E run \in runs : Gate!ClaimRun(run)
  BY <1>4, ClaimStep
<1>5. CASE \E conf \in Conf, enabled \in BOOLEAN : Gate!UpdateAdapter(conf, enabled)
  BY <1>5, UpdateAdapterStep
<1>6. CASE Gate!ComingBack \/ Gate!GoesDown \/ \E driver \in Driver : Gate!Swap(driver)
  BY <1>6, DeviceOnItsOwn
<1>7. CASE Gate!CameBack
  BY <1>7, CameBackStep
<1>8. CASE worker.at = "check" /\ \E verdict \in Gate!Verdicts(worker.run.level) : Gate!CheckDevice(verdict)
  BY <1>8, CheckStep
<1>9. CASE Gate!CheckRaises
  <2>1. worker.at = "check"
    BY <1>9, Zenon DEF Gate!CheckRaises
  <2>2. QED
    BY <1>9, <2>1, CheckStep
<1>10. CASE Gate!CloseRun \/ Gate!RequireAgain \/ Gate!SettleGate
  BY <1>10, CloseStep, RequireStep, SettleStep
<1>11. CASE Gate!RequestWrite \/ Gate!CancelWrite
  BY <1>11, WriteAsked
<1>12. CASE \/ Gate!ToPoint \/ \E reaches \in BOOLEAN : Gate!WritePoint(reaches)
            \/ \E state \in {"done", "failed", "unknown"} : Gate!CloseWrite(state)
  BY <1>12, WriteMade
<1>13. CASE Gate!ProbeDevice \/ Gate!ProbeSilent
  BY <1>13, ProbeStep, SilentStep
<1>14. CASE Gate!Enqueue \/ Gate!Deliver \/ \E state \in {"none", "unknown"} : Gate!Ends(state)
  BY <1>14, CommandStep
<1>15. CASE Gate!Crash \/ Gate!Restart
  BY <1>15, CrashStep, RestartStep
<1>16. QED
  BY <1>1, <1>2, <1>3, <1>4, <1>5, <1>6, <1>7, <1>8, <1>9, <1>10, <1>11, <1>12, <1>13, <1>14, <1>15, Zenon
  DEF Gate!AcceptanceNext

(* What the gate lets through was proved, as it was signed, and is written  *)
(* once.                                                                    *)
LEMMA GateStands == ASSUME GateInv PROVE GateHolds
<1>1. /\ adapter \in AdapterRow /\ GateCore /\ Gate!MovedAsSigned /\ WrittenOnce
  BY DEF GateInv, GateTyped
<1>2. Gate!WorksAsAccepted
  <2>1. Gate!DispatchHold(adapter, runs) = "go" /\ adapter.conf.kind = "real" => adapter.required = None
    BY DEF Gate!DispatchHold
  <2>2. QED
    BY <1>1, <2>1, NoneIsNothing DEF Gate!WorksAsAccepted, GateCore, OpenIsProved
<1>3. Gate!DriverVouched
  BY <1>1 DEF GateCore, Answered, Gate!DriverVouched
<1>4. QED
  BY <1>1, <1>2, <1>3 DEF GateHolds, Gate!GateHolds, WrittenOnce

-----------------------------------------------------------------------------
(* The documents: what Sops_proofs and Recipes_proofs say of the SOPs and    *)
(* of the recipes, of the parts of the desk that move them.                 *)

PeriodsFacts == INSTANCE Sops_proofs WITH Trainee <- {}, Kind <- {}, MaxSops <- MaxPeriods,
                                          MaxSopSteps <- 0, MaxSopEdits <- MaxPeriodEdits
GuidesFacts == INSTANCE Sops_proofs WITH MaxClock <- 0
FlowsFacts == INSTANCE Recipes_proofs
SiblingsFacts == INSTANCE Recipes_proofs WITH MaxRecipes <- MaxSiblings,
                                              MaxRecipeEdits <- MaxSiblingEdits,
                                              MaxRecipeRuns <- 0, MaxUpsets <- 0

DocumentsInv ==
  /\ focus # "guides" => PeriodsFacts!SopInv
  /\ focus = "guides" => GuidesFacts!SopInv
  /\ FlowsFacts!RecipeInv

(* The facts about the SOPs and the recipes are about those of the desk.    *)
LEMMA DocumentsAreTheirs ==
  /\ Periods!SopInit => PeriodsFacts!SopInit
  /\ Guides!SopInit => GuidesFacts!SopInit
  /\ Flows!RecipeInit \/ Siblings!RecipeInit => FlowsFacts!RecipeInit
  /\ Periods!SopNext => PeriodsFacts!SopNext
  /\ Guides!SopNext => GuidesFacts!SopNext
  /\ Flows!RecipeNext => FlowsFacts!RecipeNext
  /\ Siblings!RecipeNext => SiblingsFacts!RecipeNext
<1>1. Periods!SopInit => PeriodsFacts!SopInit
  BY DEF Periods!SopInit, PeriodsFacts!SopInit
<1>2. Guides!SopInit => GuidesFacts!SopInit
  BY DEF Guides!SopInit, GuidesFacts!SopInit
<1>3. Flows!RecipeInit \/ Siblings!RecipeInit => FlowsFacts!RecipeInit
  BY DEF Flows!RecipeInit, Siblings!RecipeInit, FlowsFacts!RecipeInit
<1>4. Periods!SopNext => PeriodsFacts!SopNext
  BY DEF Periods!Moment, PeriodsFacts!Moment, Periods!Effective, PeriodsFacts!Effective,
     Periods!EffectiveOnes, PeriodsFacts!EffectiveOnes, Periods!InEffect, PeriodsFacts!InEffect,
     Periods!Status, PeriodsFacts!Status, Periods!WindowOk, PeriodsFacts!WindowOk, Periods!WithKeys,
     PeriodsFacts!WithKeys, Periods!KeysGiven, PeriodsFacts!KeysGiven, Periods!Guide, PeriodsFacts!Guide,
     Periods!GuideUnder, PeriodsFacts!GuideUnder, Periods!SopInit, PeriodsFacts!SopInit, Periods!Pass,
     PeriodsFacts!Pass, Periods!Version, PeriodsFacts!Version, Periods!CreateVersion,
     PeriodsFacts!CreateVersion, Periods!UpdateVersion, PeriodsFacts!UpdateVersion, Periods!UpdateSteps,
     PeriodsFacts!UpdateSteps, Periods!NewStep, PeriodsFacts!NewStep, Periods!Rewritten,
     PeriodsFacts!Rewritten, Periods!Restore, PeriodsFacts!Restore, Periods!SubmitVersion,
     PeriodsFacts!SubmitVersion, Periods!Reject, PeriodsFacts!Reject, Periods!FromOk, PeriodsFacts!FromOk,
     Periods!GivesWay, PeriodsFacts!GivesWay, Periods!Published, PeriodsFacts!Published, Periods!Approve,
     PeriodsFacts!Approve, Periods!Retire, PeriodsFacts!Retire, Periods!Acknowledge,
     PeriodsFacts!Acknowledge, Periods!GenerateRecipe, PeriodsFacts!GenerateRecipe, Periods!ForNewBatch,
     PeriodsFacts!ForNewBatch, Periods!CreateBatch, PeriodsFacts!CreateBatch, Periods!AckBlockers,
     PeriodsFacts!AckBlockers, Periods!AcknowledgeForBatch, PeriodsFacts!AcknowledgeForBatch,
     Periods!StartBatch, PeriodsFacts!StartBatch, Periods!FinishSopBatch, PeriodsFacts!FinishSopBatch,
     Periods!SopNext, PeriodsFacts!SopNext, Periods!Cardinality, PeriodsFacts!Cardinality
<1>5. Guides!SopNext => GuidesFacts!SopNext
  BY DEF Guides!Moment, GuidesFacts!Moment, Guides!Effective, GuidesFacts!Effective, Guides!EffectiveOnes,
     GuidesFacts!EffectiveOnes, Guides!InEffect, GuidesFacts!InEffect, Guides!Status, GuidesFacts!Status,
     Guides!WindowOk, GuidesFacts!WindowOk, Guides!WithKeys, GuidesFacts!WithKeys, Guides!KeysGiven,
     GuidesFacts!KeysGiven, Guides!Guide, GuidesFacts!Guide, Guides!GuideUnder, GuidesFacts!GuideUnder,
     Guides!SopInit, GuidesFacts!SopInit, Guides!Pass, GuidesFacts!Pass, Guides!Version,
     GuidesFacts!Version, Guides!CreateVersion, GuidesFacts!CreateVersion, Guides!UpdateVersion,
     GuidesFacts!UpdateVersion, Guides!UpdateSteps, GuidesFacts!UpdateSteps, Guides!NewStep,
     GuidesFacts!NewStep, Guides!Rewritten, GuidesFacts!Rewritten, Guides!Restore, GuidesFacts!Restore,
     Guides!SubmitVersion, GuidesFacts!SubmitVersion, Guides!Reject, GuidesFacts!Reject, Guides!FromOk,
     GuidesFacts!FromOk, Guides!GivesWay, GuidesFacts!GivesWay, Guides!Published, GuidesFacts!Published,
     Guides!Approve, GuidesFacts!Approve, Guides!Retire, GuidesFacts!Retire, Guides!Acknowledge,
     GuidesFacts!Acknowledge, Guides!GenerateRecipe, GuidesFacts!GenerateRecipe, Guides!ForNewBatch,
     GuidesFacts!ForNewBatch, Guides!CreateBatch, GuidesFacts!CreateBatch, Guides!AckBlockers,
     GuidesFacts!AckBlockers, Guides!AcknowledgeForBatch, GuidesFacts!AcknowledgeForBatch,
     Guides!StartBatch, GuidesFacts!StartBatch, Guides!FinishSopBatch, GuidesFacts!FinishSopBatch,
     Guides!SopNext, GuidesFacts!SopNext, Guides!Cardinality, GuidesFacts!Cardinality
<1>6. Flows!RecipeNext => FlowsFacts!RecipeNext
  <2>1. Flows!Additions = FlowsFacts!Additions
    BY DEF Flows!Additions, FlowsFacts!Additions, Flows!NewStep, FlowsFacts!NewStep, Flows!Live,
       FlowsFacts!Live
  <2>2. \A steps : Flows!Edited(steps) = FlowsFacts!Edited(steps)
    BY <2>1 DEF Flows!Edited, FlowsFacts!Edited
  <2>3. QED
    BY <2>2 DEF Flows!IdsOf, FlowsFacts!IdsOf, Flows!Top, FlowsFacts!Top, Flows!StepIdsOf,
       FlowsFacts!StepIdsOf, Flows!AssignStepIds, FlowsFacts!AssignStepIds, Flows!IdsDiffer,
       FlowsFacts!IdsDiffer, Flows!Subs, FlowsFacts!Subs, Flows!Ways, FlowsFacts!Ways, Flows!Expands,
       FlowsFacts!Expands, Flows!Able, FlowsFacts!Able, Flows!IsValid, FlowsFacts!IsValid, Flows!Recipe,
       FlowsFacts!Recipe, Flows!Create, FlowsFacts!Create, Flows!CreateFromSteps,
       FlowsFacts!CreateFromSteps, Flows!Patch, FlowsFacts!Patch, Flows!SubmitRecipe,
       FlowsFacts!SubmitRecipe, Flows!ApproveRecipe, FlowsFacts!ApproveRecipe, Flows!RetireParent,
       FlowsFacts!RetireParent, Flows!Release, FlowsFacts!Release, Flows!RetireRecipe,
       FlowsFacts!RetireRecipe, Flows!CreateRevision, FlowsFacts!CreateRevision, Flows!DeletableRecipe,
       FlowsFacts!DeletableRecipe, Flows!DeleteRecipe, FlowsFacts!DeleteRecipe, Flows!StationsChange,
       FlowsFacts!StationsChange, Flows!CreateRun, FlowsFacts!CreateRun, Flows!SetGoldenBatch,
       FlowsFacts!SetGoldenBatch, Flows!Live, FlowsFacts!Live, Flows!RecipeNext, FlowsFacts!RecipeNext
<1>7. Siblings!RecipeNext => SiblingsFacts!RecipeNext
  <2>1. Siblings!Additions = SiblingsFacts!Additions
    BY DEF Siblings!Additions, SiblingsFacts!Additions, Siblings!NewStep, SiblingsFacts!NewStep,
       Siblings!Live, SiblingsFacts!Live
  <2>2. \A steps : Siblings!Edited(steps) = SiblingsFacts!Edited(steps)
    BY <2>1 DEF Siblings!Edited, SiblingsFacts!Edited
  <2>3. QED
    BY <2>2 DEF Siblings!IdsOf, SiblingsFacts!IdsOf, Siblings!Top, SiblingsFacts!Top, Siblings!StepIdsOf,
       SiblingsFacts!StepIdsOf, Siblings!AssignStepIds, SiblingsFacts!AssignStepIds, Siblings!IdsDiffer,
       SiblingsFacts!IdsDiffer, Siblings!Subs, SiblingsFacts!Subs, Siblings!Ways, SiblingsFacts!Ways,
       Siblings!Expands, SiblingsFacts!Expands, Siblings!Able, SiblingsFacts!Able, Siblings!IsValid,
       SiblingsFacts!IsValid, Siblings!Recipe, SiblingsFacts!Recipe, Siblings!Create, SiblingsFacts!Create,
       Siblings!CreateFromSteps, SiblingsFacts!CreateFromSteps, Siblings!Patch, SiblingsFacts!Patch,
       Siblings!SubmitRecipe, SiblingsFacts!SubmitRecipe, Siblings!ApproveRecipe,
       SiblingsFacts!ApproveRecipe, Siblings!RetireParent, SiblingsFacts!RetireParent, Siblings!Release,
       SiblingsFacts!Release, Siblings!RetireRecipe, SiblingsFacts!RetireRecipe, Siblings!CreateRevision,
       SiblingsFacts!CreateRevision, Siblings!DeletableRecipe, SiblingsFacts!DeletableRecipe,
       Siblings!DeleteRecipe, SiblingsFacts!DeleteRecipe, Siblings!StationsChange,
       SiblingsFacts!StationsChange, Siblings!CreateRun, SiblingsFacts!CreateRun, Siblings!SetGoldenBatch,
       SiblingsFacts!SetGoldenBatch, Siblings!Live, SiblingsFacts!Live, Siblings!RecipeNext,
       SiblingsFacts!RecipeNext
<1>8. QED
  BY <1>1, <1>2, <1>3, <1>4, <1>5, <1>6, <1>7

(* How many recipes there may be changes nothing of what is known of them.  *)
LEMMA SiblingsAreRecipes ==
  /\ FlowsFacts!RecipeInv <=> SiblingsFacts!RecipeInv
  /\ (FlowsFacts!RecipeInv)' <=> (SiblingsFacts!RecipeInv)'
<1>1. FlowsFacts!RecipeInv <=> SiblingsFacts!RecipeInv
  BY DEF FlowsFacts!IdsOf, SiblingsFacts!IdsOf, FlowsFacts!StepIdsOf, SiblingsFacts!StepIdsOf,
     FlowsFacts!IdsDiffer, SiblingsFacts!IdsDiffer, FlowsFacts!StepRow, SiblingsFacts!StepRow,
     FlowsFacts!States, SiblingsFacts!States, FlowsFacts!RecipeRow, SiblingsFacts!RecipeRow,
     FlowsFacts!RecipeTyped, SiblingsFacts!RecipeTyped, FlowsFacts!Bounded, SiblingsFacts!Bounded,
     FlowsFacts!IdsBounded, SiblingsFacts!IdsBounded, FlowsFacts!Limit, SiblingsFacts!Limit,
     FlowsFacts!StepsOld, SiblingsFacts!StepsOld, FlowsFacts!SameStep, SiblingsFacts!SameStep,
     FlowsFacts!Newest, SiblingsFacts!Newest, FlowsFacts!IdsOnce, SiblingsFacts!IdsOnce, FlowsFacts!Open,
     SiblingsFacts!Open, FlowsFacts!OpenOrDistinct, SiblingsFacts!OpenOrDistinct, FlowsFacts!AllDistinct,
     SiblingsFacts!AllDistinct, FlowsFacts!Revised, SiblingsFacts!Revised, FlowsFacts!TakenOver,
     SiblingsFacts!TakenOver, FlowsFacts!ParentsFit, SiblingsFacts!ParentsFit, FlowsFacts!RecipeInv,
     SiblingsFacts!RecipeInv
<1>2. (FlowsFacts!RecipeInv)' <=> (SiblingsFacts!RecipeInv)'
  BY DEF FlowsFacts!IdsOf, SiblingsFacts!IdsOf, FlowsFacts!StepIdsOf, SiblingsFacts!StepIdsOf,
     FlowsFacts!IdsDiffer, SiblingsFacts!IdsDiffer, FlowsFacts!StepRow, SiblingsFacts!StepRow,
     FlowsFacts!States, SiblingsFacts!States, FlowsFacts!RecipeRow, SiblingsFacts!RecipeRow,
     FlowsFacts!RecipeTyped, SiblingsFacts!RecipeTyped, FlowsFacts!Bounded, SiblingsFacts!Bounded,
     FlowsFacts!IdsBounded, SiblingsFacts!IdsBounded, FlowsFacts!Limit, SiblingsFacts!Limit,
     FlowsFacts!StepsOld, SiblingsFacts!StepsOld, FlowsFacts!SameStep, SiblingsFacts!SameStep,
     FlowsFacts!Newest, SiblingsFacts!Newest, FlowsFacts!IdsOnce, SiblingsFacts!IdsOnce, FlowsFacts!Open,
     SiblingsFacts!Open, FlowsFacts!OpenOrDistinct, SiblingsFacts!OpenOrDistinct, FlowsFacts!AllDistinct,
     SiblingsFacts!AllDistinct, FlowsFacts!Revised, SiblingsFacts!Revised, FlowsFacts!TakenOver,
     SiblingsFacts!TakenOver, FlowsFacts!ParentsFit, SiblingsFacts!ParentsFit, FlowsFacts!RecipeInv,
     SiblingsFacts!RecipeInv
<1>3. QED
  BY <1>1, <1>2

(* The constants of the desk are such as the facts need.                    *)
LEMMA DocumentsAssumed ==
  PeriodsFacts!SopsAssumed /\ GuidesFacts!SopsAssumed /\ FlowsFacts!RecipesAssumed /\ SiblingsFacts!RecipesAssumed
BY NoneIsNothing, MomentsAreTime, SopsAreShort
   DEF PeriodsFacts!SopsAssumed, GuidesFacts!SopsAssumed, FlowsFacts!RecipesAssumed, SiblingsFacts!RecipesAssumed

(* There are no documents at the beginning.                                 *)
LEMMA DocumentsStart == Init => DocumentsInv
<1> SUFFICES ASSUME Init PROVE DocumentsInv
  OBVIOUS
<1>1. /\ focus # "guides" => Periods!SopInit
      /\ focus = "guides" => Guides!SopInit
      /\ Flows!RecipeInit \/ Siblings!RecipeInit
  BY DEF Init
<1>2. QED
  BY <1>1, DocumentsAreTheirs, PeriodsFacts!SopsStart, GuidesFacts!SopsStart, FlowsFacts!RecipesStart
     DEF DocumentsInv

(* Every step of the desk keeps what is known of the documents.             *)
LEMMA DocumentsStep == DocumentsInv /\ [Next]_vars => DocumentsInv'
<1> SUFFICES ASSUME DocumentsInv, [Next]_vars PROVE DocumentsInv'
  OBVIOUS
<1>1. /\ focus' = focus
      /\ \/ focus = "periods" /\ Periods!SopNext
         \/ focus = "guides" /\ Guides!SopNext
         \/ UNCHANGED periodsVars
  BY DEF Next, vars
<1>2. Flows!RecipeNext \/ Siblings!RecipeNext \/ UNCHANGED flowsVars
  BY DEF Next, vars
<1>3. UNCHANGED periodsVars => UNCHANGED PeriodsFacts!sopVars /\ UNCHANGED GuidesFacts!sopVars
  BY DEF periodsVars, PeriodsFacts!sopVars, GuidesFacts!sopVars
<1>4. UNCHANGED flowsVars => UNCHANGED FlowsFacts!recipeVars
  BY DEF flowsVars, FlowsFacts!recipeVars
<1>5. (FlowsFacts!RecipeInv)'
  <2>1. CASE Flows!RecipeNext
    BY <2>1, DocumentsAreTheirs, DocumentsAssumed, FlowsFacts!RecipesStep DEF DocumentsInv
  <2>2. CASE Siblings!RecipeNext
    <3>1. SiblingsFacts!RecipeInv /\ SiblingsFacts!RecipeNext
      BY <2>2, DocumentsAreTheirs, SiblingsAreRecipes DEF DocumentsInv
    <3>2. QED
      BY <3>1, DocumentsAssumed, SiblingsAreRecipes, SiblingsFacts!RecipesStep
  <2>3. CASE UNCHANGED flowsVars
    BY <2>3, <1>4, FlowsFacts!RecipesStay DEF DocumentsInv
  <2>4. QED
    BY <1>2, <2>1, <2>2, <2>3
<1>6. ASSUME focus # "guides" PROVE (PeriodsFacts!SopInv)'
  <2>1. PeriodsFacts!SopInv
    BY <1>6 DEF DocumentsInv
  <2>2. CASE Periods!SopNext
    BY <2>1, <2>2, DocumentsAreTheirs, DocumentsAssumed, PeriodsFacts!SopsStep
  <2>3. CASE UNCHANGED periodsVars
    BY <2>1, <2>3, <1>3, PeriodsFacts!SopsStay
  <2>4. QED
    BY <1>1, <1>6, <2>2, <2>3
<1>7. ASSUME focus = "guides" PROVE (GuidesFacts!SopInv)'
  <2>1. GuidesFacts!SopInv
    BY <1>7 DEF DocumentsInv
  <2>2. CASE Guides!SopNext
    BY <2>1, <2>2, DocumentsAreTheirs, DocumentsAssumed, GuidesFacts!SopsStep
  <2>3. CASE UNCHANGED periodsVars
    BY <2>1, <2>3, <1>3, GuidesFacts!SopsStay
  <2>4. QED
    BY <1>1, <1>7, <2>2, <2>3
<1>8. QED
  BY <1>1, <1>5, <1>6, <1>7 DEF DocumentsInv

(* What is known of the documents is enough.                                *)
LEMMA DocumentsStand == DocumentsInv => DocumentsHold
<1> SUFFICES ASSUME DocumentsInv PROVE DocumentsHold
  OBVIOUS
<1>1. ASSUME focus # "guides" PROVE Periods!OneInEffect /\ Periods!GuidedByItsOwn
  <2>1. PeriodsFacts!OneInEffect /\ PeriodsFacts!GuidedByItsOwn
    BY <1>1, DocumentsAssumed, PeriodsFacts!WindowsSuffice, PeriodsFacts!KeysSuffice DEF DocumentsInv
  <2>2. PeriodsFacts!OneInEffect /\ PeriodsFacts!GuidedByItsOwn => Periods!OneInEffect /\ Periods!GuidedByItsOwn
    BY DEF Periods!Effective, PeriodsFacts!Effective, Periods!EffectiveOnes, PeriodsFacts!EffectiveOnes,
     Periods!InEffect, PeriodsFacts!InEffect, Periods!Moment, PeriodsFacts!Moment, Periods!Guide,
     PeriodsFacts!Guide, Periods!GuideUnder, PeriodsFacts!GuideUnder, Periods!OneInEffect,
     PeriodsFacts!OneInEffect, Periods!GuidedByItsOwn, PeriodsFacts!GuidedByItsOwn, Periods!Cardinality,
     PeriodsFacts!Cardinality
  <2>3. QED
    BY <2>1, <2>2
<1>2. ASSUME focus = "guides" PROVE Guides!OneInEffect /\ Guides!GuidedByItsOwn
  <2>1. GuidesFacts!OneInEffect /\ GuidesFacts!GuidedByItsOwn
    BY <1>2, DocumentsAssumed, GuidesFacts!WindowsSuffice, GuidesFacts!KeysSuffice DEF DocumentsInv
  <2>2. GuidesFacts!OneInEffect /\ GuidesFacts!GuidedByItsOwn => Guides!OneInEffect /\ Guides!GuidedByItsOwn
    BY DEF Guides!Effective, GuidesFacts!Effective, Guides!EffectiveOnes, GuidesFacts!EffectiveOnes,
     Guides!InEffect, GuidesFacts!InEffect, Guides!Moment, GuidesFacts!Moment, Guides!Guide,
     GuidesFacts!Guide, Guides!GuideUnder, GuidesFacts!GuideUnder, Guides!OneInEffect,
     GuidesFacts!OneInEffect, Guides!GuidedByItsOwn, GuidesFacts!GuidedByItsOwn, Guides!Cardinality,
     GuidesFacts!Cardinality
  <2>3. QED
    BY <2>1, <2>2
<1>3. Flows!IdsNameOneStep
  <2>1. FlowsFacts!IdsNameOneStep
    BY DocumentsAssumed, FlowsFacts!IdsSuffice DEF DocumentsInv
  <2>2. FlowsFacts!IdsNameOneStep => Flows!IdsNameOneStep
    BY DEF Flows!IdsDiffer, FlowsFacts!IdsDiffer, Flows!Ancestors, FlowsFacts!Ancestors, Flows!IdsNameOneStep,
     FlowsFacts!IdsNameOneStep
  <2>3. QED
    BY <2>1, <2>2
<1>4. QED
  BY <1>1, <1>2, <1>3 DEF DocumentsHold

-----------------------------------------------------------------------------
(* The results: what Records_proofs says of the values and the report, of    *)
(* the parts of the desk that move them.                                    *)

ResultsFacts == INSTANCE Records_proofs WITH Person <- Analyst, MaxVersions <- 0, MaxEdits <- 0
ReportsFacts == INSTANCE Records_proofs WITH Metric <- ReportMetric, Value <- ReportValue,
                                             Person <- Reviewer, StepOf <- <<>>,
                                             MaxTasks <- MaxReported, MaxEvents <- MaxReported,
                                             MaxValues <- MaxReported

ResultsInv ==
  /\ focus # "reports" => ResultsFacts!RecordsInv
  /\ focus = "reports" => ReportsFacts!RecordsInv

(* The facts about the values and the report are about those of the desk.   *)
LEMMA ResultsAreTheirs ==
  /\ Results!RecordsInit => ResultsFacts!RecordsInit
  /\ Reports!RecordsInit => ReportsFacts!RecordsInit
  /\ Results!ResultsNext => ResultsFacts!RecordsNext
  /\ Reports!RecordsNext => ReportsFacts!RecordsNext
<1>1. Results!RecordsInit => ResultsFacts!RecordsInit
  BY DEF Results!RecordsInit, ResultsFacts!RecordsInit
<1>2. Reports!RecordsInit => ReportsFacts!RecordsInit
  BY DEF Reports!RecordsInit, ReportsFacts!RecordsInit
<1>3. Results!ResultsNext => ResultsFacts!ResultsNext
  BY DEF Results!Of, ResultsFacts!Of, Results!NextVersion, ResultsFacts!NextVersion, Results!InForce,
     ResultsFacts!InForce, Results!Current, ResultsFacts!Current, Results!Measured, ResultsFacts!Measured,
     Results!Numbers, ResultsFacts!Numbers, Results!Broken, ResultsFacts!Broken, Results!Flagged,
     ResultsFacts!Flagged, Results!Entry, ResultsFacts!Entry, Results!Superseded, ResultsFacts!Superseded,
     Results!Refreshed, ResultsFacts!Refreshed, Results!Open, ResultsFacts!Open, Results!Complete,
     ResultsFacts!Complete, Results!Settled, ResultsFacts!Settled, Results!Seen, ResultsFacts!Seen,
     Results!Judge, ResultsFacts!Judge, Results!Task, ResultsFacts!Task, Results!Look, ResultsFacts!Look,
     Results!CreateTask, ResultsFacts!CreateTask, Results!CancelTask, ResultsFacts!CancelTask,
     Results!FinishBatch, ResultsFacts!FinishBatch, Results!DerivedRows, ResultsFacts!DerivedRows,
     Results!Rows, ResultsFacts!Rows, Results!Fresh, ResultsFacts!Fresh, Results!Ingest, ResultsFacts!Ingest,
     Results!DeviceTask, ResultsFacts!DeviceTask, Results!ThisStepOnly, ResultsFacts!ThisStepOnly,
     Results!DeviceRecord, ResultsFacts!DeviceRecord, Results!Rederived, ResultsFacts!Rederived,
     Results!Revise, ResultsFacts!Revise, Results!Bodies, ResultsFacts!Bodies, Results!Readings,
     ResultsFacts!Readings, Results!ResultsNext, ResultsFacts!ResultsNext, Results!Cardinality,
     ResultsFacts!Cardinality
<1>4. Reports!RecordsNext => ReportsFacts!RecordsNext
  BY DEF Reports!Of, ReportsFacts!Of, Reports!NextVersion, ReportsFacts!NextVersion, Reports!InForce,
     ReportsFacts!InForce, Reports!Current, ReportsFacts!Current, Reports!Measured, ReportsFacts!Measured,
     Reports!Numbers, ReportsFacts!Numbers, Reports!Broken, ReportsFacts!Broken, Reports!Flagged,
     ReportsFacts!Flagged, Reports!Entry, ReportsFacts!Entry, Reports!Superseded, ReportsFacts!Superseded,
     Reports!Official, ReportsFacts!Official, Reports!Refreshed, ReportsFacts!Refreshed, Reports!Open,
     ReportsFacts!Open, Reports!Complete, ReportsFacts!Complete, Reports!Settled, ReportsFacts!Settled,
     Reports!Seen, ReportsFacts!Seen, Reports!Judge, ReportsFacts!Judge, Reports!Task, ReportsFacts!Task,
     Reports!Look, ReportsFacts!Look, Reports!CreateTask, ReportsFacts!CreateTask, Reports!CancelTask,
     ReportsFacts!CancelTask, Reports!FinishBatch, ReportsFacts!FinishBatch, Reports!DerivedRows,
     ReportsFacts!DerivedRows, Reports!Rows, ReportsFacts!Rows, Reports!Fresh, ReportsFacts!Fresh,
     Reports!Ingest, ReportsFacts!Ingest, Reports!DeviceTask, ReportsFacts!DeviceTask, Reports!ThisStepOnly,
     ReportsFacts!ThisStepOnly, Reports!DeviceRecord, ReportsFacts!DeviceRecord, Reports!Rederived,
     ReportsFacts!Rederived, Reports!Revise, ReportsFacts!Revise, Reports!Sign, ReportsFacts!Sign,
     Reports!Expire, ReportsFacts!Expire, Reports!Consume, ReportsFacts!Consume, Reports!Review,
     ReportsFacts!Review, Reports!Key, ReportsFacts!Key, Reports!Content, ReportsFacts!Content,
     Reports!Blockers, ReportsFacts!Blockers, Reports!Draft, ReportsFacts!Draft, Reports!SeenBy,
     ReportsFacts!SeenBy, Reports!Moved, ReportsFacts!Moved, Reports!CreateReport, ReportsFacts!CreateReport,
     Reports!UpdateDraft, ReportsFacts!UpdateDraft, Reports!Submit, ReportsFacts!Submit, Reports!RejectReport,
     ReportsFacts!RejectReport, Reports!ApproveReport, ReportsFacts!ApproveReport, Reports!PublishedBefore,
     ReportsFacts!PublishedBefore, Reports!Publish, ReportsFacts!Publish, Reports!ReviseReport,
     ReportsFacts!ReviseReport, Reports!Bodies, ReportsFacts!Bodies, Reports!Readings, ReportsFacts!Readings,
     Reports!ResultsNext, ReportsFacts!ResultsNext, Reports!ReviewNext, ReportsFacts!ReviewNext,
     Reports!ReportNext, ReportsFacts!ReportNext, Reports!RecordsNext, ReportsFacts!RecordsNext,
     Reports!Cardinality, ReportsFacts!Cardinality
<1>5. QED
  BY <1>1, <1>2, <1>3, <1>4 DEF ResultsFacts!RecordsNext

(* Nothing is measured yet at the beginning.                                *)
LEMMA ResultsStart == Init => ResultsInv
<1> SUFFICES ASSUME Init PROVE ResultsInv
  OBVIOUS
<1>1. (focus # "reports" => Results!RecordsInit) /\ (focus = "reports" => Reports!RecordsInit)
  BY DEF Init
<1>2. QED
  BY <1>1, ResultsAreTheirs, ResultsFacts!RecordsStart, ReportsFacts!RecordsStart DEF ResultsInv

(* Every step of the desk keeps what is known of the results.               *)
LEMMA ResultsGoOn == ResultsInv /\ [Next]_vars => ResultsInv'
<1> SUFFICES ASSUME ResultsInv, [Next]_vars PROVE ResultsInv'
  OBVIOUS
<1>1. /\ focus' = focus
      /\ \/ focus = "results" /\ Results!ResultsNext
         \/ focus = "reports" /\ Reports!RecordsNext
         \/ UNCHANGED resultsVars
  BY DEF Next, vars
<1>2. UNCHANGED resultsVars => UNCHANGED ResultsFacts!rvars /\ UNCHANGED ReportsFacts!rvars
  BY DEF resultsVars, ResultsFacts!rvars, ReportsFacts!rvars
<1>3. ASSUME focus # "reports" PROVE (ResultsFacts!RecordsInv)'
  <2>1. ResultsFacts!RecordsInv
    BY <1>3 DEF ResultsInv
  <2>2. CASE Results!ResultsNext
    BY <2>1, <2>2, ResultsAreTheirs, ResultsFacts!RecordsStep
  <2>3. CASE UNCHANGED resultsVars
    BY <2>1, <2>3, <1>2, ResultsFacts!RecordsStay
  <2>4. QED
    BY <1>1, <1>3, <2>2, <2>3
<1>4. ASSUME focus = "reports" PROVE (ReportsFacts!RecordsInv)'
  <2>1. ReportsFacts!RecordsInv
    BY <1>4 DEF ResultsInv
  <2>2. CASE Reports!RecordsNext
    BY <2>1, <2>2, ResultsAreTheirs, ReportsFacts!RecordsStep
  <2>3. CASE UNCHANGED resultsVars
    BY <2>1, <2>3, <1>2, ReportsFacts!RecordsStay
  <2>4. QED
    BY <1>1, <1>4, <2>2, <2>3
<1>5. QED
  BY <1>1, <1>3, <1>4 DEF ResultsInv

(* What is known of the results is enough.                                  *)
LEMMA ResultsStand == ResultsInv => SettledOnlyWhole /\ ReportsStand
<1> SUFFICES ASSUME ResultsInv PROVE SettledOnlyWhole /\ ReportsStand
  OBVIOUS
<1>1. ASSUME focus # "reports"
      PROVE  Results!SettledOnlyWhole /\ Reports!SettledOnlyWhole /\ Reports!ReportsStand
  <2>1. ResultsFacts!SettledOnlyWhole /\ ResultsFacts!ReportsStand
    BY <1>1, ResultsFacts!FillsSuffice DEF ResultsInv, ResultsFacts!RecordsInv, ResultsFacts!ReportInv
  <2>2. ResultsFacts!SettledOnlyWhole => Results!SettledOnlyWhole
    BY DEF Results!Of, ResultsFacts!Of, Results!InForce, ResultsFacts!InForce, Results!SettledOnlyWhole,
     ResultsFacts!SettledOnlyWhole
  <2>3. ResultsFacts!SettledOnlyWhole => Reports!SettledOnlyWhole
    BY DEF Reports!Of, ResultsFacts!Of, Reports!InForce, ResultsFacts!InForce, Reports!SettledOnlyWhole,
     ResultsFacts!SettledOnlyWhole
  <2>4. ResultsFacts!ReportsStand => Reports!ReportsStand
    BY DEF Reports!ReportsStand, ResultsFacts!ReportsStand, Reports!SignedAsSeen, ResultsFacts!SignedAsSeen,
     Reports!OnePublished, ResultsFacts!OnePublished
  <2>5. QED
    BY <2>1, <2>2, <2>3, <2>4
<1>2. ASSUME focus = "reports" PROVE Reports!SettledOnlyWhole /\ Reports!ReportsStand
  <2>1. ReportsFacts!SettledOnlyWhole /\ ReportsFacts!ReportsStand
    BY <1>2, ReportsFacts!FillsSuffice DEF ResultsInv, ReportsFacts!RecordsInv, ReportsFacts!ReportInv
  <2>2. ReportsFacts!SettledOnlyWhole => Reports!SettledOnlyWhole
    BY DEF Reports!Of, ReportsFacts!Of, Reports!InForce, ReportsFacts!InForce, Reports!SettledOnlyWhole,
     ReportsFacts!SettledOnlyWhole
  <2>3. ReportsFacts!ReportsStand => Reports!ReportsStand
    BY DEF Reports!ReportsStand, ReportsFacts!ReportsStand, Reports!SignedAsSeen, ReportsFacts!SignedAsSeen,
     Reports!OnePublished, ReportsFacts!OnePublished
  <2>4. QED
    BY <2>1, <2>2, <2>3
<1>3. QED
  BY <1>1, <1>2 DEF SettledOnlyWhole, ReportsStand

-----------------------------------------------------------------------------
(* The register of the equipment: what is known of it.                      *)

FlowRows == [state : {"approved", "released", "retired"}, needs : BOOLEAN]
RegisterTyped ==
  /\ assets \in [Asset -> AssetRows \cup {None}]
  /\ stations \in [Station -> StationRows \cup {None}]
  /\ abilities \in [Cap -> AbilityRows \cup {None}]
  /\ flows \in [Procedure -> FlowRows]
  /\ reg_windows \in [1..MaxWindows -> WindowRows \cup {None}]

\* A window finds its station as it was opened on it.
WindowStands(w, post) ==
  post # None /\ ~post.retired /\ post.asset = w.asset /\ post.unit = w.unit /\ w.cap \in DOMAIN post.limits
WindowsStand(ws, ss) == \A n \in 1..MaxWindows : ws[n] # None => WindowStands(ws[n], ss[ws[n].station])

\* The channels of a station are those of its asset.
ChannelsStand(post, as) == post # None /\ post.asset # None => as[post.asset] # None /\ post.channels <= as[post.asset].capacity
ChannelsAll(ss, as) == \A s \in Station : ChannelsStand(ss[s], as)

\* The steps the register answers for; which rows carry them out, and what they name.
PlainStepOf(r) == RecipeStep[r].how = "device" /\ RecipeStep[r].model = None
Carries(post, step) ==
  post # None /\ ~post.retired /\ step.cap \in DOMAIN post.limits /\ step.value \in post.limits[step.cap]
Carried(step, ss) == \E s \in Station : Carries(ss[s], step)
Meant(ab, step) == ab # None /\ ab.kind = step.kind /\ step.value \in ab.options
Told(flow, step, ss, abs) ==
  flow.state = "released" /\ ~flow.needs => Meant(abs[step.cap], step) /\ Carried(step, ss)
FlowsTold(fl, ss, abs) == \A r \in Procedure : PlainStepOf(r) => Told(fl[r], RecipeStep[r], ss, abs)

\* The capability of a device step stays.
AbilitiesStay(abs) == \A r \in Procedure : RecipeStep[r].how = "device" => abs[RecipeStep[r].cap] # None

RegisterInv ==
  /\ RegisterTyped /\ AbilitiesStay(abilities) /\ WindowsStand(reg_windows, stations)
  /\ ChannelsAll(stations, assets) /\ FlowsTold(flows, stations, abilities)

(* A step that is found valid is meant by its capability and carried out by *)
(* a station; and it is, while the capability is in use.                    *)
LEMMA ValidIsCarried ==
  ASSUME NEW r \in Procedure, PlainStepOf(r), NEW ss, NEW as, NEW abs, NEW step,
         step \in {Register!Raw(RecipeStep[r]), Register!Resolved(RecipeStep[r])},
         Register!ValidateStep(step, ss, as, abs)
  PROVE  Meant(abs[RecipeStep[r].cap], RecipeStep[r]) /\ Carried(RecipeStep[r], ss)
<1>1. RecipeStep[r] \in RecipeSteps
  BY EquipmentIsRegistered
<1>2. /\ step.how = "device" /\ step.cap = RecipeStep[r].cap /\ step.kind = RecipeStep[r].kind
      /\ step.value = RecipeStep[r].value
  BY <1>1 DEF RecipeSteps, PlainStepOf, Register!Raw, Register!Resolved
<1>3. ~Register!DeviceIssues(abs[step.cap], step) /\ \E s \in Station : ss[s] # None /\ Register!StationFits(ss[s], as, step)
  BY <1>2 DEF Register!ValidateStep
<1>4. Meant(abs[step.cap], step)
  BY <1>3 DEF Register!DeviceIssues, Meant
<1>5. Carried(step, ss)
  BY <1>2, <1>3 DEF Register!StationFits, Carried, Carries
<1>6. QED
  BY <1>2, <1>4, <1>5 DEF Meant, Carried, Carries

(* The other way round.                                                     *)
LEMMA CarriedIsValid ==
  ASSUME NEW r \in Procedure, PlainStepOf(r), Meant(abilities[RecipeStep[r].cap], RecipeStep[r]),
         Carried(RecipeStep[r], stations), ~abilities[RecipeStep[r].cap].retired
  PROVE  Register!IsValid(r, stations, assets, abilities)
<1>1. RecipeStep[r] \in RecipeSteps
  BY EquipmentIsRegistered
<1> DEFINE step == Register!Resolved(RecipeStep[r])
<1>2. /\ step.how = "device" /\ step.cap = RecipeStep[r].cap /\ step.kind = RecipeStep[r].kind
      /\ step.value = RecipeStep[r].value /\ step.model = None /\ step.given = TRUE
  BY <1>1 DEF RecipeSteps, PlainStepOf, Register!Resolved
<1> HIDE DEF step
<1>3. ~Register!DeviceIssues(abilities[step.cap], step)
  BY <1>2 DEF Register!DeviceIssues, Meant
<1>4. PICK s \in Station : Carries(stations[s], RecipeStep[r])
  BY DEF Carried
<1>5. stations[s] # None /\ Register!StationFits(stations[s], assets, step)
  BY <1>2, <1>4 DEF Carries, Register!StationFits
<1>6. Register!ValidateStep(step, stations, assets, abilities)
  BY <1>3, <1>5 DEF Register!ValidateStep
<1>7. QED
  BY <1>6 DEF Register!IsValid, step

(* Looking at the recipes again types them, and tells those it looks at.    *)
LEMMA Looked ==
  ASSUME flows \in [Procedure -> FlowRows], NEW caps, NEW ss, NEW as, NEW abs,
         \A r \in Procedure : PlainStepOf(r) /\ caps # {} /\ RecipeStep[r].cap \notin caps => Told(flows[r], RecipeStep[r], ss, abs)
  PROVE  /\ Register!RevalidateRecipes(caps, ss, as, abs) \in [Procedure -> FlowRows]
         /\ FlowsTold(Register!RevalidateRecipes(caps, ss, as, abs), ss, abs)
<1> DEFINE fl == Register!RevalidateRecipes(caps, ss, as, abs)
<1> DEFINE checkedFor(r) == flows[r].state = "released" /\ Register!Concerned(r, caps)
<1> DEFINE valid(r) == Register!ValidateStep(Register!Raw(RecipeStep[r]), ss, as, abs)
<1> DEFINE post(r) == IF checkedFor(r) THEN [flows[r] EXCEPT !.needs = ~valid(r)] ELSE flows[r]
<1>1. fl = [r \in Procedure |-> post(r)]
  BY Zenon DEF Register!RevalidateRecipes
<1>2. ASSUME NEW r \in Procedure PROVE valid(r) \in BOOLEAN
  BY DEF Register!ValidateStep
<1>3. ASSUME NEW r \in Procedure
      PROVE  /\ post(r) \in FlowRows
             /\ checkedFor(r) => post(r).state = "released" /\ post(r).needs = ~valid(r)
  <2> DEFINE new == [flows[r] EXCEPT !.needs = ~valid(r)]
  <2>0. flows[r] \in FlowRows
    OBVIOUS
  <2> DEFINE v == valid(r)
  <2>1. v \in BOOLEAN
    BY <1>2
  <2>2. new = [flows[r] EXCEPT !.needs = ~v]
    OBVIOUS
  <2> HIDE DEF v, valid, checkedFor, fl, new
  <2>3. new \in FlowRows /\ new.state = flows[r].state /\ new.needs = ~v
    BY <2>0, <2>1, <2>2 DEF FlowRows
  <2>4. checkedFor(r) => flows[r].state = "released"
    BY DEF checkedFor
  <2>5. post(r) = IF checkedFor(r) THEN new ELSE flows[r]
    BY Zenon DEF new
  <2> HIDE DEF post
  <2>6. QED
    BY <2>0, <2>3, <2>4, <2>5 DEF v
<1> HIDE DEF post
<1>4. fl \in [Procedure -> FlowRows]
  BY <1>1, <1>3
<1>5. ASSUME NEW r \in Procedure, PlainStepOf(r) PROVE Told(fl[r], RecipeStep[r], ss, abs)
  <2>1. fl[r] = post(r)
    BY <1>1
  <2>2. CASE checkedFor(r)
    <3>1. valid(r) => Meant(abs[RecipeStep[r].cap], RecipeStep[r]) /\ Carried(RecipeStep[r], ss)
      BY <1>5, ValidIsCarried
    <3>2. post(r).needs = ~valid(r)
      BY <1>3, <2>2
    <3> HIDE DEF valid, fl, checkedFor
    <3>3. QED
      BY <2>1, <3>1, <3>2 DEF Told
  <2>3. CASE ~checkedFor(r)
    <3>1. post(r) = flows[r]
      BY <2>3 DEF post
    <3>2. flows[r].state # "released" \/ (caps # {} /\ RecipeStep[r].cap \notin caps)
      BY <1>5, <2>3 DEF Register!Concerned, PlainStepOf
    <3> HIDE DEF fl
    <3>3. QED
      BY <1>5, <2>1, <3>1, <3>2 DEF Told
  <2>4. QED
    BY <2>2, <2>3
<1>6. QED
  BY <1>4, <1>5 DEF FlowsTold

(* What is known afterwards, put together.                                  *)
LEMMA RegisterAfter ==
  ASSUME assets' \in [Asset -> AssetRows \cup {None}], stations' \in [Station -> StationRows \cup {None}],
         abilities' \in [Cap -> AbilityRows \cup {None}], flows' \in [Procedure -> FlowRows],
         reg_windows' \in [1..MaxWindows -> WindowRows \cup {None}],
         AbilitiesStay(abilities'), WindowsStand(reg_windows', stations'), ChannelsAll(stations', assets'),
         FlowsTold(flows', stations', abilities')
  PROVE  RegisterInv'
BY DEF RegisterInv, RegisterTyped, AbilitiesStay, WindowsStand, WindowStands, ChannelsAll, ChannelsStand,
   FlowsTold, Told, Meant, Carried, Carries

(* The recipes stay told while no station that carries a step out is lost.  *)
LEMMA UseGoesOn ==
  ASSUME RegisterInv, NEW ss, NEW as, NEW caps, NEW fl,
         \A r \in Procedure : PlainStepOf(r) =>
           \A t \in Station : Carries(stations[t], RecipeStep[r]) => Carries(ss[t], RecipeStep[r]),
         fl \in {flows, Register!RevalidateRecipes(caps, ss, as, abilities)}
  PROVE  fl \in [Procedure -> FlowRows] /\ FlowsTold(fl, ss, abilities)
<1>1. flows \in [Procedure -> FlowRows] /\ FlowsTold(flows, stations, abilities)
  BY DEF RegisterInv, RegisterTyped
<1>2. ASSUME NEW r \in Procedure, PlainStepOf(r) PROVE Told(flows[r], RecipeStep[r], ss, abilities)
  BY <1>1, <1>2 DEF FlowsTold, Told, Carried
<1>3. CASE fl = flows
  BY <1>1, <1>2, <1>3 DEF FlowsTold
<1>4. CASE fl = Register!RevalidateRecipes(caps, ss, as, abilities)
  BY <1>1, <1>2, <1>4, Looked
<1>5. QED
  BY <1>3, <1>4

(* One station has a new row, the others the one they had.                  *)
LEMMA OneRow ==
  ASSUME stations \in [Station -> StationRows \cup {None}], NEW s \in Station, NEW new \in StationRows \cup {None},
         stations' = [stations EXCEPT ![s] = new]
  PROVE  /\ stations' \in [Station -> StationRows \cup {None}] /\ stations'[s] = new
         /\ \A t \in Station : t # s => stations'[t] = stations[t]
OBVIOUS

(* A new row that keeps the windows of its station and the channels of its  *)
(* asset breaks no other.                                                   *)
LEMMA StationReplaced ==
  ASSUME RegisterInv, NEW s \in Station, NEW ss \in [Station -> StationRows \cup {None}], NEW as,
         \A t \in Station : t # s => ss[t] = stations[t],
         \A a \in Asset : assets[a] # None => as[a] # None /\ as[a].capacity = assets[a].capacity,
         ChannelsStand(ss[s], as),
         \A n \in 1..MaxWindows :
           reg_windows[n] # None /\ reg_windows[n].station = s => WindowStands(reg_windows[n], ss[s])
  PROVE  WindowsStand(reg_windows, ss) /\ ChannelsAll(ss, as)
<1>1. /\ stations \in [Station -> StationRows \cup {None}] /\ WindowsStand(reg_windows, stations)
      /\ ChannelsAll(stations, assets) /\ reg_windows \in [1..MaxWindows -> WindowRows \cup {None}]
  BY DEF RegisterInv, RegisterTyped
<1>2. ASSUME NEW n \in 1..MaxWindows, reg_windows[n] # None
      PROVE  WindowStands(reg_windows[n], ss[reg_windows[n].station])
  <2>1. reg_windows[n].station \in Station
    BY <1>1, <1>2 DEF WindowRows
  <2>2. CASE reg_windows[n].station = s
    BY <1>2, <2>2
  <2>3. CASE reg_windows[n].station # s
    BY <1>1, <1>2, <2>1, <2>3 DEF WindowsStand
  <2>4. QED
    BY <2>2, <2>3
<1>3. ASSUME NEW t \in Station PROVE ChannelsStand(ss[t], as)
  <2>1. CASE t = s
    BY <2>1
  <2>2. CASE t # s
    <3>1. ss[t] = stations[t] /\ ChannelsStand(stations[t], assets)
      BY <1>1, <2>2 DEF ChannelsAll
    <3>2. stations[t] # None /\ stations[t].asset # None => stations[t].asset \in Asset
      BY <1>1 DEF StationRows
    <3>3. QED
      BY <3>1, <3>2 DEF ChannelsStand
  <2>3. QED
    BY <2>1, <2>2
<1>4. QED
  BY <1>2, <1>3 DEF WindowsStand, ChannelsAll

(* A station that comes to an asset keeps what it can do, and the asset its *)
(* channels.                                                                *)
LEMMA AdoptedRow ==
  ASSUME assets \in [Asset -> AssetRows \cup {None}], NEW a \in Asset, assets[a] # None, NEW own \in StationRows
  PROVE  /\ Register!Adopted(own, a).row \in StationRows
         /\ Register!Adopted(own, a).row.asset = a
         /\ Register!Adopted(own, a).row.channels = own.channels
         /\ Register!Adopted(own, a).row.unit = own.unit
         /\ Register!Adopted(own, a).row.retired = own.retired
         /\ Register!Adopted(own, a).row.limits = own.limits
         /\ Register!Adopted(own, a).assets \in [Asset -> AssetRows \cup {None}]
         /\ \A b \in Asset : assets[b] # None =>
              /\ Register!Adopted(own, a).assets[b] # None
              /\ Register!Adopted(own, a).assets[b].capacity = assets[b].capacity
<1> DEFINE models == Register!AdoptAssetModel(own.model, assets[a].model)
<1>1. assets[a] \in AssetRows /\ None \notin AssetRows
  BY EquipmentIsRegistered
<1>2. own.model \in Model \cup {None} /\ assets[a].model \in Model \cup {None}
  BY <1>1 DEF StationRows, AssetRows
<1>3. models.station \in Model \cup {None} /\ models.asset \in Model \cup {None}
  <2>1. CASE own.model = None \/ own.model = assets[a].model
    BY <1>2, <2>1 DEF Register!AdoptAssetModel
  <2>2. CASE ~(own.model = None \/ own.model = assets[a].model) /\ assets[a].model = None
    BY <1>2, <2>2 DEF Register!AdoptAssetModel
  <2>3. CASE ~(own.model = None \/ own.model = assets[a].model) /\ assets[a].model # None
    BY <1>2, <2>3 DEF Register!AdoptAssetModel
  <2>4. QED
    BY <2>1, <2>2, <2>3
<1> DEFINE post == [own EXCEPT !.asset = a, !.model = models.station]
<1> DEFINE as == [assets EXCEPT ![a].model = models.asset]
<1>4. Register!Adopted(own, a) = [row |-> post, assets |-> as]
  BY Zenon DEF Register!Adopted
<1> HIDE DEF models
<1>5. /\ post \in StationRows /\ post.asset = a /\ post.channels = own.channels /\ post.unit = own.unit
      /\ post.retired = own.retired /\ post.limits = own.limits
  BY <1>3 DEF StationRows
<1>6. /\ as \in [Asset -> AssetRows \cup {None}]
      /\ \A b \in Asset : assets[b] # None => as[b] # None /\ as[b].capacity = assets[b].capacity
  <2> DEFINE said == [assets[a] EXCEPT !.model = models.asset]
  <2>1. said \in AssetRows /\ said.capacity = assets[a].capacity
    BY <1>1, <1>3 DEF AssetRows
  <2>2. as = [assets EXCEPT ![a] = said]
    BY Zenon
  <2> HIDE DEF said, as
  <2>3. QED
    BY <1>1, <2>1, <2>2
<1> HIDE DEF post, as
<1>7. Register!Adopted(own, a).row = post /\ Register!Adopted(own, a).assets = as
  BY <1>4
<1>8. QED
  BY Zenon, <1>5, <1>6, <1>7

(* What the invariant says, piece by piece.                                 *)
LEMMA RegisterSays ==
  ASSUME RegisterInv
  PROVE  /\ assets \in [Asset -> AssetRows \cup {None}] /\ stations \in [Station -> StationRows \cup {None}]
         /\ abilities \in [Cap -> AbilityRows \cup {None}] /\ flows \in [Procedure -> FlowRows]
         /\ reg_windows \in [1..MaxWindows -> WindowRows \cup {None}]
         /\ AbilitiesStay(abilities) /\ WindowsStand(reg_windows, stations)
         /\ ChannelsAll(stations, assets) /\ FlowsTold(flows, stations, abilities)
         /\ \A s \in Station : stations[s] # None => stations[s] \in StationRows
         /\ \A a \in Asset : assets[a] # None => assets[a] \in AssetRows
         /\ \A s \in Station : stations[s] # None /\ stations[s].asset # None =>
              /\ stations[s].asset \in Asset /\ assets[stations[s].asset] \in AssetRows
              /\ stations[s].channels <= assets[stations[s].asset].capacity
         /\ \A n \in 1..MaxWindows : reg_windows[n] # None =>
              /\ reg_windows[n] \in WindowRows
              /\ WindowStands(reg_windows[n], stations[reg_windows[n].station])
<1>1. /\ assets \in [Asset -> AssetRows \cup {None}] /\ stations \in [Station -> StationRows \cup {None}]
      /\ abilities \in [Cap -> AbilityRows \cup {None}] /\ flows \in [Procedure -> FlowRows]
      /\ reg_windows \in [1..MaxWindows -> WindowRows \cup {None}]
      /\ AbilitiesStay(abilities) /\ WindowsStand(reg_windows, stations)
      /\ ChannelsAll(stations, assets) /\ FlowsTold(flows, stations, abilities)
  BY DEF RegisterInv, RegisterTyped
<1>2. /\ \A s \in Station : stations[s] # None => stations[s] \in StationRows
      /\ \A a \in Asset : assets[a] # None => assets[a] \in AssetRows
      /\ \A n \in 1..MaxWindows : reg_windows[n] # None =>
           /\ reg_windows[n] \in WindowRows
           /\ WindowStands(reg_windows[n], stations[reg_windows[n].station])
  BY <1>1 DEF WindowsStand
<1>3. ASSUME NEW s \in Station, stations[s] # None, stations[s].asset # None
      PROVE  /\ stations[s].asset \in Asset /\ assets[stations[s].asset] \in AssetRows
             /\ stations[s].channels <= assets[stations[s].asset].capacity
  <2>1. stations[s].asset \in Asset
    BY <1>2, <1>3 DEF StationRows
  <2>2. QED
    BY <1>1, <1>2, <1>3, <2>1 DEF ChannelsAll, ChannelsStand
<1>4. QED
  BY <1>1, <1>2, <1>3

(* _allocate: a window is opened on a station in use, which has the         *)
(* capability.                                                              *)
LEMMA WindowOpened ==
  ASSUME RegisterInv, NEW s \in Station, NEW c \in Cap, Register!Allocate(s, c) PROVE RegisterInv'
<1>1. PICK n \in DOMAIN reg_windows :
        /\ s \in Register!Registered /\ ~stations[s].retired /\ c \in DOMAIN stations[s].limits
        /\ reg_windows' = [reg_windows EXCEPT ![n] = [station |-> s, cap |-> c, asset |-> stations[s].asset, unit |-> stations[s].unit]]
        /\ UNCHANGED <<assets, stations, abilities, flows>>
  BY DEF Register!Allocate
<1> DEFINE new == [station |-> s, cap |-> c, asset |-> stations[s].asset, unit |-> stations[s].unit]
<1>2. stations[s] # None /\ stations[s] \in StationRows
  BY <1>1, RegisterSays DEF Register!Registered
<1>3. new \in WindowRows /\ WindowStands(new, stations[s]) /\ new.station = s
  BY <1>1, <1>2 DEF WindowRows, StationRows, WindowStands
<1>4. reg_windows' = [reg_windows EXCEPT ![n] = new]
  BY <1>1
<1> HIDE DEF new
<1>5. reg_windows' \in [1..MaxWindows -> WindowRows \cup {None}]
  BY <1>3, <1>4, RegisterSays
<1>6. WindowsStand(reg_windows', stations)
  <2> SUFFICES ASSUME NEW m \in 1..MaxWindows, reg_windows'[m] # None
               PROVE  WindowStands(reg_windows'[m], stations[reg_windows'[m].station])
    BY DEF WindowsStand
  <2>1. reg_windows'[m] = IF m = n THEN new ELSE reg_windows[m]
    BY <1>4, RegisterSays
  <2>2. QED
    BY <1>3, <2>1, RegisterSays
<1>7. QED
  BY <1>1, <1>5, <1>6, RegisterSays, RegisterAfter

(* _release: the window is closed.                                          *)
LEMMA WindowClosed ==
  ASSUME RegisterInv, NEW n \in DOMAIN reg_windows, Register!Release(n) PROVE RegisterInv'
<1>1. reg_windows' = [reg_windows EXCEPT ![n] = None] /\ UNCHANGED <<assets, stations, abilities, flows>>
  BY DEF Register!Release
<1>2. reg_windows' \in [1..MaxWindows -> WindowRows \cup {None}]
  BY <1>1, RegisterSays
<1>3. ASSUME NEW m \in 1..MaxWindows, reg_windows'[m] # None
      PROVE  reg_windows'[m] = reg_windows[m]
  BY <1>1, <1>3, RegisterSays
<1>4. WindowsStand(reg_windows', stations)
  BY <1>3, RegisterSays DEF WindowsStand
<1>5. QED
  BY <1>1, <1>2, <1>4, RegisterSays, RegisterAfter

(* release: a recipe is released that is valid.                             *)
LEMMA RecipeReleased ==
  ASSUME RegisterInv, NEW r \in Procedure, Register!ReleaseRecipe(r) PROVE RegisterInv'
<1>1. /\ Register!IsValid(r, stations, assets, abilities)
      /\ flows' = [flows EXCEPT ![r] = [state |-> "released", needs |-> FALSE]]
      /\ UNCHANGED <<assets, stations, abilities, reg_windows>>
  BY DEF Register!ReleaseRecipe
<1>2. flows' \in [Procedure -> FlowRows]
  BY <1>1, RegisterSays DEF FlowRows
<1>3. ASSUME NEW q \in Procedure, PlainStepOf(q) PROVE Told(flows'[q], RecipeStep[q], stations, abilities)
  <2>1. CASE q = r
    <3>1. Meant(abilities[RecipeStep[q].cap], RecipeStep[q]) /\ Carried(RecipeStep[q], stations)
      BY <1>1, <1>3, <2>1, ValidIsCarried DEF Register!IsValid
    <3>2. QED
      BY <3>1 DEF Told
  <2>2. CASE q # r
    <3>1. flows'[q] = flows[q]
      BY <1>1, <2>2, RegisterSays
    <3>2. QED
      BY <1>3, <3>1, RegisterSays DEF FlowsTold
  <2>3. QED
    BY <2>1, <2>2
<1>4. FlowsTold(flows', stations, abilities)
  BY <1>3 DEF FlowsTold
<1>5. QED
  BY <1>1, <1>2, <1>4, RegisterSays, RegisterAfter

(* The limits that are sent are limits.                                     *)
LEMMA SentLimits == Register!AnyLimits \subseteq LimitSets
<1>1. <<>> \in [{} -> SUBSET Setting]
  OBVIOUS
<1>2. <<>> \in LimitSets
  BY <1>1 DEF LimitSets
<1>3. ASSUME NEW c \in Cap, NEW limits \in Register!Limit(c) PROVE limits \in LimitSets
  <2>1. limits \in [{c} -> SUBSET Setting] /\ {c} \in SUBSET Cap
    BY DEF Register!Limit
  <2>2. QED
    BY <2>1 DEF LimitSets
<1>4. QED
  BY <1>2, <1>3 DEF Register!AnyLimits

(* create_station                                                           *)
LEMMA StationCreated ==
  ASSUME RegisterInv, NEW s \in Station, NEW sent \in Register!NewStations, Register!CreateStation(s, sent)
  PROVE  RegisterInv'
<1>1. sent \in StationRows
  <2>1. /\ sent \in [asset : Asset \cup {None}, channels : 1..2, unit : {"batch"}, model : Model \cup {None},
                    limits : Register!AnyLimits, retired : {FALSE}, status : {"idle"}]
        /\ Register!AnyLimits \subseteq LimitSets
    BY SentLimits DEF Register!NewStations
  <2>2. /\ sent.asset \in Asset \cup {None} /\ sent.channels \in Nat /\ sent.unit \in {"batch", "sample"}
        /\ sent.model \in Model \cup {None} /\ sent.limits \in LimitSets /\ sent.status \in {"idle", "running", "offline"}
    BY <2>1
  <2>3. sent.retired \in {FALSE}
    BY <2>1
  <2>4. sent.retired \in BOOLEAN
    BY Zenon, <2>3
  <2>5. sent = [asset |-> sent.asset, channels |-> sent.channels, unit |-> sent.unit, model |-> sent.model,
                limits |-> sent.limits, retired |-> sent.retired, status |-> sent.status]
    BY Zenon, <2>1
  <2>6. QED
    BY <2>2, <2>4, <2>5 DEF StationRows
<1>2. /\ stations[s] = None
      /\ sent.asset # None => Register!ChannelsFit(sent.channels, sent.asset)
      /\ UNCHANGED <<abilities, reg_windows>>
  BY DEF Register!CreateStation
<1>3. PICK new \in {IF sent.asset = None THEN [row |-> sent, assets |-> assets] ELSE Register!Adopted(sent, sent.asset)} :
        /\ stations' = [stations EXCEPT ![s] = new.row] /\ assets' = new.assets
        /\ flows' = Register!RevalidateRecipes(DOMAIN sent.limits, stations', assets', abilities)
  BY Zenon DEF Register!CreateStation
<1>4. /\ new.row \in StationRows /\ new.row.asset = sent.asset /\ new.row.channels = sent.channels
      /\ new.assets \in [Asset -> AssetRows \cup {None}]
      /\ \A a \in Asset : assets[a] # None => new.assets[a] # None /\ new.assets[a].capacity = assets[a].capacity
  <2>1. CASE sent.asset = None
    BY <1>1, <1>3, <2>1, RegisterSays
  <2>2. CASE sent.asset # None
    <3>1. sent.asset \in Asset /\ assets[sent.asset] # None
      BY <1>1, <1>2, <2>2 DEF StationRows, Register!ChannelsFit
    <3>2. new = Register!Adopted(sent, sent.asset)
      BY <1>3, <2>2
    <3>3. QED
      BY <1>1, <3>1, <3>2, AdoptedRow, RegisterSays
  <2>3. QED
    BY <2>1, <2>2
<1>5. ChannelsStand(new.row, new.assets)
  BY <1>1, <1>2, <1>4 DEF ChannelsStand, Register!ChannelsFit, StationRows
<1>6. ASSUME NEW n \in 1..MaxWindows, reg_windows[n] # None PROVE reg_windows[n].station # s
  BY <1>2, <1>6, RegisterSays DEF WindowStands
<1>7. /\ stations' \in [Station -> StationRows \cup {None}] /\ stations'[s] = new.row
      /\ \A t \in Station : t # s => stations'[t] = stations[t]
  <2> DEFINE to == new.row
  <2>1. to \in StationRows \cup {None} /\ stations' = [stations EXCEPT ![s] = to]
    BY <1>3, <1>4
  <2> HIDE DEF to
  <2>2. QED
    BY <2>1, RegisterSays, OneRow DEF to
<1>11. WindowsStand(reg_windows, stations') /\ ChannelsAll(stations', assets')
  <2>1. \A n \in 1..MaxWindows :
          reg_windows[n] # None /\ reg_windows[n].station = s => WindowStands(reg_windows[n], stations'[s])
    BY <1>6
  <2>2. ChannelsStand(stations'[s], assets')
    BY <1>3, <1>5, <1>7
  <2>3. \A a \in Asset : assets[a] # None => assets'[a] # None /\ assets'[a].capacity = assets[a].capacity
    BY <1>3, <1>4
  <2>4. QED
    BY <1>7, <2>1, <2>2, <2>3, StationReplaced
<1>8. ASSUME NEW r \in Procedure, NEW t \in Station, Carries(stations[t], RecipeStep[r])
      PROVE  Carries(stations'[t], RecipeStep[r])
  <2>1. t # s
    BY <1>2, <1>8 DEF Carries
  <2>2. QED
    BY <1>7, <1>8, <2>1
<1>9. flows' \in [Procedure -> FlowRows] /\ FlowsTold(flows', stations', abilities)
  BY <1>3, <1>8, UseGoesOn
<1>10. QED
  BY <1>2, <1>3, <1>4, <1>7, <1>9, <1>11, RegisterSays, RegisterAfter

(* The same, with what is left to show of the recipes.                      *)
LEMMA StationPut ==
  ASSUME RegisterInv, NEW s \in Station, stations' \in [Station -> StationRows \cup {None}],
         \A t \in Station : t # s => stations'[t] = stations[t],
         assets' \in [Asset -> AssetRows \cup {None}], ChannelsStand(stations'[s], assets'),
         \A a \in Asset : assets[a] # None => assets'[a] # None /\ assets'[a].capacity = assets[a].capacity,
         \A n \in 1..MaxWindows :
           reg_windows[n] # None /\ reg_windows[n].station = s => WindowStands(reg_windows[n], stations'[s]),
         UNCHANGED <<abilities, reg_windows>>, flows' \in [Procedure -> FlowRows], FlowsTold(flows', stations', abilities)
  PROVE  RegisterInv'
<1>1. WindowsStand(reg_windows, stations') /\ ChannelsAll(stations', assets')
  BY StationReplaced
<1>2. QED
  BY <1>1, RegisterSays, RegisterAfter

(* What is sent for a station, and the row it gives.                        *)
LEMMA StationIsSent ==
  ASSUME NEW change \in Register!StationChanges, NEW own \in StationRows
  PROVE  /\ Register!StationSent(change, own) \in StationRows
         /\ Register!StationSent(change, own).limits = own.limits
         /\ Register!StationSent(change, own).retired = own.retired
         /\ "asset" \notin DOMAIN change => Register!StationSent(change, own).asset = own.asset
         /\ "channels" \notin DOMAIN change => Register!StationSent(change, own).channels = own.channels
<1> DEFINE a == Register!Sent(change, own, "asset")
<1> DEFINE c == Register!Sent(change, own, "channels")
<1> DEFINE u == Register!Sent(change, own, "unit")
<1> DEFINE m == Register!Sent(change, own, "model")
<1>1. /\ own.asset \in Asset \cup {None} /\ own.channels \in Nat /\ own.unit \in {"batch", "sample"}
      /\ own.model \in Model \cup {None}
  BY DEF StationRows
<1>2. /\ "asset" \in DOMAIN change => change["asset"] \in Asset \cup {None}
      /\ "channels" \in DOMAIN change => change["channels"] \in Nat
      /\ "unit" \in DOMAIN change => change["unit"] \in {"batch", "sample"}
      /\ "model" \in DOMAIN change => change["model"] \in Model \cup {None}
  BY DEF Register!StationChanges
<1>3. /\ a \in Asset \cup {None} /\ c \in Nat /\ u \in {"batch", "sample"} /\ m \in Model \cup {None}
      /\ "asset" \notin DOMAIN change => a = own.asset
      /\ "channels" \notin DOMAIN change => c = own.channels
  BY <1>1, <1>2 DEF Register!Sent
<1>4. Register!StationSent(change, own) = [own EXCEPT !.asset = a, !.channels = c, !.unit = u, !.model = m]
  BY Zenon DEF Register!StationSent
<1> HIDE DEF a, c, u, m
<1>5. QED
  BY <1>3, <1>4 DEF StationRows

\* Of a station and the assets: the row is another but for its model, and so are those.
RowsKept(pair, to) ==
  /\ pair.row \in StationRows
  /\ pair.row.asset = to.asset /\ pair.row.channels = to.channels /\ pair.row.unit = to.unit
  /\ pair.row.retired = to.retired /\ pair.row.limits = to.limits
  /\ pair.assets \in [Asset -> AssetRows \cup {None}]
  /\ \A a \in Asset : assets[a] # None => pair.assets[a] # None /\ pair.assets[a].capacity = assets[a].capacity
(* The rows after a change: the station is the one sent, but for its model. *)
LEMMA StationChanges ==
  ASSUME RegisterInv, NEW s \in Station, stations[s] # None, NEW change, NEW to \in StationRows,
         to.asset # None => assets[to.asset] # None
  PROVE  RowsKept(Register!Changed(stations[s], change, to), to)
<1> DEFINE new == Register!Changed(stations[s], change, to)
<1>0. assets \in [Asset -> AssetRows \cup {None}]
  BY RegisterSays
<1>1. ASSUME NEW m \in Model \cup {None} PROVE RowsKept([row |-> [to EXCEPT !.model = m], assets |-> assets], to)
  BY <1>0, <1>1 DEF StationRows, RowsKept
<1>2. RowsKept([row |-> to, assets |-> assets], to)
  BY <1>0 DEF RowsKept
<1>3. ASSUME to.asset # None PROVE RowsKept(Register!Adopted(to, to.asset), to)
  <2>1. to.asset \in Asset /\ assets[to.asset] # None
    BY <1>3 DEF StationRows
  <2>2. QED
    BY <1>0, <2>1, AdoptedRow DEF RowsKept
<1>4. stations[s].asset # None => assets[stations[s].asset].model \in Model \cup {None}
  BY RegisterSays DEF AssetRows
<1> DEFINE p == "model" \in DOMAIN change /\ to.asset # None
<1> DEFINE q == "asset" \in DOMAIN change /\ "model" \notin DOMAIN change /\ to.asset # None /\ to.asset # stations[s].asset
<1> DEFINE w == /\ "asset" \in DOMAIN change /\ "model" \notin DOMAIN change /\ to.asset = None
                /\ stations[s].asset # None /\ stations[s].model = None
<1>5. /\ p => new = [row |-> [to EXCEPT !.model = None], assets |-> assets]
      /\ q /\ ~p /\ ~w => new = Register!Adopted(to, to.asset)
      /\ w /\ ~p /\ ~q => new = [row |-> [to EXCEPT !.model = assets[stations[s].asset].model], assets |-> assets]
      /\ ~p /\ ~q /\ ~w => new = [row |-> to, assets |-> assets]
  BY DEF Register!Changed
<1>6. RowsKept(new, to)
  <2>1. CASE p
    BY <1>1, <1>5, <2>1
  <2>2. CASE q
    BY <1>3, <1>5, <2>2
  <2>3. CASE w
    BY <1>1, <1>4, <1>5, <2>3
  <2>4. CASE ~p /\ ~q /\ ~w
    BY <1>2, <1>5, <2>4
  <2>5. QED
    BY <2>1, <2>2, <2>3, <2>4
<1>7. QED
  BY Zenon, <1>6

(* update_station                                                           *)
LEMMA StationUpdated ==
  ASSUME RegisterInv, NEW s \in Station, NEW change \in Register!StationChanges, Register!UpdateStation(s, change)
  PROVE  RegisterInv'
<1>1. PICK to \in {Register!StationSent(change, stations[s])} :
        /\ to.asset # None => assets[to.asset] # None
        /\ to.asset # stations[s].asset => Register!OpenAt(s) = {}
        /\ {"channels", "asset"} \cap DOMAIN change # {} /\ to.asset # None => Register!ChannelsFit(to.channels, to.asset)
        /\ to.unit # stations[s].unit => Register!OpenAt(s) = {}
        /\ \E new \in {Register!Changed(stations[s], change, to)} :
             /\ stations' = [stations EXCEPT ![s] = new.row]
             /\ assets' = new.assets
             /\ flows' = IF {"model", "asset"} \cap DOMAIN change = {} THEN flows
                         ELSE Register!RevalidateRecipes(DOMAIN to.limits, stations', assets', abilities)
  BY Zenon DEF Register!UpdateStation
<1>2. stations[s] # None /\ stations[s] \in StationRows /\ UNCHANGED <<abilities, reg_windows>>
  BY RegisterSays DEF Register!UpdateStation, Register!Registered
<1>3. /\ to \in StationRows /\ to.limits = stations[s].limits /\ to.retired = stations[s].retired
      /\ "asset" \notin DOMAIN change => to.asset = stations[s].asset
      /\ "channels" \notin DOMAIN change => to.channels = stations[s].channels
  BY <1>1, <1>2, StationIsSent
<1> DEFINE new == Register!Changed(stations[s], change, to)
<1> DEFINE put == new.row
<1>4. /\ put \in StationRows /\ put.asset = to.asset /\ put.channels = to.channels /\ put.unit = to.unit
      /\ put.retired = to.retired /\ put.limits = to.limits /\ new.assets \in [Asset -> AssetRows \cup {None}]
      /\ \A a \in Asset : assets[a] # None => new.assets[a] # None /\ new.assets[a].capacity = assets[a].capacity
  <2>1. RowsKept(new, to)
    BY <1>1, <1>2, <1>3, StationChanges
  <2>2. QED
    BY <2>1 DEF RowsKept
<1>5. /\ stations' = [stations EXCEPT ![s] = put] /\ assets' = new.assets
      /\ flows' \in {flows, Register!RevalidateRecipes(DOMAIN to.limits, stations', assets', abilities)}
  BY <1>1
<1> HIDE DEF new, put
<1>6. to.asset # None => to.asset \in Asset /\ assets[to.asset] # None /\ to.channels <= assets[to.asset].capacity
  <2> SUFFICES ASSUME to.asset # None PROVE to.asset \in Asset /\ assets[to.asset] # None /\ to.channels <= assets[to.asset].capacity
    OBVIOUS
  <2>1. to.asset \in Asset /\ assets[to.asset] # None
    BY <1>1, <1>3 DEF StationRows
  <2>2. CASE {"channels", "asset"} \cap DOMAIN change # {}
    BY <1>1, <2>1, <2>2 DEF Register!ChannelsFit
  <2>3. CASE {"channels", "asset"} \cap DOMAIN change = {}
    BY <1>2, <1>3, <2>1, <2>3, RegisterSays
  <2>4. QED
    BY <2>2, <2>3
<1>7. ChannelsStand(put, assets')
  BY <1>4, <1>5, <1>6 DEF ChannelsStand
<1>8. ASSUME NEW n \in 1..MaxWindows, reg_windows[n] # None, reg_windows[n].station = s
      PROVE  WindowStands(reg_windows[n], put)
  <2>1. Register!OpenAt(s) # {}
    BY <1>8, RegisterSays DEF Register!OpenAt
  <2>2. to.asset = stations[s].asset /\ to.unit = stations[s].unit
    BY <1>1, <2>1
  <2>3. WindowStands(reg_windows[n], stations[s]) /\ put # None
    BY <1>4, <1>8, RegisterSays, EquipmentIsRegistered
  <2>4. QED
    BY <1>3, <1>4, <2>2, <2>3 DEF WindowStands
<1>9. /\ stations' \in [Station -> StationRows \cup {None}] /\ stations'[s] = put
      /\ \A t \in Station : t # s => stations'[t] = stations[t]
  BY <1>4, <1>5, RegisterSays, OneRow
<1>10. ASSUME NEW r \in Procedure, NEW t \in Station, Carries(stations[t], RecipeStep[r])
       PROVE  Carries(stations'[t], RecipeStep[r])
  <2>1. put # None
    BY <1>4, EquipmentIsRegistered
  <2>2. QED
    BY <1>3, <1>4, <1>9, <1>10, <2>1 DEF Carries
<1>11. flows' \in [Procedure -> FlowRows] /\ FlowsTold(flows', stations', abilities)
  BY <1>5, <1>10, UseGoesOn
<1>12. \A a \in Asset : assets[a] # None => assets'[a] # None /\ assets'[a].capacity = assets[a].capacity
  BY <1>4, <1>5
<1>13. \A n \in 1..MaxWindows :
         reg_windows[n] # None /\ reg_windows[n].station = s => WindowStands(reg_windows[n], stations'[s])
  BY <1>8, <1>9
<1>14. ChannelsStand(stations'[s], assets') /\ assets' \in [Asset -> AssetRows \cup {None}]
  BY <1>4, <1>5, <1>7, <1>9
<1>15. UNCHANGED <<abilities, reg_windows>>
  BY <1>2
<1>16. QED
  BY <1>9, <1>11, <1>12, <1>13, <1>14, <1>15, StationPut

(* set_station_retired                                                      *)
LEMMA StationRetired ==
  ASSUME RegisterInv, NEW s \in Station, NEW out \in BOOLEAN, Register!SetStationRetired(s, out)
  PROVE  RegisterInv'
<1>1. /\ stations[s] # None /\ stations[s] \in StationRows
      /\ out => Register!OpenAt(s) = {}
      /\ stations' = [stations EXCEPT ![s].retired = out, ![s].status = IF out THEN "offline" ELSE "idle"]
      /\ flows' = Register!RevalidateRecipes(DOMAIN stations[s].limits, stations', assets, abilities)
      /\ UNCHANGED <<assets, abilities, reg_windows>>
  BY RegisterSays DEF Register!SetStationRetired, Register!Registered
<1> DEFINE put == [stations[s] EXCEPT !.retired = out, !.status = IF out THEN "offline" ELSE "idle"]
<1>2. stations' = [stations EXCEPT ![s] = put]
  BY <1>1, RegisterSays
<1>3. /\ put \in StationRows /\ put.asset = stations[s].asset /\ put.channels = stations[s].channels
      /\ put.unit = stations[s].unit /\ put.limits = stations[s].limits /\ (put.retired <=> out)
  BY <1>1 DEF StationRows
<1> HIDE DEF put
<1>4. put # None
  BY <1>3, EquipmentIsRegistered
<1>5. ChannelsStand(put, assets')
  BY <1>1, <1>3, RegisterSays, EquipmentIsRegistered DEF ChannelsStand
<1>6. ASSUME NEW n \in 1..MaxWindows, reg_windows[n] # None, reg_windows[n].station = s
      PROVE  WindowStands(reg_windows[n], put)
  <2>1. Register!OpenAt(s) # {}
    BY <1>6, RegisterSays DEF Register!OpenAt
  <2>2. WindowStands(reg_windows[n], stations[s])
    BY <1>6, RegisterSays
  <2>3. QED
    BY <1>1, <1>3, <1>4, <2>1, <2>2 DEF WindowStands
<1>7. /\ stations' \in [Station -> StationRows \cup {None}] /\ stations'[s] = put
      /\ \A t \in Station : t # s => stations'[t] = stations[t]
  BY <1>2, <1>3, RegisterSays, OneRow
<1>8. ASSUME NEW r \in Procedure, PlainStepOf(r), RecipeStep[r].cap \notin DOMAIN stations[s].limits
      PROVE  Told(flows[r], RecipeStep[r], stations', abilities)
  <2>1. Told(flows[r], RecipeStep[r], stations, abilities)
    BY <1>8, RegisterSays DEF FlowsTold
  <2>2. ASSUME NEW t \in Station, Carries(stations[t], RecipeStep[r]) PROVE Carries(stations'[t], RecipeStep[r])
    BY <1>7, <1>8, <2>2 DEF Carries
  <2>3. QED
    BY <2>1, <2>2 DEF Told, Carried
<1>9. flows' \in [Procedure -> FlowRows] /\ FlowsTold(flows', stations', abilities)
  BY <1>1, <1>8, RegisterSays, Looked
<1>10. \A n \in 1..MaxWindows :
         reg_windows[n] # None /\ reg_windows[n].station = s => WindowStands(reg_windows[n], stations'[s])
  BY <1>6, <1>7
<1>11. ChannelsStand(stations'[s], assets')
  BY <1>5, <1>7
<1>12. \A a \in Asset : assets[a] # None => assets'[a] # None /\ assets'[a].capacity = assets[a].capacity
  BY <1>1
<1>13. assets' \in [Asset -> AssetRows \cup {None}] /\ UNCHANGED <<abilities, reg_windows>>
  BY <1>1, RegisterSays
<1>14. QED
  BY <1>7, <1>9, <1>10, <1>11, <1>12, <1>13, StationPut

(* update_limits: what is removed has no window open.                       *)
LEMMA LimitsUpdated ==
  ASSUME RegisterInv, NEW s \in Station, NEW limits \in Register!AnyLimits, NEW remove \in SUBSET Cap,
         Register!UpdateLimits(s, limits, remove)
  PROVE  RegisterInv'
<1>1. /\ stations[s] # None /\ stations[s] \in StationRows
      /\ {reg_windows[n].cap : n \in Register!OpenAt(s)} \cap remove = {}
      /\ flows' = Register!RevalidateRecipes(remove \cup DOMAIN limits, stations', assets, abilities)
      /\ UNCHANGED <<assets, abilities, reg_windows>>
  BY RegisterSays DEF Register!UpdateLimits, Register!Registered
<1> DEFINE kept == [c \in DOMAIN stations[s].limits \ remove |-> stations[s].limits[c]]
<1> DEFINE over == Register!Over(limits, kept)
<1>2. stations' = [stations EXCEPT ![s].limits = over]
  BY Zenon DEF Register!UpdateLimits
<1>3. /\ limits \in LimitSets /\ stations[s].limits \in LimitSets
  BY <1>1, SentLimits DEF StationRows
<1>4. /\ DOMAIN limits \subseteq Cap /\ \A c \in DOMAIN limits : limits[c] \subseteq Setting
      /\ DOMAIN stations[s].limits \subseteq Cap /\ \A c \in DOMAIN stations[s].limits : stations[s].limits[c] \subseteq Setting
  BY <1>3 DEF LimitSets
<1>5. /\ DOMAIN over = DOMAIN limits \cup (DOMAIN stations[s].limits \ remove)
      /\ \A c \in DOMAIN over : over[c] \subseteq Setting
      /\ \A c \in DOMAIN stations[s].limits \ (remove \cup DOMAIN limits) : over[c] = stations[s].limits[c]
      /\ over \in [DOMAIN over -> SUBSET Setting]
  <2>1. over = [c \in DOMAIN limits \cup DOMAIN kept |-> IF c \in DOMAIN limits THEN limits[c] ELSE kept[c]]
    BY DEF Register!Over
  <2>2. DOMAIN kept = DOMAIN stations[s].limits \ remove /\ \A c \in DOMAIN kept : kept[c] = stations[s].limits[c]
    OBVIOUS
  <2> HIDE DEF over, kept
  <2>3. QED
    BY <1>4, <2>1, <2>2
<1>6. over \in LimitSets
  <2>1. DOMAIN over \in SUBSET Cap
    BY <1>4, <1>5
  <2>2. QED
    BY <1>5, <2>1 DEF LimitSets
<1> HIDE DEF over, kept
<1> DEFINE put == [stations[s] EXCEPT !.limits = over]
<1>7. stations' = [stations EXCEPT ![s] = put]
  BY Zenon, <1>2
<1>8. /\ put \in StationRows /\ put.asset = stations[s].asset /\ put.channels = stations[s].channels
      /\ put.unit = stations[s].unit /\ put.retired = stations[s].retired /\ put.limits = over
  BY <1>1, <1>6 DEF StationRows
<1> HIDE DEF put
<1>9. put # None
  BY <1>8, EquipmentIsRegistered
<1>10. /\ stations' \in [Station -> StationRows \cup {None}] /\ stations'[s] = put
       /\ \A t \in Station : t # s => stations'[t] = stations[t]
  BY <1>7, <1>8, RegisterSays, OneRow
<1>11. ChannelsStand(stations'[s], assets')
  BY <1>1, <1>8, <1>10, RegisterSays, EquipmentIsRegistered DEF ChannelsStand
<1>12. ASSUME NEW n \in 1..MaxWindows, reg_windows[n] # None, reg_windows[n].station = s
       PROVE  WindowStands(reg_windows[n], stations'[s])
  <2>1. n \in Register!OpenAt(s)
    BY <1>12, RegisterSays DEF Register!OpenAt
  <2>2. reg_windows[n].cap \notin remove
    BY <1>1, <2>1
  <2>3. WindowStands(reg_windows[n], stations[s])
    BY <1>12, RegisterSays
  <2>4. QED
    BY <1>5, <1>8, <1>9, <1>10, <2>2, <2>3 DEF WindowStands
<1>13. ASSUME NEW r \in Procedure, PlainStepOf(r), RecipeStep[r].cap \notin remove \cup DOMAIN limits
       PROVE  Told(flows[r], RecipeStep[r], stations', abilities)
  <2>1. Told(flows[r], RecipeStep[r], stations, abilities)
    BY <1>13, RegisterSays DEF FlowsTold
  <2>2. ASSUME NEW t \in Station, Carries(stations[t], RecipeStep[r]) PROVE Carries(stations'[t], RecipeStep[r])
    <3>1. CASE t = s
      BY <1>5, <1>8, <1>9, <1>10, <1>13, <2>2, <3>1 DEF Carries
    <3>2. CASE t # s
      BY <1>10, <2>2, <3>2
    <3>3. QED
      BY <3>1, <3>2
  <2>3. QED
    BY <2>1, <2>2 DEF Told, Carried
<1>14. flows' \in [Procedure -> FlowRows] /\ FlowsTold(flows', stations', abilities)
  BY <1>1, <1>13, RegisterSays, Looked
<1>15. \A a \in Asset : assets[a] # None => assets'[a] # None /\ assets'[a].capacity = assets[a].capacity
  BY <1>1
<1>16. assets' \in [Asset -> AssetRows \cup {None}] /\ UNCHANGED <<abilities, reg_windows>>
  BY <1>1, RegisterSays
<1>17. QED
  BY <1>10, <1>11, <1>12, <1>14, <1>15, <1>16, StationPut

(* delete_station: what is retired has no window and carries nothing out.   *)
LEMMA StationDeleted ==
  ASSUME RegisterInv, NEW s \in Station, Register!DeleteStation(s) PROVE RegisterInv'
<1>1. /\ stations[s] # None /\ stations[s] \in StationRows /\ stations[s].retired
      /\ stations' = [stations EXCEPT ![s] = None]
      /\ flows' \in {flows, Register!RevalidateRecipes(DOMAIN stations[s].limits, stations', assets', abilities)}
      /\ UNCHANGED <<assets, abilities, reg_windows>>
  BY RegisterSays DEF Register!DeleteStation, Register!Registered
<1>2. /\ stations' \in [Station -> StationRows \cup {None}] /\ stations'[s] = None
      /\ \A t \in Station : t # s => stations'[t] = stations[t]
  BY <1>1, RegisterSays, OneRow
<1>3. ChannelsStand(stations'[s], assets')
  BY <1>2 DEF ChannelsStand
<1>4. ASSUME NEW n \in 1..MaxWindows, reg_windows[n] # None, reg_windows[n].station = s PROVE FALSE
  BY <1>1, <1>4, RegisterSays DEF WindowStands
<1>5. ASSUME NEW r \in Procedure, NEW t \in Station, Carries(stations[t], RecipeStep[r])
      PROVE  Carries(stations'[t], RecipeStep[r])
  <2>1. t # s
    BY <1>1, <1>5 DEF Carries
  <2>2. QED
    BY <1>2, <1>5, <2>1
<1>6. flows' \in [Procedure -> FlowRows] /\ FlowsTold(flows', stations', abilities)
  BY <1>1, <1>5, UseGoesOn
<1>7. \A a \in Asset : assets[a] # None => assets'[a] # None /\ assets'[a].capacity = assets[a].capacity
  BY <1>1
<1>8. assets' \in [Asset -> AssetRows \cup {None}] /\ UNCHANGED <<abilities, reg_windows>>
  BY <1>1, RegisterSays
<1>9. QED
  BY <1>2, <1>3, <1>4, <1>6, <1>7, <1>8, StationPut

(* create_asset: no station is of an asset that is not there.               *)
LEMMA AssetCreated ==
  ASSUME RegisterInv, NEW a \in Asset, NEW new \in AssetRows, Register!CreateAsset(a, new) PROVE RegisterInv'
<1>1. assets[a] = None /\ assets' = [assets EXCEPT ![a] = new] /\ UNCHANGED <<stations, abilities, flows, reg_windows>>
  BY DEF Register!CreateAsset
<1>2. assets' \in [Asset -> AssetRows \cup {None}] /\ \A b \in Asset : assets[b] # None => assets'[b] = assets[b]
  BY <1>1, RegisterSays
<1>3. ASSUME NEW s \in Station PROVE ChannelsStand(stations[s], assets')
  BY <1>2, RegisterSays, EquipmentIsRegistered DEF ChannelsStand
<1>4. ChannelsAll(stations, assets')
  BY <1>3 DEF ChannelsAll
<1>5. QED
  BY <1>1, <1>2, <1>4, RegisterSays, RegisterAfter

(* delete_asset: no station is of it.                                       *)
LEMMA AssetDeleted ==
  ASSUME RegisterInv, NEW a \in Asset, Register!DeleteAsset(a) PROVE RegisterInv'
<1>1. /\ Register!Mapped(a) = {} /\ assets' = [assets EXCEPT ![a] = None]
      /\ UNCHANGED <<stations, abilities, flows, reg_windows>>
  BY DEF Register!DeleteAsset
<1>2. assets' \in [Asset -> AssetRows \cup {None}] /\ \A b \in Asset : b # a => assets'[b] = assets[b]
  BY <1>1, RegisterSays
<1>3. ASSUME NEW s \in Station PROVE ChannelsStand(stations[s], assets')
  <2>1. stations[s] # None => stations[s].asset # a
    BY <1>1 DEF Register!Mapped, Register!Registered
  <2>2. QED
    BY <1>2, <2>1, RegisterSays, EquipmentIsRegistered DEF ChannelsStand
<1>4. ChannelsAll(stations, assets')
  BY <1>3 DEF ChannelsAll
<1>5. QED
  BY <1>1, <1>2, <1>4, RegisterSays, RegisterAfter

(* Rows that are of the same asset, count the same way and can do as much   *)
(* keep the windows; and the channels, while the assets have room.          *)
LEMMA StationsKept ==
  ASSUME RegisterInv, NEW ss \in [Station -> StationRows \cup {None}], NEW as,
         \A t \in Station : stations[t] = None => ss[t] = None,
         \A t \in Station : stations[t] # None =>
           /\ ss[t] # None /\ ss[t].asset = stations[t].asset /\ ss[t].channels = stations[t].channels
           /\ ss[t].unit = stations[t].unit /\ ss[t].retired = stations[t].retired
           /\ DOMAIN stations[t].limits \subseteq DOMAIN ss[t].limits,
         \A t \in Station : stations[t] # None /\ stations[t].asset # None =>
           as[stations[t].asset] # None /\ stations[t].channels <= as[stations[t].asset].capacity
  PROVE  WindowsStand(reg_windows, ss) /\ ChannelsAll(ss, as)
<1>1. ASSUME NEW n \in 1..MaxWindows, reg_windows[n] # None
      PROVE  WindowStands(reg_windows[n], ss[reg_windows[n].station])
  <2>1. reg_windows[n].station \in Station /\ WindowStands(reg_windows[n], stations[reg_windows[n].station])
    BY <1>1, RegisterSays DEF WindowRows
  <2>2. QED
    BY <2>1 DEF WindowStands
<1>2. ASSUME NEW t \in Station PROVE ChannelsStand(ss[t], as)
  BY DEF ChannelsStand
<1>3. QED
  BY <1>1, <1>2 DEF WindowsStand, ChannelsAll

(* What is sent for an asset, and the row it gives.                         *)
LEMMA AssetIsSent ==
  ASSUME NEW change \in Register!AssetChanges, NEW own \in AssetRows
  PROVE  /\ Register!AssetSent(change, own) \in AssetRows
         /\ "capacity" \in DOMAIN change => Register!AssetSent(change, own).capacity = change.capacity
         /\ "capacity" \notin DOMAIN change => Register!AssetSent(change, own).capacity = own.capacity
<1> DEFINE st == Register!Sent(change, own, "state")
<1> DEFINE c == Register!Sent(change, own, "capacity")
<1> DEFINE m == Register!Sent(change, own, "model")
<1>1. own.state \in {"active", "retired"} /\ own.capacity \in Nat /\ own.model \in Model \cup {None}
  BY DEF AssetRows
<1>2. /\ "state" \in DOMAIN change => change["state"] \in {"active", "retired"}
      /\ "capacity" \in DOMAIN change => change["capacity"] \in Nat
      /\ "model" \in DOMAIN change => change["model"] \in Model \cup {None}
  BY DEF Register!AssetChanges
<1>3. /\ st \in {"active", "retired"} /\ c \in Nat /\ m \in Model \cup {None}
      /\ "capacity" \in DOMAIN change => c = change["capacity"]
      /\ "capacity" \notin DOMAIN change => c = own.capacity
  BY <1>1, <1>2 DEF Register!Sent
<1>4. Register!AssetSent(change, own) = [own EXCEPT !.state = st, !.capacity = c, !.model = m]
  BY Zenon DEF Register!AssetSent
<1> HIDE DEF st, c, m
<1>5. QED
  BY <1>3, <1>4 DEF AssetRows

(* update_asset: its stations keep within it; their model may come to be    *)
(* that of the asset.                                                       *)
LEMMA AssetUpdated ==
  ASSUME RegisterInv, NEW a \in Asset, NEW change \in Register!AssetChanges, Register!UpdateAsset(a, change)
  PROVE  RegisterInv'
<1> DEFINE to == Register!AssetSent(change, assets[a])
<1> DEFINE mine(s) == s \in Register!Mapped(a) /\ stations[s].model \in {assets[a].model, to.model}
<1> DEFINE bare(s) == [stations[s] EXCEPT !.model = None]
<1>1. /\ assets[a] # None /\ assets[a] \in AssetRows
      /\ "capacity" \in DOMAIN change => \A s \in Register!Mapped(a) : stations[s].channels <= change.capacity
      /\ UNCHANGED <<abilities, reg_windows>>
  BY RegisterSays DEF Register!UpdateAsset
<1>2. assets' = [assets EXCEPT ![a] = to]
  BY Zenon DEF Register!UpdateAsset
<1>3. \/ UNCHANGED <<stations, flows>>
      \/ /\ stations' = [s \in Station |-> IF mine(s) THEN bare(s) ELSE stations[s]]
         /\ flows' = Register!RevalidateForStations({stations[s] : s \in Register!Mapped(a)}, stations', assets')
  BY Zenon DEF Register!UpdateAsset
<1>4. to \in AssetRows /\ to.capacity = IF "capacity" \in DOMAIN change THEN change.capacity ELSE assets[a].capacity
  BY <1>1, AssetIsSent
<1>5. ASSUME NEW s \in Station, mine(s)
      PROVE  /\ stations[s] # None /\ bare(s) \in StationRows
             /\ bare(s).asset = stations[s].asset /\ bare(s).channels = stations[s].channels
             /\ bare(s).unit = stations[s].unit /\ bare(s).retired = stations[s].retired
             /\ bare(s).limits = stations[s].limits
  <2>1. stations[s] # None /\ stations[s] \in StationRows
    BY <1>5, RegisterSays DEF Register!Mapped, Register!Registered
  <2>2. QED
    BY <2>1 DEF StationRows
<1> HIDE DEF to, mine, bare
<1>6. assets' \in [Asset -> AssetRows \cup {None}] /\ assets'[a] = to /\ \A b \in Asset : b # a => assets'[b] = assets[b]
  BY <1>2, <1>4, RegisterSays
<1>7. /\ stations' \in [Station -> StationRows \cup {None}]
      /\ \A t \in Station : stations[t] = None => stations'[t] = None
      /\ \A t \in Station : stations[t] # None =>
           /\ stations'[t] # None /\ stations'[t].asset = stations[t].asset /\ stations'[t].channels = stations[t].channels
           /\ stations'[t].unit = stations[t].unit /\ stations'[t].retired = stations[t].retired
           /\ stations'[t].limits = stations[t].limits
  <2>1. CASE UNCHANGED stations
    BY <2>1, RegisterSays
  <2>2. CASE stations' = [s \in Station |-> IF mine(s) THEN bare(s) ELSE stations[s]]
    BY <1>5, <2>2, RegisterSays, EquipmentIsRegistered
  <2>3. QED
    BY <1>3, <2>1, <2>2
<1>8. ASSUME NEW t \in Station, stations[t] # None, stations[t].asset # None
      PROVE  assets'[stations[t].asset] # None /\ stations[t].channels <= assets'[stations[t].asset].capacity
  <2>1. CASE stations[t].asset = a
    <3>1. t \in Register!Mapped(a)
      BY <1>8, <2>1 DEF Register!Mapped, Register!Registered
    <3>2. QED
      BY <1>1, <1>4, <1>6, <1>8, <2>1, <3>1, RegisterSays, EquipmentIsRegistered
  <2>2. CASE stations[t].asset # a
    BY <1>6, <1>8, <2>2, RegisterSays, EquipmentIsRegistered
  <2>3. QED
    BY <2>1, <2>2
<1>9. WindowsStand(reg_windows, stations') /\ ChannelsAll(stations', assets')
  <2>1. \A t \in Station : stations[t] # None =>
          /\ stations'[t] # None /\ stations'[t].asset = stations[t].asset /\ stations'[t].channels = stations[t].channels
          /\ stations'[t].unit = stations[t].unit /\ stations'[t].retired = stations[t].retired
          /\ DOMAIN stations[t].limits \subseteq DOMAIN stations'[t].limits
    BY <1>7
  <2>2. \A t \in Station : stations[t] # None /\ stations[t].asset # None =>
          assets'[stations[t].asset] # None /\ stations[t].channels <= assets'[stations[t].asset].capacity
    BY <1>8
  <2>3. QED
    BY <1>7, <2>1, <2>2, StationsKept
<1>10. ASSUME NEW r \in Procedure, NEW t \in Station, Carries(stations[t], RecipeStep[r])
       PROVE  Carries(stations'[t], RecipeStep[r])
  BY <1>7, <1>10 DEF Carries
<1>11. PICK caps : flows' \in {flows, Register!RevalidateRecipes(caps, stations', assets', abilities)}
  BY <1>3 DEF Register!RevalidateForStations
<1>12. flows' \in [Procedure -> FlowRows] /\ FlowsTold(flows', stations', abilities)
  BY <1>10, <1>11, UseGoesOn
<1>13. QED
  BY <1>1, <1>6, <1>7, <1>9, <1>12, RegisterSays, RegisterAfter

(* link_station: a station without a window comes to an asset with room.    *)
LEMMA StationLinked ==
  ASSUME RegisterInv, NEW a \in Asset, NEW s \in Station, NEW move \in BOOLEAN, Register!LinkStation(a, s, move)
  PROVE  RegisterInv'
<1> DEFINE own == IF stations[s].asset # None /\ stations[s].model = None THEN assets[stations[s].asset].model ELSE stations[s].model
<1> DEFINE was == [stations[s] EXCEPT !.model = own]
<1> DEFINE new == Register!Adopted(was, a)
<1>1. /\ assets[a] # None /\ stations[s] # None /\ stations[s] \in StationRows
      /\ Register!OpenAt(s) = {} /\ stations[s].channels <= assets[a].capacity
      /\ UNCHANGED <<abilities, reg_windows>>
  BY RegisterSays DEF Register!LinkStation, Register!Registered
<1>2. /\ stations' = [stations EXCEPT ![s] = new.row] /\ assets' = new.assets
      /\ flows' = Register!RevalidateForStations({new.row}, stations', assets')
  BY Zenon DEF Register!LinkStation
<1>3. own \in Model \cup {None}
  BY <1>1, RegisterSays DEF StationRows, AssetRows
<1> HIDE DEF own
<1>4. /\ was \in StationRows /\ was.channels = stations[s].channels /\ was.retired = stations[s].retired
      /\ was.limits = stations[s].limits
  BY <1>1, <1>3 DEF StationRows
<1> HIDE DEF was
<1> DEFINE put == new.row
<1>5. /\ put \in StationRows /\ put.asset = a /\ put.channels = stations[s].channels
      /\ put.retired = stations[s].retired /\ put.limits = stations[s].limits
      /\ new.assets \in [Asset -> AssetRows \cup {None}]
      /\ \A b \in Asset : assets[b] # None => new.assets[b] # None /\ new.assets[b].capacity = assets[b].capacity
  BY <1>1, <1>4, AdoptedRow, RegisterSays
<1> HIDE DEF new, put
<1>6. /\ stations' \in [Station -> StationRows \cup {None}] /\ stations'[s] = put
      /\ \A t \in Station : t # s => stations'[t] = stations[t]
  <2>1. stations' = [stations EXCEPT ![s] = put]
    BY <1>2 DEF put
  <2>2. QED
    BY <1>5, <2>1, RegisterSays, OneRow
<1>7. /\ assets' \in [Asset -> AssetRows \cup {None}]
      /\ \A b \in Asset : assets[b] # None => assets'[b] # None /\ assets'[b].capacity = assets[b].capacity
  BY <1>2, <1>5
<1>8. ChannelsStand(stations'[s], assets')
  BY <1>1, <1>5, <1>6, <1>7 DEF ChannelsStand
<1>9. ASSUME NEW n \in 1..MaxWindows, reg_windows[n] # None, reg_windows[n].station = s PROVE FALSE
  BY <1>1, <1>9, RegisterSays DEF Register!OpenAt
<1>10. ASSUME NEW r \in Procedure, NEW t \in Station, Carries(stations[t], RecipeStep[r])
       PROVE  Carries(stations'[t], RecipeStep[r])
  <2>1. put # None
    BY <1>5, EquipmentIsRegistered
  <2>2. QED
    BY <1>5, <1>6, <1>10, <2>1 DEF Carries
<1>11. PICK caps : flows' \in {flows, Register!RevalidateRecipes(caps, stations', assets', abilities)}
  BY <1>2 DEF Register!RevalidateForStations
<1>12. flows' \in [Procedure -> FlowRows] /\ FlowsTold(flows', stations', abilities)
  BY <1>10, <1>11, UseGoesOn
<1>13. UNCHANGED <<abilities, reg_windows>>
  BY <1>1
<1>14. QED
  BY <1>6, <1>7, <1>8, <1>9, <1>12, <1>13, StationPut

(* unlink_station: a station without a window leaves its asset.             *)
LEMMA StationUnlinked ==
  ASSUME RegisterInv, NEW a \in Asset, NEW s \in Station, Register!UnlinkStation(a, s) PROVE RegisterInv'
<1> DEFINE model == IF stations[s].model = None THEN assets[a].model ELSE stations[s].model
<1> DEFINE put == [stations[s] EXCEPT !.asset = None, !.model = model]
<1>1. /\ assets[a] # None /\ assets[a] \in AssetRows /\ stations[s] # None /\ stations[s] \in StationRows
      /\ Register!OpenAt(s) = {}
      /\ flows' = Register!RevalidateForStations({stations'[s]}, stations', assets)
      /\ UNCHANGED <<assets, abilities, reg_windows>>
  BY RegisterSays DEF Register!UnlinkStation, Register!Registered
<1>2. stations' = [stations EXCEPT ![s].asset = None, ![s].model = IF @ = None THEN assets[a].model ELSE @]
  BY DEF Register!UnlinkStation
<1>3. stations' = [stations EXCEPT ![s] = put]
  BY <1>1, <1>2, RegisterSays
<1>4. model \in Model \cup {None}
  BY <1>1 DEF StationRows, AssetRows
<1> HIDE DEF model
<1>5. /\ put \in StationRows /\ put.asset = None /\ put.retired = stations[s].retired
      /\ put.limits = stations[s].limits
  BY <1>1, <1>4 DEF StationRows
<1> HIDE DEF put
<1>6. /\ stations' \in [Station -> StationRows \cup {None}] /\ stations'[s] = put
      /\ \A t \in Station : t # s => stations'[t] = stations[t]
  BY <1>3, <1>5, RegisterSays, OneRow
<1>7. ChannelsStand(stations'[s], assets')
  BY <1>5, <1>6 DEF ChannelsStand
<1>8. ASSUME NEW n \in 1..MaxWindows, reg_windows[n] # None, reg_windows[n].station = s PROVE FALSE
  BY <1>1, <1>8, RegisterSays DEF Register!OpenAt
<1>9. ASSUME NEW r \in Procedure, NEW t \in Station, Carries(stations[t], RecipeStep[r])
      PROVE  Carries(stations'[t], RecipeStep[r])
  <2>1. put # None
    BY <1>5, EquipmentIsRegistered
  <2>2. QED
    BY <1>5, <1>6, <1>9, <2>1 DEF Carries
<1>10. PICK caps : flows' \in {flows, Register!RevalidateRecipes(caps, stations', assets', abilities)}
  BY <1>1 DEF Register!RevalidateForStations
<1>11. flows' \in [Procedure -> FlowRows] /\ FlowsTold(flows', stations', abilities)
  BY <1>9, <1>10, UseGoesOn
<1>12. \A b \in Asset : assets[b] # None => assets'[b] # None /\ assets'[b].capacity = assets[b].capacity
  BY <1>1
<1>13. assets' \in [Asset -> AssetRows \cup {None}] /\ UNCHANGED <<abilities, reg_windows>>
  BY <1>1, RegisterSays
<1>14. QED
  BY <1>6, <1>7, <1>8, <1>11, <1>12, <1>13, StationPut

(* register_capability: a new capability; no step of a device names it yet. *)
LEMMA CapabilityRegistered ==
  ASSUME RegisterInv, NEW c \in Cap, NEW kind \in {"number", "enum"}, NEW options \in SUBSET Setting,
         NEW at \in SUBSET Station, Register!RegisterCapability(c, kind, options, at)
  PROVE  RegisterInv'
<1> DEFINE sent == [x \in {c} |-> options]
<1> DEFINE over(s) == Register!Over(sent, stations[s].limits)
<1> DEFINE more(s) == [stations[s] EXCEPT !.limits = over(s)]
<1> DEFINE new == [kind |-> kind, options |-> options, retired |-> FALSE]
<1>1. /\ abilities[c] = None /\ abilities' = [abilities EXCEPT ![c] = new]
      /\ UNCHANGED <<assets, flows, reg_windows>>
  BY DEF Register!RegisterCapability
<1>2. stations' = [s \in Station |-> IF s \in Register!Registered \cap at THEN more(s) ELSE stations[s]]
  BY Zenon DEF Register!RegisterCapability
<1>3. new \in AbilityRows
  BY DEF AbilityRows
<1> HIDE DEF new
<1>4. /\ abilities' \in [Cap -> AbilityRows \cup {None}] /\ abilities'[c] # None
      /\ \A x \in Cap : x # c => abilities'[x] = abilities[x]
  BY <1>1, <1>3, RegisterSays, EquipmentIsRegistered
<1>5. ASSUME NEW s \in Station, stations[s] # None
      PROVE  /\ more(s) \in StationRows /\ more(s).asset = stations[s].asset
             /\ more(s).channels = stations[s].channels /\ more(s).unit = stations[s].unit
             /\ more(s).retired = stations[s].retired
             /\ DOMAIN stations[s].limits \subseteq DOMAIN more(s).limits
             /\ \A x \in DOMAIN stations[s].limits \ {c} : more(s).limits[x] = stations[s].limits[x]
  <2>1. stations[s] \in StationRows /\ stations[s].limits \in LimitSets
    BY <1>5, RegisterSays DEF StationRows
  <2>2. /\ DOMAIN stations[s].limits \subseteq Cap
        /\ \A x \in DOMAIN stations[s].limits : stations[s].limits[x] \subseteq Setting
    BY <2>1 DEF LimitSets
  <2>3. over(s) = [x \in {c} \cup DOMAIN stations[s].limits |-> IF x \in {c} THEN options ELSE stations[s].limits[x]]
    BY DEF Register!Over
  <2> DEFINE ov == over(s)
  <2> HIDE DEF over, sent
  <2>4. /\ DOMAIN ov = {c} \cup DOMAIN stations[s].limits /\ ov \in [DOMAIN ov -> SUBSET Setting]
        /\ \A x \in DOMAIN stations[s].limits \ {c} : ov[x] = stations[s].limits[x]
    BY <2>2, <2>3
  <2>5. ov \in LimitSets
    <3>1. DOMAIN ov \in SUBSET Cap
      BY <2>2, <2>4
    <3>2. QED
      BY <2>4, <3>1 DEF LimitSets
  <2>6. more(s) = [stations[s] EXCEPT !.limits = ov]
    OBVIOUS
  <2> HIDE DEF ov, more
  <2>7. /\ more(s) \in StationRows /\ more(s).asset = stations[s].asset
        /\ more(s).channels = stations[s].channels /\ more(s).unit = stations[s].unit
        /\ more(s).retired = stations[s].retired /\ more(s).limits = ov
    BY <2>1, <2>5, <2>6 DEF StationRows
  <2>8. QED
    BY <2>4, <2>7
<1> HIDE DEF more
<1>6. /\ stations' \in [Station -> StationRows \cup {None}]
      /\ \A t \in Station : stations[t] = None => stations'[t] = None
      /\ \A t \in Station : stations[t] # None =>
           /\ stations'[t] # None /\ stations'[t].asset = stations[t].asset /\ stations'[t].channels = stations[t].channels
           /\ stations'[t].unit = stations[t].unit /\ stations'[t].retired = stations[t].retired
           /\ DOMAIN stations[t].limits \subseteq DOMAIN stations'[t].limits
           /\ \A x \in DOMAIN stations[t].limits \ {c} : stations'[t].limits[x] = stations[t].limits[x]
  <2>1. ASSUME NEW t \in Station, t \in Register!Registered \cap at PROVE stations[t] # None /\ more(t) # None
    BY <1>5, <2>1, EquipmentIsRegistered DEF Register!Registered
  <2>2. ASSUME NEW t \in Station PROVE stations'[t] = IF t \in Register!Registered \cap at THEN more(t) ELSE stations[t]
    BY <1>2
  <2>3. stations' \in [Station -> StationRows \cup {None}]
    BY <1>2, <1>5, <2>1, RegisterSays
  <2>4. QED
    BY <1>5, <2>1, <2>2, <2>3
<1>7. WindowsStand(reg_windows, stations') /\ ChannelsAll(stations', assets)
  <2>1. \A t \in Station : stations[t] # None =>
          /\ stations'[t] # None /\ stations'[t].asset = stations[t].asset /\ stations'[t].channels = stations[t].channels
          /\ stations'[t].unit = stations[t].unit /\ stations'[t].retired = stations[t].retired
          /\ DOMAIN stations[t].limits \subseteq DOMAIN stations'[t].limits
    BY <1>6
  <2>2. \A t \in Station : stations[t] # None /\ stations[t].asset # None =>
          assets[stations[t].asset] # None /\ stations[t].channels <= assets[stations[t].asset].capacity
    BY RegisterSays, EquipmentIsRegistered
  <2>3. QED
    BY <1>6, <2>1, <2>2, StationsKept
<1>8. ASSUME NEW r \in Procedure, RecipeStep[r].how = "device"
      PROVE  RecipeStep[r].cap \in Cap /\ RecipeStep[r].cap # c /\ abilities'[RecipeStep[r].cap] = abilities[RecipeStep[r].cap]
  <2>1. RecipeStep[r].cap \in Cap
    BY EquipmentIsRegistered DEF RecipeSteps
  <2>2. RecipeStep[r].cap # c
    BY <1>1, <1>8, RegisterSays DEF AbilitiesStay
  <2>3. QED
    BY <1>4, <2>1, <2>2
<1>9. AbilitiesStay(abilities')
  BY <1>8, RegisterSays DEF AbilitiesStay
<1>10. ASSUME NEW r \in Procedure, PlainStepOf(r) PROVE Told(flows[r], RecipeStep[r], stations', abilities')
  <2>1. Told(flows[r], RecipeStep[r], stations, abilities)
    BY <1>10, RegisterSays DEF FlowsTold
  <2>2. RecipeStep[r].cap # c /\ abilities'[RecipeStep[r].cap] = abilities[RecipeStep[r].cap]
    BY <1>8, <1>10 DEF PlainStepOf
  <2>3. ASSUME NEW t \in Station, Carries(stations[t], RecipeStep[r]) PROVE Carries(stations'[t], RecipeStep[r])
    BY <1>6, <2>2, <2>3 DEF Carries
  <2>4. QED
    BY <2>1, <2>2, <2>3 DEF Told, Carried
<1>11. FlowsTold(flows', stations', abilities')
  BY <1>1, <1>10 DEF FlowsTold
<1>12. QED
  BY <1>1, <1>4, <1>6, <1>7, <1>9, <1>11, RegisterSays, RegisterAfter

(* update_capability: the limits of its stations are narrowed, those of the *)
(* others and of other capabilities stay.                                   *)
LEMMA CapabilityUpdated ==
  ASSUME RegisterInv, NEW c \in Cap, NEW kind \in {"number", "enum", "gone"}, NEW options \in SUBSET Setting,
         Register!UpdateCapability(c, kind, options)
  PROVE  RegisterInv'
<1> DEFINE to == [abilities[c] EXCEPT !.kind = kind, !.options = options]
<1> DEFINE left_(s) == Register!Narrowed(stations[s].limits[c], abilities[c], to)
<1> DEFINE less(s) == [stations[s] EXCEPT !.limits[c] = left_(s)]
<1> DEFINE has(s) == s \in Register!Registered /\ c \in DOMAIN stations[s].limits
<1>1. /\ abilities[c] # None /\ abilities[c] \in AbilityRows
      /\ flows' = Register!RevalidateRecipes({c}, stations', assets, abilities')
      /\ UNCHANGED <<assets, reg_windows>>
  BY RegisterSays DEF Register!UpdateCapability
<1>2. /\ abilities' = [abilities EXCEPT ![c] = to]
      /\ stations' = [s \in Station |-> IF has(s) THEN less(s) ELSE stations[s]]
  BY Zenon DEF Register!UpdateCapability
<1>3. to \in AbilityRows
  BY <1>1 DEF AbilityRows
<1>4. ASSUME NEW s \in Station, has(s)
      PROVE  /\ stations[s] # None /\ less(s) \in StationRows /\ less(s).asset = stations[s].asset
             /\ less(s).channels = stations[s].channels /\ less(s).unit = stations[s].unit
             /\ less(s).retired = stations[s].retired
             /\ DOMAIN less(s).limits = DOMAIN stations[s].limits
             /\ \A x \in DOMAIN stations[s].limits \ {c} : less(s).limits[x] = stations[s].limits[x]
  <2>1. stations[s] # None /\ stations[s] \in StationRows /\ stations[s].limits \in LimitSets /\ c \in DOMAIN stations[s].limits
    BY <1>4, RegisterSays DEF StationRows, Register!Registered
  <2>2. /\ DOMAIN stations[s].limits \subseteq Cap
        /\ stations[s].limits \in [DOMAIN stations[s].limits -> SUBSET Setting]
    BY <2>1 DEF LimitSets
  <2> DEFINE lim == [stations[s].limits EXCEPT ![c] = left_(s)]
  <2>3. left_(s) \in SUBSET Setting
    BY <2>1, <2>2 DEF Register!Narrowed
  <2>4. less(s) = [stations[s] EXCEPT !.limits = lim]
    BY Zenon
  <2> HIDE DEF left_, less
  <2>5. /\ DOMAIN lim = DOMAIN stations[s].limits /\ lim \in [DOMAIN lim -> SUBSET Setting]
        /\ \A x \in DOMAIN stations[s].limits \ {c} : lim[x] = stations[s].limits[x]
    BY <2>2, <2>3
  <2> HIDE DEF lim
  <2>6. lim \in LimitSets
    <3>1. DOMAIN lim \in SUBSET Cap
      BY <2>2, <2>5
    <3>2. QED
      BY <2>5, <3>1 DEF LimitSets
  <2>7. /\ less(s) \in StationRows /\ less(s).asset = stations[s].asset
        /\ less(s).channels = stations[s].channels /\ less(s).unit = stations[s].unit
        /\ less(s).retired = stations[s].retired /\ less(s).limits = lim
    BY <2>1, <2>4, <2>6 DEF StationRows
  <2>8. QED
    BY <2>1, <2>5, <2>7
<1> HIDE DEF to, left_, less, has
<1>5. /\ abilities' \in [Cap -> AbilityRows \cup {None}] /\ abilities'[c] # None
      /\ \A x \in Cap : x # c => abilities'[x] = abilities[x]
  BY <1>2, <1>3, RegisterSays, EquipmentIsRegistered
<1>6. /\ stations' \in [Station -> StationRows \cup {None}]
      /\ \A t \in Station : stations[t] = None => stations'[t] = None
      /\ \A t \in Station : stations[t] # None =>
           /\ stations'[t] # None /\ stations'[t].asset = stations[t].asset /\ stations'[t].channels = stations[t].channels
           /\ stations'[t].unit = stations[t].unit /\ stations'[t].retired = stations[t].retired
           /\ DOMAIN stations[t].limits \subseteq DOMAIN stations'[t].limits
           /\ \A x \in DOMAIN stations[t].limits \ {c} : stations'[t].limits[x] = stations[t].limits[x]
  <2>1. ASSUME NEW t \in Station, has(t) PROVE stations[t] # None /\ less(t) # None
    BY <1>4, <2>1, EquipmentIsRegistered
  <2>2. ASSUME NEW t \in Station PROVE stations'[t] = IF has(t) THEN less(t) ELSE stations[t]
    BY <1>2
  <2>3. stations' \in [Station -> StationRows \cup {None}]
    BY <1>2, <1>4, RegisterSays
  <2>4. QED
    BY <1>4, <2>1, <2>2, <2>3
<1>7. WindowsStand(reg_windows, stations') /\ ChannelsAll(stations', assets)
  <2>1. \A t \in Station : stations[t] # None =>
          /\ stations'[t] # None /\ stations'[t].asset = stations[t].asset /\ stations'[t].channels = stations[t].channels
          /\ stations'[t].unit = stations[t].unit /\ stations'[t].retired = stations[t].retired
          /\ DOMAIN stations[t].limits \subseteq DOMAIN stations'[t].limits
    BY <1>6
  <2>2. \A t \in Station : stations[t] # None /\ stations[t].asset # None =>
          assets[stations[t].asset] # None /\ stations[t].channels <= assets[stations[t].asset].capacity
    BY RegisterSays, EquipmentIsRegistered
  <2>3. QED
    BY <1>6, <2>1, <2>2, StationsKept
<1>8. AbilitiesStay(abilities')
  <2> SUFFICES ASSUME NEW r \in Procedure, RecipeStep[r].how = "device" PROVE abilities'[RecipeStep[r].cap] # None
    BY DEF AbilitiesStay
  <2>1. RecipeStep[r].cap \in Cap
    BY EquipmentIsRegistered DEF RecipeSteps
  <2>2. QED
    BY <1>5, <2>1, RegisterSays DEF AbilitiesStay
<1>9. ASSUME NEW r \in Procedure, PlainStepOf(r), {c} # {}, RecipeStep[r].cap \notin {c}
      PROVE  Told(flows[r], RecipeStep[r], stations', abilities')
  <2>1. Told(flows[r], RecipeStep[r], stations, abilities)
    BY <1>9, RegisterSays DEF FlowsTold
  <2>2. RecipeStep[r].cap # c /\ abilities'[RecipeStep[r].cap] = abilities[RecipeStep[r].cap]
    BY <1>5, <1>9, EquipmentIsRegistered DEF RecipeSteps
  <2>3. ASSUME NEW t \in Station, Carries(stations[t], RecipeStep[r]) PROVE Carries(stations'[t], RecipeStep[r])
    BY <1>6, <2>2, <2>3 DEF Carries
  <2>4. QED
    BY <2>1, <2>2, <2>3 DEF Told, Carried
<1>10. flows' \in [Procedure -> FlowRows] /\ FlowsTold(flows', stations', abilities')
  BY <1>1, <1>9, RegisterSays, Looked
<1>11. QED
  BY <1>1, <1>5, <1>6, <1>7, <1>8, <1>10, RegisterSays, RegisterAfter

(* set_capability_retired: looks at no recipe.                              *)
LEMMA CapabilityRetired ==
  ASSUME RegisterInv, NEW c \in Cap, NEW out \in BOOLEAN, Register!SetCapabilityRetired(c, out) PROVE RegisterInv'
<1> DEFINE to == [abilities[c] EXCEPT !.retired = out]
<1>1. /\ abilities[c] # None /\ abilities[c] \in AbilityRows
      /\ UNCHANGED <<assets, stations, flows, reg_windows>>
  BY RegisterSays DEF Register!SetCapabilityRetired
<1>2. abilities' = [abilities EXCEPT ![c] = to]
  BY Zenon DEF Register!SetCapabilityRetired
<1>3. to \in AbilityRows /\ to.kind = abilities[c].kind /\ to.options = abilities[c].options
  BY <1>1 DEF AbilityRows
<1> HIDE DEF to
<1>4. /\ abilities' \in [Cap -> AbilityRows \cup {None}] /\ abilities'[c] = to
      /\ \A x \in Cap : x # c => abilities'[x] = abilities[x]
  BY <1>2, <1>3, RegisterSays
<1>5. ASSUME NEW r \in Procedure, abilities[RecipeStep[r].cap] # None
      PROVE  /\ abilities'[RecipeStep[r].cap] # None
             /\ abilities'[RecipeStep[r].cap].kind = abilities[RecipeStep[r].cap].kind
             /\ abilities'[RecipeStep[r].cap].options = abilities[RecipeStep[r].cap].options
  <2>1. RecipeStep[r].cap \in Cap
    BY EquipmentIsRegistered DEF RecipeSteps
  <2>2. QED
    BY <1>3, <1>4, <1>5, <2>1, EquipmentIsRegistered
<1>6. AbilitiesStay(abilities')
  BY <1>5, RegisterSays DEF AbilitiesStay
<1>7. FlowsTold(flows, stations, abilities')
  BY <1>5, RegisterSays DEF FlowsTold, Told, Meant
<1>8. QED
  BY <1>1, <1>4, <1>6, <1>7, RegisterSays, RegisterAfter

(* delete_capability: no step of a device names it.                         *)
LEMMA CapabilityDeleted ==
  ASSUME RegisterInv, NEW c \in Cap, Register!DeleteCapability(c) PROVE RegisterInv'
<1>1. /\ \A r \in Procedure : ~(RecipeStep[r].how = "device" /\ RecipeStep[r].cap = c)
      /\ abilities' = [abilities EXCEPT ![c] = None]
      /\ UNCHANGED <<assets, stations, flows, reg_windows>>
  BY DEF Register!DeleteCapability
<1>2. /\ abilities' \in [Cap -> AbilityRows \cup {None}]
      /\ \A x \in Cap : x # c => abilities'[x] = abilities[x]
  BY <1>1, RegisterSays
<1>3. ASSUME NEW r \in Procedure, RecipeStep[r].how = "device"
      PROVE  abilities'[RecipeStep[r].cap] = abilities[RecipeStep[r].cap]
  <2>1. RecipeStep[r].cap \in Cap
    BY EquipmentIsRegistered DEF RecipeSteps
  <2>2. QED
    BY <1>1, <1>2, <1>3, <2>1
<1>4. AbilitiesStay(abilities')
  BY <1>3, RegisterSays DEF AbilitiesStay
<1>5. FlowsTold(flows, stations, abilities')
  BY <1>3, RegisterSays DEF FlowsTold, Told, Meant, PlainStepOf
<1>6. QED
  BY <1>1, <1>2, <1>4, <1>5, RegisterSays, RegisterAfter

(* The register as it is set up.                                            *)
LEMMA RegisterStart == ASSUME Register!RegisterInit PROVE RegisterInv
<1>1. /\ assets = [a \in Asset |-> IF a \in DOMAIN Equipped.asset THEN Equipped.asset[a] ELSE None]
      /\ stations = [s \in Station |-> IF s \in DOMAIN Equipped.station THEN Equipped.station[s] ELSE None]
      /\ abilities = [c \in Cap |-> [kind |-> "number", options |-> Setting, retired |-> FALSE]]
      /\ \E r \in Procedure : flows = [q \in Procedure |-> [state |-> IF q = r THEN "approved" ELSE "retired", needs |-> FALSE]]
      /\ reg_windows = [n \in 1..MaxWindows |-> None]
  BY DEF Register!RegisterInit
<1>2. assets \in [Asset -> AssetRows \cup {None}] /\ stations \in [Station -> StationRows \cup {None}]
  BY <1>1, EquipmentIsRegistered
<1>3. abilities \in [Cap -> AbilityRows \cup {None}] /\ AbilitiesStay(abilities)
  <2> DEFINE new == [kind |-> "number", options |-> Setting, retired |-> FALSE]
  <2>1. new \in AbilityRows
    BY DEF AbilityRows
  <2>2. abilities = [c \in Cap |-> new]
    BY <1>1
  <2> HIDE DEF new
  <2>3. new # None
    BY <2>1, EquipmentIsRegistered
  <2>4. ASSUME NEW r \in Procedure PROVE RecipeStep[r].cap \in Cap
    BY EquipmentIsRegistered DEF RecipeSteps
  <2>5. QED
    BY <2>1, <2>2, <2>3, <2>4 DEF AbilitiesStay
<1>4. /\ flows \in [Procedure -> FlowRows] /\ \A r \in Procedure : flows[r].state # "released"
  BY <1>1 DEF FlowRows
<1>5. reg_windows \in [1..MaxWindows -> WindowRows \cup {None}] /\ WindowsStand(reg_windows, stations)
  BY <1>1 DEF WindowsStand
<1>6. ChannelsAll(stations, assets)
  <2> SUFFICES ASSUME NEW s \in Station, stations[s] # None, stations[s].asset # None
               PROVE  assets[stations[s].asset] # None /\ stations[s].channels <= assets[stations[s].asset].capacity
    BY DEF ChannelsAll, ChannelsStand
  <2>1. s \in DOMAIN Equipped.station /\ stations[s] = Equipped.station[s]
    BY <1>1
  <2>2. /\ stations[s].asset \in Asset /\ stations[s].asset \in DOMAIN Equipped.asset
        /\ stations[s].channels <= Equipped.asset[stations[s].asset].capacity
    BY <1>2, <2>1, EquipmentIsRegistered DEF StationRows
  <2>3. assets[stations[s].asset] = Equipped.asset[stations[s].asset]
    BY <1>1, <2>2
  <2>4. QED
    BY <2>2, <2>3, EquipmentIsRegistered
<1>7. FlowsTold(flows, stations, abilities)
  BY <1>4 DEF FlowsTold, Told
<1>8. QED
  BY <1>2, <1>3, <1>4, <1>5, <1>6, <1>7 DEF RegisterInv, RegisterTyped

(* Every change of the register keeps what is known of it.                  *)
LEMMA RegisterStep == ASSUME RegisterInv, Register!StationNext PROVE RegisterInv'
<1>1. ASSUME NEW s \in Station,
             \/ \E sent \in Register!NewStations : Register!CreateStation(s, sent)
             \/ \E change \in Register!StationChanges : Register!UpdateStation(s, change)
             \/ \E limits \in Register!AnyLimits, remove \in SUBSET Cap : Register!UpdateLimits(s, limits, remove)
             \/ \E out \in BOOLEAN : Register!SetStationRetired(s, out)
             \/ Register!DeleteStation(s)
             \/ \E c \in Cap : Register!Allocate(s, c)
      PROVE  RegisterInv'
  BY <1>1, StationCreated, StationUpdated, LimitsUpdated, StationRetired, StationDeleted, WindowOpened
<1>2. ASSUME NEW a \in Asset,
             \/ \E n \in 1..2, m \in Model \cup {None} :
                  Register!CreateAsset(a, [state |-> "active", capacity |-> n, model |-> m])
             \/ \E change \in Register!AssetChanges : Register!UpdateAsset(a, change)
             \/ \E s \in Station, move \in BOOLEAN : Register!LinkStation(a, s, move)
             \/ \E s \in Station : Register!UnlinkStation(a, s)
             \/ Register!DeleteAsset(a)
      PROVE  RegisterInv'
  <2>1. ASSUME NEW n \in 1..2, NEW m \in Model \cup {None} PROVE [state |-> "active", capacity |-> n, model |-> m] \in AssetRows
    BY DEF AssetRows
  <2>2. QED
    BY <1>2, <2>1, AssetCreated, AssetUpdated, StationLinked, StationUnlinked, AssetDeleted
<1>3. ASSUME NEW c \in Cap,
             \/ \E d \in Register!Definitions :
                  \/ d[1] # "gone" /\ \E at \in SUBSET Station : Register!RegisterCapability(c, d[1], d[2], at)
                  \/ Register!UpdateCapability(c, d[1], d[2])
             \/ \E out \in BOOLEAN : Register!SetCapabilityRetired(c, out)
             \/ Register!DeleteCapability(c)
      PROVE  RegisterInv'
  <2>1. ASSUME NEW d \in Register!Definitions
        PROVE  d[1] \in {"number", "enum", "gone"} /\ d[2] \in SUBSET Setting
    BY DEF Register!Definitions
  <2>2. ASSUME NEW d \in Register!Definitions, d[1] # "gone", NEW at \in SUBSET Station,
               Register!RegisterCapability(c, d[1], d[2], at)
        PROVE  RegisterInv'
    BY <2>1, <2>2, CapabilityRegistered
  <2>3. ASSUME NEW d \in Register!Definitions, Register!UpdateCapability(c, d[1], d[2]) PROVE RegisterInv'
    BY <2>1, <2>3, CapabilityUpdated
  <2>4. QED
    BY <1>3, <2>2, <2>3, CapabilityRetired, CapabilityDeleted
<1>4. QED
  BY <1>1, <1>2, <1>3, WindowClosed, RecipeReleased DEF Register!StationNext

(* What is known of the register is enough.                                 *)
LEMMA RegisterStands == ASSUME RegisterInv PROVE Register!RegisterHolds
<1>1. Register!WindowsKeepTheirStation
  BY RegisterSays DEF Register!WindowsKeepTheirStation, WindowStands
<1>2. Register!ChannelsWithinAsset
  BY RegisterSays, EquipmentIsRegistered DEF Register!ChannelsWithinAsset, Register!Registered
<1>3. Register!RevisionIsTold
  <2> SUFFICES ASSUME NEW r \in Procedure, flows[r].state = "released", ~flows[r].needs, PlainStepOf(r),
                      ~abilities[RecipeStep[r].cap].retired
               PROVE  Register!IsValid(r, stations, assets, abilities)
    BY DEF Register!RevisionIsTold, PlainStepOf
  <2>1. Meant(abilities[RecipeStep[r].cap], RecipeStep[r]) /\ Carried(RecipeStep[r], stations)
    BY RegisterSays DEF FlowsTold, Told
  <2>2. QED
    BY <2>1, CarriedIsValid
<1>4. QED
  BY <1>1, <1>2, <1>3 DEF Register!RegisterHolds

(* One part of the desk has a register of its own; in the others it is this *)
(* one, which nothing else changes.                                         *)
LEMMA RegisterGoesOn ==
  ASSUME focus # "models" => RegisterInv, [Next]_vars PROVE (focus # "models" => RegisterInv)'
<1>1. /\ focus' = focus
      /\ focus # "models" => Register!StationNext \/ UNCHANGED registerVars
  BY DEF Next, vars
<1>2. ASSUME RegisterInv, UNCHANGED registerVars PROVE RegisterInv'
  BY <1>2, RegisterSays, RegisterAfter DEF registerVars
<1>3. QED
  BY <1>1, <1>2, RegisterStep

-----------------------------------------------------------------------------
(* The desk: what the parts know of themselves, together.                   *)

DeskInv == PlansInv /\ AccessInv /\ StaffInv /\ CatalogueInv /\ UpkeepInv /\ GateInv

(* What a part knows of itself does not depend on the others.               *)
LEMMA OthersStay ==
  /\ PlansInv /\ UNCHANGED plansVars => PlansInv'
  /\ AccessInv /\ UNCHANGED accessVars => AccessInv'
  /\ StaffInv /\ UNCHANGED staffVars => StaffInv'
  /\ CatalogueInv /\ UNCHANGED catalogueVars => CatalogueInv'
  /\ UpkeepInv /\ UNCHANGED upkeepVars => UpkeepInv'
  /\ GateInv /\ UNCHANGED gateVars => GateInv'
<1>1. PlansInv /\ UNCHANGED plansVars => PlansInv'
  BY DEF plansVars, PlansInv, PlanTyped, VersionIsLast, InReview, IsApproved, ApprovedSigned, TicketsSaw,
     TasksName, RunsName
<1>2. AccessInv /\ UNCHANGED accessVars => AccessInv'
  <2> SUFFICES ASSUME AccessInv, UNCHANGED accessVars PROVE AccessInv'
    OBVIOUS
  <2>1. UNCHANGED <<accounts, tokens, roleSet, shipped, acc_tickets, pending, service, taken>>
    BY DEF accessVars
  <2>2. AccessTyped'
    BY <2>1 DEF AccessInv, AccessTyped
  <2>4. AccountsInv' /\ MatrixInv'
    BY <2>1, AccountsGoOn, MatrixGoesOn
  <2>5. QED
    BY <2>1, <2>2, <2>4 DEF AccessInv, Allowed!ServiceKept
<1>3. StaffInv /\ UNCHANGED staffVars => StaffInv'
  BY DEF staffVars, StaffInv, StaffTyped, WorkCovered
<1>4. ASSUME CatalogueInv, UNCHANGED catalogueVars PROVE CatalogueInv'
  <2>1. UNCHANGED <<catalogue, rows, users, writing, approved>>
    BY <1>4 DEF catalogueVars
  <2>2. RowsTyped' /\ OneReleasedRow'
    BY <1>4, <2>1 DEF CatalogueInv, RowsTyped, OneReleasedRow
  <2>3. UsersTyped' /\ WritesKnown'
    BY <1>4, <2>1 DEF CatalogueInv, UsersTyped, WritesKnown
  <2>4. RowsApproved'
    BY <1>4, <2>1 DEF CatalogueInv, RowsApproved, AsApproved
  <2>5. UsersStand'
    BY <1>4, <2>1 DEF CatalogueInv, UsersStand, RecipeStands, AdapterStands, ValueStands, SaysOf
  <2>6. QED
    BY <1>4, <2>1, <2>2, <2>3, <2>4, <2>5 DEF CatalogueInv
<1>5. UpkeepInv /\ UNCHANGED upkeepVars => UpkeepInv'
  BY DEF upkeepVars, UpkeepInv, UpkeepTyped, FitsAlways, OrdersBooked, EndedIsFree, WorksRun
<1>6. GateInv /\ UNCHANGED gateVars => GateInv'
  <2> SUFFICES ASSUME GateInv, UNCHANGED gateVars PROVE GateInv'
    OBVIOUS
  <2>1. UNCHANGED <<adapter, installed, runs, write, command, worker, line, signature, proved, vouched>>
    BY DEF gateVars
  <2>2. GateTyped /\ GateCore /\ Gate!MovedAsSigned /\ WrittenOnce
    BY DEF GateInv
  <2>3. Gate!Running' = Gate!Running
    BY <2>1 DEF Gate!Running
  <2>4. GateCore'
    BY <2>1, <2>2, <2>3, CoreGoesOn
  <2>5. GateTyped' /\ Gate!MovedAsSigned' /\ WrittenOnce'
    BY <2>1, <2>2 DEF GateTyped, Gate!MovedAsSigned, Gate!Acting, WrittenOnce
  <2>6. QED
    BY <2>4, <2>5 DEF GateInv
<1>7. QED
  BY <1>1, <1>2, <1>3, <1>4, <1>5, <1>6

(* What each of these parts of the desk needs holds in every state of every *)
(* behaviour: of the plans, of who may decide, of the people's work, of the *)
(* definitions, of the bookings of the assets and of the devices' use. It   *)
(* is no more than what its module's handlers keep; where the code takes no *)
(* lock and two requests may cross, the module says which crossings it has. *)
THEOREM DeskInvariant == Spec => []DeskInv
<1>1. Init => DeskInv
  BY PlansStart, AccessStart, StaffStart, CatalogueStart, UpkeepStart, GateStart DEF Init, DeskInv
<1>2. DeskInv /\ [Next]_vars => DeskInv'
  <2> SUFFICES ASSUME DeskInv, [Next]_vars PROVE DeskInv'
    OBVIOUS
  <2>1. Schemes!PlanNext \/ UNCHANGED plansVars
    BY DEF Next, vars
  <2>2. Allowed!AccessNext \/ UNCHANGED accessVars
    BY DEF Next, vars
  <2>3. Crew!StaffNext \/ UNCHANGED staffVars
    BY DEF Next, vars
  <2>4. Catalogue!DefinitionNext \/ UNCHANGED catalogueVars
    BY DEF Next, vars
  <2>5. Upkept!UpkeepNext \/ Permitted!UpkeepNext \/ UNCHANGED upkeepVars
    BY DEF Next, vars
  <2>6. Gate!AcceptanceNext \/ UNCHANGED gateVars
    BY DEF Next, vars
  <2>7. QED
    BY <2>1, <2>2, <2>3, <2>4, <2>5, <2>6, PlansStep, AccessStep, StaffStep, CatalogueStep, UpkeepStep, GateStep,
       OthersStay DEF DeskInv
<1>3. QED
  BY <1>1, <1>2, PTL DEF Spec

(* services/plan_service.py: a plan that runs was approved by everybody it  *)
(* was to be approved by, none of them its author, and as it runs by all of *)
(* them whose signature names a version, whoever edits, revises, withdraws  *)
(* or signs in between.                                                     *)
THEOREM PlansRunAsSigned == Spec => []SignaturesStand
<1>1. DeskInv => SignaturesStand
  BY PlansStand DEF DeskInv
<1>2. QED
  BY <1>1, DeskInvariant, PTL

(* services/identity_service.py, domain/permissions.py: nobody but an       *)
(* administrator administers, what the matrix saved last took from a role   *)
(* stays away through every upgrade, and no call of a service is taken that *)
(* it may not make any more; and                                            *)
(* services/people_service.py, domain/qualification.py: work stays with     *)
(* whoever is on duty and qualified for it.                                 *)
THEOREM WhoMayDecide == Spec => []AccessHolds
<1>1. DeskInv => AccessHolds
  BY AccessStands, StaffStands DEF DeskInv, AccessHolds
<1>2. QED
  BY <1>1, DeskInvariant, PTL

(* services/method_service.py, services/template_service.py,                *)
(* services/report_template_service.py, services/metric_service.py: one   *)
(* version is in force at a time, and it, and what a recipe, an adapter or  *)
(* a value takes from it, says what was approved or what an update that was *)
(* under way at the approval, or when it was taken, writes later.           *)
THEOREM DefinitionsStand == Spec => []DefinitionsHold
<1>1. DeskInv => DefinitionsHold
  BY CatalogueStands DEF DeskInv
<1>2. QED
  BY <1>1, DeskInvariant, PTL

(* services/asset_service.py, services/maintenance_service.py: no more      *)
(* bookings overlap than an asset has room for, what has ended keeps no     *)
(* time, and a window that counts as calibrated has passed its latest       *)
(* calibration throughout.                                                  *)
THEOREM AssetsFitAlways == Spec => []UpkeepHolds
<1>1. DeskInv => UpkeepHolds
  BY UpkeepStands DEF DeskInv
<1>2. QED
  BY <1>1, DeskInvariant, PTL

(* services/acceptance_service.py, services/point_service.py,               *)
(* services/station_service.py: a device is used only as the registration   *)
(* on record was accepted or answered for, moves in a run only as it was    *)
(* signed, and is written at most once, through every order of changes,     *)
(* runs, waivers, probes, driver swaps and restarts. What a driver does     *)
(* between two answers that say the same is not on record and not covered.  *)
THEOREM UsedAsAccepted == Spec => []GateHolds
<1>1. DeskInv => GateHolds
  BY GateStands DEF DeskInv
<1>2. QED
  BY <1>1, DeskInvariant, PTL

(* services/sop_service.py, services/recipe_service.py: no two versions of  *)
(* an SOP are in effect at a time, a step of a recipe is guided by the SOP  *)
(* step it was made from, an id the system gives to a recipe step names no  *)
(* other step that was there before, and in a recipe that is submitted      *)
(* every id names one step, through every order of edits, copies, revisions *)
(* and releases.                                                            *)
THEOREM DocumentsAlwaysHold == Spec => []DocumentsHold
<1>1. DocumentsInv => DocumentsHold
  BY DocumentsStand
<1>2. QED
  BY <1>1, DocumentsStart, DocumentsStep, PTL DEF Spec

(* services/analysis_service.py settle_assignment: a sample is done only    *)
(* when every task it was judged by has its values and its batch has ended, *)
(* also when the batch and the values are judged by rows that another       *)
(* request is just changing.                                                *)
THEOREM SamplesAreSettled == Spec => []SettledOnlyWhole
<1>1. ResultsInv => SettledOnlyWhole
  BY ResultsStand
<1>2. QED
  BY <1>1, ResultsStart, ResultsGoOn, PTL DEF Spec

(* services/report_service.py: a report that is approved or published is    *)
(* what its signer saw, if the signature names the report and its version,  *)
(* and one version at most is published, the last of those that were.       *)
THEOREM ReportsAlwaysStand == Spec => []ReportsStand
<1>1. ResultsInv => ReportsStand
  BY ResultsStand
<1>2. QED
  BY <1>1, ResultsStart, ResultsGoOn, PTL DEF Spec

(* services/station_service.py, services/asset_service.py: an open window   *)
(* finds its station as it was opened on it, a station is of an asset that  *)
(* is there and within its channels, and a released recipe that no station  *)
(* can carry out any longer is marked, through every order of changes of    *)
(* stations, limits, assets, links and capabilities, one at a time: no lock *)
(* keeps two requests apart (station_service.py:958, asset_service.py:272). *)
THEOREM EquipmentStands == Spec => []RegisterHolds
<1> DEFINE Inv == focus # "models" => RegisterInv
<1>1. Init => Inv
  BY RegisterStart DEF Init
<1>2. Inv /\ [Next]_vars => Inv'
  BY RegisterGoesOn
<1>3. Inv => RegisterHolds
  BY RegisterStands DEF RegisterHolds
<1>4. QED
  BY <1>1, <1>2, <1>3, PTL DEF Spec

=============================================================================
