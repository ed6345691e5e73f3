------------------------------- MODULE Inventory -------------------------------
(***************************************************************************)
(* Stock: lots, the reservations of batches, and the ledger every change   *)
(* of a balance goes through (services/inventory_service.py), with its     *)
(* users: the consumption a receipt reports (consumption_service.py), the  *)
(* reservation a new batch makes and its termination gives back, and the   *)
(* counts, write-offs and scrappings of people (material_service.py).      *)
(*                                                                         *)
(* A transaction reads the rows it will work on (Begin), then takes its    *)
(* lines one by one under the row lock of the lot (Line), then commits.    *)
(* Taking the lock does not read the row again: what the session read      *)
(* before stays what it computes with.                                     *)
(***************************************************************************)
EXTENDS Integers, Sequences, FiniteSets, SequencesExt, FiniteSetsExt

CONSTANTS Session,        \* transactions that may be open at once
          Batch,          \* batches; each wants Wanted and reports Reported
          Lot,            \* <<...>>: the released lots by expiry, as names
          Opening,        \* [lots -> balance on arrival]
          Wanted, Reported, \* [Batch -> amount]: of the plan, of the device
          Tolerance,      \* the shortfall that is topped up automatically
          Overlap,        \* whether a transaction may begin while one is open
          None, MaxManual \* changes people make

VARIABLES qty,            \* the lots' balances
          usable,         \* lots not scrapped
          res,            \* the reservations, by batch and lot
          ledger,         \* the committed lines
          life,           \* the batches: "new", "reserved" or "ended"
          locked,         \* who holds the row lock of a lot
          tx,             \* the open transactions
          cut, manual

ivars == <<qty, usable, res, ledger, life, locked, tx, cut, manual>>

Lots == ToSet(Lot)
NoRow == [authorized |-> 0, used |-> 0, released |-> 0, issued |-> 0, returned |-> 0]

\* What a reservation still holds, and the part of it that was handed out.
AtLeast0(n) == IF n > 0 THEN n ELSE 0
Outstanding(r) == AtLeast0(r.authorized - r.used - r.released)
IssuedOutstanding(r) == AtLeast0(r.issued - r.used - r.returned)
Unissued(r) == AtLeast0(Outstanding(r) - IssuedOutstanding(r))
Promised(rows, l) == MapThenSumSet(LAMBDA b : Outstanding(rows[b][l]), Batch)

Idle == [op |-> "idle"]

Init ==
    /\ qty = Opening
    /\ usable = Lots
    /\ res = [b \in Batch |-> [l \in Lots |-> NoRow]]
    /\ ledger = {}
    /\ life = [b \in Batch |-> "new"]
    /\ locked = [l \in Lots |-> None]
    /\ tx = [s \in Session |-> Idle]
    /\ cut = {} /\ manual = 0

(***************************************************************************)
(* A session holds the rows as it first read them (had; None: not read)    *)
(* and the same rows with its own changes (has); a commit writes the       *)
(* columns in which the two differ.  bal is a lot's balance, row a batch's *)
(* reservation of it.                                                      *)
(***************************************************************************)
Item(kind, l, n) == [kind |-> kind, lot |-> l, n |-> n]
RowOf(b, l) == IF b = None THEN NoRow ELSE res[b][l]
Read(b, lots, rows) == [bal |-> [l \in Lots |-> IF l \in lots THEN qty[l] ELSE None],
                        row |-> [l \in Lots |-> IF l \in rows THEN RowOf(b, l) ELSE None]]
Written(key) == \E x \in ledger : x.key = key

Begin(s, key, b, read, items, need) ==
    /\ tx[s] = Idle
    /\ Overlap \/ \A o \in Session : tx[o] = Idle
    /\ tx' = [tx EXCEPT ![s] = [op |-> key[1], key |-> key, batch |-> b, todo |-> items, need |-> need,
                                had |-> read, has |-> read, lines |-> {}]]
    /\ UNCHANGED <<qty, usable, res, ledger, life, locked, cut>>

(***************************************************************************)
(* What a transaction sets out to do.                                      *)
(***************************************************************************)
\* A new batch: the released lots by expiry, of each as much as is free.
ReserveForBatch(s, b) ==
    /\ life[b] = "new" /\ UNCHANGED manual
    /\ Begin(s, <<"reserve", b>>, b, Read(b, usable, {}),
             [i \in 1..Len(Lot) |-> Item("take", Lot[i], 0)], Wanted[b])

\* The reservations a reported amount falls on, by expiry of their lots.
Allocate(rows, amount) ==
    FoldLeft(LAMBDA acc, l :
                 LET take == Min({Outstanding(rows[l]), acc.left}) IN
                 IF take = 0 THEN acc
                 ELSE [left |-> acc.left - take, items |-> Append(acc.items, Item("consume", l, take))],
             [left |-> amount, items |-> <<>>], Lot)
Candidates(rows) == SelectSeq(Lot, LAMBDA l : rows[l].authorized > 0)
Refused(rows, amount) == Candidates(rows) = <<>> \/ Allocate(rows, amount).left > Tolerance

\* A shortfall within the tolerance is reserved first, then all of it is booked.
Plan_Mut(rows, amount) == Allocate(rows, amount).items
Plan(rows, amount) ==
    LET got == Allocate(rows, amount)
        last == IF got.items # <<>> THEN Last(got.items).lot ELSE Head(Candidates(rows)) IN
    IF got.left = 0 THEN got.items
    ELSE <<Item("reserve", last, got.left)>>
         \o Allocate([rows EXCEPT ![last].authorized = @ + got.left], amount).items

\* A receipt reports what was used; it may come more than once.
Book(s, b) ==
    /\ life[b] # "new" /\ ~Written(<<"consume", b>>) /\ UNCHANGED manual
    /\ ~Refused(res[b], Reported[b])
    /\ LET held == ToSet(Candidates(res[b])) IN
       Begin(s, <<"consume", b>>, b, Read(b, held, held), Plan(res[b], Reported[b]), 0)

\* The end of a batch gives back what was reserved and not handed out.
ReleaseBatch(s, b) ==
    /\ life[b] = "reserved" /\ UNCHANGED manual
    /\ LET held == SelectSeq(Lot, LAMBDA l : Unissued(res[b][l]) > 0) IN
       Begin(s, <<"release", b>>, b, Read(b, {}, Lots),
             [i \in 1..Len(held) |-> Item("release", held[i], Unissued(res[b][held[i]]))], 0)

\* A stock count: not below what is promised, as read before the lock.
AdjustLot(s, l, n) ==
    /\ l \in usable /\ n >= Promised(res, l)
    /\ manual < MaxManual /\ manual' = manual + 1
    /\ Begin(s, <<"adjust", l, qty[l], n>>, None, Read(None, {l}, {}), <<Item("adjust", l, n)>>, 0)

ScrapLot(s, l) ==
    /\ l \in usable /\ Promised(res, l) = 0
    /\ manual < MaxManual /\ manual' = manual + 1
    /\ Begin(s, <<"scrap", l>>, None, Read(None, {l}, {}),
             IF qty[l] > 0 THEN <<Item("loss", l, qty[l])>> ELSE <<>>, 0)

\* An event entered by hand, with a reservation or (a write-off, a delivery) without.
PostByHand(s, kind, b, l, n) ==
    /\ manual < MaxManual /\ manual' = manual + 1
    /\ b = None => kind \in {"loss", "receive"}
    /\ b # None => kind \in {"loss", "issue", "return", "release"} /\ res[b][l].authorized > 0
    /\ Begin(s, <<"hand", manual>>, b, Read(b, {}, {}), <<Item(kind, l, n)>>, 0)

(***************************************************************************)
(* One line: its lot is locked, what the session has not read is read now, *)
(* the line is checked, and balance and reservation move together.         *)
(***************************************************************************)
Bal(t, l) == IF t.has.bal[l] = None THEN qty[l] ELSE t.has.bal[l]
Row(t, l) == IF t.has.row[l] = None THEN RowOf(t.batch, l) ELSE t.has.row[l]
Free_Mut(t, l) == AtLeast0(Bal(t, l))
Free(t, l) ==
    LET rows == [b \in Batch |-> IF b = t.batch THEN [res[b] EXCEPT ![l] = Row(t, l)] ELSE res[b]] IN
    AtLeast0(Bal(t, l) - Promised(rows, l))

Problem(t, x) ==
    LET r == Row(t, x.lot)  bal == Bal(t, x.lot) IN
    CASE x.kind = "consume" -> x.n > Outstanding(r) \/ x.n > bal
      [] x.kind = "loss" /\ t.batch # None -> x.n > Outstanding(r) \/ x.n > bal
      [] x.kind = "loss" /\ t.batch = None -> x.n > bal
      [] x.kind = "release" -> x.n > Unissued(r)
      [] x.kind = "issue" -> x.n > Outstanding(r) - IssuedOutstanding(r)
      [] x.kind = "return" -> x.n > IssuedOutstanding(r)
      [] x.kind = "reserve" -> x.n > Free(t, x.lot)
      [] OTHER -> FALSE

Delta_Mut(kind, n, bal) == IF kind = "adjust" THEN n ELSE IF kind \in {"consume", "loss"} THEN -n ELSE 0
Delta(kind, n, bal) ==
    CASE kind \in {"consume", "loss"} -> -n
      [] kind = "receive" -> n
      [] kind = "adjust" -> n - bal
      [] OTHER -> 0

Moved(kind, r, n) ==
    CASE kind \in {"consume", "loss"} -> [r EXCEPT !.used = @ + n]
      [] kind = "release" -> [r EXCEPT !.released = @ + n]
      [] kind = "issue" -> [r EXCEPT !.issued = @ + n]
      [] kind = "return" -> [r EXCEPT !.returned = @ + n]
      [] kind = "reserve" -> [r EXCEPT !.authorized = @ + n]
      [] OTHER -> r

\* A line of a new batch's reservation takes what is free, up to what is missing.
Resolved(t, x) ==
    IF x.kind = "take" THEN Item("reserve", x.lot, IF x.lot \in usable THEN Min({Free(t, x.lot), t.need}) ELSE 0)
    ELSE x

Applied(t, x) ==
    LET bal == Bal(t, x.lot)  r == Row(t, x.lot)  d == Delta(x.kind, x.n, bal) IN
    [t EXCEPT !.todo = Tail(@), !.need = AtLeast0(@ - IF x.kind = "reserve" THEN x.n ELSE 0),
              !.had.bal[x.lot] = IF @ = None THEN bal ELSE @,
              !.had.row[x.lot] = IF @ = None THEN r ELSE @,
              !.has.bal[x.lot] = IF x.kind = "adjust" THEN x.n ELSE bal + d,
              !.has.row[x.lot] = IF t.batch = None THEN r ELSE Moved(x.kind, r, x.n),
              !.lines = IF x.n = 0 /\ x.kind # "adjust" THEN @
                        ELSE @ \cup {[key |-> t.key, kind |-> x.kind, lot |-> x.lot, n |-> x.n, delta |-> d]}]

\* The event's row is inserted first: an equal event still open is waited for.
MayInsert(s) == \A o \in Session \ {s} : tx[o] # Idle /\ tx[o].lines # {} => tx[o].key # tx[s].key
Closed(s) == /\ tx' = [tx EXCEPT ![s] = Idle]
             /\ locked' = [l \in Lots |-> IF locked[l] = s THEN None ELSE locked[l]]

TakeLine(s) ==
    /\ tx[s] # Idle /\ tx[s].todo # <<>> /\ MayInsert(s) /\ ~Written(tx[s].key)
    /\ LET t == tx[s]  l == Head(t.todo).lot IN
       /\ locked[l] \in {None, s}
       /\ ~Problem(t, Resolved(t, Head(t.todo)))
       /\ tx' = [tx EXCEPT ![s] = Applied(t, Resolved(t, Head(t.todo)))]
       /\ locked' = [locked EXCEPT ![l] = s]
    /\ UNCHANGED <<qty, usable, res, ledger, life, cut, manual>>

\* One line is refused, or a new batch cannot be covered: nothing of it stays.
Refuse(s) ==
    /\ tx[s] # Idle
    /\ LET t == tx[s] IN
       \/ t.todo = <<>> /\ t.need > 0
       \/ /\ t.todo # <<>> /\ locked[Head(t.todo).lot] \in {None, s}
          /\ Problem(t, Resolved(t, Head(t.todo)))
    /\ Closed(s)
    /\ UNCHANGED <<qty, usable, res, ledger, life, cut, manual>>

\* An equal event was booked: its result is answered again.
Replay(s) ==
    /\ tx[s] # Idle /\ tx[s].lines = {} /\ Written(tx[s].key)
    /\ Closed(s)
    /\ usable' = IF tx[s].op = "scrap" THEN usable \ {tx[s].key[2]} ELSE usable
    /\ UNCHANGED <<qty, res, ledger, life, cut, manual>>

\* Two sessions wait for each other's lots: the database ends one of them.
Deadlock(s) ==
    /\ \E o \in Session \ {s} :
          /\ tx[s] # Idle /\ tx[o] # Idle /\ tx[s].todo # <<>> /\ tx[o].todo # <<>>
          /\ locked[Head(tx[s].todo).lot] = o /\ locked[Head(tx[o].todo).lot] = s
    /\ Closed(s)
    /\ UNCHANGED <<qty, usable, res, ledger, life, cut, manual>>

Columns(had, has, now) == [c \in DOMAIN now |-> IF has[c] # had[c] THEN has[c] ELSE now[c]]

Commit(s) ==
    /\ tx[s] # Idle /\ tx[s].todo = <<>> /\ tx[s].need = 0
    /\ LET t == tx[s] IN
       /\ qty' = Columns(t.had.bal, t.has.bal, qty)
       /\ res' = IF t.batch = None THEN res
                 ELSE [res EXCEPT ![t.batch] =
                          [l \in Lots |-> IF t.has.row[l] = None THEN @[l]
                                          ELSE Columns(t.had.row[l], t.has.row[l], @[l])]]
       /\ ledger' = ledger \cup t.lines
       /\ life' = CASE t.op = "reserve" -> [life EXCEPT ![t.batch] = "reserved"]
                    [] t.op = "release" -> [life EXCEPT ![t.batch] = "ended"]
                    [] OTHER -> life
       /\ usable' = IF t.op = "scrap" THEN usable \ {t.key[2]} ELSE usable
       /\ cut' = cut \cup {l \in Lots : t.op = "hand" /\ t.batch = None /\ qty'[l] < Promised(res, l)}
    /\ Closed(s)
    /\ UNCHANGED manual

Next == \E s \in Session :
    \/ \E b \in Batch : ReserveForBatch(s, b) \/ Book(s, b) \/ ReleaseBatch(s, b)
    \/ \E l \in Lots : \/ ScrapLot(s, l)
                       \/ \E n \in 0..2 : AdjustLot(s, l, n)
                       \/ \E b \in Batch \cup {None}, kind \in {"loss", "receive", "issue", "return", "release"} :
                             PostByHand(s, kind, b, l, 1)
    \/ TakeLine(s) \/ Refuse(s) \/ Replay(s) \/ Deadlock(s) \/ Commit(s)

Spec == Init /\ [][Next]_ivars

--------------------------------------------------------------------------------
(* Safety.                                                                 *)

Sum(S) == MapThenSumSet(LAMBDA x : x.delta, S)

\* The balance of a lot is the sum of its ledger: ledger_for_lot shows any other
\* value as a difference between books and stock.
LedgerBalances ==
    \A l \in Lots : qty[l] = Opening[l] + Sum({x \in ledger : x.lot = l})

\* What a device reported is booked whole, over as many lots as it takes, or
\* not at all, and once however often the receipt comes.
BookedWhole ==
    \A b \in Batch :
       LET mine == {x \in ledger : x.key = <<"consume", b>> /\ x.kind = "consume"} IN
       mine # {} => MapThenSumSet(LAMBDA x : x.n, mine) = Reported[b]

\* What is promised to batches is on the shelf, unless a person wrote stock
\* off by hand below it: reservations, top-ups, counts and scrappings respect
\* each other's promises.
PromisesCovered ==
    \A l \in Lots \ cut : Promised(res, l) <= qty[l]
================================================================================
