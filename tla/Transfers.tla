----------------------------- MODULE Transfers ------------------------------
(***************************************************************************)
(* Plates and where they are (services/transfer_service.py,                 *)
(* domain/labware.py, models/labware.py).  Before a device acts on a batch  *)
(* the carrier brings the plate of the batch to a nest of the station; the   *)
(* location of a plate changes by the carrier's receipt, by the verdict of  *)
(* a person on a transfer of unknown outcome, and by a scan.  Places are     *)
(* given out one transaction at a time.  Where a plate really is (at) is     *)
(* beside what the system believes (plate[p].loc).                           *)
(***************************************************************************)
EXTENDS Integers, FiniteSets

CONSTANTS
  Plate, Batch, Person,
  Place,     \* nests, hotel slots and buffers
  NestOf,    \* [Place -> station of a nest, None for other places]
  Station,
  None,
  MaxScans,     \* bound: scans and edits by people
  MaxTroubles   \* bound: transfers that fail, stay unknown or are stopped

VARIABLES
  plate,     \* [Plate -> loc, state ("idle", "lost"), batch]
  at,        \* [Plate -> where it really is, None in the air or nowhere]
  logged,    \* [Plate -> destination of the latest entry of its log]
  xfer,      \* [Plate -> open transfer: state, from, to]
  batch,     \* [Batch -> "open", "active", "aborting", "ended"]
  act,       \* [Batch -> device action: state ("none", "queued", "acting"), station]
  active,    \* [Place -> in use]
  scan,      \* [Person -> scan under way: plate, to, the location and state it read]
  scans, troubles

tvars == <<plate, at, logged, xfer, batch, act, active, scan, scans, troubles>>

NoTransfer == [state |-> "none", from |-> None, to |-> None]
NoAct  == [state |-> "none", station |-> None]
NoScan == [plate |-> None, to |-> None, read |-> None, state |-> None]

Init ==
  /\ plate = [p \in Plate |-> [loc |-> None, state |-> "idle", batch |-> None]]
  /\ at = [p \in Plate |-> None] /\ logged = [p \in Plate |-> None]
  /\ xfer = [p \in Plate |-> NoTransfer]
  /\ batch = [b \in Batch |-> "open"] /\ act = [b \in Batch |-> NoAct]
  /\ active = [l \in Place |-> TRUE] /\ scan = [u \in Person |-> NoScan]
  /\ scans = 0 /\ troubles = 0

Edit    == scans < MaxScans /\ scans' = scans + 1
Trouble == troubles < MaxTroubles /\ troubles' = troubles + 1

-----------------------------------------------------------------------------
(* Rules.                                                                   *)

InTransit(p) == xfer[p].state # "none"
Standing == {plate[p].loc : p \in Plate} \ {None}
Bound    == {xfer[p].to : p \in {q \in Plate : InTransit(q)}}
Occupied == Standing \cup Bound

Moved(p, to, state) ==
  /\ plate' = [plate EXCEPT ![p].loc = to, ![p].state = state]
  /\ logged' = [logged EXCEPT ![p] = to]
Lost(p) == Moved(p, None, "lost")

AtStation(p, s) == plate[p].loc # None /\ NestOf[plate[p].loc] = s
Free(s) == {l \in Place : active[l] /\ NestOf[l] = s /\ l \notin Occupied}
Of(b) == {p \in Plate : plate[p].batch = b}

-----------------------------------------------------------------------------
(* Binding.                                                                 *)

Bind(b, p) ==
  /\ batch[b] = "open" /\ plate[p].state # "lost" /\ Edit
  /\ plate[p].batch \notin {None, b} => batch[plate[p].batch] = "ended"
  /\ plate' = [q \in Plate |-> IF q = p THEN [plate[p] EXCEPT !.batch = b]
                              ELSE IF plate[q].batch = b THEN [plate[q] EXCEPT !.batch = None] ELSE plate[q]]
  /\ UNCHANGED <<at, logged, xfer, batch, act, active, scan, troubles>>

Unbind(b, p) ==
  /\ batch[b] = "open" /\ p \in Of(b) /\ Edit
  /\ plate' = [plate EXCEPT ![p].batch = None]
  /\ UNCHANGED <<at, logged, xfer, batch, act, active, scan, troubles>>

(* Released only with a bound plate: without one there is nothing to bring.  *)
Release(b) ==
  /\ batch[b] = "open" /\ Of(b) # {} /\ batch' = [batch EXCEPT ![b] = "active"]
  /\ UNCHANGED <<plate, at, logged, xfer, act, active, scan, scans, troubles>>

-----------------------------------------------------------------------------
(* A device step is due: bring the plate, or begin at once.  Without a known *)
(* location or a free nest the command is refused.                           *)

Prepare(b, p, s) ==
  /\ batch[b] = "active" /\ p \in Of(b) /\ act[b].state = "none" /\ ~InTransit(p)
  /\ plate[p].state # "lost" /\ plate[p].loc # None
  /\ act' = [act EXCEPT ![b] = [state |-> "queued", station |-> s]]
  /\ \/ AtStation(p, s) /\ UNCHANGED xfer
     \/ /\ ~AtStation(p, s)
        /\ \E l \in Free(s) : xfer' = [xfer EXCEPT ![p] = [state |-> "sent", from |-> plate[p].loc, to |-> l]]
  /\ UNCHANGED <<plate, at, logged, batch, active, scan, scans, troubles>>

(* The carrier reads the barcode where the command says the plate stands, and *)
(* does not take another one, nor the place without it (GoesUnknown).         *)
PickUp(p) ==
  /\ xfer[p].state = "sent" /\ at[p] = xfer[p].from
  /\ xfer' = [xfer EXCEPT ![p].state = "moving"] /\ at' = [at EXCEPT ![p] = None]
  /\ UNCHANGED <<plate, logged, batch, act, active, scan, scans, troubles>>

SetDown(p) ==
  /\ xfer[p].state = "moving" /\ xfer' = [xfer EXCEPT ![p].state = "arrived"]
  /\ at' = [at EXCEPT ![p] = xfer[p].to]
  /\ UNCHANGED <<plate, logged, batch, act, active, scan, scans, troubles>>

Elsewhere(p, l) == \E q \in Plate \ {p} : plate[q].loc = l

(* The receipt.  A plate the system knows at the destination contradicts it: *)
(* the location is lost and the batch has failed at this step.               *)
Complete(p) ==
  /\ xfer[p].state = "arrived" /\ xfer' = [xfer EXCEPT ![p] = NoTransfer]
  /\ IF Elsewhere(p, xfer[p].to)
     THEN Lost(p) /\ act' = [act EXCEPT ![plate[p].batch] = NoAct]
     ELSE Moved(p, xfer[p].to, "idle") /\ UNCHANGED act
  /\ UNCHANGED <<at, batch, active, scan, scans, troubles>>

(* No answer: the action that waits is withdrawn, a person has to look.      *)
GoesUnknown(p) ==
  /\ xfer[p].state \in {"sent", "moving", "arrived"} /\ Trouble
  /\ xfer' = [xfer EXCEPT ![p].state = "unknown"]
  /\ act' = [act EXCEPT ![plate[p].batch] = NoAct]
  /\ UNCHANGED <<plate, at, logged, batch, active, scan, scans>>

(* The verdict of who has looked: it stands at the destination, it has not   *)
(* moved, or anything else.                                                  *)
Verifiable_Mut(p) == xfer[p].state = "unknown" /\ at[p] = xfer[p].to
Verifiable(p) == xfer[p].state = "unknown"
Verify(p) ==
  /\ Verifiable(p) /\ xfer' = [xfer EXCEPT ![p] = NoTransfer]
  /\ CASE at[p] = xfer[p].to   -> ~Elsewhere(p, xfer[p].to) /\ Moved(p, xfer[p].to, "idle")
       [] at[p] = xfer[p].from -> UNCHANGED <<plate, logged>>
       [] OTHER -> Lost(p)
  /\ UNCHANGED <<at, batch, act, active, scan, scans, troubles>>

Act(b) ==
  /\ act[b].state = "queued" /\ \A p \in Of(b) : ~InTransit(p)
  /\ act' = [act EXCEPT ![b].state = "acting"]
  /\ UNCHANGED <<plate, at, logged, xfer, batch, active, scan, scans, troubles>>

ActEnds(b) ==
  /\ act[b].state = "acting" /\ act' = [act EXCEPT ![b] = NoAct]
  /\ UNCHANGED <<plate, at, logged, xfer, batch, active, scan, scans, troubles>>

(* The end of a batch, or its abort: what is only queued is cancelled, a     *)
(* carrier that moves is stopped and the plate is nowhere that can be        *)
(* trusted, like after a transfer nobody has looked at.                      *)
Finish(b) ==
  /\ batch[b] = "active" /\ act[b].state = "none" /\ \A p \in Of(b) : ~InTransit(p)
  /\ batch' = [batch EXCEPT ![b] = "ended"]
  /\ UNCHANGED <<plate, at, logged, xfer, act, active, scan, scans, troubles>>

Dropped_Mut(p) == UNCHANGED <<plate, logged>>
Dropped(p) == Lost(p)
Abort(b, p) ==
  /\ batch[b] = "active" /\ p \in Of(b) /\ act[b].state # "acting" /\ Trouble
  /\ batch' = [batch EXCEPT ![b] = "ended"] /\ act' = [act EXCEPT ![b] = NoAct]
  /\ xfer' = [xfer EXCEPT ![p] = NoTransfer]
  /\ IF xfer[p].state \in {"moving", "arrived", "unknown"}
     THEN Dropped(p) ELSE UNCHANGED <<plate, logged>>
  /\ UNCHANGED <<at, active, scan, scans>>

-----------------------------------------------------------------------------
(* A person puts a plate somewhere and scans both.  The plate is read before *)
(* the lock of the places is there, the rest after.  What was read decides    *)
(* what the row gets: its location is written only when it differs from the  *)
(* one that was read, its state only when that was lost; the log is written  *)
(* in any case.  So a scan that read the plate before a ride, a verdict or   *)
(* another scan of it commits leaves a row that is not what the log says.    *)

Scan(u, p, l) ==
  /\ scan[u] = NoScan /\ Edit
  /\ scan' = [scan EXCEPT ![u] = [plate |-> p, to |-> l, read |-> plate[p].loc,
                             state |-> plate[p].state]]
  /\ UNCHANGED <<plate, at, logged, xfer, batch, act, active, troubles>>

Allowed_Mut(p, l) ==
  ~InTransit(p) /\ (l # None => active[l] /\ l \notin {plate[q].loc : q \in Plate \ {p}})
Allowed(p, l) ==
  /\ ~InTransit(p)
  /\ l # None => active[l] /\ l \notin {plate[q].loc : q \in Plate \ {p}} \cup Bound

Placed(u) ==
  LET p == scan[u].plate  l == scan[u].to IN
  /\ p # None /\ scan' = [scan EXCEPT ![u] = NoScan]
  /\ IF Allowed(p, l)
     THEN /\ plate' = [plate EXCEPT ![p].loc = IF l = scan[u].read THEN @ ELSE l,
                                    ![p].state = IF scan[u].state = "lost" THEN "idle" ELSE @]
          /\ logged' = [logged EXCEPT ![p] = l] /\ at' = [at EXCEPT ![p] = l]
     ELSE UNCHANGED <<plate, logged, at>>
  /\ UNCHANGED <<xfer, batch, act, active, scans, troubles>>

SetActive(l) ==
  /\ Edit /\ (active[l] => l \notin Occupied)
  /\ active' = [active EXCEPT ![l] = ~@]
  /\ UNCHANGED <<plate, at, logged, xfer, batch, act, scan, troubles>>

Next ==
  \/ \E b \in Batch : Release(b) \/ Act(b) \/ ActEnds(b) \/ Finish(b)
  \/ \E b \in Batch, p \in Plate : Bind(b, p) \/ Unbind(b, p) \/ Abort(b, p) \/ \E s \in Station : Prepare(b, p, s)
  \/ \E p \in Plate : PickUp(p) \/ SetDown(p) \/ Complete(p) \/ GoesUnknown(p) \/ Verify(p)
  \/ \E u \in Person : Placed(u) \/ \E p \in Plate, l \in Place \cup {None} : Scan(u, p, l)
  \/ \E l \in Place : SetActive(l)

Fairness == \A p \in Plate : WF_tvars(PickUp(p)) /\ WF_tvars(SetDown(p)) /\ WF_tvars(Complete(p)) /\ WF_tvars(Verify(p))

-----------------------------------------------------------------------------
(* No place is given out twice: no two plates are booked in one place, nor is *)
(* a plate on its way to a place where another one is booked or is being      *)
(* taken, whatever order scans, transfers, stops and verdicts come in.        *)
OnePlateAPlace == \A p, q \in Plate : p # q =>
  /\ plate[p].loc = None \/ plate[p].loc # plate[q].loc
  /\ xfer[p].to = None \/ xfer[p].to \notin {plate[q].loc, xfer[q].to}

(* Where the log of moves names a place for a plate without a transfer under  *)
(* way, the plate is there, also after rides that failed half way.            *)
LogTellsTheTruth == \A p \in Plate :
  ~InTransit(p) /\ logged[p] # None => at[p] = logged[p]

(* A transfer comes to an end and its places become free.                   *)
TransfersEnd == \A p \in Plate : []<>~InTransit(p)

(* The plates are accounted for: each has a place of its own on the books,   *)
(* and is where the log of its moves says.                                    *)
PlatesAccountedFor == OnePlateAPlace /\ LogTellsTheTruth

=============================================================================
