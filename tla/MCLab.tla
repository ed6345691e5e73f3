------------------------------- MODULE MCLab -------------------------------
(*****************************************************************************)
(* What feeds the batches, explored part by part: the stock they book, the   *)
(* time windows they hold, and the tasks they belong to. The parts share no  *)
(* state, so one run explores them one after another: focus says which of    *)
(* them moves. The stock is explored twice: once for two batches and         *)
(* everything people do, one transaction after another, and once for         *)
(* receipts that overlap; the tasks once for the tree they form and once for *)
(* the batches they start after each other.                                   *)
(*****************************************************************************)
EXTENDS Schedule

CONSTANTS Parts,   \* the parts this run explores
          Overlap  \* bookings of stock may overlap

LabBooked == {[a |-> "a1", from |-> 4, to |-> 5, u |-> 1]}
LabRoles == [A |-> {""}, B |-> {}]
LabPriority == [A |-> 2, B |-> 1]

\* Two lots; what batches ask for and what their receipts say.
TwoBatches(one, two) == [b \in 1..2 |-> IF b = 1 THEN one ELSE two]
TwoLots(old, new) == [l \in {"old", "new"} |-> IF l = "old" THEN old ELSE new]

\* A recipe of three steps with an assistant and a sample that moves twice, and
\* one of a single step for the same stations.
LabStep(able, dur, pre) ==
  [able |-> able, dur |-> dur, pre |-> pre, hold |-> FALSE, assist |-> <<>>, gap |-> None, role |-> ""]
LabRecipe == [A |-> <<LabStep({"s1"}, 1, {}), [LabStep({"s2", "s3"}, 1, {1}) EXCEPT !.assist = <<{"s3", "arm"}>>],
                   LabStep({"s1"}, 1, {1})>>,
           B |-> <<LabStep({"s2"}, 1, {})>>]
LabChannels == [s1 |-> 1, s2 |-> 1, s3 |-> 1, arm |-> 1]
LabAssetOf == [s1 |-> "a1", s2 |-> "a2", s3 |-> "a2", arm |-> "a3"]
LabCapacity == [a1 |-> 1, a2 |-> 2, a3 |-> 1]
LabExpiry == [s1 |-> 30, s2 |-> 30, s3 |-> 30, arm |-> 30]
LabRank == [arm |-> 0, s1 |-> 1, s2 |-> 2, s3 |-> 3]

VARIABLES
  focus,  \* the part at work
  qty, usable, res, ledger, life, locked, tx, cut, manual,
  task, batch, cover, approved, slow, met, edits

stockVars == <<qty, usable, res, ledger, life, locked, tx, cut, manual>>
tasksVars == <<task, batch, cover, approved, slow, met, edits>>
vars == <<focus, stockVars, hvars, tasksVars>>

Stock == INSTANCE Inventory WITH Session <- {"x", "y"}, Batch <- 1..2, Lot <- <<"old", "new">>,
                                 Opening <- TwoLots(2, 1), Wanted <- TwoBatches(2, 2),
                                 Reported <- TwoBatches(3, 2), Tolerance <- 1, MaxManual <- 2
Receipts == INSTANCE Inventory WITH Session <- {"x", "y"}, Batch <- 1..2,
                                    Lot <- <<"old", "new">>, Opening <- TwoLots(3, 3),
                                    Wanted <- TwoBatches(2, 3), Reported <- TwoBatches(3, 4),
                                    Tolerance <- 1, MaxManual <- 0, Overlap <- TRUE
Tree == INSTANCE Tasks WITH MaxTask <- 4, Person <- {"p"}, Total <- <<1, 2>>, Plate <- 1,
                            MaxDepth <- 2, MaxCreated <- 2, MaxRuns <- 1, MaxEdits <- 1
Starts == INSTANCE Tasks WITH MaxTask <- 4, Person <- {"p"}, Total <- <<1>>, Plate <- 1,
                              MaxDepth <- 2, MaxCreated <- 2, MaxRuns <- 2, MaxEdits <- 1

LabInit ==
  /\ focus \in Parts
  /\ IF focus = "receipts" THEN Receipts!Init ELSE Stock!Init
  /\ Init
  /\ Tree!Init

LabNext ==
  /\ focus' = focus
  /\ \/ focus = "stock" /\ Stock!Next
        /\ UNCHANGED <<hvars, tasksVars>>
     \/ focus = "receipts" /\ Receipts!Next
        /\ UNCHANGED <<hvars, tasksVars>>
     \/ focus = "windows" /\ Next
        /\ UNCHANGED <<stockVars, tasksVars>>
     \/ focus = "tasks" /\ Tree!TNext
        /\ UNCHANGED <<stockVars, hvars>>
     \/ focus = "starts" /\ Starts!TNext
        /\ UNCHANGED <<stockVars, hvars>>

LabSpec == LabInit /\ [][LabNext]_vars

-----------------------------------------------------------------------------
(* The balance of a lot is the sum of its ledger (Inventory).               *)
LedgerBalances == focus = "stock" => Stock!LedgerBalances

(* The balance of a lot is the sum of its ledger, what a device reported is  *)
(* booked whole and once or not at all, and what is promised to batches is on *)
(* the shelf (Inventory).                                                     *)
StockHolds ==
  /\ LedgerBalances
  /\ IF focus = "receipts" THEN Receipts!BookedWhole ELSE Stock!BookedWhole
  /\ focus = "stock" => Stock!PromisesCovered

(* A batch starts on upstream work that is over (Tasks).                     *)
UpstreamHasEnded == Tree!UpstreamHasEnded

=============================================================================
