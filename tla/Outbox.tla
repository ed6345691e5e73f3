------------------------------- MODULE Outbox -------------------------------
(***************************************************************************)
(* Delivery of the events of the outbox to their subscribers                *)
(* (services/integration_service.py).  A pass of the executor takes the due *)
(* rows, pushes their next attempt into the future as a lease, and sends    *)
(* them one after the other, each in a transaction of its own.  One pass    *)
(* runs at a time (see Leadership); it may die between any two steps, and   *)
(* the administrator edits subscriptions and repeats deliveries meanwhile.  *)
(* A unit of time is the time-out of one send.                              *)
(***************************************************************************)
EXTENDS Integers, FiniteSets

CONSTANTS
  Delivery,    \* rows of the outbox, all of one subscription
  None,        \* no row in hand
  MaxAttempts, \* webhook_max_attempts
  Lease,       \* units a row is left alone once a pass has taken it
  MaxEdits,    \* bound: what the administrator does
  MaxUpsets    \* bound: failed sends, lost answers and crashes

VARIABLES
  row,       \* [Delivery -> state, attempts, units until it is due]
  sub,       \* the subscription: enabled, sound (channel_issues is empty)
  todo,      \* rows the pass has taken and not yet reached
  hand,      \* the row in hand
  seen,      \* its number of attempts when it was read
  sending,   \* "none", "checked" (subscription and row read), "taken" or "refused"
  received,  \* [Delivery -> since when it was queued, how often the receiver got it]
  excused,   \* rows found without a usable subscription, or requeued while in hand
  edits, upsets

ovars == <<row, sub, todo, hand, seen, sending, received, excused, edits, upsets>>

Init ==
  /\ row = [d \in Delivery |-> [state |-> "none", attempts |-> 0, wait |-> 0]]
  /\ sub = [enabled |-> TRUE, sound |-> TRUE]
  /\ todo = {} /\ hand = None /\ seen = 0 /\ sending = "none"
  /\ received = [d \in Delivery |-> 0] /\ excused = {} /\ edits = 0 /\ upsets = 0

Upset == upsets < MaxUpsets /\ upsets' = upsets + 1
Edit  == edits < MaxEdits /\ edits' = edits + 1

(* Rows appear with the business change they tell of, for subscriptions     *)
(* that are enabled then, or as a test event the administrator asks for.    *)
Queue(d) ==
  /\ row[d].state = "none" /\ sub.enabled
  /\ row' = [row EXCEPT ![d].state = "pending"]
  /\ UNCHANGED <<sub, todo, hand, seen, sending, received, excused, edits, upsets>>

Update ==
  /\ Edit /\ \E e, s \in BOOLEAN : sub' = [sub EXCEPT !.enabled = e, !.sound = s]
  /\ UNCHANGED <<row, todo, hand, seen, sending, received, excused, upsets>>

Redeliver(d) ==
  /\ row[d].state # "none" /\ Edit
  /\ row' = [row EXCEPT ![d] = [state |-> "pending", attempts |-> 0, wait |-> 0]]
  /\ IF d = hand THEN excused' = excused \cup {d} /\ UNCHANGED received
     ELSE excused' = excused \ {d} /\ received' = [received EXCEPT ![d] = 0]
  /\ UNCHANGED <<sub, todo, hand, seen, sending, upsets>>

Tick ==
  /\ \E d \in Delivery : row[d].wait > 0
  /\ row' = [d \in Delivery |-> [row[d] EXCEPT !.wait = IF @ > 0 THEN @ - 1 ELSE 0]]
  /\ UNCHANGED <<sub, todo, hand, seen, sending, received, excused, edits, upsets>>

-----------------------------------------------------------------------------
Due == {d \in Delivery : row[d].state = "pending" /\ row[d].wait = 0}
Working == hand # None \/ todo # {}

Leased_Mut(r) == [r EXCEPT !.state = "sending"]
Leased(r) == [r EXCEPT !.wait = Lease]
Claim ==
  /\ ~Working /\ Due # {}
  /\ todo' = Due
  /\ row' = [d \in Delivery |-> IF d \in Due THEN Leased(row[d]) ELSE row[d]]
  /\ UNCHANGED <<sub, hand, seen, sending, received, excused, edits, upsets>>

(* The row and the subscription are read anew: what is no longer pending is *)
(* skipped, what has no enabled subscription is dead.                        *)
StillPending(d) == row[d].state = "pending"
TakeUp(d) ==
  /\ hand = None /\ d \in todo /\ todo' = todo \ {d}
  /\ IF ~StillPending(d) THEN UNCHANGED <<row, hand, seen, sending, excused>>
     ELSE IF ~sub.enabled
     THEN /\ row' = [row EXCEPT ![d].state = "dead"] /\ excused' = excused \cup {d}
          /\ UNCHANGED <<hand, seen, sending>>
     ELSE /\ hand' = d /\ seen' = row[d].attempts /\ sending' = (IF sub.sound THEN "checked" ELSE "unsound")
          /\ excused' = (IF sub.sound THEN excused ELSE excused \cup {d})
          /\ UNCHANGED row
  /\ UNCHANGED <<sub, received, edits, upsets>>

Send ==
  /\ sending = "checked"
  /\ \/ /\ sending' = "taken" /\ received' = [received EXCEPT ![hand] = @ + 1] /\ UNCHANGED upsets
     \/ /\ Upset /\ sending' = "refused" /\ UNCHANGED received
     \/ /\ Upset /\ sending' = "refused" /\ received' = [received EXCEPT ![hand] = @ + 1]
  /\ UNCHANGED <<row, sub, todo, hand, seen, excused, edits>>

(* Only the columns that change are written: the state stays what somebody  *)
(* else has made of it unless this attempt was the last one.                 *)
Backoff == 1
LastAttempt_Mut(n) == n >= MaxAttempts - 1
LastAttempt(n) == n >= MaxAttempts
Settled(r) ==
  LET n == seen + 1 IN
  IF sending = "taken" THEN [r EXCEPT !.attempts = n, !.state = "delivered"]
  ELSE IF LastAttempt(n) \/ sending = "unsound" THEN [r EXCEPT !.attempts = n, !.state = "dead"]
  ELSE [r EXCEPT !.attempts = n, !.wait = Backoff]
Settle ==
  /\ sending \in {"taken", "refused", "unsound"}
  /\ row' = [row EXCEPT ![hand] = Settled(@)]
  /\ hand' = None /\ seen' = 0 /\ sending' = "none"
  /\ UNCHANGED <<sub, todo, received, excused, edits, upsets>>

Crash ==
  /\ Working /\ Upset /\ todo' = {} /\ hand' = None /\ seen' = 0 /\ sending' = "none"
  /\ UNCHANGED <<row, sub, received, excused, edits>>

Next ==
  \/ \E d \in Delivery : Queue(d) \/ Redeliver(d) \/ TakeUp(d)
  \/ Update \/ Tick \/ Claim \/ Send \/ Settle \/ Crash

Fairness ==
  /\ WF_ovars(Tick) /\ WF_ovars(Claim) /\ WF_ovars(Send) /\ WF_ovars(Settle)
  /\ \A d \in Delivery : WF_ovars(TakeUp(d))

-----------------------------------------------------------------------------
(* A row is called delivered only when the receiver has taken it since it   *)
(* was last queued, and dead only after the whole number of attempts or      *)
(* because there was nowhere to send it: an event never gets lost in between *)
(* passes that die, retries and edits of the administrator.                   *)
NothingLost == \A d \in Delivery :
  /\ row[d].state = "delivered" => received[d] > 0
  /\ row[d].state = "dead" => d \in excused \/ row[d].attempts >= MaxAttempts

(* Every event that was committed is delivered or given up for dead in the  *)
(* end, however often the executor dies with it in hand.                      *)
EveryDeliverySettles == \A d \in Delivery : []<>(row[d].state \in {"none", "delivered", "dead"})
=============================================================================
