------------------------------ MODULE Handover ------------------------------
(***************************************************************************)
(* What the command queue promises about one action command and the device *)
(* it is meant for, however withdrawals, refusals, crashes, lost answers   *)
(* and on-site verdicts interleave: a device takes a command up at most    *)
(* once, only after the books say it may have been sent, and never once    *)
(* the books have said that it was not.  Whoever issues a fresh command in *)
(* place of one that was not sent relies on the last part.                 *)
(***************************************************************************)
CONSTANT CmdId
VARIABLES
  fate,   \* [CmdId -> "open": nobody has decided, "given": it may reach a
          \*           device, "barred": no device will ever see it]
  taken   \* the commands a device has taken up

TypeOK == fate \in [CmdId -> {"open", "given", "barred"}] /\ taken \subseteq CmdId

Init == fate = [c \in CmdId |-> "open"] /\ taken = {}

Give(c) ==
  /\ fate[c] = "open"
  /\ fate' = [fate EXCEPT ![c] = "given"]
  /\ UNCHANGED taken

(* Barred together: everything a hold or an abort finds in the queue. *)
Bar(S) ==
  /\ S \cap taken = {}
  /\ fate' = [c \in CmdId |-> IF c \in S THEN "barred" ELSE fate[c]]
  /\ UNCHANGED taken

Take(c) ==
  /\ fate[c] = "given" /\ c \notin taken
  /\ taken' = taken \cup {c}
  /\ UNCHANGED fate

Next ==
  \/ \E c \in CmdId : Give(c) \/ Take(c)
  \/ \E S \in SUBSET CmdId : Bar(S)

Spec == Init /\ [][Next]_<<fate, taken>>
=============================================================================
