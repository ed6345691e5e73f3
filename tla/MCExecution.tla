----------------------------- MODULE MCExecution ----------------------------
(* Small instances of Execution for TLC.                                   *)
EXTENDS Execution

CONSTANTS b1, b2, s1, s2

(* one or two steps, in one batch or each in its own, at one station or     *)
(* each at its own                                                          *)
OneStep  == {1}
TwoSteps == {1, 2}
OneBatchOf   == [s \in Step |-> b1]
EachBatchOf  == [s \in Step |-> IF s = 1 THEN b1 ELSE b2]
AtOneStation == [s \in Step |-> s1]
AtOwnStation == [s \in Step |-> IF s = 1 THEN s1 ELSE s2]
OneChannel   == [st \in Station |-> 1]
TwoChannels  == [st \in Station |-> 2]

(* capabilities and adapters                                                *)
NoSteps     == {}
NoStations  == {}
SecondStation == {s2}
NoHold      == SecondStation \X {"hold"}
=============================================================================
