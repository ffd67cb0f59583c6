------------------------------ MODULE MCStepUp ------------------------------
(***************************************************************************)
(* Instances of StepUp for TLC.  `big` is over the cap per transfer and    *)
(* always parks; `small` is within it, and over the daily cap once         *)
(* something else has moved that day.                                      *)
(***************************************************************************)
EXTENDS StepUp, TLC

CONSTANTS big, small

MCAmount == [k \in Keys |-> IF k = big THEN 3 ELSE 2]
Interchangeable == Permutations(Calls) \cup Permutations(Asks)
=============================================================================
