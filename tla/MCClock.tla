------------------------------- MODULE MCClock -------------------------------
(***************************************************************************)
(* Instances of ClockTask for TLC: one unit of time is the tolerance.      *)
(***************************************************************************)
EXTENDS ClockTask

SmallAndLargeSteps == {0, 1, 4}
AllFaults == FaultKinds
=============================================================================
