---------------------------- MODULE MCLiveEngine ----------------------------
(***************************************************************************)
(* LiveEngine on one or two instruments.  Equity 100 is the starting one,  *)
(* 85 halts the day (10 percent), 75 trips the switch (20 percent).        *)
(***************************************************************************)
EXTENDS LiveEngine, TLC

OneDay == 1..1
TwoDays == 1..2
Calm == {100}
Halting == {85, 100}
Killing == {75, 100}
AllEquities == {75, 85, 100}
BothSides == {"BUY", "SELL"}
Long == {"BUY"}
EpicSymmetry == Permutations(Epics)
=============================================================================
