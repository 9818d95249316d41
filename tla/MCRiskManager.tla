--------------------------- MODULE MCRiskManager ---------------------------
(***************************************************************************)
(* RiskManager on a small account.  With limits of 10 percent a day and 20 *)
(* percent in all, AllEquities tell apart a fall that halts the day only,  *)
(* one that trips the switch, one in between, a new high and an emptied    *)
(* account.  FewEquities add the exact boundary of the recovery (100 to 90 *)
(* is half of the limit) and leave out what the rolling mode ignores.      *)
(* MildEquities never trip the switch: only the daily halt acts on them.   *)
(***************************************************************************)
EXTENDS RiskManager

TwoDays == 1..2
OneDay == 1..1
AllEquities == {0, 80, 85, 95, 100, 120}
FewEquities == {80, 85, 90, 100}
MildEquities == {85, 95, 100}
=============================================================================
