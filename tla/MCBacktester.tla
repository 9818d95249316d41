---------------------------- MODULE MCBacktester ----------------------------
(***************************************************************************)
(* Backtester on two instruments around a price of 10: a quiet bar, one    *)
(* that reaches levels on both sides, and one that opens beyond a stop and *)
(* then trades through it.                                                 *)
(* A position of 1 bought at 10 loses a quarter of the account of 20, its  *)
(* costs included, when the price falls to 7: the switch trips at 25       *)
(* percent, the day halts at 15.                                          *)
(***************************************************************************)
EXTENDS Backtester

Bar(o, l, h, c) == [open |-> o, low |-> l, high |-> h, close |-> c]

Quiet == Bar(10, 10, 10, 10)
Wide == Bar(10, 7, 13, 11)
Gap == Bar(7, 6, 9, 7)

ThreeBars == {Quiet, Wide, Gap}
TwoBars == {Quiet, Gap}
OneSize == {1}
TwoAway == {2}
OneDay == 1..1
TwoDays == 1..2
=============================================================================
