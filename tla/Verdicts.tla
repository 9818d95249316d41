------------------------------ MODULE Verdicts ------------------------------
(***************************************************************************)
(* The rules of forex_bot/research/verdicts.py: which walk-forward row     *)
(* passes the screen, and what a holdout result is called in the registry. *)
(* Returns, shares and profit factors are percentages (a profit factor of  *)
(* 1.1 is 110); an infinite profit factor is any large number.             *)
(***************************************************************************)
EXTENDS Integers, Sequences, FiniteSets, Functions

CONSTANTS
  ReportBlock,  \* the "report:" block of the configuration
  None          \* no value

DefaultThresholds ==
  [min_oos_return_pct |-> 0, min_profit_factor |-> 110,
   min_pct_positive_folds |-> 50, min_pct_positive_instruments |-> 50,
   min_trades |-> 40, min_avg_r |-> 0, max_instrument_dominance |-> 70,
   worst_fold_floor_pct |-> -15, worst_month_floor_pct |-> -8,
   holdout_min_trades |-> 30]

\* thresholds_from_config: unknown keys are ignored.
Thresholds ==
  [k \in DOMAIN DefaultThresholds |->
     IF k \in DOMAIN ReportBlock THEN ReportBlock[k] ELSE DefaultThresholds[k]]

Positive(returns) == {i \in DOMAIN returns : returns[i] > 0}

\* One instrument made more than the allowed share of what the winners made.
Dominated(returns, limit) ==
  \E i \in Positive(returns) :
    100 * returns[i] > limit * SumFunctionOnSet(returns, Positive(returns))

\* Which rule a row breaks; a rule that does not apply is not broken.
Broken(row) ==
  LET t == Thresholds
      returns == row.instrument_returns
      several == Len(returns) > 1
  IN [oos_return |-> row.oos_return_pct <= t.min_oos_return_pct,
      profit_factor |-> row.profit_factor < t.min_profit_factor,
      folds |-> row.pct_positive_folds < t.min_pct_positive_folds,
      trades |-> row.total_trades < t.min_trades,
      avg_r |-> row.r_multiple_trades > 0
                  /\ row.avg_r_multiple <= t.min_avg_r,
      breadth |-> several
                  /\ 100 * Cardinality(Positive(returns))
                       < t.min_pct_positive_instruments * Len(returns),
      dominance |-> several /\ Dominated(returns, t.max_instrument_dominance),
      worst_fold |-> row.worst_fold_return_pct < t.worst_fold_floor_pct,
      worst_month |-> row.worst_month_return_pct < t.worst_month_floor_pct]

\* evaluate
FailedRules(row) == {rule \in DOMAIN Broken(row) : Broken(row)[rule]}
Passed(row) == FailedRules(row) = {}

ClassifyHoldout(m) ==
  CASE m.return_pct <= 0 \/ m.profit_factor < 100 -> "holdout-fail"
    [] /\ m.return_pct > 0 /\ m.profit_factor >= 100
       /\ m.profit_factor >= Thresholds.min_profit_factor
       /\ m.trades >= Thresholds.holdout_min_trades -> "holdout-pass"
    [] OTHER -> "candidate"
=============================================================================
