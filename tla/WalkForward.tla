---------------------------- MODULE WalkForward ----------------------------
(***************************************************************************)
(* Walk-forward optimization and the one-shot holdout of                   *)
(* forex_bot/research/walkforward.py, with the report row that             *)
(* strategy_report.py builds from it: one study of one strategy, a fold    *)
(* per step.                                                               *)
(*                                                                         *)
(* Data maps an epic, a number, to its candles, a function from times.  A  *)
(* backtest is a parameter: any function of the candles and the parameters *)
(* it is given.  P&L is in percent of the starting equity.  What the       *)
(* verdicts compare with <= is rounded up, what they compare with < down,  *)
(* so that comparisons with whole thresholds are exact.                    *)
(***************************************************************************)
EXTENDS Verdicts

CONSTANTS
  Backtest(_, _),    \* Backtester.run: [report, trades, score] of a slice
  Grid,              \* the parameter combinations, in order
  Defaults,          \* {}: the strategy's own parameters
  IsBars, OosBars,
  StepBars,          \* or None
  WarmupBars,
  MinTrades,         \* of a combination
  SelectTopN,        \* or None
  SelectMetric,
  HoldoutPct,        \* holdout_frac
  MinHoldoutBars, MinTrainBars, \* 50 and 10: what holdout_test asks of the data
  BarsPerMonth,
  FlatCandle,        \* any candle
  DataSets           \* the data a study may be given

ASSUME WalkAssumption ==
  /\ IsBars \in Nat \ {0} /\ OosBars \in Nat \ {0}
  /\ StepBars \in (Nat \ {0}) \cup {None} /\ None \notin Int
  /\ WarmupBars \in Nat /\ MinTrades \in Nat
  /\ SelectTopN \in Int \cup {None}
  /\ HoldoutPct \in 5..50 /\ MinHoldoutBars \in Nat /\ MinTrainBars \in Nat
  /\ \A d \in DataSets :
       /\ IsFiniteSet(DOMAIN d)
       /\ \A e \in DOMAIN d : IsFiniteSet(DOMAIN d[e]) /\ DOMAIN d[e] \subseteq Int

VARIABLES
  data,    \* of the study, None before and after it
  folds,   \* result.folds
  pool,    \* pooled_oos
  row,     \* the StrategyRow, once there is one
  held     \* what the holdout measured, once it was run

studyVars == <<data, folds, pool, row, held>>

Pnl(trades) == SumFunction([i \in DOMAIN trades |-> trades[i].pnl])

----------------------------------------------------------------------------
\* the timeline and its slices

Times(d) == UNION {DOMAIN d[e] : e \in DOMAIN d}
Bars(d) == Cardinality(Times(d))

\* timeline[i], counted from 0
Nth(times, i) == CHOOSE t \in times : Cardinality({u \in times : u < t}) = i
TimeAt(d, i) == Nth(Times(d), i)

\* [t for t in trades if Test(t)]
Picked(trades, Test(_)) ==
  LET kept == {i \in DOMAIN trades : Test(trades[i])}
  IN [k \in 1..Cardinality(kept) |-> trades[Nth(kept, k - 1)]]

\* Mutant of SliceUntil: the end is always inclusive.
SliceThrough(d, start, end) ==
  LET within(e) == {t \in DOMAIN d[e] : start <= t /\ t <= end}
  IN [e \in {e \in DOMAIN d : within(e) # {}} |-> Restrict(d[e], within(e))]

\* _slice, with and without inclusive_end: epics without a bar are left out.
SliceUntil(d, start, end) ==
  LET within(e) == {t \in DOMAIN d[e] : start <= t /\ t < end}
  IN [e \in {e \in DOMAIN d : within(e) # {}} |-> Restrict(d[e], within(e))]
SliceTo(d, start, end) ==
  LET within(e) == {t \in DOMAIN d[e] : start <= t /\ t <= end}
  IN [e \in {e \in DOMAIN d : within(e) # {}} |-> Restrict(d[e], within(e))]

----------------------------------------------------------------------------
\* choosing parameters and epics

\* _run_slice: a backtest that raises has no report.
NoReport == [report |-> FALSE, trades |-> <<>>, score |-> 0]
RunSlice(slice, params) ==
  IF DOMAIN slice = {} THEN NoReport ELSE Backtest(slice, params)

\* grid_search: the first of the best combinations; with none that trades
\* enough, the defaults.
GridSearch(slice) ==
  LET run == [i \in DOMAIN Grid |-> RunSlice(slice, Grid[i])]
      eligible == {i \in DOMAIN Grid :
                     run[i].report /\ Len(run[i].trades) >= MinTrades}
  IN IF eligible = {} THEN Defaults
     ELSE Grid[CHOOSE i \in eligible : \A j \in eligible :
                 \/ run[i].score > run[j].score
                 \/ run[i].score = run[j].score /\ i <= j]

Of(trades, e) == Picked(trades, LAMBDA t : t.epic = e)
Wins(trades) == Pnl(Picked(trades, LAMBDA t : t.pnl > 0))
Losses(trades) == -Pnl(Picked(trades, LAMBDA t : t.pnl < 0))

\* What epics are ranked by, as a fraction <<numerator, denominator>>.
Ranking(trades) ==
  CASE SelectMetric = "trades" -> <<Len(trades), 1>>
    [] SelectMetric = "expectancy" -> <<Pnl(trades), Len(trades)>>
    [] SelectMetric = "profit_factor" ->
         IF Losses(trades) = 0 /\ Wins(trades) = 0 THEN <<0, 1>>
                                                   ELSE <<Wins(trades), Losses(trades)>>
    [] OTHER -> <<Pnl(trades), 1>>

Above(q, r) == q[1] * r[2] > r[1] * q[2]

\* Epics that traded come first, by the metric, then by return, then by their
\* first trade; the others follow by name.
Before(trades, e, f) ==
  LET of_e == Of(trades, e)
      of_f == Of(trades, f)
      first(x) == CHOOSE i \in DOMAIN trades :
                    /\ trades[i].epic = x
                    /\ \A j \in DOMAIN trades : trades[j].epic = x => i <= j
  IN CASE of_e = <<>> /\ of_f = <<>> -> e < f
       [] of_e # <<>> /\ of_f = <<>> -> TRUE
       [] of_e = <<>> /\ of_f # <<>> -> FALSE
       [] of_e # <<>> /\ of_f # <<>> ->
            LET p == Ranking(of_e)
                q == Ranking(of_f)
            IN \/ Above(p, q)
               \/ /\ ~Above(q, p)
                  /\ \/ Pnl(of_e) > Pnl(of_f)
                     \/ Pnl(of_e) = Pnl(of_f) /\ first(e) < first(f)

\* _select_top_epics, or all of them without select_top_n
SelectEpics(slice) ==
  LET epics == DOMAIN slice
      trades == RunSlice(slice, GridSearch(slice)).trades
  IN IF SelectTopN # None => (SelectTopN <= 0 \/ Cardinality(epics) <= SelectTopN)
       THEN epics
       ELSE {e \in epics : Cardinality({f \in epics \ {e} : Before(trades, f, e)})
                             < SelectTopN}

Keep(slice, epics) == Restrict(slice, DOMAIN slice \cap epics)

----------------------------------------------------------------------------
\* walk_forward

Step == IF StepBars = None THEN OosBars ELSE StepBars

IsStart(d, k) == TimeAt(d, k * Step)
OosStart(d, k) == TimeAt(d, k * Step + IsBars)
OosEnd(d, k) == TimeAt(d, k * Step + IsBars + OosBars - 1)
WarmStart(d, k) ==
  LET first == k * Step + IsBars - WarmupBars
  IN TimeAt(d, IF first < 0 THEN 0 ELSE first)

\* What fold k decides on its in-sample bars: the epics, then the parameters.
Choice(d, k) ==
  LET train == SliceUntil(d, IsStart(d, k), OosStart(d, k))
      epics == SelectEpics(train)
  IN [epics |-> epics, params |-> GridSearch(Keep(train, epics))]

\* Mutant of Counted: what was opened in the warmup counts, too.
CountedAll(trades, start) == trades

\* Only trades opened out of sample count.
Counted(trades, start) == Picked(trades, LAMBDA t : t.entry >= start)

OosTrades(d, k) ==
  LET test == SliceTo(d, WarmStart(d, k), OosEnd(d, k))
      choice == Choice(d, k)
      slice == IF SelectTopN = None \/ choice.epics = {}
                 THEN test ELSE Keep(test, choice.epics)
  IN Counted(RunSlice(slice, choice.params).trades, OosStart(d, k))

----------------------------------------------------------------------------
\* _summarize and build_row

NO_LOSS == 1000000  \* stands for an infinite profit factor

RoundDown(a, b) == a \div b
RoundUp(a, b) == -((-a) \div b)

ProfitFactor(trades) ==
  IF Losses(trades) = 0 THEN (IF Wins(trades) > 0 THEN NO_LOSS ELSE 0)
                        ELSE RoundDown(100 * Wins(trades), Losses(trades))

Returns == [k \in DOMAIN folds |-> folds[k].oos_return_pct]

\* The fold returns, compounded.
CombinedReturn ==
  LET unit == 100 ^ Len(folds)
      grown == FoldFunction(LAMBDA x, y : (100 + x) * y, 1, Returns)
  IN RoundUp(100 * (grown - unit), unit)

Least(f) == CHOOSE x \in {f[i] : i \in DOMAIN f} : \A i \in DOMAIN f : x <= f[i]

\* Mutant of Breakdown: a key keeps only its first trade.
BreakdownOfOne(trades, key) ==
  [x \in {key[i] : i \in DOMAIN trades} |->
     trades[CHOOSE i \in DOMAIN trades :
              /\ key[i] = x
              /\ \A j \in DOMAIN trades : key[j] = x => i <= j].pnl]

\* P&L of the trades by their key: _instrument_breakdown, _period_breakdown.
Breakdown(trades, key) ==
  [x \in {key[i] : i \in DOMAIN trades} |->
     SumFunction([i \in {i \in DOMAIN trades : key[i] = x} |-> trades[i].pnl])]
ByInstrument == Breakdown(pool, [i \in DOMAIN pool |-> pool[i].epic])
ByPeriod == Breakdown(pool, [i \in DOMAIN pool |-> pool[i].entry \div BarsPerMonth])

\* The positions of f's domain from the largest value to the smallest.
Ranked(f) ==
  CHOOSE s \in [1..Cardinality(DOMAIN f) -> DOMAIN f] :
    \A i, j \in DOMAIN s : i < j => s[i] # s[j] /\ f[s[i]] >= f[s[j]]

BuildRow ==
  LET ranked == Ranked(ByInstrument)
      stopped == Picked(pool, LAMBDA t : t.r # None)
      paying == {k \in DOMAIN folds : folds[k].oos_return_pct > 0}
  IN [oos_return_pct |-> CombinedReturn,
      profit_factor |-> ProfitFactor(pool),
      pct_positive_folds |-> RoundDown(100 * Cardinality(paying), Len(folds)),
      total_trades |-> Len(pool),
      avg_r_multiple |->
        IF stopped = <<>> THEN 0
        ELSE RoundUp(SumFunction([i \in DOMAIN stopped |-> stopped[i].r]), Len(stopped)),
      r_multiple_trades |-> Len(stopped),
      instrument_returns |-> [i \in DOMAIN ranked |-> ByInstrument[ranked[i]]],
      worst_fold_return_pct |-> Least(Returns),
      worst_month_return_pct |-> IF pool = <<>> THEN 0 ELSE Least(ByPeriod)]

----------------------------------------------------------------------------
\* holdout_test

HoldoutSplit(d) == (Bars(d) * (100 - HoldoutPct)) \div 100
HoldoutStart(d) == TimeAt(d, HoldoutSplit(d))

\* Otherwise it raises.
EnoughForHoldout(d) ==
  /\ Bars(d) >= MinHoldoutBars
  /\ HoldoutSplit(d) >= MinTrainBars
  /\ HoldoutSplit(d) < Bars(d) - 1

HoldoutChoice(d) == GridSearch(SliceUntil(d, TimeAt(d, 0), HoldoutStart(d)))

HoldoutTrades(d) ==
  LET first == HoldoutSplit(d) - WarmupBars
      warm == TimeAt(d, IF first < 0 THEN 0 ELSE first)
      slice == SliceTo(d, warm, TimeAt(d, Bars(d) - 1))
  IN Counted(RunSlice(slice, HoldoutChoice(d)).trades, HoldoutStart(d))

Measure(params, trades) ==
  [params |-> params, return_pct |-> Pnl(trades),
   profit_factor |-> ProfitFactor(trades), trades |-> Len(trades)]

----------------------------------------------------------------------------
\* the study

StudyInit ==
  /\ data \in DataSets
  /\ folds = <<>> /\ pool = <<>>
  /\ row = None /\ held = None

MoreFolds == Len(folds) * Step + IsBars + OosBars <= Bars(data)

Fold(d, k) ==
  [choice |-> Choice(d, k), oos_start |-> OosStart(d, k), oos_end |-> OosEnd(d, k),
   oos_return_pct |-> Pnl(OosTrades(d, k))]

\* The body of the loop of walk_forward.
RunFold ==
  /\ data # None /\ row = None
  /\ MoreFolds
  /\ LET k == Len(folds)
     IN /\ folds' = Append(folds, Fold(data, k))
        /\ pool' = pool \o OosTrades(data, k)
  /\ UNCHANGED <<data, row, held>>

Summarize ==
  /\ data # None /\ row = None
  /\ ~MoreFolds /\ folds # <<>>
  /\ row' = BuildRow
  /\ UNCHANGED <<data, folds, pool, held>>

HoldoutTest ==
  /\ data # None /\ held = None
  /\ EnoughForHoldout(data)
  /\ held' = Measure(HoldoutChoice(data), HoldoutTrades(data))
  /\ UNCHANGED <<data, folds, pool, row>>

\* With too little data for a fold, without a row.
StudyEnds ==
  /\ data # None
  /\ row # None \/ (folds = <<>> /\ ~MoreFolds)
  /\ data' = None /\ folds' = <<>> /\ pool' = <<>>
  /\ row' = None /\ held' = None

StudyNext == RunFold \/ Summarize \/ HoldoutTest \/ StudyEnds

StudySpec == StudyInit /\ [][StudyNext]_studyVars

----------------------------------------------------------------------------

\* The data with every candle from time t on replaced by one and the same.
Blanked(d, t) ==
  [e \in DOMAIN d |-> [u \in DOMAIN d[e] |-> IF u < t THEN d[e][u] ELSE FlatCandle]]

(***************************************************************************)
(* walkforward.py:262-263, "parameters are chosen without ever seeing the  *)
(* holdout": whatever the candles from the start of the holdout on are,    *)
(* its parameters are the same, and a fold's epics and parameters do not   *)
(* depend on any candle from its out-of-sample window on.                  *)
(***************************************************************************)
NoLookAhead ==
  /\ \A k \in DOMAIN folds :
       folds[k].choice = Choice(Blanked(data, folds[k].oos_start), k - 1)
  /\ held # None => held.params = HoldoutChoice(Blanked(data, HoldoutStart(data)))

(***************************************************************************)
(* No bar is tested twice: every pooled trade was entered in the           *)
(* out-of-sample window of a fold, and with a step of the out-of-sample    *)
(* length at least, no two windows share a bar.                            *)
(***************************************************************************)
TestedOnce ==
  /\ \A i \in DOMAIN pool : \E k \in DOMAIN folds :
       folds[k].oos_start <= pool[i].entry /\ pool[i].entry <= folds[k].oos_end
  /\ Step >= OosBars =>
       \A j, k \in DOMAIN folds : j < k => folds[j].oos_end < folds[k].oos_start

(***************************************************************************)
(* The trades of a row that passes the screen made a profit together, and  *)
(* the instruments, the months and the folds it was judged by account for  *)
(* the same trades.  A profit is Trade.pnl: what a trade won, less the     *)
(* commission of its exit (backtest/portfolio.py:73-74).  The commissions  *)
(* of the entries are in the cash of the account only (portfolio.py:56),   *)
(* so that with one above zero the account behind such a row may have lost *)
(* money: Backtester, ResultsAreNet.                                       *)
(***************************************************************************)
PassedMeansProfit ==
  row # None =>
    /\ SumFunction(row.instrument_returns) = Pnl(pool)
    /\ SumFunction(ByPeriod) = Pnl(pool) /\ SumFunction(Returns) = Pnl(pool)
    /\ Passed(row) => Pnl(pool) > 0
=============================================================================
