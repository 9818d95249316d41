----------------------------- MODULE MCResearch -----------------------------
(***************************************************************************)
(* The registry with the walk-forward research that feeds it.  A candle is *)
(* how far its bar moved, in percent; the backtest trades each bar in the  *)
(* direction of the one before it, or against it.                          *)
(***************************************************************************)
EXTENDS ResearchRegistry, WalkForward, Download, SequencesExt

LastBar == 5

Signum(x) == IF x > 0 THEN 1 ELSE -1

\* The bars of an epic that have one before them in the slice, traded there.
TradesAt(slice, params, t) ==
  LET traded == {e \in DOMAIN slice : {t - 1, t} \subseteq DOMAIN slice[e]}
      side(e) == Signum(slice[e][t - 1]) * (IF params = "fade" THEN -1 ELSE 1)
      trade(e) == [epic |-> e, entry |-> t, pnl |-> side(e) * slice[e][t],
                   r |-> IF e = 1 THEN side(e) * slice[e][t] ELSE None]
  IN SetToSortSeq({trade(e) : e \in traded}, LAMBDA x, y : x.epic < y.epic)

MCBacktest(slice, params) ==
  LET trades == FlattenSeq([i \in 1..LastBar + 1 |-> TradesAt(slice, params, i - 1)])
  IN [report |-> TRUE, trades |-> trades, score |-> Pnl(trades)]

MCGrid == <<"follow", "fade">>

\* Two epics, the second of which has no first bar.
Moves == {-1, 2}
Second == [t \in 1..LastBar |-> IF t = 3 THEN -1 ELSE 1]
Series(f) == <<f, Second>>
Shortest == {<<[t \in 0..1 |-> 2]>>}
MCMarkets == {Series(f) : f \in {f \in [0..LastBar -> Moves] : f[0] = 2 /\ f[1] = 2}}

\* Rows and measures of such studies: one that passes, one that fails, and
\* what a holdout that pays, pays on few trades or loses is measured as.
Judged(ret, factor, paying, monthly) ==
  [oos_return_pct |-> ret, profit_factor |-> factor, pct_positive_folds |-> paying,
   total_trades |-> 4, avg_r_multiple |-> 1, r_multiple_trades |-> 4,
   instrument_returns |-> <<ret>>, worst_fold_return_pct |-> -2,
   worst_month_return_pct |-> monthly]
MCScreenRows == {Judged(9, NO_LOSS, 100, 4), Judged(-3, 40, 25, -3)}

Held(ret, factor, trades) ==
  [params |-> "follow", return_pct |-> ret, profit_factor |-> factor, trades |-> trades]
MCHoldoutMeasures == {Held(5, 350, 6), Held(6, NO_LOSS, 3), Held(-2, 60, 6)}

\* A holdout is judged on few trades, and a key is misspelt.
MCReportBlock ==
  [min_trades |-> 3, holdout_min_trades |-> 4, min_profit_faktor |-> 1]

\* A forming bar has gone half the way.
MCForming(candle) == Signum(candle)

\* One download at least, a study of what is stored then, and the ledger.
Over == fetch.pc = "over"
NoStudy ==
  /\ data = None /\ folds = <<>> /\ pool = <<>> /\ row = None /\ held = None

ResearchInit == Init /\ DownloadInit /\ NoStudy

\* CandleStore.load of every instrument.  With OneAtATime the download is over.
StudyLoads ==
  /\ ~Over /\ (OneAtATime => fetch.pc \in {"idle", "failed"})
  /\ AllStored
  /\ data' = files
  /\ fetch' = [pc |-> "over"] /\ files' = <<>> /\ market' = <<>> /\ now' = 0
  /\ UNCHANGED <<folds, pool, row, held>>

ResearchNext ==
  \/ ~Over /\ DownloadNext /\ UNCHANGED <<vars, studyVars>>
  \/ StudyLoads /\ UNCHANGED vars
  \/ StudyNext /\ UNCHANGED <<vars, downloadVars>>
  \/ Over /\ data = None /\ Next /\ UNCHANGED <<studyVars, downloadVars>>
ResearchSpec ==
  ResearchInit /\ [][ResearchNext]_<<vars, studyVars, downloadVars>>

\* A study reads what finished saves left, and no part of a file (violated by a
\* save that was cut short: CandleStore.load takes its first rows for all).
StudySeesWholeFiles ==
  [][data = None /\ data' # None =>
       \A e \in DOMAIN files : \E time \in 0..now, total \in Totals :
         files[e] = EndOf(e, time, total)]_<<data, files>>
=============================================================================
