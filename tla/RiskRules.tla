----------------------------- MODULE RiskRules -----------------------------
(***************************************************************************)
(* The rules of the risk manager (forex_bot/risk/manager.py) as operators  *)
(* on one record, the value of a RiskManager object:                       *)
(*                                                                         *)
(*   day       the calendar day of the last equity update, or NoDay        *)
(*   dayStart  the equity at the first update of that day                  *)
(*   halted    no new entries for the rest of the day                      *)
(*   peak      the all-time high-water mark of the equity                  *)
(*   killed    the portfolio kill switch                                   *)
(*   window    the last equities seen, oldest first (rolling mode only)    *)
(*                                                                         *)
(* Equity is an integer number of account units and the two loss limits    *)
(* are integer percentages, so that a comparison of a quotient with a      *)
(* limit is one of products.  Rounding of floats is abstracted away.       *)
(*                                                                         *)
(* The module has no variables: RiskManager drives one such record through *)
(* the calls of its environment, LiveEngine embeds one in the engine.      *)
(***************************************************************************)
EXTENDS Integers, Sequences

CONSTANTS
  Days,                    \* calendar days of the candles
  NoDay,                   \* the day of a manager that saw no equity yet
  NoState,                 \* what the store returns before the first save
  NoWindow,                \* drawdown_peak_window_bars: null
  MaxDailyLossPct,         \* max_daily_loss_pct, in percent
  MaxTotalDrawdownPct,     \* max_total_drawdown_pct, in percent
  DrawdownPeakWindowBars,  \* NoWindow (all-time peak) or a number of updates
  MaxOpenPositions         \* max_open_positions

ASSUME DaysAssumption == NoDay \notin Days

ASSUME LimitsAssumption ==
  /\ MaxDailyLossPct \in 0..100
  /\ MaxTotalDrawdownPct \in 0..100
  /\ MaxOpenPositions \in Nat

ASSUME WindowAssumption ==
  /\ NoWindow \notin Nat
  /\ DrawdownPeakWindowBars \in Nat \cup {NoWindow}

(***************************************************************************)
(* `if self._dd_window` is a truth test, `recoverable` a test for null: a  *)
(* window of 0 bars is not rolling and yet recoverable.                    *)
(***************************************************************************)
Rolling == DrawdownPeakWindowBars \in Nat \ {0}
Recoverable == DrawdownPeakWindowBars # NoWindow

RiskStates ==
  [day : Days \cup {NoDay}, dayStart : Int, halted : BOOLEAN,
   peak : Int, killed : BOOLEAN, window : Seq(Int)]

Snapshots ==
  [day : Days \cup {NoDay}, dayStart : Int, halted : BOOLEAN,
   peak : Int, killed : BOOLEAN]

ASSUME NoStateAssumption == NoState \notin Snapshots

NewRisk ==
  [day |-> NoDay, dayStart |-> 0, halted |-> FALSE,
   peak |-> 0, killed |-> FALSE, window |-> <<>>]

----------------------------------------------------------------------------

\* The equity e has lost at least pct percent of the reference value from.
Lost(from, e, pct) == from > 0 /\ 100 * (from - e) >= pct * from

\* The equity e has come back to at most half the drawdown limit.
Halved(from, e, pct) == from > 0 /\ 200 * (from - e) <= pct * from

Higher(x, y) == IF x >= y THEN x ELSE y

\* The window keeps the newest DrawdownPeakWindowBars equities.
Slide(w, e) ==
  LET longer == Append(w, e)
      excess == Len(longer) - DrawdownPeakWindowBars
  IN  IF excess > 0 THEN SubSeq(longer, excess + 1, Len(longer)) ELSE longer

WindowPeak(w) == CHOOSE m \in {w[i] : i \in DOMAIN w} :
                   \A i \in DOMAIN w : w[i] <= m

\* Mutant: swapped arguments.
StartDaySwapped(r, d, e) ==
  [r EXCEPT !.day = e, !.dayStart = d, !.halted = FALSE]

StartDay(r, d, e) == [r EXCEPT !.day = d, !.dayStart = e, !.halted = FALSE]

RollDay(r, d, e) == IF r.day # d THEN StartDay(r, d, e) ELSE r

DailyCheck(r, e) ==
  [r EXCEPT !.halted = @ \/ Lost(r.dayStart, e, MaxDailyLossPct),
            !.peak = Higher(@, e)]

AllTimeCheck(r, e) ==
  [r EXCEPT !.killed = @ \/ Lost(r.peak, e, MaxTotalDrawdownPct)]

\* Mutant: the oldest equity of the window is taken for its peak.
RollingCheckOldest(r, e) ==
  LET w == Slide(r.window, e)
  IN  [r EXCEPT !.window = w,
                !.killed = \/ Lost(w[1], e, MaxTotalDrawdownPct)
                           \/ @ /\ ~Halved(w[1], e, MaxTotalDrawdownPct)]

\* Mutant: the switch is sticky in rolling mode too.
RollingCheckSticky(r, e) ==
  LET w == Slide(r.window, e)
  IN  [r EXCEPT !.window = w,
                !.killed = @ \/ Lost(WindowPeak(w), e, MaxTotalDrawdownPct)]

RollingCheck(r, e) ==
  LET w == Slide(r.window, e)
      top == WindowPeak(w)
  IN  [r EXCEPT !.window = w,
                !.killed = \/ Lost(top, e, MaxTotalDrawdownPct)
                           \/ @ /\ ~Halved(top, e, MaxTotalDrawdownPct)]

UpdateEquity(r, d, e) ==
  LET checked == DailyCheck(RollDay(r, d, e), e)
  IN  IF Rolling THEN RollingCheck(checked, e) ELSE AllTimeCheck(checked, e)

Kill(r) == [r EXCEPT !.killed = TRUE]

----------------------------------------------------------------------------

\* Mutant: the snapshot leaves the kill flag out.
SnapshotWithoutKill(r) ==
  [day |-> r.day, dayStart |-> r.dayStart, halted |-> r.halted,
   peak |-> r.peak, killed |-> FALSE]

\* What a restart remembers: everything but the rolling window.
Snapshot(r) ==
  [day |-> r.day, dayStart |-> r.dayStart, halted |-> r.halted,
   peak |-> r.peak, killed |-> r.killed]

\* Mutants: one part of the snapshot is forgotten.
RestoreWithoutPeak(r, s) ==
  IF s = NoState THEN r
  ELSE [r EXCEPT !.killed = s.killed, !.dayStart = s.dayStart,
                 !.halted = s.halted, !.day = IF s.day = NoDay THEN @ ELSE s.day]

RestoreWithoutDay(r, s) ==
  IF s = NoState THEN r
  ELSE [r EXCEPT !.peak = s.peak, !.killed = s.killed,
                 !.dayStart = s.dayStart, !.halted = s.halted]

RestoreWithoutKill(r, s) ==
  IF s = NoState THEN r
  ELSE [r EXCEPT !.peak = s.peak, !.dayStart = s.dayStart,
                 !.halted = s.halted, !.day = IF s.day = NoDay THEN @ ELSE s.day]

Restore(r, s) ==
  IF s = NoState THEN r
  ELSE [r EXCEPT !.peak = s.peak, !.killed = s.killed,
                 !.dayStart = s.dayStart, !.halted = s.halted,
                 !.day = IF s.day = NoDay THEN @ ELSE s.day]

\* Mutants: the daily halt is not looked at; one position too many.
MayEnterHalted(r, equity, open) ==
  /\ ~r.killed
  /\ open < MaxOpenPositions
  /\ equity > 0

MayEnterOneMore(r, equity, open) ==
  /\ ~r.killed
  /\ ~r.halted
  /\ open <= MaxOpenPositions
  /\ equity > 0

\* The state-dependent guards of `evaluate`, in front of sizing and caps.
MayEnter(r, equity, open) ==
  /\ ~r.killed
  /\ ~r.halted
  /\ open < MaxOpenPositions
  /\ equity > 0

=============================================================================
