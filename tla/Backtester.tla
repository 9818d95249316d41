----------------------------- MODULE Backtester -----------------------------
(***************************************************************************)
(* The replay of history: Backtester (forex_bot/backtest/engine.py) with   *)
(* its Portfolio (backtest/portfolio.py) and SimulatedExecution            *)
(* (execution/simulated.py), on the same risk rules as the live engine.    *)
(*                                                                         *)
(* Both loops of the code are here: one candle at a time (`_on_candle`)    *)
(* and, for portfolio strategies, all the candles of one timestamp         *)
(* together (`_run_portfolio`).  A bar is                                  *)
(*                                                                         *)
(*   feed     mark the closes, check the protective levels                 *)
(*   flatten  close everything, the first time the switch is found tripped *)
(*   exits    the exit signals                                             *)
(*   entries  the entry signals, each through the risk manager             *)
(*                                                                         *)
(* The strategy is free.  Prices, sizes and costs are integers; the value  *)
(* of a point is 1.  `Adverse` is half the spread plus the slippage.       *)
(* Sizing is any size within the notional cap, and an approval may always  *)
(* be refused, as the exposure caps do.  The equity curve is left out: it  *)
(* samples what Equity computes.                                           *)
(***************************************************************************)
EXTENDS RiskRules, FiniteSets, FiniteSetsExt

CONSTANTS
  Epics,            \* the instruments
  Candles,          \* the bars of the data: open, low, high, close
  StartingEquity,
  Adverse,          \* half-spread and slippage, added or subtracted per fill
  Commission,       \* commission_per_trade, charged per fill
  Sizes,            \* what sizing may return
  MaxPositionPct,   \* max_position_pct, in percent of the equity
  Distances,        \* of a protective level from the price of its signal
  MaxCandles,       \* bound: candles in the data
  NoPosition, NoLevel, NoCandle

ASSUME CandlesAssumption ==
  \A c \in Candles :
    /\ {c.open, c.low, c.high, c.close} \subseteq Int
    /\ {c.open, c.close} \subseteq c.low..c.high

ASSUME CostsAssumption ==
  /\ StartingEquity \in Nat
  /\ Adverse \in Nat
  /\ Commission \in Nat
  /\ MaxPositionPct \in Nat
  /\ Sizes \subseteq Nat \ {0}
  /\ Distances \subseteq Nat
  /\ MaxCandles \in Nat

ASSUME EpicsAssumption == IsFiniteSet(Epics)

Sides == {"BUY", "SELL"}
Sign(side) == IF side = "BUY" THEN 1 ELSE -1
Levels == Int \cup {NoLevel}

Positions ==
  [side : Sides, size : Sizes, entry : Int, stop : Levels, target : Levels]

ASSUME SentinelAssumption ==
  /\ NoPosition \notin Positions
  /\ NoLevel \notin Int
  /\ NoCandle \notin Candles

VARIABLES
  synchronised,  \* the strategy is a PortfolioStrategy
  phase,         \* where the loop is
  fed,           \* candles replayed so far
  latest,        \* the newest candle of each instrument
  bar,           \* the instruments fed in the current bar
  signalled,     \* those whose signal of this phase was handled
  pf,            \* the portfolio, with the totals of its list of trades
  risk,          \* the risk manager
  flattened      \* _kill_flattened

vars == <<synchronised, phase, fed, latest, bar, signalled, pf, risk, flattened>>

----------------------------------------------------------------------------
(***************************************************************************)
(* The portfolio.                                                          *)
(***************************************************************************)

Open(p) == {e \in Epics : p.positions[e] # NoPosition}

Unrealised(p, e) ==
  LET pos == p.positions[e]
  IN  Sign(pos.side) * pos.size * (p.last[e] - pos.entry)

Equity(p) == p.cash + MapThenSumSet(LAMBDA e : Unrealised(p, e), Open(p))

Mark(p, e, price) == [p EXCEPT !.last[e] = price]

\* Buys fill higher, sells fill lower.
FillPrice(side, price) == price + Sign(side) * Adverse

\* Mutant: the commission of the entry is forgotten.
OpenFree(p, e, side, size, price, stop, target) ==
  LET paid == FillPrice(side, price)
  IN  [p EXCEPT !.positions[e] = [side |-> side, size |-> size, entry |-> paid,
                                  stop |-> stop, target |-> target],
                !.last[e] = paid,
                !.fills = @ + 1]

OpenPosition(p, e, side, size, price, stop, target) ==
  LET paid == FillPrice(side, price)
  IN  [p EXCEPT !.cash = @ - Commission,
                !.positions[e] = [side |-> side, size |-> size, entry |-> paid,
                                  stop |-> stop, target |-> target],
                !.last[e] = paid,
                !.fills = @ + 1]

Opposite(side) == IF side = "BUY" THEN "SELL" ELSE "BUY"

ClosePosition(p, e, price) ==
  LET pos == p.positions[e]
      got == FillPrice(Opposite(pos.side), price)
      pnl == Sign(pos.side) * pos.size * (got - pos.entry) - Commission
  IN  [p EXCEPT !.cash = @ + pnl,
                !.positions[e] = NoPosition,
                !.last[e] = got,
                !.fills = @ + 1,
                !.trades = @ + 1,
                !.pnl = @ + pnl,
                !.fees = @ + Commission]

StopHit(pos, c) ==
  /\ pos.stop # NoLevel
  /\ IF pos.side = "BUY" THEN c.low <= pos.stop ELSE c.high >= pos.stop

TargetHit(pos, c) ==
  /\ pos.target # NoLevel
  /\ IF pos.side = "BUY" THEN c.high >= pos.target ELSE c.low <= pos.target

\* Mutant: a bar that opens beyond the stop fills at the level all the same.
StopAtLevel(pos, c) == pos.stop

\* A bar that opens beyond the stop fills at its open.
StopFill(pos, c) ==
  IF pos.side = "BUY"
    THEN IF c.open < pos.stop THEN c.open ELSE pos.stop
    ELSE IF c.open > pos.stop THEN c.open ELSE pos.stop

Protect(p, e, c) ==
  LET pos == p.positions[e]
  IN  IF pos = NoPosition THEN p
      ELSE IF StopHit(pos, c) THEN ClosePosition(p, e, StopFill(pos, c))
      ELSE IF TargetHit(pos, c) THEN ClosePosition(p, e, pos.target)
      ELSE p

----------------------------------------------------------------------------
(***************************************************************************)
(* One bar.                                                                *)
(***************************************************************************)

Init ==
  /\ synchronised \in BOOLEAN
  /\ phase = "feed"
  /\ fed = 0
  /\ latest = [e \in Epics |-> NoCandle]
  /\ bar = {}
  /\ signalled = {}
  /\ pf = [cash |-> StartingEquity, positions |-> [e \in Epics |-> NoPosition],
           last |-> [e \in Epics |-> 0], fills |-> 0, trades |-> 0, pnl |-> 0,
           fees |-> 0]
  /\ \E d \in Days : risk = StartDay(NewRisk, d, StartingEquity)
  /\ flattened = FALSE

\* A single loop has one candle in its bar, a portfolio loop any number.
Feed(e, c) ==
  /\ phase = "feed"
  /\ fed < MaxCandles
  /\ e \notin bar
  /\ ~synchronised => bar = {}
  /\ latest' = [latest EXCEPT ![e] = c]
  /\ pf' = Protect(Mark(pf, e, c.close), e, c)
  /\ bar' = bar \cup {e}
  /\ fed' = fed + 1
  /\ UNCHANGED <<synchronised, phase, signalled, risk, flattened>>

\* Mutant: the switch stops new positions and leaves the open ones.
AfterUpdateHolds(r) == IF ~r.killed THEN "exits" ELSE "feed"

\* What follows update_equity: signals, or one pass of closes, or nothing.
AfterUpdate(r) ==
  IF ~r.killed THEN "exits" ELSE IF flattened THEN "feed" ELSE "flatten"

\* The candles are sorted by time: days do not go back.
UpdateRisk(d) ==
  /\ phase = "feed"
  /\ bar # {}
  /\ d >= risk.day
  /\ risk' = UpdateEquity(risk, d, Equity(pf))
  /\ phase' = AfterUpdate(risk')
  /\ bar' = IF phase' = "feed" THEN {} ELSE bar
  /\ UNCHANGED <<synchronised, fed, latest, signalled, pf, flattened>>

\* The flatten loop closes at the price last seen of each instrument.
Flatten(e) ==
  /\ phase = "flatten"
  /\ e \in Open(pf)
  /\ pf' = ClosePosition(pf, e, pf.last[e])
  /\ UNCHANGED <<synchronised, phase, fed, latest, bar, signalled, risk, flattened>>

FlattenEnds ==
  /\ phase = "flatten"
  /\ Open(pf) = {}
  /\ flattened' = TRUE
  /\ phase' = "feed"
  /\ bar' = {}
  /\ UNCHANGED <<synchronised, fed, latest, signalled, pf, risk>>

\* Whose signals are handled: the candle's, or all that printed a bar so far.
Subjects == IF synchronised THEN {e \in Epics : latest[e] # NoCandle} ELSE bar

ExitSignal(e) ==
  /\ phase = "exits"
  /\ e \in Subjects \ signalled
  /\ pf' = IF e \in Open(pf) THEN ClosePosition(pf, e, latest[e].close) ELSE pf
  /\ signalled' = signalled \cup {e}
  /\ UNCHANGED <<synchronised, phase, fed, latest, bar, risk, flattened>>

\* The sort puts exits first; a portfolio strategy may emit an entry for the
\* same instrument as well, a single one emits one signal.
ExitsEnd ==
  /\ phase = "exits"
  /\ phase' = "entries"
  /\ signalled' = IF synchronised THEN {} ELSE signalled
  /\ UNCHANGED <<synchronised, fed, latest, bar, pf, risk, flattened>>

Held(e, side) == e \in Open(pf) /\ pf.positions[e].side = side

\* A position of the other side is closed before the new one is judged.
Reversed(e, side) ==
  IF e \in Open(pf) /\ ~Held(e, side)
    THEN ClosePosition(pf, e, latest[e].close) ELSE pf

RefuseEntry(e, side) ==
  /\ phase = "entries"
  /\ e \in Subjects \ signalled
  /\ pf' = Reversed(e, side)
  /\ signalled' = signalled \cup {e}
  /\ UNCHANGED <<synchronised, phase, fed, latest, bar, risk, flattened>>

WithinCap(size, price, equity) == 100 * size * price <= MaxPositionPct * equity

Enter(e, side, size, stop, target) ==
  LET freed == Reversed(e, side)
      price == latest[e].close
  IN  /\ phase = "entries"
      /\ e \in Subjects \ signalled
      /\ ~Held(e, side)
      /\ MayEnter(risk, Equity(freed), Cardinality(Open(freed)))
      /\ WithinCap(size, price, Equity(freed))
      /\ pf' = OpenPosition(freed, e, side, size, price, stop, target)
      /\ signalled' = signalled \cup {e}
      /\ UNCHANGED <<synchronised, phase, fed, latest, bar, risk, flattened>>

EndBar ==
  /\ phase = "entries"
  /\ phase' = "feed"
  /\ bar' = {}
  /\ signalled' = {}
  /\ UNCHANGED <<synchronised, fed, latest, pf, risk, flattened>>

EndOfData ==
  /\ phase = "feed"
  /\ fed > 0
  /\ bar = {}
  /\ phase' = "end"
  /\ UNCHANGED <<synchronised, fed, latest, bar, signalled, pf, risk, flattened>>

CloseLeft(e) ==
  /\ phase = "end"
  /\ e \in Open(pf)
  /\ pf' = ClosePosition(pf, e, pf.last[e])
  /\ UNCHANGED <<synchronised, phase, fed, latest, bar, signalled, risk, flattened>>

Report ==
  /\ phase = "end"
  /\ Open(pf) = {}
  /\ UNCHANGED vars

\* Where a level of a signal lies: a distance away on its own side, or nowhere.
LevelsBelow(price) == {price - x : x \in Distances} \cup {NoLevel}
LevelsAbove(price) == {price + x : x \in Distances} \cup {NoLevel}

EntrySignal(e, side) ==
  LET price == latest[e].close
      stops == IF side = "BUY" THEN LevelsBelow(price) ELSE LevelsAbove(price)
      targets == IF side = "BUY" THEN LevelsAbove(price) ELSE LevelsBelow(price)
  IN  \/ RefuseEntry(e, side)
      \/ \E size \in Sizes, stop \in stops, target \in targets :
           Enter(e, side, size, stop, target)

Next ==
  \/ \E e \in Epics, c \in Candles : Feed(e, c)
  \/ \E d \in Days : UpdateRisk(d)
  \/ \E e \in Epics : Flatten(e)
  \/ FlattenEnds
  \/ \E e \in Epics : ExitSignal(e)
  \/ ExitsEnd
  \/ \E e \in Epics, side \in Sides :
       e \in Subjects /\ EntrySignal(e, side)
  \/ EndBar
  \/ EndOfData
  \/ \E e \in Epics : CloseLeft(e)
  \/ Report

Spec == Init /\ [][Next]_vars

----------------------------------------------------------------------------
(***************************************************************************)
(* Properties.                                                             *)
(***************************************************************************)

\* The loop, the portfolio and the risk manager have values of their kind.
TypeOK ==
  /\ synchronised \in BOOLEAN
  /\ phase \in {"feed", "flatten", "exits", "entries", "end"}
  /\ fed \in 0..MaxCandles
  /\ latest \in [Epics -> Candles \cup {NoCandle}]
  /\ bar \subseteq Epics
  /\ signalled \subseteq Subjects
  /\ DOMAIN pf = {"cash", "positions", "last", "fills", "trades", "pnl", "fees"}
  /\ pf.positions \in [Epics -> Positions \cup {NoPosition}]
  /\ pf.last \in [Epics -> Int]
  /\ {pf.fills, pf.trades, pf.fees} \subseteq Nat
  /\ {pf.cash, pf.pnl} \subseteq Int
  /\ risk \in RiskStates
  /\ flattened \in BOOLEAN

(***************************************************************************)
(* Once the switch has tripped and the pass of closes is over, nothing is  *)
(* open, whatever signals and bars follow (README.md:206-208, "flattens    *)
(* every position and stops opening new ones").  With an all-time peak     *)
(* only: in rolling mode the flag outlives the re-armed switch.            *)
(***************************************************************************)
KilledMeansFlat == risk.killed /\ phase # "flatten" => Open(pf) = {}

(***************************************************************************)
(* The limit on open positions holds between any two signals, also where a *)
(* portfolio strategy sends several for one bar and where one of them      *)
(* reverses a position (backtest/engine.py:198-202, 239-254).              *)
(***************************************************************************)
WithinMaxOpen == Cardinality(Open(pf)) <= MaxOpenPositions

(***************************************************************************)
(* The cash is what the account started with, the results of the trades,   *)
(* and the commissions of their entries; every fill belongs to a trade or  *)
(* to an open position, however the position was closed                    *)
(* (backtest/portfolio.py:53-95).                                          *)
(***************************************************************************)
BooksBalance ==
  LET entries == pf.trades + Cardinality(Open(pf))
  IN  /\ pf.cash = StartingEquity + pf.pnl - Commission * entries
      /\ pf.fills = pf.trades + entries

(***************************************************************************)
(* A position whose stop or target a bar reached is closed in that bar: at *)
(* no better than the stop and than the open of the bar if the stop was    *)
(* reached, the target as well or not, else at no better than the target,  *)
(* and half the spread and the slippage worse (README.md:488-489, "not     *)
(* optimistic fills").                                                     *)
(***************************************************************************)
LevelsHonoured ==
  [][\A e \in bar' \ bar :
       LET pos == pf.positions[e]
           c == latest'[e]
           worse(x, y) == Sign(pos.side) * (y - x) >= Adverse
       IN  pos # NoPosition =>
             /\ StopHit(pos, c) \/ TargetHit(pos, c) => e \notin Open(pf')
             /\ StopHit(pos, c) =>
                  worse(pf'.last[e], pos.stop) /\ worse(pf'.last[e], c.open)
             /\ TargetHit(pos, c) /\ ~StopHit(pos, c) =>
                  worse(pf'.last[e], pos.target)]_vars

(***************************************************************************)
(* Outside protective levels, a close pays half a spread and the slippage  *)
(* on the last close of the instrument (execution/simulated.py:4-5: "half- *)
(* spread on each side (buy at ask, sell at bid)").  The code marks a new  *)
(* position at its own fill price instead: closed before the next bar of   *)
(* its instrument, it gets its spread and slippage back.                   *)
(***************************************************************************)
PaysTheSpread ==
  [][\A e \in Open(pf) :
       LET pos == pf.positions[e]
       IN  bar' \subseteq bar /\ e \notin Open(pf') =>
             Sign(pos.side) * (latest[e].close - pf'.last[e]) >= Adverse]_vars

(***************************************************************************)
(* README.md:488-489, "Backtests apply spread, slippage and commission":   *)
(* with everything closed, the results of the trades are what the account  *)
(* won or lost.  The code takes the commission of an entry from the cash   *)
(* (portfolio.py:56) and charges the trade with that of its exit only      *)
(* (portfolio.py:73-74).                                                   *)
(***************************************************************************)
ResultsAreNet ==
  (phase = "end" /\ Open(pf) = {}) => pf.cash = StartingEquity + pf.pnl

=============================================================================
