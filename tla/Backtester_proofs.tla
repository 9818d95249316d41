------------------------- MODULE Backtester_proofs -------------------------
(***************************************************************************)
(* Proofs about Backtester, for any instruments, bars, costs and limits.   *)
(* What they say of the portfolio does not depend on what the equity is.   *)
(***************************************************************************)
EXTENDS Backtester, FiniteSetTheorems, TLAPS

----------------------------------------------------------------------------
(* The portfolio. *)

Portfolios ==
  [cash : Int, positions : [Epics -> Positions \cup {NoPosition}],
   last : [Epics -> Int], fills : Nat, trades : Nat, pnl : Int, fees : Nat]

Balanced(p) ==
  LET entries == p.trades + Cardinality(Open(p))
  IN  /\ p.cash = StartingEquity + p.pnl - Commission * entries
      /\ p.fills = p.trades + entries

LEMMA OpenCount ==
  ASSUME NEW p
  PROVE  IsFiniteSet(Open(p)) /\ Cardinality(Open(p)) \in Nat
<1>1. Open(p) \subseteq Epics
  BY DEF Open
<1> QED
  BY <1>1, EpicsAssumption, FS_Subset, FS_CardinalityType

LEMMA FillType ==
  ASSUME NEW side \in Sides, NEW price \in Int
  PROVE  FillPrice(side, price) \in Int /\ Opposite(side) \in Sides /\ Sign(side) \in Int
BY CostsAssumption DEF FillPrice, Opposite, Sign, Sides

LEMMA CommissionStep ==
  ASSUME NEW n \in Nat
  PROVE  /\ Commission * n \in Int
         /\ Commission * (n + 1) = Commission * n + Commission
BY CostsAssumption, SMT

(***************************************************************************)
(* Closing takes the instrument out and keeps the books balanced.          *)
(***************************************************************************)
LEMMA CloseFacts ==
  ASSUME NEW p \in Portfolios, NEW e \in Open(p), NEW price \in Int
  PROVE  /\ ClosePosition(p, e, price) \in Portfolios
         /\ Open(ClosePosition(p, e, price)) = Open(p) \ {e}
         /\ Balanced(p) => Balanced(ClosePosition(p, e, price))
<1> DEFINE pos == p.positions[e]
           got == FillPrice(Opposite(pos.side), price)
           pnl == Sign(pos.side) * pos.size * (got - pos.entry) - Commission
           q == ClosePosition(p, e, price)
<1>1. e \in Epics /\ pos \in Positions
  BY DEF Open, Portfolios
<1>2. pnl \in Int /\ got \in Int
  <2>1. pos.side \in Sides /\ pos.size \in Nat /\ pos.entry \in Int
    BY <1>1, CostsAssumption DEF Positions
  <2>2. got \in Int /\ Sign(pos.side) \in Int
    BY <2>1, FillType
  <2> HIDE DEF got, pos
  <2>3. Sign(pos.side) * pos.size \in Int
    BY <2>1, <2>2
  <2>4. Sign(pos.side) * pos.size * (got - pos.entry) \in Int
    BY <2>1, <2>2, <2>3
  <2> QED
    BY <2>2, <2>4, CostsAssumption
<1>3. q = [p EXCEPT !.cash = @ + pnl, !.positions[e] = NoPosition, !.last[e] = got,
                    !.fills = @ + 1, !.trades = @ + 1, !.pnl = @ + pnl,
                    !.fees = @ + Commission]
  BY DEF ClosePosition
<1> HIDE DEF pos, got, pnl, q
<1>4. q \in Portfolios
  <2>1. [p.positions EXCEPT ![e] = NoPosition] \in [Epics -> Positions \cup {NoPosition}]
    BY DEF Portfolios
  <2>2. [p.last EXCEPT ![e] = got] \in [Epics -> Int]
    BY <1>2 DEF Portfolios
  <2>3. q = [cash |-> p.cash + pnl,
             positions |-> [p.positions EXCEPT ![e] = NoPosition],
             last |-> [p.last EXCEPT ![e] = got], fills |-> p.fills + 1,
             trades |-> p.trades + 1, pnl |-> p.pnl + pnl,
             fees |-> p.fees + Commission]
    BY <1>3 DEF Portfolios
  <2> QED
    BY <1>2, <2>1, <2>2, <2>3, CostsAssumption DEF Portfolios
<1>5. Open(q) = Open(p) \ {e}
  BY <1>1, <1>3 DEF Open, Portfolios
<1>6. Cardinality(Open(q)) = Cardinality(Open(p)) - 1
  BY <1>5, OpenCount, FS_RemoveElement
<1>7. ASSUME Balanced(p) PROVE Balanced(q)
  <2> DEFINE n == p.trades + Cardinality(Open(p))
  <2>1. q.trades + Cardinality(Open(q)) = n /\ n \in Nat
    BY <1>3, <1>6, OpenCount DEF Portfolios
  <2>2. q.fills = p.fills + 1 /\ q.trades = p.trades + 1
    BY <1>3 DEF Portfolios
  <2>3. q.cash = p.cash + pnl /\ q.pnl = p.pnl + pnl
    BY <1>3 DEF Portfolios
  <2>4. p.cash = StartingEquity + p.pnl - Commission * n /\ p.fills = p.trades + n
    BY <1>7 DEF Balanced
  <2>5. {p.cash, p.pnl, p.fills, p.trades} \subseteq Int /\ Commission * n \in Int
    BY <2>1, CommissionStep DEF Portfolios
  <2> HIDE DEF n
  <2>6. /\ q.cash = StartingEquity + q.pnl - Commission * n
        /\ q.fills = q.trades + n
    BY <2>1, <2>2, <2>3, <2>4, <2>5, <1>2, CostsAssumption
  <2> QED
    BY <2>1, <2>6 DEF Balanced
<1> QED
  BY <1>4, <1>5, <1>7 DEF q

(***************************************************************************)
(* So does opening, where nothing of the instrument is held.               *)
(***************************************************************************)
LEMMA OpenFacts ==
  ASSUME NEW p \in Portfolios, NEW e \in Epics \ Open(p), NEW side \in Sides,
         NEW size \in Sizes, NEW price \in Int,
         NEW stop \in Levels, NEW target \in Levels
  PROVE  LET q == OpenPosition(p, e, side, size, price, stop, target)
         IN  /\ q \in Portfolios
             /\ Cardinality(Open(q)) = Cardinality(Open(p)) + 1
             /\ Balanced(p) => Balanced(q)
<1> DEFINE paid == FillPrice(side, price)
           new == [side |-> side, size |-> size, entry |-> paid,
                   stop |-> stop, target |-> target]
           q == OpenPosition(p, e, side, size, price, stop, target)
<1>1. paid \in Int
  BY FillType
<1>2. new \in Positions /\ new # NoPosition
  BY <1>1, SentinelAssumption DEF Positions
<1>3. q = [p EXCEPT !.cash = @ - Commission, !.positions[e] = new, !.last[e] = paid,
                    !.fills = @ + 1]
  BY DEF OpenPosition
<1> HIDE DEF paid, new, q
<1>4. q \in Portfolios
  <2>1. [p.positions EXCEPT ![e] = new] \in [Epics -> Positions \cup {NoPosition}]
    BY <1>2 DEF Portfolios
  <2>2. [p.last EXCEPT ![e] = paid] \in [Epics -> Int]
    BY <1>1 DEF Portfolios
  <2>3. q = [cash |-> p.cash - Commission,
             positions |-> [p.positions EXCEPT ![e] = new],
             last |-> [p.last EXCEPT ![e] = paid], fills |-> p.fills + 1,
             trades |-> p.trades, pnl |-> p.pnl, fees |-> p.fees]
    BY <1>3 DEF Portfolios
  <2> QED
    BY <2>1, <2>2, <2>3, CostsAssumption DEF Portfolios
<1>5. Open(q) = Open(p) \cup {e}
  BY <1>2, <1>3 DEF Open, Portfolios
<1>6. Cardinality(Open(q)) = Cardinality(Open(p)) + 1
  BY <1>5, OpenCount, FS_AddElement
<1>7. ASSUME Balanced(p) PROVE Balanced(q)
  <2> DEFINE n == p.trades + Cardinality(Open(p))
  <2>1. q.trades + Cardinality(Open(q)) = n + 1 /\ n \in Nat /\ q.trades = p.trades
    BY <1>3, <1>6, OpenCount DEF Portfolios
  <2>2. /\ q.cash = p.cash - Commission
        /\ q.pnl = p.pnl
        /\ q.fills = p.fills + 1
    BY <1>3 DEF Portfolios
  <2>3. p.cash = StartingEquity + p.pnl - Commission * n /\ p.fills = p.trades + n
    BY <1>7 DEF Balanced
  <2>4. /\ {p.cash, p.pnl, p.fills, p.trades} \subseteq Int
        /\ Commission * n \in Int
        /\ Commission * (n + 1) = Commission * n + Commission
    BY <2>1, CommissionStep DEF Portfolios
  <2> HIDE DEF n
  <2>5. /\ q.cash = StartingEquity + q.pnl - Commission * (n + 1)
        /\ q.fills = q.trades + (n + 1)
    BY <2>1, <2>2, <2>3, <2>4, CostsAssumption
  <2> QED
    BY <2>1, <2>5 DEF Balanced
<1> QED
  BY <1>4, <1>6, <1>7 DEF q

LEMMA MarkFacts ==
  ASSUME NEW p \in Portfolios, NEW e \in Epics, NEW price \in Int
  PROVE  /\ Mark(p, e, price) \in Portfolios
         /\ Open(Mark(p, e, price)) = Open(p)
         /\ Mark(p, e, price).positions = p.positions
         /\ Balanced(p) => Balanced(Mark(p, e, price))
<1>1. Mark(p, e, price) = [p EXCEPT !.last = [@ EXCEPT ![e] = price]]
  BY DEF Mark, Portfolios
<1>2. Mark(p, e, price) \in Portfolios
  BY <1>1 DEF Portfolios
<1>3. /\ Mark(p, e, price).positions = p.positions
      /\ Mark(p, e, price).cash = p.cash
      /\ Mark(p, e, price).pnl = p.pnl
      /\ Mark(p, e, price).fills = p.fills
      /\ Mark(p, e, price).trades = p.trades
  BY <1>1 DEF Portfolios
<1>4. Open(Mark(p, e, price)) = Open(p)
  BY <1>3 DEF Open
<1> QED
  BY <1>2, <1>3, <1>4 DEF Balanced

LEMMA ProtectFacts ==
  ASSUME NEW p \in Portfolios, NEW e \in Epics, NEW c \in Candles
  PROVE  /\ Protect(p, e, c) \in Portfolios
         /\ Open(Protect(p, e, c)) \subseteq Open(p)
         /\ Balanced(p) => Balanced(Protect(p, e, c))
<1> DEFINE pos == p.positions[e]
<1>1. CASE pos = NoPosition
  BY <1>1 DEF Protect
<1>2. CASE pos # NoPosition
  <2>1. e \in Open(p) /\ pos \in Positions
    BY <1>2 DEF Open, Portfolios
  <2>2. c.open \in Int
    BY CandlesAssumption
  <2>3. CASE StopHit(pos, c)
    <3>1. pos.stop \in Int
      BY <2>1, <2>3 DEF StopHit, Positions, Levels
    <3>2. StopFill(pos, c) \in Int
      BY <2>2, <3>1 DEF StopFill
    <3>3. Protect(p, e, c) = ClosePosition(p, e, StopFill(pos, c))
      BY <1>2, <2>3 DEF Protect
    <3> QED
      BY <2>1, <3>2, <3>3, CloseFacts
  <2>4. CASE ~StopHit(pos, c) /\ TargetHit(pos, c)
    <3>1. pos.target \in Int
      BY <2>1, <2>4 DEF TargetHit, Positions, Levels
    <3>2. Protect(p, e, c) = ClosePosition(p, e, pos.target)
      BY <1>2, <2>4 DEF Protect
    <3> QED
      BY <2>1, <3>1, <3>2, CloseFacts
  <2>5. CASE ~StopHit(pos, c) /\ ~TargetHit(pos, c)
    BY <1>2, <2>5 DEF Protect
  <2> QED
    BY <2>3, <2>4, <2>5
<1> QED
  BY <1>1, <1>2

----------------------------------------------------------------------------
(* The books and the limit on positions. *)

BookInv ==
  /\ pf \in Portfolios
  /\ Balanced(pf)
  /\ Cardinality(Open(pf)) <= MaxOpenPositions
  /\ latest \in [Epics -> Candles \cup {NoCandle}]
  /\ bar \subseteq {e \in Epics : latest[e] # NoCandle}

\* Closing and losing positions leaves the books in order.
LEMMA FewerOpen ==
  ASSUME NEW p, NEW q, Open(q) \subseteq Open(p),
         Cardinality(Open(p)) <= MaxOpenPositions
  PROVE  Cardinality(Open(q)) <= MaxOpenPositions
BY OpenCount, FS_Subset, LimitsAssumption

LEMMA ClosedBooks ==
  ASSUME NEW p \in Portfolios, Balanced(p), Cardinality(Open(p)) <= MaxOpenPositions,
         NEW e \in Open(p), NEW price \in Int
  PROVE  LET q == ClosePosition(p, e, price)
         IN  q \in Portfolios /\ Balanced(q) /\ Cardinality(Open(q)) <= MaxOpenPositions
BY CloseFacts, FewerOpen

LEMMA SubjectPrice ==
  ASSUME BookInv, NEW e \in Subjects
  PROVE  e \in Epics /\ latest[e].close \in Int
<1>1. e \in Epics /\ latest[e] # NoCandle
  BY DEF Subjects, BookInv
<1>2. latest[e] \in Candles
  BY <1>1 DEF BookInv
<1> QED
  BY <1>1, <1>2, CandlesAssumption

\* What a reversal leaves: nothing of the other side.
LEMMA ReversedFacts ==
  ASSUME BookInv, NEW e \in Subjects, NEW side \in Sides
  PROVE  /\ Reversed(e, side) \in Portfolios
         /\ Balanced(Reversed(e, side))
         /\ Cardinality(Open(Reversed(e, side))) <= MaxOpenPositions
         /\ ~Held(e, side) => e \notin Open(Reversed(e, side))
<1>1. CASE e \in Open(pf) /\ ~Held(e, side)
  <2>1. Reversed(e, side) = ClosePosition(pf, e, latest[e].close)
    BY <1>1 DEF Reversed
  <2> QED
    BY <1>1, <2>1, SubjectPrice, ClosedBooks, CloseFacts DEF BookInv
<1>2. CASE ~(e \in Open(pf) /\ ~Held(e, side))
  BY <1>2 DEF Reversed, BookInv, Held
<1> QED
  BY <1>1, <1>2

LEMMA InitBooks == Init => BookInv
<1> SUFFICES ASSUME Init PROVE BookInv
  OBVIOUS
<1>1. pf \in Portfolios
  BY CostsAssumption DEF Init, Portfolios
<1>2. Open(pf) = {}
  BY DEF Init, Open
<1>3. Cardinality(Open(pf)) = 0
  BY <1>2, FS_EmptySet
<1>4. Balanced(pf)
  BY <1>3, CostsAssumption, SMT DEF Init, Balanced
<1> QED
  BY <1>1, <1>3, <1>4, LimitsAssumption DEF Init, BookInv

LEMMA FeedBooks ==
  ASSUME BookInv, NEW e \in Epics, NEW c \in Candles, Feed(e, c)
  PROVE  BookInv'
<1> DEFINE marked == Mark(pf, e, c.close)
<1>1. c.close \in Int
  BY CandlesAssumption
<1>2. marked \in Portfolios /\ Open(marked) = Open(pf) /\ Balanced(marked)
  BY <1>1, MarkFacts DEF BookInv
<1>3. pf' = Protect(marked, e, c)
  BY DEF Feed
<1> HIDE DEF marked
<1>4. pf' \in Portfolios /\ Open(pf') \subseteq Open(pf) /\ Balanced(pf')
  BY <1>2, <1>3, ProtectFacts
<1>5. Cardinality(Open(pf')) <= MaxOpenPositions
  BY <1>4, FewerOpen DEF BookInv
<1>6. latest' \in [Epics -> Candles \cup {NoCandle}]
  BY DEF Feed, BookInv
<1>7. bar' \subseteq {x \in Epics : latest'[x] # NoCandle}
  BY SentinelAssumption DEF Feed, BookInv
<1> QED
  BY <1>4, <1>5, <1>6, <1>7 DEF BookInv

LEMMA EnterBooks ==
  ASSUME BookInv, NEW e \in Subjects, NEW side \in Sides, NEW size \in Sizes,
         NEW stop \in Levels, NEW target \in Levels,
         Enter(e, side, size, stop, target)
  PROVE  BookInv'
<1> DEFINE freed == Reversed(e, side)
<1>1. ~Held(e, side) /\ Cardinality(Open(freed)) < MaxOpenPositions
  BY DEF Enter, MayEnter
<1>2. /\ freed \in Portfolios
      /\ Balanced(freed)
      /\ e \in Epics \ Open(freed)
  BY <1>1, ReversedFacts, SubjectPrice
<1>3. pf' = OpenPosition(freed, e, side, size, latest[e].close, stop, target)
  BY DEF Enter
<1>4. latest[e].close \in Int
  BY SubjectPrice
<1> HIDE DEF freed
<1>5. /\ pf' \in Portfolios
      /\ Balanced(pf')
      /\ Cardinality(Open(pf')) = Cardinality(Open(freed)) + 1
  BY <1>2, <1>3, <1>4, OpenFacts
<1>6. Cardinality(Open(pf')) <= MaxOpenPositions
  BY <1>1, <1>5, OpenCount, LimitsAssumption
<1> QED
  BY <1>5, <1>6 DEF Enter, BookInv

LEMMA EntrySignalBooks ==
  ASSUME BookInv, NEW e \in Subjects, NEW side \in Sides, EntrySignal(e, side)
  PROVE  BookInv'
<1>1. CASE RefuseEntry(e, side)
  BY <1>1, ReversedFacts DEF RefuseEntry, BookInv
<1>2. ASSUME NEW size \in Sizes,
             NEW stop \in LevelsBelow(latest[e].close) \cup LevelsAbove(latest[e].close),
             NEW target \in LevelsBelow(latest[e].close) \cup LevelsAbove(latest[e].close),
             Enter(e, side, size, stop, target)
      PROVE  BookInv'
  <2>1. stop \in Levels /\ target \in Levels
    BY SubjectPrice, CostsAssumption DEF LevelsBelow, LevelsAbove, Levels
  <2> QED
    BY <1>2, <2>1, EnterBooks
<1> QED
  BY <1>1, <1>2 DEF EntrySignal

LEMMA NextBooks ==
  ASSUME BookInv, [Next]_vars
  PROVE  BookInv'
<1>1. ASSUME NEW e \in Epics, NEW c \in Candles, Feed(e, c) PROVE BookInv'
  BY <1>1, FeedBooks
<1>2. ASSUME NEW d \in Days, UpdateRisk(d) PROVE BookInv'
  BY <1>2 DEF UpdateRisk, BookInv
<1>3. ASSUME NEW e \in Epics, Flatten(e) \/ CloseLeft(e) PROVE BookInv'
  <2>1. e \in Open(pf) /\ pf.last[e] \in Int /\ pf' = ClosePosition(pf, e, pf.last[e])
    BY <1>3 DEF Flatten, CloseLeft, BookInv, Portfolios
  <2> QED
    BY <1>3, <2>1, ClosedBooks DEF Flatten, CloseLeft, BookInv
<1>4. ASSUME NEW e \in Epics, ExitSignal(e) PROVE BookInv'
  <2>1. CASE e \in Open(pf)
    <3>1. pf' = ClosePosition(pf, e, latest[e].close) /\ latest[e].close \in Int
      BY <1>4, <2>1, SubjectPrice DEF ExitSignal
    <3> QED
      BY <1>4, <2>1, <3>1, ClosedBooks DEF ExitSignal, BookInv
  <2>2. CASE e \notin Open(pf)
    BY <1>4, <2>2 DEF ExitSignal, BookInv
  <2> QED
    BY <2>1, <2>2
<1>5. CASE FlattenEnds \/ ExitsEnd \/ EndBar \/ EndOfData
  BY <1>5 DEF FlattenEnds, ExitsEnd, EndBar, EndOfData, BookInv
<1>6. ASSUME NEW e \in Epics, NEW side \in Sides, e \in Subjects, EntrySignal(e, side)
      PROVE  BookInv'
  BY <1>6, EntrySignalBooks
<1>7. CASE Report \/ UNCHANGED vars
  BY <1>7 DEF Report, vars, BookInv
<1> QED
  BY <1>1, <1>2, <1>3, <1>4, <1>5, <1>6, <1>7 DEF Next

LEMMA BooksHold == Spec => []BookInv
BY InitBooks, NextBooks, PTL DEF Spec

(***************************************************************************)
(* Cash, trades, fills and commissions agree, whatever the bars, signals   *)
(* and closes were (backtest/portfolio.py:53-95).                          *)
(***************************************************************************)
THEOREM BooksAlwaysBalance == Spec => []BooksBalance
<1>1. BookInv => BooksBalance
  BY DEF BookInv, Balanced, BooksBalance
<1> QED
  BY <1>1, BooksHold, PTL

(***************************************************************************)
(* The limit on open positions holds for any number of instruments and of  *)
(* signals in a bar (risk/manager.py:184).                                 *)
(***************************************************************************)
THEOREM LimitHolds == Spec => []WithinMaxOpen
<1>1. BookInv => WithinMaxOpen
  BY DEF BookInv, WithinMaxOpen
<1> QED
  BY <1>1, BooksHold, PTL

----------------------------------------------------------------------------
(* The protective levels. *)

\* A close at y is no better than x, after half the spread and the slippage.
NoBetter(side, y, x) == Sign(side) * (x - y) >= Adverse

LEMMA WorseThan ==
  ASSUME NEW side \in Sides, NEW price \in Int, NEW x \in Int,
         Sign(side) * (x - price) >= 0
  PROVE  NoBetter(side, FillPrice(Opposite(side), price), x)
BY CostsAssumption DEF NoBetter, FillPrice, Opposite, Sign, Sides

(***************************************************************************)
(* What the stop and the target of a position do with a bar that reaches   *)
(* them: a gap fills at the open, never at the better level.               *)
(***************************************************************************)
LEMMA ProtectHonours ==
  ASSUME NEW p \in Portfolios, NEW e \in Open(p), NEW c \in Candles
  PROVE  LET pos == p.positions[e]
             q == Protect(p, e, c)
         IN  /\ StopHit(pos, c) \/ TargetHit(pos, c) => e \notin Open(q)
             /\ StopHit(pos, c) =>
                  /\ NoBetter(pos.side, q.last[e], pos.stop)
                  /\ NoBetter(pos.side, q.last[e], c.open)
             /\ TargetHit(pos, c) /\ ~StopHit(pos, c) =>
                  NoBetter(pos.side, q.last[e], pos.target)
<1> DEFINE pos == p.positions[e]
<1>1. e \in Epics /\ pos \in Positions /\ pos # NoPosition
  BY DEF Open, Portfolios
<1>2. pos.side \in Sides /\ pos.stop \in Levels /\ pos.target \in Levels
  BY <1>1 DEF Positions
<1>3. c.open \in Int
  BY CandlesAssumption
<1>4. ASSUME NEW price \in Int
      PROVE  LET q == ClosePosition(p, e, price)
             IN  e \notin Open(q) /\ q.last[e] = FillPrice(Opposite(pos.side), price)
  <2>1. Open(ClosePosition(p, e, price)) = Open(p) \ {e}
    BY <1>4, CloseFacts
  <2> DEFINE got == FillPrice(Opposite(pos.side), price)
             pnl == Sign(pos.side) * pos.size * (got - pos.entry) - Commission
  <2>2. ClosePosition(p, e, price) =
          [p EXCEPT !.cash = @ + pnl, !.positions[e] = NoPosition, !.last[e] = got,
                    !.fills = @ + 1, !.trades = @ + 1, !.pnl = @ + pnl,
                    !.fees = @ + Commission]
    BY DEF ClosePosition
  <2>3. e \in Epics
    BY <1>1
  <2> HIDE DEF pos, got, pnl
  <2>4. ClosePosition(p, e, price).last[e] = got
    BY <2>2, <2>3 DEF Portfolios
  <2> QED
    BY <2>1, <2>4 DEF got
<1> HIDE DEF pos
<1>5. CASE StopHit(pos, c)
  <2> DEFINE price == StopFill(pos, c)
  <2>1. pos.stop \in Int
    BY <1>2, <1>5 DEF StopHit, Levels
  <2>2. /\ price \in Int
        /\ Sign(pos.side) * (pos.stop - price) >= 0
        /\ Sign(pos.side) * (c.open - price) >= 0
    BY <1>2, <1>3, <2>1 DEF StopFill, Sign, Sides
  <2>3. Protect(p, e, c) = ClosePosition(p, e, price)
    BY <1>1, <1>5 DEF Protect, pos
  <2> HIDE DEF price
  <2>4. /\ NoBetter(pos.side, FillPrice(Opposite(pos.side), price), pos.stop)
        /\ NoBetter(pos.side, FillPrice(Opposite(pos.side), price), c.open)
    BY <1>2, <1>3, <2>1, <2>2, WorseThan
  <2> QED
    BY <1>4, <1>5, <2>2, <2>3, <2>4 DEF pos
<1>6. CASE ~StopHit(pos, c) /\ TargetHit(pos, c)
  <2>1. pos.target \in Int
    BY <1>2, <1>6 DEF TargetHit, Levels
  <2>2. Protect(p, e, c) = ClosePosition(p, e, pos.target)
    BY <1>1, <1>6 DEF Protect, pos
  <2>3. Sign(pos.side) * (pos.target - pos.target) >= 0
    BY <1>2, <2>1 DEF Sign, Sides
  <2>4. NoBetter(pos.side, FillPrice(Opposite(pos.side), pos.target), pos.target)
    BY <1>2, <2>1, <2>3, WorseThan
  <2> QED
    BY <1>4, <1>6, <2>1, <2>2, <2>4 DEF pos
<1>7. CASE ~StopHit(pos, c) /\ ~TargetHit(pos, c)
  BY <1>7 DEF pos
<1> QED
  BY <1>5, <1>6, <1>7

(***************************************************************************)
(* A bar that reaches a level closes the position: at no better than the   *)
(* stop and than the open of the bar when the stop was reached, else at no *)
(* better than the target, costs on top, for any levels, bars and costs    *)
(* and whatever position the portfolio holds (backtest/engine.py,          *)
(* _check_protective_levels).                                              *)
(***************************************************************************)
THEOREM FillsAreNotOptimistic == Spec => LevelsHonoured
<1>1. BookInv /\ [Next]_vars =>
        [\A e \in bar' \ bar :
           LET pos == pf.positions[e]
               c == latest'[e]
               worse(x, y) == Sign(pos.side) * (y - x) >= Adverse
           IN  pos # NoPosition =>
                 /\ StopHit(pos, c) \/ TargetHit(pos, c) => e \notin Open(pf')
                 /\ StopHit(pos, c) =>
                      worse(pf'.last[e], pos.stop) /\ worse(pf'.last[e], c.open)
                 /\ TargetHit(pos, c) /\ ~StopHit(pos, c) =>
                      worse(pf'.last[e], pos.target)]_vars
  <2> SUFFICES ASSUME BookInv, Next, NEW e \in bar' \ bar,
                      pf.positions[e] # NoPosition
               PROVE  LET pos == pf.positions[e]
                          c == latest'[e]
                      IN  /\ StopHit(pos, c) \/ TargetHit(pos, c) => e \notin Open(pf')
                          /\ StopHit(pos, c) =>
                               /\ NoBetter(pos.side, pf'.last[e], pos.stop)
                               /\ NoBetter(pos.side, pf'.last[e], c.open)
                          /\ TargetHit(pos, c) /\ ~StopHit(pos, c) =>
                               NoBetter(pos.side, pf'.last[e], pos.target)
    BY DEF NoBetter, vars
  <2>1. PICK x \in Epics, c \in Candles : Feed(x, c)
    BY DEF Next, UpdateRisk, Flatten, FlattenEnds, ExitSignal, ExitsEnd, EntrySignal,
           RefuseEntry, Enter, EndBar, EndOfData, CloseLeft, Report, vars
  <2> DEFINE marked == Mark(pf, e, c.close)
  <2>2. x = e /\ latest'[e] = c /\ pf' = Protect(marked, e, c)
    BY <2>1 DEF Feed, BookInv
  <2>3. /\ marked \in Portfolios /\ e \in Open(marked)
        /\ marked.positions[e] = pf.positions[e]
    <3>1. c.close \in Int
      BY CandlesAssumption
    <3> QED
      BY <2>1, <2>2, <3>1, MarkFacts DEF BookInv, Open
  <2> HIDE DEF marked
  <2> QED
    BY <2>2, <2>3, ProtectHonours
<1> QED
  BY <1>1, BooksHold, PTL DEF Spec, LevelsHonoured

----------------------------------------------------------------------------
(* The kill switch. *)

\* A record with the fields of a risk manager, its numbers not looked at.
Shaped(r) ==
  /\ r = [day |-> r.day, dayStart |-> r.dayStart, halted |-> r.halted,
          peak |-> r.peak, killed |-> r.killed, window |-> r.window]
  /\ r.killed \in BOOLEAN

\* All-time mode: an update never clears the switch, whatever the equity is.
LEMMA UpdateKeepsKill ==
  ASSUME NEW r, NEW d, NEW e, Shaped(r), ~Rolling
  PROVE  /\ Shaped(UpdateEquity(r, d, e))
         /\ r.killed => UpdateEquity(r, d, e).killed
<1> DEFINE rolled == RollDay(r, d, e)
           checked == DailyCheck(rolled, e)
<1>1. Shaped(rolled) /\ rolled.killed = r.killed
  BY DEF RollDay, StartDay, Shaped
<1> HIDE DEF rolled
<1>2. Shaped(checked) /\ checked.killed = r.killed
  <2> DEFINE halt == rolled.halted \/ Lost(rolled.dayStart, e, MaxDailyLossPct)
             top == Higher(rolled.peak, e)
  <2>1. checked = [rolled EXCEPT !.halted = halt, !.peak = top]
    BY DEF DailyCheck
  <2> HIDE DEF halt, top, checked
  <2> QED
    BY <1>1, <2>1 DEF Shaped
<1> HIDE DEF checked
<1>3. /\ Shaped(AllTimeCheck(checked, e))
      /\ checked.killed => AllTimeCheck(checked, e).killed
  BY <1>2 DEF AllTimeCheck, Shaped
<1>4. UpdateEquity(r, d, e) = AllTimeCheck(checked, e)
  BY DEF UpdateEquity, checked, rolled
<1> QED
  BY <1>2, <1>3, <1>4

KillInv ==
  /\ Shaped(risk)
  /\ phase \in {"exits", "entries"} => ~risk.killed
  /\ phase = "flatten" => risk.killed
  /\ flattened => risk.killed
  /\ risk.killed /\ phase # "flatten" => flattened /\ Open(pf) = {}

LEMMA InitKill == Init => KillInv
BY DEF Init, KillInv, Shaped, NewRisk, StartDay

LEMMA NextKill ==
  ASSUME BookInv, KillInv, [Next]_vars, ~Rolling
  PROVE  KillInv'
<1>1. ASSUME NEW e \in Epics, NEW c \in Candles, Feed(e, c) PROVE KillInv'
  <2>1. c.close \in Int
    BY CandlesAssumption
  <2>2. Open(pf') \subseteq Open(pf)
    BY <1>1, <2>1, MarkFacts, ProtectFacts DEF Feed, BookInv
  <2> QED
    BY <1>1, <2>2 DEF Feed, KillInv
<1>2. ASSUME NEW d \in Days, UpdateRisk(d) PROVE KillInv'
  <2>1. Shaped(risk') /\ (risk.killed => risk'.killed)
    BY <1>2, UpdateKeepsKill DEF UpdateRisk, KillInv
  <2> QED
    BY <1>2, <2>1 DEF UpdateRisk, AfterUpdate, KillInv
<1>3. ASSUME NEW e \in Epics, Flatten(e) \/ CloseLeft(e) PROVE KillInv'
  BY <1>3 DEF Flatten, CloseLeft, KillInv
<1>4. ASSUME NEW e \in Epics, ExitSignal(e) PROVE KillInv'
  BY <1>4 DEF ExitSignal, KillInv
<1>5. CASE FlattenEnds \/ ExitsEnd \/ EndBar \/ EndOfData
  BY <1>5 DEF FlattenEnds, ExitsEnd, EndBar, EndOfData, KillInv
<1>6. ASSUME NEW e \in Epics, NEW side \in Sides, EntrySignal(e, side)
      PROVE  KillInv'
  BY <1>6 DEF EntrySignal, RefuseEntry, Enter, KillInv
<1>7. CASE Report \/ UNCHANGED vars
  BY <1>7 DEF Report, vars, KillInv
<1> QED
  BY <1>1, <1>2, <1>3, <1>4, <1>5, <1>6, <1>7 DEF Next

(***************************************************************************)
(* With an all-time peak, an account whose switch has tripped is flat once *)
(* its pass of closes is over, and stays flat to the end of the data, for  *)
(* any number of instruments (backtest/engine.py:132-141, 180-187).        *)
(***************************************************************************)
THEOREM KilledStaysFlat ==
  ASSUME ~Rolling
  PROVE  Spec => []KilledMeansFlat
<1>1. BookInv /\ KillInv /\ [Next]_vars => KillInv'
  BY NextKill
<1>2. KillInv => KilledMeansFlat
  BY DEF KillInv, KilledMeansFlat
<1> QED
  BY <1>1, <1>2, InitKill, BooksHold, PTL DEF Spec

=============================================================================
