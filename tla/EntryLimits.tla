---------------------------- MODULE EntryLimits ----------------------------
(***************************************************************************)
(* RiskManager.evaluate (risk/manager.py) over a growing and shrinking     *)
(* book: sizing, the currency limits (risk/exposure.py) and the limits of  *)
(* correlated groups (risk/correlation.py).                                *)
(*                                                                         *)
(* A size is measured by its notional, size * price * value_per_point, in  *)
(* hundredths of an account unit; fractions of equity, stop distances and  *)
(* ATRs (of the price) and correlations are percentages.  An order is      *)
(* filled at the price it was decided at.  Epics are numbered in the order *)
(* of their names.                                                         *)
(***************************************************************************)
EXTENDS RiskRules, FiniteSets, Functions

CONSTANTS
  Epics,
  CurrencyMap,         \* epic -> <<base, quote>>, of the epics that have them
  Matrices,            \* the correlations the candles may yield
  WarmSets,            \* the epics that may have the three bars they take
  Balances,
  StopPcts, AtrPcts,   \* distances of signals; 0 is a stop at the price, no ATR
  None,
  SizingMode,          \* sizing_mode
  RiskPerTradePct, VolTargetPct, MaxPositionPct,
  MaxCurrencyExposurePct, MaxPositionsPerCurrency,
  CorrelationThreshold, MaxCorrelatedExposurePct, MaxPositionsPerGroup

Limits == Nat \cup {None}

ASSUME EntryAssumption ==
  /\ Epics \subseteq Nat /\ IsFiniteSet(Epics)
  /\ DOMAIN CurrencyMap \subseteq Epics
  /\ \A e \in DOMAIN CurrencyMap : CurrencyMap[e][1] # CurrencyMap[e][2]
  /\ Matrices \subseteq [Epics -> [Epics -> -100..100]]
  /\ \A m \in Matrices, a, b \in Epics : m[a][b] = m[b][a] /\ m[a][a] = 100
  /\ \A warm \in WarmSets : warm \subseteq Epics /\ Cardinality(warm) >= 2
  /\ Balances \subseteq Nat /\ StopPcts \subseteq Nat /\ AtrPcts \subseteq Nat
  /\ None \notin Nat
  /\ SizingMode \in {"fixed_fractional", "vol_target"}
  /\ {RiskPerTradePct, VolTargetPct, MaxPositionPct, MaxCurrencyExposurePct,
      CorrelationThreshold, MaxCorrelatedExposurePct} \subseteq Nat
  /\ MaxPositionsPerCurrency \in Limits /\ MaxPositionsPerGroup \in Limits

VARIABLES
  manager,     \* halts and kill switch of the RiskManager
  equity,      \* as last reported
  book,        \* the open position of each epic, or None
  correlation  \* the CorrelationModel, or None

entryVars == <<manager, equity, book, correlation>>

Sides == {1, -1}
Positions == [side : Sides, notional : Nat]
Signals == [side : Sides, stop : StopPcts \cup {None}, atr : AtrPcts]

EntryTypeOK ==
  /\ manager \in RiskStates
  /\ equity \in Balances
  /\ book \in [Epics -> Positions \cup {None}]
  /\ correlation \in {None} \cup [group : [Epics -> SUBSET Epics], sign : [Epics -> Sides]]

EntryInit ==
  /\ manager = NewRisk
  /\ equity \in Balances
  /\ book = [e \in Epics |-> None]
  /\ correlation = None

----------------------------------------------------------------------------
\* exposures

Abs(n) == IF n < 0 THEN -n ELSE n

Open(positions) == {e \in Epics : positions[e] # None}
Exposed(p) == p.side * p.notional

\* The base of a pair is held, its quote is owed.
Contribution(e, currency) == IF currency = CurrencyMap[e][1] THEN 1 ELSE -1

Sharing(positions, currency) ==
  {e \in Open(positions) \cap DOMAIN CurrencyMap :
     currency \in {CurrencyMap[e][1], CurrencyMap[e][2]}}

\* net_currency_exposures, of one currency
NetCurrency(positions, currency) ==
  SumFunction([e \in Epics |-> IF e \in Sharing(positions, currency)
                                 THEN Contribution(e, currency) * Exposed(positions[e])
                                 ELSE 0])

----------------------------------------------------------------------------
\* CorrelationModel.from_candles

Linked(m, a, b) == a # b /\ Abs(m[a][b]) >= CorrelationThreshold

\* The cluster of an epic: union-find joins what is linked, directly or not.
Cluster(m, warm, e) ==
  {x \in warm : \A S \in SUBSET warm :
     (e \in S /\ \A a \in S, b \in warm : Linked(m, a, b) => b \in S) => x \in S}

Reference(group) == CHOOSE e \in group : \A x \in group : e <= x

\* An epic without enough bars is of no group.
Model(m, warm) ==
  [group |-> [e \in Epics |-> IF e \in warm THEN Cluster(m, warm, e) ELSE {}],
   sign |-> [e \in Epics |-> IF e \in warm /\ m[e][Reference(Cluster(m, warm, e))] < 0
                                THEN -1 ELSE 1]]

\* Exposure of a group, in the direction of its reference.
NetGroup(positions, group, sign) ==
  SumFunction([e \in Epics |-> IF e \in group \cap Open(positions)
                                 THEN sign[e] * Exposed(positions[e]) ELSE 0])

----------------------------------------------------------------------------
\* evaluate

\* _size_position
Size(signal) ==
  LET cap == equity * MaxPositionPct
      wanted ==
        IF SizingMode = "vol_target" /\ signal.atr # 0
          THEN (equity * VolTargetPct * 100) \div signal.atr
        ELSE IF signal.stop \notin {None, 0}
          THEN (equity * RiskPerTradePct * 100) \div signal.stop
        ELSE cap
  IN IF wanted < cap THEN wanted ELSE cap

BelowLimit(count, limit) == limit # None => count < limit

\* Mutant: the candidate is left out of the projection.
CurrencyOKWithoutCandidate(e, entry) ==
  e \in DOMAIN CurrencyMap =>
    \A c \in {CurrencyMap[e][1], CurrencyMap[e][2]} :
      /\ Abs(NetCurrency(book, c)) <= MaxCurrencyExposurePct * equity
      /\ BelowLimit(Cardinality(Sharing(book, c)), MaxPositionsPerCurrency)

\* Mutant: one position too many shares a currency.
CurrencyOKOneMore(e, entry) ==
  e \in DOMAIN CurrencyMap =>
    \A c \in {CurrencyMap[e][1], CurrencyMap[e][2]} :
      /\ Abs(NetCurrency(book, c) + Contribution(e, c) * Exposed(entry))
           <= MaxCurrencyExposurePct * equity
      /\ BelowLimit(Cardinality(Sharing(book, c)) - 1, MaxPositionsPerCurrency)

\* _check_currency_limits: an epic of unknown currencies is not checked.
CurrencyOK(e, entry) ==
  e \in DOMAIN CurrencyMap =>
    \A c \in {CurrencyMap[e][1], CurrencyMap[e][2]} :
      /\ Abs(NetCurrency(book, c) + Contribution(e, c) * Exposed(entry))
           <= MaxCurrencyExposurePct * equity
      /\ BelowLimit(Cardinality(Sharing(book, c)), MaxPositionsPerCurrency)

\* _check_correlation_limits: an epic of no group is not checked.
CorrelationOK(e, entry) ==
  correlation # None /\ correlation.group[e] # {} =>
    LET group == correlation.group[e]
    IN /\ Abs(NetGroup(book, group, correlation.sign)
                + correlation.sign[e] * Exposed(entry))
            <= MaxCorrelatedExposurePct * equity
       /\ BelowLimit(Cardinality(group \cap Open(book)), MaxPositionsPerGroup)

\* An approved entry on an epic with no position.
Enter(e, signal) ==
  LET entry == [side |-> signal.side, notional |-> Size(signal)]
  IN /\ book[e] = None
     /\ MayEnter(manager, equity, Cardinality(Open(book)))
     /\ entry.notional > 0
     /\ CurrencyOK(e, entry)
     /\ CorrelationOK(e, entry)
     /\ book' = [book EXCEPT ![e] = entry]
     /\ UNCHANGED <<manager, equity, correlation>>

----------------------------------------------------------------------------

\* A signal, a level or the kill switch closes a position.
Close(e) ==
  /\ book[e] # None
  /\ book' = [book EXCEPT ![e] = None]
  /\ UNCHANGED <<manager, equity, correlation>>

Report(d, x) ==
  /\ manager' = UpdateEquity(manager, d, x)
  /\ equity' = x
  /\ UNCHANGED <<book, correlation>>

\* set_correlation: at the warmup, and again as the candles go on.
Correlate(m, warm) ==
  /\ correlation' = Model(m, warm)
  /\ UNCHANGED <<manager, equity, book>>

EntryNext ==
  \/ \E e \in Epics : Close(e) \/ \E signal \in Signals : Enter(e, signal)
  \/ \E d \in Days, x \in Balances : Report(d, x)
  \/ \E m \in Matrices, warm \in WarmSets : Correlate(m, warm)

EntrySpec == EntryInit /\ [][EntryNext]_entryVars

----------------------------------------------------------------------------

\* What an entry on e leaves open is within every limit that looks at e.
WithinLimitsOf(e, positions) ==
  /\ positions[e].notional <= MaxPositionPct * equity
  /\ e \in DOMAIN CurrencyMap =>
       \A c \in {CurrencyMap[e][1], CurrencyMap[e][2]} :
         Abs(NetCurrency(positions, c)) <= MaxCurrencyExposurePct * equity
  /\ correlation # None /\ correlation.group[e] # {} =>
       LET group == correlation.group[e]
       IN /\ Abs(NetGroup(positions, group, correlation.sign))
               <= MaxCorrelatedExposurePct * equity
          /\ MaxPositionsPerGroup # None =>
               Cardinality(group \cap Open(positions)) <= MaxPositionsPerGroup

(***************************************************************************)
(* README.md:177-190, config.py: an entry leaves no currency of its pair   *)
(* and no correlated group of its epic above its share of the equity of    *)
(* that moment, its own notional included, whatever was opened, closed or  *)
(* regrouped before.                                                       *)
(***************************************************************************)
EntryWithinLimits ==
  [][\A e \in Epics : (book[e] = None /\ book'[e] # None)
                        => WithinLimitsOf(e, book')]_entryVars

(***************************************************************************)
(* max_open_positions and max_positions_per_currency hold at all times.    *)
(***************************************************************************)
CountsBounded ==
  /\ Cardinality(Open(book)) <= MaxOpenPositions
  /\ MaxPositionsPerCurrency # None =>
       \A e \in DOMAIN CurrencyMap, i \in 1..2 :
         Cardinality(Sharing(book, CurrencyMap[e][i])) <= MaxPositionsPerCurrency

(***************************************************************************)
(* README.md:195-202, positions of one bet count as one: two epics of a    *)
(* strong correlation have signs that make them add up.  Not so when one   *)
(* is tied to the group's reference only through the other.                *)
(***************************************************************************)
SignsAgree ==
  [][\A m \in Matrices, warm \in WarmSets : \A a, b \in warm :
       (Correlate(m, warm) /\ Linked(m, a, b)) =>
         (correlation'.sign[a] = correlation'.sign[b] <=> m[a][b] > 0)]_entryVars

(***************************************************************************)
(* README.md:181, "cap net exposure to any single currency": at any time,  *)
(* not at the entry alone.  The close of a hedge and a fall of the equity  *)
(* break it, and nothing but the next entry looks.                         *)
(***************************************************************************)
CurrencyCapped ==
  \A e \in DOMAIN CurrencyMap, i \in 1..2 :
    Abs(NetCurrency(book, CurrencyMap[e][i])) <= MaxCurrencyExposurePct * equity
=============================================================================
