----------------------------- MODULE CandleFeed -----------------------------
(***************************************************************************)
(* How the live engine comes by its bars: the warmup from the historical   *)
(* API, the quote path of LiveTradingEngine._on_price and _on_candle, and  *)
(* the CandleBuilder (data/candle_builder.py).  One epic: epics share      *)
(* nothing here.                                                           *)
(*                                                                         *)
(* The market trades, its server keeps the true bars and sends every trade *)
(* as a quote to the connected engine; a quote may take its time.  Volume  *)
(* is left out: the engine feeds none.                                     *)
(***************************************************************************)
EXTENDS Naturals, Sequences, SequencesExt

CONSTANTS
  Step,        \* ticks of a bar
  Prices,
  MaxHistory,  \* max_history
  Stamps,      \* what a quote says of its time: "exchange", "none", "garbled"
  Reorders,    \* quotes may overtake each other
  MaxTime, MaxQuotes  \* bounds

ASSUME FeedAssumption ==
  /\ Step \in Nat \ {0} /\ MaxHistory \in Nat \ {0}
  /\ Prices \subseteq Nat \ {0}
  /\ Stamps \subseteq {"exchange", "none", "garbled"}
  /\ Reorders \in BOOLEAN
  /\ MaxTime \in Nat /\ MaxQuotes \in Nat

VARIABLES
  now,
  truth,    \* the server's bars, oldest first
  trades,   \* how many there were
  phase,    \* of the engine's process and its connection
  net,      \* quotes on their way
  builder,  \* the open bar of the CandleBuilder
  history,  \* _history of the epic
  seam,     \* auxiliary: the bucket of the last warmup bar
  whole     \* auxiliary: when the connection was last made

feedVars == <<now, truth, trades, phase, net, builder, history, seam, whole>>

NoBar == [bucket |-> 0, open |-> 0, high |-> 0, low |-> 0, close |-> 0]
Buckets == 0..MaxTime \div Step
Bars == [bucket : Buckets, open : Prices, high : Prices, low : Prices, close : Prices]

FeedTypeOK ==
  /\ now \in 0..MaxTime /\ trades \in 0..MaxQuotes
  /\ truth \in Seq(Bars)
  /\ phase \in {"down", "warm", "stream", "outage"}
  /\ net \in Seq([price : Prices, at : 0..MaxTime, stamp : Stamps])
  /\ builder \in Bars \cup {NoBar}
  /\ history \in Seq(Bars) /\ Len(history) <= MaxHistory
  /\ seam \in Buckets \cup {MaxTime + 1} /\ whole \in 0..MaxTime

FeedInit ==
  /\ now = 0 /\ trades = 0 /\ truth = <<>>
  /\ phase = "down"
  /\ net = <<>> /\ builder = NoBar /\ history = <<>>
  /\ seam = MaxTime + 1 /\ whole = 0

----------------------------------------------------------------------------
\* CandleBuilder

\* _bucket_start
Bucket(ts) == ts \div Step

\* _open_bucket
OpenBar(bucket, price) ==
  [bucket |-> bucket, open |-> price, high |-> price, low |-> price, close |-> price]

Extend(bar, price) ==
  [bar EXCEPT !.high = IF price > @ THEN price ELSE @,
              !.low = IF price < @ THEN price ELSE @,
              !.close = price]

----------------------------------------------------------------------------
\* the market

Tick ==
  /\ now < MaxTime
  /\ now' = now + 1
  /\ UNCHANGED <<truth, trades, phase, net, builder, history, seam, whole>>

\* The server's own bars.
Traded(bar, price) ==
  [bar EXCEPT !.high = Max({@, price}), !.low = Min({@, price}), !.close = price]

Trade(price, stamp) ==
  /\ trades < MaxQuotes
  /\ trades' = trades + 1
  /\ truth' = IF truth # <<>> /\ truth[Len(truth)].bucket = Bucket(now)
                THEN [truth EXCEPT ![Len(truth)] = Traded(@, price)]
                ELSE Append(truth, OpenBar(Bucket(now), price))
  /\ net' = IF phase = "stream"
              THEN Append(net, [price |-> price, at |-> now, stamp |-> stamp])
              ELSE net
  /\ UNCHANGED <<now, phase, builder, history, seam, whole>>

----------------------------------------------------------------------------
\* the engine

\* bars[-self.max_history:] and the trim of _on_candle
Trim(bars) == IF Len(bars) > MaxHistory
                THEN SubSeq(bars, Len(bars) - MaxHistory + 1, Len(bars))
                ELSE bars

\* _warmup_history: the server answers with every bar it has, the one that is
\* forming too; a failure leaves the history empty.
Warmup ==
  /\ phase = "down"
  /\ history' \in {Trim(truth), <<>>}
  /\ seam' = IF history' = <<>> THEN MaxTime + 1 ELSE history'[Len(history')].bucket
  /\ phase' = "warm"
  /\ UNCHANGED <<now, truth, trades, net, builder, whole>>

\* The first connection or a later one; only positions are reconciled then.
Connect ==
  /\ phase \in {"warm", "outage"}
  /\ phase' = "stream"
  /\ whole' = now
  /\ UNCHANGED <<now, truth, trades, net, builder, history, seam>>

Disconnect ==
  /\ phase = "stream"
  /\ phase' = "outage"
  /\ net' = <<>>
  /\ UNCHANGED <<now, truth, trades, builder, history, seam, whole>>

Restart ==
  /\ phase # "down"
  /\ phase' = "down"
  /\ net' = <<>> /\ builder' = NoBar /\ history' = <<>>
  /\ seam' = MaxTime + 1
  /\ UNCHANGED <<now, truth, trades, whole>>

\* Mutant: quotes are bucketed by their arrival.
ArrivalTime(quote) == now

\* _on_price: a timestamp that is missing or cannot be parsed is the clock's.
TimeOf(quote) == IF quote.stamp = "exchange" THEN quote.at ELSE now

\* Mutant: the new bar keeps the bucket of the old one.
UpdateInOldBucket(price, bucket) ==
  IF builder = NoBar \/ bucket = builder.bucket
    THEN /\ builder' = IF builder = NoBar THEN OpenBar(bucket, price)
                                          ELSE Extend(builder, price)
         /\ UNCHANGED history
    ELSE /\ builder' = OpenBar(builder.bucket, price)
         /\ history' = Trim(Append(history, builder))

\* CandleBuilder.update and, of a closed bar, _on_candle
Update(price, bucket) ==
  IF builder = NoBar \/ bucket = builder.bucket
    THEN /\ builder' = IF builder = NoBar THEN OpenBar(bucket, price)
                                          ELSE Extend(builder, price)
         /\ UNCHANGED history
    ELSE /\ builder' = OpenBar(bucket, price)
         /\ history' = Trim(Append(history, builder))

OnPrice(i) ==
  /\ phase = "stream"
  /\ i = 1 \/ Reorders
  /\ net' = RemoveAt(net, i)
  /\ Update(net[i].price, Bucket(TimeOf(net[i])))
  /\ UNCHANGED <<now, truth, trades, phase, seam, whole>>

FeedNext ==
  \/ Tick
  \/ \E price \in Prices, stamp \in Stamps : Trade(price, stamp)
  \/ Warmup \/ Connect \/ Disconnect \/ Restart
  \/ \E i \in DOMAIN net : OnPrice(i)

FeedSpec == FeedInit /\ [][FeedNext]_feedVars

----------------------------------------------------------------------------

Served(bar) == \E i \in DOMAIN truth : truth[i] = bar

\* A step that closes a bar; builder is that bar.
Closes == history' # history /\ phase = "stream" /\ phase' = "stream"

(***************************************************************************)
(* live_engine.py:236-237, "Bucket by the quote's own (exchange) timestamp *)
(* ..., so candles match the historical bars": a bar that was streamed     *)
(* from before its first instant on is the server's bar, however long its  *)
(* quotes took.                                                            *)
(***************************************************************************)
BarsMirror ==
  [][(Closes /\ builder.bucket * Step > whole)
       => Served(builder)]_feedVars

(***************************************************************************)
(* The strategy sees the bars in order, and one of them twice at most: the *)
(* one that was forming at the warmup and is closed again by the stream.   *)
(***************************************************************************)
HistoryInOrder ==
  \A i, j \in DOMAIN history :
    i < j => \/ history[i].bucket < history[j].bucket
             \/ j = i + 1 /\ history[i].bucket = history[j].bucket
                          /\ history[i].bucket = seam

(***************************************************************************)
(* candle_builder.py:4-5, "the previous (now-closed) candle ... mirrors    *)
(* the bars produced by the historical API": every bar the strategy is     *)
(* given is the server's.  Not so for the bar a connection begins in.      *)
(***************************************************************************)
EveryBarMirrors == [][Closes => Served(builder)]_feedVars

(***************************************************************************)
(* The history has no bar twice.  Not so after a warmup.                   *)
(***************************************************************************)
NoBarTwice ==
  \A i, j \in DOMAIN history : i # j => history[i].bucket # history[j].bucket
=============================================================================
