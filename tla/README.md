# Verification of the forex bot

TLA+ models of the trading bot in this repository (`forex_bot/`), the TLC
configurations that check them on small instances, and theorems about them that
the TLA+ proof system checks. The program trades CFDs through the Capital.com
API: a price stream is cut into candles, a strategy turns candles into signals,
a risk manager approves orders, and the engine opens and closes positions at
the broker, restartable at any time. Nothing here is about prices or profit;
the question is whether the limits hold when things go wrong.

## 1. Inventory

| component | state it keeps | operations | who calls it |
|---|---|---|---|
| `RiskManager` (risk/manager.py) | day, equity at the day's start, daily halt, equity peak, kill flag, rolling window | `update_equity`, `kill`, `evaluate`, `snapshot`, `restore` | engine and backtester, at every closed candle |
| sizing, currency and correlation limits (risk/) | the correlation model, computed again at times | caps on an order's size and on net exposure | `RiskManager.evaluate` |
| `LiveTradingEngine` (live_engine.py) | positions, equity, flattened flag, count of failed executions, candle history | `start`, `stop`, `_on_price`, `_on_candle`, `_open`, `_close`, `_reconcile_positions` | `cmd_run`, the websocket client's callbacks |
| `LiveExecution` (execution/live.py) | none | `execute`: look for an open deal, create, confirm, resolve the deal id | engine |
| `StateStore` (state/store.py) | SQLite: table of positions, the risk state as one key | `save_positions`, `remove_position`, `save_risk_state`, loads | engine |
| `CandleBuilder` (data/candle_builder.py) | the open bar of an instrument | `update`, `flush` | engine |
| `CapitalRestClient` (api/rest_client.py) | session tokens and their cache file | requests with retries, re-login on 401, paged history | everything |
| `RateLimiter` (api/rate_limiter.py) | time of the next slot | `acquire` | REST client |
| `CapitalWebSocketClient` (api/websocket_client.py) | stop flag, the app, backoff, whether it was connected before | `run_forever`, `stop`, the callbacks | engine, signal handler |
| `RunLock` (runlock.py) | the lock file | `acquire`, `release` | `cmd_run` |
| `cmd_run` (cli.py) | signal handlers | launch gate, lock, engine, exit path | the operator, systemd |
| preflight (preflight.py) | its list of results | read-only checks, a test order on a demo account | the operator before a deployment |
| `Backtester`, `Portfolio` (backtest/) | cash, positions, trades, equity curve | `run` | research commands |
| download, `CandleStore` (cli.py, data/storage.py) | a CSV file per instrument | `save`, `load` | the operator; every research command loads |
| walk-forward (research/walkforward.py) | none | windows, choice of instruments and parameters, holdout | report and holdout commands |
| verdicts, reports (research/) | none | classify a study or a holdout | report and holdout commands |
| `ResearchRegistry` (research/registry.py) | a JSON ledger of setups | `load`, `set_status`, `save` | report, holdout and registry commands, launch gate |
| pair screening, strategies, indicators | caches at most | pure functions of the history | research commands, engine, backtester |
| configuration, models, logging, metrics | none | parse, validate, format, summarise | everything |

How they interact. The engine is one thread: callbacks of the websocket library
run inside `run_forever`, so a candle handler is not interrupted by another. What
does come between two of its steps is a crash, a signal (a Python signal handler
runs between two bytecodes of the main thread, inside whatever handler runs),
and the broker, which closes deals on its own. Processes (engines and commands)
meet at four files: the run lock, the token cache, the candle files and the
ledger of the registry; and at the broker's book, where a preflight's test order
lies beside the deals of an engine.

What is hard, and to test almost out of reach: answers lost after the broker
acted; a handler of six broker calls and four transactions in which each step
may fail or be the last; signals before, inside and after a handler; restarts
from whatever the store then holds; days that end at different times for
different instruments; a switch that re-arms; bars cut from quotes that travel,
overtake each other and stop for a while; a token that expires between its check
and its use; files that other processes truncate and rewrite; a page of history
that shifts while the next is fetched. `PROJECT.json` lists these as hazards,
each at its line.

What makes a component correct:

- risk manager: no drawdown and no daily loss on record is forgotten, an old peak expires;
- entry limits: an entry leaves no currency, group or count above its limit;
- engine: no deal is opened while blocked; at most one deal per instrument; it
  knows every deal; the position limit holds at the broker; a kill ends the
  process; handlers return;
- store: between candles it names the positions held and the kill, and a position
  that stays open keeps its protective levels;
- candles: streamed bars are the server's, the history is in order;
- session: an expired token costs a login and no call; requests keep their distance;
- lock: one holder, no foreign lock deleted, stale locks taken over;
- preflight: it closes what it opened and nothing else;
- stream: no quote before the reconciliation has run, backoff that doubles, `stop()`
  ends it;
- backtester: the same limits as live, books that balance, no optimistic fill;
- research: nothing is chosen on what it is tested on, no bar counts twice, the
  trades of a passed study have a profit in sum, no screen reopens a frozen idea.

## 2. Modules

| module | models | proofs |
|---|---|---|
| `RiskRules` | the operators of the risk manager on one record; no variables | `RiskRules_proofs` (lemmas) |
| `RiskManager` | one account: updates, operator kill, saves, restarts | `Risk_proofs` |
| `EntryLimits` | the whole of `evaluate` over a growing and shrinking book | `Risk_proofs` |
| `SafeAccount` | abstract: what the engine promises of the account | |
| `LiveEngine` | engine, execution, store, broker, process | `LiveEngine_proofs` |
| `CandleFeed` | warmup, quotes, the candle builder, the history | `Broker_proofs` |
| `RestSession` | clients of one account on one token cache | `Broker_proofs` |
| `WebSocketClient` | the reconnect loop and the session tokens | `Broker_proofs` |
| `RunLock` | any number of processes on one lock file | `Startup_proofs` |
| `Preflight` | the checks and the test order | `Startup_proofs` |
| `Backtester` | the replay of history, its portfolio and fills | `Backtester_proofs` |
| `Download` | the paged fetch and the candle files | `Research_proofs` |
| `Verdicts` | the rules that name a study or a holdout; no variables | |
| `WalkForward` | one walk-forward study and its holdout | `Research_proofs` |
| `ResearchLedger` | abstract: what the registry promises | |
| `ResearchRegistry` | the ledger file, its commands, the gate | `Research_proofs` |
| `MCStartup` | composes `Preflight` and `RunLock` | `Startup_proofs` |
| `MCStream` | composes `WebSocketClient` and `CandleFeed` | `Broker_proofs` |
| `MCResearch` | composes `Download`, `WalkForward` and `ResearchRegistry` | `Research_proofs` |
| other `MC*` | the sets the configurations use | |
| | lemmas about finite sets and sums, of no model | `FiniteFacts` |

`RiskRules` is shared: `RiskManager` drives it with any sequence of calls,
`EntryLimits` asks it whether it blocks an order, `LiveEngine` and `Backtester`
make the calls of their loops, and the lemmas of `RiskRules_proofs` serve the
proofs about them. `Verdicts` is shared by `WalkForward` and `ResearchRegistry`.

**RiskRules.** The record fields are the attributes of the object. Equity is an
integer and limits are integer percentages, so a comparison of a quotient with a
limit becomes one of products; rounding of floats is not modelled. The rolling
window is a sequence trimmed from the front. `Snapshot` leaves the window out
and `Restore` leaves the day alone when the stored one is null, as the code does.

**RiskManager.** `Update` is `update_equity`; it also keeps what the properties
compare the object with: the equities, whether one was the limit below an earlier one,
the days on which the daily limit was breached, and the last equities. `Restart` is
enabled at any time, after a crash as after an orderly stop: a new object restores
whatever snapshot is stored, or none. Since an equity refresh changes the object and
saves nothing (live_engine.py:213-224), such a restart may forget. The history is
therefore that of the account *on record*: what the living process was told, and what
was known at the save it started from (`kept`). The properties are about that record;
that a crash loses the rest, against what README.md:234-235 says, is shown by `RiskGaps`
(section 4). `OrderedDays` says whether the bars' days may go back.

**EntryLimits.** `Enter` is a signal that `evaluate` approves and the position it
becomes: the state-dependent guards, `Size` (both sizing modes, the cap on
notional), `CurrencyOK` and `CorrelationOK` with their counts. `Correlate` is a new
`CorrelationModel`: the clusters are the connected epics of a matrix of
correlations, a sign is that of the correlation with the cluster's first epic, and
an epic with too few bars is in no group. The matrix itself, a statistic of two
price series, is an input. Sizes are measured by their notional in hundredths of an
account unit.

**LiveEngine.** `pc` is the place of the engine's thread, `job` the locals of the
handler, `after` what a close loop or a save returns to. A step is a broker call
with the code up to the next one, or one transaction of the store, since those
are the points at which a crash, a signal or the broker makes a difference.

| code | actions |
|---|---|
| `cmd_run`, `start` | `Boot`, `RestoreState`, `ReconcilePositions`, `ReconcileFails`, `StartKilled`, `Exit`, `Stream`, `Halt` |
| `_persist` | `SavePositions`, `SaveRisk` |
| `_on_candle` | `Candle`, `Refresh`, `Flattened`, `Stop`, `Hold`, `ExitSignal`, `EntrySignal`, `Reject`, `Approve` |
| `_open`, `execute` | `PrecheckFinds`, `PrecheckPasses`, `CreateAccepted`, `CreateUnnamed`, `CreateDeclined`, `CreateFails`, `CreateLost`, `CreateRetried`, `Confirmed`, `ConfirmRejected`, `Resolve` |
| `_close` | `Close`, `CloseFails`, `CloseEpic`, `CloseEpicFails`, `ProbeGone`, `ProbeKeeps`, `RemovePosition`, `SaveRiskClosed`, `CloseLoopEnds` |
| reconnect | `Reconnect`, then the reconciliation |
| environment | `BrokerCloses`, `Crash`, `Terminate`, `Interrupt` |

`Faults` names what may go wrong in a run: `crash`, `signal` (from the first
reconciliation on), `early` (a signal before it), `accounts`, `lookup`, `confirm`,
`close`, `lostCreate`, `gateway`. A close that raises may have taken effect or
not; the same for a create. The strategy is free: any signal after any candle.
Sizes, prices, the spread filter, exposure caps and the minimum size appear only
as `Reject`, which may always happen; `EntryLimits` has the caps. Of the protective
levels a position has the fact that it has them (`levels`): every order of the engine
brings some, the broker's listing shows them or not, and what it does not show is taken
from the position held or from the row found at startup (`persisted`, `Recovered`), as
`_reconcile_positions` does.

**SafeAccount** is the abstract engine, three variables and no engine in it: the deals
open at the broker, whether something bars the account, and the kill on record. It opens
a deal only while nothing bars it, below the limit and on an instrument without one. In
`LiveEngine` they are `book`, `Blocked` (kill, daily halt or execution halt in memory, or
an all-time kill on disk) and `DurablyKilled`.

**CandleFeed.** `truth` is the sequence of the bars the broker's server keeps, `net` the quotes on their
way, `builder` the open bar, `history` what the strategy is given. `Warmup` fetches
the last bars, the one still forming among them (`seam`); `Connect`, `Disconnect` and
`Restart` are the socket and the process; `OnPrice` is the quote path with
`CandleBuilder.update`. `Stamps` says what a quote tells of its time: with none, or one
that cannot be parsed, the code takes the engine's clock. One instrument: instruments
share nothing here.

**RestSession.** One client per process. `Ensure`, `SendLogin`, `LoggedIn`,
`SaveTruncates`, `SaveWrites` are the login with its cache; `SendCall`, `BackOff`,
`Again`, `Fail`, `Relogin`, `Return` a call with its retries and its one re-login;
`Acquire` is the limiter. Time is counted in ticks, which pass while a process
sleeps, waits for an answer or makes no call. The broker drops a session unused for
`Life` ticks, may revoke one, and may refuse any request. `SessionAssumption` keeps
the order of the code's constants: a cached token is younger than a session may be
idle, and so is the longest chain of retries.

**WebSocketClient.** The loop of `run_forever` with `on_open`, messages, drops,
the backoff and `stop()` at any point, together with the state of the session
tokens (none, valid, expired) and the login on a 401. `WebSocketApp` is external:
`close()` ends its `run_forever` if that has been entered. `Reconcile` may succeed or
raise, which the engine logs (live_engine.py:112-115); `sync` tells the two apart, and
`slept` is the last backoff. Sending the subscription may fail (`SubscribeFails`).

**MCStream** joins the two: a subscription whose tokens the broker accepts lets the
quotes flow (`Opens`), a frame may be a quote (`Frame`), the end of a socket loses
what was on its way (`Lost`), and a process warms up before the loop and may be
killed anywhere in it (`Launch`, `ProcessEnds`). A subscription with expired tokens
opens a stream that stays silent until it drops.

**RunLock.** Every file operation is a step: create, read, check, truncate,
write, compare, unlink. A descriptor that is open when the path is unlinked
writes to nowhere. `SerialStarts` keeps launches apart, `PidReuse` lets another
program get the pid of an engine that ended.

**Preflight.** `Login`, `Accounts`, `MarketDetails`, `Histories` and `Positions` are the
read-only checks; each request may raise, which fails its check and no other.
`DealingRules`, `CreateOrder`, `Confirm`, `Resolve` and `Close` are the test order; what
raises in it ends it with a failed check. `Shows` is the broker, which lists a new
deal after a while or never; the resolution of the deal id looks `Retries` times. A
create may be sent again after a 503 (`MaxSent`). `MCStartup` puts it before the
launches of `RunLock`: only a preflight that passed is followed by any.

**Backtester.** The code is sequential; a bar is a few steps so that the two loops
share them. `synchronised` is chosen once: a portfolio strategy feeds every
instrument with a bar at one timestamp before the risk manager looks, any other
strategy one candle at a time.

| code | actions |
|---|---|
| `run` | `Init`, `EndOfData`, `CloseLeft`, `Report` |
| `mark_price`, `_check_protective_levels` | `Feed` |
| `update_equity`, the kill branch | `UpdateRisk`, `Flatten`, `FlattenEnds` |
| signals, `_handle_signal_at`, `_open`, `_close` | `ExitSignal`, `ExitsEnd`, `RefuseEntry`, `Enter`, `EndBar` |

`pf` is the `Portfolio` with its list of trades reduced to totals, and the
backtester's count of fills. Sizing is any member of `Sizes` within the notional
cap; the exposure caps appear as `RefuseEntry`, always possible. A portfolio
strategy sends at most one exit and one entry per instrument and bar. The value
of a point is 1 and the spread is the same for all instruments.

**Download.** `Page` is a turn of the paging loop of `get_historical_prices_paged`:
ask for the bars before the cursor, merge, stop when nothing older came or enough is
there. The broker moves on meanwhile (`Tick`), and its newest bar is still forming.
`SaveOpens`, `SaveWrites` and `SaveTorn` are the writing of a CSV, in place. A bar is the
number of its bucket, a candle any value.

**WalkForward.** A fold is a step (`RunFold`), as are the summary and the holdout. The
slices, the grid search, the choice of instruments, the filter of trades opened in the
warmup and the row are operators; `Backtest` is a parameter, *any* function of the
candles and the parameters it is given. Percentages are rounded in the direction that
keeps the verdicts' comparisons exact.

**ResearchRegistry.** A command of cli.py is a sequence of steps on `file`, `mem` (the
ledger in the command's memory) and `job`: `report` (`ReportStarts`, `ReportEnds`,
`ReportRecords`), `holdout` (`HoldoutTests`, `HoldoutRecords`, `HoldoutEnds`), `registry`
(`OperatorSets`); they save by `Truncate` and `Write` and may crash anywhere. `base` is
the last complete file, an auxiliary variable. `Launch`, `ForceLaunch` and `EngineExits`
are `cmd_run` as far as the gate goes. **ResearchLedger** is the abstract
specification: each command changes the ledger once, at the end of its save; a screen
sets only ideas that are not frozen, and only to its own verdicts, a holdout one idea to
one of its verdicts, the operator one to any status; the gate lets start what is
launchable or unknown. Its one weakness is explicit: a save that is cut short may lose
the ledger (`Lose`), and nothing else may. The refinement mapping takes the ledger to be
what `load` makes of the file and, during a save, of the file before it; a terminal's
task is that of its command.

**MCResearch** composes: a download (again and again, until a study loads the files),
a study with its holdout on what was stored, then the commands on the ledger.

## 3. Runs

| run | instance | shows |
|---|---|---|
| `risk_all_time` | 2 days, 6 equities, restarts and crashes from any stored snapshot | `DrawdownNeverForgotten`, `HaltLastsTheDay`, `TypeOK` |
| `risk_rolling` | window of 3, 4 equities, one process | `RollingPeakRemembered`, `OldPeakExpires` |
| `entry_limits` | 3 dollar pairs and an epic of unknown currencies, 2 equities, 2 matrices, volatility sizing | `CountsBounded`, `EntryWithinLimits` |
| `engine_all_time` | 2 instruments, 2 sides, 3 equities, 2 deals; crash, signal, accounts, confirm, close, lostCreate; the instruments are symmetric | `OneDealPerEpic`, `DurableMirror`, `KillDurable`, `KillSurvives`, `LevelsSurvive`, `NoDealWhileBlocked` |
| `engine_live` | 2 instruments, limit of 1 position, 3 deals; no lost create; fairness | `DealsTracked`, `AccountSafe`, `KillStops`, `HandlerReturns` |
| `engine_rolling` | 1 instrument, window of 2, 3 equities; every fault but a crash and an early signal | `NoDealWhileBlocked` |
| `rest_session` | 2 processes, 3 sessions, 1 retry | `ReloginHelps`, `LoadedTokenLives`, `Spaced` |
| `stream` | delays 1 and 2; bars of 2 ticks, 2 prices, 3 quotes, history of 2, quotes in order and stamped; fairness | `QuotesAfterReconcile`, `BackoffDoubles`, `StopEnds`, `HistoryInOrder`, `BarsMirror` |
| `deployment` | 0 to 2 instruments, deals of others, 4 look-ups; 4 pids, crashes, reuse | `PassMeansRoundTrip`, `OthersUntouched`, `MutualExclusion`, `DeletesOwnLock`, `StaleTakenOver` |
| `backtest_all_time` | 2 instruments, 2 days, 3 kinds of bar, 4 candles, limit of 1 position | `KilledMeansFlat`, `WithinMaxOpen`, `BooksBalance`, `LevelsHonoured` |
| `research` | 16 markets of 6 bars and a second instrument, pages of 2 bars; 2 ideas, 2 terminals, one command at a time | `NoLookAhead`, `TestedOnce`, `PassedMeansProfit`, `SavedIsTail`, `LedgerRefined` |
| `engine_flatten` | expects a violation, see section 4 | `FlattenedMeansFlat` |

Every property of a passing run has a mutant: a plausible slip in one definition (a
part of the snapshot forgotten, a guard dropped, a position not saved, a lock
created without `O_EXCL`, a cursor that skips a bar, warmup trades counted) with
which TLC finds it violated. The mutants stand in front of the definitions they
change.

Bounds.

- Risk and engine: the equities are the ones the limits tell apart: one that halts
  the day, one that trips the switch, and one in between or on the edge of the
  recovery. `MaxDeals` bounds how many deals the broker opens in one behaviour; two
  are enough to open one, lose it, and open another, three with a limit of one for
  a position that is replaced. `ExecFailureLimit` is 2 instead of 5, so that the
  count and its limit both happen. Crashes, signals and reconnects are not bounded.
  Nothing tells the two instruments apart, so that `engine_all_time`, which checks
  invariants and action properties only, explores them up to their exchange.
- Entry limits: three pairs on one currency are the fewest with which two positions
  hedge each other and a third one meets the cap; USDCHF, with the dollar as base,
  adds up with the others when its side is the opposite. The two matrices tie none
  or all three pairs, with signs; an epic outside the currency map has only a group.
  The two equities are enough for a cap to shrink under an open book.
- Stream: bars of two ticks have an inside and an edge; three quotes and four ticks
  reach a bar that was streamed whole, one cut by an outage and one closed twice, and
  two prices give a bar a high and a low. The delay doubles once and meets its cap.
  `BackoffGrows` proves the doubling for all delays.
- Session: two processes and three sessions let a process hold a dead session while
  another one logs in and caches a third; one retry makes every backoff happen.
- Deployment: four pids allow a stale lock, its successor, a refused launch and a
  bystander. No instrument, one and two make the partial failure of a check. The deals
  of others are on the second instrument and on one that is not configured.
- Backtest: four candles of two instruments are enough to enter, to be stopped, to
  reverse, to trip the switch with a position open, and to see a signal-free bar
  after it; the three bars are a quiet one, one that reaches a stop and a target
  at once, and one that opens beyond a stop and trades through it afterwards, so
  that its open is no bound of its range.
- Research: with two bars in sample and one out, six bars give four folds and a
  holdout with three bars to train on; the second instrument starts a bar later, so
  that a slice without it happens, and one of two instruments is chosen. Three
  requests of two bars carry the six asked for exactly; the market may grow by a bar
  during the download.

Fairness. `LiveEngine!FairSpec` is weak fairness of the engine's own steps:
every request has a timeout and a bounded number of retries, and the store is a
local file. Candles, restarts, faults and the broker's own closes are not fair.
`MCStream!StreamSpec` (and `WebSocketClient!FairSpec`) is weak fairness of the loop and
its callbacks; that a
socket opens, delivers or drops is not assumed. `StopEnds` therefore promises the
end only where `stop()` met a running socket, a sleep or the end of a connection.
`SessionSpec` is weak fairness of time and of each process's steps, for
`CallEnds` (section 4): a request is answered or times out.

The deadlock check is on in every run: an engine that is down may boot; a loop
that is done may be launched again, and a preflight that failed stays so by an
explicit step.

## 4. Where the code and its words part

One run expects a violation, `engine_flatten`: in rolling mode a close that fails
while the switch flattens is not tried again; the flag is set after one pass
whatever came of it, although the engine "flattens every position" (README.md:206-208).

Further configurations in this directory show other disagreements. They are run by
hand with `tlc -config <name>.cfg <module>.tla` (with `-continue`, or one property at a
time, where several are listed) and each property listed is violated:

| configuration, module | property | what happens |
|---|---|---|
| `RiskGaps`, `MCRiskManager` | `HaltLastsTheDay` | the daily halt is cleared by a bar of the day before that closes late. `update_equity` starts a new day at every *change* of day, and with several instruments the days do go back: a bar closes when its instrument's next quote arrives. `HaltHolds` (section 5) proves that nothing else clears a halt that is on record |
| | `RestartForgetsNothing` | a crash after an equity refresh, which writes nothing, brings back an older snapshot: a halt of the day, a new high or a kill is forgotten |
| `RiskRollingRestart`, `MCRiskManager` | `RollingPeakRemembered` | the rolling window is not in the snapshot: a restart forgets the peak it measured from |
| `RiskZeroWindow`, `MCRiskManager` | `RecoverableRearms` | a window of 0 bars is `recoverable` but evaluated as all-time: it never re-arms, and the engine streams on |
| `EngineLost`, `MCLiveEngine` | `SidesAgree` | the idempotency guard adopts the open deal with the side and size of the *new* order; after a lost create the next signal may be the opposite one |
| | `OneDealPerEpic` | `_raw_request` sends a POST again after a 503, below the idempotency guard of `execute`. `IdempotentOpen` proves that without it (and without failing look-ups, where `execute` deliberately goes on) the guard holds |
| | `RefreshIsDurable` | "State is written on every open/close and equity refresh" (README.md:234-235): the refresh writes nothing |
| | `TripSurvives` | a tripped switch is saved with the first close that works or behind the flattening: a crash before that brings the engine back untripped |
| `EngineSignals`, `MCLiveEngine` | `KillSurvives` | a signal between the handler's installation and `_restore_state` saves an empty risk state |
| | `LevelsSurvive` | the same for the stored positions, until the first reconciliation |
| | `TermStops` | a SIGTERM during startup is undone by `run_forever`, which clears `_stopped` |
| `FeedGaps`, `CandleFeed` | `EveryBarMirrors` | the bar a connection begins in lacks what was traded before; the bars of an outage are never fetched |
| | `NoBarTwice` | the bar that was forming at the warmup is in the history twice |
| | `HistoryInOrder` | a quote that overtakes another one reopens an old bar |
| | `BarsMirror` | a quote without a usable timestamp falls into the bar of its arrival |
| `SessionShared`, `MCRestSession` | `SessionSpaced` | "requests/second per session" (rate_limiter.py:3-5): the limiter is each client's own, the session is shared |
| `EntryGaps`, `MCEntryLimits` | `SignsAgree` | two instruments tied to a cluster through a third one may have signs that net what adds up |
| | `CurrencyCapped` | a cap holds when an order is approved; the close of a hedge, or a fall of the equity, leaves the book above it |
| `LockGaps`, `RunLock` | `MutualExclusion` | the lock file is created empty and written later; a process that reads it in between takes the lock over. `SerialLaunchesExclude` proves that launches one after the other exclude each other |
| | `NoManualCleanup` | the pid of a crashed engine belongs to another program: the launch is refused |
| `StreamGaps`, `MCStream` | `QuotesOnReconciled` | a reconciliation that raises behind a reconnect is logged, and quotes are handled on the positions of before the outage |
| | `NoDialAfterStop` | a stop between the loop's check and the new app's start is lost until the next drop |
| | `RefreshedBeforeDial` | `ensure_session` does nothing while tokens are present, expired or not |
| | `StreamingFeeds` | a socket that re-opens with such tokens is open and silent |
| `PreflightGaps`, `Preflight` | `PassMeansRoundTrip` | the test order's status is not looked at, and a create repeated after a 503 leaves a deal behind a passed preflight |
| | `OthersUntouched` | the look-up of the deal id falls back to the epic: with a deal of somebody else on the tested instrument, that deal is closed |
| `BacktestGaps`, `MCBacktester` | `KilledMeansFlat` | `_kill_flattened` is never cleared: a rolling switch that re-arms and trips again closes nothing |
| | `PaysTheSpread` | a new position is marked at its own fill price, so that a kill or the end of the data before the next bar gives the spread back |
| | `ResultsAreNet` | the commission of an entry is taken from the cash and charged to no trade: the sum of the trades' results is more than the account won |
| `RegistryOverlap`, `MCResearch` | `ScreenKeepsFrozen` | a report writes the ledger it loaded before its studies back over what another command recorded meanwhile |
| | `HoldoutKeepsFrozen` | a recorded holdout overwrites a frozen entry without asking |
| | `GateSeesTheLedger` | a launch that reads the file while it is truncated, or after a crash there, passes the gate |
| | `StudySeesWholeFiles` | a candle file cut short at the end of a row loads as if it were whole |

One more configuration passes: `SessionEnds` (`MCRestSession`, one process), in which
every call returns (`CallEnds`).

Read beside the models: `max_leverage` (config.py:112) is declared and read by nothing.

## 5. Proofs

Proved by `tlapm`, for every value of the constants that meets the modules'
assumptions and the assumptions named here:

| theorem | states | assumes |
|---|---|---|
| `Risk_proofs!TypeCorrect` | `[]TypeOK` | |
| `Risk_proofs!DrawdownTripsForGood` | `[]DrawdownNeverForgotten` | |
| `Risk_proofs!HaltHolds` | `[]HaltLastsTheDay` | `OrderedDays` |
| `Risk_proofs!PeakExpires` | `OldPeakExpires` | `MaxTotalDrawdownPct # 0` |
| `Risk_proofs!PeakRemembered` | `[]RollingPeakRemembered` | no restarts |
| `Risk_proofs!CountsHold` | `[]CountsBounded` | |
| `Risk_proofs!EntriesStayWithinLimits` | `EntryWithinLimits` | |
| `LiveEngine_proofs!EngineTypeCorrect` | `[]TypeOK` | |
| `LiveEngine_proofs!IdempotentOpen` | `[]OneDealPerEpic` | no `lookup`, no `gateway` fault |
| `LiveEngine_proofs!BlockedOpensNothing` | `NoDealWhileBlocked` | |
| `LiveEngine_proofs!KillIsDurable` | `KillSurvives` | no `early` signal |
| `LiveEngine_proofs!TripIsSaved` | `[]KillDurable` | |
| `LiveEngine_proofs!PositionsDurable` | `[]DurableMirror` | |
| `LiveEngine_proofs!LevelsAreKept` | `LevelsSurvive` | no `early`, `lookup`, `gateway` |
| `LiveEngine_proofs!DealsAreTracked` | `[]DealsTracked` | no `lookup`, `gateway`, `lostCreate` |
| `LiveEngine_proofs!MaxOpenHolds` | `[]WithinMaxOpen` | the same |
| `LiveEngine_proofs!EngineIsSafeAccount` | `AccountSafe`: the engine implements `SafeAccount` | the same, and no `early` |
| `Broker_proofs!RequestsSpaced` | `Spaced` | |
| `Broker_proofs!CachedTokenLives` | `LoadedTokenLives` | |
| `Broker_proofs!OneReloginIsEnough` | `ReloginHelps` | |
| `Broker_proofs!HistoryStaysInOrder` | `[]HistoryInOrder`, of `FeedSpec` | `OneClock` |
| `Broker_proofs!BarsAreTheServers` | `[]BarsMirror`, of `FeedSpec` | `OneClock` |
| `Broker_proofs!StreamIsFed` | `StreamSpec => FeedSpec` | |
| `Broker_proofs!ReconciledFirst` | `QuotesAfterReconcile` | |
| `Broker_proofs!BackoffGrows` | `[]BackoffDoubles` | |
| `Startup_proofs!SerialLaunchesExclude` | `[]MutualExclusion` | `SerialStarts` |
| `Startup_proofs!ReleaseDeletesOwn` | `DeletesOwnLock` | `SerialStarts` |
| `Startup_proofs!StaleLockTakenOver` | `StaleTakenOver` | `SerialStarts` |
| `Startup_proofs!OthersLeftAlone` | `OthersUntouched` | `First \notin Others` |
| `Startup_proofs!PassedRoundTrip` | `[]PassMeansRoundTrip` | `First \notin Others`, `MaxSent = 1` |
| `Startup_proofs!DeploymentIsBoth` | `DeploySpec` implements `PreflightSpec` and the lock's `Spec` | |
| `Backtester_proofs!KilledStaysFlat` | `[]KilledMeansFlat` | no rolling window |
| `Backtester_proofs!BooksAlwaysBalance` | `[]BooksBalance` | |
| `Backtester_proofs!LimitHolds` | `[]WithinMaxOpen` | |
| `Backtester_proofs!FillsAreNotOptimistic` | `LevelsHonoured` | |
| `Research_proofs!ChoicesAreBlind` | `[]NoLookAhead`, of `StudySpec` | |
| `Research_proofs!NothingCountsTwice` | `[]TestedOnce`, of `StudySpec` | `TradesOfSlice` |
| `Research_proofs!PassingPays` | `[]PassedMeansProfit`, of `StudySpec` | `TradesOfSlice`, `PayingThreshold` |
| `Research_proofs!SavesAreTails` | `SavedIsTail`, of `DownloadSpec` | |
| `Research_proofs!RegistryTypeCorrect` | `[]TypeOK` | `OneAtATime` |
| `Research_proofs!RegistryIsLedger` | `LedgerRefined`: the file implements `ResearchLedger` | `OneAtATime` |
| `Research_proofs!ResearchIsAll` | `ResearchSpec` implements the registry's `Spec` and keeps `SavedIsTail`, `NoLookAhead`, `TestedOnce`, `PassedMeansProfit` | `TradesOfSlice`, `PayingThreshold` |

`OneClock` says that every quote carries the exchange's time and none overtakes another;
`First \notin Others` that nobody else holds a deal of the instrument a preflight tests;
`MaxSent = 1` that its create is sent once. `TradesOfSlice` is what a study takes for
granted of its backtest: the trades are a list, each opened at the time of a candle of the
slice it was given, its profit or loss a number. `PayingThreshold` says that a profit factor
above one is asked for; the code asks for 1.1 unless the configuration says otherwise
(verdicts.py:26), and a configuration that asks for less lets a row pass at a loss on its
other rules.

Most assumptions are known to be needed: the configurations of section 4 violate the
property without it (`RiskGaps`, `RiskRollingRestart`, `EngineLost`, `EngineSignals`,
`FeedGaps`, `BacktestGaps`, `LockGaps`, `PreflightGaps`, `RegistryOverlap`); with a limit
of 0 percent every equity trips the rolling switch; a deal whose create was lost is one
the engine does not know (section 6).

The modules assume of their constants what the code gives them: limits are
percentages, instruments are finitely many, prices are positive, a bar's open and close
lie between its low and high, a placeholder (`NoDeal`, `NoPosition`, `None`) is none of
the values it stands in for. `SessionAssumption` is the one with content: the order of the
client's durations, and more sessions than processes.

### The arguments

*Risk manager.* `DrawdownNeverForgotten` is not inductive, since a switch is compared
with the peak the object holds and the property with everything ever seen; the
invariant adds that the peak bounds every equity on record, and says the same of the
snapshot and the record as it was when that was saved (`kept`), so that a restart, which
takes both back together, keeps it. `HaltLastsTheDay` needs that no breached day lies in
the future, which is where ordered days come in. `PeakRemembered` rests on `WindowInv`:
while the switch is not tripped, no equity of the object's window is the limit above
the newest one; and without a restart that window is all there is to remember. That the
peak of a window is its largest equity (`WindowPeakBounds`) follows from a finite set's
having a largest element (`HasLargest`). `RiskRules_proofs` also has what sliding a window
returns and what a restore keeps.

*Entry limits.* An entry opens its own epic at most, and only the currencies of its
pair gain a position, each of which was below its limit when `evaluate` looked; a close
opens nothing. `EntryWithinLimits` compares sums over the whole book: before an entry its
epic adds nothing to them, after it what `evaluate` had added by hand (`EntryAdds`); every
other summand is as it was, and `SumChanges` says what that does to a sum.

*Sums.* `SumFunctionOnSet` of the community modules is a fold. Induction over data takes an
operator as a parameter and cannot be cited; but an induction over the subsets of a finite
set needs a *set* of subsets only (`SubsetInduction`), and with it `FiniteFacts` proves that
the fold's recursion has a solution, that it does not matter which element is taken first,
and from there what sums do: split, move along an injection, group by a key, keep a sign.

*Engine.* `ControlInv` ties the handler's locals to the place of the thread; `DealInv`
adds that where a create may happen no deal of that instrument is open; `BlockInv` that
between `Approve` and the create nothing is blocked, and that a kill on disk is in memory
once the state was restored. `MirrorInv` is that the table and `positions` are the same
once the state was restored, except right before `SavePositions`. `KillDiskInv` is that a
tripped switch is on disk unless the flattening or a save is under way; a trip that finds
the switch flattened already was saved before. `IdInv` says that ids are not given out
again, so that a deal a position or an order names is one of its own instrument,
`GoneInv` that a close loop drops a position only when the broker has no deal of its
instrument, `BootInv` that until the broker was asked memory is empty and the
levels of the stored rows are in `persisted`, `LevelsInv` that what is about to be saved
has every stored position still open, with its levels (`AdoptedLevels`, for a
reconciliation). `TrackInv` says that a deal the engine does not know is the one whose order it is
confirming, and `CapInv` that the position an order asks for has its place below the
limit until the deal is open. `EngineIsSafeAccount` puts these together: a step that
creates a deal is an `Open` (`OpenIsOpen`, by `DealInv`, `BlockInv`, `TrackInv` and
`CapInv`), one that takes a deal away a `Close`, and every other step, a crash or a
restart included, a `Judge` (`RestIsJudge`): it may change what bars the account, but a kill
is noted only where one was in memory, and an all-time one stays noted.

*Session.* `ClientInv` ties token, request and answer to the place of a client.
`SpaceInv` is that the ticks since the last request and those to the next slot make an
interval. `AgeInv` bounds the idle time of a session in use: one that was cached by the
age of the cache, one that was just handed out by the time the login may take, and one
behind a retry by `Budget(a)`, what `a` attempts can take at most, so that the longest
chain of retries stays within the session's life. That the broker always has a session
to hand out is a pigeonhole argument.

*Stream.* `TruthInv` says that the server's bars are in order and that the last one is
the bar of the clock or earlier; `NetInv` that the quotes under way are in order and of
bars the server has; `HistoryInv` that the open bar follows the history and
nothing still to come is of an earlier bucket. `MirrorInv`
is the heart of `BarsMirror`: an open bar that began on this connection, followed by the
quotes of its bucket that are still under way, is the server's bar, in open, high, low
and close. `SyncInv` and `DelayInv` are the loop's: a stream that was lost had been
opened, so that the next one calls `on_reconnect` first; and the delay is what follows the
last backoff (`Following`), unless data came, of which the next sleep takes note.

*Lock and preflight.* `LockInv` says that the file names the holder, that a checker has
read the holder, and that a writer writes alone. `RunInv` says that a
preflight has opened nothing before its create and that the deal it is about to close is
its own; `PassInv` adds that there is at most one of them.

*Backtester.* `BookInv` says what opening, closing and marking do to the books and the
count of positions, one lemma per operator, and needs nothing of the equity; `KillInv`
that signals are handled only while the switch is armed and that a tripped, flattened
account holds nothing. The equity is a sum over instruments; nothing of it is needed, as
`UpdateKeepsKill` holds for any value.
`ProtectHonours` compares a fill with the level that was hit and, for a stop, with the
open of the bar, side by side.

*Study and registry.* A slice that ends before a time is the same for two histories that
agree before it, hence so is whatever any backtest makes of it; the invariant says that
each fold holds the choice made of its own slice. With one command at a time a save began
from the last complete file, so that the start of a command maps to `Start`, `Truncate`
to `BeginSave`, `Write` to `RecordScreen` or `Record`, a crash in a save to `Lose`, one
elsewhere and an end without a record to `GiveUp`, and everything else to a stutter or to
the ledger's step on engines. What a command holds in memory is the recorded ledger with
its own verdicts, none of them of a frozen idea if it is a screen.

*What is tested, and what it pays.* `TestedInv` says that each pooled trade lies in the
window of a fold and that the folds' windows fit the timeline. The bars of a timeline
can be numbered (`NthFacts`, `NthGrows`), so that windows apart in number are apart in
time. `PayInv` says that the results of the pool's trades and of the folds have one sum and
that a row is of the pool it was made of; the breakdowns are sums grouped by a key, the ranking
of the instruments is a listing that misses none, and what is won less what is lost is
positive when their ratio exceeds one, rounding included.

*Download.* `DownloadInv`: what was fetched between two pages is an end of the history the
broker showed at the first request, and the cursor parts it from what is missing. A page
adds `Chunk` bars or all there are, so that what the requests carry, or what was asked for,
is there when the loop ends; bars that close meanwhile are newer than the cursor of every
later page.

### Only model-checked

Liveness (`KillStops`, `HandlerReturns`, `StopEnds`, `CallEnds`) is out of the prover's
reach, as is `ENABLED`. Every other property of a passing run is a theorem; those of the
further configurations of section 4 are violated on purpose.

## 6. Limits of the models

- The listing of open positions agrees with the broker's book at once in `LiveEngine`.
  The code retries a look-up because the broker may lag; a deal younger than the lag
  would be missed by the idempotency guard. `Preflight` has the lag.
- Of a position's protective levels `LiveEngine` has only that they are there. Whether
  levels recovered from the row found at startup are of the same deal is not told apart.
- Errors of SQLite and of the disk are not modelled, nor a signal inside a
  transaction. Each transaction of the store is atomic. What is modelled is a process
  that dies while it writes the token cache, a candle file or the ledger.
- An interrupt that reaches the engine while a broker request is in flight is
  taken before or after the request.
- `DealsTracked` and `AccountSafe` are stated for runs without a lost create:
  a deal whose answer was lost is unknown to the engine until it looks again,
  which the code accepts.
- An equity the broker reports is taken as it is; a payload without any known
  field counts as a failed read.
- `stop()` by the handler itself is one step: the same values were saved just
  before.
- In `RestSession` a process is not held up between two of its own steps for as long as
  a tick, and a client makes one call at a time (the pinger thread shares the client in
  the code; `WebSocketClient` has it only as the reason why a session lives).
- In `Preflight` nobody else trades while it runs: the deals of others stay as they are.
- In `EntryLimits` an order is filled at the price it was decided at, and positions keep
  the notional they were opened with.
- `Download` does not model `--max-bars 0`, nor a broker that answers a page in the
  midst of its history with fewer bars than asked for.
- The profit of a study is the sum of the results its backtests report, which is more
  than the account won where a commission is paid (`ResultsAreNet`, section 4).
- A backtest in `WalkForward` keeps nothing between two runs, as the code builds a new
  `Backtester` and a new strategy for each.

### Not modelled

- Strategies, indicators, the smart-money module (strategy/): numeric functions of the
  history without effects. Where they matter they are a free choice (`LiveEngine`,
  `Backtester`) or any function (`WalkForward`), which covers them all.
- Pair screening (research/screening.py): statistics of two price series that are
  printed; nothing reads them.
- Configuration, models, logging, metrics, report files: parsing, validation,
  formatting and statistics without a state of their own. The few that decide
  something (the profit factor, the thresholds of the verdicts, the parsing of a
  quote's time) are in the modules that use them.
- `flush` of the candle builder and `upsert_position` of the store: no caller in the
  program.
- `cost_stress`: the same study with other costs.

## 7. Plan

Done, in the order of what they protect: `RiskRules`, `RiskManager`; `LiveEngine`;
`RunLock`; `WebSocketClient`; `Backtester`; `CandleFeed`; `RestSession`;
`EntryLimits`; `ResearchRegistry` with `ResearchLedger` and `Verdicts`; `WalkForward`;
`Preflight`; `Download`; `SafeAccount`; the compositions `MCResearch`, `MCStartup` and `MCStream`.

Left:

1. An abstract `Lock` of one holder, implemented by `RunLock` under serial launches, and
   the proof of that refinement.
2. A theorem about a study of a finished download: that the bars it pools and tests on
   are the newest the broker had.
3. A composition: `RestSession` below `LiveEngine`, whose `gateway` fault is its retry.
