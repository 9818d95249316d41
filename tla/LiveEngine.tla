----------------------------- MODULE LiveEngine -----------------------------
(***************************************************************************)
(* LiveTradingEngine (forex_bot/live_engine.py) with LiveExecution, the    *)
(* RiskManager, the StateStore and the broker it trades at, over starts,   *)
(* stops and crashes of the process.                                       *)
(*                                                                         *)
(* The engine is one thread: websocket callbacks run inside run_forever.   *)
(* What happens between two of its steps is a crash, a signal (a Python    *)
(* signal handler runs between two bytecodes of that thread) or the broker *)
(* closing a deal.  A step is a broker call with the code up to the next   *)
(* one, or one transaction of the store.                                   *)
(*                                                                         *)
(* Not represented: sizes and prices, the spread filter, the exposure caps *)
(* and the minimum size (all of them are Reject), history warmup and the   *)
(* correlation model, errors of SQLite.  Of protective levels, whether a   *)
(* position has those of its order or may have lost one.                   *)
(* The websocket is "idle": connected, or about to reconnect.              *)
(***************************************************************************)
EXTENDS RiskRules, FiniteSets

CONSTANTS
  Epics, Sides,        \* the instruments; BUY and SELL
  NoPosition, NoDeal,  \* an absent position; deal_id None
  NoEpic, NoSide,
  Equities, StartingEquity,
  ExecFailureLimit,    \* exec_failure_limit
  MaxDeals,            \* bound: deals the broker opens in one behaviour
  Faults               \* what may go wrong, see FaultKinds

FaultKinds == {
  "crash",       \* the process dies
  "signal",      \* SIGTERM or Ctrl+C, from the first reconciliation on
  "early",       \* ... or before it
  "accounts",    \* get_accounts raises
  "lookup",      \* a read of /positions raises
  "confirm",     \* the dealReference is missing or confirm_deal raises
  "close",       \* a DELETE raises, done or not
  "lostCreate",  \* a POST opens a deal and raises
  "gateway"}     \* a POST opens a deal and answers 503, which is retried

ASSUME EngineAssumption ==
  /\ IsFiniteSet(Epics)
  /\ Faults \subseteq FaultKinds
  /\ ExecFailureLimit \in Nat \ {0}
  /\ MaxDeals \in Nat
  /\ Equities \subseteq Int /\ StartingEquity \in Int
  /\ NoDeal \notin Nat /\ NoEpic \notin Epics /\ NoSide \notin Sides

Deals == [id : 1..MaxDeals, epic : Epics, side : Sides]
Positions == [side : Sides, deal : 1..MaxDeals \cup {NoDeal}, levels : BOOLEAN]
ASSUME NoPositionAssumption == NoPosition \notin Positions

VARIABLES
  pc,            \* where the engine's thread is
  after,         \* where it goes on when a close loop or a save is over
  job,           \* the locals of the handler at work
  positions,     \* self._positions
  persisted,     \* self._persisted_positions: whose row had its levels
  risk,          \* self.risk
  equity,        \* self._equity
  killFlattened, \* self._kill_flattened
  failures,      \* self._consec_exec_failures
  stopped,       \* self.ws._stopped
  dbPos, dbRisk, \* the store: the positions table, the risk_state key
  book,          \* the deals open at the broker
  created        \* how many deals it ever opened

memory == <<positions, persisted, risk, equity, killFlattened, failures, stopped>>
store == <<dbPos, dbRisk>>
broker == <<book, created>>
vars == <<pc, after, job, memory, store, broker>>

Labels == {"down", "boot", "reconcile", "persist", "persist2", "started",
           "exit", "idle", "accounts", "signal", "entry", "precheck", "create",
           "confirm", "resolve", "close", "fallback", "probe", "closed",
           "closed2", "flattened", "stop"}

Continuations == {"started", "exit", "idle", "entry", "flattened", "stop"}

Jobs == [epic : Epics \cup {NoEpic}, side : Sides \cup {NoSide},
         deal : 1..MaxDeals \cup {NoDeal},
         queue : SUBSET Epics, closing : Epics \cup {NoEpic}]

NoJob == [epic |-> NoEpic, side |-> NoSide, deal |-> NoDeal,
          queue |-> {}, closing |-> NoEpic]

PositionMaps == [Epics -> Positions \cup {NoPosition}]
NoPositions == [e \in Epics |-> NoPosition]

Held == {e \in Epics : positions[e] # NoPosition}
OpenDeals(e) == {d \in book : d.epic = e}

TypeOK ==
  /\ pc \in Labels
  /\ after \in Continuations
  /\ job \in Jobs
  /\ positions \in PositionMaps
  /\ persisted \subseteq Epics
  /\ risk \in RiskStates
  /\ equity \in Int
  /\ killFlattened \in BOOLEAN
  /\ failures \in 0..ExecFailureLimit
  /\ stopped \in BOOLEAN
  /\ dbPos \in PositionMaps
  /\ dbRisk \in Snapshots \cup {NoState}
  /\ book \subseteq Deals
  /\ created \in 0..MaxDeals

Init ==
  /\ pc = "down" /\ after = "idle" /\ job = NoJob
  /\ positions = NoPositions /\ persisted = {}
  /\ risk = NewRisk /\ equity = StartingEquity
  /\ killFlattened = FALSE /\ failures = 0 /\ stopped = FALSE
  /\ dbPos = NoPositions /\ dbRisk = NoState
  /\ book = {} /\ created = 0

----------------------------------------------------------------------------
(* Control. *)

\* The handler returns to the websocket loop.
Return ==
  /\ pc' = "idle"
  /\ after' = "idle"
  /\ job' = NoJob

GoTo(label) ==
  /\ pc' = label
  /\ UNCHANGED <<after, job>>

SaveThen(label) ==
  /\ pc' = "persist"
  /\ after' = label
  /\ UNCHANGED job

\* `for ep in ...: self._close(ep)`, then go on at label.
CloseThen(epics, label) ==
  /\ pc' = "close"
  /\ after' = label
  /\ job' = [job EXCEPT !.queue = epics]

\* The end of the process: memory is gone.
Die ==
  /\ pc' = "down" /\ after' = "idle" /\ job' = NoJob
  /\ positions' = NoPositions /\ persisted' = {}
  /\ risk' = NewRisk /\ equity' = StartingEquity
  /\ killFlattened' = FALSE /\ failures' = 0 /\ stopped' = FALSE

----------------------------------------------------------------------------
(* Start, reconciliation, persistence. *)

\* cmd_run has built the engine and installed the signal handler.
Boot ==
  /\ pc = "down"
  /\ pc' = "boot"
  /\ after' = "started"
  /\ UNCHANGED <<job, memory, store, broker>>

RestoreState ==
  /\ pc = "boot"
  /\ risk' = Restore(risk, dbRisk)
  /\ persisted' = {e \in Epics : dbPos[e] # NoPosition /\ dbPos[e].levels}
  /\ GoTo("reconcile")
  /\ UNCHANGED <<positions, equity, killFlattened, failures, stopped, store, broker>>

\* Mutant: levels the broker does not show are looked for in memory only.
RecoveredLocally(e) == e \in Held /\ positions[e].levels

\* Levels the broker does not show come from the position held, else from
\* the row found at startup.
Recovered(e) == IF e \in Held THEN positions[e].levels ELSE e \in persisted

\* The broker is the source of truth; of two deals of an epic one is taken.
Listed(e) ==
  IF OpenDeals(e) = {} THEN {NoPosition}
  ELSE {[side |-> d.side, deal |-> d.id, levels |-> shown \/ Recovered(e)] :
          d \in OpenDeals(e), shown \in BOOLEAN}

Adoptions ==
  {p \in [Epics -> UNION {Listed(e) : e \in Epics}] : \A e \in Epics : p[e] \in Listed(e)}

ReconcilePositions ==
  /\ pc = "reconcile"
  /\ positions' \in Adoptions
  /\ GoTo("persist")
  /\ UNCHANGED <<persisted, risk, equity, killFlattened, failures, stopped, store,
                 broker>>

\* At startup the exception ends the process, after a reconnect it is logged.
ReconcileFails ==
  /\ pc = "reconcile"
  /\ "lookup" \in Faults
  /\ IF after = "started" THEN Die ELSE (Return /\ UNCHANGED memory)
  /\ UNCHANGED <<store, broker>>

\* _persist: two transactions.
SavePositions ==
  /\ pc = "persist"
  /\ dbPos' = positions
  /\ GoTo("persist2")
  /\ UNCHANGED <<memory, dbRisk, broker>>

SaveRisk ==
  /\ pc = "persist2"
  /\ dbRisk' = Snapshot(risk)
  /\ IF after = "idle" THEN Return ELSE GoTo(after)
  /\ UNCHANGED <<memory, dbPos, broker>>

\* The same where no step of the process comes in between.
SaveAll ==
  /\ dbPos' = positions
  /\ dbRisk' = Snapshot(risk)

\* A restored kill switch: flatten and leave.
StartKilled ==
  /\ pc = "started"
  /\ risk.killed
  /\ CloseThen(Held, "exit")
  /\ UNCHANGED <<memory, store, broker>>

\* run_forever begins by clearing _stopped.
Stream ==
  /\ pc = "started"
  /\ ~risk.killed
  /\ stopped' = FALSE
  /\ Return
  /\ UNCHANGED <<positions, persisted, risk, equity, killFlattened, failures, store,
                 broker>>

Exit ==
  /\ pc = "exit"
  /\ Die
  /\ UNCHANGED <<store, broker>>

\* The websocket loop ends once stopped, and start() returns.
Halt ==
  /\ pc = "idle"
  /\ stopped
  /\ Die
  /\ UNCHANGED <<store, broker>>

Reconnect ==
  /\ pc = "idle"
  /\ ~stopped
  /\ GoTo("reconcile")
  /\ UNCHANGED <<memory, store, broker>>

----------------------------------------------------------------------------
(* _on_candle: equity, kill switch, signal. *)

\* A bar closes, the handler begins.
Candle(e) ==
  /\ pc = "idle"
  /\ ~stopped
  /\ pc' = "accounts"
  /\ job' = [NoJob EXCEPT !.epic = e]
  /\ UNCHANGED <<after, memory, store, broker>>

\* _refresh_equity and the kill switch; a failed read keeps the last equity.
Refresh(d, e) ==
  LET now == UpdateEquity(risk, d, e)
  IN  /\ pc = "accounts"
      /\ e \in Equities \/ ("accounts" \in Faults /\ e = equity)
      /\ equity' = e
      /\ risk' = now
      /\ killFlattened' = (killFlattened /\ now.killed)
      /\ IF ~now.killed THEN GoTo("signal")
         ELSE IF ~killFlattened THEN CloseThen(Held, "flattened")
         ELSE IF Recoverable THEN Return
         ELSE GoTo("stop")
      /\ UNCHANGED <<positions, persisted, failures, stopped, store, broker>>

\* Mutant: the all-time mode keeps streaming.
FlattenedStreams ==
  /\ pc = "flattened"
  /\ killFlattened' = TRUE
  /\ SaveThen("idle")
  /\ UNCHANGED <<positions, persisted, risk, equity, failures, stopped, store, broker>>

Flattened ==
  /\ pc = "flattened"
  /\ killFlattened' = TRUE
  /\ SaveThen(IF Recoverable THEN "idle" ELSE "stop")
  /\ UNCHANGED <<positions, persisted, risk, equity, failures, stopped, store, broker>>

\* stop() from the handler itself, which has just saved the same.
Stop ==
  /\ pc = "stop"
  /\ SaveAll
  /\ stopped' = TRUE
  /\ Return
  /\ UNCHANGED <<positions, persisted, risk, equity, killFlattened, failures, broker>>

\* No signal, HOLD, or an exception in the strategy.
Hold ==
  /\ pc = "signal"
  /\ Return
  /\ UNCHANGED <<memory, store, broker>>

ExitSignal ==
  /\ pc = "signal"
  /\ CloseThen({job.epic} \cap Held, "idle")
  /\ UNCHANGED <<memory, store, broker>>

\* An entry on a held epic closes the opposite side first.
EntrySignal(s) ==
  /\ pc = "signal"
  /\ \/ /\ job.epic \notin Held
        /\ pc' = "entry"
        /\ job' = [job EXCEPT !.side = s]
        /\ UNCHANGED after
     \/ /\ job.epic \in Held
        /\ positions[job.epic].side = s
        /\ Return
     \/ /\ job.epic \in Held
        /\ positions[job.epic].side # s
        /\ pc' = "close"
        /\ after' = "entry"
        /\ job' = [job EXCEPT !.side = s, !.queue = {job.epic}]
  /\ UNCHANGED <<memory, store, broker>>

\* Any of the guards in front of _open, the ones without state here included.
Reject ==
  /\ pc = "entry"
  /\ Return
  /\ UNCHANGED <<memory, store, broker>>

\* Mutant: the execution halt is not looked at.
ApproveUnlimited ==
  /\ pc = "entry"
  /\ MayEnter(risk, equity, Cardinality(Held))
  /\ GoTo("precheck")
  /\ UNCHANGED <<memory, store, broker>>

Approve ==
  /\ pc = "entry"
  /\ failures < ExecFailureLimit
  /\ MayEnter(risk, equity, Cardinality(Held))
  /\ GoTo("precheck")
  /\ UNCHANGED <<memory, store, broker>>

----------------------------------------------------------------------------
(* _open and LiveExecution.execute. *)

\* Mutant: the new position is not saved.
RecordUnsaved(deal) ==
  /\ positions' = [positions EXCEPT ![job.epic] =
                     [side |-> job.side, deal |-> deal, levels |-> TRUE]]
  /\ failures' = 0
  /\ Return
  /\ UNCHANGED <<persisted, risk, equity, killFlattened, stopped, store>>

\* The order is filled: note the position and save.
Record(deal) ==
  /\ positions' = [positions EXCEPT ![job.epic] =
                     [side |-> job.side, deal |-> deal, levels |-> TRUE]]
  /\ failures' = 0
  /\ SaveThen("idle")
  /\ UNCHANGED <<persisted, risk, equity, killFlattened, stopped, store>>

\* execute() raised, a DealRejectedError or anything else.
ExecutionFails ==
  /\ failures' = failures + 1
  /\ Return
  /\ UNCHANGED <<positions, persisted, risk, equity, killFlattened, stopped, store>>

\* The broker opens a deal for the order at work.
OpenDeal ==
  /\ created < MaxDeals
  /\ created' = created + 1
  /\ book' = book \cup {[id |-> created + 1, epic |-> job.epic, side |-> job.side]}

\* An open deal of the epic is adopted instead of opening another.
PrecheckFinds ==
  /\ pc = "precheck"
  /\ \E d \in OpenDeals(job.epic) : Record(d.id)
  /\ UNCHANGED broker

\* Mutant: no idempotency guard.
PrecheckSkipped ==
  /\ pc = "precheck"
  /\ GoTo("create")
  /\ UNCHANGED <<memory, store, broker>>

PrecheckPasses ==
  /\ pc = "precheck"
  /\ OpenDeals(job.epic) = {} \/ "lookup" \in Faults
  /\ GoTo("create")
  /\ UNCHANGED <<memory, store, broker>>

CreateAccepted ==
  /\ pc = "create"
  /\ OpenDeal
  /\ pc' = "confirm"
  /\ job' = [job EXCEPT !.deal = created + 1]
  /\ UNCHANGED <<after, memory, store>>

\* The answer names no dealReference.
CreateUnnamed ==
  /\ pc = "create"
  /\ "confirm" \in Faults
  /\ OpenDeal
  /\ Record(NoDeal)

\* The request is accepted, the deal will be rejected.
CreateDeclined ==
  /\ pc = "create"
  /\ GoTo("confirm")
  /\ UNCHANGED <<memory, store, broker>>

CreateFails ==
  /\ pc = "create"
  /\ ExecutionFails
  /\ UNCHANGED broker

CreateLost ==
  /\ pc = "create"
  /\ "lostCreate" \in Faults
  /\ OpenDeal
  /\ ExecutionFails

\* _raw_request sends the POST again after a 503.
CreateRetried ==
  /\ pc = "create"
  /\ "gateway" \in Faults
  /\ OpenDeal
  /\ UNCHANGED <<pc, after, job, memory, store>>

Confirmed ==
  /\ pc = "confirm"
  /\ job.deal # NoDeal \/ "confirm" \in Faults
  /\ GoTo("resolve")
  /\ UNCHANGED <<memory, store, broker>>

\* Mutant: a confirmation that fails counts as a rejection.
ConfirmDoubted ==
  /\ pc = "confirm"
  /\ job.deal = NoDeal \/ "confirm" \in Faults
  /\ ExecutionFails
  /\ UNCHANGED broker

ConfirmRejected ==
  /\ pc = "confirm"
  /\ job.deal = NoDeal
  /\ ExecutionFails
  /\ UNCHANGED broker

\* The deal of the reference, else one of the epic, else none.
Resolved ==
  LET named == {d \in book : d.id = job.deal}
  IN  IF named # {} THEN named ELSE OpenDeals(job.epic)

Resolve ==
  /\ pc = "resolve"
  /\ \/ \E d \in Resolved : Record(d.id)
     \/ /\ Resolved = {} \/ "lookup" \in Faults
        /\ Record(NoDeal)
  /\ UNCHANGED broker

----------------------------------------------------------------------------
(* _close. *)

\* The open deals the first attempt would close.
Closable(e) ==
  IF positions[e].deal = NoDeal THEN OpenDeals(e)
  ELSE {d \in book : d.id = positions[e].deal}

CloseLoopEnds ==
  /\ pc = "close"
  /\ job.queue = {}
  /\ IF after = "idle" THEN Return ELSE GoTo(after)
  /\ UNCHANGED <<memory, store, broker>>

\* By its dealId, or by the epic when it has none.
Close(e) ==
  /\ pc = "close"
  /\ e \in job.queue
  /\ \E d \in Closable(e) : book' = book \ {d}
  /\ pc' = "closed"
  /\ job' = [job EXCEPT !.queue = @ \ {e}, !.closing = e]
  /\ UNCHANGED <<after, memory, store, created>>

CloseFails(e) ==
  /\ pc = "close"
  /\ e \in job.queue
  /\ \/ /\ \/ Closable(e) = {} \/ "close" \in Faults
           \/ positions[e].deal = NoDeal /\ "lookup" \in Faults
        /\ UNCHANGED book
     \/ /\ "close" \in Faults
        /\ \E d \in Closable(e) : book' = book \ {d}
  /\ pc' = "fallback"
  /\ job' = [job EXCEPT !.queue = @ \ {e}, !.closing = e]
  /\ UNCHANGED <<after, memory, store, created>>

CloseEpic ==
  /\ pc = "fallback"
  /\ \E d \in OpenDeals(job.closing) : book' = book \ {d}
  /\ GoTo("closed")
  /\ UNCHANGED <<memory, store, created>>

CloseEpicFails ==
  /\ pc = "fallback"
  /\ \/ /\ OpenDeals(job.closing) = {} \/ {"close", "lookup"} \cap Faults # {}
        /\ UNCHANGED book
     \/ /\ "close" \in Faults
        /\ \E d \in OpenDeals(job.closing) : book' = book \ {d}
  /\ GoTo("probe")
  /\ UNCHANGED <<memory, store, created>>

\* Both attempts failed.  The broker has no such position: drop ours.
ProbeGone ==
  /\ pc = "probe"
  /\ OpenDeals(job.closing) = {}
  /\ GoTo("closed")
  /\ UNCHANGED <<memory, store, broker>>

\* Mutant: a close that failed is tried again at once.
ProbeRetries ==
  /\ pc = "probe"
  /\ pc' = "close"
  /\ job' = [job EXCEPT !.queue = @ \cup {job.closing}]
  /\ UNCHANGED <<after, memory, store, broker>>

\* It has, or does not say: keep ours.
ProbeKeeps ==
  /\ pc = "probe"
  /\ OpenDeals(job.closing) # {} \/ "lookup" \in Faults
  /\ GoTo("close")
  /\ UNCHANGED <<memory, store, broker>>

RemovePosition ==
  /\ pc = "closed"
  /\ positions' = [positions EXCEPT ![job.closing] = NoPosition]
  /\ dbPos' = [dbPos EXCEPT ![job.closing] = NoPosition]
  /\ GoTo("closed2")
  /\ UNCHANGED <<persisted, risk, equity, killFlattened, failures, stopped, dbRisk,
                 broker>>

SaveRiskClosed ==
  /\ pc = "closed2"
  /\ dbRisk' = Snapshot(risk)
  /\ pc' = "close"
  /\ job' = [job EXCEPT !.closing = NoEpic]
  /\ UNCHANGED <<after, memory, dbPos, broker>>

----------------------------------------------------------------------------
(* Between two steps of the engine. *)

\* The broker closes a deal: a stop, a target, a margin call, a human.
BrokerCloses(d) ==
  /\ book' = book \ {d}
  /\ UNCHANGED <<pc, after, job, memory, store, created>>

Crash ==
  /\ pc # "down"
  /\ "crash" \in Faults
  /\ Die
  /\ UNCHANGED <<store, broker>>

\* Memory does not yet hold what the store and the broker know.
Unready == pc = "boot" \/ (pc = "reconcile" /\ after = "started")

MaySignal ==
  /\ pc # "down"
  /\ (IF Unready THEN "early" ELSE "signal") \in Faults

\* SIGTERM: engine.stop() inside whatever is running, which then goes on.
Terminate ==
  /\ MaySignal
  /\ ~stopped
  /\ SaveAll
  /\ stopped' = TRUE
  /\ UNCHANGED <<pc, after, job, positions, persisted, risk, equity,
                 killFlattened, failures, broker>>

\* Ctrl+C: the exception unwinds whatever is running, then engine.stop().
Interrupt ==
  /\ MaySignal
  /\ SaveAll
  /\ Die
  /\ UNCHANGED broker

Opening ==
  \/ PrecheckFinds \/ PrecheckPasses
  \/ CreateAccepted \/ CreateUnnamed \/ CreateDeclined
  \/ CreateFails \/ CreateLost \/ CreateRetried
  \/ Confirmed \/ ConfirmRejected \/ Resolve

Closing ==
  \/ CloseLoopEnds
  \/ \E e \in Epics : Close(e) \/ CloseFails(e)
  \/ CloseEpic \/ CloseEpicFails \/ ProbeGone \/ ProbeKeeps
  \/ RemovePosition \/ SaveRiskClosed

EngineStep ==
  \/ RestoreState \/ ReconcilePositions \/ ReconcileFails
  \/ SavePositions \/ SaveRisk
  \/ StartKilled \/ Stream \/ Exit \/ Halt
  \/ \E d \in Days, e \in Equities \cup {equity} : Refresh(d, e)
  \/ Flattened \/ Stop
  \/ Hold \/ ExitSignal \/ (\E s \in Sides : EntrySignal(s))
  \/ Reject \/ Approve
  \/ Opening
  \/ Closing

Environment ==
  \/ Boot
  \/ Reconnect
  \/ \E e \in Epics : Candle(e)
  \/ \E d \in book : BrokerCloses(d)
  \/ Crash \/ Terminate \/ Interrupt

Next == EngineStep \/ Environment

Spec == Init /\ [][Next]_vars

(***************************************************************************)
(* Every call of the engine returns: requests have a timeout and bounded   *)
(* retries, the store is local.  Candles, restarts and faults are not fair.*)
(***************************************************************************)
FairSpec == Spec /\ WF_vars(EngineStep)

----------------------------------------------------------------------------

(***************************************************************************)
(* The idempotency guard of LiveExecution.execute: whatever answers were   *)
(* lost and whenever the process was restarted, the broker never holds two *)
(* deals of one instrument.                                                *)
(***************************************************************************)
OneDealPerEpic ==
  \A d1, d2 \in book : d1.epic = d2.epic => d1 = d2

(***************************************************************************)
(* Between candles the engine knows of every deal open at the broker.      *)
(***************************************************************************)
DealsTracked == pc = "idle" => \A d \in book : d.epic \in Held

(***************************************************************************)
(* max_open_positions bounds what is open at the broker, not only what the *)
(* engine remembers, across restarts and stop-outs.                        *)
(***************************************************************************)
WithinMaxOpen == Cardinality(book) <= MaxOpenPositions

(***************************************************************************)
(* Between candles the store names the positions the engine holds, so that *)
(* a crash there loses none of their levels.                               *)
(***************************************************************************)
DurableMirror == pc = "idle" => dbPos = positions

(***************************************************************************)
(* A tripped switch is on disk before the next candle is handled.          *)
(***************************************************************************)
KillDurable ==
  (pc = "idle" /\ risk.killed) => (dbRisk # NoState /\ dbRisk.killed)

(***************************************************************************)
(* All-time mode: no save, restart or signal clears a kill on disk.        *)
(***************************************************************************)
DurablyKilled == dbRisk # NoState /\ dbRisk.killed
KillSurvives == [][(~Recoverable /\ DurablyKilled) => DurablyKilled']_vars

Keeps(old, new) == new # NoPosition /\ (old.levels => new.levels)

(***************************************************************************)
(* A stored position whose deal stays open is not dropped from the store   *)
(* and keeps its protective levels, also where the broker's listing does   *)
(* not show them (live_engine.py:159-164).                                 *)
(***************************************************************************)
LevelsSurvive ==
  [][\A d \in book \cap book' :
       (dbPos[d.epic] # NoPosition /\ dbPos[d.epic].deal = d.id)
         => Keeps(dbPos[d.epic], dbPos'[d.epic])]_vars

(***************************************************************************)
(* No deal is opened under a tripped switch (also one that only the disk   *)
(* knows of, in all-time mode), a daily halt or the execution halt.        *)
(***************************************************************************)
Blocked ==
  \/ risk.killed \/ risk.halted
  \/ failures >= ExecFailureLimit
  \/ (~Recoverable /\ DurablyKilled)
NoDealWhileBlocked == [][Blocked => created' = created]_vars

(***************************************************************************)
(* All of this together: the broker's book, what blocks an opening and the *)
(* kill on disk are a safe account, through every handler, crash, restart  *)
(* and signal.                                                             *)
(***************************************************************************)
Account == INSTANCE SafeAccount
  WITH MaxOpen <- MaxOpenPositions, Permanent <- ~Recoverable,
       open <- book, barred <- Blocked, killed <- DurablyKilled
AccountSafe == Account!Spec

(***************************************************************************)
(* All-time mode: a tripped switch ends the process ("the halt is          *)
(* permanent until a manual reset"), whatever fails while flattening.      *)
(***************************************************************************)
KillStops == (~Recoverable /\ risk.killed) ~> pc = "down"

(***************************************************************************)
(* One bad candle or broker hiccup never costs the price feed: the handler *)
(* always comes back.                                                      *)
(***************************************************************************)
HandlerReturns == (pc # "down") ~> (pc \in {"idle", "down"})

----------------------------------------------------------------------------
(* What docs and comments claim, and the code does not do. *)

(***************************************************************************)
(* README.md:234-235 "State is written on every open/close and equity      *)
(* refresh."                                                               *)
(***************************************************************************)
RefreshIsDurable ==
  (pc = "idle" /\ ~stopped /\ risk.day # NoDay) => dbRisk = Snapshot(risk)

(***************************************************************************)
(* state/store.py:10-12: the store is there lest a bot "that had already   *)
(* tripped" its kill switch resume after a crash.  All-time mode: a kill   *)
(* in memory stays, or is on disk when memory goes.  The code saves it     *)
(* with the first close of the flattening that works, or behind it         *)
(* (live_engine.py:267-275).                                               *)
(***************************************************************************)
TripSurvives ==
  [][(~Recoverable /\ risk.killed) => (risk'.killed \/ DurablyKilled')]_vars

(***************************************************************************)
(* README.md:206-208: past the drawdown limit "the engine flattens every   *)
(* position"; live_engine.py:393-394: a position that could not be closed  *)
(* is kept "so a later signal/kill can retry the close".  A switch counted *)
(* as flattened has left nothing.                                          *)
(***************************************************************************)
FlattenedMeansFlat == (pc = "idle" /\ killFlattened) => Held = {}

(***************************************************************************)
(* execution/live.py:36-38: "if one already exists for this epic, a prior  *)
(* create succeeded - adopt it": what is adopted is the order's, so a      *)
(* position and the deal it names are on the same side.                    *)
(***************************************************************************)
SidesAgree ==
  \A e \in Held, d \in book : positions[e].deal = d.id => positions[e].side = d.side

(***************************************************************************)
(* cli.py:705-706: SIGTERM must "shut down the same way (stop streaming,   *)
(* persist state)".                                                        *)
(***************************************************************************)
TermStops == stopped ~> pc = "down"

=============================================================================
