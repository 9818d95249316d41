---------------------------- MODULE RiskManager ----------------------------
(***************************************************************************)
(* One RiskManager over the life of an account: equity updates, the        *)
(* operator's kill(), snapshots to durable storage, and restarts of the    *)
(* process, after which a new object restores the last snapshot.           *)
(*                                                                         *)
(* Which updates and restarts happen is the caller's doing and is given by *)
(* two constants:                                                          *)
(*   OrderedDays    the candles' days never go back (one timeframe, every  *)
(*                  bar closed in time); FALSE lets a late bar of an       *)
(*                  earlier day arrive after a bar of a later one          *)
(*   RestartsAllowed  the process may end at any time, orderly or not, and *)
(*                  a new one start from whatever was saved last           *)
(*                                                                         *)
(* seen, deep, haltDays, kept, recent and today are history variables:     *)
(* nothing in the code holds them.  The first three are about the account  *)
(* as it is on record: what was reported to this process, or before the    *)
(* save it began from.  What a process was told behind its last save goes  *)
(* with it (live_engine.py:213-224 changes the state without saving it).   *)
(***************************************************************************)
EXTENDS RiskRules, FiniteSets

CONSTANTS
  Equities,         \* the account equities the broker may report
  OrderedDays,
  RestartsAllowed

ASSUME EquitiesAssumption == Equities \subseteq Int
ASSUME DayOrderAssumption == Days \subseteq Int
ASSUME SwitchesAssumption ==
  OrderedDays \in BOOLEAN /\ RestartsAllowed \in BOOLEAN

VARIABLES
  risk,      \* the RiskManager object
  saved,     \* the snapshot in the store, or NoState
  running,   \* the engine feeds updates (it does not start on a tripped switch)
  seen,      \* the equities on record
  deep,      \* one of them was a limit's worth below an earlier one
  haltDays,  \* the days on record on which the daily loss limit was breached
  kept,      \* these three as they were at the last save
  recent,    \* the last equities reported, restarts notwithstanding
  today      \* the day of the last candle, restarts notwithstanding

record == <<seen, deep, haltDays>>
vars == <<risk, saved, running, record, kept, recent, today>>

Records == [seen : SUBSET Equities, deep : BOOLEAN, haltDays : SUBSET Days]
NoRecord == [seen |-> {}, deep |-> FALSE, haltDays |-> {}]

TypeOK ==
  /\ risk \in RiskStates
  /\ saved \in Snapshots \cup {NoState}
  /\ running \in BOOLEAN
  /\ seen \subseteq Equities
  /\ deep \in BOOLEAN
  /\ haltDays \subseteq Days
  /\ kept \in Records
  /\ recent \in Seq(Equities)
  /\ today \in Days \cup {NoDay}

Init ==
  /\ risk = NewRisk
  /\ saved = NoState
  /\ running = TRUE
  /\ seen = {}
  /\ deep = FALSE
  /\ haltDays = {}
  /\ kept = NoRecord
  /\ recent = <<>>
  /\ today = NoDay

----------------------------------------------------------------------------

DaysToCome ==
  IF OrderedDays /\ today # NoDay THEN {d \in Days : d >= today} ELSE Days

\* update_equity(day, equity), with the histories of what it was told.
Update(d, e) ==
  /\ running
  /\ d \in DaysToCome
  /\ risk' = UpdateEquity(risk, d, e)
  /\ seen' = seen \cup {e}
  /\ deep' = (deep \/ \E x \in seen \cup {e} : Lost(x, e, MaxTotalDrawdownPct))
  /\ recent' = IF Rolling THEN Slide(recent, e) ELSE recent
  /\ haltDays' = IF Lost(RollDay(risk, d, e).dayStart, e, MaxDailyLossPct)
                   THEN haltDays \cup {d} ELSE haltDays
  /\ today' = d
  /\ UNCHANGED <<saved, running, kept>>

OperatorKill ==
  /\ risk' = Kill(risk)
  /\ UNCHANGED <<saved, running, record, kept, recent, today>>

Save ==
  /\ saved' = Snapshot(risk)
  /\ kept' = [seen |-> seen, deep |-> deep, haltDays |-> haltDays]
  /\ UNCHANGED <<risk, running, record, recent, today>>

\* The process has ended, and a new one restores the last snapshot.
Restart ==
  /\ RestartsAllowed
  /\ risk' = Restore(NewRisk, saved)
  /\ running' = ~risk'.killed
  /\ seen' = kept.seen /\ deep' = kept.deep /\ haltDays' = kept.haltDays
  /\ UNCHANGED <<saved, kept, recent, today>>

Next ==
  \/ \E d \in Days, e \in Equities : Update(d, e)
  \/ OperatorKill
  \/ Save
  \/ Restart

Spec == Init /\ [][Next]_vars

----------------------------------------------------------------------------

(***************************************************************************)
(* All-time mode: an account that on record was ever a drawdown limit      *)
(* below an earlier equity, however many days, recoveries, restarts and    *)
(* crashes ago, has its kill switch tripped.  A crash forgets what was not *)
(* saved, and no more: see RestartForgetsNothing.                          *)
(***************************************************************************)
DrawdownNeverForgotten == (~Rolling /\ deep) => risk.killed

(***************************************************************************)
(* A day on which, on record, the loss limit was breached stays closed for *)
(* entries as long as candles of that day arrive, also after restarts and  *)
(* crashes within it.                                                      *)
(***************************************************************************)
HaltLastsTheDay == risk.day \in haltDays => risk.halted

(***************************************************************************)
(* Rolling mode: while the switch is not tripped, the last equity is less  *)
(* than the limit below each of the last DrawdownPeakWindowBars equities,  *)
(* counted over the account's life and not over the process's.             *)
(***************************************************************************)
RollingPeakRemembered ==
  (Rolling /\ ~risk.killed) =>
    \A i \in DOMAIN recent :
      ~Lost(recent[i], recent[Len(recent)], MaxTotalDrawdownPct)

(***************************************************************************)
(* Rolling mode: an old peak expires.  When a whole window of updates      *)
(* reported one and the same positive equity, the update that fills the    *)
(* window leaves the switch open, whatever had tripped it before.          *)
(***************************************************************************)
FlatWindow(w) ==
  /\ Len(w) = DrawdownPeakWindowBars
  /\ \A i \in DOMAIN w : w[i] = w[1] /\ w[i] > 0

OldPeakExpires ==
  [][\A d \in Days, e \in Equities :
       (Rolling /\ Update(d, e) /\ FlatWindow(recent')) => ~risk'.killed]_vars

(***************************************************************************)
(* Claimed by README.md:234-235, "State is written on every open/close and *)
(* equity refresh", of a "crash-and-restart" (README.md:229): a restart    *)
(* forgets no high-water mark, no kill and no halt of the day.             *)
(***************************************************************************)
RestartForgetsNothing ==
  [][Restart => /\ risk'.peak >= risk.peak
                /\ risk.killed => risk'.killed
                /\ risk.halted => risk'.halted]_vars

(***************************************************************************)
(* Claimed by the docstring of `recoverable` (risk/manager.py:155-161): a  *)
(* recoverable kill switch re-arms itself.  An update that reports a       *)
(* positive equity no lower than any before it leaves such a switch open.  *)
(***************************************************************************)
RecoverableRearms ==
  [][\A d \in Days, e \in Equities :
       (Recoverable /\ Update(d, e) /\ e > 0 /\ \A x \in seen : x <= e)
         => ~risk'.killed]_vars

=============================================================================
